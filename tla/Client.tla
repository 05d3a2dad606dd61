-------------------------------- MODULE Client --------------------------------
(***************************************************************************)
(* The Go client of rcx509: Start and Close called from any goroutine, the *)
(* reconnecting run loop (client.go, backoff.go), and one session at a     *)
(* time between the websocket and the FFI connection (session.go), with    *)
(* its read worker and its deferred cleanup.                               *)
(*                                                                         *)
(* The FFI connection is seen from outside: it accepts dispatch requests,  *)
(* answers each one, sends messages of its own, and its Close returns when *)
(* nothing is left to answer (modules InvokePool, FFIConnection and        *)
(* HostConnection).  Messages are counted, not told apart.                 *)
(***************************************************************************)
EXTENDS Naturals, FiniteSets, FiniteSetsExt

CONSTANTS
    Callers,      \* goroutines that call Start and Close
    InCap,        \* incomingQueueCap
    OutCap,       \* outgoingQueueCap
    MaxOwed,      \* requests the invoke pool holds: its workers and its queue
    Initial,      \* defaultInitialBackoff, in units of half the smallest delay
    MaxBackoff    \* defaultMaxBackoff, in the same unit

ASSUME ClientAssumption ==
    /\ IsFiniteSet(Callers)
    /\ {InCap, OutCap, MaxOwed} \subseteq Nat \ {0}
    /\ Initial \in Nat \ {0} /\ Initial % 2 = 0
    /\ MaxBackoff \in Nat /\ MaxBackoff % 2 = 0 /\ MaxBackoff >= Initial

VARIABLES
    started, closed,  \* the flags of Client
    ctx,              \* the run loop's context: none, live or cancelled
    wg,               \* Client.wg
    freed,            \* ffiCtx.Close has been called
    pc,               \* what each caller is doing
    loop,             \* position of run, establishConnection and runSession
    base, delay,      \* the next delay before jitter, and the last delay slept
    healthy,          \* since that delay a session lasted for resetThreshold
    conn, owed, outgoing, dropped,  \* the FFI connection, see below
    ws, rd, incoming                \* the websocket and the read worker

lifeVars    == <<started, closed, ctx, wg, freed, pc>>
backoffVars == <<base, delay, healthy>>
connVars    == <<conn, owed, outgoing, dropped>>
wsVars      == <<ws, rd, incoming>>
vars        == <<lifeVars, loop, backoffVars, connVars, wsVars>>

\* Positions of runSession: its loop, then its deferred cleanup.
InLoop    == {"select", "recv", "write"}
InCleanup == {"close", "closing", "drain", "join"}

TypeOK ==
    /\ {started, closed, freed, healthy} \subseteq BOOLEAN
    /\ ctx \in {"none", "live", "cancelled"}
    /\ wg \in {0, 1}
    /\ pc \in [Callers -> {"idle", "running", "cancel", "wait", "free"}]
    /\ loop \in {"none", "establish", "dial", "connect", "start", "failed", "over",
                 "sleep", "return"} \cup InLoop \cup InCleanup
    /\ base \in 1..MaxBackoff /\ delay \in 0..MaxBackoff
    /\ conn \in {"none", "Init", "Connected", "closed"}
    /\ owed \in 0..MaxOwed /\ outgoing \in 0..OutCap
    \* the payload whose send failed, after which the library sends nothing more
    /\ dropped \in {"no", "message", "answer", "answerInCleanup"}
    /\ ws \in {"none", "open", "broken", "closed"}
    /\ rd \in {"none", "reading", "enqueueing", "ended"}
    /\ incoming \in 0..InCap

Init ==
    /\ started = FALSE /\ closed = FALSE /\ freed = FALSE
    /\ ctx = "none" /\ wg = 0
    /\ pc = [p \in Callers |-> "idle"]
    /\ loop = "none"
    /\ base = Initial /\ delay = 0 /\ healthy = FALSE
    /\ conn = "none" /\ owed = 0 /\ outgoing = 0 /\ dropped = "no"
    /\ ws = "none" /\ rd = "none" /\ incoming = 0

-------------------------------------------------------------------------------
(* Start and Close.  A call that returns ErrClientClosed or                *)
(* ErrAlreadyStarted changes nothing and is not a step.                    *)

\* Mutant: Start does not look at closed.
StartAfterClose(p) ==
    /\ pc[p] = "idle" /\ ~started
    /\ started' = TRUE /\ ctx' = "live" /\ wg' = wg + 1
    /\ pc' = [pc EXCEPT ![p] = "running"]
    /\ loop' = "establish"
    /\ UNCHANGED <<closed, freed, backoffVars, connVars, wsVars>>

\* The critical section of Start.
Start(p) ==
    /\ pc[p] = "idle" /\ ~closed /\ ~started
    /\ started' = TRUE /\ ctx' = "live" /\ wg' = wg + 1
    /\ pc' = [pc EXCEPT ![p] = "running"]
    /\ loop' = "establish"
    /\ UNCHANGED <<closed, freed, backoffVars, connVars, wsVars>>

\* run has returned: the deferred wg.Done, and Start returns.
StartReturns(p) ==
    /\ pc[p] = "running" /\ loop = "return"
    /\ wg' = wg - 1
    /\ pc' = [pc EXCEPT ![p] = "idle"]
    /\ loop' = "none"
    /\ UNCHANGED <<started, closed, ctx, freed, backoffVars, connVars, wsVars>>

\* The critical section of Close: it remembers the cancel function it finds.
Close(p) ==
    /\ pc[p] = "idle" /\ ~closed
    /\ closed' = TRUE
    /\ pc' = [pc EXCEPT ![p] = IF ctx = "none" THEN "wait" ELSE "cancel"]
    /\ UNCHANGED <<started, ctx, wg, freed, loop, backoffVars, connVars, wsVars>>

\* Mutant: the cancel function is not called.
CancelForgotten(p) ==
    /\ pc[p] = "cancel"
    /\ pc' = [pc EXCEPT ![p] = "wait"]
    /\ UNCHANGED <<started, closed, ctx, wg, freed, loop, backoffVars, connVars, wsVars>>

Cancel(p) ==
    /\ pc[p] = "cancel"
    /\ ctx' = "cancelled"
    /\ pc' = [pc EXCEPT ![p] = "wait"]
    /\ UNCHANGED <<started, closed, wg, freed, loop, backoffVars, connVars, wsVars>>

WaitReturns(p) ==
    /\ pc[p] = "wait" /\ wg = 0
    /\ pc' = [pc EXCEPT ![p] = "free"]
    /\ UNCHANGED <<started, closed, ctx, wg, freed, loop, backoffVars, connVars, wsVars>>

\* ffiCtx.Close, which closes a connection that is still there.
FreeContext(p) ==
    /\ pc[p] = "free"
    /\ freed' = TRUE
    /\ conn' = IF conn = "none" THEN "none" ELSE "closed"
    /\ pc' = [pc EXCEPT ![p] = "idle"]
    /\ UNCHANGED <<started, closed, ctx, wg, loop, backoffVars, owed, outgoing, dropped, wsVars>>

-------------------------------------------------------------------------------
(* run and establishConnection *)

\* backoff.Next with base delay b: half of it fixed, half of it random, below b.
SleepFor(b) ==
    /\ delay' \in (b \div 2)..(b - 1)
    /\ base' = Min({2 * b, MaxBackoff})
    /\ loop' = "sleep"

NewConnection ==
    /\ loop = "establish" /\ ~freed
    /\ conn' = "Init" /\ outgoing' = 0 /\ dropped' = "no"
    /\ loop' = "dial"
    /\ UNCHANGED <<lifeVars, backoffVars, owed, wsVars>>

NewConnectionFails ==
    /\ loop = "establish"
    /\ loop' = "failed"
    /\ UNCHANGED <<lifeVars, backoffVars, connVars, wsVars>>

Dial ==
    /\ loop = "dial"
    /\ ws' = "open"
    /\ loop' = "connect"
    /\ UNCHANGED <<lifeVars, backoffVars, connVars, rd, incoming>>

\* The dial fails, times out or is cancelled: close the FFI connection.
DialFails ==
    /\ loop = "dial"
    /\ conn' = "closed"
    /\ loop' = "failed"
    /\ UNCHANGED <<lifeVars, backoffVars, owed, outgoing, dropped, wsVars>>

Connected ==
    /\ loop = "connect"
    /\ conn' = "Connected"
    /\ loop' = "start"
    /\ UNCHANGED <<lifeVars, backoffVars, owed, outgoing, dropped, wsVars>>

\* Mutant: the websocket stays open.
ConnectedFailsLeaks ==
    /\ loop = "connect"
    /\ conn' = "closed"
    /\ loop' = "failed"
    /\ UNCHANGED <<lifeVars, backoffVars, owed, outgoing, dropped, wsVars>>

\* Connected returns an error: close both sides.
ConnectedFails ==
    /\ loop = "connect"
    /\ conn' = "closed" /\ ws' = "closed"
    /\ loop' = "failed"
    /\ UNCHANGED <<lifeVars, backoffVars, owed, outgoing, dropped, rd, incoming>>

\* No connection: give up if cancelled, else wait.
Failed ==
    /\ loop = "failed"
    /\ IF ctx = "cancelled"
          THEN loop' = "return" /\ UNCHANGED <<base, delay>>
          ELSE SleepFor(base)
    /\ healthy' = FALSE
    /\ UNCHANGED <<lifeVars, connVars, wsVars>>

\* Mutant: every session resets the backoff.
SessionOverResets ==
    /\ loop = "over"
    /\ IF ctx = "cancelled"
          THEN loop' = "return" /\ UNCHANGED backoffVars
          ELSE healthy' \in BOOLEAN /\ SleepFor(Initial)
    /\ UNCHANGED <<lifeVars, connVars, wsVars>>

\* The session has ended: give up if cancelled, else wait, from the initial delay
\* again if the session lasted for resetThreshold.
SessionOver ==
    /\ loop = "over"
    /\ IF ctx = "cancelled"
          THEN loop' = "return" /\ UNCHANGED backoffVars
          ELSE healthy' \in BOOLEAN /\ SleepFor(IF healthy' THEN Initial ELSE base)
    /\ UNCHANGED <<lifeVars, connVars, wsVars>>

SleepElapses ==
    /\ loop = "sleep"
    /\ loop' = "establish"
    /\ UNCHANGED <<lifeVars, backoffVars, connVars, wsVars>>

SleepCancelled ==
    /\ loop = "sleep" /\ ctx = "cancelled"
    /\ loop' = "return"
    /\ UNCHANGED <<lifeVars, backoffVars, connVars, wsVars>>

-------------------------------------------------------------------------------
(* runSession *)

\* A fresh channel and a read worker.
StartSession ==
    /\ loop = "start"
    /\ rd' = "reading" /\ incoming' = 0
    /\ loop' = "select"
    /\ UNCHANGED <<lifeVars, backoffVars, connVars, ws>>

SelectDone ==
    /\ loop = "select" /\ ctx = "cancelled"
    /\ loop' = "close"
    /\ UNCHANGED <<lifeVars, backoffVars, connVars, wsVars>>

SelectIncoming ==
    /\ loop = "select" /\ incoming > 0
    /\ incoming' = incoming - 1
    /\ loop' = "recv"
    /\ UNCHANGED <<lifeVars, backoffVars, connVars, ws, rd>>

\* The read worker has closed the channel and nothing is left in it.
SelectIncomingClosed ==
    /\ loop = "select" /\ incoming = 0 /\ rd = "ended"
    /\ loop' = "close"
    /\ UNCHANGED <<lifeVars, backoffVars, connVars, wsVars>>

\* conn.Recv.  The message may be a dispatch request that the invoke pool takes,
\* if it has room.  A message the library rejects is dropped.
Recv ==
    /\ loop = "recv"
    /\ IF conn = "Connected"
          THEN loop' = "select" /\ owed' \in {owed, Min({owed + 1, MaxOwed})}
          ELSE loop' = "close" /\ UNCHANGED owed
    /\ UNCHANGED <<lifeVars, backoffVars, conn, outgoing, dropped, wsVars>>

\* A payload, or the end of the channel, which is closed with the connection.
OutgoingReady == outgoing > 0 \/ conn = "closed"

SelectOutgoing ==
    /\ loop = "select" /\ OutgoingReady
    /\ IF outgoing > 0
          THEN loop' = "write" /\ outgoing' = outgoing - 1
          ELSE loop' = "close" /\ UNCHANGED outgoing
    /\ UNCHANGED <<lifeVars, backoffVars, conn, owed, dropped, wsVars>>

Write ==
    /\ loop = "write" /\ ws = "open"
    /\ loop' = "select"
    /\ UNCHANGED <<lifeVars, backoffVars, connVars, wsVars>>

\* The websocket is broken, writeTimeout has passed, or ctx was cancelled.
WriteFails ==
    /\ loop = "write"
    /\ ws' = "broken"
    /\ loop' = "close"
    /\ UNCHANGED <<lifeVars, backoffVars, connVars, rd, incoming>>

-------------------------------------------------------------------------------
(* The deferred cleanup of runSession *)

\* conn.Close begins: the invoke pool takes no more requests.
CloseConn ==
    /\ loop = "close"
    /\ loop' = "closing"
    /\ UNCHANGED <<lifeVars, backoffVars, connVars, wsVars>>

\* Every accepted request has been answered; disconnect, free, close the channel.
CloseConnReturns ==
    /\ loop = "closing" /\ owed = 0
    /\ conn' = "closed"
    /\ loop' = "drain"
    /\ UNCHANGED <<lifeVars, backoffVars, owed, outgoing, dropped, wsVars>>

DrainWrite ==
    /\ loop = "drain" /\ outgoing > 0 /\ ws = "open"
    /\ outgoing' = outgoing - 1
    /\ UNCHANGED <<lifeVars, loop, backoffVars, conn, owed, dropped, wsVars>>

\* A write fails: the rest of the closed channel is discarded.
DrainWriteFails ==
    /\ loop = "drain" /\ outgoing > 0
    /\ outgoing' = 0 /\ ws' = "broken"
    /\ UNCHANGED <<lifeVars, loop, backoffVars, conn, owed, dropped, rd, incoming>>

\* ws.CloseNow and cancelRead.
DrainDone ==
    /\ loop = "drain" /\ outgoing = 0
    /\ ws' = "closed"
    /\ loop' = "join"
    /\ UNCHANGED <<lifeVars, backoffVars, connVars, rd, incoming>>

\* wg.Wait for the read worker.
JoinReader ==
    /\ loop = "join" /\ rd = "ended"
    /\ rd' = "none"
    /\ loop' = "over"
    /\ UNCHANGED <<lifeVars, backoffVars, connVars, ws, incoming>>

-------------------------------------------------------------------------------
(* readWorker *)

\* Mutant: the read context is not cancelled by the cleanup.
ReadCancelledByClose == ctx = "cancelled"

\* readCtx is derived from ctx, and cancelled by the cleanup.
ReadCancelled == ctx = "cancelled" \/ loop = "join"

ReadMessage ==
    /\ rd = "reading" /\ ws = "open"
    /\ rd' = "enqueueing"
    /\ UNCHANGED <<lifeVars, loop, backoffVars, connVars, ws, incoming>>

Enqueue ==
    /\ rd = "enqueueing" /\ incoming < InCap
    /\ incoming' = incoming + 1
    /\ rd' = "reading"
    /\ UNCHANGED <<lifeVars, loop, backoffVars, connVars, ws>>

EnqueueCancelled ==
    /\ rd = "enqueueing" /\ ReadCancelled
    /\ rd' = "ended"
    /\ UNCHANGED <<lifeVars, loop, backoffVars, connVars, ws, incoming>>

\* A frame that is empty or not binary ends the worker, the websocket stays open.
ReadBadFrame ==
    /\ rd = "reading" /\ ws = "open"
    /\ rd' = "ended"
    /\ UNCHANGED <<lifeVars, loop, backoffVars, connVars, ws, incoming>>

\* The websocket is gone, or the read is cancelled, which breaks the websocket.
ReadFails ==
    /\ rd = "reading"
    /\ ws # "open" \/ ReadCancelled
    /\ rd' = "ended"
    /\ ws' = IF ws = "open" THEN "broken" ELSE ws
    /\ UNCHANGED <<lifeVars, loop, backoffVars, connVars, incoming>>

-------------------------------------------------------------------------------
(* The backend and the library *)

PeerCloses ==
    /\ ws = "open"
    /\ ws' = "broken"
    /\ UNCHANGED <<lifeVars, loop, backoffVars, connVars, rd, incoming>>

\* goSendCb: a payload is queued, or the send fails when the queue is full, after
\* which the library's I/O task is gone and nothing more is sent.
SendCb(failure) ==
    IF dropped = "no" /\ outgoing < OutCap
       THEN outgoing' = outgoing + 1 /\ UNCHANGED dropped
       ELSE /\ dropped' = IF dropped = "no" THEN failure ELSE dropped
            /\ UNCHANGED outgoing

\* A message of the library's own: a hello, a pong, a report.
LibrarySends ==
    /\ conn = "Connected"
    /\ SendCb("message")
    /\ UNCHANGED <<lifeVars, loop, backoffVars, conn, owed, wsVars>>

\* A handler has returned or timed out and its answer goes through the library.
Answer ==
    /\ conn = "Connected" /\ owed > 0
    /\ owed' = owed - 1
    /\ SendCb(IF loop = "closing" THEN "answerInCleanup" ELSE "answer")
    /\ UNCHANGED <<lifeVars, loop, backoffVars, conn, wsVars>>

-------------------------------------------------------------------------------
(* The specification *)

\* The client is closed, and nothing is left to happen.
Finished == closed /\ freed /\ UNCHANGED vars

CallerStep(p) ==
    StartReturns(p) \/ Cancel(p) \/ WaitReturns(p) \/ FreeContext(p)

RunStep ==
    \/ NewConnection \/ NewConnectionFails \/ Dial \/ DialFails
    \/ Connected \/ ConnectedFails \/ Failed \/ SessionOver
    \/ SleepElapses \/ SleepCancelled
    \/ StartSession \/ SelectDone \/ SelectIncoming \/ SelectIncomingClosed
    \/ Recv \/ SelectOutgoing \/ Write \/ WriteFails
    \/ CloseConn \/ CloseConnReturns
    \/ DrainWrite \/ DrainWriteFails \/ DrainDone \/ JoinReader

ReaderStep == ReadMessage \/ Enqueue \/ EnqueueCancelled \/ ReadFails

Next ==
    \/ \E p \in Callers : Start(p) \/ Close(p) \/ CallerStep(p)
    \/ RunStep \/ ReaderStep \/ ReadBadFrame
    \/ PeerCloses \/ LibrarySends \/ Answer
    \/ Finished

Spec == Init /\ [][Next]_vars

\* Goroutines are scheduled, dials and writes end within their timeouts, and every
\* accepted request is answered.  A select chooses at random among the cases that
\* are ready, so one that is ready time and again is taken.  Nobody has to call
\* Start or Close, no frame has to arrive, and the backend may stay silent.
FairSpec ==
    /\ Spec
    /\ \A p \in Callers : WF_vars(CallerStep(p))
    /\ WF_vars(RunStep)
    /\ SF_vars(SelectDone) /\ SF_vars(SelectIncoming) /\ SF_vars(SelectIncomingClosed)
    /\ WF_vars(Enqueue \/ EnqueueCancelled) /\ WF_vars(ReadFails)
    /\ WF_vars(Answer)

-------------------------------------------------------------------------------
(* Properties *)

\* The FFI context is released only when the run loop has ended, and no run loop
\* begins after that: a Start that races Close either is waited for or refused.
\* So a session's connection is never closed under it (errFFIConnectionReleased).
ContextOutlivesLoop ==
    /\ freed => loop = "none"
    /\ loop \in InLoop => conn = "Connected"

\* Between two sessions, and after the last one, there is no open FFI connection,
\* no open websocket, no read worker and no unanswered request, whichever step of
\* establishConnection failed or ended the session.
NothingLeftBehind ==
    loop \in {"none", "establish", "failed", "over", "sleep", "return"} =>
        /\ conn \in {"none", "closed"} /\ ws \in {"none", "closed"}
        /\ rd = "none" /\ owed = 0

\* Without a healthy session in between, each reconnection delay is longer than
\* the one before it, in spite of the jitter, up to half of the maximum.
DelayGrows ==
    [][loop # "sleep" /\ loop' = "sleep" /\ ~healthy'
          => delay' >= Min({delay + 1, MaxBackoff \div 2})]_vars

\* Close returns, whatever the run loop, the session and the read worker do.
CloseReturns == \A p \in Callers : pc[p] = "cancel" ~> pc[p] = "idle"

\* A session whose websocket breaks or whose read worker ends is taken down, and
\* another attempt is made unless the client is closed.
BrokenSessionIsReplaced ==
    (loop \in InLoop /\ (ws = "broken" \/ rd = "ended")) ~> loop \in {"establish", "none"}

\* The answers of the requests that conn.Close waits for are queued, for
\* drainOutgoing to write them.
CleanupAnswersAreQueued == dropped # "answerInCleanup"

-------------------------------------------------------------------------------
(* The inductive invariant behind the safety properties. *)

\* Who may still be in run, or about to release the context: Start is called once,
\* and not after Close, and the wait group counts the run loop.
LifeInv ==
    /\ wg = IF loop = "none" THEN 0 ELSE 1
    /\ loop # "none" => \E p \in Callers : pc[p] = "running"
    /\ \A p, q \in Callers : pc[p] = "running" /\ pc[q] = "running" => p = q
    /\ \A p \in Callers :
          /\ pc[p] = "running" => loop # "none" /\ started
          /\ pc[p] \in {"cancel", "wait", "free"} => closed
          /\ pc[p] = "free" => loop = "none"
    /\ freed => closed /\ loop = "none"

\* What each position of the run loop holds of the connection and the websocket.
SessionInv ==
    /\ loop = "dial" => conn = "Init" /\ ws \in {"none", "closed"}
    /\ loop = "connect" => conn = "Init"
    /\ loop \in {"dial", "connect", "start"} => rd = "none" /\ owed = 0
    /\ loop \in {"start", "close", "closing"} \cup InLoop => conn = "Connected"
    /\ loop \in {"drain", "join"} => conn = "closed" /\ owed = 0
    /\ loop = "join" => ws = "closed"
    /\ NothingLeftBehind

\* The next base delay is twice the one that bounded the last delay, or the maximum.
BackoffInv == delay < base \div 2 \/ base = MaxBackoff

IInv == TypeOK /\ LifeInv /\ SessionInv /\ BackoffInv

===============================================================================
