---------------------------- MODULE HostConnection ----------------------------
(***************************************************************************)
(* The Go host's side of the FFI boundary (ffi-hosts/go/internal/          *)
(* libddrcffi): X509Context and Connection, used by several goroutines at  *)
(* once, with the callbacks that the library's threads make into Go and    *)
(* the answers of the invoke pool.                                         *)
(*                                                                         *)
(* The native connection is seen through its contract, which module        *)
(* FFIConnection models in detail: callbacks happen between                *)
(* rc_conn_connected and the return of rc_conn_disconnected.  The pool is  *)
(* seen through DispatchContract: it answers what it accepted, and its     *)
(* shutdown returns when nothing is left to answer.                        *)
(***************************************************************************)
EXTENDS Naturals, FiniteSets

CONSTANTS
    Threads,     \* goroutines that use the context and its connections
    Conns,       \* connections that NewConnection may create
    Nobody,      \* the holder of a free mutex
    MaxJobs      \* capacity of the pool

ASSUME HostAssumption ==
    /\ MaxJobs \in Nat \ {0}
    /\ Nobody \notin Threads \cup Conns

VARIABLES
    ptr,         \* the library context: live or freed
    closer,      \* the goroutine that closed the context
    conns,       \* X509Context.conns
    mu,          \* holder of Connection.mu
    closed, connected,    \* connLifecycle
    native,      \* the FFIConnection: none, Init, Connected, disconnecting, Disconnected, freed
    open,        \* is the outgoing channel open and the pinned handle valid
    accepting,   \* invokePool.accepting
    pending,     \* jobs the pool accepted and has not answered
    answering,   \* how many of them are in a call into the library
    sendCb, dispatchCb,   \* is a thread of the library inside goSendCb, goDispatchCb
    received,    \* did the library get a message from the server
    pc, at,      \* what each goroutine does, and with which connection
    todo         \* connections that a goroutine in X509Context.Close must close

lifeVars == <<mu, closed, connected>>
poolVars == <<accepting, pending, answering>>
cbVars   == <<sendCb, dispatchCb, received>>
ctxVars  == <<ptr, closer, conns>>
vars == <<ctxVars, lifeVars, native, open, poolVars, cbVars, pc, at, todo>>

TypeOK ==
    /\ ptr \in {"live", "freed"} /\ closer \in Threads \cup {Nobody} /\ conns \subseteq Conns
    /\ mu \in [Conns -> Threads \cup {Nobody}]
    /\ closed \in [Conns -> BOOLEAN] /\ connected \in [Conns -> BOOLEAN]
    /\ native \in [Conns -> {"none", "Init", "Connected", "disconnecting", "Disconnected", "freed"}]
    /\ open \in [Conns -> BOOLEAN] /\ accepting \in [Conns -> BOOLEAN]
    /\ pending \in [Conns -> 0..MaxJobs] /\ answering \in [Conns -> 0..MaxJobs]
    /\ sendCb \in [Conns -> BOOLEAN] /\ dispatchCb \in [Conns -> BOOLEAN]
    /\ received \in [Conns -> BOOLEAN]
    /\ pc \in [Threads -> {"idle", "inConnected", "inRecv", "shutdown", "inDisconnected",
                           "inFree", "release", "forget", "closeAll"}]
    /\ at \in [Threads -> Conns \cup {Nobody}]
    /\ todo \in [Threads -> SUBSET Conns]

CtxClosed == closer # Nobody

Init ==
    /\ ptr = "live" /\ closer = Nobody /\ conns = {}
    /\ mu = [c \in Conns |-> Nobody]
    /\ closed = [c \in Conns |-> FALSE] /\ connected = [c \in Conns |-> FALSE]
    /\ native = [c \in Conns |-> "none"]
    /\ open = [c \in Conns |-> FALSE] /\ accepting = [c \in Conns |-> FALSE]
    /\ pending = [c \in Conns |-> 0] /\ answering = [c \in Conns |-> 0]
    /\ sendCb = [c \in Conns |-> FALSE] /\ dispatchCb = [c \in Conns |-> FALSE]
    /\ received = [c \in Conns |-> FALSE]
    /\ pc = [t \in Threads |-> "idle"] /\ at = [t \in Threads |-> Nobody]
    /\ todo = [t \in Threads |-> {}]

Goto(t, label) == pc' = [pc EXCEPT ![t] = label]

\* A goroutine whose Close returns goes on with X509Context.Close if that is
\* where it came from.
Return(t) ==
    /\ Goto(t, IF closer = t /\ ptr = "live" THEN "closeAll" ELSE "idle")
    /\ at' = [at EXCEPT ![t] = Nobody]

-------------------------------------------------------------------------------
(* NewConnection, Connected, Recv *)

\* All of it under the context's mutex, and none of it blocks.
NewConnection(t, c) ==
    /\ pc[t] = "idle" /\ native[c] = "none"
    /\ ~CtxClosed
    /\ native' = [native EXCEPT ![c] = "Init"]
    /\ open' = [open EXCEPT ![c] = TRUE]
    /\ accepting' = [accepting EXCEPT ![c] = TRUE]
    /\ conns' = conns \cup {c}
    /\ UNCHANGED <<ptr, closer, lifeVars, pending, answering, cbVars, pc, at, todo>>

\* Lock the connection and enter the library.
Enter(t, c, label) ==
    /\ pc[t] = "idle" /\ native[c] # "none"
    /\ mu[c] = Nobody
    /\ mu' = [mu EXCEPT ![c] = t]
    /\ Goto(t, label)
    /\ at' = [at EXCEPT ![t] = c]

Connected(t, c) ==
    /\ ~closed[c] /\ ~connected[c]
    /\ connected' = [connected EXCEPT ![c] = TRUE]
    /\ native' = [native EXCEPT ![c] = "Connected"]
    /\ Enter(t, c, "inConnected")
    /\ UNCHANGED <<ctxVars, closed, open, poolVars, cbVars, todo>>

ConnectedReturns(t) ==
    /\ pc[t] = "inConnected"
    /\ mu' = [mu EXCEPT ![at[t]] = Nobody]
    /\ Return(t)
    /\ UNCHANGED <<ctxVars, closed, connected, native, open, poolVars, cbVars, todo>>

Recv(t, c) ==
    /\ ~closed[c] /\ connected[c]
    /\ Enter(t, c, "inRecv")
    /\ received' = [received EXCEPT ![c] = TRUE]
    /\ UNCHANGED <<ctxVars, closed, connected, native, open, poolVars, sendCb, dispatchCb, todo>>

RecvReturns(t) ==
    /\ pc[t] = "inRecv"
    /\ mu' = [mu EXCEPT ![at[t]] = Nobody]
    /\ Return(t)
    /\ UNCHANGED <<ctxVars, closed, connected, native, open, poolVars, cbVars, todo>>

-------------------------------------------------------------------------------
(* Connection.Close *)

\* markClosed, and the part of pool.shutdown that stops new jobs.  A connection
\* that is closed already is left alone: ErrConnectionClosed.
Close(t, c) ==
    /\ \/ pc[t] = "idle" /\ native[c] # "none"
       \/ pc[t] = "closeAll" /\ c \in todo[t]
    /\ mu[c] = Nobody
    /\ todo' = [todo EXCEPT ![t] = @ \ {c}]
    /\ \/ /\ closed[c]
          /\ UNCHANGED <<lifeVars, accepting, pc, at>>
       \/ /\ ~closed[c]
          /\ mu' = [mu EXCEPT ![c] = t]
          /\ closed' = [closed EXCEPT ![c] = TRUE]
          /\ accepting' = [accepting EXCEPT ![c] = FALSE]
          /\ Goto(t, "shutdown")
          /\ at' = [at EXCEPT ![t] = c]
          /\ UNCHANGED connected
    /\ UNCHANGED <<ctxVars, native, open, pending, answering, cbVars>>

\* Mutant: the outgoing channel is closed as soon as the pool has drained.
ShutdownReturnsCloses(t) ==
    LET c == at[t] IN
    /\ pc[t] = "shutdown" /\ pending[c] = 0
    /\ Goto(t, IF connected[c] THEN "inDisconnected" ELSE "inFree")
    /\ native' = [native EXCEPT ![c] = IF connected[c] THEN "disconnecting" ELSE @]
    /\ open' = [open EXCEPT ![c] = FALSE]
    /\ UNCHANGED <<ctxVars, lifeVars, poolVars, cbVars, at, todo>>

\* pool.shutdown returns when every accepted job was answered.  Then comes
\* rc_conn_disconnected, if Connected was ever called.
ShutdownReturns(t) ==
    LET c == at[t] IN
    /\ pc[t] = "shutdown" /\ pending[c] = 0
    /\ Goto(t, IF connected[c] THEN "inDisconnected" ELSE "inFree")
    /\ native' = [native EXCEPT ![c] = IF connected[c] THEN "disconnecting" ELSE @]
    /\ UNCHANGED <<ctxVars, lifeVars, open, poolVars, cbVars, at, todo>>

DisconnectedReturns(t) ==
    /\ pc[t] = "inDisconnected"
    /\ ~sendCb[at[t]] /\ ~dispatchCb[at[t]]
    /\ native' = [native EXCEPT ![at[t]] = "Disconnected"]
    /\ Goto(t, "inFree")
    /\ UNCHANGED <<ctxVars, lifeVars, open, poolVars, cbVars, at, todo>>

FreeReturns(t) ==
    /\ pc[t] = "inFree"
    /\ native' = [native EXCEPT ![at[t]] = "freed"]
    /\ Goto(t, "release")
    /\ UNCHANGED <<ctxVars, lifeVars, open, poolVars, cbVars, at, todo>>

\* Mutant: the mutex is not unlocked.
ReleaseKeepsLock(t) ==
    /\ pc[t] = "release"
    /\ open' = [open EXCEPT ![at[t]] = FALSE]
    /\ Goto(t, "forget")
    /\ UNCHANGED <<ctxVars, lifeVars, native, poolVars, cbVars, at, todo>>

\* Release the handle, close the outgoing channel, unlock.
Release(t) ==
    /\ pc[t] = "release"
    /\ open' = [open EXCEPT ![at[t]] = FALSE]
    /\ mu' = [mu EXCEPT ![at[t]] = Nobody]
    /\ Goto(t, "forget")
    /\ UNCHANGED <<ctxVars, closed, connected, native, poolVars, cbVars, at, todo>>

\* The context's mutex is only ever held for one such step, or by rc_free.
Forget(t) ==
    /\ pc[t] = "forget"
    /\ conns' = conns \ {at[t]}
    /\ Return(t)
    /\ UNCHANGED <<ptr, closer, lifeVars, native, open, poolVars, cbVars, todo>>

-------------------------------------------------------------------------------
(* X509Context.Close *)

\* Mutant: only connections that are connected are closed.
CloseContextSkips(t) ==
    /\ pc[t] = "idle" /\ ~CtxClosed
    /\ closer' = t
    /\ todo' = [todo EXCEPT ![t] = {c \in conns : connected[c]}]
    /\ Goto(t, "closeAll")
    /\ UNCHANGED <<ptr, conns, lifeVars, native, open, poolVars, cbVars, at>>

CloseContext(t) ==
    /\ pc[t] = "idle" /\ ~CtxClosed
    /\ closer' = t
    /\ todo' = [todo EXCEPT ![t] = conns]
    /\ Goto(t, "closeAll")
    /\ UNCHANGED <<ptr, conns, lifeVars, native, open, poolVars, cbVars, at>>

\* Every connection was closed, by this goroutine or by another: rc_free.
FreeContext(t) ==
    /\ pc[t] = "closeAll" /\ todo[t] = {}
    /\ ptr' = "freed"
    /\ Goto(t, "idle")
    /\ UNCHANGED <<closer, conns, lifeVars, native, open, poolVars, cbVars, at, todo>>

-------------------------------------------------------------------------------
(* The library's threads and the pool's workers *)

(* A callback is in progress from the moment the library's thread takes the *)
(* message; it takes none once the disconnection has begun.                 *)

SendCbCalled(c) ==
    /\ native[c] = "Connected" /\ ~sendCb[c]
    /\ sendCb' = [sendCb EXCEPT ![c] = TRUE]
    /\ UNCHANGED <<ctxVars, lifeVars, native, open, poolVars, dispatchCb, received, pc, at, todo>>

SendCbReturns(c) ==
    /\ sendCb[c]
    /\ sendCb' = [sendCb EXCEPT ![c] = FALSE]
    /\ UNCHANGED <<ctxVars, lifeVars, native, open, poolVars, dispatchCb, received, pc, at, todo>>

DispatchCbCalled(c) ==
    /\ native[c] = "Connected" /\ received[c] /\ ~dispatchCb[c]
    /\ dispatchCb' = [dispatchCb EXCEPT ![c] = TRUE]
    /\ UNCHANGED <<ctxVars, lifeVars, native, open, poolVars, sendCb, received, pc, at, todo>>

\* Mutant: a job is taken without looking at accepting.
DispatchCbAlwaysAccepts(c) ==
    /\ dispatchCb[c]
    /\ dispatchCb' = [dispatchCb EXCEPT ![c] = FALSE]
    /\ \/ pending[c] < MaxJobs /\ pending' = [pending EXCEPT ![c] = @ + 1]
       \/ pending[c] = MaxJobs /\ UNCHANGED pending
    /\ UNCHANGED <<ctxVars, lifeVars, native, open, accepting, answering, sendCb, received, pc, at, todo>>

\* The payload is decoded and its handler looked up, which may fail, and the job
\* enqueued, which fails when the pool is full or shutting down.
DispatchCbReturns(c) ==
    /\ dispatchCb[c]
    /\ dispatchCb' = [dispatchCb EXCEPT ![c] = FALSE]
    /\ \/ /\ accepting[c] /\ pending[c] < MaxJobs
          /\ pending' = [pending EXCEPT ![c] = @ + 1]
       \/ UNCHANGED pending
    /\ UNCHANGED <<ctxVars, lifeVars, native, open, accepting, answering, sendCb, received, pc, at, todo>>

\* sendDispatchResult or sendDispatchError, on a goroutine of the pool.
AnswerStarts(c) ==
    /\ answering[c] < pending[c]
    /\ answering' = [answering EXCEPT ![c] = @ + 1]
    /\ UNCHANGED <<ctxVars, lifeVars, native, open, accepting, pending, cbVars, pc, at, todo>>

AnswerEnds(c) ==
    /\ answering[c] > 0
    /\ answering' = [answering EXCEPT ![c] = @ - 1]
    /\ pending' = [pending EXCEPT ![c] = @ - 1]
    /\ UNCHANGED <<ctxVars, lifeVars, native, open, accepting, cbVars, pc, at, todo>>

-------------------------------------------------------------------------------
Running(t) ==
    \/ ConnectedReturns(t) \/ RecvReturns(t) \/ ShutdownReturns(t) \/ DisconnectedReturns(t)
    \/ FreeReturns(t) \/ Release(t) \/ Forget(t) \/ FreeContext(t)

Library(c) ==
    SendCbReturns(c) \/ DispatchCbReturns(c) \/ AnswerStarts(c) \/ AnswerEnds(c)

Finished == ptr = "freed" /\ (\A t \in Threads : pc[t] = "idle") /\ UNCHANGED vars

Next ==
    \/ \E t \in Threads :
          \/ Running(t) \/ CloseContext(t)
          \/ \E c \in Conns :
                NewConnection(t, c) \/ Connected(t, c) \/ Recv(t, c) \/ Close(t, c)
    \/ \E c \in Conns : Library(c) \/ SendCbCalled(c) \/ DispatchCbCalled(c)
    \/ Finished

Spec == Init /\ [][Next]_vars

\* Goroutines and the library's threads run, callbacks and handlers return, and a
\* goroutine in X509Context.Close gets a mutex that others keep taking (a Go mutex
\* hands itself to a waiter that starves).
Fairness ==
    /\ \A t \in Threads : WF_vars(Running(t))
    /\ \A t \in Threads, c \in Conns : SF_vars(pc[t] = "closeAll" /\ Close(t, c))
    /\ \A c \in Conns :
          /\ WF_vars(SendCbReturns(c)) /\ WF_vars(DispatchCbReturns(c))
          /\ WF_vars(AnswerStarts(c)) /\ WF_vars(AnswerEnds(c))

FairSpec == Spec /\ Fairness

-------------------------------------------------------------------------------
(* Properties *)

InShared(t, c) == at[t] = c /\ pc[t] = "inRecv"
InExclusive(t, c) == at[t] = c /\ pc[t] \in {"inConnected", "inDisconnected", "inFree"}

\* rc_conn_connected, _disconnected and _free have the connection to themselves; no
\* goroutine is in a call on a connection that was freed, and the context is freed
\* after every connection made from it (Connection.Close, X509Context.Close).
NoUseAfterFree ==
    /\ \A t \in Threads, c \in Conns : InExclusive(t, c) =>
          /\ answering[c] = 0
          /\ \A u \in Threads \ {t} : ~InShared(u, c) /\ ~InExclusive(u, c)
    /\ \A c \in Conns : native[c] = "freed" =>
          answering[c] = 0 /\ \A t \in Threads : ~InShared(t, c) /\ ~InExclusive(t, c)
    /\ ptr = "freed" => \A c \in Conns : native[c] \in {"none", "freed"}

\* A callback finds its state and an open channel: close(outgoing) "cannot race a
\* goSendCb send onto it, which would panic".
CallbacksFindTheirState ==
    \A c \in Conns : (sendCb[c] \/ dispatchCb[c]) => open[c]

\* The pool is drained before the library would discard its results: a job that
\* waits for its answer has a connected connection.
AnswersReachTheLibrary ==
    \A c \in Conns : pending[c] > 0 => native[c] = "Connected"

\* X509Context.Close returns, whatever the other goroutines are doing with the
\* connections it closes.
ContextCloseReturns ==
    CtxClosed ~> (ptr = "freed")

-------------------------------------------------------------------------------
(* The inductive invariant behind the three safety properties: the mutex of *)
(* a connection says which goroutine is where in the library with it.       *)

Calls == {"inConnected", "inRecv", "shutdown", "inDisconnected", "inFree", "release"}

\* What a goroutine knows of the connection it works with.
CallInv(t) ==
    /\ pc[t] \in Calls \cup {"forget"} => at[t] \in Conns
    /\ pc[t] \in Calls => mu[at[t]] = t
    /\ pc[t] \in {"inConnected", "inRecv"} => ~closed[at[t]] /\ native[at[t]] = "Connected"
    /\ pc[t] = "inConnected" => ~received[at[t]]
    /\ pc[t] \in {"shutdown", "inDisconnected", "inFree", "release"} => closed[at[t]]
    /\ pc[t] = "shutdown" => native[at[t]] = IF connected[at[t]] THEN "Connected" ELSE "Init"
    /\ pc[t] = "inDisconnected" => native[at[t]] = "disconnecting"
    /\ pc[t] = "inFree" => native[at[t]] \in {"Init", "Disconnected"}
    /\ pc[t] \in {"release", "forget"} => native[at[t]] = "freed"

\* How far a connection has come, and who is closing it.
LifeInv(c) ==
    /\ ~closed[c] => native[c] \in IF connected[c] THEN {"Connected"} ELSE {"none", "Init"}
    /\ closed[c] => native[c] # "none" /\ ~accepting[c]
    /\ closed[c] /\ native[c] # "freed" =>
          /\ mu[c] \in Threads /\ at[mu[c]] = c
          /\ pc[mu[c]] \in {"shutdown", "inDisconnected", "inFree"}
    /\ native[c] \notin {"none", "freed"} => open[c] /\ c \in conns
    /\ native[c] = "none" => c \notin conns /\ \A t \in Threads : c \notin todo[t]

\* What the library and the pool may be doing with it.
WorkInv(c) ==
    /\ sendCb[c] \/ dispatchCb[c] => native[c] \in {"Connected", "disconnecting"}
    /\ dispatchCb[c] \/ pending[c] > 0 => received[c]
    /\ received[c] => connected[c]
    /\ answering[c] <= pending[c]
    /\ pending[c] > 0 => native[c] = "Connected"

\* The goroutine that closes the context is at it until the context is freed, and
\* has yet to close, or is closing, every connection that is still there.
CtxInv ==
    /\ \A t \in Threads : closer = t /\ ptr = "live" => pc[t] # "idle"
    /\ \A t \in Threads : pc[t] = "closeAll" => closer = t /\ ptr = "live"
    /\ ptr = "freed" => CtxClosed /\ \A c \in Conns : native[c] \in {"none", "freed"}
    /\ CtxClosed => \A c \in Conns : native[c] \notin {"none", "freed"} =>
                        c \in todo[closer] \/ (closed[c] /\ mu[c] = closer)

IInv ==
    /\ TypeOK /\ CtxInv
    /\ \A t \in Threads : CallInv(t)
    /\ \A c \in Conns : LifeInv(c) /\ WorkInv(c)
===============================================================================
