------------------------------ MODULE InvokePool ------------------------------
(***************************************************************************)
(* The pool of goroutines with which the Go host runs dispatch handlers    *)
(* (ffi-hosts/go/internal/libddrcffi/invokepool.go), with the one caller   *)
(* of enqueue (the connection's dispatch task, through goDispatchCb) and   *)
(* the one caller of shutdown (Connection.Close).                          *)
(*                                                                         *)
(* Every goroutine is split where another one can observe it: the channel  *)
(* send of enqueue and the wg.Add that follows it, the compare-and-swap on *)
(* `completed', the call into the sink, and wg.Done.                       *)
(***************************************************************************)
EXTENDS Integers, Sequences, FiniteSets

CONSTANTS
    Jobs,         \* the dispatched payloads, by correlation id
    Workers,      \* the goroutines running invokeWorker
    QueueCap,     \* capacity of dispatchQueue
    Hanging,      \* the jobs whose HandlerFunc ignores its context and never returns
    None          \* no job

ASSUME PoolAssumption ==
    /\ IsFiniteSet(Jobs)
    /\ QueueCap \in Nat \ {0}
    /\ Hanging \subseteq Jobs
    /\ None \notin Jobs

VARIABLES
    offer,        \* what enqueue has returned for each job: "new" before the call
    queue,        \* dispatchQueue
    adding,       \* the job sent to dispatchQueue and not yet counted in wg, or
                  \* None; enqueue holds dispatchMu while it is not None
    wg,           \* the counter of the WaitGroup; the process dies below zero
    closer,       \* how far the caller of shutdown is
    wpc,          \* where each worker is
    wjob,         \* the job each worker is handling
    draining,     \* has the worker seen stop closed (drainDispatchQueue)
    ctx,          \* the handler context of each job
    completed,    \* the atomic.Bool of invokeHandler, for each job
    watcher,      \* the timeout watcher goroutine of each job
    answers,      \* the calls of the sink that have returned, for each job
    released      \* the jobs for which wg.Done has been called

workerVars == <<wpc, wjob, draining>>
jobVars    == <<ctx, completed, watcher, answers, released>>
vars       == <<offer, queue, adding, wg, closer, workerVars, jobVars>>

Answers == {"result", "error", "timeout"}

TypeOK ==
    /\ offer \in [Jobs -> {"new", "accepted", "refused"}]
    /\ queue \in Seq(Jobs)
    /\ Len(queue) \in 0..QueueCap
    /\ adding \in Jobs \cup {None}
    /\ wg \in Int
    /\ closer \in {"open", "stopped", "waiting", "returned"}
    /\ wpc \in [Workers -> {"loop", "handler", "recover", "send", "fail", "done", "exited"}]
    /\ wjob \in [Workers -> Jobs \cup {None}]
    /\ draining \in [Workers -> BOOLEAN]
    /\ ctx \in [Jobs -> {"none", "live", "expired", "cancelled"}]
    /\ completed \in [Jobs -> BOOLEAN]
    /\ watcher \in [Jobs -> {"none", "wait", "send", "done", "exited"}]
    /\ answers \in [Jobs -> Seq(Answers)]
    /\ released \subseteq Jobs

Init ==
    /\ offer = [j \in Jobs |-> "new"]
    /\ queue = <<>>
    /\ adding = None
    /\ wg = 0
    /\ closer = "open"
    /\ wpc = [w \in Workers |-> "loop"]
    /\ wjob = [w \in Workers |-> None]
    /\ draining = [w \in Workers |-> FALSE]
    /\ ctx = [j \in Jobs |-> "none"]
    /\ completed = [j \in Jobs |-> FALSE]
    /\ watcher = [j \in Jobs |-> "none"]
    /\ answers = [j \in Jobs |-> <<>>]
    /\ released = {}

Alive == wg >= 0       \* a negative WaitGroup counter panics, outside any recover
StopClosed == closer \in {"waiting", "returned"}

-------------------------------------------------------------------------------
(* enqueue, called by goDispatchCb.  One dispatch task calls it, so one job *)
(* at a time; dispatchMu keeps shutdown out until wg has been incremented.  *)

\* Mutant: accepting is not looked at.
EnqueueSendLate(j) ==
    /\ Alive /\ adding = None
    /\ offer[j] = "new"
    /\ Len(queue) < QueueCap
    /\ offer' = [offer EXCEPT ![j] = "accepted"]
    /\ queue' = Append(queue, j)
    /\ adding' = j
    /\ UNCHANGED <<wg, closer, workerVars, jobVars>>

EnqueueSend(j) ==
    /\ Alive /\ adding = None
    /\ offer[j] = "new"
    /\ closer = "open" /\ Len(queue) < QueueCap
    /\ offer' = [offer EXCEPT ![j] = "accepted"]
    /\ queue' = Append(queue, j)
    /\ adding' = j
    /\ UNCHANGED <<wg, closer, workerVars, jobVars>>

EnqueueRefuse(j) ==
    /\ Alive /\ adding = None
    /\ offer[j] = "new"
    /\ closer # "open" \/ Len(queue) = QueueCap
    /\ offer' = [offer EXCEPT ![j] = "refused"]
    /\ UNCHANGED <<queue, adding, wg, closer, workerVars, jobVars>>

EnqueueAdd ==
    /\ Alive /\ adding # None
    /\ adding' = None
    /\ wg' = wg + 1
    /\ UNCHANGED <<offer, queue, closer, workerVars, jobVars>>

-------------------------------------------------------------------------------
(* invokeWorker and drainDispatchQueue: take a job, or see stop closed.     *)

\* Receive a job and start invokeHandler: the context with its timeout, the
\* watcher goroutine, and the call of the handler.
WorkerTake(w) ==
    /\ Alive /\ wpc[w] = "loop"
    /\ queue # <<>>
    /\ queue' = Tail(queue)
    /\ wpc' = [wpc EXCEPT ![w] = "handler"]
    /\ wjob' = [wjob EXCEPT ![w] = Head(queue)]
    /\ ctx' = [ctx EXCEPT ![Head(queue)] = "live"]
    /\ watcher' = [watcher EXCEPT ![Head(queue)] = "wait"]
    /\ UNCHANGED <<offer, adding, wg, closer, draining, completed, answers, released>>

WorkerSeesStop(w) ==
    /\ Alive /\ wpc[w] = "loop"
    /\ StopClosed /\ ~draining[w]
    /\ draining' = [draining EXCEPT ![w] = TRUE]
    /\ UNCHANGED <<offer, queue, adding, wg, closer, wpc, wjob, jobVars>>

\* Mutant: a worker that sees stop returns without draining the queue.
WorkerExitsAtOnce(w) ==
    /\ Alive /\ wpc[w] = "loop"
    /\ draining[w]
    /\ wpc' = [wpc EXCEPT ![w] = "exited"]
    /\ UNCHANGED <<offer, queue, adding, wg, closer, wjob, draining, jobVars>>

WorkerExits(w) ==
    /\ Alive /\ wpc[w] = "loop"
    /\ draining[w] /\ queue = <<>>
    /\ wpc' = [wpc EXCEPT ![w] = "exited"]
    /\ UNCHANGED <<offer, queue, adding, wg, closer, wjob, draining, jobVars>>

\* The worker's compare-and-swap: it goes on to answer the job at pc when it
\* wins, and returns errHandlerTimeout, leaving the job to the watcher, if not.
WorkerSwap(w, pc) ==
    /\ completed' = [completed EXCEPT ![wjob[w]] = TRUE]
    /\ IF completed[wjob[w]]
       THEN /\ wpc' = [wpc EXCEPT ![w] = "loop"]
            /\ wjob' = [wjob EXCEPT ![w] = None]
       ELSE /\ wpc' = [wpc EXCEPT ![w] = pc]
            /\ UNCHANGED wjob

\* The context of a job as the deferred cancel() leaves it.
Cancelled(c) == IF c = "live" THEN "cancelled" ELSE c

\* The handler returns, the worker swaps, and invokeHandler returns, which
\* cancels the context.  Nobody can tell the swap from the cancel after it.
HandlerReturns(w) ==
    /\ Alive /\ wpc[w] = "handler"
    /\ wjob[w] \notin Hanging
    /\ WorkerSwap(w, "send")
    /\ ctx' = [ctx EXCEPT ![wjob[w]] = Cancelled(@)]
    /\ UNCHANGED <<offer, queue, adding, wg, closer, draining, watcher, answers, released>>

\* The handler panics.  Deferred calls run last in, first out: cancel() runs
\* before the function that recovers and swaps.
HandlerPanics(w) ==
    /\ Alive /\ wpc[w] = "handler"
    /\ wjob[w] \notin Hanging
    /\ wpc' = [wpc EXCEPT ![w] = "recover"]
    /\ ctx' = [ctx EXCEPT ![wjob[w]] = Cancelled(@)]
    /\ UNCHANGED <<offer, queue, adding, wg, closer, wjob, draining, completed,
                   watcher, answers, released>>

Recover(w) ==
    /\ Alive /\ wpc[w] = "recover"
    /\ WorkerSwap(w, "fail")
    /\ UNCHANGED <<offer, queue, adding, wg, closer, draining, ctx, watcher, answers, released>>

\* sendDispatchResult returns: a handler's response or error from "send", a
\* recovered panic from "fail".
WorkerAnswers(w) ==
    /\ Alive /\ wpc[w] \in {"send", "fail"}
    /\ answers' = [answers EXCEPT ![wjob[w]] =
                      Append(@, IF wpc[w] = "send" THEN "result" ELSE "error")]
    /\ wpc' = [wpc EXCEPT ![w] = "done"]
    /\ UNCHANGED <<offer, queue, adding, wg, closer, wjob, draining, ctx, completed,
                   watcher, released>>

WorkerDone(w) ==
    /\ Alive /\ wpc[w] = "done"
    /\ wg' = wg - 1
    /\ released' = released \cup {wjob[w]}
    /\ wpc' = [wpc EXCEPT ![w] = "loop"]
    /\ wjob' = [wjob EXCEPT ![w] = None]
    /\ UNCHANGED <<offer, queue, adding, closer, draining, ctx, completed, watcher, answers>>

-------------------------------------------------------------------------------
(* The context's timer, and the watcher goroutine of invokeHandler.         *)

ContextExpires(j) ==
    /\ Alive /\ ctx[j] = "live"
    /\ ctx' = [ctx EXCEPT ![j] = "expired"]
    /\ UNCHANGED <<offer, queue, adding, wg, closer, workerVars, completed, watcher,
                   answers, released>>

WatcherSwaps(j) ==
    /\ Alive /\ watcher[j] = "wait"
    /\ ctx[j] \in {"expired", "cancelled"}
    /\ watcher' = [watcher EXCEPT ![j] = IF completed[j] THEN "exited" ELSE "send"]
    /\ completed' = [completed EXCEPT ![j] = TRUE]
    /\ UNCHANGED <<offer, queue, adding, wg, closer, workerVars, ctx, answers, released>>

\* sendDispatchError(DispatchErrorTimeout) returns.
WatcherAnswers(j) ==
    /\ Alive /\ watcher[j] = "send"
    /\ answers' = [answers EXCEPT ![j] = Append(@, "timeout")]
    /\ watcher' = [watcher EXCEPT ![j] = "done"]
    /\ UNCHANGED <<offer, queue, adding, wg, closer, workerVars, ctx, completed, released>>

\* Mutant: the watcher answers but forgets wg.Done.
WatcherForgetsDone(j) ==
    /\ Alive /\ watcher[j] = "done"
    /\ released' = released \cup {j}
    /\ watcher' = [watcher EXCEPT ![j] = "exited"]
    /\ UNCHANGED <<offer, queue, adding, wg, closer, workerVars, ctx, completed, answers>>

WatcherDone(j) ==
    /\ Alive /\ watcher[j] = "done"
    /\ wg' = wg - 1
    /\ released' = released \cup {j}
    /\ watcher' = [watcher EXCEPT ![j] = "exited"]
    /\ UNCHANGED <<offer, queue, adding, closer, workerVars, ctx, completed, answers>>

-------------------------------------------------------------------------------
(* shutdown, called by Connection.Close before the connection is freed.     *)

ShutdownStopsAccepting ==
    /\ Alive /\ adding = None
    /\ closer = "open"
    /\ closer' = "stopped"
    /\ UNCHANGED <<offer, queue, adding, wg, workerVars, jobVars>>

ShutdownClosesStop ==
    /\ Alive /\ closer = "stopped"
    /\ closer' = "waiting"
    /\ UNCHANGED <<offer, queue, adding, wg, workerVars, jobVars>>

\* Mutant: shutdown does not wait.
ShutdownDoesNotWait ==
    /\ Alive /\ closer = "waiting"
    /\ closer' = "returned"
    /\ UNCHANGED <<offer, queue, adding, wg, workerVars, jobVars>>

ShutdownReturns ==
    /\ Alive /\ closer = "waiting"
    /\ wg = 0
    /\ closer' = "returned"
    /\ UNCHANGED <<offer, queue, adding, wg, workerVars, jobVars>>

-------------------------------------------------------------------------------
Worker(w) ==
    \/ WorkerTake(w) \/ WorkerSeesStop(w) \/ WorkerExits(w)
    \/ HandlerReturns(w) \/ HandlerPanics(w) \/ Recover(w)
    \/ WorkerAnswers(w) \/ WorkerDone(w)

Watcher(j) == ContextExpires(j) \/ WatcherSwaps(j) \/ WatcherAnswers(j) \/ WatcherDone(j)

Shutdown == ShutdownStopsAccepting \/ ShutdownClosesStop \/ ShutdownReturns

\* The pool has come to rest: the process has died, or shutdown has returned
\* and only goroutines stuck in a handler are left.
Rest ==
    /\ \/ ~Alive
       \/ /\ closer = "returned"
          /\ \A w \in Workers : wpc[w] = "exited" \/ (wpc[w] = "handler" /\ wjob[w] \in Hanging)
    /\ UNCHANGED vars

Next ==
    \/ \E j \in Jobs : EnqueueSend(j) \/ EnqueueRefuse(j)
    \/ EnqueueAdd
    \/ \E w \in Workers : Worker(w)
    \/ \E j \in Jobs : Watcher(j)
    \/ Shutdown
    \/ Rest

Spec == Init /\ [][Next]_vars

\* The Go scheduler runs every runnable goroutine, timers fire, and a handler
\* outside Hanging comes back.  Nothing is assumed of the library (offers) or
\* of the decision to close.
Fairness ==
    /\ WF_vars(EnqueueAdd)
    /\ \A w \in Workers : WF_vars(Worker(w))
    /\ \A j \in Jobs : WF_vars(Watcher(j))
    /\ WF_vars(ShutdownClosesStop \/ ShutdownReturns)

FairSpec == Spec /\ Fairness

-------------------------------------------------------------------------------
(* Safety *)

\* A job is answered by at most one call of the sink, whichever of the handler's
\* return, its panic and its timeout wins the swap; a job enqueue refused is
\* answered by the dispatch task, and never by the pool.
AnsweredAtMostOnce ==
    \A j \in Jobs :
        /\ Len(answers[j]) <= 1
        /\ offer[j] # "accepted" => answers[j] = <<>>

\* Jobs that have been accepted and for which wg.Done has not been called.
Outstanding == {j \in Jobs : offer[j] = "accepted"} \ released

\* The goroutine of w, or the watcher of j, is calling the sink or is about to.
WorkerUsesSink(w)  == wpc[w] \in {"send", "fail"}
WatcherUsesSink(j) == watcher[j] = "send"

\* When shutdown has returned, Close frees the connection the sink calls into:
\* by then every accepted job has its answer, and no goroutine is inside the
\* sink or on its way there, however late a leaked handler comes back.
DrainedOnReturn ==
    closer = "returned" =>
        /\ \A j \in Jobs : offer[j] = "accepted" => Len(answers[j]) = 1
        /\ \A w \in Workers : ~WorkerUsesSink(w)
        /\ \A j \in Jobs : ~WatcherUsesSink(j)

\* wg counts the accepted jobs whose answer has not been handed over, short of
\* the one enqueue has sent to the queue and not yet added.
WgCountsOutstanding ==
    wg = Cardinality(Outstanding) - (IF adding = None THEN 0 ELSE 1)

\* "wg tracks jobs that have been accepted": its counter is never negative, at
\* which the runtime panics and takes the host process down.
WgNeverNegative == wg >= 0

(* Refinement *)

StatusOf(j) ==
    CASE offer[j] # "accepted" -> offer[j]
      [] offer[j] = "accepted" /\ answers[j] = <<>> -> "pending"
      [] OTHER -> "answered"

Contract == INSTANCE DispatchContract
                WITH status <- [j \in Jobs |-> StatusOf(j)],
                     open   <- closer # "returned"

\* The pool does what libdd_rc.h asks of a host: accept or refuse, answer each
\* accepted payload once, release only when all of them are answered.
ImplementsContract == Contract!ContractSpec

(* Liveness *)

\* Every accepted job is answered, unless the process has died: a worker leaving
\* on stop must not leave jobs behind, and a handler that never returns must be
\* answered for by its watcher.
AcceptedIsAnswered ==
    \A j \in Jobs : offer[j] = "accepted" ~> (answers[j] # <<>> \/ ~Alive)

\* shutdown returns once called, unless the process has died: a goroutine that
\* never comes back is "left to leak rather than holding up shutdown".
ShutdownTerminates == closer = "stopped" ~> (closer = "returned" \/ ~Alive)

-------------------------------------------------------------------------------
(* The inductive invariant behind AnsweredAtMostOnce and DrainedOnReturn:   *)
(* at any time a job has one owner, the goroutine that won the swap.        *)

QueuedJobs == {queue[i] : i \in 1..Len(queue)}

\* A job nobody has started.
Untouched(j) ==
    /\ watcher[j] = "none" /\ ~completed[j]
    /\ answers[j] = <<>> /\ j \notin released
    /\ \A w \in Workers : wjob[w] # j

WorkersHoldOneJob ==
    /\ \A w \in Workers : wpc[w] \in {"loop", "exited"} <=> wjob[w] = None
    /\ \A v, w \in Workers : wjob[v] = wjob[w] /\ wjob[v] # None => v = w

QueueHoldsUntouchedJobs ==
    /\ \A i, k \in 1..Len(queue) : queue[i] = queue[k] => i = k
    /\ \A j \in QueuedJobs : offer[j] = "accepted" /\ Untouched(j)
    /\ \A j \in Jobs : offer[j] # "accepted" => Untouched(j)

\* A handler runs under the eyes of its watcher.
HandlersWatched ==
    \A w \in Workers : wpc[w] \in {"handler", "recover"} => watcher[wjob[w]] # "none"

\* A worker on its way to the sink or back from it has won the swap of its job.
WorkerOwns(w) ==
    wpc[w] \in {"send", "fail", "done"} =>
        /\ completed[wjob[w]] /\ watcher[wjob[w]] \in {"wait", "exited"}
        /\ wjob[w] \notin released
        /\ Len(answers[wjob[w]]) = (IF wpc[w] = "done" THEN 1 ELSE 0)

WorkersOwn == \A w \in Workers : WorkerOwns(w)

\* And so has a watcher.
WatchersOwn ==
    \A j \in Jobs : watcher[j] \in {"send", "done"} =>
        /\ completed[j] /\ j \notin released
        /\ Len(answers[j]) = (IF watcher[j] = "done" THEN 1 ELSE 0)

\* Before the swap nothing is answered; before the release, one answer is.
SwapPrecedesAnswer ==
    \A j \in Jobs :
        /\ ~completed[j] =>
               answers[j] = <<>> /\ j \notin released /\ watcher[j] \in {"none", "wait"}
        /\ Len(answers[j]) <= 1
        /\ j \in released => Len(answers[j]) = 1

SwapWinnerOwnsJob == HandlersWatched /\ WorkersOwn /\ WatchersOwn /\ SwapPrecedesAnswer

ShutdownOrder ==
    /\ closer # "open" => adding = None
    /\ closer = "returned" => Outstanding = {}

IInv ==
    /\ TypeOK
    /\ WorkersHoldOneJob
    /\ QueueHoldsUntouchedJobs
    /\ SwapWinnerOwnsJob
    /\ WgCountsOutstanding
    /\ ShutdownOrder
===============================================================================
