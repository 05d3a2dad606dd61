--------------------------- MODULE InvokePoolProofs ---------------------------
(***************************************************************************)
(* Proofs about InvokePool for any finite set of jobs, any set of workers, *)
(* any queue capacity and any choice of handlers that never return.        *)
(*                                                                         *)
(* AnsweredAtMostOnce and DrainedOnReturn are not inductive: that a job is *)
(* not answered twice rests on who owns it, and that shutdown returns only *)
(* when nobody uses the sink rests on what wg counts.  IInv says both:     *)
(* a job is in the queue, or with one worker, or with its watcher          *)
(* (WorkersHoldOneJob, QueueHoldsUntouchedJobs, SwapWinnerOwnsJob), and    *)
(* wg is the number of jobs not yet released (WgCountsOutstanding).        *)
(***************************************************************************)
EXTENDS InvokePool, FiniteSetTheorems, TLAPS

\* wg can be compared with the number of outstanding jobs: there are finitely
\* many of them.
LEMMA OutstandingFinite == IsFiniteSet(Outstanding) /\ Cardinality(Outstanding) \in Nat
<1>1. IsFiniteSet(Outstanding)
  BY PoolAssumption, FS_Subset DEF Outstanding
<1> QED BY <1>1, FS_CardinalityType

\* Before any payload is dispatched the queue is empty, every worker waits and
\* wg is zero.
LEMMA InitIInv == Init => IInv
<1> SUFFICES ASSUME Init PROVE IInv
  OBVIOUS
<1> USE PoolAssumption DEF Init
<1>1. TypeOK
  BY DEF TypeOK
<1>2. WorkersHoldOneJob /\ QueueHoldsUntouchedJobs
  BY DEF WorkersHoldOneJob, QueueHoldsUntouchedJobs, QueuedJobs, Untouched
<1>3. SwapWinnerOwnsJob
  BY DEF SwapWinnerOwnsJob, HandlersWatched, WorkersOwn, WorkerOwns, WatchersOwn,
     SwapPrecedesAnswer
<1>4. Outstanding = {}
  BY DEF Outstanding
<1>5. WgCountsOutstanding /\ ShutdownOrder
  BY <1>4, FS_EmptySet DEF WgCountsOutstanding, ShutdownOrder
<1> QED BY <1>1, <1>2, <1>3, <1>5 DEF IInv

\* What is queued is a job.
LEMMA QueuedAreJobs == TypeOK => QueuedJobs \subseteq Jobs
<1> SUFFICES ASSUME queue \in Seq(Jobs) PROVE QueuedJobs \subseteq Jobs
  BY DEF TypeOK
<1> QED BY DEF QueuedJobs

\* A step that leaves the queue and everybody's hold on the jobs alone keeps what
\* is said of them.
LEMMA HoldsStutter ==
    ASSUME QueueHoldsUntouchedJobs, SwapWinnerOwnsJob,
           UNCHANGED <<offer, queue, wpc, wjob, completed, watcher, answers, released>>
    PROVE  QueueHoldsUntouchedJobs' /\ SwapWinnerOwnsJob'
<1>1. QueuedJobs' = QueuedJobs
  BY DEF QueuedJobs
<1>2. QueueHoldsUntouchedJobs'
  BY <1>1 DEF QueueHoldsUntouchedJobs, Untouched
<1>3. HandlersWatched' /\ WatchersOwn'
  BY DEF SwapWinnerOwnsJob, HandlersWatched, WatchersOwn
<1>4. WorkersOwn' /\ SwapPrecedesAnswer'
  BY DEF SwapWinnerOwnsJob, WorkersOwn, WorkerOwns, SwapPrecedesAnswer
<1> QED BY <1>2, <1>3, <1>4 DEF SwapWinnerOwnsJob

USE ZenonT(30)

\* Every step of a goroutine of the pool keeps the invariant.
LEMMA StepIInv == IInv /\ [Next]_vars => IInv'
<1> SUFFICES ASSUME IInv, [Next]_vars PROVE IInv'
  OBVIOUS
<1> USE PoolAssumption DEF IInv
<1>1. ASSUME NEW j \in Jobs, EnqueueSend(j) PROVE IInv'
  <2>1. TypeOK'
    BY SMTT(30), <1>1 DEF EnqueueSend, workerVars, jobVars, TypeOK, WorkersHoldOneJob, Answers
  <2>2. WorkersHoldOneJob'
    BY <1>1 DEF EnqueueSend, workerVars, jobVars, TypeOK, WorkersHoldOneJob
  <2>3. QueueHoldsUntouchedJobs'
    <3>1. queue \in Seq(Jobs) /\ queue' = Append(queue, j)
      BY <1>1 DEF EnqueueSend, TypeOK
    <3>2. /\ Len(queue') = Len(queue) + 1 /\ queue'[Len(queue) + 1] = j
          /\ \A i \in 1..Len(queue) : queue'[i] = queue[i]
      BY SMTT(30), <3>1
    <3>3. j \notin QueuedJobs /\ Untouched(j)
      BY <1>1 DEF EnqueueSend, QueueHoldsUntouchedJobs
    <3>4. ASSUME NEW i \in 1..Len(queue'), NEW k \in 1..Len(queue'), queue'[i] = queue'[k]
          PROVE  i = k
      BY SMTT(30), <3>1, <3>2, <3>3, <3>4 DEF QueueHoldsUntouchedJobs, QueuedJobs
    <3>5. ASSUME NEW k \in Jobs, Untouched(k) PROVE Untouched(k)'
      BY <1>1, <3>5 DEF EnqueueSend, workerVars, jobVars, Untouched
    <3>6. QueuedJobs' = QueuedJobs \cup {j} /\ QueuedJobs' \subseteq Jobs
      BY SMTT(30), <3>1, <3>2 DEF QueuedJobs
    <3>7. \A k \in Jobs : offer'[k] = (IF k = j THEN "accepted" ELSE offer[k])
      BY <1>1 DEF EnqueueSend, TypeOK
    <3> QED
      BY <3>3, <3>4, <3>5, <3>6, <3>7 DEF QueueHoldsUntouchedJobs
  <2>4. SwapWinnerOwnsJob'
    BY SMTT(30), <1>1 DEF EnqueueSend, workerVars, jobVars, TypeOK, WorkersHoldOneJob,
       QueueHoldsUntouchedJobs, QueuedJobs, Untouched, SwapWinnerOwnsJob, HandlersWatched,
       WorkersOwn, WorkerOwns, WatchersOwn, SwapPrecedesAnswer
  <2>5. WgCountsOutstanding'
    <3>1. j \notin Outstanding /\ Outstanding' = Outstanding \cup {j}
      BY SMTT(30), <1>1 DEF EnqueueSend, jobVars, TypeOK, QueueHoldsUntouchedJobs, Untouched,
         Outstanding
    <3>2. Cardinality(Outstanding') = Cardinality(Outstanding) + 1
      BY <3>1, OutstandingFinite, FS_AddElement
    <3> QED BY SMTT(30), <1>1, <3>2, OutstandingFinite DEF EnqueueSend, WgCountsOutstanding
  <2>6. ShutdownOrder'
    BY <1>1 DEF EnqueueSend, workerVars, jobVars, TypeOK, ShutdownOrder, Outstanding
  <2> QED BY <2>1, <2>2, <2>3, <2>4, <2>5, <2>6
<1>2. ASSUME NEW j \in Jobs, EnqueueRefuse(j) PROVE IInv'
  <2>1. TypeOK'
    BY <1>2 DEF EnqueueRefuse, workerVars, jobVars, TypeOK, WorkersHoldOneJob, Answers
  <2>2. WorkersHoldOneJob'
    BY <1>2 DEF EnqueueRefuse, workerVars, jobVars, TypeOK, WorkersHoldOneJob
  <2>3. QueueHoldsUntouchedJobs'
    BY SMTT(30), <1>2 DEF EnqueueRefuse, workerVars, jobVars, TypeOK, WorkersHoldOneJob,
       QueueHoldsUntouchedJobs, QueuedJobs, Untouched
  <2>4. SwapWinnerOwnsJob'
    BY SMTT(30), <1>2 DEF EnqueueRefuse, workerVars, jobVars, TypeOK, WorkersHoldOneJob,
       QueueHoldsUntouchedJobs, QueuedJobs, Untouched, SwapWinnerOwnsJob, HandlersWatched,
       WorkersOwn, WorkerOwns, WatchersOwn, SwapPrecedesAnswer
  <2>5. WgCountsOutstanding'
    BY <1>2 DEF EnqueueRefuse, workerVars, jobVars, TypeOK, WgCountsOutstanding, Outstanding
  <2>6. ShutdownOrder'
    BY <1>2 DEF EnqueueRefuse, workerVars, jobVars, TypeOK, ShutdownOrder, Outstanding
  <2> QED BY <2>1, <2>2, <2>3, <2>4, <2>5, <2>6
<1>3. ASSUME EnqueueAdd PROVE IInv'
  <2>1. TypeOK'
    BY SMTT(30), <1>3 DEF EnqueueAdd, workerVars, jobVars, TypeOK, WorkersHoldOneJob, Answers
  <2>2. WorkersHoldOneJob'
    BY <1>3 DEF EnqueueAdd, workerVars, jobVars, TypeOK, WorkersHoldOneJob
  <2>3. QueueHoldsUntouchedJobs'
    BY SMTT(30), <1>3 DEF EnqueueAdd, workerVars, jobVars, TypeOK, WorkersHoldOneJob,
       QueueHoldsUntouchedJobs, QueuedJobs, Untouched
  <2>4. SwapWinnerOwnsJob'
    BY SMTT(30), <1>3 DEF EnqueueAdd, workerVars, jobVars, TypeOK, WorkersHoldOneJob,
       QueueHoldsUntouchedJobs, QueuedJobs, Untouched, SwapWinnerOwnsJob, HandlersWatched,
       WorkersOwn, WorkerOwns, WatchersOwn, SwapPrecedesAnswer
  <2>5. WgCountsOutstanding'
    <3>1. Outstanding' = Outstanding
      BY <1>3 DEF EnqueueAdd, jobVars, Outstanding
    <3> QED BY SMTT(30), <1>3, <3>1, OutstandingFinite DEF EnqueueAdd, WgCountsOutstanding
  <2>6. ShutdownOrder'
    BY <1>3 DEF EnqueueAdd, workerVars, jobVars, TypeOK, ShutdownOrder, Outstanding
  <2> QED BY <2>1, <2>2, <2>3, <2>4, <2>5, <2>6
<1>4. ASSUME NEW w \in Workers, WorkerTake(w) PROVE IInv'
  <2>1. TypeOK'
    BY SMTT(30), <1>4 DEF WorkerTake, workerVars, jobVars, TypeOK, WorkersHoldOneJob, Answers
  <2>2. WorkersHoldOneJob'
    <3>1. Head(queue) \in QueuedJobs /\ Head(queue) \in Jobs
      BY SMTT(30), <1>4 DEF WorkerTake, TypeOK, QueuedJobs
    <3>2. \A v \in Workers : wjob[v] # Head(queue)
      BY <3>1 DEF QueueHoldsUntouchedJobs, Untouched
    <3> QED BY <1>4, <3>1, <3>2 DEF WorkerTake, TypeOK, WorkersHoldOneJob
  <2>3. QueueHoldsUntouchedJobs'
    BY SMTT(30), <1>4 DEF WorkerTake, workerVars, jobVars, TypeOK, WorkersHoldOneJob,
       QueueHoldsUntouchedJobs, QueuedJobs, Untouched
  <2>4. SwapWinnerOwnsJob'
    BY SMTT(30), <1>4 DEF WorkerTake, workerVars, jobVars, TypeOK, WorkersHoldOneJob,
       QueueHoldsUntouchedJobs, QueuedJobs, Untouched, SwapWinnerOwnsJob, HandlersWatched,
       WorkersOwn, WorkerOwns, WatchersOwn, SwapPrecedesAnswer
  <2>5. WgCountsOutstanding'
    BY <1>4 DEF WorkerTake, workerVars, jobVars, TypeOK, WgCountsOutstanding, Outstanding
  <2>6. ShutdownOrder'
    BY <1>4 DEF WorkerTake, workerVars, jobVars, TypeOK, ShutdownOrder, Outstanding
  <2> QED BY <2>1, <2>2, <2>3, <2>4, <2>5, <2>6
<1>5. ASSUME NEW w \in Workers, WorkerSeesStop(w) PROVE IInv'
  <2>1. TypeOK'
    BY <1>5 DEF WorkerSeesStop, workerVars, jobVars, TypeOK, WorkersHoldOneJob, Answers
  <2>2. WorkersHoldOneJob'
    BY <1>5 DEF WorkerSeesStop, workerVars, jobVars, TypeOK, WorkersHoldOneJob
  <2>3. QueueHoldsUntouchedJobs'
    BY SMTT(30), <1>5 DEF WorkerSeesStop, workerVars, jobVars, TypeOK, WorkersHoldOneJob,
       QueueHoldsUntouchedJobs, QueuedJobs, Untouched
  <2>4. SwapWinnerOwnsJob'
    BY SMTT(30), <1>5 DEF WorkerSeesStop, workerVars, jobVars, TypeOK, WorkersHoldOneJob,
       QueueHoldsUntouchedJobs, QueuedJobs, Untouched, SwapWinnerOwnsJob, HandlersWatched,
       WorkersOwn, WorkerOwns, WatchersOwn, SwapPrecedesAnswer
  <2>5. WgCountsOutstanding'
    BY <1>5 DEF WorkerSeesStop, workerVars, jobVars, TypeOK, WgCountsOutstanding,
       Outstanding
  <2>6. ShutdownOrder'
    BY <1>5 DEF WorkerSeesStop, workerVars, jobVars, TypeOK, ShutdownOrder, Outstanding
  <2> QED BY <2>1, <2>2, <2>3, <2>4, <2>5, <2>6
<1>6. ASSUME NEW w \in Workers, WorkerExits(w) PROVE IInv'
  <2>1. TypeOK'
    BY <1>6 DEF WorkerExits, workerVars, jobVars, TypeOK, WorkersHoldOneJob, Answers
  <2>2. WorkersHoldOneJob'
    BY <1>6 DEF WorkerExits, workerVars, jobVars, TypeOK, WorkersHoldOneJob
  <2>3. QueueHoldsUntouchedJobs'
    BY SMTT(30), <1>6 DEF WorkerExits, workerVars, jobVars, TypeOK, WorkersHoldOneJob,
       QueueHoldsUntouchedJobs, QueuedJobs, Untouched
  <2>4. SwapWinnerOwnsJob'
    BY SMTT(30), <1>6 DEF WorkerExits, workerVars, jobVars, TypeOK, WorkersHoldOneJob,
       QueueHoldsUntouchedJobs, QueuedJobs, Untouched, SwapWinnerOwnsJob, HandlersWatched,
       WorkersOwn, WorkerOwns, WatchersOwn, SwapPrecedesAnswer
  <2>5. WgCountsOutstanding'
    BY <1>6 DEF WorkerExits, workerVars, jobVars, TypeOK, WgCountsOutstanding, Outstanding
  <2>6. ShutdownOrder'
    BY <1>6 DEF WorkerExits, workerVars, jobVars, TypeOK, ShutdownOrder, Outstanding
  <2> QED BY <2>1, <2>2, <2>3, <2>4, <2>5, <2>6
<1>7. ASSUME NEW w \in Workers, HandlerReturns(w) PROVE IInv'
  <2>1. TypeOK'
    <3> DEFINE Pcs == {"loop", "handler", "recover", "send", "fail", "done", "exited"}
    <3>1. wpc' \in [Workers -> Pcs]
      <4>1. PICK pc \in {"loop", "send"} : wpc' = [wpc EXCEPT ![w] = pc]
        BY <1>7 DEF HandlerReturns, WorkerSwap
      <4> QED BY <4>1 DEF TypeOK
    <3>2. wjob' \in [Workers -> Jobs \cup {None}]
      BY SMTT(30), <1>7 DEF HandlerReturns, WorkerSwap, TypeOK
    <3>3. completed' \in [Jobs -> BOOLEAN]
      BY <1>7 DEF HandlerReturns, WorkerSwap, TypeOK
    <3>4. ctx' \in [Jobs -> {"none", "live", "expired", "cancelled"}]
      BY <1>7 DEF HandlerReturns, Cancelled, TypeOK
    <3> QED BY <1>7, <3>1, <3>2, <3>3, <3>4 DEF HandlerReturns, TypeOK, Answers
  <2>2. WorkersHoldOneJob'
    <3>1. /\ \A v \in Workers : wpc'[v] = IF v = w THEN wpc'[w] ELSE wpc[v]
          /\ \A v \in Workers : wjob'[v] = IF v = w THEN wjob'[w] ELSE wjob[v]
          /\ \/ wpc'[w] = "loop" /\ wjob'[w] = None
             \/ wpc'[w] = "send" /\ wjob'[w] = wjob[w]
      BY SMTT(30), <1>7 DEF HandlerReturns, WorkerSwap, TypeOK
    <3> QED BY SMTT(30), <1>7, <3>1 DEF HandlerReturns, WorkersHoldOneJob
  <2>3. QueueHoldsUntouchedJobs'
    <3>1. ASSUME NEW j \in Jobs, Untouched(j) PROVE Untouched(j)'
      <4>1. wjob[w] # j /\ ~completed[j]
        BY <3>1 DEF Untouched
      <4>2. ~completed'[j]
        BY <1>7, <4>1 DEF HandlerReturns, WorkerSwap, TypeOK
      <4>3. \A v \in Workers : wjob'[v] = wjob[v] \/ wjob'[v] = None
        BY <1>7 DEF HandlerReturns, WorkerSwap, TypeOK
      <4> QED BY <1>7, <3>1, <4>2, <4>3 DEF HandlerReturns, Untouched
    <3>2. UNCHANGED <<queue, offer>> /\ QueuedJobs \subseteq Jobs
      BY SMTT(30), <1>7 DEF HandlerReturns, TypeOK, QueuedJobs
    <3> QED BY ZenonT(40), <3>1, <3>2 DEF QueueHoldsUntouchedJobs, QueuedJobs
  <2>4. SwapWinnerOwnsJob'
    BY SMTT(30), <1>7 DEF HandlerReturns, WorkerSwap, Cancelled, workerVars, jobVars, TypeOK,
       WorkersHoldOneJob, QueueHoldsUntouchedJobs, QueuedJobs, Untouched,
       SwapWinnerOwnsJob, HandlersWatched, WorkersOwn, WorkerOwns, WatchersOwn,
       SwapPrecedesAnswer
  <2>5. WgCountsOutstanding'
    BY <1>7 DEF HandlerReturns, WorkerSwap, Cancelled, workerVars, jobVars, TypeOK,
       WgCountsOutstanding, Outstanding
  <2>6. ShutdownOrder'
    BY <1>7 DEF HandlerReturns, WorkerSwap, Cancelled, workerVars, jobVars, TypeOK,
       ShutdownOrder, Outstanding
  <2> QED BY <2>1, <2>2, <2>3, <2>4, <2>5, <2>6
<1>8. ASSUME NEW w \in Workers, HandlerPanics(w) PROVE IInv'
  <2>1. TypeOK'
    BY ZenonT(40), <1>8 DEF HandlerPanics, Cancelled, workerVars, jobVars, TypeOK, WorkersHoldOneJob,
       Answers
  <2>2. WorkersHoldOneJob'
    BY <1>8 DEF HandlerPanics, Cancelled, workerVars, jobVars, TypeOK, WorkersHoldOneJob
  <2>3. QueueHoldsUntouchedJobs'
    BY SMTT(30), <1>8 DEF HandlerPanics, Cancelled, workerVars, jobVars, TypeOK, WorkersHoldOneJob,
       QueueHoldsUntouchedJobs, QueuedJobs, Untouched
  <2>4. SwapWinnerOwnsJob'
    BY SMTT(30), <1>8 DEF HandlerPanics, Cancelled, workerVars, jobVars, TypeOK, WorkersHoldOneJob,
       QueueHoldsUntouchedJobs, QueuedJobs, Untouched, SwapWinnerOwnsJob, HandlersWatched,
       WorkersOwn, WorkerOwns, WatchersOwn, SwapPrecedesAnswer
  <2>5. WgCountsOutstanding'
    BY <1>8 DEF HandlerPanics, Cancelled, workerVars, jobVars, TypeOK, WgCountsOutstanding,
       Outstanding
  <2>6. ShutdownOrder'
    BY <1>8 DEF HandlerPanics, Cancelled, workerVars, jobVars, TypeOK, ShutdownOrder,
       Outstanding
  <2> QED BY <2>1, <2>2, <2>3, <2>4, <2>5, <2>6
<1>9. ASSUME NEW w \in Workers, Recover(w) PROVE IInv'
  <2>1. TypeOK'
    <3> DEFINE Pcs == {"loop", "handler", "recover", "send", "fail", "done", "exited"}
    <3>1. wpc' \in [Workers -> Pcs]
      <4>1. PICK pc \in {"loop", "fail"} : wpc' = [wpc EXCEPT ![w] = pc]
        BY <1>9 DEF Recover, WorkerSwap
      <4> QED BY <4>1 DEF TypeOK
    <3>2. wjob' \in [Workers -> Jobs \cup {None}]
      BY <1>9 DEF Recover, WorkerSwap, TypeOK
    <3>3. completed' \in [Jobs -> BOOLEAN]
      BY <1>9 DEF Recover, WorkerSwap, TypeOK
    <3> QED BY <1>9, <3>1, <3>2, <3>3 DEF Recover, TypeOK, Answers
  <2>2. WorkersHoldOneJob'
    <3>1. /\ \A v \in Workers : wpc'[v] = IF v = w THEN wpc'[w] ELSE wpc[v]
          /\ \A v \in Workers : wjob'[v] = IF v = w THEN wjob'[w] ELSE wjob[v]
          /\ \/ wpc'[w] = "loop" /\ wjob'[w] = None
             \/ wpc'[w] = "fail" /\ wjob'[w] = wjob[w]
      <4>1. CASE completed[wjob[w]]
        BY <1>9, <4>1 DEF Recover, WorkerSwap, TypeOK
      <4>2. CASE ~completed[wjob[w]]
        BY <1>9, <4>2 DEF Recover, WorkerSwap, TypeOK
      <4> QED BY <4>1, <4>2
    <3>2. wjob[w] # None
      BY <1>9 DEF Recover, WorkersHoldOneJob
    <3>3. \A v \in Workers : wpc'[v] \in {"loop", "exited"} <=> wjob'[v] = None
      BY <3>1, <3>2 DEF WorkersHoldOneJob
    <3>4. \A u, v \in Workers : wjob'[u] = wjob'[v] /\ wjob'[u] # None => u = v
      BY SMTT(30), <3>1, <3>2 DEF WorkersHoldOneJob
    <3> QED BY <3>3, <3>4 DEF WorkersHoldOneJob
  <2>3. QueueHoldsUntouchedJobs'
    <3>1. ASSUME NEW j \in Jobs, Untouched(j) PROVE Untouched(j)'
      <4>1. wjob[w] # j /\ ~completed[j]
        BY <3>1 DEF Untouched
      <4>2. ~completed'[j]
        BY <1>9, <4>1 DEF Recover, WorkerSwap, TypeOK
      <4>3. \A v \in Workers : wjob'[v] = wjob[v] \/ wjob'[v] = None
        BY <1>9 DEF Recover, WorkerSwap, TypeOK
      <4> QED BY <1>9, <3>1, <4>2, <4>3 DEF Recover, Untouched
    <3>2. UNCHANGED <<queue, offer>> /\ QueuedJobs \subseteq Jobs
      BY <1>9, QueuedAreJobs DEF IInv, Recover, TypeOK
    <3> QED BY <3>1, <3>2 DEF QueueHoldsUntouchedJobs, QueuedJobs
  <2>4. SwapWinnerOwnsJob'
    <3>1. wjob[w] \in Jobs
      BY ZenonT(40), <1>9 DEF Recover, TypeOK, WorkersHoldOneJob
    <3>2. watcher[wjob[w]] # "none"
      BY <1>9 DEF Recover, SwapWinnerOwnsJob, HandlersWatched
    <3>3. CASE completed[wjob[w]]
      <4>1. completed' = completed
        BY SMTT(30), <1>9, <3>3 DEF Recover, WorkerSwap, TypeOK
      <4>2. \A v \in Workers : wpc'[v] # "loop" => wpc'[v] = wpc[v] /\ wjob'[v] = wjob[v]
        BY SMTT(30), <1>9, <3>3 DEF Recover, WorkerSwap, TypeOK
      <4>3. HandlersWatched' /\ WorkersOwn'
        BY SMTT(30), <1>9, <4>1, <4>2
           DEF Recover, SwapWinnerOwnsJob, HandlersWatched, WorkersOwn, WorkerOwns
      <4> QED BY <1>9, <4>1, <4>3
                 DEF Recover, SwapWinnerOwnsJob, WatchersOwn, SwapPrecedesAnswer
    <3>4. CASE ~completed[wjob[w]]
      <4>1. watcher[wjob[w]] = "wait" /\ wjob[w] \notin released /\ answers[wjob[w]] = <<>>
        BY <3>1, <3>2, <3>4 DEF SwapWinnerOwnsJob, SwapPrecedesAnswer
      <4>2. \A v \in Workers : wpc'[v] = (IF v = w THEN "fail" ELSE wpc[v]) /\ wjob'[v] = wjob[v]
        BY <1>9, <3>4 DEF Recover, WorkerSwap, TypeOK
      <4>3. completed'[wjob[w]] /\ \A k \in Jobs : k # wjob[w] => completed'[k] = completed[k]
        BY <1>9, <3>1, <3>4 DEF Recover, WorkerSwap, TypeOK
      <4>4. HandlersWatched'
        BY <1>9, <4>2 DEF Recover, SwapWinnerOwnsJob, HandlersWatched
      <4>5. WorkersOwn'
        <5> SUFFICES ASSUME NEW v \in Workers PROVE WorkerOwns(v)'
          BY DEF WorkersOwn
        <5>1. CASE v = w
          BY SMTT(30), <1>9, <3>1, <4>1, <4>2, <4>3, <5>1 DEF Recover, WorkerOwns
        <5>2. CASE v # w
          <6>1. wjob[v] # wjob[w] /\ (wpc[v] \notin {"loop", "exited"} => wjob[v] \in Jobs)
            BY SMTT(30), <3>1, <5>2 DEF WorkersHoldOneJob, TypeOK
          <6> QED BY SMTT(30), <1>9, <4>2, <4>3, <5>2, <6>1
                     DEF Recover, SwapWinnerOwnsJob, WorkersOwn, WorkerOwns
        <5> QED BY <5>1, <5>2
      <4>6. WatchersOwn'
        BY <1>9, <4>1, <4>3 DEF Recover, SwapWinnerOwnsJob, WatchersOwn
      <4>7. SwapPrecedesAnswer'
        BY <1>9, <4>1, <4>3 DEF Recover, SwapWinnerOwnsJob, SwapPrecedesAnswer
      <4> QED BY <4>4, <4>5, <4>6, <4>7 DEF SwapWinnerOwnsJob
    <3> QED BY <3>3, <3>4
  <2>5. WgCountsOutstanding'
    BY <1>9 DEF Recover, WorkerSwap, workerVars, jobVars, TypeOK, WgCountsOutstanding,
       Outstanding
  <2>6. ShutdownOrder'
    BY <1>9 DEF Recover, WorkerSwap, workerVars, jobVars, TypeOK, ShutdownOrder, Outstanding
  <2> QED BY <2>1, <2>2, <2>3, <2>4, <2>5, <2>6
<1>10. ASSUME NEW w \in Workers, WorkerAnswers(w) PROVE IInv'
  <2>1. TypeOK'
    <3>1. wjob[w] \in Jobs
      BY <1>10 DEF WorkerAnswers, TypeOK, WorkersHoldOneJob
    <3>2. \A a \in Answers : Append(answers[wjob[w]], a) \in Seq(Answers)
      BY SMTT(30), <3>1 DEF TypeOK
    <3>3. answers' \in [Jobs -> Seq(Answers)]
      BY <1>10, <3>1, <3>2 DEF WorkerAnswers, TypeOK, Answers
    <3> QED BY <1>10, <3>3 DEF WorkerAnswers, TypeOK
  <2>2. WorkersHoldOneJob'
    BY <1>10 DEF WorkerAnswers, workerVars, jobVars, TypeOK, WorkersHoldOneJob
  <2>3. QueueHoldsUntouchedJobs'
    BY SMTT(30), <1>10 DEF WorkerAnswers, workerVars, jobVars, TypeOK, WorkersHoldOneJob,
       QueueHoldsUntouchedJobs, QueuedJobs, Untouched
  <2>4. SwapWinnerOwnsJob'
    <3>1. wjob[w] \in Jobs /\ Len(answers[wjob[w]]) = 0
      BY SMTT(30), <1>10 DEF WorkerAnswers, TypeOK, WorkersHoldOneJob, SwapWinnerOwnsJob, WorkersOwn,
         WorkerOwns
    <3>2. /\ \A k \in Jobs : k # wjob[w] => answers'[k] = answers[k]
          /\ Len(answers'[wjob[w]]) = 1
      BY SMTT(30), <1>10, <3>1 DEF WorkerAnswers, TypeOK
    <3>3. \A v \in Workers : wpc'[v] = IF v = w THEN "done" ELSE wpc[v]
      BY <1>10 DEF WorkerAnswers, TypeOK
    <3>4. \A v \in Workers : v # w => wjob[v] # wjob[w]
      BY <1>10, <3>1 DEF WorkersHoldOneJob
    <3>5. completed[wjob[w]] /\ watcher[wjob[w]] \in {"wait",
       "exited"} /\ wjob[w] \notin released
      BY <1>10 DEF WorkerAnswers, SwapWinnerOwnsJob, WorkersOwn, WorkerOwns
    <3>6. HandlersWatched'
      BY SMTT(30), <1>10, <3>3 DEF WorkerAnswers, SwapWinnerOwnsJob, HandlersWatched
    <3>7. WorkersOwn'
      <4> SUFFICES ASSUME NEW v \in Workers PROVE WorkerOwns(v)'
        BY DEF WorkersOwn
      <4>1. CASE v = w
        BY <1>10, <3>1, <3>2, <3>3, <3>5, <4>1 DEF WorkerAnswers, WorkerOwns
      <4>2. CASE v # w
        <5>1. wjob[v] # wjob[w] /\ (wpc[v] \notin {"loop", "exited"} => wjob[v] \in Jobs)
          BY <3>1, <4>2 DEF WorkersHoldOneJob, TypeOK
        <5> QED BY SMTT(30), <1>10, <3>2, <3>3, <4>2, <5>1
                   DEF WorkerAnswers, SwapWinnerOwnsJob, WorkersOwn, WorkerOwns
      <4> QED BY <4>1, <4>2
    <3>8. WatchersOwn' /\ SwapPrecedesAnswer'
      BY SMTT(30), <1>10, <3>2, <3>5
         DEF WorkerAnswers, SwapWinnerOwnsJob, WatchersOwn, SwapPrecedesAnswer
    <3> QED BY <3>6, <3>7, <3>8 DEF SwapWinnerOwnsJob
  <2>5. WgCountsOutstanding'
    BY <1>10 DEF WorkerAnswers, workerVars, jobVars, TypeOK, WgCountsOutstanding,
       Outstanding
  <2>6. ShutdownOrder'
    BY <1>10 DEF WorkerAnswers, workerVars, jobVars, TypeOK, ShutdownOrder, Outstanding
  <2> QED BY <2>1, <2>2, <2>3, <2>4, <2>5, <2>6
<1>11. ASSUME NEW w \in Workers, WorkerDone(w) PROVE IInv'
  <2>1. TypeOK'
    BY SMTT(30), <1>11 DEF WorkerDone, workerVars, jobVars, TypeOK, WorkersHoldOneJob, Answers
  <2>2. WorkersHoldOneJob'
    BY <1>11 DEF WorkerDone, workerVars, jobVars, TypeOK, WorkersHoldOneJob
  <2>3. QueueHoldsUntouchedJobs'
    BY SMTT(30), <1>11 DEF WorkerDone, workerVars, jobVars, TypeOK, WorkersHoldOneJob,
       QueueHoldsUntouchedJobs, QueuedJobs, Untouched
  <2>4. SwapWinnerOwnsJob'
    <3>1. /\ wjob[w] \in Jobs /\ Len(answers[wjob[w]]) = 1
          /\ completed[wjob[w]] /\ watcher[wjob[w]] \in {"wait", "exited"}
      BY <1>11 DEF WorkerDone, TypeOK, WorkersHoldOneJob, SwapWinnerOwnsJob, WorkersOwn,
         WorkerOwns
    <3>2. \A v \in Workers : /\ wpc'[v] = (IF v = w THEN "loop" ELSE wpc[v])
                             /\ wjob'[v] = (IF v = w THEN None ELSE wjob[v])
      BY <1>11 DEF WorkerDone, TypeOK
    <3>3. \A v \in Workers : v # w => wjob[v] # wjob[w]
      BY <1>11, <3>1 DEF WorkersHoldOneJob
    <3> QED BY SMTT(30), <1>11, <3>1, <3>2, <3>3
               DEF WorkerDone, SwapWinnerOwnsJob, HandlersWatched, WorkersOwn, WorkerOwns,
                   WatchersOwn, SwapPrecedesAnswer
  <2>5. WgCountsOutstanding'
    <3>1. wjob[w] \in Jobs /\ wjob[w] \notin released
      BY <1>11 DEF WorkerDone, TypeOK, WorkersHoldOneJob, SwapWinnerOwnsJob, WorkersOwn,
         WorkerOwns
    <3>2. offer[wjob[w]] = "accepted"
      BY <3>1 DEF QueueHoldsUntouchedJobs, Untouched
    <3>3. Outstanding' = Outstanding \ {wjob[w]}
      BY <1>11 DEF WorkerDone, Outstanding
    <3>4. wjob[w] \in Outstanding
      BY <3>1, <3>2 DEF Outstanding
    <3>5. Cardinality(Outstanding') = Cardinality(Outstanding) - 1
      BY <3>3, <3>4, OutstandingFinite, FS_RemoveElement
    <3> QED BY SMTT(30), <1>11, <3>5, OutstandingFinite DEF WorkerDone, WgCountsOutstanding
  <2>6. ShutdownOrder'
    BY <1>11 DEF WorkerDone, workerVars, jobVars, TypeOK, ShutdownOrder, Outstanding
  <2> QED BY <2>1, <2>2, <2>3, <2>4, <2>5, <2>6
<1>12. ASSUME NEW j \in Jobs, ContextExpires(j) PROVE IInv'
  <2>1. TypeOK'
    BY <1>12 DEF ContextExpires, workerVars, jobVars, TypeOK, WorkersHoldOneJob, Answers
  <2>2. WorkersHoldOneJob'
    BY <1>12 DEF ContextExpires, workerVars, jobVars, TypeOK, WorkersHoldOneJob
  <2>3. QueueHoldsUntouchedJobs' /\ SwapWinnerOwnsJob'
    BY <1>12, HoldsStutter DEF ContextExpires, workerVars, jobVars
  <2>5. WgCountsOutstanding'
    BY <1>12 DEF ContextExpires, workerVars, jobVars, TypeOK, WgCountsOutstanding,
       Outstanding
  <2>6. ShutdownOrder'
    BY <1>12 DEF ContextExpires, workerVars, jobVars, TypeOK, ShutdownOrder, Outstanding
  <2> QED BY <2>1, <2>2, <2>3, <2>5, <2>6
<1>13. ASSUME NEW j \in Jobs, WatcherSwaps(j) PROVE IInv'
  <2>1. TypeOK'
    BY <1>13 DEF WatcherSwaps, workerVars, jobVars, TypeOK, WorkersHoldOneJob, Answers
  <2>2. WorkersHoldOneJob'
    BY <1>13 DEF WatcherSwaps, workerVars, jobVars, TypeOK, WorkersHoldOneJob
  <2>3. QueueHoldsUntouchedJobs'
    <3>1. watcher[j] # "none"
      BY <1>13 DEF WatcherSwaps
    <3>2. \A k \in Jobs : k # j /\ Untouched(k) => Untouched(k)'
      BY <1>13 DEF WatcherSwaps, workerVars, TypeOK, Untouched
    <3>3. QueuedJobs' = QueuedJobs
      BY <1>13 DEF WatcherSwaps, QueuedJobs
    <3>4. QueuedJobs \subseteq Jobs /\ ~Untouched(j)
      BY <3>1, QueuedAreJobs DEF Untouched
    <3>5. UNCHANGED <<queue, offer>>
      BY <1>13 DEF WatcherSwaps
    <3> QED BY <3>2, <3>3, <3>4, <3>5 DEF QueueHoldsUntouchedJobs
  <2>4. SwapWinnerOwnsJob'
    <3>1. HandlersWatched'
      BY SMTT(30), <1>13 DEF WatcherSwaps, workerVars, TypeOK, SwapWinnerOwnsJob, HandlersWatched
    <3>2. WorkersOwn'
      BY SMTT(30), <1>13 DEF WatcherSwaps, workerVars, TypeOK, SwapWinnerOwnsJob, WorkersOwn, WorkerOwns,
         SwapPrecedesAnswer
    <3>3. WatchersOwn'
      BY SMTT(30), <1>13 DEF WatcherSwaps, workerVars, TypeOK, SwapWinnerOwnsJob, WatchersOwn,
         SwapPrecedesAnswer
    <3>4. SwapPrecedesAnswer'
      BY <1>13 DEF WatcherSwaps, workerVars, TypeOK, SwapWinnerOwnsJob, WatchersOwn,
         SwapPrecedesAnswer
    <3> QED BY <3>1, <3>2, <3>3, <3>4 DEF SwapWinnerOwnsJob
  <2>5. WgCountsOutstanding'
    BY <1>13 DEF WatcherSwaps, workerVars, jobVars, TypeOK, WgCountsOutstanding, Outstanding
  <2>6. ShutdownOrder'
    BY <1>13 DEF WatcherSwaps, workerVars, jobVars, TypeOK, ShutdownOrder, Outstanding
  <2> QED BY <2>1, <2>2, <2>3, <2>4, <2>5, <2>6
<1>14. ASSUME NEW j \in Jobs, WatcherAnswers(j) PROVE IInv'
  <2>1. TypeOK'
    BY SMTT(30), <1>14 DEF WatcherAnswers, workerVars, jobVars, TypeOK, WorkersHoldOneJob, Answers
  <2>2. WorkersHoldOneJob'
    BY <1>14 DEF WatcherAnswers, workerVars, jobVars, TypeOK, WorkersHoldOneJob
  <2>3. QueueHoldsUntouchedJobs'
    <3>1. watcher[j] # "none"
      BY <1>14 DEF WatcherAnswers
    <3>2. \A k \in Jobs : k # j /\ Untouched(k) => Untouched(k)'
      BY <1>14 DEF WatcherAnswers, workerVars, TypeOK, Untouched
    <3>3. QueuedJobs' = QueuedJobs
      BY <1>14 DEF WatcherAnswers, QueuedJobs
    <3>4. QueuedJobs \subseteq Jobs /\ ~Untouched(j)
      BY <3>1, QueuedAreJobs DEF Untouched
    <3>5. UNCHANGED <<queue, offer>>
      BY <1>14 DEF WatcherAnswers
    <3> QED BY <3>2, <3>3, <3>4, <3>5 DEF QueueHoldsUntouchedJobs
  <2>4. SwapWinnerOwnsJob'
    <3>1. HandlersWatched'
      BY SMTT(30), <1>14 DEF WatcherAnswers, workerVars, TypeOK, SwapWinnerOwnsJob, HandlersWatched
    <3>2. WorkersOwn'
      BY SMTT(30), <1>14 DEF WatcherAnswers, workerVars, TypeOK, SwapWinnerOwnsJob, WorkersOwn, WorkerOwns,
         SwapPrecedesAnswer
    <3>3. WatchersOwn'
      BY SMTT(30), <1>14 DEF WatcherAnswers, workerVars, TypeOK, SwapWinnerOwnsJob, WatchersOwn,
         SwapPrecedesAnswer
    <3>4. SwapPrecedesAnswer'
      BY SMTT(30), <1>14 DEF WatcherAnswers, workerVars, TypeOK, SwapWinnerOwnsJob, WatchersOwn,
         SwapPrecedesAnswer
    <3> QED BY <3>1, <3>2, <3>3, <3>4 DEF SwapWinnerOwnsJob
  <2>5. WgCountsOutstanding'
    BY <1>14 DEF WatcherAnswers, workerVars, jobVars, TypeOK, WgCountsOutstanding,
       Outstanding
  <2>6. ShutdownOrder'
    BY <1>14 DEF WatcherAnswers, workerVars, jobVars, TypeOK, ShutdownOrder, Outstanding
  <2> QED BY <2>1, <2>2, <2>3, <2>4, <2>5, <2>6
<1>15. ASSUME NEW j \in Jobs, WatcherDone(j) PROVE IInv'
  <2>1. TypeOK'
    BY SMTT(30), <1>15 DEF WatcherDone, workerVars, jobVars, TypeOK, WorkersHoldOneJob, Answers
  <2>2. WorkersHoldOneJob'
    BY <1>15 DEF WatcherDone, workerVars, jobVars, TypeOK, WorkersHoldOneJob
  <2>3. QueueHoldsUntouchedJobs'
    <3>1. watcher[j] # "none"
      BY <1>15 DEF WatcherDone
    <3>2. \A k \in Jobs : k # j /\ Untouched(k) => Untouched(k)'
      BY <1>15 DEF WatcherDone, workerVars, TypeOK, Untouched
    <3>3. QueuedJobs' = QueuedJobs
      BY <1>15 DEF WatcherDone, QueuedJobs
    <3>4. QueuedJobs \subseteq Jobs /\ ~Untouched(j)
      BY <3>1, QueuedAreJobs DEF Untouched
    <3>5. UNCHANGED <<queue, offer>>
      BY <1>15 DEF WatcherDone
    <3> QED BY <3>2, <3>3, <3>4, <3>5 DEF QueueHoldsUntouchedJobs
  <2>4. SwapWinnerOwnsJob'
    <3>1. HandlersWatched'
      BY SMTT(30), <1>15 DEF WatcherDone, workerVars, TypeOK, SwapWinnerOwnsJob, HandlersWatched
    <3>2. WorkersOwn'
      BY SMTT(30), <1>15 DEF WatcherDone, workerVars, TypeOK, SwapWinnerOwnsJob, WorkersOwn, WorkerOwns,
         SwapPrecedesAnswer
    <3>3. WatchersOwn'
      BY <1>15 DEF WatcherDone, workerVars, TypeOK, SwapWinnerOwnsJob, WatchersOwn,
         SwapPrecedesAnswer
    <3>4. SwapPrecedesAnswer'
      BY <1>15 DEF WatcherDone, workerVars, TypeOK, SwapWinnerOwnsJob, WatchersOwn,
         SwapPrecedesAnswer
    <3> QED BY <3>1, <3>2, <3>3, <3>4 DEF SwapWinnerOwnsJob
  <2>5. WgCountsOutstanding'
    <3>1. j \in Outstanding /\ Outstanding' = Outstanding \ {j}
      BY SMTT(30), <1>15 DEF WatcherDone, TypeOK, QueueHoldsUntouchedJobs, Untouched,
                   SwapWinnerOwnsJob, WatchersOwn, Outstanding
    <3>2. Cardinality(Outstanding') = Cardinality(Outstanding) - 1
      BY <3>1, OutstandingFinite, FS_RemoveElement
    <3>3. wg' = wg - 1 /\ adding' = adding
      BY <1>15 DEF WatcherDone
    <3> QED BY SMTT(30), <3>2, <3>3, OutstandingFinite DEF TypeOK, WgCountsOutstanding
  <2>6. ShutdownOrder'
    BY <1>15 DEF WatcherDone, workerVars, jobVars, TypeOK, ShutdownOrder, Outstanding
  <2> QED BY <2>1, <2>2, <2>3, <2>4, <2>5, <2>6
<1>16. ASSUME ShutdownStopsAccepting PROVE IInv'
  <2>1. TypeOK'
    BY <1>16 DEF ShutdownStopsAccepting, workerVars, jobVars, TypeOK, WorkersHoldOneJob,
       Answers
  <2>2. WorkersHoldOneJob'
    BY <1>16 DEF ShutdownStopsAccepting, workerVars, jobVars, TypeOK, WorkersHoldOneJob
  <2>3. QueueHoldsUntouchedJobs' /\ SwapWinnerOwnsJob'
    BY <1>16, HoldsStutter DEF ShutdownStopsAccepting, workerVars, jobVars
  <2>5. WgCountsOutstanding'
    BY <1>16 DEF ShutdownStopsAccepting, workerVars, jobVars, TypeOK, WgCountsOutstanding,
       Outstanding
  <2>6. ShutdownOrder'
    BY <1>16 DEF ShutdownStopsAccepting, workerVars, jobVars, TypeOK, ShutdownOrder,
       Outstanding
  <2> QED BY <2>1, <2>2, <2>3, <2>5, <2>6
<1>17. ASSUME ShutdownClosesStop PROVE IInv'
  <2>1. TypeOK'
    BY <1>17 DEF ShutdownClosesStop, workerVars, jobVars, TypeOK, WorkersHoldOneJob, Answers
  <2>2. WorkersHoldOneJob'
    BY <1>17 DEF ShutdownClosesStop, workerVars, jobVars, TypeOK, WorkersHoldOneJob
  <2>3. QueueHoldsUntouchedJobs' /\ SwapWinnerOwnsJob'
    BY <1>17, HoldsStutter DEF ShutdownClosesStop, workerVars, jobVars
  <2>5. WgCountsOutstanding'
    BY <1>17 DEF ShutdownClosesStop, workerVars, jobVars, TypeOK, WgCountsOutstanding,
       Outstanding
  <2>6. ShutdownOrder'
    BY <1>17 DEF ShutdownClosesStop, workerVars, jobVars, TypeOK, ShutdownOrder, Outstanding
  <2> QED BY <2>1, <2>2, <2>3, <2>5, <2>6
<1>18. ASSUME ShutdownReturns PROVE IInv'
  <2>1. TypeOK'
    BY <1>18 DEF ShutdownReturns, workerVars, jobVars, TypeOK, WorkersHoldOneJob, Answers
  <2>2. WorkersHoldOneJob'
    BY <1>18 DEF ShutdownReturns, workerVars, jobVars, TypeOK, WorkersHoldOneJob
  <2>3. QueueHoldsUntouchedJobs' /\ SwapWinnerOwnsJob'
    BY <1>18, HoldsStutter DEF ShutdownReturns, workerVars, jobVars
  <2>5. WgCountsOutstanding'
    BY <1>18 DEF ShutdownReturns, workerVars, jobVars, TypeOK, WgCountsOutstanding,
       Outstanding
  <2>6. ShutdownOrder'
    <3>1. Cardinality(Outstanding) = 0
      BY SMTT(30), <1>18, OutstandingFinite DEF ShutdownReturns, ShutdownOrder, WgCountsOutstanding
    <3>2. Outstanding = {}
      BY <3>1, OutstandingFinite, FS_EmptySet
    <3>3. Outstanding' = Outstanding
      BY <1>18 DEF ShutdownReturns, jobVars, Outstanding
    <3> QED BY <1>18, <3>2, <3>3 DEF ShutdownReturns, ShutdownOrder
  <2> QED BY <2>1, <2>2, <2>3, <2>5, <2>6
<1>19. CASE UNCHANGED vars
  <2>1. TypeOK'
    BY SMTT(30), <1>19 DEF vars, workerVars, jobVars, TypeOK
  <2>2. WorkersHoldOneJob'
    BY <1>19 DEF vars, workerVars, jobVars, WorkersHoldOneJob
  <2>3. QueueHoldsUntouchedJobs' /\ SwapWinnerOwnsJob'
    BY <1>19, HoldsStutter DEF vars, workerVars, jobVars
  <2>5. WgCountsOutstanding' /\ ShutdownOrder'
    BY <1>19 DEF vars, workerVars, jobVars, WgCountsOutstanding, ShutdownOrder, Outstanding
  <2> QED BY <2>1, <2>2, <2>3, <2>5
<1> QED BY <1>1, <1>2, <1>3, <1>4, <1>5, <1>6, <1>7, <1>8, <1>9, <1>10, <1>11, <1>12,
           <1>13, <1>14, <1>15, <1>16, <1>17, <1>18, <1>19 DEF Next, Worker, Watcher,
           Shutdown, Rest

\* The invariant holds in every state the pool reaches; it contains the type
\* invariant and says what wg counts.
THEOREM PoolInvariant == Spec => []IInv
<1> QED BY InitIInv, StepIInv, PTL DEF Spec

\* A dispatched job is answered at most once, whoever wins between the return of
\* its handler, its panic and its timeout, and not at all if it was refused.
THEOREM PoolAnswersAtMostOnce == Spec => []AnsweredAtMostOnce
<1>1. IInv => AnsweredAtMostOnce
  BY DEF IInv, SwapWinnerOwnsJob, SwapPrecedesAnswer, QueueHoldsUntouchedJobs, Untouched,
         AnsweredAtMostOnce
<1> QED BY <1>1, PoolInvariant, PTL

\* Nothing is left in a state from which a goroutine could call the sink.
LEMMA ReturnedIsDrained == IInv => DrainedOnReturn
<1> SUFFICES ASSUME IInv, closer = "returned" PROVE DrainedOnReturn
  BY DEF DrainedOnReturn
<1>1. \A j \in Jobs : offer[j] = "accepted" => j \in released
  BY DEF IInv, ShutdownOrder, Outstanding
<1>2. \A j \in Jobs : offer[j] = "accepted" => Len(answers[j]) = 1
  BY <1>1 DEF IInv, SwapWinnerOwnsJob, SwapPrecedesAnswer
<1>3. ASSUME NEW w \in Workers, WorkerUsesSink(w) PROVE FALSE
  <2>1. wjob[w] \in Jobs
    BY <1>3 DEF WorkerUsesSink, IInv, TypeOK, WorkersHoldOneJob
  <2>2. offer[wjob[w]] = "accepted"
    BY <2>1 DEF IInv, QueueHoldsUntouchedJobs, Untouched
  <2> QED BY <1>1, <1>3, <2>1, <2>2
          DEF WorkerUsesSink, IInv, SwapWinnerOwnsJob, WorkersOwn, WorkerOwns
<1>4. ASSUME NEW j \in Jobs, WatcherUsesSink(j) PROVE FALSE
  <2>1. offer[j] = "accepted"
    BY <1>4 DEF WatcherUsesSink, IInv, QueueHoldsUntouchedJobs, Untouched
  <2> QED BY <1>1, <1>4, <2>1 DEF WatcherUsesSink, IInv, SwapWinnerOwnsJob, WatchersOwn
<1> QED BY <1>2, <1>3, <1>4 DEF DrainedOnReturn

\* When shutdown returns, so that Close goes on to free the connection, every
\* accepted job has its answer and no goroutine is in the sink or will be.
THEOREM PoolDrainsBeforeFree == Spec => []DrainedOnReturn
<1> QED BY PoolInvariant, ReturnedIsDrained, PTL

-------------------------------------------------------------------------------
(* The pool implements DispatchContract. *)

StatusFunction == [j \in Jobs |-> StatusOf(j)]

\* A step that tells the library about no job, and does not release, is a
\* stuttering step of the contract.
LEMMA Stutter ==
    ASSUME UNCHANGED <<offer, answers>>, closer' # "returned", closer # "returned"
    PROVE  UNCHANGED Contract!cvars
<1>1. StatusFunction' = StatusFunction
  BY DEF StatusFunction, StatusOf
<1> QED BY <1>1 DEF StatusFunction, Contract!cvars

\* The same once shutdown has returned.
LEMMA StutterClosed ==
    ASSUME UNCHANGED <<offer, answers, closer>>
    PROVE  UNCHANGED Contract!cvars
<1>1. StatusFunction' = StatusFunction
  BY DEF StatusFunction, StatusOf
<1> QED BY <1>1 DEF StatusFunction, Contract!cvars

\* The call of the sink for j, made by a goroutine that owns j, is the answer the
\* contract allows: j is pending and the connection is not released.
LEMMA AnswerRefines ==
    ASSUME IInv, NEW j \in Jobs, NEW a \in Answers, Len(answers[j]) = 0, j \notin released,
           offer[j] = "accepted", answers' = [answers EXCEPT ![j] = Append(@, a)],
           UNCHANGED <<offer, closer>>
    PROVE  Contract!Answer(j)
<1>1. answers \in [Jobs -> Seq(Answers)] /\ answers[j] = <<>>
  BY SMTT(30) DEF IInv, TypeOK
<1>2. closer # "returned"
  BY DEF IInv, ShutdownOrder, Outstanding
<1>3. StatusFunction[j] = "pending"
  BY <1>1 DEF StatusFunction, StatusOf
<1>4. answers'[j] = <<a>> /\ answers'[j] # <<>>
  BY SMTT(30), <1>1
<1>5. StatusFunction' = [StatusFunction EXCEPT ![j] = "answered"]
  BY <1>1, <1>4 DEF StatusFunction, StatusOf
<1> QED BY <1>2, <1>3, <1>5 DEF StatusFunction, Contract!Answer

\* Every step of the pool is a step of the contract or changes nothing of it.
LEMMA StepRefines == IInv /\ [Next]_vars => [Contract!ContractNext]_Contract!cvars
<1> SUFFICES ASSUME IInv, [Next]_vars
             PROVE  Contract!ContractNext \/ UNCHANGED Contract!cvars
  OBVIOUS
<1> USE PoolAssumption
<1>1. ASSUME NEW j \in Jobs, EnqueueSend(j) PROVE Contract!Accept(j)
  <2>1. answers[j] = <<>> /\ offer \in [Jobs -> {"new", "accepted", "refused"}]
    BY <1>1 DEF EnqueueSend, IInv, TypeOK, QueueHoldsUntouchedJobs, Untouched
  <2>2. StatusFunction[j] = "new"
    BY <1>1 DEF EnqueueSend, StatusFunction, StatusOf
  <2>3. StatusFunction' = [StatusFunction EXCEPT ![j] = "pending"]
    BY <1>1, <2>1 DEF EnqueueSend, jobVars, StatusFunction, StatusOf
  <2> QED BY <1>1, <2>2, <2>3 DEF EnqueueSend, StatusFunction, Contract!Accept
<1>2. ASSUME NEW j \in Jobs, EnqueueRefuse(j) PROVE Contract!Refuse(j)
  <2>1. offer \in [Jobs -> {"new", "accepted", "refused"}]
    BY DEF IInv, TypeOK
  <2>2. StatusFunction[j] = "new"
    BY <1>2 DEF EnqueueRefuse, StatusFunction, StatusOf
  <2>3. StatusFunction' = [StatusFunction EXCEPT ![j] = "refused"]
    BY <1>2, <2>1 DEF EnqueueRefuse, jobVars, StatusFunction, StatusOf
  <2> QED BY <1>2, <2>2, <2>3 DEF EnqueueRefuse, StatusFunction, Contract!Refuse
<1>3. ASSUME NEW w \in Workers, WorkerAnswers(w) PROVE Contract!Answer(wjob[w])
  <2>1. wjob[w] \in Jobs
    BY <1>3 DEF WorkerAnswers, IInv, TypeOK, WorkersHoldOneJob
  <2>2. offer[wjob[w]] = "accepted"
    BY <2>1 DEF IInv, QueueHoldsUntouchedJobs, Untouched
  <2>3. Len(answers[wjob[w]]) = 0 /\ wjob[w] \notin released
    BY <1>3 DEF WorkerAnswers, IInv, SwapWinnerOwnsJob, WorkersOwn, WorkerOwns
  <2> DEFINE a == IF wpc[w] = "send" THEN "result" ELSE "error"
  <2>4. a \in Answers
    BY DEF Answers
  <2>5. answers' = [answers EXCEPT ![wjob[w]] = Append(@, a)] /\ UNCHANGED <<offer, closer>>
    BY <1>3 DEF WorkerAnswers
  <2> HIDE DEF a
  <2> QED BY <2>1, <2>2, <2>3, <2>4, <2>5, AnswerRefines
<1>4. ASSUME NEW j \in Jobs, WatcherAnswers(j) PROVE Contract!Answer(j)
  <2>1. offer[j] = "accepted"
    BY <1>4 DEF WatcherAnswers, IInv, QueueHoldsUntouchedJobs, Untouched
  <2>2. Len(answers[j]) = 0 /\ j \notin released
    BY <1>4 DEF WatcherAnswers, IInv, SwapWinnerOwnsJob, WatchersOwn
  <2>3. answers' = [answers EXCEPT ![j] = Append(@, "timeout")] /\ UNCHANGED <<offer, closer>>
    BY <1>4 DEF WatcherAnswers
  <2>4. "timeout" \in Answers
    BY DEF Answers
  <2> QED BY <2>1, <2>2, <2>3, <2>4, AnswerRefines
<1>5. ASSUME ShutdownReturns PROVE Contract!Release
  <2>1. adding = None /\ wg = Cardinality(Outstanding)
    BY SMTT(30), <1>5, OutstandingFinite
       DEF ShutdownReturns, IInv, ShutdownOrder, WgCountsOutstanding, TypeOK
  <2>2. Outstanding = {}
    BY <1>5, <2>1, OutstandingFinite, FS_EmptySet DEF ShutdownReturns
  <2>3. \A j \in Jobs : StatusFunction[j] # "pending"
    <3> SUFFICES ASSUME NEW j \in Jobs, offer[j] = "accepted" PROVE answers[j] # <<>>
      BY DEF StatusFunction, StatusOf, IInv, TypeOK
    <3>1. Len(answers[j]) = 1
      BY <2>2 DEF Outstanding, IInv, SwapWinnerOwnsJob, SwapPrecedesAnswer
    <3> QED BY SMTT(30), <3>1
  <2>4. StatusFunction' = StatusFunction
    BY <1>5 DEF ShutdownReturns, jobVars, StatusFunction, StatusOf
  <2> QED BY <1>5, <2>3, <2>4 DEF ShutdownReturns, StatusFunction, Contract!Release
<1>6. ASSUME EnqueueAdd PROVE UNCHANGED Contract!cvars
  BY <1>6, StutterClosed DEF EnqueueAdd, jobVars
<1>7. ASSUME NEW w \in Workers, Worker(w), ~WorkerAnswers(w) PROVE UNCHANGED Contract!cvars
  BY <1>7, StutterClosed DEF Worker, WorkerTake, WorkerSeesStop, WorkerExits, HandlerReturns,
     HandlerPanics, Recover, WorkerDone, jobVars
<1>8. ASSUME NEW j \in Jobs, Watcher(j), ~WatcherAnswers(j) PROVE UNCHANGED Contract!cvars
  BY <1>8, StutterClosed DEF Watcher, ContextExpires, WatcherSwaps, WatcherDone
<1>9. ASSUME ShutdownStopsAccepting \/ ShutdownClosesStop PROVE UNCHANGED Contract!cvars
  BY <1>9, Stutter DEF ShutdownStopsAccepting, ShutdownClosesStop, jobVars
<1>10. ASSUME UNCHANGED vars PROVE UNCHANGED Contract!cvars
  BY <1>10, StutterClosed DEF vars, jobVars
<1>11. ASSUME NEW w \in Workers, WorkerAnswers(w) PROVE wjob[w] \in Jobs
  BY <1>11 DEF WorkerAnswers, IInv, TypeOK, WorkersHoldOneJob
<1> QED BY <1>1, <1>2, <1>3, <1>4, <1>5, <1>6, <1>7, <1>8, <1>9, <1>10, <1>11
        DEF Next, Rest, Shutdown, Contract!ContractNext

\* The pool keeps the contract of libdd_rc.h: a payload is accepted or refused,
\* an accepted one is answered exactly once, and the connection is released only
\* when nothing is pending.
THEOREM PoolImplementsContract == Spec => ImplementsContract
<1>1. Init => Contract!ContractInit
  BY DEF Init, StatusOf, Contract!ContractInit
<1> QED BY <1>1, PoolInvariant, StepRefines, PTL DEF Spec, ImplementsContract, Contract!ContractSpec
===============================================================================
