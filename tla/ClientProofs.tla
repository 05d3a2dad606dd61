------------------------------ MODULE ClientProofs ------------------------------
(***************************************************************************)
(* Proofs about Client, for any number of callers, any queue capacities    *)
(* and any backoff bounds.  The wait group is shown to count the run loop, *)
(* and the position of the run loop to say what it holds of the FFI        *)
(* connection, the websocket and the read worker.                          *)
(***************************************************************************)
EXTENDS Client, TLAPS

LEMMA AtLeastMore ==
    ASSUME NEW a \in Nat, NEW b \in Nat, NEW d \in Nat, d >= b, a <= b
    PROVE  d >= a
  OBVIOUS

LEMMA MinOfTwo ==
    ASSUME NEW a \in Nat, NEW b \in Nat
    PROVE  Min({a, b}) = IF a <= b THEN a ELSE b
<1>1. CASE a <= b
  BY SMTT(30), <1>1 DEF Min
<1>2. CASE ~(a <= b)
  BY SMTT(30), <1>2 DEF Min
<1> QED BY SMTT(30), <1>1, <1>2

\* What backoff.Next leaves behind: the delay is below the base it was drawn from,
\* and the base has doubled or is the maximum.
LEMMA SleepForBounds ==
    ASSUME NEW b \in 1..MaxBackoff, SleepFor(b)
    PROVE  /\ base' \in 1..MaxBackoff /\ delay' \in 0..MaxBackoff
           /\ delay' >= b \div 2
           /\ delay' < base' \div 2 \/ base' = MaxBackoff
<1>1. MaxBackoff \in Nat /\ 2 * b \in Nat /\ delay' \in (b \div 2)..(b - 1)
  BY SMTT(30), ClientAssumption DEF SleepFor
<1>2. base' = IF 2 * b <= MaxBackoff THEN 2 * b ELSE MaxBackoff
  BY SMTT(30), <1>1, MinOfTwo DEF SleepFor
<1> QED BY SMTT(30), <1>1, <1>2

LEMMA InitIInv == Init => IInv
<1> SUFFICES ASSUME Init PROVE IInv
  BY SMTT(30)
<1>1. TypeOK
  <2>1. /\ Initial \in 1..MaxBackoff /\ 0 \in 0..MaxBackoff
        /\ 0 \in 0..MaxOwed /\ 0 \in 0..OutCap /\ 0 \in 0..InCap
    BY SMTT(30), ClientAssumption
  <2> QED BY ZenonT(40), <2>1 DEF Init, TypeOK
<1>2. LifeInv /\ SessionInv
  BY SMTT(30) DEF Init, LifeInv, SessionInv, InLoop, NothingLeftBehind
<1>3. BackoffInv
  BY SMTT(30), ClientAssumption DEF Init, BackoffInv
<1> QED BY SMTT(30), <1>1, <1>2, <1>3 DEF IInv

-------------------------------------------------------------------------------
(* The steps of the callers *)

LEMMA CallersStep ==
    ASSUME IInv, NEW p \in Callers, Start(p) \/ Close(p) \/ CallerStep(p)
    PROVE  IInv'
<1> USE DEF IInv
<1>0. UNCHANGED backoffVars
  BY SMTT(30) DEF Start, Close, CallerStep, StartReturns, Cancel, WaitReturns, FreeContext
<1>1. BackoffInv'
  BY SMTT(30), <1>0 DEF backoffVars, BackoffInv
<1>2. CASE Start(p)
  <2>1. TypeOK' /\ SessionInv'
    BY SMTT(30), <1>2 DEF Start, backoffVars, connVars, wsVars, TypeOK, LifeInv, SessionInv, InLoop,
                InCleanup, NothingLeftBehind
  <2>2. LifeInv'
    BY SMTT(30), <1>2 DEF Start, TypeOK, LifeInv
  <2> QED BY SMTT(30), <1>1, <2>1, <2>2
<1>3. CASE Close(p)
  <2>1. TypeOK' /\ SessionInv'
    BY SMTT(30), <1>3 DEF Close, backoffVars, connVars, wsVars, TypeOK, SessionInv, NothingLeftBehind
  <2>2. LifeInv'
    BY SMTT(30), <1>3 DEF Close, TypeOK, LifeInv
  <2> QED BY <1>1, <2>1, <2>2
<1>4. CASE StartReturns(p)
  <2>1. TypeOK' /\ SessionInv'
    BY SMTT(30), <1>4 DEF StartReturns, backoffVars, connVars, wsVars, TypeOK, LifeInv, SessionInv, InLoop,
                NothingLeftBehind
  <2>2. LifeInv'
    BY SMTT(30), <1>4 DEF StartReturns, TypeOK, LifeInv
  <2> QED BY <1>1, <2>1, <2>2
<1>5. CASE Cancel(p)
  <2>1. TypeOK' /\ SessionInv'
    BY SMTT(30), <1>5 DEF Cancel, backoffVars, connVars, wsVars, TypeOK, SessionInv, NothingLeftBehind
  <2>2. LifeInv'
    BY SMTT(30), <1>5 DEF Cancel, TypeOK, LifeInv
  <2> QED BY <1>1, <2>1, <2>2
<1>6. CASE WaitReturns(p)
  <2>1. TypeOK' /\ SessionInv'
    BY SMTT(30), <1>6 DEF WaitReturns, backoffVars, connVars, wsVars, TypeOK, SessionInv, NothingLeftBehind
  <2>2. LifeInv'
    BY SMTT(30), <1>6 DEF WaitReturns, TypeOK, LifeInv
  <2> QED BY <1>1, <2>1, <2>2
<1>7. CASE FreeContext(p)
  <2>1. TypeOK' /\ SessionInv'
    BY SMTT(30), <1>7 DEF FreeContext, backoffVars, wsVars, TypeOK, LifeInv, SessionInv, InLoop,
                NothingLeftBehind
  <2>2. LifeInv'
    BY SMTT(30), <1>7 DEF FreeContext, TypeOK, LifeInv
  <2> QED BY <1>1, <2>1, <2>2
<1> QED BY SMTT(30), <1>2, <1>3, <1>4, <1>5, <1>6, <1>7 DEF CallerStep

-------------------------------------------------------------------------------
(* The steps of the run loop, the read worker, the backend and the library *)

\* They leave the callers alone, and the run loop neither begins nor ends in them.
LEMMA LifeKept ==
    ASSUME LifeInv, UNCHANGED lifeVars, (loop = "none") <=> (loop' = "none")
    PROVE  LifeInv'
  BY SMTT(30) DEF LifeInv, lifeVars

\* The two steps that draw a delay.
LEMMA BackoffSteps ==
    ASSUME IInv, Failed \/ SessionOver
    PROVE  IInv'
<1> USE DEF IInv
<1>1. Initial \in 1..MaxBackoff /\ base \in 1..MaxBackoff
  BY SMTT(30), ClientAssumption DEF TypeOK
<1>2. UNCHANGED <<lifeVars, connVars, wsVars>> /\ loop \in {"failed", "over"}
  BY SMTT(30) DEF Failed, SessionOver
<1>3. \/ loop' = "return" /\ UNCHANGED <<base, delay>>
      \/ SleepFor(base) \/ SleepFor(Initial)
  BY SMTT(30) DEF Failed, SessionOver, backoffVars
<1>4. healthy' \in BOOLEAN /\ loop' \in {"return", "sleep"}
  BY ZenonT(40) DEF Failed, SessionOver, backoffVars, SleepFor, TypeOK
<1>5. base' \in 1..MaxBackoff /\ delay' \in 0..MaxBackoff /\ BackoffInv'
  BY SMTT(30), <1>1, <1>3, SleepForBounds DEF TypeOK, BackoffInv
<1>6. TypeOK'
  BY SMTT(30), <1>2, <1>4, <1>5 DEF lifeVars, connVars, wsVars, TypeOK
<1>7. LifeInv'
  BY SMTT(30), <1>2, <1>4, LifeKept
<1>8. SessionInv'
  BY SMTT(30), <1>2, <1>4 DEF connVars, wsVars, SessionInv, InLoop, NothingLeftBehind
<1> QED BY SMTT(30), <1>5, <1>6, <1>7, <1>8

LEMMA RunSteps ==
    ASSUME IInv, RunStep
    PROVE  IInv'
<1> USE DEF IInv, InLoop, InCleanup
<1>1. CASE Failed \/ SessionOver
  BY SMTT(30), <1>1, BackoffSteps
<1> SUFFICES ASSUME ~(Failed \/ SessionOver) PROVE IInv'
  BY SMTT(30), <1>1
<1>2. UNCHANGED <<lifeVars, backoffVars>> /\ loop # "none" /\ loop' # "none"
  BY SMTT(30) DEF RunStep, NewConnection, NewConnectionFails, Dial, DialFails, Connected, ConnectedFails,
         SleepElapses, SleepCancelled, StartSession, SelectDone, SelectIncoming,
         SelectIncomingClosed, Recv, SelectOutgoing, Write, WriteFails, CloseConn,
         CloseConnReturns, DrainWrite, DrainWriteFails, DrainDone, JoinReader
<1>3. LifeInv' /\ BackoffInv'
  BY SMTT(30), <1>2, LifeKept DEF backoffVars, BackoffInv
<1>4. TypeOK /\ SessionInv /\ MaxOwed \in Nat /\ OutCap \in Nat /\ InCap \in Nat
  BY SMTT(30), ClientAssumption
<1>5. ASSUME NewConnection \/ NewConnectionFails \/ Dial \/ DialFails
      PROVE  TypeOK' /\ SessionInv'
  BY SMTT(30), <1>2, <1>4, <1>5
     DEF NewConnection, NewConnectionFails, Dial, DialFails, lifeVars, backoffVars, connVars,
         wsVars, TypeOK, SessionInv, NothingLeftBehind
<1>6. ASSUME Connected \/ ConnectedFails \/ SleepElapses \/ SleepCancelled \/ StartSession
      PROVE  TypeOK' /\ SessionInv'
  BY SMTT(30), <1>2, <1>4, <1>6
     DEF Connected, ConnectedFails, SleepElapses, SleepCancelled, StartSession, lifeVars,
         backoffVars, connVars, wsVars, TypeOK, SessionInv, NothingLeftBehind
<1>7. ASSUME SelectDone \/ SelectIncoming \/ SelectIncomingClosed \/ SelectOutgoing
      PROVE  TypeOK' /\ SessionInv'
  BY SMTT(30), <1>2, <1>4, <1>7
     DEF SelectDone, SelectIncoming, SelectIncomingClosed, SelectOutgoing, lifeVars, backoffVars,
         connVars, wsVars, TypeOK, SessionInv, NothingLeftBehind
<1>8. ASSUME Recv PROVE TypeOK' /\ SessionInv'
  <2>1. owed' \in 0..MaxOwed
    BY SMTT(30), <1>4, <1>8, MinOfTwo DEF Recv, TypeOK
  <2> QED BY SMTT(30), <1>2, <1>4, <1>8, <2>1
             DEF Recv, lifeVars, backoffVars, wsVars, TypeOK, SessionInv, NothingLeftBehind
<1>9. ASSUME Write \/ WriteFails \/ CloseConn \/ CloseConnReturns
      PROVE  TypeOK' /\ SessionInv'
  BY SMTT(30), <1>2, <1>4, <1>9
     DEF Write, WriteFails, CloseConn, CloseConnReturns, lifeVars, backoffVars, connVars, wsVars,
         TypeOK, SessionInv, NothingLeftBehind
<1>10. ASSUME DrainWrite \/ DrainWriteFails \/ DrainDone \/ JoinReader
       PROVE  TypeOK' /\ SessionInv'
  BY SMTT(30), <1>2, <1>4, <1>10
     DEF DrainWrite, DrainWriteFails, DrainDone, JoinReader, lifeVars, backoffVars, connVars,
         wsVars, TypeOK, SessionInv, NothingLeftBehind
<1> QED BY SMTT(30), <1>3, <1>5, <1>6, <1>7, <1>8, <1>9, <1>10 DEF RunStep

LEMMA OtherSteps ==
    ASSUME IInv, ReaderStep \/ ReadBadFrame \/ PeerCloses \/ LibrarySends \/ Answer
    PROVE  IInv'
<1> USE DEF IInv, InLoop, InCleanup
<1>1. UNCHANGED <<lifeVars, loop, backoffVars>>
  BY SMTT(30) DEF ReaderStep, ReadMessage, Enqueue, EnqueueCancelled, ReadFails, ReadBadFrame, PeerCloses,
         LibrarySends, Answer
<1>2. LifeInv' /\ BackoffInv'
  BY SMTT(30), <1>1, LifeKept DEF backoffVars, BackoffInv
<1>3. TypeOK /\ SessionInv /\ MaxOwed \in Nat /\ OutCap \in Nat /\ InCap \in Nat
  BY ZenonT(30), ClientAssumption
<1>4. ASSUME ReadMessage \/ Enqueue
      PROVE  TypeOK' /\ SessionInv'
  BY SMTT(30), <1>1, <1>3, <1>4
     DEF ReadMessage, Enqueue, lifeVars, backoffVars, connVars, TypeOK, SessionInv,
         NothingLeftBehind
<1>6. ASSUME EnqueueCancelled \/ ReadBadFrame
      PROVE  TypeOK' /\ SessionInv'
  BY SMTT(30), <1>1, <1>3, <1>6
     DEF EnqueueCancelled, ReadBadFrame, ReadCancelled, lifeVars, backoffVars, connVars, TypeOK,
         SessionInv, NothingLeftBehind
<1>7. ASSUME ReadFails \/ PeerCloses
      PROVE  TypeOK' /\ SessionInv'
  BY SMTT(30), <1>1, <1>3, <1>7
     DEF ReadFails, PeerCloses, ReadCancelled, lifeVars, backoffVars, connVars, TypeOK, SessionInv,
         NothingLeftBehind
<1>5. ASSUME LibrarySends \/ Answer PROVE TypeOK' /\ SessionInv'
  BY SMTT(30), <1>1, <1>3, <1>5
     DEF LibrarySends, Answer, SendCb, lifeVars, backoffVars, wsVars, TypeOK, SessionInv,
         NothingLeftBehind
<1> QED BY SMTT(30), <1>2, <1>4, <1>5, <1>6, <1>7 DEF ReaderStep

LEMMA NextIInv == IInv /\ [Next]_vars => IInv'
<1> SUFFICES ASSUME IInv, [Next]_vars PROVE IInv'
  BY SMTT(30)
<1>1. CASE UNCHANGED vars
  BY SMTT(30), <1>1 DEF vars, lifeVars, backoffVars, connVars, wsVars, IInv, TypeOK, LifeInv, SessionInv,
              NothingLeftBehind, BackoffInv
<1> QED BY SMTT(30), <1>1, CallersStep, RunSteps, OtherSteps DEF Next, Finished

-------------------------------------------------------------------------------

\* The flags, the wait group, the run loop and what it holds stay related as IInv
\* says, however Start, Close, the session, its read worker and the peer interleave.
THEOREM ClientInvariant == Spec => []IInv
  BY InitIInv, NextIInv, PTL DEF Spec

\* The FFI context outlives the run loop, and a session's connection is not closed
\* under it.
THEOREM ClientContextOutlivesLoop == Spec => []ContextOutlivesLoop
<1>1. IInv => ContextOutlivesLoop
  BY SMTT(30) DEF IInv, LifeInv, SessionInv, InLoop, ContextOutlivesLoop
<1> QED BY <1>1, ClientInvariant, PTL

\* No connection, websocket, read worker or request is left between two sessions.
THEOREM ClientLeavesNothing == Spec => []NothingLeftBehind
<1>1. IInv => NothingLeftBehind
  BY SMTT(30) DEF IInv, SessionInv
<1> QED BY <1>1, ClientInvariant, PTL

\* The reconnection delays grow up to half of the maximum, whatever the jitter.
THEOREM ClientDelayGrows == Spec => DelayGrows
<1>1. ASSUME IInv, [Next]_vars, loop # "sleep", loop' = "sleep", ~healthy'
      PROVE  delay' >= Min({delay + 1, MaxBackoff \div 2})
  <2>1. SleepFor(base)
    <3>1. CASE UNCHANGED vars
      BY SMTT(30), <1>1, <3>1 DEF vars
    <3>2. CASE \/ \E p \in Callers : Start(p) \/ Close(p) \/ CallerStep(p)
               \/ Finished
      BY SMTT(30), <1>1, <3>2 DEF vars, Finished, Start, Close, CallerStep, StartReturns, Cancel,
            WaitReturns, FreeContext
    <3>3. CASE RunStep
      <4>1. CASE \/ NewConnection \/ NewConnectionFails \/ Dial \/ DialFails \/ Connected
                 \/ ConnectedFails \/ Failed \/ SessionOver \/ SleepElapses \/ SleepCancelled
        BY SMTT(30), <1>1, <4>1 DEF NewConnection, NewConnectionFails, Dial, DialFails, Connected,
              ConnectedFails, Failed, SessionOver, SleepElapses, SleepCancelled
      <4>2. CASE \/ StartSession \/ SelectDone \/ SelectIncoming \/ SelectIncomingClosed \/ Recv
                 \/ SelectOutgoing \/ Write \/ WriteFails
        BY SMTT(30), <1>1, <4>2 DEF StartSession, SelectDone, SelectIncoming,
              SelectIncomingClosed, Recv, SelectOutgoing, Write, WriteFails
      <4>3. CASE \/ CloseConn \/ CloseConnReturns \/ DrainWrite \/ DrainWriteFails \/ DrainDone
                 \/ JoinReader
        BY SMTT(30), <1>1, <4>3 DEF CloseConn, CloseConnReturns, DrainWrite, DrainWriteFails,
              DrainDone, JoinReader
      <4> QED BY SMTT(30), <3>3, <4>1, <4>2, <4>3 DEF RunStep
    <3>4. CASE ReaderStep \/ ReadBadFrame \/ PeerCloses \/ LibrarySends \/ Answer
      BY SMTT(30), <1>1, <3>4 DEF ReaderStep, ReadMessage, Enqueue, EnqueueCancelled, ReadFails,
            ReadBadFrame, PeerCloses, LibrarySends, Answer
    <3> QED BY SMTT(30), <1>1, <3>1, <3>2, <3>3, <3>4 DEF Next
  <2>2. base \in 1..MaxBackoff /\ delay \in Nat /\ MaxBackoff \in Nat
    BY SMTT(30), <1>1, ClientAssumption DEF IInv, TypeOK
  <2>3. delay' >= base \div 2 /\ delay' \in Nat
    BY SMTT(30), <2>1, <2>2, SleepForBounds
  <2>4. delay + 1 <= base \div 2 \/ base = MaxBackoff
    BY SMTT(30), <1>1, <2>2 DEF IInv, BackoffInv
  <2>5. Min({delay + 1, MaxBackoff \div 2}) <= base \div 2
    BY SMTT(30), <2>2, <2>4, MinOfTwo
  <2>6. Min({delay + 1, MaxBackoff \div 2}) \in Nat
    BY SMTT(30), <2>2, MinOfTwo
  <2>7. base \div 2 \in Nat
    BY SMTT(30), <2>2
  <2> QED BY ZenonT(30), <2>3, <2>5, <2>6, <2>7, AtLeastMore
<1>2. IInv /\ [Next]_vars =>
        [loop # "sleep" /\ loop' = "sleep" /\ ~healthy'
            => delay' >= Min({delay + 1, MaxBackoff \div 2})]_vars
  BY SMTT(30), <1>1
<1> QED BY <1>2, ClientInvariant, PTL DEF Spec, DelayGrows
===============================================================================
