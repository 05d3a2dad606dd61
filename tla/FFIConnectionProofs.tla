-------------------------- MODULE FFIConnectionProofs --------------------------
(***************************************************************************)
(* Proofs about FFIConnection, for any requests, any capacity of the       *)
(* channels, with and without a time driver.                               *)
(***************************************************************************)
EXTENDS FFIConnection, FiniteSetTheorems, SequenceTheorems, TLAPS

LEMMA SeqGrows ==
    ASSUME NEW S, NEW T, S \subseteq T, NEW s \in Seq(S)
    PROVE  s \in Seq(T)
  OBVIOUS

LEMMA SeqTail ==
    ASSUME NEW S, NEW s \in Seq(S), s # <<>>
    PROVE  /\ Head(s) \in S /\ Head(s) = s[1]
           /\ Tail(s) \in Seq(S) /\ Len(Tail(s)) = Len(s) - 1
           /\ Len(s) \in Nat \ {0}
           /\ \A k \in 1..Len(Tail(s)) : k + 1 \in 1..Len(s) /\ Tail(s)[k] = s[k + 1]
  OBVIOUS

-------------------------------------------------------------------------------
(* How often something is in a queue *)

LEMMA CountType ==
    ASSUME NEW U, NEW q \in Seq(U), NEW x
    PROVE  IsFiniteSet({k \in 1..Len(q) : q[k] = x}) /\ Count(q, x) \in Nat
<1>1. Len(q) \in Nat /\ {k \in 1..Len(q) : q[k] = x} \in SUBSET (1..Len(q))
  OBVIOUS
<1>2. IsFiniteSet(1..Len(q))
  BY <1>1, FS_Interval
<1> QED BY <1>1, <1>2, FS_Subset, FS_CardinalityType DEF Count

LEMMA CountEmpty == ASSUME NEW x PROVE Count(<<>>, x) = 0
<1>1. {k \in 1..Len(<<>>) : <<>>[k] = x} = {}
  OBVIOUS
<1> QED BY <1>1, FS_EmptySet DEF Count

LEMMA CountAppend ==
    ASSUME NEW U, NEW q \in Seq(U), NEW e \in U, NEW x
    PROVE  Count(Append(q, e), x) = Count(q, x) + At(e, x)
<1> DEFINE K == {k \in 1..Len(q) : q[k] = x}
<1> DEFINE L == {k \in 1..Len(Append(q, e)) : Append(q, e)[k] = x}
<1>1. /\ Len(q) \in Nat /\ Len(Append(q, e)) = Len(q) + 1
      /\ \A k \in 1..Len(q) : Append(q, e)[k] = q[k]
      /\ Append(q, e)[Len(q) + 1] = e
  OBVIOUS
<1>2. L = IF e = x THEN K \cup {Len(q) + 1} ELSE K
  BY <1>1
<1>3. Len(q) + 1 \notin K
  BY <1>1
<1>4. IsFiniteSet(K) /\ Cardinality(K) \in Nat
  BY Zenon, CountType DEF Count
<1> HIDE DEF K, L
<1>5. Cardinality(K \cup {Len(q) + 1}) = Cardinality(K) + 1
  BY Zenon, <1>3, <1>4, FS_AddElement
<1>6. Cardinality(L) = Cardinality(K) + At(e, x)
  BY <1>2, <1>4, <1>5 DEF At
<1> QED BY Zenon, <1>6 DEF Count, K, L

LEMMA CountTail ==
    ASSUME NEW U, NEW q \in Seq(U), q # <<>>, NEW x
    PROVE  Count(q, x) = Count(Tail(q), x) + At(Head(q), x)
<1> DEFINE K == {k \in 1..Len(q) : q[k] = x}
<1> DEFINE L == {k \in 1..Len(Tail(q)) : Tail(q)[k] = x}
<1> DEFINE f == [k \in L |-> k + 1]
<1>1. /\ Len(q) \in Nat \ {0} /\ Len(Tail(q)) = Len(q) - 1 /\ Head(q) = q[1] /\ Tail(q) \in Seq(U)
      /\ \A k \in 1..Len(Tail(q)) : Tail(q)[k] = q[k + 1]
  BY SeqTail
<1>2. L \subseteq 1..(Len(q) - 1) /\ \A k \in L : k + 1 \in K \ {1}
  BY <1>1
<1>3. ASSUME NEW k \in K \ {1} PROVE k - 1 \in L /\ k = (k - 1) + 1
  <2>1. k \in Nat /\ k - 1 \in 1..Len(Tail(q)) /\ k = (k - 1) + 1
    BY <1>1
  <2>2. Tail(q)[k - 1] = q[k]
    BY <1>1, <2>1
  <2> QED BY <2>1, <2>2
<1>4. IsFiniteSet(K) /\ IsFiniteSet(L) /\ Cardinality(K) \in Nat /\ Cardinality(L) \in Nat
  BY Zenon, <1>1, CountType DEF Count
<1> HIDE DEF K, L
<1>5. f \in Bijection(L, K \ {1})
  <2>1. f \in [L -> K \ {1}]
    BY <1>2
  <2>2. \A j, k \in L : f[j] = f[k] => j = k
    BY <1>1, <1>2
  <2>3. \A k \in K \ {1} : \E j \in L : f[j] = k
    BY <1>3
  <2> QED BY <2>1, <2>2, <2>3 DEF Bijection, Injection, Surjection, IsInjective
<1>6. Cardinality(L) = Cardinality(K \ {1})
  BY <1>4, <1>5, FS_Bijection DEF ExistsBijection
<1>7. Cardinality(K \ {1}) = IF 1 \in K THEN Cardinality(K) - 1 ELSE Cardinality(K)
  BY Zenon, <1>4, FS_RemoveElement
<1>8. 1 \in K <=> Head(q) = x
  BY <1>1 DEF K
<1>9. Cardinality(K) = Cardinality(L) + At(Head(q), x)
  BY <1>4, <1>6, <1>7, <1>8 DEF At
<1> QED BY Zenon, <1>9 DEF Count, K, L

LEMMA CountMaybe ==
    ASSUME NEW U, NEW q \in Seq(U), NEW e \in U, NEW r \in {q, Append(q, e)}, NEW x
    PROVE  Count(r, x) \in Nat /\ Count(r, x) <= Count(q, x) + At(e, x)
<1>1. Count(q, x) \in Nat /\ At(e, x) \in Nat
  BY Zenon, CountType DEF At
<1>2. CASE r = q
  BY <1>1, <1>2
<1>3. CASE r = Append(q, e)
  BY <1>1, <1>3, CountAppend
<1> QED BY <1>2, <1>3

LEMMA Marks ==
    ASSUME NEW v, NEW S, NEW x
    PROVE  At(v, x) \in Nat /\ In(S, x) \in Nat /\ (v # x => At(v, x) = 0)
  BY DEF At, In

-------------------------------------------------------------------------------
(* set_disconnected and the tasks *)

USE ZenonT(30)

LEMMA TasksJoinedNext == TasksJoined /\ [Next]_vars => TasksJoined'
<1> SUFFICES ASSUME TasksJoined, [Next]_vars PROVE TasksJoined'
  OBVIOUS
<1> USE DEF TasksJoined, NoCallbackAfterDisconnect
<1>1. CASE UNCHANGED <<ffi, io, dt, pc>>
  BY <1>1
<1>2. CASE IoTask
  BY <1>2 DEF IoTask, IoTakes, IoStops, SendCbTakes, SendCbFails, IoExits, actorVars
<1>3. CASE DispatchTask
  BY <1>3 DEF DispatchTask, DispatchTakes, DispatchStops, DispatchCbAccepts,
              DispatchCbRefuses, DispatchReplies, DispatchExits, actorVars
<1>4. CASE SetSendCallback \/ SetConnected \/ SetDisconnected \/ Disconnect \/ Free
  BY <1>4 DEF SetSendCallback, SetConnected, SetDisconnected, Disconnect, JoinIo, JoinDispatch,
              Free, taskVars, actorVars
<1>5. ASSUME NEW m, RecvIncoming(m) PROVE UNCHANGED <<ffi, io, dt, pc>>
  BY <1>5 DEF RecvIncoming, taskVars, actorVars
<1>6. CASE RequestStop \/ Finished \/ UNCHANGED vars
  BY <1>1, <1>6 DEF RequestStop, Finished, vars, taskVars, actorVars
<1>7. ASSUME NEW id \in Ids, ServerDispatches(id) \/ HostAnswers(id) PROVE UNCHANGED <<ffi, io, dt, pc>>
  BY <1>5, <1>7 DEF ServerDispatches, HostAnswers, taskVars, actorVars
<1>8. ASSUME NEW kind \in Kinds, ServerSendsOther(kind) PROVE UNCHANGED <<ffi, io, dt, pc>>
  BY <1>5, <1>8 DEF ServerSendsOther
<1>9. CASE ActorStep \/ EventDropped
  <2>1. UNCHANGED <<ffi, io, dt>>
    BY <1>9 DEF ActorStep, EventDropped, taskVars
  <2>2. pc # "unborn"
    BY <1>9 DEF ActorStep, EventDropped, Actor, Spawn, Send, SendOk, SendClosed, SendFull,
       BackoffStopped, BackoffElapsed, Upgrade, ReportFailure, Loop, LoopStopped, LoopResponse,
       LoopNoResponse, LoopMessage, LoopNoMessage
  <2> QED BY <2>1, <2>2
<1> QED BY <1>1, <1>2, <1>3, <1>4, <1>6, <1>7, <1>8, <1>9 DEF Next

-------------------------------------------------------------------------------
(* The dispatch path *)

\* A request that the actor takes in the Active phase was delivered in it.
LEMMA HeadIsValid ==
    ASSUME QueueInv, pc = "incoming", inQ # <<>>, Head(inQ).kind = "dispatch", phase = "Active"
    PROVE  Head(inQ).id \in valid
<1>1. PICK ps \in Seq({"Handshaking", "Active", "Error"}) : Leads(ps)
  BY DEF QueueInv, Ended
<1>2. 1 \in 1..Len(inQ) /\ Head(inQ) = inQ[1]
  BY SMTT(30), SeqTail DEF QueueInv
<1> QED BY <1>1, <1>2 DEF Leads, Reached

LEMMA PathRecv ==
    ASSUME PathInv, NEW m \in FromServer, m.kind = "dispatch" => m.id \in Ids, RecvIncoming(m)
    PROVE  PathInv'
<1>1. valid \subseteq valid' /\ valid' \subseteq Ids /\ ToServer \subseteq ToServer'
  BY DEF RecvIncoming, PathInv, ToServer
<1>2. UNCHANGED <<host, reqQ, respQ, outQ, wire, sending, ioMsg, dtId, dt, report, pc>>
  BY DEF RecvIncoming, taskVars, actorVars
<1>3. reqQ' \in Seq(valid') /\ respQ' \in Seq(valid')
  BY <1>1, <1>2, SeqGrows DEF PathInv
<1>4. outQ' \in Seq(ToServer') /\ wire' \in Seq(ToServer')
  BY <1>1, <1>2, SeqGrows DEF PathInv
<1> QED BY <1>1, <1>2, <1>3, <1>4 DEF PathInv

LEMMA PathActor ==
    ASSUME PathInv, QueueInv, ActorStep
    PROVE  PathInv'
<1> USE DEF PathInv
<1>0. UNCHANGED <<valid, host, wire, ioMsg, dtId, dt>> /\ ToServer' = ToServer
  BY DEF ActorStep, taskVars, hostVars, ToServer
<1>1. /\ NoMsg \in ToServer /\ \A id \in valid : Msg("Response", id) \in ToServer
      /\ \A kind \in {"Hello", "Pong", "ProtocolError"} : Msg(kind, NoId) \in ToServer
  BY DEF NoMsg, Msg, ToServer
<1>2. ASSUME NEW how \in {"exited", "panicked"}, End(how) PROVE PathInv'
  <2>1. <<>> \in Seq(valid)
    BY SMTT(30)
  <2> QED BY <1>0, <1>1, <1>2, <2>1 DEF End
<1>3. CASE Spawn
  BY <1>0, <1>1, <1>3 DEF Spawn, RetrySend, channelVars
<1>4. CASE Send
  <2>1. CASE SendOk
    BY SMTT(30), <1>0, <1>1, <2>1 DEF SendOk, RetrySendReturns
  <2>2. CASE SendClosed \/ BackoffStopped
    BY <1>0, <1>1, <2>2 DEF SendClosed, BackoffStopped, RetrySendReturns, channelVars
  <2>3. CASE SendFull
    BY <1>0, <1>2, <2>3 DEF SendFull, channelVars
  <2>4. CASE BackoffElapsed
    BY <1>0, <2>4 DEF BackoffElapsed, channelVars
  <2> QED BY <1>4, <2>1, <2>2, <2>3, <2>4 DEF Send
<1>5. CASE Upgrade
  BY <1>0, <1>5 DEF Upgrade, channelVars
<1>6. CASE ReportFailure
  BY SMTT(30), <1>0, <1>6 DEF ReportFailure
<1>7. CASE Loop
  <2>1. CASE LoopStopped
    BY <1>2, <2>1 DEF LoopStopped
  <2>2. CASE LoopResponse
    <3>1. Head(respQ) \in valid /\ Tail(respQ) \in Seq(valid)
      BY <2>2, SeqTail DEF LoopResponse
    <3> QED BY <1>0, <1>1, <2>2, <3>1 DEF LoopResponse, RetrySend
  <2>3. CASE LoopNoResponse
    BY <1>0, <1>2, <2>3 DEF LoopNoResponse, channelVars
  <2>4. CASE LoopNoMessage
    BY <1>0, <1>2, <2>4 DEF LoopNoMessage, channelVars
  <2>5. CASE LoopMessage
    <3> DEFINE m == Head(inQ)
    <3>1. UNCHANGED <<outQ, respQ>>
      BY <2>5 DEF LoopMessage
    <3>2. CASE ProtocolError(m) \/ Ping(m)
      BY <1>0, <1>1, <3>1, <3>2 DEF ProtocolError, Ping, RetrySend
    <3>3. CASE Ignore(m) \/ HelloAck(m)
      BY <1>0, <3>1, <3>3 DEF Ignore, HelloAck
    <3>4. CASE HandleDispatch(m)
      <4>1. m.id \in valid
        BY <2>5, <3>4, HeadIsValid DEF LoopMessage, HandleDispatch
      <4>2. reqQ' \in {reqQ, Append(reqQ, m.id)} /\ sending' = sending
        BY <3>4 DEF HandleDispatch
      <4>3. reqQ' \in Seq(valid)
        <5>1. reqQ \in Seq(valid)
          OBVIOUS
        <5>2. Append(reqQ, m.id) \in Seq(valid)
          BY <4>1, <5>1, AppendProperties
        <5> QED BY <4>2, <5>1, <5>2
      <4>4. \/ pc' = "loop" /\ report' = report
            \/ pc' = "failed" /\ report' = m.id
        BY <3>4 DEF HandleDispatch
      <4> QED BY <1>0, <3>1, <4>1, <4>2, <4>3, <4>4
    <3> QED BY <2>5, <3>2, <3>3, <3>4 DEF LoopMessage
  <2> QED BY <1>7, <2>1, <2>2, <2>3, <2>4, <2>5 DEF Loop
<1> QED BY <1>3, <1>4, <1>5, <1>6, <1>7 DEF ActorStep, Actor

LEMMA PathTasks ==
    ASSUME PathInv, IoTask \/ DispatchTask
    PROVE  PathInv'
<1> USE DEF PathInv
<1>1. NoMsg \in ToServer /\ <<>> \in Seq(ToServer) /\ <<>> \in Seq(valid)
  BY SMTT(30) DEF NoMsg, Msg, ToServer
<1>2. CASE IoTask
  <2>0. UNCHANGED <<valid, host, reqQ, respQ, sending, dt, dtId, report, pc>> /\ ToServer' = ToServer
    BY <1>2 DEF IoTask, IoTakes, IoStops, SendCbTakes, SendCbFails, actorVars, channelVars,
                hostVars, ToServer
  <2>1. CASE IoTakes
    <3>1. Head(outQ) \in ToServer /\ Tail(outQ) \in Seq(ToServer)
      BY <2>1, SeqTail DEF IoTakes
    <3> QED BY <2>0, <2>1, <3>1 DEF IoTakes
  <2>2. CASE IoStops \/ SendCbFails
    BY <1>1, <2>0, <2>2 DEF IoStops, SendCbFails, IoExits
  <2>3. CASE SendCbTakes
    BY SMTT(30), <1>1, <2>0, <2>3 DEF SendCbTakes, channelVars
  <2> QED BY <1>2, <2>1, <2>2, <2>3 DEF IoTask
<1>3. CASE DispatchTask
  <2>0. UNCHANGED <<valid, outQ, wire, sending, ioMsg, report, pc>> /\ ToServer' = ToServer
    BY <1>3 DEF DispatchTask, DispatchTakes, DispatchStops, DispatchCbAccepts,
                DispatchCbRefuses, DispatchReplies, actorVars, channelVars, hostVars, ToServer
  <2>1. CASE DispatchTakes
    <3>1. Head(reqQ) \in valid /\ Tail(reqQ) \in Seq(valid)
      BY <2>1, SeqTail DEF DispatchTakes
    <3> QED BY <2>0, <2>1, <3>1 DEF DispatchTakes, hostVars
  <2>2. CASE DispatchStops
    BY <1>1, <2>0, <2>2 DEF DispatchStops, DispatchExits, hostVars
  <2>3. CASE DispatchCbAccepts \/ DispatchCbRefuses
    BY <2>0, <2>3 DEF DispatchCbAccepts, DispatchCbRefuses, channelVars, hostVars
  <2>4. CASE DispatchReplies
    <3>1. dtId \in valid /\ UNCHANGED host
      BY <2>4 DEF DispatchReplies, hostVars
    <3>2. respQ' \in Seq(valid)
      <4>1. respQ' = respQ \/ respQ' = Append(respQ, dtId)
        BY <2>4 DEF DispatchReplies, DispatchExits, SendResponse
      <4>2. Append(respQ, dtId) \in Seq(valid)
        BY <3>1, AppendProperties
      <4> QED BY <4>1, <4>2
    <3> QED BY <1>1, <2>0, <2>4, <3>1, <3>2 DEF DispatchReplies, DispatchExits
  <2> QED BY <1>3, <2>1, <2>2, <2>3, <2>4 DEF DispatchTask
<1> QED BY <1>2, <1>3

LEMMA PathNext == PathInv /\ QueueInv /\ [Next]_vars => PathInv'
<1> SUFFICES ASSUME PathInv, QueueInv, [Next]_vars PROVE PathInv'
  OBVIOUS
<1>1. CASE SetSendCallback \/ SetDisconnected \/ Disconnect \/ Free \/ RequestStop \/ Finished
           \/ UNCHANGED vars
  BY <1>1 DEF SetSendCallback, SetDisconnected, Disconnect, JoinIo, JoinDispatch, Free, RequestStop,
              Finished, vars, actorVars, channelVars, taskVars, hostVars, PathInv, ToServer
<1>2. CASE SetConnected
  BY <1>2 DEF SetConnected, hostVars, PathInv, ToServer
<1>3. ASSUME NEW id \in Ids, ServerDispatches(id) PROVE PathInv'
  BY <1>3, PathRecv DEF ServerDispatches, Msg, FromServer, ServerKinds
<1>4. ASSUME NEW kind \in Kinds, ServerSendsOther(kind) PROVE PathInv'
  BY <1>4, PathRecv, FFIAssumption DEF ServerSendsOther, Msg, FromServer
<1>5. ASSUME NEW id \in Ids, HostAnswers(id) PROVE PathInv'
  <2>1. UNCHANGED <<valid, reqQ, outQ, wire, sending, ioMsg, dt, dtId, report, pc>> /\ ToServer' = ToServer
    BY <1>5 DEF HostAnswers, actorVars, taskVars, ToServer
  <2>2. respQ' \in Seq(valid)
    <3>1. id \in valid /\ respQ \in Seq(valid)
      BY <1>5 DEF HostAnswers, PathInv
    <3>2. respQ' \in {respQ, Append(respQ, id)}
      BY <1>5 DEF HostAnswers, SendResponse
    <3> QED BY SMTT(30), <3>1, <3>2
  <2> QED BY <1>5, <2>1, <2>2 DEF HostAnswers, PathInv
<1>6. CASE EventDropped
  <2>1. NoMsg \in ToServer /\ <<>> \in Seq(valid)
    BY SMTT(30) DEF NoMsg, Msg, ToServer
  <2> QED BY <1>6, <2>1 DEF EventDropped, End, taskVars, hostVars, PathInv, ToServer
<1> QED BY <1>1, <1>2, <1>3, <1>4, <1>5, <1>6, PathActor, PathTasks DEF Next

-------------------------------------------------------------------------------
(* The messages of the server *)

LEMMA QueueRecv ==
    ASSUME QueueInv, NEW m \in FromServer, RecvIncoming(m)
    PROVE  QueueInv'
<1> USE DEF QueueInv
<1> DEFINE Ph == {"Handshaking", "Active", "Error"}
<1>1. view' \in Ph /\ view' = Expected(view, m)
  BY DEF RecvIncoming, Expected
<1>2. UNCHANGED <<pc, phase>> /\ (Ended' <=> Ended)
  BY DEF RecvIncoming, actorVars, Ended
<1>3. CASE Ended
  BY <1>1, <1>2, <1>3 DEF RecvIncoming
<1>4. CASE ~Ended
  <2>1. inQ' = Append(inQ, m) /\ inQ' \in Seq(FromServer)
    BY SMTT(30), <1>4 DEF RecvIncoming
  <2>2. PICK ps \in Seq(Ph) : Leads(ps)
    BY <1>4
  <2>0. PICK v \in Ph : v = view'
    BY <1>1
  <2> DEFINE qs == Append(ps, v)
  <2> DEFINE n == Len(inQ)
  <2>3. /\ n \in Nat /\ Len(ps) = n + 1 /\ qs \in Seq(Ph) /\ Len(qs) = n + 2 /\ Len(inQ') = n + 1
        /\ \A k \in 1..(n + 1) : qs[k] = ps[k]
        /\ qs[n + 2] = v
        /\ \A k \in 1..n : inQ'[k] = inQ[k]
        /\ inQ'[n + 1] = m
    BY SMTT(30), <1>1, <2>1, <2>2 DEF Leads
  <2>4. qs[1] = Reached' /\ ps[n + 1] = view
    BY SMTT(30), <1>2, <2>2, <2>3 DEF Leads, Reached
  <2>5. ASSUME NEW k \in 1..(n + 1)
        PROVE  /\ qs[k + 1] = Expected(qs[k], inQ'[k])
               /\ inQ'[k].kind = "dispatch" /\ qs[k] = "Active" => inQ'[k].id \in valid'
    <3>1. CASE k \in 1..n
      <4>1. k + 1 \in 1..(n + 1) /\ k \in 1..(n + 1)
        BY SMTT(30), <2>3, <3>1
      <4>2. valid \subseteq valid'
        BY DEF RecvIncoming
      <4> HIDE DEF qs
      <4> QED BY <2>2, <2>3, <3>1, <4>1, <4>2 DEF Leads
    <3>2. CASE k = n + 1
      <4>1. m.kind = "dispatch" /\ view = "Active" => m.id \in valid'
        BY DEF RecvIncoming
      <4>2. qs[k] = view /\ inQ'[k] = m /\ qs[k + 1] = view'
        BY SMTT(30), <2>0, <2>3, <2>4, <3>2
      <4> QED BY <1>1, <4>1, <4>2
    <3> QED BY SMTT(30), <2>3, <3>1, <3>2
  <2>6. Leads(qs)'
    <3> HIDE DEF qs
    <3> QED BY SMTT(30), <2>0, <2>3, <2>4, <2>5 DEF Leads, Expected
  <2> QED BY <1>1, <2>1, <2>3, <2>6
<1> QED BY <1>3, <1>4

LEMMA QueueStays ==
    ASSUME QueueInv, UNCHANGED <<inQ, view, valid>>, Ended => Ended', Reached' = Reached
    PROVE  QueueInv'
<1>1. CASE Ended
  BY <1>1 DEF QueueInv
<1>2. CASE ~Ended
  <2>1. PICK ps \in Seq({"Handshaking", "Active", "Error"}) : Leads(ps)
    BY <1>2 DEF QueueInv
  <2>2. Leads(ps)'
    BY <2>1 DEF Leads, Expected
  <2> QED BY <2>1, <2>2 DEF QueueInv
<1> QED BY <1>1, <1>2

LEMMA QueueEnds ==
    ASSUME QueueInv, NEW how \in {"exited", "panicked"}, End(how), view' = view
    PROVE  QueueInv'
<1>1. inQ' \in Seq(FromServer)
  BY SMTT(30) DEF End
<1> QED BY <1>1 DEF QueueInv, End, Ended

\* The handlers of the delegate move to the phase the protocol calls for.
LEMMA QueueMessage ==
    ASSUME QueueInv, LoopMessage, UNCHANGED <<view, valid>>
    PROVE  QueueInv'
<1> DEFINE Ph == {"Handshaking", "Active", "Error"}
<1>1. PICK ps \in Seq(Ph) : Leads(ps)
  BY DEF QueueInv, LoopMessage, Ended
<1> DEFINE qs == Tail(ps)
<1> DEFINE n == Len(inQ)
<1>2. inQ # <<>> /\ inQ \in Seq(FromServer) /\ inQ' = Tail(inQ) /\ pc = "incoming"
  BY DEF QueueInv, LoopMessage
<1>3. /\ n \in Nat \ {0} /\ Head(inQ) = inQ[1] /\ inQ[1] \in FromServer
      /\ inQ' \in Seq(FromServer) /\ Len(inQ') = n - 1
      /\ \A k \in 1..(n - 1) : k + 1 \in 1..n /\ inQ'[k] = inQ[k + 1]
  BY <1>2, SeqTail
<1>4. ps # <<>> /\ Len(ps) = n + 1
  BY SMTT(30), <1>1, <1>3 DEF Leads
<1>5. /\ qs \in Seq(Ph) /\ Len(qs) = n
      /\ \A k \in 1..n : k + 1 \in 1..(n + 1) /\ qs[k] = ps[k + 1]
  BY SMTT(30), <1>3, <1>4, SeqTail
<1>6. phase \in Ph /\ ps[1] = phase /\ ps[2] = Expected(phase, inQ[1])
  <2>1. ps[1] = phase /\ 1 \in 1..n /\ 1 \in 1..Len(ps)
    BY SMTT(30), <1>1, <1>2, <1>3, <1>4 DEF Leads, Reached
  <2> QED BY SMTT(30), <1>1, <2>1 DEF Leads
<1>7. phase' = Expected(phase, inQ[1]) /\ pc' \notin {"unborn", "queued"}
  <2>1. CASE ProtocolError(inQ[1])
    BY <1>3, <1>6, <2>1 DEF ProtocolError, Violates, RetrySend, Expected
  <2>2. CASE Ignore(inQ[1])
    BY <2>2 DEF Ignore, Expected
  <2>3. CASE Ping(inQ[1])
    BY <2>3 DEF Ping, RetrySend, Expected
  <2>4. CASE HelloAck(inQ[1])
    BY <2>4 DEF HelloAck, Expected
  <2>5. CASE HandleDispatch(inQ[1])
    BY <2>5 DEF HandleDispatch, Expected
  <2> QED BY <1>3, <2>1, <2>2, <2>3, <2>4, <2>5 DEF LoopMessage
<1>8. Leads(qs)'
  <2>1. qs[1] = Reached'
    BY SMTT(30), <1>3, <1>5, <1>6, <1>7 DEF Reached
  <2>2. qs[Len(qs)] = view'
    BY SMTT(30), <1>1, <1>3, <1>4, <1>5 DEF Leads
  <2>3. ASSUME NEW k \in 1..(n - 1)
        PROVE  /\ qs[k + 1] = Expected(qs[k], inQ'[k])
               /\ inQ'[k].kind = "dispatch" /\ qs[k] = "Active" => inQ'[k].id \in valid'
    <3>1. k \in 1..n /\ k + 1 \in 1..n /\ qs[k] = ps[k + 1] /\ qs[k + 1] = ps[(k + 1) + 1]
          /\ inQ'[k] = inQ[k + 1]
      BY SMTT(30), <1>3, <1>5
    <3> HIDE DEF qs
    <3> QED BY <1>1, <3>1 DEF Leads
  <2> HIDE DEF qs
  <2> QED BY SMTT(30), <1>3, <1>5, <2>1, <2>2, <2>3 DEF Leads, Expected
<1> QED BY <1>3, <1>5, <1>8 DEF QueueInv

LEMMA QueueNext == TasksJoined /\ QueueInv /\ [Next]_vars => QueueInv'
<1> SUFFICES ASSUME TasksJoined, QueueInv, [Next]_vars PROVE QueueInv'
  OBVIOUS
<1>1. ASSUME UNCHANGED <<inQ, view, valid, pc, phase>> PROVE QueueInv'
  BY <1>1, QueueStays DEF Ended, Reached
<1>2. CASE SetSendCallback \/ SetDisconnected \/ Disconnect \/ Free \/ RequestStop \/ Finished
           \/ IoTask \/ UNCHANGED vars
  BY <1>1, <1>2 DEF SetSendCallback, SetDisconnected, Disconnect, JoinIo, JoinDispatch, Free,
     RequestStop, Finished, IoTask, IoTakes, IoStops, SendCbTakes, SendCbFails,
     vars, actorVars, channelVars, hostVars
<1>3. CASE DispatchTask
  BY <1>1, <1>3 DEF DispatchTask, DispatchTakes, DispatchStops, DispatchCbAccepts,
     DispatchCbRefuses, DispatchReplies, actorVars, channelVars, hostVars
<1>4. CASE SetConnected
  BY <1>4, QueueStays DEF SetConnected, TasksJoined, hostVars, Ended, Reached
<1>5. ASSUME NEW id \in Ids, ServerDispatches(id) PROVE QueueInv'
  BY <1>5, QueueRecv DEF ServerDispatches, Msg, FromServer, ServerKinds
<1>6. ASSUME NEW kind \in Kinds, ServerSendsOther(kind) PROVE QueueInv'
  BY <1>6, QueueRecv, FFIAssumption DEF ServerSendsOther, Msg, FromServer
<1>7. ASSUME NEW id \in Ids, HostAnswers(id) PROVE QueueInv'
  BY <1>1, <1>7 DEF HostAnswers, actorVars
<1>8. CASE EventDropped
  BY <1>8, QueueEnds DEF EventDropped, hostVars
<1>9. CASE ActorStep
  <2>0. UNCHANGED <<view, valid>>
    BY <1>9 DEF ActorStep, hostVars
  <2>1. CASE Spawn
    BY <2>0, <2>1, QueueStays DEF Spawn, RetrySend, channelVars, Ended, Reached
  <2>2. CASE SendOk \/ SendClosed \/ BackoffStopped \/ BackoffElapsed
    BY <2>0, <2>2, QueueStays DEF SendOk, SendClosed, BackoffStopped, BackoffElapsed,
       RetrySendReturns, channelVars, Ended, Reached
  <2>3. CASE SendFull
    BY <2>0, <2>3, QueueStays, QueueEnds DEF SendFull, channelVars, Ended, Reached
  <2>4. CASE Upgrade \/ ReportFailure
    BY <2>0, <2>4, QueueStays DEF Upgrade, ReportFailure, channelVars, Ended, Reached
  <2>5. CASE LoopStopped
    BY <2>0, <2>5, QueueEnds DEF LoopStopped
  <2>6. CASE LoopResponse
    BY <2>0, <2>6, QueueStays DEF LoopResponse, RetrySend, Ended, Reached
  <2>7. CASE LoopNoResponse
    BY <2>0, <2>7, QueueStays, QueueEnds DEF LoopNoResponse, channelVars, Ended, Reached
  <2>8. CASE LoopNoMessage
    BY <2>0, <2>8, QueueStays, QueueEnds DEF LoopNoMessage, channelVars, Ended, Reached
  <2>9. CASE LoopMessage
    BY <2>0, <2>9, QueueMessage
  <2> QED BY <1>9, <2>1, <2>2, <2>3, <2>4, <2>5, <2>6, <2>7, <2>8, <2>9
          DEF ActorStep, Actor, Send, Loop
<1> QED BY <1>2, <1>3, <1>4, <1>5, <1>6, <1>7, <1>8, <1>9 DEF Next

-------------------------------------------------------------------------------
(* One copy of each request *)

LEMMA CountsAreNat ==
    ASSUME PathInv, QueueInv, NEW id
    PROVE  /\ Count(inQ, Msg("dispatch", id)) \in Nat /\ Count(reqQ, id) \in Nat
           /\ Count(respQ, id) \in Nat /\ Count(outQ, Answer(id)) \in Nat /\ Count(wire, Answer(id)) \in Nat
           /\ In(unsent, id) \in Nat /\ At(report, id) \in Nat /\ At(dtId, id) \in Nat /\ In(host, id) \in Nat
           /\ At(sending, Answer(id)) \in Nat /\ At(ioMsg, Answer(id)) \in Nat
<1>1. /\ Count(inQ, Msg("dispatch", id)) \in Nat /\ Count(reqQ, id) \in Nat
      /\ Count(respQ, id) \in Nat /\ Count(outQ, Answer(id)) \in Nat /\ Count(wire, Answer(id)) \in Nat
  BY CountType DEF PathInv, QueueInv
<1> QED BY <1>1, Marks

LEMMA StagesAreNat ==
    ASSUME PathInv, QueueInv, NEW id
    PROVE  Undelivered(id) \in Nat /\ AsRequest(id) \in Nat /\ AsAnswer(id) \in Nat
  BY SMTT(30), CountsAreNat DEF Undelivered, AsRequest, AsAnswer

\* A step that adds no copy.
LEMMA NoMoreCopies ==
    ASSUME PathInv, QueueInv, PathInv', QueueInv', OnceInv, NEW id \in Ids,
           \/ /\ Undelivered(id)' <= Undelivered(id) /\ AsRequest(id)' <= AsRequest(id)
              /\ AsAnswer(id)' <= AsAnswer(id)
           \/ /\ Undelivered(id)' + AsRequest(id)' <= Undelivered(id) + AsRequest(id)
              /\ AsAnswer(id)' = AsAnswer(id)
           \/ /\ Undelivered(id)' = Undelivered(id)
              /\ AsRequest(id)' + AsAnswer(id)' <= AsRequest(id) + AsAnswer(id)
    PROVE  Copies(id)' <= 1
<1>1. Undelivered(id) \in Nat /\ AsRequest(id) \in Nat /\ AsAnswer(id) \in Nat
  BY StagesAreNat
<1>2. Undelivered(id)' \in Nat /\ AsRequest(id)' \in Nat /\ AsAnswer(id)' \in Nat
  <2>1. /\ Count(inQ', Msg("dispatch", id)) \in Nat /\ Count(reqQ', id) \in Nat
        /\ Count(respQ', id) \in Nat /\ Count(outQ', Answer(id)) \in Nat /\ Count(wire', Answer(id)) \in Nat
    BY CountType DEF PathInv, QueueInv
  <2>2. /\ In(unsent', id) \in Nat /\ At(report', id) \in Nat /\ At(dtId', id) \in Nat /\ In(host', id) \in Nat
        /\ At(sending', Answer(id)) \in Nat /\ At(ioMsg', Answer(id)) \in Nat
    BY Marks
  <2> QED BY SMTT(30), <2>1, <2>2 DEF Undelivered, AsRequest, AsAnswer
<1> QED BY SMTT(30), <1>1, <1>2 DEF OnceInv, Copies, Places

LEMMA OnceTasks ==
    ASSUME PathInv, QueueInv, PathInv', QueueInv', OnceInv, IoTask \/ DispatchTask, NEW id \in Ids
    PROVE  Copies(id)' <= 1
<1>1. /\ Count(inQ, Msg("dispatch", id)) \in Nat /\ Count(reqQ, id) \in Nat
      /\ Count(respQ, id) \in Nat /\ Count(outQ, Answer(id)) \in Nat /\ Count(wire, Answer(id)) \in Nat
      /\ In(unsent, id) \in Nat /\ At(report, id) \in Nat /\ At(dtId, id) \in Nat /\ In(host, id) \in Nat
      /\ At(sending, Answer(id)) \in Nat /\ At(ioMsg, Answer(id)) \in Nat
  BY CountsAreNat
<1>2. At(NoMsg, Answer(id)) = 0 /\ At(NoId, id) = 0 /\ Count(<<>>, id) = 0 /\ Count(<<>>, Answer(id)) = 0
  BY ActorAssumption, CountEmpty DEF NoMsg, Answer, Msg, At
<1>3. CASE IoTask
  <2>0. UNCHANGED <<unsent, inQ, reqQ, report, dtId, host, respQ, sending>>
    BY <1>3 DEF IoTask, IoTakes, IoStops, SendCbTakes, SendCbFails, actorVars, channelVars, hostVars
  <2>1. /\ Undelivered(id)' = Undelivered(id) /\ AsRequest(id)' = AsRequest(id)
        /\ Undelivered(id) \in Nat /\ AsRequest(id) \in Nat
    BY <2>0, StagesAreNat DEF Undelivered, AsRequest
  <2>2. CASE IoTakes
    <3>1. outQ # <<>> /\ outQ' = Tail(outQ) /\ ioMsg' = Head(outQ) /\ wire' = wire
      BY <2>2 DEF IoTakes
    <3>2. Count(outQ, Answer(id)) = Count(outQ', Answer(id)) + At(ioMsg', Answer(id))
      BY <3>1, CountTail DEF PathInv
    <3>3. Count(outQ', Answer(id)) \in Nat /\ At(ioMsg', Answer(id)) \in Nat
      BY CountType, Marks DEF PathInv
    <3>4. AsAnswer(id)' <= AsAnswer(id)
      <4>1. PICK n \in Nat, i \in Nat : n = Count(outQ', Answer(id)) /\ i = At(ioMsg', Answer(id))
        BY <3>3
      <4>2. AsAnswer(id)' = Count(respQ, id) + At(sending, Answer(id)) + n + i + Count(wire, Answer(id))
        BY <2>0, <3>1, <4>1 DEF AsAnswer
      <4>3. Count(outQ, Answer(id)) = n + i
        BY <3>2, <4>1
      <4> QED BY SMTT(30), <1>1, <4>2, <4>3 DEF AsAnswer
    <3> QED BY SMTT(30), <2>1, <3>4, NoMoreCopies
  <2>3. CASE IoStops \/ SendCbFails
    <3>1. outQ' = <<>> /\ ioMsg' = NoMsg /\ wire' = wire
      BY <2>3 DEF IoStops, SendCbFails, IoExits
    <3>2. AsAnswer(id)' <= AsAnswer(id)
      BY SMTT(30), <1>1, <1>2, <2>0, <3>1 DEF AsAnswer
    <3> QED BY SMTT(30), <2>1, <3>2, NoMoreCopies
  <2>4. CASE SendCbTakes
    <3>1. outQ' = outQ /\ ioMsg' = NoMsg /\ wire' = Append(wire, ioMsg)
      BY <2>4 DEF SendCbTakes, channelVars
    <3>2. Count(wire', Answer(id)) = Count(wire, Answer(id)) + At(ioMsg, Answer(id))
      BY <3>1, CountAppend DEF PathInv
    <3>3. AsAnswer(id)' <= AsAnswer(id)
      BY SMTT(30), <1>1, <1>2, <2>0, <3>1, <3>2 DEF AsAnswer
    <3> QED BY SMTT(30), <2>1, <3>3, NoMoreCopies
  <2> QED BY <1>3, <2>2, <2>3, <2>4 DEF IoTask
<1>4. CASE DispatchTask
  <2>0. UNCHANGED <<unsent, inQ, report, sending, outQ, ioMsg, wire>>
    BY <1>4 DEF DispatchTask, DispatchTakes, DispatchStops, DispatchCbAccepts, DispatchCbRefuses,
                DispatchReplies, actorVars, channelVars, hostVars
  <2>1. Undelivered(id)' = Undelivered(id) /\ Undelivered(id) \in Nat
        /\ AsAnswer(id) \in Nat /\ AsRequest(id) \in Nat
    BY <2>0, StagesAreNat DEF Undelivered
  <2>2. respQ' = respQ => AsAnswer(id)' = AsAnswer(id)
    BY <2>0 DEF AsAnswer
  <2>3. CASE DispatchTakes
    <3>1. reqQ # <<>> /\ reqQ' = Tail(reqQ) /\ dtId' = Head(reqQ) /\ UNCHANGED <<host, respQ>>
      BY <2>3 DEF DispatchTakes, hostVars
    <3>2. Count(reqQ, id) = Count(reqQ', id) + At(dtId', id)
      BY <3>1, CountTail DEF PathInv
    <3>3. PICK n \in Nat, i \in Nat : n = Count(reqQ', id) /\ i = At(dtId', id)
      BY CountType, Marks DEF PathInv
    <3>4. AsRequest(id)' = n + At(report, id) + i + In(host, id)
      BY <2>0, <3>1, <3>3 DEF AsRequest
    <3>5. AsRequest(id)' <= AsRequest(id)
      BY SMTT(30), <1>1, <3>2, <3>3, <3>4 DEF AsRequest
    <3> QED BY SMTT(30), <2>1, <2>2, <3>1, <3>5, NoMoreCopies
  <2>4. CASE DispatchStops
    <3>1. reqQ' = <<>> /\ dtId' = NoId /\ UNCHANGED <<host, respQ>>
      BY <2>4 DEF DispatchStops, DispatchExits, hostVars
    <3>2. AsRequest(id)' <= AsRequest(id)
      BY SMTT(30), <1>1, <1>2, <2>0, <3>1 DEF AsRequest
    <3> QED BY SMTT(30), <2>1, <2>2, <3>1, <3>2, NoMoreCopies
  <2>5. CASE DispatchCbAccepts
    <3>1. host' = host \cup {dtId} /\ dtId' = NoId /\ UNCHANGED <<reqQ, respQ>>
      BY <2>5 DEF DispatchCbAccepts, channelVars
    <3>2. In(host', id) <= In(host, id) + At(dtId, id) /\ In(host', id) \in Nat
      BY SMTT(30), <3>1 DEF In, At
    <3>3. AsRequest(id)' <= AsRequest(id)
      BY SMTT(30), <1>1, <1>2, <2>0, <3>1, <3>2 DEF AsRequest
    <3> QED BY SMTT(30), <2>1, <2>2, <3>1, <3>3, NoMoreCopies
  <2>6. CASE DispatchCbRefuses
    <3>1. UNCHANGED <<reqQ, dtId, host, respQ>>
      BY <2>6 DEF DispatchCbRefuses, channelVars, hostVars
    <3>2. AsRequest(id)' = AsRequest(id)
      BY <2>0, <3>1 DEF AsRequest
    <3> QED BY SMTT(30), <2>1, <2>2, <3>1, <3>2, NoMoreCopies
  <2>7. CASE DispatchReplies
    <3>1. dtId' = NoId /\ host' = host /\ reqQ' \in {reqQ, <<>>} /\ respQ' \in {respQ, Append(respQ, dtId)}
      BY <2>7 DEF DispatchReplies, DispatchExits, SendResponse, hostVars
    <3>2. Count(respQ', id) \in Nat /\ Count(respQ', id) <= Count(respQ, id) + At(dtId, id)
      BY <2>7, <3>1, CountMaybe DEF DispatchReplies, PathInv
    <3>3. AsRequest(id)' + At(dtId, id) <= AsRequest(id) /\ AsRequest(id)' \in Nat
      <4>1. PICK n \in Nat : n = Count(reqQ', id) /\ n <= Count(reqQ, id)
        BY SMTT(30), <1>1, <1>2, <3>1
      <4>2. AsRequest(id)' = n + At(report, id) + 0 + In(host, id)
        BY <1>2, <2>0, <3>1, <4>1 DEF AsRequest
      <4> QED BY SMTT(30), <1>1, <4>1, <4>2 DEF AsRequest
    <3>4. AsAnswer(id)' <= AsAnswer(id) + At(dtId, id) /\ AsAnswer(id)' \in Nat
      <4>1. PICK n \in Nat : n = Count(respQ', id) /\ n <= Count(respQ, id) + At(dtId, id)
        BY <3>2
      <4>2. AsAnswer(id)' = n + At(sending, Answer(id)) + Count(outQ, Answer(id)) + At(ioMsg, Answer(id))
                              + Count(wire, Answer(id))
        BY <2>0, <4>1 DEF AsAnswer
      <4> QED BY SMTT(30), <1>1, <4>1, <4>2 DEF AsAnswer
    <3>5. AsRequest(id)' + AsAnswer(id)' <= AsRequest(id) + AsAnswer(id)
      BY SMTT(30), <1>1, <2>1, <3>3, <3>4
    <3> QED BY <2>1, <3>5, NoMoreCopies
  <2> QED BY <1>4, <2>3, <2>4, <2>5, <2>6, <2>7 DEF DispatchTask
<1> QED BY <1>3, <1>4

LEMMA OnceHost ==
    ASSUME PathInv, QueueInv, PathInv', QueueInv', OnceInv, NEW id \in Ids,
           \/ \E x \in Ids : ServerDispatches(x) \/ HostAnswers(x)
           \/ \E kind \in Kinds : ServerSendsOther(kind)
    PROVE  Copies(id)' <= 1
<1>1. /\ Count(inQ, Msg("dispatch", id)) \in Nat /\ Count(reqQ, id) \in Nat
      /\ Count(respQ, id) \in Nat /\ Count(outQ, Answer(id)) \in Nat /\ Count(wire, Answer(id)) \in Nat
      /\ In(unsent, id) \in Nat /\ At(report, id) \in Nat /\ At(dtId, id) \in Nat /\ In(host, id) \in Nat
      /\ At(sending, Answer(id)) \in Nat /\ At(ioMsg, Answer(id)) \in Nat
  BY CountsAreNat
<1>2. Undelivered(id) \in Nat /\ AsAnswer(id) \in Nat /\ AsRequest(id) \in Nat
  BY StagesAreNat
<1>3. ASSUME NEW m \in FromServer, RecvIncoming(m), In(unsent', id) + At(m, Msg("dispatch", id)) <= In(unsent, id)
      PROVE  Copies(id)' <= 1
  <2>1. /\ UNCHANGED <<reqQ, report, dtId, host, respQ, sending, outQ, ioMsg, wire>>
        /\ inQ' \in {inQ, Append(inQ, m)}
    BY <1>3 DEF RecvIncoming, actorVars, taskVars
  <2>2. AsRequest(id)' = AsRequest(id) /\ AsAnswer(id)' = AsAnswer(id)
    BY <2>1 DEF AsRequest, AsAnswer
  <2>3. /\ Count(inQ', Msg("dispatch", id)) \in Nat
        /\ Count(inQ', Msg("dispatch", id)) <= Count(inQ, Msg("dispatch", id)) + At(m, Msg("dispatch", id))
    BY <2>1, CountMaybe DEF QueueInv
  <2>4. In(unsent', id) \in Nat /\ At(m, Msg("dispatch", id)) \in Nat
    BY Marks
  <2>5. PICK n \in Nat : /\ n = Count(inQ', Msg("dispatch", id))
                         /\ n <= Count(inQ, Msg("dispatch", id)) + At(m, Msg("dispatch", id))
    BY <2>3
  <2>6. Undelivered(id)' <= Undelivered(id)
    BY SMTT(30), <1>1, <1>3, <2>4, <2>5 DEF Undelivered
  <2> QED BY SMTT(30), <1>2, <2>2, <2>6, NoMoreCopies
<1>4. ASSUME NEW x \in Ids, ServerDispatches(x) PROVE Copies(id)' <= 1
  <2>1. In(unsent', id) + At(Msg("dispatch", x), Msg("dispatch", id)) <= In(unsent, id)
    BY SMTT(30), <1>4 DEF ServerDispatches, In, At, Msg
  <2>2. Msg("dispatch", x) \in FromServer
    BY DEF Msg, FromServer, ServerKinds
  <2> QED BY <1>3, <1>4, <2>1, <2>2 DEF ServerDispatches
<1>5. ASSUME NEW kind \in Kinds, ServerSendsOther(kind) PROVE Copies(id)' <= 1
  <2>1. Msg(kind, NoId) \in FromServer /\ At(Msg(kind, NoId), Msg("dispatch", id)) = 0
    BY FFIAssumption, ActorAssumption DEF Msg, FromServer, At
  <2>2. unsent' = unsent
    BY <1>5 DEF ServerSendsOther
  <2> QED BY SMTT(30), <1>1, <1>3, <1>5, <2>1, <2>2 DEF ServerSendsOther
<1>6. ASSUME NEW x \in Ids, HostAnswers(x) PROVE Copies(id)' <= 1
  <2>1. /\ UNCHANGED <<unsent, inQ, reqQ, report, dtId, sending, outQ, ioMsg, wire>>
        /\ x \in host /\ host' = host \ {x} /\ respQ' \in {respQ, Append(respQ, x)}
    BY <1>6 DEF HostAnswers, SendResponse, actorVars, taskVars
  <2>2. Count(respQ', id) \in Nat /\ Count(respQ', id) <= Count(respQ, id) + At(x, id)
    BY <2>1, CountMaybe DEF PathInv
  <2>3. In(host, id) = In(host', id) + At(x, id) /\ In(host', id) \in Nat /\ At(x, id) \in Nat
    BY SMTT(30), <2>1 DEF In, At
  <2>4. PICK h \in Nat, n \in Nat : /\ h = In(host', id) /\ n = Count(respQ', id)
                                     /\ n <= Count(respQ, id) + At(x, id)
    BY <2>2, <2>3
  <2>5. Undelivered(id)' = Undelivered(id)
    BY <2>1 DEF Undelivered
  <2>6. AsRequest(id)' = Count(reqQ, id) + At(report, id) + At(dtId, id) + h
    BY <2>1, <2>4 DEF AsRequest
  <2>7. AsAnswer(id)' = n + At(sending, Answer(id)) + Count(outQ, Answer(id)) + At(ioMsg, Answer(id))
                          + Count(wire, Answer(id))
    BY <2>1, <2>4 DEF AsAnswer
  <2>8. AsRequest(id)' + AsAnswer(id)' <= AsRequest(id) + AsAnswer(id)
    BY SMTT(30), <1>1, <2>3, <2>4, <2>6, <2>7 DEF AsRequest, AsAnswer
  <2> QED BY <2>5, <2>8, NoMoreCopies
<1> QED BY <1>4, <1>5, <1>6

LEMMA OnceActor ==
    ASSUME PathInv, QueueInv, PathInv', QueueInv', OnceInv, NEW id \in Ids, ActorStep \/ EventDropped
    PROVE  Copies(id)' <= 1
<1>1. /\ Count(inQ, Msg("dispatch", id)) \in Nat /\ Count(reqQ, id) \in Nat
      /\ Count(respQ, id) \in Nat /\ Count(outQ, Answer(id)) \in Nat /\ Count(wire, Answer(id)) \in Nat
      /\ In(unsent, id) \in Nat /\ At(report, id) \in Nat /\ At(dtId, id) \in Nat /\ In(host, id) \in Nat
      /\ At(sending, Answer(id)) \in Nat /\ At(ioMsg, Answer(id)) \in Nat
  BY CountsAreNat
<1>2. Undelivered(id) \in Nat /\ AsAnswer(id) \in Nat /\ AsRequest(id) \in Nat
  BY StagesAreNat
<1>3. /\ At(NoId, id) = 0 /\ \A k : Count(<<>>, k) = 0
      /\ \A k \in {"none", "Hello", "Pong", "ProtocolError"} : At(Msg(k, NoId), Answer(id)) = 0
  BY ActorAssumption, CountEmpty DEF Answer, Msg, At
<1>4. UNCHANGED <<unsent, dtId, host, ioMsg, wire>>
  BY DEF ActorStep, EventDropped, taskVars, hostVars
\* Nothing is copied: the actor sends a message of its own, or drops what it has.
<1>5. ASSUME inQ' = inQ \/ inQ' = <<>> \/ (inQ # <<>> /\ inQ' = Tail(inQ)),
             reqQ' = reqQ, report' = report \/ report' = NoId, respQ' = respQ \/ respQ' = <<>>, outQ' = outQ,
             sending' = sending \/ \E k \in {"none", "Hello", "Pong", "ProtocolError"} : sending' = Msg(k, NoId)
      PROVE  Copies(id)' <= 1
  <2>1. Count(inQ', Msg("dispatch", id)) \in Nat /\ Count(inQ', Msg("dispatch", id)) <= Count(inQ, Msg("dispatch", id))
    <3>1. CASE inQ' = inQ \/ inQ' = <<>>
      BY SMTT(30), <1>1, <1>3, <3>1
    <3>2. CASE inQ # <<>> /\ inQ' = Tail(inQ)
      <4>1. /\ Count(inQ, Msg("dispatch", id)) = Count(inQ', Msg("dispatch", id)) + At(Head(inQ), Msg("dispatch", id))
            /\ Count(inQ', Msg("dispatch", id)) \in Nat /\ At(Head(inQ), Msg("dispatch", id)) \in Nat
        BY <3>2, CountTail, CountType, Marks DEF QueueInv
      <4> QED BY SMTT(30), <4>1
    <3> QED BY <1>5, <3>1, <3>2
  <2>2. Undelivered(id)' <= Undelivered(id)
    BY SMTT(30), <1>1, <1>4, <2>1 DEF Undelivered
  <2>3. At(report', id) \in Nat /\ At(report', id) <= At(report, id)
    BY SMTT(30), <1>1, <1>3, <1>5
  <2>4. AsRequest(id)' <= AsRequest(id)
    BY SMTT(30), <1>1, <1>4, <1>5, <2>3 DEF AsRequest
  <2>5. PICK n \in Nat, i \in Nat : /\ n = Count(respQ', id) /\ n <= Count(respQ, id)
                                     /\ i = At(sending', Answer(id)) /\ i <= At(sending, Answer(id))
    BY SMTT(30), <1>1, <1>3, <1>5
  <2>6. AsAnswer(id)' = n + i + Count(outQ, Answer(id)) + At(ioMsg, Answer(id)) + Count(wire, Answer(id))
    BY <1>4, <1>5, <2>5 DEF AsAnswer
  <2>7. AsAnswer(id)' <= AsAnswer(id)
    BY SMTT(30), <1>1, <2>5, <2>6 DEF AsAnswer
  <2> QED BY <2>2, <2>4, <2>7, NoMoreCopies
<1>6. ASSUME NEW how, End(how) PROVE Copies(id)' <= 1
  BY <1>5, <1>6 DEF End, NoMsg
<1>7. CASE EventDropped
  BY <1>6, <1>7 DEF EventDropped
<1>8. CASE Spawn \/ SendClosed \/ BackoffStopped \/ BackoffElapsed \/ Upgrade
  BY <1>5, <1>8 DEF Spawn, RetrySend, RetrySendReturns, SendClosed, BackoffStopped, BackoffElapsed, Upgrade,
     channelVars, NoMsg
<1>9. CASE SendFull \/ LoopStopped \/ LoopNoResponse \/ LoopNoMessage
  BY <1>5, <1>6, <1>9 DEF SendFull, LoopStopped, LoopNoResponse, LoopNoMessage, channelVars
<1>10. CASE SendOk
  <2>1. /\ outQ' = Append(outQ, sending) /\ sending' = NoMsg /\ UNCHANGED <<inQ, reqQ, report, respQ>>
    BY <1>10 DEF SendOk, RetrySendReturns
  <2>2. Undelivered(id)' = Undelivered(id) /\ AsRequest(id)' = AsRequest(id)
    BY <1>4, <2>1 DEF Undelivered, AsRequest
  <2>3. Count(outQ', Answer(id)) = Count(outQ, Answer(id)) + At(sending, Answer(id))
    BY <2>1, CountAppend DEF PathInv
  <2>4. AsAnswer(id)' = Count(respQ, id) + 0 + (Count(outQ, Answer(id)) + At(sending, Answer(id)))
                          + At(ioMsg, Answer(id)) + Count(wire, Answer(id))
    BY <1>3, <1>4, <2>1, <2>3 DEF AsAnswer, NoMsg
  <2>5. AsAnswer(id)' <= AsAnswer(id)
    BY SMTT(30), <1>1, <2>4 DEF AsAnswer
  <2> QED BY SMTT(30), <1>2, <2>2, <2>5, NoMoreCopies
<1>11. CASE ReportFailure
  <2>1. respQ' = Append(respQ, report) /\ report' = NoId /\ UNCHANGED <<inQ, reqQ, sending, outQ>> /\ report \in valid
    BY <1>11 DEF ReportFailure, PathInv
  <2>2. Undelivered(id)' = Undelivered(id)
    BY <1>4, <2>1 DEF Undelivered
  <2>3. Count(respQ', id) = Count(respQ, id) + At(report, id)
    BY <2>1, CountAppend DEF PathInv
  <2>4. AsRequest(id)' = Count(reqQ, id) + 0 + At(dtId, id) + In(host, id)
    BY <1>3, <1>4, <2>1 DEF AsRequest
  <2>5. AsAnswer(id)' = (Count(respQ, id) + At(report, id)) + At(sending, Answer(id)) + Count(outQ, Answer(id))
                          + At(ioMsg, Answer(id)) + Count(wire, Answer(id))
    BY <1>4, <2>1, <2>3 DEF AsAnswer
  <2>6. AsRequest(id)' + AsAnswer(id)' <= AsRequest(id) + AsAnswer(id)
    BY SMTT(30), <1>1, <2>4, <2>5 DEF AsRequest, AsAnswer
  <2> QED BY <2>2, <2>6, NoMoreCopies
<1>12. CASE LoopResponse
  <2>1. /\ respQ # <<>> /\ respQ' = Tail(respQ) /\ sending' = Answer(Head(respQ))
        /\ UNCHANGED <<inQ, reqQ, report, outQ>>
    BY <1>12 DEF LoopResponse, RetrySend, Answer
  <2>2. Undelivered(id)' = Undelivered(id) /\ AsRequest(id)' = AsRequest(id)
    BY <1>4, <2>1 DEF Undelivered, AsRequest
  <2>3. At(sending', Answer(id)) = At(Head(respQ), id)
    BY <2>1 DEF Answer, Msg, At
  <2>4. Count(respQ, id) = Count(Tail(respQ), id) + At(Head(respQ), id)
    BY <2>1, CountTail DEF PathInv
  <2>5. PICK n \in Nat, i \in Nat : n = Count(Tail(respQ), id) /\ i = At(Head(respQ), id)
    BY <2>1, SeqTail, CountType, Marks DEF PathInv
  <2>6. AsAnswer(id)' = n + i + Count(outQ, Answer(id)) + At(ioMsg, Answer(id)) + Count(wire, Answer(id))
    BY <1>4, <2>1, <2>3, <2>5 DEF AsAnswer
  <2>7. AsAnswer(id)' <= AsAnswer(id)
    BY SMTT(30), <1>1, <2>4, <2>5, <2>6 DEF AsAnswer
  <2> QED BY SMTT(30), <1>2, <2>2, <2>7, NoMoreCopies
<1>13. CASE LoopMessage
  <2> DEFINE m == Head(inQ)
  <2>1. inQ # <<>> /\ inQ' = Tail(inQ) /\ UNCHANGED <<outQ, respQ>>
    BY <1>13 DEF LoopMessage
  <2>2. CASE ProtocolError(m) \/ Ignore(m) \/ Ping(m) \/ HelloAck(m)
    BY <1>5, <2>1, <2>2 DEF ProtocolError, Ignore, Ping, HelloAck, RetrySend
  <2>3. CASE HandleDispatch(m)
    <3>1. /\ m.kind = "dispatch" /\ sending' = sending
          /\ \/ reqQ' = Append(reqQ, m.id) /\ report' = report
             \/ reqQ' = reqQ /\ report' = m.id
      BY <2>3 DEF HandleDispatch
    <3>2. m \in FromServer /\ m.id \in valid
      BY <1>13, <2>1, <2>3, SeqTail, HeadIsValid DEF LoopMessage, HandleDispatch, QueueInv
    <3>3. m = Msg("dispatch", m.id)
      BY <3>1, <3>2 DEF FromServer, Msg
    <3>4. At(m, Msg("dispatch", id)) = At(m.id, id)
      BY SMTT(30), <3>3 DEF At, Msg
    <3>5. Count(inQ, Msg("dispatch", id)) = Count(inQ', Msg("dispatch", id)) + At(m, Msg("dispatch", id))
      BY <2>1, CountTail DEF QueueInv
    <3>6. PICK n \in Nat, i \in Nat : n = Count(inQ', Msg("dispatch", id)) /\ i = At(m.id, id)
      BY CountType, Marks DEF QueueInv
    <3>7. Undelivered(id)' = In(unsent, id) + n /\ Undelivered(id) = In(unsent, id) + (n + i)
      BY <1>4, <3>4, <3>5, <3>6 DEF Undelivered
    <3>8. AsAnswer(id)' = AsAnswer(id)
      BY <1>4, <2>1, <3>1 DEF AsAnswer
    <3>9. AsRequest(id)' \in Nat /\ AsRequest(id)' <= AsRequest(id) + i
      <4>1. CASE reqQ' = Append(reqQ, m.id) /\ report' = report
        <5>1. Count(reqQ', id) = Count(reqQ, id) + i
          BY <3>2, <3>6, <4>1, CountAppend DEF PathInv
        <5>2. AsRequest(id)' = (Count(reqQ, id) + i) + At(report, id) + At(dtId, id) + In(host, id)
          BY <1>4, <4>1, <5>1 DEF AsRequest
        <5> QED BY SMTT(30), <1>1, <3>6, <5>2 DEF AsRequest
      <4>2. CASE reqQ' = reqQ /\ report' = m.id
        <5>1. AsRequest(id)' = Count(reqQ, id) + i + At(dtId, id) + In(host, id)
          BY <1>4, <3>6, <4>2 DEF AsRequest
        <5> QED BY SMTT(30), <1>1, <3>6, <5>1 DEF AsRequest
      <4> QED BY <3>1, <4>1, <4>2
    <3>10. Undelivered(id)' + AsRequest(id)' <= Undelivered(id) + AsRequest(id)
      BY SMTT(30), <1>1, <1>2, <3>6, <3>7, <3>9
    <3> QED BY <3>8, <3>10, NoMoreCopies
  <2> QED BY <1>13, <2>2, <2>3 DEF LoopMessage
<1> QED BY <1>7, <1>8, <1>9, <1>10, <1>11, <1>12, <1>13 DEF ActorStep, Actor, Send, Loop

LEMMA OnceNext == PathInv /\ QueueInv /\ PathInv' /\ QueueInv' /\ OnceInv /\ [Next]_vars => OnceInv'
<1> SUFFICES ASSUME PathInv, QueueInv, PathInv', QueueInv', OnceInv, [Next]_vars, NEW id \in Ids
             PROVE  Copies(id)' <= 1
  BY DEF OnceInv
<1>1. CASE \/ SetSendCallback \/ SetConnected \/ SetDisconnected \/ Disconnect \/ Free
           \/ RequestStop \/ Finished \/ UNCHANGED vars
  <2>1. UNCHANGED <<unsent, inQ, reqQ, report, dtId, host, respQ, sending, outQ, ioMsg, wire>>
    BY <1>1 DEF SetSendCallback, SetConnected, SetDisconnected, Disconnect, JoinIo, JoinDispatch, Free,
                RequestStop, Finished, vars, actorVars, channelVars, taskVars, hostVars
  <2>2. Copies(id)' = Copies(id)
    BY <2>1 DEF Copies, Places, Undelivered, AsRequest, AsAnswer
  <2> QED BY <2>2 DEF OnceInv
<1> QED BY <1>1, OnceTasks, OnceHost, OnceActor DEF Next

-------------------------------------------------------------------------------

LEMMA InitIInv == Init => IInv
<1> SUFFICES ASSUME Init PROVE IInv
  OBVIOUS
<1>1. TasksJoined
  BY DEF Init, ActorInit, TasksJoined, NoCallbackAfterDisconnect
<1>2. PathInv
  BY SMTT(30) DEF Init, ActorInit, PathInv, NoMsg, Msg, ToServer
<1>3. QueueInv
  <2> DEFINE ps == <<"Handshaking">>
  <2>1. ps \in Seq({"Handshaking", "Active", "Error"}) /\ Len(ps) = 1 /\ ps[1] = "Handshaking"
    BY SMTT(30)
  <2>2. inQ = <<>> /\ Len(inQ) = 0 /\ inQ \in Seq(FromServer)
    BY SMTT(30) DEF Init, ActorInit
  <2> HIDE DEF ps
  <2>3. Leads(ps)
    BY SMTT(30), <2>1, <2>2 DEF Init, ActorInit, Leads, Reached
  <2> QED BY <2>1, <2>2, <2>3 DEF Init, QueueInv
<1>4. OnceInv
  <2>1. /\ unsent = Ids /\ host = {} /\ inQ = <<>> /\ outQ = <<>> /\ reqQ = <<>> /\ respQ = <<>> /\ wire = <<>>
        /\ sending = NoMsg /\ ioMsg = NoMsg /\ report = NoId /\ dtId = NoId
    BY DEF Init, ActorInit
  <2>2. ASSUME NEW id \in Ids PROVE NoMsg # Answer(id) /\ NoId # id
    BY ActorAssumption DEF NoMsg, Answer, Msg
  <2>3. ASSUME NEW id \in Ids PROVE Undelivered(id) = 1 /\ AsRequest(id) = 0 /\ AsAnswer(id) = 0
    BY SMTT(30), <2>1, <2>2, CountEmpty DEF Undelivered, AsRequest, AsAnswer, In, At
  <2>4. ASSUME NEW id \in Ids PROVE Copies(id) <= 1
    BY SMTT(30), <2>3 DEF Copies, Places
  <2> QED BY <2>4 DEF OnceInv
<1> QED BY <1>1, <1>2, <1>3, <1>4 DEF IInv

\* The joined tasks, the dispatch path and the phases that the queued messages lead
\* through are as IInv says, at every step of the host, the tasks and the actor.
THEOREM ConnectionInvariant == Spec => []IInv
<1>1. IInv /\ [Next]_vars => IInv'
  BY TasksJoinedNext, PathNext, QueueNext, OnceNext DEF IInv
<1> QED BY <1>1, InitIInv, PTL DEF Spec

\* A request reaches the host only if the handshake was complete, and the protocol
\* not violated, when it was delivered, however long it then waits in ffi2lib.
THEOREM DispatchNeedsHandshake == Spec => []DispatchedOnlyWhenActive
<1>1. IInv => DispatchedOnlyWhenActive
  <2> SUFFICES ASSUME IInv PROVE Dispatched \subseteq valid \cup {NoId}
    BY DEF DispatchedOnlyWhenActive
  <2>1. /\ \A k \in 1..Len(reqQ) : reqQ[k] \in valid
        /\ \A k \in 1..Len(respQ) : respQ[k] \in valid
    BY SMTT(30) DEF IInv, PathInv
  <2>2. /\ \A k \in 1..Len(outQ) : outQ[k] \in ToServer
        /\ \A k \in 1..Len(wire) : wire[k] \in ToServer
    BY SMTT(30) DEF IInv, PathInv
  <2> QED BY SMTT(30), <2>1, <2>2 DEF IInv, PathInv, ToServer, Dispatched
<1> QED BY <1>1, ConnectionInvariant, PTL

\* After rc_conn_disconnected has returned the library calls no callback of the host.
THEOREM DisconnectEndsCallbacks == Spec => []NoCallbackAfterDisconnect
<1>1. IInv => NoCallbackAfterDisconnect
  BY DEF IInv, TasksJoined
<1> QED BY <1>1, ConnectionInvariant, PTL

\* Each request is at one place at a time, from dispatch() to the wire: the host gets
\* it once, and one of host, dispatch task and dispatch() answers it, once.
THEOREM RequestsAnsweredOnce == Spec => []AnsweredAtMostOnce
<1>1. ASSUME IInv PROVE AnsweredAtMostOnce
  <2> SUFFICES ASSUME NEW id \in Ids PROVE Places(id) <= 1
    BY DEF AnsweredAtMostOnce
  <2>1. Copies(id) <= 1 /\ Undelivered(id) \in Nat /\ AsRequest(id) \in Nat /\ AsAnswer(id) \in Nat
    BY <1>1, StagesAreNat DEF IInv, OnceInv
  <2> QED BY SMTT(30), <2>1 DEF Copies, Places
<1> QED BY <1>1, ConnectionInvariant, PTL
===============================================================================
