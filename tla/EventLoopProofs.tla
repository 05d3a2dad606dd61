---------------------------- MODULE EventLoopProofs ----------------------------
(***************************************************************************)
(* Proofs about EventLoop, for any number of connections.                  *)
(***************************************************************************)
EXTENDS EventLoop, SequenceTheorems, TLAPS

\* Taking the first event moves the others one place forward.
LEMMA TailShifts ==
    ASSUME TypeOK, events # <<>>, events' = Tail(events)
    PROVE  /\ events' \in Seq(Event) /\ Len(events') = Len(events) - 1
           /\ Head(events) = events[1] /\ events[1] \in Event
           /\ 1 \in 1..Len(events)
           /\ \A k \in 1..Len(events') : k + 1 \in 1..Len(events) /\ events'[k] = events[k + 1]
           /\ \A k \in 1..Len(events) : k # 1 => k - 1 \in 1..Len(events') /\ events'[k - 1] = events[k]
  BY DEF TypeOK

\* Publishing an event leaves the ones before it where they are.
LEMMA AppendKeeps ==
    ASSUME TypeOK, NEW e \in Event, events' = Append(events, e)
    PROVE  /\ events' \in Seq(Event) /\ Len(events') = Len(events) + 1
           /\ Len(events) \in Nat
           /\ events'[Len(events) + 1] = e
           /\ \A k \in 1..Len(events) : k \in 1..Len(events') /\ events'[k] = events[k]
  BY DEF TypeOK

LEMMA KindShifts ==
    ASSUME TypeOK, events # <<>>, events' = Tail(events), NEW kind
    PROVE  /\ \A k \in 1..Len(events') : IsKind(k, kind)' <=> IsKind(k + 1, kind)
           /\ \A k \in 1..Len(events) : k # 1 => (IsKind(k - 1, kind)' <=> IsKind(k, kind))
  BY TailShifts DEF IsKind

\* The order of the events in the queue survives the first one, when the connection
\* that becomes active is the one the first one is about.
LEMMA TakeKeepsBetween ==
    ASSUME TypeOK, events # <<>>, events' = Tail(events), Between,
           active' # NoConn =>
               \/ active # NoConn /\ ~IsKind(1, "Disconnected")
               \/ IsKind(1, "Connected")
    PROVE  Between'
<1> SUFFICES ASSUME NEW k \in 1..Len(events'), IsKind(k, "Connected")'
             PROVE  /\ active' # NoConn => \E j \in 1..(k - 1) : IsKind(j, "Disconnected")'
                    /\ \A i \in 1..(k - 1) : IsKind(i, "Connected")' =>
                          \E j \in (i + 1)..(k - 1) : IsKind(j, "Disconnected")'
  BY DEF Between
<1>1. k + 1 \in 1..Len(events) /\ IsKind(k + 1, "Connected")
  BY TailShifts, KindShifts
<1>2. ASSUME NEW j \in 2..k, IsKind(j, "Disconnected")
      PROVE  j - 1 \in 1..(k - 1) /\ IsKind(j - 1, "Disconnected")'
  BY <1>1, <1>2, TailShifts, KindShifts
<1>3. ASSUME active' # NoConn PROVE \E j \in 1..(k - 1) : IsKind(j, "Disconnected")'
  <2>1. PICK j \in 1..k : IsKind(j, "Disconnected") /\ j # 1
    <3>1. CASE active # NoConn /\ ~IsKind(1, "Disconnected")
      BY <1>1, <3>1 DEF Between
    <3>2. CASE IsKind(1, "Connected")
      <4>1. \E j \in 2..k : IsKind(j, "Disconnected")
        BY <1>1, <3>2 DEF Between
      <4> QED BY <4>1
    <3> QED BY <1>3, <3>1, <3>2
  <2> QED BY <1>2, <2>1
<1>4. ASSUME NEW i \in 1..(k - 1), IsKind(i, "Connected")'
      PROVE  \E j \in (i + 1)..(k - 1) : IsKind(j, "Disconnected")'
  <2>1. i + 1 \in 1..k /\ IsKind(i + 1, "Connected")
    BY <1>4, TailShifts, KindShifts
  <2>2. PICK j \in (i + 2)..k : IsKind(j, "Disconnected")
    BY <1>1, <2>1 DEF Between
  <2> QED BY <1>2, <2>2
<1> QED BY <1>3, <1>4

LEMMA TakeKeepsFollowed ==
    ASSUME TypeOK, events # <<>>, events' = Tail(events), Followed, conn' = conn,
           active' # NoConn =>
               \/ active # NoConn /\ ~IsKind(1, "Disconnected")
               \/ IsKind(1, "Connected")
    PROVE  Followed'
<1> SUFFICES ASSUME \A c \in Conns : conn[c] # "Connected"
             PROVE  /\ active' # NoConn => \E j \in 1..Len(events') : IsKind(j, "Disconnected")'
                    /\ \A i \in 1..Len(events') : IsKind(i, "Connected")' =>
                          \E j \in (i + 1)..Len(events') : IsKind(j, "Disconnected")'
  BY DEF Followed
<1>1. /\ active # NoConn => \E j \in 1..Len(events) : IsKind(j, "Disconnected")
      /\ \A i \in 1..Len(events) : IsKind(i, "Connected") =>
            \E j \in (i + 1)..Len(events) : IsKind(j, "Disconnected")
  BY DEF Followed
<1>2. ASSUME NEW j \in 1..Len(events), j # 1, IsKind(j, "Disconnected")
      PROVE  j - 1 \in 1..Len(events') /\ IsKind(j - 1, "Disconnected")'
  BY <1>2, TailShifts, KindShifts
<1>3. ASSUME active' # NoConn PROVE \E j \in 1..Len(events') : IsKind(j, "Disconnected")'
  <2>1. PICK j \in 1..Len(events) : IsKind(j, "Disconnected") /\ j # 1
    BY <1>1, <1>3, TailShifts
  <2> QED BY <1>2, <2>1
<1>4. ASSUME NEW i \in 1..Len(events'), IsKind(i, "Connected")'
      PROVE  \E j \in (i + 1)..Len(events') : IsKind(j, "Disconnected")'
  <2>1. i + 1 \in 1..Len(events) /\ IsKind(i + 1, "Connected")
    BY <1>4, TailShifts, KindShifts
  <2>2. PICK j \in (i + 2)..Len(events) : IsKind(j, "Disconnected")
    BY <1>1, <2>1
  <2> QED BY <1>2, <2>2, TailShifts
<1> QED BY <1>3, <1>4

LEMMA TakeKeepsUpIsLast ==
    ASSUME TypeOK, events # <<>>, events' = Tail(events), UpIsLast, conn' = conn
    PROVE  UpIsLast'
<1> SUFFICES ASSUME NEW c \in Conns, conn[c] = "Connected",
                    NEW i \in 1..Len(events'), IsKind(i, "Disconnected")'
             PROVE  \E k \in (i + 1)..Len(events') :
                        events'[k] = [kind |-> "Connected", conn |-> c]
  BY DEF UpIsLast
<1>1. i + 1 \in 1..Len(events) /\ IsKind(i + 1, "Disconnected")
  BY TailShifts, KindShifts
<1>2. PICK k \in (i + 2)..Len(events) : events[k] = [kind |-> "Connected", conn |-> c]
  BY <1>1 DEF UpIsLast
<1>3. k - 1 \in (i + 1)..Len(events') /\ events'[k - 1] = events[k]
  BY <1>2, TailShifts
<1> QED BY <1>2, <1>3

\* The one Connected event that goes is the one whose actor is spawned.
LEMMA TakeKeepsQueued ==
    ASSUME TypeOK, events # <<>>, events' = Tail(events), ConnectedQueued, conn' = conn,
           \A c \in Conns : actor'[c] = actor[c] \/ events[1] = [kind |-> "Connected", conn |-> c]
    PROVE  ConnectedQueued'
<1> SUFFICES ASSUME NEW k \in 1..Len(events'), IsKind(k, "Connected")'
             PROVE  /\ conn[events'[k].conn] \in {"Connected", "Disconnected", "freed"}
                    /\ actor'[events'[k].conn] = "none"
                    /\ \A j \in 1..Len(events') : events'[j] = events'[k] => j = k
  BY DEF ConnectedQueued
<1>1. k + 1 \in 1..Len(events) /\ events'[k] = events[k + 1] /\ IsKind(k + 1, "Connected")
  BY TailShifts, KindShifts
<1>2. /\ conn[events[k + 1].conn] \in {"Connected", "Disconnected", "freed"}
      /\ actor[events[k + 1].conn] = "none"
      /\ \A j \in 1..Len(events) : events[j] = events[k + 1] => j = k + 1
  BY <1>1 DEF ConnectedQueued
<1>3. actor'[events[k + 1].conn] = "none"
  <2>1. events[k + 1] \in Event /\ events[k + 1].kind = "Connected"
    BY <1>1 DEF TypeOK, IsKind
  <2>2. events[k + 1] = [kind |-> "Connected", conn |-> events[k + 1].conn]
    BY <2>1 DEF Event
  <2>3. events[1] # events[k + 1]
    BY <1>2, TailShifts
  <2> QED BY <1>2, <2>1, <2>2, <2>3 DEF Event
<1>4. \A j \in 1..Len(events') : events'[j] = events'[k] => j = k
  BY <1>1, <1>2, TailShifts
<1> QED BY <1>1, <1>2, <1>3, <1>4

USE ZenonT(30)

LEMMA InitIInv == Init => IInv
<1> SUFFICES ASSUME Init PROVE IInv
  OBVIOUS
<1> USE EventLoopAssumption
<1>1. TypeOK
  <2>1. events \in Seq(Event)
    BY SMTT(30) DEF Init
  <2> QED BY <2>1 DEF Init, TypeOK
<1>2. LoopState /\ ActorState
  BY SMTT(30) DEF Init, LoopState, ActorState, Conns, NoConn
<1>3. ConnectedQueued
  BY SMTT(30) DEF Init, ConnectedQueued
<1>4. Sequential /\ Between /\ Followed /\ UpIsLast
  BY SMTT(30) DEF Init, Sequential, Between, Followed, UpIsLast, NoConn
<1> QED BY <1>1, <1>2, <1>3, <1>4 DEF IInv

\* What holds of the queue when the host opens one connection after the other.
Alternate == Sequential /\ Between /\ Followed /\ UpIsLast

LEMMA NextIInv == IInv /\ [Next]_vars => IInv'
<1> SUFFICES ASSUME TypeOK, LoopState, ActorState, ConnectedQueued, ~overlapped => Alternate,
                    [Next]_vars
             PROVE  IInv'
  BY DEF IInv, Alternate
<1> USE EventLoopAssumption
<1>0. Conns \subseteq Nat \ {0} /\ NoConn \notin Conns
  BY SMTT(30) DEF Conns, NoConn
<1>1. ASSUME NEW c \in Conns, NewConnection(c) PROVE IInv'
  <2> DEFINE e == [kind |-> "Init", conn |-> c]
  <2>0. e \in Event /\ events' = Append(events, e)
    BY <1>1 DEF NewConnection, Publish, Event
  <2>1. TypeOK'
    BY <1>1, <2>0, AppendKeeps DEF NewConnection, Publish, TypeOK
  <2>2. LoopState'
    BY <1>1 DEF NewConnection, Publish, TypeOK, LoopState, Released
  <2>3. ActorState'
    BY <1>1 DEF NewConnection, Publish, TypeOK, ActorState
  <2>4. ConnectedQueued'
    BY SMTT(30), <1>1, <2>0, AppendKeeps DEF NewConnection, Publish, TypeOK, ConnectedQueued, IsKind, Event
  <2>5. ASSUME ~overlapped' PROVE Alternate'
    <3>1. Alternate /\ \A d \in 1..(c - 1) : conn[d] = "freed"
      BY <1>1, <2>5 DEF NewConnection, TypeOK, Conns
    <3>2. \A d \in Conns : d > c => conn[d] = "none"
      BY SMTT(30), <1>1, <3>1 DEF NewConnection, Alternate, Sequential, Conns
    <3>3. Sequential'
      BY SMTT(30), <1>0, <1>1, <3>1, <3>2 DEF NewConnection, Publish, TypeOK, Alternate, Sequential, Conns
    <3>4. Between'
      BY SMTT(30), <1>1, <2>0, <3>1, AppendKeeps
         DEF NewConnection, Publish, Alternate, Between, IsKind
    <3>5. Followed'
      BY SMTT(30), <1>1, <2>0, <3>1, AppendKeeps
         DEF NewConnection, Publish, TypeOK, Alternate, Followed, IsKind
    <3>6. UpIsLast'
      BY SMTT(30), <1>1, <2>0, <3>1, AppendKeeps
         DEF NewConnection, Publish, TypeOK, Alternate, UpIsLast, IsKind
    <3> QED BY <3>3, <3>4, <3>5, <3>6 DEF Alternate
  <2> QED BY <2>1, <2>2, <2>3, <2>4, <2>5 DEF IInv, Alternate
<1>2. ASSUME NEW c \in Conns, Connected(c) PROVE IInv'
  <2> DEFINE e == [kind |-> "Connected", conn |-> c]
  <2>0. e \in Event /\ events' = Append(events, e)
    BY <1>2 DEF Connected, Publish, Event
  <2>1. TypeOK'
    BY <1>2, <2>0, AppendKeeps DEF Connected, Publish, TypeOK
  <2>2. LoopState'
    BY <1>2 DEF Connected, Publish, TypeOK, LoopState, Released
  <2>3. ActorState'
    BY <1>2 DEF Connected, Publish, TypeOK, ActorState
  <2>4. ConnectedQueued'
    BY SMTT(30), <1>2, <2>0, AppendKeeps
       DEF Connected, Publish, TypeOK, ActorState, ConnectedQueued, IsKind, Event
  <2>5. ASSUME ~overlapped' PROVE Alternate'
    <3>1. Alternate /\ \A d \in Conns : d # c => conn[d] \in {"none", "freed"}
      BY SMTT(30), <1>0, <1>2, <2>5 DEF Connected, TypeOK, Alternate, Sequential, Conns
    <3>2. Sequential'
      <4>1. c \notin cancelled
        BY <1>2 DEF Connected, ActorState
      <4> QED BY SMTT(30), <1>0, <1>2, <3>1, <4>1 DEF Connected, Publish, TypeOK, Alternate, Sequential, Conns
    <3>3. Between'
      <4>1. /\ active # NoConn => \E j \in 1..Len(events) : IsKind(j, "Disconnected")
            /\ \A i \in 1..Len(events) : IsKind(i, "Connected") =>
                  \E j \in (i + 1)..Len(events) : IsKind(j, "Disconnected")
        BY <1>2, <3>1 DEF Connected, Alternate, Followed
      <4>2. \A k \in 1..Len(events) : \A kind : IsKind(k, kind)' <=> IsKind(k, kind)
        BY <2>0, AppendKeeps DEF IsKind
      <4>3. active' = active
        BY <1>2 DEF Connected, Publish
      <4>4. ASSUME NEW k \in 1..Len(events'), IsKind(k, "Connected")'
            PROVE  /\ active # NoConn => \E j \in 1..(k - 1) : IsKind(j, "Disconnected")
                   /\ \A i \in 1..(k - 1) : IsKind(i, "Connected") =>
                         \E j \in (i + 1)..(k - 1) : IsKind(j, "Disconnected")
        <5>1. CASE k \in 1..Len(events)
          BY <3>1, <4>2, <4>4, <5>1 DEF Alternate, Between
        <5>2. CASE k = Len(events) + 1
          <6>1. k - 1 = Len(events)
            BY SMTT(30), <2>0, <5>2, AppendKeeps
          <6> QED BY <4>1, <6>1
        <5> QED BY SMTT(30), <2>0, <5>1, <5>2, AppendKeeps
      <4>5. \A k \in 1..Len(events') : 1..(k - 1) \subseteq 1..Len(events)
        BY SMTT(30), <2>0, AppendKeeps
      <4> QED BY SMTT(30), <4>2, <4>3, <4>4, <4>5 DEF Between
    <3>4. Followed'
      BY <1>2, <2>0, <3>1, AppendKeeps
         DEF Connected, Publish, TypeOK, Alternate, Followed, IsKind
    <3>5. UpIsLast'
      BY SMTT(30), <1>2, <2>0, <3>1, AppendKeeps
         DEF Connected, Publish, TypeOK, Alternate, UpIsLast, IsKind
    <3> QED BY <3>2, <3>3, <3>4, <3>5 DEF Alternate
  <2> QED BY <2>1, <2>2, <2>3, <2>4, <2>5 DEF IInv, Alternate
<1>3. ASSUME NEW c \in Conns, Disconnected(c) PROVE IInv'
  <2> DEFINE e == [kind |-> "Disconnected", conn |-> c]
  <2>0. e \in Event /\ events' = Append(events, e)
    BY <1>3 DEF Disconnected, Publish, Event
  <2>1. TypeOK'
    BY <1>3, <2>0, AppendKeeps DEF Disconnected, Publish, TypeOK
  <2>2. LoopState'
    BY <1>3 DEF Disconnected, Publish, TypeOK, LoopState, Released
  <2>3. ActorState'
    BY <1>3 DEF Disconnected, Publish, TypeOK, ActorState
  <2>4. ConnectedQueued'
    BY SMTT(30), <1>3, <2>0, AppendKeeps DEF Disconnected, Publish, TypeOK, ConnectedQueued, IsKind, Event
  <2>5. ASSUME ~overlapped' PROVE Alternate'
    <3>1. Alternate /\ \A d \in Conns : d # c => conn[d] \in {"none", "freed"}
      BY SMTT(30), <1>0, <1>3, <2>5 DEF Disconnected, TypeOK, Alternate, Sequential, Conns
    <3>2. Sequential'
      BY SMTT(30), <1>0, <1>3, <3>1 DEF Disconnected, Publish, TypeOK, ActorState, Alternate, Sequential, Conns
    <3>3. Between'
      BY SMTT(30), <1>3, <2>0, <3>1, AppendKeeps
         DEF Disconnected, Publish, TypeOK, Alternate, Between, Followed, IsKind
    <3>4. Followed'
      BY SMTT(30), <1>3, <2>0, <3>1, AppendKeeps
         DEF Disconnected, Publish, TypeOK, Alternate, Followed, IsKind
    <3>5. UpIsLast'
      BY <1>3, <2>0, <3>1, AppendKeeps
         DEF Disconnected, Publish, TypeOK, Alternate, UpIsLast, IsKind
    <3> QED BY <3>2, <3>3, <3>4, <3>5 DEF Alternate
  <2> QED BY <2>1, <2>2, <2>3, <2>4, <2>5 DEF IInv, Alternate
<1>4. ASSUME NEW c \in Conns, Release(c) PROVE IInv'
  <2> DEFINE e == [kind |-> "Release", conn |-> c]
  <2>0. e \in Event /\ events' = Append(events, e)
    BY <1>4 DEF Release, Publish, Event
  <2>1. TypeOK'
    BY <1>4, <2>0, AppendKeeps DEF Release, Publish, TypeOK
  <2>2. LoopState'
    BY <1>4 DEF Release, Publish, TypeOK, LoopState, Released
  <2>3. ActorState'
    BY <1>4 DEF Release, Publish, TypeOK, ActorState
  <2>4. ConnectedQueued'
    BY SMTT(30), <1>4, <2>0, AppendKeeps DEF Release, Publish, TypeOK, ConnectedQueued, IsKind, Event
  <2>5. ASSUME ~overlapped' PROVE Alternate'
    <3>1. Alternate /\ \A d \in Conns : d # c => conn[d] \in {"none", "freed"}
      BY SMTT(30), <1>0, <1>4, <2>5 DEF Release, TypeOK, Alternate, Sequential, Conns
    <3>2. Sequential'
      BY SMTT(30), <1>0, <1>4, <3>1 DEF Release, Publish, TypeOK, ActorState, Alternate, Sequential, Conns
    <3>3. Between'
      BY SMTT(30), <1>4, <2>0, <3>1, AppendKeeps
         DEF Release, Publish, TypeOK, Alternate, Between, Followed, IsKind
    <3>4. Followed'
      BY SMTT(30), <1>4, <2>0, <3>1, AppendKeeps
         DEF Release, Publish, TypeOK, Alternate, Followed, IsKind
    <3>5. UpIsLast'
      BY <1>4, <2>0, <3>1, AppendKeeps
         DEF Release, Publish, TypeOK, Alternate, UpIsLast, IsKind
    <3> QED BY <3>2, <3>3, <3>4, <3>5 DEF Alternate
  <2> QED BY <2>1, <2>2, <2>3, <2>4, <2>5 DEF IInv, Alternate
<1>5. ASSUME FreeCtx PROVE IInv'
  BY SMTT(30), <1>5 DEF FreeCtx, IInv, Alternate, TypeOK, LoopState, ActorState, ConnectedQueued, Released,
              Sequential, Between, Followed, UpIsLast, IsKind
<1>6. ASSUME TakeOther PROVE IInv'
  <2>0. events # <<>> /\ events' = Tail(events)
    BY <1>6 DEF TakeOther
  <2>1. TypeOK'
    BY <1>6, <2>0, TailShifts DEF TakeOther, TypeOK, Event
  <2>2. LoopState'
    BY <1>0, <1>6 DEF TakeOther, TypeOK, LoopState, Released, Event
  <2>3. ActorState'
    BY <1>6 DEF TakeOther, TypeOK, ActorState
  <2>4. ConnectedQueued'
    BY <1>6, <2>0, TakeKeepsQueued DEF TakeOther
  <2>5. ASSUME ~overlapped' PROVE Alternate'
    <3>1. Alternate
      BY <1>6, <2>5 DEF TakeOther
    <3>2. Sequential'
      BY <1>6, <3>1 DEF TakeOther, Alternate, Sequential
    <3>3. Between'
      BY <1>6, <2>0, <3>1, TailShifts, TakeKeepsBetween DEF TakeOther, Alternate, IsKind
    <3>4. Followed'
      BY <1>6, <2>0, <3>1, TailShifts, TakeKeepsFollowed DEF TakeOther, Alternate, IsKind
    <3>5. UpIsLast'
      BY <1>6, <2>0, <3>1, TakeKeepsUpIsLast DEF TakeOther, Alternate
    <3> QED BY <3>2, <3>3, <3>4, <3>5 DEF Alternate
  <2> QED BY <2>1, <2>2, <2>3, <2>4, <2>5 DEF IInv, Alternate
<1>7. ASSUME TakeConnected PROVE IInv'
  <2>0. events # <<>> /\ events' = Tail(events)
    BY <1>7 DEF TakeConnected
  <2>1. TypeOK'
    BY SMTT(30), <1>7, <2>0, TailShifts DEF TakeConnected, StopActor, NoStop, TypeOK, Event
  <2>2. LoopState'
    BY <1>0, <1>7, <2>0, TailShifts DEF TakeConnected, StopActor, NoStop, TypeOK, LoopState, Released, Event
  <2>3. ActorState'
    BY SMTT(30), <1>0, <1>7, <2>0, TailShifts
       DEF TakeConnected, StopActor, NoStop, TypeOK, LoopState, ActorState, ConnectedQueued, IsKind, Event
  <2>4. ConnectedQueued'
    <3>1. events[1] = [kind |-> "Connected", conn |-> active'] /\ active' \in Conns
      BY <1>7, <2>0, TailShifts DEF TakeConnected, Event
    <3> QED BY <1>7, <2>0, <3>1, TakeKeepsQueued DEF TakeConnected, TypeOK
  <2>5. ASSUME ~overlapped' PROVE Alternate'
    <3>1. Alternate
      BY <1>7, <2>5 DEF TakeConnected
    <3>0. active = NoConn
      BY SMTT(30), <1>7, <2>0, <3>1, TailShifts DEF TakeConnected, Alternate, Between, IsKind
    <3>2. Sequential'
      <4>1. awaited' = NoConn /\ cancelled' = cancelled /\ conn' = conn
        BY <1>7, <3>0 DEF TakeConnected, NoStop, LoopState
      <4> QED BY <3>1, <4>1 DEF Alternate, Sequential
    <3>3. Between'
      BY <1>7, <2>0, <3>1, TailShifts, TakeKeepsBetween DEF TakeConnected, Alternate, IsKind
    <3>4. Followed'
      BY <1>7, <2>0, <3>1, TailShifts, TakeKeepsFollowed DEF TakeConnected, Alternate, IsKind
    <3>5. UpIsLast'
      BY <1>7, <2>0, <3>1, TakeKeepsUpIsLast DEF TakeConnected, Alternate
    <3> QED BY <3>2, <3>3, <3>4, <3>5 DEF Alternate
  <2> QED BY <2>1, <2>2, <2>3, <2>4, <2>5 DEF IInv, Alternate
<1>8. ASSUME TakeDisconnected PROVE IInv'
  <2>0. events # <<>> /\ events' = Tail(events)
    BY <1>8 DEF TakeDisconnected
  <2>1. TypeOK'
    BY SMTT(30), <1>8, <2>0, TailShifts DEF TakeDisconnected, StopActor, NoStop, TypeOK, Event
  <2>2. LoopState'
    BY <1>0, <1>8 DEF TakeDisconnected, StopActor, NoStop, TypeOK, LoopState, Released, Event
  <2>3. ActorState'
    BY <1>0, <1>8 DEF TakeDisconnected, StopActor, NoStop, TypeOK, LoopState, ActorState
  <2>4. ConnectedQueued'
    BY <1>8, <2>0, TakeKeepsQueued DEF TakeDisconnected
  <2>5. ASSUME ~overlapped' PROVE Alternate'
    <3>1. Alternate
      BY <1>8, <2>5 DEF TakeDisconnected
    <3>0. active # NoConn => conn[active] # "Connected"
      <4> SUFFICES ASSUME active # NoConn, conn[active] = "Connected" PROVE FALSE
        OBVIOUS
      <4>1. active \in Conns /\ actor[active] # "none"
        BY DEF TypeOK, ActorState
      <4>2. PICK k \in 2..Len(events) : events[k] = [kind |-> "Connected", conn |-> active]
        BY SMTT(30), <1>8, <2>0, <3>1, <4>1, TailShifts DEF TakeDisconnected, Alternate, UpIsLast, IsKind
      <4> QED BY SMTT(30), <2>0, <4>1, <4>2, TailShifts DEF ConnectedQueued, IsKind
    <3>2. Sequential'
      BY <1>0, <1>8, <3>0, <3>1 DEF TakeDisconnected, StopActor, NoStop, TypeOK, Alternate, Sequential
    <3>3. Between'
      BY <1>8, <2>0, <3>1, TailShifts, TakeKeepsBetween DEF TakeDisconnected, Alternate, IsKind
    <3>4. Followed'
      BY <1>8, <2>0, <3>1, TailShifts, TakeKeepsFollowed DEF TakeDisconnected, Alternate, IsKind
    <3>5. UpIsLast'
      BY <1>8, <2>0, <3>1, TakeKeepsUpIsLast DEF TakeDisconnected, Alternate
    <3> QED BY <3>2, <3>3, <3>4, <3>5 DEF Alternate
  <2> QED BY <2>1, <2>2, <2>3, <2>4, <2>5 DEF IInv, Alternate
<1>9. ASSUME LoopEnds PROVE IInv'
  <2>1. events' \in {events, <<>>} /\ <<>> \in Seq(Event)
    BY SMTT(30), <1>9 DEF LoopEnds
  <2>2. TypeOK'
    BY <1>9, <2>1 DEF LoopEnds, StopActor, NoStop, TypeOK
  <2>3. LoopState' /\ ActorState'
    BY <1>0, <1>9 DEF LoopEnds, StopActor, NoStop, TypeOK, LoopState, ActorState, Released
  <2>4. ConnectedQueued'
    BY SMTT(30), <1>9, <2>1 DEF LoopEnds, ConnectedQueued, IsKind
  <2>5. ASSUME ~overlapped' PROVE Alternate'
    <3>1. Alternate /\ \A c \in Conns : conn[c] # "Connected"
      BY <1>9, <2>5 DEF LoopEnds, LoopState, Released
    <3>2. Sequential'
      BY <1>9, <3>1 DEF LoopEnds, Alternate, Sequential
    <3>3. Between' /\ Followed' /\ UpIsLast'
      BY SMTT(30), <1>9, <2>1, <3>1 DEF LoopEnds, Alternate, Between, Followed, UpIsLast, IsKind
    <3> QED BY <3>2, <3>3 DEF Alternate
  <2> QED BY <2>2, <2>3, <2>4, <2>5 DEF IInv, Alternate
<1>10. ASSUME ActorJoined PROVE IInv'
  <2>1. events' \in {events, <<>>} /\ <<>> \in Seq(Event) /\ (events' = <<>> => active = NoConn \/ events = <<>>)
    BY SMTT(30), <1>10 DEF ActorJoined, LoopState
  <2>2. TypeOK'
    BY <1>10, <2>1 DEF ActorJoined, TypeOK
  <2>3. LoopState' /\ ActorState'
    BY <1>0, <1>10 DEF ActorJoined, TypeOK, LoopState, ActorState, Released
  <2>4. ConnectedQueued'
    BY SMTT(30), <1>10, <2>1 DEF ActorJoined, ConnectedQueued, IsKind
  <2>5. ASSUME ~overlapped' PROVE Alternate'
    <3>1. Alternate
      BY <1>10, <2>5 DEF ActorJoined
    <3>2. Sequential'
      BY <1>10, <3>1 DEF ActorJoined, Alternate, Sequential
    <3>3. Between' /\ Followed' /\ UpIsLast'
      BY SMTT(30), <1>10, <2>1, <3>1 DEF ActorJoined, Alternate, Between, Followed, UpIsLast, IsKind
    <3> QED BY <3>2, <3>3 DEF Alternate
  <2> QED BY <2>2, <2>3, <2>4, <2>5 DEF IInv, Alternate
<1>11. ASSUME UNCHANGED <<conn, overlapped, events, loop, active, awaited, cancelled>>,
              ctx' # ctx => ctx = "freeing" /\ ctx' = "freed",
              actor' \in [Conns -> {"none", "running", "ended", "panicked"}],
              \A c \in Conns : actor'[c] # actor[c] =>
                  actor[c] = "running" /\ actor'[c] \in {"ended", "panicked"}
      PROVE  IInv'
  <2>1. TypeOK'
    BY <1>11 DEF TypeOK
  <2>2. LoopState' /\ ActorState'
    BY <1>11 DEF TypeOK, LoopState, ActorState, Released
  <2>3. ConnectedQueued'
    <3>1. \A k \in 1..Len(events) : events[k].conn \in Conns
      <4>1. \A k \in 1..Len(events) : events[k] \in Event
        BY SMTT(30) DEF TypeOK
      <4> QED BY <4>1 DEF Event
    <3> QED BY SMTT(30), <1>11, <3>1 DEF ConnectedQueued, IsKind
  <2>4. Sequential' = Sequential /\ Between' = Between /\ Followed' = Followed /\ UpIsLast' = UpIsLast
    BY SMTT(30), <1>11 DEF Sequential, Between, Followed, UpIsLast, IsKind
  <2> QED BY <1>11, <2>1, <2>2, <2>3, <2>4 DEF IInv, Alternate
<1>12. ASSUME NEW c \in Conns, ActorEnds(c) \/ ActorPanics(c) PROVE IInv'
  <2>1. /\ UNCHANGED <<conn, overlapped, events, loop, active, awaited, cancelled>>
        /\ ctx' = ctx
    BY <1>12 DEF ActorEnds, ActorPanics
  <2>2. /\ actor' \in [Conns -> {"none", "running", "ended", "panicked"}]
        /\ \A d \in Conns : actor'[d] # actor[d] =>
               actor[d] = "running" /\ actor'[d] \in {"ended", "panicked"}
    BY <1>12 DEF ActorEnds, ActorPanics, TypeOK
  <2> QED BY <1>11, <2>1, <2>2
<1>13. ASSUME RuntimeEnds PROVE IInv'
  <2>1. /\ UNCHANGED <<conn, overlapped, events, loop, active, awaited, cancelled>>
        /\ ctx = "freeing" /\ ctx' = "freed"
    BY <1>13 DEF RuntimeEnds
  <2>2. /\ actor' \in [Conns -> {"none", "running", "ended", "panicked"}]
        /\ \A d \in Conns : actor'[d] # actor[d] =>
               actor[d] = "running" /\ actor'[d] \in {"ended", "panicked"}
    BY <1>13 DEF RuntimeEnds, TypeOK
  <2> QED BY <1>11, <2>1, <2>2
<1>14. ASSUME UNCHANGED vars PROVE IInv'
  <2>1. /\ UNCHANGED <<conn, overlapped, events, loop, active, awaited, cancelled>>
        /\ ctx' = ctx
    BY <1>14 DEF vars
  <2>2. /\ actor' \in [Conns -> {"none", "running", "ended", "panicked"}]
        /\ \A d \in Conns : actor'[d] # actor[d] =>
               actor[d] = "running" /\ actor'[d] \in {"ended", "panicked"}
    BY <1>14 DEF vars, TypeOK
  <2> QED BY <1>11, <2>1, <2>2
<1> QED BY <1>1, <1>2, <1>3, <1>4, <1>5, <1>6, <1>7, <1>8, <1>9, <1>10, <1>12, <1>13, <1>14
        DEF Next, Host, Loop, Finished

\* The queue of lifecycle events, the active connection and the actors are related
\* as IInv says in every state handle_connection_events can reach.
THEOREM EventLoopInvariant == Spec => []IInv
  BY InitIInv, NextIInv, PTL DEF Spec

\* "A single connection can be active at any one time": an actor that runs is in the
\* hands of the loop, and with one connection after the other there is only one.
THEOREM OneActorRuns == Spec => []OneActorAtATime
<1>1. IInv => OneActorAtATime
  BY SMTT(30) DEF IInv, ActorState, Sequential, OneActorAtATime, NoConn, Conns
<1> QED BY <1>1, EventLoopInvariant, PTL

\* publish_event finds the loop listening while the host holds a connection.
THEOREM LoopListens == Spec => []LoopOutlivesConnections
<1>1. IInv => LoopOutlivesConnections
  BY DEF IInv, LoopState, LoopOutlivesConnections
<1> QED BY <1>1, EventLoopInvariant, PTL

\* A Disconnected event, which names no connection, never stops the actor of a
\* connection opened after the one it is about was freed.
THEOREM LateEventsAreHarmless == Spec => []StopsOnlyItsConnection
<1>1. IInv => StopsOnlyItsConnection
  BY DEF IInv, Sequential, StopsOnlyItsConnection
<1> QED BY <1>1, EventLoopInvariant, PTL

===============================================================================
