------------------------------ MODULE SessionProofs ------------------------------
(***************************************************************************)
(* Proofs about Session: connection ids are fresh and agreed on, a         *)
(* ClientHello reports how long the connection before it was up, and a     *)
(* DispatchResponse answers one request of the server, once; for any       *)
(* number of connections, messages and nonces and any queue capacities.    *)
(***************************************************************************)
EXTENDS Session, TLAPS

-------------------------------------------------------------------------------
(* Sequences *)

LEMMA AppendFacts ==
    ASSUME NEW S, NEW s \in Seq(S), NEW e \in S
    PROVE  /\ Append(s, e) \in Seq(S) /\ Len(s) \in Nat /\ Len(Append(s, e)) = Len(s) + 1
           /\ \A i \in 1..Len(s) : Append(s, e)[i] = s[i]
           /\ Append(s, e)[Len(s) + 1] = e
OBVIOUS

LEMMA TailFacts ==
    ASSUME NEW S, NEW s \in Seq(S), s # <<>>
    PROVE  /\ Head(s) \in S /\ Head(s) = s[1] /\ Tail(s) \in Seq(S)
           /\ Len(s) \in Nat \ {0} /\ Len(Tail(s)) = Len(s) - 1
           /\ \A i \in 1..Len(Tail(s)) : Tail(s)[i] = s[i + 1]
OBVIOUS

LEMMA SeqFacts ==
    ASSUME NEW S, NEW s \in Seq(S)
    PROVE  Len(s) \in Nat /\ DOMAIN s = 1..Len(s) /\ \A i \in 1..Len(s) : s[i] \in S
OBVIOUS

LEMMA EmptyFacts ==
    ASSUME NEW S
    PROVE  <<>> \in Seq(S) /\ Len(<<>>) = 0 /\ \A s \in Seq(S) : s # <<>> => Len(s) \in Nat \ {0}
OBVIOUS

-------------------------------------------------------------------------------
(* Messages *)

LEMMA NoNonceIsNone == NoNonce \notin Nonces /\ NoNonce \notin ServerNonces
  BY SessionAssumption

LEMMA WireType ==
    ASSUME NEW m \in Messages
    PROVE  Wire(m) \in FromServer /\ Wire(m).message = m
  BY DEF Wire, FromServer, Corr, Signatures, ConnIds

LEMMA WireAckType ==
    ASSUME NEW s \in ServerNonces \cup {NoNonce}, NEW id \in ConnIds
    PROVE  /\ WireAck(s, id) \in FromServer /\ WireAck(s, id).message = "ClientHelloAck"
           /\ WireAck(s, id).server_nonce = s /\ WireAck(s, id).connection_id = id
<1>1. Wire("ClientHelloAck") \in FromServer /\ Wire("ClientHelloAck").message = "ClientHelloAck"
  BY WireType DEF Messages
<1> QED BY Zenon, <1>1 DEF WireAck, FromServer

LEMMA WireDispatchType ==
    ASSUME NEW id \in Nat, NEW p \in ConnIds, NEW s \in Signatures
    PROVE  /\ WireDispatch(id, p, s) \in FromServer /\ WireDispatch(id, p, s).message = "Dispatch"
           /\ WireDispatch(id, p, s).payload = p
<1>1. Wire("Dispatch") \in FromServer /\ Wire("Dispatch").message = "Dispatch"
  BY WireType DEF Messages
<1> QED BY Zenon, <1>1 DEF WireDispatch, FromServer, Corr

\* Decoding changes nothing but what a message that cannot be decoded is called.
LEMMA DecodeType ==
    ASSUME NEW w \in FromServer
    PROVE  /\ Decode(w) \in FromServer
           /\ w.message \in {"ClientHelloAck", "Dispatch"} => Decode(w) = w
           /\ Decode(w).message \in {"ClientHelloAck", "Dispatch"} => Decode(w) = w
  BY DEF Decode, FromServer, Messages

LEMMA AckOfType ==
    ASSUME NEW n \in Nonces, NEW s \in ServerNonces
    PROVE  /\ ConnectionId(n, s) \in ConnIds /\ ConnectionId(n, s) # NoConnId
           /\ AckOf(n, s) \in FromServer /\ AckOf(n, s).message = "ClientHelloAck"
           /\ AckOf(n, s).server_nonce = s /\ AckOf(n, s).connection_id = ConnectionId(n, s)
<1>1. ConnectionId(n, s) \in ConnIds /\ ConnectionId(n, s) # NoConnId
  BY SessionAssumption DEF ConnectionId, ConnIds
<1> QED BY <1>1, WireAckType DEF AckOf

\* An acknowledgement tells which nonces it was made of.
LEMMA AckOfInjective ==
    ASSUME NEW n \in Nonces, NEW m \in Nonces, NEW s \in ServerNonces, NEW t \in ServerNonces,
           AckOf(n, s) = AckOf(m, t)
    PROVE  n = m /\ s = t
<1>1. ConnectionId(n, s) = ConnectionId(m, t)
  BY AckOfType
<1> QED BY <1>1 DEF ConnectionId

\* One that verifies against a nonce was made for that nonce.
LEMMA GoodAckIsAckOf ==
    ASSUME CapturedInv, NEW m \in captured, NEW n \in Nonces, GoodAck(n, m)
    PROVE  \E s \in ServerNonces : m = AckOf(n, s)
<1>1. ASSUME NEW id \in {ChosenId, NoConnId}, m = WireAck(NoNonce, id) PROVE FALSE
  <2>1. m.connection_id = id /\ m.server_nonce = NoNonce
    BY <1>1, WireAckType DEF ConnIds
  <2> QED BY <2>1, SessionAssumption DEF GoodAck, ConnectionId
<1>2. PICK d \in Conns, s \in ServerNonces : drawn[d] \in Nonces /\ m = AckOf(drawn[d], s)
  BY <1>1 DEF CapturedInv
<1>3. m.connection_id = ConnectionId(drawn[d], s) /\ m.server_nonce = s
  BY <1>2, AckOfType
<1>4. drawn[d] = n
  BY <1>3 DEF GoodAck, ConnectionId
<1> QED BY <1>2, <1>4

LEMMA ToServerType ==
    ASSUME NEW k \in {"none", "ClientHello", "Pong", "ProtocolError", "DispatchResponse"}
    PROVE  ToServer(k) \in FromClient /\ ToServer(k).kind = k
  BY DEF ToServer, FromClient, Corr, Reasons

LEMMA ClientHelloType ==
    ASSUME NEW n \in Nonces, NEW t \in Nat
    PROVE  ClientHello(n, t) \in FromClient /\ ClientHello(n, t).nonce = n
  BY Zenon, ToServerType DEF ClientHello, FromClient

LEMMA DispatchResponseType ==
    ASSUME NEW a \in Answers
    PROVE  /\ DispatchResponse(a.id, a.result) \in FromClient
           /\ DispatchResponse(a.id, a.result).kind # "ClientHello"
<1>1. a.id \in Corr /\ WireError(a.result) \in {WireError(r) : r \in Reported}
  BY DEF Answers
<1>2. ToServer("DispatchResponse") \in FromClient /\ ToServer("DispatchResponse").kind = "DispatchResponse"
  BY ToServerType
<1> QED BY Zenon, <1>1, <1>2 DEF DispatchResponse, FromClient

LEMMA ProtocolErrorType ==
    ASSUME NEW p, NEW n, NEW m \in FromServer
    PROVE  /\ ProtocolError(p, Violation(p, n, m), m) \in FromClient
           /\ ProtocolError(p, Violation(p, n, m), m).kind # "ClientHello"
<1>1. Violation(p, n, m) \in Reasons
  BY DEF Violation, PreHandshakeViolation, HandshakingViolation, ActiveViolation, Reasons
<1>2. ToServer("ProtocolError") \in FromClient /\ ToServer("ProtocolError").kind = "ProtocolError"
  BY ToServerType
<1>3. m.correlation_id \in Corr /\ NoId \in Corr /\ HandshakeComplete(p) \in BOOLEAN
  BY DEF FromServer, Corr, HandshakeComplete
<1> QED BY Zenon, <1>1, <1>2, <1>3 DEF ProtocolError, FromClient

LEMMA EncodeType ==
    ASSUME NEW m \in FromClient
    PROVE  /\ Encode(m) \in FromClient /\ Encode(m).nonce = m.nonce
           /\ Encode(m).kind = "ClientHello" => m.kind = "ClientHello"
  BY DEF Encode, FromClient

\* Other messages are said with any nonce.
LEMMA SaidType ==
    ASSUME NEW n, NEW m \in FromClient, m.kind = "ClientHello" => n \in Nonces /\ m.nonce = n
    PROVE  m \in SaidWith(n)
  BY DEF SaidWith

LEMMA NoMsgType == ASSUME NEW n PROVE NoMsg \in SaidWith(n)
  BY ToServerType, SaidType DEF NoMsg

LEMMA NoReportType == NoReport \in Answers
  BY DEF NoReport, Answers, Corr, Reported

USE ZenonT(30)

LEMMA InitIInv == Init => IInv
<1> SUFFICES ASSUME Init PROVE IInv
  OBVIOUS
<1>1. Domains /\ Shared /\ DrawnInv /\ CapturedInv
  BY EmptyFacts DEF Init, Per, Domains, Shared, DrawnInv, CapturedInv
<1>2. ASSUME NEW c \in Conns PROVE ConnInv(c)
  <2>1. EventsOk(c, events, conn[c], actor[c]) /\ StartOk(conn[c], actor[c], drawn[c], phase[c], outQ[c], got[c])
    BY SMTT(30) DEF Init, Per, EventsOk, StartOk
  <2>2. HelloOk(drawn[c], sending[c], outQ[c], got[c])
    BY EmptyFacts, NoMsgType DEF Init, Per, HelloOk
  <2>3. ServerOk(conn[c], drawn[c], captured, serverId[c], sent[c])
    BY EmptyFacts DEF Init, Per, ServerOk
  <2>4. InOk(drawn[c], captured, phase[c], inQ[c])
    BY SMTT(30), EmptyFacts DEF Init, Per, InOk
  <2>5. PhaseOk(drawn[c], captured, phase[c], nonce[c], connId[c], reqQ[c], held[c])
    BY EmptyFacts DEF Init, Per, PhaseOk
  <2> QED BY <2>1, <2>2, <2>3, <2>4, <2>5, EmptyFacts, NoReportType DEF Init, Per, ConnInv
<1> QED BY <1>1, <1>2 DEF IInv

-------------------------------------------------------------------------------
(* Steps of one connection *)

Same(d) ==
    /\ conn'[d] = conn[d] /\ sent'[d] = sent[d] /\ got'[d] = got[d] /\ serverId'[d] = serverId[d]
    /\ held'[d] = held[d] /\ actor'[d] = actor[d] /\ sending'[d] = sending[d] /\ report'[d] = report[d]
    /\ phase'[d] = phase[d] /\ nonce'[d] = nonce[d] /\ drawn'[d] = drawn[d] /\ connId'[d] = connId[d]
    /\ inQ'[d] = inQ[d] /\ outQ'[d] = outQ[d] /\ reqQ'[d] = reqQ[d] /\ respQ'[d] = respQ[d]

StepOf(c) == Domains' /\ \A d \in Conns \ {c} : Same(d)

\* A step that draws no nonce, captures no acknowledgement and publishes no event has
\* its own connection to account for.
LEMMA QuietStepKeeps ==
    ASSUME IInv, NEW c \in Conns, StepOf(c), UNCHANGED <<events, captured>>, drawn' = drawn,
           lastConnDuration' \in Nat, ConnInv(c)'
    PROVE  IInv'
<1>1. ASSUME NEW d \in Conns \ {c} PROVE ConnInv(d)'
  BY DEF IInv, ConnInv, StepOf, Same
<1>2. Domains' /\ Shared' /\ DrawnInv' /\ CapturedInv'
  BY DEF IInv, StepOf, Shared, DrawnInv, CapturedInv
<1> QED BY <1>1, <1>2 DEF IInv

-------------------------------------------------------------------------------
(* Connections are opened and closed *)

LEMMA EventsAppend ==
    ASSUME NEW q \in Seq(Events), NEW e \in Events, NEW d, NEW old, NEW new, NEW a,
           EventsOk(d, q, old, a), old \notin {"none", "init"} => new \notin {"none", "init"},
           Announces(e, d) => old \in {"none", "init"} /\ new \notin {"none", "init"} /\ a = "none"
    PROVE  EventsOk(d, Append(q, e), new, a) /\ Append(q, e) \in Seq(Events)
  BY SMTT(30), AppendFacts DEF EventsOk

\* Taking the announcement of a connection leaves no other.
LEMMA EventsTail ==
    ASSUME NEW q \in Seq(Events), q # <<>>, NEW d, NEW state, NEW a, NEW b,
           EventsOk(d, q, state, a), b = a \/ Announces(Head(q), d)
    PROVE  EventsOk(d, Tail(q), state, b)
<1>1. \A i \in 1..Len(Tail(q)) : i + 1 \in 1..Len(q) /\ i + 1 # 1 /\ Tail(q)[i] = q[i + 1]
  BY SMTT(30), TailFacts
<1>2. Head(q) = q[1] /\ 1 \in 1..Len(q) /\ Len(Tail(q)) \in Nat
  BY SMTT(30), TailFacts
<1>3. ASSUME NEW i \in 1..Len(Tail(q)), Announces(Tail(q)[i], d)
      PROVE  b = "none" /\ state \notin {"none", "init"}
  BY <1>1, <1>2, <1>3 DEF EventsOk
<1>4. ASSUME NEW i \in 1..Len(Tail(q)), NEW j \in 1..Len(Tail(q)),
             Announces(Tail(q)[i], d), Announces(Tail(q)[j], d)
      PROVE  i = j
  BY SMTT(30), <1>1, <1>2, <1>4 DEF EventsOk
<1> QED BY <1>3, <1>4 DEF EventsOk

LEMMA NewConnectionIInv ==
    ASSUME IInv, NEW c \in Conns, NewConnection(c)
    PROVE  IInv'
<1>1. PICK k \in {"Init", "Connected"} :
        /\ events' = Append(events, [kind |-> k, conn |-> c])
        /\ conn[c] = IF k = "Init" THEN "none" ELSE "init"
        /\ conn' = [conn EXCEPT ![c] = IF k = "Init" THEN "init" ELSE "open"]
        /\ UNCHANGED <<sent, got, captured, serverId, held, phaseVars, queues, timeVars, actorVars>>
  BY DEF NewConnection, Publish, Set
<1>2. [kind |-> k, conn |-> c] \in Events
  BY DEF Events
<1>3. Domains' /\ \A d \in Conns \ {c} : conn'[d] = conn[d]
  BY <1>1 DEF IInv, Domains, phaseVars, queues, actorVars
<1>4. conn'[c] = IF k = "Init" THEN "init" ELSE "open"
  BY <1>1 DEF IInv, Domains
<1>5. actor[c] = "none" /\ drawn[c] = NoNonce
  BY <1>1 DEF IInv, ConnInv, StartOk
<1>6. ASSUME NEW d \in Conns PROVE EventsOk(d, events, conn[d], actor[d])'
  <2>1. Announces([kind |-> k, conn |-> c], d) => d = c /\ k = "Connected"
    BY DEF Announces
  <2>2. EventsOk(d, events', conn'[d], actor[d])
    BY SMTT(30), <1>1, <1>2, <1>3, <1>4, <1>5, <2>1, EventsAppend DEF IInv, Shared, ConnInv
  <2> QED BY <1>1, <2>2 DEF actorVars
<1>7. Shared' /\ DrawnInv' /\ CapturedInv'
  <2>1. Shared'
    BY <1>1, <1>2, AppendFacts DEF IInv, Shared, timeVars
  <2> QED BY <1>1, <2>1 DEF IInv, DrawnInv, CapturedInv, phaseVars
<1>8. ASSUME NEW d \in Conns \ {c} PROVE ConnInv(d)'
  BY <1>1, <1>3, <1>6 DEF IInv, ConnInv, phaseVars, queues, actorVars
<1>9. ConnInv(c)'
  <2>1. StartOk(conn[c], actor[c], drawn[c], phase[c], outQ[c], got[c])'
    BY <1>1, <1>4, <1>5 DEF IInv, ConnInv, StartOk, phaseVars, queues, actorVars
  <2>2. ServerOk(conn[c], drawn[c], captured, serverId[c], sent[c])'
    BY <1>1, <1>5, NoNonceIsNone DEF IInv, ConnInv, ServerOk, Agreed, phaseVars
  <2> QED BY <1>1, <1>6, <2>1, <2>2 DEF IInv, ConnInv, phaseVars, queues, actorVars
<1> QED BY <1>3, <1>7, <1>8, <1>9 DEF IInv

LEMMA DropConnIInv ==
    ASSUME IInv, NEW c \in Conns, Close(c) \/ Disconnect(c)
    PROVE  IInv'
<1>1. PICK how \in {"closed", "disconnected"} :
        /\ conn[c] = "open" /\ conn' = [conn EXCEPT ![c] = how]
        /\ sent' = [sent EXCEPT ![c] = <<>>] /\ got' = [got EXCEPT ![c] = <<>>]
        /\ serverId' = [serverId EXCEPT ![c] = NoConnId]
        /\ outQ' = [outQ EXCEPT ![c] = <<>>] /\ reqQ' = [reqQ EXCEPT ![c] = <<>>]
        /\ UNCHANGED <<captured, held, phaseVars, inQ, respQ, timeVars, actorVars>>
        /\ events' = events \/ events' = Append(events, [kind |-> "Disconnected", conn |-> c])
  BY DEF Close, Disconnect, DropConn, Set
<1>2. StepOf(c)
  BY <1>1 DEF IInv, Domains, StepOf, Same, phaseVars, actorVars
<1>3. /\ conn'[c] = how /\ sent'[c] = <<>> /\ got'[c] = <<>> /\ serverId'[c] = NoConnId
      /\ outQ'[c] = <<>> /\ reqQ'[c] = <<>>
  BY <1>1 DEF IInv, Domains
<1>4. ASSUME NEW d \in Conns PROVE EventsOk(d, events, conn[d], actor[d])' /\ events' \in Seq(Events)
  <2>1. /\ [kind |-> "Disconnected", conn |-> c] \in Events
        /\ ~Announces([kind |-> "Disconnected", conn |-> c], d)
    BY DEF Events, Announces
  <2>2. conn'[d] = conn[d] \/ (d = c /\ conn[d] \notin {"none", "init"} /\ conn'[d] \notin {"none", "init"})
    BY <1>1, <1>2, <1>3 DEF StepOf, Same
  <2>3. EventsOk(d, events, conn'[d], actor[d])
    BY <2>2 DEF IInv, ConnInv, EventsOk
  <2>4. EventsOk(d, events', conn'[d], actor[d]) /\ events' \in Seq(Events)
    BY <1>1, <2>1, <2>3, EventsAppend DEF IInv, Shared
  <2> QED BY <1>1, <2>4 DEF actorVars
<1>5. Shared' /\ DrawnInv' /\ CapturedInv'
  BY SMTT(30), <1>1, <1>4 DEF IInv, Shared, DrawnInv, CapturedInv, phaseVars, timeVars
<1>6. ASSUME NEW d \in Conns \ {c} PROVE ConnInv(d)'
  BY <1>1, <1>2, <1>4 DEF IInv, ConnInv, StepOf, Same
<1>7. ConnInv(c)'
  <2>1. StartOk(conn[c], actor[c], drawn[c], phase[c], outQ[c], got[c])'
    BY <1>1, <1>3 DEF IInv, ConnInv, StartOk, phaseVars, actorVars
  <2>2. HelloOk(drawn[c], sending[c], outQ[c], got[c])'
    BY <1>1, <1>3, EmptyFacts DEF IInv, ConnInv, HelloOk, phaseVars, actorVars
  <2>3. ServerOk(conn[c], drawn[c], captured, serverId[c], sent[c])'
    BY <1>3, EmptyFacts DEF ServerOk
  <2>4. PhaseOk(drawn[c], captured, phase[c], nonce[c], connId[c], reqQ[c], held[c])'
    BY <1>1, <1>3, EmptyFacts DEF IInv, ConnInv, PhaseOk, phaseVars
  <2> QED BY <1>1, <1>4, <2>1, <2>2, <2>3, <2>4 DEF IInv, ConnInv, phaseVars, actorVars
<1> QED BY <1>2, <1>5, <1>6, <1>7 DEF IInv, StepOf

-------------------------------------------------------------------------------
(* The server and the application *)

LEMMA MoreAcks ==
    ASSUME NEW n, NEW A, NEW B, A \subseteq B, NEW id, Agreed(n, A, id)
    PROVE  Agreed(n, B, id)
  BY DEF Agreed

\* Only an acknowledgement for its nonce gives a connection a new id.
LEMMA NewAck ==
    ASSUME NEW n, NEW A, NEW w, NEW id, Agreed(n, A \cup {w}, id), ~Agreed(n, A, id)
    PROVE  n \in Nonces /\ \E s \in ServerNonces : w = AckOf(n, s) /\ id = ConnectionId(n, s)
  BY DEF Agreed

\* While a connection is open, the server has not made an id that it does not know.
LEMMA NoIdYet ==
    ASSUME IInv, NEW c \in Conns, conn[c] = "open", serverId[c] = NoConnId
    PROVE  /\ \A id : ~Agreed(drawn[c], captured, id)
           /\ \A m \in captured : ~GoodAck(drawn[c], m)
<1>1. ASSUME NEW id, Agreed(drawn[c], captured, id) PROVE FALSE
  <2>1. id \in ConnIds /\ id # NoConnId
    BY SMTT(30), <1>1, AckOfType DEF Agreed
  <2> QED BY <1>1, <2>1 DEF IInv, ConnInv, ServerOk
<1>2. ASSUME NEW m \in captured, GoodAck(drawn[c], m) PROVE FALSE
  <2>1. CASE drawn[c] \in Nonces
    <3>1. PICK s \in ServerNonces : m = AckOf(drawn[c], s)
      BY <1>2, <2>1, GoodAckIsAckOf DEF IInv
    <3> QED BY <1>1, <2>1, <3>1 DEF Agreed
  <2>2. CASE drawn[c] = NoNonce
    <3>1. m.connection_id = ConnectionId(NoNonce, m.server_nonce)
      BY <1>2, <2>2 DEF GoodAck, ConnectionId
    <3>2. m.server_nonce \in ServerNonces \cup {NoNonce} /\ m.connection_id \in ConnIds
      BY DEF IInv, Shared, FromServer
    <3>3. m.connection_id \in [server : ServerNonces, client : Nonces]
      BY <3>1, <3>2, SessionAssumption DEF ConnIds
    <3> QED BY SMTT(30), <3>1, <3>3, NoNonceIsNone DEF ConnectionId
  <2> QED BY <2>1, <2>2 DEF IInv, ConnInv, PhaseOk
<1> QED BY <1>1, <1>2

\* A message at the end of the queue.
LEMMA InAppend ==
    ASSUME NEW n, NEW A, NEW B, A \subseteq B, NEW p, NEW q, NEW v \in FromServer, InOk(n, A, p, q),
           v.message = "ClientHelloAck" => v \in B,
           v.message = "Dispatch" => v.payload = NoConnId \/ Agreed(n, B, v.payload),
           v.message = "Dispatch" /\ v.payload = NoConnId =>
              p # "Active" /\ \A j \in 1..Len(q) : ~GoodAck(n, q[j])
    PROVE  InOk(n, B, p, Append(q, v))
<1>1. /\ Append(q, v) \in Seq(FromServer) /\ Len(q) \in Nat /\ Len(Append(q, v)) = Len(q) + 1
      /\ \A i \in 1..Len(q) : Append(q, v)[i] = q[i]
      /\ Append(q, v)[Len(q) + 1] = v
  BY ZenonT(40), AppendFacts DEF InOk
<1>2. ASSUME NEW i \in 1..Len(q) PROVE MessageOk(n, B, p, Append(q, v), i)
  <2>1. MessageOk(n, A, p, q, i) /\ Append(q, v)[i] = q[i] /\ \A j \in 1..(i - 1) : Append(q, v)[j] = q[j]
    BY SMTT(30), <1>1 DEF InOk
  <2> QED BY <2>1, MoreAcks DEF MessageOk
<1>3. MessageOk(n, B, p, Append(q, v), Len(q) + 1)
  <2>1. \A j \in 1..((Len(q) + 1) - 1) : j \in 1..Len(q)
    BY SMTT(30), <1>1
  <2> QED BY <1>1, <2>1 DEF MessageOk
<1>4. \A i \in 1..Len(Append(q, v)) : i \in 1..Len(q) \/ i = Len(q) + 1
  BY SMTT(30), <1>1
<1> QED BY <1>1, <1>2, <1>3, <1>4 DEF InOk

\* What the server sends is an acknowledgement of its own, its first, or a message
\* that does not bring a new id.
SendsNoId(c, w) ==
    /\ serverId' = serverId
    /\ w.message = "ClientHelloAck" => w \in captured \cup {WireAck(NoNonce, ChosenId), WireAck(NoNonce, NoConnId)}
    /\ w.message = "Dispatch" => w.payload = serverId[c]

SendsId(c, w, s) ==
    /\ serverId[c] = NoConnId /\ drawn[c] \in Nonces /\ w = AckOf(drawn[c], s)
    /\ serverId' = [serverId EXCEPT ![c] = ConnectionId(drawn[c], s)]

LEMMA ServerSendIInv ==
    ASSUME IInv, NEW c \in Conns, NEW w \in FromServer, ServerSend(c, w),
           SendsNoId(c, w) \/ \E s \in ServerNonces : SendsId(c, w, s)
    PROVE  IInv'
<1>1. PICK v \in FromServer : v = Decode(w) /\ (v.message \in {"ClientHelloAck", "Dispatch"} => v = w)
  BY DecodeType
<1>2. /\ conn[c] = "open" /\ sent' = [sent EXCEPT ![c] = Append(sent[c], w)]
      /\ captured' = IF w.message = "ClientHelloAck" THEN captured \cup {w} ELSE captured
      /\ inQ' = [inQ EXCEPT ![c] = Append(inQ[c], v)]
      /\ UNCHANGED <<conn, got, held, events, phaseVars, outQ, reqQ, respQ, timeVars, actorVars>>
  BY <1>1 DEF ServerSend, Set
<1>3. /\ StepOf(c) /\ sent'[c] = Append(sent[c], w) /\ inQ'[c] = Append(inQ[c], v)
      /\ \A s \in ServerNonces : SendsId(c, w, s) => serverId'[c] = ConnectionId(drawn[c], s)
  BY <1>2 DEF IInv, Domains, StepOf, Same, phaseVars, actorVars, SendsNoId, SendsId
<1>4. captured \subseteq captured' /\ drawn' = drawn
  BY <1>2 DEF phaseVars
<1>5. Domains' /\ Shared' /\ DrawnInv' /\ CapturedInv'
  <2>1. Domains' /\ Shared' /\ DrawnInv'
    BY <1>2, <1>3 DEF IInv, StepOf, Shared, DrawnInv, timeVars, phaseVars
  <2>2. CapturedInv'
    BY SMTT(30), <1>2, <1>4 DEF IInv, CapturedInv, SendsNoId, SendsId
  <2> QED BY <2>1, <2>2
\* Only this connection can get an id by it.
<1>6. ASSUME NEW d \in Conns, NEW id, Agreed(drawn[d], captured', id)
      PROVE  \/ Agreed(drawn[d], captured, id)
             \/ d = c /\ \E s \in ServerNonces : SendsId(c, w, s) /\ id = ConnectionId(drawn[c], s)
  <2>1. SUFFICES ASSUME ~Agreed(drawn[d], captured, id)
                 PROVE  d = c /\ \E s \in ServerNonces : SendsId(c, w, s) /\ id = ConnectionId(drawn[c], s)
    OBVIOUS
  <2>2. captured' = captured \cup {w} /\ captured' # captured /\ w.message = "ClientHelloAck"
    BY <1>2, <1>6, <2>1
  <2>3. PICK t \in ServerNonces : drawn[d] \in Nonces /\ w = AckOf(drawn[d], t) /\ id = ConnectionId(drawn[d], t)
    <3>1. Agreed(drawn[d], captured \cup {w}, id)
      BY <1>6, <2>2
    <3> QED BY SMTT(30), <2>1, <3>1, NewAck
  <2>4. CASE SendsNoId(c, w)
    <3>1. w.server_nonce = t
      BY <2>3, AckOfType
    <3>2. \A x \in {ChosenId, NoConnId} : WireAck(NoNonce, x).server_nonce = NoNonce
      BY WireAckType DEF ConnIds
    <3> QED BY <2>2, <2>4, <3>1, <3>2, NoNonceIsNone DEF SendsNoId
  <2>5. CASE \E s \in ServerNonces : SendsId(c, w, s)
    <3>1. PICK s \in ServerNonces : SendsId(c, w, s)
      BY <2>5
    <3>2. drawn[d] = drawn[c] /\ s = t
      <4>1. drawn[c] \in Nonces /\ AckOf(drawn[d], t) = AckOf(drawn[c], s)
        BY <2>3, <3>1 DEF SendsId
      <4> QED BY <2>3, <4>1, AckOfInjective
    <3>3. d = c
      BY <2>3, <3>2, NoNonceIsNone DEF IInv, DrawnInv
    <3> QED BY <2>3, <3>1, <3>2, <3>3
  <2> QED BY <2>4, <2>5
<1>7. ASSUME NEW d \in Conns
      PROVE  PhaseOk(drawn[d], captured, phase[d], nonce[d], connId[d], reqQ[d], held[d])'
  BY <1>2, <1>4, MoreAcks DEF IInv, ConnInv, PhaseOk, phaseVars
<1>8. ASSUME NEW d \in Conns PROVE ServerOk(conn[d], drawn[d], captured, serverId[d], sent[d])'
  <2>1. ServerOk(conn[d], drawn[d], captured, serverId[d], sent[d])
    BY DEF IInv, ConnInv
  <2>2. sent'[d] \in Seq(FromServer)
    <3>1. sent[d] \in Seq(FromServer) /\ (d # c => sent'[d] = sent[d])
      BY <1>3, <2>1 DEF StepOf, Same, ServerOk
    <3>2. Append(sent[d], w) \in Seq(FromServer)
      BY <3>1, AppendFacts
    <3> QED BY <1>3, <3>1, <3>2
  <2>3. CASE serverId'[d] = serverId[d] /\ (d # c \/ ~\E s \in ServerNonces : SendsId(c, w, s))
    <3>1. \A id : Agreed(drawn[d], captured', id) => Agreed(drawn[d], captured, id)
      BY <1>6, <2>3
    <3> QED BY <1>2, <1>4, <2>1, <2>2, <2>3, <3>1, MoreAcks DEF ServerOk
  <2>4. CASE d = c /\ \E s \in ServerNonces : SendsId(c, w, s)
    <3>1. PICK s \in ServerNonces : SendsId(c, w, s)
      BY <2>4
    <3>2. serverId'[c] = ConnectionId(drawn[c], s) /\ captured' = captured \cup {w}
      BY <1>2, <1>3, <3>1, AckOfType DEF SendsId
    <3>3. Agreed(drawn[c], captured', serverId'[c])
      BY <3>1, <3>2 DEF Agreed, SendsId
    <3>4. ASSUME NEW id, Agreed(drawn[c], captured', id) PROVE id = serverId'[c]
      <4>1. PICK t \in ServerNonces : SendsId(c, w, t) /\ id = ConnectionId(drawn[c], t)
        BY <1>2, <1>6, <3>1, <3>4, NoIdYet DEF SendsId
      <4> QED BY <1>3, <4>1
    <3> QED BY <1>4, <2>2, <2>4, <3>3, <3>4 DEF ServerOk
  <2> QED BY <1>3, <2>3, <2>4 DEF StepOf, Same, SendsNoId
<1>9. ASSUME NEW d \in Conns PROVE InOk(drawn[d], captured, phase[d], inQ[d])'
  <2>1. InOk(drawn[d], captured, phase[d], inQ[d]) /\ phase' = phase
    BY <1>2 DEF IInv, ConnInv, phaseVars
  <2>2. CASE d # c
    <3>1. inQ'[d] = inQ[d]
      BY <1>3, <2>2 DEF StepOf, Same
    <3> QED BY <1>4, <2>1, <3>1, MoreAcks DEF InOk, MessageOk
  <2>3. CASE d = c
    <3>1. v.message = "ClientHelloAck" => v \in captured'
      BY <1>1, <1>2
    <3>2. v.message = "Dispatch" => v.payload = serverId[c] /\ SendsNoId(c, w)
      BY SMTT(30), <1>1, AckOfType DEF SendsNoId, SendsId
    <3>3. v.message = "Dispatch" => v.payload = NoConnId \/ Agreed(drawn[c], captured', v.payload)
      BY <1>4, <3>2, MoreAcks DEF IInv, ConnInv, ServerOk
    <3>4. ASSUME v.message = "Dispatch", v.payload = NoConnId
          PROVE  phase[c] # "Active" /\ \A j \in 1..Len(inQ[c]) : ~GoodAck(drawn[c], inQ[c][j])
      <4>1. (\A id : ~Agreed(drawn[c], captured, id)) /\ \A m \in captured : ~GoodAck(drawn[c], m)
        BY <1>2, <3>2, <3>4, NoIdYet
      <4>2. \A j \in 1..Len(inQ[c]) : ~GoodAck(drawn[c], inQ[c][j])
        BY <2>1, <2>3, <4>1 DEF InOk, MessageOk, GoodAck
      <4> QED BY <4>1, <4>2 DEF IInv, ConnInv, PhaseOk
    <3>5. InOk(drawn[c], captured', phase[c], Append(inQ[c], v))
      BY <1>4, <2>1, <2>3, <3>1, <3>3, <3>4, InAppend
    <3> QED BY <1>3, <1>4, <2>1, <2>3, <3>5
  <2> QED BY <2>2, <2>3
<1>10. ASSUME NEW d \in Conns PROVE ConnInv(d)'
  BY <1>2, <1>7, <1>8, <1>9 DEF IInv, ConnInv, phaseVars, actorVars
<1> QED BY <1>5, <1>10 DEF IInv

LEMMA PerformHandshakeIInv ==
    ASSUME IInv, NEW c \in Conns, PerformHandshake(c)
    PROVE  IInv'
<1>1. PICK s \in ServerNonces :
        /\ ServerSend(c, AckOf(Head(got[c]).nonce, s)) /\ serverId[c] = NoConnId
        /\ serverId' = [serverId EXCEPT ![c] = ConnectionId(Head(got[c]).nonce, s)]
  BY Zenon DEF PerformHandshake, AckOf, Set
<1>2. Head(got[c]) \in SaidWith(drawn[c]) /\ Head(got[c]).kind = "ClientHello"
  BY TailFacts DEF PerformHandshake, IInv, ConnInv, HelloOk
<1>3. drawn[c] \in Nonces /\ Head(got[c]).nonce = drawn[c]
  BY <1>2 DEF SaidWith
<1>4. PICK w \in FromServer : w = AckOf(drawn[c], s)
  BY <1>3, AckOfType
<1>5. ServerSend(c, w) /\ SendsId(c, w, s)
  BY <1>1, <1>3, <1>4 DEF ServerSend, SendsId
<1> QED BY <1>5, ServerSendIInv

\* What the server's state holds: ids it made, and acknowledgements it sent.
LEMMA ServerFacts ==
    ASSUME IInv, NEW c \in Conns
    PROVE  Len(sent[c]) + 1 \in Nat /\ serverId[c] \in ConnIds /\ captured \subseteq FromServer
<1>1. ServerOk(conn[c], drawn[c], captured, serverId[c], sent[c]) /\ captured \subseteq FromServer
  BY DEF IInv, Shared, ConnInv
<1>2. sent[c] \in Seq(FromServer)
  BY <1>1 DEF ServerOk
<1>3. Len(sent[c]) + 1 \in Nat
  BY SMTT(30), <1>2
<1>4. serverId[c] \in ConnIds
  <2>1. CASE serverId[c] = NoConnId
    BY <2>1 DEF ConnIds
  <2>2. CASE serverId[c] # NoConnId
    <3>1. drawn[c] \in Nonces /\ \E s \in ServerNonces : serverId[c] = ConnectionId(drawn[c], s)
      BY <1>1, <2>2 DEF ServerOk, Agreed
    <3> QED BY <3>1, AckOfType
  <2> QED BY <2>1, <2>2
<1> QED BY <1>1, <1>3, <1>4

\* The two acknowledgements the server sends without a handshake.
LEMMA OwnAckFacts ==
    ASSUME NEW id \in {ChosenId, NoConnId}
    PROVE  WireAck(NoNonce, id) \in FromServer /\ WireAck(NoNonce, id).message = "ClientHelloAck"
<1>1. id \in ConnIds /\ NoNonce \in ServerNonces \cup {NoNonce}
  BY DEF ConnIds
<1> QED BY <1>1, WireAckType

\* Only acknowledgements are captured.
LEMMA CapturedFacts ==
    ASSUME IInv, NEW w \in captured
    PROVE  w \in FromServer /\ w.message = "ClientHelloAck"
<1>1. CapturedInv /\ captured \subseteq FromServer
  BY DEF IInv, Shared
<1>2. CASE w \in {WireAck(NoNonce, ChosenId), WireAck(NoNonce, NoConnId)}
  BY <1>2, OwnAckFacts
<1>3. CASE \E d \in Conns, s \in ServerNonces : drawn[d] \in Nonces /\ w = AckOf(drawn[d], s)
  <2>1. PICK n \in Nonces, s \in ServerNonces : w = AckOf(n, s)
    BY <1>3
  <2>2. AckOf(n, s) \in FromServer /\ AckOf(n, s).message = "ClientHelloAck"
    BY AckOfType
  <2> QED BY <2>1, <2>2
<1> QED BY <1>1, <1>2, <1>3 DEF CapturedInv

LEMMA SendsIInv ==
    ASSUME IInv, NEW c \in Conns, DispatchMagicTunnel(c) \/ SendOther(c)
    PROVE  IInv'
<1>1. Len(sent[c]) + 1 \in Nat /\ serverId[c] \in ConnIds /\ captured \subseteq FromServer
  BY ServerFacts
<1>2. PICK w : ServerSend(c, w) /\ serverId' = serverId /\
        \/ \E m \in Plain : w = Wire(m)
        \/ w \in {WireAck(NoNonce, ChosenId), WireAck(NoNonce, NoConnId)}
        \/ w \in captured
        \/ \E s \in Signatures : w = WireDispatch(Len(sent[c]) + 1, serverId[c], s)
  <2>1. CASE DispatchMagicTunnel(c)
    <3>1. PICK w : w = WireDispatch(Len(sent[c]) + 1, serverId[c], "valid")
      OBVIOUS
    <3> QED BY <2>1, <3>1 DEF DispatchMagicTunnel, ServerSend, Signatures
  <2>2. CASE SendOther(c)
    <3>1. PICK w \in Others(c) : ServerSend(c, w) /\ serverId' = serverId
      BY <2>2 DEF SendOther
    <3> QED BY <3>1, SessionAssumption DEF Others, Signatures
  <2> QED BY <2>1, <2>2
<1>3. /\ w \in FromServer
      /\ w.message = "ClientHelloAck" => w \in captured \cup {WireAck(NoNonce, ChosenId), WireAck(NoNonce, NoConnId)}
      /\ w.message = "Dispatch" => w.payload = serverId[c]
  <2>1. CASE \E m \in Plain : w = Wire(m)
    <3>1. \A m \in Plain : m \in Messages /\ m \notin {"ClientHelloAck", "Dispatch"}
      BY SessionAssumption DEF Messages
    <3> QED BY <2>1, <3>1, WireType
  <2>2. CASE w \in {WireAck(NoNonce, ChosenId), WireAck(NoNonce, NoConnId)}
    BY <2>2, OwnAckFacts
  <2>3. CASE w \in captured
    BY <2>3, CapturedFacts
  <2>4. CASE \E s \in Signatures : w = WireDispatch(Len(sent[c]) + 1, serverId[c], s)
    BY SMTT(30), <1>1, <2>4, WireDispatchType
  <2> QED BY <1>2, <2>1, <2>2, <2>3, <2>4
<1> QED BY <1>2, <1>3, ServerSendIInv DEF SendsNoId

LEMMA ServerRecvIInv ==
    ASSUME IInv, NEW c \in Conns, ServerRecv(c)
    PROVE  IInv'
<1>1. /\ conn[c] = "open" /\ outQ[c] # <<>>
      /\ got' = [got EXCEPT ![c] = Append(got[c], Encode(Head(outQ[c])))]
      /\ outQ' = [outQ EXCEPT ![c] = Tail(outQ[c])]
      /\ UNCHANGED <<conn, sent, captured, serverId, held, events, phaseVars, inQ, reqQ, respQ>>
      /\ UNCHANGED <<timeVars, actorVars>>
  BY Zenon DEF ServerRecv, Set
<1>2. /\ StepOf(c) /\ outQ'[c] = Tail(outQ[c])
      /\ got'[c] = Append(got[c], Encode(Head(outQ[c])))
  BY <1>1 DEF IInv, Domains, StepOf, Same, phaseVars, actorVars
<1>3. HelloOk(drawn[c], sending[c], outQ[c], got[c])
  BY DEF IInv, ConnInv
<1>4. Head(outQ[c]) \in SaidWith(drawn[c]) /\ outQ'[c] \in Seq(SaidWith(drawn[c]))
  BY <1>1, <1>2, <1>3, TailFacts DEF HelloOk
<1>5. Encode(Head(outQ[c])) \in SaidWith(drawn[c])
  BY <1>4, EncodeType DEF SaidWith
<1>6. got'[c] \in Seq(SaidWith(drawn[c]))
  BY SMTT(30), <1>2, <1>3, <1>5, AppendFacts DEF HelloOk
<1>7. HelloOk(drawn[c], sending[c], outQ[c], got[c])'
  BY <1>1, <1>3, <1>4, <1>6 DEF HelloOk, phaseVars, actorVars
<1>8. StartOk(conn[c], actor[c], drawn[c], phase[c], outQ[c], got[c])'
  BY <1>1 DEF IInv, ConnInv, StartOk, phaseVars, actorVars
<1>9. ConnInv(c)'
  BY <1>1, <1>7, <1>8 DEF IInv, ConnInv, phaseVars, actorVars
<1> QED BY <1>1, <1>2, <1>9, QuietStepKeeps DEF IInv, Shared, phaseVars, timeVars

LEMMA GetDispatchIInv ==
    ASSUME IInv, NEW c \in Conns, GetDispatch(c)
    PROVE  IInv'
<1>1. /\ reqQ[c] # <<>> /\ reqQ' = [reqQ EXCEPT ![c] = Tail(reqQ[c])]
      /\ held' = [held EXCEPT ![c] = held[c] \cup {Head(reqQ[c])}]
      /\ UNCHANGED <<conn, sent, got, captured, serverId, events, phaseVars, inQ, outQ, respQ>>
      /\ UNCHANGED <<timeVars, actorVars>>
  BY Zenon DEF GetDispatch, Set
<1>2. StepOf(c) /\ reqQ'[c] = Tail(reqQ[c]) /\ held'[c] = held[c] \cup {Head(reqQ[c])}
  BY <1>1 DEF IInv, Domains, StepOf, Same, phaseVars, actorVars
<1>3. PhaseOk(drawn[c], captured, phase[c], nonce[c], connId[c], reqQ[c], held[c])
  BY DEF IInv, ConnInv
<1>4. ASSUME NEW S, reqQ[c] \in Seq(S), held[c] \subseteq S
      PROVE  reqQ'[c] \in Seq(S) /\ held'[c] \subseteq S
  <2>1. Head(reqQ[c]) \in S /\ Tail(reqQ[c]) \in Seq(S)
    BY <1>1, <1>4, TailFacts
  <2> QED BY <1>2, <1>4, <2>1
<1>5. /\ reqQ[c] \in Seq(Requests) /\ held[c] \subseteq Requests /\ phase[c] \notin {"PreHandshake", "Handshaking"}
      /\ phase[c] = "Active" => /\ Agreed(drawn[c], captured, connId[c])
                               /\ reqQ[c] \in Seq(RequestsFor(connId[c])) /\ held[c] \subseteq RequestsFor(connId[c])
  BY <1>1, <1>3 DEF PhaseOk
<1>6. PhaseOk(drawn[c], captured, phase[c], nonce[c], connId[c], reqQ[c], held[c])'
  BY <1>1, <1>3, <1>4, <1>5 DEF PhaseOk, phaseVars
<1>7. ConnInv(c)'
  BY <1>1, <1>6 DEF IInv, ConnInv, phaseVars, actorVars
<1> QED BY <1>1, <1>2, <1>7, QuietStepKeeps DEF IInv, Shared, phaseVars, timeVars

LEMMA RespondIInv ==
    ASSUME IInv, NEW c \in Conns, Respond(c)
    PROVE  IInv'
<1>1. PICK r \in held[c], x \in Results :
        /\ held' = [held EXCEPT ![c] = held[c] \ {r}]
        /\ respQ' = respQ \/ respQ' = [respQ EXCEPT ![c] = Append(respQ[c], [id |-> r.id, result |-> x])]
        /\ UNCHANGED <<conn, sent, got, captured, serverId, events, phaseVars, inQ, outQ, reqQ>>
        /\ UNCHANGED <<timeVars, actorVars>>
  BY DEF Respond, Set
<1>2. /\ StepOf(c) /\ held'[c] = held[c] \ {r}
      /\ respQ'[c] = respQ[c] \/ respQ'[c] = Append(respQ[c], [id |-> r.id, result |-> x])
  BY <1>1 DEF IInv, Domains, StepOf, Same, phaseVars, actorVars
<1>3. PhaseOk(drawn[c], captured, phase[c], nonce[c], connId[c], reqQ[c], held[c]) /\ respQ[c] \in Seq(Answers)
  BY DEF IInv, ConnInv
<1>4. [id |-> r.id, result |-> x] \in Answers
  BY <1>3 DEF PhaseOk, Requests, Answers, Reported
<1>5. respQ'[c] \in Seq(Answers)
  <2>1. Append(respQ[c], [id |-> r.id, result |-> x]) \in Seq(Answers)
    BY <1>3, <1>4, AppendFacts
  <2> QED BY <1>2, <1>3, <2>1
<1>6. PhaseOk(drawn[c], captured, phase[c], nonce[c], connId[c], reqQ[c], held[c])'
  BY <1>1, <1>2, <1>3 DEF PhaseOk, phaseVars
<1>7. ConnInv(c)'
  BY <1>1, <1>5, <1>6 DEF IInv, ConnInv, phaseVars, actorVars
<1> QED BY <1>1, <1>2, <1>7, QuietStepKeeps DEF IInv, Shared, phaseVars, timeVars

-------------------------------------------------------------------------------
(* The actors *)

\* retry_send puts the message into the queue, or keeps it, or loses it.
LEMMA ReplyEffect ==
    ASSUME Domains, NEW c \in Conns, NEW S, NEW m \in S, Reply(c, m), outQ[c] \in Seq(S), sending[c] \in S
    PROVE  /\ DOMAIN actor' = Conns /\ DOMAIN sending' = Conns /\ DOMAIN outQ' = Conns
           /\ \A d \in Conns \ {c} : actor'[d] = actor[d] /\ sending'[d] = sending[d] /\ outQ'[d] = outQ[d]
           /\ actor'[c] \in {"loop", "retry"} /\ sending'[c] \in S /\ outQ'[c] \in Seq(S)
<1>1. Append(outQ[c], m) \in Seq(S)
  BY AppendFacts
<1>2. /\ \E a \in {"loop", "retry"} : actor' = [actor EXCEPT ![c] = a]
      /\ sending' = sending \/ sending' = [sending EXCEPT ![c] = m]
      /\ outQ' = outQ \/ outQ' = [outQ EXCEPT ![c] = Append(outQ[c], m)]
  BY DEF Reply, Set
<1>3. /\ DOMAIN actor' = Conns /\ actor'[c] \in {"loop", "retry"}
      /\ \A d \in Conns \ {c} : actor'[d] = actor[d]
  BY <1>2 DEF Domains
<1>4. DOMAIN sending' = Conns /\ sending'[c] \in S /\ \A d \in Conns \ {c} : sending'[d] = sending[d]
  BY <1>2 DEF Domains
<1>5. DOMAIN outQ' = Conns /\ outQ'[c] \in Seq(S) /\ \A d \in Conns \ {c} : outQ'[d] = outQ[d]
  <2>1. CASE outQ' = outQ
    BY <2>1 DEF Domains
  <2>2. CASE outQ' = [outQ EXCEPT ![c] = Append(outQ[c], m)]
    BY <1>1, <2>2 DEF Domains
  <2> QED BY <1>2, <2>1, <2>2
<1> QED BY <1>3, <1>4, <1>5

\* The nonce of a ClientHello is new, so no acknowledgement on the wire is for it.
LEMMA HelloIInv ==
    ASSUME IInv, NEW c \in Conns, Hello(c)
    PROVE  IInv'
<1>1. PICK n \in Nonces, m \in {ClientHello(k, lastConnDuration) : k \in Nonces} :
        /\ Fresh(n) /\ m = ClientHello(n, lastConnDuration) /\ Reply(c, m)
        /\ nonce' = [nonce EXCEPT ![c] = n] /\ drawn' = [drawn EXCEPT ![c] = n]
  <2>1. PICK n : n = CHOOSE k \in Nonces : Fresh(k)
    OBVIOUS
  <2>2. PICK m : m = ClientHello(n, lastConnDuration)
    OBVIOUS
  <2>3. /\ Fresh(n) /\ Reply(c, m)
        /\ nonce' = [nonce EXCEPT ![c] = n] /\ drawn' = [drawn EXCEPT ![c] = n]
    BY <2>1, <2>2 DEF Hello, Reply, Set
  <2>4. n \in Nonces /\ m \in {ClientHello(k, lastConnDuration) : k \in Nonces}
    BY <2>2, <2>3 DEF Fresh
  <2> QED BY <2>2, <2>3, <2>4
<1>2. /\ actor[c] = "spawned" /\ phase' = [phase EXCEPT ![c] = "Handshaking"]
      /\ UNCHANGED <<conn, sent, got, captured, serverId, held, events, connId, inQ, reqQ, respQ>>
      /\ UNCHANGED <<lastConnDuration, report>>
  BY DEF Hello, Set, hostVars
<1>3. /\ drawn[c] = NoNonce /\ outQ[c] = <<>> /\ got[c] = <<>> /\ reqQ[c] = <<>> /\ held[c] = {}
      /\ conn[c] \notin {"none", "init"}
  BY <1>2 DEF IInv, ConnInv, StartOk, PhaseOk
<1>4. m \in SaidWith(n) /\ sending[c] \in SaidWith(n) /\ outQ[c] \in Seq(SaidWith(n)) /\ got[c] \in Seq(SaidWith(n))
  <2>1. m \in SaidWith(n)
    BY <1>1, ClientHelloType, SaidType DEF IInv, Shared
  <2>2. sending[c] \in SaidWith(n)
    BY <1>3, NoNonceIsNone DEF IInv, ConnInv, HelloOk, SaidWith
  <2> QED BY <1>3, <2>1, <2>2, EmptyFacts
<1>5. /\ DOMAIN actor' = Conns /\ DOMAIN sending' = Conns /\ DOMAIN outQ' = Conns
      /\ \A d \in Conns \ {c} : actor'[d] = actor[d] /\ sending'[d] = sending[d] /\ outQ'[d] = outQ[d]
      /\ actor'[c] \in {"loop", "retry"} /\ sending'[c] \in SaidWith(n) /\ outQ'[c] \in Seq(SaidWith(n))
  BY <1>1, <1>4, ReplyEffect DEF IInv
<1>6. StepOf(c) /\ phase'[c] = "Handshaking" /\ nonce'[c] = n /\ drawn'[c] = n
  BY <1>1, <1>2, <1>5 DEF IInv, Domains, StepOf, Same
<1>7. \A d \in Conns \ {c} : drawn'[d] = drawn[d] /\ drawn[d] # n
  BY <1>1, <1>6 DEF StepOf, Same, Fresh
<1>8. Shared' /\ DrawnInv' /\ CapturedInv'
  <2>1. Shared' /\ DrawnInv'
    BY <1>2, <1>6, <1>7 DEF IInv, Shared, DrawnInv
  <2>2. \A d \in Conns : drawn[d] \in Nonces => drawn'[d] = drawn[d]
    BY <1>3, <1>7, NoNonceIsNone
  <2> QED BY SMTT(30), <1>2, <2>1, <2>2 DEF IInv, CapturedInv
<1>9. ASSUME NEW s \in ServerNonces, AckOf(n, s) \in captured PROVE FALSE
  <2>1. AckOf(n, s).server_nonce = s /\ s # NoNonce
    BY AckOfType, NoNonceIsNone
  <2>2. \A id \in {ChosenId, NoConnId} : WireAck(NoNonce, id).server_nonce = NoNonce
    BY WireAckType DEF ConnIds
  <2>3. PICK d \in Conns, t \in ServerNonces : drawn[d] \in Nonces /\ AckOf(n, s) = AckOf(drawn[d], t)
    BY <1>9, <2>1, <2>2 DEF IInv, CapturedInv
  <2> QED BY <1>1, <2>3, AckOfInjective DEF Fresh
<1>10. \A id : ~Agreed(n, captured, id) /\ ~Agreed(NoNonce, captured, id)
  BY <1>9, NoNonceIsNone DEF Agreed
<1>11. InOk(n, captured, "Handshaking", inQ[c])
  <2>1. InOk(NoNonce, captured, phase[c], inQ[c])
    BY <1>3 DEF IInv, ConnInv
  <2>2. ASSUME NEW j \in 1..Len(inQ[c]), GoodAck(n, inQ[c][j]) PROVE FALSE
    <3>1. inQ[c][j] \in captured
      BY <2>1, <2>2 DEF InOk, MessageOk, GoodAck
    <3> QED BY <1>9, <2>2, <3>1, GoodAckIsAckOf DEF IInv
  <2>3. Len(inQ[c]) \in Nat
    BY <2>1, SeqFacts DEF InOk
  <2>4. ASSUME NEW i \in 1..Len(inQ[c]) PROVE MessageOk(n, captured, "Handshaking", inQ[c], i)
    <3>1. \A j \in 1..(i - 1) : j \in 1..Len(inQ[c])
      BY SMTT(30), <2>3
    <3> QED BY <1>10, <2>1, <2>2, <3>1 DEF InOk, MessageOk
  <2> QED BY <2>1, <2>4 DEF InOk
<1>12. EventsOk(c, events, conn[c], actor[c])' /\ StartOk(conn[c], actor[c], drawn[c], phase[c], outQ[c], got[c])'
  BY <1>2, <1>3, <1>5 DEF IInv, ConnInv, EventsOk, StartOk
<1>13. HelloOk(drawn[c], sending[c], outQ[c], got[c])'
  BY <1>2, <1>4, <1>5, <1>6 DEF HelloOk
<1>14. ServerOk(conn[c], drawn[c], captured, serverId[c], sent[c])'
  BY <1>2, <1>3, <1>6, <1>10 DEF IInv, ConnInv, ServerOk
<1>15. PhaseOk(drawn[c], captured, phase[c], nonce[c], connId[c], reqQ[c], held[c])'
  BY <1>2, <1>3, <1>6, EmptyFacts DEF PhaseOk
<1>16. ConnInv(c)'
  BY <1>2, <1>6, <1>11, <1>12, <1>13, <1>14, <1>15 DEF IInv, ConnInv
<1>17. ASSUME NEW d \in Conns \ {c} PROVE ConnInv(d)'
  BY <1>2, <1>6 DEF IInv, ConnInv, StepOf, Same
<1> QED BY <1>6, <1>8, <1>16, <1>17 DEF IInv, StepOf

LEMMA RetryIInv ==
    ASSUME IInv, NEW c \in Conns, Retry(c)
    PROVE  IInv'
<1>1. /\ actor[c] = "retry" /\ actor' = [actor EXCEPT ![c] = "loop"]
      /\ sending' = [sending EXCEPT ![c] = NoMsg]
      /\ outQ' = outQ \/ outQ' = [outQ EXCEPT ![c] = Append(outQ[c], sending[c])]
      /\ UNCHANGED <<conn, sent, got, captured, serverId, held, events, phaseVars>>
      /\ UNCHANGED <<inQ, reqQ, respQ, timeVars, report>>
  BY DEF Retry, Set, hostVars
<1>2. /\ StepOf(c) /\ actor'[c] = "loop" /\ sending'[c] = NoMsg
      /\ outQ'[c] = outQ[c] \/ outQ'[c] = Append(outQ[c], sending[c])
  BY <1>1 DEF IInv, Domains, StepOf, Same, phaseVars
<1>3. HelloOk(drawn[c], sending[c], outQ[c], got[c])
  BY DEF IInv, ConnInv
<1>4. Append(outQ[c], sending[c]) \in Seq(SaidWith(drawn[c]))
  BY <1>3, AppendFacts DEF HelloOk
<1>5. HelloOk(drawn[c], sending[c], outQ[c], got[c])'
  BY <1>1, <1>2, <1>3, <1>4, NoMsgType DEF HelloOk, phaseVars
<1>6. EventsOk(c, events, conn[c], actor[c])' /\ StartOk(conn[c], actor[c], drawn[c], phase[c], outQ[c], got[c])'
  BY <1>1, <1>2 DEF IInv, ConnInv, EventsOk, StartOk
<1>7. ConnInv(c)'
  BY <1>1, <1>5, <1>6 DEF IInv, ConnInv, phaseVars
<1> QED BY <1>1, <1>2, <1>7, QuietStepKeeps DEF IInv, Shared, phaseVars, timeVars

LEMMA StoppedIInv ==
    ASSUME IInv, NEW c \in Conns, Stopped(c)
    PROVE  IInv'
<1>1. /\ actor[c] = "loop" /\ actor' = [actor EXCEPT ![c] = "ended"]
      /\ inQ' = [inQ EXCEPT ![c] = <<>>] /\ respQ' = [respQ EXCEPT ![c] = <<>>]
      /\ phase' = [phase EXCEPT ![c] = "Dropped"] /\ nonce' = [nonce EXCEPT ![c] = NoNonce]
      /\ connId' = [connId EXCEPT ![c] = NoConnId] /\ lastConnDuration' \in Nat
      /\ UNCHANGED <<conn, sent, got, captured, serverId, held, events, drawn, outQ, reqQ>>
      /\ UNCHANGED <<sending, report>>
  BY SessionAssumption DEF Stopped, RunEnds, RecordDuration, Set, hostVars
<1>2. StepOf(c) /\ actor'[c] = "ended" /\ inQ'[c] = <<>> /\ respQ'[c] = <<>> /\ phase'[c] = "Dropped"
  BY <1>1 DEF IInv, Domains, StepOf, Same
<1>3. EventsOk(c, events, conn[c], actor[c])' /\ StartOk(conn[c], actor[c], drawn[c], phase[c], outQ[c], got[c])'
  BY <1>1, <1>2 DEF IInv, ConnInv, EventsOk, StartOk
<1>4. InOk(drawn[c], captured, phase[c], inQ[c])'
  BY SMTT(30), <1>2, EmptyFacts DEF InOk
<1>5. PhaseOk(drawn[c], captured, phase[c], nonce[c], connId[c], reqQ[c], held[c])'
  BY <1>1, <1>2 DEF IInv, ConnInv, PhaseOk
<1>6. ConnInv(c)'
  BY <1>1, <1>2, <1>3, <1>4, <1>5, EmptyFacts DEF IInv, ConnInv
<1> QED BY <1>1, <1>2, <1>6, QuietStepKeeps

\* An answer of an actor in its loop.
LEMMA ReplyKeeps ==
    ASSUME IInv, NEW c \in Conns, NEW m \in FromClient, m.kind # "ClientHello", Reply(c, m),
           actor[c] = "loop", UNCHANGED <<conn, got, drawn, events>>
    PROVE  /\ DOMAIN actor' = Conns /\ DOMAIN sending' = Conns /\ DOMAIN outQ' = Conns
           /\ \A d \in Conns \ {c} : actor'[d] = actor[d] /\ sending'[d] = sending[d] /\ outQ'[d] = outQ[d]
           /\ EventsOk(c, events, conn[c], actor[c])'
           /\ StartOk(conn[c], actor[c], drawn[c], phase[c], outQ[c], got[c])'
           /\ HelloOk(drawn[c], sending[c], outQ[c], got[c])'
<1>1. HelloOk(drawn[c], sending[c], outQ[c], got[c]) /\ m \in SaidWith(drawn[c])
  BY SaidType DEF IInv, ConnInv
<1>2. /\ DOMAIN actor' = Conns /\ DOMAIN sending' = Conns /\ DOMAIN outQ' = Conns
      /\ \A d \in Conns \ {c} : actor'[d] = actor[d] /\ sending'[d] = sending[d] /\ outQ'[d] = outQ[d]
      /\ actor'[c] \in {"loop", "retry"}
      /\ sending'[c] \in SaidWith(drawn[c]) /\ outQ'[c] \in Seq(SaidWith(drawn[c]))
  BY <1>1, ReplyEffect DEF IInv, HelloOk
<1>3. EventsOk(c, events, conn[c], actor[c])' /\ StartOk(conn[c], actor[c], drawn[c], phase[c], outQ[c], got[c])'
  BY <1>2 DEF IInv, ConnInv, EventsOk, StartOk
<1>4. HelloOk(drawn[c], sending[c], outQ[c], got[c])'
  BY <1>1, <1>2 DEF HelloOk
<1> QED BY <1>2, <1>3, <1>4

LEMMA ForwardResponseIInv ==
    ASSUME IInv, NEW c \in Conns, ForwardResponse(c)
    PROVE  IInv'
<1>1. PICK m : m = DispatchResponse(Head(respQ[c]).id, Head(respQ[c]).result)
  OBVIOUS
<1>2. /\ actor[c] = "loop" /\ respQ[c] # <<>> /\ Reply(c, m)
      /\ respQ' = [respQ EXCEPT ![c] = Tail(respQ[c])]
      /\ UNCHANGED <<conn, sent, got, captured, serverId, held, events, phaseVars, inQ, reqQ>>
      /\ UNCHANGED <<timeVars, report>>
  BY <1>1 DEF ForwardResponse, Reply, Set, hostVars
<1>3. Head(respQ[c]) \in Answers /\ Tail(respQ[c]) \in Seq(Answers)
  BY <1>2, TailFacts DEF IInv, ConnInv
<1>4. m \in FromClient /\ m.kind # "ClientHello"
  BY <1>1, <1>3, DispatchResponseType
<1>5. /\ DOMAIN actor' = Conns /\ DOMAIN sending' = Conns /\ DOMAIN outQ' = Conns
      /\ \A d \in Conns \ {c} : actor'[d] = actor[d] /\ sending'[d] = sending[d] /\ outQ'[d] = outQ[d]
      /\ EventsOk(c, events, conn[c], actor[c])'
      /\ StartOk(conn[c], actor[c], drawn[c], phase[c], outQ[c], got[c])'
      /\ HelloOk(drawn[c], sending[c], outQ[c], got[c])'
  BY <1>2, <1>4, ReplyKeeps DEF phaseVars
<1>6. StepOf(c) /\ respQ'[c] = Tail(respQ[c])
  BY <1>2, <1>5 DEF IInv, Domains, StepOf, Same, phaseVars
<1>7. ConnInv(c)'
  BY <1>2, <1>3, <1>5, <1>6 DEF IInv, ConnInv, phaseVars
<1> QED BY <1>2, <1>6, <1>7, QuietStepKeeps DEF IInv, Shared, phaseVars, timeVars

LEMMA ReportFailureIInv ==
    ASSUME IInv, NEW c \in Conns, ReportFailure(c)
    PROVE  IInv'
<1>1. /\ actor[c] = "report" /\ actor' = [actor EXCEPT ![c] = "loop"]
      /\ report' = [report EXCEPT ![c] = NoReport]
      /\ respQ' = respQ \/ respQ' = [respQ EXCEPT ![c] = Append(respQ[c], report[c])]
      /\ UNCHANGED <<conn, sent, got, captured, serverId, held, events, phaseVars>>
      /\ UNCHANGED <<inQ, outQ, reqQ, timeVars, sending>>
  BY DEF ReportFailure, Set, hostVars
<1>2. /\ StepOf(c) /\ actor'[c] = "loop" /\ report'[c] = NoReport
      /\ respQ'[c] = respQ[c] \/ respQ'[c] = Append(respQ[c], report[c])
  BY <1>1 DEF IInv, Domains, StepOf, Same, phaseVars
<1>3. Append(respQ[c], report[c]) \in Seq(Answers)
  BY AppendFacts DEF IInv, ConnInv
<1>4. EventsOk(c, events, conn[c], actor[c])' /\ StartOk(conn[c], actor[c], drawn[c], phase[c], outQ[c], got[c])'
  BY <1>1, <1>2 DEF IInv, ConnInv, EventsOk, StartOk
<1>5. ConnInv(c)'
  BY <1>1, <1>2, <1>3, <1>4, NoReportType DEF IInv, ConnInv, phaseVars
<1> QED BY <1>1, <1>2, <1>5, QuietStepKeeps DEF IInv, Shared, phaseVars, timeVars

LEMMA InHead ==
    ASSUME NEW n, NEW A, NEW p, NEW q, InOk(n, A, p, q), q # <<>>
    PROVE  Head(q) \in FromServer /\ MessageOk(n, A, p, q, 1) /\ q[1] = Head(q)
<1>1. q \in Seq(FromServer) /\ \A i \in 1..Len(q) : MessageOk(n, A, p, q, i)
  BY DEF InOk
<1>2. Head(q) \in FromServer /\ Head(q) = q[1] /\ 1 \in 1..Len(q)
  BY SMTT(30), <1>1, TailFacts
<1> QED BY <1>1, <1>2

LEMMA AgreedType ==
    ASSUME NEW n, NEW A, NEW id, Agreed(n, A, id)
    PROVE  id \in ConnIds
BY AckOfType DEF Agreed

\* Taking the first message leaves the rest in order.  If it makes the connection
\* Active, no request that came too early is behind it.
LEMMA InTail ==
    ASSUME NEW n, NEW A, NEW p, NEW new, NEW q, InOk(n, A, p, q), q # <<>>,
           new = "Active" => p = "Active" \/ GoodAck(n, Head(q))
    PROVE  InOk(n, A, new, Tail(q))
<1>1. /\ Tail(q) \in Seq(FromServer) /\ Head(q) \in FromServer /\ Head(q) = q[1]
      /\ Len(q) \in Nat \ {0} /\ Len(Tail(q)) = Len(q) - 1
      /\ \A i \in 1..Len(Tail(q)) : Tail(q)[i] = q[i + 1]
  BY TailFacts DEF InOk
<1>2. ASSUME NEW i \in 1..Len(Tail(q)) PROVE MessageOk(n, A, new, Tail(q), i)
  <2>1. i + 1 \in 1..Len(q) /\ Tail(q)[i] = q[i + 1] /\ 1 \in 1..((i + 1) - 1)
    BY SMTT(30), <1>1
  <2>2. \A j \in 1..(i - 1) : j + 1 \in 1..((i + 1) - 1) /\ Tail(q)[j] = q[j + 1]
    BY SMTT(30), <1>1
  <2>3. MessageOk(n, A, p, q, i + 1)
    BY <2>1 DEF InOk
  <2> QED BY <1>1, <2>1, <2>2, <2>3 DEF MessageOk
<1> QED BY <1>1, <1>2 DEF InOk

LEMMA TakeMessageIInv ==
    ASSUME IInv, NEW c \in Conns, TakeMessage(c)
    PROVE  IInv'
<1> DEFINE m == Head(inQ[c])
<1>1. Refuse(c, m) \/ Ping(c, m) \/ Skip(c, m) \/ Accept(c, m) \/ Dispatch(c, m)
  BY Zenon DEF TakeMessage
<1>2. InOk(drawn[c], captured, phase[c], inQ[c])
  BY DEF IInv, ConnInv
<1>3. PhaseOk(drawn[c], captured, phase[c], nonce[c], connId[c], reqQ[c], held[c])
  BY DEF IInv, ConnInv
<1>4. /\ actor[c] = "loop" /\ inQ[c] # <<>> /\ inQ' = [inQ EXCEPT ![c] = Tail(inQ[c])]
      /\ UNCHANGED <<conn, sent, got, captured, serverId, held, events, respQ, timeVars>>
  BY Zenon DEF TakeMessage, Set, hostVars
<1>5. m \in FromServer /\ MessageOk(drawn[c], captured, phase[c], inQ[c], 1) /\ inQ[c][1] = m
  BY <1>2, <1>4, InHead
<1>6. ASSUME drawn' = drawn, phase'[c] = "Active" => phase[c] = "Active" \/ GoodAck(drawn[c], m)
      PROVE  InOk(drawn[c], captured, phase[c], inQ[c])'
  <2>1. inQ'[c] = Tail(inQ[c])
    BY <1>4 DEF IInv, Domains
  <2>2. InOk(drawn[c], captured, phase'[c], Tail(inQ[c]))
    BY <1>2, <1>4, <1>6, InTail
  <2> QED BY <1>4, <1>6, <2>1, <2>2
<1>7. DOMAIN inQ' = Conns /\ \A d \in Conns \ {c} : inQ'[d] = inQ[d]
  BY <1>4 DEF IInv, Domains
<1> HIDE DEF m
\* It is answered.
<1>8. ASSUME NEW r \in FromClient, r.kind # "ClientHello", Reply(c, r),
             UNCHANGED <<drawn, reqQ, report>>,
             \/ UNCHANGED phaseVars
             \/ /\ phase' = [phase EXCEPT ![c] = "Error"] /\ nonce' = [nonce EXCEPT ![c] = NoNonce]
                /\ connId' = [connId EXCEPT ![c] = NoConnId]
      PROVE  IInv'
  <2>1. /\ DOMAIN actor' = Conns /\ DOMAIN sending' = Conns /\ DOMAIN outQ' = Conns
        /\ \A d \in Conns \ {c} : actor'[d] = actor[d] /\ sending'[d] = sending[d] /\ outQ'[d] = outQ[d]
        /\ EventsOk(c, events, conn[c], actor[c])'
        /\ StartOk(conn[c], actor[c], drawn[c], phase[c], outQ[c], got[c])'
        /\ HelloOk(drawn[c], sending[c], outQ[c], got[c])'
    <3>1. actor[c] = "loop" /\ UNCHANGED <<conn, got, drawn, events>>
      BY <1>4, <1>8
    <3> QED BY <1>8, <3>1, ReplyKeeps
  <2>2. /\ StepOf(c)
        /\ \/ phase'[c] = phase[c] /\ nonce'[c] = nonce[c] /\ connId'[c] = connId[c]
           \/ phase'[c] = "Error"
    <3>1. /\ DOMAIN phase' = Conns /\ DOMAIN nonce' = Conns /\ DOMAIN connId' = Conns
          /\ \A d \in Conns \ {c} : phase'[d] = phase[d] /\ nonce'[d] = nonce[d] /\ connId'[d] = connId[d]
          /\ \/ phase'[c] = phase[c] /\ nonce'[c] = nonce[c] /\ connId'[c] = connId[c]
             \/ phase'[c] = "Error"
      <4>1. CASE UNCHANGED phaseVars
        BY <4>1 DEF IInv, Domains, phaseVars
      <4>2. CASE phase' = [phase EXCEPT ![c] = "Error"] /\ nonce' = [nonce EXCEPT ![c] = NoNonce]
                 /\ connId' = [connId EXCEPT ![c] = NoConnId]
        BY <4>2 DEF IInv, Domains
      <4> QED BY <1>8, <4>1, <4>2
    <3>2. Domains'
      BY <1>4, <1>7, <1>8, <2>1, <3>1 DEF IInv, Domains
    <3>3. \A d \in Conns \ {c} : Same(d)
      BY <1>4, <1>7, <1>8, <2>1, <3>1 DEF Same
    <3> QED BY <3>1, <3>2, <3>3 DEF StepOf
  <2>3. PhaseOk(drawn[c], captured, phase[c], nonce[c], connId[c], reqQ[c], held[c])'
    BY <1>3, <1>4, <1>8, <2>2 DEF PhaseOk
  <2>4. InOk(drawn[c], captured, phase[c], inQ[c])'
    BY <1>6, <1>8, <2>2
  <2>5. ConnInv(c)'
    BY <1>4, <1>8, <2>1, <2>3, <2>4 DEF IInv, ConnInv
  <2> QED BY ZenonT(40), <1>4, <1>8, <2>2, <2>5, QuietStepKeeps DEF IInv, Shared, timeVars
<1>9. CASE Refuse(c, m)
  <2>1. PICK r : r = ProtocolError(phase[c], Violation(phase[c], nonce[c], m), m)
    OBVIOUS
  <2>2. r \in FromClient /\ r.kind # "ClientHello"
    BY <1>5, <2>1, ProtocolErrorType
  <2>3. /\ Reply(c, r) /\ phase' = [phase EXCEPT ![c] = "Error"]
        /\ nonce' = [nonce EXCEPT ![c] = NoNonce] /\ connId' = [connId EXCEPT ![c] = NoConnId]
        /\ UNCHANGED <<drawn, reqQ, report>>
    BY <1>9, <2>1 DEF Refuse, Reply, Set
  <2> QED BY <1>8, <2>2, <2>3
<1>10. CASE Ping(c, m)
  <2>1. PICK r : r = Pong
    OBVIOUS
  <2>2. r \in FromClient /\ r.kind # "ClientHello"
    BY <2>1, ToServerType DEF Pong
  <2>3. Reply(c, r) /\ UNCHANGED <<phaseVars, reqQ, report>>
    BY <1>10, <2>1 DEF Ping, Reply
  <2> QED BY <1>8, <2>2, <2>3 DEF phaseVars
\* It is not answered.
<1>11. ASSUME StepOf(c), drawn' = drawn, outQ' = outQ, sending' = sending, actor'[c] \in {"loop", "report"},
              InOk(drawn[c], captured, phase[c], inQ[c])', report'[c] \in Answers,
              PhaseOk(drawn[c], captured, phase[c], nonce[c], connId[c], reqQ[c], held[c])'
       PROVE  IInv'
  <2>1. EventsOk(c, events, conn[c], actor[c])' /\ StartOk(conn[c], actor[c], drawn[c], phase[c], outQ[c], got[c])'
    BY <1>4, <1>11 DEF IInv, ConnInv, EventsOk, StartOk
  <2>2. ConnInv(c)'
    BY <1>4, <1>11, <2>1 DEF IInv, ConnInv
  <2> QED BY <1>4, <1>11, <2>2, QuietStepKeeps DEF IInv, Shared, timeVars
<1>12. CASE Skip(c, m)
  <2>1. UNCHANGED <<phase, nonce, drawn, connId, reqQ, outQ, actor, sending, report>>
    BY <1>12 DEF Skip, phaseVars, actorVars
  <2>2. StepOf(c)
    BY <1>4, <1>7, <2>1 DEF IInv, Domains, StepOf, Same
  <2>3. PhaseOk(drawn[c], captured, phase[c], nonce[c], connId[c], reqQ[c], held[c])'
    BY <1>3, <1>4, <2>1
  <2> QED BY <1>4, <1>6, <1>11, <2>1, <2>2, <2>3 DEF IInv, ConnInv
<1>13. CASE Accept(c, m)
  <2>1. /\ phase[c] = "Handshaking" /\ m.message = "ClientHelloAck"
        /\ Violation(phase[c], nonce[c], m) = "none"
        /\ phase' = [phase EXCEPT ![c] = "Active"] /\ nonce' = [nonce EXCEPT ![c] = NoNonce]
        /\ connId' = [connId EXCEPT ![c] = ConnectionId(nonce[c], m.server_nonce)]
        /\ UNCHANGED <<drawn, reqQ, outQ, actor, sending, report>>
    BY <1>13 DEF Accept, Set, actorVars
  <2>2. /\ StepOf(c) /\ phase'[c] = "Active" /\ connId'[c] = ConnectionId(nonce[c], m.server_nonce)
    BY <1>4, <1>7, <2>1 DEF IInv, Domains, StepOf, Same
  <2>3. nonce[c] = drawn[c] /\ drawn[c] \in Nonces /\ reqQ[c] = <<>> /\ held[c] = {}
    BY <1>3, <2>1 DEF PhaseOk
  <2>4. Verify(m.server_nonce, m.connection_id, nonce[c])
    BY <2>1 DEF Violation, HandshakingViolation
  <2>5. GoodAck(drawn[c], m) /\ m \in captured
    BY <1>5, <2>1, <2>3, <2>4 DEF Verify, ConnectionId, GoodAck, MessageOk
  <2>6. PICK s \in ServerNonces : m = AckOf(drawn[c], s) /\ m.server_nonce = s
    BY SMTT(30), <2>3, <2>5, GoodAckIsAckOf, AckOfType DEF IInv
  <2>7. Agreed(drawn[c], captured, connId'[c])
    BY <2>2, <2>3, <2>5, <2>6 DEF Agreed
  <2>8. PhaseOk(drawn[c], captured, phase[c], nonce[c], connId[c], reqQ[c], held[c])'
    BY <1>3, <1>4, <2>1, <2>2, <2>3, <2>7, EmptyFacts DEF PhaseOk
  <2> QED BY <1>4, <1>6, <1>11, <2>1, <2>2, <2>5, <2>8 DEF IInv, ConnInv
<1>14. CASE Dispatch(c, m)
  <2>1. /\ phase[c] = "Active" /\ m.message = "Dispatch"
        /\ UNCHANGED <<phase, nonce, drawn, connId, outQ, sending>>
    BY <1>14 DEF Dispatch, phaseVars
  <2>2. m.payload # NoConnId /\ Agreed(drawn[c], captured, m.payload)
    BY <1>5, <2>1 DEF MessageOk
  <2>3. PICK r \in Requests : r = [id |-> m.correlation_id, payload |-> m.payload]
    BY <1>5 DEF FromServer, Requests
  <2>4. CASE conn[c] = "open" /\ reqQ' = [reqQ EXCEPT ![c] = Append(reqQ[c], r)] /\ UNCHANGED <<actor, report>>
    <3>1. StepOf(c) /\ reqQ'[c] = Append(reqQ[c], r)
      BY <1>4, <1>7, <2>1, <2>4 DEF IInv, Domains, StepOf, Same
    <3>2. m.payload \in ConnIds /\ connId[c] \in ConnIds /\ Agreed(drawn[c], captured, connId[c])
      BY <2>2, <1>3, <2>1, AgreedType DEF PhaseOk
    <3>3. m.payload = connId[c]
      BY <2>2, <2>4, <3>2 DEF IInv, ConnInv, ServerOk
    <3>4. Append(reqQ[c], r) \in Seq(Requests) /\ Append(reqQ[c], r) \in Seq(RequestsFor(connId[c]))
      <4>1. r \in RequestsFor(connId[c])
        BY <2>3, <3>3 DEF RequestsFor
      <4> QED BY <1>3, <2>1, <4>1, AppendFacts DEF PhaseOk
    <3>5. PhaseOk(drawn[c], captured, phase[c], nonce[c], connId[c], reqQ[c], held[c])'
      BY <1>3, <1>4, <2>1, <3>1, <3>4 DEF PhaseOk
    <3> QED BY <1>4, <1>6, <1>11, <2>1, <2>4, <3>1, <3>5 DEF IInv, ConnInv
  <2>5. CASE /\ actor' = [actor EXCEPT ![c] = "report"] /\ reqQ' = reqQ
             /\ \E x \in {"DispatchClosed", "DispatchRequestQueueFull"} :
                   report' = [report EXCEPT ![c] = [id |-> m.correlation_id, result |-> x]]
    <3>1. PICK r2 \in Answers : report' = [report EXCEPT ![c] = r2]
      BY <1>5, <2>5 DEF FromServer, Answers, Reported
    <3>2. StepOf(c) /\ actor'[c] = "report" /\ report'[c] \in Answers
      BY <1>4, <1>7, <2>1, <2>5, <3>1 DEF IInv, Domains, StepOf, Same
    <3>3. PhaseOk(drawn[c], captured, phase[c], nonce[c], connId[c], reqQ[c], held[c])'
      BY <1>3, <1>4, <2>1, <2>5
    <3> QED BY <1>6, <1>11, <2>1, <3>2, <3>3
  <2> QED BY <1>14, <2>3, <2>4, <2>5 DEF Dispatch, Set
<1> QED BY <1>1, <1>9, <1>10, <1>12, <1>13, <1>14

-------------------------------------------------------------------------------
(* The event loop *)

LEMMA TakeEventIInv ==
    ASSUME IInv, TakeEvent
    PROVE  IInv'
<1>1. /\ events # <<>> /\ events' = Tail(events)
      /\ \/ actor' = actor
         \/ /\ Head(events).kind = "Connected"
            /\ actor' = [actor EXCEPT ![Head(events).conn] = "spawned"]
      /\ UNCHANGED <<conn, sent, got, captured, serverId, held, phaseVars, queues, timeVars, sending, report>>
  BY Zenon DEF TakeEvent, Set, hostVars
<1>2. events \in Seq(Events) /\ Tail(events) \in Seq(Events) /\ Head(events) = events[1] /\ 1 \in 1..Len(events)
  <2>1. events \in Seq(Events)
    BY DEF IInv, Shared
  <2> QED BY SMTT(30), <1>1, <2>1, TailFacts
<1>3. Domains' /\ \A d \in Conns : actor'[d] = actor[d] \/ (actor'[d] = "spawned" /\ Announces(Head(events), d))
  BY <1>1 DEF IInv, Domains, Announces, phaseVars, queues
<1>4. Shared' /\ DrawnInv' /\ CapturedInv'
  BY SMTT(30), <1>1, <1>2 DEF IInv, Shared, DrawnInv, CapturedInv, phaseVars, timeVars
<1>5. ASSUME NEW d \in Conns PROVE ConnInv(d)'
  <2>1. EventsOk(d, events, conn[d], actor[d]) /\ StartOk(conn[d], actor[d], drawn[d], phase[d], outQ[d], got[d])
    BY DEF IInv, ConnInv
  <2>2. EventsOk(d, events, conn[d], actor[d])'
    BY <1>1, <1>2, <1>3, <2>1, EventsTail
  <2>3. actor'[d] = actor[d] \/ (actor'[d] = "spawned" /\ actor[d] = "none" /\ conn[d] \notin {"none", "init"})
    BY <1>2, <1>3, <2>1 DEF EventsOk
  <2>4. StartOk(conn[d], actor[d], drawn[d], phase[d], outQ[d], got[d])'
    BY <1>1, <2>1, <2>3 DEF StartOk, phaseVars, queues
  <2> QED BY <1>1, <2>2, <2>4 DEF IInv, ConnInv, phaseVars, queues
<1> QED BY <1>3, <1>4, <1>5 DEF IInv

\* The other steps concern none of this.
LEMMA OtherIInv ==
    ASSUME IInv, Shutdown \/ LoopEnds \/ Joined \/ UNCHANGED vars
    PROVE  IInv'
<1>1. UNCHANGED <<hostVars, events, phaseVars, queues, timeVars, actorVars>>
  BY DEF Shutdown, LoopEnds, Joined, vars
<1>2. Domains' /\ Shared' /\ DrawnInv' /\ CapturedInv'
  BY <1>1 DEF IInv, Domains, Shared, DrawnInv, CapturedInv, hostVars, phaseVars, queues, timeVars, actorVars
<1>3. ASSUME NEW d \in Conns PROVE ConnInv(d)'
  BY <1>1 DEF IInv, ConnInv, hostVars, phaseVars, queues, actorVars
<1> QED BY <1>2, <1>3 DEF IInv

LEMMA NextIInv == IInv /\ [Next]_vars => IInv'
<1> SUFFICES ASSUME IInv, [Next]_vars PROVE IInv'
  OBVIOUS
<1>1. CASE Loop
  BY <1>1, TakeEventIInv, OtherIInv DEF Loop
<1>2. ASSUME NEW c \in Conns, Server(c) PROVE IInv'
  BY <1>2, NewConnectionIInv, DropConnIInv, ServerRecvIInv, PerformHandshakeIInv, SendsIInv,
     GetDispatchIInv, RespondIInv DEF Server
<1>3. ASSUME NEW c \in Conns, Actor(c) PROVE IInv'
  BY <1>3, HelloIInv, RetryIInv, StoppedIInv, ForwardResponseIInv, TakeMessageIInv,
     ReportFailureIInv DEF Actor
<1>4. CASE Shutdown \/ Finished \/ UNCHANGED vars
  BY <1>4, OtherIInv DEF Finished
<1> QED BY <1>1, <1>2, <1>3, <1>4 DEF Next

-------------------------------------------------------------------------------

\* The nonces, the acknowledgements on the wire and in the queues, and what server
\* and client make of them stay related as IInv says.
THEOREM SessionInvariant == Spec => []IInv
  BY InitIInv, NextIInv, PTL DEF Spec

\* Two connections never have the same id, and on an Active connection the server
\* and the client agree on it, whatever the server sends, replays or sends too early.
THEOREM SessionIdsAreFresh == Spec => []ConnectionIdsAreFresh
<1>1. ASSUME IInv PROVE ConnectionIdsAreFresh
  <2>1. SUFFICES ASSUME NEW c \in Conns, phase[c] = "Active"
                 PROVE  /\ connId[c] \in [server : ServerNonces, client : {drawn[c]}]
                        /\ drawn[c] \in Nonces /\ \A d \in Conns : drawn[d] = drawn[c] => d = c
                        /\ \A k \in DOMAIN reqQ[c] : reqQ[c][k].payload = connId[c]
                        /\ \A r \in held[c] : r.payload = connId[c]
    BY DEF ConnectionIdsAreFresh
  <2>2. /\ Agreed(drawn[c], captured, connId[c])
        /\ reqQ[c] \in Seq(RequestsFor(connId[c])) /\ held[c] \subseteq RequestsFor(connId[c])
    BY <1>1, <2>1 DEF IInv, ConnInv, PhaseOk
  <2>3. connId[c] \in [server : ServerNonces, client : {drawn[c]}] /\ drawn[c] \in Nonces
    BY SMTT(30), <2>2 DEF Agreed, ConnectionId
  <2>4. \A d \in Conns : drawn[d] = drawn[c] => d = c
    BY <1>1, <2>3, NoNonceIsNone DEF IInv, DrawnInv
  <2>5. \A k \in DOMAIN reqQ[c] : reqQ[c][k] \in RequestsFor(connId[c])
    BY <2>2, SeqFacts
  <2> QED BY <2>2, <2>3, <2>4, <2>5 DEF RequestsFor
<1> QED BY <1>1, SessionInvariant, PTL

-------------------------------------------------------------------------------
(* The duration that a ClientHello reports *)

\* What every step but a few leaves alone: the order of the connections, and which
\* actors are there.
Busy == {"loop", "retry", "report"}

IsQuiet ==
    /\ UNCHANGED <<conn, orderly, events, loop, active, awaited, told, lived, lastConnDuration>>
    /\ \A d \in Conns : actor'[d] = actor[d] \/ (actor[d] \in Busy /\ actor'[d] \in Busy)

LEMMA QuietDuration ==
    ASSUME IInv, DurationInv, IsQuiet
    PROVE  DurationInv'
<1>1. \A d \in Conns : /\ (actor'[d] = "none") = (actor[d] = "none")
                       /\ (actor'[d] = "spawned") = (actor[d] = "spawned")
                       /\ (actor'[d] = "ended") = (actor[d] = "ended")
  BY SMTT(30) DEF IsQuiet, Busy
<1>2. /\ conn' = conn /\ orderly' = orderly /\ events' = events /\ loop' = loop /\ active' = active
      /\ awaited' = awaited /\ told' = told /\ lived' = lived /\ lastConnDuration' = lastConnDuration
  BY DEF IsQuiet
<1>3. HostInv'
  BY <1>2 DEF DurationInv, HostInv, Gone, Opened
<1>4. TakenInv'
  BY <1>1, <1>2 DEF DurationInv, TakenInv, Opened
<1>5. RunningInv'
  <2>1. \A c \in Conns : actor'[c] # "none" => \A d \in 1..(c - 1) : actor'[d] # "none"
    <3>1. \A c \in Conns : \A d \in 1..(c - 1) : d \in Conns
      BY SMTT(30), SessionAssumption DEF Conns
    <3> QED BY <1>1, <3>1 DEF DurationInv, RunningInv
  <2> QED BY <1>1, <1>2, <2>1 DEF DurationInv, RunningInv, Alive
<1>6. ASSUME NEW c \in Conns PROVE AloneInv(c)' /\ ToldInv(c)'
  <2>1. c \in orderly => c - 1 \in Conns
    BY SMTT(30), SessionAssumption DEF DurationInv, HostInv, Conns
  <2>2. AloneInv(c)'
    BY <1>1, <1>2 DEF DurationInv, AloneInv, SpawnedAlone, Alive
  <2>3. ToldInv(c)'
    BY <1>1, <1>2, <2>1 DEF DurationInv, ToldInv, SpawnedAlone
  <2> QED BY <2>2, <2>3
<1> QED BY <1>2, <1>3, <1>4, <1>5, <1>6 DEF DurationInv

LEMMA InitDuration == Init => DurationInv
<1> SUFFICES ASSUME Init PROVE DurationInv
  OBVIOUS
<1>1. /\ \A c \in Conns : conn[c] = "none" /\ actor[c] = "none"
      /\ events = <<>> /\ orderly = {} /\ active = NoConn /\ awaited = NoConn
      /\ DOMAIN told = Conns /\ DOMAIN lived = Conns
  BY DEF Init, Per
<1>2. 1..Len(events) = {}
  BY SMTT(30), <1>1
<1>3. HostInv
  BY <1>1, <1>2 DEF HostInv
<1>4. TakenInv
  BY <1>1, <1>2 DEF TakenInv, Opened
<1>5. RunningInv
  BY <1>1 DEF RunningInv, Alive
<1>6. \A c \in Conns : AloneInv(c) /\ ToldInv(c)
  BY <1>1 DEF AloneInv, ToldInv
<1> QED BY <1>1, <1>3, <1>4, <1>5, <1>6 DEF DurationInv

-------------------------------------------------------------------------------
\* The host's steps: an event for the one connection that is not Gone.
LEMMA PublishHost ==
    ASSUME IInv, DurationInv, NEW c \in Conns, NEW k \in {"Init", "Connected", "Disconnected"},
           ~Gone(c), \A d \in 1..(c - 1) : Gone(d),
           events' = Append(events, [kind |-> k, conn |-> c])
    PROVE  /\ Len(events) \in Nat /\ Len(events') = Len(events) + 1
           /\ \A i \in 1..Len(events) : events'[i] = events[i] /\ events[i].conn \in Conns
           /\ events'[Len(events) + 1] = [kind |-> k, conn |-> c]
           /\ \A i \in 1..Len(events) :
                /\ events[i].conn <= c
                /\ events[i].kind = "Disconnected" => events[i].conn < c
           /\ \A i, j \in 1..Len(events') : i < j =>
                /\ events'[i].conn <= events'[j].conn
                /\ events'[i].kind = "Disconnected" => events'[i].conn < events'[j].conn
<1>1. events \in Seq(Events) /\ [kind |-> k, conn |-> c] \in Events
  BY DEF IInv, Shared, Events
<1>2. /\ Len(events) \in Nat /\ Len(events') = Len(events) + 1
      /\ \A i \in 1..Len(events) : events'[i] = events[i] /\ events[i] \in Events
      /\ events'[Len(events) + 1] = [kind |-> k, conn |-> c]
  BY SMTT(30), <1>1, AppendFacts, SeqFacts
<1>3. \A i \in 1..Len(events) : events[i].conn \in Conns
  BY <1>2 DEF Events
<1>4. ASSUME NEW i \in 1..Len(events)
      PROVE  /\ events[i].conn <= c
             /\ events[i].kind = "Disconnected" => events[i].conn < c
  <2>1. conn[events[i].conn] # "none" /\ (events[i].kind = "Disconnected" => Gone(events[i].conn))
    BY DEF DurationInv, HostInv, Gone
  <2>2. PICK d \in Conns : d = events[i].conn
    BY <1>3
  <2>3. c \notin 1..(d - 1)
    BY <2>1, <2>2 DEF DurationInv, HostInv
  <2>4. d <= c
    BY SMTT(30), <2>3, SessionAssumption DEF Conns
  <2>5. events[i].kind = "Disconnected" => d # c
    BY <2>1, <2>2
  <2> QED BY SMTT(30), <2>2, <2>4, <2>5, SessionAssumption DEF Conns
<1>5. ASSUME NEW i \in 1..Len(events'), NEW j \in 1..Len(events'), i < j
      PROVE  /\ events'[i].conn <= events'[j].conn
             /\ events'[i].kind = "Disconnected" => events'[i].conn < events'[j].conn
  <2>1. i \in 1..Len(events) /\ (j \in 1..Len(events) \/ j = Len(events) + 1)
    BY SMTT(30), <1>2, <1>5
  <2>2. CASE j \in 1..Len(events)
    BY <1>2, <1>5, <2>1, <2>2 DEF DurationInv, HostInv
  <2>3. CASE j = Len(events) + 1
    <3>1. events'[j] = [kind |-> k, conn |-> c] /\ events'[i] = events[i]
      BY <1>2, <2>1, <2>3
    <3>2. events'[j].conn = c
      BY SMTT(30), <3>1
    <3> QED BY <1>4, <2>1, <3>1, <3>2
  <2> QED BY <2>1, <2>2, <2>3
<1> QED BY <1>2, <1>3, <1>4, <1>5

\* A step of the host: the connection that is not Gone moves on, to x, with an event
\* of kind k unless it is closed.
HostStep(c, x, k) ==
    /\ conn' = [conn EXCEPT ![c] = x]
    /\ \/ conn[c] = "none" /\ x = "init" /\ k = "Init"
       \/ conn[c] = "init" /\ x = "open" /\ k = "Connected"
       \/ conn[c] = "open" /\ x = "disconnected" /\ k = "Disconnected"
       \/ conn[c] = "open" /\ x = "closed"
    /\ events' = IF x = "closed" THEN events ELSE Append(events, [kind |-> k, conn |-> c])
    /\ \/ orderly' = orderly
       \/ orderly' = orderly \cup {c} /\ x = "open" /\ c > 1 /\ conn[c - 1] = "disconnected"
    /\ UNCHANGED <<loop, active, awaited, actor, told, lived, lastConnDuration>>

LEMMA HostDuration ==
    ASSUME IInv, DurationInv, NEW c \in Conns, NEW x, NEW k, HostStep(c, x, k),
           \A d \in 1..(c - 1) : Gone(d)
    PROVE  DurationInv'
<1>1. /\ conn'[c] = x /\ \A d \in Conns : d # c => conn'[d] = conn[d]
      /\ conn[c] = "init" => actor[c] = "none"
  BY DEF IInv, Domains, ConnInv, StartOk, HostStep
<1>2. ~Gone(c) /\ x # "none" /\ conn[c] # "disconnected"
  BY DEF Gone, HostStep
<1>3. ASSUME NEW d \in Conns, conn[d] # "none", d # c PROVE d < c
  <2>1. c \notin 1..(d - 1)
    BY <1>2, <1>3 DEF DurationInv, HostInv
  <2> QED BY SMTT(30), <1>3, <2>1, SessionAssumption DEF Conns
<1>4. \A d \in Conns : /\ Gone(d) => Gone(d)'
                       /\ conn[d] # "none" => conn'[d] # "none"
                       /\ Opened(d) => Opened(d)'
  BY SMTT(30), <1>1 DEF Gone, Opened, HostStep
<1>5. \A a \in Conns : \A d \in 1..(a - 1) : d \in Conns
  BY SMTT(30), SessionAssumption DEF Conns
<1>6. \A a \in orderly : a \in Conns /\ a > 1 /\ a - 1 \in Conns /\ Opened(a) /\ conn[a - 1] = "disconnected"
  <2>1. \A a \in orderly : a \in Conns /\ a > 1 /\ Opened(a) /\ conn[a - 1] = "disconnected"
    BY DEF DurationInv, HostInv
  <2> QED BY SMTT(30), <2>1, SessionAssumption DEF Conns
<1>7. /\ \A i \in 1..Len(events) : events[i].conn \in Conns /\ i \in 1..Len(events') /\ events'[i] = events[i]
      /\ \A i \in 1..Len(events') : i \in 1..Len(events) \/ (x # "closed" /\ events'[i] = [kind |-> k, conn |-> c])
      /\ x # "closed" => \E i \in 1..Len(events') : events'[i] = [kind |-> k, conn |-> c]
      /\ \A i, j \in 1..Len(events') : i < j =>
             /\ events'[i].conn <= events'[j].conn
             /\ events'[i].kind = "Disconnected" => events'[i].conn < events'[j].conn
  <2>1. CASE x = "closed"
    <3>1. events \in Seq(Events) /\ events' = events
      BY <2>1 DEF IInv, Shared, HostStep
    <3>2. Len(events) \in Nat /\ \A i \in 1..Len(events) : events[i] \in Events
      BY <3>1, SeqFacts
    <3>3. \A e \in Events : e.conn \in Conns
      BY SMTT(30) DEF Events
    <3> QED BY <2>1, <3>1, <3>2, <3>3 DEF DurationInv, HostInv
  <2>2. CASE x # "closed"
    <3>1. k \in {"Init", "Connected", "Disconnected"} /\ events' = Append(events, [kind |-> k, conn |-> c])
      BY <2>2 DEF HostStep
    <3>2. /\ Len(events) \in Nat /\ Len(events') = Len(events) + 1
          /\ \A i \in 1..Len(events) : events'[i] = events[i] /\ events[i].conn \in Conns
          /\ events'[Len(events) + 1] = [kind |-> k, conn |-> c]
          /\ \A i, j \in 1..Len(events') : i < j =>
                 /\ events'[i].conn <= events'[j].conn
                 /\ events'[i].kind = "Disconnected" => events'[i].conn < events'[j].conn
      BY <1>2, <3>1, PublishHost
    <3>3. /\ Len(events) + 1 \in 1..Len(events')
          /\ \A i \in 1..Len(events) : i \in 1..Len(events')
          /\ \A i \in 1..Len(events') : i \in 1..Len(events) \/ i = Len(events) + 1
      BY SMTT(30), <3>2
    <3> QED BY <2>2, <3>2, <3>3
  <2> QED BY <2>1, <2>2
<1>8. HostInv'
  <2>1. ASSUME NEW a \in Conns, conn'[a] # "none" PROVE \A d \in 1..(a - 1) : Gone(d)'
    <3>1. \A d \in 1..(a - 1) : Gone(d)
      BY <1>1, <2>1 DEF DurationInv, HostInv
    <3> QED BY <1>4, <1>5, <3>1
  <2>2. ASSUME NEW a \in orderly'
        PROVE  a \in Conns /\ a > 1 /\ Opened(a)' /\ conn'[a - 1] = "disconnected"
    <3>1. CASE a \in orderly
      BY <1>1, <1>2, <1>4, <1>6, <3>1
    <3>2. CASE a = c /\ x = "open" /\ c > 1 /\ conn[c - 1] = "disconnected"
      <4>1. c - 1 \in Conns /\ c - 1 # c
        BY SMTT(30), <3>2, SessionAssumption DEF Conns
      <4> QED BY <1>1, <3>2, <4>1 DEF Opened
    <3> QED BY <2>2, <3>1, <3>2 DEF HostStep
  <2>3. ASSUME NEW i \in 1..Len(events')
        PROVE  /\ conn'[events'[i].conn] # "none"
               /\ events'[i].kind = "Disconnected" => conn'[events'[i].conn] = "disconnected"
    <3>1. CASE i \in 1..Len(events)
      <4>1. PICK a \in Conns : a = events[i].conn /\ events'[i] = events[i]
        BY <1>7, <3>1
      <4>2. conn[a] # "none" /\ (events[i].kind = "Disconnected" => conn[a] = "disconnected")
        BY <3>1, <4>1 DEF DurationInv, HostInv
      <4> QED BY <1>1, <1>2, <1>4, <4>1, <4>2
    <3>2. CASE x # "closed" /\ events'[i] = [kind |-> k, conn |-> c]
      <4>1. events'[i].conn = c /\ events'[i].kind = k
        BY SMTT(30), <3>2
      <4> QED BY <1>1, <3>2, <4>1 DEF HostStep
    <3> QED BY <1>7, <3>1, <3>2
  <2> QED BY <1>7, <2>1, <2>2, <2>3 DEF HostInv
<1>9. TakenInv'
  <2>1. ASSUME NEW a \in Conns, Opened(a)', actor'[a] = "none"
        PROVE  \E i \in 1..Len(events') : Announces(events'[i], a)
    <3>1. CASE Opened(a)
      <4>1. PICK i \in 1..Len(events) : Announces(events[i], a)
        BY <2>1, <3>1 DEF DurationInv, TakenInv, HostStep
      <4> QED BY <1>7, <4>1
    <3>2. CASE a = c /\ x = "open" /\ k = "Connected"
      <4>1. PICK i \in 1..Len(events') : events'[i] = [kind |-> k, conn |-> c]
        BY <1>7, <3>2
      <4> QED BY SMTT(30), <3>2, <4>1 DEF Announces
    <3> QED BY <1>1, <2>1, <3>1, <3>2 DEF Opened, HostStep
  <2>2. ASSUME NEW a \in Conns, conn'[a] = "disconnected"
        PROVE  \/ [kind |-> "Disconnected", conn |-> a] \in {events'[i] : i \in 1..Len(events')}
               \/ /\ active' = NoConn \/ active' > a
                  /\ \A i \in 1..Len(events') : events'[i].conn > a
    <3>1. CASE a = c
      <4>1. x # "closed" /\ k = "Disconnected"
        BY <1>1, <2>2, <3>1 DEF HostStep
      <4> QED BY <1>7, <3>1, <4>1
    <3>2. CASE a # c
      <4>1. conn[a] = "disconnected" /\ a < c
        BY <1>1, <1>3, <2>2, <3>2
      <4>2. CASE [kind |-> "Disconnected", conn |-> a] \in {events[i] : i \in 1..Len(events)}
        BY <1>7, <4>2
      <4>3. CASE (active = NoConn \/ active > a) /\ \A i \in 1..Len(events) : events[i].conn > a
        <5>1. ASSUME NEW i \in 1..Len(events') PROVE events'[i].conn > a
          <6>1. CASE i \in 1..Len(events)
            BY <1>7, <4>3, <6>1
          <6>2. CASE events'[i] = [kind |-> k, conn |-> c]
            <7>1. events'[i].conn = c
              BY SMTT(30), <6>2
            <7> QED BY SMTT(30), <4>1, <7>1, SessionAssumption DEF Conns
          <6> QED BY <1>7, <6>1, <6>2
        <5> QED BY <4>3, <5>1 DEF HostStep
      <4> QED BY <4>1, <4>2, <4>3 DEF DurationInv, TakenInv
    <3> QED BY <3>1, <3>2
  <2> QED BY <2>1, <2>2 DEF TakenInv
<1>10. RunningInv'
  BY DEF DurationInv, RunningInv, Alive, HostStep
<1>11. ASSUME NEW a \in Conns PROVE AloneInv(a)' /\ ToldInv(a)'
  <2>1. a # c \/ actor[c] # "none" => (a \in orderly' <=> a \in orderly)
    BY <1>1 DEF HostStep
  <2>2. AloneInv(a)'
    BY <2>1 DEF DurationInv, AloneInv, SpawnedAlone, Alive, HostStep
  <2>3. ASSUME a \in orderly', SpawnedAlone(a - 1)', conn'[a] = "open", actor'[a] # "none"
        PROVE  a \in orderly /\ SpawnedAlone(a - 1) /\ conn[a] = "open"
    <3>1. a \in orderly /\ conn[a] = "open"
      BY <1>1, <2>1, <2>3 DEF HostStep
    <3>2. a - 1 # c
      BY <1>2, <1>6, <3>1
    <3> QED BY <2>3, <3>1, <3>2 DEF SpawnedAlone, HostStep
  <2>4. ToldInv(a)'
    BY <2>3 DEF DurationInv, ToldInv, HostStep
  <2> QED BY <2>2, <2>4
<1> QED BY <1>8, <1>9, <1>10, <1>11 DEF DurationInv, HostStep

LEMMA HostStepsDuration ==
    ASSUME IInv, DurationInv, NEW c \in Conns, NewConnection(c) \/ Close(c) \/ Disconnect(c)
    PROVE  DurationInv'
<1>1. CASE NewConnection(c)
  <2>1. \/ HostStep(c, "init", "Init") /\ \A d \in 1..(c - 1) : Gone(d)
        \/ HostStep(c, "open", "Connected") /\ conn[c] = "init"
    BY <1>1 DEF NewConnection, Publish, Set, HostStep, loopVars, actorVars, timeVars
  <2>2. conn[c] = "init" => \A d \in 1..(c - 1) : Gone(d)
    BY DEF DurationInv, HostInv
  <2> QED BY <2>1, <2>2, HostDuration
<1>2. CASE Close(c) \/ Disconnect(c)
  <2>1. /\ HostStep(c, "closed", "none") \/ HostStep(c, "disconnected", "Disconnected")
        /\ conn[c] = "open"
    BY <1>2 DEF Close, Disconnect, DropConn, Set, HostStep, loopVars, actorVars, timeVars
  <2>2. \A d \in 1..(c - 1) : Gone(d)
    BY <2>1 DEF DurationInv, HostInv
  <2> QED BY <2>1, <2>2, HostDuration
<1> QED BY <1>1, <1>2

-------------------------------------------------------------------------------
\* The actors' steps: the first, and the last.

LEMMA ConnsAround ==
    /\ \A a \in Conns : \A d \in 1..(a - 1) : d \in Conns
    /\ DurationInv => \A a \in orderly : a \in Conns /\ a - 1 \in Conns /\ a - 1 # a
<1>1. \A a \in Conns : \A d \in 1..(a - 1) : d \in Conns
  BY SMTT(30), SessionAssumption DEF Conns
<1>2. ASSUME DurationInv, NEW a \in orderly PROVE a \in Conns /\ a - 1 \in Conns /\ a - 1 # a
  <2>1. a \in Conns /\ a > 1
    BY <1>2 DEF DurationInv, HostInv
  <2> QED BY SMTT(30), <2>1, SessionAssumption DEF Conns
<1> QED BY <1>1, <1>2

LEMMA HelloDuration ==
    ASSUME IInv, DurationInv, NEW c \in Conns, Hello(c)
    PROVE  DurationInv'
<1>1. /\ actor[c] = "spawned" /\ told' = [told EXCEPT ![c] = lastConnDuration]
      /\ UNCHANGED <<conn, orderly, events, loop, active, awaited, lived, lastConnDuration>>
      /\ actor' = [actor EXCEPT ![c] = "loop"] \/ actor' = [actor EXCEPT ![c] = "retry"]
  BY DEF Hello, Reply, Set, hostVars, loopVars
<1>2. /\ actor'[c] \in {"loop", "retry"} /\ \A d \in Conns : d # c => actor'[d] = actor[d]
      /\ told'[c] = lastConnDuration /\ \A d \in Conns : d # c => told'[d] = told[d]
      /\ DOMAIN told' = Conns
  BY <1>1 DEF IInv, Domains, DurationInv
<1>3. \A d \in Conns : /\ (actor'[d] = "none") = (actor[d] = "none")
                       /\ (actor'[d] = "ended") = (actor[d] = "ended")
  BY SMTT(30), <1>1, <1>2
<1>4. HostInv' /\ TakenInv'
  <2>1. HostInv'
    BY <1>1 DEF DurationInv, HostInv, Gone, Opened
  <2>2. TakenInv'
    BY <1>1, <1>3 DEF DurationInv, TakenInv, Opened
  <2> QED BY <2>1, <2>2
<1>5. RunningInv'
  <2>1. \A a \in Conns : actor'[a] # "none" => \A d \in 1..(a - 1) : actor'[d] # "none"
    BY <1>3, ConnsAround DEF DurationInv, RunningInv
  <2> QED BY <1>1, <1>3, <2>1 DEF DurationInv, RunningInv, Alive
<1>6. ASSUME NEW a \in Conns PROVE AloneInv(a)' /\ ToldInv(a)'
  <2>1. AloneInv(a)'
    BY <1>1, <1>3 DEF DurationInv, AloneInv, SpawnedAlone, Alive
  <2>2. ToldInv(a)'
    <3> SUFFICES ASSUME a \in orderly, SpawnedAlone(a - 1), conn[a] = "open", actor'[a] # "none"
                 PROVE  /\ actor'[a - 1] = "ended"
                        /\ actor'[a] = "spawned" => lastConnDuration' = lived'[a - 1]
                        /\ actor'[a] # "spawned" => told'[a] = lived'[a - 1]
      BY <1>1 DEF ToldInv, SpawnedAlone
    <3>1. /\ actor[a - 1] = "ended" /\ a - 1 \in Conns
          /\ actor[a] = "spawned" => lastConnDuration = lived[a - 1]
          /\ actor[a] # "spawned" => told[a] = lived[a - 1]
      BY <1>3, ConnsAround DEF DurationInv, ToldInv
    <3>2. actor'[a - 1] = "ended" /\ lastConnDuration' = lastConnDuration /\ lived' = lived
      BY <1>1, <1>3, <3>1
    <3>3. CASE a = c
      BY <1>1, <1>2, <3>1, <3>2, <3>3
    <3>4. CASE a # c
      BY <1>2, <3>1, <3>2, <3>4
    <3> QED BY <3>3, <3>4
  <2> QED BY <2>1, <2>2
<1> QED BY <1>1, <1>2, <1>4, <1>5, <1>6 DEF DurationInv

LEMMA StoppedDuration ==
    ASSUME IInv, DurationInv, NEW c \in Conns, Stopped(c)
    PROVE  DurationInv'
<1>1. /\ actor[c] = "loop" /\ actor' = [actor EXCEPT ![c] = "ended"]
      /\ UNCHANGED <<conn, orderly, events, loop, active, awaited, told>>
      /\ \E t \in Durations : lived' = [lived EXCEPT ![c] = t] /\ lastConnDuration' = t
  BY DEF Stopped, RunEnds, RecordDuration, Set, hostVars, loopVars
<1>2. /\ actor'[c] = "ended" /\ \A d \in Conns : d # c => actor'[d] = actor[d]
      /\ lived'[c] = lastConnDuration' /\ \A d \in Conns : d # c => lived'[d] = lived[d]
      /\ DOMAIN lived' = Conns
  BY <1>1 DEF IInv, Domains, DurationInv
<1>3. /\ \A d \in Conns : (actor'[d] = "none") = (actor[d] = "none")
      /\ \A d \in Conns : Alive(d)' => Alive(d) /\ d # c
      /\ Alive(c)
  BY SMTT(30), <1>1, <1>2 DEF Alive
<1>4. HostInv' /\ TakenInv'
  <2>1. HostInv'
    BY <1>1 DEF DurationInv, HostInv, Gone, Opened
  <2>2. TakenInv'
    BY <1>1, <1>3 DEF DurationInv, TakenInv, Opened
  <2> QED BY <2>1, <2>2
<1>5. RunningInv'
  <2>1. \A a \in Conns : actor'[a] # "none" => \A d \in 1..(a - 1) : actor'[d] # "none"
    BY <1>3, ConnsAround DEF DurationInv, RunningInv
  <2> QED BY <1>1, <1>3, <2>1 DEF DurationInv, RunningInv
<1>6. ASSUME NEW a \in Conns PROVE AloneInv(a)'
  <2>1. AloneInv(a)
    BY DEF DurationInv
  <2> QED BY <1>1, <1>2, <1>3, <2>1 DEF AloneInv, SpawnedAlone
<1>7. ASSUME NEW a \in Conns PROVE ToldInv(a)'
  <2> SUFFICES ASSUME a \in orderly, SpawnedAlone(a - 1), conn[a] = "open", actor'[a] # "none"
               PROVE  /\ actor'[a - 1] = "ended"
                      /\ actor'[a] = "spawned" => lastConnDuration' = lived'[a - 1]
                      /\ actor'[a] # "spawned" => told'[a] = lived'[a - 1]
    BY <1>1 DEF ToldInv, SpawnedAlone
  <2>1. /\ actor[a - 1] = "ended" /\ actor[a] # "none"
        /\ actor[a] # "spawned" => told[a] = lived[a - 1]
    BY <1>3 DEF DurationInv, ToldInv
  <2>2. a - 1 \in Conns /\ a - 1 # c
    BY <1>1, <2>1, ConnsAround
  <2>3. a + 1 \in Conns => actor[a + 1] = "none"
    <3>1. a + 1 \in Conns => a \in 1..((a + 1) - 1)
      BY SMTT(30) DEF Conns
    <3>2. a + 1 \in Conns => conn[a + 1] = "none"
      BY <3>1 DEF DurationInv, HostInv, Gone
    <3> QED BY <3>2 DEF IInv, ConnInv, StartOk
  <2>4. a = c
    BY <1>3, <2>1, <2>3 DEF DurationInv, AloneInv, SpawnedAlone
  <2> QED BY <1>1, <1>2, <2>1, <2>2, <2>4
<1> QED BY <1>1, <1>2, <1>4, <1>5, <1>6, <1>7 DEF DurationInv

-------------------------------------------------------------------------------
\* The loop's steps.

LEMMA LoopDuration ==
    ASSUME IInv, DurationInv, LoopEnds \/ Joined
    PROVE  DurationInv'
<1>1. /\ UNCHANGED <<conn, orderly, events, actor, told, lived, lastConnDuration>>
      /\ active' = active \/ active' = NoConn
  BY DEF LoopEnds, Joined, hostVars, timeVars, actorVars
<1>2. HostInv' /\ \A a \in Conns : AloneInv(a)' /\ ToldInv(a)'
  BY <1>1 DEF DurationInv, HostInv, AloneInv, ToldInv, SpawnedAlone, Alive, Gone, Opened
<1>3. TakenInv'
  BY <1>1 DEF DurationInv, TakenInv, Opened
<1>4. RunningInv'
  <2>1. CASE LoopEnds
    BY <1>1, <2>1 DEF LoopEnds, StopActive, DurationInv, RunningInv, Alive
  <2>2. CASE Joined
    BY <1>1, <2>2 DEF Joined, DurationInv, RunningInv, Alive
  <2> QED BY <2>1, <2>2
<1> QED BY <1>1, <1>2, <1>3, <1>4 DEF DurationInv

LEMMA TakeEventDuration ==
    ASSUME IInv, DurationInv, TakeEvent
    PROVE  DurationInv'
<1> DEFINE e == events[1]
           n == e.conn
<1>1. events \in Seq(Events) /\ events # <<>> /\ events' = Tail(events)
  BY DEF IInv, Shared, TakeEvent
<1>2. /\ e = Head(events) /\ e \in Events /\ 1 \in 1..Len(events) /\ Len(events) \in Nat
      /\ Len(events') = Len(events) - 1
      /\ \A i \in 1..Len(events') : events'[i] = events[i + 1]
      /\ \A i \in 1..Len(events) : events[i] \in Events
  BY SMTT(30), <1>1, TailFacts, SeqFacts
<1>3. /\ \A i \in 1..Len(events') : i + 1 \in 1..Len(events) /\ 1 < i + 1
      /\ \A i \in 1..Len(events) : i # 1 => i - 1 \in 1..Len(events') /\ (i - 1) + 1 = i /\ 1 < i
      /\ \A i, j \in 1..Len(events') : i < j => i + 1 < j + 1
  BY SMTT(30), <1>2
<1>4. n \in Conns /\ \A i \in 1..Len(events) : events[i].conn \in Conns
  BY SMTT(30), <1>2 DEF Events
<1>5. /\ UNCHANGED <<conn, orderly, told, lived, lastConnDuration>> /\ loop = "select" /\ awaited = NoConn
      /\ \/ e.kind = "Init" /\ UNCHANGED <<loop, active, awaited, actor>>
         \/ /\ e.kind = "Connected" /\ actor' = [actor EXCEPT ![n] = "spawned"] /\ active' = n
            /\ StopActive("await", "select")
         \/ /\ e.kind = "Disconnected" /\ active' = NoConn /\ actor' = actor
            /\ StopActive("await", "select")
  BY <1>2 DEF TakeEvent, Set, hostVars, loopVars, timeVars, DurationInv, RunningInv
<1>6. /\ e.kind = "Connected" => /\ actor[n] = "none" /\ actor'[n] = "spawned"
                                 /\ \A d \in Conns : d # n => actor'[d] = actor[d]
      /\ e.kind # "Connected" => actor' = actor
  <2>1. e.kind = "Connected" => actor[n] = "none"
    BY <1>2, <1>4 DEF IInv, ConnInv, EventsOk, Announces
  <2>2. DOMAIN actor = Conns
    BY DEF IInv, Domains
  <2> QED BY <1>4, <1>5, <2>1, <2>2
<1>7. \A d \in Conns : actor[d] # "none" => actor'[d] = actor[d]
  BY <1>6
<1>8. HostInv'
  <2>1. \A i \in 1..Len(events') :
          /\ conn'[events'[i].conn] # "none"
          /\ events'[i].kind = "Disconnected" => conn'[events'[i].conn] = "disconnected"
    <3>1. conn' = conn
      BY <1>5
    <3>2. \A i \in 1..Len(events) :
            /\ conn[events[i].conn] # "none"
            /\ events[i].kind = "Disconnected" => conn[events[i].conn] = "disconnected"
      BY DEF DurationInv, HostInv
    <3>3. ASSUME NEW i \in 1..Len(events') PROVE \E j \in 1..Len(events) : events'[i] = events[j]
      BY <1>2, <1>3
    <3> QED BY <3>1, <3>2, <3>3
  <2>2. ASSUME NEW i \in 1..Len(events'), NEW j \in 1..Len(events'), i < j
        PROVE  /\ events'[i].conn <= events'[j].conn
               /\ events'[i].kind = "Disconnected" => events'[i].conn < events'[j].conn
    <3>1. /\ i + 1 \in 1..Len(events) /\ j + 1 \in 1..Len(events) /\ i + 1 < j + 1
          /\ events'[i] = events[i + 1] /\ events'[j] = events[j + 1]
      BY <1>2, <1>3, <2>2
    <3> QED BY <3>1 DEF DurationInv, HostInv
  <2> QED BY <1>5, <2>1, <2>2 DEF DurationInv, HostInv, Gone, Opened
<1>9. TakenInv'
  <2>1. ASSUME NEW a \in Conns, Opened(a)', actor'[a] = "none"
        PROVE  \E i \in 1..Len(events') : Announces(events'[i], a)
    <3>1. actor[a] = "none" /\ Opened(a)
      BY <1>5, <1>7, <2>1 DEF Opened
    <3>2. PICK i \in 1..Len(events) : Announces(events[i], a)
      BY <3>1 DEF DurationInv, TakenInv
    <3>3. i # 1
      BY <1>6, <2>1, <3>2 DEF Announces
    <3> QED BY <1>2, <1>3, <3>2, <3>3
  <2>2. ASSUME NEW a \in Conns, conn'[a] = "disconnected"
        PROVE  \/ [kind |-> "Disconnected", conn |-> a] \in {events'[i] : i \in 1..Len(events')}
               \/ /\ active' = NoConn \/ active' > a
                  /\ \A i \in 1..Len(events') : events'[i].conn > a
    <3>1. ASSUME NEW i \in 1..Len(events), events[i] = [kind |-> "Disconnected", conn |-> a], i # 1
          PROVE  [kind |-> "Disconnected", conn |-> a] \in {events'[j] : j \in 1..Len(events')}
      <4>1. i - 1 \in 1..Len(events') /\ events'[i - 1] = events[i]
        BY <1>2, <1>3, <3>1
      <4> QED BY <3>1, <4>1
    <3>2. CASE e = [kind |-> "Disconnected", conn |-> a]
      <4>1. e.kind = "Disconnected" /\ n = a
        BY SMTT(30), <3>2
      <4>2. ASSUME NEW i \in 1..Len(events') PROVE events'[i].conn > a
        <5>1. a < events[i + 1].conn /\ events'[i] = events[i + 1] /\ events[i + 1].conn \in Conns
          BY <1>2, <1>3, <1>4, <4>1 DEF DurationInv, HostInv
        <5> QED BY SMTT(30), <5>1 DEF Conns
      <4> QED BY <1>5, <4>1, <4>2
    <3>3. CASE (active = NoConn \/ active > a) /\ \A i \in 1..Len(events) : events[i].conn > a
      BY <1>2, <1>3, <1>5, <3>3
    <3> QED BY <1>5, <2>2, <3>1, <3>2, <3>3 DEF DurationInv, TakenInv
  <2> QED BY <2>1, <2>2 DEF TakenInv
<1>10. ASSUME e.kind = "Connected", NEW d \in 1..(n - 1) PROVE actor[d] # "none"
  <2>1. d \in Conns /\ d # n /\ ~(n <= d)
    BY SMTT(30), <1>4, SessionAssumption DEF Conns
  <2>2. Opened(d)
    BY <1>2, <1>4 DEF DurationInv, HostInv, Gone, Opened
  <2>3. SUFFICES ASSUME actor[d] = "none" PROVE FALSE
    OBVIOUS
  <2>4. PICK i \in 1..Len(events) : Announces(events[i], d)
    BY <2>1, <2>2, <2>3 DEF DurationInv, TakenInv
  <2>5. events[i].conn = d
    BY <2>4 DEF Announces
  <2>6. i # 1
    BY <2>1, <2>5
  <2> QED BY <1>2, <1>3, <2>1, <2>5, <2>6 DEF DurationInv, HostInv
<1>11. RunningInv'
  <2>1. ASSUME NEW a \in Conns, actor'[a] # "none", NEW d \in 1..(a - 1) PROVE actor'[d] # "none"
    <3>1. d \in Conns
      BY ConnsAround
    <3>2. actor[d] # "none"
      BY <1>6, <1>10, <2>1 DEF DurationInv, RunningInv
    <3> QED BY <1>7, <3>1, <3>2
  <2>2. active \in Conns \cup {NoConn} /\ (active # NoConn => actor[active] # "none") /\ \A a \in Conns : Alive(a) => a = active
    <3>1. NoConn \notin Conns
      BY SMTT(30) DEF NoConn, Conns
    <3> QED BY <1>5, <3>1 DEF DurationInv, RunningInv
  <2>3. \A a \in Conns : Alive(a)' => a \in {active, active'}
    BY <1>5, <1>6, <2>2 DEF Alive
  <2>4. CASE e.kind = "Init"
    BY <1>5, <1>6, <2>1, <2>2, <2>3, <2>4 DEF RunningInv
  <2>5. CASE e.kind # "Init"
    <3>1. active' \in Conns \cup {NoConn} /\ (active' # NoConn => actor'[active'] # "none")
      BY <1>4, <1>5, <1>6, <2>5
    <3>2. /\ active = NoConn => loop' = "select" /\ awaited' = NoConn
          /\ active # NoConn => loop' = "await" /\ awaited' = active
      BY <1>5, <2>5 DEF StopActive
    <3> QED BY <1>4, <2>1, <2>2, <2>3, <3>1, <3>2 DEF RunningInv
  <2> QED BY <2>4, <2>5
\* An actor that is spawned alone finds no other running.
<1>12. ASSUME e.kind = "Connected", SpawnedAlone(n) PROVE \A d \in Conns : ~Alive(d)
  <2>1. NoConn \notin Conns /\ (n # 1 => n - 1 \in Conns /\ ~(n <= n - 1))
    BY SMTT(30), <1>4, SessionAssumption DEF NoConn, Conns
  <2>2. SUFFICES active = NoConn
    BY <1>5, <2>1 DEF DurationInv, RunningInv
  <2>3. SUFFICES ASSUME active # NoConn PROVE FALSE
    OBVIOUS
  <2>4. active \in Conns /\ actor[active] # "none" /\ n \notin 1..(active - 1) /\ active # n
    BY <1>6, <1>12, <2>3 DEF DurationInv, RunningInv
  <2>5. active < n
    BY SMTT(30), <1>4, <2>4 DEF Conns
  <2>6. n # 1 /\ ~(active > n - 1)
    BY SMTT(30), <1>4, <2>4, <2>5 DEF Conns
  <2>7. conn[n - 1] = "disconnected"
    BY <1>12, <2>6 DEF SpawnedAlone, DurationInv, HostInv
  <2>8. PICK i \in 1..Len(events) : events[i] = [kind |-> "Disconnected", conn |-> n - 1]
    BY <2>1, <2>3, <2>6, <2>7 DEF DurationInv, TakenInv
  <2>9. events[i].conn = n - 1 /\ events[i].kind = "Disconnected"
    BY SMTT(30), <2>8
  <2>10. i # 1
    BY <1>12, <2>9
  <2> QED BY <1>2, <1>3, <2>1, <2>6, <2>9, <2>10 DEF DurationInv, HostInv
<1>13. ASSUME NEW a \in Conns PROVE AloneInv(a)'
  <2>1. AloneInv(a)
    BY DEF DurationInv
  <2>2. CASE e.kind # "Connected"
    BY <1>5, <1>6, <2>1, <2>2 DEF AloneInv, SpawnedAlone, Alive
  <2>3. CASE e.kind = "Connected" /\ a = n
    BY <1>5, <1>6, <1>12, <2>3 DEF AloneInv, SpawnedAlone, Alive
  <2>4. CASE e.kind = "Connected" /\ a # n
    <3>1. SUFFICES ASSUME actor'[a] # "none", a + 1 \in Conns => actor'[a + 1] = "none" PROVE FALSE
      BY DEF AloneInv
    <3>2. CASE n < a
      <4>1. n \in 1..(a - 1)
        BY SMTT(30), <1>4, <3>2 DEF Conns
      <4> QED BY <1>6, <2>4, <3>1, <4>1 DEF DurationInv, RunningInv
    <3>3. CASE a + 1 = n
      BY <1>4, <1>6, <2>4, <3>1, <3>3
    <3>4. CASE a + 1 < n
      <4>1. a + 1 \in 1..(n - 1) /\ a + 1 \in Conns
        BY SMTT(30), <1>4, <3>4, SessionAssumption DEF Conns
      <4> QED BY <1>7, <1>10, <2>4, <3>1, <4>1
    <3> QED BY SMTT(30), <1>4, <2>4, <3>2, <3>3, <3>4 DEF Conns
  <2> QED BY <2>2, <2>3, <2>4
<1>14. ASSUME NEW a \in Conns PROVE ToldInv(a)'
  <2>1. ToldInv(a)
    BY DEF DurationInv
  <2>2. CASE e.kind # "Connected"
    BY <1>5, <1>6, <2>1, <2>2 DEF ToldInv, SpawnedAlone
  <2>3. CASE e.kind = "Connected" /\ a # n
    BY <1>5, <1>6, <1>7, <2>1, <2>3, ConnsAround DEF ToldInv, SpawnedAlone
  <2>4. CASE e.kind = "Connected" /\ a = n
    <3> SUFFICES ASSUME n \in orderly, SpawnedAlone(n - 1)
                 PROVE  actor'[n - 1] = "ended" /\ lastConnDuration' = lived'[n - 1]
      BY <1>5, <1>6, <2>4 DEF ToldInv, SpawnedAlone
    <3>1. n - 1 \in Conns /\ n - 1 # n /\ n - 1 \in 1..(n - 1) /\ (n - 1) + 1 = n
      <4>1. n > 1
        BY DEF DurationInv, HostInv
      <4> QED BY SMTT(30), <1>4, <4>1, SessionAssumption DEF Conns
    <3>2. actor[n - 1] = "ended"
      BY <1>10, <1>12, <2>4, <3>1 DEF SpawnedAlone, Alive
    <3>3. lastConnDuration = lived[n - 1]
      BY <1>6, <2>4, <3>1, <3>2 DEF DurationInv, AloneInv
    <3> QED BY <1>5, <1>6, <2>4, <3>1, <3>2, <3>3
  <2> QED BY <2>2, <2>3, <2>4
<1> QED BY <1>5, <1>8, <1>9, <1>11, <1>13, <1>14 DEF DurationInv

\* The other steps.
LEMMA QuietSteps ==
    ASSUME IInv, NEW c \in Conns,
           \/ ServerRecv(c) \/ PerformHandshake(c) \/ DispatchMagicTunnel(c) \/ SendOther(c)
           \/ GetDispatch(c) \/ Respond(c)
           \/ Retry(c) \/ ForwardResponse(c) \/ TakeMessage(c) \/ ReportFailure(c)
    PROVE  IsQuiet
<1>1. CASE ServerRecv(c) \/ GetDispatch(c) \/ Respond(c)
  BY <1>1 DEF ServerRecv, GetDispatch, Respond, IsQuiet, loopVars, timeVars, actorVars
<1>2. CASE PerformHandshake(c) \/ DispatchMagicTunnel(c) \/ SendOther(c)
  <2>1. CASE PerformHandshake(c)
    <3>1. PICK s \in ServerNonces :
             ServerSend(c, WireAck(s, ConnectionId(Head(got[c]).nonce, s)))
      BY <2>1 DEF PerformHandshake
    <3> QED BY <3>1 DEF ServerSend, IsQuiet, loopVars, timeVars, actorVars
  <2>2. CASE DispatchMagicTunnel(c)
    BY <2>2 DEF DispatchMagicTunnel, ServerSend, IsQuiet, loopVars, timeVars, actorVars
  <2>3. CASE SendOther(c)
    <3>1. PICK w \in Others(c) : ServerSend(c, w)
      BY <2>3 DEF SendOther
    <3> QED BY <3>1 DEF ServerSend, IsQuiet, loopVars, timeVars, actorVars
  <2> QED BY <1>2, <2>1, <2>2, <2>3
<1>3. CASE Retry(c) \/ ForwardResponse(c) \/ TakeMessage(c) \/ ReportFailure(c)
  <2>1. UNCHANGED <<conn, orderly, events, loop, active, awaited, told, lived, lastConnDuration>>
    BY <1>3 DEF Retry, ForwardResponse, TakeMessage, ReportFailure, hostVars, loopVars, timeVars
  <2>2. DOMAIN actor = Conns
    BY DEF IInv, Domains
  <2>3. actor[c] \in Busy
    BY <1>3 DEF Retry, ForwardResponse, TakeMessage, ReportFailure, Busy
  <2>4. actor' = actor \/ \E a \in Busy : actor' = [actor EXCEPT ![c] = a]
    <3>1. CASE Retry(c) \/ ForwardResponse(c) \/ ReportFailure(c)
      BY <3>1 DEF Retry, ForwardResponse, ReportFailure, Reply, Set, Busy
    <3>2. CASE TakeMessage(c)
      <4> DEFINE m == Head(inQ[c])
      <4>1. Refuse(c, m) \/ Ping(c, m) \/ Skip(c, m) \/ Accept(c, m) \/ Dispatch(c, m)
        BY <3>2 DEF TakeMessage
      <4> QED BY <4>1 DEF Refuse, Ping, Skip, Accept, Dispatch, Reply, Set, Busy, actorVars
    <3> QED BY <1>3, <3>1, <3>2
  <2>5. \A d \in Conns : actor'[d] = actor[d] \/ (actor[d] \in Busy /\ actor'[d] \in Busy)
    <3>1. CASE actor' = actor
      BY <3>1
    <3>2. ASSUME NEW a \in Busy, actor' = [actor EXCEPT ![c] = a]
          PROVE  \A d \in Conns : actor'[d] = actor[d] \/ (actor[d] \in Busy /\ actor'[d] \in Busy)
      BY <2>2, <2>3, <3>2
    <3> QED BY <2>4, <3>1, <3>2
  <2> QED BY <2>1, <2>5 DEF IsQuiet
<1> QED BY <1>1, <1>2, <1>3

LEMMA NextDuration == IInv /\ DurationInv /\ [Next]_vars => DurationInv'
<1> SUFFICES ASSUME IInv, DurationInv, [Next]_vars PROVE DurationInv'
  OBVIOUS
<1>1. CASE Loop
  BY <1>1, TakeEventDuration, LoopDuration DEF Loop
<1>2. ASSUME NEW c \in Conns, Server(c) PROVE DurationInv'
  BY <1>2, HostStepsDuration, QuietSteps, QuietDuration DEF Server
<1>3. ASSUME NEW c \in Conns, Actor(c) PROVE DurationInv'
  BY <1>3, HelloDuration, StoppedDuration, QuietSteps, QuietDuration DEF Actor
<1>4. CASE Shutdown \/ Finished \/ UNCHANGED vars
  <2>1. UNCHANGED <<hostVars, events, loopVars, timeVars, actorVars>>
    BY <1>4 DEF Shutdown, Finished, vars
  <2>2. IsQuiet
    BY <2>1 DEF IsQuiet, hostVars, loopVars, timeVars, actorVars
  <2> QED BY <2>2, QuietDuration
<1> QED BY <1>1, <1>2, <1>3, <1>4 DEF Next

\* After an orderly close, the ClientHello of the next connection reports how long the
\* closed one was up: its actor has ended and recorded the duration before the new
\* one reads it, and no other actor is there to write in between.
THEOREM SessionHelloReportsLastDuration == Spec => []HelloReportsLastDuration
<1>1. Spec => []DurationInv
  BY SessionInvariant, InitDuration, NextDuration, PTL DEF Spec
<1>2. ASSUME IInv, DurationInv PROVE HelloReportsLastDuration
  <2> SUFFICES ASSUME NEW c \in orderly, conn[c] = "open", drawn[c] # NoNonce, SpawnedAlone(c - 1)
               PROVE  actor[c - 1] = "ended" /\ told[c] = lived[c - 1]
    BY DEF HelloReportsLastDuration
  <2>1. c \in Conns
    BY <1>2 DEF DurationInv, HostInv
  <2>2. actor[c] \notin {"none", "spawned"}
    BY <1>2, <2>1 DEF IInv, ConnInv, StartOk
  <2> QED BY <1>2, <2>1, <2>2 DEF DurationInv, ToldInv
<1> QED BY <1>1, <1>2, SessionInvariant, PTL

-------------------------------------------------------------------------------
(* A request is in one place at a time *)

\* The three kinds of queues, when something is appended and when the head is taken.
LEMMA RequestIdsAppend ==
    ASSUME NEW S, NEW q \in Seq(S), NEW e \in S, RequestsOnce(q),
           e.message = "Dispatch" => e.correlation_id \notin RequestIds(q)
    PROVE  /\ RequestsOnce(Append(q, e))
           /\ RequestIds(Append(q, e)) \subseteq
                 RequestIds(q) \cup (IF e.message = "Dispatch" THEN {e.correlation_id} ELSE {})
<1>1. /\ Len(q) \in Nat /\ Len(Append(q, e)) = Len(q) + 1
      /\ \A i \in 1..Len(q) : Append(q, e)[i] = q[i]
      /\ Append(q, e)[Len(q) + 1] = e
  BY SMTT(30), AppendFacts
<1>2. \A i \in 1..(Len(q) + 1) : i \in 1..Len(q) \/ i = Len(q) + 1
  BY SMTT(30), <1>1
<1>3. \A i \in 1..Len(q) : q[i].message = "Dispatch" => q[i].correlation_id \in RequestIds(q)
  BY DEF RequestIds
<1>4. RequestsOnce(Append(q, e))
  BY SMTT(30), <1>1, <1>2, <1>3 DEF RequestsOnce
<1>5. ASSUME NEW x \in RequestIds(Append(q, e))
      PROVE  x \in RequestIds(q) \/ (e.message = "Dispatch" /\ x = e.correlation_id)
  <2>1. PICK i \in 1..(Len(q) + 1) : Append(q, e)[i].message = "Dispatch" /\ x = Append(q, e)[i].correlation_id
    BY <1>1 DEF RequestIds
  <2> QED BY <1>1, <1>2, <1>3, <2>1
<1> QED BY <1>4, <1>5

LEMMA IdsAppend ==
    ASSUME NEW S, NEW q \in Seq(S), NEW e \in S, IdsOnce(q), e.id \notin Ids(q)
    PROVE  IdsOnce(Append(q, e)) /\ Ids(Append(q, e)) \subseteq Ids(q) \cup {e.id}
<1>1. /\ Len(q) \in Nat /\ Len(Append(q, e)) = Len(q) + 1
      /\ \A i \in 1..Len(q) : Append(q, e)[i] = q[i]
      /\ Append(q, e)[Len(q) + 1] = e
  BY SMTT(30), AppendFacts
<1>2. \A i \in 1..(Len(q) + 1) : i \in 1..Len(q) \/ i = Len(q) + 1
  BY SMTT(30), <1>1
<1>3. \A i \in 1..Len(q) : q[i].id \in Ids(q)
  BY DEF Ids
<1>4. IdsOnce(Append(q, e))
  BY SMTT(30), <1>1, <1>2, <1>3 DEF IdsOnce
<1>5. ASSUME NEW x \in Ids(Append(q, e)) PROVE x \in Ids(q) \/ x = e.id
  <2>1. PICK i \in 1..(Len(q) + 1) : x = Append(q, e)[i].id
    BY <1>1 DEF Ids
  <2> QED BY <1>1, <1>2, <1>3, <2>1
<1> QED BY <1>4, <1>5

LEMMA ResponseIdsAppend ==
    ASSUME NEW S, NEW q \in Seq(S), NEW e \in S, ResponsesOnce(q),
           e.kind = "Dispatch" => e.id \notin ResponseIds(q)
    PROVE  /\ ResponsesOnce(Append(q, e))
           /\ ResponseIds(Append(q, e)) \subseteq
                 ResponseIds(q) \cup (IF e.kind = "Dispatch" THEN {e.id} ELSE {})
<1>1. /\ Len(q) \in Nat /\ Len(Append(q, e)) = Len(q) + 1
      /\ \A i \in 1..Len(q) : Append(q, e)[i] = q[i]
      /\ Append(q, e)[Len(q) + 1] = e
  BY SMTT(30), AppendFacts
<1>2. \A i \in 1..(Len(q) + 1) : i \in 1..Len(q) \/ i = Len(q) + 1
  BY SMTT(30), <1>1
<1>3. \A i \in 1..Len(q) : q[i].kind = "Dispatch" => q[i].id \in ResponseIds(q)
  BY DEF ResponseIds
<1>4. ResponsesOnce(Append(q, e))
  BY SMTT(30), <1>1, <1>2, <1>3 DEF ResponsesOnce
<1>5. ASSUME NEW x \in ResponseIds(Append(q, e))
      PROVE  x \in ResponseIds(q) \/ (e.kind = "Dispatch" /\ x = e.id)
  <2>1. PICK i \in 1..(Len(q) + 1) : Append(q, e)[i].kind = "Dispatch" /\ x = Append(q, e)[i].id
    BY <1>1 DEF ResponseIds
  <2> QED BY <1>1, <1>2, <1>3, <2>1
<1> QED BY <1>4, <1>5

LEMMA RequestIdsTail ==
    ASSUME NEW S, NEW q \in Seq(S), q # <<>>, RequestsOnce(q)
    PROVE  /\ RequestsOnce(Tail(q)) /\ RequestIds(Tail(q)) \subseteq RequestIds(q)
           /\ Head(q).message = "Dispatch" =>
                /\ Head(q).correlation_id \in RequestIds(q)
                /\ Head(q).correlation_id \notin RequestIds(Tail(q))
<1>1. /\ Head(q) = q[1] /\ Len(q) \in Nat \ {0} /\ Len(Tail(q)) = Len(q) - 1
      /\ \A i \in 1..Len(Tail(q)) : Tail(q)[i] = q[i + 1]
  BY SMTT(30), TailFacts
<1>2. /\ \A i \in 1..Len(Tail(q)) : i + 1 \in 1..Len(q) /\ i + 1 # 1
      /\ 1 \in 1..Len(q) /\ \A i, j \in 1..Len(Tail(q)) : i + 1 = j + 1 => i = j
  BY SMTT(30), <1>1
<1>3. RequestsOnce(Tail(q))
  BY SMTT(30), <1>1, <1>2 DEF RequestsOnce
<1>4. ASSUME NEW x \in RequestIds(Tail(q))
      PROVE  x \in RequestIds(q) /\ ~(Head(q).message = "Dispatch" /\ Head(q).correlation_id = x)
  <2>1. PICK i \in 1..Len(Tail(q)) : Tail(q)[i].message = "Dispatch" /\ x = Tail(q)[i].correlation_id
    BY DEF RequestIds
  <2>2. q[i + 1].message = "Dispatch" /\ x = q[i + 1].correlation_id /\ i + 1 \in 1..Len(q) /\ i + 1 # 1
    BY <1>1, <1>2, <2>1
  <2> QED BY <1>1, <1>2, <2>2 DEF RequestIds, RequestsOnce
<1>5. Head(q).message = "Dispatch" => Head(q).correlation_id \in RequestIds(q)
  BY <1>1, <1>2 DEF RequestIds
<1> QED BY <1>3, <1>4, <1>5

LEMMA IdsTail ==
    ASSUME NEW S, NEW q \in Seq(S), q # <<>>, IdsOnce(q)
    PROVE  /\ IdsOnce(Tail(q)) /\ Ids(Tail(q)) \subseteq Ids(q)
           /\ Head(q).id \in Ids(q) /\ Head(q).id \notin Ids(Tail(q))
<1>1. /\ Head(q) = q[1] /\ Len(q) \in Nat \ {0} /\ Len(Tail(q)) = Len(q) - 1
      /\ \A i \in 1..Len(Tail(q)) : Tail(q)[i] = q[i + 1]
  BY SMTT(30), TailFacts
<1>2. /\ \A i \in 1..Len(Tail(q)) : i + 1 \in 1..Len(q) /\ i + 1 # 1
      /\ 1 \in 1..Len(q) /\ \A i, j \in 1..Len(Tail(q)) : i + 1 = j + 1 => i = j
  BY SMTT(30), <1>1
<1>3. IdsOnce(Tail(q))
  BY SMTT(30), <1>1, <1>2 DEF IdsOnce
<1>4. ASSUME NEW x \in Ids(Tail(q)) PROVE x \in Ids(q) /\ Head(q).id # x
  <2>1. PICK i \in 1..Len(Tail(q)) : x = Tail(q)[i].id
    BY DEF Ids
  <2>2. x = q[i + 1].id /\ i + 1 \in 1..Len(q) /\ i + 1 # 1
    BY <1>1, <1>2, <2>1
  <2> QED BY <1>1, <1>2, <2>2 DEF Ids, IdsOnce
<1>5. Head(q).id \in Ids(q)
  BY <1>1, <1>2 DEF Ids
<1> QED BY <1>3, <1>4, <1>5

\* What is said is said, whether it is still in the queue or has been received.
SaidOf(received, out) == received \o [k \in DOMAIN out |-> Encode(out[k])]

LEMMA EncodedFacts ==
    ASSUME NEW S, NEW q \in Seq(S), \A x \in S : Encode(x) \in S
    PROVE  LET e == [k \in DOMAIN q |-> Encode(q[k])]
           IN  e \in Seq(S) /\ Len(e) = Len(q) /\ \A i \in 1..Len(q) : e[i] = Encode(q[i])
<1> DEFINE e == [k \in 1..Len(q) |-> Encode(q[k])]
<1>1. Len(q) \in Nat /\ DOMAIN q = 1..Len(q) /\ \A i \in 1..Len(q) : q[i] \in S
  BY SeqFacts
<1>2. e \in [1..Len(q) -> S]
  BY <1>1
<1> HIDE DEF e
<1>3. e \in Seq(S) /\ Len(e) = Len(q)
  BY SMTT(30), <1>1, <1>2
<1> QED BY <1>1, <1>3 DEF e

LEMMA SaidAppend ==
    ASSUME NEW S, NEW g \in Seq(S), NEW q \in Seq(S), NEW m \in S, \A x \in S : Encode(x) \in S
    PROVE  /\ SaidOf(g, q) \in Seq(S)
           /\ SaidOf(g, Append(q, m)) = Append(SaidOf(g, q), Encode(m))
<1> DEFINE E(s) == [k \in DOMAIN s |-> Encode(s[k])]
<1>1. E(q) \in Seq(S) /\ Len(E(q)) = Len(q)
  BY EncodedFacts
<1>2. E(Append(q, m)) = Append(E(q), Encode(m))
  BY SMTT(30), <1>1
<1> HIDE DEF E
<1>3. Encode(m) \in S
  OBVIOUS
<1>4. g \o E(q) \in Seq(S) /\ g \o Append(E(q), Encode(m)) = Append(g \o E(q), Encode(m))
  BY SMTT(30), <1>1, <1>3
<1> QED BY <1>2, <1>4 DEF SaidOf, E

LEMMA SaidMore ==
    ASSUME NEW g \in Seq(FromClient), NEW q \in Seq(FromClient), NEW m \in FromClient
    PROVE  SaidOf(g, Append(q, m)) = Append(SaidOf(g, q), Encode(m))
<1>1. \A x \in FromClient : Encode(x) \in FromClient
  BY EncodeType
<1> QED BY SMTT(30), <1>1, SaidAppend

LEMMA SaidReceived ==
    ASSUME NEW S, NEW g \in Seq(S), NEW q \in Seq(S), q # <<>>, \A x \in S : Encode(x) \in S
    PROVE  SaidOf(Append(g, Encode(Head(q))), Tail(q)) = SaidOf(g, q)
<1> DEFINE E(s) == [k \in DOMAIN s |-> Encode(s[k])]
<1>1. E(q) \in Seq(S) /\ E(q) # <<>>
  BY SMTT(30)
<1>2. E(Tail(q)) = Tail(E(q)) /\ Encode(Head(q)) = Head(E(q))
  BY SMTT(30), <1>1
<1> HIDE DEF E
<1>3. Append(g, Head(E(q))) \o Tail(E(q)) = g \o E(q)
  BY SMTT(30), <1>1
<1> QED BY <1>2, <1>3 DEF SaidOf, E

LEMMA ConcatFacts ==
    ASSUME NEW S, NEW s \in Seq(S), NEW t \in Seq(S)
    PROVE  /\ Len(s) \in Nat /\ Len(t) \in Nat /\ Len(s \o t) = Len(s) + Len(t)
           /\ \A i \in 1..(Len(s) + Len(t)) : (s \o t)[i] = IF i <= Len(s) THEN s[i] ELSE t[i - Len(s)]
  BY SMTT(30)

OneOf(m, received, out) ==
    (\E i \in 1..Len(received) : m = received[i]) \/ (\E i \in 1..Len(out) : m = Encode(out[i]))

LEMMA SaidPlaces ==
    ASSUME NEW S, NEW g \in Seq(S), NEW q \in Seq(S), \A x \in S : Encode(x) \in S, NEW k \in 1..Len(SaidOf(g, q))
    PROVE  OneOf(SaidOf(g, q)[k], g, q)
<1> DEFINE E(s) == [j \in DOMAIN s |-> Encode(s[j])]
<1>1. E(q) \in Seq(S) /\ Len(E(q)) = Len(q) /\ \A i \in 1..Len(q) : E(q)[i] = Encode(q[i])
  BY EncodedFacts
<1> HIDE DEF E
<1>2. SaidOf(g, q) = g \o E(q)
  BY DEF SaidOf, E
<1>3. /\ Len(g) \in Nat /\ Len(E(q)) \in Nat /\ Len(g \o E(q)) = Len(g) + Len(E(q))
      /\ \A i \in 1..(Len(g) + Len(E(q))) : (g \o E(q))[i] = IF i <= Len(g) THEN g[i] ELSE E(q)[i - Len(g)]
  BY <1>1, ConcatFacts
<1>4. \/ k \in 1..Len(g) /\ (g \o E(q))[k] = g[k]
      \/ k - Len(g) \in 1..Len(q) /\ (g \o E(q))[k] = E(q)[k - Len(g)]
  <2>1. k \in 1..(Len(g) + Len(q)) /\ Len(q) \in Nat /\ Len(g) \in Nat
    BY <1>1, <1>2, <1>3
  <2>2. (k \in 1..Len(g) /\ k <= Len(g)) \/ (k - Len(g) \in 1..Len(q) /\ ~(k <= Len(g)))
    BY SMTT(30), <2>1
  <2>3. (g \o E(q))[k] = IF k <= Len(g) THEN g[k] ELSE E(q)[k - Len(g)]
    BY <1>1, <1>3, <2>1
  <2> QED BY <2>2, <2>3
<1> QED BY <1>1, <1>2, <1>4 DEF OneOf

-------------------------------------------------------------------------------
\* How a request moves.  In what follows log is what the server sent, in, rq and rs
\* are the queues of messages, requests and results, h is what the application holds,
\* rp and sn are the ids in the report and in the response that waits.

LEMMA TrackSend ==
    ASSUME NEW log \in Seq(FromServer), NEW in \in Seq(FromServer), NEW rq, NEW h, NEW rp, NEW rs, NEW sn,
           NEW said, TrackOk(log, in, rq, h, rp, rs, sn, said),
           NEW w \in FromServer, w.message = "Dispatch" => w.correlation_id = Len(log) + 1
    PROVE  TrackOk(Append(log, w), Append(in, Decode(w)), rq, h, rp, rs, sn, said)
<1>1. /\ Len(log) \in Nat /\ Len(Append(log, w)) = Len(log) + 1
      /\ \A i \in 1..Len(log) : Append(log, w)[i] = log[i]
      /\ Append(log, w)[Len(log) + 1] = w
  BY SMTT(30), AppendFacts
<1>2. /\ \A n \in 1..Len(log) : n \in 1..Len(Append(log, w))
      /\ Len(log) + 1 \in 1..Len(Append(log, w)) /\ Len(log) + 1 \notin 1..Len(log)
  BY SMTT(30), <1>1
<1>3. Signed(log) \subseteq Signed(Append(log, w)) /\ Signed(log) \subseteq 1..Len(log)
  BY <1>1, <1>2 DEF Signed
<1>4. /\ Len(in) \in Nat /\ Len(Append(in, Decode(w))) = Len(in) + 1
      /\ \A i \in 1..Len(in) : Append(in, Decode(w))[i] = in[i]
      /\ Append(in, Decode(w))[Len(in) + 1] = Decode(w)
  BY SMTT(30), DecodeType, AppendFacts
<1>5. /\ Decode(w).message = "Dispatch" => w.message = "Dispatch" /\ Decode(w) = w
      /\ Decode(w) \in FromServer
  BY SMTT(30), DecodeType DEF Decode
<1>6. RequestIds(in) \subseteq 1..Len(log)
  BY DEF TrackOk, RequestIds
<1>7. /\ RequestsOnce(Append(in, Decode(w)))
      /\ RequestIds(Append(in, Decode(w))) \subseteq RequestIds(in) \cup {Len(log) + 1}
  <2>1. Decode(w).message = "Dispatch" => Decode(w).correlation_id = Len(log) + 1 /\ Len(log) + 1 \notin RequestIds(in)
    BY <1>2, <1>5, <1>6
  <2>2. RequestsOnce(in)
    BY DEF TrackOk
  <2>3. /\ RequestsOnce(Append(in, Decode(w)))
        /\ RequestIds(Append(in, Decode(w))) \subseteq
              RequestIds(in) \cup (IF Decode(w).message = "Dispatch" THEN {Decode(w).correlation_id} ELSE {})
    BY SMTT(30), <1>5, <2>1, <2>2, RequestIdsAppend
  <2> QED BY <2>1, <2>3
<1>8. \A i \in 1..Len(Append(in, Decode(w))) : Append(in, Decode(w))[i].message = "Dispatch" =>
         /\ Append(in, Decode(w))[i].correlation_id \in 1..Len(Append(log, w))
         /\ Append(log, w)[Append(in, Decode(w))[i].correlation_id] = Append(in, Decode(w))[i]
  <2>1. \A i \in 1..(Len(in) + 1) : i \in 1..Len(in) \/ i = Len(in) + 1
    BY SMTT(30), <1>4
  <2>2. \A i \in 1..Len(in) : in[i].message = "Dispatch" =>
           in[i].correlation_id \in 1..Len(log) /\ log[in[i].correlation_id] = in[i]
    BY DEF TrackOk
  <2>3. ASSUME NEW i \in 1..Len(in), in[i].message = "Dispatch"
        PROVE  in[i].correlation_id \in 1..Len(Append(log, w)) /\ Append(log, w)[in[i].correlation_id] = in[i]
    BY <1>1, <1>2, <2>2, <2>3
  <2>4. ASSUME Decode(w).message = "Dispatch"
        PROVE  /\ Decode(w).correlation_id \in 1..Len(Append(log, w))
               /\ Append(log, w)[Decode(w).correlation_id] = Decode(w)
    BY <1>1, <1>2, <1>5, <2>4
  <2> QED BY <1>4, <2>1, <2>3, <2>4
<1>9. Ids(rq) \cup HeldIds(h) \cup rp \cup Ids(rs) \cup sn \cup ResponseIds(said) \subseteq Signed(log)
  BY DEF TrackOk
<1>10. Apart(RequestIds(Append(in, Decode(w))), Ids(rq), HeldIds(h), rp, Ids(rs), sn, ResponseIds(said))
  <2>1. Apart(RequestIds(in), Ids(rq), HeldIds(h), rp, Ids(rs), sn, ResponseIds(said))
    BY DEF TrackOk
  <2>2. Len(log) + 1 \notin Ids(rq) \cup HeldIds(h) \cup rp \cup Ids(rs) \cup sn \cup ResponseIds(said)
    BY <1>2, <1>3, <1>9
  <2> QED BY <1>7, <2>1, <2>2 DEF Apart
<1>11. Ids(rq) \cup HeldIds(h) \cup rp \cup Ids(rs) \cup sn \cup ResponseIds(said) \subseteq Signed(Append(log, w))
  BY <1>3, <1>9
<1> QED BY <1>7, <1>8, <1>10, <1>11 DEF TrackOk

\* The message at the head of the queue is taken.
LEMMA TrackTake ==
    ASSUME NEW log, NEW in \in Seq(FromServer), NEW rq, NEW h, NEW rp, NEW rs, NEW sn, NEW said,
           TrackOk(log, in, rq, h, rp, rs, sn, said), in # <<>>
    PROVE  /\ TrackOk(log, Tail(in), rq, h, rp, rs, sn, said)
           /\ Head(in).message = "Dispatch" =>
                /\ Head(in).correlation_id \notin RequestIds(Tail(in))
                /\ Head(in).correlation_id \notin Ids(rq) \cup HeldIds(h) \cup rp \cup Ids(rs) \cup sn \cup ResponseIds(said)
                /\ Head(in).signature = "valid" => Head(in).correlation_id \in Signed(log)
<1>1. /\ Head(in) = in[1] /\ Len(in) \in Nat \ {0} /\ Len(Tail(in)) = Len(in) - 1
      /\ \A i \in 1..Len(Tail(in)) : Tail(in)[i] = in[i + 1]
  BY SMTT(30), TailFacts
<1>2. 1 \in 1..Len(in) /\ \A i \in 1..Len(Tail(in)) : i + 1 \in 1..Len(in)
  BY SMTT(30), <1>1
<1>3. /\ RequestsOnce(Tail(in)) /\ RequestIds(Tail(in)) \subseteq RequestIds(in)
      /\ Head(in).message = "Dispatch" =>
           /\ Head(in).correlation_id \in RequestIds(in)
           /\ Head(in).correlation_id \notin RequestIds(Tail(in))
  BY RequestIdsTail DEF TrackOk
<1>4. \A i \in 1..Len(Tail(in)) : Tail(in)[i].message = "Dispatch" =>
         Tail(in)[i].correlation_id \in 1..Len(log) /\ log[Tail(in)[i].correlation_id] = Tail(in)[i]
  <2>1. \A i \in 1..Len(in) : in[i].message = "Dispatch" =>
           in[i].correlation_id \in 1..Len(log) /\ log[in[i].correlation_id] = in[i]
    BY DEF TrackOk
  <2>2. ASSUME NEW i \in 1..Len(Tail(in)), Tail(in)[i].message = "Dispatch"
        PROVE  Tail(in)[i].correlation_id \in 1..Len(log) /\ log[Tail(in)[i].correlation_id] = Tail(in)[i]
    <3>1. Tail(in)[i] = in[i + 1] /\ i + 1 \in 1..Len(in)
      BY <1>1, <1>2
    <3> QED BY <2>1, <2>2, <3>1
  <2> QED BY <2>2
<1>5. Apart(RequestIds(in), Ids(rq), HeldIds(h), rp, Ids(rs), sn, ResponseIds(said))
  BY DEF TrackOk
<1>6. Apart(RequestIds(Tail(in)), Ids(rq), HeldIds(h), rp, Ids(rs), sn, ResponseIds(said))
  BY <1>3, <1>5 DEF Apart
<1>7. ASSUME Head(in).message = "Dispatch"
      PROVE  /\ Head(in).correlation_id \notin Ids(rq) \cup HeldIds(h) \cup rp \cup Ids(rs) \cup sn \cup ResponseIds(said)
             /\ Head(in).signature = "valid" => Head(in).correlation_id \in Signed(log)
  <2>1. Head(in).correlation_id \in 1..Len(log) /\ log[Head(in).correlation_id] = Head(in)
    BY <1>1, <1>2, <1>7 DEF TrackOk
  <2>2. Head(in).correlation_id \notin Ids(rq) \cup HeldIds(h) \cup rp \cup Ids(rs) \cup sn \cup ResponseIds(said)
    BY <1>3, <1>5, <1>7 DEF Apart
  <2> QED BY <1>7, <2>1, <2>2 DEF Signed
<1> QED BY <1>3, <1>4, <1>6, <1>7 DEF TrackOk

\* A request that is nowhere else gets into a place.
IsNew(x, log, in, rq, h, rp, rs, sn, said) ==
    /\ TrackOk(log, in, rq, h, rp, rs, sn, said) /\ x \in Signed(log) /\ x \notin RequestIds(in)
    /\ x \notin Ids(rq) \cup HeldIds(h) \cup rp \cup Ids(rs) \cup sn \cup ResponseIds(said)

\* A set gets one more element that is in none of them.
LEMMA ApartMore ==
    ASSUME NEW a, NEW b, NEW c, NEW d, NEW e, NEW f, NEW g, NEW x, Apart(a, b, c, d, e, f, g),
           x \notin a, x \notin b, x \notin c, x \notin d, x \notin e, x \notin f, x \notin g, NEW s
    PROVE  /\ s \subseteq b \cup {x} => Apart(a, s, c, d, e, f, g)
           /\ s \subseteq c \cup {x} => Apart(a, b, s, d, e, f, g)
           /\ s \subseteq d \cup {x} => Apart(a, b, c, s, e, f, g)
           /\ s \subseteq e \cup {x} => Apart(a, b, c, d, s, f, g)
           /\ s \subseteq f \cup {x} => Apart(a, b, c, d, e, s, g)
           /\ s \subseteq g \cup {x} => Apart(a, b, c, d, e, f, s)
<1>1. s \subseteq b \cup {x} => Apart(a, s, c, d, e, f, g)
  BY SMTT(30) DEF Apart
<1>2. s \subseteq c \cup {x} => Apart(a, b, s, d, e, f, g)
  BY SMTT(30) DEF Apart
<1>3. s \subseteq e \cup {x} => Apart(a, b, c, d, s, f, g)
  BY SMTT(30) DEF Apart
<1>4. s \subseteq g \cup {x} => Apart(a, b, c, d, e, f, s)
  BY SMTT(30) DEF Apart
<1>5. s \subseteq d \cup {x} => Apart(a, b, c, s, e, f, g)
  BY SMTT(30) DEF Apart
<1>6. s \subseteq f \cup {x} => Apart(a, b, c, d, e, s, g)
  BY SMTT(30) DEF Apart
<1> QED BY <1>1, <1>2, <1>3, <1>4, <1>5, <1>6

LEMMA TrackRequest ==
    ASSUME NEW log, NEW in, NEW rq \in Seq(Requests), NEW h, NEW rp, NEW rs, NEW sn, NEW said,
           NEW r \in Requests, IsNew(r.id, log, in, rq, h, rp, rs, sn, said)
    PROVE  TrackOk(log, in, Append(rq, r), h, rp, rs, sn, said)
<1>1. IdsOnce(Append(rq, r)) /\ Ids(Append(rq, r)) \subseteq Ids(rq) \cup {r.id}
  BY IdsAppend DEF IsNew, TrackOk
<1>2. Apart(RequestIds(in), Ids(Append(rq, r)), HeldIds(h), rp, Ids(rs), sn, ResponseIds(said))
  <2>1. /\ Apart(RequestIds(in), Ids(rq), HeldIds(h), rp, Ids(rs), sn, ResponseIds(said))
        /\ r.id \notin RequestIds(in) /\ r.id \notin Ids(rq) /\ r.id \notin HeldIds(h) /\ r.id \notin rp
        /\ r.id \notin Ids(rs) /\ r.id \notin sn /\ r.id \notin ResponseIds(said)
    BY DEF IsNew, TrackOk
  <2> QED BY <1>1, <2>1, ApartMore
<1> QED BY <1>1, <1>2 DEF IsNew, TrackOk

LEMMA TrackHold ==
    ASSUME NEW log, NEW in, NEW rq, NEW h, NEW rp, NEW rs, NEW sn, NEW said,
           NEW r, IsNew(r.id, log, in, rq, h, rp, rs, sn, said)
    PROVE  TrackOk(log, in, rq, h \cup {r}, rp, rs, sn, said)
<1>1. HeldIds(h \cup {r}) = HeldIds(h) \cup {r.id} /\ \A s \in h : s.id \in HeldIds(h)
  BY DEF HeldIds
<1>2. Apart(RequestIds(in), Ids(rq), HeldIds(h \cup {r}), rp, Ids(rs), sn, ResponseIds(said))
  <2>1. /\ Apart(RequestIds(in), Ids(rq), HeldIds(h), rp, Ids(rs), sn, ResponseIds(said))
        /\ r.id \notin RequestIds(in) /\ r.id \notin Ids(rq) /\ r.id \notin HeldIds(h) /\ r.id \notin rp
        /\ r.id \notin Ids(rs) /\ r.id \notin sn /\ r.id \notin ResponseIds(said)
    BY DEF IsNew, TrackOk
  <2> QED BY <1>1, <2>1, ApartMore
<1>3. \A s, t \in h \cup {r} : s.id = t.id => s = t
  BY <1>1 DEF IsNew, TrackOk
<1> QED BY <1>1, <1>2, <1>3 DEF IsNew, TrackOk

LEMMA TrackReport ==
    ASSUME NEW log, NEW in, NEW rq, NEW h, NEW rp, NEW rs, NEW sn, NEW said,
           NEW x, IsNew(x, log, in, rq, h, rp, rs, sn, said)
    PROVE  TrackOk(log, in, rq, h, {x}, rs, sn, said) /\ TrackOk(log, in, rq, h, rp, rs, {x}, said)
<1>1. /\ Apart(RequestIds(in), Ids(rq), HeldIds(h), {x}, Ids(rs), sn, ResponseIds(said))
      /\ Apart(RequestIds(in), Ids(rq), HeldIds(h), rp, Ids(rs), {x}, ResponseIds(said))
  <2>1. /\ Apart(RequestIds(in), Ids(rq), HeldIds(h), rp, Ids(rs), sn, ResponseIds(said))
        /\ x \notin RequestIds(in) /\ x \notin Ids(rq) /\ x \notin HeldIds(h) /\ x \notin rp
        /\ x \notin Ids(rs) /\ x \notin sn /\ x \notin ResponseIds(said)
    BY DEF IsNew, TrackOk
  <2>2. {x} \subseteq rp \cup {x} /\ {x} \subseteq sn \cup {x}
    OBVIOUS
  <2> QED BY <2>1, <2>2, ApartMore
<1> QED BY <1>1 DEF IsNew, TrackOk

LEMMA TrackResult ==
    ASSUME NEW log, NEW in, NEW rq, NEW h, NEW rp, NEW rs \in Seq(Answers), NEW sn, NEW said,
           NEW r \in Answers, IsNew(r.id, log, in, rq, h, rp, rs, sn, said)
    PROVE  TrackOk(log, in, rq, h, rp, Append(rs, r), sn, said)
<1>1. IdsOnce(Append(rs, r)) /\ Ids(Append(rs, r)) \subseteq Ids(rs) \cup {r.id}
  BY IdsAppend DEF IsNew, TrackOk
<1>2. Apart(RequestIds(in), Ids(rq), HeldIds(h), rp, Ids(Append(rs, r)), sn, ResponseIds(said))
  <2>1. /\ Apart(RequestIds(in), Ids(rq), HeldIds(h), rp, Ids(rs), sn, ResponseIds(said))
        /\ r.id \notin RequestIds(in) /\ r.id \notin Ids(rq) /\ r.id \notin HeldIds(h) /\ r.id \notin rp
        /\ r.id \notin Ids(rs) /\ r.id \notin sn /\ r.id \notin ResponseIds(said)
    BY DEF IsNew, TrackOk
  <2> QED BY <1>1, <2>1, ApartMore
<1> QED BY <1>1, <1>2 DEF IsNew, TrackOk

LEMMA TrackSay ==
    ASSUME NEW log, NEW in, NEW rq, NEW h, NEW rp, NEW rs, NEW sn, NEW S, NEW said \in Seq(S), NEW m \in S,
           TrackOk(log, in, rq, h, rp, rs, sn, said),
           m.kind = "Dispatch" => IsNew(m.id, log, in, rq, h, rp, rs, sn, said)
    PROVE  TrackOk(log, in, rq, h, rp, rs, sn, Append(said, m))
<1>1. /\ ResponsesOnce(Append(said, m))
      /\ ResponseIds(Append(said, m)) \subseteq
            ResponseIds(said) \cup (IF m.kind = "Dispatch" THEN {m.id} ELSE {})
  BY ResponseIdsAppend DEF IsNew, TrackOk
<1>2. Apart(RequestIds(in), Ids(rq), HeldIds(h), rp, Ids(rs), sn, ResponseIds(Append(said, m)))
  <2>1. CASE m.kind = "Dispatch"
    <3>1. /\ Apart(RequestIds(in), Ids(rq), HeldIds(h), rp, Ids(rs), sn, ResponseIds(said))
          /\ m.id \notin RequestIds(in) /\ m.id \notin Ids(rq) /\ m.id \notin HeldIds(h) /\ m.id \notin rp
          /\ m.id \notin Ids(rs) /\ m.id \notin sn /\ m.id \notin ResponseIds(said)
      BY <2>1 DEF IsNew, TrackOk
    <3>2. ResponseIds(Append(said, m)) \subseteq ResponseIds(said) \cup {m.id}
      BY <1>1, <2>1
    <3> QED BY <3>1, <3>2, ApartMore
  <2>2. CASE m.kind # "Dispatch"
    <3>1. ResponseIds(Append(said, m)) \subseteq ResponseIds(said)
      BY <1>1, <2>2
    <3> QED BY <3>1 DEF TrackOk, Apart
  <2> QED BY <2>1, <2>2
<1>3. ResponseIds(Append(said, m)) \subseteq Signed(log)
  BY <1>1 DEF IsNew, TrackOk
<1> QED BY <1>1, <1>2, <1>3 DEF TrackOk

\* A request leaves the place where it was.
LEMMA TrackTaken ==
    ASSUME NEW log, NEW in \in Seq(FromServer), NEW rq, NEW h, NEW rp, NEW rs, NEW sn, NEW said,
           TrackOk(log, in, rq, h, rp, rs, sn, said), in # <<>>,
           Head(in).message = "Dispatch", Head(in).signature = "valid"
    PROVE  IsNew(Head(in).correlation_id, log, Tail(in), rq, h, rp, rs, sn, said)
  BY TrackTake DEF IsNew

LEMMA TrackGet ==
    ASSUME NEW log, NEW in, NEW rq \in Seq(Requests), NEW h, NEW rp, NEW rs, NEW sn, NEW said,
           TrackOk(log, in, rq, h, rp, rs, sn, said), rq # <<>>
    PROVE  IsNew(Head(rq).id, log, in, Tail(rq), h, rp, rs, sn, said)
<1>1. /\ IdsOnce(Tail(rq)) /\ Ids(Tail(rq)) \subseteq Ids(rq)
      /\ Head(rq).id \in Ids(rq) /\ Head(rq).id \notin Ids(Tail(rq))
  BY IdsTail DEF TrackOk
<1>2. /\ Apart(RequestIds(in), Ids(Tail(rq)), HeldIds(h), rp, Ids(rs), sn, ResponseIds(said))
      /\ Head(rq).id \notin RequestIds(in) \cup HeldIds(h) \cup rp \cup Ids(rs) \cup sn \cup ResponseIds(said)
  BY <1>1 DEF TrackOk, Apart
<1> QED BY <1>1, <1>2 DEF IsNew, TrackOk

LEMMA TrackNext ==
    ASSUME NEW log, NEW in, NEW rq, NEW h, NEW rp, NEW rs \in Seq(Answers), NEW sn, NEW said,
           TrackOk(log, in, rq, h, rp, rs, sn, said), rs # <<>>
    PROVE  IsNew(Head(rs).id, log, in, rq, h, rp, Tail(rs), sn, said)
<1>1. /\ IdsOnce(Tail(rs)) /\ Ids(Tail(rs)) \subseteq Ids(rs)
      /\ Head(rs).id \in Ids(rs) /\ Head(rs).id \notin Ids(Tail(rs))
  BY IdsTail DEF TrackOk
<1>2. /\ Apart(RequestIds(in), Ids(rq), HeldIds(h), rp, Ids(Tail(rs)), sn, ResponseIds(said))
      /\ Head(rs).id \notin RequestIds(in) \cup Ids(rq) \cup HeldIds(h) \cup rp \cup sn \cup ResponseIds(said)
  BY <1>1 DEF TrackOk, Apart
<1> QED BY <1>1, <1>2 DEF IsNew, TrackOk

LEMMA TrackLetGo ==
    ASSUME NEW log, NEW in, NEW rq, NEW h, NEW rp, NEW rs, NEW sn, NEW said,
           TrackOk(log, in, rq, h, rp, rs, sn, said), NEW r \in h
    PROVE  IsNew(r.id, log, in, rq, h \ {r}, rp, rs, sn, said)
<1>1. r.id \in HeldIds(h) /\ HeldIds(h \ {r}) \subseteq HeldIds(h)
  BY DEF HeldIds
<1>2. r.id \notin HeldIds(h \ {r})
  BY DEF HeldIds, TrackOk
<1>3. Apart(RequestIds(in), Ids(rq), HeldIds(h), rp, Ids(rs), sn, ResponseIds(said))
  BY DEF TrackOk
<1>4. /\ Apart(RequestIds(in), Ids(rq), HeldIds(h \ {r}), rp, Ids(rs), sn, ResponseIds(said))
      /\ r.id \notin RequestIds(in) \cup Ids(rq) \cup rp \cup Ids(rs) \cup sn \cup ResponseIds(said)
  BY <1>1, <1>3 DEF Apart
<1>5. TrackOk(log, in, rq, h \ {r}, rp, rs, sn, said) /\ r.id \in Signed(log)
  BY <1>1, <1>4 DEF TrackOk
<1> QED BY <1>2, <1>4, <1>5 DEF IsNew

LEMMA TrackDrop ==
    ASSUME NEW log, NEW in, NEW rq, NEW h, NEW rp, NEW rs, NEW sn, NEW said,
           TrackOk(log, in, rq, h, rp, rs, sn, said)
    PROVE  /\ \A x \in rp : IsNew(x, log, in, rq, h, {}, rs, sn, said)
           /\ \A x \in sn : IsNew(x, log, in, rq, h, rp, rs, {}, said)
           /\ TrackOk(log, in, rq, h, {}, rs, sn, said) /\ TrackOk(log, in, rq, h, rp, rs, {}, said)
<1>1. /\ Apart(RequestIds(in), Ids(rq), HeldIds(h), {}, Ids(rs), sn, ResponseIds(said))
      /\ Apart(RequestIds(in), Ids(rq), HeldIds(h), rp, Ids(rs), {}, ResponseIds(said))
      /\ \A x \in rp : x \notin RequestIds(in) \cup Ids(rq) \cup HeldIds(h) \cup Ids(rs) \cup sn \cup ResponseIds(said)
      /\ \A x \in sn : x \notin RequestIds(in) \cup Ids(rq) \cup HeldIds(h) \cup rp \cup Ids(rs) \cup ResponseIds(said)
  BY DEF TrackOk, Apart
<1>2. TrackOk(log, in, rq, h, {}, rs, sn, said) /\ TrackOk(log, in, rq, h, rp, rs, {}, said)
  BY <1>1 DEF TrackOk
<1>3. rp \subseteq Signed(log) /\ sn \subseteq Signed(log)
  BY DEF TrackOk
<1> QED BY <1>1, <1>2, <1>3 DEF IsNew

\* The actor ends, with what is in its queues.
LEMMA TrackStopped ==
    ASSUME NEW log, NEW in, NEW rq, NEW h, NEW rp, NEW rs, NEW sn, NEW said,
           TrackOk(log, in, rq, h, rp, rs, sn, said)
    PROVE  TrackOk(log, <<>>, rq, h, {}, <<>>, sn, said)
<1>1. \A i \in 1..Len(<<>>) : FALSE
  BY SMTT(30), EmptyFacts
<1>2. RequestIds(<<>>) = {} /\ Ids(<<>>) = {} /\ RequestsOnce(<<>>) /\ IdsOnce(<<>>)
  BY <1>1 DEF RequestIds, Ids, RequestsOnce, IdsOnce
<1>3. Apart(RequestIds(<<>>), Ids(rq), HeldIds(h), {}, Ids(<<>>), sn, ResponseIds(said))
  BY <1>2 DEF TrackOk, Apart
<1> QED BY <1>1, <1>2, <1>3 DEF TrackOk

\* A connection that has just been opened.
LEMMA TrackOpened ==
    TrackOk(<<>>, <<>>, <<>>, {}, {}, <<>>, {}, <<>>)
<1>1. \A i \in 1..Len(<<>>) : FALSE
  BY SMTT(30), EmptyFacts
<1>2. /\ RequestIds(<<>>) = {} /\ Ids(<<>>) = {} /\ ResponseIds(<<>>) = {} /\ HeldIds({}) = {}
      /\ RequestsOnce(<<>>) /\ IdsOnce(<<>>) /\ ResponsesOnce(<<>>)
  BY <1>1 DEF RequestIds, Ids, ResponseIds, HeldIds, RequestsOnce, IdsOnce, ResponsesOnce
<1>3. Apart({}, {}, {}, {}, {}, {}, {})
  BY SMTT(30) DEF Apart
<1> QED BY <1>1, <1>2, <1>3 DEF TrackOk

-------------------------------------------------------------------------------
\* What a message becomes on the wire.
LEMMA EncodeIds ==
    ASSUME NEW m \in FromClient
    PROVE  /\ Encode(m).id = m.id /\ Encode(m).result = m.result
           /\ Encode(m).kind = "Dispatch" <=> m.kind \in {"DispatchResponse", "Dispatch"}
  BY SMTT(30) DEF Encode, FromClient

LEMMA ResponseFields ==
    ASSUME NEW a \in Answers
    PROVE  /\ DispatchResponse(a.id, a.result).kind = "DispatchResponse"
           /\ DispatchResponse(a.id, a.result).id = a.id
           /\ DispatchResponse(a.id, a.result).result = WireError(a.result)
  BY SMTT(30) DEF DispatchResponse, ToServer

LEMMA OtherFields ==
    /\ NoMsg.kind = "none" /\ Pong.kind = "Pong"
    /\ \A n, t : ClientHello(n, t).kind = "ClientHello"
    /\ \A p, r, m : ProtocolError(p, r, m).kind = "ProtocolError"
  BY SMTT(30) DEF NoMsg, Pong, ClientHello, ProtocolError, ToServer

-------------------------------------------------------------------------------
\* What is known of a connection's queues.
Queues(c) ==
    /\ sent[c] \in Seq(FromServer) /\ inQ[c] \in Seq(FromServer)
    /\ reqQ[c] \in Seq(Requests) /\ held[c] \subseteq Requests
    /\ report[c] \in Answers /\ respQ[c] \in Seq(Answers)
    /\ sending[c] \in FromClient /\ outQ[c] \in Seq(FromClient) /\ got[c] \in Seq(FromClient)

LEMMA SeqSubset ==
    ASSUME NEW S, NEW T, S \subseteq T, NEW q \in Seq(S)
    PROVE  q \in Seq(T)
  BY SMTT(30)

LEMMA QueuesType ==
    ASSUME IInv, NEW c \in Conns
    PROVE  /\ Queues(c) /\ \A x \in FromClient : Encode(x) \in FromClient
           /\ Said(c) = SaidOf(got[c], outQ[c]) /\ Said(c) \in Seq(FromClient)
<1>1. HelloOk(drawn[c], sending[c], outQ[c], got[c])
  BY DEF IInv, ConnInv
<1>2. SaidWith(drawn[c]) \subseteq FromClient
  BY DEF SaidWith
<1>3. sending[c] \in FromClient /\ outQ[c] \in Seq(FromClient) /\ got[c] \in Seq(FromClient)
  BY <1>1, <1>2, SeqSubset DEF HelloOk
<1>4. Queues(c)
  BY <1>3 DEF IInv, ConnInv, Queues, ServerOk, InOk, PhaseOk
<1>5. \A x \in FromClient : Encode(x) \in FromClient
  BY EncodeType
<1>6. Said(c) = SaidOf(got[c], outQ[c])
  BY DEF Said, SaidOf
<1>7. SaidOf(got[c], outQ[c]) \in Seq(FromClient)
  BY <1>3, <1>5, SaidAppend
<1> QED BY <1>4, <1>5, <1>6, <1>7

\* A step of one connection does not touch the others.
Kept(d) ==
    /\ conn'[d] = conn[d] /\ sent'[d] = sent[d] /\ got'[d] = got[d] /\ held'[d] = held[d]
    /\ actor'[d] = actor[d] /\ sending'[d] = sending[d] /\ report'[d] = report[d]
    /\ inQ'[d] = inQ[d] /\ outQ'[d] = outQ[d] /\ reqQ'[d] = reqQ[d] /\ respQ'[d] = respQ[d]

LEMMA KeptTrack ==
    ASSUME NEW d, Kept(d), TrackInv(d)
    PROVE  TrackInv(d)'
<1>1. Said(d)' = Said(d)
  BY DEF Kept, Said
<1> QED BY <1>1 DEF Kept, TrackInv

LEMMA StepTracks ==
    ASSUME TracksInv, NEW c \in Conns, \A d \in Conns \ {c} : Kept(d), TrackInv(c)'
    PROVE  TracksInv'
<1>1. ASSUME NEW d \in Conns \ {c} PROVE TrackInv(d)'
  BY KeptTrack DEF TracksInv
<1> QED BY <1>1 DEF TracksInv

\* What holds of all that is in a queue, when something is appended or taken.
LEMMA AllAppend ==
    ASSUME NEW S, NEW q \in Seq(S), NEW e \in S, NEW T, \A i \in 1..Len(q) : q[i] \in T, e \in T
    PROVE  \A i \in 1..Len(Append(q, e)) : Append(q, e)[i] \in T
<1>1. /\ Len(q) \in Nat /\ Len(Append(q, e)) = Len(q) + 1
      /\ \A i \in 1..Len(q) : Append(q, e)[i] = q[i]
      /\ Append(q, e)[Len(q) + 1] = e
  BY SMTT(30), AppendFacts
<1>2. \A i \in 1..(Len(q) + 1) : i \in 1..Len(q) \/ i = Len(q) + 1
  BY SMTT(30), <1>1
<1> QED BY <1>1, <1>2

LEMMA AllTail ==
    ASSUME NEW S, NEW q \in Seq(S), NEW T, \A i \in 1..Len(q) : q[i] \in T, q # <<>>
    PROVE  Head(q) \in T /\ \A i \in 1..Len(Tail(q)) : Tail(q)[i] \in T
<1>1. /\ Head(q) = q[1] /\ Len(q) \in Nat \ {0} /\ Len(Tail(q)) = Len(q) - 1
      /\ \A i \in 1..Len(Tail(q)) : Tail(q)[i] = q[i + 1]
  BY SMTT(30), TailFacts
<1>2. 1 \in 1..Len(q) /\ \A i \in 1..Len(Tail(q)) : i + 1 \in 1..Len(q)
  BY SMTT(30), <1>1
<1> QED BY <1>1, <1>2

LEMMA FineAppend ==
    /\ \A q \in Seq(Answers), a \in Answers :
          FineResults(q) /\ a.result \in Outcomes => FineResults(Append(q, a))
    /\ \A q \in Seq(FromClient), m \in FromClient :
          /\ FineOut(q) /\ Told(m) /\ m.kind # "Dispatch" => FineOut(Append(q, m))
          /\ FineGot(q) /\ Told(m) => FineGot(Append(q, m))
<1>1. ASSUME NEW q \in Seq(Answers), NEW a \in Answers, FineResults(q), a.result \in Outcomes
      PROVE  FineResults(Append(q, a))
  <2> DEFINE T == {x \in Answers : x.result \in Outcomes}
  <2>1. \A i \in 1..Len(q) : q[i] \in T
    BY <1>1, SeqFacts DEF FineResults
  <2>2. \A i \in 1..Len(Append(q, a)) : Append(q, a)[i] \in T
    BY <1>1, <2>1, AllAppend
  <2> QED BY <2>2 DEF FineResults
<1>2. ASSUME NEW q \in Seq(FromClient), NEW m \in FromClient, FineOut(q), Told(m), m.kind # "Dispatch"
      PROVE  FineOut(Append(q, m))
  <2> DEFINE T == {x \in FromClient : Told(x) /\ x.kind # "Dispatch"}
  <2>1. \A i \in 1..Len(q) : q[i] \in T
    BY <1>2, SeqFacts DEF FineOut
  <2>2. \A i \in 1..Len(Append(q, m)) : Append(q, m)[i] \in T
    BY <1>2, <2>1, AllAppend
  <2> QED BY <2>2 DEF FineOut
<1>3. ASSUME NEW q \in Seq(FromClient), NEW m \in FromClient, FineGot(q), Told(m)
      PROVE  FineGot(Append(q, m))
  <2> DEFINE T == {x \in FromClient : Told(x)}
  <2>1. \A i \in 1..Len(q) : q[i] \in T
    BY <1>3, SeqFacts DEF FineGot
  <2>2. \A i \in 1..Len(Append(q, m)) : Append(q, m)[i] \in T
    BY <1>3, <2>1, AllAppend
  <2> QED BY <2>2 DEF FineGot
<1> QED BY <1>1, <1>2, <1>3

LEMMA FineTail ==
    /\ \A q \in Seq(Answers) :
          q # <<>> /\ FineResults(q) => Head(q).result \in Outcomes /\ FineResults(Tail(q))
    /\ \A q \in Seq(FromClient) :
          q # <<>> /\ FineOut(q) => Told(Head(q)) /\ FineOut(Tail(q))
<1>1. ASSUME NEW q \in Seq(Answers), q # <<>>, FineResults(q)
      PROVE  Head(q).result \in Outcomes /\ FineResults(Tail(q))
  <2> DEFINE T == {x \in Answers : x.result \in Outcomes}
  <2>1. \A i \in 1..Len(q) : q[i] \in T
    BY <1>1, SeqFacts DEF FineResults
  <2>2. Head(q) \in T /\ \A i \in 1..Len(Tail(q)) : Tail(q)[i] \in T
    BY <1>1, <2>1, AllTail
  <2> QED BY <2>2 DEF FineResults
<1>2. ASSUME NEW q \in Seq(FromClient), q # <<>>, FineOut(q)
      PROVE  Told(Head(q)) /\ FineOut(Tail(q))
  <2> DEFINE T == {x \in FromClient : Told(x) /\ x.kind # "Dispatch"}
  <2>1. \A i \in 1..Len(q) : q[i] \in T
    BY <1>2, SeqFacts DEF FineOut
  <2>2. Head(q) \in T /\ \A i \in 1..Len(Tail(q)) : Tail(q)[i] \in T
    BY <1>2, <2>1, AllTail
  <2> QED BY <2>2 DEF FineOut
<1> QED BY <1>1, <1>2

LEMMA EmptyFine == FineResults(<<>>) /\ FineOut(<<>>) /\ FineGot(<<>>)
<1>1. \A i \in 1..Len(<<>>) : FALSE
  BY SMTT(30), EmptyFacts
<1> QED BY <1>1 DEF FineResults, FineOut, FineGot

-------------------------------------------------------------------------------
LEMMA InitTracks == Init => TracksInv
<1> SUFFICES ASSUME Init, NEW c \in Conns PROVE TrackInv(c)
  BY DEF TracksInv
<1>1. /\ conn[c] = "none" /\ sent[c] = <<>> /\ got[c] = <<>> /\ held[c] = {} /\ inQ[c] = <<>>
      /\ outQ[c] = <<>> /\ reqQ[c] = <<>> /\ respQ[c] = <<>> /\ actor[c] = "none" /\ sending[c] = NoMsg
  BY DEF Init, Per
<1>2. OutcomesOk(actor[c], report[c], respQ[c], sending[c], outQ[c], got[c])
  BY <1>1, EmptyFine, OtherFields DEF OutcomesOk, Told
<1> QED BY <1>1, <1>2 DEF TrackInv

LEMMA NewConnectionTracks ==
    ASSUME IInv, TracksInv, NEW c \in Conns, NewConnection(c)
    PROVE  TracksInv'
<1>1. /\ UNCHANGED <<sent, got, held, queues, actorVars>>
      /\ \/ conn[c] = "none" /\ conn' = [conn EXCEPT ![c] = "init"]
         \/ conn[c] = "init" /\ conn' = [conn EXCEPT ![c] = "open"]
  BY DEF NewConnection, Publish, Set
<1>2. /\ \A d \in Conns \ {c} : conn'[d] = conn[d]
      /\ conn[c] \in {"none", "init"} /\ conn'[c] \in {"init", "open"}
  BY <1>1 DEF IInv, Domains
<1>3. UNCHANGED <<sent, got, held, inQ, outQ, reqQ, respQ, actor, sending, report>>
  BY <1>1 DEF queues, actorVars
<1>4. /\ sent[c] = <<>> /\ inQ[c] = <<>> /\ reqQ[c] = <<>> /\ held[c] = {} /\ respQ[c] = <<>>
      /\ sending[c] = NoMsg /\ got[c] = <<>> /\ outQ[c] = <<>>
      /\ OutcomesOk(actor[c], report[c], respQ[c], sending[c], outQ[c], got[c])
  BY <1>2 DEF TracksInv, TrackInv
<1>5. actor[c] = "none"
  BY <1>2 DEF IInv, ConnInv, StartOk
<1>6. Said(c)' = <<>>
  <2>1. <<>> \o [k \in DOMAIN <<>> |-> Encode(<<>>[k])] = <<>>
    BY SMTT(30)
  <2> QED BY <1>3, <1>4, <2>1 DEF Said
<1>7. ReportIds(actor[c], report[c]) = {} /\ SendingIds(sending[c]) = {}
  BY <1>4, <1>5, OtherFields DEF ReportIds, SendingIds
<1>8. TrackOk(sent[c], inQ[c], reqQ[c], held[c], ReportIds(actor[c], report[c]), respQ[c],
              SendingIds(sending[c]), Said(c))'
  BY <1>3, <1>4, <1>6, <1>7, TrackOpened
<1>9. TrackInv(c)'
  BY <1>2, <1>3, <1>4, <1>8 DEF TrackInv
<1>10. \A d \in Conns \ {c} : Kept(d)
  BY <1>2, <1>3 DEF Kept
<1> QED BY <1>9, <1>10, StepTracks

LEMMA DropConnTracks ==
    ASSUME IInv, TracksInv, NEW c \in Conns, Close(c) \/ Disconnect(c)
    PROVE  TracksInv'
<1>1. PICK how \in {"closed", "disconnected"} :
         /\ conn' = [conn EXCEPT ![c] = how]
         /\ sent' = [sent EXCEPT ![c] = <<>>] /\ got' = [got EXCEPT ![c] = <<>>]
         /\ outQ' = [outQ EXCEPT ![c] = <<>>] /\ reqQ' = [reqQ EXCEPT ![c] = <<>>]
         /\ UNCHANGED <<held, inQ, respQ, actor, sending, report>>
  BY DEF Close, Disconnect, DropConn, Set, actorVars
<1>2. /\ conn'[c] \in {"closed", "disconnected"} /\ got'[c] = <<>> /\ outQ'[c] = <<>>
      /\ \A d \in Conns \ {c} : Kept(d)
  BY <1>1 DEF IInv, Domains, Kept
<1>3. OutcomesOk(actor[c], report[c], respQ[c], sending[c], outQ[c], got[c])'
  BY <1>1, <1>2, EmptyFine DEF TracksInv, TrackInv, OutcomesOk
<1>4. TrackInv(c)'
  BY <1>2, <1>3 DEF TrackInv
<1> QED BY <1>2, <1>4, StepTracks

LEMMA ServerRecvTracks ==
    ASSUME IInv, TracksInv, NEW c \in Conns, ServerRecv(c)
    PROVE  TracksInv'
<1>1. /\ conn[c] = "open" /\ outQ[c] # <<>>
      /\ got' = [got EXCEPT ![c] = Append(got[c], Encode(Head(outQ[c])))]
      /\ outQ' = [outQ EXCEPT ![c] = Tail(outQ[c])]
      /\ UNCHANGED <<conn, sent, held, inQ, reqQ, respQ, actor, sending, report>>
  BY DEF ServerRecv, Set, actorVars
<1>2. /\ got'[c] = Append(got[c], Encode(Head(outQ[c]))) /\ outQ'[c] = Tail(outQ[c])
      /\ \A d \in Conns \ {c} : Kept(d)
  BY <1>1 DEF IInv, Domains, Kept
<1>3. /\ Queues(c) /\ \A x \in FromClient : Encode(x) \in FromClient
      /\ Said(c) = SaidOf(got[c], outQ[c])
  BY QueuesType
<1>4. Said(c)' = Said(c)
  <2>1. SaidOf(Append(got[c], Encode(Head(outQ[c]))), Tail(outQ[c])) = SaidOf(got[c], outQ[c])
    BY <1>1, <1>3, SaidReceived DEF Queues
  <2> QED BY <1>2, <1>3, <2>1 DEF Said, SaidOf
<1>5. OutcomesOk(actor[c], report[c], respQ[c], sending[c], outQ[c], got[c])'
  <2>1. FineOut(outQ[c]) /\ FineGot(got[c])
    BY DEF TracksInv, TrackInv, OutcomesOk
  <2>2. Told(Head(outQ[c])) /\ FineOut(Tail(outQ[c])) /\ Head(outQ[c]) \in FromClient
    <3>1. outQ[c] \in Seq(FromClient)
      BY <1>3 DEF Queues
    <3>2. Head(outQ[c]) \in FromClient
      BY <1>1, <3>1, TailFacts
    <3>3. Told(Head(outQ[c])) /\ FineOut(Tail(outQ[c]))
      BY <1>1, <2>1, <3>1, FineTail
    <3> QED BY <3>2, <3>3
  <2>3. Told(Encode(Head(outQ[c])))
    <3>1. PICK m \in FromClient : m = Head(outQ[c])
      BY <1>3, <2>2
    <3>2. Told(m) /\ Encode(m).result = m.result
          /\ (Encode(m).kind \in {"DispatchResponse", "Dispatch"} => m.kind \in {"DispatchResponse", "Dispatch"})
      BY SMTT(30), <2>2, <3>1 DEF Encode, FromClient
    <3> QED BY <3>1, <3>2 DEF Told
  <2>4. FineGot(Append(got[c], Encode(Head(outQ[c]))))
    BY <1>3, <2>1, <2>2, <2>3, FineAppend DEF Queues
  <2> QED BY <1>1, <1>2, <2>2, <2>4 DEF TracksInv, TrackInv, OutcomesOk
<1>6. TrackInv(c)'
  BY <1>1, <1>4, <1>5 DEF TracksInv, TrackInv
<1> QED BY <1>2, <1>6, StepTracks

\* A request has the number of the message as its id.
LEMMA SendTracks ==
    ASSUME IInv, TracksInv, NEW c \in Conns, NEW w \in FromServer, ServerSend(c, w),
           w.message = "Dispatch" => w.correlation_id = Len(sent[c]) + 1
    PROVE  TracksInv'
<1>1. /\ conn[c] = "open" /\ sent' = [sent EXCEPT ![c] = Append(sent[c], w)]
      /\ inQ' = [inQ EXCEPT ![c] = Append(inQ[c], Decode(w))]
      /\ UNCHANGED <<conn, got, held, outQ, reqQ, respQ, actor, sending, report>>
  BY DEF ServerSend, Set, actorVars
<1>2. /\ sent'[c] = Append(sent[c], w) /\ inQ'[c] = Append(inQ[c], Decode(w))
      /\ \A d \in Conns \ {c} : Kept(d)
  BY <1>1 DEF IInv, Domains, Kept
<1>3. sent[c] \in Seq(FromServer) /\ inQ[c] \in Seq(FromServer)
  BY QueuesType DEF Queues
<1>4. TrackOk(sent[c], inQ[c], reqQ[c], held[c], ReportIds(actor[c], report[c]), respQ[c],
              SendingIds(sending[c]), Said(c))
  BY <1>1 DEF TracksInv, TrackInv
<1>5. TrackOk(Append(sent[c], w), Append(inQ[c], Decode(w)), reqQ[c], held[c],
              ReportIds(actor[c], report[c]), respQ[c], SendingIds(sending[c]), Said(c))
  BY <1>3, <1>4, TrackSend
<1>6. Said(c)' = Said(c)
  BY <1>1 DEF Said
<1>7. TrackOk(sent[c], inQ[c], reqQ[c], held[c], ReportIds(actor[c], report[c]), respQ[c],
              SendingIds(sending[c]), Said(c))'
  BY <1>1, <1>2, <1>5, <1>6
<1>8. TrackInv(c)'
  BY <1>1, <1>7 DEF TracksInv, TrackInv
<1> QED BY <1>2, <1>8, StepTracks

LEMMA RequestId ==
    ASSUME NEW id \in Nat, NEW p \in ConnIds, NEW s \in Signatures
    PROVE  WireDispatch(id, p, s) \in FromServer /\ WireDispatch(id, p, s).correlation_id = id
<1>1. WireDispatch(id, p, s).correlation_id = id
  BY SMTT(30) DEF WireDispatch, Wire
<1> QED BY <1>1, WireDispatchType

LEMMA SendsTracks ==
    ASSUME IInv, TracksInv, NEW c \in Conns,
           PerformHandshake(c) \/ DispatchMagicTunnel(c) \/ SendOther(c)
    PROVE  TracksInv'
<1>1. Len(sent[c]) + 1 \in Nat /\ serverId[c] \in ConnIds /\ captured \subseteq FromServer
  BY ServerFacts
<1>2. CASE PerformHandshake(c)
  <2>1. PICK s \in ServerNonces : ServerSend(c, AckOf(Head(got[c]).nonce, s))
    BY <1>2 DEF PerformHandshake, AckOf
  <2>2. Head(got[c]) \in SaidWith(drawn[c]) /\ Head(got[c]).kind = "ClientHello"
    BY <1>2, TailFacts DEF PerformHandshake, IInv, ConnInv, HelloOk
  <2>3. Head(got[c]).nonce \in Nonces
    BY <2>2 DEF SaidWith
  <2>4. /\ AckOf(Head(got[c]).nonce, s) \in FromServer
        /\ AckOf(Head(got[c]).nonce, s).message = "ClientHelloAck"
    BY <2>3, AckOfType
  <2>5. PICK w \in FromServer : w = AckOf(Head(got[c]).nonce, s)
    BY <2>4
  <2>6. w.message # "Dispatch" /\ ServerSend(c, w)
    BY <2>1, <2>4, <2>5 DEF ServerSend
  <2> QED BY <2>6, SendTracks
<1>3. CASE DispatchMagicTunnel(c)
  <2>1. ServerSend(c, WireDispatch(Len(sent[c]) + 1, serverId[c], "valid"))
    BY <1>3 DEF DispatchMagicTunnel
  <2>2. /\ WireDispatch(Len(sent[c]) + 1, serverId[c], "valid") \in FromServer
        /\ WireDispatch(Len(sent[c]) + 1, serverId[c], "valid").correlation_id = Len(sent[c]) + 1
    BY <1>1, RequestId DEF Signatures
  <2>3. PICK w \in FromServer : w = WireDispatch(Len(sent[c]) + 1, serverId[c], "valid")
    BY <2>2
  <2>4. w.correlation_id = Len(sent[c]) + 1 /\ ServerSend(c, w)
    BY <2>1, <2>2, <2>3 DEF ServerSend
  <2> QED BY <2>4, SendTracks
<1>4. CASE SendOther(c)
  <2>1. PICK w \in Others(c) : ServerSend(c, w)
    BY <1>4 DEF SendOther
  <2>2. w \in FromServer /\ (w.message = "Dispatch" => w.correlation_id = Len(sent[c]) + 1)
    <3>1. CASE \E m \in Plain : w = Wire(m)
      <4>1. \A m \in Plain : m \in Messages /\ m # "Dispatch"
        BY SessionAssumption DEF Messages
      <4> QED BY <3>1, <4>1, WireType
    <3>2. CASE \E id \in {ChosenId, NoConnId} : w = WireAck(NoNonce, id)
      BY <3>2, OwnAckFacts
    <3>3. CASE w \in captured
      BY <3>3, CapturedFacts
    <3>4. CASE \E s \in Signatures : w = WireDispatch(Len(sent[c]) + 1, serverId[c], s)
      BY <1>1, <3>4, RequestId
    <3>5. Unsigned \subseteq Signatures /\ "valid" \in Signatures
      BY SessionAssumption DEF Signatures
    <3> QED BY <3>1, <3>2, <3>3, <3>4, <3>5 DEF Others
  <2> QED BY <2>1, <2>2, SendTracks
<1> QED BY <1>2, <1>3, <1>4

LEMMA GetDispatchTracks ==
    ASSUME IInv, TracksInv, NEW c \in Conns, GetDispatch(c)
    PROVE  TracksInv'
<1>1. /\ conn[c] = "open" /\ reqQ[c] # <<>> /\ reqQ' = [reqQ EXCEPT ![c] = Tail(reqQ[c])]
      /\ held' = [held EXCEPT ![c] = held[c] \cup {Head(reqQ[c])}]
      /\ UNCHANGED <<conn, sent, got, inQ, outQ, respQ, actor, sending, report>>
  BY DEF GetDispatch, Set, actorVars
<1>2. /\ reqQ'[c] = Tail(reqQ[c]) /\ held'[c] = held[c] \cup {Head(reqQ[c])}
      /\ \A d \in Conns \ {c} : Kept(d)
  BY <1>1 DEF IInv, Domains, Kept
<1>3. reqQ[c] \in Seq(Requests)
  BY QueuesType DEF Queues
<1>4. TrackOk(sent[c], inQ[c], reqQ[c], held[c], ReportIds(actor[c], report[c]), respQ[c],
              SendingIds(sending[c]), Said(c))
  BY <1>1 DEF TracksInv, TrackInv
<1>5. IsNew(Head(reqQ[c]).id, sent[c], inQ[c], Tail(reqQ[c]), held[c], ReportIds(actor[c], report[c]),
            respQ[c], SendingIds(sending[c]), Said(c))
  BY <1>1, <1>3, <1>4, TrackGet
<1>6. TrackOk(sent[c], inQ[c], Tail(reqQ[c]), held[c] \cup {Head(reqQ[c])}, ReportIds(actor[c], report[c]),
              respQ[c], SendingIds(sending[c]), Said(c))
  BY <1>5, TrackHold
<1>7. Said(c)' = Said(c)
  BY <1>1 DEF Said
<1>8. TrackOk(sent[c], inQ[c], reqQ[c], held[c], ReportIds(actor[c], report[c]), respQ[c],
              SendingIds(sending[c]), Said(c))'
  BY <1>1, <1>2, <1>6, <1>7
<1>9. TrackInv(c)'
  BY <1>1, <1>8 DEF TracksInv, TrackInv
<1> QED BY <1>2, <1>9, StepTracks

LEMMA RespondTracks ==
    ASSUME IInv, TracksInv, NEW c \in Conns, Respond(c)
    PROVE  TracksInv'
<1>1. PICK r \in held[c], x \in Results :
        /\ held' = [held EXCEPT ![c] = held[c] \ {r}]
        /\ respQ' = respQ \/ respQ' = [respQ EXCEPT ![c] = Append(respQ[c], [id |-> r.id, result |-> x])]
        /\ UNCHANGED <<conn, sent, got, inQ, outQ, reqQ, actor, sending, report>>
  BY DEF Respond, Set, actorVars
<1>2. Queues(c)
  BY QueuesType
<1>3. PICK a \in Answers : a = [id |-> r.id, result |-> x]
  BY <1>2 DEF Queues, Requests, Answers, Reported
<1>4. a.id = r.id /\ a.result \in Outcomes
  BY SMTT(30), <1>3 DEF Outcomes
<1>5. /\ held'[c] = held[c] \ {r}
      /\ respQ'[c] = respQ[c] \/ respQ'[c] = Append(respQ[c], a)
      /\ \A d \in Conns \ {c} : Kept(d)
  BY <1>1, <1>3 DEF IInv, Domains, Kept
<1>6. OutcomesOk(actor[c], report[c], respQ[c], sending[c], outQ[c], got[c])'
  <2>1. FineResults(respQ[c])
    BY DEF TracksInv, TrackInv, OutcomesOk
  <2>2. FineResults(Append(respQ[c], a))
    BY <1>2, <1>4, <2>1, FineAppend DEF Queues
  <2> QED BY <1>1, <1>5, <2>1, <2>2 DEF TracksInv, TrackInv, OutcomesOk
<1>7. Said(c)' = Said(c)
  BY <1>1 DEF Said
<1>8. ASSUME conn[c] = "open"
      PROVE  TrackOk(sent[c], inQ[c], reqQ[c], held[c], ReportIds(actor[c], report[c]), respQ[c],
                     SendingIds(sending[c]), Said(c))'
  <2>1. TrackOk(sent[c], inQ[c], reqQ[c], held[c], ReportIds(actor[c], report[c]), respQ[c],
                SendingIds(sending[c]), Said(c))
    BY <1>8 DEF TracksInv, TrackInv
  <2>2. IsNew(r.id, sent[c], inQ[c], reqQ[c], held[c] \ {r}, ReportIds(actor[c], report[c]), respQ[c],
              SendingIds(sending[c]), Said(c))
    BY <2>1, TrackLetGo
  <2>3. respQ[c] \in Seq(Answers)
    BY <1>2 DEF Queues
  <2>4. /\ TrackOk(sent[c], inQ[c], reqQ[c], held[c] \ {r}, ReportIds(actor[c], report[c]), respQ[c],
                   SendingIds(sending[c]), Said(c))
        /\ TrackOk(sent[c], inQ[c], reqQ[c], held[c] \ {r}, ReportIds(actor[c], report[c]), Append(respQ[c], a),
                   SendingIds(sending[c]), Said(c))
    BY <1>4, <2>2, <2>3, TrackResult DEF IsNew
  <2>5. CASE respQ'[c] = respQ[c]
    BY <1>1, <1>5, <1>7, <2>4, <2>5
  <2>6. CASE respQ'[c] = Append(respQ[c], a)
    BY <1>1, <1>5, <1>7, <2>4, <2>6
  <2> QED BY <1>5, <2>5, <2>6
<1>9. conn[c] \notin {"none", "init"}
  BY DEF TracksInv, TrackInv
<1>10. TrackInv(c)'
  BY <1>1, <1>6, <1>8, <1>9 DEF TracksInv, TrackInv
<1> QED BY <1>5, <1>10, StepTracks

\* What the actor sends gets into the queue, or waits, or is lost.
LEMMA ReplyTracks ==
    ASSUME IInv, TracksInv, NEW c \in Conns, NEW m \in FromClient, Reply(c, m),
           Told(m), m.kind # "Dispatch", UNCHANGED <<conn, got, sent>>
    PROVE  /\ conn[c] \notin {"none", "init"}
           /\ \A d \in Conns \ {c} : actor'[d] = actor[d] /\ sending'[d] = sending[d] /\ outQ'[d] = outQ[d]
           /\ actor'[c] \in {"loop", "retry"}
           /\ Told(sending'[c]) /\ sending'[c].kind # "Dispatch" /\ FineOut(outQ'[c])
           /\ conn[c] # "open" => outQ'[c] = outQ[c]
           /\ \/ Said(c)' = Append(Said(c), Encode(m)) /\ sending'[c] = sending[c]
              \/ Said(c)' = Said(c) /\ (conn[c] = "open" => sending'[c] = m)
<1>1. /\ Queues(c) /\ \A x \in FromClient : Encode(x) \in FromClient
      /\ Said(c) = SaidOf(got[c], outQ[c])
  BY QueuesType
<1>2. Told(sending[c]) /\ sending[c].kind # "Dispatch" /\ FineOut(outQ[c])
  BY DEF TracksInv, TrackInv, OutcomesOk
<1>3. conn[c] \notin {"none", "init"}
  BY DEF Reply, Gone
<1>4. Said(c)' = SaidOf(got[c], outQ'[c])
  BY DEF Said, SaidOf
<1>5. CASE conn[c] = "open" /\ outQ' = [outQ EXCEPT ![c] = Append(outQ[c], m)]
           /\ actor' = [actor EXCEPT ![c] = "loop"] /\ sending' = sending
  <2>1. outQ'[c] = Append(outQ[c], m) /\ actor'[c] = "loop"
        /\ \A d \in Conns \ {c} : actor'[d] = actor[d] /\ outQ'[d] = outQ[d]
    BY <1>5 DEF IInv, Domains
  <2>2. FineOut(Append(outQ[c], m))
    BY <1>1, <1>2, FineAppend DEF Queues
  <2>3. Said(c)' = Append(Said(c), Encode(m))
    <3>1. got[c] \in Seq(FromClient) /\ outQ[c] \in Seq(FromClient)
      BY <1>1 DEF Queues
    <3>2. SaidOf(got[c], Append(outQ[c], m)) = Append(SaidOf(got[c], outQ[c]), Encode(m))
      BY <1>1, <3>1, SaidMore
    <3> QED BY <1>1, <1>4, <2>1, <3>2
  <2> QED BY <1>2, <1>3, <1>5, <2>1, <2>2, <2>3
<1>6. CASE Gone(c) /\ actor' = [actor EXCEPT ![c] = "loop"] /\ UNCHANGED <<sending, outQ>>
  <2>1. actor'[c] = "loop" /\ \A d \in Conns \ {c} : actor'[d] = actor[d]
    BY <1>6 DEF IInv, Domains
  <2>2. Said(c)' = Said(c) /\ conn[c] # "open"
    BY <1>1, <1>4, <1>6 DEF Gone
  <2> QED BY <1>2, <1>3, <1>6, <2>1, <2>2
<1>7. CASE conn[c] = "open" /\ actor' = [actor EXCEPT ![c] = "retry"]
           /\ sending' = [sending EXCEPT ![c] = m] /\ outQ' = outQ
  <2>1. actor'[c] = "retry" /\ sending'[c] = m
        /\ \A d \in Conns \ {c} : actor'[d] = actor[d] /\ sending'[d] = sending[d]
    BY <1>7 DEF IInv, Domains
  <2>2. Said(c)' = Said(c)
    BY <1>1, <1>4, <1>7
  <2> QED BY <1>2, <1>3, <1>7, <2>1, <2>2
<1> QED BY <1>5, <1>6, <1>7 DEF Reply, Set

\* The response to a request that is in no other place, or some other message.
LEMMA TrackReply ==
    ASSUME NEW log, NEW in, NEW rq, NEW h, NEW rp, NEW rs, NEW sn, NEW said \in Seq(FromClient),
           NEW m \in FromClient, m.kind # "Dispatch", TrackOk(log, in, rq, h, rp, rs, sn, said),
           m.kind = "DispatchResponse" => IsNew(m.id, log, in, rq, h, rp, rs, sn, said)
    PROVE  /\ TrackOk(log, in, rq, h, rp, rs, sn, Append(said, Encode(m)))
           /\ TrackOk(log, in, rq, h, rp, rs, SendingIds(m), said)
<1>1. Encode(m) \in FromClient
  BY EncodeType
<1>2. Encode(m).id = m.id /\ (Encode(m).kind = "Dispatch" => m.kind = "DispatchResponse")
  BY <1>1, EncodeIds
<1>3. TrackOk(log, in, rq, h, rp, rs, sn, Append(said, Encode(m)))
  BY <1>1, <1>2, TrackSay
<1>4. TrackOk(log, in, rq, h, rp, rs, SendingIds(m), said)
  BY TrackReport, TrackDrop DEF SendingIds
<1> QED BY <1>3, <1>4

LEMMA AnswerTracks ==
    ASSUME IInv, TracksInv, NEW c \in Conns, NEW m \in FromClient, Reply(c, m),
           Told(m), m.kind # "Dispatch", UNCHANGED <<conn, got, sent, held, reqQ, report>>,
           \A d \in Conns \ {c} : inQ'[d] = inQ[d] /\ respQ'[d] = respQ[d],
           FineResults(respQ'[c]),
           conn[c] = "open" =>
              /\ TrackOk(sent[c], inQ'[c], reqQ[c], held[c], {}, respQ'[c], SendingIds(sending[c]), Said(c))
              /\ m.kind = "DispatchResponse" =>
                   IsNew(m.id, sent[c], inQ'[c], reqQ[c], held[c], {}, respQ'[c], SendingIds(sending[c]), Said(c))
    PROVE  TracksInv'
<1>1. /\ conn[c] \notin {"none", "init"}
      /\ \A d \in Conns \ {c} : actor'[d] = actor[d] /\ sending'[d] = sending[d] /\ outQ'[d] = outQ[d]
      /\ actor'[c] \in {"loop", "retry"}
      /\ Told(sending'[c]) /\ sending'[c].kind # "Dispatch" /\ FineOut(outQ'[c])
      /\ conn[c] # "open" => outQ'[c] = outQ[c]
      /\ \/ Said(c)' = Append(Said(c), Encode(m)) /\ sending'[c] = sending[c]
         \/ Said(c)' = Said(c) /\ (conn[c] = "open" => sending'[c] = m)
  <2>1. UNCHANGED <<conn, got, sent>>
    OBVIOUS
  <2> QED BY <2>1, ReplyTracks
<1>2. \A d \in Conns \ {c} : Kept(d)
  BY <1>1 DEF Kept
<1>3. actor'[c] # "report"
  BY <1>1
<1>4. OutcomesOk(actor[c], report[c], respQ[c], sending[c], outQ[c], got[c])'
  <2>1. FineGot(got'[c])
    BY DEF TracksInv, TrackInv, OutcomesOk
  <2> QED BY <1>1, <1>3, <2>1 DEF OutcomesOk
<1>5. ASSUME conn[c] = "open"
      PROVE  TrackOk(sent[c], inQ[c], reqQ[c], held[c], ReportIds(actor[c], report[c]), respQ[c],
                     SendingIds(sending[c]), Said(c))'
  <2>1. Said(c) \in Seq(FromClient)
    BY QueuesType
  <2>2. /\ TrackOk(sent[c], inQ'[c], reqQ[c], held[c], {}, respQ'[c], SendingIds(sending[c]), Said(c))
        /\ m.kind = "DispatchResponse" =>
             IsNew(m.id, sent[c], inQ'[c], reqQ[c], held[c], {}, respQ'[c], SendingIds(sending[c]), Said(c))
    BY <1>5
  <2>3. /\ TrackOk(sent[c], inQ'[c], reqQ[c], held[c], {}, respQ'[c], SendingIds(sending[c]),
                   Append(Said(c), Encode(m)))
        /\ TrackOk(sent[c], inQ'[c], reqQ[c], held[c], {}, respQ'[c], SendingIds(m), Said(c))
    BY <2>1, <2>2, TrackReply
  <2>4. ReportIds(actor[c], report[c])' = {}
    BY <1>3 DEF ReportIds
  <2>5. CASE Said(c)' = Append(Said(c), Encode(m)) /\ sending'[c] = sending[c]
    BY <2>3, <2>4, <2>5
  <2>6. CASE Said(c)' = Said(c) /\ sending'[c] = m
    BY <2>3, <2>4, <2>6
  <2> QED BY <1>1, <1>5, <2>5, <2>6
<1>6. conn'[c] # "open" => got'[c] = <<>> /\ outQ'[c] = <<>>
  BY <1>1 DEF TracksInv, TrackInv
<1>7. TrackInv(c)'
  BY <1>1, <1>4, <1>5, <1>6 DEF TrackInv
<1> QED BY <1>2, <1>7, StepTracks

LEMMA HelloTracks ==
    ASSUME IInv, TracksInv, NEW c \in Conns, Hello(c)
    PROVE  TracksInv'
<1>1. PICK m \in FromClient : Reply(c, m) /\ m.kind = "ClientHello"
  <2>1. PICK n : n = CHOOSE k \in Nonces : Fresh(k)
    OBVIOUS
  <2>2. PICK m : m = ClientHello(n, lastConnDuration)
    OBVIOUS
  <2>3. Fresh(n) /\ Reply(c, m)
    BY <2>1, <2>2 DEF Hello, Reply, Set
  <2>4. m \in FromClient /\ m.kind = "ClientHello"
    BY <2>2, <2>3, ClientHelloType, OtherFields DEF Fresh, IInv, Shared
  <2> QED BY <2>3, <2>4
<1>2. actor[c] = "spawned" /\ UNCHANGED <<conn, sent, got, held, inQ, reqQ, respQ, report>>
  BY DEF Hello, hostVars
<1>3. Told(m) /\ m.kind # "Dispatch" /\ m.kind # "DispatchResponse"
  BY <1>1 DEF Told
<1>4. FineResults(respQ'[c])
  BY <1>2 DEF TracksInv, TrackInv, OutcomesOk
<1>5. ReportIds(actor[c], report[c]) = {}
  BY <1>2 DEF ReportIds
<1>6. conn[c] = "open" =>
         TrackOk(sent[c], inQ'[c], reqQ[c], held[c], {}, respQ'[c], SendingIds(sending[c]), Said(c))
  BY <1>2, <1>5 DEF TracksInv, TrackInv
<1> QED BY <1>1, <1>2, <1>3, <1>4, <1>6, AnswerTracks

LEMMA ForwardResponseTracks ==
    ASSUME IInv, TracksInv, NEW c \in Conns, ForwardResponse(c)
    PROVE  TracksInv'
<1>1. PICK m : m = DispatchResponse(Head(respQ[c]).id, Head(respQ[c]).result)
  OBVIOUS
<1>2. /\ actor[c] = "loop" /\ respQ[c] # <<>> /\ Reply(c, m)
      /\ respQ' = [respQ EXCEPT ![c] = Tail(respQ[c])]
      /\ UNCHANGED <<conn, sent, got, held, inQ, reqQ, report>>
  BY <1>1 DEF ForwardResponse, Reply, Set, hostVars
<1>3. respQ[c] \in Seq(Answers)
  BY QueuesType DEF Queues
<1>4. Head(respQ[c]) \in Answers
  BY <1>2, <1>3, TailFacts
<1>5. /\ m \in FromClient /\ m.kind = "DispatchResponse" /\ m.id = Head(respQ[c]).id
      /\ m.result = WireError(Head(respQ[c]).result)
  BY <1>1, <1>4, DispatchResponseType, ResponseFields
<1>6. Head(respQ[c]).result \in Outcomes /\ FineResults(Tail(respQ[c]))
  BY <1>2, <1>3, FineTail DEF TracksInv, TrackInv, OutcomesOk
<1>7. Told(m) /\ m.kind # "Dispatch"
  BY <1>5, <1>6 DEF Told
<1>8. respQ'[c] = Tail(respQ[c]) /\ \A d \in Conns \ {c} : respQ'[d] = respQ[d]
  BY <1>2 DEF IInv, Domains
<1>9. ReportIds(actor[c], report[c]) = {}
  BY <1>2 DEF ReportIds
<1>10. ASSUME conn[c] = "open"
       PROVE  IsNew(m.id, sent[c], inQ'[c], reqQ[c], held[c], {}, respQ'[c], SendingIds(sending[c]), Said(c))
  <2>1. TrackOk(sent[c], inQ[c], reqQ[c], held[c], {}, respQ[c], SendingIds(sending[c]), Said(c))
    BY <1>9, <1>10 DEF TracksInv, TrackInv
  <2>2. IsNew(Head(respQ[c]).id, sent[c], inQ[c], reqQ[c], held[c], {}, Tail(respQ[c]),
              SendingIds(sending[c]), Said(c))
    BY <1>2, <1>3, <2>1, TrackNext
  <2> QED BY <1>2, <1>5, <1>8, <2>2
<1>11. conn[c] = "open" =>
          TrackOk(sent[c], inQ'[c], reqQ[c], held[c], {}, respQ'[c], SendingIds(sending[c]), Said(c))
  BY <1>10 DEF IsNew
<1> QED BY <1>2, <1>5, <1>6, <1>7, <1>8, <1>10, <1>11, AnswerTracks

LEMMA RetryTracks ==
    ASSUME IInv, TracksInv, NEW c \in Conns, Retry(c)
    PROVE  TracksInv'
<1>1. /\ actor[c] = "retry" /\ actor' = [actor EXCEPT ![c] = "loop"]
      /\ sending' = [sending EXCEPT ![c] = NoMsg]
      /\ outQ' = outQ \/ (conn[c] = "open" /\ outQ' = [outQ EXCEPT ![c] = Append(outQ[c], sending[c])])
      /\ UNCHANGED <<conn, sent, got, held, inQ, reqQ, respQ, report>>
  BY DEF Retry, Set, hostVars
<1>2. /\ actor'[c] = "loop" /\ sending'[c] = NoMsg
      /\ outQ'[c] = outQ[c] \/ (conn[c] = "open" /\ outQ'[c] = Append(outQ[c], sending[c]))
      /\ \A d \in Conns \ {c} : Kept(d)
  BY <1>1 DEF IInv, Domains, Kept
<1>3. conn[c] \notin {"none", "init"}
  BY <1>1 DEF IInv, ConnInv, StartOk
<1>4. /\ Queues(c) /\ \A x \in FromClient : Encode(x) \in FromClient
      /\ Said(c) = SaidOf(got[c], outQ[c]) /\ Said(c) \in Seq(FromClient)
  BY QueuesType
<1>5. sending[c] \in FromClient /\ outQ[c] \in Seq(FromClient) /\ got[c] \in Seq(FromClient)
  BY <1>4 DEF Queues
<1>6. /\ Told(sending[c]) /\ sending[c].kind # "Dispatch" /\ FineOut(outQ[c])
      /\ FineResults(respQ[c]) /\ FineGot(got[c])
  BY DEF TracksInv, TrackInv, OutcomesOk
<1>7. FineOut(Append(outQ[c], sending[c]))
  BY <1>5, <1>6, FineAppend
<1>8. OutcomesOk(actor[c], report[c], respQ[c], sending[c], outQ[c], got[c])'
  <2>1. FineOut(outQ'[c])
    BY <1>2, <1>6, <1>7
  <2>2. Told(NoMsg) /\ NoMsg.kind # "Dispatch"
    BY OtherFields DEF Told
  <2> QED BY <1>1, <1>2, <1>6, <2>1, <2>2 DEF OutcomesOk
<1>9. ASSUME conn[c] = "open"
      PROVE  TrackOk(sent[c], inQ[c], reqQ[c], held[c], ReportIds(actor[c], report[c]), respQ[c],
                     SendingIds(sending[c]), Said(c))'
  <2>1. ReportIds(actor[c], report[c]) = {} /\ ReportIds(actor[c], report[c])' = {} /\ SendingIds(sending[c])' = {}
    BY <1>1, <1>2, OtherFields DEF ReportIds, SendingIds
  <2>2. TrackOk(sent[c], inQ[c], reqQ[c], held[c], {}, respQ[c], SendingIds(sending[c]), Said(c))
    BY <1>9, <2>1 DEF TracksInv, TrackInv
  <2>3. /\ TrackOk(sent[c], inQ[c], reqQ[c], held[c], {}, respQ[c], {}, Said(c))
        /\ sending[c].kind = "DispatchResponse" =>
             IsNew(sending[c].id, sent[c], inQ[c], reqQ[c], held[c], {}, respQ[c], {}, Said(c))
    BY <2>2, TrackDrop DEF SendingIds
  <2>4. TrackOk(sent[c], inQ[c], reqQ[c], held[c], {}, respQ[c], {}, Append(Said(c), Encode(sending[c])))
    BY <1>4, <1>5, <1>6, <2>3, TrackReply
  <2>5. Said(c)' = SaidOf(got[c], outQ'[c])
    BY <1>1 DEF Said, SaidOf
  <2>6. SaidOf(got[c], Append(outQ[c], sending[c])) = Append(SaidOf(got[c], outQ[c]), Encode(sending[c]))
    BY <1>5, SaidMore
  <2>7. CASE outQ'[c] = outQ[c]
    <3>1. Said(c)' = Said(c)
      BY <1>4, <2>5, <2>7
    <3> QED BY <1>1, <2>1, <2>3, <3>1
  <2>8. CASE outQ'[c] = Append(outQ[c], sending[c])
    <3>1. Said(c)' = Append(Said(c), Encode(sending[c]))
      BY <1>4, <2>5, <2>6, <2>8
    <3> QED BY <1>1, <2>1, <2>4, <3>1
  <2> QED BY <1>2, <2>7, <2>8
<1>10. conn'[c] # "open" => got'[c] = <<>> /\ outQ'[c] = <<>>
  BY <1>1, <1>2 DEF TracksInv, TrackInv
<1>11. TrackInv(c)'
  BY <1>1, <1>3, <1>8, <1>9, <1>10 DEF TrackInv
<1> QED BY <1>2, <1>11, StepTracks

LEMMA StoppedTracks ==
    ASSUME IInv, TracksInv, NEW c \in Conns, Stopped(c)
    PROVE  TracksInv'
<1>1. /\ actor[c] = "loop" /\ actor' = [actor EXCEPT ![c] = "ended"]
      /\ inQ' = [inQ EXCEPT ![c] = <<>>] /\ respQ' = [respQ EXCEPT ![c] = <<>>]
      /\ UNCHANGED <<conn, sent, got, held, outQ, reqQ, sending, report>>
  BY DEF Stopped, RunEnds, Set, hostVars
<1>2. /\ actor'[c] = "ended" /\ inQ'[c] = <<>> /\ respQ'[c] = <<>>
      /\ \A d \in Conns \ {c} : Kept(d)
  BY <1>1 DEF IInv, Domains, Kept
<1>3. conn[c] \notin {"none", "init"}
  BY <1>1 DEF IInv, ConnInv, StartOk
<1>4. OutcomesOk(actor[c], report[c], respQ[c], sending[c], outQ[c], got[c])'
  BY <1>1, <1>2, EmptyFine DEF TracksInv, TrackInv, OutcomesOk
<1>5. ReportIds(actor[c], report[c])' = {}
  BY <1>2 DEF ReportIds
<1>6. Said(c)' = Said(c)
  BY <1>1 DEF Said
<1>7. ASSUME conn[c] = "open"
      PROVE  TrackOk(sent[c], inQ[c], reqQ[c], held[c], ReportIds(actor[c], report[c]), respQ[c],
                     SendingIds(sending[c]), Said(c))'
  <2>1. TrackOk(sent[c], <<>>, reqQ[c], held[c], {}, <<>>, SendingIds(sending[c]), Said(c))
    BY <1>7, TrackStopped DEF TracksInv, TrackInv
  <2> QED BY <1>1, <1>2, <1>5, <1>6, <2>1
<1>8. TrackInv(c)'
  BY <1>1, <1>3, <1>4, <1>7 DEF TracksInv, TrackInv
<1> QED BY <1>2, <1>8, StepTracks

LEMMA ReportFailureTracks ==
    ASSUME IInv, TracksInv, NEW c \in Conns, ReportFailure(c)
    PROVE  TracksInv'
<1>1. /\ actor[c] = "report" /\ actor' = [actor EXCEPT ![c] = "loop"]
      /\ report' = [report EXCEPT ![c] = NoReport]
      /\ respQ' = respQ \/ respQ' = [respQ EXCEPT ![c] = Append(respQ[c], report[c])]
      /\ UNCHANGED <<conn, sent, got, held, inQ, outQ, reqQ, sending>>
  BY DEF ReportFailure, Set, hostVars
<1>2. /\ actor'[c] = "loop"
      /\ respQ'[c] = respQ[c] \/ respQ'[c] = Append(respQ[c], report[c])
      /\ \A d \in Conns \ {c} : Kept(d)
  BY <1>1 DEF IInv, Domains, Kept
<1>3. conn[c] \notin {"none", "init"}
  BY <1>1 DEF IInv, ConnInv, StartOk
<1>4. report[c] \in Answers /\ respQ[c] \in Seq(Answers)
  BY QueuesType DEF Queues
<1>5. FineResults(respQ[c]) /\ report[c].result \in Outcomes
  BY <1>1 DEF TracksInv, TrackInv, OutcomesOk
<1>6. FineResults(respQ'[c])
  <2>1. FineResults(Append(respQ[c], report[c]))
    BY <1>4, <1>5, FineAppend
  <2> QED BY <1>2, <1>5, <2>1
<1>7. OutcomesOk(actor[c], report[c], respQ[c], sending[c], outQ[c], got[c])'
  BY <1>1, <1>2, <1>6 DEF TracksInv, TrackInv, OutcomesOk
<1>8. Said(c)' = Said(c) /\ ReportIds(actor[c], report[c])' = {} /\ ReportIds(actor[c], report[c]) = {report[c].id}
  BY <1>1, <1>2 DEF Said, ReportIds
<1>9. ASSUME conn[c] = "open"
      PROVE  TrackOk(sent[c], inQ[c], reqQ[c], held[c], ReportIds(actor[c], report[c]), respQ[c],
                     SendingIds(sending[c]), Said(c))'
  <2>1. TrackOk(sent[c], inQ[c], reqQ[c], held[c], {report[c].id}, respQ[c], SendingIds(sending[c]), Said(c))
    BY <1>8, <1>9 DEF TracksInv, TrackInv
  <2>2. IsNew(report[c].id, sent[c], inQ[c], reqQ[c], held[c], {}, respQ[c], SendingIds(sending[c]), Said(c))
    BY <2>1, TrackDrop
  <2>3. /\ TrackOk(sent[c], inQ[c], reqQ[c], held[c], {}, respQ[c], SendingIds(sending[c]), Said(c))
        /\ TrackOk(sent[c], inQ[c], reqQ[c], held[c], {}, Append(respQ[c], report[c]),
                   SendingIds(sending[c]), Said(c))
    BY <1>4, <2>2, TrackResult DEF IsNew
  <2>4. CASE respQ'[c] = respQ[c]
    BY <1>1, <1>8, <2>3, <2>4
  <2>5. CASE respQ'[c] = Append(respQ[c], report[c])
    BY <1>1, <1>8, <2>3, <2>5
  <2> QED BY <1>2, <2>4, <2>5
<1>10. TrackInv(c)'
  BY <1>1, <1>3, <1>7, <1>9 DEF TracksInv, TrackInv
<1> QED BY <1>2, <1>10, StepTracks

LEMMA TakeMessageTracks ==
    ASSUME IInv, TracksInv, NEW c \in Conns, TakeMessage(c)
    PROVE  TracksInv'
<1> DEFINE m == Head(inQ[c])
<1>1. Refuse(c, m) \/ Ping(c, m) \/ Skip(c, m) \/ Accept(c, m) \/ Dispatch(c, m)
  BY DEF TakeMessage
<1>2. /\ actor[c] = "loop" /\ inQ[c] # <<>> /\ inQ' = [inQ EXCEPT ![c] = Tail(inQ[c])]
      /\ UNCHANGED <<conn, sent, got, held, respQ>>
  BY DEF TakeMessage, Set, hostVars
<1>3. inQ'[c] = Tail(inQ[c]) /\ \A d \in Conns \ {c} : inQ'[d] = inQ[d]
  BY <1>2 DEF IInv, Domains
<1>4. conn[c] \notin {"none", "init"}
  BY <1>2 DEF IInv, ConnInv, StartOk
<1>5. inQ[c] \in Seq(FromServer) /\ reqQ[c] \in Seq(Requests)
  BY QueuesType DEF Queues
<1>6. m \in FromServer
  BY <1>2, <1>5, TailFacts
<1>7. ReportIds(actor[c], report[c]) = {}
  BY <1>2 DEF ReportIds
<1>8. conn[c] = "open" =>
         /\ TrackOk(sent[c], inQ[c], reqQ[c], held[c], {}, respQ[c], SendingIds(sending[c]), Said(c))
         /\ TrackOk(sent[c], Tail(inQ[c]), reqQ[c], held[c], {}, respQ[c], SendingIds(sending[c]), Said(c))
  <2>1. ASSUME conn[c] = "open"
        PROVE  TrackOk(sent[c], inQ[c], reqQ[c], held[c], {}, respQ[c], SendingIds(sending[c]), Said(c))
    BY <1>7, <2>1 DEF TracksInv, TrackInv
  <2>2. ASSUME conn[c] = "open"
        PROVE  TrackOk(sent[c], Tail(inQ[c]), reqQ[c], held[c], {}, respQ[c], SendingIds(sending[c]), Said(c))
    BY <1>2, <1>5, <2>1, <2>2, TrackTake
  <2> QED BY <2>1, <2>2
<1>9. /\ FineResults(respQ[c]) /\ FineOut(outQ[c]) /\ FineGot(got[c])
      /\ Told(sending[c]) /\ sending[c].kind # "Dispatch"
      /\ conn[c] # "open" => got[c] = <<>> /\ outQ[c] = <<>>
  BY DEF TracksInv, TrackInv, OutcomesOk
<1>10. ASSUME NEW r \in FromClient, r.kind \in {"Pong", "ProtocolError"}, Reply(c, r), UNCHANGED <<reqQ, report>>
       PROVE  TracksInv'
  <2>1. Told(r) /\ r.kind # "Dispatch" /\ r.kind # "DispatchResponse"
    BY <1>10 DEF Told
  <2>2. UNCHANGED <<conn, got, sent, held, reqQ, report>> /\ FineResults(respQ'[c])
    BY <1>2, <1>9, <1>10
  <2>3. \A d \in Conns \ {c} : inQ'[d] = inQ[d] /\ respQ'[d] = respQ[d]
    BY <1>2, <1>3
  <2>4. conn[c] = "open" =>
           TrackOk(sent[c], inQ'[c], reqQ[c], held[c], {}, respQ'[c], SendingIds(sending[c]), Said(c))
    BY <1>2, <1>3, <1>8
  <2> QED BY <1>10, <2>1, <2>2, <2>3, <2>4, AnswerTracks
<1> HIDE DEF m
<1>11. CASE Refuse(c, m)
  <2>1. PICK r : r = ProtocolError(phase[c], Violation(phase[c], nonce[c], m), m)
    OBVIOUS
  <2>2. r \in FromClient /\ r.kind = "ProtocolError"
    BY <1>6, <2>1, ProtocolErrorType, OtherFields
  <2>3. Reply(c, r) /\ UNCHANGED <<reqQ, report>>
    BY <1>11, <2>1 DEF Refuse, Reply, Set
  <2> QED BY <1>10, <2>2, <2>3
<1>12. CASE Ping(c, m)
  <2>1. PICK r : r = Pong
    OBVIOUS
  <2>2. r \in FromClient /\ r.kind = "Pong"
    BY <2>1, ToServerType DEF Pong
  <2>3. Reply(c, r) /\ UNCHANGED <<reqQ, report>>
    BY <1>12, <2>1 DEF Ping, Reply
  <2> QED BY <1>10, <2>2, <2>3
\* It is not answered, and what is known of the request is known in its new place.
<1>13. ASSUME UNCHANGED <<outQ, sending>>, \A d \in Conns \ {c} : Kept(d),
              actor'[c] = "report" => report'[c].result \in Outcomes,
              conn[c] = "open" =>
                 TrackOk(sent[c], Tail(inQ[c]), reqQ'[c], held[c], ReportIds(actor'[c], report'[c]), respQ[c],
                         SendingIds(sending[c]), Said(c))
       PROVE  TracksInv'
  <2>1. OutcomesOk(actor[c], report[c], respQ[c], sending[c], outQ[c], got[c])'
    BY <1>2, <1>9, <1>13 DEF OutcomesOk
  <2>2. Said(c)' = Said(c)
    BY <1>2, <1>13 DEF Said
  <2>3. conn[c] = "open" =>
           TrackOk(sent[c], inQ[c], reqQ[c], held[c], ReportIds(actor[c], report[c]), respQ[c],
                   SendingIds(sending[c]), Said(c))'
    BY <1>2, <1>3, <1>13, <2>2
  <2>4. TrackInv(c)'
    BY <1>2, <1>4, <1>9, <1>13, <2>1, <2>3 DEF TrackInv
  <2> QED BY <1>13, <2>4, StepTracks
<1>14. CASE Skip(c, m) \/ Accept(c, m)
  <2>1. UNCHANGED <<reqQ, outQ, actor, sending, report>>
    BY <1>14 DEF Skip, Accept, actorVars
  <2>2. \A d \in Conns \ {c} : Kept(d)
    BY <1>2, <1>3, <2>1 DEF Kept
  <2>3. actor'[c] # "report" /\ ReportIds(actor'[c], report'[c]) = {}
    BY <1>2, <1>7, <2>1
  <2> QED BY <1>8, <1>13, <2>1, <2>2, <2>3
<1>15. CASE Dispatch(c, m)
  <2>1. /\ phase[c] = "Active" /\ m.message = "Dispatch" /\ Violation(phase[c], nonce[c], m) = "none"
        /\ UNCHANGED <<outQ, sending>>
    BY <1>15 DEF Dispatch
  <2>2. m.signature = "valid"
    <3>1. ActiveViolation(m) = "none"
      BY SMTT(30), <2>1 DEF Violation
    <3>2. m.signature \notin {"none", "empty", "short", "long"}
      BY SMTT(30), <2>1, <3>1 DEF ActiveViolation
    <3>3. m.signature \in Signatures
      BY <1>6 DEF FromServer
    <3> QED BY <3>2, <3>3 DEF Signatures
  <2>3. ASSUME conn[c] = "open"
        PROVE  IsNew(m.correlation_id, sent[c], Tail(inQ[c]), reqQ[c], held[c], {}, respQ[c],
                     SendingIds(sending[c]), Said(c))
    BY <1>2, <1>5, <1>8, <2>1, <2>2, <2>3, TrackTaken DEF m
  <2>4. PICK r \in Requests : r = [id |-> m.correlation_id, payload |-> m.payload]
    BY <1>6 DEF FromServer, Requests
  <2>5. r.id = m.correlation_id
    BY SMTT(30), <2>4
  <2>6. CASE conn[c] = "open" /\ reqQ' = [reqQ EXCEPT ![c] = Append(reqQ[c], r)] /\ UNCHANGED <<actor, report>>
    <3>1. reqQ'[c] = Append(reqQ[c], r) /\ \A d \in Conns \ {c} : reqQ'[d] = reqQ[d]
      BY <2>6 DEF IInv, Domains
    <3>2. \A d \in Conns \ {c} : Kept(d)
      BY <1>2, <1>3, <2>1, <2>6, <3>1 DEF Kept
    <3>3. TrackOk(sent[c], Tail(inQ[c]), Append(reqQ[c], r), held[c], {}, respQ[c], SendingIds(sending[c]), Said(c))
      BY <1>5, <2>3, <2>5, <2>6, TrackRequest
    <3>4. actor'[c] # "report" /\ ReportIds(actor'[c], report'[c]) = {}
      BY <1>2, <1>7, <2>6
    <3> QED BY <1>13, <2>1, <3>1, <3>2, <3>3, <3>4
  <2>7. CASE /\ actor' = [actor EXCEPT ![c] = "report"] /\ reqQ' = reqQ
             /\ \E x \in {"DispatchClosed", "DispatchRequestQueueFull"} :
                   report' = [report EXCEPT ![c] = [id |-> m.correlation_id, result |-> x]]
    <3>1. PICK x \in {"DispatchClosed", "DispatchRequestQueueFull"} :
             report' = [report EXCEPT ![c] = [id |-> m.correlation_id, result |-> x]]
      BY <2>7
    <3>2. /\ actor'[c] = "report" /\ report'[c] = [id |-> m.correlation_id, result |-> x]
          /\ \A d \in Conns \ {c} : actor'[d] = actor[d] /\ report'[d] = report[d]
      BY <2>7, <3>1 DEF IInv, Domains
    <3>3. report'[c].result \in Outcomes /\ report'[c].id = m.correlation_id
      BY SMTT(30), <3>2 DEF Outcomes
    <3>4. \A d \in Conns \ {c} : Kept(d)
      BY <1>2, <1>3, <2>1, <2>7, <3>2 DEF Kept
    <3>5. ReportIds(actor'[c], report'[c]) = {m.correlation_id}
      BY <3>2, <3>3 DEF ReportIds
    <3>6. conn[c] = "open" =>
             TrackOk(sent[c], Tail(inQ[c]), reqQ[c], held[c], {m.correlation_id}, respQ[c],
                     SendingIds(sending[c]), Said(c))
      BY <2>3, TrackReport
    <3> QED BY <1>13, <2>1, <2>7, <3>3, <3>4, <3>5, <3>6
  <2> QED BY <1>15, <2>4, <2>6, <2>7 DEF Dispatch, Set
<1> QED BY <1>1, <1>11, <1>12, <1>14, <1>15

LEMMA TakeEventTracks ==
    ASSUME IInv, TracksInv, TakeEvent
    PROVE  TracksInv'
<1>1. UNCHANGED <<conn, sent, got, held, inQ, outQ, reqQ, respQ, sending, report>>
  BY DEF TakeEvent, hostVars, queues
<1>2. actor' = actor \/ actor' = [actor EXCEPT ![Head(events).conn] = "spawned"]
  BY DEF TakeEvent, Set
<1>3. \A d \in Conns : actor'[d] = actor[d] \/ actor'[d] = "spawned"
  BY <1>2 DEF IInv, Domains
<1>4. ASSUME NEW d \in Conns PROVE TrackInv(d)'
  <2>1. CASE actor'[d] = actor[d]
    <3>1. Kept(d)
      BY <1>1, <2>1 DEF Kept
    <3> QED BY <3>1, KeptTrack DEF TracksInv
  <2>2. CASE actor'[d] = "spawned"
    <3>1. OutcomesOk(actor[d], report[d], respQ[d], sending[d], outQ[d], got[d])'
      BY <1>1, <2>2 DEF TracksInv, TrackInv, OutcomesOk
    <3>2. ReportIds(actor[d], report[d])' = {} /\ Said(d)' = Said(d)
      BY <1>1, <2>2 DEF ReportIds, Said
    <3>3. ASSUME conn[d] = "open"
          PROVE  TrackOk(sent[d], inQ[d], reqQ[d], held[d], ReportIds(actor[d], report[d]), respQ[d],
                         SendingIds(sending[d]), Said(d))'
      <4>1. TrackOk(sent[d], inQ[d], reqQ[d], held[d], {}, respQ[d], SendingIds(sending[d]), Said(d))
        BY <3>3, TrackDrop DEF TracksInv, TrackInv
      <4> QED BY <1>1, <3>2, <4>1
    <3> QED BY <1>1, <3>1, <3>3 DEF TracksInv, TrackInv
  <2> QED BY <1>3, <2>1, <2>2
<1> QED BY <1>4 DEF TracksInv

LEMMA NextTracks == IInv /\ TracksInv /\ [Next]_vars => TracksInv'
<1> SUFFICES ASSUME IInv, TracksInv, [Next]_vars PROVE TracksInv'
  OBVIOUS
<1>1. CASE Shutdown \/ LoopEnds \/ Joined \/ Finished \/ UNCHANGED vars
  <2>1. UNCHANGED <<hostVars, queues, actorVars>>
    BY <1>1 DEF Shutdown, LoopEnds, Joined, Finished, vars
  <2>2. \A d \in Conns : Kept(d)
    BY <2>1 DEF Kept, hostVars, queues, actorVars
  <2> QED BY <2>2, KeptTrack DEF TracksInv
<1>2. ASSUME NEW c \in Conns, Server(c) PROVE TracksInv'
  BY <1>2, NewConnectionTracks, DropConnTracks, ServerRecvTracks, SendsTracks, GetDispatchTracks,
     RespondTracks DEF Server
<1>3. ASSUME NEW c \in Conns, Actor(c) PROVE TracksInv'
  BY <1>3, HelloTracks, RetryTracks, StoppedTracks, ForwardResponseTracks, TakeMessageTracks,
     ReportFailureTracks DEF Actor
<1> QED BY <1>1, <1>2, <1>3, TakeEventTracks DEF Next, Loop

\* A response on the wire answers a properly signed request of its own connection, with
\* what the application answered or the reason why it was not asked, and no request is
\* answered twice: a request is in one place at a time from the moment it is sent.
THEOREM SessionResponsesCorrelate == Spec => []ResponsesCorrelate
<1>1. Spec => []TracksInv
  BY SessionInvariant, InitTracks, NextTracks, PTL DEF Spec
<1>2. ASSUME IInv, TracksInv PROVE ResponsesCorrelate
  <2> SUFFICES ASSUME NEW c \in Conns
               PROVE  LET responses == {k \in DOMAIN Said(c) : Said(c)[k].kind = "Dispatch"}
                      IN  /\ \A j, k \in responses : Said(c)[j].id = Said(c)[k].id => j = k
                          /\ \A k \in responses :
                                /\ \E n \in DOMAIN sent[c] : /\ sent[c][n].message = "Dispatch"
                                                            /\ sent[c][n].signature = "valid"
                                                            /\ sent[c][n].correlation_id = Said(c)[k].id
                                /\ Said(c)[k].result \in {WireError(r) : r \in Results}
                                                             \cup {"DispatchQueueFull", "Closed"}
    BY DEF ResponsesCorrelate
  <2>1. /\ Queues(c) /\ Said(c) = SaidOf(got[c], outQ[c]) /\ Said(c) \in Seq(FromClient)
    BY <1>2, QueuesType
  <2>2. DOMAIN Said(c) = 1..Len(Said(c)) /\ DOMAIN sent[c] = 1..Len(sent[c])
    BY <2>1, SeqFacts DEF Queues
  <2>3. \A k \in 1..Len(Said(c)) : conn[c] = "open"
    <3>1. ASSUME conn[c] # "open" PROVE Len(Said(c)) = 0
      <4>1. got[c] = <<>> /\ outQ[c] = <<>>
        BY <1>2, <3>1 DEF TracksInv, TrackInv
      <4>2. <<>> \o [k \in DOMAIN <<>> |-> Encode(<<>>[k])] = <<>>
        BY SMTT(30)
      <4>3. Said(c) = <<>>
        BY <4>1, <4>2 DEF Said
      <4> QED BY <4>3, EmptyFacts
    <3>2. \A k \in 1..0 : FALSE
      BY SMTT(30)
    <3> QED BY <3>1, <3>2
  <2>4. ASSUME conn[c] = "open"
        PROVE  ResponsesOnce(Said(c)) /\ ResponseIds(Said(c)) \subseteq Signed(sent[c])
    BY <1>2, <2>4 DEF TracksInv, TrackInv, TrackOk
  <2>5. \A j, k \in {i \in DOMAIN Said(c) : Said(c)[i].kind = "Dispatch"} : Said(c)[j].id = Said(c)[k].id => j = k
    BY <2>2, <2>3, <2>4 DEF ResponsesOnce
  <2>6. ASSUME NEW k \in 1..Len(Said(c)), Said(c)[k].kind = "Dispatch"
        PROVE  Said(c)[k].id \in Signed(sent[c])
    BY <2>3, <2>4, <2>6 DEF ResponseIds
  <2>7. ASSUME NEW k \in 1..Len(Said(c)), Said(c)[k].kind = "Dispatch"
        PROVE  Said(c)[k].result \in {WireError(r) : r \in Outcomes}
    <3>1. /\ got[c] \in Seq(FromClient) /\ outQ[c] \in Seq(FromClient)
          /\ FineGot(got[c]) /\ FineOut(outQ[c])
      BY <1>2, <2>1 DEF Queues, TracksInv, TrackInv, OutcomesOk
    <3>2. \/ \E i \in 1..Len(got[c]) : Said(c)[k] = got[c][i]
          \/ \E i \in 1..Len(outQ[c]) : Said(c)[k] = Encode(outQ[c][i])
      <4>1. \A x \in FromClient : Encode(x) \in FromClient
        BY EncodeType
      <4>2. ASSUME NEW j \in 1..Len(SaidOf(got[c], outQ[c]))
            PROVE  OneOf(SaidOf(got[c], outQ[c])[j], got[c], outQ[c])
        BY <3>1, <4>1, SaidPlaces
      <4> QED BY <2>1, <4>2 DEF OneOf
    <3>3. CASE \E i \in 1..Len(got[c]) : Said(c)[k] = got[c][i]
      BY <2>7, <3>1, <3>3 DEF FineGot, Told
    <3>4. CASE \E i \in 1..Len(outQ[c]) : Said(c)[k] = Encode(outQ[c][i])
      <4>1. PICK i \in 1..Len(outQ[c]) : Said(c)[k] = Encode(outQ[c][i])
        BY <3>4
      <4>2. outQ[c][i] \in FromClient
        BY <3>1, SeqFacts
      <4>3. outQ[c][i].kind \in {"DispatchResponse", "Dispatch"} /\ Said(c)[k].result = outQ[c][i].result
        BY <2>7, <4>1, <4>2, EncodeIds
      <4> QED BY <3>1, <4>3 DEF FineOut, Told
    <3> QED BY <3>2, <3>3, <3>4
  <2>8. {WireError(r) : r \in Outcomes} \subseteq
           {WireError(r) : r \in Results} \cup {"DispatchQueueFull", "Closed"}
    <3>1. WireError("DispatchClosed") = "Closed" /\ WireError("DispatchRequestQueueFull") = "DispatchQueueFull"
      BY SMTT(30) DEF WireError
    <3> QED BY <3>1 DEF Outcomes
  <2> QED BY <2>2, <2>5, <2>6, <2>7, <2>8 DEF Signed
<1> QED BY <1>1, <1>2, SessionInvariant, PTL
=============================================================================
