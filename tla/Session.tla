------------------------------- MODULE Session -------------------------------
(***************************************************************************)
(* A client library instance and the server it talks to, over several      *)
(* connections: the test harness (rc-x509-test-client-harness) plays the   *)
(* server and the application, Main::entrypoint runs the event loop, and   *)
(* each connection has an actor with its handshake, its dispatch channels  *)
(* and its part in the metrics that the next ClientHello reports.          *)
(*                                                                         *)
(* What an actor and the FFI layer do step by step on one connection is    *)
(* the subject of FFIConnection.  Here a handler is one step and messages  *)
(* carry their data.                                                       *)
(***************************************************************************)
EXTENDS Protocol

CONSTANTS
    MaxConns,      \* how many connections are opened, a bound of the model
    MaxMessages,   \* how many messages the server sends, a bound of the model
    Durations,     \* how many seconds an actor may run
    EventCap,      \* capacity of the channel of lifecycle events
    IOCap,         \* capacity of each direction of the transport
    ReqCap,        \* DISPATCH_QUEUE_LEN
    RespCap,       \* the bound of the response queue, DISPATCH_QUEUE_LEN + 1
    Plain,         \* the kinds of message without fields it may send
    Unsigned,      \* the signatures it may send that are not valid
    ServerNonces,  \* the nonces the server may draw
    Results        \* what the application may answer

Conns  == 1..MaxConns
NoConn == 0

ASSUME SessionAssumption ==
    /\ MaxConns \in Nat \ {0} /\ MaxMessages \in Nat
    /\ EventCap \in Nat \ {0} /\ IOCap \in Nat \ {0}
    /\ ReqCap \in Nat \ {0} /\ RespCap \in Nat \ {0}
    /\ Plain \subseteq {"garbage", "absent", "Ping", "CertificatePush", "SetReconnectionData"}
    /\ Unsigned \subseteq Signatures \ {"valid"}
    /\ Durations \subseteq Nat
    /\ NoNonce \notin Nonces \cup ServerNonces
    \* the hash gives neither of these ids
    /\ \A n \in Nonces \cup {NoNonce}, s \in ServerNonces \cup {NoNonce} :
          ConnectionId(n, s) \notin {ChosenId, NoConnId}

VARIABLES
    conn,       \* each TestConn: none, init, open, closed or disconnected
    sent, got,  \* what the server sent and received on an open connection
    left,       \* how many more messages the server may send
    captured,   \* the acknowledgements that have been on the wire
    serverId,   \* TestConn::connection_id
    orderly,    \* connections opened after the one before was disconnected
    held,       \* the TestDispatch values the application holds
    events,     \* the lifecycle events published and not yet taken
    loop,       \* the event loop: select, await, awaitLast or returned
    active,     \* active_conn
    awaited,    \* the connection whose actor ActiveConn::stop waits for
    shutdown,   \* the ShutdownSignal
    cancelled,  \* connections whose own token was cancelled
    actor,      \* each actor: none, spawned, loop, retry, report or ended
    phase,      \* the State of its MessageDelegate
    nonce,      \* the IdNonce it holds while Handshaking
    drawn,      \* the nonce it drew, as the ClientHello says
    connId,     \* the ConnectionId it holds while Active
    sending,    \* the message retry_send could not send yet
    report,     \* the DispatchResult dispatch() has to report
    inQ, outQ,  \* the two directions of the transport
    reqQ, respQ,\* dispatch requests and results
    told,       \* the duration its ClientHello reported
    lived,      \* the duration it recorded
    lastConnDuration  \* InstanceMetrics::last_conn_duration

hostVars   == <<conn, orderly, sent, got, left, captured, serverId, held>>
loopVars   == <<loop, active, awaited, cancelled>>
phaseVars  == <<phase, nonce, drawn, connId>>
queues     == <<inQ, outQ, reqQ, respQ>>
timeVars   == <<told, lived, lastConnDuration>>
actorVars  == <<actor, sending, report>>

vars == <<hostVars, events, shutdown, loopVars, phaseVars, queues, timeVars, actorVars>>

NoMsg    == ToServer("none")
NoReport == [id |-> NoId, result |-> "none"]

Per(v) == [c \in Conns |-> v]

Init ==
    /\ conn = Per("none") /\ orderly = {} /\ sent = Per(<<>>) /\ got = Per(<<>>) /\ left = MaxMessages
    /\ captured = {} /\ serverId = Per(NoConnId) /\ held = Per({})
    /\ events = <<>> /\ shutdown = FALSE
    /\ loop = "select" /\ active = NoConn /\ awaited = NoConn /\ cancelled = {}
    /\ phase = Per("PreHandshake") /\ nonce = Per(NoNonce) /\ drawn = Per(NoNonce)
    /\ connId = Per(NoConnId)
    /\ inQ = Per(<<>>) /\ outQ = Per(<<>>) /\ reqQ = Per(<<>>) /\ respQ = Per(<<>>)
    /\ told = Per(0) /\ lived = Per(0) /\ lastConnDuration = 0
    /\ actor = Per("none") /\ sending = Per(NoMsg) /\ report = Per(NoReport)

Set(f, c, v) == f' = [f EXCEPT ![c] = v]

-------------------------------------------------------------------------------
(* The server and the application, as the harness plays them *)

\* The server's ends of the channels have been dropped.
Gone(c) == conn[c] \in {"closed", "disconnected"}

Publish(kind, c) ==
    /\ Len(events) < EventCap
    /\ events' = Append(events, [kind |-> kind, conn |-> c])
    /\ UNCHANGED <<sent, got, left, captured, serverId, held, shutdown, loopVars, phaseVars, queues,
                   timeVars, actorVars>>

\* new_connection announces the connection, then hands over its transport and
\* its dispatch channels.  The host has one connection at a time, but does not
\* wait for the actor of the last one.
NewConnection(c) ==
    /\ \/ /\ conn[c] = "none" /\ \A d \in 1..(c - 1) : Gone(d)
          /\ Set(conn, c, "init") /\ UNCHANGED orderly
          /\ Publish("Init", c)
       \/ /\ conn[c] = "init"
          /\ Set(conn, c, "open")
          /\ orderly' = IF c > 1 /\ conn[c - 1] = "disconnected" THEN orderly \cup {c} ELSE orderly
          /\ Publish("Connected", c)

\* The server's ends are dropped; nobody looks at this connection's messages again.
DropConn(c, how) ==
    /\ conn[c] = "open"
    /\ Set(conn, c, how)
    /\ Set(sent, c, <<>>) /\ Set(got, c, <<>>) /\ Set(serverId, c, NoConnId)
    /\ Set(outQ, c, <<>>) /\ Set(reqQ, c, <<>>)
    /\ UNCHANGED <<orderly, left, captured, held, shutdown, loopVars, phaseVars,
                   inQ, respQ, timeVars, actorVars>>

\* TestConn::close tells nobody.
Close(c) == DropConn(c, "closed") /\ UNCHANGED events

\* A host behind the FFI publishes the event first (FFIConnection::set_disconnected).
Disconnect(c) ==
    /\ Len(events) < EventCap
    /\ events' = Append(events, [kind |-> "Disconnected", conn |-> c])
    /\ DropConn(c, "disconnected")

\* MockIOServer::send waits for a slot, and fails if the actor has ended.
ServerSend(c, w) ==
    /\ conn[c] = "open" /\ actor[c] # "ended"
    /\ left > 0 /\ left' = left - 1
    /\ Len(inQ[c]) < IOCap
    /\ Set(sent, c, Append(sent[c], w))
    /\ captured' = IF w.message = "ClientHelloAck" THEN captured \cup {w} ELSE captured
    /\ Set(inQ, c, Append(inQ[c], Decode(w)))
    /\ UNCHANGED <<conn, orderly, got, held, events, shutdown, loopVars, phaseVars, outQ, reqQ,
                   respQ, timeVars, actorVars>>

ServerRecv(c) ==
    /\ conn[c] = "open" /\ outQ[c] # <<>>
    /\ Set(got, c, Append(got[c], Encode(Head(outQ[c]))))
    /\ Set(outQ, c, Tail(outQ[c]))
    /\ UNCHANGED <<conn, orderly, sent, left, captured, serverId, held, events, shutdown, loopVars, phaseVars,
                   inQ, reqQ, respQ, timeVars, actorVars>>

\* perform_handshake, when it has received the ClientHello: answer with an id
\* derived from the client's nonce and one of the server's own.
PerformHandshake(c) ==
    /\ got[c] # <<>> /\ Head(got[c]).kind = "ClientHello"
    /\ serverId[c] = NoConnId
    /\ \E s \in ServerNonces :
         LET id == ConnectionId(Head(got[c]).nonce, s)
         IN  ServerSend(c, WireAck(s, id)) /\ Set(serverId, c, id)

DispatchMagicTunnel(c) ==
    /\ serverId[c] # NoConnId
    /\ ServerSend(c, WireDispatch(Len(sent[c]) + 1, serverId[c], "valid"))
    /\ UNCHANGED serverId

\* What else the server may send: messages that do not decode, ones the client
\* accepts at any time, an id it has picked or taken from another connection, and
\* requests that come too early or are not properly signed.
Others(c) ==
    {Wire(m) : m \in Plain}
      \cup {WireAck(NoNonce, id) : id \in {ChosenId, NoConnId}}
      \cup captured
      \cup {WireDispatch(Len(sent[c]) + 1, serverId[c], s) :
               s \in IF serverId[c] = NoConnId THEN {"valid"} ELSE Unsigned}

SendOther(c) ==
    /\ \E w \in Others(c) : ServerSend(c, w)
    /\ UNCHANGED serverId

\* get_application_dispatch
GetDispatch(c) ==
    /\ conn[c] = "open" /\ reqQ[c] # <<>>
    /\ Set(reqQ, c, Tail(reqQ[c]))
    /\ Set(held, c, held[c] \cup {Head(reqQ[c])})
    /\ UNCHANGED <<conn, orderly, sent, got, left, captured, serverId, events, shutdown, loopVars, phaseVars,
                   inQ, outQ, respQ, timeVars, actorVars>>

\* TestDispatch::respond; a result for an actor that has ended is lost.
Respond(c) ==
    \E d \in held[c], r \in Results :
       /\ Set(held, c, held[c] \ {d})
       /\ \/ /\ actor[c] = "ended"
             /\ UNCHANGED respQ
          \/ /\ actor[c] # "ended" /\ Len(respQ[c]) < RespCap
             /\ Set(respQ, c, Append(respQ[c], [id |-> d.id, result |-> r]))
       /\ UNCHANGED <<conn, orderly, sent, got, left, captured, serverId, events, shutdown, loopVars, phaseVars,
                      inQ, outQ, reqQ, timeVars, actorVars>>

Shutdown ==
    /\ ~shutdown
    /\ shutdown' = TRUE
    /\ UNCHANGED <<hostVars, events, loopVars, phaseVars, queues, timeVars, actorVars>>

\* Whoever shuts the client down waits for it and does nothing else.
Server(c) ==
  /\ ~shutdown
  /\ \/ NewConnection(c) \/ Close(c) \/ Disconnect(c)
     \/ ServerRecv(c) \/ PerformHandshake(c) \/ DispatchMagicTunnel(c) \/ SendOther(c)
     \/ GetDispatch(c) \/ Respond(c)
-------------------------------------------------------------------------------
(* The actors *)

Cancelled(c) == c \in cancelled \/ shutdown

\* Every DispatchResponder is gone; each TestDispatch has one of its own.
ResponsesClosed(c) == Gone(c) /\ held[c] = {}

\* retry_send with room in the queue, on a closed transport, or on a full queue.
Reply(c, m) ==
    \/ /\ conn[c] = "open" /\ Len(outQ[c]) < IOCap
       /\ Set(outQ, c, Append(outQ[c], m))
       /\ Set(actor, c, "loop") /\ UNCHANGED sending
    \/ /\ Gone(c)
       /\ Set(actor, c, "loop") /\ UNCHANGED <<sending, outQ>>
    \/ /\ conn[c] = "open" /\ Len(outQ[c]) = IOCap
       /\ Set(actor, c, "retry") /\ Set(sending, c, m)
       /\ UNCHANGED outQ

\* Mutant: the attempts go on when the actor is told to stop.
RetryUncancelled(c) ==
    /\ actor[c] = "retry"
    /\ \/ /\ conn[c] = "open" /\ Len(outQ[c]) < IOCap
          /\ Set(outQ, c, Append(outQ[c], sending[c]))
       \/ Gone(c) /\ UNCHANGED outQ
    /\ Set(actor, c, "loop") /\ Set(sending, c, NoMsg)
    /\ UNCHANGED <<hostVars, events, shutdown, loopVars, phaseVars, inQ, reqQ, respQ,
                   timeVars, report>>

\* The next attempt, or the end of the attempts.
Retry(c) ==
    /\ actor[c] = "retry"
    /\ \/ /\ conn[c] = "open" /\ Len(outQ[c]) < IOCap
          /\ Set(outQ, c, Append(outQ[c], sending[c]))
       \/ /\ Gone(c) \/ Cancelled(c)
          /\ UNCHANGED outQ
    /\ Set(actor, c, "loop") /\ Set(sending, c, NoMsg)
    /\ UNCHANGED <<hostVars, events, shutdown, loopVars, phaseVars, inQ, reqQ, respQ,
                   timeVars, report>>

Fresh(n) == n \in Nonces /\ \A d \in Conns : n # drawn[d]

\* run starts: a fresh nonce (all that are fresh are alike) goes into the
\* ClientHello, with what the metrics say.
Hello(c) ==
    /\ actor[c] = "spawned"
    /\ LET n == CHOOSE n \in Nonces : Fresh(n)
       IN  /\ Fresh(n)
           /\ Set(nonce, c, n) /\ Set(drawn, c, n)
           /\ Reply(c, ClientHello(n, lastConnDuration))
    /\ Set(phase, c, "Handshaking")
    /\ Set(told, c, lastConnDuration)
    /\ UNCHANGED <<hostVars, events, shutdown, loopVars, connId, inQ, reqQ, respQ,
                   lived, lastConnDuration, report>>

\* InstanceMetrics::set_last_conn_duration.
RecordDuration(c, t) == Set(lived, c, t) /\ lastConnDuration' = t

\* run_loop returns, which drops the delegate and its ends of the channels, and run
\* records how long it took.
RunEnds(c) ==
    /\ Set(actor, c, "ended")
    /\ Set(inQ, c, <<>>) /\ Set(respQ, c, <<>>)
    /\ Set(phase, c, "Dropped") /\ Set(nonce, c, NoNonce) /\ Set(connId, c, NoConnId)
    /\ \E t \in Durations : RecordDuration(c, t)
    /\ UNCHANGED <<hostVars, events, shutdown, loopVars, drawn, outQ, reqQ,
                   told, sending, report>>

Stopped(c) ==
    /\ actor[c] = "loop"
    /\ \/ Cancelled(c)
       \/ respQ[c] = <<>> /\ ResponsesClosed(c)
       \/ respQ[c] = <<>> /\ inQ[c] = <<>> /\ Gone(c)
    /\ RunEnds(c)

\* Mutant: a response that cannot be sent at once stays in its queue.
ForwardResponseKeeps(c) ==
    /\ actor[c] = "loop" /\ ~Cancelled(c)
    /\ respQ[c] # <<>>
    /\ IF Len(outQ[c]) < IOCap THEN Set(respQ, c, Tail(respQ[c])) ELSE UNCHANGED respQ
    /\ Reply(c, DispatchResponse(Head(respQ[c]).id, Head(respQ[c]).result))
    /\ UNCHANGED <<hostVars, events, shutdown, loopVars, phaseVars, inQ, reqQ, timeVars,
                   report>>

ForwardResponse(c) ==
    /\ actor[c] = "loop" /\ ~Cancelled(c)
    /\ respQ[c] # <<>>
    /\ Set(respQ, c, Tail(respQ[c]))
    /\ Reply(c, DispatchResponse(Head(respQ[c]).id, Head(respQ[c]).result))
    /\ UNCHANGED <<hostVars, events, shutdown, loopVars, phaseVars, inQ, reqQ, timeVars,
                   report>>

\* Mutant: the phase does not change.
RefuseAndStay(c, m) ==
    LET reason == Violation(phase[c], nonce[c], m)
    IN  /\ phase[c] # "Error" /\ reason # "none"
        /\ Reply(c, ProtocolError(phase[c], reason, m))
        /\ UNCHANGED <<phaseVars, reqQ, report>>

Refuse(c, m) ==
    LET reason == Violation(phase[c], nonce[c], m)
    IN  /\ phase[c] # "Error" /\ reason # "none"
        /\ Reply(c, ProtocolError(phase[c], reason, m))
        /\ Set(phase, c, "Error") /\ Set(nonce, c, NoNonce) /\ Set(connId, c, NoConnId)
        /\ UNCHANGED <<drawn, reqQ, report>>

Ping(c, m) ==
    /\ phase[c] # "Error" /\ m.message = "Ping"
    /\ Reply(c, Pong)
    /\ UNCHANGED <<phaseVars, reqQ, report>>

Skip(c, m) ==
    /\ phase[c] = "Error" \/ m.message \in {"CertificatePush", "SetReconnectionData"}
    /\ UNCHANGED <<phaseVars, reqQ, outQ, actorVars>>

\* The nonce is taken, whatever comes of it.
Accept(c, m) ==
    /\ phase[c] = "Handshaking" /\ m.message = "ClientHelloAck"
    /\ Violation(phase[c], nonce[c], m) = "none"
    /\ Set(phase, c, "Active") /\ Set(nonce, c, NoNonce)
    /\ Set(connId, c, ConnectionId(nonce[c], m.server_nonce))
    /\ UNCHANGED <<drawn, reqQ, outQ, actorVars>>

\* dispatch(): hand the request to the application, or report that it could not be.
Dispatch(c, m) ==
    /\ phase[c] = "Active" /\ m.message = "Dispatch"
    /\ Violation(phase[c], nonce[c], m) = "none"
    /\ \/ /\ conn[c] = "open" /\ Len(reqQ[c]) < ReqCap
          /\ Set(reqQ, c, Append(reqQ[c], [id |-> m.correlation_id, payload |-> m.payload]))
          /\ UNCHANGED <<actor, report>>
       \/ /\ Gone(c) \/ Len(reqQ[c]) = ReqCap
          /\ Set(actor, c, "report")
          /\ Set(report, c, [id |-> m.correlation_id,
                             result |-> IF Gone(c) THEN "DispatchClosed"
                                        ELSE "DispatchRequestQueueFull"])
          /\ UNCHANGED reqQ
    /\ UNCHANGED <<phaseVars, outQ, sending>>

TakeMessage(c) ==
    /\ actor[c] = "loop" /\ ~Cancelled(c)
    /\ respQ[c] = <<>> /\ ~ResponsesClosed(c) /\ inQ[c] # <<>>
    /\ Set(inQ, c, Tail(inQ[c]))
    /\ LET m == Head(inQ[c])
       IN  Refuse(c, m) \/ Ping(c, m) \/ Skip(c, m) \/ Accept(c, m) \/ Dispatch(c, m)
    /\ UNCHANGED <<hostVars, events, shutdown, loopVars, respQ, timeVars>>

\* The result goes into the actor's own response queue, unless nobody else holds it.
ReportFailure(c) ==
    /\ actor[c] = "report"
    /\ \/ ~ResponsesClosed(c) /\ Len(respQ[c]) < RespCap
          /\ Set(respQ, c, Append(respQ[c], report[c]))
       \/ ResponsesClosed(c) /\ UNCHANGED respQ
    /\ Set(actor, c, "loop") /\ Set(report, c, NoReport)
    /\ UNCHANGED <<hostVars, events, shutdown, loopVars, phaseVars, inQ, outQ, reqQ,
                   timeVars, sending>>

Actor(c) ==
    \/ Hello(c) \/ Retry(c) \/ Stopped(c)
    \/ ForwardResponse(c) \/ TakeMessage(c) \/ ReportFailure(c)

-------------------------------------------------------------------------------
(* The event loop *)

\* Mutant: the actor is told to stop and not waited for.
StopNoWait(next, after) ==
    /\ loop' = after /\ UNCHANGED awaited
    /\ cancelled' = cancelled \cup ({active} \ {NoConn})

\* ActiveConn::stop, if there is one.
StopActive(next, after) ==
    IF active = NoConn
    THEN loop' = after /\ UNCHANGED <<awaited, cancelled>>
    ELSE loop' = next /\ awaited' = active /\ cancelled' = cancelled \cup {active}

\* A new actor is spawned before the one it replaces is stopped.
TakeEvent ==
    /\ loop = "select" /\ events # <<>>
    /\ events' = Tail(events)
    /\ LET e == Head(events)
       IN  \/ e.kind = "Init" /\ UNCHANGED <<loopVars, actor>>
          \/ /\ e.kind = "Connected"
             /\ Set(actor, e.conn, "spawned")
             /\ active' = e.conn
             /\ StopActive("await", "select")
          \/ /\ e.kind = "Disconnected"
             /\ active' = NoConn
             /\ StopActive("await", "select")
             /\ UNCHANGED actor
    /\ UNCHANGED <<hostVars, shutdown, phaseVars, queues, timeVars, sending, report>>

LoopEnds ==
    /\ loop = "select" /\ shutdown
    /\ active' = NoConn
    /\ StopActive("awaitLast", "returned")
    /\ UNCHANGED <<hostVars, events, shutdown, phaseVars, queues, timeVars, actorVars>>

Joined ==
    /\ loop \in {"await", "awaitLast"}
    /\ actor[awaited] = "ended"
    /\ loop' = IF loop = "await" THEN "select" ELSE "returned"
    /\ awaited' = NoConn
    /\ UNCHANGED <<hostVars, events, shutdown, active, cancelled, phaseVars, queues,
                   timeVars, actorVars>>

Loop == TakeEvent \/ LoopEnds \/ Joined

Finished == loop = "returned" /\ UNCHANGED vars

Next ==
    \/ Shutdown \/ Loop \/ Finished
    \/ \E c \in Conns : Server(c) \/ Actor(c)

Spec == Init /\ [][Next]_vars

\* The runtime polls the loop and the actors; nothing is asked of the server.
FairSpec == Spec /\ WF_vars(Loop) /\ \A c \in Conns : WF_vars(Actor(c))

-------------------------------------------------------------------------------
(* Properties *)

\* Two connections never have the same id, whatever ids the server proposes: each
\* is derived from the nonce its own ClientHello carried, which no other carries
\* (Handshaking's verify).  While a connection is Active the server that dispatches
\* on it and the client agree on the id.
ConnectionIdsAreFresh ==
    \A c \in Conns : phase[c] = "Active" =>
       /\ connId[c] \in [server : ServerNonces, client : {drawn[c]}]
       /\ drawn[c] \in Nonces /\ \A d \in Conns : drawn[d] = drawn[c] => d = c
       /\ \A k \in DOMAIN reqQ[c] : reqQ[c][k].payload = connId[c]
       /\ \A r \in held[c] : r.payload = connId[c]

\* Everything the client has said on a connection, to the server or into the queue.
Said(c) == got[c] \o [k \in DOMAIN outQ[c] |-> Encode(outQ[c][k])]

\* The first message is the ClientHello, and the answers that follow it are, in
\* order and none of them twice, what the tests of MessageDelegate expect for the
\* messages the server sent.
RepliesAreExpected ==
    \A c \in Conns :
       LET replies == SelectSeq(Said(c), LAMBDA m : m.kind \in {"Pong", "ProtocolError"})
           due     == ExpectedReplies(drawn[c], sent[c])
       IN  /\ Said(c) # <<>> => /\ Head(Said(c)).kind = "ClientHello"
                                /\ \A k \in 2..Len(Said(c)) : Said(c)[k].kind # "ClientHello"
           /\ Len(replies) <= Len(due)
           /\ \A k \in DOMAIN replies :
                 replies[k].kind = due[k].kind /\ replies[k].complete = due[k].complete

\* A DispatchResponse answers a properly signed request of the same connection,
\* and a request is answered at most once ("exactly one DispatchResult should be
\* returned per Dispatch"), by the application or by the failure to reach it.
ResponsesCorrelate ==
    \A c \in Conns :
       LET responses == {k \in DOMAIN Said(c) : Said(c)[k].kind = "Dispatch"}
       IN  /\ \A j, k \in responses : Said(c)[j].id = Said(c)[k].id => j = k
           /\ \A k \in responses :
                 /\ \E n \in DOMAIN sent[c] : /\ sent[c][n].message = "Dispatch"
                                             /\ sent[c][n].signature = "valid"
                                             /\ sent[c][n].correlation_id = Said(c)[k].id
                 /\ Said(c)[k].result \in {WireError(r) : r \in Results}
                                              \cup {"DispatchQueueFull", "Closed"}

\* No actor is left of an earlier connection when this one's is spawned: it is the
\* first, or the host said that the one before it was closed.
SpawnedAlone(c) == c = 1 \/ c \in orderly

\* "Duration of time the most recently closed connection was active for": when the
\* host said that a connection was closed before it opened the next one, the
\* ClientHello that the next one sends reports how long that connection was up,
\* though its actor and the new one are different tasks.  A connection that took
\* over from one still running is the exception: the old actor may be the last of
\* the two to write its duration.
HelloReportsLastDuration ==
    \A c \in orderly : conn[c] = "open" /\ drawn[c] # NoNonce /\ SpawnedAlone(c - 1) =>
        actor[c - 1] = "ended" /\ told[c] = lived[c - 1]

\* An actor that waits for a slot in the response queue that only it could empty
\* (the finding of the run conn_reply_slot).
Stuck(c) == actor[c] = "report" /\ Len(respQ[c]) = RespCap

\* TestClient::shutdown does not run into its timeout: the event loop ends, though
\* nobody reads what the actors send (retry_send gives up when it is stopped).
ShutdownReturns == shutdown ~> (loop = "returned" \/ \E d \in Conns : Stuck(d))

-------------------------------------------------------------------------------
(* The inductive invariant behind ConnectionIdsAreFresh *)

ConnIds == [server : ServerNonces, client : Nonces] \cup {ChosenId, NoConnId}

Corr == Nat \cup {NoId}

Messages ==
    {"garbage", "absent", "DecodingError", "Ping", "CertificatePush", "SetReconnectionData",
     "ClientHelloAck", "Dispatch"}

FromServer ==
    [message : Messages, correlation_id : Corr, signature : Signatures, payload : ConnIds,
     server_nonce : ServerNonces \cup {NoNonce}, connection_id : ConnIds]

Reported == Results \cup {"none", "DispatchClosed", "DispatchRequestQueueFull"}

Reasons ==
    {"none", "DeserialisationFailed", "HandshakeAckBeforeHello", "DispatchBeforeHandshake",
     "HandshakeConnectionIdRejected", "HandshakeDuplicateAck", "DispatchMissingSignature",
     "CertIdInvalidLength"}

FromClient ==
    [kind : {"none", "ClientHello", "Pong", "ProtocolError", "DispatchResponse", "Dispatch"},
     nonce : Nonces \cup {NoNonce}, duration : Nat, id : Corr,
     result : {"none"} \cup {WireError(r) : r \in Reported}, reason : Reasons, complete : BOOLEAN]

Requests == [id : Corr, payload : ConnIds]
Answers  == [id : Corr, result : Reported]
Events   == [kind : {"Init", "Connected", "Disconnected"}, conn : Conns]

\* Every variable that is kept for each connection.
Domains ==
    /\ DOMAIN conn = Conns /\ DOMAIN sent = Conns /\ DOMAIN got = Conns
    /\ DOMAIN serverId = Conns /\ DOMAIN held = Conns
    /\ DOMAIN actor = Conns /\ DOMAIN sending = Conns /\ DOMAIN report = Conns
    /\ DOMAIN phase = Conns /\ DOMAIN nonce = Conns /\ DOMAIN drawn = Conns /\ DOMAIN connId = Conns
    /\ DOMAIN inQ = Conns /\ DOMAIN outQ = Conns /\ DOMAIN reqQ = Conns /\ DOMAIN respQ = Conns

Shared == captured \subseteq FromServer /\ events \in Seq(Events) /\ lastConnDuration \in Nat

\* No nonce is drawn twice.
DrawnInv == \A c, d \in Conns : drawn[c] = drawn[d] /\ drawn[c] # NoNonce => c = d

\* The acknowledgement of the server that drew s to a ClientHello with nonce n.
AckOf(n, s) == WireAck(s, ConnectionId(n, s))

\* Every acknowledgement on the wire was made for one of the nonces drawn, or for none.
CapturedInv ==
    \A w \in captured :
       \/ w \in {WireAck(NoNonce, ChosenId), WireAck(NoNonce, NoConnId)}
       \/ \E d \in Conns, s \in ServerNonces : drawn[d] \in Nonces /\ w = AckOf(drawn[d], s)

\* What follows is about one connection: its state c, its actor's state a, the nonce
\* n it drew, the acknowledgements on the wire, and so on.

\* Connection c is announced once, and its actor is spawned once.
Announces(e, c) == e.kind = "Connected" /\ e.conn = c

EventsOk(c, queue, state, a) ==
    /\ \A i \in 1..Len(queue) : Announces(queue[i], c) => a = "none" /\ state \notin {"none", "init"}
    /\ \A i, j \in 1..Len(queue) : Announces(queue[i], c) /\ Announces(queue[j], c) => i = j

\* Before its actor runs a connection has no nonce and has said nothing.
StartOk(state, a, n, p, out, received) ==
    /\ state \in {"none", "init"} => a = "none"
    /\ a \in {"none", "spawned"} => n = NoNonce /\ p = "PreHandshake" /\ out = <<>> /\ received = <<>>

\* A ClientHello carries the nonce of its connection.
SaidWith(n) == {m \in FromClient : m.kind = "ClientHello" => n \in Nonces /\ m.nonce = n}

HelloOk(n, message, out, received) ==
    message \in SaidWith(n) /\ out \in Seq(SaidWith(n)) /\ received \in Seq(SaidWith(n))

\* The server has made the id for the nonce.
Agreed(n, acks, id) ==
    n \in Nonces /\ \E s \in ServerNonces : id = ConnectionId(n, s) /\ AckOf(n, s) \in acks

\* It makes one only, which it keeps as long as the connection is open.
ServerOk(state, n, acks, id, messages) ==
    /\ id # NoConnId => Agreed(n, acks, id)
    /\ state = "open" => \A x \in ConnIds : Agreed(n, acks, x) => id = x
    /\ messages \in Seq(FromServer)

\* A request that came before the id is ahead of the acknowledgement in the queue.
MessageOk(n, acks, p, in, i) ==
    /\ in[i].message = "ClientHelloAck" => in[i] \in acks
    /\ in[i].message = "Dispatch" => in[i].payload = NoConnId \/ Agreed(n, acks, in[i].payload)
    /\ in[i].message = "Dispatch" /\ in[i].payload = NoConnId =>
          p # "Active" /\ \A j \in 1..(i - 1) : ~GoodAck(n, in[j])

InOk(n, acks, p, in) == in \in Seq(FromServer) /\ \A i \in 1..Len(in) : MessageOk(n, acks, p, in, i)

\* What each phase holds, and whose requests the application has been given.
RequestsFor(id) == {r \in Requests : r.payload = id}

PhaseOk(n, acks, p, holds, id, requests, taken) ==
    /\ n \in Nonces \cup {NoNonce} /\ requests \in Seq(Requests) /\ taken \subseteq Requests
    /\ p = "Handshaking" => holds = n /\ n \in Nonces
    /\ p \in {"PreHandshake", "Handshaking"} => requests = <<>> /\ taken = {}
    /\ p = "Active" =>
          Agreed(n, acks, id) /\ requests \in Seq(RequestsFor(id)) /\ taken \subseteq RequestsFor(id)

ConnInv(c) ==
    /\ EventsOk(c, events, conn[c], actor[c])
    /\ StartOk(conn[c], actor[c], drawn[c], phase[c], outQ[c], got[c])
    /\ HelloOk(drawn[c], sending[c], outQ[c], got[c])
    /\ ServerOk(conn[c], drawn[c], captured, serverId[c], sent[c])
    /\ InOk(drawn[c], captured, phase[c], inQ[c])
    /\ PhaseOk(drawn[c], captured, phase[c], nonce[c], connId[c], reqQ[c], held[c])
    /\ report[c] \in Answers /\ respQ[c] \in Seq(Answers)

IInv == Domains /\ Shared /\ DrawnInv /\ CapturedInv /\ \A c \in Conns : ConnInv(c)

-------------------------------------------------------------------------------
(* The inductive invariant behind HelloReportsLastDuration *)

Alive(c) == actor[c] \notin {"none", "ended"}

Opened(c) == conn[c] \notin {"none", "init"}

\* The host has one connection after the other, and its events are in that order.
HostInv ==
    /\ \A c \in Conns : conn[c] # "none" => \A d \in 1..(c - 1) : Gone(d)
    /\ \A c \in orderly : c \in Conns /\ c > 1 /\ Opened(c) /\ conn[c - 1] = "disconnected"
    /\ \A i \in 1..Len(events) :
          /\ conn[events[i].conn] # "none"
          /\ events[i].kind = "Disconnected" => conn[events[i].conn] = "disconnected"
    /\ \A i, j \in 1..Len(events) : i < j =>
          /\ events[i].conn <= events[j].conn
          /\ events[i].kind = "Disconnected" => events[i].conn < events[j].conn

\* The loop has yet to take the event, or has taken it and nothing older is left.
TakenInv ==
    /\ \A c \in Conns : Opened(c) /\ actor[c] = "none" =>
          \E i \in 1..Len(events) : Announces(events[i], c)
    /\ \A c \in Conns : conn[c] = "disconnected" =>
          \/ [kind |-> "Disconnected", conn |-> c] \in {events[i] : i \in 1..Len(events)}
          \/ /\ active = NoConn \/ active > c
             /\ \A i \in 1..Len(events) : events[i].conn > c

\* Actors are spawned in the order of their connections; those that have not ended
\* are the active one and the one that is waited for.
RunningInv ==
    /\ \A c \in Conns : actor[c] # "none" => \A d \in 1..(c - 1) : actor[d] # "none"
    /\ active \in Conns \cup {NoConn} /\ (active # NoConn => actor[active] # "none")
    /\ loop \in {"select", "returned"} => awaited = NoConn
    /\ \A c \in Conns : Alive(c) => c \in {active, awaited}

\* Who can write the duration, and what it is when the next actor reads it.
AloneInv(c) ==
    SpawnedAlone(c) /\ actor[c] # "none" /\ (c + 1 \in Conns => actor[c + 1] = "none") =>
       /\ \A d \in Conns \ {c} : ~Alive(d)
       /\ actor[c] = "ended" => lastConnDuration = lived[c]

ToldInv(c) ==
    c \in orderly /\ SpawnedAlone(c - 1) /\ conn[c] = "open" /\ actor[c] # "none" =>
       /\ actor[c - 1] = "ended"
       /\ actor[c] = "spawned" => lastConnDuration = lived[c - 1]
       /\ actor[c] # "spawned" => told[c] = lived[c - 1]

DurationInv ==
    /\ DOMAIN told = Conns /\ DOMAIN lived = Conns
    /\ HostInv /\ TakenInv /\ RunningInv
    /\ \A c \in Conns : AloneInv(c) /\ ToldInv(c)

-------------------------------------------------------------------------------
(* The inductive invariant behind ResponsesCorrelate *)

\* The ids of the requests in a queue: of messages from the server, of requests or
\* results, of messages to the server; and that none of them is there twice.
RequestIds(q)  == {q[i].correlation_id : i \in {j \in 1..Len(q) : q[j].message = "Dispatch"}}
Ids(q)         == {q[i].id : i \in 1..Len(q)}
ResponseIds(q) == {q[i].id : i \in {j \in 1..Len(q) : q[j].kind = "Dispatch"}}

RequestsOnce(q) ==
    \A i, j \in 1..Len(q) :
       q[i].message = "Dispatch" /\ q[j].message = "Dispatch" /\ q[i].correlation_id = q[j].correlation_id
          => i = j
IdsOnce(q) == \A i, j \in 1..Len(q) : q[i].id = q[j].id => i = j
ResponsesOnce(q) ==
    \A i, j \in 1..Len(q) :
       q[i].kind = "Dispatch" /\ q[j].kind = "Dispatch" /\ q[i].id = q[j].id => i = j

\* The ids of what the application holds, of the failure that is to be reported and
\* of the response that could not be sent yet.
HeldIds(taken)  == {r.id : r \in taken}
ReportIds(a, r) == IF a = "report" THEN {r.id} ELSE {}
SendingIds(m)   == IF m.kind = "DispatchResponse" THEN {m.id} ELSE {}

\* No two of the sets have an element in common.
Apart(a, b, c, d, e, f, g) ==
    /\ a \cap (b \cup c \cup d \cup e \cup f \cup g) = {}
    /\ b \cap (c \cup d \cup e \cup f \cup g) = {}
    /\ c \cap (d \cup e \cup f \cup g) = {}
    /\ d \cap (e \cup f \cup g) = {}
    /\ e \cap (f \cup g) = {}
    /\ f \cap g = {}

\* The requests the server has sent with a valid signature, by their ids.
Signed(log) ==
    {n \in 1..Len(log) : /\ log[n].message = "Dispatch" /\ log[n].signature = "valid"
                         /\ log[n].correlation_id = n}

\* A request is in one place only: on its way to the client, with the application,
\* or on its way back.  While it is on its way to the client it is what the server
\* sent; from then on it is known to be signed.
TrackOk(log, in, requests, taken, reports, results, sends, said) ==
    /\ Apart(RequestIds(in), Ids(requests), HeldIds(taken), reports, Ids(results), sends,
             ResponseIds(said))
    /\ RequestsOnce(in) /\ IdsOnce(requests) /\ IdsOnce(results) /\ ResponsesOnce(said)
    /\ \A r, s \in taken : r.id = s.id => r = s
    /\ \A i \in 1..Len(in) : in[i].message = "Dispatch" =>
          in[i].correlation_id \in 1..Len(log) /\ log[in[i].correlation_id] = in[i]
    /\ Ids(requests) \cup HeldIds(taken) \cup reports \cup Ids(results) \cup sends \cup ResponseIds(said)
          \subseteq Signed(log)

\* What dispatch results there are, and what becomes of them on the wire.
Outcomes == Results \cup {"DispatchClosed", "DispatchRequestQueueFull"}

Told(m) == m.kind \in {"DispatchResponse", "Dispatch"} => m.result \in {WireError(r) : r \in Outcomes}

FineResults(q) == \A i \in 1..Len(q) : q[i].result \in Outcomes
FineOut(q)     == \A i \in 1..Len(q) : Told(q[i]) /\ q[i].kind # "Dispatch"
FineGot(q)     == \A i \in 1..Len(q) : Told(q[i])

OutcomesOk(a, r, results, message, out, received) ==
    /\ a = "report" => r.result \in Outcomes
    /\ Told(message) /\ message.kind # "Dispatch"
    /\ FineResults(results) /\ FineOut(out) /\ FineGot(received)

TrackInv(c) ==
    /\ OutcomesOk(actor[c], report[c], respQ[c], sending[c], outQ[c], got[c])
    /\ conn[c] # "open" => got[c] = <<>> /\ outQ[c] = <<>>
    /\ conn[c] \in {"none", "init"} =>
          /\ sent[c] = <<>> /\ inQ[c] = <<>> /\ reqQ[c] = <<>> /\ held[c] = {} /\ respQ[c] = <<>>
          /\ sending[c] = NoMsg
    /\ conn[c] = "open" =>
          TrackOk(sent[c], inQ[c], reqQ[c], held[c], ReportIds(actor[c], report[c]), respQ[c],
                  SendingIds(sending[c]), Said(c))

TracksInv == \A c \in Conns : TrackInv(c)
=============================================================================
