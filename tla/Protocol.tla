------------------------------ MODULE Protocol ------------------------------
(***************************************************************************)
(* The messages of the client library and its server: what the codec makes *)
(* of the bytes on the wire (codec/), how a connection id is derived and   *)
(* verified (rc-crypto's connection_id), and what a phase of the           *)
(* connection (delegate/fsm/) answers to a message.                        *)
(*                                                                         *)
(* Bytes are abstract: a nonce is a value of Nonces, and the hash that     *)
(* makes a connection id of two nonces is taken to be injective.           *)
(***************************************************************************)
EXTENDS Naturals, Sequences, FiniteSets

CONSTANTS
    Nonces,      \* the 16-byte random values of IdNonce
    NoNonce,     \* no nonce, or one that has been taken
    NoConnId,    \* no connection id
    ChosenId,    \* the bytes of an id that was not derived from any nonce
    NoId         \* no correlation id

-------------------------------------------------------------------------------
(* Connection ids *)

\* Mutant: the client's nonce is left out of the hash.
ConnectionIdOfServer(client, server) == [server |-> server, client |-> NoNonce]

ConnectionId(client, server) == [server |-> server, client |-> client]

\* UntrustedConnectionId::verify: the client can derive the same id itself.
Verify(server_nonce, id, client_nonce) == ConnectionId(client_nonce, server_nonce) = id

-------------------------------------------------------------------------------
(* Messages of the server *)

\* A signature is missing, empty, or names its certificate by an id that is too
\* short, too long (CertId's bounds) or acceptable.
Signatures == {"none", "empty", "short", "long", "valid"}

Wire(message) ==
    [message |-> message, correlation_id |-> NoId, signature |-> "none",
     payload |-> NoConnId, server_nonce |-> NoNonce, connection_id |-> NoConnId]

WireAck(server, id) ==
    [Wire("ClientHelloAck") EXCEPT !.server_nonce = server, !.connection_id = id]

\* The payload of a request is reduced to the connection it says it is for.
WireDispatch(id, payload, signature) ==
    [Wire("Dispatch") EXCEPT !.correlation_id = id, !.payload = payload,
                             !.signature = signature]

\* Bytes that are no message at all, and a message of a kind the client does not
\* know, fail to decode; every kind it does know decodes, whatever its fields.
Decode(w) ==
    IF w.message \in {"garbage", "absent"}
    THEN [w EXCEPT !.message = "DecodingError"]
    ELSE w

-------------------------------------------------------------------------------
(* Messages of the client *)

DispatchErrors ==
    {"UnknownPayload", "NoDispatchHandler", "HandlerQueueFull", "DispatchRequestQueueFull",
     "DispatchClosed", "ReplyDeserialisation", "UnknownHostDispatchError",
     "HandlerExecTimeout"}

\* The enum on the wire has names of its own for three of the errors.
WireError(e) ==
    CASE e = "DispatchRequestQueueFull" -> "DispatchQueueFull"
      [] e = "DispatchClosed"           -> "Closed"
      [] e = "UnknownHostDispatchError" -> "ClientReturnedUnknown"
      [] OTHER                          -> e

ToServer(kind) ==
    [kind |-> kind, nonce |-> NoNonce, duration |-> 0, id |-> NoId, result |-> "none",
     reason |-> "none", complete |-> FALSE]

Pong == ToServer("Pong")

\* build_hello.  The disconnection counters of InstanceMetrics are never written
\* and the reconnection data is always None, so they are left out.
ClientHello(nonce, duration) ==
    [ToServer("ClientHello") EXCEPT !.nonce = nonce, !.duration = duration]

\* dispatch_response: a payload is forwarded, an error translated.
DispatchResponse(id, result) ==
    [ToServer("DispatchResponse") EXCEPT !.id = id, !.result = WireError(result)]

\* On the wire a message is one of four kinds, and says of an error which it is.
Encode(m) == [m EXCEPT !.kind = IF @ = "DispatchResponse" THEN "Dispatch" ELSE @]

-------------------------------------------------------------------------------
(* The phases *)

HandshakeComplete(phase) == phase \in {"Active", "Error"}

\* What is wrong with a message, for each phase; "none" if nothing is.
PreHandshakeViolation(m) ==
    CASE m.message = "ClientHelloAck" -> "HandshakeAckBeforeHello"
      [] m.message = "Dispatch"       -> "DispatchBeforeHandshake"
      [] OTHER                        -> "none"

HandshakingViolation(nonce, m) ==
    CASE m.message = "ClientHelloAck" /\ ~Verify(m.server_nonce, m.connection_id, nonce)
                                      -> "HandshakeConnectionIdRejected"
      [] m.message = "Dispatch"       -> "DispatchBeforeHandshake"
      [] OTHER                        -> "none"

\* The signature is looked at before the id of the certificate it names.
ActiveViolation(m) ==
    CASE m.message = "ClientHelloAck" -> "HandshakeDuplicateAck"
      [] m.message = "Dispatch" /\ m.signature \in {"none", "empty"} -> "DispatchMissingSignature"
      [] m.message = "Dispatch" /\ m.signature \in {"short", "long"} -> "CertIdInvalidLength"
      [] OTHER                        -> "none"

Violation(phase, nonce, m) ==
    CASE m.message = "DecodingError" -> "DeserialisationFailed"
      [] m.message # "DecodingError" /\ phase = "PreHandshake" -> PreHandshakeViolation(m)
      [] m.message # "DecodingError" /\ phase = "Handshaking"  -> HandshakingViolation(nonce, m)
      [] m.message # "DecodingError" /\ phase = "Active"       -> ActiveViolation(m)
      [] OTHER -> "none"

\* The errors about a dispatch request name it.
ProtocolError(phase, reason, m) ==
    [ToServer("ProtocolError") EXCEPT
        !.reason = reason,
        !.complete = HandshakeComplete(phase),
        !.id = IF reason \in {"DispatchBeforeHandshake", "DispatchMissingSignature"}
               THEN m.correlation_id ELSE NoId]

-------------------------------------------------------------------------------
(* What the server may expect *)

\* The tests of MessageDelegate say what a whole conversation is answered by.  Here
\* sent is what the server sent, and nonce the one in the ClientHello.

\* prop_handshake_connection_id_rejected: an id has to be derived from the nonce.
GoodAck(nonce, m) ==
    m.message = "ClientHelloAck" /\ m.connection_id = [server |-> m.server_nonce, client |-> nonce]

\* test_handshake: a good acknowledgement completes the handshake.
Acked(nonce, sent, n) == \E k \in 1..(n - 1) : GoodAck(nonce, sent[k])

\* prop_deserialisation_error_rejects_messages
Undecodable(m) == m.message \in {"garbage", "absent"}

\* prop_handshake_duplicate_ack
UnexpectedAck(nonce, sent, n) ==
    /\ sent[n].message = "ClientHelloAck"
    /\ Acked(nonce, sent, n) \/ ~GoodAck(nonce, sent[n])

\* prop_invalid_dispatch_raises_protocol_error
UnexpectedDispatch(nonce, sent, n) ==
    /\ sent[n].message = "Dispatch"
    /\ ~Acked(nonce, sent, n) \/ sent[n].signature # "valid"

Breaks(nonce, sent, n) ==
    Undecodable(sent[n]) \/ UnexpectedAck(nonce, sent, n) \/ UnexpectedDispatch(nonce, sent, n)

\* The places of the messages that are answered: a Ping, and the first message that
\* breaks the protocol, after which nothing is (prop_message_types_allowed_during_handshake,
\* prop_any_message_after_handshake).
AnsweredPlaces(nonce, sent) ==
    {n \in DOMAIN sent : /\ \A k \in 1..(n - 1) : ~Breaks(nonce, sent, k)
                         /\ Breaks(nonce, sent, n) \/ sent[n].message = "Ping"}

\* A ProtocolError says whether the handshake was complete when it happened.
ExpectedReplies(nonce, sent) ==
    LET Answered == AnsweredPlaces(nonce, sent)
        Reply(n) == IF Breaks(nonce, sent, n)
                    THEN [kind |-> "ProtocolError", complete |-> Acked(nonce, sent, n)]
                    ELSE [kind |-> "Pong", complete |-> FALSE]
    IN  [k \in 1..Cardinality(Answered) |->
            Reply(CHOOSE n \in Answered : Cardinality({j \in Answered : j < n}) = k - 1)]
=============================================================================
