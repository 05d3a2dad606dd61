--------------------------- MODULE ConnectionActor ---------------------------
(***************************************************************************)
(* The task that runs one connection inside the client library: the loop   *)
(* of connection/handler/actor.rs, the handshake state machine it drives   *)
(* (delegate/), retry_send, and the publishing side of the dispatch        *)
(* interconnect (dispatch.rs).                                             *)
(*                                                                         *)
(* The actor talks to the FFI layer over four bounded channels.  This      *)
(* module has the actor's steps; module FFIConnection has those of the     *)
(* other ends, and puts the two together.                                  *)
(***************************************************************************)
EXTENDS Naturals, Sequences

CONSTANTS
    Ids,             \* the correlation ids of the dispatch requests
    NoId,            \* the id of a message that is not about a dispatch request
    OutCap,          \* capacity of lib2ffi
    ReqCap,          \* capacity of the dispatch request channel
    RespCap,         \* capacity of the dispatch response channel
    Timers           \* whether the runtime has a time driver; both values if it is open

ASSUME ActorAssumption ==
    /\ NoId \notin Ids
    /\ OutCap \in Nat \ {0} /\ ReqCap \in Nat \ {0} /\ RespCap \in Nat \ {0}
    /\ Timers \subseteq BOOLEAN

VARIABLES
    pc,          \* where the actor is; queued while its Connected event waits
    phase,       \* the State of its MessageDelegate
    sending,     \* the message retry_send is trying to send
    report,      \* the request dispatch() could not deliver and must report
    inQ,         \* ffi2lib: messages from the server
    outQ,        \* lib2ffi: messages for the server
    reqQ,        \* dispatch requests for the host application
    respQ,       \* dispatch results from the host application
    stop,        \* the actor's CancellationToken
    peers        \* the ends of the channels the FFI layer has not dropped

actorVars   == <<pc, phase, sending, report>>
channelVars == <<inQ, outQ, reqQ, respQ, stop, peers>>

Peers == {"ffi2lib", "lib2ffi", "stream", "responder", "taskResponder"}

Msg(kind, id) == [kind |-> kind, id |-> id]
NoMsg == Msg("none", NoId)

\* What the server sends: a message that cannot be decoded, a Ping, one that is
\* not implemented yet (CertificatePush, SetReconnectionData), a ClientHelloAck
\* whose connection id does or does not derive from the client's nonce, and a
\* Dispatch with or without a usable signature.
ServerKinds == {"undecodable", "ping", "push", "ack", "badack", "dispatch", "unsigned"}
Phases      == {"PreHandshake", "Handshaking", "Active", "Error"}

Ended == pc \in {"exited", "panicked"}

\* Every sender of the response channel is gone; the publisher's own is weak.
ResponsesClosed == peers \cap {"responder", "taskResponder"} = {}

ActorInit ==
    /\ pc = "unborn" /\ phase = "PreHandshake"
    /\ sending = NoMsg /\ report = NoId
    /\ inQ = <<>> /\ outQ = <<>> /\ reqQ = <<>> /\ respQ = <<>>
    /\ stop = FALSE
    /\ peers = {}

-------------------------------------------------------------------------------
(* retry_send *)

\* Call retry_send with m, to go on in phase p.  Nobody looks at the phase while
\* the call lasts.
RetrySend(m, p) ==
    /\ pc' = "send"
    /\ sending' = m
    /\ phase' = p

\* retry_send returns, and with it the handler that called it.
RetrySendReturns ==
    /\ pc' = "loop"
    /\ sending' = NoMsg
    /\ UNCHANGED <<phase, report>>

\* The actor's task ends, by return or by panic, and drops its ends of the
\* channels: what is queued for it is lost.
End(how) ==
    /\ pc' = how
    /\ sending' = NoMsg
    /\ inQ' = <<>> /\ respQ' = <<>>
    /\ UNCHANGED <<phase, report, outQ, reqQ, stop, peers>>

SendOk ==
    /\ pc = "send"
    /\ "lib2ffi" \in peers /\ Len(outQ) < OutCap
    /\ outQ' = Append(outQ, sending)
    /\ RetrySendReturns
    /\ UNCHANGED <<inQ, reqQ, respQ, stop, peers>>

SendClosed ==
    /\ pc = "send"
    /\ "lib2ffi" \notin peers
    /\ RetrySendReturns
    /\ UNCHANGED channelVars

\* The queue is full.  Making the Sleep future panics when the runtime has no
\* time driver, before the select looks at the stop token.
SendFull ==
    /\ pc = "send"
    /\ "lib2ffi" \in peers /\ Len(outQ) = OutCap
    /\ \/ /\ TRUE \in Timers
          /\ pc' = "backoff"
          /\ UNCHANGED <<phase, sending, report, channelVars>>
       \/ /\ FALSE \in Timers
          /\ End("panicked")

BackoffStopped ==
    /\ pc = "backoff"
    /\ stop
    /\ RetrySendReturns
    /\ UNCHANGED channelVars

BackoffElapsed ==
    /\ pc = "backoff"
    /\ ~stop
    /\ pc' = "send"
    /\ UNCHANGED <<phase, sending, report, channelVars>>

Send == SendOk \/ SendClosed \/ SendFull \/ BackoffStopped \/ BackoffElapsed

-------------------------------------------------------------------------------
(* The messages of the server: MessageDelegate::process and the phases. *)

\* Messages that move the connection to the Error phase.  In Handshaking a bad
\* acknowledgement fails the check of the connection id; in Active an
\* acknowledgement is always a duplicate.
Violates(m) ==
    \/ m.kind \in {"undecodable", "badack", "unsigned"}
    \/ m.kind = "ack" /\ phase # "Handshaking"
    \/ m.kind = "dispatch" /\ phase # "Active"

ProtocolError(m) ==
    /\ phase # "Error" /\ Violates(m)
    /\ RetrySend(Msg("ProtocolError", NoId), "Error")
    /\ UNCHANGED <<report, reqQ>>

\* Mutant: the messages that follow a protocol error are left in ffi2lib.
IgnoreOnlyPush(m) ==
    /\ m.kind = "push"
    /\ pc' = "loop"
    /\ UNCHANGED <<phase, sending, report, reqQ>>

Ignore(m) ==
    /\ phase = "Error" \/ m.kind = "push"
    /\ pc' = "loop"
    /\ UNCHANGED <<phase, sending, report, reqQ>>

Ping(m) ==
    /\ phase # "Error" /\ m.kind = "ping"
    /\ RetrySend(Msg("Pong", NoId), phase)
    /\ UNCHANGED <<report, reqQ>>

\* Mutant: the connection id is not verified.
HelloAckUnverified(m) ==
    /\ phase = "Handshaking" /\ m.kind \in {"ack", "badack"}
    /\ pc' = "loop"
    /\ phase' = "Active"
    /\ UNCHANGED <<sending, report, reqQ>>

HelloAck(m) ==
    /\ phase = "Handshaking" /\ m.kind = "ack"
    /\ pc' = "loop"
    /\ phase' = "Active"
    /\ UNCHANGED <<sending, report, reqQ>>

\* handle_dispatch: try_send, or remember to report why it failed.
HandleDispatch(m) ==
    /\ phase = "Active" /\ m.kind = "dispatch"
    /\ \/ /\ "stream" \in peers /\ Len(reqQ) < ReqCap
          /\ reqQ' = Append(reqQ, m.id)
          /\ pc' = "loop"
          /\ UNCHANGED report
       \/ /\ "stream" \notin peers \/ Len(reqQ) = ReqCap
          /\ report' = m.id
          /\ pc' = "failed"
          /\ UNCHANGED reqQ
    /\ UNCHANGED <<phase, sending>>

\* Mutant: a dispatch that failed is only logged.
UpgradeForgets ==
    /\ pc = "failed"
    /\ pc' = "loop"
    /\ report' = NoId
    /\ UNCHANGED <<phase, sending, channelVars>>

\* dispatch() failed: if the weak handle on the response channel can be upgraded,
\* wait for a slot in it.  The channel's only reader is this same actor.
Upgrade ==
    /\ pc = "failed"
    /\ pc' = IF ResponsesClosed THEN "loop" ELSE "report"
    /\ report' = IF ResponsesClosed THEN NoId ELSE report
    /\ UNCHANGED <<phase, sending, channelVars>>

ReportFailure ==
    /\ pc = "report"
    /\ Len(respQ) < RespCap
    /\ respQ' = Append(respQ, report)
    /\ report' = NoId
    /\ pc' = "loop"
    /\ UNCHANGED <<phase, sending, inQ, outQ, reqQ, stop, peers>>

-------------------------------------------------------------------------------
(* The loop: a biased select over stop, responses, messages of the server.  *)
(* It polls one after the other, so that a response may still arrive while  *)
(* it looks at the messages.                                                *)

Spawn ==
    /\ pc = "queued"
    /\ RetrySend(Msg("Hello", NoId), "Handshaking")
    /\ UNCHANGED <<report, channelVars>>

LoopStopped ==
    /\ pc = "loop" /\ stop
    /\ End("exited")

LoopResponse ==
    /\ pc = "loop" /\ ~stop
    /\ respQ # <<>>
    /\ respQ' = Tail(respQ)
    /\ RetrySend(Msg("Response", Head(respQ)), phase)
    /\ UNCHANGED <<report, inQ, outQ, reqQ, stop, peers>>

LoopNoResponse ==
    /\ pc = "loop" /\ ~stop
    /\ respQ = <<>>
    /\ \/ ResponsesClosed /\ End("exited")
       \/ /\ ~ResponsesClosed
          /\ pc' = "incoming"
          /\ UNCHANGED <<phase, sending, report, channelVars>>

LoopMessage ==
    /\ pc = "incoming"
    /\ inQ # <<>>
    /\ inQ' = Tail(inQ)
    /\ LET m == Head(inQ)
       IN  ProtocolError(m) \/ Ignore(m) \/ Ping(m) \/ HelloAck(m) \/ HandleDispatch(m)
    /\ UNCHANGED <<outQ, respQ, stop, peers>>

\* Mutant: the sleeping actor is not woken by its stop token.
LoopNoMessageDeaf ==
    /\ pc = "incoming"
    /\ inQ = <<>>
    /\ \/ "ffi2lib" \notin peers /\ End("exited")
       \/ /\ "ffi2lib" \in peers
          /\ respQ # <<>>
          /\ pc' = "loop"
          /\ UNCHANGED <<phase, sending, report, channelVars>>

\* No message either: the actor sleeps until one of the three is ready.
LoopNoMessage ==
    /\ pc = "incoming"
    /\ inQ = <<>>
    /\ \/ "ffi2lib" \notin peers /\ End("exited")
       \/ /\ "ffi2lib" \in peers
          /\ stop \/ respQ # <<>> \/ ResponsesClosed
          /\ pc' = "loop"
          /\ UNCHANGED <<phase, sending, report, channelVars>>

Loop == LoopStopped \/ LoopResponse \/ LoopNoResponse \/ LoopMessage \/ LoopNoMessage

Actor == Spawn \/ Send \/ Upgrade \/ ReportFailure \/ Loop
===============================================================================
