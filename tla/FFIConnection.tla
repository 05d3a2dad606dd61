----------------------------- MODULE FFIConnection -----------------------------
(***************************************************************************)
(* One connection from the host's calls down to the actor: the             *)
(* FFIConnection of rc-x509-ffi/src/connection.rs with its I/O task (calls *)
(* the host's SendCb) and its dispatch task (calls the host's DispatchCb), *)
(* put together with the actor of module ConnectionActor.                  *)
(*                                                                         *)
(* The host sends what the server sent it, takes dispatch requests,        *)
(* answers each of them once, and disconnects and frees at any time.  A    *)
(* call it makes in a wrong state returns InvalidState and changes         *)
(* nothing, so it is not a step.                                           *)
(***************************************************************************)
EXTENDS ConnectionActor, FiniteSets

CONSTANTS
    InCap,      \* capacity of ffi2lib
    Kinds,      \* what the server may send besides well-formed dispatch requests
    MaxOther    \* how many of those it sends, a bound of the model

ASSUME FFIAssumption ==
    /\ InCap \in Nat \ {0} /\ MaxOther \in Nat
    /\ Kinds \subseteq ServerKinds \ {"dispatch"}

VARIABLES
    ffi,        \* State of the FFIConnection, with the steps of set_disconnected
    io, ioMsg,  \* the I/O task, and the message it is passing to SendCb
    dt, dtId,   \* the dispatch task, and the request it has in hand
    host,       \* requests the host accepted and has not answered
    wire,       \* messages SendCb took, in order
    unsent,     \* dispatch requests the server has not sent yet
    others,     \* how many other messages the server has sent
    view,       \* phase that the messages delivered so far call for
    valid       \* requests delivered when that phase was Active

hostVars == <<host, unsent, others, view, valid>>
taskVars == <<io, ioMsg, dt, dtId>>
vars == <<actorVars, channelVars, taskVars, hostVars, ffi, wire>>

Init ==
    /\ ActorInit
    /\ ffi = "Init"
    /\ io = "unborn" /\ dt = "unborn"
    /\ ioMsg = NoMsg /\ dtId = NoId
    /\ host = {} /\ unsent = Ids /\ others = 0
    /\ view = "Handshaking" /\ valid = {}
    /\ wire = <<>>

-------------------------------------------------------------------------------
(* The host's calls *)

SetSendCallback ==
    /\ ffi = "Init"
    /\ ffi' = "Configured"
    /\ UNCHANGED <<actorVars, channelVars, taskVars, hostVars, wire>>

\* Make the channels, spawn the two tasks, publish the Connected event.
SetConnected ==
    /\ ffi = "Configured"
    /\ ffi' = "Connected"
    /\ io' = "wait" /\ dt' = "wait"
    /\ peers' = Peers
    /\ pc' = "queued"
    /\ UNCHANGED <<phase, sending, report, inQ, outQ, reqQ, respQ, stop, ioMsg, dtId, hostVars, wire>>

\* The phase after message m arrives in phase p, as the protocol has it.
Expected(p, m) ==
    CASE p = "Error" \/ m.kind \in {"ping", "push"}       -> p
      [] p = "Handshaking" /\ m.kind = "ack"              -> "Active"
      [] p = "Active" /\ m.kind = "dispatch"              -> "Active"
      [] OTHER                                            -> "Error"

\* rc_conn_recv: blocks while ffi2lib is full, drops the message when the actor
\* is gone, and returns Success in both cases.
RecvIncoming(m) ==
    /\ ffi = "Connected"
    /\ Ended \/ Len(inQ) < InCap
    /\ inQ' = IF Ended THEN inQ ELSE Append(inQ, m)
    /\ view' = Expected(view, m)
    /\ valid' = IF m.kind = "dispatch" /\ view = "Active" THEN valid \cup {m.id} ELSE valid
    /\ UNCHANGED <<actorVars, outQ, reqQ, respQ, stop, peers, taskVars, host, ffi, wire>>

ServerDispatches(id) ==
    /\ id \in unsent
    /\ unsent' = unsent \ {id}
    /\ RecvIncoming(Msg("dispatch", id))
    /\ UNCHANGED others

ServerSendsOther(kind) ==
    /\ others < MaxOther
    /\ others' = others + 1
    /\ RecvIncoming(Msg(kind, NoId))
    /\ UNCHANGED unsent

\* send_response from any thread: waits for a slot while there is a receiver.
SendResponse(id) ==
    \/ /\ ~Ended /\ Len(respQ) < RespCap
       /\ respQ' = Append(respQ, id)
    \/ /\ Ended
       /\ UNCHANGED respQ

\* rc_conn_dispatch_result or rc_conn_dispatch_error.  A result for a connection
\* that is no longer connected is dropped.
HostAnswers(id) ==
    /\ id \in host
    /\ host' = host \ {id}
    /\ \/ ffi = "Connected" /\ SendResponse(id)
       \/ ffi # "Connected" /\ UNCHANGED respQ
    /\ UNCHANGED <<actorVars, inQ, outQ, reqQ, stop, peers, taskVars,
                   unsent, others, view, valid, ffi, wire>>

\* set_disconnected: signal both tasks, then wait for each of them, then drop the
\* connection's own ends of the channels.
SetDisconnected ==
    /\ ffi = "Connected"
    /\ ffi' = "joinIo"
    /\ UNCHANGED <<actorVars, channelVars, taskVars, hostVars, wire>>

JoinIo ==
    /\ ffi = "joinIo" /\ io = "exited"
    /\ ffi' = "joinDispatch"
    /\ UNCHANGED <<actorVars, channelVars, taskVars, hostVars, wire>>

\* Mutant: the dispatch task is told to stop and not waited for.
JoinDispatchEarly ==
    /\ ffi = "joinDispatch"
    /\ ffi' = "Disconnected"
    /\ peers' = peers \ {"ffi2lib", "responder"}
    /\ UNCHANGED <<actorVars, inQ, outQ, reqQ, respQ, stop, taskVars, hostVars, wire>>

JoinDispatch ==
    /\ ffi = "joinDispatch" /\ dt = "exited"
    /\ ffi' = "Disconnected"
    /\ peers' = peers \ {"ffi2lib", "responder"}
    /\ UNCHANGED <<actorVars, inQ, outQ, reqQ, respQ, stop, taskVars, hostVars, wire>>

Free ==
    /\ ffi \in {"Init", "Configured", "Disconnected"}
    /\ ffi' = "freed"
    /\ UNCHANGED <<actorVars, channelVars, taskVars, hostVars, wire>>

-------------------------------------------------------------------------------
(* The I/O task *)

TasksCancelled == ffi \in {"joinIo", "joinDispatch", "Disconnected", "freed"}

\* The task returns and drops its end of lib2ffi with what is queued there.
IoExits ==
    /\ io' = "exited"
    /\ ioMsg' = NoMsg
    /\ outQ' = <<>>
    /\ peers' = peers \ {"lib2ffi"}

IoTakes ==
    /\ io = "wait" /\ ~TasksCancelled
    /\ outQ # <<>>
    /\ ioMsg' = Head(outQ) /\ outQ' = Tail(outQ)
    /\ io' = "callback"
    /\ UNCHANGED <<actorVars, inQ, reqQ, respQ, stop, peers, dt, dtId, hostVars, ffi, wire>>

\* Mutant: the task ends only when the actor has dropped its end.
IoStopsWhenClosed ==
    /\ io = "wait"
    /\ Ended /\ outQ = <<>>
    /\ IoExits
    /\ UNCHANGED <<actorVars, inQ, reqQ, respQ, stop, dt, dtId, hostVars, ffi, wire>>

IoStops ==
    /\ io = "wait"
    /\ TasksCancelled \/ (Ended /\ outQ = <<>>)
    /\ IoExits
    /\ UNCHANGED <<actorVars, inQ, reqQ, respQ, stop, dt, dtId, hostVars, ffi, wire>>

SendCbTakes ==
    /\ io = "callback"
    /\ wire' = Append(wire, ioMsg)
    /\ io' = "wait"
    /\ ioMsg' = NoMsg
    /\ UNCHANGED <<actorVars, channelVars, dt, dtId, hostVars, ffi>>

\* SendRet::Closed or SendRet::Unknown.
SendCbFails ==
    /\ io = "callback"
    /\ IoExits
    /\ UNCHANGED <<actorVars, inQ, reqQ, respQ, stop, dt, dtId, hostVars, ffi, wire>>

IoTask == IoTakes \/ IoStops \/ SendCbTakes \/ SendCbFails

-------------------------------------------------------------------------------
(* The dispatch task *)

DispatchExits ==
    /\ dt' = "exited"
    /\ dtId' = NoId
    /\ reqQ' = <<>>
    /\ peers' = peers \ {"stream", "taskResponder"}

DispatchTakes ==
    /\ dt = "wait" /\ ~TasksCancelled
    /\ reqQ # <<>>
    /\ dtId' = Head(reqQ) /\ reqQ' = Tail(reqQ)
    /\ dt' = "callback"
    /\ UNCHANGED <<actorVars, inQ, outQ, respQ, stop, peers, io, ioMsg, hostVars, ffi, wire>>

DispatchStops ==
    /\ dt = "wait"
    /\ TasksCancelled \/ (Ended /\ reqQ = <<>>)
    /\ DispatchExits
    /\ UNCHANGED <<actorVars, inQ, outQ, respQ, stop, io, ioMsg, hostVars, ffi, wire>>

\* Mutant: the task answers a request the host has accepted.
DispatchCbAcceptsAndReplies ==
    /\ dt = "callback"
    /\ host' = host \cup {dtId}
    /\ dt' = "reply"
    /\ UNCHANGED <<actorVars, channelVars, io, ioMsg, dtId, unsent, others, view, valid, ffi, wire>>

\* DispatchRet::Success: the host answers later, on a thread of its own.
DispatchCbAccepts ==
    /\ dt = "callback"
    /\ host' = host \cup {dtId}
    /\ dtId' = NoId
    /\ dt' = "wait"
    /\ UNCHANGED <<actorVars, channelVars, io, ioMsg, unsent, others, view, valid, ffi, wire>>

\* Any other DispatchRet: the task answers with an error itself.
DispatchCbRefuses ==
    /\ dt = "callback"
    /\ dt' = "reply"
    /\ UNCHANGED <<actorVars, channelVars, io, ioMsg, dtId, hostVars, ffi, wire>>

DispatchReplies ==
    /\ dt = "reply"
    /\ \/ /\ ~Ended
          /\ dt' = "wait" /\ dtId' = NoId
          /\ UNCHANGED <<reqQ, peers>>
       \/ Ended /\ DispatchExits
    /\ SendResponse(dtId)
    /\ UNCHANGED <<actorVars, inQ, outQ, stop, io, ioMsg, hostVars, ffi, wire>>

DispatchTask ==
    DispatchTakes \/ DispatchStops \/ DispatchCbAccepts \/ DispatchCbRefuses \/ DispatchReplies

-------------------------------------------------------------------------------
(* The event loop, as far as one connection sees it *)

\* The event loop stops the actor: the client shuts down, another connection
\* became the active one, or this one was disconnected.
RequestStop ==
    /\ pc \notin {"unborn", "queued"} /\ ~Ended /\ ~stop
    /\ stop' = TRUE
    /\ UNCHANGED <<actorVars, inQ, outQ, reqQ, respQ, peers, taskVars, hostVars, ffi, wire>>

\* The event loop ended before it came to the Connected event.
EventDropped ==
    /\ pc = "queued"
    /\ End("exited")
    /\ UNCHANGED <<taskVars, hostVars, ffi, wire>>

\* Nothing is left to do: the host freed the connection and every task ended.
Finished ==
    /\ ffi = "freed"
    /\ pc = "unborn" \/ Ended
    /\ host = {}
    /\ UNCHANGED vars

ActorStep == Actor /\ UNCHANGED <<taskVars, hostVars, ffi, wire>>
Disconnect == JoinIo \/ JoinDispatch

Next ==
    \/ ActorStep \/ IoTask \/ DispatchTask
    \/ SetSendCallback \/ SetConnected \/ SetDisconnected \/ Disconnect \/ Free
    \/ \E id \in Ids : ServerDispatches(id) \/ HostAnswers(id)
    \/ \E kind \in Kinds : ServerSendsOther(kind)
    \/ RequestStop \/ EventDropped \/ Finished

Spec == Init /\ [][Next]_vars

-------------------------------------------------------------------------------
(* Fairness.  The runtime and the blocking threads run what is ready; the   *)
(* host's callbacks return and it answers what it accepted; the event loop  *)
(* stops the actor of a connection that was disconnected.  When the server  *)
(* sends and when the host disconnects is left open.                        *)

StopAfterDisconnect == ffi \in {"Disconnected", "freed"} /\ RequestStop

Fairness ==
    /\ WF_vars(ActorStep) /\ WF_vars(IoTask) /\ WF_vars(DispatchTask)
    /\ WF_vars(Disconnect) /\ WF_vars(StopAfterDisconnect)
    /\ \A id \in Ids : WF_vars(HostAnswers(id))

FairSpec == Spec /\ Fairness

-------------------------------------------------------------------------------
(* Properties *)

\* The places where request id is after the actor took it from ffi2lib, first as a
\* request and then as an answer on its way to the wire.
Count(q, x) == Cardinality({k \in 1..Len(q) : q[k] = x})
At(v, x) == IF v = x THEN 1 ELSE 0
In(S, x) == IF x \in S THEN 1 ELSE 0
Answer(id) == Msg("Response", id)
AsRequest(id) == Count(reqQ, id) + At(report, id) + At(dtId, id) + In(host, id)
AsAnswer(id) ==
    Count(respQ, id) + At(sending, Answer(id)) + Count(outQ, Answer(id))
        + At(ioMsg, Answer(id)) + Count(wire, Answer(id))
Places(id) == AsRequest(id) + AsAnswer(id)

\* The requests that have reached the dispatch path, and what came of them.
Dispatched ==
    {reqQ[k] : k \in 1..Len(reqQ)} \cup {respQ[k] : k \in 1..Len(respQ)}
        \cup {outQ[k].id : k \in 1..Len(outQ)} \cup {wire[k].id : k \in 1..Len(wire)}
        \cup host \cup {dtId, report, sending.id, ioMsg.id}

\* A request reaches the dispatch path only if it was delivered after a good
\* ClientHelloAck and before any protocol violation (fsm/handshaking, active).
DispatchedOnlyWhenActive ==
    Dispatched \subseteq valid \cup {NoId}

\* A request is in one place at a time from the actor to the wire, so it is
\* dispatched once and answered at most once, by the host, by the dispatch task
\* or by dispatch() itself.
AnsweredAtMostOnce ==
    \A id \in Ids : Places(id) <= 1

\* When rc_conn_disconnected returns, no callback of the host is running and none
\* will be called again (comment in set_connected).
NoCallbackAfterDisconnect ==
    ffi \in {"Disconnected", "freed"} => io \in {"unborn", "exited"} /\ dt \in {"unborn", "exited"}

\* A request delivered in the Active phase is answered on the wire, unless the
\* connection closes, the actor ends or the I/O task died of a failed SendCb.
Closing == ffi # "Connected" \/ stop \/ Ended \/ io = "exited"
Answered(id) == \E i \in 1..Len(wire) : wire[i] = Msg("Response", id)
RequestsAnswered ==
    \A id \in Ids : (id \in valid) ~> (Answered(id) \/ Closing)

\* A thread blocked in rc_conn_recv gets through: ffi2lib drains, in every phase
\* (recv_incoming, run_loop).
RecvUnblocks ==
    (Len(inQ) = InCap) ~> (Len(inQ) < InCap)

\* "Use `stop` to request a graceful shutdown of this task" (ConnectionActor::run):
\* an actor that is asked to stop ends.
StopTerminates ==
    stop ~> Ended

\* rc_conn_disconnected returns (set_disconnected joins both tasks).
DisconnectReturns ==
    (ffi = "joinIo") ~> (ffi \in {"Disconnected", "freed"})

\* "it is guaranteed there is always a slot in the reply queue": the actor, which
\* is the queue's only reader, finds one when it must report a failed dispatch
\* (new_dispatcher_interconnect, dispatch).
ReplySlotAvailable ==
    pc = "report" => Len(respQ) < RespCap

\* "Retry sending `value` over `io` until it succeeds, or `stop` is cancelled":
\* a full lib2ffi does not end the actor (retry_send).
ActorNeverPanics ==
    pc # "panicked"

-------------------------------------------------------------------------------
(* The inductive invariant behind DispatchedOnlyWhenActive,                 *)
(* NoCallbackAfterDisconnect and AnsweredAtMostOnce.                        *)

\* set_connected starts the tasks, set_disconnected has joined them when it says so.
TasksJoined ==
    /\ ffi \in {"Init", "Configured"} => io = "unborn" /\ dt = "unborn" /\ pc = "unborn"
    /\ ffi = "joinDispatch" => io = "exited"
    /\ NoCallbackAfterDisconnect

FromServer == [kind : ServerKinds, id : Ids \cup {NoId}]
ToServer   == [kind : {"none", "Hello", "Pong", "ProtocolError", "Response"}, id : valid \cup {NoId}]

\* What the dispatch path holds is about requests in valid.
PathInv ==
    /\ valid \subseteq Ids /\ host \subseteq valid
    /\ reqQ \in Seq(valid) /\ respQ \in Seq(valid)
    /\ outQ \in Seq(ToServer) /\ wire \in Seq(ToServer)
    /\ sending \in ToServer /\ ioMsg \in ToServer
    /\ dtId \in valid \cup {NoId} /\ (dt \in {"callback", "reply"} => dtId \in valid)
    /\ report \in valid \cup {NoId} /\ (pc \in {"failed", "report"} => report \in valid)

\* The phase the actor is in, once it has been spawned.
Reached == IF pc \in {"unborn", "queued"} THEN "Handshaking" ELSE phase

\* The phases ps that the queued messages will lead through, from the actor's own
\* to the one that all that was delivered calls for.
Leads(ps) ==
    /\ ps \in Seq({"Handshaking", "Active", "Error"}) /\ Len(ps) = Len(inQ) + 1
    /\ ps[1] = Reached /\ ps[Len(ps)] = view
    /\ \A k \in 1..Len(inQ) :
          /\ ps[k + 1] = Expected(ps[k], inQ[k])
          /\ inQ[k].kind = "dispatch" /\ ps[k] = "Active" => inQ[k].id \in valid

QueueInv ==
    /\ inQ \in Seq(FromServer)
    /\ view \in {"Handshaking", "Active", "Error"}
    /\ Ended \/ \E ps \in Seq({"Handshaking", "Active", "Error"}) : Leads(ps)

\* The server sends a request once, and each step moves it on or loses it.
Undelivered(id) == In(unsent, id) + Count(inQ, Msg("dispatch", id))
Copies(id) == Undelivered(id) + Places(id)
OnceInv == \A id \in Ids : Copies(id) <= 1

IInv == TasksJoined /\ PathInv /\ QueueInv /\ OnceInv
===============================================================================
