------------------------------ MODULE EventLoop ------------------------------
(***************************************************************************)
(* The client library's event loop (handle_connection_events and           *)
(* Main::entrypoint in entrypoint.rs) with the context that owns it        *)
(* (ctx.rs): connections publish lifecycle events into one unbounded       *)
(* channel, and the loop spawns, replaces and stops connection actors.     *)
(*                                                                         *)
(* An actor is reduced to whether it runs.  What it does, and when it ends *)
(* once it is told to, is the subject of module FFIConnection.             *)
(***************************************************************************)
EXTENDS Naturals, Sequences

CONSTANT
    MaxConns      \* how many connections the host opens, a bound of the model

Conns  == 1..MaxConns
NoConn == 0

ASSUME EventLoopAssumption == MaxConns \in Nat \ {0}

VARIABLES
    ctx,        \* open, freeing (in rc_free) or freed
    conn,       \* the connections, as the host sees them
    overlapped, \* the host opened one before it had freed the one before it
    events,     \* lifecycle events published and not yet taken
    loop,       \* the event loop: select, await, awaitLast or returned
    active,     \* active_conn
    awaited,    \* the connection whose actor ActiveConn::stop waits for
    cancelled,  \* connections whose actor's own token was cancelled
    actor       \* the actor task of each connection

vars == <<ctx, conn, overlapped, events, loop, active, awaited, cancelled, actor>>

Event == [kind : {"Init", "Connected", "Disconnected", "Release"}, conn : Conns]

TypeOK ==
    /\ ctx \in {"open", "freeing", "freed"}
    /\ conn \in [Conns -> {"none", "Init", "Connected", "Disconnected", "freed"}]
    /\ overlapped \in BOOLEAN
    /\ events \in Seq(Event)
    /\ loop \in {"select", "await", "awaitLast", "returned"}
    /\ active \in Conns \cup {NoConn} /\ awaited \in Conns \cup {NoConn}
    /\ cancelled \subseteq Conns
    /\ actor \in [Conns -> {"none", "running", "ended", "panicked"}]

Init ==
    /\ ctx = "open"
    /\ conn = [c \in Conns |-> "none"]
    /\ overlapped = FALSE
    /\ events = <<>>
    /\ loop = "select"
    /\ active = NoConn /\ awaited = NoConn
    /\ cancelled = {}
    /\ actor = [c \in Conns |-> "none"]

-------------------------------------------------------------------------------
(* The host *)

Released(c) == conn[c] \in {"none", "freed"}

\* publish_event; it panics when the loop has dropped the receiver.
Publish(c, kind) ==
    /\ loop # "returned"
    /\ events' = Append(events, [kind |-> kind, conn |-> c])
    /\ UNCHANGED <<ctx, loop, active, awaited, cancelled, actor>>

NewConnection(c) ==
    /\ ctx = "open" /\ conn[c] = "none"
    /\ \A d \in 1..(c - 1) : conn[d] # "none"
    /\ conn' = [conn EXCEPT ![c] = "Init"]
    /\ overlapped' = (overlapped \/ \E d \in 1..(c - 1) : conn[d] # "freed")
    /\ Publish(c, "Init")

Connected(c) ==
    /\ conn[c] = "Init"
    /\ conn' = [conn EXCEPT ![c] = "Connected"]
    /\ Publish(c, "Connected")
    /\ UNCHANGED overlapped

Disconnected(c) ==
    /\ conn[c] = "Connected"
    /\ conn' = [conn EXCEPT ![c] = "Disconnected"]
    /\ Publish(c, "Disconnected")
    /\ UNCHANGED overlapped

Release(c) ==
    /\ conn[c] \in {"Init", "Disconnected"}
    /\ conn' = [conn EXCEPT ![c] = "freed"]
    /\ Publish(c, "Release")
    /\ UNCHANGED overlapped

\* rc_free, which the host calls when it has released every connection: signal
\* the shutdown, drop the sender, join the runtime's thread.
FreeCtx ==
    /\ ctx = "open"
    /\ \A c \in Conns : Released(c)
    /\ ctx' = "freeing"
    /\ UNCHANGED <<conn, overlapped, events, loop, active, awaited, cancelled, actor>>

-------------------------------------------------------------------------------
(* The event loop *)

\* ActiveConn::stop: cancel the actor's token, then wait for the task.
StopActor(c, next) ==
    /\ cancelled' = cancelled \cup {c}
    /\ awaited' = c
    /\ loop' = next

NoStop(next) ==
    /\ loop' = next
    /\ UNCHANGED <<cancelled, awaited>>

TakeOther ==
    /\ loop = "select" /\ events # <<>>
    /\ Head(events).kind \in {"Init", "Release"}
    /\ events' = Tail(events)
    /\ UNCHANGED <<ctx, conn, overlapped, loop, active, awaited, cancelled, actor>>

\* Mutant: the stop hits the connection that was just stored.
TakeConnectedStopsNew ==
    /\ loop = "select" /\ events # <<>>
    /\ Head(events).kind = "Connected"
    /\ events' = Tail(events)
    /\ active' = Head(events).conn
    /\ actor' = [actor EXCEPT ![active'] = "running"]
    /\ StopActor(active', "await")
    /\ UNCHANGED <<ctx, conn, overlapped>>

\* The new actor runs before the one it replaces is stopped.
TakeConnected ==
    /\ loop = "select" /\ events # <<>>
    /\ Head(events).kind = "Connected"
    /\ events' = Tail(events)
    /\ active' = Head(events).conn
    /\ actor' = [actor EXCEPT ![active'] = "running"]
    /\ IF active = NoConn THEN NoStop("select") ELSE StopActor(active, "await")
    /\ UNCHANGED <<ctx, conn, overlapped>>

\* Mutant: the handle is dropped and the actor left to itself.
TakeDisconnectedDetaches ==
    /\ loop = "select" /\ events # <<>>
    /\ Head(events).kind = "Disconnected"
    /\ events' = Tail(events)
    /\ active' = NoConn
    /\ NoStop("select")
    /\ UNCHANGED <<ctx, conn, overlapped, actor>>

\* Mutant: the loop ends with the active connection.
TakeDisconnectedReturns ==
    /\ loop = "select" /\ events # <<>>
    /\ Head(events).kind = "Disconnected"
    /\ events' = Tail(events)
    /\ active' = NoConn
    /\ IF active = NoConn THEN NoStop("select") ELSE StopActor(active, "awaitLast")
    /\ UNCHANGED <<ctx, conn, overlapped, actor>>

\* The event does not say which connection it is about.
TakeDisconnected ==
    /\ loop = "select" /\ events # <<>>
    /\ Head(events).kind = "Disconnected"
    /\ events' = Tail(events)
    /\ active' = NoConn
    /\ IF active = NoConn THEN NoStop("select") ELSE StopActor(active, "await")
    /\ UNCHANGED <<ctx, conn, overlapped, actor>>

\* The shutdown signal, or the end of the event stream.
LoopEnds ==
    /\ loop = "select" /\ ctx = "freeing"
    /\ active' = NoConn
    /\ IF active = NoConn THEN NoStop("returned") ELSE StopActor(active, "awaitLast")
    /\ events' = IF active = NoConn THEN <<>> ELSE events
    /\ UNCHANGED <<ctx, conn, overlapped, actor>>

\* Mutant: a task that panicked is taken for one that still runs.
ActorJoinedIfEnded ==
    /\ loop \in {"await", "awaitLast"}
    /\ actor[awaited] = "ended"
    /\ awaited' = NoConn
    /\ loop' = IF loop = "await" THEN "select" ELSE "returned"
    /\ events' = IF loop = "await" THEN events ELSE <<>>
    /\ UNCHANGED <<ctx, conn, overlapped, active, cancelled, actor>>

\* The task ActiveConn::stop waits for has ended, or panicked, which is logged.
ActorJoined ==
    /\ loop \in {"await", "awaitLast"}
    /\ actor[awaited] \in {"ended", "panicked"}
    /\ awaited' = NoConn
    /\ loop' = IF loop = "await" THEN "select" ELSE "returned"
    /\ events' = IF loop = "await" THEN events ELSE <<>>
    /\ UNCHANGED <<ctx, conn, overlapped, active, cancelled, actor>>

Loop == TakeOther \/ TakeConnected \/ TakeDisconnected \/ LoopEnds \/ ActorJoined

-------------------------------------------------------------------------------
(* The actors and the runtime *)

\* The token is a child of the shutdown signal.
Cancelled(c) == c \in cancelled \/ ctx # "open"

\* An actor ends when it is cancelled, or finds that the FFI layer dropped its
\* ends of the channels.
ActorEnds(c) ==
    /\ actor[c] = "running"
    /\ Cancelled(c) \/ conn[c] \in {"Disconnected", "freed"}
    /\ actor' = [actor EXCEPT ![c] = "ended"]
    /\ UNCHANGED <<ctx, conn, overlapped, events, loop, active, awaited, cancelled>>

ActorPanics(c) ==
    /\ actor[c] = "running"
    /\ actor' = [actor EXCEPT ![c] = "panicked"]
    /\ UNCHANGED <<ctx, conn, overlapped, events, loop, active, awaited, cancelled>>

\* The entrypoint returns; only then does shutdown_timeout begin, which drops what
\* still runs.  The thread ends and rc_free returns.
RuntimeEnds ==
    /\ ctx = "freeing" /\ loop = "returned"
    /\ ctx' = "freed"
    /\ actor' = [c \in Conns |-> IF actor[c] = "running" THEN "ended" ELSE actor[c]]
    /\ UNCHANGED <<conn, overlapped, events, loop, active, awaited, cancelled>>

Finished == ctx = "freed" /\ UNCHANGED vars

Host(c) == NewConnection(c) \/ Connected(c) \/ Disconnected(c) \/ Release(c)

Next ==
    \/ \E c \in Conns : Host(c) \/ ActorEnds(c) \/ ActorPanics(c)
    \/ FreeCtx \/ Loop \/ RuntimeEnds \/ Finished

Spec == Init /\ [][Next]_vars

\* The runtime's thread runs the loop and the actors; nothing is asked of the host.
FairSpec ==
    /\ Spec
    /\ WF_vars(Loop) /\ WF_vars(RuntimeEnds)
    /\ \A c \in Conns : WF_vars(ActorEnds(c))

-------------------------------------------------------------------------------
(* Properties *)

\* "A single connection can be active at any one time" (handle_connection_events):
\* an actor that runs is the active one or the one whose end the loop waits for,
\* and if the host opens one connection after the other there is only one.
OneActorAtATime ==
    /\ \A c \in Conns : actor[c] = "running" => c \in {active, awaited}
    /\ ~overlapped => \A c, d \in Conns :
          (actor[c] = "running" /\ actor[d] = "running") => c = d

\* A thread of the host that publishes an event finds the loop listening, so the
\* expect of publish_event does not fail, as long as every connection is released
\* before rc_free.
LoopOutlivesConnections ==
    (\E c \in Conns : ~Released(c)) => loop # "returned"

\* If the host opens one connection after the other ("this assumes the host opens
\* a single connection"), late events of one connection do not stop the actor of
\* the next one.
StopsOnlyItsConnection ==
    ~overlapped => \A c \in Conns : conn[c] = "Connected" => c \notin cancelled

\* A connection that stays connected gets an actor (handle_connection_events is
\* not held up by the actor it replaced).
ConnectedGetsActor ==
    \A c \in Conns : (conn[c] = "Connected") ~> (actor[c] # "none" \/ conn[c] # "Connected")

\* rc_free returns (Ctx::shutdown joins the runtime's thread).
FreeReturns ==
    (ctx = "freeing") ~> (ctx = "freed")
-------------------------------------------------------------------------------
(* The inductive invariant behind the three safety properties.  Whether an  *)
(* event is late depends on what is still queued in front of it and behind  *)
(* it, so most of it is about the queue.                                    *)

\* The loop waits for a task exactly when it knows one, and stops only after the
\* connections were released.
LoopState ==
    /\ loop \in {"await", "awaitLast"} <=> awaited # NoConn
    /\ loop \in {"awaitLast", "returned"} => ctx # "open" /\ active = NoConn
    /\ ctx # "open" => \A c \in Conns : Released(c)

\* An actor is spawned for a connection that got as far as Connected, and runs in
\* the hands of the loop.
ActorState ==
    \A c \in Conns :
        /\ actor[c] # "none" => conn[c] \in {"Connected", "Disconnected", "freed"}
        /\ c \in cancelled \cup {active, awaited} => actor[c] # "none"
        /\ actor[c] = "running" => c \in {active, awaited}

IsKind(k, kind) == k \in 1..Len(events) /\ events[k].kind = kind

\* A Connected event is queued once, until its actor is spawned.
ConnectedQueued ==
    \A k \in 1..Len(events) : IsKind(k, "Connected") =>
        /\ conn[events[k].conn] \in {"Connected", "Disconnected", "freed"}
        /\ actor[events[k].conn] = "none"
        /\ \A j \in 1..Len(events) : events[j] = events[k] => j = k

\* With one connection after the other, a Disconnected event stands between any
\* two Connected events, and between the active connection and the next one.
Between ==
    \A k \in 1..Len(events) : IsKind(k, "Connected") =>
        /\ active # NoConn => \E j \in 1..(k - 1) : IsKind(j, "Disconnected")
        /\ \A i \in 1..(k - 1) : IsKind(i, "Connected") =>
              \E j \in (i + 1)..(k - 1) : IsKind(j, "Disconnected")

\* While none is up, a Disconnected event follows the active connection and every
\* Connected event.
Followed ==
    (\A c \in Conns : conn[c] # "Connected") =>
        /\ active # NoConn => \E j \in 1..Len(events) : IsKind(j, "Disconnected")
        /\ \A i \in 1..Len(events) : IsKind(i, "Connected") =>
              \E j \in (i + 1)..Len(events) : IsKind(j, "Disconnected")

\* The connection that is up comes after every Disconnected event.
UpIsLast ==
    \A c \in Conns : conn[c] = "Connected" =>
        \A i \in 1..Len(events) : IsKind(i, "Disconnected") =>
            \E k \in (i + 1)..Len(events) : events[k] = [kind |-> "Connected", conn |-> c]

Sequential ==
    /\ \A c \in Conns : conn[c] # "none" => \A d \in 1..(c - 1) : conn[d] = "freed"
    /\ awaited # NoConn => active = NoConn
    /\ \A c \in Conns : conn[c] = "Connected" => c \notin cancelled

IInv ==
    /\ TypeOK /\ LoopState /\ ActorState /\ ConnectedQueued
    /\ ~overlapped => Sequential /\ Between /\ Followed /\ UpIsLast
===============================================================================
