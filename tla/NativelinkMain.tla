---------------------------- MODULE NativelinkMain ----------------------------
(***************************************************************************)
(* The process as a whole, from the moment it serves: connections that     *)
(* come and go (inner_main of bin/nativelink.rs), and the shutdown that a  *)
(* SIGTERM starts (main(), shutdown_guard.rs, origin_event_publisher.rs).  *)
(* A ShutdownGuard goes out on a broadcast channel; every listener holds   *)
(* a clone of it while it finishes, and whoever waits for a priority waits *)
(* until the counts of the less important ones are zero.                   *)
(***************************************************************************)
EXTENDS Naturals, FiniteSets

CONSTANTS
    Locals,        \* the local workers, subscribers of the channel
    Publisher,     \* the origin event publisher, a subscriber too
    Main,          \* the task that waits for SIGTERM
    Channel,       \* the broadcast channel's slot, which holds a guard as well
    MaxEvents,     \* bound: origin events the workers send
    BatchSize,     \* MAX_EVENTS_PER_BATCH
    Addresses      \* remote addresses

VARIABLES
    map,           \* the watch channel: the count of each priority
    guard,         \* the guards alive: holder -> priority, or Gone
    unread,        \* subscribers that have not received the guard yet
    phase,         \* what each task does
    events,        \* origin events in the publisher's queue
    created,       \* origin events sent so far
    connected,     \* connected_clients_mux
    sockets        \* the addresses with a connection task

mainVars == <<map, guard, unread, phase, events, created, connected, sockets>>

P0 == 0
LeastImportant == 2
Priorities == P0..LeastImportant
Gone == LeastImportant + 1    \* no guard
Listeners == Locals \cup {Publisher}
Holders == Listeners \cup {Main, Channel}

\* ShutdownGuard::default() does not count itself.
MainInit ==
    /\ map = [p \in Priorities |-> 0]
    /\ guard = [h \in Holders |-> IF h = Main THEN LeastImportant ELSE Gone]
    /\ unread = {}
    /\ phase = [h \in Listeners \cup {Main} |-> "running"]
    /\ events = 0 /\ created = 0
    /\ connected = {} /\ sockets = {}

SatSub(n) == IF n = 0 THEN 0 ELSE n - 1

\* clone() of a guard of priority p: the new one is of the least importance.
Cloned(m, p) == [m EXCEPT ![p] = m[LeastImportant] + 1]

\* Mutant: the guard of a task that ended stays counted.
DroppedNot(m, p) == m
\* drop()
Dropped(m, p) == [m EXCEPT ![p] = SatSub(@)]

\* The first half of wait_for(): the guard takes the priority it waits for.
Promoted(m, from, to) ==
    IF from = to THEN m ELSE [m EXCEPT ![from] = SatSub(@), ![to] = @ + 1]

\* Mutant: the priority that waits is waited for.
CompletedInclusive(m, p) == \A less \in p .. LeastImportant : m[less] = 0
\* The condition of wait_for().
Completed(m, p) == \A less \in p + 1 .. LeastImportant : m[less] = 0

(***************************************************************************)
(* Shutdown                                                                *)
(***************************************************************************)
\* SIGTERM: shutdown_tx.send(shutdown_guard.clone()).
Terminate ==
    /\ phase[Main] = "running"
    /\ phase' = [phase EXCEPT ![Main] = "sent"]
    /\ map' = Cloned(map, guard[Main])
    /\ guard' = [guard EXCEPT ![Channel] = LeastImportant]
    /\ unread' = Listeners
    /\ UNCHANGED <<events, created, connected, sockets>>

\* wait_for(P0) and std::process::exit().
MainWaits ==
    /\ phase[Main] = "sent"
    /\ phase' = [phase EXCEPT ![Main] = "waiting"]
    /\ map' = Promoted(map, guard[Main], P0)
    /\ guard' = [guard EXCEPT ![Main] = P0]
    /\ UNCHANGED <<unread, events, created, connected, sockets>>

MainExits ==
    /\ phase[Main] = "waiting" /\ Completed(map, P0)
    /\ phase' = [phase EXCEPT ![Main] = "exited"]
    /\ UNCHANGED <<map, guard, unread, events, created, connected, sockets>>

Alive == phase[Main] # "exited"

\* recv() of a subscriber clones the guard of the slot; the last one frees it.
Receive(h) ==
    LET cloned == Cloned(map, LeastImportant) IN
    /\ Alive /\ h \in unread /\ phase[h] = "running"
    /\ unread' = unread \ {h}
    /\ phase' = [phase EXCEPT ![h] = "stopping"]
    /\ IF unread = {h}
       THEN /\ map' = Dropped(cloned, LeastImportant)
            /\ guard' = [guard EXCEPT ![h] = LeastImportant, ![Channel] = Gone]
       ELSE map' = cloned /\ guard' = [guard EXCEPT ![h] = LeastImportant]
    /\ UNCHANGED <<events, created, connected, sockets>>

\* A worker drains its actions, then drops the guard.
WorkerStops(h) ==
    /\ Alive /\ h \in Locals /\ phase[h] = "stopping"
    /\ phase' = [phase EXCEPT ![h] = "stopped"]
    /\ map' = Dropped(map, guard[h])
    /\ guard' = [guard EXCEPT ![h] = Gone]
    /\ UNCHANGED <<unread, events, created, connected, sockets>>

(***************************************************************************)
(* OriginEventPublisher::run()                                             *)
(***************************************************************************)
SendEvent(h) ==
    /\ Alive /\ h \in Locals /\ phase[h] # "stopped" /\ created < MaxEvents
    /\ events' = events + 1 /\ created' = created + 1
    /\ UNCHANGED <<map, guard, unread, phase, connected, sockets>>

\* recv_many() comes first in the biased select, and in the final drain too.
HandleBatch ==
    /\ Alive /\ events > 0 /\ phase[Publisher] # "stopped"
    /\ events' = IF events > BatchSize THEN events - BatchSize ELSE 0
    /\ UNCHANGED <<map, guard, unread, phase, created, connected, sockets>>

PublisherReceives == events = 0 /\ Receive(Publisher)

PublisherWaits ==
    /\ Alive /\ phase[Publisher] = "stopping"
    /\ phase' = [phase EXCEPT ![Publisher] = "waiting"]
    /\ map' = Promoted(map, guard[Publisher], P0)
    /\ guard' = [guard EXCEPT ![Publisher] = P0]
    /\ UNCHANGED <<unread, events, created, connected, sockets>>

\* The wait is over and the queue is empty: run() returns, and the guard was
\* dropped with the future that waited.
PublisherEnds ==
    /\ Alive /\ phase[Publisher] = "waiting" /\ Completed(map, P0) /\ events = 0
    /\ phase' = [phase EXCEPT ![Publisher] = "stopped"]
    /\ map' = Dropped(map, guard[Publisher])
    /\ guard' = [guard EXCEPT ![Publisher] = Gone]
    /\ UNCHANGED <<unread, events, created, connected, sockets>>

(***************************************************************************)
(* Connections                                                             *)
(***************************************************************************)
\* tcp_listener.accept(); the kernel gives an address out again only after the
\* connection's task closed its socket.
Accept(a) ==
    /\ Alive /\ a \notin sockets
    /\ sockets' = sockets \cup {a}
    /\ connected' = connected \cup {a}
    /\ UNCHANGED <<map, guard, unread, phase, events, created>>

\* Mutant: a connection that fails its TLS handshake keeps its entry.
RemovedSocketKept(a) == connected
\* The scope guard, which the task owns and drops however it ends: a failed
\* TLS handshake, an error of serve_connection, or the end of the connection.
RemovedSocket(a) == connected \ {a}

Disconnect(a) ==
    /\ Alive /\ a \in sockets
    /\ sockets' = sockets \ {a}
    /\ connected' = RemovedSocket(a)
    /\ UNCHANGED <<map, guard, unread, phase, events, created>>

MainNext ==
    \/ Terminate \/ MainWaits \/ MainExits
    \/ \E h \in Locals : Receive(h) \/ WorkerStops(h) \/ SendEvent(h)
    \/ HandleBatch \/ PublisherReceives \/ PublisherWaits \/ PublisherEnds
    \/ \E a \in Addresses : Accept(a) \/ Disconnect(a)

MainSpec == MainInit /\ [][MainNext]_mainVars

\* The runtime polls its tasks, and a worker's actions end.
MainFairSpec ==
    /\ MainSpec
    /\ WF_mainVars(MainWaits) /\ WF_mainVars(MainExits)
    /\ \A h \in Locals : WF_mainVars(Receive(h)) /\ WF_mainVars(WorkerStops(h))
    /\ WF_mainVars(HandleBatch) /\ SF_mainVars(PublisherReceives)
    /\ WF_mainVars(PublisherWaits) /\ SF_mainVars(PublisherEnds)

(***************************************************************************)
(* Properties                                                              *)
(***************************************************************************)
\* Type correctness.
MainTypeOK ==
    /\ map \in [Priorities -> 0..Cardinality(Holders)]
    /\ \A h \in Holders : guard[h] \in Priorities \cup {Gone}
    /\ unread \subseteq Listeners
    /\ events \in 0..created /\ created <= MaxEvents

\* Nobody waits for a guard that is gone: the count of a priority never
\* exceeds the guards alive that have it.
CountsAreGuards ==
    \A p \in Priorities : map[p] <= Cardinality({h \in Holders : guard[h] = p})

\* The clients that the metrics report are those with a connection.
ConnectedIsOpen == connected = sockets

\* "Waits for all priorities less important than the given priority to be
\* completed." (wait_for in shutdown_guard.rs): main() does not exit while a
\* guard of less importance is held.
ExitWaitsForGuards ==
    phase[Main] = "exited" => \A h \in Locals : guard[h] = Gone
=============================================================================
