-------------------------- MODULE ConnectionManager --------------------------
(* The connection manager of the gRPC clients                                 *)
(* (nativelink-util/src/connection_manager.rs): a worker task owns the        *)
(* established channels, lends one to each request as a Connection, limits    *)
(* how many are lent, and reconnects when a Connection reports an error. A    *)
(* Connection only talks to the worker through an unbounded queue.            *)
EXTENDS Naturals, Sequences, SequencesExt, FiniteSets

CONSTANTS Endpoints,
          PerEndpoint,  \* connections_per_endpoint
          MaxRequests,  \* max_concurrent_requests
          Requesters,   \* tasks that ask for a connection
          MaxIndex      \* how many connections an endpoint may make

VARIABLES endpointIndex,        \* endpoints: last connection index of each
          allowed,      \* available_connections
          connecting,   \* connecting_channels
          channels,     \* available_channels
          cmWaiting,      \* waiting_connections
          asked,        \* worker_rx
          inbox,        \* connection_rx
          user          \* each requester: what it waits for or holds

cmVars == <<endpointIndex, allowed, connecting, channels, cmWaiting, asked, inbox, user>>

WorkerBacklog == 8

Id(e, i) == [endpoint |-> e, index |-> i]

NoChannel == [endpoint |-> "none", index |-> 0]

\* The request of a requester that went away is answered into the void.
Away == [st |-> "away", id |-> NoChannel, pending |-> FALSE]

ConnectionRequest(kind, id) == [kind |-> kind, id |-> id]

\* connect_endpoint() for a first connection, or a new one after an error.
CmInit ==
    /\ endpointIndex = [e \in Endpoints |-> PerEndpoint]
    /\ connecting = {Id(e, i) : e \in Endpoints, i \in 1 .. PerEndpoint}
    /\ allowed = MaxRequests /\ channels = <<>> /\ cmWaiting = <<>>
    /\ asked = <<>> /\ inbox = <<>>
    /\ user = [r \in Requesters |-> Away]

-----------------------------------------------------------------------------
(* The worker. Its handlers are functions of the state they share:            *)
(* s = [allowed, channels, waiting, inbox, user].                             *)

State == [allowed |-> allowed, channels |-> channels, waiting |-> cmWaiting,
          inbox |-> inbox, user |-> user]

Becomes(s) ==
    /\ allowed' = s.allowed /\ channels' = s.channels /\ cmWaiting' = s.waiting
    /\ inbox' = s.inbox /\ user' = s.user

\* Mutant: a Connection nobody takes is not counted.
ProvideChannelUncounted(s, id, r) ==
    IF s.user[r].st = "waits"
    THEN [s EXCEPT !.allowed = @ - 1,
                   !.user[r] = [st |-> "holds", id |-> id, pending |-> TRUE]]
    ELSE [s EXCEPT !.user[r] = Away, !.inbox = Append(@, ConnectionRequest("Dropped", id))]

\* provide_channel(): a Connection for the one who asked, or, when they left, a
\* Connection that is dropped at once.
ProvideChannel(s, id, r) ==
    IF s.user[r].st = "waits"
    THEN [s EXCEPT !.allowed = @ - 1,
                   !.user[r] = [st |-> "holds", id |-> id, pending |-> TRUE]]
    ELSE [s EXCEPT !.allowed = @ - 1, !.user[r] = Away,
                   !.inbox = Append(@, ConnectionRequest("Dropped", id))]

\* maybe_available_connection(): serves waiting requests while it can.
Servable(s) == s.allowed > 0 /\ s.waiting # <<>> /\ s.channels # <<>>

ServeOne(s) ==
    IF Servable(s)
    THEN ProvideChannel([s EXCEPT !.channels = Tail(@), !.waiting = Tail(@)],
                        Head(s.channels), Head(s.waiting))
    ELSE s

\* Mutant: a channel that comes back only waits to be asked for.
MaybeAvailableLater(s) == s

\* As many rounds as there are waiting requests.
MaybeAvailableConnection(s) ==
    FoldLeft(LAMBDA t, r : ServeOne(t), s, s.waiting)

HandleWorker ==
    /\ asked # <<>> /\ asked' = Tail(asked)
    /\ LET r == Head(asked) IN
       Becomes(IF allowed > 0 /\ channels # <<>>
               THEN ProvideChannel([State EXCEPT !.channels = Tail(@)], Head(channels), r)
               ELSE [State EXCEPT !.waiting = Append(@, r)])
    /\ UNCHANGED <<endpointIndex, connecting>>

\* handle_connected(): an endpoint that could not be reached is tried again.
HandleConnected(id) ==
    /\ id \in connecting
    /\ \/ /\ connecting' = connecting \ {id}
          /\ Becomes(MaybeAvailableConnection([State EXCEPT !.channels = Append(@, id)]))
       \/ UNCHANGED <<connecting, allowed, channels, cmWaiting, inbox, user>>
    /\ UNCHANGED <<endpointIndex, asked>>

ConnectEndpoint(e) ==
    /\ endpointIndex' = [endpointIndex EXCEPT ![e] = @ + 1]
    /\ connecting' = connecting \cup {Id(e, endpointIndex[e] + 1)}

\* Mutant: a Connection that was dropped before it was ready is not returned.
ReturnedNever(s, id) == s

\* The channel of a Connection dropped while it was pending is usable again.
Returned(s, id) == IF id = NoChannel THEN s ELSE [s EXCEPT !.channels = Append(@, id)]

\* Mutant: every reported error makes a new connection.
BrokenAlways(m) == TRUE

\* Whether the error is the first one reported for its channel.
Broken(m) == m.kind = "ErrorPending" \/ m.id \in {channels[i] : i \in DOMAIN channels}

\* handle_connection()
HandleConnection ==
    /\ inbox # <<>>
    /\ LET m == Head(inbox)
           s == [State EXCEPT !.inbox = Tail(@)]
       IN  CASE m.kind = "Dropped" ->
                  /\ Becomes(MaybeAvailableConnection(
                               [Returned(s, m.id) EXCEPT !.allowed = @ + 1]))
                  /\ UNCHANGED <<endpointIndex, connecting>>
             [] m.kind = "Connected" ->
                  /\ Becomes(MaybeAvailableConnection([s EXCEPT !.channels = Append(@, m.id)]))
                  /\ UNCHANGED <<endpointIndex, connecting>>
             [] m.kind \in {"Error", "ErrorPending"} ->
                  /\ Becomes([s EXCEPT !.channels = SelectSeq(@, LAMBDA id : id # m.id)])
                  /\ IF Broken(m) THEN ConnectEndpoint(m.id.endpoint)
                     ELSE UNCHANGED <<endpointIndex, connecting>>
    /\ UNCHANGED asked

-----------------------------------------------------------------------------
(* The requesters and their Connections.                                      *)

Keep == UNCHANGED <<endpointIndex, allowed, connecting, channels, cmWaiting>>

Says(kind, id) == inbox' = Append(inbox, ConnectionRequest(kind, id))

\* MaxIndex bounds how often the transport breaks.
MayBreak(id) ==
    endpointIndex[id.endpoint] + Cardinality({i \in DOMAIN inbox : inbox[i].kind \in {"Error", "ErrorPending"}})
      < MaxIndex

\* connection()
Connection(r) ==
    /\ user[r] = Away /\ Len(asked) < WorkerBacklog
    /\ r \notin {asked[i] : i \in DOMAIN asked} \cup {cmWaiting[i] : i \in DOMAIN cmWaiting}
    /\ user' = [user EXCEPT ![r].st = "waits"] /\ asked' = Append(asked, r)
    /\ UNCHANGED inbox /\ Keep

\* The task waiting for a connection is cancelled.
GiveUp(r) ==
    /\ user[r].st = "waits" /\ user' = [user EXCEPT ![r] = Away]
    /\ UNCHANGED <<asked, inbox>> /\ Keep

\* poll_ready(): the first success hands the channel back to the worker.
PollReady(r) ==
    /\ user[r].st = "holds"
    /\ \/ user[r].pending /\ Says("Connected", user[r].id)
       \/ MayBreak(user[r].id) /\ Says(IF user[r].pending THEN "ErrorPending" ELSE "Error", user[r].id)
    /\ user' = [user EXCEPT ![r].pending = FALSE, ![r].st = "called"]
    /\ UNCHANGED asked /\ Keep

\* ResponseFuture: the answer comes, or the transport broke.
Respond(r) ==
    /\ user[r].st = "called"
    /\ \/ MayBreak(user[r].id) /\ Says("Error", user[r].id)
       \/ UNCHANGED inbox
    /\ user' = [user EXCEPT ![r].st = "answered"]
    /\ UNCHANGED asked /\ Keep

DropConnection(r) ==
    /\ user[r].st \in {"holds", "called", "answered"}
    /\ Says("Dropped", IF user[r].pending THEN user[r].id ELSE NoChannel)
    /\ user' = [user EXCEPT ![r] = Away]
    /\ UNCHANGED asked /\ Keep

ConnectionWorker ==
    HandleWorker \/ HandleConnection \/ \E id \in connecting : HandleConnected(id)

CmNext ==
    \/ ConnectionWorker
    \/ \E r \in Requesters :
         Connection(r) \/ GiveUp(r) \/ PollReady(r) \/ Respond(r) \/ DropConnection(r)

CmSpec == CmInit /\ [][CmNext]_cmVars

\* The worker task is scheduled, an endpoint that is tried for ever is reached,
\* and a Connection is dropped some day.
CmFairness ==
    /\ WF_cmVars(HandleWorker) /\ WF_cmVars(HandleConnection)
    /\ WF_cmVars(\E id \in connecting : HandleConnected(id) /\ connecting' # connecting)
    /\ \A r \in Requesters : WF_cmVars(DropConnection(r))

CmFairSpec == CmSpec /\ CmFairness

-----------------------------------------------------------------------------

Messages(kinds) == {i \in DOMAIN inbox : inbox[i].kind \in kinds}

CmTypeOK ==
    /\ allowed \in 0 .. MaxRequests
    /\ connecting \subseteq {Id(e, i) : e \in Endpoints, i \in 1 .. MaxIndex}
    /\ \A r \in Requesters : user[r].st \in {"away", "waits", "holds", "called", "answered"}
    /\ \A i \in DOMAIN inbox : inbox[i].kind \in {"Dropped", "Connected", "Error", "ErrorPending"}

\* Wherever the channels of an endpoint are (being made, in the queue, lent out,
\* or in a message on their way back), there are always PerEndpoint of them: no
\* error, drop or cancellation loses one or makes one too many.
ChannelsConserved ==
    \A e \in Endpoints :
      LET of(id) == id.endpoint = e IN
      Cardinality({id \in connecting : of(id)})
      + Cardinality({i \in DOMAIN channels : of(channels[i])})
      + Cardinality({r \in Requesters : user[r].pending /\ of(user[r].id)})
      + Cardinality({i \in Messages({"Dropped", "Connected", "ErrorPending"}) : of(inbox[i].id)})
      = PerEndpoint

\* available_connections counts exactly the Connections that do not exist.
PermitsConserved ==
    allowed + Cardinality({r \in Requesters : user[r].st \in {"holds", "called", "answered"}})
    + Cardinality(Messages({"Dropped"})) = MaxRequests

\* Nobody waits while a channel and a permit are free.
NoIdleChannel == ~Servable(State)
=============================================================================
