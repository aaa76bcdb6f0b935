------------------------ MODULE StoreAwaitedActionDb ------------------------
(***************************************************************************)
(* The AwaitedActionDb that keeps its records in Redis                     *)
(* (store_awaited_action_db.rs over the SchedulerStore half of             *)
(* redis_store.rs).  Several processes share the records: every change is  *)
(* read, change, and write if the version is still the one that was read;  *)
(* every write is followed by a message on one pub/sub channel, which a    *)
(* subscription manager turns into wake-ups of the subscribers.            *)
(*                                                                         *)
(* A version is a counter that every write increments, so a copy has the   *)
(* current version exactly when nobody wrote since it was read: a record   *)
(* carries the set of processes whose copy is "current".  Whether the      *)
(* record's last keep-alive is recent is the clock's business: a reader    *)
(* finds it so or not.                                                     *)
(***************************************************************************)
EXTENDS Naturals, FiniteSets

CONSTANTS
    SharedClients,     \* callers of add_action, all for one cachable action
    Operations,        \* the ids operation_id_creator hands out
    Matcher,           \* the scheduler's matching task
    Finisher,          \* the scheduler that takes the worker's last update
    MaxRetries,        \* MAX_RETRIES_FOR_CLIENT_KEEPALIVE
    RedisFaults,       \* bound: connections lost
    KeyPrefix          \* a key_prefix is configured

NoOp == <<"none", 0>>

ASSUME DbAssumption ==
    /\ NoOp \notin Operations
    /\ Matcher # Finisher
    /\ SharedClients \cap {Matcher, Finisher} = {}
    /\ MaxRetries \in Nat
    /\ RedisFaults \in Nat
    /\ KeyPrefix \in BOOLEAN

VARIABLES
    aa,          \* aa_<operation id>: the AwaitedAction hashes, and their readers
    cid,         \* cid_<client id>: {} or the bytes stored
    channel,     \* published keys on their way to the subscription manager
    link,        \* the manager's connection: "up", "lost", "flagged", "dead"
    publishers,  \* the keys of subscribed_keys
    caller,      \* the clients; known: last_known_keepalive_ts is recent
    wake,        \* the Notify that wakes the matching task
    sched,       \* Matcher and Finisher: the update they are making
    faults

storeVars == <<aa, cid, channel, link, publishers, caller, wake, sched, faults>>

Absent == [stage |-> "absent", current |-> {}]
NewCaller ==
    [pc |-> "search", op |-> NoOp, known |-> FALSE, sub |-> FALSE,
     changed |-> FALSE, retries |-> 0, copy |-> "absent"]

SharedInit ==
    /\ aa = [o \in Operations |-> Absent]
    /\ cid = [c \in SharedClients |-> {}]
    /\ channel = {} /\ link = "up" /\ publishers = {}
    /\ caller = [c \in SharedClients |-> NewCaller]
    /\ wake = TRUE          \* subscribe() marks a new receiver as changed
    /\ sched = [p \in {Matcher, Finisher} |-> [pc |-> "idle", op |-> NoOp, todo |-> {}]]
    /\ faults = RedisFaults

StoredAction(o) == o \in Operations /\ aa[o].stage # "absent"
CallerAt(c, pc) == caller[c].pc = pc
StageOf(c) == IF caller[c].op \in Operations THEN aa[caller[c].op].stage ELSE "absent"

\* serde_json writes the enum as {"Uuid":"..."}; OperationId::try_from reads
\* the bytes as the id itself.
EncodeOperationId(o) == <<"json", o>>
DecodeOperationId(bytes) == bytes

(***************************************************************************)
(* SchedulerStore                                                          *)
(***************************************************************************)
\* get_and_decode(): the copy has the version of the record.
Fetched(o, p) == [aa EXCEPT ![o].current = @ \cup {p}]

\* Mutant: the version is not compared.
VersionIgnored(o, p) == TRUE

\* LUA_VERSION_SET_SCRIPT
VersionMatches(o, p) == p \in aa[o].current

\* update_data(): the message that follows a write. Pub/sub keeps nothing for
\* a subscriber that is not connected.
Published(o) == IF link = "up" THEN channel \cup {o} ELSE channel

\* search_by_index_prefix(): the index covers the keys that start with "aa_".
Indexed(o) == StoredAction(o) /\ ~KeyPrefix

\* common_prefix_values(): the published key carries the key_prefix, the
\* subscribed one does not.
Notified(c, o) ==
    caller[c].sub /\ caller[c].op = o /\ o \in publishers /\ ~KeyPrefix

(***************************************************************************)
(* RedisSubscriptionManager                                                *)
(***************************************************************************)
DeliverNotice(o) ==
    /\ link = "up" /\ o \in channel
    /\ channel' = channel \ {o}
    /\ caller' = [c \in SharedClients |->
                    [caller[c] EXCEPT !.changed = @ \/ Notified(c, o)]]
    /\ wake' = (wake \/ ~KeyPrefix)
    /\ UNCHANGED <<aa, cid, link, publishers, sched, faults>>

\* An error of the receiver or a reconnect: what was on its way is lost.
LinkLost ==
    /\ link = "up" /\ faults > 0
    /\ link' = "lost" /\ channel' = {} /\ faults' = faults - 1
    /\ UNCHANGED <<aa, cid, publishers, caller, wake, sched>>

\* After a second, everything is flagged as changed.
FlagAll ==
    /\ link = "lost"
    /\ link' = "flagged"
    /\ caller' = [c \in SharedClients |->
                    [caller[c] EXCEPT !.changed =
                        @ \/ (caller[c].sub /\ caller[c].op \in publishers)]]
    /\ wake' = TRUE
    /\ UNCHANGED <<aa, cid, channel, publishers, sched, faults>>

\* Only then the loop starts again with subscribe(); its error ends the task.
Resubscribe ==
    /\ link = "flagged"
    /\ link' \in {"up", "dead"}
    /\ UNCHANGED <<aa, cid, channel, publishers, caller, wake, sched, faults>>

(***************************************************************************)
(* add_action() and get_awaited_action_by_id()                             *)
(***************************************************************************)
\* try_subscribe(): the first record of the index decides; there is no sort
\* key, so it may be any.
TrySubscribe(c) ==
    LET found == {o \in Operations : Indexed(o)} IN
    /\ CallerAt(c, "search")
    /\ \/ /\ found = {}
          /\ caller' = [caller EXCEPT ![c].pc = "insert"]
       \/ \E o \in found :
             caller' = IF aa[o].stage = "completed"
                       THEN [caller EXCEPT ![c].pc = "insert"]
                       ELSE [caller EXCEPT ![c].pc = "changed", ![c].op = o]
    /\ UNCHANGED <<aa, cid, channel, link, publishers, wake, sched, faults>>

\* The script finds no version, which matches the version 0 of a new action.
InsertAction(c) ==
    \E o \in Operations :
        /\ CallerAt(c, "insert") /\ ~StoredAction(o)
        /\ aa' = [aa EXCEPT ![o] = [stage |-> "queued", current |-> {}]]
        /\ caller' = [caller EXCEPT ![c].pc = "inserted", ![c].op = o]
        /\ UNCHANGED <<cid, channel, link, publishers, wake, sched, faults>>

PublishInsert(c) ==
    /\ CallerAt(c, "inserted")
    /\ channel' = Published(caller[c].op)
    /\ caller' = [caller EXCEPT ![c].pc = "map"]
    /\ UNCHANGED <<aa, cid, link, publishers, wake, sched, faults>>

\* UpdateClientIdToOperationId; nobody subscribes to a "cid_" key.
MapClient(c) ==
    /\ CallerAt(c, "map")
    /\ cid' = [cid EXCEPT ![c] = {EncodeOperationId(caller[c].op)}]
    /\ caller' = [caller EXCEPT ![c].pc = "changed"]
    /\ UNCHANGED <<aa, channel, link, publishers, wake, sched, faults>>

\* A call to Redis fails: "inserted" and "map" leave the record behind.
AddFails(c) ==
    /\ caller[c].pc \in {"insert", "inserted", "map"} /\ faults > 0
    /\ faults' = faults - 1
    /\ caller' = [caller EXCEPT ![c].pc = "failed"]
    /\ UNCHANGED <<aa, cid, channel, link, publishers, wake, sched>>

\* inner_get_awaited_action_by_id() and the first borrow() of what it found.
GetAwaitedActionById(c) ==
    /\ CallerAt(c, "left")
    /\ caller' =
         IF \E bytes \in cid[c] : StoredAction(DecodeOperationId(bytes))
         THEN [caller EXCEPT ![c].pc = "changed"]
         ELSE [caller EXCEPT ![c].pc = "not_found"]
    /\ UNCHANGED <<aa, cid, channel, link, publishers, wake, sched, faults>>

(***************************************************************************)
(* OperationSubscriber::changed()                                          *)
(***************************************************************************)
\* The first call subscribes, and mark_changed() makes it return at once.
Subscribe(c) ==
    /\ CallerAt(c, "changed")
    /\ caller' = [caller EXCEPT ![c].pc = "alive", ![c].sub = TRUE,
                                ![c].changed = @ \/ ~caller[c].sub,
                                ![c].retries = 0]
    /\ publishers' = publishers \cup {caller[c].op}
    /\ UNCHANGED <<aa, cid, channel, link, wake, sched, faults>>

\* The inner loop: read the record if the keep-alive is due.
CheckKeepAlive(c) ==
    LET me == caller[c] IN
    /\ CallerAt(c, "alive")
    /\ \/ /\ me.known
          /\ caller' = [caller EXCEPT ![c].pc = "select", ![c].known = FALSE,
                                      ![c].retries = 0]
          /\ UNCHANGED aa
       \/ /\ ~me.known /\ me.retries > MaxRetries
          /\ caller' = [caller EXCEPT ![c].pc = "failed"]
          /\ UNCHANGED aa
       \/ /\ ~me.known /\ me.retries <= MaxRetries
          /\ aa' = Fetched(me.op, c)
          /\ \E recent \in BOOLEAN :
                caller' = [caller EXCEPT ![c].pc = "keep_alive", ![c].known = recent,
                                         ![c].copy = aa[me.op].stage]
    /\ UNCHANGED <<cid, channel, link, publishers, wake, sched, faults>>

\* inner_update_awaited_action(): the whole copy, with a new timestamp.
UpdateKeepAlive(c) ==
    LET o == caller[c].op IN
    /\ CallerAt(c, "keep_alive")
    /\ IF VersionMatches(o, c)
       THEN /\ aa' = [aa EXCEPT ![o] = [stage |-> caller[c].copy, current |-> {}]]
            /\ caller' = [caller EXCEPT ![c].pc = "publish_alive", ![c].copy = "absent"]
       ELSE /\ caller' = [caller EXCEPT ![c].pc = "alive", ![c].copy = "absent",
                                        ![c].retries = @ + 1]
            /\ UNCHANGED aa
    /\ UNCHANGED <<cid, channel, link, publishers, wake, sched, faults>>

\* Mutant: keep-alives are not published.
PublishKeepAliveSilently(c) ==
    /\ CallerAt(c, "publish_alive")
    /\ caller' = [caller EXCEPT ![c].pc = "select", ![c].known = FALSE,
                                      ![c].retries = 0]
    /\ UNCHANGED <<aa, cid, channel, link, publishers, wake, sched, faults>>

PublishKeepAlive(c) ==
    /\ CallerAt(c, "publish_alive")
    /\ \/ /\ channel' = Published(caller[c].op)
          /\ caller' = [caller EXCEPT ![c].pc = "select", ![c].known = FALSE,
                                      ![c].retries = 0]
          /\ UNCHANGED faults
       \/ /\ faults > 0 /\ faults' = faults - 1
          /\ caller' = [caller EXCEPT ![c].pc = "alive", ![c].retries = @ + 1]
          /\ UNCHANGED channel
    /\ UNCHANGED <<aa, cid, link, publishers, wake, sched>>

\* select!: the subscription changed, or CLIENT_KEEPALIVE_DURATION passed.
SelectChanged(c) ==
    /\ CallerAt(c, "select") /\ caller[c].changed
    /\ caller' = [caller EXCEPT ![c].pc = "read", ![c].changed = FALSE]
    /\ UNCHANGED <<aa, cid, channel, link, publishers, wake, sched, faults>>

SelectSleep(c) ==
    /\ CallerAt(c, "select")
    /\ caller' = [caller EXCEPT ![c].pc = "alive", ![c].known = FALSE, ![c].retries = 0]
    /\ UNCHANGED <<aa, cid, channel, link, publishers, wake, sched, faults>>

\* changed() returns the record; a client ends its stream at a finished one.
ReadChanged(c) ==
    LET o == caller[c].op IN
    /\ CallerAt(c, "read")
    /\ IF aa[o].stage = "completed"
       THEN caller' = [caller EXCEPT ![c].pc = "told"]
       ELSE \E recent \in BOOLEAN :
               caller' = [caller EXCEPT ![c].known = recent, ![c].pc = "changed"]
    /\ UNCHANGED <<aa, cid, channel, link, publishers, wake, sched, faults>>

\* The client goes away while it waits.
ClientLeaves(c) ==
    /\ CallerAt(c, "select")
    /\ caller' = [caller EXCEPT ![c].pc = "leaving"]
    /\ UNCHANGED <<aa, cid, channel, link, publishers, wake, sched, faults>>

\* RedisSubscription::drop(): the receiver first, then the lock and the count.
DropReceiver(c) ==
    /\ caller[c].pc \in {"told", "leaving"} /\ caller[c].sub
    /\ caller' = [caller EXCEPT ![c].sub = FALSE, ![c].changed = FALSE]
    /\ UNCHANGED <<aa, cid, channel, link, publishers, wake, sched, faults>>

\* Mutant: the entry is removed without counting the receivers.
NoReceiversUncounted(o) == TRUE

\* receiver_count() == 0
NoReceivers(o) == \A c \in SharedClients : ~(caller[c].sub /\ caller[c].op = o)

DropPublisher(c) ==
    LET o == caller[c].op IN
    /\ caller[c].pc \in {"told", "leaving"} /\ ~caller[c].sub
    /\ publishers' = IF NoReceivers(o) THEN publishers \ {o} ELSE publishers
    /\ caller' = [caller EXCEPT ![c].pc = IF @ = "told" THEN "done" ELSE "left",
                                ![c].known = FALSE, ![c].retries = 0]
    /\ UNCHANGED <<aa, cid, channel, link, wake, sched, faults>>

(***************************************************************************)
(* The scheduler: it matches queued operations when it is woken, and       *)
(* finishes them; both go through update_awaited_action().                 *)
(***************************************************************************)
\* get_range_of_actions(queued): the stream of do_try_match().
MatchStart ==
    /\ sched[Matcher].pc = "idle" /\ sched[Matcher].todo = {} /\ wake
    /\ wake' = FALSE
    /\ sched' = [sched EXCEPT ![Matcher].todo =
                    {o \in Operations : Indexed(o) /\ aa[o].stage = "queued"}]
    /\ UNCHANGED <<aa, cid, channel, link, publishers, caller, faults>>

Wanted(p) ==
    IF p = Matcher THEN sched[Matcher].todo
    ELSE {o \in Operations : aa[o].stage = "executing"}

Borrow(p) ==
    /\ sched[p].pc = "idle"
    /\ \E o \in Wanted(p) :
          /\ aa' = Fetched(o, p)
          /\ sched' = [sched EXCEPT ![p].pc = "update", ![p].op = o, ![p].todo = @ \ {o}]
    /\ UNCHANGED <<cid, channel, link, publishers, caller, wake, faults>>

\* update_awaited_action(). A matcher that lost the race leaves the operation
\* to the next wake-up; the finisher reads again.
UpdateAwaitedAction(p) ==
    LET o == sched[p].op
        to == IF p = Matcher THEN "executing" ELSE "completed" IN
    /\ sched[p].pc = "update"
    /\ IF VersionMatches(o, p)
       THEN /\ aa' = [aa EXCEPT ![o].stage = to, ![o].current = {}]
            /\ sched' = [sched EXCEPT ![p].pc = "publish"]
       ELSE /\ sched' = [sched EXCEPT ![p].pc = "idle", ![p].op = NoOp]
            /\ UNCHANGED aa
    /\ UNCHANGED <<cid, channel, link, publishers, caller, wake, faults>>

PublishUpdate(p) ==
    /\ sched[p].pc = "publish"
    /\ \/ channel' = Published(sched[p].op) /\ UNCHANGED faults
       \/ faults > 0 /\ faults' = faults - 1 /\ UNCHANGED channel
    /\ sched' = [sched EXCEPT ![p].pc = "idle", ![p].op = NoOp]
    /\ UNCHANGED <<aa, cid, link, publishers, caller, wake>>

ClientStep(c) ==
    \/ TrySubscribe(c) \/ InsertAction(c) \/ PublishInsert(c) \/ MapClient(c)
    \/ Subscribe(c) \/ CheckKeepAlive(c) \/ UpdateKeepAlive(c) \/ PublishKeepAlive(c)
    \/ SelectChanged(c) \/ SelectSleep(c) \/ ReadChanged(c)
    \/ DropReceiver(c) \/ DropPublisher(c) \/ GetAwaitedActionById(c)

SchedulerStep == 
    \/ MatchStart
    \/ \E p \in {Matcher, Finisher} : Borrow(p) \/ UpdateAwaitedAction(p) \/ PublishUpdate(p)

SharedNext ==
    \/ \E c \in SharedClients : ClientStep(c) \/ AddFails(c) \/ ClientLeaves(c)
    \/ \E o \in Operations : DeliverNotice(o)
    \/ LinkLost \/ FlagAll \/ Resubscribe
    \/ SchedulerStep

SharedSpec == SharedInit /\ [][SharedNext]_storeVars

\* The tasks are polled by tokio and messages arrive; a version conflict may
\* repeat, so a writer is given the chance to win it infinitely often.
SharedFairness ==
    /\ \A c \in SharedClients :
          /\ WF_storeVars(ClientStep(c))
          /\ SF_storeVars(SelectChanged(c))
    /\ \A o \in Operations : WF_storeVars(DeliverNotice(o))
    /\ WF_storeVars(FlagAll \/ Resubscribe)
    /\ WF_storeVars(MatchStart)
    /\ \A p \in {Matcher, Finisher} :
          /\ WF_storeVars(Borrow(p) \/ PublishUpdate(p))
          /\ WF_storeVars(UpdateAwaitedAction(p))
          /\ SF_storeVars(UpdateAwaitedAction(p) /\ VersionMatches(sched[p].op, p))
SharedFairSpec == SharedSpec /\ SharedFairness

(***************************************************************************)
(* Properties                                                              *)
(***************************************************************************)
\* Type correctness.
SharedTypeOK ==
    /\ \A o \in Operations :
          /\ aa[o].stage \in {"absent", "queued", "executing", "completed"}
          /\ aa[o].current \subseteq (SharedClients \cup {Matcher, Finisher})
    /\ channel \subseteq Operations /\ publishers \subseteq Operations
    /\ link \in {"up", "lost", "flagged", "dead"}
    /\ \A c \in SharedClients :
          caller[c].retries <= MaxRetries + 1 /\ caller[c].op \in Operations \cup {NoOp}
    /\ faults \in 0..RedisFaults

\* "the data will not be updated if the current version in the database does
\* not match" (store_trait.rs): writers that race over a whole record, a
\* client's keep-alive among them, never take a stage back.
StagesOnlyAdvance ==
    [][\A o \in Operations :
          LET rank == [absent |-> 0, queued |-> 1, executing |-> 2, completed |-> 3]
          IN  rank[aa'[o].stage] \in {rank[aa[o].stage], rank[aa[o].stage] + 1}]_storeVars

\* A receiver always has its publisher in subscribed_keys, whichever way
\* subscribe() and the drops of other subscribers of the key interleave: an
\* orphaned receiver would never be told of a change again.
WatchedIsPublished ==
    \A c \in SharedClients : caller[c].sub => caller[c].op \in publishers

\* A client that waits for an operation that has completed is told, although
\* the message may have been lost with the connection: its keep-alive is itself
\* an update, and the message that follows it wakes the client. That is so as long as
\* the task that subscribes has not ended with an error of SUBSCRIBE, and where no
\* key_prefix is configured (the keys published have it and those waited for not).
ClientLearns ==
    \A c \in SharedClients :
        (CallerAt(c, "select") /\ StageOf(c) = "completed")
        ~> (caller[c].pc \in {"told", "failed", "leaving"} \/ link = "dead")

\* The same for the scheduler: while a client waits for an operation, it does
\* not stay queued because the wake-up of the matching task was lost, under the
\* same two conditions.
WaitedIsMatched ==
    \A c \in SharedClients :
        (CallerAt(c, "select") /\ StageOf(c) = "queued")
        ~> (StageOf(c) # "queued" \/ caller[c].pc \in {"failed", "leaving"} \/ link = "dead")

\* "Get the `AwaitedAction` by the client operation id."
\* (awaited_action_db/mod.rs): a client that added an action and lost its
\* stream finds it again.
ClientFindsAction ==
    \A c \in SharedClients : ~CallerAt(c, "not_found")
=============================================================================
