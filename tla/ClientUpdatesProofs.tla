-------------------------- MODULE ClientUpdatesProofs --------------------------
(***************************************************************************)
(* What a client learns of its operation, proved for every value of the    *)
(* constants: through the database in a store (StoreAwaitedActionDb) and   *)
(* through the schedulers that stand before another one (RelaySchedulers). *)
(***************************************************************************)
EXTENDS StoreAwaitedActionDb, RelaySchedulers, TLAPS

-----------------------------------------------------------------------------
(* StoreAwaitedActionDb: schedulers and clients that share records.        *)

SharedWriters == {Matcher, Finisher}

CallerRecord ==
    [pc : {"search", "insert", "inserted", "map", "changed", "alive", "keep_alive",
           "publish_alive", "select", "read", "told", "leaving", "left", "done",
           "failed", "not_found"},
     op : Operations \cup {NoOp}, known : BOOLEAN, sub : BOOLEAN, changed : BOOLEAN,
     retries : 0..(MaxRetries + 1),
     copy : {"absent", "queued", "executing", "completed"}]

SharedTypes ==
    /\ aa \in [Operations -> [stage : {"absent", "queued", "executing", "completed"},
                              current : SUBSET (SharedClients \cup SharedWriters)]]
    /\ channel \subseteq Operations /\ publishers \subseteq Operations
    /\ link \in {"up", "lost", "flagged", "dead"}
    /\ caller \in [SharedClients -> CallerRecord]
    /\ sched \in [SharedWriters -> [pc : {"idle", "update", "publish"},
                                    op : Operations \cup {NoOp},
                                    todo : SUBSET Operations]]
    /\ faults \in 0..RedisFaults

\* A client has an operation from the moment it added or joined one, it has no
\* subscription before, and it tries a keep-alive only so often.
CallersSound ==
    \A c \in SharedClients :
        /\ caller[c].pc \notin {"search", "insert", "failed"} => caller[c].op \in Operations
        /\ caller[c].pc \in {"search", "insert"} => ~caller[c].sub
        /\ caller[c].pc \in {"keep_alive", "publish_alive"} => caller[c].retries <= MaxRetries

\* A client whose copy has the version of the record is about to write the
\* record's own stage.
CopiesSound ==
    \A o \in Operations, c \in SharedClients :
        c \in aa[o].current =>
            caller[c].pc = "keep_alive" /\ caller[c].op = o /\ caller[c].copy = aa[o].stage

\* A scheduler whose copy has the version of the record takes it from the stage
\* before; what the matching task has before it is queued.
WritersSound ==
    /\ \A p \in SharedWriters :
          /\ sched[p].pc \in {"update", "publish"} => sched[p].op \in Operations
          /\ \A o \in Operations : p \in aa[o].current =>
                /\ sched[p].pc = "update" /\ sched[p].op = o
                /\ aa[o].stage = IF p = Matcher THEN "queued" ELSE "executing"
    /\ sched[Matcher].pc = "update" => sched[Matcher].op \notin sched[Matcher].todo
    /\ \A o \in sched[Matcher].todo : aa[o].stage = "queued"

SharedInv ==
    SharedTypes /\ CallersSound /\ CopiesSound /\ WritersSound /\ WatchedIsPublished

\* One client moves, and the records and the schedulers stay as they are.
LEMMA ClientMoves ==
    ASSUME SharedInv, NEW c \in SharedClients, NEW nx \in CallerRecord,
           caller' = [caller EXCEPT ![c] = nx],
           UNCHANGED <<aa, sched>>,
           caller[c].pc # "keep_alive" \/ \A o \in Operations : c \notin aa[o].current,
           nx.pc \notin {"search", "insert", "failed"} => nx.op \in Operations,
           nx.pc \in {"search", "insert"} => ~nx.sub,
           nx.pc \in {"keep_alive", "publish_alive"} => nx.retries <= MaxRetries,
           nx.sub => nx.op \in publishers',
           \A d \in SharedClients \ {c} : caller[d].sub => caller[d].op \in publishers',
           publishers' \subseteq Operations, channel' \subseteq Operations,
           link' \in {"up", "lost", "flagged", "dead"}, faults' \in 0..RedisFaults
    PROVE  SharedInv'
PROOF
  <1>1. SharedTypes'
    BY DEF SharedInv, SharedTypes
  <1>2. caller \in [SharedClients -> CallerRecord]
    BY DEF SharedInv, SharedTypes
  <1>3. caller'[c] = nx /\ \A d \in SharedClients \ {c} : caller'[d] = caller[d]
    BY <1>2
  <1>4. CallersSound'
    BY <1>3 DEF SharedInv, CallersSound
  <1>5. CopiesSound'
    BY <1>3 DEF SharedInv, CopiesSound
  <1>6. WritersSound'
    BY DEF SharedInv, WritersSound
  <1>7. WatchedIsPublished'
    BY <1>3 DEF WatchedIsPublished
  <1>8. QED
    BY <1>1, <1>4, <1>5, <1>6, <1>7 DEF SharedInv

\* The steps of a client that leave the records as they are.
LEMMA QuietClientKeeps ==
    ASSUME SharedInv, NEW c \in SharedClients,
           \/ TrySubscribe(c) \/ PublishInsert(c) \/ MapClient(c) \/ Subscribe(c)
           \/ PublishKeepAlive(c) \/ SelectChanged(c) \/ SelectSleep(c) \/ ReadChanged(c)
           \/ DropReceiver(c) \/ DropPublisher(c) \/ GetAwaitedActionById(c)
           \/ AddFails(c) \/ ClientLeaves(c)
    PROVE  SharedInv' /\ UNCHANGED aa
PROOF
  <1> DEFINE me == caller[c]
             Moves(nx) ==
                 /\ nx \in CallerRecord
                 /\ caller' = [caller EXCEPT ![c] = nx]
                 /\ UNCHANGED <<aa, sched>>
                 /\ me.pc # "keep_alive"
                 /\ nx.pc \notin {"search", "insert", "failed"} => nx.op \in Operations
                 /\ nx.pc \in {"search", "insert"} => ~nx.sub
                 /\ nx.pc \in {"keep_alive", "publish_alive"} => nx.retries <= MaxRetries
                 /\ nx.sub => nx.op \in publishers'
                 /\ \A d \in SharedClients \ {c} :
                       caller[d].sub => caller[d].op \in publishers'
                 /\ publishers' \subseteq Operations /\ channel' \subseteq Operations
                 /\ link' \in {"up", "lost", "flagged", "dead"}
                 /\ faults' \in 0..RedisFaults
  <1>0. /\ me \in CallerRecord
        /\ caller \in [SharedClients -> CallerRecord]
        /\ channel \subseteq Operations /\ publishers \subseteq Operations
        /\ link \in {"up", "lost", "flagged", "dead"} /\ faults \in 0..RedisFaults
        /\ MaxRetries \in Nat /\ RedisFaults \in Nat
    BY DbAssumption DEF SharedInv, SharedTypes
  <1>1. /\ me.pc \notin {"search", "insert", "failed"} => me.op \in Operations
        /\ me.pc \in {"search", "insert"} => ~me.sub
        /\ me.pc \in {"keep_alive", "publish_alive"} => me.retries <= MaxRetries
        /\ \A d \in SharedClients : caller[d].sub => caller[d].op \in publishers
    BY DEF SharedInv, CallersSound, WatchedIsPublished
  <1>z. 0 \in 0..(MaxRetries + 1)
    BY <1>0
  <1>f. faults > 0 => faults - 1 \in 0..RedisFaults
    BY <1>0
  <1> SUFFICES \E nx : Moves(nx)
    BY ClientMoves, Zenon
  <1>2. CASE PublishInsert(c) \/ MapClient(c)
    <2> DEFINE nx == [me EXCEPT !.pc = IF me.pc = "inserted" THEN "map" ELSE "changed"]
    <2>1. caller' = [caller EXCEPT ![c] = nx]
      BY <1>0, <1>2 DEF PublishInsert, MapClient, CallerAt
    <2>2. nx \in CallerRecord
      BY <1>0 DEF CallerRecord
    <2>3. Moves(nx)
      BY <1>0, <1>1, <1>2, <2>1, <2>2 DEF PublishInsert, MapClient, CallerAt, Published,
                                             CallerRecord
    <2> QED
      BY <2>3, Zenon
  <1>3. CASE TrySubscribe(c)
    <2>1. CASE caller' = [caller EXCEPT ![c].pc = "insert"]
      <3> DEFINE nx == [me EXCEPT !.pc = "insert"]
      <3>1. Moves(nx)
        BY <1>0, <1>1, <1>3, <2>1, Zenon DEF TrySubscribe, CallerAt, CallerRecord
      <3> QED
        BY <3>1, Zenon
    <2>2. CASE \E o \in Operations : caller' = [caller EXCEPT ![c].pc = "changed", ![c].op = o]
      <3>1. PICK o \in Operations : caller' = [caller EXCEPT ![c].pc = "changed", ![c].op = o]
        BY <2>2, Zenon
      <3> DEFINE nx == [me EXCEPT !.pc = "changed", !.op = o]
      <3>2. Moves(nx)
        BY <1>0, <1>1, <1>3, <3>1, Zenon DEF TrySubscribe, CallerAt, CallerRecord
      <3> QED
        BY <3>2, Zenon
    <2>3. QED
      BY <1>3, <2>1, <2>2 DEF TrySubscribe
  <1>4. CASE Subscribe(c)
    <2> DEFINE nx == [me EXCEPT !.pc = "alive", !.sub = TRUE, !.changed = @ \/ ~me.sub,
                               !.retries = 0]
    <2>0. (me.changed \/ ~me.sub) \in BOOLEAN
      OBVIOUS
    <2>1. nx \in CallerRecord
      BY <1>0, <1>z, <2>0, Zenon DEF CallerRecord
    <2>2. caller' = [caller EXCEPT ![c] = nx]
      BY <1>0, <1>4, Zenon DEF Subscribe
    <2>3. Moves(nx)
      BY <1>0, <1>1, <1>4, <2>1, <2>2, Zenon DEF Subscribe, CallerAt, CallerRecord
    <2> QED
      BY <2>3, Zenon
  <1>5. CASE PublishKeepAlive(c)
    <2>1. CASE caller' = [caller EXCEPT ![c].pc = "select", ![c].known = FALSE, ![c].retries = 0]
      <3> DEFINE nx == [me EXCEPT !.pc = "select", !.known = FALSE, !.retries = 0]
      <3>0. nx \in CallerRecord /\ nx.pc = "select" /\ nx.op = me.op /\ nx.sub = me.sub
        BY <1>0, <1>z, Zenon DEF CallerRecord
      <3>1. caller' = [caller EXCEPT ![c] = nx]
        BY <1>0, <2>1, Zenon
      <3> HIDE DEF nx
      <3>2. Moves(nx)
        BY <1>0, <1>1, <1>f, <1>5, <3>0, <3>1 DEF PublishKeepAlive, CallerAt, Published
      <3> QED
        BY <3>2, Zenon
    <2>2. CASE caller' = [caller EXCEPT ![c].pc = "alive", ![c].retries = @ + 1]
      <3> DEFINE nx == [me EXCEPT !.pc = "alive", !.retries = @ + 1]
      <3>1. Moves(nx)
        BY <1>0, <1>1, <1>5, <2>2 DEF PublishKeepAlive, CallerAt, CallerRecord, Published
      <3> QED
        BY <3>1, Zenon
    <2>3. QED
      BY <1>5, <2>1, <2>2 DEF PublishKeepAlive
  <1>6. CASE SelectChanged(c)
    <2> DEFINE nx == [me EXCEPT !.pc = "read", !.changed = FALSE]
    <2>1. Moves(nx)
      BY <1>0, <1>1, <1>6 DEF SelectChanged, CallerAt, CallerRecord
    <2> QED
      BY <2>1, Zenon
  <1>7. CASE SelectSleep(c)
    <2> DEFINE nx == [me EXCEPT !.pc = "alive", !.known = FALSE, !.retries = 0]
    <2>1. Moves(nx)
      BY <1>0, <1>1, <1>z, <1>7, Zenon DEF SelectSleep, CallerAt, CallerRecord
    <2> QED
      BY <2>1, Zenon
  <1>8. CASE ReadChanged(c)
    <2>1. CASE caller' = [caller EXCEPT ![c].pc = "told"]
      <3> DEFINE nx == [me EXCEPT !.pc = "told"]
      <3>1. Moves(nx)
        BY <1>0, <1>1, <1>8, <2>1, Zenon DEF ReadChanged, CallerAt, CallerRecord
      <3> QED
        BY <3>1, Zenon
    <2>2. CASE \E recent \in BOOLEAN :
                  caller' = [caller EXCEPT ![c].known = recent, ![c].pc = "changed"]
      <3>1. PICK recent \in BOOLEAN :
                    caller' = [caller EXCEPT ![c].known = recent, ![c].pc = "changed"]
        BY <2>2
      <3> DEFINE nx == [me EXCEPT !.known = recent, !.pc = "changed"]
      <3>2. Moves(nx)
        BY <1>0, <1>1, <1>8, <3>1, Zenon DEF ReadChanged, CallerAt, CallerRecord
      <3> QED
        BY <3>2, Zenon
    <2>3. QED
      BY <1>8, <2>1, <2>2, Zenon DEF ReadChanged
  <1>9. CASE DropReceiver(c)
    <2> DEFINE nx == [me EXCEPT !.sub = FALSE, !.changed = FALSE]
    <2>1. Moves(nx)
      BY <1>0, <1>1, <1>9, Zenon DEF DropReceiver, CallerRecord
    <2> QED
      BY <2>1, Zenon
  <1>10. CASE DropPublisher(c)
    <2> DEFINE nx == [me EXCEPT !.pc = IF @ = "told" THEN "done" ELSE "left",
                               !.known = FALSE, !.retries = 0]
    <2>1. nx \in CallerRecord /\ ~nx.sub /\ nx.op = me.op /\ me.op \in Operations
          /\ nx.pc \in {"done", "left"}
      BY <1>0, <1>1, <1>z, <1>10, Zenon DEF DropPublisher, CallerRecord
    <2>2. caller' = [caller EXCEPT ![c] = nx] /\ UNCHANGED <<aa, sched, channel, link, faults>>
      BY <1>0, <1>10, Zenon DEF DropPublisher
    <2>3. /\ publishers' \subseteq Operations
          /\ \A d \in SharedClients \ {c} : caller[d].sub => caller[d].op \in publishers'
      BY <1>0, <1>1, <1>10 DEF DropPublisher, NoReceivers
    <2>4. me.pc # "keep_alive"
      BY <1>10 DEF DropPublisher
    <2> HIDE DEF nx
    <2>5. Moves(nx)
      BY <1>0, <2>1, <2>2, <2>3, <2>4
    <2> QED
      BY <2>5, Zenon
  <1>11. CASE GetAwaitedActionById(c) \/ AddFails(c) \/ ClientLeaves(c)
    <2>1. PICK q \in {"changed", "not_found", "failed", "leaving"} :
              /\ caller' = [caller EXCEPT ![c].pc = q]
              /\ q = "failed" \/ me.pc \in {"left", "select"}
      BY <1>11 DEF GetAwaitedActionById, AddFails, ClientLeaves, CallerAt
    <2>2. /\ me.pc # "keep_alive"
          /\ UNCHANGED <<aa, sched, channel, publishers, link>>
          /\ faults' \in 0..RedisFaults
      BY <1>0, <1>f, <1>11 DEF GetAwaitedActionById, AddFails, ClientLeaves, CallerAt
    <2> DEFINE nx == [me EXCEPT !.pc = q]
    <2>3. Moves(nx)
      BY <1>0, <1>1, <2>1, <2>2 DEF CallerRecord
    <2> QED
      BY <2>3, Zenon
  <1>12. QED
    BY <1>2, <1>3, <1>4, <1>5, <1>6, <1>7, <1>8, <1>9, <1>10, <1>11

\* The ranks of StagesOnlyAdvance, one record at a time.
StageRank == [absent |-> 0, queued |-> 1, executing |-> 2, completed |-> 3]

RecordsAdvance ==
    \A o \in Operations :
        StageRank[aa'[o].stage] \in {StageRank[aa[o].stage], StageRank[aa[o].stage] + 1}

LEMMA SameStagesAdvance ==
    ASSUME SharedInv, \A o \in Operations : aa'[o].stage = aa[o].stage
    PROVE  RecordsAdvance
PROOF BY DEF RecordsAdvance

\* The steps of a client that read or write a record.
LEMMA InsertKeeps ==
    ASSUME SharedInv, NEW c \in SharedClients, InsertAction(c)
    PROVE  SharedInv' /\ RecordsAdvance
PROOF
  <1> DEFINE me == caller[c]
  <1>0. /\ me \in CallerRecord
        /\ caller \in [SharedClients -> CallerRecord]
        /\ aa \in [Operations -> [stage : {"absent", "queued", "executing", "completed"},
                                  current : SUBSET (SharedClients \cup SharedWriters)]]
    BY DEF SharedInv, SharedTypes
  <1>1. PICK o \in Operations :
            /\ CallerAt(c, "insert") /\ ~StoredAction(o)
            /\ aa' = [aa EXCEPT ![o] = [stage |-> "queued", current |-> {}]]
            /\ caller' = [caller EXCEPT ![c].pc = "inserted", ![c].op = o]
            /\ UNCHANGED <<cid, channel, link, publishers, wake, sched, faults>>
    BY Zenon DEF InsertAction
  <1> DEFINE nx == [me EXCEPT !.pc = "inserted", !.op = o]
  <1>2. me.pc = "insert" /\ aa[o].stage = "absent" /\ ~me.sub
    BY <1>1 DEF CallerAt, StoredAction, SharedInv, CallersSound
  <1>3. nx \in CallerRecord /\ nx.pc = "inserted" /\ nx.op = o /\ ~nx.sub
    BY <1>0, <1>2, Zenon DEF CallerRecord
  <1>4. /\ aa'[o] = [stage |-> "queued", current |-> {}]
        /\ \A q \in Operations \ {o} : aa'[q] = aa[q]
    BY <1>0, <1>1
  <1>5. caller' = [caller EXCEPT ![c] = nx]
    BY <1>0, <1>1, Zenon
  <1> HIDE DEF nx
  <1>6. caller'[c] = nx /\ \A d \in SharedClients \ {c} : caller'[d] = caller[d]
    BY <1>0, <1>5
  <1>7. SharedTypes'
    BY <1>0, <1>1, <1>3, <1>5 DEF SharedInv, SharedTypes
  <1>8. CallersSound'
    BY <1>3, <1>6 DEF SharedInv, CallersSound
  <1>9. CopiesSound'
    BY <1>2, <1>4, <1>6 DEF SharedInv, CopiesSound
  <1>10. WritersSound'
    BY <1>1, <1>2, <1>4 DEF SharedInv, WritersSound
  <1>11. WatchedIsPublished'
    <2>1. publishers' = publishers
      BY <1>1
    <2>2. \A d \in SharedClients : caller[d].sub => caller[d].op \in publishers
      BY DEF SharedInv, WatchedIsPublished
    <2>3. \A d \in SharedClients : caller'[d].sub => caller'[d].op \in publishers'
      BY <1>3, <1>6, <2>1, <2>2
    <2>4. QED
      BY <2>3 DEF WatchedIsPublished
  <1>12. RecordsAdvance
    <2>1. StageRank[aa'[o].stage] = 1 /\ StageRank[aa[o].stage] = 0
      BY <1>2, <1>4 DEF StageRank
    <2>2. QED
      BY <1>4, <2>1 DEF RecordsAdvance
  <1>13. QED
    BY <1>7, <1>8, <1>9, <1>10, <1>11, <1>12 DEF SharedInv

LEMMA FetchedRecords ==
    ASSUME SharedInv, NEW o \in Operations, NEW p \in SharedClients \cup SharedWriters
    PROVE  /\ Fetched(o, p) \in
                [Operations -> [stage : {"absent", "queued", "executing", "completed"},
                                current : SUBSET (SharedClients \cup SharedWriters)]]
           /\ \A q \in Operations : Fetched(o, p)[q].stage = aa[q].stage
           /\ Fetched(o, p)[o].current = aa[o].current \cup {p}
           /\ \A q \in Operations \ {o} : Fetched(o, p)[q] = aa[q]
PROOF BY DEF SharedInv, SharedTypes, Fetched

LEMMA CheckKeepAliveKeeps ==
    ASSUME SharedInv, NEW c \in SharedClients, CheckKeepAlive(c)
    PROVE  SharedInv' /\ RecordsAdvance
PROOF
  <1> DEFINE me == caller[c]
  <1>0. /\ me \in CallerRecord
        /\ caller \in [SharedClients -> CallerRecord]
        /\ MaxRetries \in Nat
    BY DbAssumption DEF SharedInv, SharedTypes
  <1>1. /\ me.pc = "alive" /\ me.op \in Operations
        /\ me.sub => me.op \in publishers
        /\ UNCHANGED <<channel, link, publishers, sched, faults>>
    BY Zenon DEF CheckKeepAlive, CallerAt, SharedInv, CallersSound, WatchedIsPublished
  <1>z. 0 \in 0..(MaxRetries + 1)
    BY <1>0
  <1>2. CASE UNCHANGED aa
    <2>1. PICK nx \in CallerRecord :
              /\ caller' = [caller EXCEPT ![c] = nx]
              /\ nx.pc \in {"select", "failed"} /\ nx.op = me.op /\ nx.sub = me.sub
      <3>1. CASE caller' = [caller EXCEPT ![c].pc = "select", ![c].known = FALSE,
                                          ![c].retries = 0]
        <4> DEFINE nx == [me EXCEPT !.pc = "select", !.known = FALSE, !.retries = 0]
        <4>1. nx \in CallerRecord /\ nx.pc = "select" /\ nx.op = me.op /\ nx.sub = me.sub
          BY <1>0, <1>z, Zenon DEF CallerRecord
        <4>2. caller' = [caller EXCEPT ![c] = nx]
          BY <1>0, <3>1, Zenon
        <4> QED
          BY <4>1, <4>2, Zenon
      <3>2. CASE caller' = [caller EXCEPT ![c].pc = "failed"]
        <4> DEFINE nx == [me EXCEPT !.pc = "failed"]
        <4>1. nx \in CallerRecord /\ nx.pc = "failed" /\ nx.op = me.op /\ nx.sub = me.sub
          BY <1>0 DEF CallerRecord
        <4>2. caller' = [caller EXCEPT ![c] = nx]
          BY <1>0, <3>2
        <4> QED
          BY <4>1, <4>2, Zenon
      <3>3. CASE /\ me.retries <= MaxRetries /\ aa' = Fetched(me.op, c)
                 /\ \E recent \in BOOLEAN :
                       caller' = [caller EXCEPT ![c].pc = "keep_alive", ![c].known = recent,
                                                ![c].copy = aa[me.op].stage]
        <4>1. c \in aa[me.op].current
          BY <1>1, <1>2, <3>3, FetchedRecords
        <4>2. QED
          BY <1>1, <4>1 DEF SharedInv, CopiesSound
      <3>4. QED
        BY <3>1, <3>2, <3>3, Zenon DEF CheckKeepAlive
    <2>2. \A d \in SharedClients \ {c} : caller[d].sub => caller[d].op \in publishers'
      BY <1>1 DEF SharedInv, WatchedIsPublished
    <2>3. /\ publishers' \subseteq Operations /\ channel' \subseteq Operations
          /\ link' \in {"up", "lost", "flagged", "dead"} /\ faults' \in 0..RedisFaults
      BY <1>1 DEF SharedInv, SharedTypes
    <2>4. SharedInv'
      BY <1>1, <1>2, <2>1, <2>2, <2>3, ClientMoves, Zenon
    <2>5. QED
      BY <1>2, <2>4, SameStagesAdvance
  <1>3. CASE ~UNCHANGED aa
    <2>1. PICK recent \in BOOLEAN :
              /\ me.retries <= MaxRetries /\ aa' = Fetched(me.op, c)
              /\ caller' = [caller EXCEPT ![c].pc = "keep_alive", ![c].known = recent,
                                          ![c].copy = aa[me.op].stage]
      BY <1>3, Zenon DEF CheckKeepAlive
    <2> DEFINE nx == [me EXCEPT !.pc = "keep_alive", !.known = recent,
                               !.copy = aa[me.op].stage]
    <2>2. /\ nx \in CallerRecord /\ nx.pc = "keep_alive" /\ nx.op = me.op /\ nx.sub = me.sub
          /\ nx.copy = aa[me.op].stage /\ nx.retries = me.retries
      <3>1. aa[me.op].stage \in {"absent", "queued", "executing", "completed"}
        BY <1>1 DEF SharedInv, SharedTypes
      <3>2. QED
        BY <1>0, <3>1, Zenon DEF CallerRecord
    <2>3. caller' = [caller EXCEPT ![c] = nx]
      BY <1>0, <2>1, Zenon
    <2> HIDE DEF nx
    <2>4. caller'[c] = nx /\ \A d \in SharedClients \ {c} : caller'[d] = caller[d]
      BY <1>0, <2>3
    <2>5. /\ aa' \in [Operations -> [stage : {"absent", "queued", "executing", "completed"},
                                     current : SUBSET (SharedClients \cup SharedWriters)]]
          /\ \A q \in Operations : aa'[q].stage = aa[q].stage
          /\ aa'[me.op].current = aa[me.op].current \cup {c}
          /\ \A q \in Operations \ {me.op} : aa'[q] = aa[q]
      BY <1>1, <2>1, FetchedRecords
    <2>6. SharedTypes'
      BY <1>0, <1>1, <2>2, <2>3, <2>5 DEF SharedInv, SharedTypes
    <2>7. CallersSound'
      BY <1>1, <2>1, <2>2, <2>4, Zenon DEF SharedInv, CallersSound
    <2>8. CopiesSound'
      BY <1>1, <2>2, <2>4, <2>5 DEF SharedInv, CopiesSound
    <2>9. WritersSound'
      <3>1. \A p \in SharedWriters : p # c
        BY DbAssumption DEF SharedWriters
      <3>2. \A q \in Operations, p \in SharedWriters :
                p \in aa'[q].current => p \in aa[q].current
        BY <1>1, <2>5, <3>1
      <3>3. /\ sched \in [SharedWriters -> [pc : {"idle", "update", "publish"},
                                            op : Operations \cup {NoOp},
                                            todo : SUBSET Operations]]
            /\ Matcher \in SharedWriters
        BY DEF SharedInv, SharedTypes, SharedWriters
      <3>4. QED
        BY <1>1, <2>5, <3>2, <3>3 DEF SharedInv, WritersSound
    <2>10. WatchedIsPublished'
      BY <1>1, <2>2, <2>4 DEF SharedInv, WatchedIsPublished
    <2>11. QED
      BY <2>5, <2>6, <2>7, <2>8, <2>9, <2>10, SameStagesAdvance DEF SharedInv
  <1>4. QED
    BY <1>2, <1>3

LEMMA UpdateKeepAliveKeeps ==
    ASSUME SharedInv, NEW c \in SharedClients, UpdateKeepAlive(c)
    PROVE  SharedInv' /\ RecordsAdvance
PROOF
  <1> DEFINE me == caller[c]
             o == caller[c].op
  <1>0. /\ me \in CallerRecord
        /\ caller \in [SharedClients -> CallerRecord]
        /\ aa \in [Operations -> [stage : {"absent", "queued", "executing", "completed"},
                                  current : SUBSET (SharedClients \cup SharedWriters)]]
        /\ MaxRetries \in Nat
    BY DbAssumption DEF SharedInv, SharedTypes
  <1>1. /\ me.pc = "keep_alive" /\ o \in Operations /\ me.retries <= MaxRetries
        /\ UNCHANGED <<channel, link, publishers, sched, faults>>
        /\ \A d \in SharedClients : caller[d].sub => caller[d].op \in publishers
    BY DEF UpdateKeepAlive, CallerAt, SharedInv, CallersSound, WatchedIsPublished
  <1>2. \A q \in Operations : c \in aa[q].current => q = o /\ me.copy = aa[q].stage
    BY DEF SharedInv, CopiesSound
  <1>3. CASE c \in aa[o].current
    <2> DEFINE nx == [me EXCEPT !.pc = "publish_alive", !.copy = "absent"]
    <2>1. /\ nx \in CallerRecord /\ nx.pc = "publish_alive" /\ nx.op = o /\ nx.sub = me.sub
          /\ nx.retries = me.retries
      BY <1>0, Zenon DEF CallerRecord
    <2>2. /\ aa' = [aa EXCEPT ![o] = [stage |-> me.copy, current |-> {}]]
          /\ caller' = [caller EXCEPT ![c] = nx]
      BY <1>0, <1>3, Zenon DEF UpdateKeepAlive, VersionMatches
    <2> HIDE DEF nx
    <2>3. caller'[c] = nx /\ \A d \in SharedClients \ {c} : caller'[d] = caller[d]
      BY <1>0, <2>2
    <2>4. /\ \A q \in Operations : aa'[q].stage = aa[q].stage
          /\ aa'[o].current = {}
          /\ \A q \in Operations \ {o} : aa'[q] = aa[q]
      BY <1>0, <1>1, <1>2, <1>3, <2>2
    <2>5. SharedTypes'
      <3>1. aa' \in [Operations -> [stage : {"absent", "queued", "executing", "completed"},
                                    current : SUBSET (SharedClients \cup SharedWriters)]]
        BY <1>0, <1>1, <1>2, <1>3, <2>2
      <3>2. QED
        BY <1>0, <1>1, <2>1, <2>2, <3>1 DEF SharedInv, SharedTypes
    <2>6. CallersSound'
      BY <1>1, <2>1, <2>3 DEF SharedInv, CallersSound
    <2>7. CopiesSound'
      BY <1>1, <1>2, <2>3, <2>4 DEF SharedInv, CopiesSound
    <2>8. WritersSound'
      BY <1>1, <2>4, SMTT(45) DEF SharedInv, SharedTypes, SharedWriters, WritersSound
    <2>9. WatchedIsPublished'
      BY <1>1, <2>1, <2>3 DEF WatchedIsPublished
    <2>10. QED
      BY <2>4, <2>5, <2>6, <2>7, <2>8, <2>9, SameStagesAdvance DEF SharedInv
  <1>4. CASE c \notin aa[o].current
    <2> DEFINE nx == [me EXCEPT !.pc = "alive", !.copy = "absent", !.retries = @ + 1]
    <2>0. me.retries + 1 \in 0..(MaxRetries + 1)
      <3>1. me.retries \in 0..(MaxRetries + 1)
        BY <1>0 DEF CallerRecord
      <3>2. QED
        BY <1>0, <1>1, <3>1
    <2>1. /\ nx \in CallerRecord /\ nx.pc = "alive" /\ nx.op = o /\ nx.sub = me.sub
      BY <1>0, <2>0, Zenon DEF CallerRecord
    <2>2. caller' = [caller EXCEPT ![c] = nx] /\ UNCHANGED aa
      BY <1>0, <1>4, Zenon DEF UpdateKeepAlive, VersionMatches
    <2> HIDE DEF nx
    <2>3. \A q \in Operations : c \notin aa[q].current
      BY <1>2, <1>4
    <2>4. /\ publishers' \subseteq Operations /\ channel' \subseteq Operations
          /\ link' \in {"up", "lost", "flagged", "dead"} /\ faults' \in 0..RedisFaults
      BY <1>1 DEF SharedInv, SharedTypes
    <2>5. nx.sub => nx.op \in publishers'
      BY <1>1, <2>1, Zenon
    <2>6. \A d \in SharedClients \ {c} : caller[d].sub => caller[d].op \in publishers'
      BY <1>1
    <2>7. SharedInv'
      BY <1>1, <2>1, <2>2, <2>3, <2>4, <2>5, <2>6, ClientMoves, Zenon
    <2>8. QED
      BY <2>2, <2>7, SameStagesAdvance
  <1>5. QED
    BY <1>3, <1>4

\* The subscription manager wakes clients and nothing else of theirs changes.
LEMMA ManagerKeeps ==
    ASSUME SharedInv,
           LinkLost \/ FlagAll \/ Resubscribe \/ \E o \in Operations : DeliverNotice(o)
    PROVE  SharedInv' /\ UNCHANGED aa
PROOF
  <1>0. /\ caller \in [SharedClients -> CallerRecord]
        /\ channel \subseteq Operations /\ publishers \subseteq Operations
        /\ link \in {"up", "lost", "flagged", "dead"}
        /\ faults \in 0..RedisFaults /\ RedisFaults \in Nat
    BY DbAssumption DEF SharedInv, SharedTypes
  <1>1. UNCHANGED <<aa, publishers, sched>>
    BY DEF LinkLost, FlagAll, Resubscribe, DeliverNotice
  <1>2. /\ channel' \subseteq Operations
        /\ link' \in {"up", "lost", "flagged", "dead"} /\ faults' \in 0..RedisFaults
    BY <1>0 DEF LinkLost, FlagAll, Resubscribe, DeliverNotice
  <1>3. \E w \in [SharedClients -> BOOLEAN] :
            caller' = [c \in SharedClients |-> [caller[c] EXCEPT !.changed = w[c]]]
    <2>1. CASE LinkLost \/ Resubscribe
      <3> DEFINE w == [c \in SharedClients |-> caller[c].changed]
      <3>1. w \in [SharedClients -> BOOLEAN]
        BY <1>0 DEF CallerRecord
      <3>2. \A c \in SharedClients : caller[c] = [caller[c] EXCEPT !.changed = w[c]]
        BY <1>0 DEF CallerRecord
      <3>3. caller' = [c \in SharedClients |-> [caller[c] EXCEPT !.changed = w[c]]]
        BY <1>0, <2>1, <3>2 DEF LinkLost, Resubscribe
      <3> QED
        BY <3>1, <3>3, Zenon
    <2>2. CASE FlagAll
      <3> DEFINE w == [c \in SharedClients |->
                          (caller[c].changed \/ (caller[c].sub /\ caller[c].op \in publishers))]
      <3>1. w \in [SharedClients -> BOOLEAN]
        OBVIOUS
      <3>2. caller' = [c \in SharedClients |-> [caller[c] EXCEPT !.changed = w[c]]]
        BY <2>2 DEF FlagAll
      <3> QED
        BY <3>1, <3>2, Zenon
    <2>3. CASE \E o \in Operations : DeliverNotice(o)
      <3>1. PICK o \in Operations : DeliverNotice(o)
        BY <2>3
      <3> DEFINE w == [c \in SharedClients |-> (caller[c].changed \/ Notified(c, o))]
      <3>2. w \in [SharedClients -> BOOLEAN]
        OBVIOUS
      <3>3. caller' = [c \in SharedClients |-> [caller[c] EXCEPT !.changed = w[c]]]
        BY <3>1 DEF DeliverNotice
      <3> QED
        BY <3>2, <3>3, Zenon
    <2>4. QED
      BY <2>1, <2>2, <2>3
  <1>4. /\ caller' \in [SharedClients -> CallerRecord]
        /\ \A c \in SharedClients :
              /\ caller'[c].pc = caller[c].pc /\ caller'[c].op = caller[c].op
              /\ caller'[c].sub = caller[c].sub /\ caller'[c].retries = caller[c].retries
              /\ caller'[c].copy = caller[c].copy
    BY <1>0, <1>3 DEF CallerRecord
  <1>5. SharedTypes'
    BY <1>1, <1>2, <1>4 DEF SharedInv, SharedTypes
  <1>6. CallersSound' /\ CopiesSound'
    BY <1>1, <1>4 DEF SharedInv, CallersSound, CopiesSound
  <1>7. WritersSound' /\ WatchedIsPublished'
    BY <1>1, <1>4 DEF SharedInv, WritersSound, WatchedIsPublished
  <1>8. QED
    BY <1>1, <1>5, <1>6, <1>7 DEF SharedInv

LEMMA MatchStartKeeps ==
    ASSUME SharedInv, MatchStart
    PROVE  SharedInv' /\ UNCHANGED aa
PROOF
  <1> DEFINE old == sched[Matcher]
             scanned == {o \in Operations : Indexed(o) /\ aa[o].stage = "queued"}
             nx == [old EXCEPT !.todo = scanned]
  <1>0. /\ sched \in [SharedWriters -> [pc : {"idle", "update", "publish"},
                                        op : Operations \cup {NoOp},
                                        todo : SUBSET Operations]]
        /\ Matcher \in SharedWriters
    BY DEF SharedInv, SharedTypes, SharedWriters
  <1>1. /\ old.pc = "idle" /\ sched' = [sched EXCEPT ![Matcher] = nx]
        /\ UNCHANGED <<aa, channel, link, publishers, caller, faults>>
    BY <1>0 DEF MatchStart
  <1>2. /\ nx \in [pc : {"idle", "update", "publish"}, op : Operations \cup {NoOp},
                  todo : SUBSET Operations]
        /\ nx.pc = "idle" /\ nx.todo = scanned
    BY <1>0, <1>1
  <1> HIDE DEF nx
  <1>3. sched'[Matcher] = nx /\ \A p \in SharedWriters \ {Matcher} : sched'[p] = sched[p]
    BY <1>0, <1>1
  <1>4. SharedTypes'
    BY <1>0, <1>1, <1>2 DEF SharedInv, SharedTypes
  <1>5. WritersSound'
    BY <1>0, <1>1, <1>2, <1>3 DEF SharedInv, WritersSound
  <1>6. CallersSound' /\ CopiesSound' /\ WatchedIsPublished'
    BY <1>1 DEF SharedInv, CallersSound, CopiesSound, WatchedIsPublished
  <1>7. QED
    BY <1>1, <1>4, <1>5, <1>6 DEF SharedInv

LEMMA BorrowKeeps ==
    ASSUME SharedInv, NEW p \in SharedWriters, Borrow(p)
    PROVE  SharedInv' /\ RecordsAdvance
PROOF
  <1>0. /\ sched \in [SharedWriters -> [pc : {"idle", "update", "publish"},
                                        op : Operations \cup {NoOp},
                                        todo : SUBSET Operations]]
        /\ Matcher \in SharedWriters /\ Finisher \in SharedWriters
    BY SMTT(45) DEF SharedInv, SharedTypes, SharedWriters
  <1>1. PICK o \in Wanted(p) :
            /\ sched[p].pc = "idle" /\ aa' = Fetched(o, p)
            /\ sched' = [sched EXCEPT ![p].pc = "update", ![p].op = o, ![p].todo = @ \ {o}]
            /\ UNCHANGED <<channel, link, publishers, caller, faults>>
    BY Zenon DEF Borrow
  <1>2. o \in Operations /\ aa[o].stage = (IF p = Matcher THEN "queued" ELSE "executing")
    <2>1. \A q \in sched[Matcher].todo : q \in Operations /\ aa[q].stage = "queued"
      BY <1>0 DEF SharedInv, WritersSound
    <2>2. QED
      BY <2>1 DEF Wanted
  <1> DEFINE nx == [sched[p] EXCEPT !.pc = "update", !.op = o, !.todo = @ \ {o}]
  <1>3. /\ nx \in [pc : {"idle", "update", "publish"}, op : Operations \cup {NoOp},
                  todo : SUBSET Operations]
        /\ nx.pc = "update" /\ nx.op = o /\ nx.todo = sched[p].todo \ {o}
        /\ sched' = [sched EXCEPT ![p] = nx]
    BY <1>0, <1>1, <1>2, Zenon
  <1> HIDE DEF nx
  <1>4. sched'[p] = nx /\ \A q \in SharedWriters \ {p} : sched'[q] = sched[q]
    BY <1>0, <1>3
  <1>5. /\ aa' \in [Operations -> [stage : {"absent", "queued", "executing", "completed"},
                                   current : SUBSET (SharedClients \cup SharedWriters)]]
        /\ \A q \in Operations : aa'[q].stage = aa[q].stage
        /\ aa'[o].current = aa[o].current \cup {p}
        /\ \A q \in Operations \ {o} : aa'[q] = aa[q]
    BY <1>1, <1>2, FetchedRecords
  <1>6. SharedTypes'
    <2>1. sched' \in [SharedWriters -> [pc : {"idle", "update", "publish"},
                                        op : Operations \cup {NoOp},
                                        todo : SUBSET Operations]]
      BY <1>0, <1>3
    <2>2. QED
      BY <1>1, <1>5, <2>1 DEF SharedInv, SharedTypes
  <1>7. CallersSound' /\ WatchedIsPublished'
    BY <1>1 DEF SharedInv, CallersSound, WatchedIsPublished
  <1>8. CopiesSound'
    <2>1. p \notin SharedClients
      BY DbAssumption DEF SharedWriters
    <2>2. \A q \in Operations, c \in SharedClients :
              c \in aa'[q].current => c \in aa[q].current
      BY <1>2, <1>5, <2>1
    <2>3. QED
      BY <1>1, <1>5, <2>2 DEF SharedInv, CopiesSound
  <1>9. WritersSound'
    <2>1. ASSUME NEW s \in SharedWriters
          PROVE  /\ sched'[s].pc \in {"update", "publish"} => sched'[s].op \in Operations
                 /\ \A q \in Operations : s \in aa'[q].current =>
                       /\ sched'[s].pc = "update" /\ sched'[s].op = q
                       /\ aa'[q].stage = IF s = Matcher THEN "queued" ELSE "executing"
      <3>1. CASE s = p
        <4>1. \A q \in Operations : p \notin aa[q].current
          BY <1>1 DEF SharedInv, WritersSound
        <4>2. \A q \in Operations : p \in aa'[q].current => q = o
          BY <1>2, <1>5, <4>1
        <4>3. QED
          BY <1>2, <1>3, <1>4, <1>5, <3>1, <4>2
      <3>2. CASE s # p
        <4>1. \A q \in Operations : s \in aa'[q].current => s \in aa[q].current
          BY <1>2, <1>5, <3>2
        <4>2. QED
          BY <1>4, <1>5, <3>2, <4>1 DEF SharedInv, WritersSound
      <3>3. QED
        BY <3>1, <3>2
    <2>2. /\ sched'[Matcher].pc = "update" => sched'[Matcher].op \notin sched'[Matcher].todo
          /\ \A q \in sched'[Matcher].todo : q \in sched[Matcher].todo
      BY <1>0, <1>3, <1>4 DEF SharedInv, WritersSound
    <2>3. \A q \in sched[Matcher].todo : q \in Operations /\ aa[q].stage = "queued"
      BY <1>0 DEF SharedInv, WritersSound
    <2>4. QED
      BY <1>5, <2>1, <2>2, <2>3 DEF WritersSound
  <1>10. QED
    BY <1>5, <1>6, <1>7, <1>8, <1>9, SameStagesAdvance DEF SharedInv

\* A scheduler writes the next stage, or finds that its copy is stale.
LEMMA UpdateAwaitedKeeps ==
    ASSUME SharedInv, NEW p \in SharedWriters, UpdateAwaitedAction(p)
    PROVE  SharedInv' /\ RecordsAdvance
PROOF
  <1> DEFINE o == sched[p].op
             to == IF p = Matcher THEN "executing" ELSE "completed"
             SRecord == [pc : {"idle", "update", "publish"}, op : Operations \cup {NoOp},
                         todo : SUBSET Operations]
  <1>0. /\ sched \in [SharedWriters -> SRecord]
        /\ Matcher \in SharedWriters /\ Finisher \in SharedWriters
        /\ aa \in [Operations -> [stage : {"absent", "queued", "executing", "completed"},
                                  current : SUBSET (SharedClients \cup SharedWriters)]]
    BY DEF SharedInv, SharedTypes, SharedWriters
  <1>1. /\ sched[p].pc = "update" /\ o \in Operations
        /\ UNCHANGED <<channel, link, publishers, caller, faults>>
    BY DEF UpdateAwaitedAction, SharedInv, WritersSound
  <1>2. CallersSound' /\ WatchedIsPublished'
    BY <1>1 DEF SharedInv, CallersSound, WatchedIsPublished
  <1>3. CASE p \in aa[o].current
    <2> DEFINE nx == [sched[p] EXCEPT !.pc = "publish"]
    <2>1. /\ aa' = [aa EXCEPT ![o].stage = to, ![o].current = {}]
          /\ sched' = [sched EXCEPT ![p] = nx]
      BY <1>0, <1>3 DEF UpdateAwaitedAction, VersionMatches
    <2>2. nx \in SRecord /\ nx.pc = "publish" /\ nx.op = o /\ nx.todo = sched[p].todo
      BY <1>0
    <2> HIDE DEF nx
    <2>3. sched'[p] = nx /\ \A q \in SharedWriters \ {p} : sched'[q] = sched[q]
      BY <1>0, <2>1
    <2>4. aa[o].stage = IF p = Matcher THEN "queued" ELSE "executing"
      BY <1>1, <1>3 DEF SharedInv, WritersSound
    <2>5. /\ aa' \in [Operations -> [stage : {"absent", "queued", "executing", "completed"},
                                     current : SUBSET (SharedClients \cup SharedWriters)]]
          /\ aa'[o].stage = to /\ aa'[o].current = {}
          /\ \A q \in Operations \ {o} : aa'[q] = aa[q]
      BY <1>0, <1>1, <2>1
    <2>6. SharedTypes'
      BY <1>0, <1>1, <2>1, <2>2, <2>5 DEF SharedInv, SharedTypes
    <2>7. CopiesSound'
      BY <1>1, <2>5 DEF SharedInv, CopiesSound
    <2>8. WritersSound'
      <3>1. ASSUME NEW s \in SharedWriters
            PROVE  /\ sched'[s].pc \in {"update", "publish"} => sched'[s].op \in Operations
                   /\ \A q \in Operations : s \in aa'[q].current =>
                         /\ sched'[s].pc = "update" /\ sched'[s].op = q
                         /\ aa'[q].stage = IF s = Matcher THEN "queued" ELSE "executing"
        <4>1. CASE s = p
          <5>1. \A q \in Operations : p \notin aa'[q].current
            BY <2>5 DEF SharedInv, WritersSound
          <5>2. QED
            BY <1>1, <2>2, <2>3, <4>1, <5>1
        <4>2. CASE s # p
          BY <2>3, <2>5, <4>2 DEF SharedInv, WritersSound
        <4>3. QED
          BY <4>1, <4>2
      <3>2. sched'[Matcher].todo = sched[Matcher].todo
        BY <1>0, <2>2, <2>3
      <3>3. sched'[Matcher].pc = "update" => sched'[Matcher].op \notin sched'[Matcher].todo
        BY <1>0, <2>2, <2>3 DEF SharedInv, WritersSound
      <3>4. \A q \in sched[Matcher].todo : q \in Operations /\ aa[q].stage = "queued"
        BY <1>0 DEF SharedInv, WritersSound
      <3>5. o \notin sched[Matcher].todo
        <4>1. CASE p = Matcher
          BY <1>1, <4>1 DEF SharedInv, WritersSound
        <4>2. CASE p # Matcher
          BY <2>4, <3>4, <4>2
        <4>3. QED
          BY <4>1, <4>2
      <3>6. \A q \in sched'[Matcher].todo : aa'[q].stage = "queued"
        BY <2>5, <3>2, <3>4, <3>5
      <3>7. QED
        BY <3>1, <3>3, <3>6 DEF WritersSound
    <2>9. RecordsAdvance
      <3>1. StageRank[aa'[o].stage] = StageRank[aa[o].stage] + 1
        BY <2>4, <2>5 DEF StageRank
      <3>2. QED
        BY <2>5, <3>1 DEF RecordsAdvance
    <2>10. QED
      BY <1>2, <2>6, <2>7, <2>8, <2>9 DEF SharedInv
  <1>4. CASE p \notin aa[o].current
    <2> DEFINE nx == [sched[p] EXCEPT !.pc = "idle", !.op = NoOp]
    <2>1. sched' = [sched EXCEPT ![p] = nx] /\ UNCHANGED aa
      BY <1>0, <1>4, Zenon DEF UpdateAwaitedAction, VersionMatches
    <2>2. nx \in SRecord /\ nx.pc = "idle" /\ nx.todo = sched[p].todo
      BY <1>0, Zenon
    <2> HIDE DEF nx
    <2>3. sched'[p] = nx /\ \A q \in SharedWriters \ {p} : sched'[q] = sched[q]
      BY <1>0, <2>1
    <2>4. \A q \in Operations : p \notin aa[q].current
      BY <1>4 DEF SharedInv, WritersSound
    <2>5. SharedTypes'
      BY <1>0, <1>1, <2>1, <2>2 DEF SharedInv, SharedTypes
    <2>6. CopiesSound'
      BY <1>1, <2>1 DEF SharedInv, CopiesSound
    <2>7. WritersSound'
      BY <1>0, <2>1, <2>2, <2>3, <2>4 DEF SharedInv, WritersSound
    <2>8. QED
      BY <1>2, <2>1, <2>5, <2>6, <2>7, SameStagesAdvance DEF SharedInv
  <1>5. QED
    BY <1>3, <1>4

LEMMA PublishUpdateKeeps ==
    ASSUME SharedInv, NEW p \in SharedWriters, PublishUpdate(p)
    PROVE  SharedInv' /\ UNCHANGED aa
PROOF
  <1> DEFINE SRecord == [pc : {"idle", "update", "publish"}, op : Operations \cup {NoOp},
                         todo : SUBSET Operations]
             nx == [sched[p] EXCEPT !.pc = "idle", !.op = NoOp]
  <1>0. /\ sched \in [SharedWriters -> SRecord] /\ Matcher \in SharedWriters
        /\ channel \subseteq Operations /\ faults \in 0..RedisFaults /\ RedisFaults \in Nat
    BY DbAssumption DEF SharedInv, SharedTypes, SharedWriters
  <1>1. /\ sched[p].pc = "publish" /\ sched[p].op \in Operations
        /\ UNCHANGED <<aa, link, publishers, caller>>
        /\ sched' = [sched EXCEPT ![p] = nx]
    BY <1>0, Zenon DEF PublishUpdate, SharedInv, WritersSound
  <1>2. nx \in SRecord /\ nx.pc = "idle" /\ nx.todo = sched[p].todo
    BY <1>0, Zenon
  <1> HIDE DEF nx
  <1>3. sched'[p] = nx /\ \A q \in SharedWriters \ {p} : sched'[q] = sched[q]
    BY <1>0, <1>1
  <1>4. channel' \subseteq Operations /\ faults' \in 0..RedisFaults
    <2>1. faults > 0 => faults - 1 \in 0..RedisFaults
      BY <1>0
    <2>2. QED
      BY <1>0, <1>1, <2>1 DEF PublishUpdate, Published
  <1>5. SharedTypes'
    BY <1>0, <1>1, <1>2, <1>4 DEF SharedInv, SharedTypes
  <1>6. CallersSound' /\ CopiesSound' /\ WatchedIsPublished'
    BY <1>1 DEF SharedInv, CallersSound, CopiesSound, WatchedIsPublished
  <1>7. WritersSound'
    <2>1. \A q \in Operations : p \notin aa[q].current
      BY <1>1 DEF SharedInv, WritersSound
    <2>2. QED
      BY <1>0, <1>1, <1>2, <1>3, <2>1 DEF SharedInv, WritersSound
  <1>8. QED
    BY <1>1, <1>5, <1>6, <1>7 DEF SharedInv

LEMMA SharedStepKeeps ==
    ASSUME SharedInv, [SharedNext]_storeVars
    PROVE  SharedInv' /\ RecordsAdvance
PROOF
  <1>1. ASSUME UNCHANGED aa PROVE RecordsAdvance
    BY <1>1, SameStagesAdvance
  <1>2. ASSUME NEW c \in SharedClients, ClientStep(c) \/ AddFails(c) \/ ClientLeaves(c)
        PROVE  SharedInv' /\ RecordsAdvance
    <2>1. CASE InsertAction(c)
      BY <2>1, InsertKeeps
    <2>2. CASE CheckKeepAlive(c)
      BY <2>2, CheckKeepAliveKeeps
    <2>3. CASE UpdateKeepAlive(c)
      BY <2>3, UpdateKeepAliveKeeps
    <2>4. CASE ~(InsertAction(c) \/ CheckKeepAlive(c) \/ UpdateKeepAlive(c))
      <3>1. SharedInv' /\ UNCHANGED aa
        BY <1>2, <2>4, QuietClientKeeps DEF ClientStep
      <3>2. QED
        BY <1>1, <3>1
    <2>5. QED
      BY <2>1, <2>2, <2>3, <2>4
  <1>3. CASE LinkLost \/ FlagAll \/ Resubscribe \/ \E o \in Operations : DeliverNotice(o)
    BY <1>1, <1>3, ManagerKeeps
  <1>4. CASE MatchStart
    BY <1>1, <1>4, MatchStartKeeps
  <1>5. ASSUME NEW p \in SharedWriters, Borrow(p) \/ UpdateAwaitedAction(p) \/ PublishUpdate(p)
        PROVE  SharedInv' /\ RecordsAdvance
    BY <1>1, <1>5, BorrowKeeps, UpdateAwaitedKeeps, PublishUpdateKeeps
  <1>6. CASE UNCHANGED storeVars
    <2>1. SharedTypes' /\ CallersSound' /\ CopiesSound'
      BY <1>6 DEF storeVars, SharedInv, SharedTypes, CallersSound, CopiesSound
    <2>2. WritersSound' /\ WatchedIsPublished' /\ UNCHANGED aa
      BY <1>6 DEF storeVars, SharedInv, WritersSound, WatchedIsPublished
    <2>3. QED
      BY <1>1, <2>1, <2>2 DEF SharedInv
  <1>7. QED
    BY <1>2, <1>3, <1>4, <1>5, <1>6 DEF SharedNext, SchedulerStep, SharedWriters

LEMMA SharedInitKeeps == SharedInit => SharedInv
PROOF
  <1> SUFFICES ASSUME SharedInit PROVE SharedInv
    OBVIOUS
  <1>0. MaxRetries \in Nat /\ RedisFaults \in Nat
    BY DbAssumption
  <1>1. NewCaller \in CallerRecord /\ NewCaller.pc = "search" /\ ~NewCaller.sub
    BY <1>0 DEF NewCaller, CallerRecord
  <1>2. /\ \A c \in SharedClients : caller[c] = NewCaller
        /\ caller \in [SharedClients -> CallerRecord]
    BY <1>1 DEF SharedInit
  <1>3. /\ \A o \in Operations : aa[o].stage = "absent" /\ aa[o].current = {}
        /\ aa \in [Operations -> [stage : {"absent", "queued", "executing", "completed"},
                                  current : SUBSET (SharedClients \cup SharedWriters)]]
    BY DEF SharedInit, Absent
  <1>4. /\ \A p \in SharedWriters : sched[p].pc = "idle" /\ sched[p].todo = {}
        /\ sched \in [SharedWriters -> [pc : {"idle", "update", "publish"},
                                        op : Operations \cup {NoOp},
                                        todo : SUBSET Operations]]
    BY DEF SharedInit, SharedWriters
  <1>5. SharedTypes
    BY <1>0, <1>2, <1>3, <1>4 DEF SharedInit, SharedTypes
  <1>6. CallersSound /\ CopiesSound /\ WatchedIsPublished
    BY <1>1, <1>2, <1>3 DEF CallersSound, CopiesSound, WatchedIsPublished
  <1>7. WritersSound
    BY <1>3, <1>4 DEF WritersSound, SharedWriters
  <1>8. QED
    BY <1>5, <1>6, <1>7 DEF SharedInv

\* The inductive invariant of the shared records, in the component and in
\* every composition of it.
THEOREM SharedInvariant == SharedSpec => []SharedInv
PROOF
  <1>1. SharedInv /\ [SharedNext]_storeVars => SharedInv'
    BY SharedStepKeeps
  <1>2. QED
    BY <1>1, SharedInitKeeps, PTL DEF SharedSpec

\* Type correctness of store_awaited_action_db.rs: the retries of a keep-alive
\* stay within their bound, and records name known processes only.
THEOREM SharedTypeCorrect == SharedSpec => []SharedTypeOK
PROOF
  <1>1. SharedInv => SharedTypeOK
    <2> SUFFICES ASSUME SharedInv PROVE SharedTypeOK
      OBVIOUS
    <2>1. \A c \in SharedClients :
              caller[c].retries \in 0..(MaxRetries + 1) /\ caller[c].op \in Operations \cup {NoOp}
      BY DEF SharedInv, SharedTypes, CallerRecord
    <2>2. QED
      BY <2>1, DbAssumption DEF SharedTypeOK, SharedInv, SharedTypes, SharedWriters
  <1>2. QED
    BY <1>1, SharedInvariant, PTL

\* A subscriber always has its publisher (RedisSubscriptionManager::subscribe
\* and RedisSubscription::drop), for any number of clients and operations.
THEOREM WatchedArePublished == SharedSpec => []WatchedIsPublished
PROOF
  <1>1. SharedInv => WatchedIsPublished
    BY DEF SharedInv
  <1>2. QED
    BY <1>1, SharedInvariant, PTL

\* No writer takes a stage back or skips one, whichever copies of a record are
\* stale (LUA_VERSION_SET_SCRIPT), for any number of clients and operations.
THEOREM StagesAdvance == SharedSpec => StagesOnlyAdvance
PROOF
  <1>1. SharedInv /\ [SharedNext]_storeVars =>
            [\A o \in Operations :
                LET rank == [absent |-> 0, queued |-> 1, executing |-> 2, completed |-> 3]
                IN  rank[aa'[o].stage] \in {rank[aa[o].stage], rank[aa[o].stage] + 1}]_storeVars
    BY SharedStepKeeps DEF RecordsAdvance, StageRank
  <1>2. QED
    BY <1>1, SharedInvariant, PTL DEF SharedSpec, StagesOnlyAdvance

-----------------------------------------------------------------------------
(* CacheLookupScheduler: requests that share a lookup.                     *)

Distinct(s) == \A i, j \in DOMAIN s : s[i] = s[j] => i = j

LEMMA AppendFacts ==
    ASSUME NEW S, NEW s \in Seq(S), NEW e \in S
    PROVE  /\ Append(s, e) \in Seq(S) /\ Append(s, e) # <<>>
           /\ Of(Append(s, e)) = Of(s) \cup {e}
           /\ Distinct(s) /\ e \notin Of(s) => Distinct(Append(s, e))
           /\ s # <<>> => Head(Append(s, e)) = Head(s)
PROOF
  <1> DEFINE a == Append(s, e)
  <1>1. /\ a \in Seq(S) /\ Len(a) = Len(s) + 1 /\ a[Len(s) + 1] = e
        /\ \A i \in 1..Len(s) : a[i] = s[i]
        /\ DOMAIN s = 1..Len(s) /\ DOMAIN a = 1..Len(a) /\ Len(s) \in Nat
    OBVIOUS
  <1>2. a # <<>>
    BY <1>1
  <1>3. s # <<>> => Head(a) = Head(s)
    OBVIOUS
  <1> HIDE DEF a
  <1>4. DOMAIN a = (DOMAIN s) \cup {Len(s) + 1}
    BY <1>1
  <1>5. Of(a) = Of(s) \cup {e}
    BY <1>1, <1>4 DEF Of
  <1>6. Distinct(s) /\ e \notin Of(s) => Distinct(a)
    BY <1>1, <1>4 DEF Of, Distinct
  <1>7. QED
    BY <1>1, <1>2, <1>3, <1>5, <1>6 DEF a

LEMMA TailFacts ==
    ASSUME NEW S, NEW s \in Seq(S), s # <<>>
    PROVE  /\ Head(s) \in S /\ Tail(s) \in Seq(S)
           /\ Head(s) \in Of(s) /\ Of(Tail(s)) \subseteq Of(s)
           /\ Distinct(s) => Head(s) \notin Of(Tail(s)) /\ Distinct(Tail(s))
           /\ Len(s) # 1 => Tail(s) # <<>>
           /\ Len(s) = 1 => Tail(s) = <<>>
PROOF
  <1> DEFINE b == Tail(s)
  <1>1. /\ b \in Seq(S) /\ Len(b) = Len(s) - 1 /\ Head(s) = s[1] /\ Head(s) \in S
        /\ \A i \in 1..Len(b) : b[i] = s[i + 1]
        /\ DOMAIN s = 1..Len(s) /\ DOMAIN b = 1..Len(b) /\ Len(s) \in Nat \ {0}
    OBVIOUS
  <1> HIDE DEF b
  <1>2. /\ Len(s) # 1 => b # <<>>
        /\ Len(s) = 1 => b = <<>>
    <2>1. b = <<>> <=> Len(b) = 0
      BY <1>1
    <2>2. QED
      BY <1>1, <2>1
  <1>3. \A i \in DOMAIN b : i + 1 \in DOMAIN s /\ i + 1 # 1 /\ b[i] = s[i + 1]
    BY <1>1
  <1>4. 1 \in DOMAIN s
    BY <1>1
  <1>5. Head(s) \in Of(s) /\ Of(b) \subseteq Of(s)
    BY <1>1, <1>3, <1>4 DEF Of
  <1>6. Distinct(s) => Head(s) \notin Of(b)
    BY <1>1, <1>3, <1>4 DEF Of, Distinct
  <1>7. Distinct(s) => Distinct(b)
    <2> SUFFICES ASSUME Distinct(s), NEW i \in DOMAIN b, NEW j \in DOMAIN b, b[i] = b[j]
                 PROVE  i = j
      BY DEF Distinct
    <2>1. i + 1 = j + 1
      BY <1>3 DEF Distinct
    <2>2. QED
      BY <1>1, <2>1
  <1>8. QED
    BY <1>1, <1>2, <1>5, <1>6, <1>7 DEF b

LEMMA EmptyFacts == Of(<<>>) = {} /\ Distinct(<<>>) /\ \A S : <<>> \in Seq(S)
PROOF BY DEF Of, Distinct

LookupRecord ==
    [pc : {"none", "lookup", "resolve", "forward", "guard"},
     read : {"none", "hit", "miss", "error"}, pending : Seq(Requests)]

LookupTypes ==
    /\ inflight \in [LookupKeys -> Seq(Requests)]
    /\ lookupTask \in [Requests -> LookupRecord]
    /\ answer \in [Requests -> {"none", "waiting", "added", "failed", "cached",
                                "hung up", "gone"}]
    /\ clAsked \in Seq(Requests)

\* A task has requests before it exactly while it forwards them, and a request
\* has a task only once it was made.
TasksInOrder ==
    \A v \in Requests :
        /\ lookupTask[v].pc = "forward" <=> lookupTask[v].pending # <<>>
        /\ answer[v] = "none" => lookupTask[v].pc = "none"

\* A request is in the entry of its key, before a task or handed on: in one of
\* these places and there once.
PlacedOnce ==
    /\ \A k \in LookupKeys : Distinct(inflight[k])
    /\ \A v \in Requests : Distinct(lookupTask[v].pending)
    /\ Distinct(clAsked)
    /\ \A k \in LookupKeys : \A r \in Of(inflight[k]) :
          /\ r \notin Of(clAsked)
          /\ \A v \in Requests : r \notin Of(lookupTask[v].pending)
    /\ \A v \in Requests : \A r \in Of(lookupTask[v].pending) :
          /\ r \notin Of(clAsked)
          /\ \A u \in Requests \ {v} : r \notin Of(lookupTask[u].pending)

\* What a request has been told fits the place it is in.
AnswersFit ==
    /\ \A k \in LookupKeys : \A r \in Of(inflight[k]) :
          KeyOf[r] = k /\ answer[r] \in {"waiting", "gone"}
    /\ \A v \in Requests : \A r \in Of(lookupTask[v].pending) :
          answer[r] \in {"waiting", "gone"}
    /\ \A r \in Of(clAsked) : answer[r] \notin {"none", "cached", "waiting"}

LookupInv == LookupTypes /\ TasksInOrder /\ PlacedOnce /\ AnswersFit /\ EntryHasLookup

LEMMA OfTyped ==
    ASSUME LookupTypes
    PROVE  /\ \A k \in LookupKeys : Of(inflight[k]) \subseteq Requests
           /\ \A v \in Requests : Of(lookupTask[v].pending) \subseteq Requests
           /\ Of(clAsked) \subseteq Requests
           /\ \A k \in LookupKeys : inflight[k] # <<>> => Head(inflight[k]) \in Of(inflight[k])
PROOF
  <1>1. \A s \in Seq(Requests) : Of(s) \subseteq Requests
    BY DEF Of
  <1>2. \A s \in Seq(Requests) : s # <<>> => Head(s) \in Of(s)
    BY TailFacts
  <1>3. \A v \in Requests : lookupTask[v].pending \in Seq(Requests)
    BY Zenon DEF LookupTypes, LookupRecord
  <1>4. QED
    BY <1>1, <1>2, <1>3, Zenon DEF LookupTypes

LEMMA AddUncachableKeeps ==
    ASSUME LookupInv, NEW r \in Requests, AddUncachable(r)
    PROVE  LookupInv'
PROOF
  <1>1. /\ answer[r] = "none" /\ clAsked' = Append(clAsked, r)
        /\ answer' = [answer EXCEPT ![r] = "added"]
        /\ UNCHANGED <<inflight, lookupTask>>
    BY DEF AddUncachable
  <1>2. LookupTypes
    BY DEF LookupInv
  <1>3. /\ r \notin Of(clAsked)
        /\ \A k \in LookupKeys : r \notin Of(inflight[k])
        /\ \A v \in Requests : r \notin Of(lookupTask[v].pending)
    BY <1>1 DEF LookupInv, AnswersFit
  <1>4. clAsked' \in Seq(Requests) /\ Of(clAsked') = Of(clAsked) \cup {r} /\ Distinct(clAsked')
    BY <1>1, <1>2, <1>3, AppendFacts, Zenon DEF LookupInv, PlacedOnce, LookupTypes
  <1>5. answer'[r] = "added" /\ \A u \in Requests \ {r} : answer'[u] = answer[u]
    BY <1>1, <1>2, Zenon DEF LookupTypes
  <1>6. LookupTypes'
    BY <1>1, <1>2, <1>4, Zenon DEF LookupTypes
  <1>7. TasksInOrder'
    BY <1>1, <1>5, SMTT(45) DEF LookupInv, TasksInOrder
  <1>8. PlacedOnce'
    <2>1. PlacedOnce
      BY DEF LookupInv
    <2>2. \A k \in LookupKeys : \A q \in Of(inflight[k]) : q \notin Of(clAsked')
      BY <1>3, <1>4, <2>1 DEF PlacedOnce
    <2>3. \A v \in Requests : \A q \in Of(lookupTask[v].pending) : q \notin Of(clAsked')
      BY <1>3, <1>4, <2>1 DEF PlacedOnce
    <2>4. QED
      BY <1>1, <1>4, <2>1, <2>2, <2>3, Zenon DEF PlacedOnce
  <1>9. AnswersFit'
    BY <1>1, <1>2, <1>3, <1>4, <1>5, OfTyped DEF LookupInv, AnswersFit
  <1>10. EntryHasLookup'
    BY <1>1 DEF LookupInv, EntryHasLookup
  <1>11. QED
    BY <1>6, <1>7, <1>8, <1>9, <1>10 DEF LookupInv

LEMMA JoinInflightKeeps ==
    ASSUME LookupInv, NEW r \in Requests, JoinInflight(r)
    PROVE  LookupInv'
PROOF
  <1> DEFINE k == KeyOf[r]
  <1>1. /\ answer[r] = "none" /\ inflight[k] # <<>>
        /\ inflight' = [inflight EXCEPT ![k] = Append(inflight[k], r)]
        /\ answer' = [answer EXCEPT ![r] = "waiting"]
        /\ UNCHANGED <<lookupTask, clAsked>>
    BY DEF JoinInflight, Joined
  <1>2. LookupTypes /\ k \in LookupKeys
    BY DEF LookupInv, LookupKeys
  <1>3. /\ r \notin Of(clAsked)
        /\ \A j \in LookupKeys : r \notin Of(inflight[j])
        /\ \A v \in Requests : r \notin Of(lookupTask[v].pending)
    BY <1>1, SMTT(45) DEF LookupInv, AnswersFit
  <1>4. /\ Append(inflight[k], r) \in Seq(Requests)
        /\ Of(Append(inflight[k], r)) = Of(inflight[k]) \cup {r}
        /\ Distinct(Append(inflight[k], r))
        /\ Head(Append(inflight[k], r)) = Head(inflight[k])
    <2>1. inflight[k] \in Seq(Requests) /\ Distinct(inflight[k]) /\ r \notin Of(inflight[k])
      BY <1>2, <1>3, Zenon DEF LookupInv, PlacedOnce, LookupTypes
    <2>2. QED
      BY <1>1, <2>1, AppendFacts
  <1>5. answer'[r] = "waiting" /\ \A u \in Requests \ {r} : answer'[u] = answer[u]
    BY <1>1, <1>2, Zenon DEF LookupTypes
  <1>6. /\ inflight'[k] = Append(inflight[k], r)
        /\ \A j \in LookupKeys \ {k} : inflight'[j] = inflight[j]
        /\ inflight' \in [LookupKeys -> Seq(Requests)]
    BY <1>1, <1>2, <1>4, Zenon DEF LookupTypes
  <1>7. LookupTypes'
    BY <1>1, <1>2, <1>6, Zenon DEF LookupTypes
  <1>8. TasksInOrder'
    BY <1>1, <1>5 DEF LookupInv, TasksInOrder
  <1>9. PlacedOnce'
    <2>1. \A j \in LookupKeys :
              Distinct(inflight'[j]) /\ Of(inflight'[j]) \subseteq Of(inflight[j]) \cup {r}
      BY <1>4, <1>6, Zenon DEF LookupInv, PlacedOnce
    <2>2. PlacedOnce
      BY DEF LookupInv
    <2>3. \A j \in LookupKeys : \A q \in Of(inflight'[j]) :
              /\ q \notin Of(clAsked)
              /\ \A v \in Requests : q \notin Of(lookupTask[v].pending)
      BY <1>3, <2>1, <2>2 DEF PlacedOnce
    <2>4. QED
      BY <1>1, <2>1, <2>2, <2>3, SMTT(45) DEF PlacedOnce
  <1>10. AnswersFit'
    <2>1. \A j \in LookupKeys : \A q \in Of(inflight'[j]) :
              KeyOf[q] = j /\ answer'[q] \in {"waiting", "gone"}
      <3>1. \A j \in LookupKeys : \A q \in Of(inflight[j]) :
                q \in Requests /\ q # r /\ KeyOf[q] = j /\ answer[q] \in {"waiting", "gone"}
        BY <1>2, <1>3, OfTyped DEF LookupInv, AnswersFit
      <3>2. \A j \in LookupKeys : \A q \in Of(inflight'[j]) :
                q \in Of(inflight[j]) \/ (j = k /\ q = r)
        BY <1>4, <1>6, Zenon
      <3>3. QED
        BY <1>5, <3>1, <3>2
    <2>2. QED
      BY <1>1, <1>2, <1>3, <1>5, <2>1, OfTyped DEF LookupInv, AnswersFit
  <1>11. EntryHasLookup'
    BY <1>1, <1>4, <1>6 DEF LookupInv, EntryHasLookup
  <1>12. QED
    BY <1>7, <1>8, <1>9, <1>10, <1>11 DEF LookupInv

LEMMA StartLookupKeeps ==
    ASSUME LookupInv, NEW r \in Requests, StartLookup(r)
    PROVE  LookupInv'
PROOF
  <1> DEFINE k == KeyOf[r]
             task0 == [lookupTask[r] EXCEPT !.pc = "lookup"]
  <1>0. LookupTypes /\ TasksInOrder /\ PlacedOnce /\ AnswersFit /\ k \in LookupKeys
    BY DEF LookupInv, LookupKeys
  <1>1. /\ answer[r] = "none"
        /\ inflight' = [inflight EXCEPT ![k] = <<r>>]
        /\ lookupTask' = [lookupTask EXCEPT ![r] = task0]
        /\ answer' = [answer EXCEPT ![r] = "waiting"]
        /\ UNCHANGED clAsked
    BY DEF StartLookup
  <1>2. /\ r \notin Of(clAsked)
        /\ \A v \in Requests : r \notin Of(lookupTask[v].pending)
    BY <1>0, <1>1 DEF AnswersFit
  <1>3. lookupTask[r].pc = "none" /\ lookupTask[r].pending = <<>>
    BY <1>0, <1>1 DEF TasksInOrder
  <1>4. task0 \in LookupRecord /\ task0.pc = "lookup" /\ task0.pending = lookupTask[r].pending
    BY <1>0, Zenon DEF LookupTypes, LookupRecord
  <1> HIDE DEF task0
  <1>5. answer'[r] = "waiting" /\ \A u \in Requests \ {r} : answer'[u] = answer[u]
    BY <1>0, <1>1, Zenon DEF LookupTypes
  <1>6. <<r>> \in Seq(Requests) /\ Of(<<r>>) = {r} /\ Distinct(<<r>>) /\ Head(<<r>>) = r
    BY DEF Of, Distinct
  <1>7. inflight'[k] = <<r>> /\ \A j \in LookupKeys \ {k} : inflight'[j] = inflight[j]
    BY <1>0, <1>1, Zenon DEF LookupTypes
  <1>8. lookupTask'[r] = task0 /\ \A v \in Requests \ {r} : lookupTask'[v] = lookupTask[v]
    BY <1>0, <1>1, Zenon DEF LookupTypes
  <1>9. \A v \in Requests : lookupTask'[v].pending = lookupTask[v].pending
    BY <1>4, <1>8
  <1>10. LookupTypes'
    BY <1>0, <1>1, <1>4, <1>6, Zenon DEF LookupTypes
  <1>11. TasksInOrder'
    BY <1>0, <1>3, <1>4, <1>5, <1>8 DEF TasksInOrder
  <1>12. \A j \in LookupKeys : \A q \in Of(inflight'[j]) :
            (j = k /\ q = r) \/ (j # k /\ q \in Of(inflight[j]))
    BY <1>6, <1>7, SMTT(45)
  <1>13. PlacedOnce'
    <2>1. \A j \in LookupKeys : Distinct(inflight'[j])
      BY <1>0, <1>6, <1>7 DEF PlacedOnce
    <2>2. \A j \in LookupKeys : \A q \in Of(inflight'[j]) :
              /\ q \notin Of(clAsked)
              /\ \A v \in Requests : q \notin Of(lookupTask[v].pending)
      BY <1>0, <1>2, <1>12 DEF PlacedOnce
    <2>3. QED
      BY <1>0, <1>1, <1>9, <2>1, <2>2, SMTT(45) DEF PlacedOnce
  <1>14. AnswersFit'
    <2>1. \A j \in LookupKeys : \A q \in Of(inflight[j]) :
              q \in Requests /\ q # r /\ KeyOf[q] = j /\ answer[q] \in {"waiting", "gone"}
      BY <1>0, <1>1, OfTyped DEF AnswersFit
    <2>2. \A j \in LookupKeys : \A q \in Of(inflight'[j]) :
              KeyOf[q] = j /\ answer'[q] \in {"waiting", "gone"}
      BY <1>5, <1>12, <2>1
    <2>3. QED
      BY <1>0, <1>1, <1>2, <1>5, <1>9, <2>2, OfTyped, SMTT(45) DEF AnswersFit
  <1>15. EntryHasLookup'
    <2>1. ASSUME NEW j \in LookupKeys, inflight'[j] # <<>>, j # k
          PROVE  /\ Head(inflight'[j]) \in Requests /\ Head(inflight'[j]) # r
                 /\ lookupTask[Head(inflight'[j])].pc \in {"lookup", "resolve", "guard"}
      <3>1. inflight'[j] = inflight[j] /\ Head(inflight[j]) \in Of(inflight[j])
        BY <1>0, <1>7, <2>1, OfTyped
      <3>2. QED
        BY <1>0, <1>1, <2>1, <3>1, OfTyped, SMTT(45) DEF LookupInv, EntryHasLookup, AnswersFit
    <2>2. QED
      BY <1>4, <1>6, <1>7, <1>8, <2>1, SMTT(45) DEF EntryHasLookup
  <1>16. QED
    BY <1>10, <1>11, <1>13, <1>14, <1>15 DEF LookupInv

LEMMA GetActionKeeps ==
    ASSUME LookupInv, NEW r \in Requests, GetActionFromStore(r)
    PROVE  LookupInv'
PROOF
  <1>0. LookupTypes /\ TasksInOrder /\ PlacedOnce /\ AnswersFit
    BY DEF LookupInv
  <1>1. PICK read \in {"hit", "miss", "error"} :
            lookupTask' = [lookupTask EXCEPT ![r].pc = "resolve", ![r].read = read]
    BY Zenon DEF GetActionFromStore
  <1>2. lookupTask[r].pc = "lookup" /\ UNCHANGED <<inflight, answer, clAsked>>
    BY DEF GetActionFromStore
  <1> DEFINE task0 == [lookupTask[r] EXCEPT !.pc = "resolve", !.read = read]
  <1>3. /\ task0 \in LookupRecord /\ task0.pc = "resolve"
        /\ task0.pending = lookupTask[r].pending
        /\ lookupTask' = [lookupTask EXCEPT ![r] = task0]
    BY <1>0, <1>1, Zenon DEF LookupTypes, LookupRecord
  <1> HIDE DEF task0
  <1>4. lookupTask'[r] = task0 /\ \A v \in Requests \ {r} : lookupTask'[v] = lookupTask[v]
    BY <1>0, <1>3, Zenon DEF LookupTypes
  <1>5. \A v \in Requests : lookupTask'[v].pending = lookupTask[v].pending
    BY <1>3, <1>4
  <1>6. LookupTypes'
    BY <1>0, <1>2, <1>3, Zenon DEF LookupTypes
  <1>7. TasksInOrder'
    BY <1>0, <1>2, <1>3, <1>4 DEF TasksInOrder
  <1>8. PlacedOnce' /\ AnswersFit'
    BY <1>0, <1>2, <1>5 DEF PlacedOnce, AnswersFit
  <1>9. EntryHasLookup'
    <2>1. \A j \in LookupKeys : inflight[j] # <<>> => Head(inflight[j]) \in Requests
      BY <1>0, OfTyped
    <2>2. QED
      BY <1>2, <1>3, <1>4, <2>1 DEF LookupInv, EntryHasLookup
  <1>10. QED
    BY <1>6, <1>7, <1>8, <1>9 DEF LookupInv

\* The entry of a key leaves the map, and its requests are answered.
LEMMA EntryAnswered ==
    ASSUME LookupInv, NEW r \in Requests, NEW new \in LookupRecord,
           NEW a \in {"cached", "failed", "hung up"},
           lookupTask[r].pc \in {"resolve", "guard"},
           inflight' = [inflight EXCEPT ![KeyOf[r]] = <<>>],
           answer' = ToldClient(Of(inflight[KeyOf[r]]), a),
           lookupTask' = [lookupTask EXCEPT ![r] = new],
           new.pc \in {"guard", "none"}, new.pending = <<>>,
           UNCHANGED clAsked
    PROVE  LookupInv'
PROOF
  <1> DEFINE k == KeyOf[r]
  <1>0. LookupTypes /\ TasksInOrder /\ PlacedOnce /\ AnswersFit /\ k \in LookupKeys
    BY Zenon DEF LookupInv, LookupKeys
  <1>1. /\ answer' \in [Requests -> {"none", "waiting", "added", "failed", "cached",
                                     "hung up", "gone"}]
        /\ \A q \in Requests : q \notin Of(inflight[k]) => answer'[q] = answer[q]
        /\ \A q \in Requests : answer[q] # "waiting" => answer'[q] = answer[q]
        /\ \A q \in Requests : answer'[q] = "none" => answer[q] = "none"
    <2>0. a \in {"added", "failed", "cached", "hung up"} /\ a # "none"
      BY Zenon
    <2>1. /\ answer' \in [Requests -> {"none", "waiting", "added", "failed", "cached",
                                       "hung up", "gone"}]
          /\ \A q \in Requests : q \notin Of(inflight[k]) => answer'[q] = answer[q]
          /\ \A q \in Requests : answer[q] # "waiting" => answer'[q] = answer[q]
          /\ \A q \in Requests : answer[q] = "waiting" /\ q \in Of(inflight[k]) => answer'[q] = a
      <3>1. answer' = [q \in Requests |-> IF q \in Of(inflight[k]) /\ answer[q] = "waiting"
                                          THEN a ELSE answer[q]]
        BY Zenon DEF ToldClient
      <3>2. answer \in [Requests -> {"none", "waiting", "added", "failed", "cached",
                                     "hung up", "gone"}]
        BY <1>0, Zenon DEF LookupTypes
      <3>3. QED
        BY <2>0, <3>1, <3>2, Zenon
    <2>2. QED
      BY <2>0, <2>1, Zenon
  <1>2. inflight'[k] = <<>> /\ \A j \in LookupKeys \ {k} : inflight'[j] = inflight[j]
    BY <1>0, Zenon DEF LookupTypes
  <1>3. lookupTask'[r] = new /\ \A v \in Requests \ {r} : lookupTask'[v] = lookupTask[v]
    BY <1>0, Zenon DEF LookupTypes
  <1>4. \A v \in Requests : lookupTask'[v].pending = lookupTask[v].pending
    BY <1>0, <1>3, Zenon DEF TasksInOrder
  <1>5. LookupTypes'
    BY <1>0, <1>1, EmptyFacts, Zenon DEF LookupTypes
  <1>6. TasksInOrder'
    <2>1. answer[r] # "none"
      BY <1>0, Zenon DEF TasksInOrder
    <2>2. QED
      BY <1>0, <1>1, <1>3, <2>1 DEF TasksInOrder
  <1>7. \A j \in LookupKeys : \A q \in Of(inflight'[j]) : j # k /\ q \in Of(inflight[j])
    BY <1>2, EmptyFacts, Zenon
  <1>8. PlacedOnce'
    <2>1. \A j \in LookupKeys : Distinct(inflight'[j])
      BY <1>0, <1>2, EmptyFacts, Zenon DEF PlacedOnce
    <2>2. \A j \in LookupKeys : \A q \in Of(inflight'[j]) :
              /\ q \notin Of(clAsked)
              /\ \A v \in Requests : q \notin Of(lookupTask[v].pending)
      BY <1>0, <1>7, Zenon DEF PlacedOnce
    <2>3. QED
      BY <1>0, <1>4, <2>1, <2>2, Zenon DEF PlacedOnce
  <1>9. AnswersFit'
    <2>1. \A j \in LookupKeys : \A q \in Of(inflight'[j]) :
              KeyOf[q] = j /\ answer'[q] \in {"waiting", "gone"}
      <3>1. \A j \in LookupKeys : \A q \in Of(inflight[j]) :
                q \in Requests /\ KeyOf[q] = j /\ answer[q] \in {"waiting", "gone"}
        BY <1>0, OfTyped, Zenon DEF AnswersFit
      <3>2. \A j \in LookupKeys : \A q \in Of(inflight'[j]) : q \notin Of(inflight[k])
        <4> SUFFICES ASSUME NEW j \in LookupKeys, NEW q \in Of(inflight'[j]),
                            q \in Of(inflight[k])
                     PROVE  FALSE
          BY Zenon
        <4>1. j # k /\ q \in Of(inflight[j])
          BY <1>7, Zenon
        <4>2. KeyOf[q] = j /\ KeyOf[q] = k
          BY <1>0, <3>1, <4>1, Zenon
        <4>3. QED
          BY <4>1, <4>2, Zenon
      <3>3. QED
        BY <1>1, <1>7, <3>1, <3>2, Zenon
    <2>2. \A v \in Requests : \A q \in Of(lookupTask[v].pending) :
              answer'[q] \in {"waiting", "gone"}
      <3>1. \A v \in Requests : \A q \in Of(lookupTask[v].pending) :
                q \in Requests /\ q \notin Of(inflight[k]) /\ answer[q] \in {"waiting", "gone"}
        BY <1>0, OfTyped, Zenon DEF AnswersFit, PlacedOnce
      <3>2. QED
        BY <1>1, <3>1, Zenon
    <2>3. \A q \in Of(clAsked) : answer'[q] \notin {"none", "cached", "waiting"}
      BY <1>0, <1>1, OfTyped, Zenon DEF AnswersFit
    <2>4. QED
      BY <1>4, <2>1, <2>2, <2>3, Zenon DEF AnswersFit
  <1>10. EntryHasLookup'
    <2>1. ASSUME NEW j \in LookupKeys, inflight'[j] # <<>>
          PROVE  lookupTask'[Head(inflight'[j])].pc \in {"lookup", "resolve", "guard"}
      <3>1. j # k /\ inflight'[j] = inflight[j]
        BY <1>2, <2>1, Zenon
      <3>2. Head(inflight[j]) \in Requests /\ KeyOf[Head(inflight[j])] = j
        BY <1>0, <2>1, <3>1, OfTyped, Zenon DEF AnswersFit
      <3>3. QED
        BY <1>3, <2>1, <3>1, <3>2 DEF LookupInv, EntryHasLookup
    <2>2. QED
      BY <2>1, Zenon DEF EntryHasLookup
  <1>11. QED
    BY <1>5, <1>6, <1>8, <1>9, <1>10, Zenon DEF LookupInv

\* A miss takes the entry out of the map and puts its requests before the task.
LEMMA EntryTaken ==
    ASSUME LookupInv, NEW r \in Requests, lookupTask[r].pc = "resolve",
           inflight' = [inflight EXCEPT ![KeyOf[r]] = <<>>],
           lookupTask' = [lookupTask EXCEPT
                             ![r].pc = IF inflight[KeyOf[r]] = <<>> THEN "guard" ELSE "forward",
                             ![r].pending = inflight[KeyOf[r]]],
           UNCHANGED <<answer, clAsked>>
    PROVE  LookupInv'
PROOF
  <1> DEFINE k == KeyOf[r]
             new == [lookupTask[r] EXCEPT !.pc = IF inflight[k] = <<>> THEN "guard" ELSE "forward",
                                          !.pending = inflight[k]]
  <1>0. LookupTypes /\ TasksInOrder /\ PlacedOnce /\ AnswersFit /\ k \in LookupKeys
    BY DEF LookupInv, LookupKeys
  <1>1. /\ new \in LookupRecord /\ new.pending = inflight[k]
        /\ new.pc = IF inflight[k] = <<>> THEN "guard" ELSE "forward"
        /\ lookupTask' = [lookupTask EXCEPT ![r] = new]
    BY <1>0, Zenon DEF LookupTypes, LookupRecord
  <1> HIDE DEF new
  <1>2. inflight'[k] = <<>> /\ \A j \in LookupKeys \ {k} : inflight'[j] = inflight[j]
    BY <1>0, Zenon DEF LookupTypes
  <1>3. lookupTask'[r] = new /\ \A v \in Requests \ {r} : lookupTask'[v] = lookupTask[v]
    BY <1>0, <1>1, Zenon DEF LookupTypes
  <1>4. lookupTask[r].pending = <<>>
    BY <1>0 DEF TasksInOrder
  <1>5. LookupTypes'
    BY <1>0, <1>1, EmptyFacts DEF LookupTypes
  <1>6. TasksInOrder'
    <2>1. answer[r] # "none"
      BY <1>0 DEF TasksInOrder
    <2>2. new.pc = "forward" <=> new.pending # <<>>
      BY <1>1
    <2>3. QED
      BY <1>0, <1>3, <2>1, <2>2, Zenon DEF TasksInOrder
  <1>p. \A v \in Requests : \A q \in Of(lookupTask'[v].pending) :
            \/ v = r /\ q \in Of(inflight[k])
            \/ v # r /\ q \in Of(lookupTask[v].pending)
    BY <1>1, <1>3, Zenon
  <1>7. \A j \in LookupKeys : \A q \in Of(inflight'[j]) : j # k /\ q \in Of(inflight[j])
    BY <1>2, EmptyFacts
  <1>8. \A j \in LookupKeys : \A q \in Of(inflight[j]) : KeyOf[q] = j
    BY <1>0 DEF AnswersFit
  <1>9. PlacedOnce'
    <2>1. \A j \in LookupKeys : Distinct(inflight'[j])
      BY <1>0, <1>2, EmptyFacts DEF PlacedOnce
    <2>2. \A v \in Requests : Distinct(lookupTask'[v].pending)
      BY <1>0, <1>1, <1>3, Zenon DEF PlacedOnce
    <2>3. \A j \in LookupKeys : \A q \in Of(inflight'[j]) :
              /\ q \notin Of(clAsked)
              /\ \A v \in Requests : q \notin Of(lookupTask'[v].pending)
      <3>1. \A j \in LookupKeys : \A q \in Of(inflight'[j]) : q \notin Of(inflight[k])
        BY <1>0, <1>7, <1>8
      <3>2. QED
        BY <1>0, <1>p, <1>7, <3>1, Zenon DEF PlacedOnce
    <2>4. \A v \in Requests : \A q \in Of(lookupTask'[v].pending) :
              /\ q \notin Of(clAsked)
              /\ \A u \in Requests \ {v} : q \notin Of(lookupTask'[u].pending)
      BY <1>0, <1>p, Zenon DEF PlacedOnce
    <2>5. QED
      BY <1>0, <2>1, <2>2, <2>3, <2>4, Zenon DEF PlacedOnce
  <1>10. AnswersFit'
    BY <1>0, <1>p, <1>7, Zenon DEF AnswersFit
  <1>11. EntryHasLookup'
    <2>1. ASSUME NEW j \in LookupKeys, inflight'[j] # <<>>
          PROVE  lookupTask'[Head(inflight'[j])].pc \in {"lookup", "resolve", "guard"}
      <3>1. j # k /\ inflight'[j] = inflight[j]
        BY <1>2, <2>1
      <3>2. Head(inflight[j]) \in Requests /\ KeyOf[Head(inflight[j])] = j
        BY <1>0, <2>1, <3>1, OfTyped DEF AnswersFit
      <3>3. QED
        BY <1>3, <2>1, <3>1, <3>2, Zenon DEF LookupInv, EntryHasLookup
    <2>2. QED
      BY <2>1, Zenon DEF EntryHasLookup
  <1>12. QED
    BY <1>5, <1>6, <1>9, <1>10, <1>11 DEF LookupInv

LEMMA ForwardKeeps ==
    ASSUME LookupInv, NEW r \in Requests, ForwardAction(r)
    PROVE  LookupInv'
PROOF
  <1> DEFINE pend == lookupTask[r].pending
             h == Head(pend)
             new == [lookupTask[r] EXCEPT !.pending = Tail(pend),
                                          !.pc = IF Len(pend) = 1 THEN "guard" ELSE @]
  <1>0. LookupTypes /\ TasksInOrder /\ PlacedOnce /\ AnswersFit
    BY DEF LookupInv
  <1>1. /\ lookupTask[r].pc = "forward" /\ clAsked' = Append(clAsked, h)
        /\ lookupTask' = [lookupTask EXCEPT ![r] = new]
        /\ UNCHANGED inflight
    BY Zenon DEF ForwardAction, Rest
  <1>2. PICK a \in {"added", "failed"} : answer' = ToldClient({h}, a)
    BY DEF ForwardAction
  <1>3. pend \in Seq(Requests) /\ pend # <<>> /\ Distinct(pend)
    BY <1>0, <1>1, Zenon DEF LookupTypes, LookupRecord, TasksInOrder, PlacedOnce
  <1>4. /\ h \in Requests /\ Tail(pend) \in Seq(Requests)
        /\ h \in Of(pend) /\ Of(Tail(pend)) \subseteq Of(pend)
        /\ h \notin Of(Tail(pend)) /\ Distinct(Tail(pend))
        /\ Len(pend) # 1 => Tail(pend) # <<>>
        /\ Len(pend) = 1 => Tail(pend) = <<>>
    BY <1>3, TailFacts
  <1>5. /\ new \in LookupRecord /\ new.pending = Tail(pend)
        /\ new.pc = IF Len(pend) = 1 THEN "guard" ELSE "forward"
    BY <1>0, <1>1, <1>4, Zenon DEF LookupTypes, LookupRecord
  <1> HIDE DEF new
  <1>6. lookupTask'[r] = new /\ \A v \in Requests \ {r} : lookupTask'[v] = lookupTask[v]
    BY <1>0, <1>1, Zenon DEF LookupTypes
  <1>7. /\ answer' \in [Requests -> {"none", "waiting", "added", "failed", "cached",
                                     "hung up", "gone"}]
        /\ \A q \in Requests \ {h} : answer'[q] = answer[q]
        /\ answer'[h] \in {"added", "failed", "gone"}
    <2>1. answer' = [q \in Requests |-> IF q \in {h} /\ answer[q] = "waiting"
                                        THEN a ELSE answer[q]]
      BY <1>2 DEF ToldClient
    <2>2. answer[h] \in {"waiting", "gone"}
      BY <1>0, <1>4 DEF AnswersFit
    <2>3. QED
      BY <1>0, <1>4, <2>1, <2>2, Zenon DEF LookupTypes
  <1>8. /\ h \notin Of(clAsked)
        /\ \A j \in LookupKeys : h \notin Of(inflight[j])
        /\ \A v \in Requests \ {r} : h \notin Of(lookupTask[v].pending)
    BY <1>0, <1>4, SMTT(45) DEF PlacedOnce
  <1>9. clAsked' \in Seq(Requests) /\ Of(clAsked') = Of(clAsked) \cup {h} /\ Distinct(clAsked')
    <2>1. clAsked \in Seq(Requests) /\ Distinct(clAsked)
      BY <1>0, Zenon DEF LookupTypes, PlacedOnce
    <2>2. QED
      BY <1>1, <1>4, <1>8, <2>1, AppendFacts
  <1> HIDE DEF h
  <1>10. \A v \in Requests : \A q \in Of(lookupTask'[v].pending) :
            q \in Of(lookupTask[v].pending) /\ q # h
    BY <1>4, <1>5, <1>6, <1>8
  <1>11. LookupTypes'
    BY <1>0, <1>1, <1>5, <1>7, <1>9, Zenon DEF LookupTypes
  <1>12. TasksInOrder'
    <2>1. answer[r] # "none" /\ answer[h] # "none"
      BY <1>0, <1>1, <1>4 DEF TasksInOrder, AnswersFit
    <2>2. answer'[r] # "none"
      BY <1>7, <2>1, Zenon
    <2>3. new.pc = "forward" <=> new.pending # <<>>
      BY <1>4, <1>5
    <2>4. \A v \in Requests : answer'[v] = "none" => answer[v] = "none"
      BY <1>7, <2>1, Zenon
    <2>5. QED
      BY <1>0, <1>6, <2>2, <2>3, <2>4, SMTT(45) DEF TasksInOrder
  <1>13. PlacedOnce'
    <2>1. \A v \in Requests : Distinct(lookupTask'[v].pending)
      BY <1>0, <1>4, <1>5, <1>6 DEF PlacedOnce
    <2>2. \A j \in LookupKeys : \A q \in Of(inflight[j]) :
              /\ q \notin Of(clAsked')
              /\ \A v \in Requests : q \notin Of(lookupTask'[v].pending)
      <3>1. \A j \in LookupKeys : \A q \in Of(inflight[j]) :
                /\ q # h /\ q \notin Of(clAsked)
                /\ \A v \in Requests : q \notin Of(lookupTask[v].pending)
        BY <1>0, <1>8 DEF PlacedOnce
      <3>2. QED
        BY <1>9, <1>10, <3>1, Zenon
    <2>3. \A v \in Requests : \A q \in Of(lookupTask'[v].pending) :
              /\ q \notin Of(clAsked')
              /\ \A u \in Requests \ {v} : q \notin Of(lookupTask'[u].pending)
      BY <1>0, <1>9, <1>10, SMTT(45) DEF PlacedOnce
    <2>4. QED
      BY <1>0, <1>1, <1>9, <2>1, <2>2, <2>3, Zenon DEF PlacedOnce
  <1>14. AnswersFit'
    <2>1. \A j \in LookupKeys : \A q \in Of(inflight[j]) :
              KeyOf[q] = j /\ answer'[q] \in {"waiting", "gone"}
      <3>1. \A j \in LookupKeys : \A q \in Of(inflight[j]) :
                q \in Requests \ {h} /\ KeyOf[q] = j /\ answer[q] \in {"waiting", "gone"}
        BY <1>0, <1>8, OfTyped, SMTT(45) DEF AnswersFit
      <3>2. QED
        BY <1>7, <3>1, Zenon
    <2>2. \A v \in Requests : \A q \in Of(lookupTask'[v].pending) :
              answer'[q] \in {"waiting", "gone"}
      <3>1. \A v \in Requests : \A q \in Of(lookupTask[v].pending) :
                q \in Requests /\ answer[q] \in {"waiting", "gone"}
        BY <1>0, OfTyped, SMTT(45) DEF AnswersFit
      <3>2. QED
        BY <1>7, <1>10, <3>1, Zenon
    <2>3. \A q \in Of(clAsked') : answer'[q] \notin {"none", "cached", "waiting"}
      BY <1>0, <1>7, <1>8, <1>9, OfTyped, Zenon DEF AnswersFit
    <2>4. QED
      BY <1>1, <2>1, <2>2, <2>3 DEF AnswersFit
  <1>15. EntryHasLookup'
    <2>1. ASSUME NEW j \in LookupKeys, inflight[j] # <<>>
          PROVE  lookupTask'[Head(inflight[j])].pc \in {"lookup", "resolve", "guard"}
      <3>1. /\ Head(inflight[j]) \in Requests
            /\ lookupTask[Head(inflight[j])].pc \in {"lookup", "resolve", "guard"}
        BY <1>0, <2>1, OfTyped DEF LookupInv, EntryHasLookup
      <3>2. QED
        BY <1>1, <1>6, <3>1
    <2>2. QED
      BY <1>1, <2>1 DEF EntryHasLookup
  <1>16. QED
    BY <1>11, <1>12, <1>13, <1>14, <1>15 DEF LookupInv

LEMMA LookupDiesKeeps ==
    ASSUME LookupInv, NEW r \in Requests, LookupDies(r)
    PROVE  LookupInv'
PROOF
  <1> DEFINE pend == lookupTask[r].pending
             new == [pc |-> "guard", read |-> "none", pending |-> <<>>]
  <1>0. LookupTypes /\ TasksInOrder /\ PlacedOnce /\ AnswersFit
    BY DEF LookupInv
  <1>1. /\ lookupTask[r].pc \in {"lookup", "forward"}
        /\ answer' = ToldClient(Of(pend), "hung up")
        /\ lookupTask' = [lookupTask EXCEPT ![r] = new]
        /\ UNCHANGED <<inflight, clAsked>>
    BY Zenon DEF LookupDies
  <1>2. new \in LookupRecord /\ new.pending = <<>> /\ new.pc = "guard"
    BY EmptyFacts DEF LookupRecord
  <1> HIDE DEF new
  <1>3. lookupTask'[r] = new /\ \A v \in Requests \ {r} : lookupTask'[v] = lookupTask[v]
    BY <1>0, <1>1, Zenon DEF LookupTypes
  <1>4. /\ answer' \in [Requests -> {"none", "waiting", "added", "failed", "cached",
                                     "hung up", "gone"}]
        /\ \A q \in Requests : q \notin Of(pend) => answer'[q] = answer[q]
        /\ \A q \in Requests : answer[q] # "waiting" => answer'[q] = answer[q]
        /\ \A q \in Requests : answer'[q] = "none" => answer[q] = "none"
    <2>1. answer' = [q \in Requests |-> IF q \in Of(pend) /\ answer[q] = "waiting"
                                        THEN "hung up" ELSE answer[q]]
      BY <1>1, Zenon DEF ToldClient
    <2>2. QED
      BY <1>0, <2>1, Zenon DEF LookupTypes
  <1>5. \A v \in Requests : \A q \in Of(lookupTask'[v].pending) :
            v # r /\ q \in Of(lookupTask[v].pending)
    BY <1>2, <1>3, EmptyFacts
  <1>6. LookupTypes'
    BY <1>0, <1>1, <1>2, <1>4, Zenon DEF LookupTypes
  <1>7. TasksInOrder'
    <2>1. answer[r] # "none"
      BY <1>0, <1>1, Zenon DEF TasksInOrder
    <2>2. answer'[r] # "none"
      BY <1>4, <2>1, Zenon
    <2>3. QED
      BY <1>0, <1>2, <1>3, <1>4, <2>2 DEF TasksInOrder
  <1>8. PlacedOnce'
    <2>1. \A v \in Requests : Distinct(lookupTask'[v].pending)
      BY <1>0, <1>2, <1>3, EmptyFacts DEF PlacedOnce
    <2>2. \A v \in Requests : \A q \in Of(lookupTask'[v].pending) :
              /\ q \notin Of(clAsked)
              /\ \A u \in Requests \ {v} : q \notin Of(lookupTask'[u].pending)
      BY <1>0, <1>5, SMTT(45) DEF PlacedOnce
    <2>3. \A j \in LookupKeys : \A q \in Of(inflight[j]) :
              \A v \in Requests : q \notin Of(lookupTask'[v].pending)
      BY <1>0, <1>5, SMTT(45) DEF PlacedOnce
    <2>4. QED
      BY <1>0, <1>1, <2>1, <2>2, <2>3, Zenon DEF PlacedOnce
  <1>9. AnswersFit'
    <2>1. \A j \in LookupKeys : \A q \in Of(inflight[j]) :
              KeyOf[q] = j /\ answer'[q] \in {"waiting", "gone"}
      <3>1. \A j \in LookupKeys : \A q \in Of(inflight[j]) :
                q \in Requests /\ q \notin Of(pend) /\ KeyOf[q] = j
                /\ answer[q] \in {"waiting", "gone"}
        BY <1>0, OfTyped DEF AnswersFit, PlacedOnce
      <3>2. QED
        BY <1>4, <3>1
    <2>2. \A v \in Requests : \A q \in Of(lookupTask'[v].pending) :
              answer'[q] \in {"waiting", "gone"}
      <3>1. \A v \in Requests \ {r} : \A q \in Of(lookupTask[v].pending) :
                q \in Requests /\ q \notin Of(pend) /\ answer[q] \in {"waiting", "gone"}
        BY <1>0, OfTyped, SMTT(45) DEF AnswersFit, PlacedOnce
      <3>2. QED
        BY <1>4, <1>5, <3>1, Zenon
    <2>3. \A q \in Of(clAsked) : answer'[q] \notin {"none", "cached", "waiting"}
      BY <1>0, <1>4, OfTyped, Zenon DEF AnswersFit
    <2>4. QED
      BY <1>1, <2>1, <2>2, <2>3, Zenon DEF AnswersFit
  <1>10. EntryHasLookup'
    <2>1. \A j \in LookupKeys : inflight[j] # <<>> =>
              /\ Head(inflight[j]) \in Requests
              /\ lookupTask[Head(inflight[j])].pc \in {"lookup", "resolve", "guard"}
      BY <1>0, OfTyped DEF LookupInv, EntryHasLookup
    <2>2. QED
      BY <1>1, <1>2, <1>3, <2>1, Zenon DEF EntryHasLookup
  <1>11. QED
    BY <1>6, <1>7, <1>8, <1>9, <1>10 DEF LookupInv

LEMMA ResolveKeeps ==
    ASSUME LookupInv, NEW r \in Requests, ResolveLookup(r)
    PROVE  LookupInv'
PROOF
  <1>1. /\ lookupTask[r].pc = "resolve" /\ UNCHANGED clAsked
        /\ inflight' = [inflight EXCEPT ![KeyOf[r]] = <<>>]
    BY DEF ResolveLookup, Take
  <1>2. lookupTask[r] \in LookupRecord /\ lookupTask[r].pending = <<>>
    BY <1>1, Zenon DEF LookupInv, LookupTypes, TasksInOrder
  <1>3. CASE lookupTask[r].read \in {"hit", "error"}
    <2> DEFINE new == [lookupTask[r] EXCEPT !.pc = "guard"]
               a == IF lookupTask[r].read = "hit" THEN "cached" ELSE "failed"
    <2>1. /\ answer' = ToldClient(Of(inflight[KeyOf[r]]), a)
          /\ lookupTask' = [lookupTask EXCEPT ![r] = new]
      BY <1>3 DEF ResolveLookup
    <2>2. new \in LookupRecord /\ new.pc = "guard" /\ new.pending = <<>>
      BY <1>2 DEF LookupRecord
    <2>3. a \in {"cached", "failed", "hung up"}
      OBVIOUS
    <2> HIDE DEF new, a
    <2>4. QED
      BY <1>1, <2>1, <2>2, <2>3, EntryAnswered, Zenon
  <1>4. CASE lookupTask[r].read = "miss"
    <2>1. /\ lookupTask' = [lookupTask EXCEPT
                               ![r].pc = IF inflight[KeyOf[r]] = <<>> THEN "guard" ELSE "forward",
                               ![r].pending = inflight[KeyOf[r]]]
          /\ UNCHANGED answer
      BY <1>4 DEF ResolveLookup
    <2>2. QED
      BY <1>1, <2>1, EntryTaken, Zenon
  <1>5. QED
    BY <1>3, <1>4 DEF ResolveLookup

LEMMA DropGuardKeeps ==
    ASSUME LookupInv, NEW r \in Requests, DropGuard(r)
    PROVE  LookupInv'
PROOF
  <1>1. /\ lookupTask[r].pc = "guard" /\ UNCHANGED clAsked
        /\ inflight' = [inflight EXCEPT ![KeyOf[r]] = <<>>]
        /\ lookupTask' = [lookupTask EXCEPT ![r] = NoLookup]
        /\ answer' = ToldClient(Of(inflight[KeyOf[r]]) \ Of(inflight'[KeyOf[r]]), "hung up")
    BY Zenon DEF DropGuard, GuardRemoves
  <1>2. inflight'[KeyOf[r]] = <<>>
    BY <1>1, Zenon DEF LookupInv, LookupTypes, LookupKeys
  <1>3. Of(inflight[KeyOf[r]]) \ Of(inflight'[KeyOf[r]]) = Of(inflight[KeyOf[r]])
    BY <1>2, EmptyFacts
  <1>4. NoLookup \in LookupRecord /\ NoLookup.pc = "none" /\ NoLookup.pending = <<>>
    BY EmptyFacts DEF NoLookup, LookupRecord
  <1>5. answer' = ToldClient(Of(inflight[KeyOf[r]]), "hung up")
    BY <1>1, <1>3, Zenon
  <1>6. QED
    BY <1>1, <1>4, <1>5, EntryAnswered, Zenon

LEMMA HangUpKeeps ==
    ASSUME LookupInv, NEW r \in Requests, HangUp(r)
    PROVE  LookupInv'
PROOF
  <1>0. LookupTypes /\ TasksInOrder /\ PlacedOnce /\ AnswersFit
    BY DEF LookupInv
  <1>1. /\ answer[r] = "waiting" /\ answer' = [answer EXCEPT ![r] = "gone"]
        /\ UNCHANGED <<inflight, lookupTask, clAsked>>
    BY DEF HangUp
  <1>2. answer'[r] = "gone" /\ \A q \in Requests \ {r} : answer'[q] = answer[q]
    BY <1>0, <1>1, Zenon DEF LookupTypes
  <1>3. LookupTypes'
    BY <1>0, <1>1 DEF LookupTypes
  <1>4. TasksInOrder' /\ PlacedOnce' /\ EntryHasLookup'
    BY <1>0, <1>1, <1>2 DEF TasksInOrder, PlacedOnce, LookupInv, EntryHasLookup
  <1>5. AnswersFit'
    <2>1. \A j \in LookupKeys : \A q \in Of(inflight[j]) :
              q \in Requests /\ KeyOf[q] = j /\ answer[q] \in {"waiting", "gone"}
      BY <1>0, OfTyped DEF AnswersFit
    <2>2. \A v \in Requests : \A q \in Of(lookupTask[v].pending) :
              q \in Requests /\ answer[q] \in {"waiting", "gone"}
      BY <1>0, OfTyped DEF AnswersFit
    <2>3. \A q \in Of(clAsked) :
              q \in Requests /\ answer[q] \notin {"none", "cached", "waiting"}
      BY <1>0, OfTyped, SMTT(45) DEF AnswersFit
    <2>4. QED
      BY <1>1, <1>2, <2>1, <2>2, <2>3, SMTT(45) DEF AnswersFit
  <1>6. QED
    BY <1>3, <1>4, <1>5 DEF LookupInv

LEMMA LookupQuietKeeps ==
    ASSUME LookupInv, UNCHANGED <<inflight, lookupTask, answer, clAsked>>
    PROVE  LookupInv'
PROOF BY DEF LookupInv, LookupTypes, TasksInOrder, PlacedOnce, AnswersFit, EntryHasLookup

LEMMA LookupInitKeeps == ClInit => LookupInv
PROOF
  <1> SUFFICES ASSUME ClInit PROVE LookupInv
    OBVIOUS
  <1>1. /\ inflight = [k \in LookupKeys |-> <<>>]
        /\ lookupTask = [r \in Requests |-> NoLookup]
        /\ answer = [r \in Requests |-> "none"] /\ clAsked = <<>>
    BY DEF ClInit
  <1>2. NoLookup \in LookupRecord /\ NoLookup.pc = "none" /\ NoLookup.pending = <<>>
    BY EmptyFacts DEF NoLookup, LookupRecord
  <1>3. LookupTypes
    BY <1>1, <1>2, EmptyFacts DEF LookupTypes
  <1>4. TasksInOrder /\ EntryHasLookup
    BY <1>1, <1>2 DEF TasksInOrder, EntryHasLookup
  <1>5. PlacedOnce /\ AnswersFit
    BY <1>1, <1>2, EmptyFacts DEF PlacedOnce, AnswersFit
  <1>6. QED
    BY <1>3, <1>4, <1>5 DEF LookupInv

\* The places of a request and what it was told stay in step through every step
\* of the tasks, the clients and the cache.
THEOREM LookupInvariant == ClSpec => []LookupInv
PROOF
  <1>1. ASSUME LookupInv, [ClNext]_clVars
        PROVE  LookupInv'
    <2>1. CASE UNCHANGED clVars
      BY <1>1, <2>1, LookupQuietKeeps DEF clVars
    <2>2. ASSUME NEW r \in Requests, AddUncachable(r) \/ JoinInflight(r) \/ StartLookup(r)
          PROVE  LookupInv'
      BY <1>1, <2>2, AddUncachableKeeps, JoinInflightKeeps, StartLookupKeeps
    <2>3. ASSUME NEW r \in Requests, LookupStep(r)
          PROVE  LookupInv'
      BY <1>1, <2>3, GetActionKeeps, ResolveKeeps, ForwardKeeps, DropGuardKeeps DEF LookupStep
    <2>4. ASSUME NEW r \in Requests, LookupDies(r) \/ HangUp(r)
          PROVE  LookupInv'
      BY <1>1, <2>4, LookupDiesKeeps, HangUpKeeps
    <2>5. ASSUME NEW k \in LookupKeys, CacheChanges(k)
          PROVE  LookupInv'
      BY <1>1, <2>5, LookupQuietKeeps, SMTT(45) DEF CacheChanges
    <2>6. QED
      BY <1>1, <2>1, <2>2, <2>3, <2>4, <2>5 DEF ClNext
  <1>2. QED
    BY <1>1, LookupInitKeeps, PTL DEF ClSpec

\* However lookups overlap, die or are abandoned by their clients, a request
\* reaches the real scheduler at most once, and never one answered from the
\* cache (ForwardedOnce, inner_add_action of cache_lookup_scheduler.rs).
THEOREM RequestsForwardedOnce == ClSpec => []ForwardedOnce
PROOF
  <1>1. LookupInv => ForwardedOnce
    BY DEF LookupInv, PlacedOnce, AnswersFit, ForwardedOnce, Distinct
  <1>2. QED
    BY <1>1, LookupInvariant, PTL

\* Every entry of inflight_cache_checks is that of a task which has not ended
\* (EntryHasLookup): no request joins an entry that nobody will take.
THEOREM EntriesAreServed == ClSpec => []EntryHasLookup
PROOF
  <1>1. LookupInv => EntryHasLookup
    BY DEF LookupInv
  <1>2. QED
    BY <1>1, LookupInvariant, PTL

-----------------------------------------------------------------------------
(***************************************************************************)
(* GrpcScheduler: the stages of an operation on their way from the         *)
(* upstream scheduler through the watch channel to the client.             *)
(***************************************************************************)
GsTypes ==
    /\ gs \in [op : {"execute", "wait_execution", "get_known_properties"},
               st : {"start", "open", "listen", "ended", "dropped", "failed", "empty", "done"},
               attempt : Nat]
    /\ upstage \in 0..LastStage
    /\ upSent \in 0..LastStage
    /\ upSent <= upstage
    /\ net \in Seq(Nat)
    /\ watch \in [stage : Nat, changed : BOOLEAN, closed : BOOLEAN]
    /\ seen \in Seq(Nat)

\* The messages of the stream that carry a stage.
StageAt(i) == net[i] \in 1..LastStage

\* Stages on their way are in order, and none is ahead of what upstream told.
NetInOrder ==
    /\ gs.st = "start" => net = <<>>
    /\ \A i \in DOMAIN net : StageAt(i) => net[i] <= upSent
    /\ \A i, j \in DOMAIN net : i < j /\ StageAt(i) /\ StageAt(j) => net[i] < net[j]

\* The channel holds a stage older than those on their way, and no older than
\* those the client saw; a stage that is not flagged is the last it saw.
WatchInOrder ==
    /\ gs.st \in {"start", "open"} => seen = <<>>
    /\ gs.st = "listen" =>
          /\ watch.stage <= upSent
          /\ \A i \in DOMAIN net : StageAt(i) => watch.stage < net[i]
          /\ \A i \in DOMAIN seen : seen[i] <= watch.stage
          /\ watch.changed => \A i \in DOMAIN seen : seen[i] < watch.stage
          /\ ~watch.changed => seen # <<>> /\ seen[Len(seen)] = watch.stage

GsInv == GsTypes /\ NetInOrder /\ WatchInOrder /\ SeenAdvances /\ EndedSawLast

LEMMA AppendAt ==
    ASSUME NEW s \in Seq(Nat), NEW m \in Nat
    PROVE  /\ Append(s, m) \in Seq(Nat) /\ Append(s, m) # <<>>
           /\ Len(Append(s, m)) = Len(s) + 1 /\ Append(s, m)[Len(s) + 1] = m
           /\ \A i \in DOMAIN s : i < Len(s) + 1 /\ Append(s, m)[i] = s[i]
           /\ \A i \in DOMAIN Append(s, m) : i \in Nat /\ (i \in DOMAIN s \/ i = Len(s) + 1)
           /\ \A i, j \in DOMAIN Append(s, m) : i < j => i \in DOMAIN s
PROOF OBVIOUS

LEMMA TailAt ==
    ASSUME NEW s \in Seq(Nat), s # <<>>
    PROVE  /\ Tail(s) \in Seq(Nat) /\ 1 \in DOMAIN s /\ Head(s) = s[1] /\ Head(s) \in Nat
           /\ \A i \in DOMAIN Tail(s) :
                 i \in Nat /\ 1 < i + 1 /\ i + 1 \in DOMAIN s /\ Tail(s)[i] = s[i + 1]
PROOF OBVIOUS

\* A message leaves the stream.
LEMMA NetTail ==
    ASSUME GsInv, net # <<>>, net' = Tail(net), UNCHANGED upSent, gs'.st # "start"
    PROVE  /\ NetInOrder'
           /\ \A i \in DOMAIN net' : StageAt(i)' =>
                 /\ StageAt(1) => Head(net) < net'[i]
                 /\ gs.st = "listen" => watch.stage < net'[i]
PROOF
  <1>1. /\ net' \in Seq(Nat) /\ 1 \in DOMAIN net /\ Head(net) = net[1]
        /\ \A i \in DOMAIN net' :
              i \in Nat /\ 1 < i + 1 /\ i + 1 \in DOMAIN net /\ net'[i] = net[i + 1]
    BY TailAt DEF GsInv, GsTypes
  <1>2. \A i \in DOMAIN net' : StageAt(i)' => StageAt(i + 1)
    BY <1>1 DEF StageAt
  <1>3. \A i \in DOMAIN net' : StageAt(i)' => net'[i] <= upSent'
    BY <1>1, <1>2 DEF GsInv, NetInOrder
  <1>4. ASSUME NEW i \in DOMAIN net', NEW j \in DOMAIN net', i < j, StageAt(i)', StageAt(j)'
        PROVE  net'[i] < net'[j]
    <2>1. i + 1 < j + 1
      BY <1>1, <1>4
    <2>2. QED
      BY <1>1, <1>2, <1>4, <2>1 DEF GsInv, NetInOrder
  <1>5. ASSUME NEW i \in DOMAIN net', StageAt(i)'
        PROVE  /\ StageAt(1) => Head(net) < net'[i]
               /\ gs.st = "listen" => watch.stage < net'[i]
    BY <1>1, <1>2, <1>5 DEF GsInv, NetInOrder, WatchInOrder
  <1>6. QED
    BY <1>3, <1>4, <1>5 DEF NetInOrder

\* A message enters the stream: a stage that upstream has not told yet, or none.
LEMMA NetAppend ==
    ASSUME GsInv, NEW m \in Nat, net' = Append(net, m), gs' = gs, gs.st # "start",
           UNCHANGED <<watch, seen>>, upSent' \in 0..LastStage, upSent <= upSent',
           m \in 1..LastStage => upSent < m /\ m <= upSent'
    PROVE  net' \in Seq(Nat) /\ NetInOrder' /\ WatchInOrder'
PROOF
  <1>1. /\ net' \in Seq(Nat) /\ net'[Len(net) + 1] = m
        /\ \A i \in DOMAIN net : net'[i] = net[i]
        /\ \A i \in DOMAIN net' : i \in Nat /\ (i \in DOMAIN net \/ i = Len(net) + 1)
        /\ \A i, j \in DOMAIN net' : i < j => i \in DOMAIN net
    BY AppendAt DEF GsInv, GsTypes
  <1>2. upSent \in Nat /\ upSent' \in Nat /\ watch.stage \in Nat
    BY DEF GsInv, GsTypes
  <1>3. \A i \in DOMAIN net : StageAt(i)' => StageAt(i) /\ net'[i] <= upSent
    BY <1>1 DEF GsInv, NetInOrder, StageAt
  <1>4. \A i \in DOMAIN net' : StageAt(i)' => net'[i] \in Nat /\ net'[i] <= upSent'
    BY <1>1, <1>2, <1>3 DEF StageAt
  <1>5. ASSUME NEW i \in DOMAIN net', NEW j \in DOMAIN net', i < j, StageAt(i)', StageAt(j)'
        PROVE  net'[i] < net'[j]
    <2>1. i \in DOMAIN net /\ StageAt(i) /\ net'[i] = net[i] /\ net'[i] <= upSent
      BY <1>1, <1>3, <1>5
    <2>2. CASE j \in DOMAIN net
      BY <1>1, <1>3, <1>5, <2>1, <2>2 DEF GsInv, NetInOrder
    <2>3. CASE j = Len(net) + 1
      <3>1. net'[j] = m /\ upSent < m
        BY <1>1, <1>5, <2>3 DEF StageAt
      <3>2. QED
        BY <1>2, <1>4, <1>5, <2>1, <3>1
    <2>4. QED
      BY <1>1, <2>2, <2>3
  <1>6. NetInOrder'
    BY <1>4, <1>5 DEF NetInOrder
  <1>7. ASSUME gs.st = "listen", NEW i \in DOMAIN net', StageAt(i)'
        PROVE  watch.stage < net'[i]
    <2>1. CASE i \in DOMAIN net
      BY <1>1, <1>3, <1>7, <2>1 DEF GsInv, WatchInOrder
    <2>2. CASE i = Len(net) + 1
      <3>1. net'[i] = m /\ upSent < m /\ watch.stage <= upSent
        BY <1>1, <1>7, <2>2 DEF StageAt, GsInv, WatchInOrder
      <3>2. QED
        BY <1>2, <1>4, <1>7, <3>1
    <2>3. QED
      BY <1>1, <2>1, <2>2
  <1>8. gs.st = "listen" => watch.stage <= upSent'
    BY <1>2 DEF GsInv, WatchInOrder
  <1>9. WatchInOrder'
    BY <1>7, <1>8 DEF GsInv, WatchInOrder
  <1>10. QED
    BY <1>1, <1>6, <1>9

LEMMA RequestLostKeeps ==
    ASSUME GsInv, NEW code, RequestLost(code)
    PROVE  GsInv'
PROOF
  <1>1. /\ gs.st = "start" /\ net = <<>> /\ seen = <<>>
        /\ UNCHANGED <<net, upSent, watch, seen>>
    BY DEF RequestLost, GsInv, NetInOrder, WatchInOrder
  <1>2. /\ upstage' \in 0..LastStage /\ upSent <= upstage'
    BY GsAssumption DEF RequestLost, GsInv, GsTypes
  <1>3. /\ gs' \in [op : {"execute", "wait_execution", "get_known_properties"},
                    st : {"start", "open", "listen", "ended", "dropped", "failed", "empty", "done"},
                    attempt : Nat]
        /\ gs'.st \in {"start", "empty", "failed"}
    <2>1. \/ gs' = [gs EXCEPT !.attempt = @ + 1]
          \/ gs' = [gs EXCEPT !.st = "empty"]
          \/ gs' = [gs EXCEPT !.st = "failed"]
      BY DEF RequestLost, PerformAgain
    <2>2. QED
      BY <1>1, <2>1 DEF GsInv, GsTypes
  <1>4. GsTypes'
    BY <1>1, <1>2, <1>3, SMTT(45) DEF GsInv, GsTypes
  <1>5. NetInOrder' /\ WatchInOrder' /\ SeenAdvances' /\ EndedSawLast'
    BY <1>1, <1>3 DEF GsInv, NetInOrder, WatchInOrder, SeenAdvances, EndedSawLast, StageAt
  <1>6. QED
    BY <1>4, <1>5 DEF GsInv

\* The call ends or its client goes away: what was seen stays.
LEMMA CallEndsKeeps ==
    ASSUME GsInv, NEW s \in {"dropped", "failed", "empty", "done"},
           gs' = [gs EXCEPT !.st = s], NetInOrder', net' \in Seq(Nat),
           UNCHANGED <<upstage, upSent, watch, seen>>
    PROVE  GsInv'
PROOF
  <1>1. GsTypes' /\ gs'.st = s
    BY Zenon DEF GsInv, GsTypes
  <1>2. WatchInOrder' /\ SeenAdvances' /\ EndedSawLast'
    BY <1>1 DEF GsInv, WatchInOrder, SeenAdvances, EndedSawLast
  <1>3. QED
    BY <1>1, <1>2 DEF GsInv

LEMMA GetKnownKeeps ==
    ASSUME GsInv, GetKnownProperties
    PROVE  GsInv'
PROOF
  <1>1. /\ gs' = [gs EXCEPT !.st = "done"] /\ net = <<>> /\ gs.st = "start"
        /\ UNCHANGED <<upstage, net, upSent, watch, seen>>
    BY DEF GetKnownProperties, GsInv, NetInOrder
  <1>2. NetInOrder' /\ net' \in Seq(Nat)
    BY <1>1 DEF GsInv, GsTypes, NetInOrder, StageAt
  <1>3. QED
    BY <1>1, <1>2, CallEndsKeeps

LEMMA OpenStreamKeeps ==
    ASSUME GsInv, OpenStream
    PROVE  GsInv'
PROOF
  <1>1. /\ gs.st = "start" /\ seen = <<>>
        /\ upstage' = IF upstage = 0 THEN 1 ELSE upstage
        /\ net' = <<upstage'>> /\ upSent' = upstage'
        /\ gs' = [gs EXCEPT !.st = "open"]
        /\ UNCHANGED <<watch, seen>>
    BY DEF OpenStream, GsInv, WatchInOrder
  <1>2. upstage' \in 1..LastStage
    BY <1>1, GsAssumption DEF GsInv, GsTypes
  <1>3. /\ net' \in Seq(Nat) /\ DOMAIN net' = {1} /\ net'[1] = upstage'
    BY <1>1, <1>2
  <1>4. GsTypes' /\ gs'.st = "open"
    BY <1>1, <1>2, <1>3 DEF GsInv, GsTypes
  <1>5. NetInOrder'
    BY <1>1, <1>2, <1>3, <1>4 DEF NetInOrder
  <1>6. WatchInOrder' /\ SeenAdvances' /\ EndedSawLast'
    BY <1>1, <1>4 DEF GsInv, WatchInOrder, SeenAdvances, EndedSawLast
  <1>7. QED
    BY <1>4, <1>5, <1>6 DEF GsInv

LEMMA StreamStateKeeps ==
    ASSUME GsInv, StreamState
    PROVE  GsInv'
PROOF
  <1>1. /\ gs.st = "open" /\ net # <<>> /\ net' = Tail(net) /\ seen = <<>>
        /\ UNCHANGED <<upstage, upSent, seen>>
    BY DEF StreamState, GsInv, WatchInOrder
  <1>2. /\ net' \in Seq(Nat) /\ 1 \in DOMAIN net /\ Head(net) = net[1] /\ Head(net) \in Nat
    BY <1>1, TailAt DEF GsInv, GsTypes
  <1>3. CASE Head(net) \in 1..LastStage
    <2>1. /\ watch' = [stage |-> Head(net), changed |-> TRUE, closed |-> FALSE]
          /\ gs' = [gs EXCEPT !.st = "listen"]
      BY <1>3 DEF StreamState, Made
    <2>2. GsTypes' /\ gs'.st = "listen"
      BY <1>1, <1>2, <2>1, SMTT(45) DEF GsInv, GsTypes
    <2>3. /\ NetInOrder'
          /\ \A i \in DOMAIN net' : StageAt(i)' => Head(net) < net'[i]
      BY <1>1, <1>2, <1>3, <2>2, NetTail DEF StageAt
    <2>4. Head(net) <= upSent
      BY <1>2, <1>3 DEF GsInv, NetInOrder, StageAt
    <2>5. WatchInOrder' /\ SeenAdvances' /\ EndedSawLast'
      BY <1>1, <2>1, <2>2, <2>3, <2>4 DEF WatchInOrder, SeenAdvances, EndedSawLast
    <2>6. QED
      BY <2>2, <2>3, <2>5 DEF GsInv
  <1>4. CASE Head(net) \notin 1..LastStage
    <2>1. PICK s \in {"failed", "empty"} : gs' = [gs EXCEPT !.st = s]
      BY <1>4 DEF StreamState
    <2>2. UNCHANGED watch
      BY <1>4 DEF StreamState
    <2>3. gs'.st = s
      BY <2>1 DEF GsInv, GsTypes
    <2>4. NetInOrder'
      BY <1>1, <2>3, NetTail
    <2>5. QED
      BY <1>1, <1>2, <2>1, <2>2, <2>4, CallEndsKeeps
  <1>5. QED
    BY <1>3, <1>4

LEMMA CopyStateKeeps ==
    ASSUME GsInv, CopyState
    PROVE  GsInv'
PROOF
  <1>1. /\ gs.st = "listen" /\ net # <<>> /\ net' = Tail(net)
        /\ UNCHANGED <<gs, upstage, upSent, seen>>
    BY DEF CopyState
  <1>2. /\ net' \in Seq(Nat) /\ 1 \in DOMAIN net /\ Head(net) = net[1] /\ Head(net) \in Nat
    BY <1>1, TailAt DEF GsInv, GsTypes
  <1>3. /\ NetInOrder'
        /\ \A i \in DOMAIN net' : StageAt(i)' =>
              (StageAt(1) => Head(net) < net'[i]) /\ watch.stage < net'[i]
    BY <1>1, NetTail
  <1>4. SeenAdvances' /\ EndedSawLast'
    BY <1>1 DEF GsInv, SeenAdvances, EndedSawLast
  <1>5. watch \in [stage : Nat, changed : BOOLEAN, closed : BOOLEAN] /\ seen \in Seq(Nat)
    BY DEF GsInv, GsTypes
  <1>6. CASE Head(net) \in 1..LastStage
    <2>1. watch' = [watch EXCEPT !.stage = Head(net), !.changed = TRUE]
      BY <1>6 DEF CopyState, Sent
    <2>2. /\ watch' \in [stage : Nat, changed : BOOLEAN, closed : BOOLEAN]
          /\ watch'.stage = Head(net) /\ watch'.changed = TRUE
      BY <1>2, <1>5, <2>1, Zenon
    <2>3. /\ StageAt(1) /\ Head(net) <= upSent /\ watch.stage < Head(net)
          /\ \A i \in DOMAIN seen : seen[i] <= watch.stage
      BY <1>1, <1>2, <1>6 DEF GsInv, NetInOrder, WatchInOrder, StageAt
    <2>4. \A i \in DOMAIN seen : seen[i] < Head(net) /\ seen[i] <= Head(net)
      BY <1>2, <1>5, <2>3
    <2>5. GsTypes'
      BY <1>1, <1>2, <2>2 DEF GsInv, GsTypes
    <2>6. WatchInOrder'
      BY <1>1, <1>3, <2>2, <2>3, <2>4 DEF WatchInOrder
    <2>7. QED
      BY <1>3, <1>4, <2>5, <2>6 DEF GsInv
  <1>7. CASE Head(net) \notin 1..LastStage
    <2>1. watch' = watch \/ watch' = [watch EXCEPT !.closed = TRUE]
      BY <1>7 DEF CopyState, Closed
    <2>2. /\ watch' \in [stage : Nat, changed : BOOLEAN, closed : BOOLEAN]
          /\ watch'.stage = watch.stage /\ watch'.changed = watch.changed
      BY <1>5, <2>1, Zenon
    <2>3. GsTypes'
      BY <1>1, <1>2, <2>2 DEF GsInv, GsTypes
    <2>4. WatchInOrder'
      BY <1>1, <1>3, <2>2 DEF GsInv, WatchInOrder
    <2>5. EndedSawLast'
      BY <1>1 DEF EndedSawLast
    <2>6. QED
      BY <1>3, <1>4, <2>3, <2>4, <2>5 DEF GsInv
  <1>8. QED
    BY <1>6, <1>7

LEMMA ClientChangedKeeps ==
    ASSUME GsInv, ClientChanged
    PROVE  GsInv'
PROOF
  <1>1. gs.st = "listen" /\ UNCHANGED <<upstage, net, upSent>>
    BY DEF ClientChanged
  <1>2. watch \in [stage : Nat, changed : BOOLEAN, closed : BOOLEAN] /\ seen \in Seq(Nat)
    BY DEF GsInv, GsTypes
  <1>3. CASE watch.changed
    <2>1. /\ seen' = Append(seen, watch.stage) /\ gs' = gs
          /\ watch' = [watch EXCEPT !.changed = FALSE]
      BY <1>3 DEF ClientChanged, Taken
    <2>2. /\ watch' \in [stage : Nat, changed : BOOLEAN, closed : BOOLEAN]
          /\ watch'.stage = watch.stage /\ ~watch'.changed
      BY <1>2, <2>1, Zenon
    <2>3. /\ seen' \in Seq(Nat) /\ seen' # <<>> /\ Len(seen') = Len(seen) + 1
          /\ seen'[Len(seen) + 1] = watch.stage
          /\ \A i \in DOMAIN seen : seen'[i] = seen[i]
          /\ \A i \in DOMAIN seen' : i \in Nat /\ (i \in DOMAIN seen \/ i = Len(seen) + 1)
          /\ \A i, j \in DOMAIN seen' : i < j => i \in DOMAIN seen
      BY <1>2, <2>1, AppendAt
    <2>4. \A i \in DOMAIN seen : seen'[i] < watch.stage /\ seen'[i] <= watch.stage
      BY <1>1, <1>3, <2>3 DEF GsInv, WatchInOrder
    <2>5. \A i \in DOMAIN seen' : seen'[i] <= watch.stage
      BY <1>2, <2>3, <2>4
    <2>6. SeenAdvances'
      <3>1. ASSUME NEW i \in DOMAIN seen', NEW j \in DOMAIN seen', i < j
            PROVE  seen'[i] < seen'[j]
        <4>1. i \in DOMAIN seen
          BY <2>3, <3>1
        <4>2. CASE j \in DOMAIN seen
          BY <2>3, <3>1, <4>1, <4>2 DEF GsInv, SeenAdvances
        <4>3. CASE j = Len(seen) + 1
          BY <2>3, <2>4, <4>1, <4>3
        <4>4. QED
          BY <2>3, <4>2, <4>3
      <3>2. QED
        BY <3>1 DEF SeenAdvances
    <2>7. GsTypes'
      BY <1>1, <2>1, <2>2, <2>3 DEF GsInv, GsTypes
    <2>8. NetInOrder' /\ EndedSawLast'
      BY <1>1, <2>1 DEF GsInv, NetInOrder, StageAt, EndedSawLast
    <2>9. WatchInOrder'
      BY <1>1, <2>1, <2>2, <2>3, <2>5 DEF GsInv, WatchInOrder, StageAt
    <2>10. QED
      BY <2>6, <2>7, <2>8, <2>9 DEF GsInv
  <1>4. CASE ~watch.changed
    <2>1. gs' = [gs EXCEPT !.st = "ended"] /\ UNCHANGED <<seen, watch>>
      BY <1>4 DEF ClientChanged
    <2>2. GsTypes' /\ gs'.st = "ended"
      BY <1>1, <2>1 DEF GsInv, GsTypes
    <2>3. NetInOrder' /\ WatchInOrder' /\ SeenAdvances'
      BY <1>1, <2>1, <2>2 DEF GsInv, NetInOrder, StageAt, WatchInOrder, SeenAdvances
    <2>4. EndedSawLast'
      BY <1>1, <1>4, <2>1 DEF GsInv, WatchInOrder, EndedSawLast
    <2>5. QED
      BY <2>2, <2>3, <2>4 DEF GsInv
  <1>5. QED
    BY <1>3, <1>4

LEMMA ClientDropsKeeps ==
    ASSUME GsInv, ClientDrops
    PROVE  GsInv'
PROOF
  <1>1. /\ gs' = [gs EXCEPT !.st = "dropped"] /\ net' = <<>>
        /\ UNCHANGED <<upstage, upSent, watch, seen>>
    BY DEF ClientDrops
  <1>2. NetInOrder' /\ net' \in Seq(Nat)
    BY <1>1 DEF NetInOrder
  <1>3. QED
    BY <1>1, <1>2, CallEndsKeeps

LEMMA UpstreamKeeps ==
    ASSUME GsInv, UpstreamAdvances \/ UpstreamSends \/ UpstreamMisbehaves
    PROVE  GsInv'
PROOF
  <1>0. /\ LastStage \in Nat /\ upstage \in 0..LastStage /\ upSent \in 0..LastStage
        /\ upSent <= upstage /\ net \in Seq(Nat)
    BY GsAssumption, SMTT(45) DEF GsInv, GsTypes
  <1>1. CASE UpstreamAdvances
    <2>1. /\ upstage' \in 0..LastStage /\ upSent <= upstage'
          /\ UNCHANGED <<gs, net, upSent, watch, seen>>
      BY <1>0, <1>1 DEF UpstreamAdvances
    <2>2. QED
      BY <2>1 DEF GsInv, GsTypes, NetInOrder, StageAt, WatchInOrder, SeenAdvances, EndedSawLast
  <1>2. CASE UpstreamSends \/ UpstreamMisbehaves
    <2>1. gs.st \in {"open", "listen"} /\ UNCHANGED <<gs, upstage, watch, seen>>
      BY <1>2 DEF UpstreamSends, UpstreamMisbehaves, Streaming
    <2>2. PICK m \in Nat : /\ net' = Append(net, m)
                           /\ upSent' \in 0..LastStage /\ upSent <= upSent' /\ upSent' <= upstage
                           /\ m \in 1..LastStage => upSent < m /\ m <= upSent'
      BY <1>0, <1>2 DEF UpstreamSends, UpstreamMisbehaves
    <2>3. net' \in Seq(Nat) /\ NetInOrder' /\ WatchInOrder'
      BY <2>1, <2>2, NetAppend
    <2>4. GsTypes' /\ SeenAdvances' /\ EndedSawLast'
      BY <2>1, <2>2, <2>3 DEF GsInv, GsTypes, SeenAdvances, EndedSawLast
    <2>5. QED
      BY <2>3, <2>4, SMTT(45) DEF GsInv
  <1>3. QED
    BY <1>1, <1>2

\* The order of the stages on their way, in the channel and before the client.
THEOREM GsInvariant == GsSpec => []GsInv
PROOF
  <1>1. GsInit => GsInv
    <2> SUFFICES ASSUME GsInit PROVE GsInv
      OBVIOUS
    <2>1. /\ gs \in [op : {"execute", "wait_execution", "get_known_properties"},
                     st : {"start", "open", "listen", "ended", "dropped", "failed", "empty",
                           "done"},
                     attempt : Nat]
          /\ gs.st = "start"
      BY DEF GsInit
    <2>2. GsTypes
      BY <2>1, GsAssumption DEF GsInit, GsTypes, NoWatch
    <2>3. NetInOrder /\ WatchInOrder /\ SeenAdvances /\ EndedSawLast
      BY <2>1 DEF GsInit, NetInOrder, WatchInOrder, SeenAdvances, EndedSawLast
    <2>4. QED
      BY <2>2, <2>3 DEF GsInv
  <1>2. ASSUME GsInv, [GsNext]_gsVars
        PROVE  GsInv'
    <2>1. CASE UNCHANGED gsVars
      BY <1>2, <2>1 DEF gsVars, GsInv, GsTypes, NetInOrder, StageAt, WatchInOrder, SeenAdvances,
                        EndedSawLast
    <2>2. CASE GsStep
      BY <1>2, <2>2, GetKnownKeeps, OpenStreamKeeps, StreamStateKeeps, CopyStateKeeps,
         ClientChangedKeeps DEF GsStep
    <2>3. CASE \E code \in {"Unavailable", "NotFound"} : RequestLost(code)
      BY <1>2, <2>3, RequestLostKeeps
    <2>4. CASE ClientDrops
      BY <1>2, <2>4, ClientDropsKeeps
    <2>5. CASE UpstreamAdvances \/ UpstreamSends \/ UpstreamMisbehaves
      BY <1>2, <2>5, UpstreamKeeps
    <2>6. QED
      BY <1>2, <2>1, <2>2, <2>3, <2>4, <2>5, SMTT(45) DEF GsNext
  <1>3. QED
    BY <1>1, <1>2, PTL DEF GsSpec

\* A client of the forwarding scheduler sees an operation only advance, and none
\* of its stages twice (SeenAdvances, stream_state of grpc_scheduler.rs).
THEOREM StagesSeenAdvance == GsSpec => []SeenAdvances
PROOF
  <1>1. GsInv => SeenAdvances
    BY DEF GsInv
  <1>2. QED
    BY <1>1, GsInvariant, PTL

\* A client that listens until the channel closes has seen the last stage that
\* was put in it (EndedSawLast): closing never overtakes a value.
THEOREM EndedClientsSawLast == GsSpec => []EndedSawLast
PROOF
  <1>1. GsInv => EndedSawLast
    BY DEF GsInv
  <1>2. QED
    BY <1>1, GsInvariant, PTL
================================================================================
