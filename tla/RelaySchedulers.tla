---------------------------- MODULE RelaySchedulers ----------------------------
(***************************************************************************)
(* The schedulers that stand before another one.                           *)
(*                                                                         *)
(* CacheLookupScheduler (cache_lookup_scheduler.rs) looks an action up in  *)
(* the action cache before it hands it to the real scheduler.  Requests    *)
(* for a key that is being looked up join the request in flight; the       *)
(* lookup runs in a task of its own that answers all of them.              *)
(*                                                                         *)
(* GrpcScheduler (grpc_scheduler.rs) forwards to a scheduler elsewhere.  A *)
(* call is retried until the upstream scheduler opens a stream of          *)
(* operations; a task copies the stream to a watch channel, of which the   *)
(* client sees the latest value.  The upstream scheduler is external: an   *)
(* operation there moves through the stages 1 to LastStage, and its stream *)
(* starts with the stage it is in and ends after the last.                 *)
(***************************************************************************)
EXTENDS Retrier, Sequences, FiniteSets

(***************************************************************************)
(* CacheLookupScheduler                                                    *)
(***************************************************************************)
CONSTANTS
    Requests,     \* the calls of add_action
    KeyOf,        \* request |-> the unique key of its action
    Uncachable,   \* requests whose qualifier is Uncachable
    MaxDeaths     \* lookup tasks that die, at most

VARIABLES
    inflight,  \* inflight_cache_checks: key |-> <<>> or the requests of the entry
    lookupTask,      \* request |-> the task its entry spawned: [pc, read, pending]
    answer,    \* request |-> what add_action returned so far
    cached,    \* keys with a result in the action cache
    clAsked,     \* requests handed to the real scheduler, as a sequence
    deaths

clVars == <<inflight, lookupTask, answer, cached, clAsked, deaths>>

LookupKeys == {KeyOf[r] : r \in Requests}
NoLookup == [pc |-> "none", read |-> "none", pending |-> <<>>]
Waiting == {r \in Requests : answer[r] = "waiting"}
ToldClient(rs, a) == [r \in Requests |-> IF r \in rs /\ answer[r] = "waiting" THEN a ELSE answer[r]]
Of(seq) == {seq[i] : i \in DOMAIN seq}

ClInit ==
    /\ inflight = [k \in LookupKeys |-> <<>>]
    /\ lookupTask = [r \in Requests |-> NoLookup]
    /\ answer = [r \in Requests |-> "none"]
    /\ cached \in SUBSET LookupKeys
    /\ clAsked = <<>>
    /\ deaths = 0

-----------------------------------------------------------------------------
\* inner_add_action() of an uncachable action: forwarded at once.
AddUncachable(r) ==
    /\ answer[r] = "none" /\ r \in Uncachable
    /\ clAsked' = Append(clAsked, r)
    /\ answer' = [answer EXCEPT ![r] = "added"]
    /\ UNCHANGED <<inflight, lookupTask, cached, deaths>>

\* Mutant: the sender is dropped.
JoinedLost(entry, r) == entry

\* The sender of a request is pushed to the entry.
Joined(entry, r) == Append(entry, r)

\* subscribe_to_existing_action(): the request joins the entry of its key.
JoinInflight(r) ==
    /\ answer[r] = "none" /\ r \notin Uncachable
    /\ inflight[KeyOf[r]] # <<>>
    /\ inflight' = [inflight EXCEPT ![KeyOf[r]] = Joined(@, r)]
    /\ answer' = [answer EXCEPT ![r] = "waiting"]
    /\ UNCHANGED <<lookupTask, cached, clAsked, deaths>>

\* ... or makes the entry, and spawns the task that holds the scope guard.
StartLookup(r) ==
    /\ answer[r] = "none" /\ r \notin Uncachable
    /\ inflight[KeyOf[r]] = <<>>
    /\ inflight' = [inflight EXCEPT ![KeyOf[r]] = <<r>>]
    /\ lookupTask' = [lookupTask EXCEPT ![r].pc = "lookup"]
    /\ answer' = [answer EXCEPT ![r] = "waiting"]
    /\ UNCHANGED <<cached, clAsked, deaths>>

\* get_action_from_store(): found, not found, or another error.
GetActionFromStore(r) ==
    /\ lookupTask[r].pc = "lookup"
    /\ \E read \in {IF KeyOf[r] \in cached THEN "hit" ELSE "miss", "error"} :
         lookupTask' = [lookupTask EXCEPT ![r].pc = "resolve", ![r].read = read]
    /\ UNCHANGED <<inflight, answer, cached, clAsked, deaths>>

\* The task takes the entry out of the map under the mutex.
Take(k) == [inflight EXCEPT ![k] = <<>>]

\* A hit and an error answer every request of the entry; a miss goes on to
\* forward them.
ResolveLookup(r) ==
    LET k == KeyOf[r] IN
    /\ lookupTask[r].pc = "resolve"
    /\ inflight' = Take(k)
    /\ \/ /\ lookupTask[r].read \in {"hit", "error"}
          /\ answer' = ToldClient(Of(inflight[k]), IF lookupTask[r].read = "hit" THEN "cached" ELSE "failed")
          /\ lookupTask' = [lookupTask EXCEPT ![r].pc = "guard"]
       \/ /\ lookupTask[r].read = "miss"
          /\ lookupTask' = [lookupTask EXCEPT ![r].pc = IF inflight[k] = <<>> THEN "guard" ELSE "forward",
                                  ![r].pending = inflight[k]]
          /\ UNCHANGED answer
    /\ UNCHANGED <<cached, clAsked, deaths>>

\* Mutant: a forwarded request stays in the entry.
RestStays(pending) == pending

Rest(pending) == Tail(pending)

\* The requests are handed to the real scheduler one after the other.
ForwardAction(r) ==
    LET next == Head(lookupTask[r].pending) IN
    /\ lookupTask[r].pc = "forward"
    /\ clAsked' = Append(clAsked, next)
    /\ \E a \in {"added", "failed"} : answer' = ToldClient({next}, a)
    /\ lookupTask' = [lookupTask EXCEPT ![r].pending = Rest(@),
                            ![r].pc = IF Len(lookupTask[r].pending) = 1 THEN "guard" ELSE @]
    /\ UNCHANGED <<inflight, cached, deaths>>

\* Mutant: the guard leaves the entry.
GuardForgets(r) == inflight

\* The end of the task drops the guard, which removes the entry of the key; the
\* senders of an entry that is dropped hang up on their requests.
GuardRemoves(r) == [inflight EXCEPT ![KeyOf[r]] = <<>>]

DropGuard(r) ==
    /\ lookupTask[r].pc = "guard"
    /\ inflight' = GuardRemoves(r)
    /\ answer' = ToldClient(Of(inflight[KeyOf[r]]) \ Of(inflight'[KeyOf[r]]), "hung up")
    /\ lookupTask' = [lookupTask EXCEPT ![r] = NoLookup]
    /\ UNCHANGED <<cached, clAsked, deaths>>

\* The task dies (a panic in a store or in the scheduler): what it still holds
\* is dropped, and then its guard.
LookupDies(r) ==
    /\ lookupTask[r].pc \in {"lookup", "forward"} /\ deaths < MaxDeaths
    /\ answer' = ToldClient(Of(lookupTask[r].pending), "hung up")
    /\ lookupTask' = [lookupTask EXCEPT ![r] = [pc |-> "guard", read |-> "none", pending |-> <<>>]]
    /\ deaths' = deaths + 1
    /\ UNCHANGED <<inflight, cached, clAsked>>

\* The client of a request goes away; the task does not notice.
HangUp(r) ==
    /\ answer[r] = "waiting"
    /\ answer' = [answer EXCEPT ![r] = "gone"]
    /\ UNCHANGED <<inflight, lookupTask, cached, clAsked, deaths>>

\* A worker's result reaches the action cache, or is evicted from it.
CacheChanges(k) ==
    /\ cached' = IF k \in cached THEN cached \ {k} ELSE cached \cup {k}
    /\ UNCHANGED <<inflight, lookupTask, answer, clAsked, deaths>>

LookupStep(r) ==
    GetActionFromStore(r) \/ ResolveLookup(r) \/ ForwardAction(r) \/ DropGuard(r)

ClNext ==
    \/ \E r \in Requests : AddUncachable(r) \/ JoinInflight(r) \/ StartLookup(r)
    \/ \E r \in Requests : LookupStep(r)
    \/ \E r \in Requests : LookupDies(r) \/ HangUp(r)
    \/ \E k \in LookupKeys : CacheChanges(k)

ClSpec == ClInit /\ [][ClNext]_clVars

\* A spawned task is polled until it ends.
ClFairSpec == ClSpec /\ \A r \in Requests : WF_clVars(LookupStep(r))

-----------------------------------------------------------------------------
\* An action is handed to the real scheduler once for a request: a request is in
\* one entry or in the pending list of one task, never in two.
ForwardedOnce ==
    /\ \A i, j \in DOMAIN clAsked : clAsked[i] = clAsked[j] => i = j
    /\ \A r \in Of(clAsked) : answer[r] \notin {"none", "cached"}

\* No entry without a task that will take it or drop it: the task of the request
\* that made the entry has not ended, even when tasks of earlier requests for
\* the key end in the meantime (cache_lookup_scheduler.rs:187).
EntryHasLookup ==
    \A k \in LookupKeys : inflight[k] # <<>> =>
        lookupTask[Head(inflight[k])].pc \in {"lookup", "resolve", "guard"}

\* "In the event we loose the reference to our `scope_guard`, it will remove the
\* action from the inflight_cache_checks map": the guard is for a task that
\* died, so no request is hung up on while every task lives.
HungUpOnlyIfDied == (\E r \in Requests : answer[r] = "hung up") => deaths > 0

(***************************************************************************)
(* GrpcScheduler                                                           *)
(***************************************************************************)
CONSTANTS
    UpstreamRetry,  \* the Retry configuration
    LastStage

ASSUME GsAssumption == LastStage \in Nat \ {0}

VARIABLES
    gs,       \* the call: [op, st, attempt]
    upstage,  \* stage of the operation upstream; 0 before it exists
    net,      \* messages of the result stream on their way
    upSent,     \* the stage the upstream scheduler told last
    watch,    \* the watch channel: [stage, changed, closed]
    seen,     \* stages the client saw, in order
    props     \* supported_props of the instance: {} or {version}

gsVars == <<gs, upstage, net, upSent, watch, seen, props>>

NoWatch == [stage |-> 0, changed |-> FALSE, closed |-> FALSE]

GsInit ==
    /\ \E op \in {"execute", "wait_execution", "get_known_properties"} :
         gs = [op |-> op, st |-> "start", attempt |-> 1]
    /\ upstage = 0 /\ net = <<>> /\ upSent = 0
    /\ watch = NoWatch /\ seen = <<>>
    /\ props \in {{}, {"known"}}

\* perform_request(): what the retrier makes of an attempt.
PerformAgain(code) ==
    gs' = IF Verdict(UpstreamRetry, gs.attempt, RetryAgain(code)) = "again"
          THEN [gs EXCEPT !.attempt = @ + 1]
          ELSE [gs EXCEPT !.st = IF gs.op = "wait_execution" THEN "empty" ELSE "failed"]

\* The request may be lost on its way, or its answer on the way back.
RequestLost(code) ==
    /\ gs.st = "start" /\ (gs.op = "get_known_properties" => props = {})
    /\ PerformAgain(code)
    /\ \/ UNCHANGED upstage
       \/ gs.op = "execute" /\ upstage = 0 /\ upstage' = 1
    /\ UNCHANGED <<net, upSent, watch, seen, props>>

\* inner_get_known_properties(): the answer is kept for good.
GetKnownProperties ==
    /\ gs.op = "get_known_properties" /\ gs.st = "start"
    /\ props' = {"known"}
    /\ gs' = [gs EXCEPT !.st = "done"]
    /\ UNCHANGED <<upstage, net, upSent, watch, seen>>

\* inner_add_action() and inner_filter_operations(): the stream is open.  Execute
\* creates the operation or joins the one an attempt before has created.
OpenStream ==
    /\ gs.op \in {"execute", "wait_execution"} /\ gs.st = "start"
    /\ gs.op = "wait_execution" => upstage > 0
    /\ upstage' = IF upstage = 0 THEN 1 ELSE upstage
    /\ net' = <<upstage'>> /\ upSent' = upstage'
    /\ gs' = [gs EXCEPT !.st = "open"]
    /\ UNCHANGED <<watch, seen, props>>

\* Mutant: the first state is not flagged.
MadeUnmarked(stage) == [stage |-> stage, changed |-> FALSE, closed |-> FALSE]

\* stream_state() makes the channel from the first message, flagged as changed so
\* that the first call of changed() returns it.
Made(stage) == [stage |-> stage, changed |-> TRUE, closed |-> FALSE]

StreamState ==
    /\ gs.st = "open" /\ net # <<>>
    /\ net' = Tail(net)
    /\ IF Head(net) \in 1..LastStage
       THEN watch' = Made(Head(net)) /\ gs' = [gs EXCEPT !.st = "listen"]
       ELSE gs' = [gs EXCEPT !.st = IF gs.op = "wait_execution" THEN "empty" ELSE "failed"]
            /\ UNCHANGED watch
    /\ UNCHANGED <<upstage, upSent, seen, props>>

\* The task: a message that cannot be converted is skipped, the end of the
\* stream drops the sender.
Sent(stage) == [watch EXCEPT !.stage = stage, !.changed = TRUE]
\* Mutant: the channel stays open.
ClosedNever == watch

Closed == [watch EXCEPT !.closed = TRUE]

CopyState ==
    /\ gs.st = "listen" /\ ~watch.closed /\ net # <<>>
    /\ net' = Tail(net)
    /\ watch' = CASE Head(net) \in 1..LastStage -> Sent(Head(net))
                  [] Head(net) = 0 -> watch
                  [] OTHER -> Closed
    /\ UNCHANGED <<gs, upstage, upSent, seen, props>>

\* Mutant: changed() leaves the flag set.
TakenNot(w) == w

Taken(w) == [w EXCEPT !.changed = FALSE]

\* changed() of the client: the latest unseen value, or an error once the sender
\* is gone and nothing is unseen.
ClientChanged ==
    /\ gs.st = "listen"
    /\ \/ /\ watch.changed
          /\ seen' = Append(seen, watch.stage)
          /\ watch' = Taken(watch)
          /\ UNCHANGED gs
       \/ /\ ~watch.changed /\ watch.closed
          /\ gs' = [gs EXCEPT !.st = "ended"]
          /\ UNCHANGED <<seen, watch>>
    /\ UNCHANGED <<upstage, net, upSent, props>>

\* The client drops its receiver, and the task ends.
ClientDrops ==
    /\ gs.st = "listen"
    /\ gs' = [gs EXCEPT !.st = "dropped"]
    /\ net' = <<>>
    /\ UNCHANGED <<upstage, upSent, watch, seen, props>>

-----------------------------------------------------------------------------
\* External: the operation advances, whether somebody listens or not.
UpstreamAdvances ==
    /\ upstage < LastStage
    /\ upstage' = upstage + 1
    /\ UNCHANGED <<gs, net, upSent, watch, seen, props>>

Streaming == gs.st \in {"open", "listen"} /\ ~watch.closed
             /\ \A i \in DOMAIN net : net[i] # LastStage + 1

\* External: a message, 0 standing for one that does not convert; the end of the
\* stream, LastStage + 1, follows the last stage or a broken connection.  At most
\* three messages are on their way.
UpstreamSends ==
    /\ Streaming /\ Len(net) < 3
    /\ \/ upSent < upstage /\ net' = Append(net, upstage) /\ upSent' = upstage
       \/ upSent = LastStage /\ net' = Append(net, LastStage + 1) /\ UNCHANGED upSent
    /\ UNCHANGED <<gs, upstage, watch, seen, props>>

UpstreamMisbehaves ==
    /\ Streaming /\ Len(net) < 2
    /\ \E m \in {0, LastStage + 1} : net' = Append(net, m)
    /\ gs.st = "listen"
    /\ UNCHANGED <<gs, upstage, upSent, watch, seen, props>>

GsStep == GetKnownProperties \/ OpenStream \/ StreamState \/ CopyState \/ ClientChanged
GsNext ==
    \/ GsStep
    \/ \E code \in {"Unavailable", "NotFound"} : RequestLost(code)
    \/ ClientDrops
    \/ UpstreamAdvances \/ UpstreamSends \/ UpstreamMisbehaves

GsSpec == GsInit /\ [][GsNext]_gsVars

\* The task and the client are polled; the upstream scheduler finishes what it
\* was given and sends what it has.
GsFairSpec ==
    GsSpec /\ WF_gsVars(StreamState) /\ WF_gsVars(CopyState) /\ WF_gsVars(ClientChanged)
           /\ WF_gsVars(UpstreamAdvances) /\ WF_gsVars(UpstreamSends)

-----------------------------------------------------------------------------
\* What the client sees only moves forward, and it sees no stage twice.
SeenAdvances == \A i, j \in DOMAIN seen : i < j => seen[i] < seen[j]

\* The client that listens to the end has seen the last stage that reached the
\* watch channel, although the sender is dropped at the same time
\* (grpc_scheduler.rs:169): no result is lost between the task and the client.
EndedSawLast == gs.st = "ended" => seen # <<>> /\ seen[Len(seen)] = watch.stage
================================================================================
