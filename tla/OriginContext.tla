---------------------------- MODULE OriginContext ----------------------------
(***************************************************************************)
(* The origin of a request, carried through the code that serves it.       *)
(* Each thread has one active context (a thread local); a wrapped future   *)
(* owns a context, puts it in place while it is polled or dropped and      *)
(* takes it back afterwards (`ContextAwareFuture`).  The middleware gives  *)
(* every call a context of its own with the caller's identity and a        *)
(* collector of origin events; the handler forks it to add the hash        *)
(* function, and tasks inherit the context that is active where they are   *)
(* spawned.  Futures move between threads, panic, and are dropped halfway. *)
(*                                                                         *)
(* The futures of a call r: <<"http", r>>, the stream task hyper hands to  *)
(* `TaskExecutor`; <<"req", r>>, the middleware's, polled by http;         *)
(* <<"hash", r>>, the handler's inner one, polled by req; <<"task", r>>,   *)
(* what the handler spawns.                                                *)
(***************************************************************************)
EXTENDS Naturals, Sequences, SequencesExt

CONSTANTS OriginThreads,  \* tokio's worker threads
          OriginCalls,    \* calls that arrive on one connection
          Identities,     \* what the identity headers of the calls may say, "" for none
          MethodOf,       \* "Write", "Execute" or "WaitExecution"
          HeaderRequired, \* IdentityHeaderSpec::required
          EventRoom,      \* room in the channel of origin events
          PanicsIn,       \* the kinds of futures whose own code may panic
          MaxPanics       \* bound: panics

VARIABLES identity,  \* call -> what its identity header says
          current,   \* thread -> its active context
          guards,    \* thread -> the ContextDropGuards on its stack
          future,    \* future -> where it is, and the context it holds
          handling,    \* call -> how far its handler is
          emitted, \* the origin events sent, in order; an event's id is its place
          queued,    \* events in the channel
          unwinding, \* threads on which a panic unwinds
          aborted,   \* calls whose JoinHandleDropGuard was dropped
          panics

originVars == <<identity, current, guards, future, handling, emitted, queued, unwinding, aborted, panics>>

NoContext == [id |-> <<"none">>, identity |-> "", collector |-> "", hash |-> FALSE]
ConnContext == [NoContext EXCEPT !.id = <<"conn">>]
NotMade == [st |-> "none", ctx |-> NoContext]

Conn == <<"conn">>
Futures == {Conn} \cup {"http", "req", "hash", "task"} \X OriginCalls

OriginInit ==
    /\ identity \in Identities
    /\ current = [t \in OriginThreads |-> NoContext]
    /\ guards = [t \in OriginThreads |-> <<>>]
    /\ future = [f \in Futures |-> IF f = Conn THEN [st |-> "idle", ctx |-> ConnContext] ELSE NotMade]
    /\ handling = [r \in OriginCalls |-> [pc |-> "start", collector |-> "", parent |-> 0, item |-> FALSE]]
    /\ emitted = <<>> /\ queued = 0
    /\ unwinding = {} /\ aborted = {} /\ panics = 0

-----------------------------------------------------------------------------
(* Guards and futures.                                                       *)

\* The future that polls or drops f, for those that are not tasks.
Outer(f) == IF f[1] = "req" THEN <<"http", f[2]>> ELSE <<"req", f[2]>>

Owns(f, g) == g[1] \in {"req", "hash"} /\ Outer(g) = f

\* f may be polled or dropped on t: a task by the runtime, another by its owner.
Reached(t, f, kind) ==
    /\ t \notin unwinding
    /\ IF f[1] \in {"req", "hash"}
       THEN guards[t] # <<>> /\ Owns(Last(guards[t]).fut, f) /\ Last(guards[t]).kind = kind
       ELSE guards[t] = <<>>

\* The code of f runs on t.
Runs(t, f) ==
    /\ t \notin unwinding
    /\ guards[t] # <<>> /\ Last(guards[t]).fut = f /\ Last(guards[t]).kind = "poll"

\* ContextDropGuard::new with the future's context; a drop without one makes no guard.
Enter(t, f, kind) ==
    LET ctx == future[f].ctx
    IN  /\ guards' = [guards EXCEPT ![t] = Append(@, [fut |-> f, kind |-> kind, prev |-> current[t],
                                                       entered |-> ctx # NoContext])]
        /\ current' = [current EXCEPT ![t] = IF ctx # NoContext THEN ctx ELSE @]
        /\ future' = [future EXCEPT ![f] = [st |-> kind, ctx |-> NoContext]]

\* restore_global_context.
RestoreContext(t) ==
    /\ current' = [current EXCEPT ![t] = Last(guards[t]).prev]
    /\ guards' = [guards EXCEPT ![t] = Front(@)]

\* The connection is woken by a call that arrives.
PollFuture(t, f) ==
    /\ future[f].st = "idle" /\ future[f].ctx # NoContext
    /\ Reached(t, f, "poll")
    /\ f = Conn => \E r \in OriginCalls : future[<<"http", r>>].st = "none"
    /\ Enter(t, f, "poll")
    /\ UNCHANGED <<identity, handling, emitted, queued, unwinding, aborted, panics>>

\* What f awaits has come: its next poll is its last.
Completes(f) ==
    \/ f[1] = "http" /\ handling[f[2]].pc \in {"rejected", "body"}
    \/ f[1] = "req" /\ handling[f[2]].pc = "responded"
    \/ f[1] = "hash" /\ handling[f[2]].pc = "answered"
    \/ f[1] = "task"

\* The poll returns: the guard is released and the future has its context back.
\* The middleware's future yields the response, whose body http sends on; with
\* http ends the body, and the handles it holds are dropped.
PollReturns(t, f, ready) ==
    /\ Runs(t, f)
    /\ ready => Completes(f)
    /\ RestoreContext(t)
    /\ future' = [future EXCEPT ![f] = [st |-> IF ready THEN "done" ELSE "idle", ctx |-> current[t]]]
    /\ handling' = IF ready /\ f[1] = "req" THEN [handling EXCEPT ![f[2]].pc = "body"] ELSE handling
    /\ aborted' = IF ready /\ f[1] = "http" THEN aborted \cup {f[2]} ELSE aborted
    /\ UNCHANGED <<identity, emitted, queued, unwinding, panics>>

HandlerPanics(t, f) ==
    /\ Runs(t, f) /\ f[1] \in PanicsIn /\ panics < MaxPanics
    /\ panics' = panics + 1
    /\ unwinding' = unwinding \cup {t}
    /\ UNCHANGED <<identity, current, guards, future, handling, emitted, queued, aborted>>

\* Mutant: the guard of a poll that panics does not restore the context.
UnwindKeeps(t) ==
    /\ t \in unwinding
    /\ guards' = [guards EXCEPT ![t] = Front(@)]
    /\ future' = [future EXCEPT ![Last(guards[t]).fut].st = "panicked"]
    /\ unwinding' = IF Len(guards[t]) = 1 THEN unwinding \ {t} ELSE unwinding
    /\ UNCHANGED <<identity, current, handling, emitted, queued, aborted, panics>>

\* The panic leaves one poll: its guard's destructor restores the context before,
\* and the future is left without one.  The runtime catches it below the task.
Unwind(t) ==
    /\ t \in unwinding
    /\ RestoreContext(t)
    /\ future' = [future EXCEPT ![Last(guards[t]).fut].st = "panicked"]
    /\ unwinding' = IF Len(guards[t]) = 1 THEN unwinding \ {t} ELSE unwinding
    /\ UNCHANGED <<identity, handling, emitted, queued, aborted, panics>>

\* PinnedDrop: a stream the client resets, an aborted task, a task that panicked;
\* and what they own.
DropFuture(t, f) ==
    /\ \/ future[f].st = "idle" /\ f # Conn
       \/ future[f].st = "panicked"
    /\ f[1] = "task" /\ future[f].st = "idle" => f[2] \in aborted
    /\ Reached(t, f, "drop")
    /\ Enter(t, f, "drop")
    /\ UNCHANGED <<identity, handling, emitted, queued, unwinding, aborted, panics>>

DropReturns(t, f) ==
    /\ guards[t] # <<>> /\ Last(guards[t]).fut = f /\ Last(guards[t]).kind = "drop"
    /\ \A g \in Futures : Owns(f, g) => future[g].st \notin {"idle", "panicked"}
    /\ RestoreContext(t)
    /\ future' = [future EXCEPT ![f].st = "dropped"]
    /\ aborted' = IF f[1] # "task" THEN aborted \cup {f[2]} ELSE aborted
    /\ UNCHANGED <<identity, handling, emitted, queued, unwinding, panics>>

-----------------------------------------------------------------------------
(* A call.                                                                   *)

\* TaskExecutor::execute: the spawned task gets the context active here.
Arrives(t, r) ==
    /\ Runs(t, Conn) /\ future[<<"http", r>>].st = "none"
    /\ future' = [future EXCEPT ![<<"http", r>>] = [st |-> "idle", ctx |-> current[t]]]
    /\ UNCHANGED <<identity, current, guards, handling, emitted, queued, unwinding, aborted, panics>>

\* OriginEventMiddleware::call.
Middleware(t, r) ==
    /\ Runs(t, <<"http", r>>) /\ handling[r].pc = "start"
    /\ IF identity[r] = "" /\ HeaderRequired
       THEN handling' = [handling EXCEPT ![r].pc = "rejected"] /\ UNCHANGED future
       ELSE /\ handling' = [handling EXCEPT ![r].pc = "asked"]
            /\ future' = [future EXCEPT ![<<"req", r>>] =
                            [st |-> "idle",
                             ctx |-> [current[t] EXCEPT !.id = <<"req", r>>, !.identity = identity[r],
                                                        !.collector = identity[r]]]]
    /\ UNCHANGED <<identity, current, guards, emitted, queued, unwinding, aborted, panics>>

\* as_event: the request event of a Write is built by to_empty, as a response.
EventClass(m, phase) == IF m = "Write" /\ phase = "request" THEN "response" ELSE phase

\* publish_origin_event: waits for room in the channel.
SendOriginEvent(r, collector, parent, class) ==
    /\ queued < EventRoom
    /\ queued' = queued + 1
    /\ emitted' = Append(emitted, [of |-> r, identity |-> collector, parent |-> parent, class |-> class])

\* OriginEventContext::new, with the collector of the active context.
NewEventContext(t, r) ==
    /\ Runs(t, <<"req", r>>) /\ handling[r].pc = "asked"
    /\ SendOriginEvent(r, current[t].collector, 0, EventClass(MethodOf[r], "request"))
    /\ handling' = [handling EXCEPT ![r].pc = "noted", ![r].collector = current[t].collector,
                                ![r].parent = Len(emitted')]
    /\ UNCHANGED <<identity, current, guards, future, unwinding, aborted, panics>>

\* make_ctx_for_hash_func: a fork of the active context; WaitExecution has none.
HashContext(t, r) ==
    /\ Runs(t, <<"req", r>>) /\ handling[r].pc = "noted"
    /\ IF MethodOf[r] = "WaitExecution"
       THEN handling' = [handling EXCEPT ![r].pc = "answered"] /\ UNCHANGED future
       ELSE /\ handling' = [handling EXCEPT ![r].pc = "working"]
            /\ future' = [future EXCEPT ![<<"hash", r>>] =
                            [st |-> "idle", ctx |-> [current[t] EXCEPT !.id = <<"hash", r>>, !.hash = TRUE]]]
    /\ UNCHANGED <<identity, current, guards, emitted, queued, unwinding, aborted, panics>>

\* The handler's own work: it spawns a task, whose handle goes with the answer.
InnerCall(t, r) ==
    /\ Runs(t, <<"hash", r>>) /\ handling[r].pc = "working"
    /\ handling' = [handling EXCEPT ![r].pc = "answered"]
    /\ future' = [future EXCEPT ![<<"task", r>>] = [st |-> "idle", ctx |-> current[t]]]
    /\ UNCHANGED <<identity, current, guards, emitted, queued, unwinding, aborted, panics>>

\* Mutant: an event is attributed through the context that happens to be active.
CollectorActive(t, r) == current[t].collector

\* OriginEventContext holds the collector it was made with.
Collector(t, r) == handling[r].collector

\* emit of the response; the handler of WaitExecution emits none.
EmitResponse(t, r) ==
    /\ Runs(t, <<"req", r>>) /\ handling[r].pc = "answered"
    /\ future[<<"hash", r>>].st \in {"none", "done"}
    /\ handling' = [handling EXCEPT ![r].pc = "responded"]
    /\ IF MethodOf[r] = "WaitExecution" THEN UNCHANGED <<emitted, queued>>
       ELSE SendOriginEvent(r, Collector(t, r), handling[r].parent, "response")
    /\ UNCHANGED <<identity, current, guards, future, unwinding, aborted, panics>>

\* wrap_stream: an item of a Write is read in the handler; one of a response is
\* sent by http, outside the context of the call.
EmitItem(t, r) ==
    /\ ~handling[r].item
    /\ IF MethodOf[r] = "Write" THEN Runs(t, <<"hash", r>>) /\ handling[r].pc = "working"
                                ELSE Runs(t, <<"http", r>>) /\ handling[r].pc = "body"
    /\ handling' = [handling EXCEPT ![r].item = TRUE]
    /\ SendOriginEvent(r, Collector(t, r), handling[r].parent, "stream")
    /\ UNCHANGED <<identity, current, guards, future, unwinding, aborted, panics>>

\* OriginEventPublisher takes one from the channel.
TakeEvent ==
    /\ queued > 0
    /\ queued' = queued - 1
    /\ UNCHANGED <<identity, current, guards, future, handling, emitted, unwinding, aborted, panics>>

OriginNext ==
    \/ \E t \in OriginThreads, f \in Futures :
          \/ PollFuture(t, f) \/ HandlerPanics(t, f) \/ DropFuture(t, f) \/ DropReturns(t, f)
          \/ \E ready \in BOOLEAN : PollReturns(t, f, ready)
    \/ \E t \in OriginThreads : Unwind(t)
    \/ \E t \in OriginThreads, r \in OriginCalls :
          \/ Arrives(t, r) \/ Middleware(t, r) \/ NewEventContext(t, r) \/ HashContext(t, r)
          \/ InnerCall(t, r) \/ EmitResponse(t, r) \/ EmitItem(t, r)
    \/ TakeEvent

OriginSpec == OriginInit /\ [][OriginNext]_originVars

-----------------------------------------------------------------------------
\* The context the code of a future is meant to see.
OwnContext(f) ==
    CASE f[1] \in {"conn", "http"} -> <<"conn">>
      [] f[1] = "req" -> f
      [] OTHER -> <<"hash", f[2]>>

\* id is that of the innermost of the first n guards that put a context in place.
InnermostOf(gs, n, id) ==
    \/ id = NoContext.id /\ \A i \in 1..n : ~gs[i].entered
    \/ \E i \in 1..n : /\ gs[i].entered /\ id = OwnContext(gs[i].fut)
                      /\ \A j \in (i + 1)..n : ~gs[j].entered

(* The active context of a thread is that of the innermost future it polls   *)
(* or drops, and none when it does neither; a future that can be polled      *)
(* holds its own.  So the code of a call never sees another call's context,  *)
(* also after a panic or a move to another thread, and the assertions        *)
(* "Expected context to be set", "... unset" and the pointer comparison of   *)
(* origin_context.rs never fail.                                             *)
ContextsInPlace ==
    /\ \A t \in OriginThreads : InnermostOf(guards[t], Len(guards[t]), current[t].id)
    /\ \A f \in Futures : future[f].st = "idle" => future[f].ctx.id = OwnContext(f)

(* Origin events name the caller whose call they are about: a call's first   *)
(* event has no parent, every other one has that first event as its parent,  *)
(* the identity is its header's, and a call refused for lack of an identity  *)
(* leaves no event.                                                          *)
EventsAttributed ==
    \A i \in DOMAIN emitted :
        LET e == emitted[i]
        IN  /\ e.identity = identity[e.of] /\ (HeaderRequired => e.identity # "")
            /\ IF e.parent = 0
               THEN \A j \in 1..(i - 1) : emitted[j].of # e.of
               ELSE e.parent < i /\ emitted[e.parent].of = e.of /\ emitted[e.parent].parent = 0

(* What the messages of events.proto say ("RequestEvent ... write_request"): *)
(* the event that opens a call is a request.  That of a Write is recorded as *)
(* an empty response.                                                        *)
FirstIsRequest ==
    \A i \in DOMAIN emitted : emitted[i].parent = 0 => emitted[i].class = "request"
=============================================================================
