---------------------------- MODULE OriginProofs ----------------------------
(***************************************************************************)
(* Concurrent requests are kept apart, for every number of threads, calls  *)
(* and panics, whatever is polled, dropped or unwound where and in which   *)
(* order.                                                                  *)
(***************************************************************************)
EXTENDS OriginContext, SequenceTheorems, TLAPS

Ids == {NoContext.id, ConnContext.id} \cup {"req", "hash"} \X OriginCalls
Said == {""} \cup {identity[r] : r \in OriginCalls}
Context == [id : Ids, identity : Said, collector : Said, hash : BOOLEAN]

\* A context that belongs to a call carries the identity of its caller.
Carries(c) ==
    /\ c \in Context
    /\ \A r \in OriginCalls : c.id \in {<<"req", r>>, <<"hash", r>>} => c.collector = identity[r]

Guard == [fut : Futures, kind : {"poll", "drop"}, prev : Context, entered : BOOLEAN]
FutureState == {"none", "idle", "poll", "drop", "done", "panicked", "dropped"}
Handler == [pc : {"start", "rejected", "asked", "noted", "working", "answered", "responded", "body"},
            collector : Said, parent : Nat, item : BOOLEAN]
Event == [of : OriginCalls, identity : Said, parent : Nat, class : {"request", "response", "stream"}]

OTypes ==
    /\ current \in [OriginThreads -> Context]
    /\ guards \in [OriginThreads -> Seq(Guard)]
    /\ future \in [Futures -> [st : FutureState, ctx : Context]]
    /\ handling \in [OriginCalls -> Handler]
    /\ emitted \in Seq(Event)

\* What a guard restores is what was active below it.
Stacked ==
    \A t \in OriginThreads :
        /\ InnermostOf(guards[t], Len(guards[t]), current[t].id)
        /\ \A n \in 1..Len(guards[t]) :
              /\ InnermostOf(guards[t], n - 1, guards[t][n].prev.id)
              /\ guards[t][n].kind = "poll" => guards[t][n].entered

\* A future that holds a context holds its own.
Held ==
    \A f \in Futures :
        /\ future[f].ctx = NoContext \/ future[f].ctx.id = OwnContext(f)
        /\ future[f].st = "idle" => future[f].ctx.id = OwnContext(f)

AllCarry ==
    /\ \A t \in OriginThreads : /\ Carries(current[t])
                                /\ \A n \in 1..Len(guards[t]) : Carries(guards[t][n].prev)
    /\ \A f \in Futures : Carries(future[f].ctx)

\* How far a handler is says what it has emitted: nothing, or a first event that
\* it names as the parent of all others.
NotedOf(r) ==
    IF handling[r].pc \in {"start", "rejected", "asked"}
    THEN /\ \A i \in 1..Len(emitted) : emitted[i].of # r
         /\ handling[r].pc = "asked" /\ HeaderRequired => identity[r] # ""
    ELSE /\ handling[r].parent \in 1..Len(emitted)
         /\ emitted[handling[r].parent].of = r /\ emitted[handling[r].parent].parent = 0
         /\ handling[r].collector = identity[r]
         /\ HeaderRequired => identity[r] # ""

Noted == \A r \in OriginCalls : NotedOf(r)

\* The guards of a stack are all of polls or all of drops; only polls unwind.
Unwinds ==
    \A t \in OriginThreads :
        /\ \A n \in 1..Len(guards[t]) : guards[t][n].kind = guards[t][1].kind
        /\ t \in unwinding => guards[t] # <<>> /\ guards[t][1].kind = "poll"

OInv == OTypes /\ Stacked /\ Held /\ AllCarry /\ Noted /\ EventsAttributed

-----------------------------------------------------------------------------
(* Stacks of guards *)

LEMMA PushFacts ==
    ASSUME NEW S, NEW gs \in Seq(S), NEW g \in S
    PROVE  /\ Append(gs, g) \in Seq(S) /\ Len(Append(gs, g)) = Len(gs) + 1 /\ Len(gs) \in Nat
           /\ \A i \in 1..Len(gs) : Append(gs, g)[i] = gs[i]
           /\ Append(gs, g)[Len(gs) + 1] = g
PROOF OBVIOUS

LEMMA PopFacts ==
    ASSUME NEW S, NEW gs \in Seq(S), gs # <<>>
    PROVE  /\ Front(gs) \in Seq(S) /\ Len(Front(gs)) = Len(gs) - 1
           /\ Len(gs) \in Nat /\ Len(gs) >= 1 /\ Last(gs) = gs[Len(gs)] /\ Last(gs) \in S
           /\ \A i \in 1..(Len(gs) - 1) : Front(gs)[i] = gs[i]
PROOF
  <1>1. Len(gs) \in Nat /\ Len(gs) >= 1 /\ gs[Len(gs)] \in S
    OBVIOUS
  <1> DEFINE n == Len(gs) - 1
             fr == SubSeq(gs, 1, n)
  <1>2. n \in Nat /\ n \in Int /\ 1 \in Int /\ \A i \in 1..n : gs[i] \in S
    BY <1>1
  <1> HIDE DEF n
  <1>3. /\ fr \in Seq(S) /\ Len(fr) = IF 1 <= n THEN n - 1 + 1 ELSE 0
        /\ \A i \in 1..(n - 1 + 1) : fr[i] = gs[1 + i - 1]
    BY <1>2, SubSeqProperties
  <1>4. Front(gs) = fr /\ Last(gs) = gs[Len(gs)]
    BY Zenon DEF Front, Last, n
  <1> HIDE DEF fr
  <1>5. Len(fr) = n
    BY <1>2, <1>3
  <1>6. \A i \in 1..n : fr[i] = gs[i]
    BY <1>2, <1>3
  <1>7. QED
    BY <1>1, <1>3, <1>4, <1>5, <1>6, Zenon DEF n

LEMMA InnermostSame ==
    ASSUME NEW gs, NEW hs, NEW n \in Nat, NEW id, InnermostOf(gs, n, id),
           \A i \in 1..n : hs[i] = gs[i]
    PROVE  InnermostOf(hs, n, id)
PROOF
  <1>1. CASE id = NoContext.id /\ \A i \in 1..n : ~gs[i].entered
    BY <1>1 DEF InnermostOf
  <1>2. ASSUME NEW i \in 1..n, gs[i].entered, id = OwnContext(gs[i].fut),
               \A j \in (i + 1)..n : ~gs[j].entered
        PROVE  InnermostOf(hs, n, id)
    <2>1. hs[i] = gs[i] /\ \A j \in (i + 1)..n : hs[j] = gs[j]
      BY <1>2
    <2>2. QED
      BY <1>2, <2>1, Zenon DEF InnermostOf
  <1>3. QED
    BY <1>1, <1>2 DEF InnermostOf

\* The innermost guard decides, when it has put a context in place.
LEMMA InnermostTop ==
    ASSUME NEW gs, NEW n \in Nat \ {0}, NEW id, gs[n].entered
    PROVE  InnermostOf(gs, n, id) <=> id = OwnContext(gs[n].fut)
PROOF
  <1>1. n \in 1..n /\ \A j \in (n + 1)..n : FALSE
    OBVIOUS
  <1>2. ASSUME id = OwnContext(gs[n].fut) PROVE InnermostOf(gs, n, id)
    BY <1>1, <1>2, Zenon DEF InnermostOf
  <1>3. ASSUME InnermostOf(gs, n, id) PROVE id = OwnContext(gs[n].fut)
    <2>1. PICK i \in 1..n : /\ gs[i].entered /\ id = OwnContext(gs[i].fut)
                            /\ \A j \in (i + 1)..n : ~gs[j].entered
      BY <1>1, <1>3 DEF InnermostOf
    <2>2. i = n
      BY <2>1
    <2>3. QED
      BY <2>1, <2>2
  <1>4. QED
    BY <1>2, <1>3

LEMMA InnermostBelow ==
    ASSUME NEW gs, NEW n \in Nat \ {0}, NEW id, ~gs[n].entered, InnermostOf(gs, n - 1, id)
    PROVE  InnermostOf(gs, n, id)
PROOF
  <1>1. CASE id = NoContext.id /\ \A i \in 1..(n - 1) : ~gs[i].entered
    BY <1>1 DEF InnermostOf
  <1>2. ASSUME NEW i \in 1..(n - 1), gs[i].entered, id = OwnContext(gs[i].fut),
               \A j \in (i + 1)..(n - 1) : ~gs[j].entered
        PROVE  InnermostOf(gs, n, id)
    <2>1. i \in 1..n /\ \A j \in (i + 1)..n : ~gs[j].entered
      BY <1>2
    <2>2. QED
      BY <1>2, <2>1 DEF InnermostOf
  <1>3. QED
    BY <1>1, <1>2 DEF InnermostOf

LEMMA SameSaid ==
    ASSUME UNCHANGED identity
    PROVE  /\ Context' = Context /\ Guard' = Guard /\ Handler' = Handler /\ Event' = Event
           /\ \A c : Carries(c)' <=> Carries(c)
PROOF BY DEF Context, Guard, Handler, Event, Said, Carries

\* The code of a future runs in the context of that future.
LEMMA RunsInOwn ==
    ASSUME OInv, NEW t \in OriginThreads, NEW f, Runs(t, f)
    PROVE  /\ f \in Futures /\ current[t].id = OwnContext(f) /\ guards[t] # <<>>
           /\ Carries(current[t]) /\ Last(guards[t]).fut = f
PROOF
  <1>1. guards[t] \in Seq(Guard) /\ guards[t] # <<>> /\ Last(guards[t]).fut = f
        /\ Last(guards[t]).kind = "poll" /\ Carries(current[t])
    BY DEF OInv, OTypes, Runs, AllCarry
  <1>2. /\ Last(guards[t]) = guards[t][Len(guards[t])] /\ Last(guards[t]) \in Guard
        /\ Len(guards[t]) \in Nat \ {0} /\ Len(guards[t]) \in 1..Len(guards[t])
    BY <1>1, PopFacts
  <1>3. guards[t][Len(guards[t])].entered
    BY <1>1, <1>2 DEF OInv, Stacked
  <1>4. InnermostOf(guards[t], Len(guards[t]), current[t].id)
    BY DEF OInv, Stacked
  <1>5. f \in Futures
    BY <1>1, <1>2 DEF Guard
  <1>6. QED
    BY <1>1, <1>2, <1>3, <1>4, <1>5, InnermostTop

-----------------------------------------------------------------------------
(* What the steps do to stacks, futures and events *)

LEMMA NoContextCarries == Carries(NoContext) /\ Carries(ConnContext)
PROOF
  <1>1. NoContext \in Context /\ ConnContext \in Context
    BY Zenon DEF NoContext, ConnContext, Context, Ids, Said
  <1>2. \A r : <<"req", r>>[1] = "req" /\ <<"hash", r>>[1] = "hash"
    OBVIOUS
  <1>3. NoContext.id[1] = "none" /\ ConnContext.id[1] = "conn"
    BY DEF NoContext, ConnContext
  <1>4. \A r : NoContext.id \notin {<<"req", r>>, <<"hash", r>>}
               /\ ConnContext.id \notin {<<"req", r>>, <<"hash", r>>}
    BY <1>2, <1>3
  <1>5. QED
    BY <1>1, <1>4 DEF Carries

\* A future is given a state and a context.
LEMMA FutureSet ==
    ASSUME OInv, UNCHANGED identity, NEW f \in Futures, NEW st \in FutureState, NEW ctx,
           future' = [future EXCEPT ![f] = [st |-> st, ctx |-> ctx]], Carries(ctx),
           ctx = NoContext \/ ctx.id = OwnContext(f),
           st = "idle" => ctx.id = OwnContext(f)
    PROVE  /\ future' \in [Futures -> [st : FutureState, ctx : Context]] /\ Held'
           /\ \A g \in Futures : Carries(future'[g].ctx)
PROOF
  <1>0. future \in [Futures -> [st : FutureState, ctx : Context]] /\ ctx \in Context
    BY DEF OInv, OTypes, Carries
  <1>1. [st |-> st, ctx |-> ctx] \in [st : FutureState, ctx : Context]
    BY <1>0
  <1>2. /\ future' \in [Futures -> [st : FutureState, ctx : Context]]
        /\ future'[f] = [st |-> st, ctx |-> ctx] /\ \A g \in Futures \ {f} : future'[g] = future[g]
    BY <1>0, <1>1, Zenon
  <1>3. future'[f].st = st /\ future'[f].ctx = ctx
    BY <1>2
  <1>4. Held'
    BY <1>2, <1>3, Zenon DEF OInv, Held
  <1>5. \A g \in Futures : Carries(future'[g].ctx)
    BY <1>2, <1>3, Zenon DEF OInv, AllCarry
  <1>6. QED
    BY <1>2, <1>4, <1>5

LEMMA EnterKeeps ==
    ASSUME OInv, NEW t \in OriginThreads, NEW f \in Futures, NEW kind \in {"poll", "drop"},
           kind = "poll" => future[f].ctx # NoContext,
           Enter(t, f, kind), UNCHANGED <<identity, handling, emitted>>
    PROVE  OInv'
PROOF
  <1> DEFINE ctx == future[f].ctx
             g == [fut |-> f, kind |-> kind, prev |-> current[t], entered |-> ctx # NoContext]
             gs == guards[t]
  <1>0. /\ current \in [OriginThreads -> Context] /\ guards \in [OriginThreads -> Seq(Guard)]
        /\ gs \in Seq(Guard) /\ Carries(ctx) /\ Carries(current[t]) /\ ctx \in Context
        /\ ctx = NoContext \/ ctx.id = OwnContext(f)
    BY DEF OInv, OTypes, AllCarry, Held, Carries
  <1>1. /\ guards' = [guards EXCEPT ![t] = Append(gs, g)]
        /\ current' = [current EXCEPT ![t] = IF ctx # NoContext THEN ctx ELSE current[t]]
        /\ future' = [future EXCEPT ![f] = [st |-> kind, ctx |-> NoContext]]
    BY DEF Enter
  <1>2. /\ g \in Guard /\ g.fut = f /\ g.kind = kind /\ g.prev = current[t]
        /\ g.entered <=> ctx # NoContext
    BY <1>0, Zenon DEF Guard
  <1> HIDE DEF g, gs, ctx
  <1>3. /\ Append(gs, g) \in Seq(Guard) /\ Len(Append(gs, g)) = Len(gs) + 1 /\ Len(gs) \in Nat
        /\ \A i \in 1..Len(gs) : Append(gs, g)[i] = gs[i]
        /\ Append(gs, g)[Len(gs) + 1] = g
    BY <1>0, <1>2, PushFacts
  <1>4. /\ guards' \in [OriginThreads -> Seq(Guard)] /\ guards'[t] = Append(gs, g)
        /\ \A u \in OriginThreads \ {t} : guards'[u] = guards[u]
    BY <1>0, <1>1, <1>3, Zenon
  <1>5. /\ current' \in [OriginThreads -> Context]
        /\ current'[t] = IF ctx # NoContext THEN ctx ELSE current[t]
        /\ \A u \in OriginThreads \ {t} : current'[u] = current[u]
    BY <1>0, <1>1
  <1>6. /\ future' \in [Futures -> [st : FutureState, ctx : Context]] /\ Held'
        /\ \A h \in Futures : Carries(future'[h].ctx)
    BY <1>1, FutureSet, NoContextCarries, Zenon DEF FutureState
  <1>7. OTypes'
    BY <1>4, <1>5, <1>6, SameSaid, Zenon DEF OInv, OTypes
  <1>8. Stacked'
    <2>1. /\ InnermostOf(gs, Len(gs), current[t].id)
          /\ \A n \in 1..Len(gs) : InnermostOf(gs, n - 1, gs[n].prev.id) /\ (gs[n].kind = "poll" => gs[n].entered)
      BY DEF OInv, Stacked, gs
    <2> DEFINE hs == Append(gs, g)
    <2>a. /\ hs \in Seq(Guard) /\ Len(hs) = Len(gs) + 1 /\ Len(gs) \in Nat
          /\ \A i \in 1..Len(gs) : hs[i] = gs[i]
          /\ hs[Len(gs) + 1] = g
      BY <1>3
    <2> HIDE DEF hs
    <2>2. InnermostOf(hs, Len(gs), current[t].id)
      BY <2>1, <2>a, InnermostSame
    <2>3. ASSUME NEW n \in 1..Len(hs)
          PROVE  InnermostOf(hs, n - 1, hs[n].prev.id) /\ (hs[n].kind = "poll" => hs[n].entered)
      <3>1. CASE n = Len(gs) + 1
        <4>1. n - 1 = Len(gs) /\ hs[n] = g
          BY <2>a, <3>1
        <4>2. QED
          BY <1>2, <2>2, <4>1 DEF ctx
      <3>2. CASE n # Len(gs) + 1
        <4>1. n \in 1..Len(gs) /\ n - 1 \in Nat /\ hs[n] = gs[n] /\ \A i \in 1..(n - 1) : hs[i] = gs[i]
          BY <2>a, <3>2
        <4>2. QED
          BY <2>1, <4>1, InnermostSame
      <3>3. QED
        BY <3>1, <3>2
    <2>4. InnermostOf(hs, Len(hs), current'[t].id)
      <3>1. Len(hs) \in Nat \ {0} /\ Len(hs) - 1 = Len(gs) /\ hs[Len(hs)] = g
        BY <2>a
      <3>2. CASE ctx # NoContext
        <4>1. hs[Len(hs)].entered
          BY <1>2, <3>1, <3>2, Zenon
        <4>2. current'[t].id = OwnContext(hs[Len(hs)].fut)
          BY <1>0, <1>2, <1>5, <3>1, <3>2, Zenon
        <4>3. QED
          BY <3>1, <4>1, <4>2, InnermostTop
      <3>3. CASE ctx = NoContext
        BY <1>2, <1>5, <2>2, <3>1, <3>3, InnermostBelow, SMTT(20)
      <3>4. QED
        BY <3>2, <3>3
    <2>5. QED
      BY <1>4, <1>5, <2>3, <2>4, Zenon DEF OInv, Stacked, hs
  <1>9. AllCarry'
    <2>1. \A u \in OriginThreads : Carries(current'[u])
      BY <1>0, <1>5, Zenon DEF OInv, AllCarry
    <2>2. \A n \in 1..Len(gs) : Carries(gs[n].prev)
      BY DEF OInv, AllCarry, gs
    <2>3. \A n \in 1..Len(Append(gs, g)) : Carries(Append(gs, g)[n].prev)
      BY <1>0, <1>2, <1>3, <2>2
    <2>4. \A u \in OriginThreads : \A n \in 1..Len(guards'[u]) : Carries(guards'[u][n].prev)
      BY <1>4, <2>3, Zenon DEF OInv, AllCarry
    <2>5. QED
      BY <1>6, <2>1, <2>4, SameSaid, Zenon DEF AllCarry
  <1>10. Noted' /\ EventsAttributed'
    BY Zenon DEF OInv, Noted, NotedOf, EventsAttributed
  <1>11. QED
    BY <1>6, <1>7, <1>8, <1>9, <1>10, SMTT(20) DEF OInv

\* restore_global_context, while the future's state changes otherwise.
LEMMA RestoreKeeps ==
    ASSUME OInv, NEW t \in OriginThreads, guards[t] # <<>>, RestoreContext(t),
           UNCHANGED <<identity, emitted>>,
           future' \in [Futures -> [st : FutureState, ctx : Context]], Held',
           \A f \in Futures : Carries(future'[f].ctx),
           handling' \in [OriginCalls -> Handler], Noted'
    PROVE  OInv'
PROOF
  <1> DEFINE gs == guards[t]
             hs == Front(gs)
             top == Last(gs)
  <1>0. /\ current \in [OriginThreads -> Context] /\ guards \in [OriginThreads -> Seq(Guard)]
        /\ gs \in Seq(Guard)
    BY DEF OInv, OTypes
  <1>1. /\ guards' = [guards EXCEPT ![t] = hs] /\ current' = [current EXCEPT ![t] = top.prev]
    BY DEF RestoreContext
  <1>2. /\ hs \in Seq(Guard) /\ Len(hs) = Len(gs) - 1
        /\ Len(gs) \in Nat /\ Len(gs) >= 1 /\ top = gs[Len(gs)] /\ top \in Guard
        /\ \A i \in 1..(Len(gs) - 1) : hs[i] = gs[i]
    BY <1>0, PopFacts, Zenon
  <1>3. /\ InnermostOf(gs, Len(gs) - 1, top.prev.id) /\ Carries(top.prev)
        /\ \A n \in 1..Len(gs) : /\ InnermostOf(gs, n - 1, gs[n].prev.id) /\ Carries(gs[n].prev)
                                 /\ gs[n].kind = "poll" => gs[n].entered
    <2>1. \A n \in 1..Len(gs) : /\ InnermostOf(gs, n - 1, gs[n].prev.id) /\ Carries(gs[n].prev)
                                /\ gs[n].kind = "poll" => gs[n].entered
      BY DEF OInv, Stacked, AllCarry
    <2> HIDE DEF gs, hs, top
    <2>2. Len(gs) \in 1..Len(gs)
      BY <1>2
    <2>3. QED
      BY <1>2, <2>1, <2>2, Zenon
  <1> HIDE DEF gs, hs, top
  <1>4. /\ guards' \in [OriginThreads -> Seq(Guard)] /\ guards'[t] = hs
        /\ \A u \in OriginThreads \ {t} : guards'[u] = guards[u]
    BY <1>0, <1>1, <1>2, Zenon
  <1>5. top.prev \in Context
    BY <1>2 DEF Guard
  <1>6. /\ current' \in [OriginThreads -> Context] /\ current'[t] = top.prev
        /\ \A u \in OriginThreads \ {t} : current'[u] = current[u]
    BY <1>0, <1>1, <1>5, Zenon
  <1>7. OTypes'
    BY <1>4, <1>6, SameSaid, Zenon DEF OInv, OTypes
  <1>8. Len(hs) \in Nat
    BY <1>2
  <1>9. InnermostOf(hs, Len(hs), current'[t].id)
    BY <1>2, <1>3, <1>6, <1>8, InnermostSame, SMTT(20)
  <1>10. ASSUME NEW n \in 1..Len(hs)
         PROVE  /\ InnermostOf(hs, n - 1, hs[n].prev.id) /\ Carries(hs[n].prev)
                /\ hs[n].kind = "poll" => hs[n].entered
    <2>0. n \in 1..(Len(gs) - 1)
      BY <1>2, Zenon
    <2>a. Len(gs) \in Nat
      BY <1>2
    <2>b. n \in 1..Len(gs) /\ n - 1 \in Nat /\ \A i \in 1..(n - 1) : i \in 1..(Len(gs) - 1)
      BY <2>0, <2>a
    <2>1. n \in 1..Len(gs) /\ n - 1 \in Nat /\ hs[n] = gs[n] /\ \A i \in 1..(n - 1) : hs[i] = gs[i]
      BY <1>2, <2>0, <2>b, Zenon
    <2>2. InnermostOf(hs, n - 1, gs[n].prev.id)
      BY <1>3, <2>1, InnermostSame
    <2>3. QED
      BY <1>3, <2>1, <2>2, Zenon
  <1>11. Stacked'
    BY <1>4, <1>6, <1>9, <1>10, Zenon DEF OInv, Stacked
  <1>12. AllCarry'
    <2>1. \A u \in OriginThreads : Carries(current'[u])
      BY <1>3, <1>6, Zenon DEF OInv, AllCarry
    <2>2. \A u \in OriginThreads : \A n \in 1..Len(guards'[u]) : Carries(guards'[u][n].prev)
      BY <1>4, <1>10, Zenon DEF OInv, AllCarry
    <2>3. QED
      BY <2>1, <2>2, SameSaid, Zenon DEF AllCarry
  <1>13. EventsAttributed'
    BY Zenon DEF OInv, EventsAttributed
  <1>14. QED
    BY <1>7, <1>11, <1>12, <1>13 DEF OInv

\* The code of a call: no guard is made or released.
LEMMA CallKeeps ==
    ASSUME OInv, UNCHANGED <<identity, current, guards>>,
           future' \in [Futures -> [st : FutureState, ctx : Context]], Held',
           \A f \in Futures : Carries(future'[f].ctx),
           handling' \in [OriginCalls -> Handler], emitted' \in Seq(Event), Noted', EventsAttributed'
    PROVE  OInv'
PROOF
  <1>1. OTypes'
    BY SameSaid, Zenon DEF OInv, OTypes
  <1>2. Stacked'
    BY DEF OInv, Stacked
  <1>3. AllCarry'
    BY SameSaid, Zenon DEF OInv, AllCarry
  <1>4. QED
    BY <1>1, <1>2, <1>3 DEF OInv

LEMMA FuturesSame ==
    ASSUME OInv, UNCHANGED future
    PROVE  /\ future' \in [Futures -> [st : FutureState, ctx : Context]] /\ Held'
           /\ \A f \in Futures : Carries(future'[f].ctx)
PROOF BY DEF OInv, OTypes, Held, AllCarry

\* Only the st field changes, and not to "idle".
LEMMA FutureMoved ==
    ASSUME OInv, NEW f \in Futures, NEW st \in FutureState \ {"idle"},
           future' = [future EXCEPT ![f].st = st]
    PROVE  /\ future' \in [Futures -> [st : FutureState, ctx : Context]] /\ Held'
           /\ \A g \in Futures : Carries(future'[g].ctx)
PROOF
  <1>0. future \in [Futures -> [st : FutureState, ctx : Context]]
    BY DEF OInv, OTypes
  <1>1. [future[f] EXCEPT !.st = st] \in [st : FutureState, ctx : Context]
    BY <1>0
  <1>2. /\ future' \in [Futures -> [st : FutureState, ctx : Context]]
        /\ future'[f] = [future[f] EXCEPT !.st = st] /\ \A g \in Futures \ {f} : future'[g] = future[g]
    BY <1>0, <1>1, Zenon
  <1>3. future'[f].st = st /\ future'[f].ctx = future[f].ctx
    BY <1>0, <1>2
  <1>4. QED
    BY <1>2, <1>3 DEF OInv, Held, AllCarry

\* An event that says who called, and that is the first of its call or names it.
Attributable(r, c, p) ==
    /\ c = identity[r] /\ (HeaderRequired => c # "")
    /\ p = 0 => \A i \in 1..Len(emitted) : emitted[i].of # r
    /\ p # 0 => p \in 1..Len(emitted) /\ emitted[p].of = r /\ emitted[p].parent = 0

\* publish_origin_event, of the first event of a call or of a later one.
LEMMA SentFacts ==
    ASSUME OInv, UNCHANGED identity, NEW r \in OriginCalls, NEW c, NEW p \in Nat,
           NEW class \in {"request", "response", "stream"}, SendOriginEvent(r, c, p, class),
           Attributable(r, c, p)
    PROVE  /\ emitted' \in Seq(Event) /\ Len(emitted') = Len(emitted) + 1 /\ Len(emitted) \in Nat
           /\ \A i \in 1..Len(emitted) : emitted'[i] = emitted[i]
           /\ emitted'[Len(emitted')].of = r /\ emitted'[Len(emitted')].parent = p
           /\ EventsAttributed'
PROOF
  <1> DEFINE e == [of |-> r, identity |-> c, parent |-> p, class |-> class]
  <1>0. emitted \in Seq(Event) /\ emitted' = Append(emitted, e)
    BY DEF OInv, OTypes, SendOriginEvent
  <1>c. c \in Said
    BY Zenon DEF Said, Attributable
  <1>1. e \in Event /\ e.of = r /\ e.parent = p /\ e.identity = c
    BY <1>c DEF Event
  <1> HIDE DEF e
  <1>2. /\ emitted' \in Seq(Event) /\ Len(emitted') = Len(emitted) + 1 /\ Len(emitted) \in Nat
        /\ \A i \in 1..Len(emitted) : emitted'[i] = emitted[i]
        /\ emitted'[Len(emitted) + 1] = e
    BY <1>0, <1>1, PushFacts
  <1> DEFINE es == emitted
             fs == emitted'
             n == Len(emitted)
  <1>3. /\ DOMAIN es = 1..n /\ DOMAIN fs = 1..(n + 1) /\ n \in Nat
        /\ \A i \in 1..n : fs[i] = es[i]
        /\ fs[n + 1] = e
    BY <1>0, <1>2
  <1>4. ASSUME NEW i \in 1..n
        PROVE  /\ es[i].identity = identity[es[i].of] /\ (HeaderRequired => es[i].identity # "")
               /\ IF es[i].parent = 0
                  THEN \A j \in 1..(i - 1) : es[j].of # es[i].of
                  ELSE /\ es[i].parent < i /\ es[es[i].parent].of = es[i].of
                       /\ es[es[i].parent].parent = 0
    BY <1>3, Zenon DEF OInv, EventsAttributed
  <1>5. \A i \in 1..n : es[i] \in Event /\ es[i].parent \in Nat
    <2>1. \A i \in 1..n : es[i] \in Event
      BY <1>0
    <2>2. \A x \in Event : x.parent \in Nat
      BY DEF Event
    <2>3. QED
      BY <2>1, <2>2, Zenon
  <1> HIDE DEF es, fs, n
  <1>6. ASSUME NEW i \in 1..(n + 1)
        PROVE  /\ fs[i].identity = identity[fs[i].of] /\ (HeaderRequired => fs[i].identity # "")
               /\ IF fs[i].parent = 0
                  THEN \A j \in 1..(i - 1) : fs[j].of # fs[i].of
                  ELSE /\ fs[i].parent < i /\ fs[fs[i].parent].of = fs[i].of
                       /\ fs[fs[i].parent].parent = 0
    <2>1. CASE i \in 1..n
      <3>1. fs[i] = es[i] /\ es[i].parent \in Nat
        BY <1>3, <1>5, <2>1
      <3>2. CASE es[i].parent = 0
        <4>1. \A j \in 1..(i - 1) : j \in 1..n
          BY <1>3, <2>1
        <4>2. QED
          <5>1. /\ es[i].identity = identity[es[i].of] /\ (HeaderRequired => es[i].identity # "")
                /\ \A j \in 1..(i - 1) : es[j].of # es[i].of
            BY <1>4, <2>1, <3>2, Zenon
          <5>2. \A j \in 1..(i - 1) : fs[j].of # fs[i].of
            BY <1>3, <3>1, <4>1, <5>1, Zenon
          <5>3. QED
            BY <3>1, <3>2, <5>1, <5>2, Zenon
      <3>3. CASE es[i].parent # 0
        <4>1. es[i].parent < i
          BY <1>4, <2>1, <3>3, Zenon
        <4>2. es[i].parent \in 1..n
          BY <1>3, <2>1, <3>1, <3>3, <4>1, SMTT(20)
        <4>3. QED
          BY <1>3, <1>4, <2>1, <3>1, <3>3, <4>2, Zenon
      <3>4. QED
        BY <3>2, <3>3, Zenon
    <2>2. CASE i = n + 1
      <3>1. fs[i] = e /\ i - 1 = n
        BY <1>3, <2>2
      <3>2. CASE p = 0
        <4>1. \A j \in 1..n : fs[j].of # r
          BY <1>3, <3>2, Zenon DEF es, n, Attributable
        <4>2. QED
          BY <1>1, <3>1, <3>2, <4>1, Zenon DEF Attributable
      <3>3. CASE p # 0
        <4>1. p \in 1..n /\ es[p].of = r /\ es[p].parent = 0
          BY <3>3, Zenon DEF es, n, Attributable
        <4>2. p < i
          BY <1>3, <2>2, <4>1
        <4>3. QED
          BY <1>1, <1>3, <3>1, <3>3, <4>1, <4>2, Zenon DEF Attributable
      <3>4. QED
        BY <3>2, <3>3, Zenon
    <2>3. i \in 1..n \/ i = n + 1
      BY <1>3
    <2>4. QED
      BY <2>1, <2>2, <2>3, Zenon
  <1>7. EventsAttributed'
    <2>1. \A i \in DOMAIN emitted' :
             /\ emitted'[i].identity = identity[emitted'[i].of] /\ (HeaderRequired => emitted'[i].identity # "")
             /\ IF emitted'[i].parent = 0
                THEN \A j \in 1..(i - 1) : emitted'[j].of # emitted'[i].of
                ELSE /\ emitted'[i].parent < i /\ emitted'[emitted'[i].parent].of = emitted'[i].of
                     /\ emitted'[emitted'[i].parent].parent = 0
      BY <1>3, <1>6, Zenon DEF fs
    <2>2. QED
      BY <2>1, Zenon DEF EventsAttributed
  <1>8. QED
    BY <1>1, <1>2, <1>7, Zenon

\* The handler of r goes on; the others are where they were.
LEMMA NotedKeeps ==
    ASSUME OInv, UNCHANGED identity, NEW r \in OriginCalls, NotedOf(r)',
           \A q \in OriginCalls \ {r} : handling'[q] = handling[q],
           \/ UNCHANGED emitted
           \/ /\ Len(emitted') = Len(emitted) + 1 /\ Len(emitted) \in Nat
              /\ \A i \in 1..Len(emitted) : emitted'[i] = emitted[i]
              /\ emitted'[Len(emitted')].of = r
    PROVE  Noted'
PROOF
  <1>1. SUFFICES ASSUME NEW q \in OriginCalls, q # r PROVE NotedOf(q)'
    BY DEF Noted
  <1>2. handling'[q] = handling[q] /\ NotedOf(q)
    BY <1>1 DEF OInv, Noted
  <1>3. CASE UNCHANGED emitted
    BY <1>2, <1>3, Zenon DEF NotedOf
  <1>4. CASE /\ Len(emitted') = Len(emitted) + 1 /\ Len(emitted) \in Nat
             /\ \A i \in 1..Len(emitted) : emitted'[i] = emitted[i]
             /\ emitted'[Len(emitted')].of = r
    <2> DEFINE n == Len(emitted)
    <2>1. \A i \in 1..Len(emitted') : i \in 1..n \/ i = Len(emitted')
      BY <1>4
    <2>2. \A i \in 1..n : i \in 1..Len(emitted')
      BY <1>4
    <2>3. CASE handling[q].pc \in {"start", "rejected", "asked"}
      <3>1. /\ \A i \in 1..n : emitted[i].of # q
            /\ handling[q].pc = "asked" /\ HeaderRequired => identity[q] # ""
        BY <1>2, <2>3, Zenon DEF NotedOf
      <3>2. \A i \in 1..Len(emitted') : emitted'[i].of # q
        BY <1>1, <1>4, <2>1, <3>1, Zenon
      <3>3. QED
        BY <1>2, <2>3, <3>1, <3>2, Zenon DEF NotedOf
    <2>4. CASE handling[q].pc \notin {"start", "rejected", "asked"}
      <3>1. /\ handling[q].parent \in 1..n
            /\ emitted[handling[q].parent].of = q /\ emitted[handling[q].parent].parent = 0
            /\ handling[q].collector = identity[q]
            /\ HeaderRequired => identity[q] # ""
        BY <1>2, <2>4, Zenon DEF NotedOf
      <3>2. QED
        BY <1>2, <1>4, <2>2, <2>4, <3>1, Zenon DEF NotedOf
    <2>5. QED
      BY <2>3, <2>4
  <1>5. QED
    BY <1>3, <1>4

-----------------------------------------------------------------------------
(* Panics *)

LEMMA EnterUnwinds ==
    ASSUME OInv, Unwinds, NEW t \in OriginThreads, NEW f, NEW kind \in {"poll", "drop"},
           Reached(t, f, kind), Enter(t, f, kind), UNCHANGED unwinding
    PROVE  Unwinds'
PROOF
  <1> DEFINE gs == guards[t]
             hs == guards'[t]
  <1>0. guards \in [OriginThreads -> Seq(Guard)] /\ current[t] \in Context /\ t \notin unwinding
    BY DEF OInv, OTypes, Reached
  <1>1. /\ Len(gs) \in Nat /\ Len(hs) = Len(gs) + 1
        /\ \A i \in 1..Len(gs) : hs[i] = gs[i]
        /\ hs[Len(gs) + 1].kind = kind
        /\ \A u \in OriginThreads \ {t} : guards'[u] = guards[u]
    <2> DEFINE g == [fut |-> f, kind |-> kind, prev |-> current[t],
                     entered |-> future[f].ctx # NoContext]
    <2>1. guards' = [guards EXCEPT ![t] = Append(gs, g)] /\ gs \in Seq(Guard)
      BY <1>0 DEF Enter
    <2>2. g.kind = kind
      OBVIOUS
    <2> HIDE DEF g
    <2>3. hs = Append(gs, g) /\ \A u \in OriginThreads \ {t} : guards'[u] = guards[u]
      BY <1>0, <2>1, Zenon
    <2> HIDE DEF hs
    <2>4. gs \in Seq(Guard \cup {g}) /\ g \in Guard \cup {g}
      BY <2>1
    <2> HIDE DEF gs
    <2>5. /\ Len(Append(gs, g)) = Len(gs) + 1 /\ Len(gs) \in Nat
          /\ \A i \in 1..Len(gs) : Append(gs, g)[i] = gs[i]
          /\ Append(gs, g)[Len(gs) + 1] = g
      BY <2>4, PushFacts
    <2>6. QED
      BY <2>2, <2>3, <2>5, Zenon
  <1>2. \A n \in 1..Len(gs) : gs[n].kind = kind
    <2>1. CASE gs = <<>>
      BY <2>1
    <2>2. CASE gs # <<>>
      <3>1. Last(gs) = gs[Len(gs)] /\ Len(gs) \in 1..Len(gs)
        <4>1. gs \in Seq(Guard)
          BY <1>0
        <4> HIDE DEF gs
        <4>2. Last(gs) = gs[Len(gs)] /\ Len(gs) \in Nat /\ Len(gs) >= 1
          BY <2>2, <4>1, PopFacts, Zenon
        <4>3. QED
          BY <4>2
      <3>2. \A n \in 1..Len(gs) : gs[n].kind = gs[1].kind
        BY DEF Unwinds
      <3>3. Last(gs).kind = kind
        BY <2>2 DEF Reached
      <3>4. QED
        BY <3>1, <3>2, <3>3, Zenon
    <2>3. QED
      BY <2>1, <2>2
  <1> HIDE DEF gs, hs
  <1>3. \A n \in 1..Len(hs) : hs[n].kind = kind /\ 1 \in 1..Len(hs)
    <2>1. \A n \in 1..Len(hs) : (n \in 1..Len(gs) \/ n = Len(gs) + 1) /\ 1 \in 1..Len(hs)
      BY <1>1
    <2>2. QED
      BY <1>1, <1>2, <2>1, Zenon
  <1>4. \A n \in 1..Len(hs) : hs[n].kind = hs[1].kind
    BY <1>3, Zenon
  <1>5. ASSUME NEW u \in OriginThreads
        PROVE  /\ \A n \in 1..Len(guards'[u]) : guards'[u][n].kind = guards'[u][1].kind
               /\ u \in unwinding' => guards'[u] # <<>> /\ guards'[u][1].kind = "poll"
    <2>1. CASE u = t
      BY <1>0, <1>4, <2>1, Zenon DEF hs
    <2>2. CASE u # t
      BY <1>1, <2>2, Zenon DEF Unwinds
    <2>3. QED
      BY <2>1, <2>2
  <1>6. QED
    BY <1>5, Zenon DEF Unwinds

LEMMA RestoreUnwinds ==
    ASSUME OInv, Unwinds, NEW t \in OriginThreads, guards[t] # <<>>, RestoreContext(t),
           \/ t \notin unwinding /\ UNCHANGED unwinding
           \/ unwinding' = IF Len(guards[t]) = 1 THEN unwinding \ {t} ELSE unwinding
    PROVE  Unwinds'
PROOF
  <1> DEFINE gs == guards[t]
             hs == guards'[t]
  <1>0. guards \in [OriginThreads -> Seq(Guard)] /\ gs \in Seq(Guard)
    BY DEF OInv, OTypes
  <1>1. hs = Front(gs) /\ \A u \in OriginThreads \ {t} : guards'[u] = guards[u]
    BY <1>0 DEF RestoreContext
  <1>2. /\ hs \in Seq(Guard) /\ Len(hs) = Len(gs) - 1 /\ Len(gs) \in Nat /\ Len(gs) >= 1
        /\ \A i \in 1..(Len(gs) - 1) : hs[i] = gs[i]
    <2>1. gs # <<>>
      OBVIOUS
    <2> HIDE DEF gs, hs
    <2>2. QED
      BY <1>0, <1>1, <2>1, PopFacts, Zenon
  <1>3. /\ \A n \in 1..Len(gs) : gs[n].kind = gs[1].kind
        /\ t \in unwinding => gs[1].kind = "poll"
    BY DEF Unwinds
  <1>4. /\ t \in unwinding' => t \in unwinding /\ Len(gs) # 1
        /\ \A u \in OriginThreads \ {t} : u \in unwinding' => u \in unwinding
    OBVIOUS
  <1>5. Len(hs) # 0 => hs # <<>>
    BY EmptySeq, Zenon
  <1> HIDE DEF gs, hs
  <1>6. \A n \in 1..Len(hs) : n \in 1..Len(gs) /\ n \in 1..(Len(gs) - 1) /\ 1 \in 1..(Len(gs) - 1)
    BY <1>2
  <1>7. \A n \in 1..Len(hs) : hs[n].kind = hs[1].kind
    BY <1>2, <1>3, <1>6, Zenon
  <1>8. Len(gs) # 1 => 1 \in 1..(Len(gs) - 1) /\ Len(hs) # 0
    BY <1>2
  <1>9. t \in unwinding' => hs # <<>> /\ hs[1].kind = "poll"
    BY <1>2, <1>3, <1>4, <1>5, <1>8, Zenon
  <1>10. ASSUME NEW u \in OriginThreads
         PROVE  /\ \A n \in 1..Len(guards'[u]) : guards'[u][n].kind = guards'[u][1].kind
                /\ u \in unwinding' => guards'[u] # <<>> /\ guards'[u][1].kind = "poll"
    <2>1. CASE u = t
      BY <1>7, <1>9, <2>1, Zenon DEF hs
    <2>2. CASE u # t
      BY <1>1, <1>4, <2>2, Zenon DEF Unwinds
    <2>3. QED
      BY <2>1, <2>2
  <1>11. QED
    BY <1>10, Zenon DEF Unwinds

-----------------------------------------------------------------------------
(* The actions *)

LEMMA PollFutureKeeps ==
    ASSUME OInv, Unwinds, NEW t \in OriginThreads, NEW f \in Futures,
           PollFuture(t, f) \/ DropFuture(t, f)
    PROVE  OInv' /\ Unwinds'
PROOF
  <1>1. CASE PollFuture(t, f)
    <2>1. /\ future[f].ctx # NoContext /\ Enter(t, f, "poll") /\ Reached(t, f, "poll")
          /\ UNCHANGED <<identity, handling, emitted, unwinding>>
      BY <1>1 DEF PollFuture
    <2>2. QED
      BY <2>1, EnterKeeps, EnterUnwinds
  <1>2. CASE DropFuture(t, f)
    <2>1. /\ Enter(t, f, "drop") /\ Reached(t, f, "drop")
          /\ UNCHANGED <<identity, handling, emitted, unwinding>>
      BY <1>2 DEF DropFuture
    <2>2. QED
      BY <2>1, EnterKeeps, EnterUnwinds
  <1>3. QED
    BY <1>1, <1>2

\* A handler goes from one point to another on the same side of its first event.
LEMMA HandlerMoves ==
    ASSUME OInv, UNCHANGED <<identity, emitted>>, NEW r \in OriginCalls,
           NEW pc \in {"rejected", "asked", "working", "answered", "responded", "body"},
           handling' = [handling EXCEPT ![r].pc = pc],
           pc \in {"rejected", "asked"} <=> handling[r].pc \in {"start", "rejected", "asked"},
           pc = "asked" /\ HeaderRequired => identity[r] # ""
    PROVE  handling' \in [OriginCalls -> Handler] /\ Noted'
PROOF
  <1>0. handling \in [OriginCalls -> Handler]
    BY Zenon DEF OInv, OTypes
  <1> DEFINE h == [handling[r] EXCEPT !.pc = pc]
  <1>1. /\ h \in Handler /\ h.pc = pc /\ h.parent = handling[r].parent
        /\ h.collector = handling[r].collector
    BY <1>0, Zenon DEF Handler
  <1> HIDE DEF h
  <1>2. /\ handling' \in [OriginCalls -> Handler] /\ handling'[r] = h
        /\ \A q \in OriginCalls \ {r} : handling'[q] = handling[q]
    BY <1>0, <1>1, Zenon DEF h
  <1>3. NotedOf(r)
    BY Zenon DEF OInv, Noted
  <1>4. NotedOf(r)'
    <2>1. CASE handling[r].pc \in {"start", "rejected", "asked"}
      <3>1. handling'[r].pc \in {"start", "rejected", "asked"}
        BY <1>1, <1>2, <2>1, Zenon
      <3>2. \A i \in 1..Len(emitted) : emitted[i].of # r
        BY <1>3, <2>1, Zenon DEF NotedOf
      <3>3. QED
        BY <1>1, <1>2, <3>1, <3>2, Zenon DEF NotedOf
    <2>2. CASE handling[r].pc \notin {"start", "rejected", "asked"}
      <3>1. handling'[r].pc \notin {"start", "rejected", "asked"}
        BY <1>1, <1>2, <2>2, Zenon
      <3>2. /\ handling[r].parent \in 1..Len(emitted)
            /\ emitted[handling[r].parent].of = r /\ emitted[handling[r].parent].parent = 0
            /\ handling[r].collector = identity[r]
            /\ HeaderRequired => identity[r] # ""
        BY <1>3, <2>2, Zenon DEF NotedOf
      <3>3. QED
        BY <1>1, <1>2, <3>1, <3>2, Zenon DEF NotedOf
    <2>3. QED
      BY <2>1, <2>2, Zenon
  <1>5. QED
    BY <1>2, <1>4, NotedKeeps, Zenon

LEMMA HandlersSame ==
    ASSUME OInv, UNCHANGED <<identity, emitted, handling>>
    PROVE  handling' \in [OriginCalls -> Handler] /\ Noted'
PROOF BY Zenon DEF OInv, OTypes, Noted, NotedOf

LEMMA SecondOfFuture ==
    ASSUME NEW f \in Futures, f[1] \in {"http", "req", "hash", "task"}
    PROVE  f[2] \in OriginCalls
PROOF
  <1>1. Conn[1] = "conn"
    BY DEF Conn
  <1>2. f # Conn
    BY <1>1
  <1>3. QED
    BY <1>2 DEF Futures

LEMMA PollReturnsKeeps ==
    ASSUME OInv, Unwinds, NEW t \in OriginThreads, NEW f \in Futures, NEW ready \in BOOLEAN,
           PollReturns(t, f, ready)
    PROVE  OInv' /\ Unwinds'
PROOF
  <1>1. /\ Runs(t, f) /\ RestoreContext(t) /\ UNCHANGED <<identity, emitted, unwinding>>
        /\ ready => Completes(f)
        /\ handling' = IF ready /\ f[1] = "req" THEN [handling EXCEPT ![f[2]].pc = "body"] ELSE handling
    BY DEF PollReturns
  <1>2. /\ current[t].id = OwnContext(f) /\ guards[t] # <<>> /\ Carries(current[t])
        /\ t \notin unwinding
    BY <1>1, RunsInOwn DEF Runs
  <1> DEFINE st == IF ready THEN "done" ELSE "idle"
  <1>3. future' = [future EXCEPT ![f] = [st |-> st, ctx |-> current[t]]] /\ st \in FutureState
    BY DEF PollReturns, FutureState
  <1> HIDE DEF st
  <1>4. /\ future' \in [Futures -> [st : FutureState, ctx : Context]] /\ Held'
        /\ \A g \in Futures : Carries(future'[g].ctx)
    BY <1>1, <1>2, <1>3, FutureSet, Zenon
  <1>5. handling' \in [OriginCalls -> Handler] /\ Noted'
    <2>1. CASE ready /\ f[1] = "req"
      <3>1. f[2] \in OriginCalls
        BY <2>1, SecondOfFuture
      <3>2. handling[f[2]].pc = "responded"
        BY <1>1, <2>1 DEF Completes
      <3>3. handling' = [handling EXCEPT ![f[2]].pc = "body"]
        BY <1>1, <2>1
      <3>4. QED
        BY <1>1, <3>1, <3>2, <3>3, HandlerMoves, Zenon
    <2>2. CASE ~(ready /\ f[1] = "req")
      BY <1>1, <2>2, HandlersSame
    <2>3. QED
      BY <2>1, <2>2
  <1>6. OInv'
    BY <1>1, <1>2, <1>4, <1>5, RestoreKeeps, SMTT(20)
  <1>7. Unwinds'
    BY <1>1, <1>2, RestoreUnwinds
  <1>8. QED
    BY <1>6, <1>7

LEMMA LastIsGuard ==
    ASSUME OInv, NEW t \in OriginThreads, guards[t] # <<>>
    PROVE  /\ Last(guards[t]).fut \in Futures /\ Len(guards[t]) \in 1..Len(guards[t])
           /\ Last(guards[t]) = guards[t][Len(guards[t])]
PROOF
  <1> DEFINE gs == guards[t]
  <1>1. gs \in Seq(Guard) /\ gs # <<>>
    BY DEF OInv, OTypes
  <1> HIDE DEF gs
  <1>2. Last(gs) = gs[Len(gs)] /\ Last(gs) \in Guard /\ Len(gs) \in Nat /\ Len(gs) >= 1
    BY <1>1, PopFacts, Zenon
  <1>3. Last(gs).fut \in Futures /\ Len(gs) \in 1..Len(gs)
    BY <1>2 DEF Guard
  <1>4. QED
    BY <1>2, <1>3, Zenon DEF gs

\* A guard is released and its future is not used again.
LEMMA ReleaseKeeps ==
    ASSUME OInv, Unwinds, NEW t \in OriginThreads, guards[t] # <<>>, RestoreContext(t),
           NEW st \in FutureState \ {"idle"},
           future' = [future EXCEPT ![Last(guards[t]).fut].st = st],
           \/ t \notin unwinding /\ UNCHANGED unwinding
           \/ unwinding' = IF Len(guards[t]) = 1 THEN unwinding \ {t} ELSE unwinding,
           UNCHANGED <<identity, handling, emitted>>
    PROVE  OInv' /\ Unwinds'
PROOF
  <1>1. /\ future' \in [Futures -> [st : FutureState, ctx : Context]] /\ Held'
        /\ \A g \in Futures : Carries(future'[g].ctx)
    BY LastIsGuard, FutureMoved, Zenon
  <1>2. handling' \in [OriginCalls -> Handler] /\ Noted'
    BY HandlersSame
  <1>3. OInv'
    BY <1>1, <1>2, RestoreKeeps
  <1>4. Unwinds'
    BY RestoreUnwinds
  <1>5. QED
    BY <1>3, <1>4, SMTT(20)

LEMMA UnwindReleases ==
    ASSUME OInv, Unwinds, NEW t \in OriginThreads, Unwind(t)
    PROVE  OInv' /\ Unwinds'
PROOF
  <1>1. /\ guards[t] # <<>> /\ RestoreContext(t) /\ "panicked" \in FutureState \ {"idle"}
        /\ future' = [future EXCEPT ![Last(guards[t]).fut].st = "panicked"]
        /\ unwinding' = IF Len(guards[t]) = 1 THEN unwinding \ {t} ELSE unwinding
        /\ UNCHANGED <<identity, handling, emitted>>
    BY DEF Unwind, Unwinds, FutureState
  <1>2. QED
    BY <1>1, ReleaseKeeps, Zenon

LEMMA DropReturnsKeeps ==
    ASSUME OInv, Unwinds, NEW t \in OriginThreads, NEW f \in Futures, DropReturns(t, f)
    PROVE  OInv' /\ Unwinds'
PROOF
  <1>1. /\ guards[t] # <<>> /\ RestoreContext(t) /\ "dropped" \in FutureState \ {"idle"}
        /\ Last(guards[t]).fut = f /\ Last(guards[t]).kind = "drop"
        /\ future' = [future EXCEPT ![f].st = "dropped"]
        /\ UNCHANGED <<identity, handling, emitted, unwinding>>
    BY DEF DropReturns, FutureState
  <1>2. t \notin unwinding
    <2>1. /\ \A n \in 1..Len(guards[t]) : guards[t][n].kind = guards[t][1].kind
          /\ t \in unwinding => guards[t][1].kind = "poll"
      BY DEF Unwinds
    <2>2. Len(guards[t]) \in 1..Len(guards[t]) /\ guards[t][Len(guards[t])].kind = "drop"
      BY <1>1, LastIsGuard
    <2>3. guards[t][1].kind = "drop"
      BY <2>1, <2>2, Zenon
    <2>4. QED
      BY <2>1, <2>3
  <1>3. QED
    BY <1>1, <1>2, ReleaseKeeps, Zenon

LEMMA StillUnwinds ==
    ASSUME Unwinds, UNCHANGED <<guards, unwinding>>
    PROVE  Unwinds'
PROOF BY DEF Unwinds

LEMMA HandlerPanicsKeeps ==
    ASSUME OInv, Unwinds, NEW t \in OriginThreads, NEW f \in Futures, HandlerPanics(t, f)
    PROVE  OInv' /\ Unwinds'
PROOF
  <1>1. /\ Runs(t, f) /\ unwinding' = unwinding \cup {t}
        /\ UNCHANGED <<identity, current, guards, future, handling, emitted>>
    BY DEF HandlerPanics
  <1>2. OInv'
    <2>1. EventsAttributed' /\ emitted' \in Seq(Event)
      BY <1>1, Zenon DEF OInv, OTypes, EventsAttributed
    <2>2. QED
      BY <1>1, <2>1, HandlersSame, FuturesSame, CallKeeps, SMTT(20)
  <1>3. guards[t] # <<>> /\ guards[t][1].kind = "poll"
    <2>1. guards[t] # <<>> /\ Last(guards[t]).kind = "poll"
      BY <1>1 DEF Runs
    <2>2. QED
      BY <2>1, LastIsGuard DEF Unwinds
  <1>4. Unwinds'
    BY <1>1, <1>3 DEF Unwinds
  <1>5. QED
    BY <1>2, <1>4

\* The futures of a call and the contexts their code is to see.
LEMMA CallFutures ==
    ASSUME NEW r \in OriginCalls
    PROVE  /\ <<"http", r>> \in Futures /\ OwnContext(<<"http", r>>) = ConnContext.id
           /\ <<"req", r>> \in Futures /\ OwnContext(<<"req", r>>) = <<"req", r>>
           /\ <<"hash", r>> \in Futures /\ OwnContext(<<"hash", r>>) = <<"hash", r>>
           /\ <<"task", r>> \in Futures /\ OwnContext(<<"task", r>>) = <<"hash", r>>
           /\ OwnContext(Conn) = ConnContext.id
PROOF
  <1>1. ConnContext.id = <<"conn">>
    BY DEF ConnContext, NoContext
  <1>2. QED
    BY <1>1 DEF Futures, OwnContext, Conn

LEMMA ArrivesKeeps ==
    ASSUME OInv, Unwinds, NEW t \in OriginThreads, NEW r \in OriginCalls, Arrives(t, r)
    PROVE  OInv' /\ Unwinds'
PROOF
  <1>1. /\ Runs(t, Conn) /\ UNCHANGED <<identity, current, guards, handling, emitted, unwinding>>
        /\ future' = [future EXCEPT ![<<"http", r>>] = [st |-> "idle", ctx |-> current[t]]]
    BY DEF Arrives
  <1>2. current[t].id = ConnContext.id /\ Carries(current[t])
    BY <1>1, RunsInOwn, CallFutures, Zenon
  <1>3. /\ future' \in [Futures -> [st : FutureState, ctx : Context]] /\ Held'
        /\ \A g \in Futures : Carries(future'[g].ctx)
    BY <1>1, <1>2, CallFutures, FutureSet, Zenon DEF FutureState
  <1>4. EventsAttributed' /\ emitted' \in Seq(Event)
    BY <1>1, Zenon DEF OInv, OTypes, EventsAttributed
  <1>5. QED
    BY <1>1, <1>3, <1>4, HandlersSame, CallKeeps, StillUnwinds, SMTT(20)

\* A context made for the call r, with the identity of its caller, is its own.
LEMMA MadeCarries ==
    ASSUME NEW r \in OriginCalls, NEW c \in Context, NEW name \in {"req", "hash"},
           c.id = <<name, r>>, c.collector = identity[r]
    PROVE  Carries(c)
PROOF
  <1>1. ASSUME NEW q \in OriginCalls, c.id \in {<<"req", q>>, <<"hash", q>>} PROVE q = r
    BY <1>1
  <1>2. QED
    BY <1>1 DEF Carries

LEMMA MiddlewareKeeps ==
    ASSUME OInv, Unwinds, NEW t \in OriginThreads, NEW r \in OriginCalls, Middleware(t, r)
    PROVE  OInv' /\ Unwinds'
PROOF
  <1>1. /\ Runs(t, <<"http", r>>) /\ handling[r].pc = "start"
        /\ UNCHANGED <<identity, current, guards, emitted, unwinding>>
    BY Zenon DEF Middleware
  <1>2. EventsAttributed' /\ emitted' \in Seq(Event)
    BY <1>1, Zenon DEF OInv, OTypes, EventsAttributed
  <1>3. CASE identity[r] = "" /\ HeaderRequired
    <2>1. handling' = [handling EXCEPT ![r].pc = "rejected"] /\ UNCHANGED future
      BY <1>3, Zenon DEF Middleware
    <2>2. handling' \in [OriginCalls -> Handler] /\ Noted'
      BY <1>1, <2>1, HandlerMoves, Zenon
    <2>3. QED
      BY <1>1, <1>2, <2>1, <2>2, FuturesSame, CallKeeps, StillUnwinds, SMTT(20)
  <1>4. CASE ~(identity[r] = "" /\ HeaderRequired)
    <2> DEFINE c == [current[t] EXCEPT !.id = <<"req", r>>, !.identity = identity[r],
                                       !.collector = identity[r]]
    <2>1. /\ handling' = [handling EXCEPT ![r].pc = "asked"]
          /\ future' = [future EXCEPT ![<<"req", r>>] = [st |-> "idle", ctx |-> c]]
      BY <1>4, Zenon DEF Middleware
    <2>2. current[t] \in Context /\ identity[r] \in Said
      BY Zenon DEF OInv, OTypes, Said
    <2>3. c \in Context /\ c.id = <<"req", r>> /\ c.collector = identity[r]
      BY <2>2, Zenon DEF Context, Ids
    <2> HIDE DEF c
    <2>4. Carries(c)
      BY <2>3, MadeCarries
    <2>5. /\ future' \in [Futures -> [st : FutureState, ctx : Context]] /\ Held'
          /\ \A g \in Futures : Carries(future'[g].ctx)
      BY <1>1, <2>1, <2>3, <2>4, CallFutures, FutureSet, Zenon DEF FutureState
    <2>6. "asked" = "asked" /\ HeaderRequired => identity[r] # ""
      BY <1>4, Zenon
    <2>7. handling' \in [OriginCalls -> Handler] /\ Noted'
      BY <1>1, <2>1, <2>6, HandlerMoves, Zenon
    <2>8. QED
      BY <1>1, <1>2, <2>5, <2>7, CallKeeps, StillUnwinds, SMTT(20)
  <1>5. QED
    BY <1>3, <1>4, Zenon

LEMMA HashContextKeeps ==
    ASSUME OInv, Unwinds, NEW t \in OriginThreads, NEW r \in OriginCalls, HashContext(t, r)
    PROVE  OInv' /\ Unwinds'
PROOF
  <1>1. /\ Runs(t, <<"req", r>>) /\ handling[r].pc = "noted"
        /\ UNCHANGED <<identity, current, guards, emitted, unwinding>>
    BY SMTT(20) DEF HashContext
  <1>2. EventsAttributed' /\ emitted' \in Seq(Event)
    BY <1>1, Zenon DEF OInv, OTypes, EventsAttributed
  <1>3. CASE MethodOf[r] = "WaitExecution"
    <2>1. handling' = [handling EXCEPT ![r].pc = "answered"] /\ UNCHANGED future
      BY <1>3 DEF HashContext
    <2>2. handling' \in [OriginCalls -> Handler] /\ Noted'
      BY <1>1, <2>1, HandlerMoves, Zenon
    <2>3. QED
      BY <1>1, <1>2, <2>1, <2>2, FuturesSame, CallKeeps, StillUnwinds, SMTT(20)
  <1>4. CASE MethodOf[r] # "WaitExecution"
    <2> DEFINE c == [current[t] EXCEPT !.id = <<"hash", r>>, !.hash = TRUE]
    <2>1. /\ handling' = [handling EXCEPT ![r].pc = "working"]
          /\ future' = [future EXCEPT ![<<"hash", r>>] = [st |-> "idle", ctx |-> c]]
      BY <1>4, SMTT(20) DEF HashContext
    <2>2. /\ current[t] \in Context /\ current[t].id = <<"req", r>>
          /\ Carries(current[t])
      BY <1>1, RunsInOwn, CallFutures, Zenon DEF OInv, OTypes
    <2>3. current[t].collector = identity[r]
      BY <2>2 DEF Carries
    <2>4. c \in Context /\ c.id = <<"hash", r>> /\ c.collector = identity[r]
      BY <2>2, <2>3, Zenon DEF Context, Ids
    <2> HIDE DEF c
    <2>5. Carries(c)
      BY <2>4, MadeCarries
    <2>6. /\ future' \in [Futures -> [st : FutureState, ctx : Context]] /\ Held'
          /\ \A g \in Futures : Carries(future'[g].ctx)
      BY <1>1, <2>1, <2>4, <2>5, CallFutures, FutureSet, Zenon DEF FutureState
    <2>7. handling' \in [OriginCalls -> Handler] /\ Noted'
      BY <1>1, <2>1, HandlerMoves, Zenon
    <2>8. QED
      BY <1>1, <1>2, <2>6, <2>7, CallKeeps, StillUnwinds, SMTT(20)
  <1>5. QED
    BY <1>3, <1>4

LEMMA InnerCallKeeps ==
    ASSUME OInv, Unwinds, NEW t \in OriginThreads, NEW r \in OriginCalls, InnerCall(t, r)
    PROVE  OInv' /\ Unwinds'
PROOF
  <1>1. /\ Runs(t, <<"hash", r>>) /\ handling[r].pc = "working"
        /\ UNCHANGED <<identity, current, guards, emitted, unwinding>>
        /\ handling' = [handling EXCEPT ![r].pc = "answered"]
        /\ future' = [future EXCEPT ![<<"task", r>>] = [st |-> "idle", ctx |-> current[t]]]
    BY DEF InnerCall
  <1>2. EventsAttributed' /\ emitted' \in Seq(Event)
    BY <1>1, Zenon DEF OInv, OTypes, EventsAttributed
  <1>3. current[t].id = <<"hash", r>> /\ Carries(current[t])
    BY <1>1, RunsInOwn, CallFutures, Zenon
  <1>4. /\ future' \in [Futures -> [st : FutureState, ctx : Context]] /\ Held'
        /\ \A g \in Futures : Carries(future'[g].ctx)
    BY <1>1, <1>3, CallFutures, FutureSet, Zenon DEF FutureState
  <1>5. handling' \in [OriginCalls -> Handler] /\ Noted'
    BY <1>1, HandlerMoves, Zenon
  <1>6. QED
    BY <1>1, <1>2, <1>4, <1>5, CallKeeps, StillUnwinds, SMTT(20)

\* A handler emits an event and goes on, knowing the first one.
LEMMA EmitKeeps ==
    ASSUME OInv, Unwinds, UNCHANGED <<identity, current, guards, future, unwinding>>,
           NEW r \in OriginCalls, NEW c, NEW p \in Nat, NEW class \in {"request", "response", "stream"},
           SendOriginEvent(r, c, p, class), Attributable(r, c, p),
           NEW h \in Handler, handling' = [handling EXCEPT ![r] = h],
           h.pc \notin {"start", "rejected", "asked"}, h.collector = identity[r],
           h.parent = IF p = 0 THEN Len(emitted') ELSE p
    PROVE  OInv' /\ Unwinds'
PROOF
  <1>0. handling \in [OriginCalls -> Handler]
    BY DEF OInv, OTypes
  <1>1. /\ handling' \in [OriginCalls -> Handler] /\ handling'[r] = h
        /\ \A q \in OriginCalls \ {r} : handling'[q] = handling[q]
    BY <1>0, Zenon
  <1>2. /\ emitted' \in Seq(Event) /\ Len(emitted') = Len(emitted) + 1 /\ Len(emitted) \in Nat
        /\ \A i \in 1..Len(emitted) : emitted'[i] = emitted[i]
        /\ emitted'[Len(emitted')].of = r /\ emitted'[Len(emitted')].parent = p
        /\ EventsAttributed'
    BY SentFacts
  <1>3. HeaderRequired => identity[r] # ""
    BY Zenon DEF Attributable
  <1>4. /\ h.parent \in 1..Len(emitted')
        /\ emitted'[h.parent].of = r /\ emitted'[h.parent].parent = 0
    <2>1. CASE p = 0
      <3>1. h.parent = Len(emitted') /\ Len(emitted') \in 1..Len(emitted')
        BY <1>2, <2>1
      <3>2. QED
        BY <1>2, <2>1, <3>1, Zenon
    <2>2. CASE p # 0
      <3>1. p \in 1..Len(emitted) /\ emitted[p].of = r /\ emitted[p].parent = 0
        BY <2>2, Zenon DEF Attributable
      <3>2. p \in 1..Len(emitted') /\ h.parent = p
        BY <1>2, <2>2, <3>1
      <3>3. QED
        BY <1>2, <3>1, <3>2, Zenon
    <2>3. QED
      BY <2>1, <2>2
  <1>5. NotedOf(r)'
    BY <1>1, <1>3, <1>4, Zenon DEF NotedOf
  <1>6. Noted'
    BY <1>1, <1>2, <1>5, NotedKeeps, Zenon
  <1>7. QED
    BY <1>1, <1>2, <1>6, FuturesSame, CallKeeps, StillUnwinds, SMTT(20)

LEMMA NewEventContextKeeps ==
    ASSUME OInv, Unwinds, NEW t \in OriginThreads, NEW r \in OriginCalls, NewEventContext(t, r)
    PROVE  OInv' /\ Unwinds'
PROOF
  <1> DEFINE c == current[t].collector
             class == EventClass(MethodOf[r], "request")
             n == Len(emitted')
             h == [handling[r] EXCEPT !.pc = "noted", !.collector = c, !.parent = n]
  <1>1. /\ Runs(t, <<"req", r>>) /\ handling[r].pc = "asked"
        /\ SendOriginEvent(r, c, 0, class)
        /\ UNCHANGED <<identity, current, guards, future, unwinding>>
        /\ handling' = [handling EXCEPT ![r] = h]
    BY Zenon DEF NewEventContext
  <1>2. class \in {"request", "response", "stream"}
    BY DEF EventClass
  <1>3. current[t].id = <<"req", r>> /\ Carries(current[t]) /\ handling[r] \in Handler
    BY <1>1, RunsInOwn, CallFutures, Zenon DEF OInv, OTypes
  <1>4. c = identity[r] /\ c \in Said
    BY <1>3 DEF Carries, Context
  <1>5. NotedOf(r)
    BY DEF OInv, Noted
  <1>6. (\A i \in 1..Len(emitted) : emitted[i].of # r) /\ (HeaderRequired => identity[r] # "")
    BY <1>1, <1>5, Zenon DEF NotedOf
  <1>7. n \in Nat
    BY <1>1 DEF SendOriginEvent, OInv, OTypes
  <1> HIDE DEF n, c, class
  <1>8. /\ h \in Handler /\ h.pc = "noted" /\ h.collector = identity[r] /\ h.parent = n
    BY <1>3, <1>4, <1>7, Zenon DEF Handler
  <1> HIDE DEF h
  <1>9. Attributable(r, c, 0)
    BY <1>4, <1>6, Zenon DEF Attributable
  <1>10. QED
    BY <1>1, <1>2, <1>8, <1>9, EmitKeeps, Zenon DEF n

\* What the handler of a call that was noted knows of its first event.
LEMMA LaterIsAttributable ==
    ASSUME OInv, NEW r \in OriginCalls, handling[r].pc \notin {"start", "rejected", "asked"}
    PROVE  /\ Attributable(r, handling[r].collector, handling[r].parent)
           /\ handling[r].parent \in Nat \ {0} /\ handling[r].collector = identity[r]
           /\ handling[r] \in Handler
PROOF
  <1>1. NotedOf(r)
    BY DEF OInv, Noted
  <1>2. /\ handling[r].parent \in 1..Len(emitted)
        /\ emitted[handling[r].parent].of = r /\ emitted[handling[r].parent].parent = 0
        /\ handling[r].collector = identity[r]
        /\ HeaderRequired => identity[r] # ""
    BY <1>1, Zenon DEF NotedOf
  <1>3. handling[r].parent \in Nat \ {0}
    <2>1. handling[r].parent \in 1..Len(emitted) /\ emitted \in Seq(Event)
      BY <1>2, Zenon DEF OInv, OTypes
    <2>2. QED
      BY <2>1
  <1>4. handling[r] \in Handler
    BY DEF OInv, OTypes
  <1>5. handling[r].parent # 0
    BY <1>3
  <1>6. Attributable(r, handling[r].collector, handling[r].parent)
    BY <1>2, <1>5, Zenon DEF Attributable
  <1>7. QED
    BY <1>2, <1>3, <1>4, <1>6, Zenon

LEMMA EmitResponseKeeps ==
    ASSUME OInv, Unwinds, NEW t \in OriginThreads, NEW r \in OriginCalls, EmitResponse(t, r)
    PROVE  OInv' /\ Unwinds'
PROOF
  <1>1. /\ handling[r].pc = "answered"
        /\ UNCHANGED <<identity, current, guards, future, unwinding>>
        /\ handling' = [handling EXCEPT ![r].pc = "responded"]
    BY DEF EmitResponse
  <1>2. CASE MethodOf[r] = "WaitExecution"
    <2>1. UNCHANGED emitted
      BY <1>2 DEF EmitResponse
    <2>2. EventsAttributed' /\ emitted' \in Seq(Event)
      BY <1>1, <2>1, Zenon DEF OInv, OTypes, EventsAttributed
    <2>3. handling' \in [OriginCalls -> Handler] /\ Noted'
      BY <1>1, <2>1, HandlerMoves, Zenon
    <2>4. QED
      BY <1>1, <2>2, <2>3, FuturesSame, CallKeeps, StillUnwinds, SMTT(20)
  <1>3. CASE MethodOf[r] # "WaitExecution"
    <2> DEFINE h == [handling[r] EXCEPT !.pc = "responded"]
    <2>1. SendOriginEvent(r, handling[r].collector, handling[r].parent, "response")
      BY <1>3 DEF EmitResponse, Collector
    <2>2. /\ Attributable(r, handling[r].collector, handling[r].parent)
          /\ handling[r].parent \in Nat \ {0} /\ handling[r].collector = identity[r]
          /\ handling[r] \in Handler
      BY <1>1, LaterIsAttributable
    <2>3. /\ h \in Handler /\ h.pc = "responded" /\ h.collector = identity[r]
          /\ h.parent = handling[r].parent
      BY <2>2 DEF Handler
    <2>4. handling' = [handling EXCEPT ![r] = h]
      BY <1>1
    <2> HIDE DEF h
    <2>5. QED
      BY <1>1, <2>1, <2>2, <2>3, <2>4, EmitKeeps, Zenon
  <1>4. QED
    BY <1>2, <1>3

LEMMA EmitItemKeeps ==
    ASSUME OInv, Unwinds, NEW t \in OriginThreads, NEW r \in OriginCalls, EmitItem(t, r)
    PROVE  OInv' /\ Unwinds'
PROOF
  <1> DEFINE h == [handling[r] EXCEPT !.item = TRUE]
  <1>1. /\ handling[r].pc \in {"working", "body"}
        /\ UNCHANGED <<identity, current, guards, future, unwinding>>
        /\ handling' = [handling EXCEPT ![r] = h]
        /\ SendOriginEvent(r, handling[r].collector, handling[r].parent, "stream")
    BY DEF EmitItem, Collector
  <1>2. /\ Attributable(r, handling[r].collector, handling[r].parent)
        /\ handling[r].parent \in Nat \ {0} /\ handling[r].collector = identity[r]
        /\ handling[r] \in Handler
    BY <1>1, LaterIsAttributable
  <1>3. /\ h \in Handler /\ h.pc \in {"working", "body"} /\ h.collector = identity[r]
        /\ h.parent = handling[r].parent
    BY <1>1, <1>2, Zenon DEF Handler
  <1> HIDE DEF h
  <1>4. QED
    BY <1>1, <1>2, <1>3, EmitKeeps, Zenon

LEMMA TakeEventKeeps ==
    ASSUME OInv, Unwinds, TakeEvent \/ UNCHANGED originVars
    PROVE  OInv' /\ Unwinds'
PROOF
  <1>1. UNCHANGED <<identity, current, guards, future, handling, emitted, unwinding>>
    BY DEF TakeEvent, originVars
  <1>2. EventsAttributed' /\ emitted' \in Seq(Event)
    BY <1>1, Zenon DEF OInv, OTypes, EventsAttributed
  <1>3. QED
    BY <1>1, <1>2, HandlersSame, FuturesSame, CallKeeps, StillUnwinds

LEMMA OriginInitInv ==
    ASSUME OriginInit
    PROVE  OInv /\ Unwinds
PROOF
  <1>1. /\ current = [t \in OriginThreads |-> NoContext] /\ guards = [t \in OriginThreads |-> <<>>]
        /\ emitted = <<>> /\ unwinding = {}
        /\ future = [f \in Futures |-> IF f = Conn THEN [st |-> "idle", ctx |-> ConnContext] ELSE NotMade]
        /\ handling = [r \in OriginCalls |-> [pc |-> "start", collector |-> "", parent |-> 0, item |-> FALSE]]
    BY Zenon DEF OriginInit
  <1>2. Carries(NoContext) /\ Carries(ConnContext) /\ NoContext \in Context /\ ConnContext \in Context
    BY NoContextCarries DEF Carries
  <1>3. \A t \in OriginThreads : /\ guards[t] = <<>> /\ Len(guards[t]) = 0 /\ 1..Len(guards[t]) = {}
                                 /\ current[t] = NoContext
    <2>1. \A t \in OriginThreads : guards[t] = <<>> /\ current[t] = NoContext
      BY <1>1, Zenon
    <2>2. Len(<<>>) = 0 /\ 1..0 = {}
      BY EmptySeq
    <2>3. QED
      BY <2>1, <2>2, Zenon
  <1>4. OTypes
    <2>0. <<>> \in Seq(Guard) /\ <<>> \in Seq(Event)
      BY EmptySeq, Zenon
    <2>1. current \in [OriginThreads -> Context] /\ guards \in [OriginThreads -> Seq(Guard)]
          /\ emitted \in Seq(Event)
      BY <1>1, <1>2, <2>0, Zenon
    <2>2. [pc |-> "start", collector |-> "", parent |-> 0, item |-> FALSE] \in Handler
      BY DEF Handler, Said
    <2>3. handling \in [OriginCalls -> Handler]
      BY <1>1, <2>2, Zenon
    <2>4. /\ [st |-> "idle", ctx |-> ConnContext] \in [st : FutureState, ctx : Context]
          /\ NotMade \in [st : FutureState, ctx : Context]
      BY <1>2 DEF FutureState, NotMade
    <2>5. future \in [Futures -> [st : FutureState, ctx : Context]]
      BY <1>1, <2>4, Zenon
    <2>6. QED
      BY <2>1, <2>3, <2>5 DEF OTypes
  <1>5. Stacked
    <2>1. \A t \in OriginThreads : InnermostOf(guards[t], Len(guards[t]), current[t].id)
      BY <1>3, Zenon DEF InnermostOf
    <2>2. QED
      BY <1>3, <2>1, Zenon DEF Stacked
  <1>6. \A f \in Futures : future[f].ctx \in {NoContext, ConnContext} /\
          (f = Conn => future[f].ctx = ConnContext) /\
          (f # Conn => future[f].ctx = NoContext /\ future[f].st = "none")
    <2>1. /\ [st |-> "idle", ctx |-> ConnContext].ctx = ConnContext
          /\ NotMade.ctx = NoContext /\ NotMade.st = "none"
      BY DEF NotMade
    <2>2. \A f \in Futures : future[f] = IF f = Conn THEN [st |-> "idle", ctx |-> ConnContext] ELSE NotMade
      BY <1>1, Zenon
    <2>3. QED
      BY <2>1, <2>2, Zenon
  <1>7. OwnContext(Conn) = ConnContext.id
    BY DEF OwnContext, Conn, ConnContext, NoContext
  <1>8. Held
    <2>1. "none" # "idle"
      OBVIOUS
    <2>2. QED
      BY <1>6, <1>7, <2>1, Zenon DEF Held
  <1>9. AllCarry
    BY <1>2, <1>3, <1>6, Zenon DEF AllCarry
  <1>10. Noted /\ EventsAttributed
    <2>0. emitted = <<>>
      BY <1>1, Zenon
    <2>1. DOMAIN emitted = {} /\ 1..Len(emitted) = {}
      BY <2>0
    <2>2. [pc |-> "start", collector |-> "", parent |-> 0, item |-> FALSE].pc = "start"
      OBVIOUS
    <2>3. \A r \in OriginCalls : handling[r].pc = "start"
      BY <1>1, <2>2, Zenon
    <2>4. "start" # "asked"
      OBVIOUS
    <2>5. QED
      BY <2>1, <2>3, <2>4, Zenon DEF Noted, NotedOf, EventsAttributed
  <1>11. Unwinds
    BY <1>1, <1>3, Zenon DEF Unwinds
  <1>12. QED
    BY <1>4, <1>5, <1>8, <1>9, <1>10, <1>11, SMTT(20) DEF OInv

LEMMA OriginKeeps ==
    ASSUME OInv, Unwinds, [OriginNext]_originVars
    PROVE  OInv' /\ Unwinds'
PROOF
  <1>1. ASSUME NEW t \in OriginThreads, NEW f \in Futures,
               \/ PollFuture(t, f) \/ HandlerPanics(t, f) \/ DropFuture(t, f) \/ DropReturns(t, f)
               \/ \E ready \in BOOLEAN : PollReturns(t, f, ready)
        PROVE  OInv' /\ Unwinds'
    BY <1>1, PollFutureKeeps, HandlerPanicsKeeps, DropReturnsKeeps, PollReturnsKeeps, SMTT(20)
  <1>2. ASSUME NEW t \in OriginThreads, Unwind(t) PROVE OInv' /\ Unwinds'
    BY <1>2, UnwindReleases
  <1>3. ASSUME NEW t \in OriginThreads, NEW r \in OriginCalls,
               \/ Arrives(t, r) \/ Middleware(t, r) \/ NewEventContext(t, r) \/ HashContext(t, r)
               \/ InnerCall(t, r) \/ EmitResponse(t, r) \/ EmitItem(t, r)
        PROVE  OInv' /\ Unwinds'
    BY <1>3, ArrivesKeeps, MiddlewareKeeps, NewEventContextKeeps, HashContextKeeps, InnerCallKeeps,
       EmitResponseKeeps, EmitItemKeeps, SMTT(20)
  <1>4. QED
    BY <1>1, <1>2, <1>3, TakeEventKeeps, SMTT(20) DEF OriginNext

\* restore_global_context and ContextDropGuard keep the calls apart: the active
\* context of a thread is that of the innermost future it polls or drops, after
\* panics, moves between threads and drops halfway.
THEOREM ContextsStayInPlace == OriginSpec => []ContextsInPlace
PROOF
  <1>1. OInv => ContextsInPlace
    BY DEF OInv, Stacked, Held, ContextsInPlace
  <1>2. OriginInit => OInv /\ Unwinds
    BY OriginInitInv
  <1>3. (OInv /\ Unwinds) /\ [OriginNext]_originVars => (OInv /\ Unwinds)'
    BY OriginKeeps, SMTT(20)
  <1>4. QED
    BY <1>1, <1>2, <1>3, PTL DEF OriginSpec

\* The event collector: an origin event names the caller of the call it is about
\* and its first event as the parent.
THEOREM EventsStayAttributed == OriginSpec => []EventsAttributed
PROOF
  <1>1. OInv => EventsAttributed
    BY DEF OInv
  <1>2. OriginInit => OInv /\ Unwinds
    BY OriginInitInv
  <1>3. (OInv /\ Unwinds) /\ [OriginNext]_originVars => (OInv /\ Unwinds)'
    BY OriginKeeps
  <1>4. QED
    BY <1>1, <1>2, <1>3, PTL DEF OriginSpec
=============================================================================
