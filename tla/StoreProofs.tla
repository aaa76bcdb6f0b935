------------------------------ MODULE StoreProofs ------------------------------
(***************************************************************************)
(* Proofs about the stores whose threads and futures race for one piece of *)
(* state: the cell of a RefStore, the queue of digests of a                *)
(* CompletenessCheckingStore, and the channels of a VerifyStore.           *)
(***************************************************************************)
EXTENDS StoreRouting, CheckingStores, SequenceTheorems, TLAPS

-----------------------------------------------------------------------------
(***************************************************************************)
(* RefStore                                                                *)
(***************************************************************************)
\* What makes it safe: once the store was returned both words are set, and they
\* stay so; who is about to write one word has the store and set the other.
CellInv ==
    /\ cell \in [{"data", "vtable"} -> {"unset", "set"}]
    /\ thread \in [Threads -> {"idle", "lock", "find", "write", "data", "vtable"}]
    /\ gotStore \in [Threads -> {"none", "store", "torn", "error"}]
    /\ first => cell["data"] = "set" /\ cell["vtable"] = "set"
    /\ cell["data"] = "set" => manager
    /\ \A t \in Threads :
          /\ thread[t] \in {"write", "data", "vtable"} => manager
          /\ thread[t] = "data" => cell["vtable"] = "set"
          /\ thread[t] = "vtable" => cell["data"] = "set"

LEMMA CellInitially == RefInit => CellInv
PROOF
  <1> SUFFICES ASSUME RefInit PROVE CellInv
    OBVIOUS
  <1>1. cell \in [{"data", "vtable"} -> {"unset", "set"}] /\ cell["data"] = "unset"
    BY DEF RefInit
  <1>2. QED
    BY <1>1 DEF RefInit, CellInv

LEMMA CellStep ==
    ASSUME CellInv, [RefNext]_refVars
    PROVE  /\ CellInv'
           /\ \A t \in Threads : first /\ gotStore'[t] # gotStore[t] => gotStore'[t] = "store"
PROOF
  <1> USE DEF CellInv
  <1>1. CASE UNCHANGED refVars
    BY <1>1 DEF refVars
  <1>2. CASE AddStore
    BY <1>2 DEF AddStore
  <1>3. ASSUME NEW t \in Threads, ReadCell(t)
        PROVE  /\ CellInv'
               /\ \A v \in Threads : first /\ gotStore'[v] # gotStore[v] => gotStore'[v] = "store"
    <2>1. CASE cell["data"] = "set"
      BY <1>3, <2>1, Zenon DEF ReadCell, ReturnsStore, GotoStep
    <2>2. CASE cell["data"] # "set"
      BY <1>3, <2>2 DEF ReadCell, ReturnsStore, GotoStep
    <2>3. QED
      BY <2>1, <2>2
  <1>4. ASSUME NEW t \in Threads, LockMux(t)
        PROVE  /\ CellInv'
               /\ \A v \in Threads : first /\ gotStore'[v] # gotStore[v] => gotStore'[v] = "store"
    BY <1>4 DEF LockMux, GotoStep
  <1>5. ASSUME NEW t \in Threads, FindStore(t)
        PROVE  /\ CellInv'
               /\ \A v \in Threads : first /\ gotStore'[v] # gotStore[v] => gotStore'[v] = "store"
    BY <1>5 DEF FindStore, ReturnsStore, GotoStep
  <1>6. ASSUME NEW t \in Threads, NEW word \in DOMAIN cell, WriteFirst(t, word)
        PROVE  /\ CellInv'
               /\ \A v \in Threads : first /\ gotStore'[v] # gotStore[v] => gotStore'[v] = "store"
    <2>1. /\ word \in {"data", "vtable"} /\ cell'[word] = "set"
          /\ cell' \in [{"data", "vtable"} -> {"unset", "set"}]
          /\ \A w \in {"data", "vtable"} : cell[w] = "set" => cell'[w] = "set"
      BY <1>6 DEF WriteFirst, WriteWord
    <2>2. QED
      BY <1>6, <2>1 DEF WriteFirst, GotoStep
  <1>7. ASSUME NEW t \in Threads, WriteSecond(t)
        PROVE  /\ CellInv'
               /\ \A v \in Threads : first /\ gotStore'[v] # gotStore[v] => gotStore'[v] = "store"
    <2>1. /\ cell' \in [{"data", "vtable"} -> {"unset", "set"}]
          /\ cell'["data"] = "set" /\ cell'["vtable"] = "set"
      BY <1>7 DEF WriteSecond
    <2>2. QED
      BY <1>7, <2>1 DEF WriteSecond, ReturnsStore, GotoStep
  <1>8. QED
    BY <1>1, <1>2, <1>3, <1>4, <1>5, <1>6, <1>7, SMTT(20) DEF RefNext

\* For any number of threads: once a call of RefStore::get_store returned the
\* store every later call returns it, whole.
THEOREM SafeOnceFound == RefSpec => SafeAfterFirst
PROOF
  <1>1. RefInit => CellInv
    BY CellInitially
  <1>2. CellInv /\ [RefNext]_refVars => CellInv'
    BY CellStep
  <1>3. CellInv /\ [RefNext]_refVars =>
            [\A t \in Threads : first /\ gotStore'[t] # gotStore[t] => gotStore'[t] = "store"]_refVars
    BY CellStep
  <1>4. QED
    BY <1>1, <1>2, <1>3, PTL DEF RefSpec, SafeAfterFirst

-----------------------------------------------------------------------------
(***************************************************************************)
(* CompletenessCheckingStore                                               *)
(***************************************************************************)
\* What the future of a key has seen of its action result while it still has
\* the trees `left` to fetch.
Seen(r, left) == r.files \cup (r.trees \ left) \cup UNION {TreeFiles[t] : t \in r.trees \ left}

\* The digests on their way to the CAS, with the keys they are asked for.
Outstanding == todo \cup checker.batch

TreesOfResults == UNION {r.trees : r \in ActionResults}

CcTypes ==
    /\ ac \in [AcKeys -> SUBSET ActionResults]
    /\ ccCall \in [mode : {"none", "has", "get"}, pc : {"idle", "check", "drain", "serve", "returned", "error"}]
    /\ fut \in [AcKeys -> [pc : {"none", "decode", "trees", "ok", "failed"},
                           left : SUBSET TreesOfResults, entry : SUBSET ActionResults]]
    /\ todo \subseteq AllDigests \X AcKeys
    /\ done \in BOOLEAN
    /\ checker \in [pc : {"wait", "has", "end"}, batch : SUBSET (AllDigests \X AcKeys),
                    missed : SUBSET AcKeys]
    /\ found \in [AcKeys -> BOOLEAN]

\* The stages of the call and of its checker: the checker ends after every future
\* did and with nothing left to ask, and the call returns after the checker.
CcStages ==
    /\ ccCall.pc # "idle" => kept \subseteq cas /\ cas \subseteq ccHeld
    /\ ccCall.pc = "check" => ~done
    /\ ccCall.pc \in {"drain", "serve", "returned"} => done
    /\ ccCall.pc \in {"serve", "returned"} => checker.pc = "end"
    /\ checker.pc = "end" => done /\ todo = {}
    /\ checker.pc # "has" => checker.batch = {} /\ checker.missed = {}
    /\ done => \A k \in AcKeys : fut[k].pc \notin {"decode", "trees"}

\* The state of one key: what its future saw was held or is still being asked for
\* as long as the result counts as found, and once it does not, one of its parts
\* was missing.
CcKey(k) ==
    /\ fut[k].pc \in {"none", "decode"} =>
          fut[k].entry = {} /\ ~found[k] /\ k \notin checker.missed /\ \A x \in Outstanding : x[2] # k
    /\ fut[k].pc = "ok" => fut[k].left = {}
    /\ found[k] => fut[k].pc \in {"trees", "ok"}
    /\ \A r \in fut[k].entry :
          /\ fut[k].left \subseteq r.trees
          /\ \A x \in Outstanding : x[2] = k => x[1] \in ResultParts(r)
          /\ (~found[k] \/ k \in checker.missed) => ~(ResultParts(r) \subseteq kept)
          /\ (found[k] /\ k \notin checker.missed) =>
                \A d \in Seen(r, fut[k].left) : d \in ccHeld \/ <<d, k>> \in Outstanding

CcInv == CcTypes /\ CcStages /\ \A k \in AcKeys : CcKey(k)

-----------------------------------------------------------------------------
\* What a future has seen grows by a tree and its files when it fetched the tree,
\* from the files of the result to all of its parts.
LEMMA SeenFacts ==
    ASSUME NEW r, NEW left, NEW t, left \subseteq r.trees
    PROVE  /\ Seen(r, left) \subseteq ResultParts(r)
           /\ Seen(r, {}) = ResultParts(r)
           /\ Seen(r, r.trees) = r.files
           /\ Seen(r, left \ {t}) \subseteq Seen(r, left) \cup {t} \cup TreeFiles[t]
           /\ t \in r.trees => t \in ResultParts(r) /\ TreeFiles[t] \subseteq ResultParts(r)
PROOF
  <1>1. Seen(r, left) \subseteq ResultParts(r)
    BY DEF Seen, ResultParts
  <1>2. Seen(r, {}) = ResultParts(r)
    <2>1. r.trees \ {} = r.trees
      OBVIOUS
    <2>2. QED
      BY <2>1 DEF Seen, ResultParts
  <1>3. Seen(r, r.trees) = r.files
    BY DEF Seen
  <1>4. Seen(r, left \ {t}) \subseteq Seen(r, left) \cup {t} \cup TreeFiles[t]
    BY DEF Seen
  <1>5. t \in r.trees => t \in ResultParts(r) /\ TreeFiles[t] \subseteq ResultParts(r)
    BY DEF ResultParts
  <1>6. QED
    BY <1>1, <1>2, <1>3, <1>4, <1>5

LEMMA DigestFacts ==
    /\ \A t \in TreeDigests : TreeFiles[t] \subseteq AllDigests
    /\ \A r \in ActionResults : r.files \subseteq AllDigests /\ r.trees \subseteq TreesOfResults
PROOF
  <1>1. \A t \in TreeDigests : TreeFiles[t] \subseteq AllDigests
    BY DEF AllDigests
  <1>2. \A r \in ActionResults : r.files \subseteq AllDigests
    BY DEF AllDigests
  <1>3. \A r \in ActionResults : r.trees \subseteq TreesOfResults
    BY DEF TreesOfResults
  <1>4. QED
    BY <1>1, <1>2, <1>3

\* The digests on their way grow by what a future pushes.
LEMMA OutstandingGrows ==
    ASSUME NEW ds, NEW k, Pushed(ds, k), UNCHANGED checker
    PROVE  /\ Outstanding' = Outstanding \cup {<<d, k>> : d \in ds}
           /\ \A x \in Outstanding' : x \in Outstanding \/ (x[2] = k /\ x[1] \in ds)
           /\ \A d \in ds : <<d, k>> \in Outstanding'
           /\ Outstanding \subseteq Outstanding'
PROOF
  <1>1. Outstanding' = Outstanding \cup {<<d, k>> : d \in ds}
    BY DEF Outstanding, Pushed
  <1>2. QED
    BY <1>1

LEMMA CcInitially == CcInit => CcInv
PROOF
  <1> SUFFICES ASSUME CcInit PROVE CcInv
    OBVIOUS
  <1>1. CcTypes
    <2>1. ac \in [AcKeys -> SUBSET ActionResults]
      BY DEF CcInit
    <2>2. QED
      BY <2>1, Zenon DEF CcInit, CcTypes, NoFuture, NoChecker
  <1>2. CcStages
    BY DEF CcInit, CcStages, NoFuture, NoChecker
  <1>3. ASSUME NEW k \in AcKeys PROVE CcKey(k)
    BY DEF CcInit, CcKey, Outstanding, NoFuture, NoChecker
  <1>4. QED
    BY <1>1, <1>2, <1>3 DEF CcInv

LEMMA StartCallKeeps ==
    ASSUME CcInv, NEW mode \in {"has", "get"}, NEW keys \in (SUBSET AcKeys) \ {{}}, StartCall(mode, keys)
    PROVE  CcInv'
PROOF
  <1>1. CcTypes'
    BY Zenon DEF CcInv, CcTypes, StartCall, NoFuture, NoChecker
  <1>2. CcStages'
    BY DEF CcInv, CcTypes, CcStages, StartCall, NoFuture, NoChecker
  <1>3. ASSUME NEW k \in AcKeys PROVE CcKey(k)'
    BY DEF CcInv, CcTypes, CcStages, CcKey, Outstanding, StartCall, NoFuture, NoChecker
  <1>4. QED
    BY <1>1, <1>2, <1>3 DEF CcInv

LEMMA AllDecodedKeeps ==
    ASSUME CcInv, AllDecoded
    PROVE  CcInv'
PROOF
  <1>1. CcTypes'
    BY DEF CcInv, CcTypes, AllDecoded
  <1>2. CcStages'
    BY DEF CcInv, CcTypes, CcStages, AllDecoded
  <1>3. ASSUME NEW k \in AcKeys PROVE CcKey(k)'
    BY DEF CcInv, CcTypes, CcStages, CcKey, Outstanding, AllDecoded
  <1>4. QED
    BY <1>1, <1>2, <1>3 DEF CcInv

LEMMA CheckerWakesKeeps ==
    ASSUME CcInv, CheckerWakes
    PROVE  CcInv'
PROOF
  <1>1. CcTypes'
    BY DEF CcInv, CcTypes, CheckerWakes
  <1>2. CcStages'
    BY DEF CcInv, CcTypes, CcStages, CheckerWakes
  <1>3. ASSUME NEW k \in AcKeys PROVE CcKey(k)'
    BY DEF CcInv, CcTypes, CcStages, CcKey, Outstanding, CheckerWakes
  <1>4. QED
    BY <1>1, <1>2, <1>3 DEF CcInv

LEMMA CheckerHasKeeps ==
    ASSUME CcInv, NEW y \in checker.batch, CheckerHas(y)
    PROVE  CcInv'
PROOF
  <1>1. CcTypes'
    BY Zenon DEF CcInv, CcTypes, CheckerHas, MissedIndex
  <1>2. CcStages'
    BY DEF CcInv, CcTypes, CcStages, CheckerHas, MissedIndex
  <1>3. ASSUME NEW k \in AcKeys PROVE CcKey(k)'
    BY DEF CcInv, CcTypes, CcStages, CcKey, Outstanding, CheckerHas, MissedIndex
  <1>4. QED
    BY <1>1, <1>2, <1>3 DEF CcInv

LEMMA CheckerMarksKeeps ==
    ASSUME CcInv, CheckerMarks
    PROVE  CcInv'
PROOF
  <1>1. CcTypes'
    BY DEF CcInv, CcTypes, CheckerMarks, Unset, NoChecker
  <1>2. CcStages'
    BY DEF CcInv, CcTypes, CcStages, CheckerMarks, Unset, NoChecker
  <1>3. ASSUME NEW k \in AcKeys PROVE CcKey(k)'
    BY Zenon DEF CcInv, CcTypes, CcStages, CcKey, Outstanding, CheckerMarks, Unset, NoChecker
  <1>4. QED
    BY <1>1, <1>2, <1>3 DEF CcInv

LEMMA CallEndsKeeps ==
    ASSUME CcInv, CheckerFails \/ CheckReturns \/ ServeResult \/ EndCall
    PROVE  CcInv'
PROOF
  <1>1. CcTypes'
    <2>1. CASE EndCall
      BY <2>1, Zenon DEF CcInv, CcTypes, EndCall, NoFuture, NoChecker
    <2>2. CASE CheckerFails \/ CheckReturns \/ ServeResult
      <3>1. /\ UNCHANGED <<ac, fut, todo, done, checker, found>>
            /\ \E pc \in {"serve", "returned", "error"} : ccCall' = [ccCall EXCEPT !.pc = pc]
        BY <2>2 DEF CheckerFails, CheckReturns, ServeResult
      <3>2. QED
        BY <3>1 DEF CcInv, CcTypes
    <2>3. QED
      BY <2>1, <2>2
  <1>2. CcStages'
    BY DEF CcInv, CcTypes, CcStages, CheckerFails, CheckReturns, ServeResult, EndCall, NoFuture, NoChecker
  <1>3. ASSUME NEW k \in AcKeys PROVE CcKey(k)'
    BY DEF CcInv, CcTypes, CcStages, CcKey, Outstanding, CheckerFails, CheckReturns, ServeResult, EndCall, NoFuture, NoChecker
  <1>4. QED
    BY <1>1, <1>2, <1>3 DEF CcInv

LEMMA OthersKeep ==
    ASSUME CcInv,
           \/ \E k \in AcKeys, r \in ActionResults : UpdateResult(k, r)
           \/ \E d \in AllDigests : CasGains(d) \/ CasEvicts(d)
           \/ UNCHANGED ccVars
    PROVE  CcInv'
PROOF
  <1>1. CcTypes'
    BY DEF CcInv, CcTypes, UpdateResult, CasGains, CasEvicts, callVars, ccVars
  <1>2. CcStages'
    BY DEF CcInv, CcTypes, CcStages, UpdateResult, CasGains, CasEvicts, callVars, ccVars
  <1>3. ASSUME NEW k \in AcKeys PROVE CcKey(k)'
    BY DEF CcInv, CcTypes, CcStages, CcKey, Outstanding, UpdateResult, CasGains, CasEvicts, callVars, ccVars
  <1>4. QED
    BY <1>1, <1>2, <1>3 DEF CcInv

\* A future that fails unsets its result; a part of the result it decoded, if it
\* decoded one, was missing.
LEMMA FutureFailsKeeps ==
    ASSUME CcInv, ccCall.pc = "check", NEW j \in AcKeys, FutureFails(j),
           \A r \in fut[j].entry : ~(ResultParts(r) \subseteq kept),
           UNCHANGED <<ac, cas, ccCall, done, checker, ccHeld, kept>>
    PROVE  CcInv'
PROOF
  <1>1. CcTypes'
    BY SMTT(20) DEF CcInv, CcTypes, FutureFails
  <1>2. CcStages'
    BY DEF CcInv, CcTypes, CcStages, FutureFails
  <1>3. ASSUME NEW k \in AcKeys PROVE CcKey(k)'
    <2>1. CASE k = j
      BY <2>1 DEF CcInv, CcTypes, CcKey, Outstanding, FutureFails
    <2>2. CASE k # j
      BY <2>2 DEF CcInv, CcTypes, CcKey, Outstanding, FutureFails
    <2>3. QED
      BY <2>1, <2>2
  <1>4. QED
    BY <1>1, <1>2, <1>3 DEF CcInv

\* A future that decodes its result queues the files.
LEMMA DecodeKeeps ==
    ASSUME CcInv, NEW j \in AcKeys, DecodeResult(j)
    PROVE  CcInv'
PROOF
  <1>1. CASE ac[j] = {} /\ FutureFails(j)
    <2>1. fut[j].entry = {}
      BY DEF CcInv, CcKey, DecodeResult
    <2>2. QED
      BY <1>1, <2>1, FutureFailsKeeps, SMTT(20) DEF DecodeResult
  <1>2. CASE ~(ac[j] = {} /\ FutureFails(j))
    <2>1. PICK r \in ac[j] :
            /\ fut' = [fut EXCEPT ![j] = [pc |-> IF r.trees = {} THEN "ok" ELSE "trees",
                                          left |-> r.trees, entry |-> {r}]]
            /\ found' = [found EXCEPT ![j] = TRUE]
            /\ Pushed(r.files, j)
      BY <1>2 DEF DecodeResult
    <2>2. /\ ccCall.pc = "check" /\ fut[j].pc = "decode" /\ r \in ActionResults
          /\ UNCHANGED <<ac, cas, ccCall, done, checker, ccHeld, kept, ccServed>>
      BY DEF DecodeResult, CcInv, CcTypes
    <2>3. r.files \subseteq AllDigests /\ r.trees \in SUBSET TreesOfResults
      BY <2>2, DigestFacts, SMTT(20)
    <2>4. CcTypes'
      <3>1. fut' \in [AcKeys -> [pc : {"none", "decode", "trees", "ok", "failed"},
                                 left : SUBSET TreesOfResults, entry : SUBSET ActionResults]]
        BY <2>1, <2>2, <2>3, SMTT(20) DEF CcInv, CcTypes
      <3>2. todo' \subseteq AllDigests \X AcKeys
        BY <2>1, <2>3, SMTT(20) DEF CcInv, CcTypes, Pushed
      <3>3. QED
        BY <2>1, <2>2, <3>1, <3>2, SMTT(20) DEF CcInv, CcTypes
    <2>5. CcStages'
      BY <2>1, <2>2 DEF CcInv, CcTypes, CcStages, Pushed
    <2>6. /\ \A x \in Outstanding' : x \in Outstanding \/ (x[2] = j /\ x[1] \in r.files)
          /\ \A d \in r.files : <<d, j>> \in Outstanding'
          /\ Outstanding \subseteq Outstanding'
      BY <2>1, <2>2, OutstandingGrows
    <2>7. ASSUME NEW k \in AcKeys PROVE CcKey(k)'
      <3>1. CASE k # j
        <4>1. fut'[k] = fut[k] /\ found'[k] = found[k] /\ CcKey(k)
          BY <2>1, <3>1, SMTT(20) DEF CcInv, CcTypes
        <4>2. QED
          BY <2>2, <2>6, <3>1, <4>1, SMTT(20) DEF CcKey
      <3>2. CASE k = j
        <4>1. /\ fut'[k] = [pc |-> IF r.trees = {} THEN "ok" ELSE "trees",
                            left |-> r.trees, entry |-> {r}]
              /\ found'[k] = TRUE
          BY <2>1, <3>2, SMTT(20) DEF CcInv, CcTypes
        <4>2. k \notin checker.missed /\ \A x \in Outstanding : x[2] # k
          BY <2>2, <3>2, SMTT(20) DEF CcInv, CcKey
        <4>3. r.files \subseteq ResultParts(r) /\ Seen(r, r.trees) = r.files
          BY SeenFacts, Zenon DEF ResultParts
        <4>4. QED
          BY <2>2, <2>6, <3>2, <4>1, <4>2, <4>3, SMTT(20) DEF CcKey
      <3>3. QED
        BY <3>1, <3>2, SMTT(20)
    <2>8. QED
      BY <2>4, <2>5, <2>7, SMTT(20) DEF CcInv
  <1>3. QED
    BY <1>1, <1>2

\* A future that fetches a tree queues its files, or fails if it is not there.
LEMMA TreeKeeps ==
    ASSUME CcInv, NEW j \in AcKeys, NEW t \in TreeDigests, CheckOutputDirectory(j, t)
    PROVE  CcInv'
PROOF
  <1>1. /\ ccCall.pc = "check" /\ fut[j].pc = "trees" /\ t \in fut[j].left
        /\ UNCHANGED <<ac, cas, ccCall, done, checker, ccHeld, kept, ccServed>>
        /\ CcKey(j) /\ kept \subseteq cas /\ cas \subseteq ccHeld
        /\ \A r \in fut[j].entry : fut[j].left \subseteq r.trees
    BY DEF CheckOutputDirectory, CcInv, CcStages, CcKey
  <1>2. \A r \in fut[j].entry : t \in ResultParts(r) /\ TreeFiles[t] \subseteq ResultParts(r)
    BY <1>1, SeenFacts, Zenon
  <1>3. CASE t \notin cas /\ FutureFails(j)
    <2>1. \A r \in fut[j].entry : ~(ResultParts(r) \subseteq kept)
      BY <1>1, <1>2, <1>3
    <2>2. QED
      BY <1>1, <1>3, <2>1, FutureFailsKeeps
  <1>4. CASE ~(t \notin cas /\ FutureFails(j))
    <2>1. /\ t \in cas
          /\ Pushed(TreeFiles[t], j)
          /\ fut' = [fut EXCEPT ![j].left = @ \ {t},
                                ![j].pc = IF fut[j].left = {t} THEN "ok" ELSE @]
          /\ UNCHANGED found
      BY <1>4 DEF CheckOutputDirectory
    <2>2. /\ fut'[j].left = fut[j].left \ {t} /\ fut'[j].entry = fut[j].entry
          /\ fut'[j].pc = IF fut[j].left = {t} THEN "ok" ELSE "trees"
          /\ \A k \in AcKeys \ {j} : fut'[k] = fut[k]
      BY <1>1, <2>1, SMTT(20) DEF CcInv, CcTypes
    <2>3. CcTypes'
      <3>1. fut' \in [AcKeys -> [pc : {"none", "decode", "trees", "ok", "failed"},
                                 left : SUBSET TreesOfResults, entry : SUBSET ActionResults]]
        <4> DEFINE Future == [pc : {"none", "decode", "trees", "ok", "failed"},
                              left : SUBSET TreesOfResults, entry : SUBSET ActionResults]
                   fewer == [fut[j] EXCEPT !.left = fut[j].left \ {t}]
                   next == [fewer EXCEPT !.pc = IF fut[j].left = {t} THEN "ok" ELSE fut[j].pc]
        <4>1. fut \in [AcKeys -> Future] /\ fut[j] \in Future
          BY DEF CcInv, CcTypes
        <4>2. fewer \in Future
          BY <4>1
        <4>3. next \in Future
          <5> HIDE DEF fewer
          <5>1. (IF fut[j].left = {t} THEN "ok" ELSE fut[j].pc) \in {"none", "decode", "trees", "ok", "failed"}
            BY <1>1
          <5>2. QED
            BY <4>2, <5>1, SMTT(20)
        <4>4. fut' = [fut EXCEPT ![j] = next]
          BY <2>1, <4>1, Zenon
        <4> HIDE DEF Future, next
        <4>5. fut' \in [AcKeys -> Future]
          BY <4>1, <4>3, <4>4
        <4>6. QED
          BY <4>5 DEF Future
      <3>2. todo' \subseteq AllDigests \X AcKeys
        BY <2>1, DigestFacts DEF CcInv, CcTypes, Pushed
      <3>3. QED
        BY <1>1, <2>1, <3>1, <3>2, Zenon DEF CcInv, CcTypes
    <2>4. CcStages'
      BY <1>1, <2>1, <2>2 DEF CcInv, CcTypes, CcStages, Pushed
    <2>5. /\ \A x \in Outstanding' : x \in Outstanding \/ (x[2] = j /\ x[1] \in TreeFiles[t])
          /\ \A d \in TreeFiles[t] : <<d, j>> \in Outstanding'
          /\ Outstanding \subseteq Outstanding'
      BY <1>1, <2>1, OutstandingGrows
    <2>6. ASSUME NEW k \in AcKeys PROVE CcKey(k)'
      <3>1. CASE k # j
        <4>1. fut'[k] = fut[k] /\ found'[k] = found[k] /\ CcKey(k)
          BY <2>1, <2>2, <3>1, Zenon DEF CcInv
        <4>2. \A x \in Outstanding' : x[2] = k => x \in Outstanding
          BY <2>5, <3>1
        <4>3. QED
          BY <1>1, <2>5, <4>1, <4>2, SMTT(20) DEF CcKey
      <3>2. CASE k = j
        <4>1. ASSUME NEW r \in fut[k].entry
              PROVE  Seen(r, fut[k].left \ {t}) \subseteq Seen(r, fut[k].left) \cup {t} \cup TreeFiles[t]
          BY <1>1, <3>2, SeenFacts, Zenon
        <4>2. CcKey(k) /\ found'[k] = found[k] /\ t \in ccHeld
          BY <1>1, <2>1, <3>2
        <4>3. /\ (fut[k].pc \in {"none", "decode"} =>
                     fut[k].entry = {} /\ ~found[k] /\ k \notin checker.missed /\ \A x \in Outstanding : x[2] # k)'
              /\ (fut[k].pc = "ok" => fut[k].left = {})'
              /\ (found[k] => fut[k].pc \in {"trees", "ok"})'
          BY <1>1, <2>2, <3>2, <4>2 DEF CcKey
        <4>4. ASSUME NEW r \in fut[k].entry
              PROVE  /\ fut[k].left \ {t} \subseteq r.trees
                     /\ \A x \in Outstanding' : x[2] = k => x[1] \in ResultParts(r)
                     /\ (~found[k] \/ k \in checker.missed) => ~(ResultParts(r) \subseteq kept)
                     /\ (found[k] /\ k \notin checker.missed) =>
                           \A d \in Seen(r, fut[k].left \ {t}) : d \in ccHeld \/ <<d, k>> \in Outstanding'
          <5> DEFINE parts == ResultParts(r)
                     seen == Seen(r, fut[k].left)
                     next == Seen(r, fut[k].left \ {t})
          <5>1. /\ fut[k].left \subseteq r.trees
                /\ \A x \in Outstanding : x[2] = k => x[1] \in parts
                /\ (~found[k] \/ k \in checker.missed) => ~(parts \subseteq kept)
                /\ (found[k] /\ k \notin checker.missed) =>
                      \A d \in seen : d \in ccHeld \/ <<d, k>> \in Outstanding
            BY <4>2 DEF CcKey
          <5>2. next \subseteq seen \cup {t} \cup TreeFiles[t] /\ TreeFiles[t] \subseteq parts
            BY <1>2, <3>2, <4>1, Zenon
          <5> HIDE DEF parts, seen, next
          <5>3. \A x \in Outstanding' : x[2] = k => x[1] \in parts
            BY <2>5, <5>1, <5>2
          <5>4. (found[k] /\ k \notin checker.missed) =>
                    \A d \in next : d \in ccHeld \/ <<d, k>> \in Outstanding'
            BY <2>5, <3>2, <4>2, <5>1, <5>2
          <5>5. QED
            BY <5>1, <5>3, <5>4, Zenon DEF parts, seen, next
        <4>5. QED
          BY <1>1, <2>2, <3>2, <4>2, <4>3, <4>4, Zenon DEF CcKey
      <3>3. QED
        BY <3>1, <3>2, SMTT(20)
    <2>7. QED
      BY <2>3, <2>4, <2>6 DEF CcInv
  <1>5. QED
    BY <1>3, <1>4

LEMMA CcStep == CcInv /\ [CcNext]_ccVars => CcInv'
PROOF
  <1> SUFFICES ASSUME CcInv, [CcNext]_ccVars PROVE CcInv'
    OBVIOUS
  <1>1. CASE CallStep
    BY <1>1, DecodeKeeps, TreeKeeps, AllDecodedKeeps, CheckerWakesKeeps, CheckerHasKeeps,
       CheckerMarksKeeps, CallEndsKeeps, SMTT(20) DEF CallStep
  <1>2. CASE ~CallStep
    <2>1. CASE \E mode \in {"has", "get"}, keys \in (SUBSET AcKeys) \ {{}} : StartCall(mode, keys)
      BY <2>1, StartCallKeeps
    <2>2. CASE CheckerFails \/ EndCall
      BY <2>2, CallEndsKeeps
    <2>3. CASE \/ \E k \in AcKeys, r \in ActionResults : UpdateResult(k, r)
               \/ \E d \in AllDigests : CasGains(d) \/ CasEvicts(d)
               \/ UNCHANGED ccVars
      BY <2>3, OthersKeep
    <2>4. QED
      BY <1>2, <2>1, <2>2, <2>3, SMTT(20) DEF CcNext
  <1>3. QED
    BY <1>1, <1>2

\* The invariant that relates the futures, the queue and the checker, for any keys
\* and action results, whatever other callers put into the CAS and it evicts.
THEOREM QueueLosesNothing == CcSpec => []CcInv
PROOF
  BY CcInitially, CcStep, PTL DEF CcSpec

LEMMA CcAnswers == CcInv => CompleteWasHeld /\ HiddenWasMissing
PROOF
  <1> SUFFICES ASSUME CcInv, ccCall.pc \in {"returned", "serve"}, NEW k \in AcKeys, NEW r \in fut[k].entry
               PROVE  /\ found[k] => ResultParts(r) \subseteq ccHeld
                      /\ ~found[k] => ~(ResultParts(r) \subseteq kept)
    BY DEF CompleteWasHeld, HiddenWasMissing
  <1>1. /\ done /\ checker.missed = {} /\ Outstanding = {}
        /\ fut[k].pc \notin {"decode", "trees"}
    BY DEF CcInv, CcStages, Outstanding
  <1>2. found[k] => fut[k].left = {} /\ Seen(r, {}) \subseteq ccHeld
    BY <1>1, Zenon DEF CcInv, CcKey
  <1>3. Seen(r, {}) = ResultParts(r)
    BY SeenFacts, Zenon
  <1>4. QED
    BY <1>1, <1>2, <1>3, SMTT(20) DEF CcInv, CcKey

\* A result the store reports as complete had all of its parts in the CAS at some
\* time of the call, the files of its trees included: no digest queued by a future
\* escapes the checker that takes the queue meanwhile.
THEOREM CompleteResultsWereHeld == CcSpec => []CompleteWasHeld
PROOF
  BY QueueLosesNothing, CcAnswers, PTL

\* A stored result the store hides lacked a part at some time of the call: a digest
\* missed for one key never unsets the result of another.
THEOREM HiddenResultsWereMissing == CcSpec => []HiddenWasMissing
PROOF
  BY QueueLosesNothing, CcAnswers, PTL

-----------------------------------------------------------------------------
(***************************************************************************)
(* VerifyStore                                                             *)
(***************************************************************************)
Chunks == Seq(Seq(Nat))

Channels == [q : Chunks, tx : BOOLEAN, rx : BOOLEAN, eof_sent : BOOLEAN, queued : Chunks,
             recent : Chunks, received : Nat, err : BOOLEAN, max : {0}]

\* The bytes of at most two chunks, all that a channel has room for.
Bytes(chunks) ==
    IF chunks = <<>> THEN <<>>
    ELSE IF Tail(chunks) = <<>> THEN Head(chunks)
    ELSE Head(chunks) \o Head(Tail(chunks))

\* A channel within its bounds: a reader peeks at one chunk at most.
Bounded(c) == c \in Channels /\ Len(c.q) <= ChannelSize /\ Len(c.queued) <= 1

\* The bytes in a channel, in the order in which recv() gives them.
Remaining(c) == Bytes(c.queued) \o Bytes(c.q)

VerTypes ==
    /\ checks \in [size : BOOLEAN, hash : BOOLEAN]
    /\ check \in [pc : {"start", "recv", "peek", "pass", "ok", "err"}, chunk : Seq(Nat),
                  sum : Nat, hashed : Seq(Nat)]
    /\ store \in [pc : {"idle", "recv", "committed", "err"}, data : Seq(Nat)]
    /\ uploaded \in Seq(Nat)
    /\ Bounded(outer) /\ Bounded(inner)

\* The caller's side: what was hashed and the chunk in hand begin the upload, and
\* the channel holds the rest of it.
VerOuter ==
    /\ check.pc \in {"start", "recv", "ok"} => check.chunk = <<>>
    /\ check.sum = Len(check.hashed) + Len(check.chunk)
    /\ \E rest \in Seq(Nat) : uploaded = (check.hashed \o check.chunk) \o rest
    /\ check.pc # "err" => outer.rx /\ uploaded = (check.hashed \o check.chunk) \o Remaining(outer)

\* The inner store's side: what it has and the channel holds is what was hashed,
\* and the channel is ended after both verdicts only.
VerInner ==
    /\ inner.queued = <<>> /\ \A i \in 1..Len(inner.q) : inner.q[i] # <<>>
    /\ check.pc = "start" => store.pc = "idle"
    /\ store.pc # "err" => inner.rx /\ check.hashed = store.data \o Bytes(inner.q)
    /\ inner.eof_sent => check.pc = "ok"
    /\ check.pc = "ok" => SizeOk /\ HashOk
    /\ store.pc = "committed" => inner.eof_sent /\ inner.q = <<>>

VerInv == VerTypes /\ VerOuter /\ VerInner

-----------------------------------------------------------------------------
(* Bytes of chunks *)

LEMMA NoBytes == Bytes(<<>>) = <<>> /\ <<>> \in Chunks /\ <<>> \in Seq(Nat) /\ Len(<<>>) = 0
PROOF
  BY EmptySeq DEF Bytes, Chunks

\* Facts about concatenation, for sequences of bytes.
LEMMA BytesConcat ==
    /\ \A a, b, c \in Seq(Nat) : (a \o b) \o c = a \o (b \o c)
    /\ \A a, b \in Seq(Nat) : a \o b \in Seq(Nat) /\ Len(a \o b) = Len(a) + Len(b)
    /\ \A a \in Seq(Nat) : a \o <<>> = a /\ <<>> \o a = a /\ Len(a) \in Nat
PROOF
  <1>1. \A a, b, c \in Seq(Nat) : (a \o b) \o c = a \o (b \o c)
    <2> TAKE a, b, c \in Seq(Nat)
    <2>1. QED
      BY ConcatAssociative
  <1>2. \A a, b \in Seq(Nat) : a \o b \in Seq(Nat) /\ Len(a \o b) = Len(a) + Len(b)
    BY ConcatProperties, Zenon
  <1>3. \A a \in Seq(Nat) : a \o <<>> = a /\ <<>> \o a = a /\ Len(a) \in Nat
    BY ConcatEmptySeq, LenProperties, Zenon
  <1>4. QED
    BY <1>1, <1>2, <1>3, Zenon

LEMMA BytesType ==
    ASSUME NEW s \in Chunks
    PROVE  Bytes(s) \in Seq(Nat)
PROOF
  <1>1. CASE s = <<>>
    BY <1>1, NoBytes, Zenon
  <1>2. CASE s # <<>>
    <2>1. Head(s) \in Seq(Nat) /\ Tail(s) \in Chunks
      BY <1>2 DEF Chunks
    <2>2. CASE Tail(s) = <<>>
      BY <1>2, <2>1, <2>2 DEF Bytes
    <2>3. CASE Tail(s) # <<>>
      <3>1. Head(Tail(s)) \in Seq(Nat)
        BY <2>1, <2>3 DEF Chunks
      <3>2. Head(s) \o Head(Tail(s)) \in Seq(Nat)
        BY <2>1, <3>1, ConcatProperties, Zenon
      <3>3. QED
        BY <1>2, <2>3, <3>2, Zenon DEF Bytes
    <2>4. QED
      BY <2>2, <2>3
  <1>3. QED
    BY <1>1, <1>2

LEMMA BytesHead ==
    ASSUME NEW s \in Chunks, s # <<>>, Len(s) <= 2
    PROVE  /\ Head(s) \in Seq(Nat) /\ Tail(s) \in Chunks /\ Len(Tail(s)) = Len(s) - 1
           /\ Bytes(s) = Head(s) \o Bytes(Tail(s))
PROOF
  <1>1. /\ Head(s) \in Seq(Nat) /\ Tail(s) \in Chunks /\ Len(Tail(s)) = Len(s) - 1
        /\ Len(s) \in Nat
    BY DEF Chunks
  <1>2. CASE Tail(s) = <<>>
    <2>1. Head(s) \o <<>> = Head(s)
      BY <1>1, ConcatEmptySeq, Zenon
    <2>2. QED
      BY <1>1, <1>2, <2>1, NoBytes, Zenon DEF Bytes
  <1>3. CASE Tail(s) # <<>>
    <2> DEFINE u == Tail(s)
    <2>1. Tail(u) \in Chunks /\ Len(Tail(u)) = Len(u) - 1
      BY <1>1, <1>3 DEF Chunks
    <2> HIDE DEF u
    <2>2. Len(Tail(u)) \in Nat /\ Len(Tail(u)) <= 0
      BY <1>1, <2>1 DEF Chunks, u
    <2>3. Tail(u) = <<>>
      BY <2>1, <2>2, EmptySeq, SMTT(20) DEF Chunks
    <2>4. Bytes(u) = Head(u)
      BY <1>3, <2>3, Zenon DEF Bytes, u
    <2>5. Bytes(s) = Head(s) \o Head(u)
      BY <1>3, Zenon DEF Bytes, u
    <2>6. QED
      BY <1>1, <2>4, <2>5, Zenon DEF u
  <1>4. QED
    BY <1>2, <1>3

LEMMA BytesOne ==
    ASSUME NEW c \in Seq(Nat)
    PROVE  /\ <<c>> \in Chunks /\ Len(<<c>>) = 1 /\ Head(<<c>>) = c /\ Tail(<<c>>) = <<>>
           /\ <<c>> # <<>> /\ Bytes(<<c>>) = c
PROOF
  <1>1. <<c>> \in Chunks /\ Len(<<c>>) = 1 /\ Head(<<c>>) = c /\ Tail(<<c>>) = <<>>
    BY DEF Chunks
  <1>2. <<c>> # <<>>
    BY <1>1, EmptySeq
  <1>3. QED
    BY <1>1, <1>2, Zenon DEF Bytes

LEMMA BytesAppend ==
    ASSUME NEW s \in Chunks, Len(s) < 2, NEW c \in Seq(Nat)
    PROVE  /\ Append(s, c) \in Chunks /\ Len(Append(s, c)) = Len(s) + 1
           /\ Bytes(Append(s, c)) = Bytes(s) \o c
PROOF
  <1>1. /\ Append(s, c) \in Chunks /\ Len(Append(s, c)) = Len(s) + 1 /\ Len(s) \in Nat
        /\ Append(s, c) # <<>>
    <2>1. Append(s, c) \in Chunks /\ Len(Append(s, c)) = Len(s) + 1 /\ Len(s) \in Nat
      BY DEF Chunks
    <2>2. Len(Append(s, c)) # 0
      BY <2>1
    <2>3. QED
      BY <2>1, <2>2, EmptySeq, Zenon
  <1>2. CASE s = <<>>
    <2>1. Append(<<>>, c) = <<c>> /\ <<>> \o c = c
      <3>1. Append(<<>>, c) = <<c>>
        OBVIOUS
      <3>2. <<>> \o c = c
        BY ConcatEmptySeq, Zenon
      <3>3. QED
        BY <3>1, <3>2
    <2>2. QED
      BY <1>1, <1>2, <2>1, NoBytes, BytesOne, Zenon
  <1>3. CASE s # <<>>
    <2>1. Tail(s) = <<>>
      <3>1. Tail(s) \in Seq(Seq(Nat)) /\ Len(Tail(s)) = Len(s) - 1 /\ s \in Seq(Seq(Nat))
        BY <1>3, HeadTailProperties, Zenon DEF Chunks
      <3> DEFINE n == Len(s)
      <3>2. n \in Nat /\ n < 2
        BY <3>1, LenProperties
      <3> HIDE DEF n
      <3>3. n - 1 \notin Nat \ {0}
        BY <3>2
      <3>4. QED
        BY <3>1, <3>3, EmptySeq, Zenon DEF n
    <2>2. Head(Append(s, c)) = Head(s) /\ Tail(Append(s, c)) = <<c>>
      <3>1. Head(Append(s, c)) = Head(s) /\ Tail(Append(s, c)) = Append(<<>>, c)
        BY <1>3, <2>1, HeadTailAppend, Zenon DEF Chunks
      <3>2. Append(<<>>, c) = <<c>>
        OBVIOUS
      <3>3. QED
        BY <3>1, <3>2, Zenon
    <2>3. QED
      BY <1>1, <1>3, <2>1, <2>2, BytesOne, Zenon DEF Bytes
  <1>4. QED
    BY <1>1, <1>2, <1>3, SMTT(20)

-----------------------------------------------------------------------------
(* The channels of the store *)

\* recv() takes a chunk, or the end, from the front of what is in the channel.
Takes(c, got) ==
    /\ Bounded(got.ch) /\ got.ch.rx = c.rx /\ got.ch.eof_sent = c.eof_sent
    /\ got.chunk \in Seq(Nat) /\ Remaining(c) = got.chunk \o Remaining(got.ch)
    /\ ~got.ok => got.chunk = <<>>
    /\ c.queued = <<>> => got.ch.queued = <<>>
    /\ c.queued = <<>> /\ got.ok =>
          \/ c.q # <<>> /\ got.chunk = Head(c.q) /\ got.ch.q = Tail(c.q)
          \/ c.q = <<>> /\ got.chunk = <<>> /\ got.ch.q = <<>> /\ c.eof_sent

LEMMA RecvInnerFacts ==
    ASSUME NEW c \in Channels, NEW chunk \in Seq(Nat), c.queued = <<>>
    PROVE  LET got == RecvInner(c, chunk) IN
           /\ got.ch \in Channels /\ got.ch.q = c.q /\ got.ch.queued = <<>>
           /\ got.ch.rx = c.rx /\ got.ch.eof_sent = c.eof_sent
           /\ got.chunk = chunk /\ (got.ok /\ chunk = <<>> => c.eof_sent)
           /\ ~got.ok => chunk = <<>>
PROOF
  <1> DEFINE got == RecvInner(c, chunk)
  <1>0. c.max = 0 /\ c.received \in Nat /\ Len(chunk) \in Nat /\ <<>> \in Chunks
    BY NoBytes, LenProperties DEF Channels
  <1>1. CASE chunk # Eof
    <2> DEFINE n == c.received + Len(chunk)
               d == [c EXCEPT !.received = n]
    <2>1. n \in Nat
      BY <1>0
    <2> HIDE DEF n
    <2>2. /\ d \in Channels /\ d.q = c.q /\ d.queued = c.queued /\ d.rx = c.rx
          /\ d.eof_sent = c.eof_sent /\ d.max = c.max
      BY <2>1, SMTT(20) DEF Channels
    <2> HIDE DEF d
    <2>3. MaybePopulateRecentData(d, chunk) = d
      BY <1>0, <2>2 DEF MaybePopulateRecentData
    <2>4. got = [ch |-> d, ok |-> TRUE, chunk |-> chunk]
      BY <1>1, <2>3, Zenon DEF RecvInner, d, n
    <2>5. got.ch = d /\ got.chunk = chunk /\ got.ok = TRUE
      BY <2>4
    <2>6. QED
      BY <1>1, <2>2, <2>5, Zenon DEF Eof
  <1>2. CASE chunk = Eof /\ c.eof_sent
    <2>1. MaybePopulateRecentData(c, Eof) = c
      BY <1>0 DEF MaybePopulateRecentData
    <2>2. got = [ch |-> c, ok |-> TRUE, chunk |-> Eof]
      BY <1>2, <2>1, Zenon DEF RecvInner
    <2>3. got.ch = c /\ got.chunk = Eof /\ got.ok = TRUE
      BY <2>2
    <2>4. QED
      BY <1>2, <2>3, Zenon
  <1>3. CASE chunk = Eof /\ ~c.eof_sent
    <2> DEFINE d == [c EXCEPT !.queued = <<>>, !.recent = <<>>, !.received = 0, !.err = TRUE]
    <2>1. /\ d \in Channels /\ d.q = c.q /\ d.queued = <<>> /\ d.rx = c.rx
          /\ d.eof_sent = c.eof_sent
      BY <1>0, Zenon DEF Channels
    <2>2. got = [ch |-> d, ok |-> FALSE, chunk |-> Eof]
      BY <1>3, Zenon DEF RecvInner
    <2> HIDE DEF d
    <2>3. got.ch = d /\ got.chunk = Eof /\ got.ok = FALSE
      BY <2>2
    <2>4. QED
      BY <1>3, <2>1, <2>3, Zenon DEF Eof
  <1>4. QED
    BY <1>1, <1>2, <1>3, SMTT(20)

LEMMA RemainingQ ==
    ASSUME NEW c, Bounded(c), c.queued = <<>>
    PROVE  Remaining(c) = Bytes(c.q) /\ Bytes(c.q) \in Seq(Nat)
PROOF
  <1>1. Bytes(c.q) \in Seq(Nat)
    BY BytesType DEF Bounded, Channels
  <1>2. <<>> \o Bytes(c.q) = Bytes(c.q)
    BY <1>1, ConcatEmptySeq, Zenon
  <1>3. QED
    BY <1>1, <1>2, NoBytes, Zenon DEF Remaining

LEMMA RecvFacts ==
    ASSUME NEW c, Bounded(c)
    PROVE  Takes(c, Recv(c))
PROOF
  <1> DEFINE got == Recv(c)
  <1>0. /\ c \in Channels /\ c.q \in Chunks /\ c.queued \in Chunks /\ Len(c.q) <= 2 /\ Len(c.queued) <= 1
        /\ Len(c.q) \in Nat /\ Len(c.queued) \in Nat
    BY DEF Bounded, Channels, Chunks, ChannelSize
  <1>a. Bytes(c.q) \in Seq(Nat) /\ Bytes(c.queued) \in Seq(Nat) /\ Remaining(c) \in Seq(Nat)
    BY <1>0, BytesType, ConcatProperties, Zenon DEF Remaining
  <1>1. CASE c.err
    <2>1. got = [ch |-> c, ok |-> FALSE, chunk |-> Eof]
      BY <1>1 DEF Recv
    <2>2. got.ch = c /\ got.ok = FALSE /\ got.chunk = <<>>
      BY <2>1 DEF Eof
    <2>3. Remaining(c) = <<>> \o Remaining(c)
      BY <1>a, ConcatEmptySeq, Zenon
    <2>4. QED
      BY <2>2, <2>3, NoBytes, Zenon DEF Takes
  <1>2. CASE ~c.err /\ c.queued # <<>>
    <2> DEFINE x == Tail(c.queued)
               chunk == Head(c.queued)
               d == [c EXCEPT !.queued = x]
    <2>1. got = [ch |-> d, ok |-> TRUE, chunk |-> chunk]
      BY <1>2, Zenon DEF Recv
    <2>2. got.ch = d /\ got.chunk = chunk /\ got.ok = TRUE
      BY <2>1
    <2>3. /\ chunk \in Seq(Nat) /\ x \in Chunks /\ Len(x) = Len(c.queued) - 1
          /\ Bytes(c.queued) = chunk \o Bytes(x)
      <3> DEFINE n == Len(c.queued)
      <3>1. n \in Nat /\ n <= 1
        BY <1>0
      <3> HIDE DEF n
      <3>2. n <= 2
        BY <3>1
      <3>3. QED
        BY <1>0, <1>2, <3>2, BytesHead, Zenon DEF n
    <2> HIDE DEF x, chunk, got
    <2>4. d \in Channels /\ d.q = c.q /\ d.queued = x /\ d.rx = c.rx /\ d.eof_sent = c.eof_sent
      BY <1>0, <2>3, Zenon DEF Channels
    <2>5. Len(x) <= 1
      BY <1>0, <2>3
    <2> HIDE DEF d
    <2>6. Bounded(d)
      BY <2>4, <2>5, Zenon DEF Bounded
    <2>7. Remaining(c) = chunk \o Remaining(d)
      <3>1. Bytes(x) \in Seq(Nat)
        BY <2>3, BytesType, SMTT(20)
      <3>2. (chunk \o Bytes(x)) \o Bytes(c.q) = chunk \o (Bytes(x) \o Bytes(c.q))
        BY <1>a, <2>3, <3>1, BytesConcat, SMTT(20)
      <3>3. QED
        BY <2>3, <2>4, <3>2, Zenon DEF Remaining
    <2>8. QED
      BY <1>2, <2>2, <2>3, <2>4, <2>6, <2>7, Zenon DEF Takes, got
  <1>3. CASE ~c.err /\ c.queued = <<>> /\ c.q # <<>>
    <2> DEFINE x == Tail(c.q)
               chunk == Head(c.q)
               d == [c EXCEPT !.q = x]
    <2>1. got = RecvInner(d, chunk)
      BY <1>3, Zenon DEF Recv
    <2>2. /\ chunk \in Seq(Nat) /\ x \in Chunks /\ Len(x) = Len(c.q) - 1
          /\ Bytes(c.q) = chunk \o Bytes(x)
      BY <1>0, <1>3, BytesHead, Zenon
    <2> HIDE DEF x, chunk, got
    <2>3. d \in Channels /\ d.q = x /\ d.queued = <<>> /\ d.rx = c.rx /\ d.eof_sent = c.eof_sent
      BY <1>0, <1>3, <2>2, SMTT(20) DEF Channels
    <2> HIDE DEF d
    <2>4. /\ got.ch \in Channels /\ got.ch.q = x /\ got.ch.queued = <<>> /\ got.ch.rx = c.rx
          /\ got.ch.eof_sent = c.eof_sent /\ got.chunk = chunk /\ (~got.ok => chunk = <<>>)
      BY <2>1, <2>2, <2>3, RecvInnerFacts, Zenon
    <2>5. Len(x) <= 2 /\ 0 <= 1
      BY <1>0, <2>2
    <2>6. Bounded(got.ch)
      BY <2>4, <2>5, NoBytes, Zenon DEF Bounded, ChannelSize
    <2>7. Remaining(c) = chunk \o Remaining(got.ch)
      BY <1>3, <2>2, <2>4, <2>6, RemainingQ, Zenon
    <2>8. QED
      BY <1>3, <2>2, <2>4, <2>6, <2>7, Zenon DEF Takes, got, chunk, x
  <1>4. CASE ~c.err /\ c.queued = <<>> /\ c.q = <<>>
    <2>1. got = RecvInner(c, Eof) /\ Eof \in Seq(Nat)
      BY <1>4, NoBytes, Zenon DEF Recv, Eof
    <2> HIDE DEF got
    <2>2. /\ got.ch \in Channels /\ got.ch.q = c.q /\ got.ch.queued = <<>> /\ got.ch.rx = c.rx
          /\ got.ch.eof_sent = c.eof_sent /\ got.chunk = Eof /\ (got.ok /\ Eof = <<>> => c.eof_sent)
      BY <1>0, <1>4, <2>1, RecvInnerFacts, Zenon
    <2>3. Bounded(got.ch)
      <3>1. 0 <= 2 /\ 0 <= 1
        OBVIOUS
      <3>2. QED
        BY <1>4, <2>2, <3>1, NoBytes, Zenon DEF Bounded, ChannelSize
    <2>4. Remaining(c) = Bytes(<<>>) /\ Remaining(got.ch) = Bytes(<<>>)
      BY <1>4, <2>2, <2>3, RemainingQ, Zenon
    <2>5. <<>> \o <<>> = <<>>
      BY NoBytes, ConcatEmptySeq, Zenon
    <2>6. QED
      BY <1>4, <2>1, <2>2, <2>3, <2>4, <2>5, NoBytes, Zenon DEF Takes, Eof, got
  <1>5. QED
    BY <1>1, <1>2, <1>3, <1>4, SMTT(20)

\* peek() leaves what is in the channel where it is.
LEMMA PeekFacts ==
    ASSUME NEW c, Bounded(c)
    PROVE  LET got == Peek1(c) IN
           Bounded(got.ch) /\ got.ch.rx = c.rx /\ Remaining(got.ch) = Remaining(c)
PROOF
  <1> DEFINE got == Peek1(c)
  <1>1. CASE c.queued # <<>>
    <2>1. got = [ch |-> c, ok |-> TRUE, chunk |-> Head(c.queued)]
      BY <1>1, Zenon DEF Peek1
    <2>2. got.ch = c
      BY <2>1
    <2>3. QED
      BY <2>2, Zenon
  <1>2. CASE c.queued = <<>>
    <2> DEFINE r == Recv(c)
               e == r.ch
               chunk == r.chunk
               d == PushFront(e, chunk)
    <2>1. got = IF r.ok THEN [r EXCEPT !.ch = d] ELSE r
      BY <1>2, Zenon DEF Peek1
    <2>2. /\ Bounded(e) /\ e.rx = c.rx /\ e.queued = <<>> /\ chunk \in Seq(Nat)
          /\ Remaining(c) = chunk \o Remaining(e)
          /\ ~r.ok => chunk = <<>>
      BY <1>2, RecvFacts, Zenon DEF Takes
    <2>3. \E ok, ch, ck : r = [ch |-> ch, ok |-> ok, chunk |-> ck]
      BY Zenon DEF Recv, RecvInner
    <2> HIDE DEF r
    <2>4. got.ch = IF r.ok THEN d ELSE e
      BY <2>1, <2>3
    <2>5. CASE r.ok
      <3>1. <<chunk>> \o <<>> = <<chunk>>
        BY <2>2
      <3>2. d = [e EXCEPT !.queued = <<chunk>>]
        BY <2>2, <3>1, Zenon DEF PushFront
      <3> DEFINE x == <<chunk>>
      <3>3. x \in Chunks /\ Len(x) = 1 /\ Bytes(x) = chunk
        BY <2>2, BytesOne
      <3> HIDE DEF x, chunk, e
      <3>4. d \in Channels /\ d.queued = x /\ d.q = e.q /\ d.rx = e.rx /\ Len(e.q) <= ChannelSize
        BY <2>2, <3>2, <3>3, Zenon DEF Channels, Bounded, x
      <3> HIDE DEF d
      <3>5. 1 <= 1
        OBVIOUS
      <3>6. Bounded(d)
        BY <3>3, <3>4, <3>5, Zenon DEF Bounded
      <3>7. Remaining(e) = Bytes(e.q)
        BY <2>2, RemainingQ
      <3>8. Remaining(d) = Remaining(c)
        BY <2>2, <3>3, <3>4, <3>7, Zenon DEF Remaining
      <3>9. QED
        BY <2>2, <2>4, <2>5, <3>4, <3>6, <3>8, Zenon
    <2>6. CASE ~r.ok
      <3>1. Remaining(e) = Bytes(e.q) /\ Bytes(e.q) \in Seq(Nat)
        BY <2>2, RemainingQ
      <3>2. Remaining(c) = Remaining(e)
        BY <2>2, <2>6, <3>1, BytesConcat, Zenon
      <3>3. QED
        BY <2>2, <2>4, <2>6, <3>2, Zenon
    <2>7. QED
      BY <2>5, <2>6
  <1>3. QED
    BY <1>1, <1>2

\* What is sent comes after what is in the channel.
LEMMA SendFacts ==
    ASSUME NEW c, Bounded(c), CanSend(c), c.rx, NEW chunk \in Seq(Nat)
    PROVE  LET d == SendTo(c, chunk) IN
           /\ Bounded(d) /\ d.rx /\ d.eof_sent = c.eof_sent /\ d.queued = c.queued
           /\ d.q = Append(c.q, chunk) /\ Bytes(d.q) = Bytes(c.q) \o chunk
           /\ Remaining(d) = Remaining(c) \o chunk
PROOF
  <1> DEFINE x == Append(c.q, chunk)
             d == [c EXCEPT !.q = x]
  <1>0. /\ c \in Channels /\ c.q \in Chunks /\ c.queued \in Chunks /\ Len(c.q) < 2 /\ Len(c.queued) <= 1
    BY DEF Bounded, Channels, CanSend, ChannelSize
  <1>1. x \in Chunks /\ Len(x) = Len(c.q) + 1 /\ Bytes(x) = Bytes(c.q) \o chunk
    BY <1>0, BytesAppend
  <1>2. SendTo(c, chunk) = d
    BY DEF SendTo
  <1> HIDE DEF x
  <1>3. d \in Channels /\ d.q = x /\ d.queued = c.queued /\ d.rx = c.rx /\ d.eof_sent = c.eof_sent
    BY <1>0, <1>1, Zenon DEF Channels
  <1>4. Len(x) <= 2
    <2> DEFINE n == Len(c.q)
    <2>1. n \in Nat /\ n < 2
      BY <1>0, LenProperties DEF Chunks
    <2> HIDE DEF n
    <2>2. n + 1 <= 2
      BY <2>1
    <2>3. QED
      BY <1>1, <2>2, Zenon DEF n
  <1> HIDE DEF d
  <1>5. Bounded(d)
    BY <1>0, <1>3, <1>4, Zenon DEF Bounded, ChannelSize
  <1>6. Remaining(d) = Remaining(c) \o chunk
    <2>1. Bytes(c.q) \in Seq(Nat) /\ Bytes(c.queued) \in Seq(Nat)
      BY <1>0, BytesType, SMTT(20)
    <2>2. (Bytes(c.queued) \o Bytes(c.q)) \o chunk = Bytes(c.queued) \o (Bytes(c.q) \o chunk)
      BY <2>1, BytesConcat, Zenon
    <2>3. QED
      BY <1>1, <1>3, <2>2, Zenon DEF Remaining
  <1>7. QED
    BY <1>1, <1>2, <1>3, <1>5, <1>6, Zenon DEF x

\* The ends of a channel.
LEMMA EndFacts ==
    ASSUME NEW c, Bounded(c)
    PROVE  /\ \A d \in {DropTx(c), SendEof(c)} :
                 Bounded(d) /\ d.rx = c.rx /\ d.q = c.q /\ d.queued = c.queued /\ Remaining(d) = Remaining(c)
           /\ DropTx(c).eof_sent = c.eof_sent
           /\ SendEof(c).eof_sent
           /\ Bounded(DropRx(c)) /\ DropRx(c).eof_sent = c.eof_sent /\ DropRx(c).q = <<>>
           /\ DropRx(c).queued = c.queued
           /\ ~c.rx => Bounded([c EXCEPT !.tx = FALSE])
PROOF
  <1>0. c \in Channels /\ Len(c.q) <= ChannelSize /\ Len(c.queued) <= 1
    BY DEF Bounded
  <1>1. ASSUME NEW d \in {DropTx(c), SendEof(c)}
        PROVE  /\ d \in Channels /\ d.rx = c.rx /\ d.q = c.q /\ d.queued = c.queued
    BY <1>0, Zenon DEF DropTx, SendEof, Channels
  <1>2. ASSUME NEW d \in {DropTx(c), SendEof(c)}
        PROVE  Bounded(d) /\ Remaining(d) = Remaining(c)
    BY <1>0, <1>1, Zenon DEF Bounded, Remaining
  <1>3. DropTx(c).eof_sent = c.eof_sent /\ SendEof(c).eof_sent
    BY <1>0 DEF DropTx, SendEof, Channels
  <1> DEFINE d == DropRx(c)
  <1>4. d \in Channels /\ d.eof_sent = c.eof_sent /\ d.q = <<>> /\ d.queued = c.queued
    BY <1>0, NoBytes, Zenon DEF DropRx, Channels
  <1> HIDE DEF d
  <1>5. 0 <= ChannelSize
    BY DEF ChannelSize
  <1>6. Bounded(d)
    BY <1>0, <1>4, <1>5, NoBytes, Zenon DEF Bounded
  <1>7. QED
    BY <1>1, <1>2, <1>3, <1>4, <1>6, Zenon DEF d, DropTx

-----------------------------------------------------------------------------
(* The steps of an upload *)

LEMMA VerInitially == ASSUME VerifyInit PROVE VerInv
PROOF
  <1> DEFINE c == MakeBufChannelPair(0)
  <1>1. c \in Channels /\ c.q = <<>> /\ c.queued = <<>> /\ c.rx /\ ~c.eof_sent
    BY NoBytes DEF MakeBufChannelPair, Channels
  <1>2. outer = c /\ inner = c
    BY DEF VerifyInit
  <1> HIDE DEF c
  <1>3. 0 <= 2 /\ 0 <= 1 /\ 1..0 = {} /\ 0 = 0 + 0
    OBVIOUS
  <1>4. Bounded(c) /\ Remaining(c) = <<>>
    <2>1. Bounded(c)
      BY <1>1, <1>3, NoBytes, Zenon DEF Bounded, ChannelSize
    <2>2. QED
      BY <1>1, <2>1, RemainingQ, NoBytes, Zenon
  <1>5. VerTypes
    BY <1>2, <1>4, NoBytes, SMTT(20) DEF VerTypes, VerifyInit
  <1>6. (<<>> \o <<>>) \o <<>> = <<>> /\ <<>> \o <<>> = <<>>
    BY NoBytes, BytesConcat, SMTT(20)
  <1>7. /\ check.pc = "start" /\ check.chunk = <<>> /\ check.hashed = <<>> /\ check.sum = 0
        /\ store.pc = "idle" /\ store.data = <<>> /\ uploaded = <<>>
    BY DEF VerifyInit
  <1>8. VerOuter
    <2>1. \E rest \in Seq(Nat) : uploaded = (check.hashed \o check.chunk) \o rest
      BY <1>6, <1>7, NoBytes, Zenon
    <2>2. QED
      BY <1>1, <1>2, <1>3, <1>4, <1>6, <1>7, <2>1, NoBytes, Zenon DEF VerOuter
  <1>9. VerInner
    BY <1>1, <1>2, <1>3, <1>6, <1>7, NoBytes, SMTT(20) DEF VerInner
  <1>10. QED
    BY <1>5, <1>8, <1>9 DEF VerInv

\* The check fails: the inner store sees a channel that was dropped, not ended.
LEMMA CheckFailsKeeps ==
    ASSUME VerInv, CheckFails, check.pc # "ok", UNCHANGED <<checks, uploaded>>,
           store' = store \/ store' = [store EXCEPT !.pc = "err"]
    PROVE  VerInv'
PROOF
  <1>0. VerTypes /\ VerOuter /\ VerInner /\ Bounded(inner) /\ Bounded(outer)
    BY DEF VerInv, VerTypes
  <1>1. /\ Bounded(inner') /\ inner'.rx = inner.rx /\ inner'.q = inner.q
        /\ inner'.queued = inner.queued /\ inner'.eof_sent = inner.eof_sent
        /\ Bounded(outer')
    BY <1>0, EndFacts, Zenon DEF CheckFails
  <1>2. /\ check'.pc = "err" /\ check'.hashed = check.hashed /\ check'.chunk = check.chunk
        /\ check'.sum = check.sum
        /\ check' \in [pc : {"start", "recv", "peek", "pass", "ok", "err"}, chunk : Seq(Nat),
                       sum : Nat, hashed : Seq(Nat)]
    BY <1>0, Zenon DEF VerTypes, CheckFails
  <1>3. /\ store'.data = store.data /\ (store'.pc = store.pc \/ store'.pc = "err")
        /\ store' \in [pc : {"idle", "recv", "committed", "err"}, data : Seq(Nat)]
    BY <1>0 DEF VerTypes
  <1>4. VerTypes'
    BY <1>0, <1>1, <1>2, <1>3 DEF VerTypes
  <1>5. VerOuter'
    BY <1>0, <1>2, Zenon DEF VerOuter
  <1>6. ~inner.eof_sent /\ store.pc # "committed"
    BY <1>0 DEF VerInner
  <1>7. VerInner'
    BY <1>0, <1>1, <1>2, <1>3, <1>6, Zenon DEF VerInner
  <1>8. QED
    BY <1>4, <1>5, <1>7, SMTT(20) DEF VerInv

LEMMA CallerSendsKeeps ==
    ASSUME VerInv, NEW chunk \in UploadChunks, CallerSends(chunk)
    PROVE  VerInv'
PROOF
  <1>0. /\ VerTypes /\ VerOuter /\ VerInner /\ Bounded(outer) /\ CanSend(outer)
        /\ outer' = SendTo(outer, chunk) /\ uploaded' = uploaded \o chunk
        /\ UNCHANGED <<checks, inner, check, store>>
        /\ chunk \in Seq(Nat) /\ uploaded \in Seq(Nat)
        /\ check.hashed \in Seq(Nat) /\ check.chunk \in Seq(Nat)
    BY VerifyAssumption DEF VerInv, VerTypes, CallerSends
  <1> DEFINE head == check.hashed \o check.chunk
  <1>1. head \in Seq(Nat) /\ uploaded' \in Seq(Nat)
    BY <1>0, BytesConcat, Zenon
  <1>2. check' = check /\ head' = head
    BY <1>0
  <1> HIDE DEF head
  <1>3. \E rest \in Seq(Nat) : uploaded' = head \o rest
    <2>1. PICK rest \in Seq(Nat) : uploaded = head \o rest
      BY <1>0, Zenon DEF VerOuter, head
    <2>2. rest \o chunk \in Seq(Nat)
      BY <1>0, BytesConcat, Zenon
    <2>3. (head \o rest) \o chunk = head \o (rest \o chunk)
      <3>1. head \in Seq(Nat) /\ chunk \in Seq(Nat)
        BY <1>0, <1>1, SMTT(20)
      <3>2. QED
        BY <3>1, BytesConcat, SMTT(20)
    <2>4. QED
      BY <1>0, <2>1, <2>2, <2>3, Zenon
  <1>4. Bounded(outer') /\ (check.pc # "err" => outer'.rx /\ uploaded' = head \o Remaining(outer'))
    <2>1. CASE outer.rx
      <3>1. Bounded(outer') /\ outer'.rx /\ Remaining(outer') = Remaining(outer) \o chunk
        BY <1>0, <2>1, SendFacts, Zenon
      <3>2. Remaining(outer) \in Seq(Nat)
        <4>1. Bytes(outer.q) \in Seq(Nat) /\ Bytes(outer.queued) \in Seq(Nat)
          BY <1>0, BytesType, SMTT(20) DEF Bounded, Channels
        <4>2. QED
          BY <4>1, BytesConcat, Zenon DEF Remaining
      <3>3. (head \o Remaining(outer)) \o chunk = head \o (Remaining(outer) \o chunk)
        BY <1>0, <1>1, <3>2, BytesConcat, SMTT(20)
      <3>4. check.pc # "err" => uploaded = head \o Remaining(outer)
        BY <1>0, Zenon DEF VerOuter, head
      <3>5. QED
        BY <1>0, <3>1, <3>3, <3>4, Zenon
    <2>2. CASE ~outer.rx
      <3>1. outer' = DropTx(outer) /\ check.pc = "err"
        BY <1>0, <2>2, Zenon DEF SendTo, DropTx, VerOuter
      <3>2. QED
        BY <1>0, <3>1, EndFacts, Zenon
    <2>3. QED
      BY <2>1, <2>2
  <1>5. VerTypes'
    BY <1>0, <1>1, <1>4 DEF VerTypes
  <1>6. VerOuter'
    BY <1>0, <1>2, <1>3, <1>4, Zenon DEF VerOuter, head
  <1>7. VerInner'
    BY <1>0, Zenon DEF VerInner, SizeOk, HashOk
  <1>8. QED
    BY <1>5, <1>6, <1>7 DEF VerInv

LEMMA CallerEndsKeeps == ASSUME VerInv, CallerEnds PROVE VerInv'
PROOF
  <1>0. /\ VerTypes /\ VerOuter /\ VerInner /\ Bounded(outer)
        /\ outer' \in {DropTx(outer), SendEof(outer)}
        /\ UNCHANGED <<checks, inner, check, store, uploaded>>
    BY DEF VerInv, VerTypes, CallerEnds
  <1>1. Bounded(outer') /\ outer'.rx = outer.rx /\ Remaining(outer') = Remaining(outer)
    BY <1>0, EndFacts, Zenon
  <1>2. VerTypes'
    BY <1>0, <1>1, SMTT(20) DEF VerTypes
  <1>3. VerOuter'
    BY <1>0, <1>1, Zenon DEF VerOuter
  <1>4. VerInner'
    BY <1>0, Zenon DEF VerInner, SizeOk, HashOk
  <1>5. QED
    BY <1>2, <1>3, <1>4 DEF VerInv

LEMMA StartUpdateKeeps == ASSUME VerInv, StartUpdate PROVE VerInv'
PROOF
  <1>0. VerTypes /\ VerOuter /\ VerInner /\ check.pc = "start" /\ UNCHANGED <<checks, uploaded>>
    BY DEF VerInv, StartUpdate
  <1>1. CASE CheckFails /\ store' = [store EXCEPT !.pc = "err"]
    BY <1>0, <1>1, CheckFailsKeeps
  <1>2. CASE /\ check' = [check EXCEPT !.pc = "recv"] /\ store' = [store EXCEPT !.pc = "recv"]
             /\ UNCHANGED <<outer, inner, failures>>
    <2>1. /\ check'.pc = "recv" /\ check'.hashed = check.hashed /\ check'.chunk = check.chunk
          /\ check'.sum = check.sum
          /\ check' \in [pc : {"start", "recv", "peek", "pass", "ok", "err"}, chunk : Seq(Nat),
                         sum : Nat, hashed : Seq(Nat)]
      BY <1>0, <1>2, Zenon DEF VerTypes
    <2>2. /\ store'.data = store.data /\ store'.pc = "recv"
          /\ store' \in [pc : {"idle", "recv", "committed", "err"}, data : Seq(Nat)]
      BY <1>0, <1>2, Zenon DEF VerTypes
    <2>3. VerTypes'
      BY <1>0, <1>2, <2>1, <2>2 DEF VerTypes
    <2>4. VerOuter'
      BY <1>0, <1>2, <2>1, Zenon DEF VerOuter
    <2>5. VerInner'
      BY <1>0, <1>2, <2>1, <2>2 DEF VerInner
    <2>6. QED
      BY <2>3, <2>4, <2>5 DEF VerInv
  <1>3. QED
    BY <1>1, <1>2 DEF StartUpdate

LEMMA CheckRecvKeeps == ASSUME VerInv, CheckRecv PROVE VerInv'
PROOF
  <1> DEFINE got == Recv(outer)
             n == check.sum + Len(got.chunk)
             pc == IF checks.size /\ n = DigestSize THEN "peek" ELSE "pass"
  <1>0. /\ VerTypes /\ VerOuter /\ VerInner /\ check.pc = "recv" /\ UNCHANGED <<checks, store, uploaded>>
        /\ Bounded(outer)
    BY DEF VerInv, VerTypes, CheckRecv
  <1>1. CASE CheckFails
    BY <1>0, <1>1, CheckFailsKeeps, SMTT(20)
  <1>2. CASE ~CheckFails
    <2>1. /\ outer' = got.ch /\ check' = [check EXCEPT !.pc = pc, !.chunk = got.chunk, !.sum = n]
          /\ UNCHANGED inner
      BY <1>2 DEF CheckRecv
    <2>2. Takes(outer, got)
      BY <1>0, RecvFacts, SMTT(20)
    <2>3. /\ Bounded(got.ch) /\ got.ch.rx = outer.rx /\ got.chunk \in Seq(Nat)
          /\ Remaining(outer) = got.chunk \o Remaining(got.ch)
      BY <2>2 DEF Takes
    <2>4. /\ check.chunk = <<>> /\ check.hashed \in Seq(Nat) /\ outer.rx
          /\ check.sum = Len(check.hashed) + Len(check.chunk)
          /\ uploaded = (check.hashed \o check.chunk) \o Remaining(outer)
      BY <1>0, Zenon DEF VerOuter, VerTypes
    <2>5. check.sum = Len(check.hashed) /\ check.sum \in Nat /\ Len(got.chunk) \in Nat
      <3>1. Len(check.hashed) \in Nat /\ Len(<<>>) = 0 /\ Len(got.chunk) \in Nat
        BY <2>3, <2>4, BytesConcat, NoBytes, Zenon
      <3> HIDE DEF got
      <3>2. QED
        BY <2>4, <3>1
    <2>6. n \in Nat /\ pc \in {"peek", "pass"}
      <3>1. \A a, b \in Nat : a + b \in Nat
        OBVIOUS
      <3>2. n \in Nat
        BY <2>5, <3>1, Zenon
      <3> HIDE DEF n
      <3>3. QED
        BY <3>2
    <2> DEFINE chunk == got.chunk
               d == got.ch
    <2> HIDE DEF got, chunk, d, pc
    <2>7. /\ check'.pc = pc /\ check'.hashed = check.hashed /\ check'.chunk = chunk
          /\ check'.sum = n
          /\ check' \in [pc : {"start", "recv", "peek", "pass", "ok", "err"}, chunk : Seq(Nat),
                         sum : Nat, hashed : Seq(Nat)]
      <3> HIDE DEF n
      <3>1. QED
        BY <1>0, <2>1, <2>3, <2>6, Zenon DEF VerTypes, chunk
    <2>8. VerTypes'
      BY <1>0, <2>1, <2>3, <2>7 DEF VerTypes
    <2>9. uploaded = (check.hashed \o chunk) \o Remaining(d) /\ Remaining(d) \in Seq(Nat)
      <3>1. Bytes(d.q) \in Seq(Nat) /\ Bytes(d.queued) \in Seq(Nat)
        BY <2>3, BytesType, SMTT(20) DEF Bounded, Channels, d
      <3>2. Remaining(d) \in Seq(Nat)
        BY <3>1, BytesConcat, Zenon DEF Remaining
      <3>3. check.hashed \o <<>> = check.hashed
        BY <2>4, BytesConcat, Zenon
      <3>4. (check.hashed \o chunk) \o Remaining(d) = check.hashed \o (chunk \o Remaining(d))
        BY <2>3, <2>4, <3>2, BytesConcat, Zenon DEF chunk
      <3>5. QED
        BY <2>3, <2>4, <3>2, <3>3, <3>4, Zenon DEF chunk, d
    <2>10. VerOuter'
      <3>1. check'.pc \notin {"start", "recv", "ok"} /\ check'.sum = Len(check'.hashed) + Len(check'.chunk)
        BY <2>5, <2>6, <2>7, Zenon DEF chunk, n
      <3>2. QED
        BY <1>0, <2>1, <2>3, <2>4, <2>7, <2>9, <3>1, Zenon DEF VerOuter, d
    <2>11. VerInner'
      <3>1. check'.pc \notin {"start", "ok"}
        BY <2>6, <2>7
      <3>2. QED
        BY <1>0, <2>1, <2>7, <3>1, Zenon DEF VerInner
    <2>12. QED
      BY <2>8, <2>10, <2>11 DEF VerInv
  <1>3. QED
    BY <1>1, <1>2

LEMMA CheckPeekKeeps == ASSUME VerInv, CheckPeek PROVE VerInv'
PROOF
  <1> DEFINE got == Peek1(outer)
  <1>0. /\ VerTypes /\ VerOuter /\ VerInner /\ check.pc = "peek" /\ UNCHANGED <<checks, store, uploaded>>
        /\ Bounded(outer)
    BY DEF VerInv, VerTypes, CheckPeek
  <1>1. CASE CheckFails
    BY <1>0, <1>1, CheckFailsKeeps, SMTT(20)
  <1>2. CASE ~CheckFails
    <2>1. outer' = got.ch /\ check' = [check EXCEPT !.pc = "pass"] /\ UNCHANGED inner
      BY <1>2 DEF CheckPeek
    <2>2. Bounded(got.ch) /\ got.ch.rx = outer.rx /\ Remaining(got.ch) = Remaining(outer)
      BY <1>0, PeekFacts
    <2> HIDE DEF got
    <2>3. /\ check'.pc = "pass" /\ check'.hashed = check.hashed /\ check'.chunk = check.chunk
          /\ check'.sum = check.sum
          /\ check' \in [pc : {"start", "recv", "peek", "pass", "ok", "err"}, chunk : Seq(Nat),
                         sum : Nat, hashed : Seq(Nat)]
      BY <1>0, <2>1, Zenon DEF VerTypes
    <2>4. VerTypes'
      BY <1>0, <2>1, <2>2, <2>3 DEF VerTypes
    <2>5. VerOuter'
      BY <1>0, <2>1, <2>2, <2>3, Zenon DEF VerOuter
    <2>6. VerInner'
      BY <1>0, <2>1, <2>3, Zenon DEF VerInner
    <2>7. QED
      BY <2>4, <2>5, <2>6 DEF VerInv
  <1>3. QED
    BY <1>1, <1>2

\* The end of the upload ends the inner channel after both verdicts; a chunk is
\* hashed as it is sent on.
LEMMA CheckPassKeeps == ASSUME VerInv, CheckPass PROVE VerInv'
PROOF
  <1>0. /\ VerTypes /\ VerOuter /\ VerInner /\ check.pc = "pass" /\ UNCHANGED <<checks, store, uploaded>>
        /\ Bounded(outer) /\ Bounded(inner)
        /\ check.hashed \in Seq(Nat) /\ check.chunk \in Seq(Nat)
        /\ ~inner.eof_sent /\ store.pc # "committed"
    BY DEF VerInv, VerTypes, VerInner, CheckPass
  <1>1. CASE CheckFails
    BY <1>0, <1>1, CheckFailsKeeps, SMTT(20)
  <1>2. CASE ~CheckFails /\ check.chunk = Eof
    <2>1. /\ SizeOk /\ HashOk /\ inner' = SendEof(inner) /\ check' = [check EXCEPT !.pc = "ok"]
          /\ UNCHANGED outer
      BY <1>2 DEF CheckPass
    <2>2. /\ check'.pc = "ok" /\ check'.hashed = check.hashed /\ check'.chunk = check.chunk
          /\ check'.sum = check.sum
          /\ check' \in [pc : {"start", "recv", "peek", "pass", "ok", "err"}, chunk : Seq(Nat),
                         sum : Nat, hashed : Seq(Nat)]
      BY <1>0, <2>1, Zenon DEF VerTypes
    <2>3. Bounded(inner') /\ inner'.rx = inner.rx /\ inner'.q = inner.q /\ inner'.queued = inner.queued
      BY <1>0, <2>1, EndFacts, Zenon
    <2>4. VerTypes'
      BY <1>0, <2>1, <2>2, <2>3 DEF VerTypes
    <2>5. VerOuter'
      BY <1>0, <1>2, <2>1, <2>2, Zenon DEF VerOuter, Eof
    <2>6. VerInner'
      BY <1>0, <2>1, <2>2, <2>3, Zenon DEF VerInner, SizeOk, HashOk
    <2>7. QED
      BY <2>4, <2>5, <2>6 DEF VerInv
  <1>3. CASE ~CheckFails /\ check.chunk # Eof
    <2> DEFINE h == check.hashed
               chunk == check.chunk
               x == h \o chunk
    <2>1. /\ CanSend(inner) /\ inner.rx /\ inner' = SendTo(inner, check.chunk)
          /\ check' = [check EXCEPT !.pc = "recv", !.chunk = <<>>, !.hashed = x]
          /\ UNCHANGED outer
      BY <1>3 DEF CheckPass
    <2>2. x \in Seq(Nat) /\ Len(x) = Len(h) + Len(chunk) /\ x \o <<>> = x
      BY <1>0, BytesConcat, Zenon
    <2>3. /\ h \in Seq(Nat) /\ chunk \in Seq(Nat) /\ chunk # <<>>
          /\ Len(h) \in Nat /\ Len(chunk) \in Nat /\ Len(<<>>) = 0
      BY <1>0, <1>3, BytesConcat, NoBytes, Zenon DEF Eof
    <2>4. /\ check.sum = Len(h) + Len(chunk) /\ outer.rx /\ uploaded = x \o Remaining(outer)
          /\ \E rest \in Seq(Nat) : uploaded = x \o rest
      BY <1>0, Zenon DEF VerOuter
    <2>5. /\ Bounded(inner') /\ inner'.rx /\ inner'.eof_sent = inner.eof_sent
          /\ inner'.queued = inner.queued /\ inner'.q = Append(inner.q, chunk)
          /\ Bytes(inner'.q) = Bytes(inner.q) \o chunk
      BY <1>0, <2>1, <2>3, SendFacts, Zenon
    <2> HIDE DEF x
    <2>6. /\ check'.pc = "recv" /\ check'.hashed = x /\ check'.chunk = <<>>
          /\ check'.sum = check.sum
          /\ check' \in [pc : {"start", "recv", "peek", "pass", "ok", "err"}, chunk : Seq(Nat),
                         sum : Nat, hashed : Seq(Nat)]
      BY <1>0, <2>1, <2>2, NoBytes, Zenon DEF VerTypes
    <2> HIDE DEF h, chunk
    <2>7. VerTypes'
      BY <1>0, <2>1, <2>5, <2>6 DEF VerTypes
    <2>8. VerOuter'
      <3>1. \A m, n \in Nat : m + n = (m + n) + 0
        OBVIOUS
      <3>2. check'.sum = Len(check'.hashed) + Len(check'.chunk)
        BY <2>2, <2>3, <2>4, <2>6, <3>1, Zenon
      <3>3. QED
        BY <1>0, <2>1, <2>2, <2>4, <2>6, <3>2, Zenon DEF VerOuter
    <2>9. VerInner'
      <3>1. store.pc # "err" => x = store.data \o Bytes(inner'.q)
        <4>1. SUFFICES ASSUME store.pc # "err" PROVE x = store.data \o Bytes(inner'.q)
          BY Zenon
        <4>2. h = store.data \o Bytes(inner.q)
          BY <1>0, <4>1, Zenon DEF VerInner, h
        <4>3. store.data \in Seq(Nat) /\ Bytes(inner.q) \in Seq(Nat)
          BY <1>0, BytesType DEF VerTypes, Bounded, Channels
        <4>4. (store.data \o Bytes(inner.q)) \o chunk = store.data \o (Bytes(inner.q) \o chunk)
          BY <2>3, <4>3, BytesConcat
        <4>5. QED
          BY <2>5, <4>2, <4>4, Zenon DEF x
      <3>2. \A i \in 1..Len(inner'.q) : inner'.q[i] # <<>>
        <4> DEFINE q == inner.q
                   r == Append(q, chunk)
        <4>1. q \in Seq(Seq(Nat)) /\ \A i \in 1..Len(q) : q[i] # <<>>
          BY <1>0 DEF VerInner, Bounded, Channels, Chunks
        <4>2. /\ Len(r) = Len(q) + 1 /\ Len(q) \in Nat
              /\ \A i \in 1..Len(q) : r[i] = q[i]
              /\ r[Len(q) + 1] = chunk
          <5> HIDE DEF q
          <5>1. QED
            BY <2>3, <4>1, AppendProperties, LenProperties
        <4> HIDE DEF q, r
        <4>3. ASSUME NEW i \in 1..Len(r) PROVE r[i] # <<>>
          <5>1. i \in 1..Len(q) \/ i = Len(q) + 1
            BY <4>2
          <5>2. QED
            BY <2>3, <4>1, <4>2, <5>1, Zenon
        <4>4. QED
          BY <2>5, <4>3, Zenon DEF r, q
      <3>3. QED
        BY <1>0, <2>1, <2>5, <2>6, <3>1, <3>2, Zenon DEF VerInner
    <2>10. QED
      BY <2>7, <2>8, <2>9 DEF VerInv
  <1>4. QED
    BY <1>1, <1>2, <1>3

\* The inner store fails, of itself or because the channel was dropped.
LEMMA InnerDropsKeeps ==
    ASSUME VerInv, store.pc = "recv", store' = [store EXCEPT !.pc = "err"], inner' = DropRx(inner),
           UNCHANGED <<checks, outer, check, uploaded>>
    PROVE  VerInv'
PROOF
  <1>0. VerTypes /\ VerOuter /\ VerInner /\ Bounded(inner)
    BY DEF VerInv, VerTypes
  <1>1. /\ Bounded(inner') /\ inner'.eof_sent = inner.eof_sent /\ inner'.q = <<>>
        /\ inner'.queued = inner.queued
    BY <1>0, EndFacts, Zenon
  <1>2. /\ store'.pc = "err"
        /\ store' \in [pc : {"idle", "recv", "committed", "err"}, data : Seq(Nat)]
    BY <1>0, Zenon DEF VerTypes
  <1>3. VerTypes'
    BY <1>0, <1>1, <1>2 DEF VerTypes
  <1>4. VerOuter'
    BY <1>0, Zenon DEF VerOuter
  <1>5. VerInner'
    <2>1. 1..Len(<<>>) = {}
      BY NoBytes
    <2>2. QED
      BY <1>0, <1>1, <1>2, <2>1 DEF VerInner, SizeOk, HashOk
  <1>6. QED
    BY <1>3, <1>4, <1>5, SMTT(20) DEF VerInv

LEMMA InnerRecvKeeps == ASSUME VerInv, InnerRecv PROVE VerInv'
PROOF
  <1> DEFINE got == Recv(inner)
             chunk == got.chunk
             d == got.ch
  <1>0. /\ VerTypes /\ VerOuter /\ VerInner /\ store.pc = "recv" /\ Bounded(inner)
        /\ UNCHANGED <<checks, outer, check, uploaded>>
        /\ inner.queued = <<>> /\ inner.rx /\ check.hashed = store.data \o Bytes(inner.q)
        /\ check.pc # "start" /\ store.data \in Seq(Nat) /\ inner.q \in Chunks /\ Len(inner.q) <= 2
        /\ \A i \in 1..Len(inner.q) : inner.q[i] # <<>>
    BY SMTT(20) DEF VerInv, VerTypes, VerInner, InnerRecv, Bounded, Channels, ChannelSize
  <1>1. /\ Bounded(d) /\ d.rx = inner.rx /\ d.eof_sent = inner.eof_sent /\ d.queued = <<>>
        /\ got.ok => \/ inner.q # <<>> /\ chunk = Head(inner.q) /\ d.q = Tail(inner.q)
                     \/ inner.q = <<>> /\ chunk = <<>> /\ d.q = <<>> /\ inner.eof_sent
    BY <1>0, RecvFacts, Zenon DEF Takes
  <1>2. inner.q # <<>> => Head(inner.q) # <<>>
    <2> DEFINE q == inner.q
    <2>1. q # <<>> => 1 \in 1..Len(q) /\ Head(q) = q[1]
      BY <1>0, SMTT(20) DEF Chunks
    <2>2. QED
      BY <1>0, <2>1, Zenon
  <1>3. VerOuter'
    BY <1>0, Zenon DEF VerOuter
  <1>4. CASE ~got.ok
    BY <1>0, <1>4, InnerDropsKeeps DEF InnerRecv
  <1>5. CASE got.ok /\ chunk = Eof
    <2>1. store' = [store EXCEPT !.pc = "committed"] /\ inner' = d
      BY <1>5 DEF InnerRecv
    <2>2. inner.q = <<>> /\ d.q = <<>> /\ d.eof_sent
      BY <1>1, <1>2, <1>5, Zenon DEF Eof
    <2> HIDE DEF got, d, chunk
    <2>3. /\ store'.pc = "committed" /\ store'.data = store.data
          /\ store' \in [pc : {"idle", "recv", "committed", "err"}, data : Seq(Nat)]
      BY <1>0, <2>1, Zenon DEF VerTypes
    <2>4. VerTypes'
      BY <1>0, <1>1, <2>1, <2>3 DEF VerTypes
    <2>5. VerInner'
      BY <1>0, <1>1, <2>1, <2>2, <2>3, Zenon DEF VerInner, SizeOk, HashOk
    <2>6. QED
      BY <1>3, <2>4, <2>5 DEF VerInv
  <1>6. CASE got.ok /\ chunk # Eof
    <2> DEFINE x == store.data \o chunk
               q == inner.q
    <2>1. store' = [store EXCEPT !.data = x] /\ inner' = d
      BY <1>6, Zenon DEF InnerRecv
    <2>2. q # <<>> /\ chunk = Head(q) /\ d.q = Tail(q)
      BY <1>1, <1>6, Zenon DEF Eof
    <2>3. /\ chunk \in Seq(Nat) /\ Bytes(q) = chunk \o Bytes(d.q) /\ d.q \in Chunks
      BY <1>0, <2>2, BytesHead, Zenon
    <2>4. x \in Seq(Nat)
      BY <1>0, <2>3, BytesConcat, Zenon
    <2> HIDE DEF got, d, chunk
    <2>5. check.hashed = x \o Bytes(d.q)
      <3>1. Bytes(d.q) \in Seq(Nat)
        BY <2>3, BytesType, SMTT(20)
      <3>2. (store.data \o chunk) \o Bytes(d.q) = store.data \o (chunk \o Bytes(d.q))
        <4>1. store.data \in Seq(Nat) /\ chunk \in Seq(Nat)
          BY <1>0, <2>3
        <4>2. QED
          BY <3>1, <4>1, BytesConcat, Zenon
      <3>3. QED
        BY <1>0, <2>3, <3>2, Zenon
    <2> HIDE DEF x
    <2>6. /\ store'.pc = "recv" /\ store'.data = x
          /\ store' \in [pc : {"idle", "recv", "committed", "err"}, data : Seq(Nat)]
      BY <1>0, <2>1, <2>4, Zenon DEF VerTypes
    <2>7. \A i \in 1..Len(d.q) : d.q[i] # <<>>
      <3> DEFINE r == Tail(q)
      <3>1. q \in Seq(Seq(Nat)) /\ \A i \in 1..Len(q) : q[i] # <<>>
        BY <1>0 DEF Chunks
      <3> HIDE DEF q
      <3>2. Len(r) = Len(q) - 1 /\ Len(q) \in Nat /\ \A i \in 1..Len(r) : r[i] = q[i + 1]
        BY <2>2, <3>1, HeadTailProperties, LenProperties, SMTT(20)
      <3> HIDE DEF r
      <3>3. ASSUME NEW i \in 1..Len(r) PROVE r[i] # <<>>
        <4>1. i + 1 \in 1..Len(q)
          BY <3>2
        <4>2. QED
          BY <3>1, <3>2, <4>1, Zenon
      <3>4. QED
        BY <2>2, <3>3, Zenon DEF r
    <2>8. VerTypes'
      BY <1>0, <1>1, <2>1, <2>6, SMTT(20) DEF VerTypes
    <2>9. VerInner'
      BY <1>0, <1>1, <2>1, <2>5, <2>6, <2>7, Zenon DEF VerInner, SizeOk, HashOk
    <2>10. QED
      BY <1>3, <2>8, <2>9 DEF VerInv
  <1>7. QED
    BY <1>4, <1>5, <1>6, SMTT(20)

LEMMA VerStep == VerInv /\ [VerifyNext]_verifyVars => VerInv'
PROOF
  <1> SUFFICES ASSUME VerInv, [VerifyNext]_verifyVars PROVE VerInv'
    OBVIOUS
  <1>1. CASE UNCHANGED verifyVars
    BY <1>1, Zenon DEF verifyVars, VerInv, VerTypes, VerOuter, VerInner, SizeOk, HashOk
  <1>2. CASE InnerFails
    BY <1>2, InnerDropsKeeps DEF InnerFails
  <1>3. QED
    BY <1>1, <1>2, CallerSendsKeeps, CallerEndsKeeps, StartUpdateKeeps, CheckRecvKeeps, CheckPeekKeeps,
       CheckPassKeeps, InnerRecvKeeps DEF VerifyNext

LEMMA VerCommitted == VerInv => CommittedIsVerified
PROOF
  <1> SUFFICES ASSUME VerInv, store.pc = "committed"
               PROVE  /\ checks.hash => store.data = Content
                      /\ checks.size => Len(store.data) = DigestSize
                      /\ IsPrefix(store.data, uploaded)
    BY DEF CommittedIsVerified
  <1> DEFINE s == store.data
  <1>1. /\ s \in Seq(Nat) /\ inner.q = <<>> /\ check.hashed = s \o Bytes(inner.q)
        /\ check.pc = "ok" /\ SizeOk /\ HashOk /\ check.chunk = <<>>
        /\ check.sum = Len(check.hashed) + Len(check.chunk)
    BY SMTT(20) DEF VerInv, VerTypes, VerInner, VerOuter
  <1>2. check.hashed = s /\ s \o <<>> = s /\ Len(s) \in Nat
    BY <1>1, NoBytes, BytesConcat, Zenon
  <1>3. check.sum = Len(s)
    <2>1. \A n \in Nat : n + 0 = n
      OBVIOUS
    <2>2. QED
      BY <1>1, <1>2, <2>1, NoBytes, Zenon
  <1>4. PICK rest \in Seq(Nat) : uploaded = s \o rest
    BY <1>1, <1>2, Zenon DEF VerInv, VerOuter
  <1> HIDE DEF s
  <1>5. IsPrefix(s, s \o rest)
    <2> DEFINE u == s \o rest
               n == Len(s)
    <2>1. /\ u \in Seq(Nat) /\ Len(u) = Len(s) + Len(rest) /\ Len(rest) \in Nat
          /\ \A i \in 1..(Len(s) + Len(rest)) : u[i] = IF i <= Len(s) THEN s[i] ELSE rest[i - Len(s)]
      BY <1>1, ConcatProperties, LenProperties, SMTT(20)
    <2> HIDE DEF u
    <2>2. n <= Len(u) /\ \A i \in 1..n : u[i] = s[i]
      BY <1>2, <2>1, SMTT(20)
    <2>3. SubSeq(s, 1, n) = SubSeq(u, 1, n)
      BY <1>1, <1>2, <2>1, <2>2, SMTT(20)
    <2>4. QED
      BY <2>2, <2>3, SMTT(20) DEF IsPrefix, u
  <1>6. QED
    BY <1>1, <1>2, <1>3, <1>4, <1>5, Zenon DEF s, SizeOk, HashOk

\* What the inner store of a VerifyStore commits is what was verified, for any
\* content, any chunks and any claimed size: the end of the inner channel is sent
\* after both verdicts only, and nothing that was not hashed is ahead of it.
THEOREM CommitsAreVerified == VerifySpec => []CommittedIsVerified
PROOF
  <1>1. VerifyInit => VerInv
    BY VerInitially
  <1>2. QED
    BY <1>1, VerStep, VerCommitted, PTL DEF VerifySpec
=============================================================================
