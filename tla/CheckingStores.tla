--------------------------- MODULE CheckingStores ---------------------------
(***************************************************************************)
(* Stores that check what passes through them: verify_store.rs an upload,  *)
(* completeness_checking_store.rs an action result.                        *)
(***************************************************************************)
EXTENDS BufChannel, FiniteSets

(***************************************************************************)
(* nativelink-store/src/verify_store.rs: an upload passes through a check  *)
(* of its size and hash on its way to the inner store.  The check and the  *)
(* inner store's update run concurrently, joined by a second buffer        *)
(* channel, so the inner store holds data before it is known to be good.   *)
(***************************************************************************)

CONSTANTS
    Content,       \* the bytes whose hash and size the digest states
    UploadChunks,  \* the chunks an upload is made of
    MaxUpload,     \* bound on the bytes of an upload
    UploadSizes,   \* ExactSize values claimed by the caller; NoSize for MaxSize
    NoSize

ASSUME VerifyAssumption == Content \in Seq(Nat) /\ UploadChunks \subseteq Seq(Nat)

VARIABLES
    checks,    \* [size, hash |-> BOOLEAN]: verify_size, verify_hash
    claimed,   \* size_info of the call
    outer,     \* channel from the caller
    inner,     \* channel to the inner store
    check,     \* inner_check_update(): [pc, chunk, sum, hashed]
    store,     \* inner update: [pc, data]
    uploaded,  \* ghost: bytes the caller sent
    failures   \* [size, hash]: the counters of failed verifications

verifyVars == <<checks, claimed, outer, inner, check, store, uploaded, failures>>

VerifyInit ==
    /\ checks \in [size : BOOLEAN, hash : BOOLEAN]
    /\ claimed \in UploadSizes
    /\ outer = MakeBufChannelPair(0) /\ inner = MakeBufChannelPair(0)
    /\ check = [pc |-> "start", chunk |-> <<>>, sum |-> 0, hashed |-> <<>>]
    /\ store = [pc |-> "idle", data |-> <<>>]
    /\ uploaded = <<>>
    /\ failures = [size |-> 0, hash |-> 0]

DigestSize == Len(Content)

-----------------------------------------------------------------------------
(* The caller: sends chunks, and ends with EOF or by dropping its half.     *)

CallerSends(chunk) ==
    /\ CanSend(outer) /\ Len(uploaded) + Len(chunk) <= MaxUpload
    /\ outer' = SendTo(outer, chunk)
    /\ uploaded' = uploaded \o chunk
    /\ UNCHANGED <<checks, claimed, inner, check, store, failures>>

CallerEnds ==
    /\ outer.tx
    /\ outer' \in {SendEof(outer), DropTx(outer)}
    /\ UNCHANGED <<checks, claimed, inner, check, store, uploaded, failures>>

-----------------------------------------------------------------------------
(* update() and inner_check_update()                                        *)

Counted(which) == failures' = [failures EXCEPT ![which] = @ + 1]

\* The check fails: both of its channel halves are dropped.
CheckFails ==
    /\ check' = [check EXCEPT !.pc = "err"]
    /\ outer' = DropRx(outer)
    /\ inner' = DropTx(inner)

\* An exact size that is not the digest's is refused before anything is read.
StartUpdate ==
    /\ check.pc = "start"
    /\ IF checks.size /\ claimed # NoSize /\ claimed # DigestSize
       THEN Counted("size") /\ CheckFails /\ store' = [store EXCEPT !.pc = "err"]
       ELSE /\ check' = [check EXCEPT !.pc = "recv"]
            /\ store' = [store EXCEPT !.pc = "recv"]
            /\ UNCHANGED <<outer, inner, failures>>
    /\ UNCHANGED <<checks, claimed, uploaded>>

\* Mutant: only the end of the stream looks at the size.
TooLargeNever(sum) == FALSE

TooLarge(sum) == checks.size /\ sum > DigestSize

CheckRecv ==
    /\ check.pc = "recv" /\ Ready(outer)
    /\ LET got == Recv(outer)
           sum == check.sum + Len(got.chunk)
       IN  IF ~got.ok THEN CheckFails /\ UNCHANGED failures
           ELSE IF TooLarge(sum) THEN CheckFails /\ Counted("size")
           ELSE /\ outer' = got.ch
                /\ check' = [check EXCEPT !.pc = IF checks.size /\ sum = DigestSize THEN "peek" ELSE "pass",
                                          !.chunk = got.chunk, !.sum = sum]
                /\ UNCHANGED <<inner, failures>>
    /\ UNCHANGED <<checks, claimed, store, uploaded>>

\* At the exact size the next chunk must be the end.  An error of the peek is
\* left to the next recv.
CheckPeek ==
    /\ check.pc = "peek" /\ Ready(outer)
    /\ LET got == Peek1(outer) IN
       IF got.ok /\ got.chunk # Eof THEN CheckFails /\ Counted("size")
       ELSE /\ outer' = got.ch
            /\ check' = [check EXCEPT !.pc = "pass"]
            /\ UNCHANGED <<inner, failures>>
    /\ UNCHANGED <<checks, claimed, store, uploaded>>

\* The verdicts at the end of the stream.
SizeOk == checks.size => check.sum = DigestSize
\* Mutant: the hash is not compared.
HashOkAlways == TRUE

HashOk == checks.hash => check.hashed = Content

CheckPass ==
    /\ check.pc = "pass"
    /\ IF check.chunk = Eof
       THEN IF ~SizeOk THEN CheckFails /\ Counted("size")
            ELSE IF ~HashOk THEN CheckFails /\ Counted("hash")
            ELSE /\ inner' = SendEof(inner)
                 /\ check' = [check EXCEPT !.pc = "ok"]
                 /\ UNCHANGED <<outer, failures>>
       ELSE /\ CanSend(inner)
            /\ IF inner.rx
               THEN /\ inner' = SendTo(inner, check.chunk)
                    /\ check' = [check EXCEPT !.pc = "recv", !.chunk = <<>>, !.hashed = @ \o check.chunk]
                    /\ UNCHANGED outer
               ELSE CheckFails
            /\ UNCHANGED failures
    /\ UNCHANGED <<checks, claimed, store, uploaded>>

-----------------------------------------------------------------------------
(* External: an inner store commits what it received when it sees EOF.      *)

InnerRecv ==
    /\ store.pc = "recv" /\ Ready(inner)
    /\ LET got == Recv(inner) IN
       IF ~got.ok THEN store' = [store EXCEPT !.pc = "err"] /\ inner' = DropRx(inner)
       ELSE IF got.chunk = Eof THEN store' = [store EXCEPT !.pc = "committed"] /\ inner' = got.ch
       ELSE store' = [store EXCEPT !.data = @ \o got.chunk] /\ inner' = got.ch
    /\ UNCHANGED <<checks, claimed, outer, check, uploaded, failures>>

InnerFails ==
    /\ store.pc = "recv"
    /\ store' = [store EXCEPT !.pc = "err"]
    /\ inner' = DropRx(inner)
    /\ UNCHANGED <<checks, claimed, outer, check, uploaded, failures>>

VerifyNext ==
    \/ \E chunk \in UploadChunks : CallerSends(chunk)
    \/ CallerEnds \/ StartUpdate \/ CheckRecv \/ CheckPeek \/ CheckPass \/ InnerRecv \/ InnerFails

VerifySpec == VerifyInit /\ [][VerifyNext]_verifyVars

\* A caller that streams reaches the end; the two joined futures are polled.
VerifyFairSpec ==
    /\ VerifySpec
    /\ WF_verifyVars(CallerEnds)
    /\ WF_verifyVars(StartUpdate \/ CheckRecv \/ CheckPeek \/ CheckPass)
    /\ WF_verifyVars(InnerRecv)

-----------------------------------------------------------------------------
\* What the inner store commits is what was verified: with verify_hash it is the
\* digest's content and with verify_size it has the digest's size, whatever is
\* still in flight when a check fails (verify_store.rs:107).
CommittedIsVerified ==
    store.pc = "committed" =>
        /\ checks.hash => store.data = Content
        /\ checks.size => Len(store.data) = DigestSize
        /\ IsPrefix(store.data, uploaded)

\* With verify_size the inner store never even sees more bytes than the digest
\* states: "Ensure if a user sends us too much data we fail quickly"
\* (verify_store.rs:77).
NeverOverfed == checks.size => Len(store.data) + LengthOf(inner.q) <= DigestSize

\* join!() has both results, so the upload is answered.
UploadEnded == check.pc \in {"ok", "err"} /\ store.pc \in {"committed", "err"}

-----------------------------------------------------------------------------
(***************************************************************************)
(* CompletenessCheckingStore: an action cache that only admits an action   *)
(* result whose parts are in the CAS.  A call decodes the results it was   *)
(* asked for in concurrent futures; each of them queues the digests it     *)
(* finds, and one checker takes the queue whenever it is notified and asks *)
(* the CAS.  Other callers put into the CAS and the action cache, and the  *)
(* CAS evicts, at any time.                                                *)
(***************************************************************************)

CONSTANTS
    AcKeys,          \* keys of the action cache
    ActionResults,   \* records [files, trees]: the digests a result names
    TreeFiles        \* digest of a tree |-> the files of its directories

VARIABLES
    ac,       \* key |-> {} or {the stored action result}
    cas,      \* the digests in the CAS
    ccCall,     \* the running call: [mode, pc]
    fut,      \* key |-> the future of the key: [pc, left, entry]
    todo,     \* digests_to_check with digests_to_check_idxs
    permit,   \* the permit of the Notify
    done,     \* State::done
    checker,  \* check_existence_fut: [pc, batch, missed]
    found,    \* key |-> whether results[i] is Some
    ccHeld,     \* digests in the CAS at some time of the call
    kept,     \* digests in the CAS all through the call
    ccServed    \* {} or {the action result get_part streamed}

ccVars == <<ac, cas, ccCall, fut, todo, permit, done, checker, found, ccHeld, kept, ccServed>>
callVars == <<ccCall, fut, todo, permit, done, checker, found, ccServed>>

TreeDigests == DOMAIN TreeFiles
AllDigests ==
    TreeDigests \cup (UNION {TreeFiles[t] : t \in TreeDigests}) \cup (UNION {r.files : r \in ActionResults})
ResultParts(r) == r.files \cup r.trees \cup UNION {TreeFiles[t] : t \in r.trees}

NoFuture == [pc |-> "none", left |-> {}, entry |-> {}]
NoChecker == [pc |-> "wait", batch |-> {}, missed |-> {}]

CcInit ==
    /\ ac \in [AcKeys -> {{}} \cup {{r} : r \in ActionResults}]
    /\ cas \in {AllDigests, {}}
    /\ ccCall = [mode |-> "none", pc |-> "idle"]
    /\ fut = [k \in AcKeys |-> NoFuture]
    /\ todo = {} /\ permit = FALSE /\ done = FALSE
    /\ checker = NoChecker
    /\ found = [k \in AcKeys |-> FALSE]
    /\ ccHeld = {} /\ kept = {} /\ ccServed = {}

-----------------------------------------------------------------------------
\* has_with_results() for all keys, or get_part() for one.
StartCall(mode, keys) ==
    /\ ccCall.pc = "idle"
    /\ mode = "get" => Cardinality(keys) = 1
    /\ ccCall' = [mode |-> mode, pc |-> "check"]
    /\ fut' = [k \in AcKeys |-> IF k \in keys THEN [NoFuture EXCEPT !.pc = "decode"] ELSE NoFuture]
    /\ todo' = {} /\ permit' = FALSE /\ done' = FALSE
    /\ checker' = NoChecker
    /\ found' = [k \in AcKeys |-> FALSE]
    /\ ccHeld' = cas /\ kept' = cas /\ ccServed' = {}
    /\ UNCHANGED <<ac, cas>>

\* Mutant: digests pushed while others wait are lost.
PushedIfEmpty(ds, k) ==
    /\ todo' = IF todo = {} THEN {<<d, k>> : d \in ds} ELSE todo
    /\ permit' = TRUE

\* The state the futures push digests to; a push notifies the checker.
Pushed(ds, k) ==
    /\ todo' = todo \cup {<<d, k>> : d \in ds}
    /\ permit' = TRUE

\* The future of a key fails: its result is unset.
FutureFails(k) ==
    /\ fut' = [fut EXCEPT ![k].pc = "failed"]
    /\ found' = [found EXCEPT ![k] = FALSE]
    /\ UNCHANGED <<todo, permit>>

\* get_digests_and_output_dirs(): the future decodes the action result and
\* queues its files, before it looks at the output directories.
DecodeResult(k) ==
    /\ ccCall.pc = "check" /\ fut[k].pc = "decode"
    /\ \/ ac[k] = {} /\ FutureFails(k)
       \/ \E r \in ac[k] :
            /\ fut' = [fut EXCEPT ![k] = [pc |-> IF r.trees = {} THEN "ok" ELSE "trees",
                                          left |-> r.trees, entry |-> {r}]]
            /\ found' = [found EXCEPT ![k] = TRUE]
            /\ Pushed(r.files, k)
    /\ UNCHANGED <<ac, cas, ccCall, done, checker, ccHeld, kept, ccServed>>

\* check_output_directories(): the trees are fetched concurrently, and a tree
\* that is missing fails the future.
CheckOutputDirectory(k, t) ==
    /\ ccCall.pc = "check" /\ fut[k].pc = "trees" /\ t \in fut[k].left
    /\ \/ t \notin cas /\ FutureFails(k)
       \/ /\ t \in cas
          /\ Pushed(TreeFiles[t], k)
          /\ fut' = [fut EXCEPT ![k].left = @ \ {t},
                                ![k].pc = IF fut[k].left = {t} THEN "ok" ELSE @]
          /\ UNCHANGED found
    /\ UNCHANGED <<ac, cas, ccCall, done, checker, ccHeld, kept, ccServed>>

\* All futures have ended: the call flags it and waits for the checker.
AllDecoded ==
    /\ ccCall.pc = "check"
    /\ \A k \in AcKeys : fut[k].pc \in {"none", "ok", "failed"}
    /\ ccCall' = [ccCall EXCEPT !.pc = "drain"]
    /\ done' = TRUE /\ permit' = TRUE
    /\ UNCHANGED <<ac, cas, fut, todo, checker, found, ccHeld, kept, ccServed>>

-----------------------------------------------------------------------------
\* Mutant: the checker does not wake itself.
RenotifyNever == FALSE

\* The permit left when the checker has woken: it notifies itself to run again
\* if the call was flagged done while there were digests left.
Renotify == done

CheckerWakes ==
    /\ ccCall.pc \in {"check", "drain"}
    /\ checker.pc = "wait" /\ permit
    /\ IF done /\ todo = {}
       THEN /\ checker' = [checker EXCEPT !.pc = "end"]
            /\ permit' = FALSE
            /\ UNCHANGED todo
       ELSE /\ checker' = [pc |-> "has", batch |-> todo, missed |-> {}]
            /\ permit' = Renotify
            /\ todo' = {}
    /\ UNCHANGED <<ac, cas, ccCall, fut, done, found, ccHeld, kept, ccServed>>

\* Mutant: the digest takes the place of the key.
MissedDigest(x) == x[1]

\* A digest that was not found stands for the key it was queued for.
MissedIndex(x) == x[2]

\* has_with_results() of the CAS looks at the digests one after the other.
CheckerHas(x) ==
    /\ ccCall.pc \in {"check", "drain"}
    /\ checker.pc = "has" /\ x \in checker.batch
    /\ checker' = [checker EXCEPT !.batch = @ \ {x},
                                  !.missed = IF x[1] \in cas THEN @ ELSE @ \cup {MissedIndex(x)}]
    /\ UNCHANGED <<ac, cas, ccCall, fut, todo, permit, done, found, ccHeld, kept, ccServed>>

\* Mutant: one missed digest hides every key.
UnsetAll(missed) == [k \in AcKeys |-> found[k] /\ missed = {}]

\* The results of the keys with a missed digest are unset.
Unset(missed) == [k \in AcKeys |-> found[k] /\ k \notin missed]

CheckerMarks ==
    /\ ccCall.pc \in {"check", "drain"}
    /\ checker.pc = "has" /\ checker.batch = {}
    /\ found' = Unset(checker.missed)
    /\ checker' = NoChecker
    /\ UNCHANGED <<ac, cas, ccCall, fut, todo, permit, done, ccHeld, kept, ccServed>>

\* An error of the CAS ends the checker and with it the whole call.
CheckerFails ==
    /\ ccCall.pc \in {"check", "drain"}
    /\ checker.pc = "has"
    /\ ccCall' = [ccCall EXCEPT !.pc = "error"]
    /\ UNCHANGED <<ac, cas, fut, todo, permit, done, checker, found, ccHeld, kept, ccServed>>

\* The call has its results; get_part goes on only if the key was complete.
CheckReturns ==
    /\ ccCall.pc = "drain" /\ checker.pc = "end"
    /\ ccCall' = [ccCall EXCEPT !.pc = IF ccCall.mode = "get" /\ \E k \in AcKeys : found[k]
                                   THEN "serve" ELSE "returned"]
    /\ UNCHANGED <<ac, cas, fut, todo, permit, done, checker, found, ccHeld, kept, ccServed>>

\* ac_store.get_part(): the action result is read a second time.
ServeResult ==
    /\ ccCall.pc = "serve"
    /\ \E k \in AcKeys : found[k] /\ ccServed' = ac[k]
    /\ ccCall' = [ccCall EXCEPT !.pc = "returned"]
    /\ UNCHANGED <<ac, cas, fut, todo, permit, done, checker, found, ccHeld, kept>>

EndCall ==
    /\ ccCall.pc \in {"returned", "error"}
    /\ ccCall' = [mode |-> "none", pc |-> "idle"]
    /\ fut' = [k \in AcKeys |-> NoFuture]
    /\ todo' = {} /\ permit' = FALSE /\ done' = FALSE
    /\ checker' = NoChecker
    /\ found' = [k \in AcKeys |-> FALSE]
    /\ ccHeld' = {} /\ kept' = {} /\ ccServed' = {}
    /\ UNCHANGED <<ac, cas>>

-----------------------------------------------------------------------------
\* update(): an action result is written, or replaced, by another caller.
UpdateResult(k, r) ==
    /\ ccCall.pc # "idle"
    /\ ac[k] # {r}
    /\ ac' = [ac EXCEPT ![k] = {r}]
    /\ UNCHANGED <<cas, ccHeld, kept, callVars>>

CasGains(d) ==
    /\ ccCall.pc # "idle" /\ d \notin cas
    /\ cas' = cas \cup {d}
    /\ ccHeld' = ccHeld \cup {d}
    /\ UNCHANGED <<ac, kept, callVars>>

CasEvicts(d) ==
    /\ ccCall.pc # "idle" /\ d \in cas
    /\ cas' = cas \ {d}
    /\ kept' = kept \ {d}
    /\ UNCHANGED <<ac, ccHeld, callVars>>

CallStep ==
    \/ \E k \in AcKeys : DecodeResult(k)
    \/ \E k \in AcKeys, t \in TreeDigests : CheckOutputDirectory(k, t)
    \/ AllDecoded
    \/ CheckerWakes
    \/ \E x \in checker.batch : CheckerHas(x)
    \/ CheckerMarks
    \/ CheckReturns
    \/ ServeResult

CcNext ==
    \/ \E mode \in {"has", "get"}, keys \in (SUBSET AcKeys) \ {{}} : StartCall(mode, keys)
    \/ CallStep
    \/ CheckerFails
    \/ EndCall
    \/ \E k \in AcKeys, r \in ActionResults : UpdateResult(k, r)
    \/ \E d \in AllDigests : CasGains(d) \/ CasEvicts(d)

CcSpec == CcInit /\ [][CcNext]_ccVars

\* The futures of the call are polled by its task until it returns.
CcFairSpec == CcSpec /\ WF_ccVars(CallStep)

-----------------------------------------------------------------------------
CcTypeOK ==
    /\ cas \subseteq AllDigests /\ ccHeld \subseteq AllDigests /\ kept \subseteq AllDigests
    /\ ccCall.pc \in {"idle", "check", "drain", "serve", "returned", "error"}
    /\ todo \subseteq AllDigests \X AcKeys
    /\ checker.pc \in {"wait", "has", "end"} /\ checker.missed \subseteq AcKeys
    /\ found \in [AcKeys -> BOOLEAN]

\* A result reported as complete: every part of the action result that was
\* decoded, the files of its trees included, was in the CAS at some time of the
\* call.  The queue is filled by several futures while the checker takes it, and
\* is taken a last time after they ended (completeness_checking_store.rs:224).
CompleteWasHeld ==
    ccCall.pc \in {"returned", "serve"} =>
        \A k \in AcKeys : found[k] => \A r \in fut[k].entry : ResultParts(r) \subseteq ccHeld

\* A stored result is hidden only if a part of it was missing at some time of
\* the call: a miss of one key never unsets another.
HiddenWasMissing ==
    ccCall.pc \in {"returned", "serve"} =>
        \A k \in AcKeys : (fut[k].pc # "none" /\ ~found[k]) =>
            \A r \in fut[k].entry : ~(ResultParts(r) \subseteq kept)

\* What get_part streams was checked: "verifies if the output files & folders
\* exist in the CAS before forwarding the request to the underlying store".
ServedWasChecked ==
    ccCall.pc = "returned" => \A r \in ccServed : ResultParts(r) \subseteq ccHeld
=============================================================================
