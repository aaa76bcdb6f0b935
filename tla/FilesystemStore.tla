--------------------------- MODULE FilesystemStore ---------------------------
(* The filesystem store (nativelink-store/src/filesystem_store.rs) and the    *)
(* resumeable files it reads through (nativelink-util/src/fs.rs).  An entry   *)
(* owns one file and a lock on its path; the EvictingMap refers to entries.   *)
(* Uploads, reads, eviction, the removal of dropped entries' files and        *)
(* restarts of the process interleave at the awaits of the code.              *)
EXTENDS EvictingMap

CONSTANTS FsKeys,      \* store keys
          FsZero,      \* those is_zero_digest() recognises
          Entries,     \* file entries (Arc<FileEntryImpl>); each upload makes one
          EntrySize,   \* size_on_disk() of each
          FsProcs,     \* concurrent requests
          FsPolicy,    \* the configured eviction policy
          FsFaults,    \* which operations may fail: "rename", "unref", "touch", "crash"
          NoOne, NoFile

VARIABLES fmap,        \* the EvictingMap: items' data are entries
          mutex,       \* the request that holds the map's mutex
          path,        \* entry -> where its EncodedFilePath points, or NoFile
          lock,        \* entry -> who holds the write lock on its path
          disk,        \* path -> the file there
          fsop,        \* what each request is doing
          spoiled      \* ghost: entries whose unref() could not move the file

fsVars == <<fmap, mutex, path, lock, disk, fsop, spoiled>>

\* PathType: Content under its key, Temp under a name no other file ever has,
\* Custom where the caller of update_with_whole_file left it.
FileContent(k) == <<"content", k>>
Temp(e) == <<"temp", e>>
Custom(e) == <<"custom", e>>

Paths == {FileContent(k) : k \in FsKeys} \cup {Temp(e) : e \in Entries}
            \cup {Custom(e) : e \in Entries}

\* A file is the data of one entry, complete or still being written.
File(e, whole) == [of |-> e, whole |-> whole]

Idle == [pc |-> "idle"]

\* A ResumeableFileSlot keeps the path it was opened with; while it is open it
\* also pins the file itself, whatever becomes of the name.
NoSlot == [path |-> NoFile, file |-> NoFile, resumed |-> FALSE]

FsInit ==
    /\ fmap = EmptyMap /\ mutex = NoOne
    /\ path = [e \in Entries |-> NoFile]
    /\ lock = [e \in Entries |-> NoOne]
    /\ disk = [x \in Paths |-> NoFile]
    /\ fsop = [p \in FsProcs |-> Idle]
    /\ spoiled = {}

FsAt(p, pc) == fsop[p].pc = pc

Refers(p, e) ==
    /\ ~FsAt(p, "idle")
    /\ fsop[p].ent = e \/ \E i \in DOMAIN fsop[p].todo : fsop[p].todo[i] = e

Mapped(e) == \E i \in DOMAIN fmap.lru : fmap.lru[i].data = e

Referenced(e) == Mapped(e) \/ \E p \in FsProcs : Refers(p, e)

\* An upload takes an entry none of whose data is left anywhere.
Fresh(e) ==
    path[e] = NoFile /\ \A x \in Paths : disk[x] \notin {File(e, TRUE), File(e, FALSE)}

EntriesOf(items) == [i \in DOMAIN items |-> items[i].data]

Goes(p, pc) == fsop' = [fsop EXCEPT ![p].pc = pc]

Ends(p) == fsop' = [fsop EXCEPT ![p] = Idle]

-----------------------------------------------------------------------------
(* update(): make_and_open_file, then update_file writes what it receives.    *)

Begin(p, k, e, pc) ==
    fsop' = [fsop EXCEPT ![p] = [pc |-> pc, key |-> k, ent |-> e, todo |-> <<>>,
                                 ret |-> "idle", slot |-> NoSlot, got |-> <<>>]]

OpenTemp(p, k) ==
    \E e \in Entries :
        /\ Fresh(e)
        /\ path' = [path EXCEPT ![e] = Temp(e)]
        /\ disk' = [disk EXCEPT ![Temp(e)] = File(e, FALSE)]
        /\ Begin(p, k, e, "write")
        /\ spoiled' = spoiled \ {e}
        /\ UNCHANGED <<fmap, mutex, lock>>

FsUpdate(p, k) == FsAt(p, "idle") /\ OpenTemp(p, k)

\* Mutant: a broken stream is taken for its end.
UpdateFileShort(p) ==
    /\ FsAt(p, "write")
    /\ \/ /\ disk' = [disk EXCEPT ![Temp(fsop[p].ent)] = File(fsop[p].ent, TRUE)]
          /\ Goes(p, "place")
       \/ Goes(p, "place") /\ UNCHANGED disk
    /\ UNCHANGED <<fmap, mutex, path, lock, spoiled>>

\* The stream ended and the file is synced; or the stream broke, the write
\* failed or the request was dropped, and the entry with it.
UpdateFile(p) ==
    /\ FsAt(p, "write")
    /\ \/ /\ disk' = [disk EXCEPT ![Temp(fsop[p].ent)] = File(fsop[p].ent, TRUE)]
          /\ Goes(p, "place")
       \/ Ends(p) /\ UNCHANGED disk
    /\ UNCHANGED <<fmap, mutex, path, lock, spoiled>>

UpdateWithWholeFile(p, k) ==
    /\ FsAt(p, "idle")
    /\ \E e \in Entries :
          /\ Fresh(e)
          /\ path' = [path EXCEPT ![e] = Custom(e)]
          /\ disk' = [disk EXCEPT ![Custom(e)] = File(e, TRUE)]
          /\ Begin(p, k, e, "place")
          /\ spoiled' = spoiled \ {e}
    /\ UNCHANGED <<fmap, mutex, lock>>

-----------------------------------------------------------------------------
(* emplace_file(), which runs to its end even when the request is dropped.    *)

\* Mutant: the path is not locked while the entry is already in the map.
EmplaceUnlocked(p) ==
    /\ FsAt(p, "place")
    /\ Goes(p, "insert")
    /\ UNCHANGED <<fmap, mutex, path, lock, disk, spoiled>>

EmplaceLock(p) ==
    /\ FsAt(p, "place")
    /\ lock' = [lock EXCEPT ![fsop[p].ent] = p]
    /\ Goes(p, "insert")
    /\ UNCHANGED <<fmap, mutex, path, disk, spoiled>>

\* Leave the map operation with these entries still to be unref'd under the
\* mutex; keep says that the operation goes on to use the map.
Unrefs(p, es, ret, keep) ==
    /\ mutex' = IF es = <<>> /\ ~keep THEN NoOne ELSE p
    /\ fsop' = [fsop EXCEPT ![p] =
          IF es # <<>> THEN [@ EXCEPT !.pc = "unref", !.todo = es, !.ret = ret]
          ELSE IF ret = "idle" THEN Idle ELSE [@ EXCEPT !.pc = ret]]

EmplaceInsert(p) ==
    /\ FsAt(p, "insert") /\ mutex = NoOne
    /\ LET e == fsop[p].ent
           x == Item(fsop[p].key, e, EntrySize[e], 0)
       IN  /\ fmap' = InsertWithTime(FsPolicy, 0, fmap, x)
           /\ Unrefs(p, EntriesOf(InsertUnrefs(FsPolicy, 0, fmap, x)), "rename", FALSE)
    /\ UNCHANGED <<path, lock, disk, spoiled>>

Rename(from, to) == [disk EXCEPT ![to] = disk[from], ![from] = NoFile]

\* unref() of the next entry: under its write lock, move the file to a new temp
\* name; an entry that is already temporary is left alone.
UnrefMoves(p, e) ==
    /\ lock[e] = NoOne
    /\ \/ path[e] = Temp(e) /\ UNCHANGED <<path, disk, spoiled>>
       \/ /\ path[e] # Temp(e) /\ disk[path[e]] # NoFile
          /\ disk' = Rename(path[e], Temp(e))
          /\ path' = [path EXCEPT ![e] = Temp(e)]
          /\ UNCHANGED spoiled
       \/ /\ path[e] # Temp(e) /\ ("unref" \in FsFaults \/ disk[path[e]] = NoFile)
          /\ spoiled' = spoiled \cup {e}
          /\ UNCHANGED <<path, disk>>

Unref(p) ==
    /\ FsAt(p, "unref")
    /\ UnrefMoves(p, Head(fsop[p].todo))
    /\ LET rest == Tail(fsop[p].todo) IN
       IF rest # <<>>
       THEN fsop' = [fsop EXCEPT ![p].todo = rest] /\ UNCHANGED mutex
       ELSE /\ fsop' = [fsop EXCEPT ![p] =
                  IF fsop[p].ret = "idle" THEN Idle
                  ELSE [@ EXCEPT !.pc = fsop[p].ret, !.todo = <<>>]]
            /\ mutex' = IF fsop[p].ret = "touch" THEN p ELSE NoOne
    /\ UNCHANGED <<fmap, lock>>

\* Mutant: a failed move returns with the path still locked.
EmplaceRenameLocked(p) ==
    /\ FsAt(p, "rename")
    /\ LET e == fsop[p].ent
           final == FileContent(fsop[p].key)
       IN  \/ /\ disk[path[e]] # NoFile
              /\ disk' = Rename(path[e], final)
              /\ path' = [path EXCEPT ![e] = final]
              /\ lock' = [lock EXCEPT ![e] = NoOne]
              /\ Ends(p)
           \/ /\ "rename" \in FsFaults \/ disk[path[e]] = NoFile
              /\ Goes(p, "remove_if")
              /\ UNCHANGED <<disk, path, lock>>
    /\ UNCHANGED <<fmap, mutex, spoiled>>

\* The move into the content directory.  When it fails the entry is taken out
\* of the map again, if it is still the one there.
EmplaceRename(p) ==
    /\ FsAt(p, "rename")
    /\ LET e == fsop[p].ent
           final == FileContent(fsop[p].key)
       IN  /\ lock' = [lock EXCEPT ![e] = NoOne]
           /\ \/ /\ disk[path[e]] # NoFile
                 /\ disk' = Rename(path[e], final)
                 /\ path' = [path EXCEPT ![e] = final]
                 /\ Ends(p)
              \/ /\ "rename" \in FsFaults \/ disk[path[e]] = NoFile
                 /\ Goes(p, "remove_if")
                 /\ UNCHANGED <<disk, path>>
    /\ UNCHANGED <<fmap, mutex, spoiled>>

EmplaceRemoveIf(p) ==
    /\ FsAt(p, "remove_if") /\ mutex = NoOne
    /\ LET e == fsop[p].ent
           k == fsop[p].key
           same == Holds(fmap, k) /\ Peek(fmap, k).data = e
           promoted == Promote(fmap, k)
           left == EvictItems(FsPolicy, 0, promoted)
       IN  /\ fmap' = RemoveIf(FsPolicy, 0, fmap, k, same)
           /\ Unrefs(p, IF same THEN EntriesOf(Victims(FsPolicy, 0, promoted) \o Replaced(left, k))
                        ELSE <<>>, "idle", FALSE)
    /\ UNCHANGED <<path, lock, disk, spoiled>>

-----------------------------------------------------------------------------
(* has_with_results() and get_part(): look the key up under the mutex and     *)
(* touch the file; a read then opens it by the path it has at that moment.    *)

FsHas(p, k) ==
    /\ FsAt(p, "idle") /\ mutex = NoOne
    /\ mutex' = p
    /\ Begin(p, k, NoOne, "touch")
    /\ UNCHANGED <<fmap, path, lock, disk, spoiled>>

\* get() evicts before it looks.
FsGet(p, k) ==
    /\ k \notin FsZero
    /\ FsAt(p, "idle") /\ mutex = NoOne
    /\ fmap' = EvictItems(FsPolicy, 0, fmap)
    /\ LET es == EntriesOf(Victims(FsPolicy, 0, fmap)) IN
       /\ mutex' = p
       /\ fsop' = [fsop EXCEPT ![p] =
             [pc |-> IF es = <<>> THEN "touch" ELSE "unref", key |-> k, ent |-> NoOne,
              todo |-> es, ret |-> "touch", slot |-> NoSlot, got |-> <<>>]]
    /\ UNCHANGED <<path, lock, disk, spoiled>>

Missing(p) ==
    /\ FsAt(p, "touch") /\ ~Holds(fmap, fsop[p].key)
    /\ mutex' = NoOne
    /\ IF fsop[p].key \in FsZero THEN Goes(p, "zero") ELSE Ends(p)
    /\ UNCHANGED <<fmap, path, lock, disk, spoiled>>

\* has() creates the file of the empty object when it is not there.
ZeroFile(p) == FsAt(p, "zero") /\ OpenTemp(p, fsop[p].key)

TouchFile(p) ==
    /\ FsAt(p, "touch") /\ Holds(fmap, fsop[p].key)
    /\ LET k == fsop[p].key
           e == Peek(fmap, k).data
       IN  /\ lock[e] = NoOne
           /\ \/ /\ disk[path[e]] # NoFile
                 /\ fmap' = Touch(fmap, k, 0)
                 /\ mutex' = NoOne
                 /\ fsop' = [fsop EXCEPT ![p] =
                       IF @.ret = "touch" THEN [@ EXCEPT !.pc = "open", !.ent = e] ELSE Idle]
              \/ /\ "touch" \in FsFaults \/ disk[path[e]] = NoFile
                 /\ fmap' = Pop(Promote(fmap, k), k)
                 /\ Unrefs(p, <<e>>, "idle", FALSE)
    /\ UNCHANGED <<path, lock, disk, spoiled>>

\* Mutant: the file is opened by its key instead of its entry's path.
ReadFilePartByKey(p) ==
    /\ FsAt(p, "open") /\ lock[fsop[p].ent] = NoOne
    /\ LET x == FileContent(fsop[p].key) IN
       IF disk[x] = NoFile THEN Ends(p)
       ELSE fsop' = [fsop EXCEPT ![p].pc = "read", ![p].slot.path = x, ![p].slot.file = disk[x]]
    /\ UNCHANGED <<fmap, mutex, path, lock, disk, spoiled>>

ReadFilePart(p) ==
    /\ FsAt(p, "open") /\ lock[fsop[p].ent] = NoOne
    /\ LET x == path[fsop[p].ent] IN
       IF disk[x] = NoFile THEN Ends(p)
       ELSE fsop' = [fsop EXCEPT ![p].pc = "read", ![p].slot.path = x, ![p].slot.file = disk[x]]
    /\ UNCHANGED <<fmap, mutex, path, lock, disk, spoiled>>

\* Sending took longer than the idle timeout: the descriptor is closed, the
\* path and the position are kept.
CloseFile(p) ==
    /\ FsAt(p, "read") /\ fsop[p].slot.file # NoFile
    /\ fsop' = [fsop EXCEPT ![p].slot.file = NoFile]
    /\ UNCHANGED <<fmap, mutex, path, lock, disk, spoiled>>

AsReader(p) ==
    /\ FsAt(p, "read") /\ fsop[p].slot.file = NoFile
    /\ LET f == disk[fsop[p].slot.path] IN
       IF f = NoFile THEN Ends(p)
       ELSE fsop' = [fsop EXCEPT ![p].slot.file = f, ![p].slot.resumed = TRUE]
    /\ UNCHANGED <<fmap, mutex, path, lock, disk, spoiled>>

\* The next buffer of the file; two make the object.
ReadBuf(p) ==
    /\ FsAt(p, "read") /\ fsop[p].slot.file # NoFile
    /\ IF Len(fsop[p].got) = 2 THEN Ends(p)
       ELSE fsop' = [fsop EXCEPT ![p].got = Append(@, fsop[p].slot.file)]
    /\ UNCHANGED <<fmap, mutex, path, lock, disk, spoiled>>

-----------------------------------------------------------------------------
(* Drop of the last reference to an entry: a temporary or custom file is      *)
(* removed in the background, one in the content directory is kept.           *)
DropEntry(e) ==
    /\ path[e] # NoFile /\ ~Referenced(e)
    /\ disk' = IF path[e][1] = "content" THEN disk ELSE [disk EXCEPT ![path[e]] = NoFile]
    /\ path' = [path EXCEPT ![e] = NoFile]
    /\ UNCHANGED <<fmap, mutex, lock, fsop, spoiled>>

(* The process dies and FilesystemStore::new() runs: add_files_to_cache in    *)
(* directory order, evicting as it goes, then prune_temp_path.  Custom files  *)
(* go with the worker's work directory, which is emptied at the same time.    *)
AddFilesToCache(order) ==
    FoldLeft(LAMBDA m, k : InsertWithTime(FsPolicy, 0, m,
                              Item(k, disk[FileContent(k)].of, EntrySize[disk[FileContent(k)].of], 0)),
             EmptyMap, order)

PruneTempPath(m) ==
    [x \in Paths |-> IF x[1] = "content" /\ Holds(m, x[2]) THEN disk[x] ELSE NoFile]

NewStore(m) ==
    /\ fmap' = m
    /\ path' = [e \in Entries |->
                  IF \E i \in DOMAIN m.lru : m.lru[i].data = e
                  THEN FileContent(m.lru[CHOOSE i \in DOMAIN m.lru : m.lru[i].data = e].key)
                  ELSE NoFile]

Restart ==
    /\ "crash" \in FsFaults
    /\ \E order \in SetToSeqs({k \in FsKeys : disk[FileContent(k)] # NoFile}) :
          LET m == AddFilesToCache(order) IN
          /\ NewStore(m)
          /\ disk' = PruneTempPath(m)
    /\ mutex' = NoOne
    /\ lock' = [e \in Entries |-> NoOne]
    /\ fsop' = [p \in FsProcs |-> Idle]
    /\ spoiled' = {}

FsStep(p) ==
    \/ UpdateFile(p) \/ EmplaceLock(p) \/ EmplaceInsert(p) \/ Unref(p)
    \/ EmplaceRename(p) \/ EmplaceRemoveIf(p)
    \/ Missing(p) \/ ZeroFile(p) \/ TouchFile(p) \/ ReadFilePart(p)
    \/ CloseFile(p) \/ AsReader(p) \/ ReadBuf(p)

FsNext ==
    \/ \E p \in FsProcs, k \in FsKeys :
          FsUpdate(p, k) \/ UpdateWithWholeFile(p, k) \/ FsHas(p, k) \/ FsGet(p, k)
    \/ \E p \in FsProcs : FsStep(p)
    \/ \E e \in Entries : DropEntry(e)
    \/ Restart

FsSpec == FsInit /\ [][FsNext]_fsVars

\* Tokio runs every spawned task: a request that can go on does, and dropped
\* entries' files are removed.  Nobody is obliged to start a request, to fail,
\* or to be slow.
FsFairness ==
    /\ \A p \in FsProcs :
          /\ WF_fsVars(UpdateFile(p)) /\ WF_fsVars(EmplaceLock(p))
          /\ SF_fsVars(EmplaceInsert(p)) /\ WF_fsVars(Unref(p))
          /\ WF_fsVars(EmplaceRename(p)) /\ SF_fsVars(EmplaceRemoveIf(p))
          /\ WF_fsVars(Missing(p)) /\ WF_fsVars(TouchFile(p))
    /\ \A e \in Entries : WF_fsVars(DropEntry(e))

FsFairSpec == FsSpec /\ FsFairness

-----------------------------------------------------------------------------
(* Type invariant of the filesystem store.                                    *)
FsTypeOK ==
    /\ mutex \in FsProcs \cup {NoOne}
    /\ path \in [Entries -> Paths \cup {NoFile}]
    /\ lock \in [Entries -> FsProcs \cup {NoOne}]
    /\ disk \in [Paths -> {NoFile} \cup {File(e, w) : e \in Entries, w \in BOOLEAN}]
    /\ spoiled \subseteq Entries
    /\ KeysOf(fmap) \subseteq FsKeys

(* Whoever finds an entry in the map and gets its read lock finds a complete  *)
(* file with that entry's data where the entry points, whatever uploads,      *)
(* replacements, evictions, failed renames and restarts came before           *)
(* (filesystem_store.rs:806, 385, 572).                                       *)
MappedHasFile ==
    \A e \in Entries : Mapped(e) /\ lock[e] = NoOne =>
        path[e] # NoFile /\ disk[path[e]] = File(e, TRUE)

(* A file in the content directory belongs to an entry of the map, or to one  *)
(* that a request is about to move away or take out; only a failed unref()    *)
(* rename leaves bytes on disk that the eviction policy no longer counts.     *)
ContentIsTracked ==
    \A k \in FsKeys : disk[FileContent(k)] # NoFile =>
        LET e == disk[FileContent(k)].of IN
        \/ Holds(fmap, k) /\ Peek(fmap, k).data = e
        \/ \E p \in FsProcs : Refers(p, e)
        \/ e \in spoiled

(* A read that keeps its descriptor returns the data of the entry it looked   *)
(* up, complete, even when the entry is replaced or evicted meanwhile ("file  *)
(* continues to stream on content replace").                                  *)
ReadsItsEntry ==
    \A p \in FsProcs : FsAt(p, "read") =>
        \/ fsop[p].slot.resumed \/ fsop[p].ent \in spoiled
        \/ \A i \in DOMAIN fsop[p].got : fsop[p].got[i] = File(fsop[p].ent, TRUE)

(* "Eviction of the newly inserted item is not possible within the `insert()` *)
(* call because the write lock inside the eviction map."                      *)
(* (filesystem_store.rs:817): an insert never unrefs the entry it inserts.    *)
NewItemNotEvicted ==
    \A p \in FsProcs : FsAt(p, "unref") /\ fsop[p].ret = "rename" =>
        \A i \in DOMAIN fsop[p].todo : fsop[p].todo[i] # fsop[p].ent

(* "DO NOT USE THIS FUNCTION TO EXTRACT THE FILENAME AND STORE IT FOR LATER   *)
(* USE" (filesystem_store.rs:195): a read gets the data of one entry only,    *)
(* also when its descriptor was closed for being idle and reopened by path.   *)
ReadsOneEntry ==
    \A p \in FsProcs : FsAt(p, "read") =>
        \A i, j \in DOMAIN fsop[p].got : fsop[p].got[i] = fsop[p].got[j]
=============================================================================
