----------------------------- MODULE Directories -----------------------------
(***************************************************************************)
(* The directories of an action on a worker                                *)
(* (nativelink-worker/src/running_actions_manager.rs): its outputs are     *)
(* uploaded as a tree of Directory messages (upload_directory,             *)
(* upload_file, upload_symlink), and its inputs are made from such a tree  *)
(* out of hard links to files of the fast store (download_to_directory).   *)
(*                                                                         *)
(* Every file, link and subdirectory is a future of its own, completed in  *)
(* any order.  A path is the sequence of its names; a digest is the value  *)
(* it is the digest of.  The fast store's file of a digest is one inode,   *)
(* which every hard link to it shares, mode included.                      *)
(***************************************************************************)
EXTENDS Naturals, Sequences, FiniteSets, SequencesExt

CONSTANTS
    FileTrees,      \* functions from paths, sequences of numbers, to [kind, data, exec]
    DirFaults       \* store failures and evictions in one behaviour

VARIABLES
    fsTree,         \* the output directory, as the command left it
    entriesDone,        \* directory -> its finished entries, in order of completion
    casBlobs,       \* the digests in the CAS
    published,      \* {} or {the Tree message}
    fastFiles,      \* digest -> {} or {its inode}, in the fast store
    inodes,         \* the files made in the fast store: executable or not
    made,           \* path -> what download_to_directory has made there
    progress,       \* path -> how far its future is
    dirFaults

dirVars == <<fsTree, entriesDone, casBlobs, published, fastFiles, inodes, made, progress, dirFaults>>

\* The directory itself is the empty path.
TreePaths == DOMAIN fsTree
Top == <<>>
Inside(dir) == {p \in TreePaths : p # Top /\ Front(p) = dir}
Dirs == {p \in TreePaths : fsTree[p].kind = "dir"}
Files == {p \in TreePaths : fsTree[p].kind = "file"}

-----------------------------------------------------------------------------
\* Upload.

\* Mutant: the entries stay in the order the futures ended.
Unsorted(entries) == entries

\* The entries a directory is left with are sorted by name.
Sorted(entries) == SortSeq(entries, LAMBDA a, b : a.name < b.name)

\* The Directory message, from the entries as they arrived.
DirectoryOf(dir) == [kind |-> "dir", entries |-> Sorted(entriesDone[dir])]

\* A node for an entry: the digest of a file's content, the target of a link,
\* the digest of a subdirectory's message.
NodeOf(p) ==
    [name |-> Last(p), kind |-> fsTree[p].kind, exec |-> fsTree[p].exec,
     digest |-> IF fsTree[p].kind = "dir" THEN DirectoryOf(p) ELSE fsTree[p].data]

\* Mutant: the message of a subdirectory is not uploaded.
StoredForFiles(p) == IF fsTree[p].kind # "file" THEN {} ELSE {NodeOf(p).digest}

\* What the upload of an entry puts into the CAS.
StoredFor(p) == IF fsTree[p].kind = "link" THEN {} ELSE {NodeOf(p).digest}

Finished(dir) == Len(entriesDone[dir]) = Cardinality(Inside(dir))
Uploaded(p) == \E i \in DOMAIN entriesDone[Front(p)] : entriesDone[Front(p)][i].name = Last(p)

\* One future of upload_directory: a file is hashed and stored, a link is read;
\* a subdirectory's message is stored once all of its own entries are done.
UploadEntry(p) ==
    /\ published = {} /\ p # Top /\ ~Uploaded(p)
    /\ p \in Dirs => Finished(p)
    /\ entriesDone' = [entriesDone EXCEPT ![Front(p)] = Append(@, NodeOf(p))]
    /\ casBlobs' = casBlobs \cup StoredFor(p)
    /\ UNCHANGED <<fsTree, published, fastFiles, inodes, made, progress, dirFaults>>

\* all_child_directories: every directory, the root included.
ChildrenOf == {DirectoryOf(d) : d \in Dirs}

\* inner_upload_results: the Tree of the output directory is stored; the root's
\* Directory is a part of it and not stored by itself.
PublishTree ==
    /\ published = {} /\ Finished(Top)
    /\ published' = {[root |-> DirectoryOf(Top), children |-> ChildrenOf]}
    /\ casBlobs' = casBlobs \cup published'
    /\ progress' = [progress EXCEPT ![Top] = "made"]
    /\ UNCHANGED <<fsTree, entriesDone, fastFiles, inodes, made, dirFaults>>

-----------------------------------------------------------------------------
\* Download of the same tree as the input root of another action, whose client
\* uploaded the root's Directory, on a worker whose fast store is empty.

Failed == \E p \in TreePaths : progress[p] = "failed"
Entry(p) == CHOOSE e \in ToSet(DirectoryOf(Front(p)).entries) : e.name = Last(p)
DownloadStep(p, from) ==
    /\ published # {} /\ ~Failed /\ p # Top /\ progress[p] = from
    /\ progress[Front(p)] = "made"

\* populate_fast_store: the file comes with no execute permission.
PopulateFile(p) ==
    /\ p \in Files /\ DownloadStep(p, "todo")
    /\ progress' = [progress EXCEPT ![p] = "populated"]
    /\ IF fastFiles[Entry(p).digest] # {} THEN UNCHANGED <<fastFiles, inodes>>
       ELSE /\ inodes' = Append(inodes, FALSE)
            /\ fastFiles' = [fastFiles EXCEPT ![Entry(p).digest] = {Len(inodes')}]
    /\ UNCHANGED <<fsTree, entriesDone, casBlobs, published, made, dirFaults>>

\* Mutant: a failed hard link is taken for a file.
AfterEvictionMade == "made"

\* get_file_entry_for_digest and the hard link: an entry evicted since then is
\* an error, and the error of one future ends the download.
AfterEviction == "failed"

LinkFile(p) ==
    /\ p \in Files /\ DownloadStep(p, "populated")
    /\ IF fastFiles[Entry(p).digest] = {}
       THEN /\ progress' = [progress EXCEPT ![p] = AfterEviction]
            /\ UNCHANGED made
       ELSE /\ progress' = [progress EXCEPT ![p] = "linked"]
            /\ made' = [made EXCEPT ![p] = {[kind |-> "file", data |-> Entry(p).digest,
                                            inode |-> fastFiles[Entry(p).digest]]}]
    /\ UNCHANGED <<fsTree, entriesDone, casBlobs, published, fastFiles, inodes, dirFaults>>

\* Mutant: the mode is not set.
ModesKept(p) == inodes

\* A file that must be executable gets the mode through its hard link.
Modes(p) ==
    IF ~Entry(p).exec THEN inodes
    ELSE [i \in DOMAIN inodes |-> inodes[i] \/ \E m \in made[p] : i \in m.inode]

\* set_permissions through the link sets the mode of the inode all links share.
SetMode(p) ==
    /\ p \in Files /\ DownloadStep(p, "linked")
    /\ progress' = [progress EXCEPT ![p] = "made"]
    /\ inodes' = Modes(p)
    /\ UNCHANGED <<fsTree, entriesDone, casBlobs, published, fastFiles, made, dirFaults>>

\* create_dir comes before the files of the directory, and a symlink is made as
\* it was read.
MakeDirOrLink(p) ==
    /\ p \notin Files /\ DownloadStep(p, "todo")
    /\ progress' = [progress EXCEPT ![p] = "made"]
    /\ made' = [made EXCEPT ![p] = {[kind |-> Entry(p).kind,
                    data |-> IF Entry(p).kind = "dir" THEN fsTree[p].data ELSE Entry(p).digest, inode |-> {}]}]
    /\ UNCHANGED <<fsTree, entriesDone, casBlobs, published, fastFiles, inodes, dirFaults>>

FastEvicts ==
    /\ published # {} /\ dirFaults < DirFaults
    /\ dirFaults' = dirFaults + 1
    /\ \E d \in DOMAIN fastFiles :
         fastFiles[d] # {} /\ fastFiles' = [fastFiles EXCEPT ![d] = {}]
    /\ UNCHANGED <<fsTree, entriesDone, casBlobs, published, inodes, made, progress>>

DirectoriesInit ==
    /\ fsTree \in FileTrees
    /\ entriesDone = [d \in {p \in DOMAIN fsTree : fsTree[p].kind = "dir"} |-> <<>>]
    /\ casBlobs = {}
    /\ published = {}
    /\ inodes = <<>>
    /\ fastFiles = [d \in {fsTree[p].data : p \in Files} |-> {}]
    /\ made = [p \in DOMAIN fsTree |-> {}]
    /\ progress = [p \in DOMAIN fsTree |-> "todo"]
    /\ dirFaults = 0

DirectoriesNext ==
    \/ \E p \in TreePaths : UploadEntry(p) \/ PopulateFile(p) \/ LinkFile(p) \/ SetMode(p) \/ MakeDirOrLink(p)
    \/ PublishTree
    \/ FastEvicts

DirectoriesSpec == DirectoriesInit /\ [][DirectoriesNext]_dirVars

-----------------------------------------------------------------------------
\* Properties

\* However the uploads of the entries are interleaved, the published tree is one
\* and the same: each directory lists all of its entries once, in the order of
\* their names, and names its subdirectories by their final messages
\* (upload_directory).
TreeIsCanonical ==
    published # {} => \A d \in Dirs :
        LET entries == DirectoryOf(d).entries
        IN  /\ \A i \in 1 .. Len(entries) - 1 : entries[i].name < entries[i + 1].name
            /\ ToSet(entries) = {NodeOf(p) : p \in Inside(d)}

\* When the tree is published, every file and every directory it names is in the
\* CAS (upload_file and serialize_and_upload_message come before it).
TreeIsWhole ==
    published # {} =>
        /\ published \subseteq casBlobs
        /\ \A p \in TreePaths \ {Top} : fsTree[p].kind # "link" => NodeOf(p).digest \in casBlobs

\* A download that succeeds has made exactly the uploaded directory, whatever the
\* fast store evicted meanwhile (download_to_directory).
DownloadIsExact ==
    (\A p \in TreePaths : progress[p] = "made") =>
        \A p \in TreePaths \ {Top} : \E m \in made[p] : m.kind = fsTree[p].kind /\ m.data = fsTree[p].data

\* A file is executable on the worker if its FileNode says so, and otherwise only
\* if a file of the same content has to be, whose inode it then may share
\* (is_executable in download_to_directory).
ExecutableAsAsked ==
    (\A p \in TreePaths : progress[p] = "made") =>
        \A p \in Files : \A m \in made[p] : \A i \in m.inode :
            /\ fsTree[p].exec => inodes[i]
            /\ inodes[i] => \E q \in Files : fsTree[q].exec /\ fsTree[q].data = fsTree[p].data
=============================================================================
