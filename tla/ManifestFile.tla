---------------------------- MODULE ManifestFile ----------------------------
(***************************************************************************)
(* run.json as a file (manifests.py, store.py): every update loads the     *)
(* whole document, changes fields of it, writes it to run.json.tmp and     *)
(* renames that over run.json; update_run_state then appends a line to     *)
(* events.jsonl.  Nothing locks the file, and the name of the temporary    *)
(* file is the same for every writer.                                      *)
(*                                                                         *)
(* Writers are the threads and processes that may update one run: its      *)
(* run_job thread, the PATCH handler that renames it, a second run_job.    *)
(* Each owns one field of the document, which holds the number of the      *)
(* update it was written by.  Files are inodes: an open file stays the     *)
(* same file when its name is given to another one.                        *)
(***************************************************************************)
EXTENDS Naturals

CONSTANTS
    Writers, Readers,
    Loggers,         \* the writers that go through update_run_state
    Inodes, NoInode, \* files run.json and run.json.tmp may be, and none
    Torn,            \* a content json.load does not accept
    MaxUpdates,      \* bound: how many updates each writer tries
    MaxCrashes       \* bound: how many writers die

ASSUME ManifestAssumption ==
    /\ Loggers \subseteq Writers /\ Writers \cap Readers = {}
    /\ NoInode \notin Inodes /\ Inodes # {}
    /\ Torn \notin [Writers -> Nat]
    /\ MaxUpdates \in Nat /\ MaxCrashes \in Nat

VARIABLES
    path, tmp,   \* the inodes named run.json and run.json.tmp
    content,     \* what each inode holds
    mixed,       \* inodes two writers have had open for writing at once
    pc, fd,      \* where each writer is, and the file each process has open
    snap,        \* the document a writer has in memory
    tries,       \* updates tried by each writer
    acked,       \* the last update each writer was told is saved
    logged,      \* the last update of each writer in events.jsonl
    seen,        \* what each reader was given last
    nCrashed

vars == <<path, tmp, content, mixed, pc, fd, snap, tries, acked, logged, seen, nCrashed>>
names == <<path, tmp>>
told == <<acked, logged, seen, nCrashed>>

Doc == [Writers -> Nat]
InitDoc == [w \in Writers |-> 0]

\* The file a process has open stops being open.
Closed(p) == [fd EXCEPT ![p] = NoInode]

\* An inode no name and no open file refers to.
Free(i) == i \notin {path, tmp} /\ \A p \in Writers \cup Readers : fd[p] # i

-----------------------------------------------------------------------------
(* An update: load_manifest, the assignment, _write_json_atomic, the event *)

LoadOpen(w) ==
    /\ pc[w] = "idle" /\ tries[w] < MaxUpdates
    /\ pc' = [pc EXCEPT ![w] = "reading"]
    /\ fd' = [fd EXCEPT ![w] = path]
    /\ UNCHANGED <<names, content, mixed, snap, tries, told>>

LoadRead(w) ==
    /\ pc[w] = "reading" /\ content[fd[w]] # Torn
    /\ tries' = [tries EXCEPT ![w] = @ + 1]
    /\ snap' = [snap EXCEPT ![w] = [content[fd[w]] EXCEPT ![w] = tries[w] + 1]]
    /\ pc' = [pc EXCEPT ![w] = "loaded"]
    /\ fd' = Closed(w)
    /\ UNCHANGED <<names, content, mixed, told>>

\* json.load raises: the update is not made and its caller is told so.
LoadFails(w) ==
    /\ pc[w] = "reading" /\ content[fd[w]] = Torn
    /\ tries' = [tries EXCEPT ![w] = @ + 1]
    /\ pc' = [pc EXCEPT ![w] = "idle"]
    /\ fd' = Closed(w)
    /\ UNCHANGED <<names, content, mixed, snap, told>>

\* mutant: the manifest is written in place
OpenTmpInPlace(w) ==
    /\ pc[w] = "loaded"
    /\ content' = [content EXCEPT ![path] = Torn]
    /\ tmp' = path
    /\ fd' = [fd EXCEPT ![w] = path]
    /\ pc' = [pc EXCEPT ![w] = "writing"]
    /\ UNCHANGED <<path, mixed, snap, tries, told>>

\* open(tmp, "w") creates the file or empties the one that has the name, be it
\* left by a writer that died or open in a writer that is not done.
OpenTmp(w) ==
    /\ pc[w] = "loaded"
    /\ \E i \in IF tmp = NoInode THEN {j \in Inodes : Free(j)} ELSE {tmp} :
          /\ tmp' = i
          /\ content' = [content EXCEPT ![i] = Torn]
          /\ fd' = [fd EXCEPT ![w] = i]
          /\ mixed' = IF \E v \in Writers : pc[v] = "writing" /\ fd[v] = i
                      THEN mixed \cup {i} ELSE mixed \ {i}
    /\ pc' = [pc EXCEPT ![w] = "writing"]
    /\ UNCHANGED <<path, snap, tries, told>>

\* mutant: the event is appended before the manifest is replaced
CloseTmpLogged(w) ==
    /\ pc[w] = "writing"
    /\ content' = [content EXCEPT ![fd[w]] = snap[w]]
    /\ fd' = Closed(w)
    /\ pc' = [pc EXCEPT ![w] = "written"]
    /\ logged' = [logged EXCEPT ![w] = snap[w][w]]
    /\ UNCHANGED <<names, mixed, snap, tries, acked, seen, nCrashed>>

\* mutant: the file is renamed before it is closed
ReplaceUnclosed(w) ==
    /\ pc[w] = "writing" /\ tmp # NoInode
    /\ path' = tmp /\ tmp' = NoInode
    /\ acked' = [acked EXCEPT ![w] = snap[w][w]]
    /\ pc' = [pc EXCEPT ![w] = "idle"]
    /\ fd' = Closed(w)
    /\ UNCHANGED <<content, mixed, snap, tries, logged, seen, nCrashed>>

\* json.dump and close.  Of two writers that had the file open at once, the
\* last leaves its own document, or a mixture when the other's was longer.
CloseTmp(w) ==
    /\ pc[w] = "writing"
    /\ \E c \in {snap[w]} \cup (IF fd[w] \in mixed THEN {Torn} ELSE {}) :
          content' = [content EXCEPT ![fd[w]] = c]
    /\ fd' = Closed(w)
    /\ pc' = [pc EXCEPT ![w] = "written"]
    /\ UNCHANGED <<names, mixed, snap, tries, told>>

\* mutant: the file is copied over run.json, not renamed
ReplaceByCopy(w) ==
    /\ pc[w] = "written" /\ tmp # NoInode
    /\ content' = [content EXCEPT ![path] = content[tmp]]
    /\ tmp' = NoInode
    /\ pc' = [pc EXCEPT ![w] = "saved"]
    /\ UNCHANGED <<path, mixed, fd, snap, tries, told>>

\* tmp.replace(path): run.json.tmp, whatever it is by now, becomes run.json.
Replace(w) ==
    /\ pc[w] = "written" /\ tmp # NoInode
    /\ path' = tmp /\ tmp' = NoInode
    /\ IF w \in Loggers
       THEN pc' = [pc EXCEPT ![w] = "saved"] /\ UNCHANGED acked
       ELSE pc' = [pc EXCEPT ![w] = "idle"] /\ acked' = [acked EXCEPT ![w] = snap[w][w]]
    /\ UNCHANGED <<content, mixed, fd, snap, tries, logged, seen, nCrashed>>

\* Another writer renamed the temporary file first: FileNotFoundError.
ReplaceFails(w) ==
    /\ pc[w] = "written" /\ tmp = NoInode
    /\ pc' = [pc EXCEPT ![w] = "idle"]
    /\ UNCHANGED <<names, content, mixed, fd, snap, tries, told>>

AppendEvent(w) ==
    /\ pc[w] = "saved"
    /\ logged' = [logged EXCEPT ![w] = snap[w][w]]
    /\ acked' = [acked EXCEPT ![w] = snap[w][w]]
    /\ pc' = [pc EXCEPT ![w] = "idle"]
    /\ UNCHANGED <<names, content, mixed, fd, snap, tries, seen, nCrashed>>

\* A writer's process dies; the files stay as they are.
Crash(w) ==
    /\ pc[w] # "idle" /\ nCrashed < MaxCrashes
    /\ nCrashed' = nCrashed + 1
    /\ pc' = [pc EXCEPT ![w] = "idle"]
    /\ fd' = Closed(w)
    /\ UNCHANGED <<names, content, mixed, snap, tries, acked, logged, seen>>

-----------------------------------------------------------------------------
(* A poll: get_run_state                                                   *)

PollOpen(r) ==
    /\ fd[r] = NoInode
    /\ fd' = [fd EXCEPT ![r] = path]
    /\ UNCHANGED <<names, content, mixed, pc, snap, tries, told>>

PollRead(r) ==
    /\ fd[r] # NoInode
    /\ seen' = [seen EXCEPT ![r] = content[fd[r]]]
    /\ fd' = Closed(r)
    /\ UNCHANGED <<names, content, mixed, pc, snap, tries, acked, logged, nCrashed>>

-----------------------------------------------------------------------------
Init ==
    /\ path \in Inodes /\ tmp = NoInode
    /\ content = [i \in Inodes |-> InitDoc]
    /\ mixed = {}
    /\ pc = [w \in Writers |-> "idle"]
    /\ fd = [p \in Writers \cup Readers |-> NoInode]
    /\ snap = [w \in Writers |-> InitDoc]
    /\ tries = InitDoc /\ acked = InitDoc /\ logged = InitDoc
    /\ seen = [r \in Readers |-> InitDoc]
    /\ nCrashed = 0

Write(w) == \/ LoadOpen(w) \/ LoadRead(w) \/ LoadFails(w)
            \/ OpenTmp(w) \/ CloseTmp(w) \/ Replace(w) \/ ReplaceFails(w)
            \/ AppendEvent(w) \/ Crash(w)

Poll(r) == PollOpen(r) \/ PollRead(r)

Next == (\E w \in Writers : Write(w)) \/ (\E r \in Readers : Poll(r))

Spec == Init /\ [][Next]_vars

-----------------------------------------------------------------------------
(* Properties.                                                             *)

TypeOK ==
    /\ path \in Inodes /\ tmp \in Inodes \cup {NoInode}
    /\ content \in [Inodes -> Doc \cup {Torn}]
    /\ mixed \subseteq Inodes
    /\ pc \in [Writers -> {"idle", "reading", "loaded", "writing", "written", "saved"}]
    /\ fd \in [Writers \cup Readers -> Inodes \cup {NoInode}]
    /\ snap \in [Writers -> Doc]
    /\ tries \in Doc /\ acked \in Doc /\ logged \in Doc
    /\ seen \in [Readers -> Doc \cup {Torn}]
    /\ nCrashed \in Nat

\* At every instant, and whatever died, run.json and the files readers have
\* open are documents: "Atomic overwrite" in manifests.py.
ManifestWhole ==
    /\ content[path] # Torn
    /\ \A r \in Readers : fd[r] # NoInode => content[fd[r]] # Torn

\* events.jsonl never tells of an update run.json does not hold yet, and it
\* lacks one only between the rename and the append, or after a crash there.
LogFollowsManifest ==
    content[path] # Torn =>
        \A w \in Loggers :
            /\ logged[w] <= content[path][w]
            /\ \/ logged[w] = content[path][w]
               \/ pc[w] = "saved" \/ nCrashed > 0

\* Whoever writes: a manifest that cannot be read once everybody is done was
\* written by two writers that had the temporary file open at once, or the
\* temporary file of a writer that died was renamed by another.
TornNeedsOverlap ==
    (\A w \in Writers : pc[w] = "idle") /\ content[path] = Torn
        => path \in mixed \/ nCrashed > 0

\* What a reader was given last, or will be given of the file it has open.
Given(r) == IF fd[r] = NoInode THEN seen[r] ELSE content[fd[r]]

\* The file seen through its name, and a poll as of the moment it opened the
\* file, behave as the one document of AtomicManifest.
Atomic == INSTANCE AtomicManifest WITH value <- content[path],
                                       seen <- [r \in Readers |-> Given(r)]
AtomicSpec == Atomic!Spec

-----------------------------------------------------------------------------
(* The invariant behind them, when a run has one writer at a time.         *)

OneWriter == \A v, w \in Writers : v = w

\* The temporary file is never the published one, and only its writer has it
\* open; so what is published, and what a reader opened, stays as it is.
FilesInv ==
    /\ tmp # path /\ mixed = {} /\ content[path] \in Doc
    /\ \A r \in Readers : fd[r] # NoInode => fd[r] # tmp /\ content[fd[r]] \in Doc
    /\ \A w \in Writers :
          /\ pc[w] = "reading" => fd[w] = path
          /\ pc[w] = "writing" => fd[w] = tmp /\ tmp # NoInode
          /\ pc[w] \notin {"reading", "writing"} => fd[w] = NoInode
          /\ pc[w] = "written" => tmp # NoInode /\ content[tmp] = snap[w]

\* A document in memory is one update ahead of the published one.
UpdateInv ==
    \A w \in Writers :
        /\ content[path][w] <= tries[w] /\ logged[w] <= content[path][w]
        /\ pc[w] \in {"loaded", "writing", "written"} =>
              /\ snap[w] = [content[path] EXCEPT ![w] = tries[w]]
              /\ content[path][w] < tries[w]
        /\ pc[w] = "saved" => w \in Loggers /\ snap[w] = content[path]
        /\ w \in Loggers => \/ logged[w] = content[path][w]
                            \/ pc[w] = "saved" \/ nCrashed > 0

IInv == TypeOK /\ FilesInv /\ UpdateInv

-----------------------------------------------------------------------------
(* What the repository says and two writers do not keep.                   *)

\* "Atomic overwrite (allowed ONLY for mutable state like run.json)": when
\* nobody is writing, run.json can be read.
WholeAtRest == (\A w \in Writers : pc[w] = "idle") => content[path] # Torn

=============================================================================
