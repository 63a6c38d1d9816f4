----------------------------- MODULE OverlapProofs -----------------------------
(***************************************************************************)
(* For any number of writers of run.json, and of invocations of one run.   *)
(***************************************************************************)
EXTENDS ManifestFile, Invocations, TLAPS

-----------------------------------------------------------------------------
(* ManifestFile, with one writer at a time, whatever the number of         *)
(* readers, updates and crashes: its IInv is an invariant, and the file    *)
(* implements the single document of AtomicManifest.  FilesInv says why:   *)
(* the renamed file is never the one being written.  With more writers     *)
(* that is false (MCManifestFile shows how); what is left then is that a   *)
(* manifest torn at rest has been written by two of them at once, or by    *)
(* one that died.                                                          *)

\* A document stays one when a writer puts a number into its field.
LEMMA DocFacts ==
    ASSUME NEW d \in Doc, NEW w \in Writers, NEW n \in Nat
    PROVE  [d EXCEPT ![w] = n] \in Doc
BY DEF Doc

\* Closing a file leaves the files of the other processes open.
LEMMA ClosedFacts ==
    ASSUME TypeOK, NEW p \in Writers \cup Readers
    PROVE  /\ Closed(p) \in [Writers \cup Readers -> Inodes \cup {NoInode}]
           /\ Closed(p)[p] = NoInode
           /\ \A q \in Writers \cup Readers : q # p => Closed(p)[q] = fd[q]
BY DEF TypeOK, Closed

\* The only writer is not a reader, and whoever has a file open has one.
LEMMA WriterFacts ==
    ASSUME OneWriter, IInv, NEW w \in Writers
    PROVE  /\ w \in Writers \cup Readers /\ w \notin Readers
           /\ \A v \in Writers : v = w
           /\ tries[w] \in Nat /\ tries[w] + 1 \in Nat
           /\ \A i \in Inodes : content[i] # Torn => content[i] \in Doc
           /\ pc[w] = "reading" => content[fd[w]] \in Doc
BY ManifestAssumption DEF OneWriter, IInv, TypeOK, FilesInv, Doc

-----------------------------------------------------------------------------
(* One step of the writer.                                                 *)

\* Opening run.json for reading: the file opened is the published one.
LEMMA LoadOpenStep ==
    ASSUME OneWriter, IInv, NEW w \in Writers, LoadOpen(w)
    PROVE  IInv'
<1> USE WriterFacts DEF names, told
<1>1. TypeOK'
  BY DEF LoadOpen, IInv, TypeOK
<1>2. FilesInv'
  BY DEF LoadOpen, IInv, TypeOK, FilesInv
<1>3. UpdateInv'
  BY DEF LoadOpen, IInv, TypeOK, UpdateInv
<1>4. QED
  BY <1>1, <1>2, <1>3 DEF IInv

\* The document in memory is the published one with the next update in it.
LEMMA LoadReadStep ==
    ASSUME OneWriter, IInv, NEW w \in Writers, LoadRead(w)
    PROVE  IInv'
<1> USE WriterFacts DEF names, told
<1>0. /\ fd[w] = path /\ content[path] \in Doc
      /\ [content[path] EXCEPT ![w] = tries[w] + 1] \in Doc
  BY DocFacts DEF LoadRead, IInv, FilesInv
<1>1. TypeOK'
  <2>1. tries' \in Doc
    BY DocFacts DEF LoadRead, IInv, TypeOK
  <2>2. snap' \in [Writers -> Doc]
    BY <1>0 DEF LoadRead, IInv, TypeOK
  <2>3. QED
    BY <2>1, <2>2, ClosedFacts DEF LoadRead, IInv, TypeOK
<1>2. FilesInv'
  BY ClosedFacts DEF LoadRead, IInv, TypeOK, FilesInv
<1>3. UpdateInv'
  <2>1. tries'[w] = tries[w] + 1 /\ snap'[w] = [content[path] EXCEPT ![w] = tries[w] + 1]
    BY <1>0 DEF LoadRead, IInv, TypeOK, Doc
  <2>2. content[path][w] \in Nat /\ content[path][w] <= tries[w]
    BY <1>0 DEF IInv, UpdateInv, Doc
  <2>3. pc'[w] = "loaded" /\ content' = content /\ path' = path /\ logged' = logged
    BY DEF LoadRead, IInv, TypeOK
  <2>4. logged[w] <= content[path][w] /\ (w \in Loggers => logged[w] = content[path][w] \/ nCrashed > 0)
    BY DEF LoadRead, IInv, UpdateInv
  <2>5. \A v \in Writers : v = w
    OBVIOUS
  <2>6. tries[w] \in Nat /\ nCrashed' = nCrashed
    BY DEF LoadRead
  <2>7. content[path][w] <= tries[w] + 1 /\ content[path][w] < tries[w] + 1
    BY <2>2, <2>6
  <2>8. QED
    BY <2>1, <2>3, <2>4, <2>5, <2>6, <2>7 DEF UpdateInv
<1>4. QED
  BY <1>1, <1>2, <1>3 DEF IInv

\* The file opened for writing is neither published nor open in a reader.
LEMMA OpenTmpStep ==
    ASSUME OneWriter, IInv, NEW w \in Writers, OpenTmp(w)
    PROVE  IInv'
<1> USE WriterFacts DEF names, told
<1>0. PICK i \in IF tmp = NoInode THEN {j \in Inodes : Free(j)} ELSE {tmp} :
         /\ tmp' = i /\ content' = [content EXCEPT ![i] = Torn]
         /\ fd' = [fd EXCEPT ![w] = i]
         /\ mixed' = IF \E v \in Writers : pc[v] = "writing" /\ fd[v] = i
                     THEN mixed \cup {i} ELSE mixed \ {i}
  BY DEF OpenTmp
<1>1. /\ i \in Inodes /\ i # NoInode /\ i # path
      /\ \A r \in Readers : fd[r] # NoInode => fd[r] # i
  BY <1>0, ManifestAssumption DEF IInv, TypeOK, FilesInv, Free
<1>2. mixed' = {}
  BY <1>0 DEF OpenTmp, IInv, FilesInv
<1>3. TypeOK'
  BY <1>0, <1>1, <1>2 DEF OpenTmp, IInv, TypeOK
<1>4. FilesInv'
  BY <1>0, <1>1, <1>2 DEF OpenTmp, IInv, TypeOK, FilesInv
<1>5. UpdateInv'
  BY <1>0, <1>1 DEF OpenTmp, IInv, TypeOK, UpdateInv
<1>6. QED
  BY <1>3, <1>4, <1>5 DEF IInv

\* The temporary file now holds the document in memory.
LEMMA CloseTmpStep ==
    ASSUME OneWriter, IInv, NEW w \in Writers, CloseTmp(w)
    PROVE  IInv'
<1> USE WriterFacts DEF names, told
<1>0. /\ fd[w] = tmp /\ tmp \in Inodes /\ tmp # path
      /\ content' = [content EXCEPT ![tmp] = snap[w]] /\ snap[w] \in Doc
  BY DEF CloseTmp, IInv, TypeOK, FilesInv
<1>1. TypeOK'
  BY <1>0, ClosedFacts DEF CloseTmp, IInv, TypeOK
<1>2. FilesInv'
  <2>1. fd'[w] = NoInode /\ \A r \in Readers : fd'[r] = fd[r]
    BY ClosedFacts DEF CloseTmp, IInv
  <2>2. pc'[w] = "written" /\ content'[tmp] = snap[w]
        /\ \A i \in Inodes : i # tmp => content'[i] = content[i]
    BY <1>0 DEF CloseTmp, IInv, TypeOK
  <2>3. \A r \in Readers : fd[r] # NoInode => fd[r] \in Inodes
    BY DEF IInv, TypeOK
  <2>4. QED
    BY <1>0, <2>1, <2>2, <2>3, ManifestAssumption DEF CloseTmp, IInv, TypeOK, FilesInv
<1>3. UpdateInv'
  BY <1>0 DEF CloseTmp, IInv, TypeOK, UpdateInv
<1>4. QED
  BY <1>1, <1>2, <1>3 DEF IInv

\* The published document is the updated one; its event is still to come.
LEMMA ReplaceStep ==
    ASSUME OneWriter, IInv, NEW w \in Writers, Replace(w)
    PROVE  IInv'
<1> USE WriterFacts DEF names, told
<1>0. /\ tmp \in Inodes /\ content[tmp] = snap[w] /\ snap[w] \in Doc
      /\ snap[w] = [content[path] EXCEPT ![w] = tries[w]]
      /\ content[path] \in Doc /\ content[path][w] < tries[w]
      /\ logged[w] <= content[path][w]
  BY DEF Replace, IInv, TypeOK, FilesInv, UpdateInv
<1>1. snap[w][w] = tries[w] /\ content[path][w] \in Nat /\ logged[w] \in Nat
  BY <1>0 DEF IInv, TypeOK, Doc
<1>2. TypeOK'
  BY <1>0, <1>1, DocFacts DEF Replace, IInv, TypeOK
<1>3. FilesInv'
  BY <1>0, ManifestAssumption DEF Replace, IInv, TypeOK, FilesInv
<1>4. UpdateInv'
  BY <1>0, <1>1 DEF Replace, IInv, TypeOK, UpdateInv
<1>5. QED
  BY <1>2, <1>3, <1>4 DEF IInv

\* The log catches up with the manifest.
LEMMA AppendEventStep ==
    ASSUME OneWriter, IInv, NEW w \in Writers, AppendEvent(w)
    PROVE  IInv'
<1> USE WriterFacts DEF names, told
<1>0. /\ snap[w] = content[path] /\ content[path] \in Doc /\ content[path][w] \in Nat
      /\ w \in Loggers
  BY DEF AppendEvent, IInv, FilesInv, UpdateInv, Doc
<1>1. TypeOK'
  BY <1>0, DocFacts DEF AppendEvent, IInv, TypeOK
<1>2. FilesInv'
  BY DEF AppendEvent, IInv, TypeOK, FilesInv
<1>3. UpdateInv'
  <2>1. logged'[w] = content[path][w] /\ pc'[w] = "idle"
    BY <1>0 DEF AppendEvent, IInv, TypeOK, Doc
  <2>2. QED
    BY <1>0, <2>1 DEF AppendEvent, IInv, UpdateInv
<1>4. QED
  BY <1>1, <1>2, <1>3 DEF IInv

\* A writer that dies leaves the published file as it is, and perhaps an
\* update without an event.
LEMMA CrashStep ==
    ASSUME OneWriter, IInv, NEW w \in Writers, Crash(w)
    PROVE  IInv'
<1> USE WriterFacts DEF names, told
<1>1. TypeOK'
  BY ClosedFacts DEF Crash, IInv, TypeOK
<1>2. FilesInv'
  <2>1. /\ fd'[w] = NoInode /\ pc'[w] = "idle"
        /\ \A r \in Readers : fd'[r] = fd[r]
    BY ClosedFacts DEF Crash, IInv, TypeOK
  <2>2. QED
    BY <2>1 DEF Crash, IInv, FilesInv
<1>3. UpdateInv'
  <2>1. nCrashed' > 0 /\ pc'[w] = "idle"
    BY DEF Crash, IInv, TypeOK
  <2>2. /\ content[path][w] \in Nat /\ tries[w] \in Nat
        /\ content[path][w] <= tries[w] /\ logged[w] <= content[path][w]
    BY DEF IInv, FilesInv, UpdateInv, Doc
  <2>3. QED
    BY <2>1, <2>2 DEF Crash, UpdateInv
<1>4. QED
  BY <1>1, <1>2, <1>3 DEF IInv

\* A reader opens the published file, or closes what it has open.
LEMMA PollStep ==
    ASSUME IInv, NEW r \in Readers, Poll(r)
    PROVE  IInv'
<1> USE DEF names, told
<1>0. r \in Writers \cup Readers /\ r \notin Writers
  BY ManifestAssumption
<1>1. CASE PollOpen(r)
  <2>1. TypeOK'
    BY <1>0, <1>1 DEF PollOpen, IInv, TypeOK
  <2>2. FilesInv'
    BY <1>0, <1>1 DEF PollOpen, IInv, TypeOK, FilesInv
  <2>3. UpdateInv'
    BY <1>1 DEF PollOpen, IInv, UpdateInv
  <2>4. QED
    BY <2>1, <2>2, <2>3 DEF IInv
<1>2. CASE PollRead(r)
  <2>1. TypeOK'
    BY <1>0, <1>2, ClosedFacts DEF PollRead, IInv, TypeOK
  <2>2. FilesInv'
    BY <1>0, <1>2, ClosedFacts, ZenonT(30) DEF PollRead, IInv, TypeOK, FilesInv
  <2>3. UpdateInv'
    BY <1>2 DEF PollRead, IInv, UpdateInv
  <2>4. QED
    BY <2>1, <2>2, <2>3 DEF IInv
<1>3. QED
  BY <1>1, <1>2 DEF Poll

\* The only writer never finds a torn manifest, nor its temporary file gone.
LEMMA NoFailures ==
    ASSUME OneWriter, IInv, NEW w \in Writers
    PROVE  ~LoadFails(w) /\ ~ReplaceFails(w)
BY WriterFacts, ManifestAssumption DEF LoadFails, ReplaceFails, IInv, FilesInv, Doc

-----------------------------------------------------------------------------
(* The theorems.                                                           *)

\* With one writer the manifest is always a document, and every update in
\* memory is exactly one ahead of it.
THEOREM ManifestInvariance ==
    ASSUME OneWriter
    PROVE  Spec => []IInv
<1>1. Init => IInv
  <2> SUFFICES ASSUME Init
               PROVE  IInv
    OBVIOUS
  <2>1. InitDoc \in Doc /\ \A w \in Writers : InitDoc[w] = 0
    BY DEF InitDoc, Doc
  <2>2. TypeOK
    BY <2>1 DEF Init, TypeOK
  <2>3. FilesInv
    BY <2>1, ManifestAssumption DEF Init, FilesInv
  <2>4. UpdateInv
    <3>1. content[path] = InitDoc
      BY DEF Init
    <3>2. tries = InitDoc /\ logged = InitDoc
      BY DEF Init
    <3>3. \A w \in Writers : InitDoc[w] <= InitDoc[w]
      BY DEF InitDoc
    <3>4. \A w \in Writers : pc[w] \notin {"loaded", "writing", "written"} /\ pc[w] # "saved"
      BY DEF Init
    <3>5. QED
      BY <3>1, <3>2, <3>3, <3>4, Zenon DEF UpdateInv
  <2>5. QED
    BY <2>2, <2>3, <2>4 DEF IInv
<1>2. IInv /\ [Next]_vars => IInv'
  <2> SUFFICES ASSUME IInv, [Next]_vars
               PROVE  IInv'
    OBVIOUS
  <2>1. ASSUME NEW w \in Writers, Write(w)
        PROVE  IInv'
    BY <2>1, LoadOpenStep, LoadReadStep, OpenTmpStep, CloseTmpStep, ReplaceStep,
       AppendEventStep, CrashStep, NoFailures DEF Write
  <2>2. CASE UNCHANGED vars
    BY <2>2 DEF vars, IInv, TypeOK, FilesInv, UpdateInv
  <2>3. QED
    BY <2>1, <2>2, PollStep DEF Next
<1>3. QED
  BY <1>1, <1>2, PTL DEF Spec

\* run.json is a document at every instant, for every reader.
THEOREM AlwaysWhole ==
    ASSUME OneWriter
    PROVE  Spec => []ManifestWhole
<1>1. IInv => ManifestWhole
  BY ManifestAssumption DEF IInv, FilesInv, ManifestWhole, Doc
<1>2. QED
  BY <1>1, ManifestInvariance, PTL

\* events.jsonl follows run.json.
THEOREM LogBehind ==
    ASSUME OneWriter
    PROVE  Spec => []LogFollowsManifest
<1>1. IInv => LogFollowsManifest
  BY ManifestAssumption DEF IInv, UpdateInv, LogFollowsManifest
<1>2. QED
  BY <1>1, ManifestInvariance, PTL

\* A step that changes neither the published document nor what any reader is
\* given is a stutter of the atomic document.
LEMMA SameView ==
    ASSUME content'[path'] = content[path], \A r \in Readers : Given(r)' = Given(r)
    PROVE  UNCHANGED Atomic!vars
BY DEF Atomic!vars

\* Neither does one that only writes a file that is not published and that no
\* reader has open.
LEMMA OtherFile ==
    ASSUME IInv, NEW i \in Inodes, NEW c,
           i # path, \A r \in Readers : fd[r] # i /\ fd'[r] = fd[r],
           content' = [content EXCEPT ![i] = c], UNCHANGED <<path, seen>>
    PROVE  UNCHANGED Atomic!vars
<1>1. content'[path'] = content[path]
  BY DEF IInv, TypeOK
<1>2. \A r \in Readers : Given(r)' = Given(r)
  BY DEF IInv, TypeOK, Given
<1>3. QED
  BY <1>1, <1>2, SameView

\* What one step of the writer is to a reader of the document.
LEMMA WriteView ==
    ASSUME OneWriter, IInv, NEW w \in Writers, Write(w)
    PROVE  [Atomic!Next]_(Atomic!vars)
<1> USE WriterFacts DEF names, told
<1>1. CASE LoadOpen(w)
  <2>1. \A r \in Readers : fd'[r] = fd[r]
    BY <1>1 DEF LoadOpen, IInv, TypeOK
  <2>2. QED
    BY <1>1, <2>1, SameView DEF LoadOpen, Given
<1>2. CASE LoadRead(w) \/ Crash(w)
  <2>1. \A r \in Readers : fd'[r] = fd[r]
    BY <1>2, ClosedFacts DEF LoadRead, Crash, IInv
  <2>2. QED
    BY <1>2, <2>1, SameView DEF LoadRead, Crash, Given
<1>3. CASE AppendEvent(w)
  BY <1>3, SameView DEF AppendEvent, Given
<1>4. CASE OpenTmp(w)
  <2>1. PICK i \in IF tmp = NoInode THEN {j \in Inodes : Free(j)} ELSE {tmp} :
           content' = [content EXCEPT ![i] = Torn] /\ fd' = [fd EXCEPT ![w] = i]
    BY <1>4 DEF OpenTmp
  <2>2. i \in Inodes /\ i # path /\ \A r \in Readers : fd[r] # i
    BY <2>1, ManifestAssumption DEF IInv, TypeOK, FilesInv, Free
  <2>3. \A r \in Readers : fd'[r] = fd[r]
    BY <2>1 DEF IInv, TypeOK
  <2>4. QED
    BY <1>4, <2>1, <2>2, <2>3, OtherFile DEF OpenTmp
<1>5. CASE CloseTmp(w)
  <2>1. /\ tmp \in Inodes /\ tmp # path /\ content' = [content EXCEPT ![tmp] = snap[w]]
        /\ \A r \in Readers : fd[r] # tmp
    BY <1>5, ManifestAssumption DEF CloseTmp, IInv, TypeOK, FilesInv
  <2>2. \A r \in Readers : fd'[r] = fd[r]
    BY <1>5, ClosedFacts DEF CloseTmp, IInv
  <2>3. QED
    BY <1>5, <2>1, <2>2, OtherFile DEF CloseTmp
<1>6. CASE Replace(w)
  <2>1. /\ content'[path'] = [content[path] EXCEPT ![w] = tries[w]]
        /\ content[path] \in Doc /\ content[path][w] < tries[w]
    BY <1>6 DEF Replace, IInv, FilesInv, UpdateInv
  <2>2. content'[path'][w] = tries[w]
    BY <2>1 DEF Doc
  <2>3. \A r \in Readers : Given(r)' = Given(r)
    BY <1>6 DEF Replace, Given
  <2>4. Atomic!Update(w)
    BY <2>1, <2>2, <2>3 DEF Atomic!Update
  <2>5. QED
    BY <2>4 DEF Atomic!Next
<1>7. QED
  BY <1>1, <1>2, <1>3, <1>4, <1>5, <1>6, NoFailures DEF Write

\* A poll reads the document at the moment it opens the file.
LEMMA PollView ==
    ASSUME IInv, NEW r \in Readers, Poll(r)
    PROVE  [Atomic!Next]_(Atomic!vars)
<1> USE DEF names, told
<1>1. content' = content /\ path' = path /\ r \in Writers \cup Readers
  BY DEF Poll, PollOpen, PollRead
<1>2. CASE PollOpen(r)
  <2>1. \A q \in Readers : Given(q)' = IF q = r THEN content[path] ELSE Given(q)
    BY <1>1, <1>2, ManifestAssumption DEF PollOpen, IInv, TypeOK, Given
  <2>2. Atomic!Read(r)
    BY <1>1, <2>1 DEF Atomic!Read
  <2>3. QED
    BY <2>2 DEF Atomic!Next
<1>3. CASE PollRead(r)
  <2>1. /\ fd'[r] = NoInode /\ seen'[r] = content[fd[r]]
        /\ \A q \in Readers : q # r => fd'[q] = fd[q] /\ seen'[q] = seen[q]
    BY <1>1, <1>3, ClosedFacts DEF PollRead, IInv, TypeOK
  <2>2. \A q \in Readers : Given(q)' = Given(q)
    BY <1>1, <1>3, <2>1 DEF PollRead, Given
  <2>3. QED
    BY <1>1, <2>2, SameView
<1>4. QED
  BY <1>2, <1>3 DEF Poll

\* With one writer, load-modify-write-rename is an atomic update, and open and
\* read are an atomic read.
THEOREM RefinesAtomic ==
    ASSUME OneWriter
    PROVE  Spec => AtomicSpec
<1>1. Init => Atomic!Init
  BY ManifestAssumption DEF Init, Atomic!Init, InitDoc, Atomic!InitDoc, Given
<1>2. IInv /\ [Next]_vars => [Atomic!Next]_(Atomic!vars)
  <2>1. CASE UNCHANGED vars
    BY <2>1, SameView DEF vars, Given
  <2>2. QED
    BY <2>1, WriteView, PollView DEF Next
<1>3. QED
  BY <1>1, <1>2, ManifestInvariance, PTL DEF Spec, AtomicSpec, Atomic!Spec
-----------------------------------------------------------------------------
(* Any number of writers.                                                  *)

\* Who reads or writes has a file open; a torn file is being written, unless two writers
\* had it open at once or a writer died.
OpenInv == \A w \in Writers : pc[w] \in {"reading", "writing"} => fd[w] \in Inodes
TornInv ==
    \A i \in Inodes : content[i] = Torn =>
        i \in mixed \/ nCrashed > 0 \/ \E w \in Writers : pc[w] = "writing" /\ fd[w] = i

SharedInv == TypeOK /\ OpenInv /\ TornInv

\* Who writes a step leaves the files of the others open, and what is written nowhere
\* but in one file leaves the others torn only if they were.
LEMMA SharedStep ==
    ASSUME SharedInv, NEW w \in Writers, Write(w)
    PROVE  SharedInv'
<1>0. /\ w \in Writers \cup Readers /\ tries[w] + 1 \in Nat /\ nCrashed + 1 \in Nat
      /\ nCrashed + 1 > 0 /\ snap[w] \in Doc /\ snap[w][w] \in Nat /\ Torn \notin Doc
  BY ManifestAssumption DEF SharedInv, TypeOK, Doc
<1>1. /\ Closed(w) \in [Writers \cup Readers -> Inodes \cup {NoInode}]
      /\ \A q \in Writers \cup Readers : q # w => Closed(w)[q] = fd[q]
  BY <1>0, ClosedFacts DEF SharedInv
\* A step that writes to no file and begins or ends no writing.
<1>2. ASSUME UNCHANGED <<content, mixed, nCrashed>>, TypeOK', pc[w] # "writing",
             \A q \in Writers : q # w => pc'[q] = pc[q] /\ fd'[q] = fd[q],
             pc'[w] # "writing", pc'[w] = "reading" => fd'[w] \in Inodes
      PROVE  SharedInv'
  BY <1>2 DEF SharedInv, OpenInv, TornInv
<1>3. CASE LoadOpen(w)
  <2>1. TypeOK' /\ fd'[w] = path /\ pc[w] = "idle" /\ pc'[w] = "reading"
    BY <1>0, <1>3 DEF LoadOpen, SharedInv, TypeOK, names, told
  <2> QED BY <1>2, <1>3, <2>1 DEF LoadOpen, SharedInv, TypeOK, told
<1>4. CASE LoadRead(w)
  <2>1. content[fd[w]] \in Doc
    BY <1>4 DEF LoadRead, SharedInv, TypeOK, OpenInv
  <2>2. [content[fd[w]] EXCEPT ![w] = tries[w] + 1] \in Doc /\ [tries EXCEPT ![w] = @ + 1] \in Doc
    BY <1>0, <2>1, DocFacts DEF SharedInv, TypeOK
  <2>3. TypeOK' /\ pc[w] = "reading" /\ pc'[w] = "loaded"
    BY <1>0, <1>1, <1>4, <2>2 DEF LoadRead, SharedInv, TypeOK, names, told
  <2> QED BY <1>1, <1>2, <1>4, <2>3 DEF LoadRead, SharedInv, TypeOK, told
<1>5. CASE LoadFails(w)
  <2>1. [tries EXCEPT ![w] = @ + 1] \in Doc
    BY <1>0, DocFacts DEF SharedInv, TypeOK
  <2>2. TypeOK' /\ pc[w] = "reading" /\ pc'[w] = "idle"
    BY <1>0, <1>1, <1>5, <2>1 DEF LoadFails, SharedInv, TypeOK, names, told
  <2> QED BY <1>1, <1>2, <1>5, <2>2 DEF LoadFails, SharedInv, TypeOK, told
<1>6. CASE OpenTmp(w)
  <2> PICK i \in IF tmp = NoInode THEN {j \in Inodes : Free(j)} ELSE {tmp} :
          /\ tmp' = i /\ content' = [content EXCEPT ![i] = Torn] /\ fd' = [fd EXCEPT ![w] = i]
          /\ mixed' = IF \E v \in Writers : pc[v] = "writing" /\ fd[v] = i
                      THEN mixed \cup {i} ELSE mixed \ {i}
    BY <1>6 DEF OpenTmp
  <2>1. i \in Inodes
    BY DEF SharedInv, TypeOK
  <2>2. /\ pc[w] = "loaded" /\ pc' = [pc EXCEPT ![w] = "writing"]
        /\ UNCHANGED <<path, snap, tries, acked, logged, seen, nCrashed>>
    BY <1>6 DEF OpenTmp, told
  <2>3. TypeOK'
    BY <1>0, <2>1, <2>2 DEF SharedInv, TypeOK
  <2>4. /\ pc'[w] = "writing" /\ fd'[w] = i
        /\ \A q \in Writers : q # w => pc'[q] = pc[q] /\ fd'[q] = fd[q]
        /\ \A j \in Inodes : j # i => content'[j] = content[j] /\ (j \in mixed => j \in mixed')
    BY <1>0, <2>1, <2>2 DEF SharedInv, TypeOK
  <2> QED BY <2>1, <2>2, <2>3, <2>4 DEF SharedInv, OpenInv, TornInv
<1>7. CASE CloseTmp(w)
  <2>0. pc[w] = "writing" /\ fd[w] \in Inodes
    BY <1>7 DEF CloseTmp, SharedInv, OpenInv
  <2> PICK c \in {snap[w]} \cup (IF fd[w] \in mixed THEN {Torn} ELSE {}) :
          content' = [content EXCEPT ![fd[w]] = c]
    BY <1>7 DEF CloseTmp
  <2>1. /\ fd' = Closed(w) /\ pc' = [pc EXCEPT ![w] = "written"]
        /\ UNCHANGED <<path, tmp, mixed, snap, tries, acked, logged, seen, nCrashed>>
    BY <1>7 DEF CloseTmp, names, told
  <2>2. c \in Doc \cup {Torn} /\ (c = Torn => fd[w] \in mixed)
    BY <1>0
  <2>3. TypeOK'
    BY <1>1, <2>0, <2>1, <2>2 DEF SharedInv, TypeOK
  <2>4. /\ pc'[w] = "written" /\ content'[fd[w]] = c
        /\ \A q \in Writers : q # w => pc'[q] = pc[q] /\ fd'[q] = fd[q]
        /\ \A j \in Inodes : j # fd[w] => content'[j] = content[j]
    BY <1>1, <2>0, <2>1 DEF SharedInv, TypeOK
  <2> QED BY <2>1, <2>2, <2>3, <2>4 DEF SharedInv, OpenInv, TornInv
<1>8. CASE Replace(w)
  <2>1. acked' \in Doc
    BY <1>0, <1>8, DocFacts DEF Replace, SharedInv, TypeOK
  <2>2. TypeOK' /\ pc[w] = "written" /\ pc'[w] \in {"saved", "idle"}
    BY <1>8, <2>1 DEF Replace, SharedInv, TypeOK
  <2> QED BY <1>2, <1>8, <2>2 DEF Replace, SharedInv, TypeOK
<1>9. CASE ReplaceFails(w)
  <2>1. TypeOK' /\ pc[w] = "written" /\ pc'[w] = "idle"
    BY <1>9 DEF ReplaceFails, SharedInv, TypeOK, names, told
  <2> QED BY <1>2, <1>9, <2>1 DEF ReplaceFails, SharedInv, TypeOK, told
<1>10. CASE AppendEvent(w)
  <2>1. acked' \in Doc /\ logged' \in Doc
    BY <1>0, <1>10, DocFacts DEF AppendEvent, SharedInv, TypeOK
  <2>2. TypeOK' /\ pc[w] = "saved" /\ pc'[w] = "idle"
    BY <1>10, <2>1 DEF AppendEvent, SharedInv, TypeOK, names
  <2> QED BY <1>2, <1>10, <2>2 DEF AppendEvent, SharedInv, TypeOK
<1>11. CASE Crash(w)
  <2>1. TypeOK' /\ pc'[w] = "idle" /\ nCrashed' > 0
    BY <1>0, <1>1, <1>11 DEF Crash, SharedInv, TypeOK, names
  <2>2. OpenInv'
    BY <1>1, <1>11, <2>1 DEF Crash, SharedInv, TypeOK, OpenInv
  <2> QED BY <2>1, <2>2 DEF SharedInv, TornInv
<1> QED BY <1>3, <1>4, <1>5, <1>6, <1>7, <1>8, <1>9, <1>10, <1>11 DEF Write

\* A poll opens and closes files of its own.
LEMMA SharedPoll ==
    ASSUME SharedInv, NEW r \in Readers, Poll(r)
    PROVE  SharedInv'
<1>1. /\ UNCHANGED <<names, content, mixed, pc, snap, tries, acked, logged, nCrashed>>
      /\ r \in Writers \cup Readers
  BY DEF Poll, PollOpen, PollRead, told
<1>2. /\ fd' \in [Writers \cup Readers -> Inodes \cup {NoInode}]
      /\ \A w \in Writers : fd'[w] = fd[w]
      /\ seen' \in [Readers -> Doc \cup {Torn}]
  <2>1. CASE PollOpen(r)
    BY <1>1, <2>1, ManifestAssumption DEF PollOpen, SharedInv, TypeOK, told
  <2>2. CASE PollRead(r)
    <3>1. content[fd[r]] \in Doc \cup {Torn}
      BY <1>1, <2>2 DEF PollRead, SharedInv, TypeOK
    <3>2. seen' \in [Readers -> Doc \cup {Torn}]
      BY <2>2, <3>1 DEF PollRead, SharedInv, TypeOK
    <3> QED BY <1>1, <2>2, <3>2, ClosedFacts, ManifestAssumption DEF PollRead, SharedInv
  <2> QED BY <2>1, <2>2 DEF Poll
<1>3. TypeOK'
  BY <1>1, <1>2 DEF SharedInv, TypeOK, names
<1> QED BY <1>1, <1>2, <1>3 DEF SharedInv, OpenInv, TornInv

\* However many threads and processes update a run, and whichever of them die: run.json
\* is unreadable at rest only if two of them had the temporary file open at once, or one
\* died (manifests.py: _write_json_atomic, whose temporary name is the same for all).
THEOREM TornExplained == Spec => []TornNeedsOverlap
<1>1. Init => SharedInv
  <2> SUFFICES ASSUME Init PROVE SharedInv
    OBVIOUS
  <2>1. InitDoc \in Doc /\ InitDoc # Torn
    BY ManifestAssumption DEF InitDoc, Doc
  <2> QED BY <2>1 DEF Init, SharedInv, TypeOK, OpenInv, TornInv
<1>2. SharedInv /\ [Next]_vars => SharedInv'
  <2> SUFFICES ASSUME SharedInv, [Next]_vars PROVE SharedInv'
    OBVIOUS
  <2>1. CASE UNCHANGED vars
    BY <2>1 DEF vars, SharedInv, TypeOK, OpenInv, TornInv
  <2> QED BY <2>1, SharedStep, SharedPoll DEF Next
<1>3. SharedInv => TornNeedsOverlap
  BY DEF SharedInv, TypeOK, TornInv, TornNeedsOverlap
<1> QED BY <1>1, <1>2, <1>3, PTL DEF Spec

-----------------------------------------------------------------------------
(* Invocations, however many of one run there are at once.                 *)

\* The files the invocation v has written and, in the second, recorded.
HasWritten(v, i) ==
    /\ i \in First..Pdf
    /\ \/ v.at \in {"test", "work", "retest", "write"} /\ i < v.file
       \/ v.at \in {"load", "save"} /\ v.change = "art" /\ i <= v.file
       \/ v.at \in {"load", "save"} /\ v.change = "running" /\ i < Transcript
       \/ v.at = "finish"
       \/ v.at \in {"load", "save", "ended"} /\ v.change = "succeeded"
HasRecorded(v, i) ==
    /\ i \in First..Pdf
    /\ \/ v.at \in {"test", "work", "retest", "write"} /\ i < v.file
       \/ v.at \in {"load", "save"} /\ v.change = "art" /\ i < v.file
       \/ v.at \in {"load", "save"} /\ v.change = "running" /\ i < Transcript
       \/ v.at = "finish"

\* Its plan's stages, in order.
Flow(v) ==
    /\ v.file >= First
    /\ v.at = "new" => ~v.inside /\ v.change = "none" /\ v.file = First
    /\ v.at # "save" => v.seen = Fresh
    /\ v.at \in {"load", "save"} =>
          /\ v.change # "none"
          /\ v.change = "skip" => ~audio
          /\ v.change = "running" => ~audio \/ v.file = Normalized
    /\ v.at \in {"refused", "ended"} => ~v.inside
FlowInv == \A t \in Invocations : Flow(inv[t])

\* Who has written a file finds there what it has written, unless another had found it
\* missing; and who is about to overwrite one shares it with another.
OwnInv == \A t \in Invocations : \A i \in Files :
            HasWritten(inv[t], i) => Present(i) /\ (files[i].by = t \/ i \in raced)
RaceInv == \A t \in Invocations : \A i \in Files : Writing(t, i) /\ Present(i) => i \in raced

\* Past the gate, the draft is one that was allowed.
Passed(v) ==
    \/ v.file > Gate
    \/ /\ v.file = Gate /\ ~v.blocked
       /\ \/ v.at \in {"retest", "write"}
          \/ v.at \in {"load", "save"} /\ v.change = "art"
PassedInv == \A t \in Invocations : Passed(inv[t]) => Present(Json) /\ files[Json].draft \in allowed
DraftInv == \A t \in Invocations :
              Place(t) \in {"retest", "write"} /\ inv[t].file \in Published => inv[t].draft \in allowed
GateInv == Json \in raced \/ (PassedInv /\ DraftInv /\ OnlyAllowedPublished)

\* Where the audio is needed, whoever saves anything has written the receipt.
Saves(v) == v.at \in {"load", "save", "finish", "ended"} \/ v.file > Receipt \/ v.inside
HoldsInv == audio => \A t \in Invocations :
              Saves(inv[t]) => Present(Receipt) /\ (files[Receipt].by = t \/ Receipt \in raced)
OneEnded(s) == s \in Completed => \E t \in Invocations : Place(t) = "ended"
EndedInv == audio /\ Receipt \notin raced =>
              /\ OneEnded(run.status)
              /\ \A t \in Invocations : OneEnded(inv[t].seen.status)

\* What has been recorded, as long as no save has lost anything.
KeptInv ==
    /\ run.status = "succeeded" => run.outputs = Pointers
    /\ \A t \in Invocations : \A i \in Files :
          /\ HasRecorded(inv[t], i) => i \in run.arts
          /\ Place(t) \in {"load", "save"} /\ inv[t].change = "succeeded" /\ i \in First..Pdf
             => i \in inv[t].found
StatusInv ==
    /\ run.status = "queued" => \A t \in Invocations :
          ~inv[t].inside /\ Place(t) \notin {"ended", "died"}
    /\ run.status = "running" => \E t \in Invocations : inv[t].inside \/ Place(t) = "died"
SavesInv == overlaid \/ (KeptInv /\ StatusInv)

Inv == InvTypeOK /\ FlowInv /\ OwnInv /\ RaceInv /\ GateInv /\ HoldsInv /\ EndedInv /\ SavesInv

\* A step of one invocation that writes no file: what the invariant says of files, if the
\* invocation has written what it claims, and has a draft that was allowed.
LEMMA LocalKeeps ==
    ASSUME Inv, NEW t \in Invocations,
           inv' \in [Invocations -> Locals],
           \A u \in Invocations : u # t => inv'[u] = inv[u],
           UNCHANGED <<audio, files, raced>>,
           allowed \subseteq allowed', allowed' \subseteq Drafts,
           Flow(inv'[t]),
           \A i \in Files : HasWritten(inv'[t], i) => HasWritten(inv[t], i)
                                                     \/ (Present(i) /\ i \in raced),
           \A i \in Files : Writing(t, i)' => Writing(t, i) \/ ~Present(i),
           Passed(inv'[t]) => \/ Passed(inv[t]) \/ Json \in raced
                              \/ Present(Json) /\ files[Json].draft \in allowed',
           Place(t)' \in {"retest", "write"} /\ inv'[t].file \in Published
              => inv'[t].draft \in allowed' \/ Json \in raced,
           Saves(inv'[t]) => Saves(inv[t]) \/ ~audio
    PROVE  FlowInv' /\ OwnInv' /\ RaceInv' /\ GateInv' /\ HoldsInv'
<1> USE InvocationsAssumption
<1>0. /\ InvTypeOK /\ FlowInv /\ OwnInv /\ RaceInv /\ GateInv /\ HoldsInv /\ EndedInv /\ SavesInv
      /\ First' = First /\ \A i : Present(i)' = Present(i)
      /\ \A u \in Invocations : u # t => inv'[u] = inv[u]
  BY DEF Inv, First, Present
<1>2. FlowInv'
  BY <1>0 DEF FlowInv, Flow
<1>3. OwnInv'
  <2> SUFFICES ASSUME NEW u \in Invocations, NEW i \in Files, HasWritten(inv'[u], i)
               PROVE  Present(i) /\ (files[i].by = u \/ i \in raced)
    BY <1>0 DEF OwnInv, HasWritten
  <2> QED BY <1>0 DEF OwnInv
<1>4. RaceInv'
  <2> SUFFICES ASSUME NEW u \in Invocations, NEW i \in Files, Writing(u, i)', Present(i)
               PROVE  i \in raced
    BY <1>0 DEF RaceInv
  <2> QED BY <1>0 DEF RaceInv, Writing, Place
<1>5. GateInv'
  <2> SUFFICES ASSUME Json \notin raced PROVE (PassedInv /\ DraftInv /\ OnlyAllowedPublished)'
    BY DEF GateInv
  <2>1. PassedInv'
    <3> SUFFICES ASSUME NEW u \in Invocations, Passed(inv'[u])
                 PROVE  Present(Json) /\ files[Json].draft \in allowed'
      BY <1>0 DEF PassedInv, Passed
    <3> QED BY <1>0 DEF GateInv, PassedInv
  <2>2. DraftInv'
    BY <1>0 DEF GateInv, DraftInv, Place
  <2>3. OnlyAllowedPublished'
    BY <1>0 DEF GateInv, OnlyAllowedPublished
  <2> QED BY <2>1, <2>2, <2>3
<1>6. HoldsInv'
  <2> SUFFICES ASSUME audio, NEW u \in Invocations, Saves(inv'[u])
               PROVE  Present(Receipt) /\ (files[Receipt].by = u \/ Receipt \in raced)
    BY <1>0 DEF HoldsInv, Saves
  <2> QED BY <1>0 DEF HoldsInv
<1> QED BY <1>2, <1>3, <1>4, <1>5, <1>6

\* A step of one invocation that leaves run.json: what the invariant says of run.json.
LEMMA RunKeeps ==
    ASSUME Inv, NEW t \in Invocations,
           \A u \in Invocations : u # t => inv'[u] = inv[u],
           UNCHANGED <<audio, run, overlaid>>, raced \subseteq raced',
           Place(t) \notin {"ended", "died"} /\ Place(t)' # "ended",
           inv'[t].seen.status \in Completed => inv'[t].seen.status = run.status,
           \A i \in Files : HasRecorded(inv'[t], i) => HasRecorded(inv[t], i),
           Place(t)' \in {"load", "save"} /\ inv'[t].change = "succeeded" =>
              \/ Place(t) \in {"load", "save"} /\ inv[t].change = "succeeded"
                    /\ inv'[t].found = inv[t].found
              \/ Place(t) = "finish" /\ inv'[t].found = run.arts,
           inv'[t].inside => inv[t].inside,
           inv[t].inside => inv'[t].inside \/ Place(t)' = "died",
           Place(t)' = "died" => inv[t].inside
    PROVE  EndedInv' /\ SavesInv'
<1>0. /\ EndedInv /\ SavesInv /\ First' = First
      /\ \A u \in Invocations : u # t => inv'[u] = inv[u]
  BY DEF Inv, First
<1>7. EndedInv'
  <2> SUFFICES ASSUME audio, Receipt \notin raced
               PROVE  /\ OneEnded(run.status)'
                      /\ \A u \in Invocations : OneEnded(inv[u].seen.status)'
    BY DEF EndedInv
  <2>1. \A s : OneEnded(s) => (s \in Completed => \E u \in Invocations : Place(u)' = "ended")
    BY <1>0 DEF OneEnded, Place
  <2>2. OneEnded(run.status) /\ \A u \in Invocations : OneEnded(inv[u].seen.status)
    BY <1>0 DEF EndedInv
  <2> QED BY <1>0, <2>1, <2>2 DEF OneEnded
<1>8. SavesInv'
  <2> SUFFICES ASSUME ~overlaid PROVE (KeptInv /\ StatusInv)'
    BY DEF SavesInv
  <2>0. KeptInv /\ StatusInv
    BY <1>0 DEF SavesInv
  <2>1. KeptInv'
    <3>1. ASSUME NEW u \in Invocations, NEW i \in Files, HasRecorded(inv'[u], i)
          PROVE  i \in run.arts
      BY <1>0, <2>0, <3>1 DEF KeptInv
    <3>2. ASSUME NEW u \in Invocations, NEW i \in Files, Place(u)' \in {"load", "save"},
                 inv'[u].change = "succeeded", i \in First..Pdf
          PROVE  i \in inv'[u].found
      <4>1. CASE u = t /\ Place(t) = "finish"
        BY <1>0, <2>0, <3>2, <4>1 DEF KeptInv, HasRecorded, Place
      <4> QED BY <1>0, <2>0, <3>2, <4>1 DEF KeptInv, Place
    <3> QED BY <1>0, <2>0, <3>1, <3>2 DEF KeptInv, HasRecorded
  <2>2. StatusInv'
    <3>1. ASSUME run.status = "queued", NEW u \in Invocations
          PROVE  ~inv'[u].inside /\ inv'[u].at \notin {"ended", "died"}
      BY <1>0, <2>0, <3>1 DEF StatusInv, Place
    <3>2. ASSUME run.status = "running"
          PROVE  \E u \in Invocations : inv'[u].inside \/ inv'[u].at = "died"
      <4>1. PICK u \in Invocations : inv[u].inside \/ inv[u].at = "died"
        BY <2>0, <3>2 DEF StatusInv, Place
      <4>2. inv'[u].inside \/ inv'[u].at = "died"
        BY <1>0, <4>1 DEF Place
      <4> QED BY <4>2
    <3> QED BY <1>0, <3>1, <3>2 DEF StatusInv, Place
  <2> QED BY <2>1, <2>2
<1> QED BY <1>7, <1>8

\* A step of one invocation that leaves the files and run.json.
LEMMA MoveKeeps ==
    ASSUME Inv, NEW t \in Invocations,
           inv' \in [Invocations -> Locals],
           \A u \in Invocations : u # t => inv'[u] = inv[u],
           UNCHANGED <<audio, run, files, raced, overlaid>>,
           allowed \subseteq allowed', allowed' \subseteq Drafts,
           Flow(inv'[t]),
           \A i \in Files : HasWritten(inv'[t], i) => HasWritten(inv[t], i)
                                                     \/ (Present(i) /\ i \in raced),
           \A i \in Files : Writing(t, i)' => Writing(t, i) \/ ~Present(i),
           Passed(inv'[t]) => \/ Passed(inv[t]) \/ Json \in raced
                              \/ Present(Json) /\ files[Json].draft \in allowed',
           Place(t)' \in {"retest", "write"} /\ inv'[t].file \in Published
              => inv'[t].draft \in allowed' \/ Json \in raced,
           Saves(inv'[t]) => Saves(inv[t]) \/ ~audio,
           Place(t) \notin {"ended", "died"} /\ Place(t)' # "ended",
           inv'[t].seen.status \in Completed => inv'[t].seen.status = run.status,
           \A i \in Files : HasRecorded(inv'[t], i) => HasRecorded(inv[t], i),
           Place(t)' \in {"load", "save"} /\ inv'[t].change = "succeeded" =>
              \/ Place(t) \in {"load", "save"} /\ inv[t].change = "succeeded"
                    /\ inv'[t].found = inv[t].found
              \/ Place(t) = "finish" /\ inv'[t].found = run.arts,
           inv'[t].inside => inv[t].inside,
           inv[t].inside => inv'[t].inside \/ Place(t)' = "died",
           Place(t)' = "died" => inv[t].inside
    PROVE  Inv'
<1>1. FlowInv' /\ OwnInv' /\ RaceInv' /\ GateInv' /\ HoldsInv'
  BY LocalKeeps
<1>2. EndedInv' /\ SavesInv'
  BY RunKeeps
<1>3. InvTypeOK'
  BY DEF Inv, InvTypeOK, RunDoc
<1> QED BY <1>1, <1>2, <1>3 DEF Inv

\* The places and the changes of Locals.
Ats == {"new", "test", "work", "retest", "write", "load", "save", "finish",
        "refused", "died", "ended"}
Changes == {"none", "skip", "art", "running", "succeeded", "failed"}

\* What a step does to the locals of its invocation, and that it leaves the others.
LEMMA GoesFacts ==
    ASSUME InvTypeOK, NEW t \in Invocations, NEW l \in Ats, Goes(t, l)
    PROVE  /\ inv' \in [Invocations -> Locals]
           /\ \A u \in Invocations : u # t => inv'[u] = inv[u]
           /\ inv'[t].at = l /\ inv'[t].file = inv[t].file
           /\ inv'[t].change = inv[t].change /\ inv'[t].seen = Fresh
           /\ inv'[t].found = inv[t].found /\ inv'[t].draft = inv[t].draft
           /\ inv'[t].blocked = inv[t].blocked /\ inv'[t].inside = inv[t].inside
<1>1. inv[t] \in Locals /\ Fresh \in RunDoc
  BY DEF InvTypeOK, Fresh, RunDoc
<1>2. inv' = [inv EXCEPT ![t] = [inv[t] EXCEPT !.at = l, !.seen = Fresh]]
  BY DEF Goes, InvTypeOK
<1>3. [inv[t] EXCEPT !.at = l, !.seen = Fresh] \in Locals
  BY <1>1 DEF Locals, Ats
<1> QED BY <1>1, <1>2, <1>3 DEF InvTypeOK, Locals

\* The same of a change of run.json that is begun.
LEMMA UpdatesFacts ==
    ASSUME InvTypeOK, NEW t \in Invocations, NEW c \in Changes, Updates(t, c)
    PROVE  /\ inv' \in [Invocations -> Locals]
           /\ \A u \in Invocations : u # t => inv'[u] = inv[u]
           /\ inv'[t].at = "load" /\ inv'[t].file = inv[t].file
           /\ inv'[t].change = c /\ inv'[t].seen = Fresh
           /\ inv'[t].found = inv[t].found /\ inv'[t].draft = inv[t].draft
           /\ inv'[t].blocked = inv[t].blocked /\ inv'[t].inside = inv[t].inside
<1>1. inv[t] \in Locals /\ Fresh \in RunDoc
  BY DEF InvTypeOK, Fresh, RunDoc
<1>2. inv' = [inv EXCEPT ![t] = [inv[t] EXCEPT !.at = "load", !.change = c, !.seen = Fresh]]
  BY DEF Updates, InvTypeOK
<1>3. [inv[t] EXCEPT !.at = "load", !.change = c, !.seen = Fresh] \in Locals
  BY <1>1 DEF Locals, Changes
<1> QED BY <1>1, <1>2, <1>3 DEF InvTypeOK, Locals

\* The same of an invocation that ends.
LEMMA EndsFacts ==
    ASSUME InvTypeOK, NEW t \in Invocations, NEW l \in Ats, Ends(t, l)
    PROVE  /\ inv' \in [Invocations -> Locals]
           /\ \A u \in Invocations : u # t => inv'[u] = inv[u]
           /\ inv'[t].at = l /\ inv'[t].file = First
           /\ inv'[t].change = inv[t].change /\ inv'[t].seen = Fresh
           /\ inv'[t].blocked = FALSE /\ inv'[t].inside = FALSE
<1>1. inv[t] \in Locals /\ Fresh \in RunDoc /\ First \in Files /\ NoOne \in Drafts
  BY DEF InvTypeOK, Fresh, RunDoc, First, Files, Receipt, Transcript, Pdf, Drafts
<1> DEFINE v == [inv[t] EXCEPT !.at = l, !.file = First, !.seen = Fresh, !.found = {},
                               !.draft = NoOne, !.blocked = FALSE, !.inside = FALSE]
<1>2. inv' = [inv EXCEPT ![t] = v]
  BY DEF Ends, InvTypeOK
<1>3. v \in Locals
  BY <1>1 DEF Locals, Ats
<1>4. /\ v.at = l /\ v.file = First /\ v.change = inv[t].change /\ v.seen = Fresh
      /\ v.blocked = FALSE /\ v.inside = FALSE
  BY <1>1 DEF Locals
<1>5. inv'[t] = v
  BY <1>2 DEF InvTypeOK
<1> HIDE DEF v
<1> QED BY <1>1, <1>2, <1>3, <1>4, <1>5 DEF InvTypeOK

\* What raises fails the run, or ends the invocation.
LEMMA RaiseStep ==
    ASSUME Inv, NEW t \in Invocations, Raises(t),
           Place(t) \in {"test", "work", "retest", "write", "load", "save"},
           UNCHANGED <<audio, run, files, raced, overlaid, allowed>>
    PROVE  Inv'
<1>0. /\ InvTypeOK /\ Flow(inv[t]) /\ inv[t] \in Locals /\ allowed \subseteq Drafts
      /\ First' = First
  BY DEF Inv, InvTypeOK, FlowInv, First
<1>1. CASE inv[t].inside /\ inv[t].change # "failed"
  <2>1. /\ inv' \in [Invocations -> Locals]
        /\ \A u \in Invocations : u # t => inv'[u] = inv[u]
        /\ inv'[t].at = "load" /\ inv'[t].file = inv[t].file
        /\ inv'[t].change = "failed" /\ inv'[t].seen = Fresh
        /\ inv'[t].inside = inv[t].inside
    BY <1>0, <1>1, UpdatesFacts DEF Raises, Changes
  <2>2. Flow(inv'[t])
    BY <1>0, <1>1, <2>1 DEF Flow
  <2>3. \A i \in Files : ~HasWritten(inv'[t], i) /\ ~HasRecorded(inv'[t], i) /\ ~Writing(t, i)'
    BY <2>1 DEF HasWritten, HasRecorded, Writing, Place
  <2>4. Passed(inv'[t]) => Passed(inv[t])
    BY <2>1 DEF Passed
  <2>5. Saves(inv[t])
    BY <1>1 DEF Saves
  <2>6. Fresh.status \notin Completed
    BY DEF Fresh, Completed
  <2> QED BY <1>0, <1>1, <2>1, <2>2, <2>3, <2>4, <2>5, <2>6, MoveKeeps DEF Place
<1>2. CASE ~(inv[t].inside /\ inv[t].change # "failed")
  <2> DEFINE l == IF inv[t].inside THEN "died" ELSE "refused"
  <2>1. /\ inv' \in [Invocations -> Locals]
        /\ \A u \in Invocations : u # t => inv'[u] = inv[u]
        /\ inv'[t].at = l /\ inv'[t].file = First
        /\ inv'[t].seen = Fresh /\ inv'[t].inside = FALSE
    BY <1>0, <1>2, EndsFacts DEF Raises, Ats
  <2>2. Flow(inv'[t])
    BY <1>0, <2>1 DEF Flow, First, Receipt, Transcript
  <2>3. \A i \in Files : ~HasWritten(inv'[t], i) /\ ~HasRecorded(inv'[t], i) /\ ~Writing(t, i)'
    BY <2>1 DEF HasWritten, HasRecorded, Writing, Place
  <2>4. ~Passed(inv'[t])
    BY <2>1 DEF Passed, First, Receipt, Transcript, Gate
  <2>5. Saves(inv'[t]) => ~audio
    BY <2>1 DEF Saves, First, Receipt, Transcript
  <2>6. Fresh.status \notin Completed
    BY DEF Fresh, Completed
  <2> QED BY <1>0, <1>2, <2>1, <2>2, <2>3, <2>4, <2>5, <2>6, MoveKeeps DEF Place
<1> QED BY <1>1, <1>2

\* The steps, one by one.
LEMMA FaultStep ==
    ASSUME Inv, NEW t \in Invocations, Fault(t) PROVE Inv'
BY RaiseStep DEF Fault

LEMMA InvokeStep ==
    ASSUME Inv, NEW t \in Invocations, Invoke(t) PROVE Inv'
<1>0. /\ InvTypeOK /\ Flow(inv[t]) /\ allowed \subseteq Drafts /\ First' = First
      /\ inv[t].at = "new" /\ inv[t].file = First /\ ~inv[t].inside
      /\ UNCHANGED <<audio, run, files, raced, overlaid, allowed>>
  BY DEF Inv, InvTypeOK, FlowInv, Flow, First, Invoke, Place
<1>1. Fresh.status \notin Completed
  BY DEF Fresh, Completed
<1>2. \A i \in First..Pdf : ~(i < First)
  BY DEF First, Receipt, Transcript, Pdf
<1>3. CASE audio
  <2>1. /\ inv' \in [Invocations -> Locals]
        /\ \A u \in Invocations : u # t => inv'[u] = inv[u]
        /\ inv'[t].at = "test" /\ inv'[t].file = First
        /\ inv'[t].seen = Fresh /\ inv'[t].inside = inv[t].inside
    BY <1>0, <1>3, GoesFacts DEF Invoke, Ats
  <2>2. Flow(inv'[t])
    BY <1>0, <2>1 DEF Flow
  <2>3. \A i \in Files : ~HasWritten(inv'[t], i) /\ ~HasRecorded(inv'[t], i) /\ ~Writing(t, i)'
    BY <1>0, <1>2, <2>1 DEF HasWritten, HasRecorded, Writing, Place
  <2>4. Passed(inv'[t]) => Passed(inv[t])
    BY <1>0, <2>1 DEF Passed
  <2>5. Saves(inv'[t]) => Saves(inv[t])
    BY <1>0, <2>1 DEF Saves
  <2> QED BY <1>0, <1>1, <2>1, <2>2, <2>3, <2>4, <2>5, MoveKeeps DEF Place
<1>4. CASE ~audio
  <2>1. /\ inv' \in [Invocations -> Locals]
        /\ \A u \in Invocations : u # t => inv'[u] = inv[u]
        /\ inv'[t].at = "load" /\ inv'[t].file = First /\ inv'[t].change = "skip"
        /\ inv'[t].seen = Fresh /\ inv'[t].inside = inv[t].inside
    BY <1>0, <1>4, UpdatesFacts DEF Invoke, Changes
  <2>2. Flow(inv'[t])
    BY <1>0, <1>4, <2>1 DEF Flow
  <2>3. \A i \in Files : ~HasWritten(inv'[t], i) /\ ~HasRecorded(inv'[t], i) /\ ~Writing(t, i)'
    BY <2>1 DEF HasWritten, HasRecorded, Writing, Place
  <2>4. Passed(inv'[t]) => Passed(inv[t])
    BY <1>0, <2>1 DEF Passed
  <2> QED BY <1>0, <1>1, <1>4, <2>1, <2>2, <2>3, <2>4, MoveKeeps DEF Place
<1> QED BY <1>3, <1>4

LEMMA TestStep ==
    ASSUME Inv, NEW t \in Invocations, Test(t) PROVE Inv'
<1>0. /\ InvTypeOK /\ Flow(inv[t]) /\ allowed \subseteq Drafts /\ First' = First
      /\ inv[t].at \in {"test", "retest"} /\ inv[t].file \in Files
      /\ RaceInv /\ GateInv
      /\ UNCHANGED <<audio, run, files, raced, overlaid, allowed>>
  BY DEF Inv, InvTypeOK, FlowInv, First, Test, Place, Locals
<1>1. Fresh.status \notin Completed
  BY DEF Fresh, Completed
<1>2. CASE Present(inv[t].file) /\ Raises(t)
  BY <1>0, <1>2, RaiseStep DEF Place
<1>3. CASE /\ Present(inv[t].file) /\ inv[t].at = "retest" /\ inv[t].file = Transcript
           /\ Updates(t, "art")
  <2>1. /\ inv' \in [Invocations -> Locals]
        /\ \A u \in Invocations : u # t => inv'[u] = inv[u]
        /\ inv'[t].at = "load" /\ inv'[t].file = Transcript /\ inv'[t].change = "art"
        /\ inv'[t].seen = Fresh /\ inv'[t].inside = inv[t].inside
    BY <1>0, <1>3, UpdatesFacts DEF Changes
  <2>2. Flow(inv'[t])
    BY <1>0, <1>3, <2>1 DEF Flow
  <2>3. Transcript \in raced
    BY <1>0, <1>3 DEF RaceInv, Writing, Place, Rechecked, Transcript, Json, Gate, Evidence
  <2>4. \A i \in Files : /\ HasWritten(inv'[t], i)
                              => HasWritten(inv[t], i) \/ (Present(i) /\ i \in raced)
                         /\ HasRecorded(inv'[t], i) => HasRecorded(inv[t], i)
                         /\ ~Writing(t, i)'
    <3> SUFFICES ASSUME NEW i \in Files
                 PROVE  /\ HasWritten(inv'[t], i)
                             => HasWritten(inv[t], i) \/ (Present(i) /\ i \in raced)
                        /\ HasRecorded(inv'[t], i) => HasRecorded(inv[t], i)
                        /\ ~Writing(t, i)'
      OBVIOUS
    <3>1. CASE i = Transcript
      BY <1>3, <2>1, <2>3, <3>1 DEF HasRecorded, Writing, Place, Transcript
    <3>2. CASE i # Transcript
      BY <1>0, <1>3, <2>1, <3>2 DEF HasWritten, HasRecorded, Writing, Place, Files, Receipt,
                                    Transcript, Pdf
    <3> QED BY <3>1, <3>2
  <2>5. ~Passed(inv'[t])
    BY <2>1 DEF Passed, Transcript, Gate
  <2>6. Saves(inv[t])
    BY <1>3 DEF Saves, Transcript, Receipt
  <2> QED BY <1>0, <1>1, <2>1, <2>2, <2>4, <2>5, <2>6, MoveKeeps DEF Place
<1>4. CASE ~Present(inv[t].file)
  <2> DEFINE l == IF inv[t].at = "test" THEN "work" ELSE "write"
  <2>1. /\ inv' \in [Invocations -> Locals]
        /\ \A u \in Invocations : u # t => inv'[u] = inv[u]
        /\ inv'[t].at = l /\ inv'[t].file = inv[t].file
        /\ inv'[t].seen = Fresh /\ inv'[t].inside = inv[t].inside
        /\ inv'[t].blocked = inv[t].blocked /\ inv'[t].draft = inv[t].draft
    BY <1>0, <1>4, GoesFacts DEF Test, Ats, Place
  <2>2. Flow(inv'[t])
    BY <1>0, <2>1 DEF Flow
  <2>3. \A i \in Files : /\ HasWritten(inv'[t], i) => HasWritten(inv[t], i)
                         /\ HasRecorded(inv'[t], i) => HasRecorded(inv[t], i)
    BY <1>0, <2>1 DEF HasWritten, HasRecorded
  <2>4. \A i \in Files : Writing(t, i)' => ~Present(i)
    BY <1>4, <2>1 DEF Writing, Place
  <2>5. Passed(inv'[t]) => Passed(inv[t])
    BY <1>0, <2>1 DEF Passed
  <2>6. Saves(inv'[t]) => Saves(inv[t])
    BY <1>0, <2>1 DEF Saves
  <2>7. inv'[t].at \in {"retest", "write"} /\ inv'[t].file \in Published
          => inv'[t].draft \in allowed' \/ Json \in raced
    BY <1>0, <2>1 DEF GateInv, DraftInv, Place
  <2> QED BY <1>0, <1>1, <2>1, <2>2, <2>3, <2>4, <2>5, <2>6, <2>7, MoveKeeps DEF Place
<1> QED BY <1>2, <1>3, <1>4 DEF Test, Place

\* The draft of a step past the gate is one that was allowed.
LEMMA WorkStep ==
    ASSUME Inv, NEW t \in Invocations, Work(t) PROVE Inv'
<1>0. /\ InvTypeOK /\ Flow(inv[t]) /\ allowed \subseteq Drafts /\ First' = First
      /\ inv[t].at = "work" /\ inv[t] \in Locals /\ inv[t].file \in Files
      /\ files \in [Files -> [by : Drafts, draft : Drafts]]
      /\ GateInv /\ OwnInv /\ PassedInv \in BOOLEAN
      /\ UNCHANGED <<audio, run, files, raced, overlaid>>
  BY DEF Inv, InvTypeOK, FlowInv, First, Work, Place, Locals, PassedInv
<1>1. PICK b \in BOOLEAN, again \in Retests(inv[t].file) :
        /\ inv[t].file # Gate => ~b
        /\ inv' = [inv EXCEPT ![t].at = IF again THEN "retest" ELSE "write",
                              ![t].draft = DraftFor(t), ![t].blocked = b]
        /\ allowed' = IF inv[t].file = Gate /\ ~b THEN allowed \cup {DraftFor(t)} ELSE allowed
  BY DEF Work
<1> DEFINE l == IF again THEN "retest" ELSE "write"
<1>2. DraftFor(t) \in Drafts
  BY <1>0 DEF DraftFor, Drafts, Files, Receipt, Json, Md, Pdf
<1>3. /\ inv' \in [Invocations -> Locals]
      /\ \A u \in Invocations : u # t => inv'[u] = inv[u]
      /\ inv'[t].at = l /\ inv'[t].file = inv[t].file
      /\ inv'[t].seen = inv[t].seen /\ inv'[t].inside = inv[t].inside
      /\ inv'[t].blocked = b /\ inv'[t].draft = DraftFor(t)
  <2> DEFINE v == [inv[t] EXCEPT !.at = l, !.draft = DraftFor(t), !.blocked = b]
  <2>1. inv' = [inv EXCEPT ![t] = v]
    BY <1>0, <1>1 DEF InvTypeOK
  <2>2. v \in Locals
    BY <1>0, <1>2 DEF Locals
  <2>3. /\ v.at = l /\ v.file = inv[t].file /\ v.seen = inv[t].seen
        /\ v.inside = inv[t].inside /\ v.blocked = b /\ v.draft = DraftFor(t)
    BY <1>0 DEF Locals
  <2> HIDE DEF v, l
  <2> QED BY <1>0, <2>1, <2>2, <2>3 DEF InvTypeOK
<1>4. Flow(inv'[t])
  BY <1>0, <1>3 DEF Flow
<1>5. \A i \in Files : /\ HasWritten(inv'[t], i) => HasWritten(inv[t], i)
                       /\ HasRecorded(inv'[t], i) => HasRecorded(inv[t], i)
  BY <1>0, <1>3 DEF HasWritten, HasRecorded
<1>6. \A i \in Files : Writing(t, i)' => Writing(t, i)
  <2>1. inv[t].file \in Rechecked => l = "retest"
    BY DEF Retests
  <2> QED BY <1>0, <1>3, <2>1 DEF Writing, Place
<1>7. allowed \subseteq allowed' /\ allowed' \subseteq Drafts
  BY <1>0, <1>1, <1>2
<1>8. ASSUME Json \notin raced
      PROVE  /\ inv[t].file > Gate => files[Json].draft \in allowed
             /\ inv[t].file = Pdf => files[Md].draft \in allowed
  <2>1. inv[t].file > Gate => files[Json].draft \in allowed
    BY <1>0, <1>8 DEF GateInv, PassedInv, Passed
  <2>2. ASSUME inv[t].file = Pdf PROVE files[Md].draft \in allowed
    <3>1. HasWritten(inv[t], Md) /\ Md \in Files /\ Md \in Published
      BY <1>0, <2>2 DEF HasWritten, Md, Pdf, First, Receipt, Transcript, Files, Published
    <3>2. Present(Md)
      BY <1>0, <3>1 DEF OwnInv
    <3> QED BY <1>0, <1>8, <3>1, <3>2 DEF GateInv, OnlyAllowedPublished
  <2> QED BY <2>1, <2>2
<1>9. Passed(inv'[t]) => \/ Passed(inv[t])
                         \/ Present(Json) /\ files[Json].draft \in allowed'
  <2>1. CASE inv[t].file = Gate /\ ~b
    <3>1. HasWritten(inv[t], Json) /\ Json \in Files
      BY <1>0, <2>1 DEF HasWritten, Json, Gate, First, Receipt, Transcript, Pdf, Files
    <3>2. Present(Json)
      BY <1>0, <3>1 DEF OwnInv
    <3>3. DraftFor(t) = files[Json].draft
      BY <2>1 DEF DraftFor, Gate, Json
    <3> QED BY <1>1, <2>1, <3>2, <3>3
  <2>2. ASSUME Passed(inv'[t]), ~Passed(inv[t]) PROVE inv[t].file = Gate /\ ~b
    <3>1. CASE b = TRUE
      <4>1. inv'[t].blocked = TRUE /\ inv'[t].file = inv[t].file
        BY <1>3, <3>1
      <4> QED BY <2>2, <4>1 DEF Passed
    <3>2. CASE b = FALSE
      <4>1. inv'[t].file = inv[t].file
        BY <1>3
      <4> QED BY <2>2, <3>2, <4>1 DEF Passed
    <3> QED BY <3>1, <3>2
  <2> QED BY <2>1, <2>2
<1>10. inv'[t].at \in {"retest", "write"} /\ inv'[t].file \in Published
         => inv'[t].draft \in allowed' \/ Json \in raced
  <2> SUFFICES ASSUME inv[t].file \in Published, Json \notin raced
               PROVE  DraftFor(t) \in allowed
    BY <1>3, <1>7
  <2>1. /\ inv[t].file > Gate /\ inv[t].file \in {Md, Evidence, Pdf}
    BY DEF Published, Md, Evidence, Pdf, Gate
  <2> QED BY <1>8, <2>1 DEF DraftFor, Json, Md, Evidence, Pdf
<1>11. Saves(inv'[t]) => Saves(inv[t])
  BY <1>0, <1>3 DEF Saves
<1>12. inv'[t].at \notin {"load", "save", "died", "ended"}
  BY <1>3
<1>13. inv'[t].seen.status \notin Completed
  BY <1>0, <1>3 DEF Flow, Fresh, Completed
<1> HIDE DEF l
<1> QED BY <1>0, <1>3, <1>4, <1>5, <1>6, <1>7, <1>9, <1>10, <1>11, <1>12, <1>13, MoveKeeps DEF Place

LEMMA LoadStep ==
    ASSUME Inv, NEW t \in Invocations, Load(t) PROVE Inv'
<1>0. /\ InvTypeOK /\ Flow(inv[t]) /\ inv[t] \in Locals /\ run \in RunDoc /\ First' = First
      /\ inv[t].at = "load" /\ allowed \subseteq Drafts
      /\ UNCHANGED <<audio, run, files, raced, overlaid, allowed>>
  BY DEF Inv, InvTypeOK, FlowInv, First, Load, Place
<1> DEFINE v == [inv[t] EXCEPT !.at = "save", !.seen = run]
<1>1. inv' = [inv EXCEPT ![t] = v]
  BY <1>0 DEF InvTypeOK, Load
<1>2. v \in Locals
  BY <1>0 DEF Locals
<1>3. /\ v.at = "save" /\ v.seen = run /\ v.file = inv[t].file /\ v.change = inv[t].change
      /\ v.found = inv[t].found /\ v.inside = inv[t].inside /\ v.blocked = inv[t].blocked
  BY <1>0 DEF Locals
<1> HIDE DEF v
<1>4. inv' \in [Invocations -> Locals] /\ inv'[t] = v
      /\ \A u \in Invocations : u # t => inv'[u] = inv[u]
  BY <1>0, <1>1, <1>2 DEF InvTypeOK
<1>5. Flow(v)
  BY <1>0, <1>3 DEF Flow
<1>6. \A i \in Files : /\ HasWritten(v, i) => HasWritten(inv[t], i)
                       /\ HasRecorded(v, i) => HasRecorded(inv[t], i)
                       /\ ~Writing(t, i)'
  BY <1>0, <1>3, <1>4 DEF HasWritten, HasRecorded, Writing, Place
<1>7. Passed(v) => Passed(inv[t])
  BY <1>0, <1>3 DEF Passed
<1>8. Saves(inv[t])
  BY <1>0 DEF Saves
<1> QED BY <1>0, <1>3, <1>4, <1>5, <1>6, <1>7, <1>8, MoveKeeps DEF Place

LEMMA FinishStep ==
    ASSUME Inv, NEW t \in Invocations, Finish(t) PROVE Inv'
<1>0. /\ InvTypeOK /\ Flow(inv[t]) /\ inv[t] \in Locals /\ run.arts \subseteq Files
      /\ First' = First /\ inv[t].at = "finish" /\ allowed \subseteq Drafts
      /\ UNCHANGED <<audio, run, files, raced, overlaid, allowed>>
  BY DEF Inv, InvTypeOK, RunDoc, FlowInv, First, Finish, Place
<1> DEFINE v == [inv[t] EXCEPT !.at = "load", !.change = "succeeded", !.found = run.arts]
<1>1. inv' = [inv EXCEPT ![t] = v]
  BY <1>0 DEF InvTypeOK, Finish
<1>2. v \in Locals
  BY <1>0 DEF Locals
<1>3. /\ v.at = "load" /\ v.change = "succeeded" /\ v.found = run.arts /\ v.seen = inv[t].seen
      /\ v.file = inv[t].file /\ v.inside = inv[t].inside /\ v.blocked = inv[t].blocked
  BY <1>0 DEF Locals
<1> HIDE DEF v
<1>4. inv' \in [Invocations -> Locals] /\ inv'[t] = v
      /\ \A u \in Invocations : u # t => inv'[u] = inv[u]
  BY <1>0, <1>1, <1>2 DEF InvTypeOK
<1>5. Flow(v) /\ v.seen.status \notin Completed
  BY <1>0, <1>3 DEF Flow, Fresh, Completed
<1>6. \A i \in Files : /\ HasWritten(v, i) => HasWritten(inv[t], i)
                       /\ ~HasRecorded(v, i)
                       /\ ~Writing(t, i)'
  BY <1>0, <1>3, <1>4 DEF HasWritten, HasRecorded, Writing, Place
<1>7. Passed(v) => Passed(inv[t])
  BY <1>0, <1>3 DEF Passed
<1>8. Saves(inv[t])
  BY <1>0 DEF Saves
<1> QED BY <1>0, <1>3, <1>4, <1>5, <1>6, <1>7, <1>8, MoveKeeps DEF Place

\* Who writes a file another has found missing, too, has shared it.
LEMMA PutStep ==
    ASSUME Inv, NEW t \in Invocations, Put(t) PROVE Inv'
<1>0. /\ InvTypeOK /\ Flow(inv[t]) /\ inv[t] \in Locals /\ inv[t].file \in Files
      /\ First' = First
      /\ FlowInv /\ OwnInv /\ RaceInv /\ GateInv /\ HoldsInv
      /\ inv[t].at = "write" /\ files \in [Files -> [by : Drafts, draft : Drafts]]
      /\ inv[t].draft \in Drafts
      /\ UNCHANGED <<audio, run, overlaid, allowed>>
  BY DEF Inv, InvTypeOK, FlowInv, First, Put, Place, Locals
<1>f. PICK f \in Files : f = inv[t].file
  BY <1>0
<1>1. /\ inv' \in [Invocations -> Locals]
      /\ \A u \in Invocations : u # t => inv'[u] = inv[u]
      /\ inv'[t].at = "load" /\ inv'[t].file = f /\ inv'[t].change = "art"
      /\ inv'[t].seen = Fresh /\ inv'[t].inside = inv[t].inside
      /\ inv'[t].blocked = inv[t].blocked
  BY <1>0, <1>f, UpdatesFacts DEF Put, Changes
<1>2. /\ files' = [files EXCEPT ![f] = [by |-> t, draft |-> inv[t].draft]]
      /\ raced \subseteq raced' /\ raced' \subseteq raced \cup {f}
      /\ \A u \in Invocations : u # t /\ Writing(u, f) => f \in raced'
  BY <1>f DEF Put
<1>3. /\ files'[f] = [by |-> t, draft |-> inv[t].draft]
      /\ \A j \in Files : j # f => files'[j] = files[j]
      /\ files' \in [Files -> [by : Drafts, draft : Drafts]]
  BY <1>0, <1>2 DEF Drafts
<1>4. Present(f)' /\ files'[f].by = t /\ \A j \in Files : j # f => (Present(j)' <=> Present(j))
  BY <1>3, InvocationsAssumption DEF Present
<1>5. Present(f) => f \in raced
  BY <1>0, <1>f DEF RaceInv, Writing, Place
<1>6. InvTypeOK'
  BY <1>0, <1>1, <1>2, <1>3 DEF InvTypeOK, RunDoc
<1>7. FlowInv'
  <2> SUFFICES ASSUME NEW u \in Invocations PROVE Flow(inv[u])'
    BY DEF FlowInv
  <2>1. CASE u = t
    BY <1>0, <1>1, <1>f, <2>1 DEF Flow
  <2> QED BY <1>0, <1>1, <2>1 DEF FlowInv, Flow
<1>8. OwnInv'
  <2> SUFFICES ASSUME NEW u \in Invocations, NEW j \in Files, HasWritten(inv'[u], j)
               PROVE  Present(j)' /\ (files'[j].by = u \/ j \in raced')
    BY <1>0 DEF OwnInv, HasWritten
  <2>1. CASE j = f /\ u = t
    BY <1>4, <2>1
  <2>2. CASE j = f /\ u # t
    BY <1>0, <1>1, <1>2, <1>4, <1>5, <2>2 DEF OwnInv
  <2>3. CASE j # f
    <3>1. HasWritten(inv[u], j)
      <4>1. CASE u = t
        BY <1>0, <1>1, <2>3, <4>1, <1>f DEF HasWritten, Files, First, Receipt, Transcript, Pdf
      <4> QED BY <1>1, <4>1
    <3> QED BY <1>0, <1>2, <1>3, <1>4, <2>3, <3>1 DEF OwnInv
  <2> QED BY <2>1, <2>2, <2>3
<1>9. RaceInv'
  <2> SUFFICES ASSUME NEW u \in Invocations, NEW j \in Files, Writing(u, j)', Present(j)'
               PROVE  j \in raced'
    BY DEF RaceInv
  <2>1. u # t
    BY <1>1 DEF Writing, Place
  <2>2. Writing(u, j)
    BY <1>1, <2>1 DEF Writing, Place
  <2> QED BY <1>0, <1>2, <1>4, <2>1, <2>2 DEF RaceInv
<1>10. GateInv'
  <2> SUFFICES ASSUME Json \notin raced' PROVE (PassedInv /\ DraftInv /\ OnlyAllowedPublished)'
    BY DEF GateInv
  <2>0. PassedInv /\ DraftInv /\ OnlyAllowedPublished
    BY <1>0, <1>2 DEF GateInv
  <2>1. PassedInv'
    <3> SUFFICES ASSUME NEW u \in Invocations, Passed(inv'[u])
                 PROVE  Present(Json)' /\ files'[Json].draft \in allowed'
      BY DEF PassedInv, Passed
    <3>1. Passed(inv[u])
      <4>1. CASE u = t
        BY <1>0, <1>1, <4>1, <1>f DEF Passed
      <4> QED BY <1>1, <4>1
    <3>2. Present(Json) /\ files[Json].draft \in allowed /\ Json \in Files
      BY <2>0, <3>1 DEF PassedInv, Json, Files, Receipt, Pdf
    <3>3. Json # f
      BY <1>2, <1>5, <3>2
    <3> QED BY <1>0, <1>3, <1>4, <3>2, <3>3
  <2>2. DraftInv'
    BY <1>0, <1>1, <2>0 DEF DraftInv, Place
  <2>3. OnlyAllowedPublished'
    <3> SUFFICES ASSUME NEW j \in Published, Present(j)', j \in Files
                 PROVE  files'[j].draft \in allowed
      BY <1>0 DEF OnlyAllowedPublished, Published, Files, Md, Pdf, Receipt
    <3>1. CASE j = f
      BY <1>0, <1>3, <2>0, <3>1, <1>f DEF DraftInv, Place
    <3> QED BY <1>2, <1>3, <1>4, <2>0, <3>1 DEF OnlyAllowedPublished
  <2> QED BY <2>1, <2>2, <2>3
<1>11. HoldsInv'
  <2> SUFFICES ASSUME audio, NEW u \in Invocations, Saves(inv'[u])
               PROVE  Present(Receipt)' /\ (files'[Receipt].by = u \/ Receipt \in raced')
    BY <1>0 DEF HoldsInv, Saves
  <2>0. Receipt \in Files
    BY DEF Receipt, Files, Pdf
  <2>1. CASE f = Receipt /\ u = t
    BY <1>4, <2>1
  <2>2. CASE f = Receipt /\ u # t
    BY <1>0, <1>1, <1>2, <1>4, <1>5, <2>2 DEF HoldsInv
  <2>3. CASE f # Receipt
    <3>1. Saves(inv[u])
      <4>1. CASE u = t
        BY <1>0, <2>3, <4>1, <1>f DEF Saves, Files, Receipt, Pdf
      <4> QED BY <1>1, <4>1
    <3> QED BY <1>0, <1>2, <1>3, <1>4, <2>0, <2>3, <3>1 DEF HoldsInv
  <2> QED BY <2>1, <2>2, <2>3
<1>12. EndedInv' /\ SavesInv'
  <2>1. \A i \in Files : HasRecorded(inv'[t], i) => HasRecorded(inv[t], i)
    BY <1>0, <1>1, <1>f DEF HasRecorded
  <2>2. Fresh.status \notin Completed
    BY DEF Fresh, Completed
  <2> QED BY <1>0, <1>1, <1>2, <2>1, <2>2, RunKeeps DEF Place
<1> QED BY <1>6, <1>7, <1>8, <1>9, <1>10, <1>11, <1>12 DEF Inv

\* Where a save leads an invocation: from the locals w to the locals v.
Moved(w, v) ==
    \/ /\ w.change \in {"art", "skip"} /\ v.at = "load" /\ v.change = "running"
       /\ v.file = w.file /\ v.inside = w.inside
       /\ w.change = "art" => w.file = Normalized
    \/ /\ w.change = "art" /\ v.at = "load" /\ v.change = "failed"
       /\ v.file = w.file /\ v.inside /\ w.inside
    \/ /\ w.change = "art" /\ v.at = "refused" /\ v.file = First
       /\ ~v.inside /\ ~w.inside
    \/ /\ w.change = "art" /\ w.file = Pdf /\ v.at = "finish"
       /\ v.file = w.file /\ v.inside = w.inside
    \/ /\ w.change = "art" /\ w.file # Pdf /\ (w.file = Gate => ~w.blocked)
       /\ v.at = BeginFile(w.file + 1) /\ v.file = w.file + 1 /\ v.inside = w.inside
    \/ /\ w.change = "running" /\ v.at = "test" /\ v.file = Transcript /\ v.inside
    \/ /\ w.change \in {"succeeded", "failed"} /\ v.at = "ended" /\ v.file = First
       /\ ~v.inside /\ v.change = w.change

\* What follows a save is one of these moves.
LEMMA AfterSaveMoves ==
    ASSUME InvTypeOK, NEW t \in Invocations, Flow(inv[t]), Place(t) = "save", AfterSave(t)
    PROVE  /\ inv' \in [Invocations -> Locals]
           /\ \A u \in Invocations : u # t => inv'[u] = inv[u]
           /\ inv'[t].seen = Fresh
           /\ Moved(inv[t], inv'[t])
<1>0. inv[t] \in Locals /\ Fresh \in RunDoc /\ inv[t].at = "save" /\ inv[t].change # "none"
  BY DEF InvTypeOK, Fresh, RunDoc, Place, Flow
<1> USE DEF Moved
<1>1. CASE inv[t].change = "art"
  <2>1. CASE inv[t].file = Normalized
    BY <1>1, <2>1, UpdatesFacts DEF AfterSave, AfterArt, Changes
  <2>2. CASE inv[t].file # Normalized /\ inv[t].file = Gate /\ inv[t].blocked
    <3>1. Raises(t)
      BY <1>1, <2>2 DEF AfterSave, AfterArt
    <3>2. CASE inv[t].inside
      BY <1>1, <3>1, <3>2, UpdatesFacts DEF Raises, Changes
    <3>3. CASE ~inv[t].inside
      BY <1>1, <3>1, <3>3, EndsFacts DEF Raises, Ats
    <3> QED BY <3>2, <3>3
  <2>3. CASE /\ inv[t].file = Pdf /\ inv[t].file # Normalized
             /\ ~(inv[t].file = Gate /\ inv[t].blocked)
    BY <1>1, <2>3, GoesFacts DEF AfterSave, AfterArt, Ats
  <2>4. CASE inv[t].file \notin {Normalized, Pdf} /\ ~(inv[t].file = Gate /\ inv[t].blocked)
    <3>1. NextFile(t)
      BY <1>1, <2>4 DEF AfterSave, AfterArt
    <3> DEFINE v == [inv[t] EXCEPT !.at = BeginFile(inv[t].file + 1), !.file = @ + 1,
                                   !.seen = Fresh, !.draft = NoOne]
    <3>2. inv' = [inv EXCEPT ![t] = v]
      BY <3>1 DEF NextFile, InvTypeOK
    <3>3. inv[t].file + 1 \in Files
      BY <1>0, <2>4 DEF Locals, Files, Receipt, Pdf
    <3>4. v \in Locals
      BY <1>0, <3>3 DEF Locals, Drafts, BeginFile
    <3>5. /\ v.at = BeginFile(inv[t].file + 1) /\ v.file = inv[t].file + 1
          /\ v.seen = Fresh /\ v.inside = inv[t].inside
      BY <1>0 DEF Locals
    <3> HIDE DEF v
    <3>6. /\ inv' \in [Invocations -> Locals] /\ inv'[t] = v
          /\ \A u \in Invocations : u # t => inv'[u] = inv[u]
      BY <3>2, <3>4 DEF InvTypeOK
    <3> QED BY <1>1, <2>4, <3>5, <3>6
  <2> QED BY <2>1, <2>2, <2>3, <2>4
<1>2. CASE inv[t].change = "skip"
  BY <1>2, UpdatesFacts DEF AfterSave, Changes
<1>3. CASE inv[t].change = "running"
  <2> DEFINE v == [inv[t] EXCEPT !.at = "test", !.file = Transcript, !.seen = Fresh,
                                 !.inside = TRUE]
  <2>1. inv' = [inv EXCEPT ![t] = v]
    BY <1>3 DEF AfterSave, InvTypeOK
  <2>0. Transcript \in Files
    BY DEF Files, Receipt, Transcript, Pdf
  <2>2. v \in Locals
    BY <1>0, <2>0 DEF Locals
  <2>3. v.at = "test" /\ v.file = Transcript /\ v.seen = Fresh /\ v.inside
    BY <1>0 DEF Locals
  <2> HIDE DEF v
  <2>4. /\ inv' \in [Invocations -> Locals] /\ inv'[t] = v
        /\ \A u \in Invocations : u # t => inv'[u] = inv[u]
    BY <2>1, <2>2 DEF InvTypeOK
  <2> QED BY <1>3, <2>3, <2>4
<1>4. CASE inv[t].change \in {"succeeded", "failed"}
  BY <1>4, EndsFacts DEF AfterSave, Ats
<1> QED BY <1>0, <1>1, <1>2, <1>3, <1>4 DEF Locals

\* A save: what the invocation has written and recorded after it; where the audio is
\* needed, it is the only one that saves; and it loses nothing unless it overlapped another.
LEMMA SaveStep ==
    ASSUME Inv, NEW t \in Invocations, Save(t) PROVE Inv'
<1>0. /\ InvTypeOK /\ Flow(inv[t]) /\ inv[t] \in Locals /\ inv[t].file \in Files
      /\ First' = First /\ First \in {Receipt, Transcript}
      /\ HoldsInv /\ EndedInv /\ SavesInv
      /\ inv[t].at = "save" /\ allowed \subseteq Drafts /\ run \in RunDoc
      /\ UNCHANGED <<audio, files, raced, allowed>>
  BY DEF Inv, InvTypeOK, FlowInv, First, Save, Place, Locals
<1>1. AfterSave(t)
  BY DEF Save
<1>2. PICK u \in Invocations :
        /\ Place(u) = "save" /\ run' = Changed(inv[u].seen, u)
        /\ overlaid' = (overlaid \/ u # t \/ run # inv[t].seen)
  BY DEF Save
<1>3. /\ inv' \in [Invocations -> Locals]
      /\ \A w \in Invocations : w # t => inv'[w] = inv[w]
      /\ inv'[t].seen = Fresh /\ Fresh.status \notin Completed /\ Fresh.status = "queued"
      /\ Moved(inv[t], inv'[t])
  BY <1>0, <1>1, AfterSaveMoves DEF Place, Fresh, Completed
<1> DEFINE v == inv'[t]
<1>4. Flow(v)
  BY <1>0, <1>3 DEF Flow, Moved, BeginFile, Files, First, Receipt, Transcript, Normalized, Pdf
<1>5. \A i \in Files : HasWritten(v, i) => HasWritten(inv[t], i)
  <2> SUFFICES ASSUME NEW i \in Files, HasWritten(v, i) PROVE HasWritten(inv[t], i)
    OBVIOUS
  <2> QED BY <1>0, <1>3 DEF Flow, HasWritten, Moved, BeginFile, Files, First, Receipt, Transcript,
                            Normalized, Pdf
<1>6. \A i \in Files : HasRecorded(v, i) => \/ HasRecorded(inv[t], i)
                                            \/ inv[t].change = "art" /\ i = inv[t].file
  <2> SUFFICES ASSUME NEW i \in Files, HasRecorded(v, i)
               PROVE  \/ HasRecorded(inv[t], i)
                      \/ inv[t].change = "art" /\ i = inv[t].file
    OBVIOUS
  <2> QED BY <1>0, <1>3 DEF Flow, HasRecorded, Moved, BeginFile, Files, First, Receipt, Transcript,
                            Normalized, Pdf
<1>7. \A i \in Files : ~Writing(t, i)'
  <2> SUFFICES ASSUME NEW i \in Files, v.file = i,
                      v.at = "write" \/ (v.at \in {"work", "retest"} /\ i \notin Rechecked)
               PROVE  FALSE
    BY DEF Writing, Place
  <2> QED BY <1>3 DEF Moved, BeginFile, Rechecked
<1>8. Passed(v) => Passed(inv[t])
  BY <1>0, <1>3 DEF Passed, Moved, BeginFile, Files, First, Receipt, Transcript, Normalized, Gate, Pdf
<1>9. /\ v.at \notin {"retest", "write", "died", "save"}
      /\ v.at = "load" => v.change # "succeeded"
      /\ v.at = "ended" <=> inv[t].change \in {"succeeded", "failed"}
      /\ v.at # "ended" => (v.inside <=> inv[t].inside \/ inv[t].change = "running")
  BY <1>3 DEF Moved, BeginFile
<1>10. FlowInv' /\ OwnInv' /\ RaceInv' /\ GateInv' /\ HoldsInv'
  <2>1. Saves(inv[t])
    BY <1>0 DEF Saves
  <2> QED BY <1>0, <1>3, <1>4, <1>5, <1>7, <1>8, <1>9, <2>1, LocalKeeps DEF Place
<1>11. /\ run' \in RunDoc
       /\ run'.status = IF inv[u].change \in {"running", "succeeded", "failed"}
                        THEN inv[u].change ELSE inv[u].seen.status
       /\ run'.arts = IF inv[u].change = "art" THEN inv[u].seen.arts \cup {inv[u].file}
                      ELSE inv[u].seen.arts
       /\ run'.outputs = IF inv[u].change = "succeeded" THEN inv[u].found \cap Pointers
                         ELSE inv[u].seen.outputs
  <2>1. inv[u].seen \in RunDoc /\ inv[u].file \in Files /\ Pointers \subseteq Files
    BY <1>0 DEF InvTypeOK, Locals, Pointers, Published, Files, Json, Md, Pdf, Receipt
  <2> QED BY <1>2, <2>1 DEF Changed, RunDoc, Completed
<1>12. InvTypeOK'
  BY <1>0, <1>2, <1>3, <1>11 DEF InvTypeOK, RunDoc
<1>13. EndedInv'
  <2> SUFFICES ASSUME audio, Receipt \notin raced
               PROVE  /\ OneEnded(run.status)'
                      /\ \A w \in Invocations : OneEnded(inv[w].seen.status)'
    BY <1>0 DEF EndedInv
  <2>1. \A w \in Invocations : Saves(inv[w]) => w = t
    BY <1>0 DEF HoldsInv, Saves
  <2>2. u = t
    BY <1>2, <2>1 DEF Saves, Place
  <2>3. \A w \in Invocations : inv[w].seen.status \notin Completed
    BY <1>0, <2>1 DEF EndedInv, OneEnded, Saves, Place
  <2>4. \A w \in Invocations : inv'[w].seen.status \notin Completed
    BY <1>3, <2>3
  <2>5. run'.status \in Completed => inv'[t].at = "ended"
    BY <1>9, <1>11, <2>2, <2>3 DEF Completed
  <2> QED BY <2>4, <2>5 DEF OneEnded, Place
<1>14. SavesInv'
  <2> SUFFICES ASSUME ~overlaid' PROVE (KeptInv /\ StatusInv)'
    BY DEF SavesInv
  <2>0. KeptInv /\ StatusInv /\ u = t /\ run = inv[t].seen
    BY <1>0, <1>2 DEF SavesInv
  <2>1. KeptInv'
    <3>1. ASSUME run'.status = "succeeded" PROVE run'.outputs = Pointers
      <4>1. CASE inv[t].change = "succeeded"
        <5>1. \A i \in First..Pdf : i \in inv[t].found
          BY <1>0, <2>0, <4>1 DEF KeptInv, Place, Files, First, Receipt, Transcript, Pdf
        <5>2. Pointers \subseteq First..Pdf
          BY <1>0 DEF Pointers, Published, First, Receipt, Transcript, Json, Md, Pdf
        <5> QED BY <1>11, <2>0, <4>1, <5>1, <5>2
      <4>2. CASE inv[t].change # "succeeded"
        BY <1>11, <2>0, <3>1, <4>2 DEF KeptInv
      <4> QED BY <4>1, <4>2
    <3>2. ASSUME NEW w \in Invocations, NEW i \in Files, HasRecorded(inv'[w], i)
          PROVE  i \in run'.arts
      <4>1. CASE w = t
        BY <1>6, <1>11, <2>0, <3>2, <4>1 DEF KeptInv
      <4>2. CASE w # t
        BY <1>3, <1>11, <2>0, <3>2, <4>2 DEF KeptInv
      <4> QED BY <4>1, <4>2
    <3>3. ASSUME NEW w \in Invocations, NEW i \in Files, Place(w)' \in {"load", "save"},
                 inv'[w].change = "succeeded", i \in First..Pdf
          PROVE  i \in inv'[w].found
      BY <1>3, <1>9, <2>0, <3>3 DEF KeptInv, Place
    <3> QED BY <1>0, <3>1, <3>2, <3>3 DEF KeptInv, HasRecorded
  <2>2. StatusInv'
    <3>1. ASSUME run'.status = "queued", NEW w \in Invocations
          PROVE  ~inv'[w].inside /\ inv'[w].at \notin {"ended", "died"}
      <4>1. run.status = "queued" /\ inv[t].change \notin {"running", "succeeded", "failed"}
        BY <1>11, <2>0, <3>1
      <4> QED BY <1>3, <1>9, <2>0, <4>1 DEF StatusInv, Place
    <3>2. ASSUME run'.status = "running"
          PROVE  \E w \in Invocations : inv'[w].inside \/ inv'[w].at = "died"
      <4>1. inv[t].change \notin {"succeeded", "failed"}
        BY <1>11, <2>0, <3>2
      <4>2. CASE inv[t].change = "running"
        BY <1>9, <4>1, <4>2
      <4>3. CASE inv[t].change # "running"
        <5>1. run.status = "running"
          BY <1>11, <2>0, <3>2, <4>1, <4>3
        <5>2. PICK w \in Invocations : inv[w].inside \/ inv[w].at = "died"
          BY <2>0, <5>1 DEF StatusInv, Place
        <5> QED BY <1>0, <1>3, <1>9, <4>1, <5>2
      <4> QED BY <4>2, <4>3
    <3> QED BY <3>1, <3>2 DEF StatusInv, Place
  <2> QED BY <2>1, <2>2
<1> QED BY <1>10, <1>12, <1>13, <1>14 DEF Inv

\* Every step keeps the invariant.
LEMMA InvInvariant == InvSpec => []Inv
<1>1. InvInit => Inv
  <2> SUFFICES ASSUME InvInit PROVE Inv
    OBVIOUS
  <2>1. /\ First \in Files /\ Fresh \in RunDoc /\ NoOne \in Drafts
        /\ Missing \in [by : Drafts, draft : Drafts]
    BY DEF First, Files, Receipt, Transcript, Pdf, Fresh, RunDoc, Drafts, Missing
  <2>2. \A i \in Files : ~Present(i)
    BY DEF InvInit, Present, Missing
  <2> DEFINE v == [at |-> "new", file |-> First, change |-> "none", seen |-> Fresh,
                   found |-> {}, draft |-> NoOne, blocked |-> FALSE, inside |-> FALSE]
  <2>3. \A t \in Invocations : inv[t] = v
    BY DEF InvInit
  <2>4. v \in Locals /\ inv \in [Invocations -> Locals]
    BY <2>1 DEF Locals, InvInit
  <2>5. /\ Flow(v) /\ ~Passed(v) /\ ~(audio /\ Saves(v))
        /\ \A i : ~HasWritten(v, i) /\ ~HasRecorded(v, i)
    BY <2>1 DEF Flow, Passed, Saves, HasWritten, HasRecorded, First, Files, Receipt, Transcript,
               Gate, Pdf
  <2>6. v.at = "new" /\ ~v.inside /\ v.seen.status = "queued" /\ Fresh.status = "queued"
    BY DEF Fresh
  <2> HIDE DEF v
  <2>7. InvTypeOK
    BY <2>1, <2>4 DEF InvTypeOK, InvInit
  <2>8. FlowInv /\ OwnInv /\ HoldsInv
    BY <2>3, <2>5 DEF FlowInv, OwnInv, HoldsInv
  <2>9. RaceInv
    BY <2>3, <2>6 DEF RaceInv, Writing, Place
  <2>10. PassedInv /\ DraftInv /\ OnlyAllowedPublished
    <3>1. Published \subseteq Files
      BY DEF Published, Files, Md, Pdf, Receipt
    <3> QED BY <2>2, <2>3, <2>5, <2>6, <3>1 DEF PassedInv, DraftInv, OnlyAllowedPublished, Place
  <2>11. EndedInv /\ SavesInv
    BY <2>3, <2>5, <2>6 DEF EndedInv, OneEnded, SavesInv, KeptInv, StatusInv, InvInit, Completed, Place
  <2> QED BY <2>7, <2>8, <2>9, <2>10, <2>11 DEF Inv, GateInv
<1>2. Inv /\ [InvNext]_invVars => Inv'
  <2> SUFFICES ASSUME Inv, [InvNext]_invVars PROVE Inv'
    OBVIOUS
  <2>1. ASSUME NEW t \in Invocations,
               \/ Invoke(t) \/ Test(t) \/ Work(t) \/ Put(t) \/ Fault(t)
               \/ Load(t) \/ Save(t) \/ Finish(t)
        PROVE  Inv'
    BY <2>1, InvokeStep, TestStep, WorkStep, PutStep, FaultStep, LoadStep, SaveStep, FinishStep
  <2>2. CASE UNCHANGED invVars
    BY <2>2 DEF invVars, Inv, InvTypeOK, RunDoc, FlowInv, Flow, OwnInv, HasWritten, Present, RaceInv,
                Writing, GateInv, PassedInv, Passed, DraftInv, OnlyAllowedPublished, HoldsInv,
                Saves, EndedInv, OneEnded, SavesInv, KeptInv, HasRecorded, StatusInv, First, Place
  <2> QED BY <2>1, <2>2 DEF InvNext
<1> QED BY <1>1, <1>2, PTL DEF InvSpec

\* Whoever does what, the locals of an invocation, run.json and the record of who wrote
\* which file stay of their types.
THEOREM InvocationsTyped == InvSpec => []InvTypeOK
<1>1. Inv => InvTypeOK
  BY DEF Inv
<1> QED BY <1>1, InvInvariant, PTL

\* However many invocations of a run there are at once, the files of one that succeeds
\* are its own, all of them, but for those two had found missing at the same time:
\* each file is tested before it is written, and what fails a test is no success.
THEOREM SuccessesAreOwn == InvSpec => []SuccessIsOwn
<1>1. Inv => SuccessIsOwn
  <2> SUFFICES ASSUME Inv, NEW t \in Invocations, Place(t) = "ended",
                      inv[t].change = "succeeded", NEW i \in First..Pdf
               PROVE  files[i].by = t \/ i \in raced
    BY DEF SuccessIsOwn
  <2>1. HasWritten(inv[t], i) /\ i \in Files
    BY DEF HasWritten, Place, First, Receipt, Transcript, Pdf, Files
  <2> QED BY <2>1 DEF Inv, OwnInv
<1> QED BY <1>1, InvInvariant, PTL

\* However many invocations of a run there are at once, a page, an evidence map or a PDF
\* is of a draft that a gate has allowed, unless the draft was written by two at once.
THEOREM PublishedIsAllowed == InvSpec => []OnlyAllowedPublished
<1>1. Inv => OnlyAllowedPublished
  BY DEF Inv, GateInv, OnlyAllowedPublished
<1> QED BY <1>1, InvInvariant, PTL

\* What a run that has succeeded hands out is complete, and when no invocation is at work,
\* one has ended and none died, the run is succeeded or failed: unless a save of run.json
\* replaced what another had saved since the document was loaded.
THEOREM SavesAlwaysExplained == InvSpec => []SavesExplained
<1>1. Inv => SavesExplained
  <2> SUFFICES ASSUME Inv, ~overlaid
               PROVE  OutputsKept /\ RestIsTerminal
    BY DEF SavesExplained
  <2>1. OutputsKept
    BY DEF Inv, SavesInv, KeptInv, OutputsKept
  <2>2. RestIsTerminal
    <3> SUFFICES ASSUME \A t \in Invocations : Place(t) \in {"new", "refused", "ended"},
                        NEW t \in Invocations, Place(t) = "ended"
                 PROVE  run.status \in Completed
      BY DEF RestIsTerminal
    <3>1. StatusInv /\ run \in RunDoc /\ FlowInv
      BY DEF Inv, SavesInv, InvTypeOK
    <3>2. run.status # "queued"
      BY <3>1 DEF StatusInv
    <3>3. \A u \in Invocations : ~inv[u].inside
      BY <3>1 DEF FlowInv, Flow, Place
    <3>4. run.status # "running"
      BY <3>1, <3>3 DEF StatusInv
    <3> QED BY <3>1, <3>2, <3>4 DEF RunDoc
  <2> QED BY <2>1, <2>2
<1> QED BY <1>1, InvInvariant, PTL

\* The receipt of the input is the lock of a run that needs the audio: who has not written
\* it never saves anything, so that a run that is over is not touched again.
THEOREM ReceiptDoesExclude == InvSpec => ReceiptExcludes
<1>1. Inv /\ [InvNext]_invVars
        => (run.status \in Completed /\ run' # run => ~audio \/ Receipt \in raced)
  <2> SUFFICES ASSUME Inv, InvNext, run.status \in Completed, run' # run,
                      audio, Receipt \notin raced
               PROVE  FALSE
    BY DEF invVars
  <2>1. PICK t \in Invocations : Save(t)
    BY DEF InvNext, Invoke, Test, Work, Put, Fault, Load, Finish
  <2>2. PICK e \in Invocations : Place(e) = "ended"
    BY DEF Inv, EndedInv, OneEnded
  <2>3. Place(t) = "save"
    BY <2>1 DEF Save
  <2>4. Saves(inv[t]) /\ Saves(inv[e])
    BY <2>2, <2>3 DEF Saves, Place
  <2>5. e = t
    BY <2>4 DEF Inv, HoldsInv
  <2> QED BY <2>2, <2>3, <2>5
<1>2. Inv /\ [InvNext]_invVars
        => [run.status \in Completed /\ run' # run => ~audio \/ Receipt \in raced]_invVars
  BY <1>1
<1> QED BY <1>2, InvInvariant, PTL DEF InvSpec, ReceiptExcludes
=============================================================================
