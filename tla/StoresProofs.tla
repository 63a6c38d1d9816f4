------------------------------ MODULE StoresProofs ------------------------------
(***************************************************************************)
(* For any uploads of any names and lengths: a contribution is the upload  *)
(* it is named for unless another one of its name was under way, and a run *)
(* gets none that was still being copied.  For any versions, runs and      *)
(* requests: what an export answers with can be opened, and a bundle has   *)
(* what there was and was asked for.                                       *)
(***************************************************************************)
EXTENDS Uploads, ExportBundle, TLAPS

-----------------------------------------------------------------------------
(* Uploads: what is streamed under a name, copied from it and recorded.     *)

Files == UNION {[S -> Posts \cup {Nobody}] : S \in SUBSET Nat}
Kept == [source : Files, digest : Files, manifest : BOOLEAN, at : Nat]
Ats == {"new", "stream", "copy", "record", "done", "refused"}

UploadTypes ==
    /\ tmp \in [Names -> Files]
    /\ post \in [Posts -> [at : Ats, sent : Nat]]
    /\ con \in [Posts -> Kept]
    /\ input \in [Runs -> Posts \cup {Nobody}]
    /\ answered \in [Posts -> [digest : Files, size : Nat]]
    /\ overlapped \subseteq Posts /\ clock \in Nat

Upto(p, n) == [j \in 1..n |-> p]
Alone(p) == \A q \in Posts \ {p} : Streaming(q) => NameOf[q] # NameOf[p]

\* As long as nobody shares its file, an upload finds in it what it has written.
StreamInv ==
    \A p \in Posts : Streaming(p) =>
        \/ p \in overlapped
        \/ tmp[NameOf[p]] = Upto(p, post[p].sent) /\ Alone(p)
NewInv == \A p \in Posts : post[p].at = "new" => post[p].sent = 0
CopyInv ==
    \A p \in Posts : post[p].at = "copy" =>
        post[p].sent = Chunks[p] /\ tmp[NameOf[p]] = Upto(p, Chunks[p])
RecordInv ==
    \A p \in Posts : post[p].at = "record" \/ con[p].manifest =>
        con[p].source = Upto(p, Chunks[p]) \/ p \in overlapped
AnswerInv ==
    \A p \in Posts : con[p].manifest =>
        /\ con[p].digest = con[p].source /\ answered[p].digest = con[p].source
        /\ post[p].at \in {"done", "refused"}

UploadsInv == UploadTypes /\ NewInv /\ StreamInv /\ CopyInv /\ RecordInv /\ AnswerInv

-----------------------------------------------------------------------------
LEMMA FilesTyped ==
    ASSUME NEW p \in Posts, NEW f \in Files, NEW n \in Nat
    PROVE  Upto(p, n) \in Files /\ Longer(f, WithChunk(f, n, p)) \in Files
<1>1. PICK S \in SUBSET Nat : f \in [S -> Posts \cup {Nobody}]
  BY DEF Files
<1>2. Longer(f, WithChunk(f, n, p)) \in [S \cup (1..n) -> Posts \cup {Nobody}]
  <2> DEFINE g == WithChunk(f, n, p)
  <2>1. g \in [1..n -> Posts \cup {Nobody}]
    BY <1>1 DEF WithChunk
  <2> HIDE DEF g
  <2>2. DOMAIN f = S /\ DOMAIN g = 1..n
    BY <1>1, <2>1
  <2>3. Longer(f, g) = [j \in S \cup (1..n) |-> IF j \in 1..n THEN g[j] ELSE f[j]]
    BY <2>2 DEF Longer
  <2>4. \A j \in S \cup (1..n) : (IF j \in 1..n THEN g[j] ELSE f[j]) \in Posts \cup {Nobody}
    BY <1>1, <2>1
  <2> QED BY <2>3, <2>4 DEF g
<1>3. /\ S \cup (1..n) \in SUBSET Nat /\ 1..n \in SUBSET Nat /\ {} \in SUBSET Nat
  OBVIOUS
<1>4. Upto(p, n) \in [1..n -> Posts \cup {Nobody}]
  BY DEF Upto
<1> QED BY <1>2, <1>3, <1>4 DEF Files

LEMMA EmptyTyped == Empty \in Files
<1>1. Empty \in [{} -> Posts \cup {Nobody}]
  BY DEF Empty
<1> QED BY <1>1 DEF Files

\* The chunk after those an upload has written leaves one chunk more of it.
LEMMA ChunkFollows ==
    ASSUME NEW p, NEW n \in Nat
    PROVE  Longer(Upto(p, n), WithChunk(Upto(p, n), n + 1, p)) = Upto(p, n + 1)
<1> DEFINE g == WithChunk(Upto(p, n), n + 1, p)
<1>1. DOMAIN g = 1..(n + 1) /\ \A j \in 1..(n + 1) : g[j] = p
  BY DEF WithChunk, Upto
<1>2. DOMAIN Upto(p, n) \cup (1..(n + 1)) = 1..(n + 1)
  BY DEF Upto
<1> HIDE DEF g
<1>3. Longer(Upto(p, n), g) = [j \in 1..(n + 1) |-> IF j \in 1..(n + 1) THEN g[j]
                                                   ELSE Upto(p, n)[j]]
  BY <1>1, <1>2 DEF Longer
<1>4. \A j \in 1..(n + 1) : (IF j \in 1..(n + 1) THEN g[j] ELSE Upto(p, n)[j]) = p
  BY <1>1
<1> QED BY <1>3, <1>4 DEF Upto, g

LEMMA UploadsInvInit == ASSUME PostsAssumption PROVE UploadInit => UploadsInv
<1> SUFFICES ASSUME UploadInit PROVE UploadsInv
  OBVIOUS
<1>1. con \in [Posts -> Kept] /\ tmp \in [Names -> Files]
  BY EmptyTyped DEF UploadInit, NoContribution, Kept
<1>2. UploadTypes
  BY <1>1, EmptyTyped DEF UploadInit, UploadTypes, Ats
<1> QED BY <1>2 DEF UploadInit, UploadsInv, NewInv, StreamInv, CopyInv, RecordInv, AnswerInv,
                    Streaming, NoContribution

-----------------------------------------------------------------------------

LEMMA OpenKeeps ==
    ASSUME PostsAssumption, UploadsInv, NEW p \in Posts, Open(p), ~Copying
    PROVE  UploadsInv'
<1>1. /\ post' \in [Posts -> [at : Ats, sent : Nat]]
      /\ post'[p].at = "stream" /\ post'[p].sent = post[p].sent
      /\ \A q \in Posts \ {p} : post'[q] = post[q]
  BY DEF Open, At, UploadsInv, UploadTypes, Ats
<1>2. /\ tmp' \in [Names -> Files] /\ tmp'[NameOf[p]] = Empty
      /\ \A q \in Posts : NameOf[q] # NameOf[p] => tmp'[NameOf[q]] = tmp[NameOf[q]]
  BY EmptyTyped DEF Open, UploadsInv, UploadTypes, Names
<1>3. /\ overlapped' \subseteq Posts /\ overlapped \subseteq overlapped'
      /\ \A q \in Posts \ {p} : Streaming(q) /\ NameOf[q] = NameOf[p]
                                   => p \in overlapped' /\ q \in overlapped'
  BY DEF Open, UploadsInv, UploadTypes
<1>4. UploadTypes'
  BY <1>1, <1>2, <1>3 DEF Open, UploadsInv, UploadTypes
<1>5. \A q \in Posts : Streaming(q)' <=> q = p \/ Streaming(q)
  BY <1>1 DEF Streaming
<1>6. StreamInv'
  <2> SUFFICES ASSUME NEW q \in Posts, Streaming(q)', q \notin overlapped'
               PROVE  tmp'[NameOf[q]] = Upto(q, post'[q].sent) /\ Alone(q)'
    BY DEF StreamInv
  <2>1. CASE q = p
    <3>1. post'[p].sent = 0
      BY <1>1 DEF Open, UploadsInv, NewInv
    <3>2. Empty = Upto(p, 0)
      BY DEF Empty, Upto
    <3> QED BY <1>2, <1>3, <1>5, <2>1, <3>1, <3>2 DEF Alone
  <2>2. CASE q # p
    <3>1. Streaming(q) /\ q \notin overlapped /\ NameOf[q] # NameOf[p]
      BY <1>3, <1>5, <2>2
    <3> QED BY <1>1, <1>2, <1>5, <2>2, <3>1 DEF UploadsInv, StreamInv, Alone
  <2> QED BY <2>1, <2>2
<1>7. NewInv' /\ CopyInv'
  BY <1>1 DEF UploadsInv, NewInv, CopyInv, Copying
<1>8. RecordInv'
  BY <1>1, <1>3 DEF Open, UploadsInv, RecordInv
<1>9. AnswerInv'
  BY <1>1 DEF Open, UploadsInv, AnswerInv
<1> QED BY <1>4, <1>6, <1>7, <1>8, <1>9 DEF UploadsInv

LEMMA ChunkKeeps ==
    ASSUME PostsAssumption, UploadsInv, NEW p \in Posts, Chunk(p), ~Copying
    PROVE  UploadsInv'
<1> DEFINE n == post[p].sent
<1> DEFINE f == tmp[NameOf[p]]
<1> DEFINE g == Longer(f, WithChunk(f, n + 1, p))
<1>1. /\ post' \in [Posts -> [at : Ats, sent : Nat]]
      /\ post'[p].at = "stream" /\ post'[p].sent = n + 1
      /\ \A q \in Posts \ {p} : post'[q] = post[q]
  BY DEF Chunk, Streaming, UploadsInv, UploadTypes, Ats
<1>2. NameOf[p] \in Names /\ f \in Files /\ n \in Nat /\ n + 1 \in Nat
  BY DEF UploadsInv, UploadTypes, Names
<1>3. g \in Files
  BY <1>2, FilesTyped
<1>4. f = Upto(p, n) => g = Upto(p, n + 1)
  BY <1>2, ChunkFollows
<1>5. tmp' = [tmp EXCEPT ![NameOf[p]] = g]
  BY DEF Chunk
<1> HIDE DEF n, f, g
<1>6. /\ tmp' \in [Names -> Files] /\ tmp'[NameOf[p]] = g
      /\ \A q \in Posts : NameOf[q] # NameOf[p] => tmp'[NameOf[q]] = tmp[NameOf[q]]
  BY <1>2, <1>3, <1>5 DEF UploadsInv, UploadTypes, Names
<1>7. UploadTypes'
  BY <1>1, <1>6 DEF Chunk, UploadsInv, UploadTypes
<1>8. \A q \in Posts : Streaming(q)' <=> Streaming(q)
  BY <1>1 DEF Chunk, Streaming
<1>9. StreamInv'
  <2> SUFFICES ASSUME NEW q \in Posts, Streaming(q)', q \notin overlapped'
               PROVE  tmp'[NameOf[q]] = Upto(q, post'[q].sent) /\ Alone(q)'
    BY DEF StreamInv
  <2>1. Streaming(q) /\ tmp[NameOf[q]] = Upto(q, post[q].sent) /\ Alone(q)
    BY <1>8 DEF Chunk, UploadsInv, StreamInv
  <2>2. Alone(q)'
    BY <1>8, <2>1 DEF Alone
  <2>3. CASE q = p
    BY <1>1, <1>4, <1>6, <2>1, <2>2, <2>3 DEF f, n
  <2>4. CASE q # p
    <3>1. NameOf[q] # NameOf[p]
      BY <2>1, <2>4 DEF Alone, Chunk
    <3> QED BY <1>1, <1>6, <2>1, <2>2, <2>4, <3>1
  <2> QED BY <2>3, <2>4
<1>10. NewInv' /\ CopyInv'
  BY <1>1 DEF UploadsInv, NewInv, CopyInv, Copying
<1>11. RecordInv'
  BY <1>1 DEF Chunk, UploadsInv, RecordInv, Streaming
<1>12. AnswerInv'
  BY <1>1 DEF Chunk, UploadsInv, AnswerInv, Streaming
<1> QED BY <1>7, <1>9, <1>10, <1>11, <1>12 DEF UploadsInv

LEMMA BodyKeeps ==
    ASSUME PostsAssumption, UploadsInv, NEW p \in Posts, Body(p), ~Copying
    PROVE  UploadsInv'
<1>1. Chunks[p] \in Nat /\ NameOf[p] \in Names /\ Upto(p, Chunks[p]) \in Files
  <2>1. Chunks[p] \in Nat
    BY DEF PostsAssumption
  <2> QED BY <2>1, FilesTyped, EmptyTyped DEF Names
<1>2. /\ post' \in [Posts -> [at : Ats, sent : Nat]]
      /\ post'[p].at = "copy" /\ post'[p].sent = Chunks[p]
      /\ \A q \in Posts \ {p} : post'[q] = post[q]
  BY <1>1 DEF Body, UploadsInv, UploadTypes, Ats
<1>3. tmp' = [tmp EXCEPT ![NameOf[p]] = Upto(p, Chunks[p])]
  BY DEF Body, Upto
<1>4. /\ tmp' \in [Names -> Files] /\ tmp'[NameOf[p]] = Upto(p, Chunks[p])
      /\ \A q \in Posts : NameOf[q] # NameOf[p] => tmp'[NameOf[q]] = tmp[NameOf[q]]
  BY <1>1, <1>3 DEF UploadsInv, UploadTypes, Names
<1>5. /\ overlapped' \subseteq Posts /\ overlapped \subseteq overlapped'
      /\ \A q \in Posts : Streaming(q) /\ NameOf[q] = NameOf[p] => q \in overlapped'
  BY DEF Body, UploadsInv, UploadTypes
<1>6. UploadTypes'
  BY <1>2, <1>4, <1>5 DEF Body, UploadsInv, UploadTypes
<1>7. \A q \in Posts : Streaming(q)' => q # p /\ Streaming(q)
  BY <1>2 DEF Streaming
<1>8. StreamInv'
  <2> SUFFICES ASSUME NEW q \in Posts, Streaming(q)', q \notin overlapped'
               PROVE  tmp'[NameOf[q]] = Upto(q, post'[q].sent) /\ Alone(q)'
    BY DEF StreamInv
  <2>1. q # p /\ Streaming(q) /\ q \notin overlapped /\ NameOf[q] # NameOf[p]
    BY <1>5, <1>7
  <2> QED BY <1>2, <1>4, <1>7, <2>1 DEF UploadsInv, StreamInv, Alone
<1>9. NewInv'
  BY <1>2 DEF UploadsInv, NewInv
<1>10. CopyInv'
  BY <1>2, <1>4 DEF UploadsInv, CopyInv, Copying
<1>11. RecordInv'
  BY <1>2, <1>5 DEF Body, UploadsInv, RecordInv, AnswerInv
<1>12. AnswerInv'
  BY <1>2 DEF Body, UploadsInv, AnswerInv
<1> QED BY <1>6, <1>8, <1>9, <1>10, <1>11, <1>12 DEF UploadsInv

LEMMA AddKeeps ==
    ASSUME PostsAssumption, UploadsInv, NEW p \in Posts, Add(p)
    PROVE  UploadsInv'
<1>1. /\ post' \in [Posts -> [at : Ats, sent : Nat]]
      /\ post'[p].at \in {"record", "refused"}
      /\ session => post'[p].at = "record"
      /\ ~session => post'[p].at = "refused"
      /\ \A q \in Posts \ {p} : post'[q] = post[q]
  BY SMTT(30) DEF Add, At, UploadsInv, UploadTypes, Ats
<1>2. con' \in [Posts -> Kept]
  <2>1. tmp[NameOf[p]] \in Files
    BY DEF UploadsInv, UploadTypes, Names
  <2>2. [con[p] EXCEPT !.source = tmp[NameOf[p]]] \in Kept
    BY <2>1 DEF UploadsInv, UploadTypes, Kept
  <2>3. con' = con \/ con' = [con EXCEPT ![p] = [con[p] EXCEPT !.source = tmp[NameOf[p]]]]
    BY DEF Add, UploadsInv, UploadTypes
  <2> QED BY <2>2, <2>3 DEF UploadsInv, UploadTypes
<1>3. /\ \A q \in Posts \ {p} : con'[q] = con[q]
      /\ con'[p].manifest = con[p].manifest
      /\ session => con'[p].source = tmp[NameOf[p]]
      /\ ~session => con'[p] = con[p]
  BY DEF Add, UploadsInv, UploadTypes, Kept
<1>4. UploadTypes'
  BY <1>1, <1>2 DEF Add, UploadsInv, UploadTypes
<1>5. post[p].at \in {"stream", "copy"} /\ ~con[p].manifest
  BY DEF Add, Streaming, UploadsInv, AnswerInv
<1>6. StreamInv'
  BY <1>1 DEF Add, UploadsInv, StreamInv, Streaming, Alone
<1>7. NewInv' /\ CopyInv'
  BY <1>1 DEF Add, UploadsInv, NewInv, CopyInv
<1>8. tmp[NameOf[p]] = Upto(p, Chunks[p]) \/ p \in overlapped
  BY DEF Add, UploadsInv, StreamInv, CopyInv
<1>9. RecordInv'
  BY <1>1, <1>3, <1>5, <1>8 DEF Add, UploadsInv, RecordInv
<1>10. AnswerInv'
  BY <1>1, <1>3, <1>5 DEF Add, UploadsInv, AnswerInv
<1> QED BY <1>4, <1>6, <1>7, <1>9, <1>10 DEF UploadsInv

LEMMA RecordKeeps ==
    ASSUME PostsAssumption, UploadsInv, NEW p \in Posts, Record(p)
    PROVE  UploadsInv'
<1>1. /\ post' \in [Posts -> [at : Ats, sent : Nat]]
      /\ post'[p].at = "done"
      /\ \A q \in Posts \ {p} : post'[q] = post[q]
  BY DEF Record, At, UploadsInv, UploadTypes, Ats
<1>2. Digest(p) \in Files /\ clock + 1 \in Nat
  BY DEF Digest, UploadsInv, UploadTypes, Kept
<1>3. /\ con' \in [Posts -> Kept]
      /\ \A q \in Posts \ {p} : con'[q] = con[q]
      /\ con'[p].source = con[p].source /\ con'[p].digest = con[p].source
  <2> DEFINE c == [con[p] EXCEPT !.digest = Digest(p), !.manifest = TRUE, !.at = clock + 1]
  <2>1. c \in Kept /\ c.source = con[p].source /\ c.digest = Digest(p)
    BY <1>2 DEF UploadsInv, UploadTypes, Kept
  <2>2. con' = [con EXCEPT ![p] = c]
    BY DEF Record, UploadsInv, UploadTypes
  <2> HIDE DEF c
  <2> QED BY <2>1, <2>2 DEF UploadsInv, UploadTypes, Digest
<1>4. /\ answered' \in [Posts -> [digest : Files, size : Nat]]
      /\ answered'[p].digest = con[p].source
      /\ \A q \in Posts \ {p} : answered'[q] = answered[q]
  <2>1. Chunks[p] \in Nat
    BY DEF PostsAssumption
  <2> QED BY <1>2, <2>1 DEF Record, UploadsInv, UploadTypes, Digest
<1>5. UploadTypes'
  BY <1>1, <1>2, <1>3, <1>4 DEF Record, UploadsInv, UploadTypes
<1>6. StreamInv' /\ NewInv' /\ CopyInv'
  BY <1>1 DEF Record, UploadsInv, StreamInv, NewInv, CopyInv, Streaming, Alone
<1>7. RecordInv'
  BY <1>1, <1>3 DEF Record, UploadsInv, RecordInv
<1>8. AnswerInv'
  BY <1>1, <1>3, <1>4 DEF Record, UploadsInv, AnswerInv
<1> QED BY <1>5, <1>6, <1>7, <1>8 DEF UploadsInv

LEMMA DeleteKeeps ==
    ASSUME UploadsInv, DeleteSession
    PROVE  UploadsInv'
<1>1. NoContribution \in Kept
  BY EmptyTyped DEF NoContribution, Kept
<1>2. con' \in [Posts -> Kept]
  BY <1>1 DEF DeleteSession, UploadsInv, UploadTypes
<1>3. \A q \in Posts : /\ ~con'[q].manifest
                       /\ post[q].at = "record" => con'[q] = con[q]
  BY DEF DeleteSession, UploadsInv, AnswerInv, NoContribution
<1>4. UploadTypes'
  BY <1>2 DEF DeleteSession, UploadsInv, UploadTypes
<1>5. StreamInv' /\ NewInv' /\ CopyInv'
  BY DEF DeleteSession, UploadsInv, StreamInv, NewInv, CopyInv, Streaming, Alone
<1>6. RecordInv' /\ AnswerInv'
  BY <1>3 DEF DeleteSession, UploadsInv, RecordInv, AnswerInv
<1> QED BY <1>4, <1>5, <1>6 DEF UploadsInv

LEMMA CrashKeeps ==
    ASSUME UploadsInv, Crash
    PROVE  UploadsInv'
<1>1. /\ post' \in [Posts -> [at : Ats, sent : Nat]]
      /\ \A q \in Posts : IF post[q].at = "new" THEN post'[q] = post[q]
                          ELSE post'[q].at = "done"
  BY DEF Crash, UploadsInv, UploadTypes, Ats
<1>2. UploadTypes'
  BY <1>1 DEF Crash, UploadsInv, UploadTypes
<1>3. StreamInv' /\ NewInv' /\ CopyInv'
  BY <1>1 DEF Crash, UploadsInv, StreamInv, NewInv, CopyInv, Streaming, Alone
<1>4. RecordInv' /\ AnswerInv'
  BY <1>1 DEF Crash, UploadsInv, RecordInv, AnswerInv
<1> QED BY <1>2, <1>3, <1>4 DEF UploadsInv

LEMMA ResolveKeeps ==
    ASSUME UploadsInv, NEW r \in Runs, Resolve(r)
    PROVE  UploadsInv'
<1>1. UploadTypes'
  BY DEF Resolve, Candidates, Latest, UploadsInv, UploadTypes
<1> QED BY <1>1 DEF Resolve, UploadsInv, StreamInv, NewInv, CopyInv, RecordInv, AnswerInv,
                    Streaming, Alone

LEMMA StepKeeps == ASSUME PostsAssumption PROVE UploadsInv /\ [UploadNext]_uploadVars => UploadsInv'
<1> SUFFICES ASSUME UploadsInv, [UploadNext]_uploadVars PROVE UploadsInv'
  OBVIOUS
<1>1. CASE UNCHANGED uploadVars
  BY <1>1 DEF uploadVars, UploadsInv, UploadTypes, StreamInv, NewInv, CopyInv, RecordInv, AnswerInv,
              Streaming, Alone
<1>2. CASE Handler
  BY <1>2, OpenKeeps, ChunkKeeps, BodyKeeps, AddKeeps, RecordKeeps, DeleteKeeps
     DEF Handler
<1>3. CASE \E r \in Runs : Resolve(r)
  BY <1>3, ResolveKeeps
<1>4. CASE Crash
  BY <1>4, CrashKeeps
<1> QED BY <1>1, <1>2, <1>3, <1>4 DEF UploadNext

-----------------------------------------------------------------------------
\* What is kept is the upload it is named for, complete, unless another one of its name
\* was under way; the digest is that of what is kept (web/uploads.py, store.py).
THEOREM ContributionsAlwaysTrue ==
    ASSUME PostsAssumption PROVE UploadSpec => []ContributionsTrue
<1>1. UploadsInv => ContributionsTrue
  BY DEF UploadsInv, RecordInv, AnswerInv, ContributionsTrue, Upto
<1> QED BY <1>1, UploadsInvInit, StepKeeps, PTL DEF UploadSpec

\* The contribution a run was given, as long as the session is there.
InputInv ==
    \A r \in Runs : session /\ input[r] # Nobody =>
        con[input[r]].manifest /\ Pins[r] \in {Nobody, input[r]}

\* No step takes a manifest away but the deletion of the session, which is not made again.
LEMMA ManifestsStay ==
    ASSUME UploadsInv, [UploadNext]_uploadVars, session', NEW p \in Posts, con[p].manifest
    PROVE  session /\ con'[p].manifest
<1>1. post[p].at \in {"done", "refused"}
  BY DEF UploadsInv, AnswerInv
<1>2. CASE UNCHANGED <<con, session>>
  BY <1>2
<1>3. ASSUME NEW q \in Posts, Add(q) PROVE session /\ con'[p].manifest
  BY <1>1, <1>3 DEF Add, Streaming, UploadsInv, UploadTypes, Kept
<1>4. ASSUME NEW q \in Posts, Record(q) PROVE session /\ con'[p].manifest
  BY <1>4 DEF Record, UploadsInv, UploadTypes, Kept
<1> QED BY <1>2, <1>3, <1>4 DEF UploadNext, Handler, Open, Chunk, Body, DeleteSession,
                                Resolve, Crash, uploadVars

LEMMA InputsStay ==
    ASSUME PostsAssumption, UploadsInv, InputInv, [UploadNext]_uploadVars
    PROVE  InputInv'
<1> SUFFICES ASSUME NEW r \in Runs, session', input'[r] # Nobody
             PROVE  con'[input'[r]].manifest /\ Pins[r] \in {Nobody, input'[r]}
  BY DEF InputInv
<1>1. CASE input'[r] = input[r]
  <2>1. input[r] \in Posts /\ session
    BY <1>1, ManifestsStay DEF UploadsInv, UploadTypes, UploadNext, Handler, Open, Chunk, Body, Add,
                               Record, DeleteSession, Resolve, Crash, uploadVars
  <2> QED BY <1>1, <2>1, ManifestsStay DEF InputInv
<1>2. CASE input'[r] # input[r]
  <2>1. PICK q \in Runs : Resolve(q)
    BY <1>2 DEF UploadNext, Handler, Open, Chunk, Body, Add, Record, DeleteSession, Crash,
                uploadVars
  <2>2. q = r /\ input'[r] \in Posts /\ con[input'[r]].manifest
        /\ Pins[r] \in {Nobody, input'[r]}
    BY <1>2, <2>1 DEF Resolve, Candidates, Latest, UploadsInv, UploadTypes
  <2> QED BY <2>2, ManifestsStay
<1> QED BY <1>1, <1>2

\* Whatever the moment at which a run's thread looks, what it is given is complete, and
\* stays so until the session is deleted (input_resolver.py, store.py).
THEOREM InputsAlwaysRecorded ==
    ASSUME PostsAssumption PROVE UploadSpec => []InputsRecorded
<1>1. UploadInit => InputInv
  BY DEF UploadInit, InputInv
<1>2. UploadsInv /\ InputInv /\ [UploadNext]_uploadVars => InputInv'
  BY InputsStay
<1>3. UploadsInv /\ InputInv => InputsRecorded
  BY DEF UploadsInv, UploadTypes, InputInv, RecordInv, AnswerInv, InputsRecorded, Upto
<1> QED BY <1>1, <1>2, <1>3, UploadsInvInit, StepKeeps, PTL DEF UploadSpec

\* No upload is longer than it was sent, and no file longer than what was sent under its name.
SizesInv ==
    /\ \A n \in Names : \E p \in Posts : NameOf[p] = n /\ DOMAIN tmp[n] \subseteq 1..Chunks[p]
    /\ \A p \in Posts : post[p].sent <= Chunks[p] /\ con[p].at <= clock
    /\ session \in BOOLEAN

\* Every step keeps that.
LEMMA SizesStep ==
    ASSUME PostsAssumption, UploadsInv, SizesInv, [UploadNext]_uploadVars
    PROVE  SizesInv'
<1>1. /\ \A p \in Posts : post[p].sent \in Nat /\ con[p].at \in Nat /\ Chunks[p] \in Nat
      /\ clock \in Nat /\ tmp \in [Names -> Files]
      /\ post \in [Posts -> [at : Ats, sent : Nat]] /\ con \in [Posts -> Kept]
  BY DEF UploadsInv, UploadTypes, Kept, PostsAssumption
<1>2. CASE UNCHANGED <<tmp, post, con, session, clock>>
  BY <1>2 DEF SizesInv
<1>3. ASSUME NEW p \in Posts, Open(p) PROVE SizesInv'
  <2>1. /\ tmp' = [tmp EXCEPT ![NameOf[p]] = Empty] /\ UNCHANGED <<con, session, clock>>
        /\ \A q \in Posts : post'[q].sent = post[q].sent
    BY <1>1, <1>3 DEF Open, At
  <2>2. \A n \in Names : tmp'[n] = tmp[n] \/ tmp'[n] = Empty
    BY <1>1, <2>1
  <2>3. DOMAIN Empty = {}
    BY DEF Empty
  <2> QED BY <2>1, <2>2, <2>3 DEF SizesInv
<1>4. ASSUME NEW p \in Posts, Chunk(p) PROVE SizesInv'
  <2> DEFINE n == NameOf[p]
             i == post[p].sent + 1
             f == tmp[n]
  <2>1. /\ tmp' = [tmp EXCEPT ![n] = Longer(f, WithChunk(f, i, p))]
        /\ UNCHANGED <<con, session, clock>> /\ i \in 1..Chunks[p] /\ n \in Names
    BY <1>1, <1>4 DEF Chunk, Names
  <2>2. \A q \in Posts : post'[q].sent = IF q = p THEN i ELSE post[q].sent
    BY <1>1, <1>4 DEF Chunk
  <2>3. DOMAIN Longer(f, WithChunk(f, i, p)) = DOMAIN f \cup 1..i
    BY DEF Longer, WithChunk
  <2>4. PICK q \in Posts : NameOf[q] = n /\ DOMAIN f \subseteq 1..Chunks[q]
    BY <2>1 DEF SizesInv
  <2> HIDE DEF i, f, n
  <2>5. PICK l \in {p, q} : 1..Chunks[q] \subseteq 1..Chunks[l] /\ 1..i \subseteq 1..Chunks[l]
    <3>1. Chunks[p] \in Nat /\ Chunks[q] \in Nat
      BY <1>1
    <3>2. CASE Chunks[p] <= Chunks[q]
      BY <2>1, <3>1, <3>2
    <3>3. CASE Chunks[q] <= Chunks[p]
      BY <2>1, <3>1, <3>3
    <3> QED BY <3>1, <3>2, <3>3
  <2>6. l \in Posts /\ NameOf[l] = n /\ DOMAIN f \cup 1..i \subseteq 1..Chunks[l]
    BY <2>4, <2>5 DEF n
  <2>7. /\ tmp'[n] = Longer(f, WithChunk(f, i, p))
        /\ \A m \in Names \ {n} : tmp'[m] = tmp[m]
    BY <1>1, <2>1
  <2>8. \A m \in Names : \E k \in Posts : NameOf[k] = m /\ DOMAIN tmp'[m] \subseteq 1..Chunks[k]
    <3> TAKE m \in Names
    <3>1. CASE m = n
      BY <2>3, <2>6, <2>7, <3>1
    <3>2. CASE m # n
      BY <2>7, <3>2 DEF SizesInv
    <3> QED BY <3>1, <3>2
  <2>9. \A k \in Posts : post'[k].sent <= Chunks[k]
    BY <2>1, <2>2 DEF SizesInv
  <2> QED BY <2>1, <2>8, <2>9 DEF SizesInv
<1>5. ASSUME NEW p \in Posts, Body(p) PROVE SizesInv'
  <2> DEFINE n == NameOf[p]
             f == [j \in 1..Chunks[p] |-> p]
  <2>1. tmp' = [tmp EXCEPT ![n] = f] /\ UNCHANGED <<con, session, clock>> /\ n \in Names
    BY <1>5 DEF Body, Names
  <2>2. \A q \in Posts : post'[q].sent = IF q = p THEN Chunks[p] ELSE post[q].sent
    BY <1>1, <1>5 DEF Body
  <2>3. DOMAIN f = 1..Chunks[p] /\ NameOf[p] = n
    OBVIOUS
  <2> HIDE DEF f, n
  <2>4. /\ tmp'[n] = f
        /\ \A m \in Names \ {n} : tmp'[m] = tmp[m]
    BY <1>1, <2>1
  <2>5. \A m \in Names : \E k \in Posts : NameOf[k] = m /\ DOMAIN tmp'[m] \subseteq 1..Chunks[k]
    <3> TAKE m \in Names
    <3>1. CASE m = n
      BY <2>3, <2>4, <3>1
    <3>2. CASE m # n
      BY <2>4, <3>2 DEF SizesInv
    <3> QED BY <3>1, <3>2
  <2>6. \A k \in Posts : post'[k].sent <= Chunks[k]
    BY <1>1, <2>2 DEF SizesInv
  <2> QED BY <2>1, <2>5, <2>6 DEF SizesInv
<1>6. ASSUME NEW p \in Posts, Add(p) PROVE SizesInv'
  <2>1. /\ UNCHANGED <<tmp, session, clock>>
        /\ At(p, "record") \/ At(p, "refused")
        /\ con' = [con EXCEPT ![p].source = tmp[NameOf[p]]] \/ UNCHANGED con
    BY <1>6 DEF Add
  <2>2. \A q \in Posts : post'[q].sent = post[q].sent
    BY <1>1, <2>1 DEF At
  <2>3. \A q \in Posts : con'[q].at = con[q].at
    BY <1>1, <2>1 DEF Kept
  <2> QED BY <2>1, <2>2, <2>3 DEF SizesInv
<1>7. ASSUME NEW p \in Posts, Record(p) PROVE SizesInv'
  <2>1. /\ UNCHANGED <<tmp, session>> /\ clock' = clock + 1
        /\ \A q \in Posts : post'[q].sent = post[q].sent /\ con'[q].at \in {con[q].at, clock + 1}
    BY <1>1, <1>7 DEF Record, At, Kept
  <2>2. \A q \in Posts : con'[q].at <= clock'
    BY <1>1, <2>1 DEF SizesInv
  <2> QED BY <2>1, <2>2 DEF SizesInv
<1>8. CASE DeleteSession
  <2>1. /\ UNCHANGED <<tmp, post, clock>> /\ session' = FALSE
        /\ \A q \in Posts : con'[q] \in {con[q], NoContribution}
    BY <1>8 DEF DeleteSession
  <2>2. NoContribution.at = 0
    BY DEF NoContribution
  <2>3. \A q \in Posts : con'[q].at <= clock
    BY <1>1, <2>1, <2>2 DEF SizesInv
  <2> QED BY <2>1, <2>3 DEF SizesInv
<1>9. CASE Crash
  <2>1. /\ UNCHANGED <<tmp, con, session, clock>>
        /\ \A q \in Posts : post'[q].sent = post[q].sent
    BY <1>1, <1>9 DEF Crash
  <2> QED BY <2>1 DEF SizesInv
<1> QED BY <1>2, <1>3, <1>4, <1>5, <1>6, <1>7, <1>8, <1>9
        DEF UploadNext, Handler, Resolve, uploadVars

\* An upload is at one of its places, has sent no more than it has, and was recorded by the
\* clock; a file holds no more than was sent under its name.
THEOREM UploadsTyped == ASSUME PostsAssumption PROVE UploadSpec => []UploadTypeOK
<1>1. UploadInit => SizesInv
  <2> SUFFICES ASSUME UploadInit PROVE SizesInv
    OBVIOUS
  <2>1. \A n \in Names : \E p \in Posts : NameOf[p] = n
    BY DEF Names
  <2>2. /\ \A n \in Names : tmp[n] = Empty
        /\ \A p \in Posts : post[p].sent = 0 /\ con[p].at = 0 /\ Chunks[p] \in Nat
        /\ clock = 0 /\ session = TRUE
    BY DEF UploadInit, NoContribution, PostsAssumption
  <2>3. DOMAIN Empty = {}
    BY DEF Empty
  <2> QED BY <2>1, <2>2, <2>3 DEF SizesInv
<1>2. UploadsInv /\ SizesInv /\ [UploadNext]_uploadVars => SizesInv'
  BY SizesStep
<1>3. UploadsInv /\ SizesInv => UploadTypeOK
  <2> SUFFICES ASSUME UploadsInv, SizesInv PROVE UploadTypeOK
    OBVIOUS
  <2>1. /\ \A p \in Posts : /\ post[p].at \in Ats /\ post[p].sent \in 0..Chunks[p]
                            /\ con[p].at \in 0..clock
        /\ input \in [Runs -> Posts \cup {Nobody}] /\ overlapped \subseteq Posts
    BY DEF UploadsInv, UploadTypes, SizesInv, Kept, PostsAssumption
  <2> QED BY <2>1 DEF SizesInv, UploadTypeOK, Ats
<1> QED BY <1>1, <1>2, <1>3, UploadsInvInit, StepKeeps, PTL DEF UploadSpec

-----------------------------------------------------------------------------
(* Export bundles.  The invariant has five parts: types; the numbers that   *)
(* tell exports and zips apart; what an export has written of its own zip;  *)
(* who left a zip that is not closed; and what an export that still         *)
(* collects is waiting for.  The three properties of the runs are           *)
(* invariants beside them.                                                  *)

Parts == {"transcript", "names", "formalization", "dev", "manifest"}
Entry == [part : Parts, of : Versions \cup SessionRuns, form : {"json"} \cup TFormats \cup FFormats]
Zip == [there : BOOLEAN, whole : BOOLEAN, entries : SUBSET Entry, listed : SUBSET Entry,
        by : Nat]
Places == {"idle", "versions", "runs", "read", "collected", "write"}
ExportJob == [n : Nat, at : Places, type : Types, tf : SUBSET TFormats, ff : SUBSET FFormats,
              entries : SUBSET Entry, todo : SUBSET (Entry \cup Versions \cup SessionRuns),
              look : SUBSET (SessionRuns \X FFormats), had : SUBSET Entry]

ExportTypes ==
    /\ named \subseteq made /\ made \subseteq Versions \ gone
    /\ gone \subseteq SessionRuns \cup Versions
    /\ out \in [SessionRuns -> SUBSET FFormats] /\ \A r \in gone \cap SessionRuns : out[r] = {}
    /\ zips \in [Types -> Zip]
    /\ job \in [Doors -> ExportJob]
    /\ \A d \in Doors : job[d].at = "write" => job[d].todo \subseteq Entry
    /\ during \in [deleted : SUBSET (SessionRuns \cup Versions), types : SUBSET Types]
    /\ nExports \in 0..MaxExports /\ nCrashed \in 0..MaxCrashes
    /\ reply.zip.there \in BOOLEAN /\ reply.zip.whole \in BOOLEAN

\* Every export has a number of its own, and only the one that made a zip has the zip's.
NumbersInv ==
    /\ \A d \in Doors : job[d].n <= nExports
    /\ \A d, e \in Doors : job[d].at # "idle" /\ job[e].at # "idle" /\ job[d].n = job[e].n
                             => d = e
    /\ \A t \in Types : zips[t].by <= nExports
    /\ \A d \in Doors : job[d].at \notin {"idle", "write"} =>
          \A t \in Types : zips[t].there => zips[t].by # job[d].n

\* The zip an export is writing is its own, and has what is no longer to be written.  The
\* bundle of a run is cut short only if the run was deleted meanwhile.
Writes(d) ==
    LET j == job[d]
        z == zips[j.type] IN
    /\ z.there /\ ~z.whole /\ z.by = j.n
    /\ z.listed \subseteq z.entries \cup j.todo \/ j.type \in during.deleted
    /\ d = "web" => \A e \in j.had : e \in z.entries \cup j.todo \/ e.of \in during.deleted
WriteInv ==
    /\ \A d \in Doors : job[d].at = "write" => Writes(d)
    /\ \A d \in Doors : job[d].at = "collected" => d = "library"
    /\ job["library"].at \in {"idle", "collected", "write"}
    /\ job["library"].at # "idle" /\ job["library"].type \in gone
          => job["library"].type \in during.deleted

\* A zip that is not closed is being written, or a process ended while it was.
OpenInv ==
    \A t \in Types : zips[t].there /\ ~zips[t].whole =>
        nCrashed > 0 \/ \E d \in Doors : job[d].at = "write" /\ job[d].type = t

\* What there was when the export began is collected, or will be, unless it was deleted.
Awaited(j, e) ==
    \/ /\ j.at = "versions"
       /\ \E v \in j.todo \cap made : \/ \E f \in j.tf : e = T(v, f)
                                      \/ v \in named /\ e = N(v)
    \/ /\ WithFormalizations(j.type) /\ j.at \in {"versions", "runs", "read"}
       /\ \E r \in SessionRuns \ gone : \E f \in j.ff \cap out[r] :
             /\ e = F(r, f)
             /\ j.at # "versions" => r \in j.todo
             /\ j.at = "read" /\ <<r, "pdf">> \in j.look => <<r, f>> \in j.look
Collects(j) == \A e \in j.had : e \in j.entries \/ e.of \in during.deleted \/ Awaited(j, e)
HadInv == \A d \in Doors : job[d].at \in {"versions", "runs", "read"} => Collects(job[d])

ExportsInv == /\ ExportTypes /\ NumbersInv /\ WriteInv /\ OpenInv /\ HadInv
        /\ AnswersWhole /\ FreshAnswersComplete /\ BundlesFull

-----------------------------------------------------------------------------
\* What goes on beside the exports; an export that begins; one that collects.
World ==
    /\ UNCHANGED <<zips, job, reply, nExports, nCrashed>>
    /\ \/ \E v \in Versions : MakeVersion(v) \/ NameSpeakers(v)
       \/ \E r \in SessionRuns : Render(r)
       \/ \E x \in SessionRuns \cup Versions : Delete(x)
Beginning == \/ \E d \in Doors, q \in Requests : Begin(d, q)
             \/ \E r \in SessionRuns : BeginRun(r)
Collecting(d) == \/ \E v \in Versions : TakeVersion(d, v)
                 \/ \E r \in SessionRuns : LookUp(d, r) \/ ReadRun(d, r)
                 \/ TakeRuns(d)

\* Every step is one of these, or one of an export that has collected what it is to write.
LEMMA StepCases ==
    ASSUME ExportNext
    PROVE  \/ World \/ Beginning
           \/ \E d \in Doors : Collecting(d) \/ CreateZip(d) \/ Write(d) \/ Close(d) \/ ExportCrash(d)
BY DEF ExportNext, Export, World, Beginning, Collecting, MakeVersion, NameSpeakers, Render, Delete

\* The entries of a zip.
LEMMA EntryTypes ==
    /\ \A v \in Versions, f \in TFormats : T(v, f) \in Entry /\ T(v, f).of = v
    /\ \A v \in Versions : N(v) \in Entry /\ N(v).of = v
    /\ \A r \in SessionRuns, f \in FFormats : F(r, f) \in Entry /\ F(r, f).of = r
    /\ \A x \in Versions \cup SessionRuns : Dev(x) \in Entry /\ Core(x) \in Entry
<1>1. \A v \in Versions, f \in TFormats : T(v, f) \in Entry /\ T(v, f).of = v
  BY DEF T, Entry, Parts
<1>2. \A v \in Versions : N(v) \in Entry /\ N(v).of = v
  BY DEF N, Entry, Parts
<1>3. \A r \in SessionRuns, f \in FFormats : F(r, f) \in Entry /\ F(r, f).of = r
  BY DEF F, Entry, Parts
<1>4. \A x \in Versions \cup SessionRuns : Dev(x) \in Entry /\ Core(x) \in Entry
  BY DEF Dev, Core, Entry, Parts
<1> QED BY <1>1, <1>2, <1>3, <1>4

\* No export.
LEMMA NoJobType == NoJob \in ExportJob /\ NoJob.at = "idle" /\ NoJob.n = 0
BY DEF NoJob, ExportJob, Places, Types, SessionTypes

\* What there is of a session is made of entries.
LEMMA WantedTypes ==
    ASSUME ExportTypes, NEW q, q.tf \subseteq TFormats, q.ff \subseteq FFormats
    PROVE  Wanted(q) \in SUBSET Entry
<1> DEFINE transcripts == {T(v, f) : v \in made, f \in q.tf} \cup {N(v) : v \in named}
           rendered == UNION {{F(r, f) : f \in out[r] \cap q.ff} : r \in SessionRuns}
<1>1. transcripts \subseteq Entry
  <2>1. made \subseteq Versions /\ named \subseteq Versions
    BY DEF ExportTypes
  <2> QED BY <2>1, EntryTypes
<1>2. rendered \subseteq Entry
  BY EntryTypes
<1>3. Wanted(q) = (IF WithTranscripts(q.type) THEN transcripts ELSE {})
                  \cup (IF WithFormalizations(q.type) THEN rendered ELSE {})
  BY DEF Wanted
<1> HIDE DEF transcripts, rendered
<1> QED BY <1>1, <1>2, <1>3

-----------------------------------------------------------------------------
\* An export begins with a number of its own, waiting for all there is for it.
LEMMA BeginningShape ==
    ASSUME RequestsAssumption, ExportTypes, Beginning
    PROVE  \E d \in Doors, k \in ExportJob :
             /\ job[d].at = "idle" /\ job' = [job EXCEPT ![d] = k]
             /\ k.n = nExports + 1 /\ nExports' = nExports + 1 /\ nExports < MaxExports
             /\ UNCHANGED <<world, zips, reply, nCrashed, during>>
             /\ \/ d # "library" /\ k.at = "versions" /\ Collects(k)
                \/ d = "library" /\ k.at = "collected" /\ k.type \notin gone
<1>0. nExports \in Nat
  BY DEF ExportTypes
<1>1. ASSUME NEW d \in Doors, NEW q \in Requests, Begin(d, q)
      PROVE  \E k \in ExportJob :
               /\ job[d].at = "idle" /\ job' = [job EXCEPT ![d] = k]
               /\ k.n = nExports + 1 /\ nExports' = nExports + 1 /\ nExports < MaxExports
               /\ UNCHANGED <<world, zips, reply, nCrashed, during>>
               /\ d # "library" /\ k.at = "versions" /\ Collects(k)
  <2> DEFINE p == Formats(q)
             versions == IF WithTranscripts(q.type) THEN made ELSE {}
             had == Wanted(p)
             k == [n |-> nExports + 1, at |-> "versions", type |-> q.type, tf |-> p.tf,
                   ff |-> p.ff, entries |-> {}, todo |-> versions, look |-> {}, had |-> had]
  <2>1. q \in [type : SessionTypes, tf : SUBSET TFormats, ff : SUBSET FFormats]
    BY DEF RequestsAssumption
  <2>2. p \in [type : SessionTypes, tf : SUBSET TFormats, ff : SUBSET FFormats] /\ p.type = q.type
    BY <2>1 DEF Formats
  <2>3. had \in SUBSET Entry
    BY <2>2, WantedTypes
  <2>4. versions \in SUBSET (Entry \cup Versions \cup SessionRuns)
    BY DEF ExportTypes
  <2>5. k \in ExportJob
    <3> HIDE DEF p, versions, had
    <3> QED BY <1>0, <2>1, <2>2, <2>3, <2>4 DEF ExportJob, Places, Types
  <2>6. /\ job[d].at = "idle" /\ job' = [job EXCEPT ![d] = k]
        /\ nExports' = nExports + 1 /\ nExports < MaxExports
        /\ UNCHANGED <<world, zips, reply, nCrashed, during>>
    <3>1. Began(d, q.type, p, "versions", versions, had)
      BY <1>1, Zenon DEF Begin
    <3> HIDE DEF p, versions, had
    <3> QED BY <3>1, Zenon DEF Began
  <2>10. d # "library"
    BY <1>1 DEF Begin
  <2>7. /\ k.n = nExports + 1 /\ k.at = "versions" /\ k.had = had /\ k.todo = versions
        /\ k.type = q.type /\ k.tf = p.tf /\ k.ff = p.ff
    OBVIOUS
  <2>8. ASSUME NEW e \in had
        PROVE  Awaited(k, e)
    <3>1. CASE /\ WithTranscripts(p.type)
               /\ e \in {T(v, f) : v \in made, f \in p.tf} \cup {N(v) : v \in named}
      <4>1. versions = made /\ named \subseteq made
        BY <2>2, <3>1 DEF ExportTypes
      <4> HIDE DEF p, versions, had, k
      <4> QED BY <2>7, <3>1, <4>1 DEF Awaited
    <3>2. CASE /\ WithFormalizations(p.type)
               /\ e \in UNION {{F(r, f) : f \in out[r] \cap p.ff} : r \in SessionRuns}
      <4>1. PICK r \in SessionRuns : \E f \in out[r] \cap p.ff : e = F(r, f)
        BY <3>2
      <4>2. r \notin gone
        BY <4>1 DEF ExportTypes
      <4>3. PICK f \in out[r] \cap p.ff : e = F(r, f)
        BY <4>1
      <4> HIDE DEF p, versions, had, k
      <4> QED BY <2>2, <2>7, <3>2, <4>2, <4>3 DEF Awaited
    <3> DEFINE transcripts == {T(v, f) : v \in made, f \in p.tf} \cup {N(v) : v \in named}
               rendered == UNION {{F(r, f) : f \in out[r] \cap p.ff} : r \in SessionRuns}
    <3>3. had = (IF WithTranscripts(p.type) THEN transcripts ELSE {})
                  \cup (IF WithFormalizations(p.type) THEN rendered ELSE {})
      BY DEF Wanted
    <3>4. \/ WithTranscripts(p.type) /\ e \in transcripts
          \/ WithFormalizations(p.type) /\ e \in rendered
      <4> HIDE DEF transcripts, rendered, p, had
      <4> QED BY <3>3
    <3> QED BY <3>1, <3>2, <3>4
  <2> HIDE DEF k
  <2>9. Collects(k)
    BY <2>7, <2>8 DEF Collects
  <2> QED BY <2>5, <2>6, <2>7, <2>9, <2>10
<1>2. ASSUME NEW r \in SessionRuns, BeginRun(r)
      PROVE  \E k \in ExportJob :
               /\ job["library"].at = "idle" /\ job' = [job EXCEPT !["library"] = k]
               /\ k.n = nExports + 1 /\ nExports' = nExports + 1 /\ nExports < MaxExports
               /\ UNCHANGED <<world, zips, reply, nCrashed, during>>
               /\ k.at = "collected" /\ k.type \notin gone
  <2> DEFINE had == {Core(r)} \cup {F(r, f) : f \in out[r]}
             k == [n |-> nExports + 1, at |-> "collected", type |-> r, tf |-> {},
                   ff |-> FFormats, entries |-> {}, todo |-> {}, look |-> {}, had |-> had]
  <2>1. had \in SUBSET Entry
    <3>1. out[r] \subseteq FFormats
      BY DEF ExportTypes
    <3> QED BY <3>1, EntryTypes
  <2>2. k \in ExportJob
    <3> HIDE DEF had
    <3> QED BY <1>0, <2>1 DEF ExportJob, Places, Types
  <2>3. [tf |-> {}, ff |-> FFormats].tf = {} /\ [tf |-> {}, ff |-> FFormats].ff = FFormats
    OBVIOUS
  <2>4. /\ job["library"].at = "idle" /\ job' = [job EXCEPT !["library"] = k]
        /\ nExports' = nExports + 1 /\ nExports < MaxExports
        /\ UNCHANGED <<world, zips, reply, nCrashed, during>>
    BY <1>2, <2>3, Zenon DEF BeginRun, Began
  <2>5. k.n = nExports + 1 /\ k.at = "collected" /\ k.type = r /\ r \notin gone
    BY <1>2 DEF BeginRun
  <2> HIDE DEF k
  <2> QED BY <2>2, <2>4, <2>5
<1> QED BY <1>1, <1>2 DEF Beginning, Doors

\* An export that collects goes on waiting for what it has not collected, or fails.
LEMMA CollectingShape ==
    ASSUME ExportTypes, NEW d \in Doors, Collecting(d)
    PROVE  /\ UNCHANGED <<world, zips, reply, nExports, nCrashed, during>>
           /\ job[d].at \in {"versions", "runs", "read"}
           /\ \E k \in ExportJob :
                /\ job' = [job EXCEPT ![d] = k]
                /\ \/ k = NoJob
                   \/ /\ k.at \in {"versions", "runs", "read"} /\ k.n = job[d].n
                      /\ Collects(job[d]) => Collects(k)
<1> DEFINE j == job[d]
<1>0. j \in ExportJob /\ DOMAIN job = Doors
  BY DEF ExportTypes
<1>1. UNCHANGED <<world, zips, reply, nExports, nCrashed, during>>
  BY DEF Collecting, TakeVersion, LookUp, ReadRun, TakeRuns
<1>2. ASSUME NEW v \in Versions, TakeVersion(d, v)
      PROVE  /\ j.at = "versions"
             /\ \E k \in ExportJob :
                  /\ job' = [job EXCEPT ![d] = k]
                  /\ \/ k = NoJob
                     \/ /\ k.at = "versions" /\ k.n = j.n
                        /\ Collects(j) => Collects(k)
  <2> DEFINE k == [j EXCEPT !.todo = @ \ {v}, !.entries = @ \cup OfVersion(j, v)]
  <2>1. j.at = "versions" /\ v \in j.todo
    BY <1>2 DEF TakeVersion
  <2>2. CASE v \notin made
    <3>1. job' = [job EXCEPT ![d] = NoJob]
      BY <1>2, <2>2, Zenon DEF TakeVersion
    <3> QED BY <2>1, <3>1, NoJobType
  <2>3. CASE v \in made
    <3> DEFINE l == IF v \in made THEN k ELSE NoJob
    <3>6. job' = [job EXCEPT ![d] = l]
      BY <1>2, Zenon DEF TakeVersion
    <3>7. l = k
      BY <2>3
    <3> HIDE DEF k, l
    <3>1. job' = [job EXCEPT ![d] = k]
      BY <3>6, <3>7
    <3> USE DEF k
    <3>2. OfVersion(j, v) \subseteq Entry
      BY <1>0, EntryTypes DEF OfVersion, ExportJob
    <3>3. /\ k \in ExportJob
          /\ k.at = "versions" /\ k.n = j.n /\ k.type = j.type /\ k.tf = j.tf /\ k.ff = j.ff
          /\ k.had = j.had /\ k.look = j.look
          /\ k.todo = j.todo \ {v} /\ k.entries = j.entries \cup OfVersion(j, v)
      BY <1>0, <2>1, <3>2 DEF ExportJob
    <3> HIDE DEF k
    <3>4. ASSUME NEW e \in j.had, Awaited(j, e), e \notin OfVersion(j, v)
          PROVE  Awaited(k, e)
      <4>1. (\A f \in j.tf : e # T(v, f)) /\ (v \in named => e # N(v))
        BY <3>4 DEF OfVersion
      <4> QED BY <2>1, <3>3, <3>4, <4>1 DEF Awaited
    <3>5. Collects(j) => Collects(k)
      BY <3>3, <3>4 DEF Collects
    <3> QED BY <2>1, <3>1, <3>3, <3>5
  <2> QED BY <2>2, <2>3
<1>3. CASE TakeRuns(d)
  <2> DEFINE k == [j EXCEPT !.at = "runs", !.todo =
                     IF WithFormalizations(j.type) THEN SessionRuns \ gone ELSE {}]
  <2>1. j.at = "versions" /\ j.todo = {}
    BY <1>3 DEF TakeRuns
  <2>2. job' = [job EXCEPT ![d] = k]
    BY <1>3, Zenon DEF TakeRuns
  <2>3. /\ k \in ExportJob
        /\ k.at = "runs" /\ k.n = j.n /\ k.type = j.type /\ k.tf = j.tf /\ k.ff = j.ff
        /\ k.had = j.had /\ k.look = j.look /\ k.entries = j.entries
        /\ k.todo = IF WithFormalizations(j.type) THEN SessionRuns \ gone ELSE {}
    BY <1>0 DEF ExportJob, Places
  <2> HIDE DEF k
  <2>4. ASSUME NEW e \in j.had, Awaited(j, e)
        PROVE  Awaited(k, e)
    BY <2>1, <2>3, <2>4 DEF Awaited
  <2>5. Collects(j) => Collects(k)
    BY <2>3, <2>4 DEF Collects
  <2> QED BY <1>1, <2>1, <2>2, <2>3, <2>5
<1>4. ASSUME NEW r \in SessionRuns, LookUp(d, r)
      PROVE  /\ j.at = "runs"
             /\ \E k \in ExportJob :
                  /\ job' = [job EXCEPT ![d] = k]
                  /\ k.at = "read" /\ k.n = j.n
                  /\ Collects(j) => Collects(k)
  <2> DEFINE look == {<<r, f>> : f \in {"pdf"} \cup (out[r] \cap {"md"})}
             k == [j EXCEPT !.at = "read", !.look = look]
  <2>1. j.at = "runs" /\ r \in j.todo
    BY <1>4 DEF LookUp
  <2>2. job' = [job EXCEPT ![d] = k]
    BY <1>4, Zenon DEF LookUp
  <2>3. look \in SUBSET (SessionRuns \X FFormats)
    BY DEF FFormats
  <2>4. /\ k \in ExportJob
        /\ k.at = "read" /\ k.n = j.n /\ k.type = j.type /\ k.tf = j.tf /\ k.ff = j.ff
        /\ k.had = j.had /\ k.look = look /\ k.entries = j.entries /\ k.todo = j.todo
    <3> HIDE DEF look
    <3> QED BY <1>0, <2>3 DEF ExportJob, Places
  <2>5. \A q, f : <<q, f>> \in look <=> q = r /\ (f = "pdf" \/ (f \in out[r] /\ f = "md"))
    OBVIOUS
  <2>6. \A f \in j.ff : f = "pdf" \/ f = "md"
    BY <1>0 DEF ExportJob, FFormats
  <2> HIDE DEF k, look
  <2>7. ASSUME NEW e \in j.had, Awaited(j, e)
        PROVE  Awaited(k, e)
    BY <2>1, <2>4, <2>5, <2>6, <2>7 DEF Awaited
  <2>8. Collects(j) => Collects(k)
    BY <2>4, <2>7 DEF Collects
  <2> QED BY <2>1, <2>2, <2>4, <2>8
<1>5. ASSUME NEW r \in SessionRuns, ReadRun(d, r)
      PROVE  /\ j.at = "read"
             /\ \E k \in ExportJob :
                  /\ job' = [job EXCEPT ![d] = k]
                  /\ k.at = "runs" /\ k.n = j.n
                  /\ Collects(j) => Collects(k)
  <2> DEFINE files == {F(r, f) : f \in Found(j, r)}
             dev == IF j.type = "dev_bundle" /\ Found(j, r) # {} THEN {Dev(r)} ELSE {}
             k == [j EXCEPT !.at = "runs", !.todo = @ \ {r}, !.look = {},
                            !.entries = @ \cup files \cup dev]
  <2>1. j.at = "read" /\ <<r, "pdf">> \in j.look
    BY <1>5 DEF ReadRun
  <2>2. job' = [job EXCEPT ![d] = k]
    BY <1>5, Zenon DEF ReadRun
  <2>3. files \subseteq Entry /\ dev \subseteq Entry
    <3>1. Found(j, r) \subseteq FFormats
      BY <1>0 DEF Found, ExportJob
    <3> QED BY <3>1, EntryTypes
  <2>4. /\ k \in ExportJob
        /\ k.at = "runs" /\ k.n = j.n /\ k.type = j.type /\ k.tf = j.tf /\ k.ff = j.ff
        /\ k.had = j.had /\ files \subseteq k.entries /\ j.entries \subseteq k.entries
        /\ k.todo = j.todo \ {r}
    <3> HIDE DEF files, dev
    <3> QED BY <1>0, <2>3 DEF ExportJob, Places
  <2>5. \A f \in j.ff \cap out[r] : <<r, f>> \in j.look => F(r, f) \in files
    BY DEF Found
  <2> HIDE DEF k, files
  <2>6. ASSUME NEW e \in j.had, Awaited(j, e), e \notin k.entries
        PROVE  Awaited(k, e)
    <3>1. e \notin files
      BY <2>4, <2>6
    <3> QED BY <2>1, <2>4, <2>5, <2>6, <3>1 DEF Awaited
  <2>7. Collects(j) => Collects(k)
    BY <2>4, <2>6 DEF Collects
  <2> QED BY <2>1, <2>2, <2>4, <2>7
<1> QED BY <1>1, <1>2, <1>3, <1>4, <1>5 DEF Collecting

\* An export that finds the name taken ends; one that does not makes the zip, which is to
\* have what it has collected.
LEMMA CreateShape ==
    ASSUME ExportTypes, NEW d \in Doors, CreateZip(d)
    PROVE  /\ Collected(job[d]) /\ UNCHANGED <<world, nExports, nCrashed>>
           /\ \/ /\ zips[job[d].type].there
                 /\ job' = [job EXCEPT ![d] = NoJob] /\ UNCHANGED zips
                 /\ reply' = IF d = "web" THEN [job |-> job[d], zip |-> zips[job[d].type]]
                             ELSE reply
                 /\ during' = IF \E e \in Doors \ {d} : job[e].at = "write"
                                                        /\ job[e].type = job[d].type
                              THEN [during EXCEPT !.types = @ \cup {job[d].type}] ELSE during
              \/ /\ ~zips[job[d].type].there
                 /\ UNCHANGED <<reply, during>>
                 /\ \E k \in ExportJob, z \in Zip :
                      /\ job' = [job EXCEPT ![d] = k]
                      /\ zips' = [zips EXCEPT ![job[d].type] = z]
                      /\ k.at = "write" /\ k.n = job[d].n /\ k.type = job[d].type
                      /\ k.had = job[d].had /\ k.todo \subseteq Entry
                      /\ d # "library" => k.todo = job[d].entries
                      /\ z.there /\ ~z.whole /\ z.by = job[d].n /\ z.listed = k.todo
<1> DEFINE j == job[d]
<1>0. j \in ExportJob
  BY DEF ExportTypes
<1>1. Collected(j) /\ UNCHANGED <<world, nExports, nCrashed>>
  BY DEF CreateZip
<1>2. CASE zips[j.type].there
  BY <1>1, <1>2, Zenon DEF CreateZip
<1>3. CASE ~zips[j.type].there
  <2> DEFINE todo == IF d = "library" THEN j.had ELSE j.entries
             k == [j EXCEPT !.at = "write", !.todo = todo]
             z == [there |-> TRUE, whole |-> FALSE, entries |-> {}, listed |-> todo, by |-> j.n]
  <2>1. todo \in SUBSET Entry
    BY <1>0 DEF ExportJob
  <2>2. Opened(d) /\ UNCHANGED <<reply, during>>
    BY <1>3 DEF CreateZip
  <2>3. job' = [job EXCEPT ![d] = k] /\ zips' = [zips EXCEPT ![j.type] = z]
    BY <2>2, Zenon DEF Opened
  <2>4. d # "library" => todo = j.entries
    OBVIOUS
  <2> HIDE DEF todo
  <2>5. /\ k \in ExportJob
        /\ k.at = "write" /\ k.n = j.n /\ k.type = j.type /\ k.had = j.had /\ k.todo = todo
    BY <1>0, <2>1 DEF ExportJob, Places
  <2>6. z \in Zip /\ z.there /\ ~z.whole /\ z.by = j.n /\ z.listed = todo
    BY <1>0, <2>1 DEF ExportJob, Zip
  <2> HIDE DEF k, z
  <2> QED BY <1>1, <1>3, <2>1, <2>2, <2>3, <2>4, <2>5, <2>6
<1> QED BY <1>2, <1>3

\* What an export writes it has no longer to write, and it leaves something out only if its
\* run was deleted.
LEMMA WriteShape ==
    ASSUME ExportTypes, NEW d \in Doors, Write(d)
    PROVE  /\ job[d].at = "write"
           /\ UNCHANGED <<world, reply, nExports, nCrashed, during>>
           /\ \E k \in ExportJob, z \in Zip :
                /\ job' = [job EXCEPT ![d] = k] /\ zips' = [zips EXCEPT ![job[d].type] = z]
                /\ k.at = "write" /\ k.n = job[d].n /\ k.type = job[d].type
                /\ k.had = job[d].had /\ k.todo \subseteq Entry
                /\ z.there = zips[job[d].type].there /\ z.whole = zips[job[d].type].whole
                /\ z.by = zips[job[d].type].by /\ z.listed = zips[job[d].type].listed
                /\ \/ zips[job[d].type].entries \cup job[d].todo \subseteq z.entries \cup k.todo
                   \/ d = "library" /\ job[d].type \in gone
<1> DEFINE j == job[d]
           old == zips[j.type]
<1>0. j \in ExportJob /\ old \in Zip /\ j.todo \subseteq Entry
  BY DEF ExportTypes, ExportJob, Write
<1>1. j.at = "write" /\ UNCHANGED <<world, reply, nExports, nCrashed, during>>
  BY DEF Write
<1>2. PICK some \in IF d # "library" THEN {j.todo}
                    ELSE IF j.type \in gone THEN {{}} ELSE {{e} : e \in j.todo} :
        /\ zips' = [zips EXCEPT ![j.type].entries = @ \cup some]
        /\ job' = [job EXCEPT ![d].todo = IF some = {} THEN {} ELSE @ \ some]
  BY Zenon DEF Write
<1>3. /\ some \subseteq j.todo
      /\ (d = "library" /\ j.type \in gone) \/ some # {}
  BY DEF Write
<1> DEFINE left == IF some = {} THEN {} ELSE j.todo \ some
           k == [j EXCEPT !.todo = left]
           z == [old EXCEPT !.entries = @ \cup some]
<1>4. job' = [job EXCEPT ![d] = k] /\ zips' = [zips EXCEPT ![j.type] = z]
  BY <1>2, Zenon
<1>5. left \in SUBSET Entry /\ left \in SUBSET (Entry \cup Versions \cup SessionRuns)
  BY <1>0
<1>6. some # {} => j.todo \subseteq some \cup left
  OBVIOUS
<1> HIDE DEF left
<1>7. /\ k \in ExportJob /\ k.todo = left
      /\ k.at = "write" /\ k.n = j.n /\ k.type = j.type /\ k.had = j.had
  BY <1>0, <1>1, <1>5 DEF ExportJob
<1>8. /\ z \in Zip /\ z.entries = old.entries \cup some
      /\ z.there = old.there /\ z.whole = old.whole /\ z.by = old.by /\ z.listed = old.listed
  BY <1>0, <1>3 DEF Zip
<1> HIDE DEF k, z
<1> QED BY <1>1, <1>3, <1>4, <1>5, <1>6, <1>7, <1>8

\* A zip that is closed is whole, and otherwise as it was.
LEMMA CloseShape ==
    ASSUME ExportTypes, NEW d \in Doors, Close(d)
    PROVE  /\ job[d].at = "write" /\ job[d].todo = {}
           /\ UNCHANGED <<world, nExports, nCrashed, during>>
           /\ job' = [job EXCEPT ![d] = NoJob]
           /\ \E z \in Zip :
                /\ zips' = [zips EXCEPT ![job[d].type] = z]
                /\ reply' = IF d = "web" THEN [job |-> job[d], zip |-> z] ELSE reply
                /\ z.whole /\ z.there = zips[job[d].type].there
                /\ z.by = zips[job[d].type].by /\ z.listed = zips[job[d].type].listed
                /\ z.entries = zips[job[d].type].entries
<1> DEFINE j == job[d]
           z == [zips[j.type] EXCEPT !.whole = TRUE]
<1>0. j \in ExportJob /\ zips[j.type] \in Zip
  BY DEF ExportTypes, ExportJob
<1>1. /\ j.at = "write" /\ j.todo = {}
      /\ UNCHANGED <<world, nExports, nCrashed, during>>
      /\ job' = [job EXCEPT ![d] = NoJob]
      /\ zips' = [zips EXCEPT ![j.type] = z]
      /\ reply' = IF d = "web" THEN [job |-> j, zip |-> z] ELSE reply
  BY Zenon DEF Close
<1>2. /\ z \in Zip /\ z.whole /\ z.there = zips[j.type].there
      /\ z.by = zips[j.type].by /\ z.listed = zips[j.type].listed
      /\ z.entries = zips[j.type].entries
  BY <1>0 DEF Zip
<1> HIDE DEF z
<1> QED BY <1>1, <1>2

\* What goes on beside an export takes from what it waits for only by a deletion, which is
\* then noticed.
LEMMA WorldShape ==
    ASSUME ExportTypes, World
    PROVE  /\ UNCHANGED <<zips, job, reply, nExports, nCrashed>>
           /\ during'.types = during.types /\ during.deleted \subseteq during'.deleted
           /\ Busy => \A x \in gone' \ gone : x \in during'.deleted
           /\ Busy => \A v \in made : v \in made' \/ v \in during'.deleted
           /\ Busy => \A v \in named : v \in named' \/ v \in during'.deleted
           /\ Busy => \A r \in SessionRuns \ gone :
                         (r \notin gone' /\ out[r] \subseteq out'[r]) \/ r \in during'.deleted
           /\ ExportTypes'
<1>0. UNCHANGED <<zips, job, reply, nExports, nCrashed>>
  BY DEF World
<1>1. ASSUME NEW v \in Versions, MakeVersion(v) \/ NameSpeakers(v)
      PROVE  /\ UNCHANGED <<out, gone, during>> /\ made \subseteq made' /\ named \subseteq named'
             /\ ExportTypes'
  BY <1>0, <1>1 DEF MakeVersion, NameSpeakers, ExportTypes
<1>2. ASSUME NEW r \in SessionRuns, Render(r)
      PROVE  /\ UNCHANGED <<made, named, gone, during>>
             /\ \A q \in SessionRuns : out[q] \subseteq out'[q]
             /\ ExportTypes'
  <2>1. out' \in [SessionRuns -> SUBSET FFormats] /\ \A q \in SessionRuns : out[q] \subseteq out'[q]
    BY <1>2 DEF Render, ExportTypes, Rendered, FFormats
  <2>2. \A q \in gone \cap SessionRuns : out'[q] = {}
    BY <1>2 DEF Render, ExportTypes
  <2>3. UNCHANGED <<made, named, gone, during>>
    BY <1>2 DEF Render
  <2> QED BY <1>0, <2>1, <2>2, <2>3 DEF ExportTypes
<1>3. ASSUME NEW x \in SessionRuns \cup Versions, Delete(x)
      PROVE  /\ gone' = gone \cup {x} /\ named' = named \ {x} /\ made' = made \ {x}
             /\ \A r \in SessionRuns : out'[r] = IF r = x THEN {} ELSE out[r]
             /\ during'.types = during.types /\ during.deleted \subseteq during'.deleted
             /\ Busy => x \in during'.deleted
             /\ ExportTypes'
  <2>1. /\ gone' = gone \cup {x} /\ named' = named \ {x} /\ made' = made \ {x}
        /\ out' = [r \in SessionRuns |-> IF r = x THEN {} ELSE out[r]]
    BY <1>3 DEF Delete
  <2>2. during' = IF Busy THEN [during EXCEPT !.deleted = @ \cup {x}] ELSE during
    BY <1>3, Zenon DEF Delete
  <2>3. /\ during'.types = during.types /\ during.deleted \subseteq during'.deleted
        /\ Busy => x \in during'.deleted
        /\ during' \in [deleted : SUBSET (SessionRuns \cup Versions), types : SUBSET Types]
    BY <2>2 DEF ExportTypes
  <2>4. out' \in [SessionRuns -> SUBSET FFormats] /\ \A r \in gone' \cap SessionRuns : out'[r] = {}
    BY <2>1 DEF ExportTypes
  <2> QED BY <1>0, <2>1, <2>3, <2>4 DEF ExportTypes
<1> QED BY <1>0, <1>1, <1>2, <1>3 DEF World

\* Everything has its type.
LEMMA TypedStep ==
    ASSUME RequestsAssumption, ExportBoundsAssumption, ExportTypes, ExportNext
    PROVE  ExportTypes'
<1>1. CASE World
  BY <1>1, WorldShape
<1>2. CASE Beginning
  <2>1. PICK d \in Doors, k \in ExportJob :
             /\ job[d].at = "idle" /\ job' = [job EXCEPT ![d] = k]
             /\ k.n = nExports + 1 /\ nExports' = nExports + 1 /\ nExports < MaxExports
             /\ UNCHANGED <<world, zips, reply, nCrashed, during>>
             /\ k.at \in {"versions", "collected"}
    BY <1>2, BeginningShape
  <2>2. nExports' \in 0..MaxExports
    BY <2>1 DEF ExportTypes, ExportBoundsAssumption
  <2>3. /\ job' \in [Doors -> ExportJob]
        /\ \A e \in Doors : job'[e].at = "write" => job'[e].todo \subseteq Entry
    BY <2>1 DEF ExportTypes
  <2> QED BY <2>1, <2>2, <2>3 DEF ExportTypes, world
<1>3. ASSUME NEW d \in Doors, Collecting(d)
      PROVE  ExportTypes'
  <2>1. /\ UNCHANGED <<world, zips, reply, nExports, nCrashed, during>>
        /\ \E k \in ExportJob : job' = [job EXCEPT ![d] = k] /\ k.at # "write"
    BY <1>3, CollectingShape, NoJobType
  <2>2. /\ job' \in [Doors -> ExportJob]
        /\ \A e \in Doors : job'[e].at = "write" => job'[e].todo \subseteq Entry
    BY <2>1 DEF ExportTypes
  <2> QED BY <2>1, <2>2 DEF ExportTypes, world
<1>4. ASSUME NEW d \in Doors, CreateZip(d)
      PROVE  ExportTypes'
  <2>1. UNCHANGED <<world, nExports, nCrashed>>
    BY <1>4, CreateShape
  <2>2. job[d].type \in Types /\ zips[job[d].type] \in Zip
    BY DEF ExportTypes, ExportJob
  <2>3. CASE zips[job[d].type].there
    <3>1. /\ job' = [job EXCEPT ![d] = NoJob] /\ zips' = zips
          /\ reply' = IF d = "web" THEN [job |-> job[d], zip |-> zips[job[d].type]] ELSE reply
          /\ \/ during' = [during EXCEPT !.types = @ \cup {job[d].type}]
             \/ during' = during
      BY <1>4, <2>3, CreateShape
    <3>2. reply'.zip.there \in BOOLEAN /\ reply'.zip.whole \in BOOLEAN
      BY <2>2, <3>1 DEF ExportTypes, Zip
    <3>3. during' \in [deleted : SUBSET (SessionRuns \cup Versions), types : SUBSET Types]
      BY <2>2, <3>1 DEF ExportTypes
    <3>4. /\ job' \in [Doors -> ExportJob]
          /\ \A e \in Doors : job'[e].at = "write" => job'[e].todo \subseteq Entry
      BY <3>1, NoJobType DEF ExportTypes
    <3> QED BY <2>1, <3>1, <3>2, <3>3, <3>4 DEF ExportTypes, world
  <2>4. CASE ~zips[job[d].type].there
    <3>1. UNCHANGED <<reply, during>>
      BY <1>4, <2>4, CreateShape
    <3>2. PICK k \in ExportJob, z \in Zip :
             /\ job' = [job EXCEPT ![d] = k] /\ zips' = [zips EXCEPT ![job[d].type] = z]
             /\ k.todo \subseteq Entry
      BY <1>4, <2>4, CreateShape
    <3>3. /\ job' \in [Doors -> ExportJob] /\ zips' \in [Types -> Zip]
          /\ \A e \in Doors : job'[e].at = "write" => job'[e].todo \subseteq Entry
      BY <3>2 DEF ExportTypes
    <3> QED BY <2>1, <3>1, <3>3 DEF ExportTypes, world
  <2> QED BY <2>3, <2>4
<1>5. ASSUME NEW d \in Doors, Write(d)
      PROVE  ExportTypes'
  <2>1. UNCHANGED <<world, reply, nExports, nCrashed, during>>
    BY <1>5, WriteShape
  <2>2. PICK k \in ExportJob, z \in Zip :
           /\ job' = [job EXCEPT ![d] = k] /\ zips' = [zips EXCEPT ![job[d].type] = z]
           /\ k.todo \subseteq Entry
    BY <1>5, WriteShape
  <2>3. /\ job' \in [Doors -> ExportJob] /\ zips' \in [Types -> Zip]
        /\ \A e \in Doors : job'[e].at = "write" => job'[e].todo \subseteq Entry
    BY <2>2 DEF ExportTypes
  <2> QED BY <2>1, <2>3 DEF ExportTypes, world
<1>6. ASSUME NEW d \in Doors, Close(d)
      PROVE  ExportTypes'
  <2>1. UNCHANGED <<world, nExports, nCrashed, during>> /\ job' = [job EXCEPT ![d] = NoJob]
    BY <1>6, CloseShape
  <2>2. PICK z \in Zip :
           /\ zips' = [zips EXCEPT ![job[d].type] = z]
           /\ reply' = IF d = "web" THEN [job |-> job[d], zip |-> z] ELSE reply
    BY <1>6, CloseShape
  <2>3. /\ job' \in [Doors -> ExportJob] /\ zips' \in [Types -> Zip]
        /\ \A e \in Doors : job'[e].at = "write" => job'[e].todo \subseteq Entry
    BY <2>1, <2>2, NoJobType DEF ExportTypes
  <2>4. reply'.zip.there \in BOOLEAN /\ reply'.zip.whole \in BOOLEAN
    BY <2>2 DEF ExportTypes, Zip
  <2> QED BY <2>1, <2>3, <2>4 DEF ExportTypes, world
<1>7. ASSUME NEW d \in Doors, ExportCrash(d)
      PROVE  ExportTypes'
  <2>1. /\ job' = [job EXCEPT ![d] = NoJob] /\ UNCHANGED <<world, zips, reply, nExports, during>>
        /\ nCrashed < MaxCrashes /\ nCrashed' = nCrashed + 1
    BY <1>7 DEF ExportCrash
  <2>2. /\ job' \in [Doors -> ExportJob]
        /\ \A e \in Doors : job'[e].at = "write" => job'[e].todo \subseteq Entry
    BY <2>1, NoJobType DEF ExportTypes
  <2>3. nCrashed' \in 0..MaxCrashes
    BY <2>1 DEF ExportTypes, ExportBoundsAssumption
  <2> QED BY <2>1, <2>2, <2>3 DEF ExportTypes, world
<1> QED BY <1>1, <1>2, <1>3, <1>4, <1>5, <1>6, <1>7, StepCases

-----------------------------------------------------------------------------
\* An export has a number of its own, and no zip has the number of one that has made none.
LEMMA NumbersStep ==
    ASSUME RequestsAssumption, ExportTypes, NumbersInv, WriteInv, ExportNext
    PROVE  NumbersInv'
<1>0. /\ nExports \in Nat /\ DOMAIN job = Doors /\ DOMAIN zips = Types
      /\ \A d \in Doors : job[d].n \in Nat /\ job[d].type \in Types
      /\ \A t \in Types : zips[t].by \in Nat
  BY DEF ExportTypes, ExportJob, Zip
<1>1. CASE World
  BY <1>1, WorldShape DEF NumbersInv
<1>2. CASE Beginning
  <2>1. PICK d \in Doors, k \in ExportJob :
             /\ job[d].at = "idle" /\ job' = [job EXCEPT ![d] = k]
             /\ k.n = nExports + 1 /\ nExports' = nExports + 1 /\ UNCHANGED zips
    BY <1>2, BeginningShape
  <2>2. \A e \in Doors : job'[e] = IF e = d THEN k ELSE job[e]
    BY <1>0, <2>1
  <2>3. \A e \in Doors : job[e].n < k.n
    BY <1>0, <2>1 DEF NumbersInv
  <2>4. \A t \in Types : zips[t].by < k.n
    BY <1>0, <2>1 DEF NumbersInv
  <2> QED BY <1>0, <2>1, <2>2, <2>3, <2>4 DEF NumbersInv
<1>3. ASSUME NEW d \in Doors, NEW k, job' = [job EXCEPT ![d] = k], k = NoJob \/ k.n = job[d].n,
             job[d].at \in {"idle", "write"} => k.at \in {"idle", "write"},
             k # NoJob => job[d].at # "idle",
             nExports' = nExports, UNCHANGED zips
      PROVE  NumbersInv'
  <2>1. \A e \in Doors : job'[e] = IF e = d THEN k ELSE job[e]
    BY <1>0, <1>3
  <2>2. NoJob.at = "idle" /\ NoJob.n = 0
    BY NoJobType
  <2> QED BY <1>0, <1>3, <2>1, <2>2 DEF NumbersInv
<1>4. ASSUME NEW d \in Doors, NEW k, NEW z, job' = [job EXCEPT ![d] = k],
             zips' = [zips EXCEPT ![job[d].type] = z],
             k = NoJob \/ k.n = job[d].n, job[d].at # "idle", k.at \in {"idle", "write"},
             z.by = job[d].n, nExports' = nExports
      PROVE  NumbersInv'
  <2>1. \A e \in Doors : job'[e] = IF e = d THEN k ELSE job[e]
    BY <1>0, <1>4
  <2>2. \A t \in Types : zips'[t] = IF t = job[d].type THEN z ELSE zips[t]
    BY <1>0, <1>4
  <2>3. NoJob.at = "idle" /\ NoJob.n = 0
    BY NoJobType
  <2>4. \A e \in Doors : job'[e].n <= nExports
    BY <1>0, <1>4, <2>1, <2>3 DEF NumbersInv
  <2>5. \A e, f \in Doors : job'[e].at # "idle" /\ job'[f].at # "idle" /\ job'[e].n = job'[f].n
                              => e = f
    BY <1>4, <2>1, <2>3 DEF NumbersInv
  <2>6. \A t \in Types : zips'[t].by <= nExports
    BY <1>4, <2>2 DEF NumbersInv
  <2>7. ASSUME NEW e \in Doors, job'[e].at \notin {"idle", "write"}, NEW t \in Types,
               zips'[t].there
        PROVE  zips'[t].by # job'[e].n
    <3>1. e # d /\ job'[e] = job[e]
      BY <1>4, <2>1, <2>7
    <3>2. job[e].n # job[d].n
      BY <1>4, <2>7, <3>1 DEF NumbersInv
    <3> QED BY <1>4, <2>2, <2>7, <3>1, <3>2 DEF NumbersInv
  <2> QED BY <1>4, <2>4, <2>5, <2>6, <2>7 DEF NumbersInv
<1>5. ASSUME NEW d \in Doors, Collecting(d)
      PROVE  NumbersInv'
  <2>1. nExports' = nExports /\ UNCHANGED zips /\ job[d].at \in {"versions", "runs", "read"}
    BY <1>5, CollectingShape
  <2>2. PICK k : job' = [job EXCEPT ![d] = k] /\ (k = NoJob \/ k.n = job[d].n)
    BY <1>5, CollectingShape
  <2> QED BY <1>3, <2>1, <2>2
<1>6. ASSUME NEW d \in Doors, CreateZip(d)
      PROVE  NumbersInv'
  <2>1. nExports' = nExports /\ job[d].at # "idle"
    BY <1>6, CreateShape DEF Collected
  <2>2. CASE zips[job[d].type].there
    <3>1. job' = [job EXCEPT ![d] = NoJob] /\ UNCHANGED zips
      BY <1>6, <2>2, CreateShape
    <3> QED BY <1>3, <2>1, <3>1, NoJobType
  <2>3. CASE ~zips[job[d].type].there
    <3>1. PICK k, z : /\ job' = [job EXCEPT ![d] = k] /\ zips' = [zips EXCEPT ![job[d].type] = z]
                      /\ k.at = "write" /\ k.n = job[d].n /\ z.by = job[d].n
      BY <1>6, <2>3, CreateShape
    <3> QED BY <1>4, <2>1, <3>1
  <2> QED BY <2>2, <2>3
<1>7. ASSUME NEW d \in Doors, Write(d)
      PROVE  NumbersInv'
  <2>1. nExports' = nExports /\ job[d].at = "write"
    BY <1>7, WriteShape
  <2>2. PICK k, z : /\ job' = [job EXCEPT ![d] = k] /\ zips' = [zips EXCEPT ![job[d].type] = z]
                    /\ k.at = "write" /\ k.n = job[d].n /\ z.by = zips[job[d].type].by
    BY <1>7, WriteShape
  <2>3. zips[job[d].type].by = job[d].n
    BY <2>1 DEF WriteInv, Writes
  <2> QED BY <1>4, <2>1, <2>2, <2>3
<1>8. ASSUME NEW d \in Doors, Close(d)
      PROVE  NumbersInv'
  <2>1. nExports' = nExports /\ job[d].at = "write" /\ job' = [job EXCEPT ![d] = NoJob]
    BY <1>8, CloseShape
  <2>2. PICK z : zips' = [zips EXCEPT ![job[d].type] = z] /\ z.by = zips[job[d].type].by
    BY <1>8, CloseShape
  <2>3. zips[job[d].type].by = job[d].n
    BY <2>1 DEF WriteInv, Writes
  <2> QED BY <1>4, <2>1, <2>2, <2>3, NoJobType
<1>9. ASSUME NEW d \in Doors, ExportCrash(d)
      PROVE  NumbersInv'
  <2>1. job' = [job EXCEPT ![d] = NoJob] /\ UNCHANGED zips /\ nExports' = nExports
    BY <1>9 DEF ExportCrash
  <2> QED BY <1>3, <2>1, NoJobType
<1> QED BY <1>1, <1>2, <1>5, <1>6, <1>7, <1>8, <1>9, StepCases

\* A zip that is being written stays its export's own, and has what has been written.
LEMMA WriteStep ==
    ASSUME RequestsAssumption, ExportTypes, NumbersInv, WriteInv, HadInv, ExportNext
    PROVE  WriteInv'
<1>0. /\ DOMAIN job = Doors /\ DOMAIN zips = Types
      /\ \A d \in Doors : job[d].type \in Types
  BY DEF ExportTypes, ExportJob
<1>1. CASE World
  <2>1. UNCHANGED <<zips, job>> /\ during.deleted \subseteq during'.deleted
    BY <1>1, WorldShape
  <2>2. \A d \in Doors : Writes(d) => Writes(d)'
    BY <2>1 DEF Writes
  <2>3. job["library"].at # "idle" /\ job["library"].type \in gone'
           => job["library"].type \in during'.deleted
    <3>1. "library" \in Doors
      BY DEF Doors
    <3>2. job["library"].at # "idle" => \A x \in gone' \ gone : x \in during'.deleted
      BY <1>1, <3>1, WorldShape DEF Busy
    <3> QED BY <2>1, <3>2 DEF WriteInv
  <2> QED BY <2>1, <2>2, <2>3 DEF WriteInv
<1>2. ASSUME NEW d \in Doors, NEW k, job' = [job EXCEPT ![d] = k], UNCHANGED <<zips, gone>>,
             k.at # "write", during.deleted \subseteq during'.deleted,
             k.at = "collected" => d = "library",
             d = "library" => k.at \in {"idle", "collected"},
             d = "library" /\ k.at # "idle" => k.type \notin gone
      PROVE  WriteInv'
  <2>1. \A e \in Doors : job'[e] = IF e = d THEN k ELSE job[e]
    BY <1>0, <1>2
  <2>2. \A e \in Doors \ {d} : Writes(e) => Writes(e)'
    BY <1>2, <2>1 DEF Writes
  <2>3. "library" \in Doors
    BY DEF Doors
  <2> QED BY <1>2, <2>1, <2>2, <2>3 DEF WriteInv
<1>3. ASSUME NEW d \in Doors, NEW k, NEW z, job' = [job EXCEPT ![d] = k],
             zips' = [zips EXCEPT ![job[d].type] = z], UNCHANGED <<gone, during>>,
             k.at = "idle" \/ (k.at = "write" /\ k.type = job[d].type /\ Writes(d)'),
             \A e \in Doors \ {d} : job[e].at = "write" => job[e].type # job[d].type,
             job[d].at # "idle"
      PROVE  WriteInv'
  <2>1. \A e \in Doors : job'[e] = IF e = d THEN k ELSE job[e]
    BY <1>0, <1>3
  <2>2. \A t \in Types : zips'[t] = IF t = job[d].type THEN z ELSE zips[t]
    BY <1>0, <1>3
  <2>3. \A e \in Doors \ {d} : job[e].at = "write" /\ Writes(e) => Writes(e)'
    BY <1>0, <1>3, <2>1, <2>2, SMTT(30) DEF Writes
  <2>4. "library" \in Doors
    BY DEF Doors
  <2> QED BY <1>3, <2>1, <2>3, <2>4 DEF WriteInv
<1>4. ASSUME NEW d \in Doors, job[d].at = "write", NEW e \in Doors \ {d}, job[e].at = "write"
      PROVE  job[e].type # job[d].type
  BY <1>4 DEF WriteInv, Writes, NumbersInv
<1>5. CASE Beginning
  <2>1. PICK d \in Doors, k \in ExportJob :
             /\ job' = [job EXCEPT ![d] = k]
             /\ UNCHANGED <<world, zips, reply, nCrashed, during>>
             /\ \/ d # "library" /\ k.at = "versions" /\ Collects(k)
                \/ d = "library" /\ k.at = "collected" /\ k.type \notin gone
    BY <1>5, BeginningShape
  <2> QED BY <1>2, <2>1 DEF world
<1>6. ASSUME NEW d \in Doors, Collecting(d)
      PROVE  WriteInv'
  <2>1. UNCHANGED <<zips, gone, during>> /\ d # "library"
    BY <1>6, CollectingShape DEF world, WriteInv
  <2>2. PICK k : /\ job' = [job EXCEPT ![d] = k]
                 /\ k = NoJob \/ k.at \in {"versions", "runs", "read"}
    BY <1>6, CollectingShape
  <2> QED BY <1>2, <2>1, <2>2, NoJobType
<1>7. ASSUME NEW d \in Doors, CreateZip(d)
      PROVE  WriteInv'
  <2>1. Collected(job[d]) /\ gone' = gone
    BY <1>7, CreateShape DEF world
  <2>2. CASE zips[job[d].type].there
    <3>1. /\ job' = [job EXCEPT ![d] = NoJob] /\ UNCHANGED zips
          /\ \/ during' = [during EXCEPT !.types = @ \cup {job[d].type}]
             \/ during' = during
      BY <1>7, <2>2, CreateShape
    <3>2. during.deleted \subseteq during'.deleted
      BY <3>1 DEF ExportTypes
    <3> QED BY <1>2, <2>1, <3>1, <3>2, NoJobType
  <2>3. CASE ~zips[job[d].type].there
    <3>1. UNCHANGED <<reply, during>>
      BY <1>7, <2>3, CreateShape
    <3>2. PICK k \in ExportJob, z \in Zip :
                      /\ job' = [job EXCEPT ![d] = k]
                      /\ zips' = [zips EXCEPT ![job[d].type] = z]
                      /\ k.at = "write" /\ k.n = job[d].n /\ k.type = job[d].type
                      /\ k.had = job[d].had /\ k.todo \subseteq Entry
                      /\ d # "library" => k.todo = job[d].entries
                      /\ z.there /\ ~z.whole /\ z.by = job[d].n /\ z.listed = k.todo
      BY <1>7, <2>3, CreateShape
    <3>3. job'[d] = k /\ zips'[k.type] = z
      BY <1>0, <3>2
    <3>4. d = "web" => \A e \in k.had : e \in k.todo \/ e.of \in during.deleted
      <4>1. d = "web" => job[d].at = "runs" /\ job[d].todo = {}
        BY <2>1 DEF Collected, WriteInv
      <4>2. \A e : job[d].at = "runs" /\ job[d].todo = {} => ~Awaited(job[d], e)
        BY DEF Awaited
      <4>3. job[d].at = "runs" => Collects(job[d])
        BY DEF HadInv
      <4> QED BY <3>2, <4>1, <4>2, <4>3 DEF Collects
    <3>5. Writes(d)'
      BY <3>1, <3>2, <3>3, <3>4 DEF Writes
    <3>6. job[d].at # "idle"
      BY <2>1 DEF Collected
    <3>7. \A e \in Doors \ {d} : job[e].at = "write" => job[e].type # job[d].type
      BY <2>3 DEF WriteInv, Writes
    <3> QED BY <1>3, <2>1, <3>1, <3>2, <3>5, <3>6, <3>7
  <2> QED BY <2>2, <2>3
<1>8. ASSUME NEW d \in Doors, Write(d)
      PROVE  WriteInv'
  <2>1. job[d].at = "write" /\ UNCHANGED <<gone, during>>
    BY <1>8, WriteShape DEF world
  <2>2. PICK k \in ExportJob, z \in Zip :
                /\ job' = [job EXCEPT ![d] = k] /\ zips' = [zips EXCEPT ![job[d].type] = z]
                /\ k.at = "write" /\ k.n = job[d].n /\ k.type = job[d].type
                /\ k.had = job[d].had /\ k.todo \subseteq Entry
                /\ z.there = zips[job[d].type].there /\ z.whole = zips[job[d].type].whole
                /\ z.by = zips[job[d].type].by /\ z.listed = zips[job[d].type].listed
                /\ \/ zips[job[d].type].entries \cup job[d].todo \subseteq z.entries \cup k.todo
                   \/ d = "library" /\ job[d].type \in gone
    BY <1>8, WriteShape
  <2>3. job'[d] = k /\ zips'[k.type] = z
    BY <1>0, <2>2
  <2>4. Writes(d)
    BY <2>1 DEF WriteInv
  <2>5. d = "library" /\ job[d].type \in gone => job[d].type \in during.deleted
    BY <2>1 DEF WriteInv
  <2>6. Writes(d)'
    BY <2>1, <2>2, <2>3, <2>4, <2>5 DEF Writes
  <2> QED BY <1>3, <1>4, <2>1, <2>2, <2>6
<1>9. ASSUME NEW d \in Doors, Close(d)
      PROVE  WriteInv'
  <2>1. job[d].at = "write" /\ UNCHANGED <<gone, during>> /\ job' = [job EXCEPT ![d] = NoJob]
    BY <1>9, CloseShape DEF world
  <2>2. PICK z : zips' = [zips EXCEPT ![job[d].type] = z]
    BY <1>9, CloseShape
  <2> QED BY <1>3, <1>4, <2>1, <2>2, NoJobType
<1>10. ASSUME NEW d \in Doors, ExportCrash(d)
       PROVE  WriteInv'
  <2>1. job' = [job EXCEPT ![d] = NoJob] /\ UNCHANGED <<zips, gone, during>>
    BY <1>10 DEF ExportCrash, world
  <2> QED BY <1>2, <2>1, NoJobType
<1> QED BY <1>1, <1>5, <1>6, <1>7, <1>8, <1>9, <1>10, StepCases

\* A zip that is open stays explained.
LEMMA OpenStep ==
    ASSUME RequestsAssumption, ExportTypes, OpenInv, ExportNext
    PROVE  OpenInv'
<1>0. /\ DOMAIN job = Doors /\ DOMAIN zips = Types /\ nCrashed \in Nat
      /\ \A d \in Doors : job[d].type \in Types
  BY DEF ExportTypes, ExportJob
<1>1. CASE World
  BY <1>1, WorldShape DEF OpenInv
<1>2. ASSUME NEW d \in Doors, NEW k, job' = [job EXCEPT ![d] = k], job[d].at # "write",
             UNCHANGED <<zips, nCrashed>>
      PROVE  OpenInv'
  <2>1. \A e \in Doors : job'[e] = IF e = d THEN k ELSE job[e]
    BY <1>0, <1>2
  <2> QED BY <1>2, <2>1 DEF OpenInv
<1>3. ASSUME NEW d \in Doors, NEW k, NEW z, job' = [job EXCEPT ![d] = k],
             zips' = [zips EXCEPT ![job[d].type] = z],
             z.whole \/ (k.at = "write" /\ k.type = job[d].type), nCrashed' = nCrashed
      PROVE  OpenInv'
  <2>1. \A e \in Doors : job'[e] = IF e = d THEN k ELSE job[e]
    BY <1>0, <1>3
  <2>2. \A t \in Types : zips'[t] = IF t = job[d].type THEN z ELSE zips[t]
    BY <1>0, <1>3
  <2>3. ASSUME NEW t \in Types, zips'[t].there, ~zips'[t].whole, nCrashed' = 0
        PROVE  \E e \in Doors : job'[e].at = "write" /\ job'[e].type = t
    <3>1. CASE t = job[d].type
      BY <1>3, <2>1, <2>2, <2>3, <3>1
    <3>2. CASE t # job[d].type
      <4>1. PICK e \in Doors : job[e].at = "write" /\ job[e].type = t
        BY <1>3, <2>2, <2>3, <3>2 DEF OpenInv
      <4> QED BY <2>1, <3>2, <4>1
    <3> QED BY <3>1, <3>2
  <2> QED BY <1>0, <1>3, <2>3 DEF OpenInv
<1>4. CASE Beginning
  <2>1. PICK d \in Doors, k \in ExportJob :
           job[d].at = "idle" /\ job' = [job EXCEPT ![d] = k] /\ UNCHANGED <<zips, nCrashed>>
    BY <1>4, BeginningShape
  <2> QED BY <1>2, <2>1
<1>5. ASSUME NEW d \in Doors, Collecting(d)
      PROVE  OpenInv'
  <2>1. UNCHANGED <<zips, nCrashed>> /\ job[d].at # "write"
    BY <1>5, CollectingShape
  <2>2. PICK k : job' = [job EXCEPT ![d] = k]
    BY <1>5, CollectingShape
  <2> QED BY <1>2, <2>1, <2>2
<1>6. ASSUME NEW d \in Doors, CreateZip(d)
      PROVE  OpenInv'
  <2>1. nCrashed' = nCrashed /\ job[d].at # "write"
    BY <1>6, CreateShape DEF Collected
  <2>2. CASE zips[job[d].type].there
    <3>1. job' = [job EXCEPT ![d] = NoJob] /\ UNCHANGED zips
      BY <1>6, <2>2, CreateShape
    <3> QED BY <1>2, <2>1, <3>1
  <2>3. CASE ~zips[job[d].type].there
    <3>1. PICK k, z : /\ job' = [job EXCEPT ![d] = k] /\ zips' = [zips EXCEPT ![job[d].type] = z]
                      /\ k.at = "write" /\ k.type = job[d].type
      BY <1>6, <2>3, CreateShape
    <3> QED BY <1>3, <2>1, <3>1
  <2> QED BY <2>2, <2>3
<1>7. ASSUME NEW d \in Doors, Write(d)
      PROVE  OpenInv'
  <2>1. nCrashed' = nCrashed
    BY <1>7, WriteShape
  <2>2. PICK k, z : /\ job' = [job EXCEPT ![d] = k] /\ zips' = [zips EXCEPT ![job[d].type] = z]
                    /\ k.at = "write" /\ k.type = job[d].type
    BY <1>7, WriteShape
  <2> QED BY <1>3, <2>1, <2>2
<1>8. ASSUME NEW d \in Doors, Close(d)
      PROVE  OpenInv'
  <2>1. nCrashed' = nCrashed /\ job' = [job EXCEPT ![d] = NoJob]
    BY <1>8, CloseShape
  <2>2. PICK z : zips' = [zips EXCEPT ![job[d].type] = z] /\ z.whole
    BY <1>8, CloseShape
  <2> QED BY <1>3, <2>1, <2>2
<1>9. ASSUME NEW d \in Doors, ExportCrash(d)
      PROVE  OpenInv'
  <2>1. nCrashed' > 0
    BY <1>0, <1>9 DEF ExportCrash
  <2> QED BY <2>1 DEF OpenInv
<1> QED BY <1>1, <1>4, <1>5, <1>6, <1>7, <1>8, <1>9, StepCases

\* Exports wait for what they have not collected.
LEMMA HadStep ==
    ASSUME RequestsAssumption, ExportTypes, WriteInv, HadInv, ExportNext
    PROVE  HadInv'
<1>0. DOMAIN job = Doors
  BY DEF ExportTypes
<1>1. CASE World
  <2>1. job' = job
    BY <1>1, WorldShape
  <2>2. ASSUME NEW CONSTANT j, Busy, Collects(j)
        PROVE  Collects(j)'
    <3>1. ASSUME NEW e \in j.had, Awaited(j, e), e.of \notin during'.deleted
          PROVE  Awaited(j, e)'
      <4>1. CASE /\ j.at = "versions"
                 /\ \E v \in j.todo \cap made : \/ \E f \in j.tf : e = T(v, f)
                                                \/ v \in named /\ e = N(v)
        <5>1. PICK v \in j.todo \cap made : \/ \E f \in j.tf : e = T(v, f)
                                            \/ v \in named /\ e = N(v)
          BY <4>1
        <5>2. e.of = v
          BY <5>1 DEF T, N
        <5>3. v \in made' /\ (v \in named => v \in named')
          BY <1>1, <2>2, <3>1, <5>2, WorldShape
        <5> QED BY <4>1, <5>1, <5>3 DEF Awaited
      <4>2. CASE /\ WithFormalizations(j.type) /\ j.at \in {"versions", "runs", "read"}
                 /\ \E r \in SessionRuns \ gone : \E f \in j.ff \cap out[r] :
                       /\ e = F(r, f)
                       /\ j.at # "versions" => r \in j.todo
                       /\ j.at = "read" /\ <<r, "pdf">> \in j.look => <<r, f>> \in j.look
        <5>1. PICK r \in SessionRuns \ gone : \E f \in j.ff \cap out[r] :
                       /\ e = F(r, f)
                       /\ j.at # "versions" => r \in j.todo
                       /\ j.at = "read" /\ <<r, "pdf">> \in j.look => <<r, f>> \in j.look
          BY <4>2
        <5>2. e.of = r
          BY <5>1 DEF F
        <5>3. r \notin gone' /\ out[r] \subseteq out'[r]
          BY <1>1, <2>2, <3>1, <5>2, WorldShape
        <5> QED BY <4>2, <5>1, <5>3 DEF Awaited
      <4> QED BY <3>1, <4>1, <4>2 DEF Awaited
    <3> QED BY <1>1, <2>2, <3>1, WorldShape DEF Collects
  <2>3. \A d \in Doors : job[d].at \in {"versions", "runs", "read"} => Busy
    BY DEF Busy
  <2> QED BY <2>1, <2>2, <2>3 DEF HadInv
<1>2. ASSUME UNCHANGED world, during.deleted \subseteq during'.deleted,
             NEW d \in Doors, NEW k, job' = [job EXCEPT ![d] = k],
             k.at \in {"versions", "runs", "read"} => Collects(k)
      PROVE  HadInv'
  <2>1. \A e \in Doors : job'[e] = IF e = d THEN k ELSE job[e]
    BY <1>0, <1>2
  <2>2. \A j : Collects(j) => Collects(j)'
    BY <1>2 DEF Collects, Awaited, world
  <2> QED BY <1>2, <2>1, <2>2 DEF HadInv
<1>3. CASE Beginning
  <2>1. PICK d \in Doors, k \in ExportJob :
             /\ job' = [job EXCEPT ![d] = k] /\ UNCHANGED <<world, during>>
             /\ (k.at = "versions" /\ Collects(k)) \/ k.at = "collected"
    BY <1>3, BeginningShape
  <2> QED BY <1>2, <2>1
<1>4. ASSUME NEW d \in Doors, Collecting(d)
      PROVE  HadInv'
  <2>1. UNCHANGED <<world, during>> /\ Collects(job[d])
    BY <1>4, CollectingShape DEF HadInv
  <2>2. PICK k : /\ job' = [job EXCEPT ![d] = k]
                 /\ k = NoJob \/ (Collects(job[d]) => Collects(k))
    BY <1>4, CollectingShape
  <2> QED BY <1>2, <2>1, <2>2, NoJobType
<1>5. ASSUME NEW d \in Doors, CreateZip(d)
      PROVE  HadInv'
  <2>1. UNCHANGED world
    BY <1>5, CreateShape
  <2>2. during.deleted \subseteq during'.deleted
    <3>1. \/ during' = [during EXCEPT !.types = @ \cup {job[d].type}]
          \/ during' = during
      BY <1>5, CreateShape
    <3> QED BY <3>1 DEF ExportTypes
  <2>3. PICK k : job' = [job EXCEPT ![d] = k] /\ k.at \in {"idle", "write"}
    BY <1>5, CreateShape, NoJobType
  <2> QED BY <1>2, <2>1, <2>2, <2>3
<1>6. ASSUME NEW d \in Doors, Write(d) \/ Close(d) \/ ExportCrash(d)
      PROVE  HadInv'
  <2>1. UNCHANGED <<world, during>>
    BY <1>6, WriteShape, CloseShape DEF ExportCrash
  <2>2. PICK k : job' = [job EXCEPT ![d] = k] /\ k.at \in {"idle", "write"}
    <3>1. CASE Write(d)
      BY <3>1, WriteShape
    <3>2. CASE Close(d) \/ ExportCrash(d)
      BY <3>2, CloseShape, NoJobType DEF ExportCrash
    <3> QED BY <1>6, <3>1, <3>2
  <2> QED BY <1>2, <2>1, <2>2
<1> QED BY <1>1, <1>3, <1>4, <1>5, <1>6, StepCases

-----------------------------------------------------------------------------
\* What the web door has answered stays as good as it was, while what was deleted grows.
LEMMA AnswersKept ==
    ASSUME AnswersWhole, FreshAnswersComplete, UNCHANGED reply, nCrashed \in Nat,
           nCrashed' = nCrashed \/ nCrashed' = nCrashed + 1,
           during.types \subseteq during'.types, during.deleted \subseteq during'.deleted
    PROVE  AnswersWhole' /\ FreshAnswersComplete'
<1>1. AnswersWhole'
  BY DEF AnswersWhole
<1>2. FreshAnswersComplete'
  BY DEF FreshAnswersComplete
<1> QED BY <1>1, <1>2

\* It answers with what can be opened and, if it has just been made, is complete.
LEMMA AnswersStep ==
    ASSUME RequestsAssumption, ExportTypes, NumbersInv, WriteInv, OpenInv,
           AnswersWhole, FreshAnswersComplete, ExportNext
    PROVE  AnswersWhole' /\ FreshAnswersComplete'
<1>0. /\ nCrashed \in Nat
      /\ during \in [deleted : SUBSET (SessionRuns \cup Versions), types : SUBSET Types]
  BY DEF ExportTypes
<1>1. CASE World
  BY <1>0, <1>1, WorldShape, AnswersKept
<1>2. CASE Beginning
  <2>1. UNCHANGED <<reply, nCrashed, during>>
    BY <1>2, BeginningShape
  <2> QED BY <1>0, <2>1, AnswersKept
<1>3. ASSUME NEW d \in Doors, Collecting(d) \/ Write(d)
      PROVE  AnswersWhole' /\ FreshAnswersComplete'
  <2>1. UNCHANGED <<reply, nCrashed, during>>
    BY <1>3, CollectingShape, WriteShape
  <2> QED BY <1>0, <2>1, AnswersKept
<1>4. ASSUME NEW d \in Doors, ExportCrash(d)
      PROVE  AnswersWhole' /\ FreshAnswersComplete'
  <2>1. UNCHANGED <<reply, during>> /\ nCrashed' = nCrashed + 1
    BY <1>4 DEF ExportCrash
  <2> QED BY <1>0, <2>1, AnswersKept
<1>5. ASSUME NEW d \in Doors, CreateZip(d)
      PROVE  AnswersWhole' /\ FreshAnswersComplete'
  <2> DEFINE j == job[d]
  <2>1. UNCHANGED nCrashed /\ Collected(j)
    BY <1>5, CreateShape
  <2>2. j.type \in Types
    BY DEF ExportTypes, ExportJob
  <2>3. CASE zips[j.type].there
    <3>1. /\ reply' = IF d = "web" THEN [job |-> j, zip |-> zips[j.type]] ELSE reply
          /\ during' = IF \E e \in Doors \ {d} : job[e].at = "write" /\ job[e].type = j.type
                       THEN [during EXCEPT !.types = @ \cup {j.type}] ELSE during
      BY <1>5, <2>3, CreateShape
    <3>2. during.types \subseteq during'.types /\ during.deleted \subseteq during'.deleted
      BY <1>0, <3>1
    <3>3. CASE d # "web"
      BY <1>0, <2>1, <3>1, <3>2, <3>3, AnswersKept
    <3>4. CASE d = "web"
      <4>1. reply'.job = j /\ reply'.zip = zips[j.type]
        BY <3>1, <3>4
      <4>2. ~zips[j.type].whole => nCrashed > 0 \/ j.type \in during'.types
        <5>1. j.at # "write"
          BY <2>1 DEF Collected
        <5>2. ASSUME ~zips[j.type].whole, ~(nCrashed > 0)
              PROVE  \E e \in Doors \ {d} : job[e].at = "write" /\ job[e].type = j.type
          BY <2>2, <2>3, <5>1, <5>2 DEF OpenInv
        <5>3. (\E e \in Doors \ {d} : job[e].at = "write" /\ job[e].type = j.type)
                => j.type \in during'.types
          BY <1>0, <3>1
        <5> QED BY <5>2, <5>3
      <4>3. zips[j.type].by # j.n
        BY <2>1, <2>2, <2>3 DEF NumbersInv, Collected
      <4> QED BY <2>1, <4>1, <4>2, <4>3 DEF AnswersWhole, FreshAnswersComplete
    <3> QED BY <3>3, <3>4
  <2>4. CASE ~zips[j.type].there
    <3>1. UNCHANGED <<reply, during>>
      BY <1>5, <2>4, CreateShape
    <3> QED BY <1>0, <2>1, <3>1, AnswersKept
  <2> QED BY <2>3, <2>4
<1>6. ASSUME NEW d \in Doors, Close(d)
      PROVE  AnswersWhole' /\ FreshAnswersComplete'
  <2> DEFINE j == job[d]
             old == zips[j.type]
  <2>1. UNCHANGED <<nCrashed, during>> /\ j.at = "write" /\ j.todo = {}
    BY <1>6, CloseShape
  <2>2. PICK z : /\ reply' = IF d = "web" THEN [job |-> j, zip |-> z] ELSE reply
                 /\ z.whole /\ z.entries = old.entries
    BY <1>6, CloseShape
  <2>3. CASE d # "web"
    BY <1>0, <2>1, <2>2, <2>3, AnswersKept
  <2>4. CASE d = "web"
    <3>1. reply'.job = j /\ reply'.zip = z
      BY <2>2, <2>4
    <3>2. \A e \in j.had : e \in z.entries \/ e.of \in during.deleted
      BY <2>1, <2>2, <2>4 DEF WriteInv, Writes
    <3> QED BY <2>1, <2>2, <3>1, <3>2 DEF AnswersWhole, FreshAnswersComplete
  <2> QED BY <2>3, <2>4
<1> QED BY <1>1, <1>2, <1>3, <1>4, <1>5, <1>6, StepCases

\* A zip that was closed has all that was listed for it, and so has one that is closed.
LEMMA FullStep ==
    ASSUME RequestsAssumption, ExportTypes, WriteInv, BundlesFull, ExportNext
    PROVE  BundlesFull'
<1>0. /\ DOMAIN zips = Types /\ \A d \in Doors : job[d].type \in Types
      /\ during \in [deleted : SUBSET (SessionRuns \cup Versions), types : SUBSET Types]
  BY DEF ExportTypes, ExportJob
<1>1. ASSUME UNCHANGED zips, during.deleted \subseteq during'.deleted
      PROVE  BundlesFull'
  BY <1>1 DEF BundlesFull
<1>2. ASSUME NEW t \in Types, NEW z, zips' = [zips EXCEPT ![t] = z], UNCHANGED during,
             z.whole => z.listed \subseteq z.entries \/ t \in during.deleted
      PROVE  BundlesFull'
  BY <1>0, <1>2 DEF BundlesFull
<1>3. CASE World
  BY <1>1, <1>3, WorldShape
<1>4. CASE Beginning
  BY <1>1, <1>4, BeginningShape
<1>5. ASSUME NEW d \in Doors, Collecting(d) \/ ExportCrash(d)
      PROVE  BundlesFull'
  <2>1. UNCHANGED <<zips, during>>
    BY <1>5, CollectingShape DEF ExportCrash
  <2> QED BY <1>1, <2>1
<1>6. ASSUME NEW d \in Doors, CreateZip(d)
      PROVE  BundlesFull'
  <2>1. CASE zips[job[d].type].there
    <3>1. /\ UNCHANGED zips
          /\ \/ during' = [during EXCEPT !.types = @ \cup {job[d].type}]
             \/ during' = during
      BY <1>6, <2>1, CreateShape
    <3>2. during.deleted \subseteq during'.deleted
      BY <1>0, <3>1
    <3> QED BY <1>1, <3>1, <3>2
  <2>2. CASE ~zips[job[d].type].there
    <3>1. UNCHANGED during
      BY <1>6, <2>2, CreateShape
    <3>2. PICK z : zips' = [zips EXCEPT ![job[d].type] = z] /\ ~z.whole
      BY <1>6, <2>2, CreateShape
    <3> QED BY <1>0, <1>2, <3>1, <3>2
  <2> QED BY <2>1, <2>2
<1>7. ASSUME NEW d \in Doors, Write(d)
      PROVE  BundlesFull'
  <2>1. UNCHANGED during /\ job[d].at = "write"
    BY <1>7, WriteShape
  <2>2. PICK z : zips' = [zips EXCEPT ![job[d].type] = z] /\ z.whole = zips[job[d].type].whole
    BY <1>7, WriteShape
  <2>3. ~zips[job[d].type].whole
    BY <2>1 DEF WriteInv, Writes
  <2> QED BY <1>0, <1>2, <2>1, <2>2, <2>3
<1>8. ASSUME NEW d \in Doors, Close(d)
      PROVE  BundlesFull'
  <2>1. UNCHANGED during /\ job[d].at = "write" /\ job[d].todo = {}
    BY <1>8, CloseShape
  <2>2. PICK z : /\ zips' = [zips EXCEPT ![job[d].type] = z]
                 /\ z.listed = zips[job[d].type].listed /\ z.entries = zips[job[d].type].entries
    BY <1>8, CloseShape
  <2>3. z.listed \subseteq z.entries \/ job[d].type \in during.deleted
    BY <2>1, <2>2 DEF WriteInv, Writes
  <2> QED BY <1>0, <1>2, <2>1, <2>2, <2>3
<1> QED BY <1>3, <1>4, <1>5, <1>6, <1>7, <1>8, StepCases

-----------------------------------------------------------------------------
\* The invariant holds before there is anything to export.
LEMMA ExportsInvInit ==
    ASSUME ExportBoundsAssumption, ExportInit
    PROVE  ExportsInv
<1>1. NoZip \in Zip /\ ~NoZip.there /\ ~NoZip.whole /\ NoZip.by = 0
  BY DEF NoZip, Zip
<1>2. ExportTypes
  <2>1. reply.zip.there \in BOOLEAN /\ reply.zip.whole \in BOOLEAN
    BY DEF ExportInit, NoReply, NoZip
  <2>2. zips \in [Types -> Zip] /\ job \in [Doors -> ExportJob]
    BY <1>1, NoJobType DEF ExportInit
  <2>3. \A d \in Doors : job[d].at # "write"
    BY NoJobType DEF ExportInit
  <2> QED BY <2>1, <2>2, <2>3 DEF ExportInit, ExportTypes, ExportBoundsAssumption
<1>3. \A d \in Doors : job[d] = NoJob
  BY DEF ExportInit
<1>4. \A t \in Types : zips[t] = NoZip
  BY DEF ExportInit
<1>5. NumbersInv
  BY <1>1, <1>3, <1>4, NoJobType DEF ExportInit, NumbersInv
<1>6. WriteInv
  BY <1>3, NoJobType DEF WriteInv, Doors
<1>7. OpenInv /\ HadInv /\ BundlesFull
  BY <1>1, <1>3, <1>4, NoJobType DEF OpenInv, HadInv, BundlesFull
<1>8. AnswersWhole /\ FreshAnswersComplete
  BY <1>1 DEF ExportInit, NoReply, AnswersWhole, FreshAnswersComplete
<1> QED BY <1>2, <1>5, <1>6, <1>7, <1>8 DEF ExportsInv

\* Every step keeps it.
LEMMA ExportsInvStep ==
    ASSUME RequestsAssumption, ExportBoundsAssumption, ExportsInv, [ExportNext]_exportVars
    PROVE  ExportsInv'
<1>1. CASE ExportNext
  <2>1. ExportTypes' /\ NumbersInv' /\ WriteInv' /\ OpenInv' /\ HadInv'
    BY <1>1, TypedStep, NumbersStep, WriteStep, OpenStep, HadStep DEF ExportsInv
  <2>2. AnswersWhole' /\ FreshAnswersComplete' /\ BundlesFull'
    BY <1>1, AnswersStep, FullStep DEF ExportsInv
  <2> QED BY <2>1, <2>2 DEF ExportsInv
<1>2. CASE UNCHANGED exportVars
  <2>1. ExportTypes' /\ NumbersInv'
    BY <1>2 DEF exportVars, ExportsInv, ExportTypes, NumbersInv
  <2>2. WriteInv' /\ OpenInv'
    BY <1>2 DEF exportVars, ExportsInv, WriteInv, Writes, OpenInv
  <2>3. \A j : Collects(j) => Collects(j)'
    BY <1>2 DEF exportVars, Collects, Awaited
  <2>4. HadInv'
    BY <1>2, <2>3 DEF exportVars, ExportsInv, HadInv
  <2>5. AnswersWhole' /\ FreshAnswersComplete' /\ BundlesFull'
    BY <1>2 DEF exportVars, ExportsInv, AnswersWhole, FreshAnswersComplete, BundlesFull
  <2> QED BY <2>1, <2>2, <2>4, <2>5 DEF ExportsInv
<1> QED BY <1>1, <1>2

\* The parts of the invariant hold in every state, however many exports, versions, runs and
\* ends of a process there are.
THEOREM ExportsInvariance ==
    ASSUME RequestsAssumption, ExportBoundsAssumption
    PROVE  ExportSpec => []ExportsInv
<1>1. ExportInit => ExportsInv
  BY ExportsInvInit
<1>2. ExportsInv /\ [ExportNext]_exportVars => ExportsInv'
  BY ExportsInvStep
<1> QED BY <1>1, <1>2, PTL DEF ExportSpec

\* It gives everything its type.
LEMMA ExportsInvTypes ==
    ASSUME ExportsInv
    PROVE  ExportTypeOK
<1>1. \A t \in Types : /\ {zips[t].there, zips[t].whole} \subseteq BOOLEAN
                       /\ zips[t].by \in 0..nExports
  <2>1. \A t \in Types : zips[t] \in Zip /\ zips[t].by <= nExports
    BY DEF ExportsInv, ExportTypes, NumbersInv
  <2> QED BY <2>1 DEF Zip, ExportsInv, ExportTypes
<1>2. \A d \in Doors : job[d].at \in {"idle", "versions", "runs", "read", "collected", "write"}
  BY DEF ExportsInv, ExportTypes, ExportJob, Places
<1> QED BY <1>1, <1>2 DEF ExportsInv, ExportTypes, ExportTypeOK

\* Everything an export, a zip and the session hold has its type.
THEOREM ExportsTyped ==
    ASSUME RequestsAssumption, ExportBoundsAssumption
    PROVE  ExportSpec => []ExportTypeOK
BY ExportsInvariance, ExportsInvTypes, PTL

\* The web door answers with a zip that can be opened, unless an exporting process ended in
\* the middle of one, or another door is still writing one of that type.
THEOREM AnswersCanBeOpened ==
    ASSUME RequestsAssumption, ExportBoundsAssumption
    PROVE  ExportSpec => []AnswersWhole
<1>1. ExportsInv => AnswersWhole
  BY DEF ExportsInv
<1> QED BY <1>1, ExportsInvariance, PTL

\* A zip that was made for a request has everything that was there when the request came, in
\* the formats asked for, but for what was deleted meanwhile.
THEOREM FreshAnswersAlwaysComplete ==
    ASSUME RequestsAssumption, ExportBoundsAssumption
    PROVE  ExportSpec => []FreshAnswersComplete
<1>1. ExportsInv => FreshAnswersComplete
  BY DEF ExportsInv
<1> QED BY <1>1, ExportsInvariance, PTL

\* A zip that was closed has all that was listed for it, unless it is of a run that was
\* deleted while it was written.
THEOREM BundlesAlwaysFull ==
    ASSUME RequestsAssumption, ExportBoundsAssumption
    PROVE  ExportSpec => []BundlesFull
<1>1. ExportsInv => BundlesFull
  BY DEF ExportsInv
<1> QED BY <1>1, ExportsInvariance, PTL
=============================================================================
