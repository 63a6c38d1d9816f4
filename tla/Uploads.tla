------------------------------- MODULE Uploads -------------------------------
(***************************************************************************)
(* How media become contributions (web/uploads.py, store.add_contribution) *)
(* and runs find them (input_resolver.py).  An upload streams into a       *)
(* temporary file that goes by the name the client gave, and lets other    *)
(* uploads in between its chunks; what is in the file at the end is copied.*)
(* A run's thread looks for its input between any two steps.               *)
(***************************************************************************)
EXTENDS Integers, FiniteSets

CONSTANTS
    Posts,          \* the uploads
    NameOf,         \* the file name each is sent under
    Chunks,         \* how many chunks each has
    Whole,          \* the uploads that come as one body (store_upload_bytes)
    Runs,           \* the runs that look for their input
    Pins,           \* the upload whose contribution a run is given, or Nobody
    Nobody,         \* no upload: a hole in a file, no contribution
    MaxStops        \* bound: ends of the process, and deletions of the session

Names == {NameOf[p] : p \in Posts}

PostsAssumption ==
    /\ Chunks \in [Posts -> Nat \ {0}] /\ Whole \subseteq Posts
    /\ Pins \in [Runs -> Posts \cup {Nobody}] /\ Nobody \notin Posts
StopsAssumption == MaxStops \in Nat

VARIABLES
    tmp,        \* tmp/web_uploads/<name>: who wrote the chunk at each place
    post,       \* an upload: where it is, chunks written, time of its manifest
    con,        \* contributions/<id>, one for each upload that came that far
    session,    \* session.json exists
    input,      \* what a run was given: the upload of the contribution
    clock, stops,
    overlapped, \* observer: uploads that shared their file with another
    answered    \* observer: digest and size in the answer to each upload

uploadVars == <<tmp, post, con, session, input, clock, stops, overlapped, answered>>

Empty == [i \in {} |-> Nobody]
NoContribution == [source |-> Empty, digest |-> Empty, manifest |-> FALSE, at |-> 0]
Streaming(p) == post[p].at = "stream"

UploadInit ==
    /\ tmp = [n \in Names |-> Empty]
    /\ post = [p \in Posts |-> [at |-> "new", sent |-> 0]]
    /\ con = [p \in Posts |-> NoContribution]
    /\ session = TRUE
    /\ input = [r \in Runs |-> Nobody]
    /\ clock = 0 /\ stops = 0
    /\ overlapped = {}
    /\ answered = [p \in Posts |-> [digest |-> Empty, size |-> 0]]

At(p, l) == post' = [post EXCEPT ![p].at = l]

\* The chunk p writes at its own offset; what lies before it and was never written
\* since the file was truncated is a hole.
WithChunk(f, i, p) == [j \in 1..i |-> IF j = i THEN p ELSE IF j \in DOMAIN f THEN f[j] ELSE Nobody]
Longer(f, g) == [j \in DOMAIN f \cup DOMAIN g |-> IF j \in DOMAIN g THEN g[j] ELSE f[j]]

\* tmp_path.open("wb"), which truncates what another upload of the name has written.
OpenAppend(p) ==                            \* mutant: the file is not truncated
    /\ post[p].at = "new" /\ p \notin Whole
    /\ At(p, "stream")
    /\ overlapped' = overlapped \cup
         UNION {{p, q} : q \in {x \in Posts \ {p} : Streaming(x) /\ NameOf[x] = NameOf[p]}}
    /\ UNCHANGED <<tmp, con, session, input, clock, stops, answered>>
Open(p) ==
    /\ post[p].at = "new" /\ p \notin Whole
    /\ At(p, "stream")
    /\ tmp' = [tmp EXCEPT ![NameOf[p]] = Empty]
    /\ overlapped' = overlapped \cup
         UNION {{p, q} : q \in {x \in Posts \ {p} : Streaming(x) /\ NameOf[x] = NameOf[p]}}
    /\ UNCHANGED <<con, session, input, clock, stops, answered>>

Chunk(p) ==
    /\ Streaming(p) /\ post[p].sent < Chunks[p]
    /\ post' = [post EXCEPT ![p].sent = @ + 1]
    /\ tmp' = [tmp EXCEPT ![NameOf[p]] = Longer(@, WithChunk(@, post[p].sent + 1, p))]
    /\ UNCHANGED <<con, session, input, clock, stops, overlapped, answered>>

\* A body that came whole is written at once, with no await before it is copied.
Body(p) ==
    /\ post[p].at = "new" /\ p \in Whole
    /\ post' = [post EXCEPT ![p] = [at |-> "copy", sent |-> Chunks[p]]]
    /\ tmp' = [tmp EXCEPT ![NameOf[p]] = [j \in 1..Chunks[p] |-> p]]
    /\ overlapped' = overlapped \cup {x \in Posts : Streaming(x) /\ NameOf[x] = NameOf[p]}
    /\ UNCHANGED <<con, session, input, clock, stops, answered>>

\* While one handler is in add_contribution no other handler runs.
Copying == \E p \in Posts : post[p].at \in {"copy", "record"}

\* add_contribution, once the last chunk is in: the session must be there; the file
\* is copied to a directory of its own ...
Add(p) ==
    /\ \/ Streaming(p) /\ post[p].sent = Chunks[p]
       \/ post[p].at = "copy"
    /\ IF session
       THEN /\ con' = [con EXCEPT ![p].source = tmp[NameOf[p]]]
            /\ At(p, "record")
       ELSE At(p, "refused") /\ UNCHANGED con
    /\ UNCHANGED <<tmp, session, input, clock, stops, overlapped, answered>>

\* ... its digest taken from the copy, and the manifest written last.
Digest(p) == con[p].source

Record(p) ==
    /\ post[p].at = "record" /\ At(p, "done")
    /\ con' = [con EXCEPT ![p].digest = Digest(p), ![p].manifest = TRUE,
                          ![p].at = clock + 1]
    /\ clock' = clock + 1
    /\ answered' = [answered EXCEPT ![p] = [digest |-> Digest(p), size |-> Chunks[p]]]
    /\ UNCHANGED <<tmp, session, input, stops, overlapped>>

\* Another request: the session is deleted, its contributions with it.
DeleteSession ==
    /\ session /\ stops < MaxStops /\ stops' = stops + 1
    /\ session' = FALSE
    /\ con' = [p \in Posts |-> IF con[p].manifest THEN NoContribution ELSE con[p]]
    /\ UNCHANGED <<tmp, post, input, clock, overlapped, answered>>

Handler == \/ /\ ~Copying
              /\ \/ \E p \in Posts : Open(p) \/ Chunk(p) \/ Body(p) \/ (Add(p) /\ Streaming(p))
                 \/ DeleteSession
           \/ \E p \in Posts : (Add(p) /\ post[p].at = "copy") \/ Record(p)

\* resolve_input_contribution: the pinned one, or the latest of the session; a
\* directory that has no manifest yet is passed over.
CandidatesUnrecorded ==                     \* mutant: any directory with a source
    {p \in Posts : con[p].source # Empty}
Candidates == {p \in Posts : con[p].manifest}
Latest(ps) == {p \in ps : \A q \in ps : con[q].at <= con[p].at}
Resolve(r) ==
    /\ input[r] = Nobody
    /\ \E p \in IF Pins[r] = Nobody THEN Latest(Candidates) ELSE {Pins[r]} \cap Candidates :
          input' = [input EXCEPT ![r] = p]
    /\ UNCHANGED <<tmp, post, con, session, clock, stops, overlapped, answered>>

\* The process ends in the middle of any number of uploads.
Crash ==
    /\ stops < MaxStops /\ stops' = stops + 1
    /\ post' = [p \in Posts |-> IF post[p].at = "new" THEN post[p]
                                ELSE [post[p] EXCEPT !.at = "done"]]
    /\ UNCHANGED <<tmp, con, session, input, clock, overlapped, answered>>

UploadNext == Handler \/ (\E r \in Runs : Resolve(r)) \/ Crash
UploadSpec == UploadInit /\ [][UploadNext]_uploadVars

-----------------------------------------------------------------------------
UploadTypeOK ==
    /\ \A n \in Names : \E p \in Posts : NameOf[p] = n /\ DOMAIN tmp[n] \subseteq 1..Chunks[p]
    /\ \A p \in Posts : /\ post[p].at \in {"new", "stream", "copy", "record", "done", "refused"}
                        /\ post[p].sent \in 0..Chunks[p]
                        /\ con[p].at \in 0..clock
    /\ session \in BOOLEAN /\ input \in [Runs -> Posts \cup {Nobody}]
    /\ overlapped \subseteq Posts

\* What is kept as a contribution is the upload it is named for, complete, unless
\* another upload of the same name was under way at the time; even then the manifest
\* and the answer carry the digest of what is kept.
ContributionsTrue ==
    \A p \in Posts : con[p].manifest =>
        /\ con[p].source = [j \in 1..Chunks[p] |-> p] \/ p \in overlapped
        /\ con[p].digest = con[p].source /\ answered[p].digest = con[p].source

\* What a run was given stays, until its session is deleted, what was asked for and
\* complete: no upload that was still being copied when the run looked, none that was
\* never recorded because the process ended, and nothing is copied over it later.
InputsRecorded ==
    \A r \in Runs : session /\ input[r] # Nobody =>
        LET c == con[input[r]] IN
        /\ Pins[r] \in {Nobody, input[r]}
        /\ c.manifest /\ c.digest = c.source
        /\ c.source = [j \in 1..Chunks[input[r]] |-> input[r]] \/ input[r] \in overlapped
=============================================================================
