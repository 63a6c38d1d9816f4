---------------------------- MODULE ExportBundle ----------------------------
(***************************************************************************)
(* Bundles of a session (export/bundle.py, and the handler in app.py): what*)
(* is there is collected file by file while runs go on, then written to a  *)
(* zip whose name says the session and the type of bundle, not the formats *)
(* or the time.  A zip that exists is never replaced: the web door then    *)
(* answers with it, the command line with an error.  The bundle of one run *)
(* is a zip of its own; its files are read while the zip is written.       *)
(***************************************************************************)
EXTENDS Integers, FiniteSets

CONSTANTS
    Versions,       \* transcript versions that the session has or will have
    SessionRuns,    \* runs of the session
    Requests,       \* the bundles asked for: type, formats, and who asks
    MaxExports,     \* bound: exports that are begun
    MaxCrashes      \* bound: ends of an exporting process

SessionTypes == {"full_bundle", "transcript_only", "formalization_only", "dev_bundle"}
TFormats == {"txt", "md", "pdf"}
FFormats == {"md", "pdf"}
Doors == {"web", "cli", "library"}

RequestsAssumption ==
    Requests \subseteq [type : SessionTypes, tf : SUBSET TFormats, ff : SUBSET FFormats]
ExportBoundsAssumption == MaxExports \in Nat /\ MaxCrashes \in Nat

Types == SessionTypes \cup SessionRuns  \* the bundle of a run goes by the run

VARIABLES
    made,           \* the versions there are
    named,          \* the versions that have a speaker map
    out,            \* what a run has rendered: its md, then its pdf
    gone,           \* runs and versions that were deleted
    zips,           \* exports/: for each type, and each run, no zip or what it holds
    job,            \* each door's export: its request, where it is, its entries
    reply,          \* what the web door answered last
    nExports, nCrashed,
    during          \* observer: runs and versions deleted during an export,
                    \* and zips another door answered with while they were written

exportVars == <<made, named, out, gone, zips, job, reply, nExports, nCrashed, during>>

\* The entries of a zip: transcripts, names, formalizations, and what a
\* developer wants beside them.
T(v, f) == [part |-> "transcript", of |-> v, form |-> f]
N(v) == [part |-> "names", of |-> v, form |-> "json"]
F(r, f) == [part |-> "formalization", of |-> r, form |-> f]
Dev(x) == [part |-> "dev", of |-> x, form |-> "json"]
Core(r) == [part |-> "manifest", of |-> r, form |-> "json"]

\* A zip: there, closed, what is in it, what was to be, and which export made it.
NoZip == [there |-> FALSE, whole |-> FALSE, entries |-> {}, listed |-> {}, by |-> 0]
\* An export: its number, where it is, what was asked, what it has collected and has
\* yet to; `look': the files it will look for of the run in hand; `had': what there was
\* for it when it began.
NoJob == [n |-> 0, at |-> "idle", type |-> "full_bundle", tf |-> {}, ff |-> {},
          entries |-> {}, todo |-> {}, look |-> {}, had |-> {}]
NoReply == [job |-> NoJob, zip |-> NoZip]

ExportInit ==
    /\ made = {} /\ named = {}
    /\ out = [r \in SessionRuns |-> {}] /\ gone = {}
    /\ zips = [t \in Types |-> NoZip]
    /\ job = [d \in Doors |-> NoJob]
    /\ reply = NoReply
    /\ nExports = 0 /\ nCrashed = 0
    /\ during = [deleted |-> {}, types |-> {}]

Busy == \E d \in Doors : job[d].at # "idle"
world == <<made, named, out, gone>>

-----------------------------------------------------------------------------
(* What goes on meanwhile: threads make versions and render, and between   *)
(* exports the web process names speakers and deletes runs and versions.   *)

MakeVersion(v) ==
    /\ v \notin made \cup gone /\ made' = made \cup {v}
    /\ UNCHANGED <<named, out, gone, zips, job, reply, nExports, nCrashed, during>>
Rendered(r) == IF "md" \in out[r] THEN "pdf" ELSE "md"
Render(r) ==
    /\ r \notin gone /\ out[r] # FFormats
    /\ out' = [out EXCEPT ![r] = @ \cup {Rendered(r)}]
    /\ UNCHANGED <<made, named, gone, zips, job, reply, nExports, nCrashed, during>>
NameSpeakers(v) ==
    /\ v \in made \ named /\ job["web"].at = "idle"
    /\ named' = named \cup {v}
    /\ UNCHANGED <<made, out, gone, zips, job, reply, nExports, nCrashed, during>>
Delete(x) ==
    /\ x \notin gone /\ job["web"].at = "idle"
    /\ gone' = gone \cup {x} /\ named' = named \ {x} /\ made' = made \ {x}
    /\ out' = [r \in SessionRuns |-> IF r = x THEN {} ELSE out[r]]
    /\ during' = IF Busy THEN [during EXCEPT !.deleted = @ \cup {x}] ELSE during
    /\ UNCHANGED <<zips, job, reply, nExports, nCrashed>>

-----------------------------------------------------------------------------
(* An export.                                                              *)

WithTranscripts(t) == t \in {"full_bundle", "transcript_only", "dev_bundle"}
WithFormalizations(t) == t \in {"full_bundle", "formalization_only", "dev_bundle"}

\* The formats: a developer's bundle has all of them, whatever was asked.
Formats(q) == IF q.type = "dev_bundle" THEN [q EXCEPT !.tf = TFormats, !.ff = FFormats]
              ELSE q

\* What a session bundle of these formats would have of the session as it is.
Wanted(q) ==
    (IF WithTranscripts(q.type) THEN {T(v, f) : v \in made, f \in q.tf}
                                     \cup {N(v) : v \in named} ELSE {})
    \cup (IF WithFormalizations(q.type)
          THEN UNION {{F(r, f) : f \in out[r] \cap q.ff} : r \in SessionRuns} ELSE {})

Began(d, type, q, at, todo, had) ==
    /\ job[d].at = "idle" /\ nExports < MaxExports /\ nExports' = nExports + 1
    /\ job' = [job EXCEPT ![d] =
                 [n |-> nExports + 1, at |-> at, type |-> type, tf |-> q.tf, ff |-> q.ff,
                  entries |-> {}, todo |-> todo, look |-> {}, had |-> had]]
    /\ UNCHANGED <<world, zips, reply, nCrashed, during>>
Begin(d, q) ==
    /\ d \in {"web", "cli"}
    /\ Began(d, q.type, Formats(q), "versions",
             IF WithTranscripts(q.type) THEN made ELSE {}, Wanted(Formats(q)))

\* The versions that were listed are loaded in turn, each with its names and in every
\* format wanted; if one has gone, the export fails.
OfVersionUnnamed(j, v) == {T(v, f) : f \in j.tf}    \* mutant: the names are left out
OfVersion(j, v) == {T(v, f) : f \in j.tf} \cup (IF v \in named THEN {N(v)} ELSE {})
                   \cup (IF j.type = "dev_bundle" THEN {Dev(v)} ELSE {})
TakeVersion(d, v) ==
    /\ job[d].at = "versions" /\ v \in job[d].todo
    /\ job' = [job EXCEPT ![d] = IF v \in made
                 THEN [job[d] EXCEPT !.todo = @ \ {v}, !.entries = @ \cup OfVersion(job[d], v)]
                 ELSE NoJob]
    /\ UNCHANGED <<world, zips, reply, nExports, nCrashed, during>>
TakeRuns(d) ==
    /\ job[d].at = "versions" /\ job[d].todo = {}
    /\ job' = [job EXCEPT ![d].at = "runs", ![d].todo =
                 IF WithFormalizations(job[d].type) THEN SessionRuns \ gone ELSE {}]
    /\ UNCHANGED <<world, zips, reply, nExports, nCrashed, during>>

\* The runs in turn.  The md is looked up before the pdf; then what was found is read,
\* unless it has gone in the meantime.
LookUp(d, r) ==
    /\ job[d].at = "runs" /\ r \in job[d].todo
    /\ job' = [job EXCEPT ![d].at = "read",
                 ![d].look = {<<r, f>> : f \in {"pdf"} \cup (out[r] \cap {"md"})}]
    /\ UNCHANGED <<world, zips, reply, nExports, nCrashed, during>>
Found(j, r) == {f \in out[r] \cap j.ff : <<r, f>> \in j.look}
ReadRun(d, r) ==
    LET j == job[d] IN
    /\ j.at = "read" /\ <<r, "pdf">> \in j.look
    /\ job' = [job EXCEPT ![d].at = "runs", ![d].todo = @ \ {r}, ![d].look = {},
                 ![d].entries = @ \cup {F(r, f) : f \in Found(j, r)}
                     \cup (IF j.type = "dev_bundle" /\ Found(j, r) # {} THEN {Dev(r)} ELSE {})]
    /\ UNCHANGED <<world, zips, reply, nExports, nCrashed, during>>

\* The bundle of a run: which files there are is listed first.
BeginRun(r) ==
    /\ r \notin gone
    /\ Began("library", r, [tf |-> {}, ff |-> FFormats], "collected", {},
             {Core(r)} \cup {F(r, f) : f \in out[r]})

Collected(j) == j.at = "collected" \/ (j.at = "runs" /\ j.todo = {})

\* ZipFile(path, "x"): refused if the name is taken; the web door then looks for a
\* zip of that session and type and answers with it.
Opened(d) ==
    LET todo == IF d = "library" THEN job[d].had ELSE job[d].entries IN
    /\ zips' = [zips EXCEPT ![job[d].type] = [there |-> TRUE, whole |-> FALSE,
                  entries |-> {}, listed |-> todo, by |-> job[d].n]]
    /\ job' = [job EXCEPT ![d].at = "write", ![d].todo = todo]
CreateZipAnswered(d) ==                     \* mutant: answered before it is written
    /\ Collected(job[d]) /\ ~zips[job[d].type].there /\ Opened(d)
    /\ reply' = [job |-> job[d], zip |-> zips'[job[d].type]]
    /\ UNCHANGED <<world, nExports, nCrashed, during>>
CreateZip(d) ==
    LET j == job[d] IN
    /\ Collected(j)
    /\ IF zips[j.type].there
       THEN /\ job' = [job EXCEPT ![d] = NoJob]
            /\ reply' = IF d = "web" THEN [job |-> j, zip |-> zips[j.type]] ELSE reply
            /\ during' = IF \E e \in Doors \ {d} : job[e].at = "write" /\ job[e].type = j.type
                         THEN [during EXCEPT !.types = @ \cup {j.type}] ELSE during
            /\ UNCHANGED zips
       ELSE Opened(d) /\ UNCHANGED <<reply, during>>
    /\ UNCHANGED <<world, nExports, nCrashed>>

\* What a session bundle has collected is written; a run's files are read one by one
\* only now, and one that has gone ends the export, with what is in the zip by then.
WriteLess(d) ==                             \* mutant: the last file is forgotten
    LET j == job[d] IN
    /\ j.at = "write" /\ j.todo # {}
    /\ \E e \in j.todo : zips' = [zips EXCEPT ![j.type].entries = @ \cup (j.todo \ {e})]
    /\ job' = [job EXCEPT ![d].todo = {}]
    /\ UNCHANGED <<world, reply, nExports, nCrashed, during>>
Write(d) ==
    LET j == job[d] IN
    /\ j.at = "write" /\ j.todo # {}
    /\ \E some \in IF d # "library" THEN {j.todo}
                   ELSE IF j.type \in gone THEN {{}} ELSE {{e} : e \in j.todo} :
          /\ zips' = [zips EXCEPT ![j.type].entries = @ \cup some]
          /\ job' = [job EXCEPT ![d].todo = IF some = {} THEN {} ELSE @ \ some]
    /\ UNCHANGED <<world, reply, nExports, nCrashed, during>>
Close(d) ==
    LET j == job[d]
        zip == [zips[j.type] EXCEPT !.whole = TRUE] IN
    /\ j.at = "write" /\ j.todo = {}
    /\ zips' = [zips EXCEPT ![j.type] = zip]
    /\ job' = [job EXCEPT ![d] = NoJob]
    /\ reply' = IF d = "web" THEN [job |-> j, zip |-> zip] ELSE reply
    /\ UNCHANGED <<world, nExports, nCrashed, during>>

\* The exporting process ends: what it has written of a zip stays.
ExportCrash(d) ==
    /\ job[d].at # "idle" /\ nCrashed < MaxCrashes /\ nCrashed' = nCrashed + 1
    /\ job' = [job EXCEPT ![d] = NoJob]
    /\ UNCHANGED <<world, zips, reply, nExports, during>>

Export(d) == \/ \E q \in Requests : Begin(d, q)
             \/ \E v \in Versions : TakeVersion(d, v)
             \/ \E r \in SessionRuns : LookUp(d, r) \/ ReadRun(d, r)
             \/ TakeRuns(d) \/ CreateZip(d) \/ Write(d) \/ Close(d) \/ ExportCrash(d)
ExportNext == \/ \E v \in Versions : MakeVersion(v) \/ NameSpeakers(v)
              \/ \E r \in SessionRuns : Render(r) \/ BeginRun(r)
              \/ \E x \in SessionRuns \cup Versions : Delete(x)
              \/ \E d \in Doors : Export(d)
ExportSpec == ExportInit /\ [][ExportNext]_exportVars

-----------------------------------------------------------------------------
ExportTypeOK ==
    /\ named \subseteq made /\ made \subseteq Versions \ gone
    /\ gone \subseteq SessionRuns \cup Versions
    /\ out \in [SessionRuns -> SUBSET FFormats] /\ \A r \in gone \cap SessionRuns : out[r] = {}
    /\ \A t \in Types : /\ {zips[t].there, zips[t].whole} \subseteq BOOLEAN
                        /\ zips[t].by \in 0..nExports
    /\ \A d \in Doors : job[d].at \in {"idle", "versions", "runs", "read", "collected", "write"}
    /\ nExports \in 0..MaxExports /\ nCrashed \in 0..MaxCrashes

\* The web door answers with a zip that can be opened, unless an exporting process
\* ended while writing one of that type, or another is still writing it.
AnswersWhole ==
    reply.zip.there /\ ~reply.zip.whole
        => nCrashed > 0 \/ reply.job.type \in during.types

\* If the zip was made for this request, it has everything that was there when the
\* request came, in the formats asked for (a developer's in all of them), but for what
\* was deleted meanwhile.
FreshAnswersComplete ==
    reply.zip.there /\ reply.zip.by = reply.job.n =>
        \A e \in reply.job.had : e \in reply.zip.entries \/ e.of \in during.deleted

\* A zip that was closed has all that was listed for it; the bundle of a run that was
\* deleted meanwhile looks like any other and has not.
BundlesFull ==
    \A t \in Types : zips[t].whole =>
        zips[t].listed \subseteq zips[t].entries \/ t \in during.deleted

=============================================================================
