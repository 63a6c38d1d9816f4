--------------------------- MODULE SessionPointers ---------------------------
(***************************************************************************)
(* One session under its run threads and the web process: the pointers in  *)
(* session_state.json (session_state.py), the transcript version files and *)
(* the two append-only indexes beside them (transcript_versions.py).       *)
(*                                                                         *)
(* Every change of a pointer loads the whole state file, changes it and    *)
(* writes it back, without a lock: each thread and the web process go      *)
(* through a load step and a save step, and anything may happen between    *)
(* the two.  Web handlers do not overlap each other.  Saving is one step   *)
(* here, but for the handler that writes the title in place.               *)
(***************************************************************************)
EXTENDS Naturals

CONSTANTS
    Runs, NoRun,
    Plans,            \* what the runs may be for: functions from Runs to Plan
    Trvs, NoTrv,      \* transcript version ids
    Overlays, NoOvr,  \* speaker map overlays, and the null pointer
    Unset,            \* no entry in speaker_overlays_by_transcript
    Torn,             \* a state file json.loads does not accept
    MaxRequests,      \* bound: how many requests the web process handles
    MaxCrashes        \* bound: how often the process ends and is started again

\* transcribe: makes a version.  formalize: from the chosen or the active
\* version, else makes one.  reuse: copies the transcripts of another run.
\* map: sets the active overlay.  legacy: ended before there were versions.
Kinds == {"transcribe", "formalize", "reuse", "map", "legacy"}
MaybeTrv == Trvs \cup {NoTrv}
MaybeOvr == Overlays \cup {NoOvr}

\* A run's step, and the version its parameters name.
Plan == [kind : Kinds, choice : MaybeTrv]

\* session_state.json
Doc == [active : MaybeTrv, overlay : MaybeOvr,
        of : [Trvs -> MaybeOvr \cup {Unset}], title : BOOLEAN]

ASSUME PointersAssumption ==
    /\ Plans \subseteq [Runs -> Plan]
    /\ NoRun \notin Runs /\ NoTrv \notin Trvs
    /\ NoOvr \notin Overlays /\ Unset \notin MaybeOvr
    /\ Torn \notin Doc /\ MaxRequests \in Nat /\ MaxCrashes \in Nat

VARIABLES
    plan,                 \* of each run
    state,                \* session_state.json
    files, rows, lookup,  \* version files; ids in index.jsonl and lookup.jsonl
    maker,                \* the run each minted version says it is of
    text,                 \* runs whose directory holds a transcript
    pc, ver, src, mem,    \* threads: position, version at hand, prev_active_trv,
                          \* and the state as it was loaded
    web,                  \* the request being handled
    nRequests, nCrashes,
    want, asked, titled,  \* observers: the last overlay saved for each version on
                          \* request, the active version and the title likewise
    overlap,              \* observer: a save replaced what its load did not see
    deleted, raced, cut   \* observers: deleted versions; runs given a version by
                          \* a listing that began before they ended; versions whose
                          \* lookup line the end of a process cut off

vars == <<plan, state, files, rows, lookup, maker, text, pc, ver, src, mem, web,
          nRequests, nCrashes, want, asked, titled, overlap, deleted, raced, cut>>
disk == <<files, rows, lookup, maker, text>>
threads == <<pc, ver, src, mem>>
wishes == <<want, asked, titled>>
history == <<nCrashes, deleted, raced, cut>>

-----------------------------------------------------------------------------
(* The pointers: what load_session_state repairs, and what each setter does *)
(* to the document it loaded.                                              *)

\* There is no state file.
Blank == [active |-> NoTrv, overlay |-> NoOvr, of |-> [v \in Trvs |-> Unset],
          title |-> FALSE]

Loaded(d) == IF d.active # NoTrv /\ d.of[d.active] = Unset
             THEN [d EXCEPT !.of = [@ EXCEPT ![d.active] = d.overlay]]
             ELSE d

\* mutant: the overlay pointer is not moved with the active version
WithActiveOnly(d, v) == [d EXCEPT !.active = v]

WithActive(d, v) == [d EXCEPT !.active = v,
                              !.overlay = IF d.of[v] = Unset THEN NoOvr ELSE d.of[v]]

\* mutant: only the legacy pointer is set
WithLegacyOverlay(d, o) == [d EXCEPT !.overlay = o]

WithActiveOverlay(d, o) ==
    [d EXCEPT !.overlay = o,
              !.of = IF d.active = NoTrv THEN @ ELSE [@ EXCEPT ![d.active] = o]]

WithOverlayOf(d, v, o) == [d EXCEPT !.of = [@ EXCEPT ![v] = o],
                                    !.overlay = IF d.active = v THEN o ELSE @]

\* What a new version v inherits from version s (from the active one if s is
\* not there).
Inherited(d, s) == LET from == IF s = NoTrv THEN d.active ELSE s
                   IN IF from = NoTrv THEN NoOvr
                      ELSE IF d.of[from] = Unset THEN d.overlay ELSE d.of[from]

SeedsAlways(d, v) == TRUE          \* mutant: a version named meanwhile is seeded too
Seeds(d, v) == d.of[v] = Unset
WithSeed(d, v, s) == [d EXCEPT !.of = [@ EXCEPT ![v] = Inherited(d, s)]]

\* Thread r replaces the state file by d, which it made from what it loaded.
\* A handler that has the file open for writing goes on writing to the old one.
Save(r, d) ==
    /\ state' = d
    /\ overlap' = (overlap \/ state # mem[r])
    /\ mem' = [mem EXCEPT ![r] = Blank]
    /\ web' = IF web.op = "truncated" THEN [web EXCEPT !.op = "orphaned"] ELSE web

-----------------------------------------------------------------------------
(* Transcript versions.                                                    *)

Unminted == {v \in Trvs : maker[v] = NoRun}
Listed == rows \cap files                \* list_transcript_versions
Resolvable == lookup \cap files          \* resolve_transcript_version
Represented == {maker[v] : v \in Listed}

Ended == {"done", "failed", "lost"}
Go(r, label) == pc' = [pc EXCEPT ![r] = label]
Fails(r) == Go(r, "failed") /\ UNCHANGED <<ver, src, mem>>

-----------------------------------------------------------------------------
(* Run threads.                                                            *)

Transcribe(r) ==
    /\ \/ pc[r] = "start" /\ plan[r].kind = "transcribe"
       \/ pc[r] = "transcribe"
    /\ text' = text \cup {r}
    /\ Go(r, "mint")
    /\ UNCHANGED <<state, files, rows, lookup, maker, ver, src, mem, web,
                   nRequests, wishes, overlap, history>>

\* A formalize step: the explicit version, else the active one, else audio.
Pick(r) ==
    /\ pc[r] = "start" /\ plan[r].kind = "formalize"
    /\ IF plan[r].choice = NoTrv /\ state = Torn THEN Fails(r)
       ELSE LET sel == IF plan[r].choice # NoTrv THEN plan[r].choice ELSE state.active
            IN /\ ver' = [ver EXCEPT ![r] = sel]
               /\ Go(r, IF sel = NoTrv THEN "transcribe" ELSE "load_pin")
               /\ UNCHANGED <<src, mem>>
    /\ UNCHANGED <<state, disk, web, nRequests, wishes, overlap, history>>

\* reuse_run_id: the transcripts of the base run are copied; the state is read
\* before that and not used.
Reuse(r) ==
    /\ pc[r] = "start" /\ plan[r].kind = "reuse"
    /\ IF plan[r].choice = NoTrv /\ state = Torn THEN Go(r, "failed") /\ UNCHANGED text
       ELSE Go(r, "work") /\ text' = text \cup {r}
    /\ UNCHANGED <<state, files, rows, lookup, maker, ver, src, mem, web,
                   nRequests, wishes, overlap, history>>

\* Cancelled, or failed, before it copied or transcribed anything, or between
\* that and the version.
Stop(r) ==
    /\ pc[r] \in {"start", "mint"}
    /\ Go(r, "failed")
    /\ UNCHANGED <<state, disk, ver, src, mem, web, nRequests, wishes, overlap, history>>

MapSpeakers(r) ==
    /\ pc[r] = "start" /\ plan[r].kind = "map"
    /\ Go(r, "load_map")
    /\ UNCHANGED <<state, disk, ver, src, mem, web, nRequests, wishes, overlap, history>>

\* mutant: the version is announced and its file never written
MintUnwritten(r) ==
    /\ pc[r] = "mint"
    /\ \E v \in Unminted :
          /\ maker' = [maker EXCEPT ![v] = r]
          /\ ver' = [ver EXCEPT ![r] = v]
    /\ Go(r, "index")
    /\ UNCHANGED <<state, files, rows, lookup, text, src, mem, web, nRequests,
                   wishes, overlap, history>>

\* create_transcript_version: the file, then a line in each index.
Mint(r) ==
    /\ pc[r] = "mint"
    /\ \E v \in Unminted :
          /\ files' = files \cup {v}
          /\ maker' = [maker EXCEPT ![v] = r]
          /\ ver' = [ver EXCEPT ![r] = v]
    /\ Go(r, "index")
    /\ UNCHANGED <<state, rows, lookup, text, src, mem, web, nRequests,
                   wishes, overlap, history>>

AppendIndex(r) ==
    /\ pc[r] = "index"
    /\ rows' = rows \cup {ver[r]}
    /\ Go(r, "lookup")
    /\ UNCHANGED <<state, files, lookup, maker, text, ver, src, mem, web,
                   nRequests, wishes, overlap, history>>

AppendLookup(r) ==
    /\ pc[r] = "lookup"
    /\ lookup' = lookup \cup {ver[r]}
    /\ Go(r, "previous")
    /\ UNCHANGED <<state, files, rows, maker, text, ver, src, mem, web,
                   nRequests, wishes, overlap, history>>

ReadPrevious(r) ==
    /\ pc[r] = "previous"
    /\ IF state = Torn THEN Fails(r)
       ELSE /\ src' = [src EXCEPT ![r] = state.active]
            /\ Go(r, "load_seed")
            /\ UNCHANGED <<ver, mem>>
    /\ UNCHANGED <<state, disk, web, nRequests, wishes, overlap, history>>

\* load_session_state before a setter; an entry for the version is not seeded.
AfterLoad == [load_seed |-> "save_seed", load_active |-> "save_active",
              load_pin |-> "save_pin", load_map |-> "save_map"]

Load(r) ==
    /\ pc[r] \in DOMAIN AfterLoad
    /\ IF state = Torn THEN Fails(r)
       ELSE /\ mem' = [mem EXCEPT ![r] = state]
            /\ Go(r, IF pc[r] = "load_seed" /\ ~Seeds(Loaded(state), ver[r])
                     THEN "load_active" ELSE AfterLoad[pc[r]])
            /\ UNCHANGED <<ver, src>>
    /\ UNCHANGED <<state, disk, web, nRequests, wishes, overlap, history>>

SaveSeed(r) ==
    /\ pc[r] = "save_seed"
    /\ Save(r, WithSeed(Loaded(mem[r]), ver[r], src[r]))
    /\ Go(r, "load_active")
    /\ UNCHANGED <<disk, ver, src, nRequests, wishes, history>>

\* The version just made, or the one a formalize step works from, becomes the
\* active one.
SaveActive(r) ==
    /\ pc[r] \in {"save_active", "save_pin"}
    /\ Save(r, WithActive(Loaded(mem[r]), ver[r]))
    /\ asked' = ver[r]
    /\ Go(r, IF pc[r] = "save_pin" THEN "open" ELSE "work")
    /\ UNCHANGED <<disk, ver, src, nRequests, want, titled, history>>

SaveMap(r) ==
    /\ pc[r] = "save_map"
    /\ \E o \in Overlays :
          /\ Save(r, WithActiveOverlay(Loaded(mem[r]), o))
          /\ want' = IF mem[r].active = NoTrv THEN want
                     ELSE [want EXCEPT ![mem[r].active] = o]
    /\ Go(r, "work")
    /\ UNCHANGED <<disk, ver, src, nRequests, asked, titled, history>>

\* The transcript of the version becomes that of the run.
Open(r) ==
    /\ pc[r] = "open"
    /\ IF ver[r] \in files
       THEN text' = text \cup {r} /\ Go(r, "work")
       ELSE Go(r, "failed") /\ UNCHANGED text
    /\ UNCHANGED <<state, files, rows, lookup, maker, ver, src, mem, web,
                   nRequests, wishes, overlap, history>>

\* The rest of the run.
Work(r) ==
    /\ pc[r] = "work"
    /\ \E end \in {"done", "failed"} : Go(r, end)
    /\ UNCHANGED <<state, disk, ver, src, mem, web, nRequests, wishes, overlap, history>>

-----------------------------------------------------------------------------
(* Web requests.  A handler first resolves its version and loads the state. *)

Idle == [op |-> "idle", v |-> NoTrv, o |-> NoOvr, mem |-> Blank,
         seen |-> {}, have |-> {}, live |-> {}]

Request(op, v, o) ==
    /\ web.op = "idle" /\ nRequests < MaxRequests /\ state # Torn
    /\ nRequests' = nRequests + 1
    /\ web' = [Idle EXCEPT !.op = op, !.v = v, !.o = o, !.mem = state]

\* mutant: any id is taken
AskActiveUnchecked(v) ==
    /\ Request("active", v, NoOvr)
    /\ UNCHANGED <<state, disk, threads, wishes, overlap, history>>

\* PATCH transcripts/active and PUT transcripts/../speaker_map (an empty map
\* is a null pointer).
AskActive(v) ==
    /\ v \in Resolvable
    /\ Request("active", v, NoOvr)
    /\ UNCHANGED <<state, disk, threads, wishes, overlap, history>>

AskMap(v, o) ==
    /\ v \in Resolvable
    /\ Request("map", v, o)
    /\ UNCHANGED <<state, disk, threads, wishes, overlap, history>>

SaveAsked ==
    /\ web.op \in {"active", "map"}
    /\ LET d == Loaded(web.mem)
       IN state' = IF web.op = "active" THEN WithActive(d, web.v)
                   ELSE WithOverlayOf(d, web.v, web.o)
    /\ overlap' = (overlap \/ state # web.mem)
    /\ IF web.op = "active" THEN asked' = web.v /\ UNCHANGED want
       ELSE want' = [want EXCEPT ![web.v] = web.o] /\ UNCHANGED asked
    /\ web' = Idle
    /\ UNCHANGED <<disk, threads, nRequests, titled, history>>

\* PATCH sessions: write_text empties the file and then writes it.
AskTitle ==
    /\ Request("title", NoTrv, NoOvr)
    /\ UNCHANGED <<state, disk, threads, wishes, overlap, history>>

TruncateState ==
    /\ web.op = "title"
    /\ state' = Torn
    /\ overlap' = (overlap \/ state # web.mem)
    /\ web' = [web EXCEPT !.op = "truncated"]
    /\ UNCHANGED <<disk, threads, nRequests, wishes, history>>

WriteTitle ==
    /\ web.op \in {"truncated", "orphaned"}
    /\ state' = IF web.op = "truncated" THEN [Loaded(web.mem) EXCEPT !.title = TRUE]
                ELSE state
    /\ titled' = TRUE
    /\ web' = Idle
    /\ UNCHANGED <<disk, threads, nRequests, want, asked, overlap, history>>

\* The runs list_run_dependencies_for_transcript finds.
Dependents(v) ==
    {r \in Runs : \/ pc[r] = "done" /\ ver[r] = v
                  \/ plan[r].kind = "formalize" /\ plan[r].choice = v}

\* DELETE transcripts, without cascade; the index lines stay.
DeleteVersion(v) ==
    /\ web.op = "idle" /\ nRequests < MaxRequests
    /\ v \in Resolvable /\ Dependents(v) = {}
    /\ nRequests' = nRequests + 1
    /\ files' = files \ {v}
    /\ deleted' = deleted \cup {v}
    /\ UNCHANGED <<state, rows, lookup, maker, text, threads, web, wishes, overlap,
                   nCrashes, raced, cut>>

\* GET transcripts: ensure_legacy_transcript_versions notes the runs that are
\* represented, and then goes through all runs.
AskList ==
    /\ web.op = "idle" /\ nRequests < MaxRequests
    /\ nRequests' = nRequests + 1
    /\ web' = [Idle EXCEPT !.op = "list", !.have = Represented,
                           !.live = {r \in Runs : pc[r] \notin Ended}]
    /\ UNCHANGED <<state, disk, threads, wishes, overlap, history>>

\* mutant: represented runs are not skipped
NeedsVersionAlways(r) == r \in text
NeedsVersion(r) == r \in text /\ r \notin web.have

\* As in Mint, the file, then a line in each index.
Backfill(r) ==
    /\ web.op = "list" /\ r \notin web.seen
    /\ IF NeedsVersion(r)
       THEN \E v \in Unminted :
               /\ files' = files \cup {v}
               /\ maker' = [maker EXCEPT ![v] = r]
               /\ raced' = IF r \in web.live THEN raced \cup {r} ELSE raced
               /\ web' = [web EXCEPT !.seen = @ \cup {r}, !.op = "list_index", !.v = v]
       ELSE web' = [web EXCEPT !.seen = @ \cup {r}] /\ UNCHANGED <<files, maker, raced>>
    /\ UNCHANGED <<state, rows, lookup, text, threads, nRequests, nCrashes, wishes,
                   overlap, deleted, cut>>

BackfillIndex ==
    /\ web.op = "list_index"
    /\ rows' = rows \cup {web.v}
    /\ web' = [web EXCEPT !.op = "list_lookup"]
    /\ UNCHANGED <<state, files, lookup, maker, text, threads, nRequests, wishes,
                   overlap, history>>

BackfillLookup ==
    /\ web.op = "list_lookup"
    /\ lookup' = lookup \cup {web.v}
    /\ web' = [web EXCEPT !.op = "list", !.v = NoTrv]
    /\ UNCHANGED <<state, files, rows, maker, text, threads, nRequests, wishes,
                   overlap, history>>

EndList ==
    /\ web.op = "list" /\ web.seen = Runs
    /\ web' = Idle
    /\ UNCHANGED <<state, disk, threads, nRequests, wishes, overlap, history>>

\* Versions in index.jsonl whose writer, a run or a listing, has the line in
\* lookup.jsonl still to write.
Between == {ver[r] : r \in {x \in Runs : pc[x] = "lookup"}}
               \cup (IF web.op = "list_lookup" THEN {web.v} ELSE {})

\* The process ends: its threads and the request are gone (a run that has not
\* begun may be one of the next process).  A state file that
\* was open for writing stays as it is.
Crash ==
    /\ nCrashes < MaxCrashes
    /\ nCrashes' = nCrashes + 1
    /\ pc' = [r \in Runs |-> IF pc[r] \in Ended \cup {"start"} THEN pc[r] ELSE "lost"]
    /\ mem' = [r \in Runs |-> Blank]
    /\ web' = Idle
    /\ cut' = cut \cup Between
    /\ UNCHANGED <<state, disk, ver, src, nRequests, wishes, overlap,
                   deleted, raced>>

-----------------------------------------------------------------------------
\* The session has no state file, or one of an older release, without the map
\* of overlays; legacy runs have a transcript and no version.
InitDocs == [active : MaybeTrv, overlay : MaybeOvr, of : {[v \in Trvs |-> Unset]},
             title : {FALSE}]

Init ==
    /\ plan \in Plans
    /\ files \in {{}} \cup {{v} : v \in Trvs}
    /\ rows = files /\ lookup = files
    /\ state \in {d \in InitDocs : d.active \in files \cup {NoTrv}}
    /\ text = {r \in Runs : plan[r].kind = "legacy"}
    /\ maker \in {m \in [Trvs -> text \cup {NoRun}] :
                    \A v \in Trvs : m[v] # NoRun <=> v \in files}
    /\ pc = [r \in Runs |-> IF plan[r].kind = "legacy" THEN "done" ELSE "start"]
    /\ ver = [r \in Runs |-> NoTrv] /\ src = [r \in Runs |-> NoTrv]
    /\ mem = [r \in Runs |-> Blank]
    /\ web = Idle
    /\ nRequests = 0 /\ nCrashes = 0
    /\ want = [v \in Trvs |-> Unset] /\ asked = state.active /\ titled = FALSE
    /\ overlap = FALSE /\ deleted = {} /\ raced = {} /\ cut = {}

Thread(r) ==
    \/ Transcribe(r) \/ Pick(r) \/ Reuse(r) \/ MapSpeakers(r) \/ Stop(r)
    \/ Mint(r) \/ AppendIndex(r) \/ AppendLookup(r) \/ ReadPrevious(r) \/ Load(r)
    \/ SaveSeed(r) \/ SaveActive(r) \/ SaveMap(r) \/ Open(r) \/ Work(r)

Web ==
    \/ \E v \in Trvs : AskActive(v) \/ DeleteVersion(v) \/ \E o \in MaybeOvr : AskMap(v, o)
    \/ SaveAsked \/ AskTitle \/ TruncateState \/ WriteTitle
    \/ AskList \/ (\E r \in Runs : Backfill(r)) \/ BackfillIndex \/ BackfillLookup
    \/ EndList

Next == (Web \/ Crash \/ \E r \in Runs : Thread(r)) /\ UNCHANGED plan

Spec == Init /\ [][Next]_vars

-----------------------------------------------------------------------------
Labels == {"start", "transcribe", "mint", "index", "lookup", "previous", "load_seed",
           "save_seed", "load_active", "save_active", "load_pin", "save_pin",
           "load_map", "save_map", "open", "work"} \cup Ended

WebType == [op : {"idle", "active", "map", "title", "truncated", "orphaned",
                  "list", "list_index", "list_lookup"},
            v : MaybeTrv, o : MaybeOvr, mem : Doc, seen : SUBSET Runs,
            have : SUBSET (Runs \cup {NoRun}), live : SUBSET Runs]

\* Every variable has its type.
TypeOK ==
    /\ plan \in Plans
    /\ state \in Doc \cup {Torn}
    /\ files \in SUBSET Trvs /\ rows \in SUBSET Trvs /\ lookup \in SUBSET Trvs
    /\ maker \in [Trvs -> Runs \cup {NoRun}] /\ text \in SUBSET Runs
    /\ pc \in [Runs -> Labels] /\ mem \in [Runs -> Doc]
    /\ ver \in [Runs -> MaybeTrv] /\ src \in [Runs -> MaybeTrv]
    /\ web \in WebType
    /\ nRequests \in 0..MaxRequests /\ nCrashes \in 0..MaxCrashes
    /\ want \in [Trvs -> MaybeOvr \cup {Unset}] /\ asked \in MaybeTrv
    /\ titled \in BOOLEAN /\ overlap \in BOOLEAN
    /\ deleted \in SUBSET Trvs /\ raced \in SUBSET Runs /\ cut \in SUBSET Trvs

\* The overlay pointer is that of the active version.
Agrees(d) == (d.active # NoTrv /\ d.of[d.active] # Unset) => d.overlay = d.of[d.active]

\* The legacy overlay pointer and the map of overlays never disagree about the
\* active version, in the file or in a snapshot about to be changed and saved,
\* whatever threads and handlers did to both (session_state.py: the load's
\* repair and the four setters).
PointersAgree ==
    /\ state # Torn => Agrees(state)
    /\ Agrees(web.mem) /\ \A r \in Runs : Agrees(mem[r])

\* What was asked for last is in d.
Wished(d) ==
    /\ d.active = asked
    /\ \A v \in Trvs : want[v] # Unset => d.of[v] = want[v]
    /\ titled => d.title

\* As long as no save replaced something its load had not seen, what was asked
\* for last holds: the active version, each version's overlay (that of a new
\* version asked for before the run that makes it seeds it too) and the title.
RequestsKept == ~overlap /\ state # Torn => Wished(state)

\* The active version exists, unless it was deleted under the pointer or a plan
\* named one that never was (job_runner.py: the pointer is moved before the
\* version is opened).
ActiveExists ==
    state # Torn /\ state.active # NoTrv =>
        state.active \in files \cup deleted \cup {plan[r].choice : r \in Runs}

\* A version that is listed can be opened by its id, but for one whose writer,
\* a run or a listing, is between the two index lines, or was there when its
\* process ended (transcript_versions.py: create_transcript_version).
ListedResolvable == Listed \ Resolvable \subseteq Between \cup cut

\* Two versions of one run are listed only if a listing was under way before
\* the run ended: listing again and again adds nothing
\* (transcript_versions.py: ensure_legacy_transcript_versions).
TwinsOnlyRaced ==
    \A v, w \in Listed : v # w /\ maker[v] = maker[w] => maker[v] \in raced

\* What is listed are the versions there are, once each, but for those exceptions.
ListingTrue == ListedResolvable /\ TwinsOnlyRaced

=============================================================================
