------------------------------- MODULE Library -------------------------------
(***************************************************************************)
(* What Stuart keeps of sessions and runs, in directories and in the index,*)
(* while threads run and the web process deletes runs, sessions and        *)
(* versions (delete_ops.py, app.py) and names speakers.  Nothing is locked:*)
(* every removal of a tree, every transaction and every load or save of a  *)
(* document is a step of its own, and a removal or a transaction may raise.*)
(*                                                                         *)
(* A run makes at most one transcript version, which goes by its name here.*)
(***************************************************************************)
EXTENDS SearchIndex

CONSTANTS
    Old,            \* the runs that have succeeded before, each with a version
    Plans,          \* for each run, the version it formalizes, or itself if it
                    \* transcribes; and the runs whose plan names that version
    MaxOps,         \* bound: requests that delete, name or activate
    MaxFaults,      \* bound: removals and transactions that raise
    MaxCrashes      \* bound: ends of the process

ASSUME OldAssumption == Old \subseteq Runs
ASSUME PlansAssumption ==
    Plans \subseteq [uses : [Runs -> Runs], visible : SUBSET Runs]
ASSUME UsesInSession ==
    \A p \in Plans, r \in Runs : SessionOf[p.uses[r]] = SessionOf[r]
\* What a run that has succeeded has used is there.
ASSUME OldUses == \A p \in Plans, r \in Old : p.uses[r] \in Old
ASSUME BoundsAssumption == MaxOps \in Nat /\ MaxFaults \in Nat /\ MaxCrashes \in Nat

VARIABLES
    plan,       \* what the runs of this session are created for
    disk,       \* runs/<id>: run.json, its transcript, and what run.json says
    ses,        \* sessions/<id>: session.json, session_state.json, the versions
    kept,       \* the sessions with contributions, and with an overlay directory
    index,      \* the SQLite file
    pc, held,   \* the threads: where each is, and the document it has loaded
    op,         \* the request the web process is handling
    nOps, nFaults, nCrashes,
    confirmed,  \* observer: runs and sessions whose deletion was confirmed
    excused     \* observer: runs whose thread raced with a request, by kind

vars == <<plan, disk, ses, kept, index, pc, held, op, nOps, nFaults, nCrashes,
          confirmed, excused>>
store == <<disk, ses, kept, index>>
counts == <<nOps, nFaults, nCrashes>>
watch == <<confirmed, excused>>

Makes(r) == plan.uses[r] = r
Labels == {"absent", "start", "save_start", "transcribe", "emit", "mint", "record",
           "save_record", "read", "commit", "receipt", "finish", "save_finish", "done"}
Live(r) == pc[r] \notin {"absent", "done"}

Doc == [status : RunStatuses, consumed : SUBSET Runs, produced : SUBSET Runs]
Fresh == [status |-> "queued", consumed |-> {}, produced |-> {}]
Succeeded(r) == [status |-> "succeeded", consumed |-> {plan.uses[r]},
                 produced |-> IF Makes(r) THEN {r} ELSE {}]

\* A request: the session and the versions it is about, the runs it has yet to
\* delete, is deleting and has deleted.
NoOp == [kind |-> "none", at |-> "idle", session |-> {}, version |-> {},
         todo |-> {}, now |-> {}, gone |-> {}]

Here(r) == disk[r].manifest \/ disk[r].transcript      \* the run directory exists
SessionHere(s) == ses[s].manifest \/ ses[s].state \/ ses[s].versions # {}
Version(v) == v \in ses[SessionOf[v]].versions

Init ==
    /\ plan \in Plans
    /\ disk = [r \in Runs |-> [manifest |-> r \in Old, transcript |-> r \in Old,
                               doc |-> IF r \in Old THEN Succeeded(r) ELSE Fresh]]
    /\ ses = [s \in Sessions |->
                [manifest |-> TRUE, state |-> FALSE, versions |-> RunsOf(s) \cap Old,
                 mapped |-> {}, active |-> RunsOf(s) \cap Newest(RunsOf(s) \cap Old)]]
    /\ kept = [contributions |-> Sessions, overlays |-> {}]
    /\ index = [sessions |-> {SessionOf[r] : r \in Old},
                status |-> [r \in Runs |-> IF r \in Old THEN "running" ELSE NoRow],
                segs |-> [r \in Runs |-> IF r \in Old THEN "json" ELSE NoRow],
                fts |-> Old, maps |-> {}]
    /\ pc = [r \in Runs |-> IF r \in Old THEN "done" ELSE "absent"]
    /\ held = [r \in Runs |-> Fresh]
    /\ op = NoOp
    /\ nOps = 0 /\ nFaults = 0 /\ nCrashes = 0
    /\ confirmed = [runs |-> {}, sessions |-> {}]
    /\ excused = [raced |-> {}, faulty |-> {}, renamed |-> {}, moved |-> {},
                  late |-> {}]

-----------------------------------------------------------------------------
(* The thread of a run, as far as other runs and the index see it.         *)

Goto(r, l) == pc' = [pc EXCEPT ![r] = l]
ThreadOnly == UNCHANGED <<kept, op, counts, watch>>

\* The exit for an exception: what is recorded then is that the run failed.
Fail(r) == /\ Goto(r, "finish")
           /\ held' = [held EXCEPT ![r] = [Fresh EXCEPT !.status = "failed"]]
           /\ UNCHANGED <<disk, ses, index>> /\ ThreadOnly

\* update_run_state loads run.json, if the session is there too ...
Loadable(r) == disk[r].manifest /\ ses[SessionOf[r]].manifest
LoadAt(r, l, save, doc) ==
    /\ pc[r] = l
    /\ IF Loadable(r)
       THEN /\ Goto(r, save)
            /\ held' = [held EXCEPT ![r] = doc]
            /\ UNCHANGED <<disk, ses, index>> /\ ThreadOnly
       ELSE Fail(r)

\* ... and replaces it, making the directories the file is to be in.
SaveAt(r, l, next) ==
    /\ pc[r] = l /\ Goto(r, next)
    /\ disk' = [disk EXCEPT ![r].manifest = TRUE, ![r].doc = held[r]]
    /\ UNCHANGED <<ses, index, held>> /\ ThreadOnly

Running(d) == [d EXCEPT !.status = "running"]

\* Transcribe, or copy the version the run works from; either makes the directory.
Transcribe(r) ==
    /\ pc[r] = "transcribe"
    /\ IF Makes(r) \/ Version(plan.uses[r])
       THEN /\ disk' = [disk EXCEPT ![r].transcript = TRUE]
            /\ Goto(r, IF Makes(r) THEN "emit" ELSE "read")
            /\ UNCHANGED <<ses, index, held>> /\ ThreadOnly
       ELSE Fail(r)

\* create_transcript_version tests for the session, then writes the version, which
\* makes its directories; its overlay is inherited, and it becomes the active one.
Emit(r) ==
    /\ pc[r] = "emit"
    /\ IF ses[SessionOf[r]].manifest /\ disk[r].transcript
       THEN /\ Goto(r, "mint")
            /\ UNCHANGED <<disk, ses, index, held>> /\ ThreadOnly
       ELSE Fail(r)

\* A run that has not been indexed yet takes the active version's names.
Overtaken(s) == {r \in RunsOf(s) : pc[r] \in {"record", "save_record", "read", "commit"}}

Mint(r) ==
    LET s == SessionOf[r] IN
    /\ pc[r] = "mint" /\ Goto(r, "record")
    /\ ses' = [ses EXCEPT ![s].state = TRUE, ![s].versions = @ \cup {r},
                          ![s].active = {r},
                          ![s].mapped = IF ses[s].active \subseteq @ /\ ses[s].active # {}
                                        THEN @ \cup {r} ELSE @]
    /\ excused' = [excused EXCEPT !.moved = @ \cup (Overtaken(s) \ {r})]
    /\ UNCHANGED <<disk, kept, index, held, op, counts, confirmed>>

\* ingest_run reads the manifests and the transcript; what it raises is swallowed.
Read(r) ==
    /\ pc[r] = "read"
    /\ Goto(r, IF /\ disk[r].manifest /\ disk[r].transcript
                  /\ ses[SessionOf[r]].manifest
               THEN "commit" ELSE "receipt")
    /\ UNCHANGED <<disk, ses, index, held>> /\ ThreadOnly

\* Its transaction; the names are those of the session's active overlay.
NamesFound(s) == /\ ses[s].active # {} /\ ses[s].active \subseteq ses[s].mapped
                 /\ s \in kept.overlays
Commit(r) ==
    /\ pc[r] = "commit" /\ Goto(r, "receipt")
    /\ index' = Ingested(index, r, disk[r].doc.status,
                         TranscriptSource({"json"}, {"json"}), NamesFound(SessionOf[r]))
    /\ UNCHANGED <<disk, ses, held>> /\ ThreadOnly

\* fts_ingest.json goes into a directory that must be there.
Receipt(r) ==
    /\ pc[r] = "receipt"
    /\ IF disk[r].transcript
       THEN /\ Goto(r, "finish")
            /\ held' = [held EXCEPT ![r] = Succeeded(r)]
            /\ UNCHANGED <<disk, ses, index>> /\ ThreadOnly
       ELSE Fail(r)

\* Formalizing and rendering may fail; then the outcome is recorded, if run.json can
\* still be loaded, and the thread ends.
Render(r) == pc[r] = "finish" /\ held[r].status = "succeeded" /\ Fail(r)
Finish(r) ==
    /\ pc[r] = "finish"
    /\ Goto(r, IF Loadable(r) THEN "save_finish" ELSE "done")
    /\ UNCHANGED <<disk, ses, index, held>> /\ ThreadOnly

Thread(r) ==
    \/ LoadAt(r, "start", "save_start", Running(disk[r].doc))
    \/ SaveAt(r, "save_start", "transcribe")
    \/ Transcribe(r) \/ Emit(r) \/ Mint(r)
    \/ LoadAt(r, "record", "save_record", disk[r].doc)
    \/ SaveAt(r, "save_record", "read")
    \/ Read(r) \/ Commit(r) \/ Receipt(r) \/ Render(r) \/ Finish(r)
    \/ SaveAt(r, "save_finish", "done")

-----------------------------------------------------------------------------
(* The web process: one request at a time, its steps between the threads'. *)

Begin(request) == /\ op = NoOp /\ nOps < MaxOps /\ nOps' = nOps + 1
                  /\ op' = request
Answer == op' = NoOp
Handling(kind, at) == op.kind = kind /\ op.at = at
Faulty == nFaults < MaxFaults /\ nFaults' = nFaults + 1

\* A removal that raises half way, or a transaction that finds the file locked: the
\* request is answered with an error, and what it left of the runs rs stays so.
Abort(rs) == /\ Faulty /\ Answer
             /\ excused' = [excused EXCEPT !.faulty = @ \cup op.gone \cup rs]
             /\ UNCHANGED <<pc, held, nOps, nCrashes, confirmed>>

Removed(r) == /\ disk' = [disk EXCEPT ![r].manifest = FALSE, ![r].transcript = FALSE]
              /\ excused' = [excused EXCEPT !.raced = IF Live(r) THEN @ \cup {r} ELSE @]
              /\ UNCHANGED <<pc, held, nOps, nFaults, nCrashes, confirmed>>
HalfRemoved(r) == \E m, t \in BOOLEAN :
    /\ disk' = [disk EXCEPT ![r].manifest = @ /\ m, ![r].transcript = @ /\ t]
    /\ Abort({r})
    /\ UNCHANGED <<ses, kept, index>>

\* create_run, and the thread that is started for it.
CreateRun(r) ==
    /\ pc[r] = "absent" /\ ses[SessionOf[r]].manifest
    /\ op = NoOp
    /\ disk' = [disk EXCEPT ![r].manifest = TRUE]
    /\ Goto(r, "start")
    /\ UNCHANGED <<ses, kept, index, held, op, counts, watch>>

\* delete_run: the directory first, then the rows.
AskDeleteRun(r) ==
    /\ Here(r)
    /\ Begin([NoOp EXCEPT !.kind = "run", !.at = "remove", !.now = {r}])
    /\ UNCHANGED <<store, pc, held, nFaults, nCrashes, watch>>
RemoveRun(r) ==
    /\ op.at = "remove" /\ op.now = {r}
    /\ \/ Removed(r) /\ op' = [op EXCEPT !.at = "rows"] /\ UNCHANGED <<ses, kept, index>>
       \/ HalfRemoved(r)
RunRowsKept(r) ==                           \* mutant: the rows are not deleted
    /\ op.kind \in {"run", "version"} /\ op.at = "rows" /\ op.now = {r}
    /\ op' = IF op.kind = "run" THEN NoOp
             ELSE [op EXCEPT !.at = "next", !.now = {}, !.gone = @ \cup {r}]
    /\ UNCHANGED <<store, pc, held, counts, watch>>
RunRows(r) ==
    /\ op.kind \in {"run", "version"} /\ op.at = "rows" /\ op.now = {r}
    /\ \/ /\ index' = WithoutRuns(index, {r})
          /\ op' = IF op.kind = "run" THEN NoOp
                   ELSE [op EXCEPT !.at = "next", !.now = {}, !.gone = @ \cup {r}]
          /\ confirmed' = IF op.kind = "run"
                          THEN [confirmed EXCEPT !.runs = @ \cup {r}] ELSE confirmed
          /\ UNCHANGED <<disk, ses, kept, pc, held, counts, excused>>
       \/ Abort({r}) /\ UNCHANGED store

\* Deleting a version with cascade: each run that consumed or made it, as far as the
\* outputs, or before there are any the plan, say so; then the file.
DependentsByOutputs(v) ==                   \* mutant: plans are not looked at
    {r \in RunsOf(SessionOf[v]) : disk[r].manifest
        /\ v \in disk[r].doc.consumed \cup disk[r].doc.produced}
Dependents(v) ==
    {r \in RunsOf(SessionOf[v]) :
        /\ disk[r].manifest
        /\ \/ v \in disk[r].doc.consumed \cup disk[r].doc.produced
           \/ disk[r].doc.consumed = {} /\ r \in plan.visible /\ plan.uses[r] = v}

AskDeleteVersion(v) ==
    /\ Version(v)
    /\ Begin([NoOp EXCEPT !.kind = "version", !.at = "next", !.version = {v},
                          !.todo = Dependents(v)])
    /\ excused' = [excused EXCEPT !.late =
                     @ \cup {r \in RunsOf(SessionOf[v]) : Live(r) /\ r \notin plan.visible}]
    /\ UNCHANGED <<store, pc, held, nFaults, nCrashes, confirmed>>
NextDependent(r) ==
    /\ Handling("version", "next") /\ r \in op.todo
    /\ op' = IF Here(r) THEN [op EXCEPT !.at = "remove", !.now = {r}, !.todo = @ \ {r}]
             ELSE [op EXCEPT !.todo = @ \ {r}]
    /\ UNCHANGED <<store, pc, held, counts, watch>>
Unlink(v) ==
    LET s == SessionOf[v] IN
    /\ Handling("version", "next") /\ op.todo = {} /\ op.version = {v}
    /\ IF ses[s].manifest /\ Version(v)
       THEN /\ ses' = [ses EXCEPT ![s].versions = @ \ {v}]
            /\ op' = [op EXCEPT !.at = "versionrows"]
       ELSE Answer /\ UNCHANGED ses
    /\ UNCHANGED <<disk, kept, index, pc, held, counts, watch>>
VersionRows ==
    /\ Handling("version", "versionrows")
    /\ \/ /\ index' = WithoutRuns(index, op.gone) /\ Answer
          /\ UNCHANGED <<disk, ses, kept, pc, held, counts, watch>>
       \/ Abort({}) /\ UNCHANGED store

\* delete_session: its runs, as far as a manifest still says they are its; the
\* session directory; contributions; overlays; and last the rows.
AskDeleteSession(s) ==
    /\ SessionHere(s)
    /\ Begin([NoOp EXCEPT !.kind = "session", !.at = "runs", !.session = {s},
                          !.todo = {r \in RunsOf(s) : Here(r)}])
    /\ UNCHANGED <<store, pc, held, nFaults, nCrashes, watch>>
SessionRun(r) ==
    /\ Handling("session", "runs") /\ r \in op.todo
    /\ IF disk[r].manifest
       THEN \/ /\ Removed(r) /\ UNCHANGED <<ses, kept, index>>
               /\ op' = [op EXCEPT !.todo = @ \ {r}, !.gone = @ \cup {r}]
            \/ HalfRemoved(r)
       ELSE /\ op' = [op EXCEPT !.todo = @ \ {r}]
            /\ UNCHANGED <<store, pc, held, counts, watch>>

NothingOf(s) == [ses[s] EXCEPT !.manifest = FALSE, !.state = FALSE, !.versions = {},
                               !.mapped = {}, !.active = {}]
SessionDir(s) ==
    /\ Handling("session", "runs") /\ op.todo = {} /\ op.session = {s}
    /\ \/ /\ ses' = [ses EXCEPT ![s] = NothingOf(s)]
          /\ op' = [op EXCEPT !.at = "contributions"]
          /\ excused' = [excused EXCEPT !.raced = @ \cup {r \in RunsOf(s) : Live(r)}]
          /\ UNCHANGED <<pc, held, counts, confirmed>>
       \/ \E m \in BOOLEAN : /\ ses' = [ses EXCEPT ![s].manifest = @ /\ m]
                             /\ Abort(RunsOf(s))
    /\ UNCHANGED <<disk, kept, index>>
SessionTree(s, what, next) ==
    /\ Handling("session", what) /\ op.session = {s}
    /\ \/ /\ kept' = [kept EXCEPT ![what] = @ \ {s}]
          /\ op' = [op EXCEPT !.at = next]
          /\ UNCHANGED <<pc, held, counts, watch>>
       \/ Abort(RunsOf(s)) /\ UNCHANGED kept
    /\ UNCHANGED <<disk, ses, index>>
SessionRows(s) ==
    /\ Handling("session", "rows") /\ op.session = {s}
    /\ \/ /\ index' = WithoutSession(WithoutRuns(index, op.gone), s) /\ Answer
          /\ confirmed' = [confirmed EXCEPT !.sessions = @ \cup {s}]
          /\ UNCHANGED <<disk, ses, kept, pc, held, counts, excused>>
       \/ Abort(RunsOf(s)) /\ UNCHANGED store

\* A speaker map for a version: an overlay and the pointer to it, or the pointer
\* removed if there is no name; then its rows.
NameSpeakers(v, named) ==
    LET s == SessionOf[v] IN
    /\ Version(v)
    /\ Begin([NoOp EXCEPT !.kind = "map", !.at = "refresh", !.version = {v}])
    /\ kept' = IF named THEN [kept EXCEPT !.overlays = @ \cup {s}] ELSE kept
    /\ ses' = [ses EXCEPT ![s].state = TRUE,
                   ![s].mapped = IF named THEN @ \cup {v} ELSE @ \ {v}]
    /\ UNCHANGED <<disk, index, pc, held, nFaults, nCrashes, watch>>
RefreshNames(v) ==
    /\ Handling("map", "refresh") /\ op.version = {v}
    /\ \/ /\ index' = Refreshed(index, v, v \in ses[SessionOf[v]].mapped) /\ Answer
          /\ excused' = IF disk[v].manifest THEN excused
                        ELSE [excused EXCEPT !.renamed = @ \cup {v}]
          /\ UNCHANGED <<disk, ses, kept, pc, held, counts, confirmed>>
       \/ Abort({v}) /\ UNCHANGED store

Activate(v) ==
    LET s == SessionOf[v] IN
    /\ Version(v) /\ op = NoOp /\ nOps < MaxOps /\ nOps' = nOps + 1
    /\ ses' = [ses EXCEPT ![s].state = TRUE, ![s].active = {v}]
    /\ excused' = [excused EXCEPT !.moved = @ \cup (Overtaken(s) \ {v})]
    /\ UNCHANGED <<disk, kept, index, pc, held, op, nFaults, nCrashes, confirmed>>

\* The process ends: its threads with it, and the request it was handling.
Crash ==
    /\ nCrashes < MaxCrashes /\ nCrashes' = nCrashes + 1
    /\ pc' = [r \in Runs |-> IF Live(r) THEN "done" ELSE pc[r]]
    /\ excused' = [excused EXCEPT !.faulty =
                     @ \cup op.now \cup op.gone \cup op.version
                       \cup UNION {RunsOf(s) : s \in op.session}]
    /\ Answer /\ UNCHANGED <<store, held, nOps, nFaults, confirmed>>

Web == \/ \E r \in Runs : \/ CreateRun(r) \/ AskDeleteRun(r) \/ RemoveRun(r) \/ RunRows(r)
                          \/ NextDependent(r) \/ SessionRun(r)
       \/ \E v \in Runs : \/ AskDeleteVersion(v) \/ Unlink(v) \/ RefreshNames(v)
                          \/ Activate(v) \/ \E named \in BOOLEAN : NameSpeakers(v, named)
       \/ \E s \in Sessions : \/ AskDeleteSession(s) \/ SessionDir(s) \/ SessionRows(s)
                              \/ SessionTree(s, "contributions", "overlays")
                              \/ SessionTree(s, "overlays", "rows")
       \/ VersionRows

Next == /\ (\E r \in Runs : Thread(r)) \/ Web \/ Crash
        /\ UNCHANGED plan
Spec == Init /\ [][Next]_vars

-----------------------------------------------------------------------------
TypeOK ==
    /\ disk \in [Runs -> [manifest : BOOLEAN, transcript : BOOLEAN, doc : Doc]]
    /\ ses \in [Sessions -> [manifest : BOOLEAN, state : BOOLEAN, versions : SUBSET Runs,
                             mapped : SUBSET Runs, active : SUBSET Runs]]
    /\ kept \in [contributions : SUBSET Sessions, overlays : SUBSET Sessions]
    /\ index \in Index
    /\ pc \in [Runs -> Labels] /\ held \in [Runs -> Doc]
    /\ op.todo \cup op.now \cup op.gone \cup op.version \subseteq Runs
    /\ nOps \in 0..MaxOps /\ nFaults \in 0..MaxFaults /\ nCrashes \in 0..MaxCrashes

\* Whatever is ingested, refreshed and deleted in whatever order, no row refers to a
\* row that is not there, and the full text has exactly the runs the segments have.
TablesConsistent == ForeignKeysHold(index) /\ TablesAgree(index)

\* A search finds segments of a run that is gone, or the list of sessions names it as
\* the latest, only if its thread was at work when
\* it was removed, its version was named afterwards, or a deletion failed half way.
GoneRowsExplained ==
    \A r \in {hit.run : hit \in SearchHits(index)}
              \cup UNION {row.latest : row \in ListedSessions(index, FALSE)} :
        disk[r].manifest \/ r \in op.now \cup op.gone \cup excused.raced
                              \cup excused.renamed \cup excused.faulty

\* A confirmed deletion of a session, none of whose threads was at work, leaves
\* nothing of it: but for the directory of a run that had lost its manifest before.
SessionGone ==
    \A s \in confirmed.sessions :
        RunsOf(s) \cap excused.raced = {} =>
            /\ ~SessionHere(s)
            /\ s \notin kept.contributions \cup kept.overlays \cup index.sessions
            /\ \A r \in RunsOf(s) : /\ Here(r) => r \in excused.faulty
                                    /\ r \notin Indexed(index)

\* What was deleted is neither found nor listed, and a session leaves nothing behind, but
\* for those exceptions.
DeletionsWhole == GoneRowsExplained /\ SessionGone

\* A run that succeeded can still be traced to its transcript version, unless its
\* session is gone, its own deletion raced with its thread or failed half way, or it
\* was at work on a version that its plan does not name when the deletion began.
ConsumersKeepTheirVersion ==
    \A r \in Runs, v \in Runs :
        /\ disk[r].manifest /\ v \in disk[r].doc.consumed
        /\ ses[SessionOf[r]].manifest
        => Version(v) \/ r \in excused.late \cup excused.raced \cup excused.faulty

\* The library finds a run by the names of its own version, unless another version was
\* made active before it was indexed, or a deletion or a refresh failed half way.
NamesFollowVersion ==
    \A v \in Indexed(index) :
        /\ pc[v] \in {"receipt", "finish", "save_finish", "done"}
        /\ Version(v) /\ op.kind # "map"
        => \/ v \in index.maps <=> v \in ses[SessionOf[v]].mapped
           \/ v \in excused.moved \cup excused.faulty

\* tests/test_delete_run_removes_fs_and_index.py: once a run is deleted, its directory
\* does not exist.
DeletedRunsStayDeleted == \A r \in confirmed.runs : ~Here(r)
=============================================================================
