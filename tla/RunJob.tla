------------------------------- MODULE RunJob -------------------------------
(***************************************************************************)
(* One run of a Stuart session: run_job (pipeline/job_runner.py) executing *)
(* the run's plan in a daemon thread or a CLI process, invocation after    *)
(* invocation, while the web process accepts a cancel request, moves the   *)
(* session's active transcript pointer and deletes transcript versions.    *)
(*                                                                         *)
(* A thread of execution is at most one at a time here, so that            *)
(* update_run_state (load run.json, change it, replace it) is one step;    *)
(* the writers that do overlap on run.json are the subject of ManifestFile.*)
(* Between any two steps of the thread the other actors may act, the       *)
(* process may die, and the operation in progress may raise.               *)
(***************************************************************************)
EXTENDS Integers, Sequences

CONSTANTS
    Plans,          \* the plans runs are created with: sequences of Step
    Trvs, NoTrv,    \* transcript version ids, and the absence of one
    Existing,       \* the versions the session has when the run is created
    MaxInvocations, \* bound: how often run_job is called on this run
    MaxCrashes      \* bound: how often the process dies under it

Kinds == {"validate", "formalize", "transcribe", "speaker_map_overlay",
          "search", "extract_only", "other"}

\* A plan step with the parameters run_job looks at; `diarize' is the outcome
\* of _resolve_diarization_enabled and `hint' says two or more speakers were
\* announced.
Step == [kind : Kinds, mode : {"meeting", "journal"},
         diarize : BOOLEAN, hint : BOOLEAN,
         reuse : BOOLEAN, trv : Trvs \cup {NoTrv}]

ASSUME PlansAssumption == \A p \in Plans : p \in Seq(Step)
ASSUME TrvAssumption == NoTrv \notin Trvs /\ Existing \subseteq Trvs
ASSUME BoundsAssumption == MaxInvocations \in Nat /\ MaxCrashes \in Nat

VARIABLES
    plan,     \* run.json "plan", fixed at creation
    base,     \* the transcript artifacts of the run named by reuse_run_id
    run,      \* run.json: status, progress, artifacts, primary_outputs, errors
    dir,      \* the run directory: which invocation wrote each file, and what
              \* the files the properties speak of contain
    ses,      \* the session: transcript versions and the active pointer
    receipt,  \* inputs/cancel.json exists
    asked,    \* the cancel handler: "none", "seen" (status read), "acked"
    pc, th,   \* the executing thread: where it is, and its locals
    nInvoked, nCrashed,  \* how often run_job was called, and died
    timely    \* observer: a checkpoint lay ahead when the receipt was written, or
              \* lies ahead because the run was invoked again

vars == <<plan, base, run, dir, ses, receipt, asked, pc, th,
          nInvoked, nCrashed, timely>>
fixed == <<plan, base>>
outside == <<receipt, asked, timely, nInvoked, nCrashed>>

Files == {"resolved_input", "normalized", "transcript", "reused_transcript",
          "speaker_hint", "diarization", "aligned", "integrity_report",
          "fts_ingest", "json", "truth_gate_report", "md", "txt",
          "evidence_map", "pdf"}

\* What a reader of the run is given, in the order it is rendered.
Published == {"md", "txt", "evidence_map", "pdf"}

Statuses == {"queued", "running", "succeeded", "failed", "cancelled"}
Terminal == {"succeeded", "failed", "cancelled"}
CompletedWithoutFailed == {"succeeded"}     \* mutant: failed runs are rerun
CompletedWithoutSucceeded == {"failed"}     \* mutant: succeeded runs are rerun
Completed == {"succeeded", "failed"}     \* run_job does not rerun these

\* The recorded artifacts build_primary_outputs makes pointers of; the two
\* that carry a version id are run.produced and run.consumed.
Recorded == Published \cup {"json", "aligned", "transcript"}

NoOutputs == [ptrs |-> {}, consumed |-> NoTrv, produced |-> NoTrv]

Cur == plan[th.step]
FirstFormalize == {i \in DOMAIN plan : /\ plan[i].kind = "formalize"
                                       /\ \A j \in 1..(i - 1) : plan[j].kind # "formalize"}

\* No formalize step reuses an earlier transcript: the audio is needed.
AudioPlan == \A i \in DOMAIN plan :
                plan[i].kind = "formalize" => ~plan[i].reuse /\ plan[i].trv = NoTrv

-----------------------------------------------------------------------------
(* Progress: a step owns the slice of 0..90 its position gives it, and a   *)
(* formalize step advances through its slice sub-stage by sub-stage.       *)

Bound(i) == IF /\ Len(plan) = 2
               /\ plan[1].kind = "validate" /\ plan[2].kind = "formalize"
            THEN IF i = 0 THEN 0 ELSE IF i = 1 THEN 5 ELSE 90
            ELSE (i * 90) \div Len(plan)
StartPct == Bound(th.step - 1)
EndPct == Bound(th.step)

SubTotal == IF Cur.mode = "meeting" /\ ~Cur.reuse THEN 9 ELSE 7
SubPctFromZero == (th.sub * (EndPct - StartPct)) \div SubTotal  \* mutant: no offset
SubPct == StartPct + (th.sub * (EndPct - StartPct)) \div SubTotal
NextSubUnclamped == th.sub + 1              \* mutant: past the last sub-stage
NextSub == IF th.sub < SubTotal THEN th.sub + 1 ELSE SubTotal

-----------------------------------------------------------------------------
(* Diarization: only a meeting whose transcript is made here has any, and  *)
(* only a formalize step passes on how many speakers were announced.       *)

Diarizes == Cur.mode = "meeting" /\ ~th.reused /\ Cur.diarize
Speakers == /\ Cur.kind = "formalize" /\ Cur.mode = "meeting"
            /\ ~th.reused /\ Cur.hint

-----------------------------------------------------------------------------
(* The run directory.  Every artifact is written once: an operation that   *)
(* finds one of its files raises FileExistsError before it writes.         *)

\* The files the operation at a label may write, and does write this time.
OpFiles == [resolve |-> {"resolved_input"}, normalize |-> {"normalized"},
            reuse |-> {"transcript", "reused_transcript", "aligned"},
            materialize |-> {"transcript"}, transcribe |-> {"transcript"},
            policy |-> {"speaker_hint"}, diarize |-> {"diarization"},
            align |-> {"aligned"}, emit |-> {"integrity_report"},
            ingest |-> {"fts_ingest"}, json |-> {"json"},
            gate |-> {"truth_gate_report"}, md |-> {"md"}, txt |-> {"txt"},
            evidence |-> {"evidence_map"}, pdf |-> {"pdf"},
            overlay |-> {}, search |-> {}]
WritesAt(l) == CASE l = "reuse"  -> OpFiles[l] \ (IF base.aligned THEN {} ELSE {"aligned"})
                 [] l = "policy" -> IF Speakers THEN OpFiles[l] ELSE {}
                 [] OTHER -> OpFiles[l]

AbsentUnchecked(fs) == TRUE                 \* mutant: artifacts are overwritten
Absent(fs) == \A f \in fs : dir.wrote[f] = 0

\* The version id carried by the transcript.json written at the current label.
SubstrateStamp == CASE pc = "reuse" -> base.stamp
                    [] pc = "materialize" -> th.sel
                    [] OTHER -> NoTrv

\* The directory after the files fs were written there; `verdict' is what a
\* truth gate report says.
Written(fs, verdict) ==
    [dir EXCEPT
       !.wrote = [f \in Files |-> IF f \in fs THEN nInvoked ELSE dir.wrote[f]],
       !.stamp = IF "transcript" \in fs THEN SubstrateStamp ELSE @,
       !.draft = IF "json" \in fs THEN dir.stamp ELSE @,
       !.gate  = IF "truth_gate_report" \in fs THEN verdict ELSE @]

Verdicts == {"allowed", "blocked"}

Raise(e) == /\ pc' = "on_failed"
            /\ th' = [th EXCEPT !.raised = e]

\* The pipeline operation at label l: refuse to overwrite, or write its files,
\* record them in run.json and go on.
Produce(l, next) ==
    /\ pc = l
    /\ \/ /\ Absent(WritesAt(l))
          /\ dir' = Written(WritesAt(l), "none")
          /\ run' = [run EXCEPT !.arts = @ \cup (WritesAt(l) \cap Recorded)]
          /\ pc' = next
          /\ UNCHANGED th
       \/ /\ ~Absent(WritesAt(l))
          /\ Raise("FileExistsError")
          /\ UNCHANGED <<dir, run>>
    /\ UNCHANGED <<fixed, ses, outside>>

-----------------------------------------------------------------------------
(* Cancellation checkpoints: _raise_if_cancelled at each label, what the   *)
(* thread does when it passes, and the sub-stage progress it reports       *)
(* before the test or after it.                                            *)

AfterCheck == [chk_begin |-> "steps", chk_step |-> "begin",
               chk_formalize |-> "select", chk_transcribe |-> "transcribe",
               chk_diarize |-> "diarize", chk_align |-> "align",
               chk_emit |-> "emit", chk_ingest |-> "ingest",
               chk_json |-> "json", chk_gate |-> "gate", chk_md |-> "md",
               chk_txt |-> "txt", chk_pdf |-> "pdf"]
BumpThenCheck == {"chk_json", "chk_gate", "chk_md", "chk_txt", "chk_pdf"}
CheckThenBump == {"chk_transcribe", "chk_diarize", "chk_align", "chk_ingest"}

Bumps == \/ pc \in BumpThenCheck
         \/ pc \in CheckThenBump /\ ~receipt /\ Cur.kind = "formalize"

Checkpoint ==
    /\ pc \in DOMAIN AfterCheck
    /\ pc' = IF receipt THEN "on_cancelled" ELSE AfterCheck[pc]
    /\ IF Bumps
       THEN /\ run' = [run EXCEPT !.progress = SubPct]
            /\ th' = [th EXCEPT !.sub = NextSub]
       ELSE UNCHANGED <<run, th>>
    /\ UNCHANGED <<fixed, dir, ses, outside>>

-----------------------------------------------------------------------------
(* The invocation, up to the try block.  What raises here leaves run_job   *)
(* without touching the status.                                            *)

Invoke ==
    /\ pc = "idle" /\ nInvoked < MaxInvocations
    /\ run.status \notin Completed
    /\ nInvoked' = nInvoked + 1
    /\ pc' = IF AudioPlan THEN "resolve" ELSE "skip_normalize"
    /\ timely' = receipt
    /\ UNCHANGED <<fixed, run, dir, ses, receipt, asked, th, nCrashed>>

\* The contribution is missing, or its receipt is there from an earlier
\* invocation, or the audio cannot be decoded: the thread dies.
DieBeforeTry ==
    /\ pc \in {"resolve", "normalize"}
    /\ pc' = "idle"
    /\ UNCHANGED <<fixed, run, dir, ses, outside, th>>

ResolveInput ==
    /\ pc = "resolve" /\ Absent(WritesAt("resolve"))
    /\ Produce("resolve", "normalize")

Normalize ==
    /\ pc = "normalize" /\ Absent(WritesAt("normalize"))
    /\ Produce("normalize", "start")

SkipNormalize ==
    /\ pc = "skip_normalize"
    /\ pc' = "start"
    /\ UNCHANGED <<fixed, run, dir, ses, outside, th>>

StartRunning ==
    /\ pc = "start"
    /\ run' = [run EXCEPT !.status = "running", !.progress = 0]
    /\ th' = [th EXCEPT !.step = 1]
    /\ pc' = "chk_begin"
    /\ UNCHANGED <<fixed, dir, ses, outside>>

-----------------------------------------------------------------------------
(* The step loop.                                                          *)

EnterSteps ==
    /\ pc = "steps"
    /\ IF plan = << >>
       THEN /\ run' = [run EXCEPT !.progress = 100]
            /\ pc' = "finish"
       ELSE /\ pc' = "chk_step"
            /\ UNCHANGED run
    /\ UNCHANGED <<fixed, dir, ses, outside, th>>

FirstLabel == [validate |-> "end_step", other |-> "end_step",
               speaker_map_overlay |-> "overlay", search |-> "search",
               formalize |-> "chk_formalize", transcribe |-> "chk_transcribe",
               extract_only |-> "extract"]

BeginStep ==
    /\ pc = "begin"
    /\ run' = [run EXCEPT !.progress = StartPct]
    /\ th' = [th EXCEPT !.sub = 0, !.sel = NoTrv, !.used = NoTrv, !.reused = FALSE]
    /\ pc' = FirstLabel[Cur.kind]
    /\ UNCHANGED <<fixed, dir, ses, outside>>

EndStep ==
    /\ pc = "end_step"
    /\ run' = [run EXCEPT !.progress = EndPct]
    /\ IF th.step < Len(plan)
       THEN th' = [th EXCEPT !.step = @ + 1] /\ pc' = "chk_step"
       ELSE pc' = "finish" /\ UNCHANGED th
    /\ UNCHANGED <<fixed, dir, ses, outside>>

\* A new overlay becomes the session's active speaker map.
MapSpeakers == Produce("overlay", "end_step")

\* search_results.json is rewritten by every search.
SearchLibrary == Produce("search", "end_step")

\* No speaker is named; or the step reads `mode' and `template_id', which only
\* a formalize step of the same plan binds; and after one, minutes.json is
\* there and may not be rewritten.
ExtractOnly ==
    /\ pc = "extract"
    /\ \/ Raise("ValueError")
       \/ Raise(IF \E i \in 1..(th.step - 1) : plan[i].kind = "formalize"
                THEN "FileExistsError" ELSE "UnboundLocalError")
    /\ UNCHANGED <<fixed, run, dir, ses, outside>>

-----------------------------------------------------------------------------
(* The formalize step, and the transcribe step that shares its first half. *)

\* An explicit version, else the session's active one; but a reuse_run_id is
\* looked at first.
SelectSubstrate ==
    /\ pc = "select"
    /\ LET sel == IF Cur.trv # NoTrv THEN Cur.trv ELSE ses.active
       IN /\ th' = [th EXCEPT !.sel = sel]
          /\ pc' = IF Cur.reuse THEN "reuse"
                   ELSE IF sel # NoTrv THEN "pin" ELSE "chk_transcribe"
    /\ run' = [run EXCEPT !.progress = StartPct]
    /\ UNCHANGED <<fixed, dir, ses, outside>>

\* Copy the transcripts of the base run, when it still has them.
ReuseTranscripts ==
    /\ pc = "reuse"
    /\ \/ /\ base.present /\ Absent(WritesAt("reuse"))
          /\ dir' = Written(WritesAt("reuse"), "none")
          /\ run' = [run EXCEPT !.progress = SubPct,
                       !.arts = @ \cup (WritesAt("reuse") \cap Recorded)]
          /\ th' = [th EXCEPT !.sub = NextSub, !.reused = TRUE]
          /\ pc' = "policy"
       \/ /\ ~(base.present /\ Absent(WritesAt("reuse")))
          /\ run' = [run EXCEPT !.progress = SubPct]
          /\ Raise(IF base.present THEN "FileExistsError" ELSE "FileNotFoundError")
          /\ UNCHANGED dir
    /\ UNCHANGED <<fixed, ses, outside>>

\* The session's pointer follows the selection before the version is opened.
PinSelection ==
    /\ pc = "pin"
    /\ ses' = [ses EXCEPT !.active = th.sel]
    /\ run' = [run EXCEPT !.progress = SubPct]
    /\ th' = [th EXCEPT !.sub = NextSub, !.used = th.sel, !.reused = TRUE]
    /\ pc' = "materialize"
    /\ UNCHANGED <<fixed, dir, outside>>

\* transcript.json is written from the version, unless that was deleted; it is
\* recorded as a transcript_from_version, of which no pointer is made.
MaterializeVersion ==
    /\ pc = "materialize"
    /\ \/ /\ th.sel \in ses.versions /\ Absent(WritesAt("materialize"))
          /\ dir' = Written(WritesAt("materialize"), "none")
          /\ pc' = "policy"
          /\ UNCHANGED th
       \/ /\ th.sel \notin ses.versions
          /\ Raise("FileNotFoundError")
          /\ UNCHANGED dir
       \/ /\ th.sel \in ses.versions /\ ~Absent(WritesAt("materialize"))
          /\ Raise("FileExistsError")
          /\ UNCHANGED dir
    /\ UNCHANGED <<fixed, run, ses, outside>>

Transcribe == Produce("transcribe", "policy")

\* Note the announced speakers, then diarize or not; a reused transcript is not emitted again.
DiarizationPolicy ==
    Produce("policy",
            IF Diarizes THEN "chk_diarize"
            ELSE IF th.reused THEN "chk_ingest" ELSE "chk_emit")

Diarize == Produce("diarize", "chk_align")

Align ==
    /\ pc = "align"
    /\ \/ /\ Absent(WritesAt("align"))
          /\ dir' = Written(WritesAt("align"), "none")
          /\ run' = [run EXCEPT !.arts = @ \cup {"aligned"}]
          /\ pc' = "chk_emit"
          /\ UNCHANGED th
       \/ /\ ~Absent(WritesAt("align"))
          /\ Raise("FileExistsError")
          /\ UNCHANGED <<dir, run>>
    /\ UNCHANGED <<fixed, ses, outside>>

\* Check the substrate, then mint a version and make it the active one.  A
\* report of an earlier invocation is kept.
EmitVersion ==
    /\ pc = "emit"
    /\ dir' = IF Absent(WritesAt("emit")) THEN Written(WritesAt("emit"), "none") ELSE dir
    /\ \/ /\ Raise("ValueError")
          /\ UNCHANGED ses
       \/ \E v \in Trvs \ ses.minted :
             /\ ses' = [versions |-> ses.versions \cup {v},
                        minted |-> ses.minted \cup {v}, active |-> v]
             /\ th' = [th EXCEPT !.used = v]
             /\ pc' = "stamp"
    /\ UNCHANGED <<fixed, run, outside>>

\* A formalize step writes the version id into the transcript files it has
\* already recorded; both record the produced version (once: a second one has
\* the same kind, path and sha256).
StampProduced ==
    /\ pc = "stamp"
    /\ dir' = IF Cur.kind = "formalize" THEN [dir EXCEPT !.stamp = th.used] ELSE dir
    /\ run' = [run EXCEPT !.produced = IF @ = NoTrv THEN th.used ELSE @]
    /\ pc' = "chk_ingest"
    /\ UNCHANGED <<fixed, ses, outside, th>>

\* The receipt is written whether or not the index took the run.
Ingest == Produce("ingest",
                  IF Cur.kind = "formalize" THEN "chk_json" ELSE "end_step")

FormalizeJsonUngated == Produce("json", "chk_md")       \* mutant: gate skipped
FormalizeJson == Produce("json", "chk_gate")

\* The report is written and recorded either way; a blocked draft ends the
\* run, an allowed one has its transcript version recorded as consumed.
TruthGate ==
    /\ pc = "gate"
    /\ \/ /\ Absent(WritesAt("gate"))
          /\ dir' = Written(WritesAt("gate"), "allowed")
          /\ run' = [run EXCEPT !.consumed = IF @ = NoTrv THEN th.used ELSE @]
          /\ pc' = "chk_md"
          /\ UNCHANGED th
       \/ /\ Absent(WritesAt("gate"))
          /\ dir' = Written(WritesAt("gate"), "blocked")
          /\ Raise("ValueError")
          /\ UNCHANGED run
       \/ /\ ~Absent(WritesAt("gate"))
          /\ Raise("FileExistsError")
          /\ UNCHANGED <<dir, run>>
    /\ UNCHANGED <<fixed, ses, outside>>

RenderMd == Produce("md", "chk_txt")
RenderTxt == Produce("txt", "bump_evidence")

\* The evidence map follows the text with no checkpoint between.
StartEvidenceMap ==
    /\ pc = "bump_evidence"
    /\ run' = [run EXCEPT !.progress = SubPct]
    /\ th' = [th EXCEPT !.sub = NextSub]
    /\ pc' = "evidence"
    /\ UNCHANGED <<fixed, dir, ses, outside>>

EvidenceMapUnchecked == Produce("evidence", "pdf")      \* mutant: no last checkpoint
EvidenceMap == Produce("evidence", "chk_pdf")
RenderPdf == Produce("pdf", "end_step")

-----------------------------------------------------------------------------
(* How an invocation ends.                                                 *)

\* mutant: the text rendering is forgotten
PrimaryOutputsNoTxt ==
    [ptrs |-> run.arts \ {"txt"}, consumed |-> run.consumed, produced |-> run.produced]

\* build_primary_outputs: pointers to the recorded deliverables, the aligned
\* transcript before the plain one.
PrimaryOutputs ==
    [ptrs |-> IF "aligned" \in run.arts THEN run.arts \ {"transcript"} ELSE run.arts,
     consumed |-> run.consumed, produced |-> run.produced]

Succeed ==
    /\ pc = "finish"
    /\ run' = [run EXCEPT !.status = "succeeded", !.progress = 100,
                          !.outputs = PrimaryOutputs]
    /\ pc' = "idle"
    /\ UNCHANGED <<fixed, dir, ses, outside, th>>

Cancel ==
    /\ pc = "on_cancelled"
    /\ run' = [run EXCEPT !.status = "cancelled", !.error = "RunCancelled"]
    /\ pc' = "idle"
    /\ UNCHANGED <<fixed, dir, ses, outside, th>>

\* mutant: the handler forgets to record the failure
FailUnrecorded ==
    /\ pc = "on_failed"
    /\ pc' = "idle"
    /\ UNCHANGED <<fixed, run, dir, ses, outside, th>>

Fail ==
    /\ pc = "on_failed"
    /\ run' = [run EXCEPT !.status = "failed", !.error = th.raised]
    /\ pc' = "idle"
    /\ UNCHANGED <<fixed, dir, ses, outside, th>>

\* An adapter raises (no model, no gateway, a full disk), having written some
\* of its files or none.
PartlyWritten ==
    \E fs \in SUBSET {f \in WritesAt(pc) : dir.wrote[f] = 0}, v \in Verdicts :
        dir' = Written(fs, v)

AdapterRaises ==
    /\ pc \in DOMAIN OpFiles \ {"resolve", "normalize"}
    /\ PartlyWritten
    /\ Raise("AdapterError")
    /\ UNCHANGED <<fixed, run, ses, outside>>

\* The process dies under the thread: daemon threads are not joined, and
\* nothing takes the run up again by itself.
Crash ==
    /\ pc # "idle" /\ nCrashed < MaxCrashes
    /\ nCrashed' = nCrashed + 1
    /\ IF pc \in DOMAIN OpFiles THEN PartlyWritten ELSE UNCHANGED dir
    /\ pc' = "idle"
    /\ asked' = IF asked = "seen" THEN "none" ELSE asked
    /\ UNCHANGED <<fixed, run, ses, receipt, timely, th, nInvoked>>

-----------------------------------------------------------------------------
(* The web process: cancel, select a transcript, delete a transcript.      *)

\* No checkpoint lies between here and success.
PastLastCheck ==
    \/ pc = "finish"
    \/ pc = "steps" /\ plan = << >>
    \/ /\ th.step = Len(plan)
       /\ \/ pc \in {"end_step", "pdf", "overlay", "search"}
          \/ pc = "ingest" /\ Cur.kind # "formalize"
          \/ pc = "begin" /\ FirstLabel[Cur.kind] \in {"end_step", "overlay", "search"}

CancelRead ==
    /\ asked = "none" /\ run.status \notin Terminal
    /\ asked' = "seen"
    /\ UNCHANGED <<fixed, run, dir, ses, receipt, timely, pc, th, nInvoked, nCrashed>>

CancelWrite ==
    /\ asked = "seen"
    /\ asked' = "acked"
    /\ receipt' = TRUE
    /\ timely' = IF receipt THEN timely
                 ELSE run.status \notin Completed /\ ~PastLastCheck
    /\ UNCHANGED <<fixed, run, dir, ses, pc, th, nInvoked, nCrashed>>

SelectTranscript(v) ==
    /\ v \in ses.versions
    /\ ses' = [ses EXCEPT !.active = v]
    /\ UNCHANGED <<fixed, run, dir, outside, pc, th>>

\* The runs the deletion would orphan, as far as run.json tells.
Dependent(v) ==
    \/ v = run.outputs.produced
    \/ v = run.outputs.consumed
    \/ /\ run.outputs.consumed = NoTrv
       /\ \E i \in FirstFormalize : plan[i].trv = v

\* Without cascade; the pointer is left as it is.
DeleteTranscript(v) ==
    /\ v \in ses.versions /\ ~Dependent(v)
    /\ ses' = [ses EXCEPT !.versions = @ \ {v}]
    /\ UNCHANGED <<fixed, run, dir, outside, pc, th>>

-----------------------------------------------------------------------------
Init ==
    /\ plan \in Plans
    /\ base \in [present : BOOLEAN, aligned : BOOLEAN, stamp : Existing \cup {NoTrv}]
    /\ run = [status |-> "queued", progress |-> 0, arts |-> {},
              produced |-> NoTrv, consumed |-> NoTrv,
              outputs |-> NoOutputs, error |-> "none"]
    /\ dir = [wrote |-> [f \in Files |-> 0], stamp |-> NoTrv, draft |-> NoTrv,
              gate |-> "none"]
    /\ ses \in [versions : {Existing}, minted : {Existing}, active : Existing \cup {NoTrv}]
    /\ receipt = FALSE /\ asked = "none" /\ timely = FALSE
    /\ pc = "idle"
    /\ th = [step |-> 1, sub |-> 0, sel |-> NoTrv, used |-> NoTrv,
             reused |-> FALSE, raised |-> "none"]
    /\ nInvoked = 0 /\ nCrashed = 0

\* One step of the executing thread.
Thread ==
    \/ DieBeforeTry \/ ResolveInput \/ Normalize \/ SkipNormalize \/ StartRunning
    \/ Checkpoint \/ EnterSteps \/ BeginStep \/ EndStep
    \/ MapSpeakers \/ SearchLibrary \/ ExtractOnly
    \/ SelectSubstrate \/ ReuseTranscripts \/ PinSelection \/ MaterializeVersion
    \/ Transcribe \/ DiarizationPolicy \/ Diarize \/ Align
    \/ EmitVersion \/ StampProduced \/ Ingest \/ FormalizeJson \/ TruthGate
    \/ RenderMd \/ RenderTxt \/ StartEvidenceMap \/ EvidenceMap \/ RenderPdf
    \/ Succeed \/ Cancel \/ Fail \/ AdapterRaises

Web == \/ CancelRead \/ CancelWrite
       \/ \E v \in Trvs : SelectTranscript(v) \/ DeleteTranscript(v)

Next == Invoke \/ Thread \/ Crash \/ Web

Spec == Init /\ [][Next]_vars

\* A thread that was started is scheduled until it ends.
FairSpec == Spec /\ WF_vars(Thread)

-----------------------------------------------------------------------------
(* Properties.                                                             *)

Labels == DOMAIN AfterCheck \cup DOMAIN OpFiles \cup
          {"idle", "skip_normalize", "start", "steps", "begin", "end_step",
           "extract", "select", "pin", "stamp", "bump_evidence",
           "finish", "on_cancelled", "on_failed"}
BeforeTry == {"idle", "resolve", "normalize", "skip_normalize", "start"}
InTry == pc \notin BeforeTry

Versions == Trvs \cup {NoTrv}
Errors == {"none", "RunCancelled", "FileExistsError", "FileNotFoundError",
           "ValueError", "UnboundLocalError", "AdapterError"}

Outputs == [ptrs : SUBSET Recorded, consumed : Versions, produced : Versions]
RunJson == [status : Statuses, progress : Int, arts : SUBSET Recorded,
            produced : Versions, consumed : Versions,
            outputs : Outputs, error : Errors]
RunDir == [wrote : [Files -> Nat], stamp : Versions, draft : Versions,
           gate : {"none", "allowed", "blocked"}]
Session == [versions : SUBSET Trvs, minted : SUBSET Trvs, active : Versions]
Locals == [step : Nat, sub : 0..9, sel : Versions, used : Versions,
           reused : BOOLEAN, raised : Errors]

\* Every variable has its shape; a sub-stage counter never runs past the
\* sub-stages a formalize step announces (bump in job_runner.py).
TypeOK ==
    /\ plan \in Plans
    /\ base \in [present : BOOLEAN, aligned : BOOLEAN, stamp : Versions]
    /\ run \in RunJson /\ dir \in RunDir /\ ses \in Session
    /\ receipt \in BOOLEAN /\ timely \in BOOLEAN
    /\ asked \in {"none", "seen", "acked"}
    /\ pc \in Labels /\ th \in Locals
    /\ nInvoked \in Nat /\ nCrashed \in Nat

\* Nothing a reader is given exists unless the truth gate let the draft pass:
\* whatever was interrupted, retried or raced, no minutes.md, .txt, evidence
\* map or .pdf lies in the run directory of a run whose truth_gate_report is
\* missing or blocks ("must run BEFORE MD/PDF publish" in job_runner.py).
PublishedOnlyPastGate ==
    (\E f \in Published : dir.wrote[f] # 0)
        => dir.gate = "allowed" /\ dir.wrote["json"] # 0

\* A cancel request whose receipt reaches the run directory while a checkpoint
\* is still ahead is obeyed: the run does not end as succeeded.
CancelHonoured == receipt /\ timely => run.status # "succeeded"

\* A succeeded run with a formalize step hands out every deliverable: each has
\* a pointer and a file, and the version the run says it consumed is the one
\* its draft was made of.
OutputsComplete ==
    (run.status = "succeeded" /\ \E i \in DOMAIN plan : plan[i].kind = "formalize")
        => /\ Published \cup {"json"} \subseteq run.outputs.ptrs
           /\ \A f \in run.outputs.ptrs : dir.wrote[f] # 0
           /\ \/ run.outputs.consumed = dir.draft /\ dir.draft # NoTrv
              \/ \E i \in DOMAIN plan : plan[i].reuse

\* Everything in the directory of a succeeded run is of one invocation: no run
\* whose first invocation died half way is completed by a second one that finds
\* its files, say minutes of one transcript beside the alignment of another
\* (every operation refuses to overwrite, and the first to write comes first).
SingleInvocationOutputs ==
    run.status = "succeeded"
        => \A f, g \in {h \in Files : dir.wrote[h] # 0} : dir.wrote[f] = dir.wrote[g]

\* What was said of a completed run stays said: neither the status, nor the
\* outputs, nor the errors of a succeeded or failed run ever change
\* ("Idempotent: do not rerun succeeded/failed runs").
CompletedIsFinal ==
    [][run.status \in {"succeeded", "failed"}
         => UNCHANGED <<run, dir>>]_vars

\* The progress a poller sees never moves backwards while a thread is at work;
\* only a new invocation starts again from 0.
ProgressNeverBackwards == [][pc # "start" => run'.progress >= run.progress]_vars

\* A thread that entered its try block leaves the run in a terminal status,
\* unless its process dies first.
StartedRunsEnd ==
    \A k \in 0..MaxCrashes :
        (InTry /\ nCrashed = k) ~> (run.status \in Terminal \/ nCrashed > k)

\* The run, seen through its status and its binding receipt, behaves as
\* RunLifecycle says.
Lifecycle == INSTANCE RunLifecycle WITH status <- run.status,
                                        binding <- receipt /\ timely
LifecycleSpec == Lifecycle!Spec

-----------------------------------------------------------------------------
(* The inductive invariant behind the safety properties.                   *)

LoopLabels == Labels \ (BeforeTry \cup {"chk_begin", "steps", "finish",
                                         "on_cancelled", "on_failed"})
AfterGate == {"chk_md", "md", "chk_txt", "txt", "bump_evidence", "evidence",
              "chk_pdf", "pdf"}

\* Where the thread is says what status it has written, and which step it is at.
ThreadInv ==
    /\ InTry => run.status = "running"
    /\ pc # "idle" => run.status \notin Completed /\ nInvoked > 0
    /\ pc \in {"chk_begin", "steps"} => th.step = 1
    /\ pc \in LoopLabels => th.step \in DOMAIN plan

\* The gate stands between the draft and what is published of it.
GateInv ==
    /\ pc \in {"chk_gate", "gate"} => dir.wrote["json"] # 0
    /\ dir.wrote["truth_gate_report"] = 0 => dir.gate # "allowed"
    /\ pc \in AfterGate => dir.gate = "allowed" /\ dir.wrote["json"] # 0
    /\ PublishedOnlyPastGate

\* A receipt the thread can no longer see is not timely, one it acts on is.
CancelInv ==
    /\ PastLastCheck => ~(receipt /\ timely)
    /\ receipt /\ pc \notin {"idle", "on_failed"} => timely \/ PastLastCheck
    /\ pc = "on_cancelled" => receipt /\ timely
    /\ CancelHonoured

\* Everything the theorems of RunJobProofs rest on: no part of it is preserved
\* by a step of the thread without the others.
IInv == TypeOK /\ ThreadInv /\ GateInv /\ CancelInv

\* The labels a formalize step has to itself, and those it shares with a transcribe step.
FormalizeLabels == AfterGate \cup {"chk_formalize", "select", "reuse", "pin", "materialize",
                                   "chk_json", "json", "chk_gate", "gate"}
SharedLabels == {"chk_transcribe", "transcribe", "policy", "chk_diarize", "diarize",
                 "chk_align", "align", "chk_emit", "emit", "stamp", "chk_ingest", "ingest"}

\* Where the thread is says which kind of step it executes, and how that step came
\* to its transcript.
KindInv ==
    /\ pc \in {"resolve", "normalize"} => AudioPlan
    /\ pc = "skip_normalize" => ~AudioPlan
    /\ pc \in FormalizeLabels => Cur.kind = "formalize"
    /\ pc \in SharedLabels => Cur.kind \in {"formalize", "transcribe"}
    /\ pc \in {"overlay", "search"} => Cur.kind # "formalize"
    /\ pc = "reuse" => Cur.reuse
    /\ pc \in {"pin", "materialize"} => ~Cur.reuse
    /\ pc \in {"chk_transcribe", "transcribe"} => Cur.kind = "transcribe" \/ ~Cur.reuse
    /\ pc \in {"chk_formalize", "select", "reuse", "pin", "chk_transcribe", "transcribe"}
          => ~th.reused
    /\ pc = "materialize" => th.reused

\* The steps that make a transcript or copy one, and the files that whichever
\* invocation is the first to write anything writes first.
MakesTranscript(i) == plan[i].kind \in {"formalize", "transcribe"}
FirstToMake(i) == i \in DOMAIN plan /\ MakesTranscript(i)
                  /\ \A j \in 1..(i - 1) : ~MakesTranscript(j)
Lead == IF AudioPlan THEN {"resolved_input"}
        ELSE IF \E i \in DOMAIN plan :
                    FirstToMake(i) /\ plan[i].kind = "formalize" /\ plan[i].reuse
             THEN WritesAt("reuse") ELSE {"transcript"}
LeadWritten == \E f \in Lead : dir.wrote[f] # 0

\* The thread has yet to come to the operation that writes those files.
BeforeLead ==
    IF AudioPlan THEN pc \in {"idle", "resolve"}
    ELSE \/ pc \in {"idle", "skip_normalize", "start", "chk_begin", "steps"}
         \/ /\ pc \in LoopLabels
            /\ \A j \in 1..(th.step - 1) : ~MakesTranscript(j)
            /\ MakesTranscript(th.step) =>
                  pc \in {"chk_step", "begin", "chk_formalize", "select", "reuse", "pin",
                          "materialize", "chk_transcribe", "transcribe"}
PastLead == ~BeforeLead /\ pc \notin {"on_failed", "on_cancelled"}

\* No file is there without one of the first ones, so that a thread that has written
\* those found an empty directory: what it sees is its own.
LeadInv ==
    /\ (\E f \in Files : dir.wrote[f] # 0) => LeadWritten
    /\ PastLead => LeadWritten /\ \A f \in Files : dir.wrote[f] \in {0, nInvoked}
    /\ SingleInvocationOutputs

\* A transcript version that is the one at hand, unless the plan copies transcripts.
PlanReuses == \E i \in DOMAIN plan : plan[i].reuse
Traced(v) == (v = th.used /\ v # NoTrv) \/ PlanReuses

\* What a formalize step leaves behind when it has ended.
ConsumedKnown == (run.consumed = dir.draft /\ dir.draft # NoTrv) \/ PlanReuses
Delivered == Published \cup {"json"} \subseteq run.arts /\ ConsumedKnown

\* What is recorded is there.
RecordedInv ==
    /\ \A f \in run.arts : dir.wrote[f] # 0
    /\ run.consumed # NoTrv => dir.wrote["truth_gate_report"] # 0

\* Where the thread is in a formalize step says which version its transcript can be
\* traced to, and which deliverables it has made of it.
TraceInv ==
    /\ pc = "pin" => th.sel # NoTrv
    /\ pc = "materialize" => th.sel = th.used /\ th.used # NoTrv
    /\ pc = "policy" /\ th.reused => Traced(dir.stamp)
    /\ pc = "stamp" => th.used # NoTrv
    /\ pc \in {"chk_ingest", "ingest", "chk_json", "json"} /\ Cur.kind = "formalize"
          => Traced(dir.stamp)
    /\ pc \in {"chk_gate", "gate"} => Traced(dir.draft)
    /\ pc \in AfterGate => ConsumedKnown
    /\ pc \in AfterGate \cup {"chk_gate", "gate"} => "json" \in run.arts
    /\ pc \in AfterGate \ {"chk_md", "md"} => "md" \in run.arts
    /\ pc \in {"bump_evidence", "evidence", "chk_pdf", "pdf"} => "txt" \in run.arts
    /\ pc \in {"chk_pdf", "pdf"} => "evidence_map" \in run.arts

\* Every formalize step that has ended has delivered.
DeliveredInv ==
    /\ pc \in LoopLabels =>
          \A i \in 1..(th.step - 1) : plan[i].kind = "formalize" => Delivered
    /\ pc = "end_step" /\ Cur.kind = "formalize" => Delivered
    /\ pc = "finish" => \A i \in DOMAIN plan : plan[i].kind = "formalize" => Delivered

OutputInv == RecordedInv /\ TraceInv /\ DeliveredInv /\ OutputsComplete

\* What is shown never exceeds what the next report will say.
ProgressInv ==
    /\ pc \in {"chk_begin", "steps"} => run.progress <= 0
    /\ pc \in {"chk_step", "begin", "chk_formalize", "select"} => run.progress <= StartPct
    /\ pc \in LoopLabels \ {"chk_step", "begin"} =>
          th.sub <= SubTotal /\ run.progress <= SubPct
    /\ pc = "finish" => run.progress <= 100

\* What the properties of a run's results rest on, beside IInv.
ResultInv == KindInv /\ LeadInv /\ OutputInv /\ ProgressInv

-----------------------------------------------------------------------------
(* Statements of the repository that the code does not keep; each is the   *)
(* subject of a run that shows how.                                        *)

\* tests/test_meetings_web_transcribe_and_cancel.py polls a spawned run until
\* "worker reaches a terminal state": every invoked run gets to one.
InvokedRunsEnd == pc # "idle" ~> run.status \in Terminal

\* The help of `stuart extract': exporting what a speaker said asks for an
\* active mapping and nothing else.
ExtractNeedsOnlyMapping == run.status = "failed" => run.error # "UnboundLocalError"

=============================================================================
