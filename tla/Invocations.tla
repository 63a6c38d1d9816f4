----------------------------- MODULE Invocations -----------------------------
(***************************************************************************)
(* Several invocations of one run at the same time: the thread the web     *)
(* process started, and `stuart go' on the command line.  run_job tests    *)
(* the status once, when it begins; from then on what keeps invocations    *)
(* apart are the files of the run directory, each of which is written only *)
(* if it is not there, and run.json, which each loads and saves.           *)
(*                                                                         *)
(* RunJob has all of a run's plan, with one invocation at a time; here     *)
(* there is one formalize step, without diarization, of a run that is not  *)
(* cancelled.  A save is one step here: ManifestFile has what happens      *)
(* inside, and what a document that cannot be read does.                   *)
(***************************************************************************)
EXTENDS Integers

CONSTANTS
    Invocations,    \* the calls of run_job for this run
    NoOne          \* no invocation

ASSUME InvocationsAssumption == NoOne \notin Invocations

\* The files an invocation writes, in their order; the first two before run_job's
\* try, and only if the audio is needed.  Left out are two that go the way of others:
\* fts_ingest.json, and the text, which is made of the page as the PDF is.
Receipt == 1                \* inputs/resolved_input.json
Normalized == 2             \* normalized.wav
Transcript == 3
Json == 4                   \* minutes.json, the draft
Gate == 5                   \* truth_gate_report.json
Md == 6                     \* minutes.md, the page
Evidence == 7
Pdf == 8
Files == Receipt..Pdf
Published == Md..Pdf
Pointers == Published \cup {Json}      \* that are made of any plan

Completed == {"succeeded", "failed"}
RunDoc == [status : {"queued", "running"} \cup Completed,
           arts : SUBSET Files, outputs : SUBSET Files]

\* Where an invocation is; the file and the change of run.json it is at; the document
\* it has loaded, and the artifacts it has found there at last; whose draft it has read,
\* and whether the gate has blocked it; whether it is inside the try.
Drafts == Invocations \cup {NoOne}
Locals == [at : {"new", "test", "work", "retest", "write", "load", "save", "finish",
                 "refused", "died", "ended"},
           file : Files,
           change : {"none", "skip", "art", "running", "succeeded", "failed"},
           seen : RunDoc, found : SUBSET Files,
           draft : Drafts, blocked : BOOLEAN, inside : BOOLEAN]

VARIABLES
    audio,      \* the plan needs the audio: no formalize step reuses a transcript
    run,        \* run.json: status, artifacts and primary_outputs, as files
    files,      \* who wrote each file last, and whose draft is in it
    inv,        \* the invocations: where each is, and its locals
    raced,      \* observer: files that two had found missing when one was written
    overlaid, \* observer: a save replaced what its load had not seen, or by another's
    allowed     \* observer: drafts a gate has allowed

invVars == <<audio, run, files, inv, raced, overlaid, allowed>>

Fresh == [status |-> "queued", arts |-> {}, outputs |-> {}]
Missing == [by |-> NoOne, draft |-> NoOne]
First == IF audio THEN Receipt ELSE Transcript
Place(t) == inv[t].at

InvInit ==
    /\ audio \in BOOLEAN
    /\ run = Fresh
    /\ files = [i \in Files |-> Missing]
    /\ inv = [t \in Invocations |->
                [at |-> "new", file |-> First, change |-> "none", seen |-> Fresh,
                 found |-> {}, draft |-> NoOne, blocked |-> FALSE, inside |-> FALSE]]
    /\ raced = {} /\ overlaid = FALSE /\ allowed = {}

-----------------------------------------------------------------------------
(* Where an invocation goes.                                               *)

Goes(t, l) == inv' = [inv EXCEPT ![t].at = l, ![t].seen = Fresh]
Updates(t, change) == inv' = [inv EXCEPT ![t].at = "load", ![t].change = change,
                                         ![t].seen = Fresh]
Ends(t, l) == inv' = [inv EXCEPT ![t] = [@ EXCEPT !.at = l, !.file = First, !.seen = Fresh,
                        !.found = {}, !.draft = NoOne, !.blocked = FALSE, !.inside = FALSE]]

RaisesRecorded(t) ==                        \* mutant: all of run_job is inside the try
    IF inv[t].change # "failed" THEN Updates(t, "failed") ELSE Ends(t, "died")
RaisesSwallowed(t) ==                       \* mutant: the failure is not recorded
    Ends(t, IF inv[t].inside THEN "ended" ELSE "refused")
\* What is raised in the try is recorded as the failure of the run; what is raised
\* before it, or while that is recorded, ends the invocation.
Raises(t) ==
    IF inv[t].inside /\ inv[t].change # "failed" THEN Updates(t, "failed")
    ELSE Ends(t, IF inv[t].inside THEN "died" ELSE "refused")

BeginFile(i) == IF i = Gate THEN "work" ELSE "test"

\* The status is tested, and never again.
Invoke(t) ==
    /\ Place(t) = "new" /\ run.status \notin Completed
    /\ IF audio THEN Goes(t, "test") ELSE Updates(t, "skip")
    /\ UNCHANGED <<audio, run, files, raced, overlaid, allowed>>

-----------------------------------------------------------------------------
(* Writing a file: the test that it is not there, the work, and the write. *)
(* dump_json tests again before it writes the draft, the report of the     *)
(* gate and the evidence; the gate does not test before.  A transcriber    *)
(* that finds a transcript when it has its own takes the one that is there.*)

Rechecked == {Json, Gate, Evidence}
Present(i) == files[i].by # NoOne
TestUnchecked(t) ==                         \* mutant: files are overwritten
    /\ Place(t) \in {"test", "retest"}
    /\ Goes(t, IF Place(t) = "test" THEN "work" ELSE "write")
    /\ UNCHANGED <<audio, run, files, raced, overlaid, allowed>>
Test(t) ==
    /\ Place(t) \in {"test", "retest"}
    /\ IF Present(inv[t].file)
       THEN \/ Raises(t)
            \/ Place(t) = "retest" /\ inv[t].file = Transcript /\ Updates(t, "art")
       ELSE Goes(t, IF Place(t) = "test" THEN "work" ELSE "write")
    /\ UNCHANGED <<audio, run, files, raced, overlaid, allowed>>

\* The draft is the invocation's own; the other files are made from it, or from the
\* page.  The gate lets a draft pass or not.
DraftFor(t) ==
    LET i == inv[t].file IN
    IF i = Json THEN t
    ELSE IF i \in {Gate, Md, Evidence} THEN files[Json].draft
    ELSE IF i = Pdf THEN files[Md].draft
    ELSE NoOne
Retests(i) == IF i \in Rechecked THEN {TRUE}
              ELSE IF i = Transcript /\ audio THEN BOOLEAN      \* transcribed, or copied
              ELSE {FALSE}
Work(t) ==
    /\ Place(t) = "work"
    /\ \E blocked \in IF inv[t].file = Gate THEN BOOLEAN ELSE {FALSE},
          again \in Retests(inv[t].file) :
          /\ inv' = [inv EXCEPT ![t].at = IF again THEN "retest" ELSE "write",
                                ![t].draft = DraftFor(t), ![t].blocked = blocked]
          /\ allowed' = IF inv[t].file = Gate /\ ~blocked THEN allowed \cup {DraftFor(t)}
                        ELSE allowed
    /\ UNCHANGED <<audio, run, files, raced, overlaid>>

\* It has found the file missing, and will not be refused to write it.
Writing(t, i) == /\ inv[t].file = i
                 /\ Place(t) = "write" \/ (Place(t) \in {"work", "retest"} /\ i \notin Rechecked)
Put(t) ==
    LET i == inv[t].file IN
    /\ Place(t) = "write"
    /\ files' = [files EXCEPT ![i] = [by |-> t, draft |-> inv[t].draft]]
    /\ raced' = IF \E u \in Invocations \ {t} : Writing(u, i) THEN raced \cup {i} ELSE raced
    /\ Updates(t, "art")
    /\ UNCHANGED <<audio, run, overlaid, allowed>>

\* An adapter, a provider, the disk; a manifest that cannot be loaded, or whose
\* temporary file, which all saves share, another has renamed.
Fault(t) ==
    /\ Place(t) \in {"work", "load", "save"}
    /\ Raises(t)
    /\ UNCHANGED <<audio, run, files, raced, overlaid, allowed>>

-----------------------------------------------------------------------------
(* update_run_state: the document is loaded, changed and saved.            *)

Load(t) ==
    /\ Place(t) = "load"
    /\ inv' = [inv EXCEPT ![t].at = "save", ![t].seen = run]
    /\ UNCHANGED <<audio, run, files, raced, overlaid, allowed>>

ChangedReplacing(d, t) ==                   \* mutant: artifacts are not appended
    CASE inv[t].change = "art"       -> [d EXCEPT !.arts = {inv[t].file}]
      [] inv[t].change = "running"   -> [d EXCEPT !.status = "running"]
      [] inv[t].change = "succeeded" -> [d EXCEPT !.status = "succeeded",
                                                  !.outputs = inv[t].found \cap Pointers]
      [] inv[t].change = "failed"    -> [d EXCEPT !.status = "failed"]
      [] OTHER                       -> d
Changed(d, t) ==
    CASE inv[t].change = "art"       -> [d EXCEPT !.arts = @ \cup {inv[t].file}]
      [] inv[t].change = "running"   -> [d EXCEPT !.status = "running"]
      [] inv[t].change = "succeeded" -> [d EXCEPT !.status = "succeeded",
                                                  !.outputs = inv[t].found \cap Pointers]
      [] inv[t].change = "failed"    -> [d EXCEPT !.status = "failed"]
      [] OTHER                       -> d           \* a stage that was skipped

\* What follows: before the first file inside the try the status, then the next file,
\* at last the outputs.  A gate that blocked raises once its report is recorded.
\* (Progress is saved between the files, too: saves that change nothing the model has,
\* and overlap others no differently from those of the artifacts.)
NextFile(t) == inv' = [inv EXCEPT ![t].at = BeginFile(inv[t].file + 1), ![t].file = @ + 1,
                                  ![t].seen = Fresh, ![t].draft = NoOne]
AfterArtUngated(t) ==                       \* mutant: a blocked draft is rendered
    LET i == inv[t].file IN
    IF i = Normalized THEN Updates(t, "running")
    ELSE IF i = Pdf THEN Goes(t, "finish")
    ELSE NextFile(t)
AfterArt(t) ==
    LET i == inv[t].file IN
    IF i = Normalized THEN Updates(t, "running")
    ELSE IF i = Gate /\ inv[t].blocked THEN Raises(t)
    ELSE IF i = Pdf THEN Goes(t, "finish")
    ELSE NextFile(t)
AfterSave(t) ==
    CASE inv[t].change = "art" -> AfterArt(t)
      [] inv[t].change = "skip" -> Updates(t, "running")
      [] inv[t].change = "running" ->
            inv' = [inv EXCEPT ![t].at = "test", ![t].file = Transcript,
                               ![t].seen = Fresh, ![t].inside = TRUE]
      [] OTHER -> Ends(t, "ended")

\* What is renamed over run.json is what the temporary file holds: the document of
\* this invocation, or that of another which is saving, too.
Save(t) ==
    /\ Place(t) = "save"
    /\ \E u \in Invocations :
          /\ Place(u) = "save"
          /\ run' = Changed(inv[u].seen, u)
          /\ overlaid' = (overlaid \/ u # t \/ run # inv[t].seen)
    /\ AfterSave(t)
    /\ UNCHANGED <<audio, files, raced, allowed>>

\* build_primary_outputs, of the artifacts recorded by now.
Finish(t) ==
    /\ Place(t) = "finish"
    /\ inv' = [inv EXCEPT ![t].at = "load", ![t].change = "succeeded", ![t].found = run.arts]
    /\ UNCHANGED <<audio, run, files, raced, overlaid, allowed>>

InvNext == \E t \in Invocations :
    \/ Invoke(t) \/ Test(t) \/ Work(t) \/ Put(t) \/ Fault(t)
    \/ Load(t) \/ Save(t) \/ Finish(t)
InvSpec == InvInit /\ [][InvNext]_invVars

-----------------------------------------------------------------------------
InvTypeOK ==
    /\ audio \in BOOLEAN /\ run \in RunDoc
    /\ files \in [Files -> [by : Drafts, draft : Drafts]]
    /\ inv \in [Invocations -> Locals]
    /\ raced \subseteq Files /\ overlaid \in BOOLEAN /\ allowed \subseteq Drafts

\* Whatever else was invoked, what a successful invocation hands out is its own from
\* the first file to the last, but for files two had found missing at once.
SuccessIsOwn ==
    \A t \in Invocations : Place(t) = "ended" /\ inv[t].change = "succeeded" =>
        \A i \in First..Pdf : files[i].by = t \/ i \in raced

\* No page, evidence or PDF is of a draft that no gate has allowed, whosever
\* draft it is, unless two wrote the draft at once.
OnlyAllowedPublished ==
    \A i \in Published : Present(i) => files[i].draft \in allowed \/ Json \in raced

\* The receipt of the input is what excludes a second invocation: where the audio is
\* needed, and the receipt was not written by two at once, a run that has succeeded or
\* failed stays as it is.
ReceiptExcludes ==
    [][run.status \in Completed /\ run' # run => ~audio \/ Receipt \in raced]_invVars

\* A run that has succeeded hands out everything; and once all are done, and none died,
\* the run is not left running: unless a save lost what another had recorded.
OutputsKept == run.status = "succeeded" => run.outputs = Pointers
RestIsTerminal ==
    /\ \A t \in Invocations : Place(t) \in {"new", "refused", "ended"}
    /\ \E t \in Invocations : Place(t) = "ended"
    => run.status \in Completed
SavesExplained == overlaid \/ (OutputsKept /\ RestIsTerminal)
=============================================================================
