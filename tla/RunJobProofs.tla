---------------------------- MODULE RunJobProofs ----------------------------
(***************************************************************************)
(* Theorems about RunJob, for every set of plans, every set of transcript  *)
(* versions and every bound.  Those about the status, the gate and the     *)
(* cancel request rest on one inductive invariant, IInv, whose parts are   *)
(* proved a lemma each: TypeStep, ThreadStep, CancelStep, GateStep.  Each  *)
(* part needs ThreadInv, which says what the thread's label implies of the *)
(* status and the step.  Those about a run's results rest on ResultInv     *)
(* beside it: KindStep, LeadStep, OutputStep, ProgressStep.                *)
(***************************************************************************)
EXTENDS RunJob, TLAPS

\* A directory that files were written to is still a directory.
LEMMA WrittenType ==
    ASSUME TypeOK, NEW fs \in SUBSET Files, NEW v \in {"none", "allowed", "blocked"}
    PROVE  Written(fs, v) \in RunDir
<1>1. SubstrateStamp \in Versions
  BY DEF TypeOK, SubstrateStamp, Versions, Locals
<1>2. QED
  BY <1>1 DEF TypeOK, Written, RunDir, Versions

\* An exception is one of those the handler records.
LEMMA RaiseType ==
    ASSUME TypeOK, NEW e \in Errors, Raise(e)
    PROVE  pc' \in Labels /\ th' \in Locals
BY DEF TypeOK, Raise, Locals, Labels

\* Operations write artifacts the model knows.
LEMMA WritesAtType ==
    ASSUME NEW l \in DOMAIN OpFiles
    PROVE  WritesAt(l) \in SUBSET Files
BY DEF WritesAt, OpFiles, Files

\* The common form of an operation keeps every variable in its type.
LEMMA ProduceType ==
    ASSUME TypeOK, NEW l \in DOMAIN OpFiles, NEW next \in Labels, Produce(l, next)
    PROVE  TypeOK'
<1>1. WritesAt(l) \in SUBSET Files
  BY WritesAtType
<1>2. Written(WritesAt(l), "none") \in RunDir
  BY <1>1, WrittenType
<1>3. CASE pc' = next /\ dir' = Written(WritesAt(l), "none")
           /\ run' = [run EXCEPT !.arts = @ \cup (WritesAt(l) \cap Recorded)]
           /\ UNCHANGED th
  BY <1>2, <1>3 DEF TypeOK, Produce, RunJson, fixed, outside
<1>4. CASE Raise("FileExistsError") /\ UNCHANGED <<dir, run>>
  BY <1>4, RaiseType DEF TypeOK, Produce, Errors, fixed, outside
<1>5. QED
  BY <1>3, <1>4 DEF Produce

\* Cur is a step of the plan wherever the thread executes one.
LEMMA CurType ==
    ASSUME TypeOK, th.step \in DOMAIN plan
    PROVE  Cur \in Step /\ Len(plan) \in Nat /\ Len(plan) # 0
BY PlansAssumption DEF TypeOK, Cur

\* Progress is a whole number.
LEMMA PercentType ==
    ASSUME TypeOK, th.step \in DOMAIN plan
    PROVE  /\ StartPct \in Int /\ EndPct \in Int /\ SubPct \in Int
           /\ NextSub \in 0..9
<1>1. Len(plan) \in Nat \ {0} /\ th.step \in Nat /\ th.sub \in 0..9
  BY CurType DEF TypeOK, Locals
<1>2. \A i \in Int : Bound(i) \in Int
  BY <1>1 DEF Bound
<1>3. StartPct \in Int /\ EndPct \in Int
  <2>1. th.step \in Int /\ th.step - 1 \in Int
    BY <1>1
  <2>2. Bound(th.step - 1) \in Int /\ Bound(th.step) \in Int
    BY <2>1, <1>2
  <2>3. QED
    BY <2>2 DEF StartPct, EndPct
<1>4. SubTotal \in {7, 9}
  BY DEF SubTotal
<1>5. SubPct \in Int
  <2>1. th.sub * (EndPct - StartPct) \in Int
    BY <1>1, <1>3
  <2>2. QED
    BY <2>1, <1>3, <1>4 DEF SubPct
<1>6. NextSub \in 0..9
  BY <1>1, <1>4 DEF NextSub
<1>7. QED
  BY <1>3, <1>5, <1>6

\* The labels the tables of RunJob name are labels; a step starts in the loop.
LEMMA LabelFacts == /\ DOMAIN AfterCheck \subseteq LoopLabels \cup {"chk_begin"}
                    /\ DOMAIN OpFiles \subseteq LoopLabels \cup {"resolve", "normalize"}
                    /\ DOMAIN AfterCheck \subseteq Labels /\ DOMAIN OpFiles \subseteq Labels
                    /\ \A l \in DOMAIN AfterCheck : AfterCheck[l] \in Labels
                    /\ \A k \in Kinds : FirstLabel[k] \in LoopLabels
                    /\ LoopLabels \subseteq Labels
BY DEF AfterCheck, OpFiles, LoopLabels, Labels, BeforeTry, FirstLabel, Kinds

\* So does an operation that is cut short.
LEMMA PartlyWrittenType ==
    ASSUME TypeOK, pc \in DOMAIN OpFiles, PartlyWritten
    PROVE  dir' \in RunDir
BY WritesAtType, WrittenType DEF PartlyWritten, Verdicts

\* Type correctness is inductive, given that the thread is at a step of its
\* plan wherever it computes progress (ThreadInv).
LEMMA TypeStep ==
    ASSUME IInv, [Next]_vars
    PROVE  TypeOK'
<1> USE DEF fixed, outside
<1>1. TypeOK /\ ThreadInv
  BY DEF IInv
<1>2. ASSUME pc \in LoopLabels
      PROVE  /\ th.step \in DOMAIN plan /\ StartPct \in Int /\ EndPct \in Int
             /\ SubPct \in Int /\ NextSub \in 0..9 /\ Cur \in Step
  BY <1>1, <1>2, PercentType, CurType DEF ThreadInv
<1> SUFFICES ASSUME Next
             PROVE  TypeOK'
  BY <1>1 DEF vars, TypeOK, RunJson, RunDir, Session, Locals
<1>3. CASE Invoke
  BY <1>1, <1>3 DEF Invoke, TypeOK, Labels, OpFiles
<1>4. CASE DieBeforeTry
  BY <1>1, <1>4 DEF DieBeforeTry, TypeOK, Labels
<1>5. CASE SkipNormalize
  BY <1>1, <1>5 DEF SkipNormalize, TypeOK, Labels
<1>6. CASE StartRunning
  <2>1. run' \in RunJson
    <3>1. run \in RunJson /\ "running" \in Statuses /\ 0 \in Int
      BY <1>1 DEF TypeOK, Statuses
    <3>2. QED
      BY <1>6, <3>1, Zenon DEF StartRunning, RunJson
  <2>2. th' \in Locals
    BY <1>1, <1>6 DEF StartRunning, TypeOK, Locals
  <2>3. QED
    BY <1>1, <1>6, <2>1, <2>2 DEF StartRunning, TypeOK, Labels, AfterCheck
<1>7. CASE Checkpoint
  <2>1. pc' \in Labels
    BY <1>1, <1>7, LabelFacts DEF Checkpoint, TypeOK, Labels
  <2>2. CASE Bumps
    <3>1. pc \in LoopLabels
      BY <1>7, <2>2 DEF Bumps, BumpThenCheck, CheckThenBump, LoopLabels, Labels, AfterCheck, BeforeTry
    <3>2. QED
      BY <1>1, <1>2, <1>7, <2>1, <2>2, <3>1 DEF Checkpoint, TypeOK, RunJson, Locals
  <2>3. CASE ~Bumps
    BY <1>1, <1>7, <2>1, <2>3 DEF Checkpoint, TypeOK
  <2>4. QED
    BY <2>2, <2>3
<1>8. CASE EnterSteps
  BY <1>1, <1>8 DEF EnterSteps, TypeOK, Labels, RunJson, AfterCheck
<1>9. CASE BeginStep
  <2>1. pc \in LoopLabels
    BY <1>9 DEF BeginStep, LoopLabels, Labels, BeforeTry
  <2>2. pc' \in Labels
    BY <1>2, <1>9, <2>1, LabelFacts DEF BeginStep, Step
  <2>3. run' \in RunJson
    BY <1>1, <1>2, <1>9, <2>1 DEF BeginStep, TypeOK, RunJson
  <2>4. th' \in Locals
    <3>1. th \in Locals /\ 0 \in 0..9 /\ NoTrv \in Versions /\ FALSE \in BOOLEAN
      BY <1>1 DEF TypeOK, Versions
    <3>2. QED
      BY <1>9, <3>1, Zenon DEF BeginStep, Locals
  <2>5. QED
    BY <1>1, <1>9, <2>2, <2>3, <2>4 DEF BeginStep, TypeOK
<1>10. CASE EndStep
  <2>1. pc \in LoopLabels
    BY <1>10 DEF EndStep, LoopLabels, Labels, BeforeTry
  <2>2. run' \in RunJson
    BY <1>1, <1>2, <1>10, <2>1 DEF EndStep, TypeOK, RunJson
  <2>3. th' \in Locals
    BY <1>1, <1>10 DEF EndStep, TypeOK, Locals
  <2>4. QED
    BY <1>1, <1>10, <2>2, <2>3 DEF EndStep, TypeOK, Labels, AfterCheck
<1>11. CASE ExtractOnly
  BY <1>1, <1>11, RaiseType DEF ExtractOnly, TypeOK, Errors
<1>12. CASE SelectSubstrate
  <2>1. pc \in LoopLabels
    BY <1>12 DEF SelectSubstrate, LoopLabels, Labels, BeforeTry
  <2>2. (IF Cur.trv # NoTrv THEN Cur.trv ELSE ses.active) \in Versions
    BY <1>1, <1>2, <2>1 DEF TypeOK, Step, Session, Versions
  <2>3. QED
    BY <1>1, <1>2, <1>12, <2>1, <2>2
       DEF SelectSubstrate, TypeOK, RunJson, Locals, Labels, AfterCheck, OpFiles
<1>13. CASE ReuseTranscripts
  <2>1. pc \in LoopLabels /\ "reuse" \in DOMAIN OpFiles
    BY <1>13 DEF ReuseTranscripts, LoopLabels, Labels, BeforeTry, OpFiles
  <2>2. Written(WritesAt("reuse"), "none") \in RunDir
    BY <1>1, <2>1, WritesAtType, WrittenType
  <2>3. CASE base.present /\ Absent(WritesAt("reuse"))
    <3>1. run' \in RunJson
      <4>1. /\ run \in RunJson /\ SubPct \in Int
            /\ run.arts \cup (WritesAt("reuse") \cap Recorded) \in SUBSET Recorded
        BY <1>1, <1>2, <2>1 DEF TypeOK, RunJson
      <4>2. QED
        BY <1>13, <4>1, Zenon DEF ReuseTranscripts, RunJson
    <3>2. th' \in Locals
      BY <1>1, <1>2, <1>13, <2>1, <2>3 DEF ReuseTranscripts, TypeOK, Locals
    <3>3. QED
      BY <1>1, <1>13, <2>2, <2>3, <3>1, <3>2
         DEF ReuseTranscripts, TypeOK, Labels, OpFiles
  <2>4. CASE ~(base.present /\ Absent(WritesAt("reuse")))
    BY <1>1, <1>2, <1>13, <2>1, <2>4, RaiseType
       DEF ReuseTranscripts, TypeOK, RunJson, Errors
  <2>5. QED
    BY <2>3, <2>4
<1>14. CASE PinSelection
  <2>1. pc \in LoopLabels
    BY <1>14 DEF PinSelection, LoopLabels, Labels, BeforeTry
  <2>2. QED
    BY <1>1, <1>2, <1>14, <2>1
       DEF PinSelection, TypeOK, RunJson, Locals, Labels, OpFiles, Session
<1>15. CASE MaterializeVersion
  <2>1. "materialize" \in DOMAIN OpFiles /\ "policy" \in Labels
    BY DEF OpFiles, Labels
  <2>2. Written(WritesAt("materialize"), "none") \in RunDir
    BY <1>1, <2>1, WritesAtType, WrittenType
  <2>3. "FileNotFoundError" \in Errors /\ "FileExistsError" \in Errors
    BY DEF Errors
  <2>4. QED
    BY <1>1, <1>15, <2>1, <2>2, <2>3, RaiseType DEF MaterializeVersion, TypeOK
<1>16. CASE DiarizationPolicy
  BY <1>1, <1>16, ProduceType DEF DiarizationPolicy, OpFiles, Labels, AfterCheck
<1>17. CASE Align
  <2>1. Written(WritesAt("align"), "none") \in RunDir
    BY <1>1, WritesAtType, WrittenType DEF OpFiles
  <2>2. CASE Raise("FileExistsError")
    BY <1>1, <1>17, <2>2, RaiseType DEF Align, TypeOK, Errors, Raise
  <2>3. CASE ~Raise("FileExistsError")
    <3>1. run' \in RunJson
      <4>1. /\ run \in RunJson /\ run.arts \cup {"aligned"} \in SUBSET Recorded
        BY <1>1 DEF TypeOK, RunJson, Recorded
      <4>2. QED
        BY <1>17, <2>3, <4>1, Zenon DEF Align, RunJson
    <3>2. QED
      BY <1>1, <1>17, <2>1, <2>3, <3>1 DEF Align, TypeOK, Labels, AfterCheck
  <2>4. QED
    BY <2>2, <2>3
<1>18. CASE EmitVersion
  <2>1. Written(WritesAt("emit"), "none") \in RunDir
    BY <1>1, WritesAtType, WrittenType DEF OpFiles
  <2>2. dir' \in RunDir
    BY <1>1, <1>18, <2>1 DEF EmitVersion, TypeOK
  <2>3. CASE Raise("ValueError") /\ UNCHANGED ses
    BY <1>1, <1>18, <2>2, <2>3, RaiseType DEF EmitVersion, TypeOK, Errors
  <2>4. CASE \E v \in Trvs \ ses.minted :
               /\ ses' = [versions |-> ses.versions \cup {v},
                          minted |-> ses.minted \cup {v}, active |-> v]
               /\ th' = [th EXCEPT !.used = v]
               /\ pc' = "stamp"
    BY <1>1, <1>18, <2>2, <2>4 DEF EmitVersion, TypeOK, Session, Locals, Labels, Versions
  <2>5. QED
    BY <1>18, <2>3, <2>4 DEF EmitVersion
<1>19. CASE StampProduced
  BY <1>1, <1>19 DEF StampProduced, TypeOK, RunJson, RunDir, Locals, Labels, AfterCheck
<1>20. CASE Ingest
  BY <1>1, <1>20, ProduceType DEF Ingest, OpFiles, Labels, AfterCheck
<1>21. CASE TruthGate
  <2>1. /\ Written(WritesAt("gate"), "allowed") \in RunDir
        /\ Written(WritesAt("gate"), "blocked") \in RunDir
    BY <1>1, WritesAtType, WrittenType DEF OpFiles
  <2>2. CASE pc' = "on_failed"
    BY <1>1, <1>21, <2>1, <2>2, RaiseType DEF TruthGate, TypeOK, Errors
  <2>3. CASE pc' # "on_failed"
    BY <1>1, <1>21, <2>1, <2>3 DEF TruthGate, TypeOK, RunJson, Locals, Labels, AfterCheck, Raise
  <2>4. QED
    BY <2>2, <2>3
<1>22. CASE StartEvidenceMap
  <2>1. pc \in LoopLabels
    BY <1>22 DEF StartEvidenceMap, LoopLabels, Labels, BeforeTry
  <2>2. QED
    BY <1>1, <1>2, <1>22, <2>1 DEF StartEvidenceMap, TypeOK, RunJson, Locals, Labels, OpFiles
<1>23. CASE Succeed
  <2>1. PrimaryOutputs \in Outputs
    BY <1>1 DEF PrimaryOutputs, Outputs, TypeOK, RunJson
  <2>2. run' \in RunJson
    <3>1. run \in RunJson /\ "succeeded" \in Statuses /\ 100 \in Int
      BY <1>1 DEF TypeOK, Statuses
    <3>2. QED
      BY <1>23, <2>1, <3>1, Zenon DEF Succeed, RunJson
  <2>3. QED
    BY <1>1, <1>23, <2>2 DEF Succeed, TypeOK, Labels
<1>24. CASE Cancel
  BY <1>1, <1>24 DEF Cancel, TypeOK, RunJson, Labels, Statuses, Errors
<1>25. CASE Fail
  BY <1>1, <1>25 DEF Fail, TypeOK, RunJson, Locals, Labels, Statuses
<1>26. CASE AdapterRaises
  <2>1. dir' \in RunDir
    BY <1>1, <1>26, PartlyWrittenType DEF AdapterRaises
  <2>2. QED
    BY <1>1, <1>26, <2>1, RaiseType DEF AdapterRaises, TypeOK, Errors
<1>27. CASE Crash
  <2>1. dir' \in RunDir
    BY <1>1, <1>27, PartlyWrittenType DEF Crash, TypeOK
  <2>2. QED
    BY <1>1, <1>27, <2>1 DEF Crash, TypeOK, Labels
<1>28. CASE Web
  BY <1>1, <1>28 DEF Web, CancelRead, CancelWrite, SelectTranscript, DeleteTranscript,
                     TypeOK, Session, Versions
<1>29. CASE ResolveInput
  BY <1>1, <1>29, ProduceType DEF ResolveInput, OpFiles, Labels, AfterCheck
<1>30. CASE Normalize
  BY <1>1, <1>30, ProduceType DEF Normalize, OpFiles, Labels, AfterCheck
<1>31. CASE MapSpeakers
  BY <1>1, <1>31, ProduceType DEF MapSpeakers, OpFiles, Labels, AfterCheck
<1>32. CASE SearchLibrary
  BY <1>1, <1>32, ProduceType DEF SearchLibrary, OpFiles, Labels, AfterCheck
<1>33. CASE Transcribe
  BY <1>1, <1>33, ProduceType DEF Transcribe, OpFiles, Labels, AfterCheck
<1>34. CASE Diarize
  BY <1>1, <1>34, ProduceType DEF Diarize, OpFiles, Labels, AfterCheck
<1>35. CASE FormalizeJson
  BY <1>1, <1>35, ProduceType DEF FormalizeJson, OpFiles, Labels, AfterCheck
<1>36. CASE RenderMd
  BY <1>1, <1>36, ProduceType DEF RenderMd, OpFiles, Labels, AfterCheck
<1>37. CASE RenderTxt
  BY <1>1, <1>37, ProduceType DEF RenderTxt, OpFiles, Labels, AfterCheck
<1>38. CASE EvidenceMap
  BY <1>1, <1>38, ProduceType DEF EvidenceMap, OpFiles, Labels, AfterCheck
<1>39. CASE RenderPdf
  BY <1>1, <1>39, ProduceType DEF RenderPdf, OpFiles, Labels, AfterCheck
<1>40. QED
  BY <1>3, <1>4, <1>5, <1>6, <1>7, <1>8, <1>9, <1>10, <1>11, <1>12, <1>13, <1>14, <1>15, <1>16, <1>17, <1>18, <1>19, <1>20, <1>21, <1>22, <1>23, <1>24, <1>25, <1>26, <1>27, <1>28, <1>29, <1>30, <1>31, <1>32, <1>33, <1>34, <1>35, <1>36, <1>37, <1>38, <1>39 DEF Next, Thread

-----------------------------------------------------------------------------
(* What the pipeline operations of a step have in common: they move within *)
(* the step or raise, and touch neither the status nor the step counter.   *)

Operation ==
    \/ MapSpeakers \/ SearchLibrary \/ ExtractOnly
    \/ SelectSubstrate \/ ReuseTranscripts \/ PinSelection \/ MaterializeVersion
    \/ Transcribe \/ DiarizationPolicy \/ Diarize \/ Align
    \/ EmitVersion \/ StampProduced \/ Ingest \/ FormalizeJson \/ TruthGate
    \/ RenderMd \/ RenderTxt \/ StartEvidenceMap \/ EvidenceMap \/ RenderPdf
    \/ AdapterRaises

\* The operations a step may end with, no checkpoint after them.
LastOperation == \/ pc \in {"pdf", "overlay", "search"}
                 \/ pc = "ingest" /\ Cur.kind # "formalize"

Effect == /\ pc \in LoopLabels \ (DOMAIN AfterCheck \cup {"begin", "end_step"})
          /\ pc' \in (LoopLabels \ {"begin", "pdf", "overlay", "search", "ingest"})
                     \cup {"on_failed"}
          /\ pc' = "end_step" => LastOperation
          /\ LastOperation => pc' \in {"end_step", "on_failed"}
          /\ th'.step = th.step /\ run'.status = run.status
          /\ UNCHANGED <<plan, receipt, timely, nInvoked>>

\* The common form of an operation goes on or raises, and leaves the status,
\* the step and the cancel receipt alone.
LEMMA ProduceEffect ==
    ASSUME TypeOK, NEW l, NEW next, Produce(l, next)
    PROVE  /\ pc = l /\ pc' \in {next, "on_failed"}
           /\ th'.step = th.step /\ run'.status = run.status
           /\ UNCHANGED <<plan, receipt, timely, nInvoked>>
BY DEF TypeOK, Produce, Raise, RunJson, Locals, fixed, outside

\* So does every operation; and only the last of a step ends it.
LEMMA OperationEffect ==
    ASSUME TypeOK, Operation
    PROVE  Effect
<1> USE DEF Effect, LastOperation, LoopLabels, Labels, BeforeTry, AfterCheck
<1>0. run \in RunJson /\ th \in Locals
  BY DEF TypeOK
<1>1. CASE MapSpeakers
  BY <1>1, ProduceEffect DEF MapSpeakers, OpFiles
<1>2. CASE SearchLibrary
  BY <1>2, ProduceEffect DEF SearchLibrary, OpFiles
<1>3. CASE Transcribe
  BY <1>3, ProduceEffect DEF Transcribe, OpFiles
<1>4. CASE DiarizationPolicy
  BY <1>4, ProduceEffect DEF DiarizationPolicy, OpFiles
<1>5. CASE Diarize
  BY <1>5, ProduceEffect DEF Diarize, OpFiles
<1>6. CASE Ingest
  BY <1>6, ProduceEffect DEF Ingest, OpFiles
<1>7. CASE FormalizeJson
  BY <1>7, ProduceEffect DEF FormalizeJson, OpFiles
<1>8. CASE RenderMd
  BY <1>8, ProduceEffect DEF RenderMd, OpFiles
<1>9. CASE RenderTxt
  BY <1>9, ProduceEffect DEF RenderTxt, OpFiles
<1>10. CASE EvidenceMap
  BY <1>10, ProduceEffect DEF EvidenceMap, OpFiles
<1>11. CASE RenderPdf
  BY <1>11, ProduceEffect DEF RenderPdf, OpFiles
<1>12. CASE ExtractOnly
  BY <1>0, <1>12 DEF ExtractOnly, Raise, RunJson, Locals, fixed, outside, OpFiles
<1>13. CASE SelectSubstrate
  BY <1>0, <1>13 DEF SelectSubstrate, Raise, RunJson, Locals, fixed, outside, OpFiles
<1>14. CASE ReuseTranscripts
  BY <1>0, <1>14 DEF ReuseTranscripts, Raise, RunJson, Locals, fixed, outside, OpFiles
<1>15. CASE PinSelection
  BY <1>0, <1>15 DEF PinSelection, Raise, RunJson, Locals, fixed, outside, OpFiles
<1>16. CASE MaterializeVersion
  BY <1>0, <1>16 DEF MaterializeVersion, Raise, RunJson, Locals, fixed, outside, OpFiles
<1>17. CASE Align
  BY <1>0, <1>17 DEF Align, Raise, RunJson, Locals, fixed, outside, OpFiles
<1>18. CASE EmitVersion
  BY <1>0, <1>18 DEF EmitVersion, Raise, RunJson, Locals, fixed, outside, OpFiles
<1>19. CASE StampProduced
  BY <1>0, <1>19 DEF StampProduced, Raise, RunJson, Locals, fixed, outside, OpFiles
<1>20. CASE TruthGate
  BY <1>0, <1>20 DEF TruthGate, Raise, RunJson, Locals, fixed, outside, OpFiles
<1>21. CASE StartEvidenceMap
  BY <1>0, <1>21 DEF StartEvidenceMap, Raise, RunJson, Locals, fixed, outside, OpFiles
<1>22. CASE AdapterRaises
  BY <1>0, <1>22 DEF AdapterRaises, Raise, RunJson, Locals, fixed, outside, OpFiles
<1>23. QED
  BY <1>1, <1>2, <1>3, <1>4, <1>5, <1>6, <1>7, <1>8, <1>9, <1>10, <1>11, <1>12, <1>13, <1>14, <1>15, <1>16, <1>17, <1>18, <1>19, <1>20, <1>21, <1>22 DEF Operation

\* The cases of a step, with the operations taken together.
LEMMA StepCases ==
    ASSUME Next
    PROVE  \/ Operation \/ Invoke \/ DieBeforeTry \/ ResolveInput \/ Normalize
           \/ SkipNormalize \/ StartRunning \/ Checkpoint \/ EnterSteps
           \/ BeginStep \/ EndStep \/ Succeed \/ Cancel \/ Fail \/ Crash \/ Web
BY DEF Next, Thread, Operation

\* The label of the thread determines the status, whatever the others do.
LEMMA ThreadStep ==
    ASSUME IInv, [Next]_vars
    PROVE  ThreadInv'
<1> USE DEF ThreadInv, InTry, LoopLabels, Labels, BeforeTry, Completed, fixed, outside
<1>0. TypeOK /\ ThreadInv /\ run \in RunJson /\ th \in Locals /\ nInvoked \in Nat
  BY DEF IInv, TypeOK
<1>1. CASE Operation
  BY <1>0, <1>1, OperationEffect DEF Effect
<1>2. CASE Invoke
  BY <1>0, <1>2 DEF Invoke
<1>3. CASE DieBeforeTry
  BY <1>0, <1>3 DEF DieBeforeTry
<1>4. CASE ResolveInput
  BY <1>0, <1>4, ProduceEffect DEF ResolveInput, Produce
<1>5. CASE Normalize
  BY <1>0, <1>5, ProduceEffect DEF Normalize, Produce
<1>6. CASE SkipNormalize
  BY <1>0, <1>6 DEF SkipNormalize
<1>7. CASE StartRunning
  BY <1>0, <1>7 DEF StartRunning, RunJson, Locals
<1>8. CASE Checkpoint
  <2>1. run'.status = run.status /\ th'.step = th.step
    BY <1>0, <1>8 DEF Checkpoint, RunJson, Locals
  <2>2. QED
    BY <1>0, <1>8, <2>1 DEF Checkpoint, AfterCheck
<1>9. CASE EnterSteps
  BY <1>0, <1>9, PlansAssumption DEF EnterSteps, RunJson, TypeOK
<1>10. CASE BeginStep
  <2>1. th.step \in DOMAIN plan
    BY <1>0, <1>10 DEF BeginStep
  <2>2. pc' \in LoopLabels
    BY <1>0, <1>10, <2>1, CurType, LabelFacts DEF BeginStep, Step
  <2>3. run'.status = run.status /\ th'.step = th.step
    BY <1>0, <1>10 DEF BeginStep, RunJson, Locals
  <2>4. QED
    BY <1>0, <1>10, <2>1, <2>2, <2>3 DEF BeginStep
<1>11. CASE EndStep
  <2>1. plan \in Seq(Step) /\ th.step \in 1..Len(plan)
    BY <1>0, <1>11, PlansAssumption DEF EndStep, TypeOK
  <2>2. run'.status = run.status
    BY <1>0, <1>11 DEF EndStep, RunJson
  <2>3. QED
    BY <1>0, <1>11, <2>1, <2>2 DEF EndStep, Locals
<1>12. CASE Succeed \/ Cancel \/ Fail
  BY <1>0, <1>12 DEF Succeed, Cancel, Fail
<1>13. CASE Crash
  BY <1>0, <1>13 DEF Crash
<1>14. CASE Web
  BY <1>0, <1>14 DEF Web, CancelRead, CancelWrite, SelectTranscript, DeleteTranscript
<1>15. CASE UNCHANGED vars
  BY <1>0, <1>15 DEF vars
<1>16. QED
  BY StepCases, <1>1, <1>2, <1>3, <1>4, <1>5, <1>6, <1>7, <1>8, <1>9, <1>10,
     <1>11, <1>12, <1>13, <1>14, <1>15

\* A receipt stays visible until the thread meets a checkpoint, or lies where
\* none follows.
LEMMA CancelStep ==
    ASSUME IInv, [Next]_vars
    PROVE  CancelInv'
<1> USE DEF CancelInv, CancelHonoured, PastLastCheck, fixed, outside
<1>0. TypeOK /\ ThreadInv /\ CancelInv /\ run \in RunJson /\ th \in Locals
  BY DEF IInv, TypeOK
<1>1. CASE Operation
  <2>1. Effect
    BY <1>0, <1>1, OperationEffect
  <2>2. plan' = plan /\ Cur' = Cur
    BY <2>1 DEF Effect, Cur
  <2>3. run.status = "running"
    BY <1>0, <2>1 DEF Effect, ThreadInv, InTry, LoopLabels
  <2>4. QED
    BY <1>0, <2>1, <2>2, <2>3
       DEF Effect, LastOperation, LoopLabels, Labels, BeforeTry, AfterCheck
<1>2. CASE Invoke
  BY <1>0, <1>2 DEF Invoke, Completed
<1>3. CASE DieBeforeTry
  BY <1>0, <1>3 DEF DieBeforeTry
<1>4. CASE ResolveInput
  BY <1>0, <1>4, ProduceEffect DEF ResolveInput
<1>5. CASE Normalize
  BY <1>0, <1>5, ProduceEffect DEF Normalize
<1>6. CASE SkipNormalize
  BY <1>0, <1>6 DEF SkipNormalize
<1>7. CASE StartRunning
  BY <1>0, <1>7 DEF StartRunning, RunJson
<1>8. CASE Checkpoint
  <2>1. run'.status = run.status /\ th'.step = th.step
    BY <1>0, <1>8 DEF Checkpoint, RunJson, Locals
  <2>2. run.status = "running" /\ pc \in DOMAIN AfterCheck
    BY <1>0, <1>8 DEF Checkpoint, ThreadInv, InTry, BeforeTry, AfterCheck
  <2>3. CASE receipt
    BY <1>0, <1>8, <2>1, <2>2, <2>3 DEF Checkpoint, AfterCheck
  <2>4. CASE ~receipt
    BY <1>0, <1>8, <2>1, <2>2, <2>4 DEF Checkpoint, AfterCheck
  <2>5. QED
    BY <2>3, <2>4
<1>9. CASE EnterSteps
  BY <1>0, <1>9 DEF EnterSteps, RunJson
<1>10. CASE BeginStep
  <2>1. run'.status = run.status /\ th'.step = th.step /\ Cur' = Cur
    BY <1>0, <1>10 DEF BeginStep, RunJson, Locals, Cur
  <2>2. th.step \in DOMAIN plan
    BY <1>0, <1>10 DEF BeginStep, ThreadInv, LoopLabels, Labels, BeforeTry
  <2>3. Cur.kind \in Kinds
    BY <1>0, <2>2, CurType DEF Step
  <2>4. QED
    BY <1>0, <1>10, <2>1, <2>3 DEF BeginStep, FirstLabel, Kinds
<1>11. CASE EndStep
  <2>1. plan \in Seq(Step) /\ th.step \in 1..Len(plan)
    BY <1>0, <1>11, PlansAssumption
       DEF EndStep, TypeOK, ThreadInv, LoopLabels, Labels, BeforeTry
  <2>2. run'.status = run.status
    BY <1>0, <1>11 DEF EndStep, RunJson
  <2>3. QED
    BY <1>0, <1>11, <2>1, <2>2 DEF EndStep, Locals
<1>12. CASE Succeed \/ Cancel \/ Fail
  <2>1. pc' = "idle" /\ UNCHANGED <<receipt, timely>>
    BY <1>12 DEF Succeed, Cancel, Fail
  <2>2. CASE Succeed
    BY <1>0, <2>1, <2>2 DEF Succeed
  <2>3. CASE Cancel \/ Fail
    <3>1. run'.status \in {"cancelled", "failed"}
      BY <1>0, <2>3 DEF Cancel, Fail, RunJson
    <3>2. QED
      BY <2>1, <3>1
  <2>4. QED
    BY <1>12, <2>2, <2>3
<1>13. CASE Crash
  BY <1>0, <1>13 DEF Crash
<1>14. CASE Web
  <2>1. pc # "idle" => run.status \notin Completed
    BY <1>0 DEF ThreadInv
  <2>2. CASE CancelRead
    BY <1>0, <2>2 DEF CancelRead, Cur
  <2>3. CASE CancelWrite
    BY <1>0, <2>1, <2>3 DEF CancelWrite, Cur, Completed
  <2>4. CASE \E v \in Trvs : SelectTranscript(v) \/ DeleteTranscript(v)
    BY <1>0, <2>4 DEF SelectTranscript, DeleteTranscript, Cur
  <2>5. QED
    BY <1>14, <2>2, <2>3, <2>4 DEF Web
<1>15. CASE UNCHANGED vars
  BY <1>0, <1>15 DEF vars, Cur
<1>16. QED
  BY StepCases, <1>1, <1>2, <1>3, <1>4, <1>5, <1>6, <1>7, <1>8, <1>9, <1>10,
     <1>11, <1>12, <1>13, <1>14, <1>15

-----------------------------------------------------------------------------
(* The truth gate.  The files it stands between are written by few actions: *)
(* every other step leaves them, and the verdict, as they are.             *)

Guarded == Published \cup {"json", "truth_gate_report"}
Guards == AfterGate \cup {"chk_gate", "gate"}

Untouched == dir'.gate = dir.gate /\ \A f \in Guarded : dir'.wrote[f] = dir.wrote[f]

\* What writing files does to the directory, file by file.
LEMMA WrittenEffect ==
    ASSUME TypeOK, NEW fs \in SUBSET Files, NEW v, dir' = Written(fs, v)
    PROVE  /\ \A f \in Files : dir'.wrote[f] = IF f \in fs THEN nInvoked ELSE dir.wrote[f]
           /\ dir'.gate = IF "truth_gate_report" \in fs THEN v ELSE dir.gate
BY DEF TypeOK, Written, RunDir

\* A step that leaves the guarded files alone, and does not enter the labels
\* behind the gate, cannot break the gate.
LEMMA UntouchedStep ==
    ASSUME TypeOK, GateInv, Untouched, pc' \notin Guards
    PROVE  GateInv'
BY DEF GateInv, Untouched, Guards, Guarded, AfterGate, PublishedOnlyPastGate, Published

\* Files outside the guarded ones may be written at will.
LEMMA OtherFiles ==
    ASSUME TypeOK, NEW fs \in SUBSET (Files \ Guarded), NEW v, dir' = Written(fs, v)
    PROVE  Untouched
BY WrittenEffect DEF Untouched, Guarded, Published, Files

\* A published file is written at a label behind the gate, and stays there.
LEMMA PublishStep ==
    ASSUME TypeOK, GateInv, nInvoked > 0, pc \in AfterGate,
           NEW fs \in SUBSET Published, NEW v, dir' = Written(fs, v)
    PROVE  GateInv'
<1>1. /\ \A f \in Files : dir'.wrote[f] = IF f \in fs THEN nInvoked ELSE dir.wrote[f]
      /\ dir'.gate = dir.gate
  BY WrittenEffect DEF Files, Published
<1>2. /\ dir'.wrote["json"] = dir.wrote["json"]
      /\ dir'.wrote["truth_gate_report"] = dir.wrote["truth_gate_report"]
  BY <1>1 DEF Files, Published
<1>3. QED
  BY <1>1, <1>2 DEF GateInv, PublishedOnlyPastGate

\* The draft may be written any time: the gate judges what is written.
LEMMA DraftStep ==
    ASSUME TypeOK, GateInv, nInvoked > 0, pc' \notin AfterGate,
           NEW fs \in SUBSET {"json"}, NEW v, dir' = Written(fs, v),
           pc' \in {"chk_gate", "gate"} => "json" \in fs
    PROVE  GateInv'
<1>1. /\ \A f \in Files : dir'.wrote[f] = IF f \in fs THEN nInvoked ELSE dir.wrote[f]
      /\ dir'.gate = dir.gate
  BY WrittenEffect DEF Files
<1>2. /\ \A f \in Published \cup {"truth_gate_report"} : dir'.wrote[f] = dir.wrote[f]
      /\ dir.wrote["json"] # 0 => dir'.wrote["json"] # 0
      /\ "json" \in fs => dir'.wrote["json"] # 0
  BY <1>1 DEF Files, Published, TypeOK
<1>3. QED
  BY <1>1, <1>2 DEF GateInv, PublishedOnlyPastGate

\* A report is written when there is none, hence when nothing is published.
LEMMA VerdictStep ==
    ASSUME TypeOK, GateInv, nInvoked > 0, dir.wrote["truth_gate_report"] = 0,
           NEW fs \in SUBSET {"truth_gate_report"}, NEW v, dir' = Written(fs, v),
           pc' \in {"chk_gate", "gate"} => dir.wrote["json"] # 0,
           pc' \in AfterGate => fs # {} /\ v = "allowed" /\ dir.wrote["json"] # 0
    PROVE  GateInv'
<1>1. /\ \A f \in Files : dir'.wrote[f] = IF f \in fs THEN nInvoked ELSE dir.wrote[f]
      /\ dir'.gate = IF "truth_gate_report" \in fs THEN v ELSE dir.gate
  BY WrittenEffect DEF Files
<1>2. \A f \in Published \cup {"json"} : dir'.wrote[f] = dir.wrote[f]
  BY <1>1 DEF Files, Published
<1>3. dir.gate # "allowed" /\ \A f \in Published : dir.wrote[f] = 0
  BY DEF GateInv, PublishedOnlyPastGate
<1>4. dir'.wrote["truth_gate_report"] = 0 => dir'.gate # "allowed"
  BY <1>1, <1>3 DEF Files
<1>5. QED
  BY <1>1, <1>2, <1>3, <1>4 DEF GateInv, PublishedOnlyPastGate, AfterGate

\* What the operations write, as far as the gate is concerned.
LEMMA GateFiles ==
    /\ \A l \in {"md", "txt", "evidence", "pdf"} :
          l \in AfterGate /\ l \in DOMAIN OpFiles /\ WritesAt(l) \subseteq Published
    /\ WritesAt("json") = {"json"} /\ WritesAt("gate") = {"truth_gate_report"}
    /\ \A l \in DOMAIN OpFiles \ {"md", "txt", "evidence", "pdf", "json", "gate"} :
          WritesAt(l) \subseteq Files \ Guarded
BY DEF WritesAt, OpFiles, AfterGate, Published, Files, Guarded

\* An operation that is cut short, by an exception or with its process.
LEMMA InterruptedStep ==
    ASSUME TypeOK, GateInv, nInvoked > 0, pc \in DOMAIN OpFiles, PartlyWritten,
           pc' \in {"idle", "on_failed"}
    PROVE  GateInv'
<1>1. PICK fs \in SUBSET {f \in WritesAt(pc) : dir.wrote[f] = 0}, v \in Verdicts :
               dir' = Written(fs, v)
  BY DEF PartlyWritten
<1>2. pc' \notin Guards
  BY DEF Guards, AfterGate
<1>3. CASE pc \in {"md", "txt", "evidence", "pdf"}
  BY <1>1, <1>3, GateFiles, PublishStep
<1>4. CASE pc = "json"
  BY <1>1, <1>2, <1>4, GateFiles, DraftStep DEF Guards
<1>5. CASE pc = "gate" /\ fs # {}
  BY <1>1, <1>2, <1>5, GateFiles, VerdictStep DEF Guards
<1>6. CASE fs = {}
  BY <1>1, <1>2, <1>6, OtherFiles, UntouchedStep
<1>7. CASE pc \notin {"md", "txt", "evidence", "pdf", "json", "gate"}
  BY <1>1, <1>2, <1>7, GateFiles, OtherFiles, UntouchedStep
<1>8. QED
  BY <1>3, <1>4, <1>5, <1>6, <1>7

\* Operations outside the gate leave the guarded files alone.
LEMMA ProduceOther ==
    ASSUME TypeOK, GateInv, NEW l \in DOMAIN OpFiles, NEW next, Produce(l, next),
           l \notin {"md", "txt", "evidence", "pdf", "json", "gate"}, next \notin Guards
    PROVE  GateInv'
<1>1. Untouched
  BY GateFiles, OtherFiles DEF Produce, Untouched
<1>2. pc' \notin Guards
  BY ProduceEffect DEF Guards, AfterGate
<1>3. QED
  BY <1>1, <1>2, UntouchedStep

\* Renderings are made behind the gate.
LEMMA ProducePublished ==
    ASSUME TypeOK, GateInv, nInvoked > 0, NEW l \in {"md", "txt", "evidence", "pdf"},
           NEW next, Produce(l, next)
    PROVE  GateInv'
<1>1. pc \in AfterGate
  BY GateFiles DEF Produce
<1>2. CASE dir' = Written(WritesAt(l), "none")
  BY <1>1, <1>2, GateFiles, PublishStep
<1>3. CASE dir' = dir
  BY <1>1, <1>3 DEF GateInv, PublishedOnlyPastGate
<1>4. QED
  BY <1>2, <1>3 DEF Produce

\* Every step keeps the gate: renderings are behind it, the draft and the
\* report come before, the rest writes other files.
LEMMA GateStep ==
    ASSUME IInv, [Next]_vars
    PROVE  GateInv'
<1> USE DEF fixed, outside
<1>0. /\ TypeOK /\ ThreadInv /\ GateInv
      /\ pc # "idle" => nInvoked > 0
  BY DEF IInv, ThreadInv
<1>1. ASSUME dir' = dir, pc' \notin Guards
      PROVE  GateInv'
  BY <1>0, <1>1, UntouchedStep DEF Untouched
<1>2. ASSUME dir' = dir, pc' = pc
      PROVE  GateInv'
  BY <1>0, <1>2 DEF GateInv, PublishedOnlyPastGate
<1> USE DEF Guards, AfterGate
<1>3. CASE MapSpeakers \/ SearchLibrary \/ Transcribe \/ DiarizationPolicy \/ Diarize
           \/ Ingest \/ ResolveInput \/ Normalize
  BY <1>0, <1>3, ProduceOther
     DEF MapSpeakers, SearchLibrary, Transcribe, DiarizationPolicy, Diarize, Ingest,
         ResolveInput, Normalize, OpFiles
<1>4. CASE ExtractOnly \/ SelectSubstrate \/ PinSelection
  BY <1>1, <1>4 DEF ExtractOnly, SelectSubstrate, PinSelection, Raise
<1>5. CASE ReuseTranscripts \/ MaterializeVersion \/ Align \/ EmitVersion
  <2>1. pc' \notin Guards
    BY <1>5 DEF ReuseTranscripts, MaterializeVersion, Align, EmitVersion, Raise
  <2>2. \/ dir' = dir
        \/ \E l \in {"reuse", "materialize", "align", "emit"} : dir' = Written(WritesAt(l), "none")
    BY <1>5 DEF ReuseTranscripts, MaterializeVersion, Align, EmitVersion
  <2>3. \A l \in {"reuse", "materialize", "align", "emit"} :
           WritesAt(l) \in SUBSET (Files \ Guarded)
    BY GateFiles DEF OpFiles
  <2>4. QED
    BY <1>0, <1>1, <2>1, <2>2, <2>3, OtherFiles, UntouchedStep
<1>6. CASE StampProduced
  <2>1. Untouched
    BY <1>0, <1>6 DEF StampProduced, Untouched, TypeOK, RunDir
  <2>2. QED
    BY <1>0, <1>6, <2>1, UntouchedStep DEF StampProduced
<1>7. CASE FormalizeJson
  <2>1. pc' \in {"chk_gate", "on_failed"} /\ nInvoked > 0
    BY <1>0, <1>7, ProduceEffect DEF FormalizeJson
  <2>2. CASE dir' = Written(WritesAt("json"), "none")
    BY <1>0, <2>1, <2>2, GateFiles, DraftStep
  <2>3. CASE dir' = dir /\ pc' = "on_failed"
    BY <1>1, <2>3
  <2>4. QED
    BY <1>7, <2>2, <2>3 DEF FormalizeJson, Produce, Raise
<1>8. CASE TruthGate
  <2>1. nInvoked > 0 /\ dir.wrote["json"] # 0
    BY <1>0, <1>8 DEF TruthGate, GateInv
  <2>2. CASE dir' = dir /\ pc' = "on_failed"
    BY <1>1, <2>2
  <2>3. CASE /\ dir.wrote["truth_gate_report"] = 0
             /\ \/ dir' = Written(WritesAt("gate"), "allowed") /\ pc' = "chk_md"
                \/ dir' = Written(WritesAt("gate"), "blocked") /\ pc' = "on_failed"
    BY <1>0, <2>1, <2>3, GateFiles, VerdictStep
  <2>4. QED
    BY <1>8, <2>2, <2>3, GateFiles DEF TruthGate, Raise, Absent
<1>9. CASE RenderMd \/ RenderTxt \/ EvidenceMap \/ RenderPdf
  BY <1>0, <1>9, ProducePublished DEF RenderMd, RenderTxt, EvidenceMap, RenderPdf, Produce
<1>10. CASE StartEvidenceMap
  BY <1>0, <1>10 DEF StartEvidenceMap, GateInv, PublishedOnlyPastGate
<1>11. CASE AdapterRaises
  <2>1. pc' = "on_failed" /\ pc \in DOMAIN OpFiles /\ PartlyWritten
    BY <1>11 DEF AdapterRaises, Raise
  <2>2. QED
    BY <1>0, <2>1, InterruptedStep DEF OpFiles
<1>12. CASE Crash
  <2>1. CASE pc \in DOMAIN OpFiles
    BY <1>0, <1>12, <2>1, InterruptedStep DEF Crash
  <2>2. CASE pc \notin DOMAIN OpFiles
    BY <1>1, <1>12, <2>2 DEF Crash
  <2>3. QED
    BY <2>1, <2>2
<1>13. CASE Checkpoint
  BY <1>0, <1>13 DEF Checkpoint, AfterCheck, GateInv, PublishedOnlyPastGate
<1>14. CASE Invoke \/ DieBeforeTry \/ SkipNormalize \/ StartRunning
  BY <1>1, <1>14 DEF Invoke, DieBeforeTry, SkipNormalize, StartRunning
<1>15. CASE EnterSteps \/ EndStep \/ Succeed \/ Cancel \/ Fail
  BY <1>1, <1>15 DEF EnterSteps, EndStep, Succeed, Cancel, Fail
<1>16. CASE BeginStep
  <2>1. th.step \in DOMAIN plan
    BY <1>0, <1>16 DEF BeginStep, ThreadInv, LoopLabels, Labels, BeforeTry
  <2>2. Cur.kind \in Kinds
    BY <1>0, <2>1, CurType DEF Step
  <2>3. QED
    BY <1>1, <1>16, <2>2 DEF BeginStep, FirstLabel, Kinds
<1>17. CASE Web
  BY <1>2, <1>17 DEF Web, CancelRead, CancelWrite, SelectTranscript, DeleteTranscript
<1>18. CASE UNCHANGED vars
  BY <1>2, <1>18 DEF vars
<1>19. QED
  BY <1>3, <1>4, <1>5, <1>6, <1>7, <1>8, <1>9, <1>10, <1>11, <1>12, <1>13,
     <1>14, <1>15, <1>16, <1>17, <1>18 DEF Next, Thread

-----------------------------------------------------------------------------
(* Which step the thread is in.                                            *)

\* The plan and the base run are fixed when the run is created.
LEMMA PlanFixed ==
    ASSUME [Next]_vars
    PROVE  plan' = plan /\ base' = base
BY DEF Next, Thread, Web, vars, Invoke, Crash, CancelRead, CancelWrite, SelectTranscript,
       DeleteTranscript, DieBeforeTry, ResolveInput, Normalize, SkipNormalize, StartRunning,
       Checkpoint, EnterSteps, BeginStep, EndStep, MapSpeakers, SearchLibrary, ExtractOnly,
       SelectSubstrate, ReuseTranscripts, PinSelection, MaterializeVersion, Transcribe,
       DiarizationPolicy, Diarize, Align, EmitVersion, StampProduced, Ingest, FormalizeJson,
       TruthGate, RenderMd, RenderTxt, StartEvidenceMap, EvidenceMap, RenderPdf,
       Succeed, Cancel, Fail, AdapterRaises, Produce, fixed

\* The label of the thread says which kind of step it executes.
LEMMA KindStep ==
    ASSUME IInv, KindInv, [Next]_vars
    PROVE  KindInv'
<1> USE DEF fixed, outside
<1>0. /\ TypeOK /\ ThreadInv /\ run \in RunJson /\ th \in Locals
      /\ plan' = plan /\ (AudioPlan' <=> AudioPlan)
  BY PlanFixed DEF IInv, TypeOK, AudioPlan
<1>1. ASSUME pc' = pc, th' = th
      PROVE  KindInv'
  BY <1>0, <1>1 DEF KindInv, Cur
<1>2. ASSUME pc' \in {"idle", "start", "finish", "on_failed", "on_cancelled", "chk_begin",
                      "steps", "chk_step", "begin", "end_step", "extract"}
      PROVE  KindInv'
  BY <1>2 DEF KindInv, FormalizeLabels, SharedLabels, AfterGate
<1>3. ASSUME pc \in FormalizeLabels, pc' \in FormalizeLabels \cup {"on_failed"},
             th'.step = th.step, th'.reused = th.reused,
             pc' \notin {"chk_formalize", "select", "reuse", "pin", "materialize"}
      PROVE  KindInv'
  BY <1>0, <1>3 DEF KindInv, Cur, FormalizeLabels, SharedLabels, AfterGate
<1>4. ASSUME pc \in SharedLabels, pc' \in SharedLabels \cup {"on_failed"},
             th'.step = th.step,
             pc' \notin {"chk_transcribe", "transcribe"}
      PROVE  KindInv'
  BY <1>0, <1>4 DEF KindInv, Cur, FormalizeLabels, SharedLabels, AfterGate
<1>5. ASSUME NEW l, NEW next, Produce(l, next)
      PROVE  pc = l /\ pc' \in {next, "on_failed"} /\ th'.step = th.step
             /\ th'.reused = th.reused
  BY <1>0, <1>5 DEF Produce, Raise, Locals
<1>6. CASE Invoke
  BY <1>0, <1>6 DEF Invoke, KindInv, FormalizeLabels, SharedLabels, AfterGate
<1>7. CASE ResolveInput
  BY <1>0, <1>5, <1>7 DEF ResolveInput, KindInv, FormalizeLabels, SharedLabels, AfterGate
<1>8. CASE Normalize \/ MapSpeakers \/ SearchLibrary
  BY <1>2, <1>5, <1>8 DEF Normalize, MapSpeakers, SearchLibrary
<1>9. CASE DieBeforeTry \/ SkipNormalize \/ StartRunning \/ EnterSteps \/ EndStep
           \/ Succeed \/ Cancel \/ Fail \/ Crash \/ ExtractOnly \/ AdapterRaises
  BY <1>2, <1>9 DEF DieBeforeTry, SkipNormalize, StartRunning, EnterSteps, EndStep, Succeed,
                    Cancel, Fail, Crash, ExtractOnly, AdapterRaises, Raise
<1>10. CASE Checkpoint
  <2>1. th'.step = th.step /\ th'.reused = th.reused
    BY <1>0, <1>10 DEF Checkpoint, Locals
  <2>2. QED
    BY <1>0, <1>10, <2>1
       DEF Checkpoint, AfterCheck, KindInv, Cur, FormalizeLabels, SharedLabels, AfterGate
<1>11. CASE BeginStep
  <2>1. th.step \in DOMAIN plan
    BY <1>0, <1>11 DEF BeginStep, ThreadInv, LoopLabels, Labels, BeforeTry
  <2>2. Cur.kind \in Kinds /\ Cur' = Cur /\ ~th'.reused
    BY <1>0, <1>11, <2>1, CurType DEF BeginStep, Cur, Step, Locals
  <2>3. QED
    BY <1>0, <1>11, <2>2
       DEF BeginStep, FirstLabel, Kinds, KindInv, FormalizeLabels, SharedLabels, AfterGate
<1>12. CASE SelectSubstrate
  <2>1. th'.reused = th.reused /\ Cur' = Cur
    BY <1>0, <1>12 DEF SelectSubstrate, Locals, Cur
  <2>2. QED
    BY <1>0, <1>12, <2>1
       DEF SelectSubstrate, KindInv, FormalizeLabels, SharedLabels, AfterGate
<1>13. CASE ReuseTranscripts \/ PinSelection \/ MaterializeVersion
  <2>1. Cur' = Cur
    BY <1>0, <1>13 DEF ReuseTranscripts, PinSelection, MaterializeVersion, Raise, Locals, Cur
  <2>2. PinSelection => th'.reused
    BY <1>0 DEF PinSelection, Locals
  <2>3. QED
    BY <1>0, <1>13, <2>1, <2>2
       DEF ReuseTranscripts, PinSelection, MaterializeVersion, Raise,
           KindInv, FormalizeLabels, SharedLabels, AfterGate
<1>14. CASE Transcribe \/ DiarizationPolicy \/ Diarize
  BY <1>4, <1>5, <1>14 DEF Transcribe, DiarizationPolicy, Diarize, SharedLabels
<1>15. CASE Align \/ EmitVersion \/ StampProduced
  <2>1. th'.step = th.step
    BY <1>0, <1>15 DEF Align, EmitVersion, StampProduced, Raise, Locals
  <2>2. QED
    BY <1>4, <1>15, <2>1 DEF Align, EmitVersion, StampProduced, Raise, SharedLabels
<1>16. CASE Ingest
  <2>1. pc = "ingest" /\ Cur' = Cur
    BY <1>0, <1>5, <1>16 DEF Ingest, Cur
  <2>2. pc' \in {IF Cur.kind = "formalize" THEN "chk_json" ELSE "end_step", "on_failed"}
    BY <1>5, <1>16 DEF Ingest
  <2>3. QED
    BY <1>0, <2>1, <2>2 DEF KindInv, FormalizeLabels, SharedLabels, AfterGate
<1>17. CASE FormalizeJson \/ RenderMd \/ RenderTxt \/ EvidenceMap
  BY <1>3, <1>5, <1>17
     DEF FormalizeJson, RenderMd, RenderTxt, EvidenceMap, FormalizeLabels, AfterGate
<1>18. CASE RenderPdf
  BY <1>2, <1>5, <1>18 DEF RenderPdf
<1>19. CASE TruthGate \/ StartEvidenceMap
  <2>1. th'.step = th.step /\ th'.reused = th.reused
    BY <1>0, <1>19 DEF TruthGate, StartEvidenceMap, Raise, Locals
  <2>2. QED
    BY <1>3, <1>19, <2>1 DEF TruthGate, StartEvidenceMap, Raise, FormalizeLabels, AfterGate
<1>20. CASE Web
  BY <1>1, <1>20 DEF Web, CancelRead, CancelWrite, SelectTranscript, DeleteTranscript
<1>21. CASE UNCHANGED vars
  BY <1>1, <1>21 DEF vars
<1>22. QED
  BY <1>6, <1>7, <1>8, <1>9, <1>10, <1>11, <1>12, <1>13, <1>14, <1>15, <1>16, <1>17,
     <1>18, <1>19, <1>20, <1>21 DEF Next, Thread

-----------------------------------------------------------------------------
(* One invocation's files.                                                 *)

\* The plan and the base run decide which files are written first.
LEMMA LeadFixed ==
    ASSUME [Next]_vars
    PROVE  Lead' = Lead
BY PlanFixed DEF Lead, AudioPlan, FirstToMake, MakesTranscript, WritesAt, OpFiles

\* They are files of the run directory.
LEMMA LeadFiles == Lead \in SUBSET Files /\ Lead # {}
BY DEF Lead, WritesAt, OpFiles, Files

\* Before the first files are written, only the operation that writes them writes any.
LEMMA LeadOperation ==
    ASSUME TypeOK, ThreadInv, KindInv, BeforeLead, pc \in DOMAIN OpFiles
    PROVE  \/ WritesAt(pc) = Lead
           \/ pc \in {"overlay", "search"} /\ WritesAt(pc) = {}
<1>1. CASE AudioPlan
  BY <1>1 DEF BeforeLead, OpFiles, Lead, WritesAt
<1>2. CASE ~AudioPlan
  <2>1. pc \notin {"resolve", "normalize"}
    BY <1>2 DEF KindInv
  <2>2. pc \in LoopLabels /\ th.step \in DOMAIN plan
    BY <2>1, LabelFacts DEF ThreadInv
  <2>3. /\ \A j \in 1..(th.step - 1) : ~MakesTranscript(j)
        /\ MakesTranscript(th.step) => pc \in {"reuse", "materialize", "transcribe"}
    BY <1>2, <2>2 DEF BeforeLead, LoopLabels, BeforeTry, OpFiles
  <2>4. CASE pc \in {"overlay", "search"}
    BY <2>4 DEF WritesAt, OpFiles
  <2>5. CASE pc \notin {"overlay", "search"}
    <3>1. MakesTranscript(th.step)
      BY <2>1, <2>5 DEF KindInv, MakesTranscript, Cur, FormalizeLabels, SharedLabels, AfterGate, OpFiles
    <3>2. pc \in {"reuse", "materialize", "transcribe"} /\ FirstToMake(th.step)
      BY <2>2, <2>3, <3>1 DEF FirstToMake
    <3>3. \A i : FirstToMake(i) => i = th.step
      <4> TAKE i
      <4> HAVE FirstToMake(i)
      <4>1. i \in Nat /\ th.step \in Nat /\ i >= 1 /\ th.step >= 1
        BY <2>2, PlansAssumption DEF FirstToMake, TypeOK
      <4>2. ~(i < th.step) /\ ~(th.step < i)
        BY <2>3, <3>1, <4>1 DEF FirstToMake
      <4>3. QED
        BY <4>1, <4>2
    <3>4. CASE pc = "reuse"
      BY <1>2, <2>2, <3>2, <3>4 DEF Lead, KindInv, Cur, FormalizeLabels
    <3>5. CASE pc \in {"materialize", "transcribe"}
      <4>1. ~(Cur.kind = "formalize" /\ Cur.reuse)
        BY <3>5 DEF KindInv
      <4>2. Lead = {"transcript"}
        BY <1>2, <3>3, <4>1 DEF Lead, Cur
      <4>3. QED
        BY <3>5, <4>2 DEF WritesAt, OpFiles
    <3>6. QED
      BY <3>2, <3>4, <3>5
  <2>6. QED
    BY <2>4, <2>5
<1>3. QED
  BY <1>1, <1>2

\* A step that writes nothing keeps the invariant, if it does not pass the point where
\* the first files are written.
LEMMA LeadKept ==
    ASSUME LeadInv, [Next]_vars, dir'.wrote = dir.wrote, nInvoked' = nInvoked,
           PastLead' => PastLead,
           run'.status = "succeeded" => run.status = "succeeded" \/ PastLead
    PROVE  LeadInv'
<1>1. LeadWritten' <=> LeadWritten
  BY LeadFixed DEF LeadWritten
<1>2. SingleInvocationOutputs'
  BY DEF LeadInv, SingleInvocationOutputs
<1>3. QED
  BY <1>1, <1>2 DEF LeadInv

\* So does one that writes files: the first ones, if they were absent, or others after
\* them.
LEMMA LeadWrites ==
    ASSUME TypeOK, LeadInv, [Next]_vars, nInvoked > 0, nInvoked' = nInvoked,
           NEW fs \in SUBSET Files, NEW v, dir' = Written(fs, v),
           \/ PastLead
           \/ fs = Lead /\ Absent(Lead)
           \/ fs = {} /\ ~PastLead'
           \/ fs \subseteq Lead /\ ~PastLead',
           run'.status # "succeeded"
    PROVE  LeadInv'
<1>1. \A f \in Files : dir'.wrote[f] = IF f \in fs THEN nInvoked ELSE dir.wrote[f]
  BY WrittenEffect
<1>2. Lead' = Lead /\ Lead \in SUBSET Files /\ Lead # {}
  BY LeadFixed, LeadFiles
<1>3. LeadWritten => LeadWritten'
  BY <1>1, <1>2 DEF LeadWritten
<1>4. CASE PastLead
  BY <1>1, <1>3, <1>4 DEF LeadInv, SingleInvocationOutputs
<1>5. CASE fs = Lead /\ Absent(Lead)
  <2>1. LeadWritten'
    BY <1>1, <1>2, <1>5 DEF LeadWritten
  <2>2. \A f \in Files : dir.wrote[f] = 0
    BY <1>2, <1>5 DEF LeadInv, LeadWritten, Absent
  <2>3. QED
    BY <1>1, <2>1, <2>2 DEF LeadInv, SingleInvocationOutputs
<1>6. CASE fs \subseteq Lead /\ ~PastLead'
  <2>1. CASE fs = {}
    BY <1>1, <1>3, <1>6, <2>1 DEF LeadInv, SingleInvocationOutputs
  <2>2. CASE fs # {}
    <3>1. LeadWritten'
      BY <1>1, <1>2, <1>6, <2>2 DEF LeadWritten
    <3>2. QED
      BY <1>6, <3>1 DEF LeadInv, SingleInvocationOutputs
  <2>3. QED
    BY <2>1, <2>2
<1>7. QED
  BY <1>4, <1>5, <1>6

\* An operation in its common form.
LEMMA LeadProduce ==
    ASSUME IInv, KindInv, LeadInv, [Next]_vars, NEW l \in DOMAIN OpFiles, NEW next, Produce(l, next),
           l \in {"overlay", "search"} => next = "end_step"
    PROVE  LeadInv'
<1> USE DEF fixed, outside
<1>0. TypeOK /\ ThreadInv /\ nInvoked > 0 /\ run.status \notin Completed /\ nInvoked' = nInvoked
      /\ pc = l /\ run'.status = run.status
  BY LabelFacts, ProduceEffect DEF IInv, ThreadInv, Produce, LoopLabels, BeforeTry
<1>1. CASE Raise("FileExistsError") /\ UNCHANGED <<dir, run>>
  BY <1>0, <1>1, LeadKept DEF Raise, PastLead, Completed
<1>2. CASE Absent(WritesAt(l)) /\ dir' = Written(WritesAt(l), "none") /\ pc' = next /\ UNCHANGED th
  <2>1. WritesAt(l) \in SUBSET Files
    BY WritesAtType
  <2>2. CASE PastLead
    BY <1>0, <1>2, <2>1, <2>2, LeadWrites DEF Completed
  <2>3. CASE BeforeLead /\ WritesAt(l) = Lead
    BY <1>0, <1>2, <2>1, <2>3, LeadWrites DEF Completed
  <2>4. CASE BeforeLead /\ l \in {"overlay", "search"} /\ WritesAt(l) = {}
    <3>1. pc \in LoopLabels
      BY <1>0, <2>4 DEF LoopLabels, Labels, BeforeTry, OpFiles
    <3>2. dir' = dir
      BY <1>0, <1>2, <2>4 DEF Written, TypeOK, RunDir
    <3>3. BeforeLead'
      BY <1>0, <1>2, <2>4, PlanFixed
         DEF BeforeLead, AudioPlan, MakesTranscript, LoopLabels, Labels, BeforeTry, OpFiles
    <3>4. QED
      BY <1>0, <1>2, <3>2, <3>3, LeadKept DEF PastLead, Completed
  <2>5. QED
    BY <1>0, <2>2, <2>3, <2>4, LeadOperation DEF PastLead, OpFiles
<1>3. QED
  BY <1>1, <1>2 DEF Produce

\* An operation that is cut short, by an exception or with its process.
LEMMA LeadInterrupted ==
    ASSUME IInv, KindInv, LeadInv, [Next]_vars, pc \in DOMAIN OpFiles, PartlyWritten,
           nInvoked' = nInvoked, run' = run, pc' \in {"idle", "on_failed"}
    PROVE  LeadInv'
<1>0. /\ TypeOK /\ ThreadInv /\ nInvoked > 0 /\ run.status \notin Completed
      /\ pc \notin {"on_failed", "on_cancelled"}
  BY DEF IInv, ThreadInv, OpFiles
<1>1. PICK fs \in SUBSET {f \in WritesAt(pc) : dir.wrote[f] = 0}, v \in Verdicts :
               dir' = Written(fs, v)
  BY DEF PartlyWritten
<1>2. WritesAt(pc) \in SUBSET Files
  BY WritesAtType
<1>3. ~PastLead'
  BY DEF PastLead, BeforeLead
<1>4. CASE PastLead
  BY <1>0, <1>1, <1>2, <1>4, LeadWrites DEF Completed
<1>5. CASE BeforeLead
  BY <1>0, <1>1, <1>2, <1>3, <1>5, LeadOperation, LeadWrites DEF Completed
<1>6. QED
  BY <1>0, <1>4, <1>5 DEF PastLead

\* Where a step that makes a transcript has not made it yet.
Early == {"chk_step", "begin", "chk_formalize", "select", "reuse", "pin", "materialize",
          "chk_transcribe", "transcribe"}

\* A thread that moves within its step comes past the first files only by leaving those labels.
LEMMA MovesWithin ==
    ASSUME [Next]_vars, pc \in LoopLabels, pc' \in LoopLabels, th'.step = th.step,
           MakesTranscript(th.step) /\ pc \in Early => pc' \in Early
    PROVE  PastLead' => PastLead
<1>1. /\ plan' = plan /\ (AudioPlan' <=> AudioPlan)
      /\ (MakesTranscript(th.step)' <=> MakesTranscript(th.step))
  BY PlanFixed DEF AudioPlan, MakesTranscript
<1>2. pc \notin {"idle", "resolve", "on_failed", "on_cancelled"}
  BY DEF LoopLabels, BeforeTry
<1>3. ASSUME BeforeLead
      PROVE  BeforeLead'
  <2>1. ~AudioPlan
    BY <1>2, <1>3 DEF BeforeLead
  <2>2. /\ \A j \in 1..(th.step - 1) : ~MakesTranscript(j)
        /\ MakesTranscript(th.step) => pc \in Early
    BY <1>3, <2>1 DEF BeforeLead, LoopLabels, BeforeTry, Early
  <2>3. (\A j \in 1..(th.step - 1) : ~MakesTranscript(j))'
    BY <1>1, <2>2 DEF MakesTranscript
  <2>4. QED
    BY <1>1, <2>1, <2>2, <2>3 DEF BeforeLead, Early
<1>4. QED
  BY <1>2, <1>3 DEF PastLead

\* Every step keeps the files in the directory those of one invocation.
LEMMA LeadStep ==
    ASSUME IInv, KindInv, LeadInv, [Next]_vars
    PROVE  LeadInv'
<1> USE DEF fixed, outside
<1>0. /\ TypeOK /\ ThreadInv /\ KindInv /\ run \in RunJson /\ th \in Locals
      /\ plan' = plan /\ (AudioPlan' <=> AudioPlan) /\ Len(plan) \in Nat
  BY PlanFixed, PlansAssumption DEF IInv, TypeOK, AudioPlan
<1>1. ASSUME dir'.wrote = dir.wrote, nInvoked' = nInvoked, run'.status = run.status,
             PastLead' => PastLead
      PROVE  LeadInv'
  BY <1>1, LeadKept
<1>3. ASSUME pc \in LoopLabels \cup {"start", "chk_begin", "steps"}, AudioPlan
      PROVE  PastLead
  BY <1>3 DEF PastLead, BeforeLead, LoopLabels, Labels, BeforeTry
<1>4. ASSUME pc \in LoopLabels, pc' \in LoopLabels \cup {"on_failed", "on_cancelled"},
             th'.step = th.step,
             MakesTranscript(th.step) /\ pc \in Early /\ pc' \in LoopLabels => pc' \in Early
      PROVE  PastLead' => PastLead
  BY <1>4, MovesWithin DEF PastLead
<1>5. CASE Invoke
  <2>1. ~PastLead' /\ run'.status # "succeeded" /\ dir' = dir
    BY <1>0, <1>5 DEF Invoke, PastLead, BeforeLead, Completed
  <2>2. QED
    BY <2>1, LeadFixed DEF LeadInv, LeadWritten, SingleInvocationOutputs
<1>6. CASE ResolveInput \/ Normalize \/ MapSpeakers \/ SearchLibrary \/ Transcribe
           \/ DiarizationPolicy \/ Diarize \/ Ingest \/ FormalizeJson
           \/ RenderMd \/ RenderTxt \/ EvidenceMap \/ RenderPdf
  BY <1>6, LeadProduce
     DEF ResolveInput, Normalize, MapSpeakers, SearchLibrary, Transcribe, DiarizationPolicy,
         Diarize, Ingest, FormalizeJson, RenderMd, RenderTxt, EvidenceMap, RenderPdf, OpFiles
<1>7. CASE DieBeforeTry \/ Cancel \/ Fail
  <2>1. ~PastLead' /\ run'.status # "succeeded"
    BY <1>0, <1>7 DEF DieBeforeTry, Cancel, Fail, PastLead, BeforeLead, ThreadInv, RunJson, Completed
  <2>2. QED
    BY <1>7, <2>1, LeadKept DEF DieBeforeTry, Cancel, Fail
<1>8. CASE SkipNormalize \/ StartRunning
  <2>1. PastLead' => PastLead
    BY <1>0, <1>8 DEF SkipNormalize, StartRunning, PastLead, BeforeLead, KindInv
  <2>2. run'.status # "succeeded"
    BY <1>0, <1>8 DEF SkipNormalize, StartRunning, ThreadInv, Completed, RunJson
  <2>3. QED
    BY <1>8, <2>1, <2>2, LeadKept DEF SkipNormalize, StartRunning
<1>9. CASE Checkpoint
  <2>1. /\ dir'.wrote = dir.wrote /\ nInvoked' = nInvoked /\ run'.status = run.status
        /\ th'.step = th.step
    BY <1>0, <1>9 DEF Checkpoint, RunJson, Locals
  <2>2. CASE pc = "chk_begin"
    BY <1>0, <1>1, <1>9, <2>1, <2>2 DEF Checkpoint, AfterCheck, PastLead, BeforeLead
  <2>3. CASE pc # "chk_begin"
    <3>1. pc \in LoopLabels
      BY <1>9, <2>3, LabelFacts DEF Checkpoint
    <3>2. PastLead' => PastLead
      BY <1>4, <1>9, <2>1, <2>3, <3>1
         DEF Checkpoint, AfterCheck, LoopLabels, Labels, BeforeTry, Early, OpFiles
    <3>3. QED
      BY <1>1, <2>1, <3>2
  <2>4. QED
    BY <2>2, <2>3
<1>10. CASE EnterSteps
  <2>1. th.step = 1 /\ th' = th /\ dir' = dir /\ nInvoked' = nInvoked /\ run'.status = run.status
    BY <1>0, <1>10 DEF EnterSteps, ThreadInv, RunJson
  <2>2. plan = << >> => AudioPlan
    BY DEF AudioPlan
  <2>3. PastLead' => PastLead
    BY <1>0, <1>10, <2>1, <2>2
       DEF EnterSteps, PastLead, BeforeLead, LoopLabels, Labels, BeforeTry, AfterCheck
  <2>4. QED
    BY <1>1, <2>1, <2>3
<1>11. CASE BeginStep
  <2>1. pc \in LoopLabels /\ th.step \in DOMAIN plan
    BY <1>0, <1>11 DEF BeginStep, ThreadInv, LoopLabels, Labels, BeforeTry
  <2>2. Cur.kind \in Kinds /\ th'.step = th.step /\ run'.status = run.status
    BY <1>0, <1>11, <2>1, CurType DEF BeginStep, Step, Locals, RunJson
  <2>3. PastLead' => PastLead
    BY <1>4, <1>11, <2>1, <2>2, LabelFacts
       DEF BeginStep, FirstLabel, Kinds, MakesTranscript, Cur, Early
  <2>4. QED
    BY <1>1, <1>11, <2>2, <2>3 DEF BeginStep
<1>12. CASE EndStep
  <2>1. pc \in LoopLabels /\ th.step \in 1..Len(plan) /\ run'.status = run.status
    BY <1>0, <1>12, PlansAssumption
       DEF EndStep, ThreadInv, LoopLabels, Labels, BeforeTry, RunJson, TypeOK
  <2>2. CASE AudioPlan
    BY <1>1, <1>3, <1>12, <2>1, <2>2 DEF EndStep
  <2>3. CASE ~AudioPlan /\ BeforeLead
    <3>1. \A j \in 1..th.step : ~MakesTranscript(j)
      BY <1>12, <2>1, <2>3 DEF EndStep, BeforeLead
    <3>2. th.step < Len(plan)
      BY <1>0, <2>1, <2>3, <3>1, PlansAssumption DEF AudioPlan, MakesTranscript, TypeOK
    <3>3. th'.step = th.step + 1 /\ pc' = "chk_step"
      BY <1>0, <1>12, <3>2 DEF EndStep, Locals
    <3>4. BeforeLead'
      BY <1>0, <2>1, <2>3, <3>1, <3>3
         DEF BeforeLead, MakesTranscript, LoopLabels, Labels, BeforeTry, AfterCheck
    <3>5. QED
      BY <1>1, <1>12, <2>1, <3>4 DEF EndStep, PastLead
  <2>4. CASE ~BeforeLead
    BY <1>1, <1>12, <2>1, <2>4 DEF EndStep, PastLead
  <2>5. QED
    BY <2>2, <2>3, <2>4
<1>13. CASE ExtractOnly
  BY <1>1, <1>13 DEF ExtractOnly, Raise, PastLead
<1>14. CASE SelectSubstrate \/ PinSelection
  <2>1. pc \in LoopLabels /\ th'.step = th.step /\ run'.status = run.status
    BY <1>0, <1>14 DEF SelectSubstrate, PinSelection, Locals, RunJson, LoopLabels, Labels, BeforeTry
  <2>2. PastLead' => PastLead
    BY <1>4, <1>14, <2>1
       DEF SelectSubstrate, PinSelection, LoopLabels, Labels, BeforeTry, OpFiles, AfterCheck, Early
  <2>3. QED
    BY <1>1, <1>14, <2>1, <2>2 DEF SelectSubstrate, PinSelection
<1>15. CASE ReuseTranscripts \/ MaterializeVersion \/ Align \/ EmitVersion \/ TruthGate
  <2>1. /\ nInvoked' = nInvoked /\ nInvoked > 0 /\ run'.status = run.status
        /\ run.status \notin Completed /\ pc \in DOMAIN OpFiles
    BY <1>0, <1>15
       DEF ReuseTranscripts, MaterializeVersion, Align, EmitVersion, TruthGate, Raise,
           RunJson, ThreadInv, OpFiles
  <2>2. WritesAt(pc) \in SUBSET Files
    BY <2>1, WritesAtType
  <2>3. pc \in {"reuse", "materialize", "align", "emit", "gate"}
    BY <1>15 DEF ReuseTranscripts, MaterializeVersion, Align, EmitVersion, TruthGate
  <2>4. PastLead \/ (pc \in {"reuse", "materialize"} /\ WritesAt(pc) = Lead)
    <3>1. ASSUME BeforeLead
          PROVE  WritesAt(pc) = Lead
      BY <1>0, <2>1, <2>3, <3>1, LeadOperation
    <3>2. ASSUME BeforeLead
          PROVE  pc \in {"reuse", "materialize"}
      <4>1. pc \in LoopLabels \ {"idle", "resolve"}
        BY <2>3 DEF LoopLabels, Labels, BeforeTry, OpFiles
      <4>2. MakesTranscript(th.step)
        BY <1>0, <2>3 DEF KindInv, MakesTranscript, Cur, FormalizeLabels, SharedLabels
      <4>3. QED
        BY <2>3, <3>2, <4>1, <4>2 DEF BeforeLead
    <3>3. QED
      BY <2>3, <3>1, <3>2 DEF PastLead
  <2>5. CASE dir' = dir /\ pc' = "on_failed"
    BY <1>1, <2>1, <2>5 DEF PastLead
  <2>6. CASE dir' = dir /\ EmitVersion
    <3>1. PastLead
      BY <2>4, <2>6 DEF EmitVersion
    <3>2. QED
      BY <1>1, <2>1, <2>6, <3>1
  <2>7. CASE Absent(WritesAt(pc)) /\ \E v : dir' = Written(WritesAt(pc), v)
    BY <1>0, <2>1, <2>2, <2>4, <2>7, LeadWrites DEF Completed
  <2>8. QED
    BY <1>15, <2>5, <2>6, <2>7
       DEF ReuseTranscripts, MaterializeVersion, Align, EmitVersion, TruthGate, Raise
<1>16. CASE StampProduced
  <2>1. dir'.wrote = dir.wrote /\ nInvoked' = nInvoked /\ run'.status = run.status
    BY <1>0, <1>16 DEF StampProduced, RunJson, TypeOK, RunDir
  <2>2. PastLead' => PastLead
    <3>1. th'.step = th.step /\ pc = "stamp" /\ pc \in LoopLabels /\ pc' \in LoopLabels
      BY <1>0, <1>16 DEF StampProduced, LoopLabels, Labels, BeforeTry, AfterCheck
    <3>2. QED
      BY <1>4, <3>1 DEF Early
  <2>3. QED
    BY <1>1, <2>1, <2>2
<1>17. CASE StartEvidenceMap
  <2>1. th'.step = th.step /\ run'.status = run.status
    BY <1>0, <1>17 DEF StartEvidenceMap, Locals, RunJson
  <2>2. PastLead' => PastLead
    BY <1>4, <1>17, <2>1 DEF StartEvidenceMap, LoopLabels, Labels, BeforeTry, OpFiles, AfterGate, Early
  <2>3. QED
    BY <1>1, <1>17, <2>1, <2>2 DEF StartEvidenceMap
<1>18. CASE Succeed
  <2>1. PastLead
    BY <1>18 DEF Succeed, PastLead, BeforeLead, LoopLabels
  <2>2. ~PastLead'
    BY <1>18 DEF Succeed, PastLead, BeforeLead
  <2>3. QED
    BY <1>18, <2>1, <2>2, LeadKept DEF Succeed
<1>19. CASE AdapterRaises
  BY <1>19, LeadInterrupted DEF AdapterRaises, Raise
<1>20. CASE Crash
  <2>1. CASE pc \in DOMAIN OpFiles
    BY <1>20, <2>1, LeadInterrupted DEF Crash
  <2>2. CASE pc \notin DOMAIN OpFiles
    BY <1>1, <1>20, <2>2 DEF Crash, PastLead, BeforeLead
  <2>3. QED
    BY <2>1, <2>2
<1>21. CASE Web
  <2>1. UNCHANGED <<dir, nInvoked, run, pc, th>>
    BY <1>21 DEF Web, CancelRead, CancelWrite, SelectTranscript, DeleteTranscript
  <2>2. PastLead' => PastLead
    BY <1>0, <2>1 DEF PastLead, BeforeLead, MakesTranscript
  <2>3. QED
    BY <1>1, <2>1, <2>2
<1>22. CASE UNCHANGED vars
  BY <1>0, <1>1, <1>22 DEF vars, PastLead, BeforeLead, MakesTranscript
<1>23. QED
  BY <1>5, <1>6, <1>7, <1>8, <1>9, <1>10, <1>11, <1>12, <1>13, <1>14, <1>15, <1>16, <1>17,
     <1>18, <1>19, <1>20, <1>21, <1>22 DEF Next, Thread

-----------------------------------------------------------------------------
(* What a run hands out.                                                   *)

\* What writing files does to the versions the transcript and the draft are of.
LEMMA WrittenVersions ==
    ASSUME TypeOK, NEW fs \in SUBSET Files, NEW v, dir' = Written(fs, v)
    PROVE  /\ dir'.stamp = IF "transcript" \in fs THEN SubstrateStamp ELSE dir.stamp
           /\ dir'.draft = IF "json" \in fs THEN dir.stamp ELSE dir.draft
BY DEF TypeOK, Written, RunDir

\* Recording what was written, no more, keeps the record true.
LEMMA RecordedKept ==
    ASSUME TypeOK, RecordedInv, nInvoked > 0,
           NEW fs \in SUBSET Files, NEW v, dir' = Written(fs, v),
           run'.arts \subseteq run.arts \cup fs,
           run'.consumed = run.consumed \/ "truth_gate_report" \in fs
    PROVE  RecordedInv'
<1>1. \A f \in Files : dir'.wrote[f] = IF f \in fs THEN nInvoked ELSE dir.wrote[f]
  BY WrittenEffect
<1>2. run.arts \subseteq Files /\ "truth_gate_report" \in Files
  BY DEF TypeOK, RunJson, Recorded, Published, Files
<1>3. QED
  BY <1>1, <1>2 DEF RecordedInv, TypeOK

\* So does a step that touches neither the record nor the files.
LEMMA RecordedSame ==
    ASSUME RecordedInv, run'.arts = run.arts, run'.consumed = run.consumed,
           dir'.wrote = dir.wrote
    PROVE  RecordedInv'
BY DEF RecordedInv

\* What was delivered stays delivered: records are added, never taken away, and neither
\* the draft nor a consumed version is replaced.
LEMMA DeliveredKept ==
    ASSUME [Next]_vars, Delivered, run.arts \subseteq run'.arts,
           \/ run'.consumed = run.consumed
           \/ run'.consumed = dir.draft /\ dir.draft # NoTrv,
           dir'.draft = dir.draft
    PROVE  Delivered'
BY PlanFixed DEF Delivered, ConsumedKnown, PlanReuses

\* A step of the thread within a step of its plan.
LEMMA OutputWithin ==
    ASSUME [Next]_vars, OutputInv, RecordedInv', TraceInv', run'.status # "succeeded",
           pc \in LoopLabels, pc' \in LoopLabels, th'.step = th.step,
           Delivered => Delivered',
           pc' = "end_step" /\ Cur.kind = "formalize" => Delivered'
    PROVE  OutputInv'
<1>1. plan' = plan /\ Cur' = Cur
  BY PlanFixed DEF Cur
<1>2. DeliveredInv'
  BY <1>1 DEF OutputInv, DeliveredInv, LoopLabels
<1>3. QED
  BY <1>2 DEF OutputInv, OutputsComplete

\* A step that leaves the loop for a handler, or happens before it.
LEMMA OutputOutside ==
    ASSUME RecordedInv', run'.status # "succeeded",
           pc' \notin LoopLabels \cup {"finish"}, pc' \in Labels
    PROVE  OutputInv'
<1>1. TraceInv'
  BY DEF TraceInv, LoopLabels, Labels, BeforeTry, AfterCheck, OpFiles, AfterGate
<1>2. DeliveredInv'
  BY DEF DeliveredInv, LoopLabels, Labels, BeforeTry
<1>3. QED
  BY <1>1, <1>2 DEF OutputInv, OutputsComplete

\* A step of another actor.
LEMMA OutputElsewhere ==
    ASSUME [Next]_vars, OutputInv, UNCHANGED <<run, dir, pc, th>>
    PROVE  OutputInv'
<1>1. plan' = plan
  BY PlanFixed
<1>2. RecordedInv' /\ TraceInv' /\ DeliveredInv'
  BY <1>1 DEF OutputInv, RecordedInv, TraceInv, DeliveredInv, Traced, PlanReuses,
              ConsumedKnown, Delivered, Cur
<1>3. OutputsComplete'
  BY <1>1 DEF OutputInv, OutputsComplete
<1>4. QED
  BY <1>2, <1>3 DEF OutputInv

\* What an operation in its common form leaves behind when it succeeds.
Wrote(l, next) ==
    /\ pc' = next /\ th' = th /\ run'.consumed = run.consumed
    /\ run'.arts = run.arts \cup (WritesAt(l) \cap Recorded)
    /\ dir'.stamp = IF "transcript" \in WritesAt(l) THEN SubstrateStamp ELSE dir.stamp
    /\ dir'.draft = IF "json" \in WritesAt(l) THEN dir.stamp ELSE dir.draft
    /\ Absent(WritesAt(l))

\* An operation in its common form, as far as the outputs are concerned.
LEMMA OutputProduce ==
    ASSUME IInv, OutputInv, [Next]_vars, NEW l \in DOMAIN OpFiles, NEW next \in LoopLabels,
           l \in LoopLabels, Produce(l, next),
           Wrote(l, next) => TraceInv',
           Wrote(l, next) /\ next = "end_step" /\ Cur.kind = "formalize" => Delivered'
    PROVE  OutputInv'
<1> USE DEF fixed, outside
<1>0. /\ TypeOK /\ ThreadInv /\ nInvoked > 0 /\ run.status \notin Completed
      /\ pc = l /\ run'.status = run.status /\ th'.step = th.step /\ run \in RunJson
      /\ RecordedInv
  BY ProduceEffect DEF IInv, ThreadInv, Produce, LoopLabels, BeforeTry, TypeOK, OutputInv
<1>1. WritesAt(l) \in SUBSET Files
  BY WritesAtType
<1>2. CASE Raise("FileExistsError") /\ UNCHANGED <<dir, run>>
  <2>1. RecordedInv'
    BY <1>0, <1>2, RecordedSame
  <2>2. QED
    BY <1>0, <1>2, <2>1, OutputOutside DEF Raise, LoopLabels, Labels, Completed
<1>3. CASE /\ Absent(WritesAt(l)) /\ dir' = Written(WritesAt(l), "none") /\ pc' = next
           /\ run' = [run EXCEPT !.arts = @ \cup (WritesAt(l) \cap Recorded)]
           /\ UNCHANGED th
  <2>1. run'.arts = run.arts \cup (WritesAt(l) \cap Recorded) /\ run'.consumed = run.consumed
    BY <1>0, <1>3 DEF RunJson
  <2>2. RecordedInv'
    BY <1>0, <1>1, <1>3, <2>1, RecordedKept
  <2>3. Wrote(l, next)
    BY <1>0, <1>1, <1>3, <2>1, WrittenVersions DEF Wrote
  <2>4. Delivered => Delivered'
    <3>1. SUFFICES ASSUME Delivered
                   PROVE  Delivered'
      OBVIOUS
    <3>2. dir.wrote["json"] # 0
      BY <1>0, <3>1 DEF Delivered, RecordedInv
    <3>3. dir'.draft = dir.draft
      BY <1>3, <2>3, <3>2 DEF Absent, Wrote
    <3>4. QED
      BY <2>1, <3>1, <3>3, DeliveredKept
  <2>5. QED
    BY <1>0, <1>3, <2>2, <2>3, <2>4, OutputWithin DEF Completed
<1>4. QED
  BY <1>2, <1>3 DEF Produce

\* A step of the thread that writes no file and adds no record.
LEMMA OutputMoves ==
    ASSUME IInv, OutputInv, [Next]_vars, pc \in LoopLabels, pc' \in LoopLabels,
           th'.step = th.step, run'.status = run.status, run'.arts = run.arts,
           run'.consumed = run.consumed, dir'.wrote = dir.wrote, dir'.draft = dir.draft,
           TraceInv', pc' = "end_step" => Cur.kind # "formalize"
    PROVE  OutputInv'
<1>1. run'.status # "succeeded"
  BY DEF IInv, ThreadInv, InTry, LoopLabels
<1>2. RecordedInv'
  BY RecordedSame DEF OutputInv
<1>3. Delivered => Delivered'
  BY DeliveredKept
<1>4. QED
  BY <1>1, <1>2, <1>3, OutputWithin

\* A step of the thread that ends in a handler, or never entered the loop.
LEMMA OutputLeaves ==
    ASSUME IInv, OutputInv, [Next]_vars, pc' \notin LoopLabels \cup {"finish"},
           run'.status # "succeeded", run'.arts = run.arts, run'.consumed = run.consumed,
           \/ dir'.wrote = dir.wrote
           \/ /\ nInvoked > 0
              /\ \E fs \in SUBSET Files, v \in Verdicts \cup {"none"} : dir' = Written(fs, v)
    PROVE  OutputInv'
<1>1. TypeOK /\ RecordedInv
  BY DEF IInv, OutputInv
<1>2. RecordedInv'
  BY <1>1, RecordedSame, RecordedKept
<1>3. pc' \in Labels
  BY TypeStep DEF TypeOK
<1>4. QED
  BY <1>2, <1>3, OutputOutside

\* Every step keeps what is known of the outputs.
LEMMA OutputStep ==
    ASSUME IInv, KindInv, OutputInv, [Next]_vars
    PROVE  OutputInv'
<1> USE DEF fixed, outside
<1>0. /\ TypeOK /\ ThreadInv /\ run \in RunJson /\ th \in Locals /\ dir \in RunDir
      /\ plan' = plan /\ RecordedInv /\ TraceInv /\ DeliveredInv /\ OutputsComplete
      /\ (PlanReuses' <=> PlanReuses)
  BY PlanFixed DEF IInv, TypeOK, OutputInv, PlanReuses
<1>1. pc \in LoopLabels =>
        /\ th.step \in DOMAIN plan /\ Cur \in Step /\ nInvoked > 0
        /\ run.status \notin Completed /\ run.status = "running"
  BY <1>0, CurType DEF ThreadInv, LoopLabels, BeforeTry, InTry
<1>2. CASE Invoke \/ DieBeforeTry \/ SkipNormalize \/ StartRunning
  <2>1. pc' \notin LoopLabels \cup {"finish"} /\ dir' = dir
    BY <1>2 DEF Invoke, DieBeforeTry, SkipNormalize, StartRunning, LoopLabels, Labels, BeforeTry
  <2>2. run'.arts = run.arts /\ run'.consumed = run.consumed
    BY <1>0, <1>2 DEF Invoke, DieBeforeTry, SkipNormalize, StartRunning, RunJson
  <2>3. run'.status # "succeeded"
    BY <1>0, <1>2 DEF Invoke, DieBeforeTry, SkipNormalize, StartRunning, RunJson, Completed, ThreadInv
  <2>4. QED
    BY <2>1, <2>2, <2>3, OutputLeaves
<1>3. CASE ResolveInput \/ Normalize
  <2>1. PICK l \in {"resolve", "normalize"} : Produce(l, IF l = "resolve" THEN "normalize" ELSE "start")
    BY <1>3 DEF ResolveInput, Normalize
  <2>2. /\ pc' \notin LoopLabels \cup {"finish"} /\ nInvoked > 0 /\ run'.status # "succeeded"
        /\ run'.consumed = run.consumed
    BY <1>0, <2>1, ProduceEffect
       DEF LoopLabels, Labels, BeforeTry, ThreadInv, Completed, Produce, RunJson
  <2>3. run'.arts = run.arts
    <3>1. WritesAt(l) \cap Recorded = {}
      BY DEF WritesAt, OpFiles, Recorded, Published
    <3>2. QED
      BY <1>0, <2>1, <3>1 DEF Produce, RunJson
  <2>4. WritesAt(l) \in SUBSET Files
    BY WritesAtType DEF OpFiles
  <2>5. QED
    BY <2>1, <2>2, <2>3, <2>4, OutputLeaves DEF Produce
<1>4. CASE Checkpoint
  <2>1. /\ th'.step = th.step /\ th'.used = th.used /\ th'.sel = th.sel /\ th'.reused = th.reused
        /\ run'.status = run.status /\ run'.arts = run.arts /\ run'.consumed = run.consumed
        /\ dir' = dir /\ Cur' = Cur
    BY <1>0, <1>4 DEF Checkpoint, RunJson, Locals, Cur
  <2>2. run.status = "running"
    BY <1>0, <1>4 DEF Checkpoint, ThreadInv, InTry, BeforeTry, AfterCheck
  <2>3. CASE pc' \in {"on_cancelled", "steps"}
    BY <2>1, <2>2, <2>3, OutputLeaves DEF LoopLabels, Labels
  <2>4. CASE pc' \notin {"on_cancelled", "steps"}
    <3>1. pc \in LoopLabels /\ pc' \in LoopLabels /\ pc' # "end_step"
      BY <1>4, <2>4 DEF Checkpoint, AfterCheck, LoopLabels, Labels, BeforeTry, OpFiles
    <3>2. TraceInv'
      BY <1>0, <1>4, <2>1, <2>4
         DEF Checkpoint, AfterCheck, TraceInv, Traced, ConsumedKnown, AfterGate
    <3>3. QED
      BY <2>1, <3>1, <3>2, OutputMoves
  <2>5. QED
    BY <2>3, <2>4
<1>5. CASE EnterSteps
  <2>1. /\ th.step = 1 /\ th' = th /\ run'.arts = run.arts /\ run'.consumed = run.consumed
        /\ run'.status = "running" /\ dir' = dir
    BY <1>0, <1>5 DEF EnterSteps, ThreadInv, InTry, BeforeTry, RunJson
  <2>2. RecordedInv'
    BY <1>0, <2>1, RecordedSame
  <2>3. TraceInv'
    BY <1>5 DEF EnterSteps, TraceInv, AfterGate
  <2>4. DeliveredInv'
    BY <1>0, <1>5, <2>1 DEF EnterSteps, DeliveredInv, LoopLabels
  <2>5. QED
    BY <2>1, <2>2, <2>3, <2>4 DEF OutputInv, OutputsComplete
<1>6. CASE BeginStep
  <2>1. pc \in LoopLabels /\ pc \notin {"end_step"}
    BY <1>6 DEF BeginStep, LoopLabels, Labels, BeforeTry
  <2>2. /\ th'.step = th.step /\ run'.status = run.status /\ run'.arts = run.arts
        /\ run'.consumed = run.consumed /\ dir' = dir /\ Cur' = Cur
    BY <1>0, <1>6 DEF BeginStep, RunJson, Locals, Cur
  <2>3. Cur.kind \in Kinds
    BY <1>1, <2>1 DEF Step
  <2>4. pc' \in LoopLabels /\ (pc' = "end_step" => Cur.kind # "formalize")
    BY <1>6, <2>3, LabelFacts DEF BeginStep, FirstLabel, Kinds
  <2>5. TraceInv'
    BY <1>6, <2>3 DEF BeginStep, FirstLabel, Kinds, TraceInv, AfterGate
  <2>6. QED
    BY <2>1, <2>2, <2>4, <2>5, OutputMoves
<1>7. CASE EndStep
  <2>1. /\ run'.arts = run.arts /\ run'.consumed = run.consumed /\ run'.status = "running" /\ dir' = dir
        /\ th.step \in 1..Len(plan) /\ plan \in Seq(Step)
    BY <1>0, <1>1, <1>7, PlansAssumption DEF EndStep, RunJson, TypeOK, LoopLabels, Labels, BeforeTry
  <2>2. RecordedInv'
    BY <1>0, <2>1, RecordedSame
  <2>3. TraceInv'
    BY <1>7 DEF EndStep, TraceInv, AfterGate
  <2>4. Delivered => Delivered'
    BY <2>1, DeliveredKept
  <2>5. \A i \in 1..th.step : plan[i].kind = "formalize" => Delivered'
    BY <1>0, <1>7, <2>1, <2>4 DEF EndStep, DeliveredInv, LoopLabels, Labels, BeforeTry, Cur
  <2>6. DeliveredInv'
    <3>1. CASE th.step < Len(plan)
      <4>1. th'.step - 1 = th.step /\ pc' = "chk_step"
        BY <1>0, <1>7, <2>1, <3>1 DEF EndStep, Locals
      <4>2. QED
        BY <1>0, <2>5, <4>1 DEF DeliveredInv
    <3>2. CASE ~(th.step < Len(plan))
      <4>1. th.step = Len(plan) /\ pc' = "finish" /\ DOMAIN plan = 1..Len(plan)
        BY <1>7, <2>1, <3>2 DEF EndStep
      <4>2. QED
        BY <1>0, <2>5, <4>1 DEF DeliveredInv, LoopLabels
    <3>3. QED
      BY <3>1, <3>2
  <2>7. QED
    BY <2>1, <2>2, <2>3, <2>6 DEF OutputInv, OutputsComplete
<1>8. CASE MapSpeakers \/ SearchLibrary
  <2>1. PICK l \in {"overlay", "search"} : Produce(l, "end_step")
    BY <1>8 DEF MapSpeakers, SearchLibrary
  <2>2. Cur.kind # "formalize"
    BY <2>1 DEF Produce, KindInv
  <2>3. Wrote(l, "end_step") => TraceInv'
    BY DEF Wrote, TraceInv, AfterGate
  <2>4. QED
    BY <2>1, <2>2, <2>3, OutputProduce DEF OpFiles, LoopLabels, Labels, BeforeTry
<1>9. CASE ExtractOnly
  BY <1>0, <1>1, <1>9, OutputLeaves DEF ExtractOnly, Raise, LoopLabels, Labels, BeforeTry
<1>10. CASE SelectSubstrate \/ PinSelection
  <2>1. /\ th'.step = th.step /\ run'.status = run.status /\ run'.arts = run.arts
        /\ run'.consumed = run.consumed /\ dir' = dir
        /\ pc \in LoopLabels /\ pc' \in LoopLabels /\ pc' # "end_step"
    BY <1>0, <1>10
       DEF SelectSubstrate, PinSelection, RunJson, Locals, LoopLabels, Labels, BeforeTry, OpFiles,
           AfterCheck
  <2>2. TraceInv'
    BY <1>0, <1>10 DEF SelectSubstrate, PinSelection, TraceInv, Locals, AfterGate
  <2>3. QED
    BY <2>1, <2>2, OutputMoves
<1>11. CASE ReuseTranscripts
  <2>1. /\ pc \in LoopLabels /\ pc = "reuse" /\ PlanReuses
        /\ WritesAt("reuse") \in SUBSET Files
    BY <1>0, <1>1, <1>11, WritesAtType
       DEF ReuseTranscripts, LoopLabels, Labels, BeforeTry, OpFiles, KindInv, PlanReuses, Cur
  <2>2. run'.status = run.status /\ run'.consumed = run.consumed /\ th'.step = th.step
    BY <1>0, <1>11 DEF ReuseTranscripts, RunJson, Locals, Raise
  <2>3. CASE pc' = "on_failed"
    BY <1>0, <1>1, <1>11, <2>1, <2>2, <2>3, OutputLeaves
       DEF ReuseTranscripts, RunJson, LoopLabels, Labels
  <2>4. CASE /\ dir' = Written(WritesAt("reuse"), "none") /\ pc' = "policy"
             /\ run'.arts = run.arts \cup (WritesAt("reuse") \cap Recorded)
    <3>1. RecordedInv'
      BY <1>0, <1>1, <2>1, <2>2, <2>4, RecordedKept
    <3>2. TraceInv'
      BY <1>0, <2>1, <2>4 DEF TraceInv, Traced, AfterGate
    <3>3. dir'.draft = dir.draft
      BY <1>0, <2>1, <2>4, WrittenVersions DEF WritesAt, OpFiles
    <3>4. Delivered => Delivered'
      BY <2>2, <2>4, <3>3, DeliveredKept
    <3>5. QED
      BY <1>1, <2>1, <2>2, <2>4, <3>1, <3>2, <3>4, OutputWithin
         DEF Completed, LoopLabels, Labels, BeforeTry, OpFiles
  <2>5. QED
    BY <1>0, <1>11, <2>3, <2>4 DEF ReuseTranscripts, Raise, RunJson
<1>12. CASE MaterializeVersion
  <2>1. /\ pc \in LoopLabels /\ pc = "materialize" /\ WritesAt("materialize") = {"transcript"}
    BY <1>12 DEF MaterializeVersion, LoopLabels, Labels, BeforeTry, OpFiles, WritesAt
  <2>2. CASE pc' = "on_failed"
    BY <1>0, <1>1, <1>12, <2>1, <2>2, OutputLeaves
       DEF MaterializeVersion, RunJson, LoopLabels, Labels
  <2>3. CASE dir' = Written({"transcript"}, "none") /\ pc' = "policy" /\ th' = th
    <3>1. RecordedInv'
      BY <1>0, <1>1, <1>12, <2>1, <2>3, RecordedKept DEF MaterializeVersion, Files
    <3>2. dir'.draft = dir.draft /\ dir'.stamp = th.used
      BY <1>0, <2>1, <2>3, WrittenVersions DEF Files, SubstrateStamp, TraceInv
    <3>3. TraceInv'
      BY <1>0, <2>1, <2>3, <3>2 DEF TraceInv, Traced, AfterGate
    <3>4. Delivered => Delivered'
      BY <1>12, <3>2, DeliveredKept DEF MaterializeVersion
    <3>5. QED
      BY <1>1, <1>12, <2>1, <2>3, <3>1, <3>3, <3>4, OutputWithin
         DEF MaterializeVersion, Completed, LoopLabels, Labels, BeforeTry, OpFiles
  <2>4. QED
    BY <1>12, <2>1, <2>2, <2>3 DEF MaterializeVersion, Raise
<1>13. CASE Transcribe \/ Diarize
  <2>1. PICK l \in {"transcribe", "diarize"} :
            Produce(l, IF l = "transcribe" THEN "policy" ELSE "chk_align")
    BY <1>13 DEF Transcribe, Diarize
  <2>2. l = "transcribe" => ~th.reused
    BY <2>1 DEF Produce, KindInv
  <2>3. Wrote(l, IF l = "transcribe" THEN "policy" ELSE "chk_align") => TraceInv'
    BY <2>2 DEF Wrote, TraceInv, AfterGate
  <2>4. QED
    BY <2>1, <2>3, OutputProduce DEF OpFiles, LoopLabels, Labels, BeforeTry, AfterCheck
<1>14. CASE DiarizationPolicy
  <2> DEFINE next == IF Diarizes THEN "chk_diarize"
                     ELSE IF th.reused THEN "chk_ingest" ELSE "chk_emit"
  <2>1. Wrote("policy", next) => TraceInv'
    <3>1. pc = "policy" /\ "transcript" \notin WritesAt("policy")
      BY <1>14 DEF DiarizationPolicy, Produce, WritesAt, OpFiles
    <3>2. Wrote("policy", next) => Cur' = Cur
      BY <1>0 DEF Wrote, Cur
    <3>3. QED
      BY <1>0, <3>1, <3>2 DEF Wrote, TraceInv, Traced, AfterGate
  <2>2. next # "end_step" /\ next \in LoopLabels
    BY DEF LoopLabels, Labels, BeforeTry, AfterCheck
  <2>3. Produce("policy", next)
    BY <1>14 DEF DiarizationPolicy
  <2> HIDE DEF next
  <2>4. QED
    BY <2>1, <2>2, <2>3, OutputProduce DEF OpFiles, LoopLabels, Labels, BeforeTry
<1>15. CASE Align
  <2>1. /\ pc \in LoopLabels /\ pc = "align" /\ WritesAt("align") = {"aligned"}
        /\ run'.status = run.status /\ run'.consumed = run.consumed /\ th'.step = th.step
    BY <1>0, <1>15 DEF Align, LoopLabels, Labels, BeforeTry, OpFiles, WritesAt, RunJson, Raise, Locals
  <2>2. CASE pc' = "on_failed"
    BY <1>0, <1>1, <1>15, <2>1, <2>2, OutputLeaves DEF Align, LoopLabels, Labels
  <2>3. CASE /\ dir' = Written({"aligned"}, "none") /\ pc' = "chk_emit"
             /\ run'.arts = run.arts \cup {"aligned"}
    <3>1. RecordedInv'
      BY <1>0, <1>1, <2>1, <2>3, RecordedKept DEF Files
    <3>2. dir'.draft = dir.draft
      BY <1>0, <2>3, WrittenVersions DEF Files
    <3>3. TraceInv'
      BY <2>3 DEF TraceInv, AfterGate
    <3>4. Delivered => Delivered'
      BY <2>1, <2>3, <3>2, DeliveredKept
    <3>5. QED
      BY <1>1, <2>1, <2>3, <3>1, <3>3, <3>4, OutputWithin
         DEF Completed, LoopLabels, Labels, BeforeTry, AfterCheck
  <2>4. QED
    BY <1>0, <1>15, <2>1, <2>2, <2>3 DEF Align, Raise, RunJson
<1>16. CASE EmitVersion
  <2>1. /\ pc \in LoopLabels /\ pc = "emit" /\ WritesAt("emit") = {"integrity_report"}
        /\ run' = run /\ nInvoked > 0
    BY <1>1, <1>16 DEF EmitVersion, LoopLabels, Labels, BeforeTry, OpFiles, WritesAt
  <2>2. dir' = dir \/ dir' = Written({"integrity_report"}, "none")
    BY <1>16, <2>1 DEF EmitVersion
  <2>3. RecordedInv' /\ dir'.draft = dir.draft
    BY <1>0, <2>1, <2>2, RecordedSame, RecordedKept, WrittenVersions DEF Files
  <2>4. CASE pc' = "on_failed"
    BY <1>1, <2>1, <2>3, <2>4, OutputOutside DEF LoopLabels, Labels, Completed
  <2>5. CASE pc' = "stamp" /\ \E v \in Trvs : th' = [th EXCEPT !.used = v]
    <3>1. th'.used # NoTrv /\ th'.step = th.step
      BY <1>0, <2>5, TrvAssumption DEF Locals
    <3>2. TraceInv'
      BY <2>5, <3>1 DEF TraceInv, AfterGate
    <3>3. Delivered => Delivered'
      BY <2>1, <2>3, DeliveredKept
    <3>4. QED
      BY <1>1, <2>1, <2>3, <2>5, <3>1, <3>2, <3>3, OutputWithin
         DEF Completed, LoopLabels, Labels, BeforeTry
  <2>6. QED
    BY <1>16, <2>4, <2>5 DEF EmitVersion, Raise
<1>17. CASE StampProduced
  <2>1. /\ pc \in LoopLabels /\ pc = "stamp" /\ pc' = "chk_ingest" /\ pc' \in LoopLabels /\ th' = th
        /\ run'.status = run.status /\ run'.arts = run.arts /\ run'.consumed = run.consumed
        /\ dir'.wrote = dir.wrote /\ dir'.draft = dir.draft /\ Cur' = Cur
        /\ (Cur.kind = "formalize" => dir'.stamp = th.used)
    BY <1>0, <1>17 DEF StampProduced, LoopLabels, Labels, BeforeTry, AfterCheck, RunJson, RunDir, Cur
  <2>2. TraceInv'
    BY <1>0, <2>1 DEF TraceInv, Traced, AfterGate
  <2>3. QED
    BY <2>1, <2>2, OutputMoves
<1>18. CASE Ingest
  <2> DEFINE next == IF Cur.kind = "formalize" THEN "chk_json" ELSE "end_step"
  <2>1. Wrote("ingest", next) => TraceInv'
    <3>1. pc = "ingest" /\ "transcript" \notin WritesAt("ingest")
      BY <1>18 DEF Ingest, Produce, WritesAt, OpFiles
    <3>2. Wrote("ingest", next) => Cur' = Cur
      BY <1>0 DEF Wrote, Cur
    <3>3. QED
      BY <1>0, <3>1, <3>2 DEF Wrote, TraceInv, Traced, AfterGate
  <2>2. next \in LoopLabels /\ (next = "end_step" => Cur.kind # "formalize")
    BY DEF LoopLabels, Labels, BeforeTry, AfterCheck
  <2>3. Produce("ingest", next)
    BY <1>18 DEF Ingest
  <2> HIDE DEF next
  <2>4. QED
    BY <2>1, <2>2, <2>3, OutputProduce DEF OpFiles, LoopLabels, Labels, BeforeTry
<1>19. CASE FormalizeJson
  <2>1. /\ Produce("json", "chk_gate") /\ pc = "json" /\ Cur.kind = "formalize"
        /\ WritesAt("json") = {"json"}
    BY <1>19 DEF FormalizeJson, Produce, KindInv, FormalizeLabels, WritesAt, OpFiles
  <2>2. Wrote("json", "chk_gate") => TraceInv'
    BY <1>0, <2>1 DEF Wrote, TraceInv, Traced, AfterGate, Recorded
  <2>3. QED
    BY <2>1, <2>2, OutputProduce DEF OpFiles, LoopLabels, Labels, BeforeTry, AfterCheck
<1>20. CASE TruthGate
  <2>1. /\ pc \in LoopLabels /\ pc = "gate" /\ WritesAt("gate") = {"truth_gate_report"}
        /\ run'.status = run.status /\ run'.arts = run.arts /\ th'.step = th.step
    BY <1>0, <1>20
       DEF TruthGate, LoopLabels, Labels, BeforeTry, OpFiles, WritesAt, RunJson, Raise, Locals
  <2>2. CASE pc' = "on_failed"
    <3>1. run' = run
      BY <1>20, <2>2 DEF TruthGate
    <3>2. dir' = dir \/ \E v \in Verdicts : dir' = Written({"truth_gate_report"}, v)
      BY <1>20, <2>1 DEF TruthGate, Verdicts
    <3>3. QED
      BY <1>1, <2>1, <2>2, <3>1, <3>2, OutputLeaves DEF LoopLabels, Completed, Files
  <2>3. CASE /\ Absent({"truth_gate_report"}) /\ dir' = Written({"truth_gate_report"}, "allowed")
             /\ run' = [run EXCEPT !.consumed = IF @ = NoTrv THEN th.used ELSE @]
             /\ pc' = "chk_md" /\ th' = th
    <3>1. run.consumed = NoTrv /\ run'.consumed = th.used
      BY <1>0, <2>3 DEF RecordedInv, Absent, RunJson
    <3>2. RecordedInv'
      BY <1>0, <1>1, <2>1, <2>3, RecordedKept DEF Files
    <3>3. dir'.draft = dir.draft /\ Traced(dir.draft)
      BY <1>0, <2>1, <2>3, WrittenVersions DEF Files, TraceInv
    <3>4. ConsumedKnown'
      BY <1>0, <3>1, <3>3 DEF Traced, ConsumedKnown
    <3>5. TraceInv'
      BY <1>0, <2>1, <2>3, <3>4 DEF TraceInv, AfterGate
    <3>6. Delivered => Delivered'
      BY <2>1, <3>4 DEF Delivered
    <3>7. QED
      BY <1>1, <2>1, <2>3, <3>2, <3>5, <3>6, OutputWithin
         DEF Completed, LoopLabels, Labels, BeforeTry, AfterCheck
  <2>4. QED
    BY <1>20, <2>1, <2>2, <2>3 DEF TruthGate, Raise
<1>21. CASE RenderMd \/ RenderTxt \/ EvidenceMap
  <2>1. PICK l \in {"md", "txt", "evidence"} :
            Produce(l, CASE l = "md" -> "chk_txt" [] l = "txt" -> "bump_evidence"
                         [] l = "evidence" -> "chk_pdf")
    BY <1>21 DEF RenderMd, RenderTxt, EvidenceMap
  <2> DEFINE next == CASE l = "md" -> "chk_txt" [] l = "txt" -> "bump_evidence"
                       [] l = "evidence" -> "chk_pdf"
  <2>2. pc = l /\ (Wrote(l, next) => TraceInv')
    BY <1>0, <2>1
       DEF Produce, Wrote, TraceInv, ConsumedKnown, AfterGate, WritesAt, OpFiles, Recorded, Published
  <2>3. next \in LoopLabels /\ next # "end_step"
    BY DEF LoopLabels, Labels, BeforeTry, AfterCheck
  <2> HIDE DEF next
  <2>4. Produce(l, next)
    BY <2>1 DEF next
  <2>5. QED
    BY <2>2, <2>3, <2>4, OutputProduce DEF OpFiles, LoopLabels, Labels, BeforeTry
<1>22. CASE RenderPdf
  <2>1. Produce("pdf", "end_step") /\ pc = "pdf" /\ WritesAt("pdf") = {"pdf"}
    BY <1>22 DEF RenderPdf, Produce, WritesAt, OpFiles
  <2>2. Wrote("pdf", "end_step") => TraceInv'
    BY DEF Wrote, TraceInv, AfterGate
  <2>3. Wrote("pdf", "end_step") => Delivered'
    BY <1>0, <2>1 DEF Wrote, TraceInv, AfterGate, Delivered, ConsumedKnown, Recorded, Published
  <2>4. QED
    BY <2>1, <2>2, <2>3, OutputProduce DEF OpFiles, LoopLabels, Labels, BeforeTry
<1>23. CASE StartEvidenceMap
  <2>1. /\ pc = "bump_evidence" /\ pc \in LoopLabels /\ pc' = "evidence" /\ pc' \in LoopLabels
        /\ th'.step = th.step /\ run'.status = run.status /\ run'.arts = run.arts
        /\ run'.consumed = run.consumed /\ dir' = dir
    BY <1>0, <1>23 DEF StartEvidenceMap, LoopLabels, Labels, BeforeTry, OpFiles, RunJson, Locals
  <2>2. TraceInv'
    BY <1>0, <2>1 DEF TraceInv, ConsumedKnown, AfterGate
  <2>3. QED
    BY <2>1, <2>2, OutputMoves
<1>24. CASE Succeed
  <2>1. /\ pc' = "idle" /\ dir' = dir /\ run'.arts = run.arts /\ run'.consumed = run.consumed
        /\ run'.outputs = PrimaryOutputs
    BY <1>0, <1>24 DEF Succeed, RunJson
  <2>2. RecordedInv'
    BY <1>0, <2>1, RecordedSame
  <2>3. TraceInv' /\ DeliveredInv'
    BY <2>1 DEF TraceInv, DeliveredInv, AfterGate, LoopLabels, BeforeTry
  <2>4. ASSUME \E i \in DOMAIN plan : plan[i].kind = "formalize"
        PROVE  Delivered
    BY <1>0, <1>24, <2>4 DEF Succeed, DeliveredInv
  <2>5. OutputsComplete'
    BY <1>0, <2>1, <2>4
       DEF OutputsComplete, PrimaryOutputs, Delivered, ConsumedKnown, PlanReuses, RecordedInv, Published
  <2>6. QED
    BY <2>2, <2>3, <2>5 DEF OutputInv
<1>25. CASE Cancel \/ Fail
  <2>1. run'.arts = run.arts /\ run'.consumed = run.consumed /\ run'.status # "succeeded"
    BY <1>0, <1>25 DEF Cancel, Fail, RunJson
  <2>2. QED
    BY <1>25, <2>1, OutputLeaves DEF Cancel, Fail, LoopLabels, BeforeTry
<1>26. CASE AdapterRaises \/ Crash
  <2>1. pc' \in {"idle", "on_failed"} /\ run' = run /\ nInvoked > 0 /\ run'.status # "succeeded"
    BY <1>0, <1>26 DEF AdapterRaises, Crash, Raise, ThreadInv, Completed, OpFiles
  <2>2. \/ dir' = dir
        \/ \E fs \in SUBSET Files, v \in Verdicts : dir' = Written(fs, v)
    BY <1>26, WritesAtType DEF AdapterRaises, Crash, PartlyWritten
  <2>3. QED
    BY <2>1, <2>2, OutputLeaves DEF LoopLabels, BeforeTry
<1>27. CASE Web
  BY <1>27, OutputElsewhere DEF Web, CancelRead, CancelWrite, SelectTranscript, DeleteTranscript
<1>28. CASE UNCHANGED vars
  BY <1>28, OutputElsewhere DEF vars
<1>29. QED
  BY <1>2, <1>3, <1>4, <1>5, <1>6, <1>7, <1>8, <1>9, <1>10, <1>11, <1>12, <1>13, <1>14, <1>15,
     <1>16, <1>17, <1>18, <1>19, <1>20, <1>21, <1>22, <1>23, <1>24, <1>25, <1>26, <1>27, <1>28
     DEF Next, Thread

-----------------------------------------------------------------------------
(* The progress bar.                                                       *)

\* What whole division means.
LEMMA Division ==
    ASSUME NEW a \in Nat, NEW L \in Nat \ {0}
    PROVE  /\ a \div L \in Nat
           /\ L * (a \div L) <= a /\ a < L * (a \div L) + L
BY SMT

\* A larger number has no smaller quotient.
LEMMA DivisionMonotone ==
    ASSUME NEW a \in Nat, NEW b \in Nat, NEW L \in Nat \ {0}, a <= b
    PROVE  a \div L <= b \div L
<1> DEFINE p == a \div L  q == b \div L
<1>1. /\ p \in Nat /\ q \in Nat /\ L * p <= a /\ b < L * q + L
  BY Division
<1> HIDE DEF p, q
<1>2. SUFFICES ASSUME q + 1 <= p
               PROVE  FALSE
  BY <1>1 DEF p, q
<1>3. PICK k \in Nat : p = q + 1 + k
  <2>1. p - q - 1 \in Nat /\ p = q + 1 + (p - q - 1)
    BY <1>1, <1>2
  <2>2. QED
    BY <2>1
<1>4. L * p = L * q + L + L * k
  BY <1>1, <1>3
<1>5. L * k \in Nat /\ L * q \in Nat
  BY <1>1, <1>3
<1>6. QED
  BY <1>1, <1>4, <1>5

\* The slices of the steps follow one another from 0 to 90.
LEMMA BoundFacts ==
    ASSUME TypeOK, NEW i \in 1..Len(plan)
    PROVE  /\ Bound(i - 1) \in Nat /\ Bound(i) \in Nat
           /\ Bound(i - 1) <= Bound(i) /\ Bound(i) <= 90
           /\ Bound(0) = 0
<1>1. Len(plan) \in Nat \ {0} /\ i \in Nat \ {0}
  BY PlansAssumption DEF TypeOK
<1> DEFINE L == Len(plan)
<1>2. CASE L = 2 /\ plan[1].kind = "validate" /\ plan[2].kind = "formalize"
  BY <1>1, <1>2 DEF Bound
<1>3. CASE ~(L = 2 /\ plan[1].kind = "validate" /\ plan[2].kind = "formalize")
  <2>1. \A j \in Int : Bound(j) = (j * 90) \div L
    BY <1>3 DEF Bound
  <2>2. /\ (i - 1) * 90 \in Nat /\ i * 90 \in Nat /\ L * 90 \in Nat
        /\ (i - 1) * 90 <= i * 90 /\ i * 90 <= L * 90
    BY <1>1
  <2>3. (L * 90) \div L <= 90
    <3> DEFINE q == (L * 90) \div L
    <3>1. q \in Nat /\ L * q <= L * 90
      BY <1>1, <2>2, Division
    <3> HIDE DEF q
    <3>2. SUFFICES ASSUME 91 <= q
                   PROVE  FALSE
      BY <3>1 DEF q
    <3>3. PICK k \in Nat : q = 91 + k
      <4>1. q - 91 \in Nat /\ q = 91 + (q - 91)
        BY <3>1, <3>2
      <4>2. QED
        BY <4>1
    <3>4. L * q = L * 91 + L * k /\ L * k \in Nat
      BY <1>1, <3>3
    <3>5. QED
      BY <1>1, <3>1, <3>4
  <2>4. 0 \div L = 0
    BY <1>1
  <2>5. QED
    <3>1. /\ ((i - 1) * 90) \div L \in Nat /\ (i * 90) \div L \in Nat
          /\ ((i - 1) * 90) \div L <= (i * 90) \div L /\ (i * 90) \div L <= (L * 90) \div L
      BY <1>1, <2>2, Division, DivisionMonotone
    <3>2. (i * 90) \div L <= 90
      <4>1. (L * 90) \div L \in Nat
        BY <1>1, <2>2, Division
      <4>2. QED
        BY <2>3, <3>1, <4>1
    <3>3. Bound(i - 1) = ((i - 1) * 90) \div L /\ Bound(i) = (i * 90) \div L
      BY <1>1, <2>1
    <3>4. Bound(0) = 0
      <4>1. Bound(0) = (0 * 90) \div L
        BY <2>1
      <4>2. QED
        BY <2>4, <4>1
    <3>5. QED
      BY <3>1, <3>2, <3>3, <3>4
<1>4. QED
  BY <1>2, <1>3

\* A formalize step's progress grows with its sub-stages, within the step's slice.
LEMMA SubFacts ==
    ASSUME NEW a \in Nat, NEW b \in Nat, a <= b, NEW T \in {7, 9}, NEW s \in 0..9, s <= T
    PROVE  /\ a + (0 * (b - a)) \div T = a
           /\ a <= a + (s * (b - a)) \div T /\ a + (s * (b - a)) \div T <= b
           /\ s < T => a + (s * (b - a)) \div T <= a + ((s + 1) * (b - a)) \div T
<1>1. PICK d \in Nat : d = b - a
  OBVIOUS
<1>2. CASE T = 7
  BY <1>1, <1>2
<1>3. CASE T = 9
  BY <1>1, <1>3
<1>4. QED
  BY <1>2, <1>3

\* The progress a formalize step reports at sub-stage s.
PctAt(s) == StartPct + (s * (EndPct - StartPct)) \div SubTotal

\* Where it lies, and that the next report is no smaller.
LEMMA ProgressFacts ==
    ASSUME TypeOK, th.step \in DOMAIN plan
    PROVE  /\ StartPct \in Nat /\ EndPct \in Nat /\ StartPct <= EndPct /\ EndPct <= 90
           /\ SubPct = PctAt(th.sub) /\ SubPct \in Int /\ SubTotal \in {7, 9}
           /\ PctAt(0) = StartPct
           /\ th.sub <= SubTotal =>
                 /\ StartPct <= SubPct /\ SubPct <= EndPct
                 /\ SubPct <= PctAt(NextSub) /\ NextSub <= SubTotal /\ PctAt(NextSub) \in Int
<1>1. th.step \in 1..Len(plan) /\ th.sub \in 0..9 /\ SubTotal \in {7, 9}
  BY PlansAssumption DEF TypeOK, Locals, SubTotal
<1>2. StartPct \in Nat /\ EndPct \in Nat /\ StartPct <= EndPct /\ EndPct <= 90
  BY <1>1, BoundFacts DEF StartPct, EndPct
<1>3. SubPct = PctAt(th.sub) /\ SubPct \in Int
  BY PercentType DEF SubPct, PctAt
<1>4. PctAt(0) = StartPct
  BY <1>1, <1>2, SubFacts DEF PctAt
<1>5. ASSUME th.sub <= SubTotal
      PROVE  /\ StartPct <= SubPct /\ SubPct <= EndPct
             /\ SubPct <= PctAt(NextSub) /\ NextSub <= SubTotal /\ PctAt(NextSub) \in Int
  <2>1. StartPct <= SubPct /\ SubPct <= EndPct
    BY <1>1, <1>2, <1>3, <1>5, SubFacts DEF PctAt
  <2>2. CASE th.sub < SubTotal
    <3>1. NextSub = th.sub + 1 /\ NextSub <= SubTotal
      BY <1>1, <2>2 DEF NextSub
    <3>2. SubPct <= PctAt(NextSub)
      <4>1. \A s \in 0..9 : s <= SubTotal /\ s < SubTotal => PctAt(s) <= PctAt(s + 1)
        BY <1>1, <1>2, SubFacts DEF PctAt
      <4>2. QED
        BY <1>1, <1>3, <1>5, <2>2, <3>1, <4>1
    <3>3. PctAt(NextSub) \in Int
      <4>1. NextSub * (EndPct - StartPct) \in Nat
        <5>1. NextSub \in Nat
          BY <1>1, <3>1
        <5>2. EndPct - StartPct \in Nat
          BY <1>2
        <5>3. \A a, b \in Nat : a * b \in Nat
          OBVIOUS
        <5>4. QED
          BY <5>1, <5>2, <5>3
      <4>2. (NextSub * (EndPct - StartPct)) \div SubTotal \in Nat
        BY <1>1, <4>1, Division
      <4>3. QED
        BY <1>2, <4>2 DEF PctAt
    <3>4. QED
      BY <2>1, <3>1, <3>2, <3>3
  <2>3. CASE ~(th.sub < SubTotal)
    <3>1. NextSub = th.sub
      BY <1>1, <1>5, <2>3 DEF NextSub
    <3>2. NextSub <= SubTotal /\ PctAt(NextSub) = SubPct
      BY <1>3, <1>5, <3>1
    <3>3. SubPct \in Int /\ SubPct <= SubPct
      BY <1>3
    <3>4. QED
      BY <2>1, <3>2, <3>3
  <2>4. QED
    BY <2>2, <2>3
<1>6. QED
  BY <1>1, <1>2, <1>3, <1>4, <1>5

\* What a step does to the progress bar.
Advances == pc # "start" => run'.progress >= run.progress

\* A step of the thread within a step of its plan: progress is reported as it stands,
\* and the counter moved on, or nothing is reported.
LEMMA ProgressWithin ==
    ASSUME IInv, ProgressInv, [Next]_vars, th'.step = th.step,
           pc \in LoopLabels \ {"chk_step", "begin"},
           pc' \in LoopLabels \ {"chk_step", "begin"},
           \/ /\ run'.progress = SubPct /\ th'.sub = NextSub
              /\ pc' \notin {"chk_formalize", "select"}
           \/ /\ run'.progress = run.progress /\ th'.sub = th.sub
              /\ pc' \in {"chk_formalize", "select"} => pc \in {"chk_formalize", "select"}
    PROVE  ProgressInv' /\ Advances
<1>0. TypeOK /\ th.step \in DOMAIN plan /\ run.progress \in Int
  BY DEF IInv, ThreadInv, TypeOK, RunJson
<1>1. plan' = plan /\ StartPct' = StartPct /\ EndPct' = EndPct /\ SubTotal' = SubTotal
  BY PlanFixed DEF StartPct, EndPct, SubTotal, Bound, Cur
<1>2. SubPct' = PctAt(th'.sub)
  BY <1>1 DEF SubPct, PctAt
<1>3. th.sub <= SubTotal /\ run.progress <= SubPct
  BY DEF ProgressInv
<1>4. run'.progress <= PctAt(th'.sub) /\ th'.sub <= SubTotal /\ Advances
  BY <1>0, <1>3, ProgressFacts DEF Advances
<1>5. pc' \in {"chk_formalize", "select"} => run'.progress <= StartPct
  BY DEF ProgressInv
<1>6. QED
  BY <1>1, <1>2, <1>4, <1>5 DEF ProgressInv, LoopLabels, Labels, BeforeTry, AfterCheck

\* A step that leaves the loop, or happens outside it.
LEMMA ProgressOutside ==
    ASSUME IInv, pc' \notin LoopLabels \cup {"chk_begin", "steps", "finish"},
           run'.progress = run.progress \/ pc = "start"
    PROVE  ProgressInv' /\ Advances
<1>1. run.progress \in Int
  BY DEF IInv, TypeOK, RunJson
<1>2. QED
  BY <1>1 DEF ProgressInv, Advances, LoopLabels, Labels, BeforeTry, AfterCheck, OpFiles

\* A step of another actor.
LEMMA ProgressElsewhere ==
    ASSUME IInv, ProgressInv, [Next]_vars, UNCHANGED <<run, pc, th>>
    PROVE  ProgressInv' /\ Advances
<1>1. run.progress \in Int
  BY DEF IInv, TypeOK, RunJson
<1>2. StartPct' = StartPct /\ SubPct' = SubPct /\ SubTotal' = SubTotal
  BY PlanFixed DEF StartPct, EndPct, SubPct, SubTotal, Bound, Cur
<1>3. QED
  BY <1>1, <1>2 DEF ProgressInv, Advances

\* An operation in its common form, after the first step has begun.
LEMMA ProgressProduce ==
    ASSUME IInv, ProgressInv, [Next]_vars, NEW l \in DOMAIN OpFiles, l \in LoopLabels, NEW next,
           next \in LoopLabels \ {"chk_step", "begin", "chk_formalize", "select"},
           Produce(l, next)
    PROVE  ProgressInv' /\ Advances
<1>0. TypeOK /\ run \in RunJson /\ th \in Locals
  BY DEF IInv, TypeOK
<1>1. run'.progress = run.progress /\ th'.sub = th.sub /\ th'.step = th.step /\ pc = l
  BY <1>0 DEF Produce, Raise, RunJson, Locals
<1>2. CASE pc' = "on_failed"
  BY <1>1, <1>2, ProgressOutside DEF LoopLabels, Labels
<1>3. CASE pc' = next
  BY <1>1, <1>3, ProgressWithin DEF OpFiles
<1>4. QED
  BY <1>0, <1>2, <1>3, ProduceEffect

\* What is shown of a run never moves back, and never runs ahead of the next report.
LEMMA ProgressStep ==
    ASSUME IInv, ProgressInv, [Next]_vars
    PROVE  ProgressInv' /\ Advances
<1> USE DEF fixed, outside
<1>0. /\ TypeOK /\ ThreadInv /\ run \in RunJson /\ th \in Locals
      /\ plan' = plan /\ run.progress \in Int
  BY PlanFixed DEF IInv, TypeOK, RunJson
<1>1. pc \in LoopLabels => th.step \in DOMAIN plan
  BY <1>0 DEF ThreadInv
<1>2. CASE Invoke \/ DieBeforeTry \/ SkipNormalize \/ Cancel \/ Fail \/ Crash
  <2>1. run'.progress = run.progress
    BY <1>0, <1>2 DEF Invoke, DieBeforeTry, SkipNormalize, Cancel, Fail, Crash, RunJson
  <2>2. QED
    BY <1>2, <2>1, ProgressOutside
       DEF Invoke, DieBeforeTry, SkipNormalize, Cancel, Fail, Crash, LoopLabels, BeforeTry
<1>3. CASE ResolveInput \/ Normalize
  <2>1. run'.progress = run.progress /\ pc' \in {"normalize", "start", "on_failed"}
    BY <1>0, <1>3, ProduceEffect DEF ResolveInput, Normalize, Produce, RunJson
  <2>2. QED
    BY <2>1, ProgressOutside DEF LoopLabels, Labels, BeforeTry
<1>4. CASE StartRunning
  BY <1>0, <1>4 DEF StartRunning, ProgressInv, Advances, RunJson, LoopLabels, Labels, BeforeTry
<1>5. CASE Checkpoint
  <2>1. /\ th'.step = th.step
        /\ IF Bumps THEN run'.progress = SubPct /\ th'.sub = NextSub
           ELSE run' = run /\ th' = th
    BY <1>0, <1>5 DEF Checkpoint, RunJson, Locals
  <2>2. CASE pc = "chk_begin"
    <3>1. ~Bumps
      BY <2>2 DEF Bumps, BumpThenCheck, CheckThenBump
    <3>2. QED
      BY <1>0, <1>5, <2>1, <2>2, <3>1
         DEF Checkpoint, AfterCheck, ProgressInv, Advances, LoopLabels, Labels
  <2>3. CASE pc = "chk_step"
    <3>1. ~Bumps
      BY <2>3 DEF Bumps, BumpThenCheck, CheckThenBump
    <3>2. StartPct' = StartPct /\ run' = run /\ pc \in LoopLabels /\ run.progress <= StartPct
      BY <1>0, <1>1, <2>1, <2>3, <3>1
         DEF StartPct, Bound, ProgressInv, LoopLabels, Labels, BeforeTry, AfterCheck
    <3>3. pc' \in {"begin", "on_cancelled"}
      BY <1>5, <2>3 DEF Checkpoint, AfterCheck
    <3>4. QED
      BY <1>0, <3>2, <3>3 DEF ProgressInv, Advances, LoopLabels, Labels
  <2>4. CASE pc \notin {"chk_begin", "chk_step"}
    <3>1. pc \in LoopLabels \ {"chk_step", "begin"} /\ pc # "start"
      BY <1>5, <2>4 DEF Checkpoint, AfterCheck, LoopLabels, Labels, BeforeTry
    <3>2. CASE pc' = "on_cancelled"
      <4>1. run'.progress >= run.progress
        BY <1>0, <1>1, <2>1, <3>1, ProgressFacts DEF ProgressInv
      <4>2. QED
        BY <3>2, <4>1 DEF ProgressInv, Advances, LoopLabels, Labels
    <3>3. CASE pc' # "on_cancelled"
      <4>1. /\ pc' \in LoopLabels \ {"chk_step", "begin"}
            /\ pc' \in {"chk_formalize", "select"} => pc = "chk_formalize"
        BY <1>5, <2>4, <3>3 DEF Checkpoint, AfterCheck, LoopLabels, Labels, BeforeTry, OpFiles
      <4>2. Bumps => pc # "chk_formalize"
        BY DEF Bumps, BumpThenCheck, CheckThenBump
      <4>3. QED
        BY <2>1, <3>1, <4>1, <4>2, ProgressWithin
    <3>4. QED
      BY <3>2, <3>3
  <2>5. QED
    BY <2>2, <2>3, <2>4
<1>6. CASE EnterSteps
  <2>1. th.step = 1 /\ th' = th /\ run.progress <= 0
    BY <1>0, <1>6 DEF EnterSteps, ThreadInv, ProgressInv
  <2>2. CASE plan = << >>
    BY <1>0, <1>6, <2>1, <2>2 DEF EnterSteps, ProgressInv, Advances, RunJson, LoopLabels
  <2>3. CASE plan # << >>
    <3>1. 1 \in 1..Len(plan) /\ run' = run /\ pc' = "chk_step"
      BY <1>0, <1>6, <2>3, PlansAssumption DEF EnterSteps, TypeOK
    <3>2. StartPct' = 0
      BY <1>0, <2>1, <3>1, BoundFacts DEF StartPct, Bound
    <3>3. QED
      BY <1>0, <2>1, <3>1, <3>2 DEF ProgressInv, Advances
  <2>4. QED
    BY <2>2, <2>3
<1>7. CASE BeginStep
  <2>1. pc \in LoopLabels /\ pc = "begin" /\ pc # "start"
    BY <1>7 DEF BeginStep, LoopLabels, Labels, BeforeTry
  <2>2. th'.step = th.step /\ th'.sub = 0 /\ run'.progress = StartPct
    BY <1>0, <1>7 DEF BeginStep, RunJson, Locals
  <2>3. Cur.kind \in Kinds
    BY <1>0, <1>1, <2>1, CurType DEF Step
  <2>4. pc' \in LoopLabels \ {"chk_step", "begin", "finish", "chk_begin", "steps"}
    BY <1>7, <2>3 DEF BeginStep, FirstLabel, Kinds, LoopLabels, Labels, BeforeTry, AfterCheck, OpFiles
  <2>5. StartPct' = StartPct /\ SubTotal' = SubTotal /\ SubPct' = PctAt(0)
    BY <1>0, <2>2 DEF StartPct, EndPct, SubTotal, SubPct, PctAt, Bound, Cur
  <2>6. StartPct \in Nat /\ PctAt(0) = StartPct /\ SubTotal \in {7, 9}
    BY <1>0, <1>1, <2>1, ProgressFacts
  <2>7. run.progress <= StartPct
    BY <2>1 DEF ProgressInv
  <2>8. QED
    BY <1>0, <2>1, <2>2, <2>4, <2>5, <2>6, <2>7 DEF ProgressInv, Advances
<1>8. CASE EndStep
  <2>1. /\ pc \in LoopLabels \ {"chk_step", "begin", "start"}
        /\ run'.progress = EndPct /\ th.step \in DOMAIN plan
    BY <1>0, <1>1, <1>8 DEF EndStep, LoopLabels, Labels, BeforeTry, RunJson
  <2>2. EndPct \in Nat /\ EndPct <= 90 /\ run.progress <= EndPct
    BY <1>0, <2>1, ProgressFacts DEF ProgressInv
  <2>3. CASE th.step < Len(plan)
    <3>1. th'.step - 1 = th.step /\ pc' = "chk_step"
      BY <1>0, <1>8, <2>3 DEF EndStep, Locals
    <3>2. StartPct' = EndPct
      BY <1>0, <3>1 DEF StartPct, EndPct, Bound
    <3>3. QED
      BY <1>0, <2>1, <2>2, <3>1, <3>2 DEF ProgressInv, Advances
  <2>4. CASE ~(th.step < Len(plan))
    BY <1>0, <1>8, <2>1, <2>2, <2>4 DEF EndStep, ProgressInv, Advances, LoopLabels
  <2>5. QED
    BY <2>3, <2>4
<1>9. CASE MapSpeakers \/ SearchLibrary \/ Transcribe \/ Diarize
           \/ FormalizeJson \/ RenderMd \/ RenderTxt \/ EvidenceMap \/ RenderPdf
  BY <1>9, ProgressProduce
     DEF MapSpeakers, SearchLibrary, Transcribe, Diarize, FormalizeJson,
         RenderMd, RenderTxt, EvidenceMap, RenderPdf, OpFiles, LoopLabels, Labels, BeforeTry, AfterCheck
<1>10. CASE DiarizationPolicy \/ Ingest
  <2>1. PICK l \in {"policy", "ingest"},
             next \in {"chk_diarize", "chk_ingest", "chk_emit", "chk_json", "end_step"} :
                 Produce(l, next)
    BY <1>10 DEF DiarizationPolicy, Ingest
  <2>2. QED
    BY <2>1, ProgressProduce DEF OpFiles, LoopLabels, Labels, BeforeTry, AfterCheck
<1>11. CASE ExtractOnly \/ AdapterRaises
  BY <1>11, ProgressOutside DEF ExtractOnly, AdapterRaises, Raise, LoopLabels, Labels
<1>12. CASE SelectSubstrate
  <2>1. /\ pc \in LoopLabels \ {"chk_step", "begin", "start"} /\ pc = "select"
        /\ pc' \in LoopLabels \ {"chk_step", "begin", "chk_formalize", "select"}
        /\ pc' \notin {"finish", "chk_begin", "steps"}
        /\ run'.progress = StartPct /\ th'.sub = th.sub /\ th'.step = th.step
    BY <1>0, <1>12
       DEF SelectSubstrate, RunJson, Locals, LoopLabels, Labels, BeforeTry, OpFiles, AfterCheck
  <2>2. SubTotal' = SubTotal /\ SubPct' = SubPct
    BY <1>0, <2>1 DEF StartPct, EndPct, SubTotal, SubPct, Bound, Cur
  <2>3. run.progress <= StartPct /\ th.sub <= SubTotal
    BY <2>1 DEF ProgressInv
  <2>4. StartPct \in Nat /\ StartPct <= SubPct
    BY <1>0, <1>1, <2>1, <2>3, ProgressFacts
  <2>5. QED
    BY <1>0, <2>1, <2>2, <2>3, <2>4 DEF ProgressInv, Advances
<1>13. CASE ReuseTranscripts
  <2>1. pc \in LoopLabels \ {"chk_step", "begin", "start"} /\ run'.progress = SubPct
    BY <1>0, <1>13 DEF ReuseTranscripts, RunJson, LoopLabels, Labels, BeforeTry, OpFiles
  <2>2. CASE pc' = "policy"
    <3>1. th'.sub = NextSub /\ th'.step = th.step
      BY <1>0, <1>13, <2>2 DEF ReuseTranscripts, Raise, Locals
    <3>2. QED
      BY <2>1, <2>2, <3>1, ProgressWithin DEF LoopLabels, Labels, BeforeTry, OpFiles
  <2>3. CASE pc' = "on_failed"
    <3>1. run'.progress >= run.progress
      BY <1>0, <1>1, <2>1, ProgressFacts DEF ProgressInv
    <3>2. QED
      BY <2>3, <3>1 DEF ProgressInv, Advances, LoopLabels, Labels
  <2>4. QED
    BY <1>13, <2>2, <2>3 DEF ReuseTranscripts, Raise
<1>14. CASE PinSelection \/ StartEvidenceMap
  <2>1. /\ pc \in LoopLabels \ {"chk_step", "begin"}
        /\ pc' \in LoopLabels \ {"chk_step", "begin", "chk_formalize", "select"}
        /\ run'.progress = SubPct /\ th'.sub = NextSub /\ th'.step = th.step
    BY <1>0, <1>14
       DEF PinSelection, StartEvidenceMap, RunJson, Locals, LoopLabels, Labels, BeforeTry, OpFiles
  <2>2. QED
    BY <2>1, ProgressWithin
<1>15. CASE MaterializeVersion \/ Align \/ EmitVersion \/ StampProduced \/ TruthGate
  <2>1. /\ pc \in LoopLabels \ {"chk_step", "begin"}
        /\ pc' \in (LoopLabels \ {"chk_step", "begin", "chk_formalize", "select"}) \cup {"on_failed"}
        /\ run'.progress = run.progress /\ th'.sub = th.sub /\ th'.step = th.step
    BY <1>0, <1>15
       DEF MaterializeVersion, Align, EmitVersion, StampProduced, TruthGate, Raise, RunJson, Locals,
           LoopLabels, Labels, BeforeTry, OpFiles, AfterCheck
  <2>2. CASE pc' = "on_failed"
    BY <2>1, <2>2, ProgressOutside DEF LoopLabels, Labels
  <2>3. CASE pc' # "on_failed"
    BY <2>1, <2>3, ProgressWithin
  <2>4. QED
    BY <2>2, <2>3
<1>16. CASE Succeed
  BY <1>0, <1>16 DEF Succeed, ProgressInv, Advances, RunJson, LoopLabels, BeforeTry
<1>17. CASE Web
  BY <1>17, ProgressElsewhere DEF Web, CancelRead, CancelWrite, SelectTranscript, DeleteTranscript
<1>18. CASE UNCHANGED vars
  BY <1>18, ProgressElsewhere DEF vars
<1>19. QED
  BY <1>2, <1>3, <1>4, <1>5, <1>6, <1>7, <1>8, <1>9, <1>10, <1>11, <1>12, <1>13, <1>14, <1>15,
     <1>16, <1>17, <1>18 DEF Next, Thread

-----------------------------------------------------------------------------
(* The theorems.                                                           *)

\* A queued run of any plan satisfies the invariant.
LEMMA InitIInv ==
    ASSUME Init
    PROVE  IInv
<1>1. TypeOK
  <2>1. NoTrv \in Versions /\ Existing \cup {NoTrv} \subseteq Versions /\ Existing \subseteq Trvs
    BY TrvAssumption DEF Versions
  <2>2. run \in RunJson
    BY <2>1 DEF Init, RunJson, Outputs, NoOutputs, Statuses, Errors
  <2>3. dir \in RunDir
    BY <2>1 DEF Init, RunDir
  <2>4. ses \in Session
    BY <2>1 DEF Init, Session
  <2>5. th \in Locals
    BY <2>1 DEF Init, Locals, Errors
  <2>6. base \in [present : BOOLEAN, aligned : BOOLEAN, stamp : Versions]
    BY <2>1 DEF Init
  <2>7. QED
    BY <2>2, <2>3, <2>4, <2>5, <2>6 DEF Init, TypeOK, Labels
<1>2. ThreadInv
  BY DEF Init, ThreadInv, InTry, BeforeTry, LoopLabels
<1>3. GateInv
  BY DEF Init, GateInv, PublishedOnlyPastGate, AfterGate, Files, Published
<1>4. CancelInv
  BY DEF Init, CancelInv, CancelHonoured, PastLastCheck
<1>5. QED
  BY <1>1, <1>2, <1>3, <1>4 DEF IInv

\* The invariant holds in every state of every behaviour, whatever the plans,
\* the versions and the bounds on invocations and crashes.
THEOREM Invariance == Spec => []IInv
<1>1. IInv /\ [Next]_vars => IInv'
  BY TypeStep, ThreadStep, GateStep, CancelStep DEF IInv
<1>2. QED
  BY InitIInv, <1>1, PTL DEF Spec

\* Every variable keeps its shape, and the sub-stage counter its range.
THEOREM TypeCorrect == Spec => []TypeOK
<1>1. IInv => TypeOK
  BY DEF IInv
<1>2. QED
  BY <1>1, Invariance, PTL

\* Nothing is published of a draft the truth gate did not allow.
THEOREM GateBeforePublish == Spec => []PublishedOnlyPastGate
<1>1. IInv => PublishedOnlyPastGate
  BY DEF IInv, GateInv
<1>2. QED
  BY <1>1, Invariance, PTL

\* A cancel request the run can still see keeps it from succeeding.
THEOREM CancelObeyed == Spec => []CancelHonoured
<1>1. IInv => CancelHonoured
  BY DEF IInv, CancelInv
<1>2. QED
  BY <1>1, Invariance, PTL

\* No step of any actor changes run.json or the directory of a completed run.
THEOREM CompletedStays == Spec => CompletedIsFinal
<1>1. ASSUME IInv, [Next]_vars
      PROVE  [run.status \in {"succeeded", "failed"} => UNCHANGED <<run, dir>>]_vars
  <2> SUFFICES ASSUME Next, run.status \in {"succeeded", "failed"}
               PROVE  UNCHANGED <<run, dir>>
    BY <1>1
  <2>1. pc = "idle"
    BY <1>1 DEF IInv, ThreadInv, Completed
  <2>2. CASE Operation
    <3>1. pc \in LoopLabels
      BY <1>1, <2>2, OperationEffect DEF IInv, Effect
    <3>2. QED
      BY <2>1, <3>1 DEF LoopLabels, BeforeTry
  <2>3. CASE Invoke
    BY <2>3 DEF Invoke, Completed
  <2>4. CASE Web
    BY <2>4 DEF Web, CancelRead, CancelWrite, SelectTranscript, DeleteTranscript
  <2>5. CASE \/ DieBeforeTry \/ ResolveInput \/ Normalize
             \/ SkipNormalize \/ StartRunning \/ Checkpoint \/ EnterSteps
             \/ BeginStep \/ EndStep \/ Succeed \/ Cancel \/ Fail \/ Crash
    BY <2>1, <2>5 DEF DieBeforeTry, ResolveInput, Normalize, SkipNormalize, StartRunning,
         Checkpoint, AfterCheck, EnterSteps, BeginStep, EndStep, Succeed, Cancel, Fail, Crash
  <2>6. QED
    BY <2>2, <2>3, <2>4, <2>5, StepCases
<1>2. QED
  BY <1>1, Invariance, PTL DEF Spec, CompletedIsFinal

\* The pipeline implements the status machine its pollers rely on.
THEOREM RefinesLifecycle == Spec => LifecycleSpec
<1> USE DEF Lifecycle!vars, Lifecycle!Final, fixed, outside
<1>1. ASSUME Init
      PROVE  Lifecycle!Init
  BY <1>1 DEF Init, Lifecycle!Init
<1>2. ASSUME IInv, [Next]_vars
      PROVE  [Lifecycle!Next]_(Lifecycle!vars)
  <2> USE DEF Lifecycle!Next
  <2>0. TypeOK /\ ThreadInv /\ CancelInv /\ run \in RunJson
    BY <1>2 DEF IInv, TypeOK
  <2>1. ASSUME run'.status = run.status, UNCHANGED <<receipt, timely>>
        PROVE  UNCHANGED Lifecycle!vars
    BY <2>1
  <2>2. CASE Operation
    BY <2>0, <2>1, <2>2, OperationEffect DEF Effect
  <2>3. CASE Invoke
    <3>1. CASE receipt
      BY <2>0, <2>3, <3>1 DEF Invoke, Completed, TypeOK, Lifecycle!Bind
    <3>2. CASE ~receipt
      BY <2>3, <3>2 DEF Invoke
    <3>3. QED
      BY <3>1, <3>2
  <2>4. CASE ResolveInput \/ Normalize
    BY <2>0, <2>1, <2>4, ProduceEffect DEF ResolveInput, Normalize
  <2>5. CASE DieBeforeTry \/ SkipNormalize
    BY <2>1, <2>5 DEF DieBeforeTry, SkipNormalize
  <2>6. CASE Checkpoint \/ EnterSteps \/ BeginStep \/ EndStep
    <3>1. run'.status = run.status
      BY <2>0, <2>6 DEF Checkpoint, EnterSteps, BeginStep, EndStep, RunJson
    <3>2. QED
      BY <2>1, <2>6, <3>1 DEF Checkpoint, EnterSteps, BeginStep, EndStep
  <2>7. CASE StartRunning
    <3>1. run'.status = "running" /\ run.status \notin Completed
      BY <2>0, <2>7 DEF StartRunning, RunJson, ThreadInv
    <3>2. QED
      BY <2>7, <3>1 DEF StartRunning, Completed, Lifecycle!Start
  <2>8. ASSUME Succeed \/ Cancel \/ Fail
        PROVE  run.status = "running" /\ UNCHANGED <<receipt, timely>>
    BY <2>0, <2>8 DEF Succeed, Cancel, Fail, ThreadInv, InTry, BeforeTry
  <2>9. CASE Succeed
    <3>1. run'.status = "succeeded"
      BY <2>0, <2>9 DEF Succeed, RunJson
    <3>2. ~(receipt /\ timely)
      BY <2>0, <2>9 DEF Succeed, CancelInv, PastLastCheck
    <3>3. QED
      BY <2>8, <2>9, <3>1, <3>2 DEF Lifecycle!Succeed
  <2>10. CASE Cancel
    <3>1. run'.status = "cancelled"
      BY <2>0, <2>10 DEF Cancel, RunJson
    <3>2. receipt /\ timely
      BY <2>0, <2>10 DEF Cancel, CancelInv
    <3>3. QED
      BY <2>8, <2>10, <3>1, <3>2 DEF Lifecycle!Stop
  <2>11. CASE Fail
    <3>1. run'.status = "failed"
      BY <2>0, <2>11 DEF Fail, RunJson
    <3>2. QED
      BY <2>8, <2>11, <3>1 DEF Lifecycle!Fail
  <2>12. CASE Crash
    BY <2>1, <2>12 DEF Crash
  <2>13. CASE Web
    <3>1. CASE CancelWrite
      BY <2>0, <3>1 DEF CancelWrite, Completed, TypeOK, Lifecycle!Bind
    <3>2. CASE CancelRead \/ \E v \in Trvs : SelectTranscript(v) \/ DeleteTranscript(v)
      BY <2>1, <3>2 DEF CancelRead, SelectTranscript, DeleteTranscript
    <3>3. QED
      BY <2>13, <3>1, <3>2 DEF Web
  <2>14. CASE UNCHANGED vars
    BY <2>1, <2>14 DEF vars
  <2>15. QED
    BY <1>2, StepCases, <2>2, <2>3, <2>4, <2>5, <2>6, <2>7, <2>9, <2>10, <2>11,
       <2>12, <2>13, <2>14
<1>3. QED
  BY <1>1, <1>2, Invariance, PTL DEF Spec, LifecycleSpec, Lifecycle!Spec

\* A queued run has no results.
LEMMA InitResultInv ==
    ASSUME Init
    PROVE  ResultInv
<1>1. KindInv
  BY DEF Init, KindInv, FormalizeLabels, SharedLabels, AfterGate
<1>2. LeadInv
  BY DEF Init, LeadInv, PastLead, BeforeLead, LoopLabels, SingleInvocationOutputs
<1>3. OutputInv
  BY DEF Init, OutputInv, RecordedInv, TraceInv, DeliveredInv, OutputsComplete, AfterGate,
         LoopLabels, BeforeTry
<1>4. ProgressInv
  BY DEF Init, ProgressInv, LoopLabels, BeforeTry
<1>5. QED
  BY <1>1, <1>2, <1>3, <1>4 DEF ResultInv

\* What is known of a run's results holds in every state of every behaviour.
THEOREM ResultsInvariance == Spec => []ResultInv
<1>1. IInv /\ ResultInv /\ [Next]_vars => ResultInv'
  BY KindStep, LeadStep, OutputStep, ProgressStep DEF ResultInv
<1>2. QED
  BY InitResultInv, <1>1, Invariance, PTL DEF Spec

\* A succeeded run with a formalize step hands out every deliverable, of the version it
\* names.
THEOREM EverythingHandedOut == Spec => []OutputsComplete
<1>1. ResultInv => OutputsComplete
  BY DEF ResultInv, OutputInv
<1>2. QED
  BY <1>1, ResultsInvariance, PTL

\* The directory of a succeeded run is the work of one invocation.
THEOREM OneInvocation == Spec => []SingleInvocationOutputs
<1>1. ResultInv => SingleInvocationOutputs
  BY DEF ResultInv, LeadInv
<1>2. QED
  BY <1>1, ResultsInvariance, PTL

\* The progress a poller sees never moves backwards within an invocation.
THEOREM ProgressAdvances == Spec => ProgressNeverBackwards
<1>1. IInv /\ ResultInv /\ [Next]_vars => [pc # "start" => run'.progress >= run.progress]_vars
  BY ProgressStep DEF ResultInv, Advances
<1>2. QED
  BY <1>1, Invariance, ResultsInvariance, PTL DEF Spec, ProgressNeverBackwards
=============================================================================
