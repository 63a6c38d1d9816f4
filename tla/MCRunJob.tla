------------------------------ MODULE MCRunJob ------------------------------
(***************************************************************************)
(* RunJob with the plans the doors of the application create: the web API  *)
(* (run, transcribe, speaker map, reformalize), the stuart CLI (run,       *)
(* rerender, extract, overlay set, search) and the step lists of the tests.*)
(***************************************************************************)
EXTENDS RunJob

CONSTANTS t1, t2

Plain(kind) == [kind |-> kind, mode |-> "meeting", diarize |-> FALSE,
                hint |-> FALSE, reuse |-> FALSE, trv |-> NoTrv]
Validate == Plain("validate")
Audio(kind, mode, diarize, hint) ==
    [Plain(kind) EXCEPT !.mode = mode, !.diarize = diarize, !.hint = hint]

AudioPlans ==
    {<<Validate, Audio("formalize", "meeting", TRUE, TRUE)>>,
     <<Validate, Audio("formalize", "meeting", FALSE, FALSE)>>,
     <<Validate, Audio("formalize", "journal", FALSE, FALSE)>>,
     <<Validate, Audio("transcribe", "meeting", TRUE, FALSE)>>,
     <<Validate, Audio("transcribe", "journal", FALSE, FALSE)>>}

\* Formalize again: from a chosen version, or from the run it was made by.
PinPlan == <<Validate, [Plain("formalize") EXCEPT !.trv = t1]>>
ReusePlan == <<Validate, [Plain("formalize") EXCEPT !.reuse = TRUE]>>
JournalReusePlan == <<Validate, [Plain("formalize") EXCEPT !.reuse = TRUE, !.mode = "journal"]>>

SmallPlans == {<< >>, <<Plain("other"), Plain("other")>>,
               <<Plain("speaker_map_overlay")>>,
               <<Validate, Plain("search")>>, <<Plain("extract_only")>>}

DoorPlans == AudioPlans \cup SmallPlans \cup {PinPlan, ReusePlan, JournalReusePlan}

OnePlan == {<<Validate, Audio("formalize", "meeting", TRUE, TRUE)>>}
ExtractPlans == {<<Plain("extract_only")>>}
=============================================================================
