------------------------------ MODULE MCStores ------------------------------
(* Small instances of the stores that runs share with handlers: one of     *)
(* them moves in each behaviour, since none touches another's files.       *)
EXTENDS Uploads, TemplateStore, ExportBundle, TLC

CONSTANTS p1, p2, p3,                   \* uploads
          r1, r2, v1                    \* runs and transcript versions

VARIABLES scenario

vars == <<scenario, uploadVars, templateVars, exportVars>>

\* Two uploads of one name that stream, and one of that name that comes whole.
ThePosts == {p1, p2, p3}
OneName == [p \in ThePosts |-> "take.wav"]
TheChunks == p1 :> 2 @@ p2 :> 1 @@ p3 :> 1
ComesWhole == {p3}
TheRuns == {r1, r2}
PinnedAndLatest == r1 :> p1 @@ r2 :> Nobody
\* A title whose id may be taken, and one whose id is the system's.
TwoTitles == {"Weekly", "Default"}
TheirIds == [Weekly |-> <<"weekly", "weekly_2">>, Default |-> <<"default">>]
OneOfEach == {"weekly", "default"}
\* A bundle of everything, one in other formats, and a developer's.
Bundles == {[type |-> "full_bundle", tf |-> {"txt"}, ff |-> {"pdf"}],
            [type |-> "full_bundle", tf |-> {"txt"}, ff |-> {"md", "pdf"}],
            [type |-> "dev_bundle", tf |-> {}, ff |-> {}]}
OneRun == {r1}
OneVersion == {v1}

Init == /\ scenario \in {"uploads", "templates", "exports"}
        /\ UploadInit /\ TemplateInit /\ ExportInit
Next == /\ \/ scenario = "uploads" /\ UploadNext /\ UNCHANGED <<templateVars, exportVars>>
           \/ scenario = "templates" /\ TemplateNext /\ UNCHANGED <<uploadVars, exportVars>>
           \/ scenario = "exports" /\ ExportNext /\ UNCHANGED <<uploadVars, templateVars>>
        /\ UNCHANGED scenario
Spec == Init /\ [][Next]_vars
=============================================================================
