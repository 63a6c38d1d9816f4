---------------------------- MODULE RunLifecycle ----------------------------
(***************************************************************************)
(* What a Stuart run promises to whoever polls it, without the pipeline    *)
(* behind it: the status in run.json moves along                           *)
(*                                                                         *)
(*     queued -> running -> succeeded | failed | cancelled                 *)
(*                                                                         *)
(* succeeded and failed are final; a run that died (or was cancelled) may  *)
(* be invoked again.  `binding' is TRUE once a cancel request was recorded *)
(* while the run still had a checkpoint to pass: such a run never          *)
(* succeeds.  RunJob is shown to implement this specification.             *)
(***************************************************************************)

VARIABLES status,   \* run.json "status"
          binding   \* a cancel receipt the run is bound to obey

vars == <<status, binding>>

Statuses == {"queued", "running", "succeeded", "failed", "cancelled"}
Final == {"succeeded", "failed"}

Init == status = "queued" /\ binding = FALSE

\* A thread takes the run up, for the first time or after it was left behind.
Start == /\ status \notin Final
         /\ status' = "running"
         /\ UNCHANGED binding

Succeed == /\ status = "running" /\ ~binding
           /\ status' = "succeeded"
           /\ UNCHANGED binding

Fail == /\ status = "running"
        /\ status' = "failed"
        /\ UNCHANGED binding

\* The run stops at a checkpoint because it was asked to.
Stop == /\ status = "running" /\ binding
        /\ status' = "cancelled"
        /\ UNCHANGED binding

\* A request binds for good: nothing ever removes the receipt.
Bind == /\ status \notin Final
        /\ binding' = TRUE
        /\ UNCHANGED status

Next == Start \/ Succeed \/ Fail \/ Stop \/ Bind

Spec == Init /\ [][Next]_vars
=============================================================================
