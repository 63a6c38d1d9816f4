----------------------------- MODULE MCLibrary -----------------------------
(* A small instance of Library: a session with a run that succeeded, and a *)
(* new one, which transcribes or formalizes the version of the old one.    *)
EXTENDS Library, TLC

CONSTANTS s1, old, new

InOneSession == [r \in Runs |-> s1]
CreatedAt == s1 :> 1 @@ old :> 1 @@ new :> 2
MakerPlan == [uses |-> [r \in Runs |-> r], visible |-> {}]
UserPlan == [uses |-> [r \in Runs |-> old], visible |-> {new}]
\* The version is the active one when the run starts: the plan does not name it.
ActivePlan == [uses |-> [r \in Runs |-> old], visible |-> {}]
AllPlans == {MakerPlan, UserPlan, ActivePlan}
=============================================================================
