--------------------------- MODULE AtomicManifest ---------------------------
(***************************************************************************)
(* What run.json promises: one document, of which every writer owns a      *)
(* field.  An update changes the writer's field and nothing else, at one   *)
(* instant; a reader gets the document as it is at one instant.  The field *)
(* is represented by the number of the update it comes from.               *)
(***************************************************************************)
EXTENDS Naturals

CONSTANTS Writers, Readers

VARIABLES value,   \* the document
          seen     \* the document each reader was given last

vars == <<value, seen>>

Doc == [Writers -> Nat]
InitDoc == [w \in Writers |-> 0]

Init == value = InitDoc /\ seen = [r \in Readers |-> InitDoc]

\* Later updates have greater numbers; those of failed updates are skipped.
Update(w) == /\ value'[w] > value[w]
             /\ value' = [value EXCEPT ![w] = value'[w]]
             /\ UNCHANGED seen

Read(r) == /\ seen' = [seen EXCEPT ![r] = value]
           /\ UNCHANGED value

Next == (\E w \in Writers : Update(w)) \/ (\E r \in Readers : Read(r))

Spec == Init /\ [][Next]_vars
=============================================================================
