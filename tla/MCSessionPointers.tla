------------------------- MODULE MCSessionPointers -------------------------
(* Small instances of SessionPointers.                                     *)
EXTENDS SessionPointers, TLC

CONSTANTS f, m, l

For(kind) == [kind |-> kind, choice |-> NoTrv]
Legacy == l :> For("legacy")
Makers == f :> For("transcribe") @@ Legacy

\* Beside a run of an older release: a formalize step and a speaker map; a run
\* that makes a version and one that copies another's transcript; a formalize
\* step with a version that may not exist.
MixedPlans ==
    {f :> For("formalize") @@ m :> For("map") @@ Legacy, m :> For("reuse") @@ Makers}
        \cup {f :> [kind |-> "formalize", choice |-> v] @@ m :> For("legacy") @@ Legacy :
                  v \in Trvs}

TrvSymmetry == Permutations(Trvs)
=============================================================================
