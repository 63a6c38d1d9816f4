---------------------------- MODULE MCInvocations ----------------------------
(***************************************************************************)
(* Two invocations of one run: the thread of the web process and `stuart   *)
(* go'.                                                                    *)
(***************************************************************************)
EXTENDS Invocations, TLC

CONSTANTS web, cli

\* The two do the same.
Either == Permutations({web, cli})
=============================================================================
