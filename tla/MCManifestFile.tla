--------------------------- MODULE MCManifestFile ---------------------------
(***************************************************************************)
(* ManifestFile with the run_job thread of a run as its only writer, or    *)
(* with the PATCH handler beside it.                                       *)
(***************************************************************************)
EXTENDS ManifestFile

CONSTANTS worker, patch, p1, p2, i1, i2, i3, i4, i5
=============================================================================
