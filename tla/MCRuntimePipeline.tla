---- MODULE MCRuntimePipeline ----
(* The instance of RuntimePipeline for TLC.  No action tells operations    *)
(* apart and the run checks safety only, so they may be permuted.          *)
EXTENDS RuntimePipeline, TLC

Symmetry == Permutations(Ops)
====
