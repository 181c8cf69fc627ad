--------------------------- MODULE MCDocPipeline ---------------------------
(***************************************************************************)
(* Instances of DocPipeline for TLC: handlers are interchangeable; only     *)
(* runs without a liveness property use it.                                 *)
(***************************************************************************)
EXTENDS DocPipeline, TLC

Symmetry == Permutations(Handler)
=============================================================================
