---------------------------- MODULE MCTaskQueue ----------------------------
(***************************************************************************)
(* Instances of TaskQueue for TLC.  Handlers, publishers and message slots  *)
(* are interchangeable; only runs without a liveness property use it.       *)
(***************************************************************************)
EXTENDS TaskQueue, TLC

Symmetry ==
  Permutations(Handler) \cup Permutations(Publisher) \cup Permutations(Msg)
=============================================================================
