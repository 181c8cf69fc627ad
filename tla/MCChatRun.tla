----------------------------- MODULE MCChatRun -----------------------------
(***************************************************************************)
(* Instances of ChatRun for TLC.  Requests and API processes are            *)
(* interchangeable; only runs without a liveness property use it.           *)
(***************************************************************************)
EXTENDS ChatRun, TLC

Symmetry == Permutations(Execution) \cup Permutations(Instance)
=============================================================================
