---------------------------- MODULE RunLifecycle ----------------------------
(***************************************************************************)
(* What a chat run promises its user: it is under way until it completes,   *)
(* fails or is cancelled; a run that was asked to stop never completes      *)
(* unless it is resumed first; a completed run has its answer saved in the  *)
(* conversation and stays completed.                                        *)
(***************************************************************************)
VARIABLES
  phase,  \* where the run is
  asked,  \* a cancellation was accepted and not taken back by a resume
  saved   \* the conversation holds an answer

Phases == {"none", "underway", "completed", "failed", "cancelled"}

Init == phase = "none" /\ asked = FALSE /\ saved = FALSE

Move(from, to) == phase \in from /\ phase' = to

Begin    == Move({"none"}, "underway") /\ UNCHANGED <<asked, saved>>
Ask      == phase = "underway" /\ asked' = TRUE /\ UNCHANGED <<phase, saved>>
Save     == phase # "none" /\ saved' = TRUE /\ UNCHANGED <<phase, asked>>
Complete == ~asked /\ saved /\ Move({"underway"}, "completed") /\ UNCHANGED <<asked, saved>>
Stop     == phase = "underway" /\ phase' \in {"failed", "cancelled"} /\ UNCHANGED <<asked, saved>>
Resume   == Move({"failed", "cancelled"}, "underway") /\ asked' = FALSE /\ UNCHANGED saved

Next == Begin \/ Ask \/ Save \/ Complete \/ Stop \/ Resume

Spec == Init /\ [][Next]_<<phase, asked, saved>>
=============================================================================
