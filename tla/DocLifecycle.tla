---------------------------- MODULE DocLifecycle ----------------------------
(***************************************************************************)
(* What the pipeline promises of a document, seen from the knowledge base:  *)
(* it is processed, becomes ready or fails, can be retried and deleted, and *)
(* a deletion that was asked for only ends in removal or in a failure the   *)
(* user can retry.  A document is ready only with its chunks and vectors in *)
(* place, and they stay until its deletion is asked for.                    *)
(***************************************************************************)
CONSTANT Races  \* do clear-failed or knowledge-base deletions run beside it

VARIABLES
  phase,      \* what the user sees
  searchable  \* chunks and vectors are both stored

Phases == {"processing", "ready", "failed", "deleting", "deleteFailed", "gone"}

Init == phase = "processing" /\ searchable = FALSE

Move(from, to) == phase \in from /\ phase' = to

Index         == Move({"processing"}, "ready") /\ searchable' \in BOOLEAN
                 /\ (Races \/ searchable')
Fail          == Move({"processing"}, "failed") /\ UNCHANGED searchable
Retry         == Move({"failed"}, "processing") /\ UNCHANGED searchable
RequestDelete == Move(Phases \ {"deleting", "gone"}, "deleting") /\ UNCHANGED searchable
DeletionFails == Move({"deleting"}, "deleteFailed") /\ UNCHANGED searchable
Remove        == Move({"deleting"}, "gone") /\ searchable' \in BOOLEAN

\* Clearing takes failed documents, dropping the knowledge base takes any.
Drop == Races /\ Move(Phases, "gone") /\ searchable' \in BOOLEAN

\* Contents come and go unseen while the document is not ready.
Store == (Races \/ phase # "ready") /\ searchable' \in BOOLEAN /\ UNCHANGED phase

Next ==
  \/ Index \/ Fail \/ Retry \/ RequestDelete \/ DeletionFails \/ Remove \/ Drop \/ Store

Spec == Init /\ [][Next]_<<phase, searchable>>
=============================================================================
