------------------------------- MODULE Status -------------------------------
(***************************************************************************)
(* The status vocabulary of the document pipeline: what an UPDATE guarded  *)
(* by "status = ANY(previous)" accepts (api/internal/model/status.go), and  *)
(* the helpers of the worker that read it (api/internal/worker/manager.go). *)
(* Everything here is constant-level, so both the queue model and the       *)
(* pipeline model use the same tables.                                      *)
(***************************************************************************)
EXTENDS Naturals

DocStatuses ==
  {"uploaded", "parsing", "parsed", "chunking", "chunked", "embedding",
   "indexed", "failed", "deleting", "delete_failed"}

\* What a stage handler can still move forward.
InProgress ==
  {"uploaded", "parsing", "parsed", "chunking", "chunked", "embedding"}

TaskStatuses == {"pending", "running", "success", "failed"}

TaskTypes == {"parse", "chunk", "embedding", "delete"}

\* The map lookups return (nil, false) for a status with no entry, and every
\* caller then changes nothing: the same as an empty set of predecessors.
DocumentPreviousStatuses(next) ==
  CASE next = "parsing"       -> {"uploaded"}
    [] next = "parsed"        -> {"parsing"}
    [] next = "chunking"      -> {"parsed"}
    [] next = "chunked"       -> {"chunking"}
    [] next = "embedding"     -> {"chunked"}
    [] next = "indexed"       -> {"embedding"}
    [] next = "failed"        -> InProgress
    [] next = "deleting"      -> InProgress \cup {"indexed", "failed", "delete_failed"}
    [] next = "delete_failed" -> {"deleting"}
    [] OTHER                  -> {}

DocumentRetryPreviousStatuses(next) ==
  CASE next = "uploaded" -> {"failed", "parsing"}
    [] next = "parsed"   -> {"failed", "chunking"}
    [] next = "chunked"  -> {"failed", "embedding"}
    [] next = "deleting" -> {"delete_failed"}
    [] OTHER             -> {}

TaskPreviousStatuses(next) ==
  CASE next = "running" -> {"pending"}
    [] next = "success" -> {"running"}
    [] next = "failed"  -> {"pending", "running"}
    [] OTHER            -> {}

Rank ==
  [uploaded |-> 0, parsing |-> 1, parsed |-> 2, chunking |-> 3,
   chunked |-> 4, embedding |-> 5, indexed |-> 6]

documentAtOrBeyond(current, target) ==
  /\ current \in DOMAIN Rank
  /\ target \in DOMAIN Rank
  /\ Rank[current] >= Rank[target]

\* The status a stage starts from, hence the one a retry goes back to.  A delete
\* has none for an automatic retry (retryPendingDocumentStatus answers false).
StageStart(type) ==
  CASE type = "parse"     -> "uploaded"
    [] type = "chunk"     -> "parsed"
    [] type = "embedding" -> "chunked"
    [] type = "delete"    -> "deleting"

HasRetryReset(type) == type # "delete"

\* Faulty: the failure of a deletion gets the status of a failed stage.
FailureStatusOfStage(type) == "failed"

FailureStatus(type) == IF type = "delete" THEN "delete_failed" ELSE "failed"
=============================================================================
