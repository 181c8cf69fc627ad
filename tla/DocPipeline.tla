---------------------------- MODULE DocPipeline ----------------------------
(***************************************************************************)
(* One document from its upload to its removal: the stages parse, chunk and *)
(* embedding and the delete task (api/internal/worker/manager.go), each a   *)
(* sequence of statements on PostgreSQL, Milvus and MinIO that other        *)
(* handlers and the user's requests interleave with                         *)
(* (repository/postgres/documentrepo.go, chunkrepo.go, logic/document,      *)
(* logic/subject).                                                          *)
(*                                                                          *)
(* The queue is reduced to what TaskQueue shows of it: a task that is owed  *)
(* has a message, and a message not acknowledged comes back.  Documents     *)
(* share no state, so one is enough.  A stage keeps its deadline: the lease *)
(* of a task lapses only when none of its handlers is inside the stage.     *)
(***************************************************************************)
EXTENDS TaskRow, FiniteSets

CONSTANTS
  Handler,     \* subscription callbacks that may run at once
  DeleteTask,  \* ids of the delete tasks the user may create (bound)
  NoTask,
  MaxRetries,  \* maxAutomaticRetries
  MaxUserRetries, \* bound: retries of one task beyond the automatic ones
  MaxFaults,   \* bound: crashes and calls whose effect stays and reply is lost
  Apart,       \* bound: a behaviour has faults or delete requests, never both
  Overlap,     \* may a message come back while a handler still has it
  UserOps      \* which requests the user makes in this instance

ASSUME BoundsAssumption ==
  /\ MaxRetries \in Nat
  /\ MaxUserRetries \in Nat
  /\ MaxFaults \in Nat
  /\ Apart \in BOOLEAN
  /\ Overlap \in BOOLEAN
  /\ UserOps \subseteq {"delete", "retry", "clear", "dropSubject"}
ASSUME TaskIdAssumption ==
  /\ DeleteTask \cap {"parse", "chunk", "embedding"} = {}
  /\ NoTask \notin DeleteTask \cup {"parse", "chunk", "embedding"}

\* The tasks of the chain have ids derived from their parent's (deterministicID), so
\* there is one per stage.
Stage == {"parse", "chunk", "embedding"}
Task == Stage \cup DeleteTask

TypeOf(t) == IF t \in Stage THEN t ELSE "delete"

VARIABLES
  doc,       \* row of documents: status, deleted (deleted_at set)
  chunks,    \* live rows in document_chunks
  vectors,   \* entities of the document in Milvus
  object,    \* the original file in MinIO
  task,      \* Task -> row of index_tasks
  msg,       \* Task -> its message in the stream
  handler,   \* Handler -> program counter and task
  clearing,  \* step of a "clear failed documents" request
  dropping,  \* step of a "delete knowledge base" request
  faults

data == <<doc, chunks, vectors, object>>
queue == <<task, msg>>
requests == <<clearing, dropping>>
vars == <<doc, chunks, vectors, object, task, msg, handler, clearing, dropping, faults>>

InStage == {"read", "enter", "work", "store", "finish", "enqueue",
            "dropVectors", "verify", "dropObject", "hide"}
Steps == InStage \cup {"idle", "claim", "check", "complete", "retry", "reset",
                       "failDoc", "failTask", "ack", "nak"}

TypeOK ==
  /\ doc \in [status: DocStatuses, deleted: BOOLEAN]
  /\ chunks \in BOOLEAN /\ vectors \in BOOLEAN /\ object \in BOOLEAN
  /\ task \in [Task -> Rows]
  /\ msg \in [Task -> {"none", "queued", "delivered", "gone"}]
  /\ handler \in [Handler -> [pc: Steps, task: Task \cup {NoTask}]]
  /\ clearing \in {"idle", "listed", "dropped", "marked", "unmarked"}
  /\ dropping \in {"idle", "dropped", "done"}
  /\ faults \in 0 .. MaxFaults

Idle == [pc |-> "idle", task |-> NoTask]

\* After CreateWithIndexTask: the object stored, the rows committed together.
Init ==
  /\ doc = [status |-> "uploaded", deleted |-> FALSE]
  /\ chunks = FALSE
  /\ vectors = FALSE
  /\ object = TRUE
  /\ task = [t \in Task |-> IF t = "parse" THEN NewRow ELSE NoRow]
  /\ msg = [t \in Task |-> IF t = "parse" THEN "queued" ELSE "none"]
  /\ handler = [h \in Handler |-> Idle]
  /\ clearing = "idle"
  /\ dropping = "idle"
  /\ faults = 0

-----------------------------------------------------------------------------
(* Vocabulary *)

At(h, step)   == handler[h].pc = step
Goto(h, step) == handler' = [handler EXCEPT ![h].pc = step]
Type(h)       == TypeOf(handler[h].task)
NoFault       == UNCHANGED faults
Fault         == faults < MaxFaults /\ faults' = faults + 1

Handles(h, t) == handler[h].task = t
Working(h, t) == Handles(h, t) /\ handler[h].pc \in InStage

Active(type) == CASE type = "parse"     -> "parsing"
                  [] type = "chunk"     -> "chunking"
                  [] type = "embedding" -> "embedding"
Done(type)   == CASE type = "parse"     -> "parsed"
                  [] type = "chunk"     -> "chunked"
                  [] type = "embedding" -> "indexed"
NextStage(type) == IF type = "parse" THEN "chunk" ELSE "embedding"

\* Faulty: the UPDATE without its list of previous statuses.
CanSetAnyTime(status) == ~doc.deleted
\* DocumentRepo.UpdateStatus, CompleteParse and CompleteDelete: one guarded UPDATE.
CanSet(status)   == ~doc.deleted /\ doc.status \in DocumentPreviousStatuses(status)
CanReset(status) == ~doc.deleted /\ doc.status \in DocumentRetryPreviousStatuses(status)
SetStatus(status) == doc' = [doc EXCEPT !.status = status]

-----------------------------------------------------------------------------
(* Stage functions: parseDocument, chunkDocument, embedDocument, deleteDocument. *)
(* `after' is where the handler goes on: the next call, or the error path when   *)
(* the call took effect and its reply was lost.                                  *)

\* Faulty: a stage found done is completed without enqueuing what follows.
ReadDocumentWithoutEnqueue(h) ==
  LET type == Type(h)
      next == IF doc.deleted THEN IF type = "delete" THEN "complete" ELSE "failDoc"
              ELSE IF type = "delete" THEN "dropVectors"
              ELSE IF documentAtOrBeyond(doc.status, Done(type)) THEN "complete"
              ELSE IF doc.status = Active(type) THEN "work" ELSE "enter"
  IN  At(h, "read") /\ Goto(h, next) /\ UNCHANGED <<data, queue>>

\* GetByID hides a deleted document: nothing left to do for a delete, an error
\* that is not retried for a stage.  A status at or beyond the stage's result only
\* makes the handler enqueue what follows.
ReadDocument(h) ==
  LET type == Type(h)
      next == IF doc.deleted THEN IF type = "delete" THEN "complete" ELSE "failDoc"
              ELSE IF type = "delete" THEN "dropVectors"
              ELSE IF documentAtOrBeyond(doc.status, Done(type))
                   THEN IF type = "embedding" THEN "complete" ELSE "enqueue"
              ELSE IF doc.status = Active(type) THEN "work" ELSE "enter"
  IN  At(h, "read") /\ Goto(h, next) /\ UNCHANGED <<data, queue>>

EnterStage(h, after) ==
  /\ At(h, "enter")
  /\ CanSet(Active(Type(h)))
  /\ SetStatus(Active(Type(h)))
  /\ Goto(h, after)
  /\ UNCHANGED <<chunks, vectors, object, queue>>

CompleteParse(h, after) ==
  /\ At(h, "work") /\ Type(h) = "parse"
  /\ CanSet("parsed")
  /\ SetStatus("parsed")
  /\ Goto(h, after)
  /\ UNCHANGED <<chunks, vectors, object, queue>>

\* ReplaceByDocument asks nothing of the documents row; its DELETE waits for a
\* transaction that has the chunk rows locked.
ReplaceByDocument(h, after) ==
  /\ At(h, "work") /\ Type(h) = "chunk"
  /\ clearing # "marked"
  /\ chunks' = TRUE
  /\ Goto(h, after)
  /\ UNCHANGED <<doc, vectors, object, queue>>

ListByDocument(h) ==
  /\ At(h, "work") /\ Type(h) = "embedding"
  /\ Goto(h, IF chunks THEN "store" ELSE "failDoc")
  /\ UNCHANGED <<data, queue>>

UpsertChunks(h, after) ==
  /\ At(h, "store")
  /\ vectors' = TRUE
  /\ Goto(h, after)
  /\ UNCHANGED <<doc, chunks, object, queue>>

FinishStage(h, after) ==
  /\ At(h, "finish")
  /\ CanSet(Done(Type(h)))
  /\ SetStatus(Done(Type(h)))
  /\ Goto(h, after)
  /\ UNCHANGED <<chunks, vectors, object, queue>>

\* IndexTaskRepo.Create: ON CONFLICT DO NOTHING, then no outbox row either.
EnqueueNext(h, after) ==
  LET t == NextStage(Type(h))
  IN  /\ At(h, "enqueue")
      /\ IF task[t] = NoRow
         THEN /\ task' = [task EXCEPT ![t] = NewRow]
              /\ msg' = [msg EXCEPT ![t] = "queued"]
         ELSE UNCHANGED queue
      /\ Goto(h, after)
      /\ UNCHANGED data

DeleteByDocIDs(h, after) ==
  /\ At(h, "dropVectors")
  /\ vectors' = FALSE
  /\ Goto(h, after)
  /\ UNCHANGED <<doc, chunks, object, queue>>

HasDocVectors(h) ==
  /\ At(h, "verify")
  /\ Goto(h, IF vectors THEN "failDoc" ELSE "dropObject")
  /\ UNCHANGED <<data, queue>>

RemoveObject(h, after) ==
  /\ At(h, "dropObject")
  /\ object' = FALSE
  /\ Goto(h, after)
  /\ UNCHANGED <<doc, chunks, vectors, queue>>

CompleteDelete(h, after) ==
  /\ At(h, "hide")
  /\ ~doc.deleted /\ doc.status = "deleting"
  /\ doc' = [doc EXCEPT !.deleted = TRUE]
  /\ chunks' = FALSE
  /\ Goto(h, after)
  /\ UNCHANGED <<vectors, object, queue>>

\* ErrDocumentStateConflict is not an error that is retried.
Refused(h) ==
  /\ \/ At(h, "enter") /\ ~CanSet(Active(Type(h)))
     \/ At(h, "work") /\ Type(h) = "parse" /\ ~CanSet("parsed")
     \/ At(h, "finish") /\ ~CanSet(Done(Type(h)))
     \/ At(h, "hide") /\ (doc.deleted \/ doc.status # "deleting")
  /\ Goto(h, "failDoc")
  /\ UNCHANGED <<data, queue>>

StageStep(h) ==
  \/ ReadDocument(h)
  \/ EnterStage(h, "work")
  \/ CompleteParse(h, "enqueue")
  \/ ReplaceByDocument(h, "finish")
  \/ ListByDocument(h)
  \/ UpsertChunks(h, "finish")
  \/ FinishStage(h, IF Type(h) = "embedding" THEN "complete" ELSE "enqueue")
  \/ EnqueueNext(h, "complete")
  \/ DeleteByDocIDs(h, "verify")
  \/ HasDocVectors(h)
  \/ RemoveObject(h, "hide")
  \/ CompleteDelete(h, "complete")
  \/ Refused(h)

ErrorPath == {"retry", "failDoc"}

\* Any call may fail, the deadline included, with an error that shouldAutoRetry
\* recognises or not.
CallFails(h) ==
  /\ handler[h].pc \in InStage
  /\ \E next \in ErrorPath : Goto(h, next)
  /\ UNCHANGED <<data, queue>>

ReplyLost(h) ==
  \E next \in ErrorPath :
    \/ EnterStage(h, next) \/ CompleteParse(h, next) \/ ReplaceByDocument(h, next)
    \/ UpsertChunks(h, next) \/ FinishStage(h, next) \/ EnqueueNext(h, next)
    \/ DeleteByDocIDs(h, next) \/ RemoveObject(h, next) \/ CompleteDelete(h, next)

-----------------------------------------------------------------------------
(* Manager.run around the stage *)

\* The handler's own row moves, or the statement's guard refuses.
MoveTask(h, next, onDone, onConflict) ==
  LET t == handler[h].task
  IN  IF CanMove(task[t], next)
      THEN task' = [task EXCEPT ![t] = Moved(@, next)] /\ Goto(h, onDone)
      ELSE UNCHANGED task /\ Goto(h, onConflict)

Deliver(t, h) ==
  /\ msg[t] = "queued"
  /\ At(h, "idle")
  /\ msg' = [msg EXCEPT ![t] = "delivered"]
  /\ handler' = [handler EXCEPT ![h] = [pc |-> "claim", task |-> t]]
  /\ UNCHANGED <<data, task, requests, faults>>

Claim(h) ==
  LET t == handler[h].task
  IN  /\ At(h, "claim")
      /\ IF Claimable(task[t])
         THEN task' = [task EXCEPT ![t] = Claimed(@)] /\ Goto(h, "read")
         ELSE UNCHANGED task /\ Goto(h, "check")
      /\ UNCHANGED <<data, msg>>

CheckDuplicate(h) ==
  /\ At(h, "check")
  /\ Goto(h, IF Terminal(task[handler[h].task]) THEN "ack" ELSE "nak")
  /\ UNCHANGED <<data, queue>>

Complete(h) ==
  /\ At(h, "complete")
  /\ MoveTask(h, "success", "ack", "nak")
  /\ UNCHANGED <<data, msg>>

ScheduleRetry(h) ==
  LET t == handler[h].task
  IN  /\ At(h, "retry")
      /\ IF CanScheduleRetry(task[t], MaxRetries)
         THEN /\ task' = [task EXCEPT ![t] = BackToPending(@)]
              /\ Goto(h, IF HasRetryReset(Type(h)) THEN "reset" ELSE "nak")
         ELSE UNCHANGED task /\ Goto(h, "failDoc")
      /\ UNCHANGED <<data, msg>>

ResetStatusForRetry(h) ==
  LET start == StageStart(Type(h))
  IN  /\ At(h, "reset")
      /\ IF CanReset(start)
         THEN SetStatus(start) /\ Goto(h, "nak") /\ UNCHANGED task
         ELSE MoveTask(h, "failed", "failDoc", "failDoc") /\ UNCHANGED doc
      /\ UNCHANGED <<chunks, vectors, object, msg>>

\* persistFailure, two statements.
FailDocument(h) ==
  LET status == FailureStatus(Type(h))
  IN  /\ At(h, "failDoc")
      /\ IF CanSet(status)
         THEN SetStatus(status) /\ Goto(h, "failTask")
         ELSE UNCHANGED doc /\ Goto(h, "nak")
      /\ UNCHANGED <<chunks, vectors, object, queue>>

FailTask(h) ==
  /\ At(h, "failTask")
  /\ MoveTask(h, "failed", "ack", "nak")
  /\ UNCHANGED <<data, msg>>

\* A statement of the completion or recovery part fails without effect.
RecoveryFails(h) ==
  /\ handler[h].pc \in {"complete", "failDoc", "failTask"}
  /\ Goto(h, "nak")
  /\ UNCHANGED <<data, queue>>

Answer(h, state) ==
  /\ msg' = [msg EXCEPT ![handler[h].task] = IF @ = "delivered" THEN state ELSE @]
  /\ handler' = [handler EXCEPT ![h] = Idle]
  /\ UNCHANGED <<data, task>>

Ack(h) == At(h, "ack") /\ Answer(h, "gone")
Nak(h) == At(h, "nak") /\ Answer(h, "queued")

\* The process dies, or the answer to the server is lost.
Crash(h) ==
  /\ ~At(h, "idle")
  /\ handler' = [handler EXCEPT ![h] = Idle]
  /\ UNCHANGED <<data, queue>>

Redeliver(t) ==
  /\ msg[t] = "delivered"
  /\ Overlap \/ (task[t].lease # "live" /\ \A h \in Handler : ~Handles(h, t))
  /\ msg' = [msg EXCEPT ![t] = "queued"]
  /\ UNCHANGED <<data, task, handler, requests, faults>>

LeaseLapses(t) ==
  /\ task[t].status = "running" /\ task[t].lease = "live"
  /\ \A h \in Handler : ~Working(h, t)
  /\ task' = [task EXCEPT ![t].lease = "lapsed"]
  /\ UNCHANGED <<data, msg, handler, requests, faults>>

-----------------------------------------------------------------------------
(* Requests of the user *)

\* Faulty: the delete task is created and the document keeps its status.
DeleteRequestKeepsStatus(d) ==
  /\ "delete" \in UserOps
  /\ task[d] = NoRow
  /\ Apart => faults = 0
  /\ CanSet("deleting")
  /\ task' = [task EXCEPT ![d] = NewRow]
  /\ msg' = [msg EXCEPT ![d] = "queued"]
  /\ UNCHANGED <<data, handler, requests, faults>>

\* DocumentRepo.CreateDeleteTask: status, task and outbox row in one transaction.
DeleteRequest(d) ==
  /\ "delete" \in UserOps
  /\ task[d] = NoRow
  /\ Apart => faults = 0
  /\ CanSet("deleting")
  /\ SetStatus("deleting")
  /\ task' = [task EXCEPT ![d] = NewRow]
  /\ msg' = [msg EXCEPT ![d] = "queued"]
  /\ UNCHANGED <<chunks, vectors, object, handler, requests, faults>>

\* IndexTaskRepo.Retry: rolled back unless the document can go back too.  The old
\* message is gone by then (TaskQueue says what becomes of a hastier user).
UserRetry(t) ==
  LET start == StageStart(TypeOf(t))
  IN  /\ "retry" \in UserOps
      /\ CanRetry(task[t])
      /\ msg[t] = "gone"
      /\ task[t].retries < MaxRetries + MaxUserRetries
      /\ CanReset(start)
      /\ SetStatus(start)
      /\ task' = [task EXCEPT ![t] = BackToPending(@)]
      /\ msg' = [msg EXCEPT ![t] = "queued"]
      /\ UNCHANGED <<chunks, vectors, object, handler, requests, faults>>

\* DocumentClearFailed: list the failed documents, drop their vectors, then hide
\* whatever is failed by then.  The objects stay.
ClearList ==
  /\ "clear" \in UserOps
  /\ clearing = "idle"
  /\ clearing' = IF ~doc.deleted /\ doc.status = "failed" THEN "listed" ELSE "dropped"
  /\ UNCHANGED <<data, queue, handler, dropping, faults>>

ClearVectors ==
  /\ clearing = "listed"
  /\ \/ vectors' = FALSE /\ clearing' = "dropped"
     \/ UNCHANGED vectors /\ clearing' = "idle"
  /\ UNCHANGED <<doc, chunks, object, queue, handler, dropping, faults>>

\* ClearFailedByUser is a transaction of two statements, each with a snapshot of its
\* own: the chunks of what is failed, then the documents that are failed by now.
ClearChunks ==
  /\ clearing = "dropped"
  /\ clearing' = IF ~doc.deleted /\ doc.status = "failed" THEN "marked" ELSE "unmarked"
  /\ UNCHANGED <<data, queue, handler, dropping, faults>>

ClearFailedByUser ==
  /\ clearing \in {"marked", "unmarked"}
  /\ clearing' = "idle"
  /\ chunks' = (chunks /\ clearing = "unmarked")
  /\ doc' = [doc EXCEPT !.deleted = @ \/ doc.status = "failed"]
  /\ UNCHANGED <<vectors, object, queue, handler, dropping, faults>>

\* SubjectDelete: vectors first, then the rows whatever their status.
SubjectVectors ==
  /\ "dropSubject" \in UserOps
  /\ dropping = "idle"
  /\ vectors' = FALSE
  /\ dropping' = "dropped"
  /\ UNCHANGED <<doc, chunks, object, queue, handler, clearing, faults>>

SoftDeleteByOwner ==
  /\ dropping = "dropped"
  /\ \/ dropping' = "done" /\ doc' = [doc EXCEPT !.deleted = TRUE] /\ chunks' = FALSE
     \/ dropping' = "idle" /\ UNCHANGED <<doc, chunks>>
  /\ UNCHANGED <<vectors, object, queue, handler, clearing, faults>>

-----------------------------------------------------------------------------
RunStep(h) ==
  \/ StageStep(h) \/ Claim(h) \/ CheckDuplicate(h) \/ Complete(h)
  \/ ScheduleRetry(h) \/ ResetStatusForRetry(h) \/ FailDocument(h) \/ FailTask(h)
  \/ Ack(h) \/ Nak(h)

HandlerStep(h) == (RunStep(h) \/ CallFails(h)) /\ UNCHANGED <<requests, faults>>
HandlerFault(h) ==
  /\ Apart => \A d \in DeleteTask : task[d] = NoRow
  /\ ReplyLost(h) \/ RecoveryFails(h) \/ Crash(h)
  /\ Fault
  /\ UNCHANGED requests

UserStep ==
  \/ \E d \in DeleteTask : DeleteRequest(d)
  \/ \E t \in Task : UserRetry(t)
  \/ ClearList \/ ClearVectors \/ ClearChunks \/ ClearFailedByUser
  \/ SubjectVectors \/ SoftDeleteByOwner

Next ==
  \/ \E h \in Handler : HandlerStep(h) \/ HandlerFault(h)
  \/ \E t \in Task, h \in Handler : Deliver(t, h)
  \/ \E t \in Task : Redeliver(t) \/ LeaseLapses(t)
  \/ UserStep

Spec == Init /\ [][Next]_vars

\* The worker and the servers go on by themselves; every task type has a consumer and
\* a subscription of its own, so no message waits for ever behind those of another.
Fairness ==
  /\ \A h \in Handler : WF_vars(HandlerStep(h))
  /\ \A t \in Task : /\ SF_vars(\E h \in Handler : Deliver(t, h))
                     /\ WF_vars(Redeliver(t)) /\ WF_vars(LeaseLapses(t))

FairSpec == Spec /\ Fairness

-----------------------------------------------------------------------------
(* Properties *)

\* What the user sees of the document's row.
PhaseOf(row) ==
  IF row.deleted THEN "gone"
  ELSE CASE row.status \in InProgress   -> "processing"
         [] row.status = "indexed"       -> "ready"
         [] row.status = "failed"        -> "failed"
         [] row.status = "deleting"      -> "deleting"
         [] row.status = "delete_failed" -> "deleteFailed"

Races == UserOps \cap {"clear", "dropSubject"} # {}

Lifecycle == INSTANCE DocLifecycle
               WITH phase <- PhaseOf(doc), searchable <- (chunks /\ vectors)

\* Handlers, retries, redeliveries and requests, however they interleave, move the
\* document only along the lifecycle, and what is ready keeps its chunks and vectors
\* until its deletion is asked for (the guarded UPDATEs of DocumentRepo and the order
\* of the calls in the stage functions).
Implements == Lifecycle!Spec

\* What the success of a task stands for: the row of the next one, an indexed
\* document, a hidden document.
Result(t) ==
  /\ t = "parse"       => task["chunk"] # NoRow
  /\ t = "chunk"       => task["embedding"] # NoRow
  /\ t = "embedding"   => doc.deleted \/ doc.status \in {"indexed", "deleting", "delete_failed"}
  /\ t \in DeleteTask  => doc.deleted

\* A task that reports success has left its result, however handlers, crashes, repeated
\* messages and the user's requests interleave: run stores success last.
SuccessIsBacked == \A t \in Task : task[t].status = "success" => Result(t)

\* A document offered to search has its chunk rows and its vectors: embedDocument sets
\* "indexed" last, and no delete, retry or older handler takes them from under it.
IndexedIsSearchable ==
  ~doc.deleted /\ doc.status = "indexed" => chunks /\ vectors

\* The task is stored as failed and its message answered, the document still says it is
\* being processed: scheduleRetry stores a refused reset's task as failed before
\* persistFailure reaches the document, and a redelivery in between finds a finished
\* task and acknowledges it as a duplicate.
Abandoned ==
  /\ faults > 0
  /\ \E t \in Stage : task[t].status = "failed" /\ msg[t] = "gone"
  /\ \A t \in Stage : ~Unfinished(task[t])


\* A requested deletion ends: the document is hidden or says that its deletion failed.
DeletingEnds == doc.status = "deleting" ~> doc.status = "delete_failed" \/ doc.deleted

\* A transient error whose retry has been recorded ends in a NAK, not in a permanent
\* failure, as docs/development.md says of transient errors.
TransientIsRetried ==
  [][\A h \in Handler : At(h, "reset") => handler'[h].pc # "failDoc"]_vars
=============================================================================
