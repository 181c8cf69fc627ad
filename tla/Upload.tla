------------------------------- MODULE Upload -------------------------------
(***************************************************************************)
(* Uploads of one user into one knowledge base                              *)
(* (api/internal/logic/document/documentuploadlogic.go): each passes the    *)
(* rate limiter, looks the knowledge base and the file name up, stores the  *)
(* file and then inserts the document, its parse task and the outbox row in *)
(* one transaction.  Meanwhile documents and the knowledge base are deleted.*)
(*                                                                          *)
(* A document is named by the request that uploads it.  What happens to it  *)
(* between its insertion and its deletion is DocPipeline's.                 *)
(***************************************************************************)
EXTENDS RateLimiter

CONSTANTS Filename, NoFilename

ASSUME FilenameAssumption == NoFilename \notin Filename

VARIABLES
  upload,   \* request -> program counter, file name, what its look-up of the name saw
  row,      \* request -> its document's row; deleting: since a deletion was asked for
  files,    \* documents whose object is in MinIO
  queued,   \* documents with a parse task and its outbox row
  dropped   \* the knowledge base is deleted

store == <<row, files, queued, dropped>>
vars  == <<limiter, upload, store>>

Steps == {"idle", "subject", "name", "put", "create", "stored", "failed"}

Init ==
  /\ LimiterInit
  /\ upload = [r \in Request |-> [pc |-> "idle", file |-> NoFilename, saw |-> {}]]
  /\ row = [r \in Request |-> "none"]
  /\ files = {}
  /\ queued = {}
  /\ dropped = FALSE

At(r, step)   == upload[r].pc = step
Goto(r, step) == upload' = [upload EXCEPT ![r].pc = step]

\* deleted_at is not set.
Kept == {d \in Request : row[d] \in {"live", "deleting"}}

-----------------------------------------------------------------------------
(* The request *)

\* RateLimitMiddleware, then ParseRequest.
Receive(r) ==
  /\ At(r, "idle")
  /\ \/ /\ Admit(r)
        /\ \E file \in Filename :
             upload' = [upload EXCEPT ![r] = [pc |-> "subject", file |-> file, saw |-> {}]]
     \/ (Refuse(r) \/ Unavailable(r)) /\ Goto(r, "failed")
  /\ UNCHANGED store

\* GetAccessibleByID
FindSubject(r) ==
  /\ At(r, "subject")
  /\ Goto(r, IF dropped THEN "failed" ELSE "name")
  /\ UNCHANGED <<limiter, store>>

\* Faulty: the name of a document in deletion counts as free.
NameTakenByLive(file) == ~dropped /\ \E d \in Kept : upload[d].file = file /\ row[d] = "live"

\* ExistsActiveFilename: joined with a knowledge base that is not deleted.
NameTaken(file) == ~dropped /\ \E d \in Kept : upload[d].file = file

LookUpName(r) ==
  /\ At(r, "name")
  /\ upload' = [upload EXCEPT ![r] = [pc   |-> IF NameTaken(@.file) THEN "failed" ELSE "put",
                                      file |-> @.file,
                                      saw  |-> Kept]]
  /\ UNCHANGED <<limiter, store>>

PutObject(r) ==
  /\ At(r, "put")
  /\ files' = files \cup {r}
  /\ Goto(r, "create")
  /\ UNCHANGED <<limiter, row, queued, dropped>>

\* Faulty: without a transaction the task may be missing.
InsertOneByOne(r) ==
  /\ row' = [row EXCEPT ![r] = "live"]
  /\ queued' \in {queued, queued \cup {r}}
  /\ UNCHANGED <<files, dropped>>

\* Document, task and outbox row in one transaction; the knowledge base is not asked again.
InsertAll(r) ==
  /\ row' = [row EXCEPT ![r] = "live"]
  /\ queued' = queued \cup {r}
  /\ UNCHANGED <<files, dropped>>

CreateWithIndexTask(r) ==
  /\ At(r, "create")
  /\ Goto(r, "stored")
  /\ InsertAll(r)
  /\ UNCHANGED limiter

\* A call fails, the client leaves or the process dies; the call's effect may stay.
Fail(r) ==
  /\ upload[r].pc \in {"subject", "name", "put", "create"}
  /\ Goto(r, "failed")
  /\ \/ UNCHANGED store
     \/ At(r, "put") /\ files' = files \cup {r} /\ UNCHANGED <<row, queued, dropped>>
     \/ At(r, "create") /\ InsertAll(r)
  /\ UNCHANGED limiter

-----------------------------------------------------------------------------
(* Deletions *)

\* CreateDeleteTask, when the user asks for it.
DeleteDocument(d) ==
  /\ row[d] = "live"
  /\ row' = [row EXCEPT ![d] = "deleting"]
  /\ UNCHANGED <<limiter, upload, files, queued, dropped>>

\* runDelete: the object goes first ...
RemoveObject(d) ==
  /\ row[d] = "deleting" /\ d \in files
  /\ files' = files \ {d}
  /\ UNCHANGED <<limiter, upload, row, queued, dropped>>

\* ... and then CompleteDelete sets deleted_at.
CompleteDelete(d) ==
  /\ row[d] = "deleting" /\ d \notin files
  /\ row' = [row EXCEPT ![d] = "hidden"]
  /\ UNCHANGED <<limiter, upload, files, queued, dropped>>

\* ClearFailedByUser: documents that failed, or whose deletion did, are hidden; their
\* objects stay.
ClearFailedByUser(failed) ==
  /\ failed # {}
  /\ row' = [d \in Request |-> IF d \in failed THEN "hidden" ELSE row[d]]
  /\ UNCHANGED <<limiter, upload, files, queued, dropped>>

\* SoftDeleteByOwner: one transaction; it does not ask for objects.
SoftDeleteByOwner ==
  /\ ~dropped
  /\ dropped' = TRUE
  /\ row' = [d \in Request |-> IF d \in Kept THEN "hidden" ELSE row[d]]
  /\ UNCHANGED <<limiter, upload, files, queued>>

-----------------------------------------------------------------------------
Next ==
  \/ \E r \in Request :
       \/ Receive(r) \/ FindSubject(r) \/ LookUpName(r) \/ PutObject(r)
       \/ CreateWithIndexTask(r) \/ Fail(r)
       \/ DeleteDocument(r) \/ RemoveObject(r) \/ CompleteDelete(r)
  \/ \E failed \in SUBSET Kept : ClearFailedByUser(failed)
  \/ SoftDeleteByOwner
  \/ Tick /\ UNCHANGED <<upload, store>>

Spec == Init /\ [][Next]_vars

-----------------------------------------------------------------------------
(* Properties *)

\* Two documents of one name are kept in a knowledge base only if neither was there when
\* the other's upload looked the name up: the check misses nothing but uploads at the
\* same time (DocumentUpload's look-up and insert are two steps).
DuplicatesOverlap ==
  \A d, e \in Kept :
    d # e /\ upload[d].file = upload[e].file /\ ~dropped => d \notin upload[e].saw

\* Whatever fails in between, a document that users may see has its file stored and its
\* first task queued, and an upload that was answered with success has left them
\* (PutObject before CreateWithIndexTask, which is one transaction).
StoredTogether ==
  /\ \A d \in Request : row[d] = "live" => d \in files /\ d \in queued
  /\ \A r \in Request : At(r, "stored") => row[r] # "none" /\ r \in queued
=============================================================================
