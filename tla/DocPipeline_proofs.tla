------------------------- MODULE DocPipeline_proofs -------------------------
(***************************************************************************)
(* Proofs about DocPipeline, for any number of handlers, delete tasks,      *)
(* retries, faults and requests, with or without overlapping deliveries:    *)
(* that success is never reported before its result is stored, that what is *)
(* ready can be searched, and that the document moves along DocLifecycle.   *)
(***************************************************************************)
EXTENDS DocPipeline, TLAPS

\* The statements of IndexTaskRepo turn a row into a row, and never into "none".
LEMMA RowTypes ==
  ASSUME NEW row \in Rows
  PROVE  /\ Claimed(row) \in Rows /\ Claimed(row).status = "running"
         /\ BackToPending(row) \in Rows /\ BackToPending(row).status = "pending"
         /\ \A next \in TaskStatuses : Moved(row, next) \in Rows /\ Moved(row, next).status = next
<1>1. row.retries + 1 \in Nat
  BY DEF Rows
<1>2. QED
  BY <1>1 DEF Rows, Claimed, BackToPending, Moved, TaskStatuses, Leases

\* The status tables, one line an entry.
LEMMA PreviousStatuses ==
  /\ DocumentPreviousStatuses("parsing") = {"uploaded"}
  /\ DocumentPreviousStatuses("parsed") = {"parsing"}
  /\ DocumentPreviousStatuses("chunking") = {"parsed"}
  /\ DocumentPreviousStatuses("chunked") = {"chunking"}
  /\ DocumentPreviousStatuses("embedding") = {"chunked"}
  /\ DocumentPreviousStatuses("indexed") = {"embedding"}
  /\ DocumentPreviousStatuses("failed") = InProgress
  /\ DocumentPreviousStatuses("deleting") = InProgress \cup {"indexed", "failed", "delete_failed"}
  /\ DocumentPreviousStatuses("delete_failed") = {"deleting"}
BY DEF DocumentPreviousStatuses

\* The predecessors a reset accepts (DocumentRetryPreviousStatuses).
LEMMA RetryPreviousStatuses ==
  /\ DocumentRetryPreviousStatuses("uploaded") = {"failed", "parsing"}
  /\ DocumentRetryPreviousStatuses("parsed") = {"failed", "chunking"}
  /\ DocumentRetryPreviousStatuses("chunked") = {"failed", "embedding"}
  /\ DocumentRetryPreviousStatuses("deleting") = {"delete_failed"}
BY DEF DocumentRetryPreviousStatuses

\* The start of each kind of task (retryPendingDocumentStatus).
LEMMA TypeTables ==
  /\ StageStart("parse") = "uploaded"
  /\ StageStart("chunk") = "parsed"
  /\ StageStart("embedding") = "chunked"
  /\ StageStart("delete") = "deleting"
BY DEF StageStart

-----------------------------------------------------------------------------
(* The inductive invariant *)

Exists(t) == task[t].status # "none"

\* On its way out, or out: no stage gets the document back.
Leaving == doc.deleted \/ doc.status \in {"deleting", "delete_failed"}

\* What a handler at a step of its function knows.
Local(h) ==
  LET pc == handler[h].pc
      t  == handler[h].task
  IN  /\ pc # "idle" => t \in Task /\ Exists(t)
      /\ pc \in {"enter", "work"} => Type(h) \in Stage
      /\ pc = "store" => Type(h) = "embedding"
      /\ pc = "finish" => Type(h) \in {"chunk", "embedding"}
      /\ pc = "enqueue" => Type(h) \in {"parse", "chunk"}
      /\ pc \in {"dropVectors", "verify", "dropObject", "hide"} => Type(h) = "delete"
      /\ pc = "complete" => Result(t)
      /\ pc = "store" => Races \/ chunks \/ Leaving
      /\ pc = "finish" /\ Type(h) = "embedding" => Races \/ (chunks /\ vectors) \/ Leaving

\* A message belongs to a row, a row that is there stays, and a delete task exists only
\* for a document on its way out.
RowsExist ==
  \A t \in Task : /\ ~Exists(t) => task[t] = NoRow
                  /\ msg[t] # "none" => Exists(t)
                  /\ t \in DeleteTask /\ Exists(t) => Leaving

NoRequests == ~Races => clearing = "idle" /\ dropping = "idle"

Inv ==
  /\ TypeOK
  /\ RowsExist
  /\ \A h \in Handler : Local(h)
  /\ SuccessIsBacked
  /\ Races \/ IndexedIsSearchable
  /\ NoRequests

-----------------------------------------------------------------------------
(* Steps, one store at a time *)

Messages == {"none", "queued", "delivered", "gone"}

\* Rows are created, never removed; a delete task comes with "deleting"; success is new
\* only where its result is stored.
RowsStep ==
  /\ task' \in [Task -> Rows]
  /\ msg' \in [Task -> Messages]
  /\ \A t \in Task :
       /\ Exists(t) => Exists(t)'
       /\ ~Exists(t)' => task'[t] = NoRow
       /\ msg'[t] # "none" => Exists(t)'
       /\ t \in DeleteTask /\ Exists(t)' => Exists(t) \/ Leaving'
       /\ task'[t].status = "success" => task[t].status = "success" \/ Result(t)

\* A document on its way out stays so, an indexed one can only leave, and outside the
\* races nothing takes the contents of a document that is not leaving.
DataStep ==
  /\ doc' \in [status: DocStatuses, deleted: BOOLEAN]
  /\ chunks' \in BOOLEAN /\ vectors' \in BOOLEAN /\ object' \in BOOLEAN
  /\ clearing' \in {"idle", "listed", "dropped", "marked", "unmarked"}
  /\ dropping' \in {"idle", "dropped", "done"}
  /\ doc.deleted => doc'.deleted
  /\ Leaving => Leaving'
  /\ doc.status = "indexed" => doc'.status = "indexed" \/ Leaving'
  /\ Races \/ ((chunks => chunks' \/ Leaving') /\ (vectors => vectors' \/ Leaving'))
  /\ Races \/ IndexedIsSearchable'
  /\ NoRequests'

\* The invariant includes the types.
LEMMA InvType == ASSUME Inv PROVE TypeOK
BY DEF Inv

\* A step that leaves task rows and messages alone.
LEMMA RowsSame ==
  ASSUME Inv, UNCHANGED <<task, msg>>
  PROVE  RowsStep
BY DEF Inv, TypeOK, RowsExist, RowsStep, Exists, Messages

\* A message of an existing task changes its state.
LEMMA MessageMoves ==
  ASSUME Inv, UNCHANGED task, NEW t \in Task, Exists(t), NEW state \in Messages,
         msg' = [msg EXCEPT ![t] = state]
  PROVE  RowsStep
BY DEF Inv, TypeOK, RowsExist, RowsStep, Exists, Messages

\* A task row changes, and claims success only with a result.
LEMMA RowMoves ==
  ASSUME Inv, UNCHANGED msg, NEW t \in Task, Exists(t), NEW row \in Rows, row.status # "none",
         task' = [task EXCEPT ![t] = row],
         row.status = "success" => task[t].status = "success" \/ Result(t)
  PROVE  RowsStep
<1>1. \A u \in Task : task'[u] = IF u = t THEN row ELSE task[u]
  BY DEF Inv, TypeOK
<1>2. task' \in [Task -> Rows] /\ msg' \in [Task -> Messages]
  BY DEF Inv, TypeOK, Messages
<1>3. QED
  BY <1>1, <1>2 DEF Inv, RowsExist, RowsStep, Exists

\* A new row is pending (IndexTaskRepo.Create).
LEMMA NewRowType == NewRow \in Rows /\ NewRow.status = "pending" /\ NoRow.status = "none"
BY DEF NewRow, NoRow, Rows, TaskStatuses, Leases

\* A task is enqueued with its message.
LEMMA RowAppears ==
  ASSUME Inv, NEW t \in Task, task' = [task EXCEPT ![t] = NewRow],
         msg' = [msg EXCEPT ![t] = "queued"],
         t \in DeleteTask => Leaving', task[t] = NoRow
  PROVE  RowsStep
<1>1. \A u \in Task : /\ task'[u] = IF u = t THEN NewRow ELSE task[u]
                      /\ msg'[u] = IF u = t THEN "queued" ELSE msg[u]
  BY DEF Inv, TypeOK
<1>2. task' \in [Task -> Rows] /\ msg' \in [Task -> Messages]
  BY NewRowType DEF Inv, TypeOK, Messages
<1>3. QED
  BY <1>1, <1>2, NewRowType DEF Inv, RowsExist, RowsStep, Exists

\* A step that leaves document, contents and requests alone.
LEMMA DataSame ==
  ASSUME Inv, UNCHANGED <<data, requests>>
  PROVE  DataStep
BY DEF Inv, TypeOK, data, requests, DataStep, Leaving, IndexedIsSearchable, NoRequests

\* A conditional update of the status (UpdateStatus, ResetStatusForRetry).
LEMMA DocMoves ==
  ASSUME Inv, UNCHANGED <<chunks, vectors, object, requests>>,
         NEW status \in DocStatuses, SetStatus(status),
         CanSet(status) \/ CanReset(status),
         status = "indexed" => Races \/ (chunks /\ vectors)
  PROVE  DataStep
<1>1. /\ doc.deleted = FALSE /\ doc'.deleted = FALSE
      /\ doc'.status = status
      /\ doc' \in [status: DocStatuses, deleted: BOOLEAN]
  BY DEF Inv, TypeOK, SetStatus, CanSet, CanReset
<1>2. Leaving => status \in {"deleting", "delete_failed"}
  BY <1>1, PreviousStatuses, RetryPreviousStatuses
     DEF Leaving, CanSet, CanReset, DocStatuses, InProgress, DocumentPreviousStatuses,
         DocumentRetryPreviousStatuses
<1>3. doc.status = "indexed" => status = "deleting"
  BY <1>1, PreviousStatuses, RetryPreviousStatuses
     DEF CanSet, CanReset, DocStatuses, InProgress, DocumentPreviousStatuses,
         DocumentRetryPreviousStatuses
<1>4. QED
  BY <1>1, <1>2, <1>3
     DEF Inv, TypeOK, requests, DataStep, Leaving, IndexedIsSearchable, NoRequests

\* What a step that moves at most one handler must show.
LEMMA ResultStays ==
  ASSUME Inv, RowsStep, DataStep, NEW t \in Task, Result(t)
  PROVE  Result(t)'
<1>1. \A u \in Task : task[u] # NoRow => task'[u] # NoRow
  BY NewRowType DEF Inv, RowsExist, RowsStep, Exists
<1>2. "chunk" \in Task /\ "embedding" \in Task
  BY DEF Task, Stage
<1>3. doc.deleted \/ doc.status \in {"indexed", "deleting", "delete_failed"}
        => doc'.deleted \/ doc'.status \in {"indexed", "deleting", "delete_failed"}
  BY DEF DataStep, Leaving
<1>4. QED
  BY <1>1, <1>2, <1>3 DEF Result, DataStep

\* What a handler knows stays true while others act.
LEMMA LocalStays ==
  ASSUME Inv, RowsStep, DataStep, NEW h \in Handler, handler'[h] = handler[h]
  PROVE  Local(h)'
<1> DEFINE t == handler[h].task
<1>1. Type(h)' = Type(h)
  BY DEF Type
<1>2. Local(h)
  BY DEF Inv
<1>3. handler[h].pc # "idle" => t \in Task /\ Exists(t)'
  BY <1>2 DEF Local, RowsStep
<1>4. handler[h].pc = "complete" => Result(t)'
  BY <1>2, ResultStays DEF Local
<1>5. Races' = Races
  BY DEF Races
<1>6. handler[h].pc = "store" => Races \/ chunks' \/ Leaving'
  BY <1>2 DEF Local, DataStep
<1>7. handler[h].pc = "finish" /\ Type(h) = "embedding" =>
        Races \/ (chunks' /\ vectors') \/ Leaving'
  BY <1>2 DEF Local, DataStep
<1>8. QED
  BY <1>1, <1>2, <1>3, <1>4, <1>5, <1>6, <1>7 DEF Local, Exists, Leaving, Result, Races

\* The invariant from its parts: rows, data and each handler.
LEMMA Assemble ==
  ASSUME Inv, RowsStep, DataStep, faults' \in 0 .. MaxFaults,
         handler' \in [Handler -> [pc: Steps, task: Task \cup {NoTask}]],
         \A g \in Handler : handler'[g] = handler[g] \/ Local(g)'
  PROVE  Inv'
<1>1. TypeOK'
  BY DEF RowsStep, DataStep, TypeOK, Messages
<1>2. RowsExist'
  BY DEF Inv, RowsExist, RowsStep, DataStep
<1>3. \A g \in Handler : Local(g)'
  BY LocalStays
<1>4. SuccessIsBacked'
  BY ResultStays DEF Inv, SuccessIsBacked, RowsStep
<1>5. (Races \/ IndexedIsSearchable)' /\ NoRequests'
  BY DEF DataStep, Races
<1>6. QED
  BY <1>1, <1>2, <1>3, <1>4, <1>5 DEF Inv

-----------------------------------------------------------------------------
(* Steps of a handler *)
LEMMA TypesOfTasks ==
  ASSUME NEW t \in Task
  PROVE  /\ TypeOf(t) \in TaskTypes
         /\ \A type \in Stage : TypeOf(t) = type <=> t = type
         /\ TypeOf(t) = "delete" <=> t \in DeleteTask
         /\ t \in DeleteTask => t \notin Stage
BY TaskIdAssumption DEF TypeOf, Task, Stage, TaskTypes

\* Steps at which a handler knows nothing.
Plain == {"claim", "check", "read", "retry", "reset", "failDoc", "failTask", "ack", "nak"}

\* A handler that goes on with the same task keeps the invariant if it may
\* know what its next step needs.
LEMMA GotoInv ==
  ASSUME Inv, RowsStep, DataStep, faults' \in 0 .. MaxFaults,
         NEW h \in Handler, handler[h].pc # "idle", NEW t \in Task, Handles(h, t),
         NEW step \in Steps \ {"idle"}, Goto(h, step),
         step \in {"enter", "work"} => TypeOf(t) \in Stage,
         step = "store" => TypeOf(t) = "embedding",
         step = "finish" => TypeOf(t) \in {"chunk", "embedding"},
         step = "enqueue" => TypeOf(t) \in {"parse", "chunk"},
         step \in {"dropVectors", "verify", "dropObject", "hide"} => TypeOf(t) = "delete",
         step = "complete" => Result(t)',
         step = "store" => Races \/ chunks' \/ Leaving',
         step = "finish" /\ TypeOf(t) = "embedding" =>
           Races \/ (chunks' /\ vectors') \/ Leaving'
  PROVE  Inv'
<1>1. /\ handler' \in [Handler -> [pc: Steps, task: Task \cup {NoTask}]]
      /\ handler'[h].pc = step /\ handler'[h].task = t
      /\ \A g \in Handler : g # h => handler'[g] = handler[g]
  BY DEF Inv, TypeOK, Goto, Handles
<1>2. Exists(t)'
  BY DEF Inv, Local, RowsStep, Handles
<1>3. Type(h)' = TypeOf(t)
  BY <1>1 DEF Type
<1>4. Local(h)'
  BY <1>1, <1>2, <1>3 DEF Local, Races, Exists, Leaving, Result
<1>5. QED
  BY <1>1, <1>4, Assemble

\* The task of a handler that is not idle.
LEMMA AtWork ==
  ASSUME Inv, NEW h \in Handler, handler[h].pc # "idle"
  PROVE  \E t \in Task : Handles(h, t)
BY DEF Inv, Local, Handles

\* A working handler has an existing task, and deletes only a document that
\* is leaving.
LEMMA WorkTypes ==
  ASSUME Inv, NEW h \in Handler, handler[h].pc # "idle", NEW t \in Task, Handles(h, t)
  PROVE  /\ Exists(t) /\ task[t] \in Rows
         /\ handler[h].task = t
         /\ Type(h) = TypeOf(t)
         /\ TypeOf(t) = "delete" => Leaving
<1>1. Exists(t) /\ Type(h) = TypeOf(t)
  BY DEF Inv, Local, Handles, Type
<1>2. QED
  BY <1>1, TypesOfTasks DEF Inv, TypeOK, RowsExist, Handles

\* At the steps around the stage a handler need know nothing.
LEMMA PlainInv ==
  ASSUME Inv, RowsStep, DataStep, faults' \in 0 .. MaxFaults,
         NEW h \in Handler, handler[h].pc # "idle", NEW step \in Plain, Goto(h, step)
  PROVE  Inv'
<1>1. PICK t \in Task : Handles(h, t)
  BY AtWork
<1>2. /\ step \in Steps \ {"idle"}
      /\ step \notin {"enter", "work", "store", "finish", "enqueue", "complete",
                      "dropVectors", "verify", "dropObject", "hide"}
  BY DEF Plain, Steps, InStage
<1>3. QED
  BY <1>1, <1>2, GotoInv

\* A handler that lets its message go keeps the invariant.
LEMMA IdleInv ==
  ASSUME Inv, RowsStep, DataStep, faults' \in 0 .. MaxFaults,
         NEW h \in Handler, handler' = [handler EXCEPT ![h] = Idle]
  PROVE  Inv'
<1>1. /\ handler' \in [Handler -> [pc: Steps, task: Task \cup {NoTask}]]
      /\ handler'[h].pc = "idle"
      /\ \A g \in Handler : g # h => handler'[g] = handler[g]
  BY DEF Inv, TypeOK, Idle, Steps
<1>2. Local(h)'
  BY <1>1 DEF Local
<1>3. QED
  BY <1>1, <1>2, Assemble

\* ReadDocument keeps the invariant.
LEMMA ReadDocumentInv ==
  ASSUME Inv, NEW h \in Handler, NEW t \in Task, Handles(h, t),
         ReadDocument(h), UNCHANGED requests, faults' \in 0 .. MaxFaults
  PROVE  Inv'
<1>1. handler[h].pc = "read" /\ UNCHANGED <<data, queue>>
  BY DEF ReadDocument, At
<1>2. RowsStep /\ DataStep
  BY <1>1, RowsSame, DataSame DEF queue
<1>3. Type(h) = TypeOf(t) /\ (Result(t) => Result(t)')
  BY <1>1, <1>2, WorkTypes, ResultStays
<1>4. CASE doc.deleted
  <2>1. CASE TypeOf(t) = "delete"
    <3>1. Goto(h, "complete")
      BY <1>3, <1>4, <2>1 DEF ReadDocument
    <3>2. Result(t)
      BY <1>4, <2>1, TypesOfTasks, TaskIdAssumption DEF Result, Stage
    <3>3. QED
      BY <1>1, <1>2, <1>3, <3>1, <3>2, GotoInv DEF Steps
  <2>2. CASE TypeOf(t) # "delete"
    <3>1. Goto(h, "failDoc")
      BY <1>3, <1>4, <2>2 DEF ReadDocument
    <3>2. QED
      BY <1>1, <1>2, <3>1, PlainInv DEF Plain
  <2>3. QED
    BY <2>1, <2>2
<1>5. CASE ~doc.deleted /\ TypeOf(t) = "delete"
  <2>1. Goto(h, "dropVectors")
    BY <1>3, <1>5 DEF ReadDocument
  <2>2. QED
    BY <1>1, <1>2, <1>5, <2>1, GotoInv DEF Steps, InStage
<1>6. CASE ~doc.deleted /\ TypeOf(t) # "delete"
  <2>1. TypeOf(t) \in Stage
    BY <1>6, TypesOfTasks DEF TaskTypes, Stage
  <2>2. CASE documentAtOrBeyond(doc.status, Done(TypeOf(t))) /\ TypeOf(t) = "embedding"
    <3>1. Goto(h, "complete")
      BY <1>3, <1>6, <2>2 DEF ReadDocument
    <3>2. doc.status = "indexed"
      BY <2>2 DEF documentAtOrBeyond, Rank, Done, Inv, TypeOK, DocStatuses
    <3>3. Result(t)
      BY <2>1, <2>2, <3>2, TypesOfTasks DEF Result, Stage
    <3>4. QED
      BY <1>1, <1>2, <1>3, <3>1, <3>3, GotoInv DEF Steps
  <2>3. CASE documentAtOrBeyond(doc.status, Done(TypeOf(t))) /\ TypeOf(t) # "embedding"
    <3>1. Goto(h, "enqueue")
      BY <1>3, <1>6, <2>3 DEF ReadDocument
    <3>2. QED
      BY <1>1, <1>2, <2>1, <2>3, <3>1, GotoInv DEF Steps, InStage, Stage
  <2>4. CASE ~documentAtOrBeyond(doc.status, Done(TypeOf(t)))
    <3>1. Goto(h, "work") \/ Goto(h, "enter")
      BY <1>3, <1>6, <2>4 DEF ReadDocument
    <3>2. QED
      BY <1>1, <1>2, <2>1, <3>1, GotoInv DEF Steps, InStage
  <2>5. QED
    BY <2>2, <2>3, <2>4
<1>7. QED
  BY <1>4, <1>5, <1>6

\* Contents appear, or disappear from a document nobody is promised.
LEMMA ContentsMove ==
  ASSUME Inv, UNCHANGED <<doc, requests>>,
         chunks' \in BOOLEAN, vectors' \in BOOLEAN, object' \in BOOLEAN,
         Races \/ Leaving \/ ((chunks => chunks') /\ (vectors => vectors'))
  PROVE  DataStep
<1>1. doc.status = "indexed" /\ ~doc.deleted => ~Leaving
  BY DEF Leaving
<1>2. Races \/ IndexedIsSearchable'
  BY <1>1 DEF Inv, IndexedIsSearchable
<1>3. QED
  BY <1>2 DEF Inv, TypeOK, requests, DataStep, Leaving, NoRequests, Races

\* The statuses a stage sets (parseDocument, chunkDocument, embedDocument).
LEMMA StageNames ==
  ASSUME NEW type \in Stage
  PROVE  /\ Active(type) \in DocStatuses \ {"indexed"}
         /\ Done(type) \in DocStatuses
         /\ Done(type) = "indexed" <=> type = "embedding"
BY DEF Stage, Active, Done, DocStatuses

\* EnterStage keeps the invariant.
LEMMA EnterStageInv ==
  ASSUME Inv, NEW h \in Handler, NEW t \in Task, Handles(h, t), NEW after \in Plain \cup {"work"},
         EnterStage(h, after), UNCHANGED requests, faults' \in 0 .. MaxFaults
  PROVE  Inv'
<1>1. /\ handler[h].pc = "enter" /\ Goto(h, after) /\ UNCHANGED queue
      /\ UNCHANGED <<chunks, vectors, object, requests>>
      /\ CanSet(Active(Type(h))) /\ SetStatus(Active(Type(h)))
  BY DEF EnterStage, At
<1>2. Type(h) = TypeOf(t) /\ TypeOf(t) \in Stage
  BY <1>1, WorkTypes DEF Inv, Local
<1>3. RowsStep /\ DataStep
  BY <1>1, <1>2, RowsSame, DocMoves, StageNames DEF queue
<1>4. CASE after \in Plain
  BY <1>1, <1>3, <1>4, PlainInv
<1>5. CASE after = "work"
  BY <1>1, <1>2, <1>3, <1>5, GotoInv DEF Steps, InStage
<1>6. QED
  BY <1>4, <1>5

\* CompleteParse keeps the invariant.
LEMMA CompleteParseInv ==
  ASSUME Inv, NEW h \in Handler, NEW t \in Task, Handles(h, t),
         NEW after \in Plain \cup {"enqueue"},
         CompleteParse(h, after), UNCHANGED requests, faults' \in 0 .. MaxFaults
  PROVE  Inv'
<1>1. /\ handler[h].pc = "work" /\ Goto(h, after) /\ UNCHANGED queue
      /\ UNCHANGED <<chunks, vectors, object, requests>> /\ Type(h) = "parse"
      /\ CanSet("parsed") /\ SetStatus("parsed")
  BY DEF CompleteParse, At
<1>2. TypeOf(t) = "parse"
  BY <1>1, WorkTypes
<1>3. RowsStep /\ DataStep
  BY <1>1, RowsSame, DocMoves DEF queue, DocStatuses
<1>4. CASE after \in Plain
  BY <1>1, <1>3, <1>4, PlainInv
<1>5. CASE after = "enqueue"
  BY <1>1, <1>2, <1>3, <1>5, GotoInv DEF Steps, InStage
<1>6. QED
  BY <1>4, <1>5

\* ReplaceByDocument keeps the invariant.
LEMMA ReplaceByDocumentInv ==
  ASSUME Inv, NEW h \in Handler, NEW t \in Task, Handles(h, t),
         NEW after \in Plain \cup {"finish"},
         ReplaceByDocument(h, after), UNCHANGED requests, faults' \in 0 .. MaxFaults
  PROVE  Inv'
<1>1. /\ handler[h].pc = "work" /\ Goto(h, after) /\ UNCHANGED queue
      /\ UNCHANGED <<doc, vectors, object, requests>> /\ Type(h) = "chunk"
      /\ chunks' = TRUE
  BY DEF ReplaceByDocument, At
<1>2. TypeOf(t) = "chunk"
  BY <1>1, WorkTypes
<1>3. RowsStep /\ DataStep
  BY <1>1, RowsSame, ContentsMove DEF queue, Inv, TypeOK
<1>4. CASE after \in Plain
  BY <1>1, <1>3, <1>4, PlainInv
<1>5. CASE after = "finish"
  BY <1>1, <1>2, <1>3, <1>5, GotoInv DEF Steps, InStage
<1>6. QED
  BY <1>4, <1>5

\* ListByDocument keeps the invariant.
LEMMA ListByDocumentInv ==
  ASSUME Inv, NEW h \in Handler, NEW t \in Task, Handles(h, t),
         ListByDocument(h), UNCHANGED requests, faults' \in 0 .. MaxFaults
  PROVE  Inv'
<1>1. /\ handler[h].pc = "work" /\ UNCHANGED <<data, queue>> /\ Type(h) = "embedding"
      /\ Goto(h, IF chunks THEN "store" ELSE "failDoc")
  BY DEF ListByDocument, At
<1>2. TypeOf(t) = "embedding"
  BY <1>1, WorkTypes
<1>3. RowsStep /\ DataStep
  BY <1>1, RowsSame, DataSame DEF queue
<1>4. CASE ~chunks
  <2>1. Goto(h, "failDoc")
    BY <1>1, <1>4
  <2>2. QED
    BY <1>1, <1>3, <2>1, PlainInv DEF Plain
<1>5. CASE chunks
  <2>1. Goto(h, "store") /\ chunks'
    BY <1>1, <1>5 DEF data
  <2>2. QED
    BY <1>1, <1>2, <1>3, <2>1, GotoInv DEF Steps, InStage
<1>6. QED
  BY <1>4, <1>5

\* UpsertChunks keeps the invariant.
LEMMA UpsertChunksInv ==
  ASSUME Inv, NEW h \in Handler, NEW t \in Task, Handles(h, t),
         NEW after \in Plain \cup {"finish"},
         UpsertChunks(h, after), UNCHANGED requests, faults' \in 0 .. MaxFaults
  PROVE  Inv'
<1>1. /\ handler[h].pc = "store" /\ Goto(h, after) /\ UNCHANGED queue
      /\ UNCHANGED <<doc, chunks, object, requests>> /\ vectors' = TRUE
  BY DEF UpsertChunks, At
<1>2. TypeOf(t) = "embedding" /\ (Races \/ chunks \/ Leaving)
  BY <1>1, WorkTypes DEF Inv, Local
<1>3. RowsStep /\ DataStep
  BY <1>1, RowsSame, ContentsMove DEF queue, Inv, TypeOK
<1>4. CASE after \in Plain
  BY <1>1, <1>3, <1>4, PlainInv
<1>5. CASE after = "finish"
  <2>1. Races \/ (chunks' /\ vectors') \/ Leaving'
    BY <1>1, <1>2, <1>3 DEF DataStep
  <2>2. QED
    BY <1>1, <1>2, <1>3, <1>5, <2>1, GotoInv DEF Steps, InStage
<1>6. QED
  BY <1>4, <1>5

\* FinishStage keeps the invariant.
LEMMA FinishStageInv ==
  ASSUME Inv, NEW h \in Handler, NEW t \in Task, Handles(h, t), NEW after,
         after \in Plain \/ after = IF TypeOf(t) = "embedding" THEN "complete" ELSE "enqueue",
         FinishStage(h, after), UNCHANGED requests, faults' \in 0 .. MaxFaults
  PROVE  Inv'
<1>1. /\ handler[h].pc = "finish" /\ Goto(h, after) /\ UNCHANGED queue
      /\ UNCHANGED <<chunks, vectors, object, requests>>
      /\ CanSet(Done(Type(h))) /\ SetStatus(Done(Type(h)))
  BY DEF FinishStage, At
<1>2. /\ Type(h) = TypeOf(t) /\ TypeOf(t) \in {"chunk", "embedding"}
      /\ TypeOf(t) = "embedding" => Races \/ (chunks /\ vectors) \/ Leaving
  BY <1>1, WorkTypes DEF Inv, Local
<1>3. TypeOf(t) \in Stage
  BY <1>2 DEF Stage
<1>4. TypeOf(t) = "embedding" => ~Leaving
  BY <1>1, <1>2, PreviousStatuses DEF Done, CanSet, Leaving, DocumentPreviousStatuses
<1>5. RowsStep
  BY <1>1, RowsSame DEF queue
<1>6. DataStep
  BY <1>1, <1>2, <1>3, <1>4, StageNames, DocMoves
<1>7. CASE after \in Plain
  BY <1>1, <1>5, <1>6, <1>7, PlainInv
<1>8. CASE after = "complete" /\ TypeOf(t) = "embedding"
  <2>1. doc'.status = "indexed"
    BY <1>1, <1>2, <1>8 DEF SetStatus, Done, Inv, TypeOK
  <2>2. Result(t)'
    BY <1>8, <2>1, TypesOfTasks DEF Result, Stage
  <2>3. QED
    BY <1>1, <1>5, <1>6, <1>8, <2>2, GotoInv DEF Steps
<1>9. CASE after = "enqueue" /\ TypeOf(t) # "embedding"
  BY <1>1, <1>2, <1>5, <1>6, <1>9, GotoInv DEF Steps, InStage
<1>10. QED
  BY <1>7, <1>8, <1>9

\* EnqueueNext keeps the invariant.
LEMMA EnqueueNextInv ==
  ASSUME Inv, NEW h \in Handler, NEW t \in Task, Handles(h, t),
         NEW after \in Plain \cup {"complete"},
         EnqueueNext(h, after), UNCHANGED requests, faults' \in 0 .. MaxFaults
  PROVE  Inv'
<1> DEFINE next == NextStage(TypeOf(t))
<1>1. /\ handler[h].pc = "enqueue" /\ Goto(h, after) /\ UNCHANGED <<data, requests>>
      /\ Type(h) = TypeOf(t)
  BY WorkTypes DEF EnqueueNext, At
<1>2. TypeOf(t) \in {"parse", "chunk"} /\ t = TypeOf(t)
  BY <1>1, WorkTypes, TypesOfTasks DEF Inv, Local, Stage
<1>3. next \in {"chunk", "embedding"} /\ next \in Task /\ next \notin DeleteTask
  BY <1>2, TaskIdAssumption DEF NextStage, Task, Stage
<1>4. DataStep
  BY <1>1, DataSame
<1>5. RowsStep /\ task'[next] # NoRow
  <2>1. CASE task[next] = NoRow
    <3>1. task' = [task EXCEPT ![next] = NewRow] /\ msg' = [msg EXCEPT ![next] = "queued"]
      BY <1>1, <2>1 DEF EnqueueNext
    <3>2. RowsStep
      BY <1>3, <2>1, <3>1, RowAppears
    <3>3. task'[next] # NoRow
      BY <1>3, <3>1, NewRowType DEF Inv, TypeOK
    <3>4. QED
      BY <3>2, <3>3
  <2>2. CASE task[next] # NoRow
    BY <1>1, <2>2, RowsSame DEF EnqueueNext, queue
  <2>3. QED
    BY <2>1, <2>2
<1>6. CASE after \in Plain
  BY <1>1, <1>4, <1>5, <1>6, PlainInv
<1>7. CASE after = "complete"
  <2>1. Result(t)'
    BY <1>2, <1>5, TypesOfTasks, TaskIdAssumption DEF Result, NextStage
  <2>2. QED
    BY <1>1, <1>4, <1>5, <1>7, <2>1, GotoInv DEF Steps
<1>8. QED
  BY <1>6, <1>7

\* The delete function: its document is on its way out.
LEMMA DeleteWork ==
  ASSUME Inv, NEW h \in Handler, NEW t \in Task, Handles(h, t),
         handler[h].pc \in {"dropVectors", "verify", "dropObject", "hide"}
  PROVE  TypeOf(t) = "delete" /\ Leaving
BY WorkTypes DEF Inv, Local

\* DeleteByDocIDs keeps the invariant.
LEMMA DeleteByDocIDsInv ==
  ASSUME Inv, NEW h \in Handler, NEW t \in Task, Handles(h, t),
         NEW after \in Plain \cup {"verify"},
         DeleteByDocIDs(h, after), UNCHANGED requests, faults' \in 0 .. MaxFaults
  PROVE  Inv'
<1>1. /\ handler[h].pc = "dropVectors" /\ Goto(h, after) /\ UNCHANGED queue
      /\ UNCHANGED <<doc, chunks, object, requests>> /\ vectors' = FALSE
  BY DEF DeleteByDocIDs, At
<1>2. TypeOf(t) = "delete" /\ Leaving
  BY <1>1, DeleteWork
<1>3. RowsStep /\ DataStep
  BY <1>1, <1>2, RowsSame, ContentsMove DEF queue, Inv, TypeOK
<1>4. CASE after \in Plain
  BY <1>1, <1>3, <1>4, PlainInv
<1>5. CASE after = "verify"
  BY <1>1, <1>2, <1>3, <1>5, GotoInv DEF Steps, InStage
<1>6. QED
  BY <1>4, <1>5

\* HasDocVectors keeps the invariant.
LEMMA HasDocVectorsInv ==
  ASSUME Inv, NEW h \in Handler, NEW t \in Task, Handles(h, t),
         HasDocVectors(h), UNCHANGED requests, faults' \in 0 .. MaxFaults
  PROVE  Inv'
<1>1. /\ handler[h].pc = "verify" /\ UNCHANGED <<data, queue>>
      /\ Goto(h, "failDoc") \/ Goto(h, "dropObject")
  BY DEF HasDocVectors, At
<1>2. TypeOf(t) = "delete" /\ Leaving
  BY <1>1, DeleteWork
<1>3. RowsStep /\ DataStep
  BY <1>1, RowsSame, DataSame DEF queue
<1>4. CASE Goto(h, "failDoc")
  BY <1>1, <1>3, <1>4, PlainInv DEF Plain
<1>5. CASE Goto(h, "dropObject")
  BY <1>1, <1>2, <1>3, <1>5, GotoInv DEF Steps, InStage
<1>6. QED
  BY <1>1, <1>4, <1>5

\* RemoveObject keeps the invariant.
LEMMA RemoveObjectInv ==
  ASSUME Inv, NEW h \in Handler, NEW t \in Task, Handles(h, t),
         NEW after \in Plain \cup {"hide"},
         RemoveObject(h, after), UNCHANGED requests, faults' \in 0 .. MaxFaults
  PROVE  Inv'
<1>1. /\ handler[h].pc = "dropObject" /\ Goto(h, after) /\ UNCHANGED queue
      /\ UNCHANGED <<doc, chunks, vectors, requests>> /\ object' = FALSE
  BY DEF RemoveObject, At
<1>2. TypeOf(t) = "delete" /\ Leaving
  BY <1>1, DeleteWork
<1>3. RowsStep /\ DataStep
  BY <1>1, <1>2, RowsSame, ContentsMove DEF queue, Inv, TypeOK
<1>4. CASE after \in Plain
  BY <1>1, <1>3, <1>4, PlainInv
<1>5. CASE after = "hide"
  BY <1>1, <1>2, <1>3, <1>5, GotoInv DEF Steps, InStage
<1>6. QED
  BY <1>4, <1>5

\* The document is hidden (CompleteDelete, ClearFailedByUser,
\* SoftDeleteByOwner).
LEMMA Hides ==
  ASSUME Inv, UNCHANGED <<vectors, object>>, chunks' \in BOOLEAN,
         doc' = [doc EXCEPT !.deleted = TRUE],
         clearing' \in {"idle", "listed", "dropped", "marked", "unmarked"},
         dropping' \in {"idle", "dropped", "done"}, NoRequests'
  PROVE  DataStep
<1>1. /\ doc' \in [status: DocStatuses, deleted: BOOLEAN]
      /\ doc'.deleted = TRUE /\ doc'.status = doc.status
  BY DEF Inv, TypeOK
<1>2. Leaving' /\ IndexedIsSearchable'
  BY <1>1 DEF Leaving, IndexedIsSearchable
<1>3. QED
  BY <1>1, <1>2 DEF Inv, TypeOK, DataStep

\* CompleteDelete keeps the invariant.
LEMMA CompleteDeleteInv ==
  ASSUME Inv, NEW h \in Handler, NEW t \in Task, Handles(h, t),
         NEW after \in Plain \cup {"complete"},
         CompleteDelete(h, after), UNCHANGED requests, faults' \in 0 .. MaxFaults
  PROVE  Inv'
<1>1. /\ handler[h].pc = "hide" /\ Goto(h, after) /\ UNCHANGED queue
      /\ UNCHANGED <<vectors, object, requests>> /\ chunks' = FALSE
      /\ doc' = [doc EXCEPT !.deleted = TRUE]
  BY DEF CompleteDelete, At
<1>2. TypeOf(t) = "delete"
  BY <1>1, DeleteWork
<1>3. RowsStep
  BY <1>1, RowsSame DEF queue
<1>4. NoRequests'
  BY <1>1 DEF Inv, NoRequests, requests, Races
<1>5. DataStep
  BY <1>1, <1>4, Hides DEF requests, Inv, TypeOK
<1>6. CASE after \in Plain
  BY <1>1, <1>3, <1>5, <1>6, PlainInv
<1>7. CASE after = "complete"
  <2>1. doc'.deleted
    BY <1>1 DEF Inv, TypeOK
  <2>2. Result(t)'
    BY <1>2, <2>1, TypesOfTasks, TaskIdAssumption DEF Result, Stage
  <2>3. QED
    BY <1>1, <1>3, <1>5, <1>7, <2>2, GotoInv DEF Steps
<1>8. QED
  BY <1>6, <1>7

\* Refused keeps the invariant.
LEMMA RefusedInv ==
  ASSUME Inv, NEW h \in Handler, Refused(h), UNCHANGED requests, faults' \in 0 .. MaxFaults
  PROVE  Inv'
<1>1. handler[h].pc # "idle" /\ Goto(h, "failDoc") /\ UNCHANGED <<data, queue>>
  BY DEF Refused, At
<1>2. QED
  BY <1>1, RowsSame, DataSame, PlainInv DEF queue, Plain

\* CallFails keeps the invariant.
LEMMA CallFailsInv ==
  ASSUME Inv, NEW h \in Handler, CallFails(h), UNCHANGED requests, faults' \in 0 .. MaxFaults
  PROVE  Inv'
<1>1. handler[h].pc # "idle" /\ UNCHANGED <<data, queue>>
      /\ \E next \in Plain : Goto(h, next)
  BY DEF CallFails, InStage, ErrorPath, Plain
<1>2. QED
  BY <1>1, RowsSame, DataSame, PlainInv DEF queue

\* A stage goes on, or its call took effect and the reply was lost.
LEMMA StageInv ==
  ASSUME Inv, NEW h \in Handler, StageStep(h) \/ ReplyLost(h),
         UNCHANGED requests, faults' \in 0 .. MaxFaults
  PROVE  Inv'
<1>1. handler[h].pc # "idle"
  BY DEF StageStep, ReplyLost, ReadDocument, EnterStage, CompleteParse, ReplaceByDocument,
         ListByDocument, UpsertChunks, FinishStage, EnqueueNext, DeleteByDocIDs,
         HasDocVectors, RemoveObject, CompleteDelete, Refused, At
<1>2. PICK t \in Task : Handles(h, t)
  BY <1>1, AtWork
<1>3. Type(h) = TypeOf(t)
  BY <1>1, <1>2, WorkTypes
<1>4. CASE StageStep(h)
  <2>1. CASE ReadDocument(h)
    BY <1>2, <2>1, ReadDocumentInv
  <2>2. CASE EnterStage(h, "work")
    BY <1>2, <2>2, EnterStageInv
  <2>3. CASE CompleteParse(h, "enqueue")
    BY <1>2, <2>3, CompleteParseInv
  <2>4. CASE ReplaceByDocument(h, "finish")
    BY <1>2, <2>4, ReplaceByDocumentInv
  <2>5. CASE ListByDocument(h)
    BY <1>2, <2>5, ListByDocumentInv
  <2>6. CASE UpsertChunks(h, "finish")
    BY <1>2, <2>6, UpsertChunksInv
  <2>7. CASE FinishStage(h, IF Type(h) = "embedding" THEN "complete" ELSE "enqueue")
    BY <1>2, <1>3, <2>7, FinishStageInv
  <2>8. CASE EnqueueNext(h, "complete")
    BY <1>2, <2>8, EnqueueNextInv
  <2>9. CASE DeleteByDocIDs(h, "verify")
    BY <1>2, <2>9, DeleteByDocIDsInv
  <2>10. CASE HasDocVectors(h)
    BY <1>2, <2>10, HasDocVectorsInv
  <2>11. CASE RemoveObject(h, "hide")
    BY <1>2, <2>11, RemoveObjectInv
  <2>12. CASE CompleteDelete(h, "complete")
    BY <1>2, <2>12, CompleteDeleteInv
  <2>13. CASE Refused(h)
    BY <2>13, RefusedInv
  <2>14. QED
    BY <1>4, <2>1, <2>2, <2>3, <2>4, <2>5, <2>6, <2>7, <2>8, <2>9, <2>10, <2>11, <2>12,
       <2>13 DEF StageStep
<1>5. CASE ReplyLost(h)
  <2>1. PICK next \in Plain :
          \/ EnterStage(h, next) \/ CompleteParse(h, next) \/ ReplaceByDocument(h, next)
          \/ UpsertChunks(h, next) \/ FinishStage(h, next) \/ EnqueueNext(h, next)
          \/ DeleteByDocIDs(h, next) \/ RemoveObject(h, next) \/ CompleteDelete(h, next)
    BY <1>5 DEF ReplyLost, ErrorPath, Plain
  <2>2. QED
    BY <1>2, <2>1, EnterStageInv, CompleteParseInv, ReplaceByDocumentInv, UpsertChunksInv,
       FinishStageInv, EnqueueNextInv, DeleteByDocIDsInv, RemoveObjectInv, CompleteDeleteInv
<1>6. QED
  BY <1>4, <1>5

-----------------------------------------------------------------------------
(* Steps of Manager.run *)
LEMMA MoveTaskRows ==
  ASSUME Inv, NEW h \in Handler, handler[h].pc # "idle", NEW next \in TaskStatuses,
         NEW onDone \in Plain, NEW onConflict \in Plain,
         MoveTask(h, next, onDone, onConflict), UNCHANGED msg,
         next = "success" => Result(handler[h].task)
  PROVE  RowsStep /\ \E step \in Plain : Goto(h, step)
<1>1. PICK t \in Task : Handles(h, t)
  BY AtWork
<1>2. handler[h].task = t /\ Exists(t) /\ task[t] \in Rows
  BY <1>1, WorkTypes
<1>3. CASE CanMove(task[t], next)
  <2>1. task' = [task EXCEPT ![t] = Moved(task[t], next)] /\ Goto(h, onDone)
    BY <1>2, <1>3 DEF MoveTask
  <2>2. /\ Moved(task[t], next) \in Rows /\ Moved(task[t], next).status = next
        /\ next # "none"
    BY <1>2 DEF Moved, Rows, Leases, TaskStatuses
  <2>3. RowsStep
    BY <1>2, <2>1, <2>2, RowMoves
  <2>4. QED
    BY <2>1, <2>3
<1>4. CASE ~CanMove(task[t], next)
  <2>1. UNCHANGED task /\ Goto(h, onConflict)
    BY <1>2, <1>4 DEF MoveTask
  <2>2. QED
    BY <2>1, RowsSame
<1>5. QED
  BY <1>3, <1>4

\* Complete keeps the invariant.
LEMMA CompleteInv ==
  ASSUME Inv, NEW h \in Handler, Complete(h), UNCHANGED requests, faults' \in 0 .. MaxFaults
  PROVE  Inv'
<1>1. /\ handler[h].pc = "complete" /\ MoveTask(h, "success", "ack", "nak")
      /\ UNCHANGED <<data, msg>>
  BY DEF Complete, At
<1>2. Result(handler[h].task)
  BY <1>1 DEF Inv, Local
<1>3. RowsStep /\ \E step \in Plain : Goto(h, step)
  BY <1>1, <1>2, MoveTaskRows DEF Plain, TaskStatuses
<1>4. QED
  BY <1>1, <1>3, DataSame, PlainInv

\* A row is claimed or put back to pending.
LEMMA RowTurns ==
  ASSUME Inv, NEW t \in Task, Exists(t), UNCHANGED msg,
         \/ task' = [task EXCEPT ![t] = Claimed(task[t])]
         \/ task' = [task EXCEPT ![t] = BackToPending(task[t])]
  PROVE  RowsStep
<1>1. task[t] \in Rows
  BY DEF Inv, TypeOK
<1>2. CASE task' = [task EXCEPT ![t] = Claimed(task[t])]
  BY <1>1, <1>2, RowTypes, RowMoves
<1>3. CASE task' = [task EXCEPT ![t] = BackToPending(task[t])]
  BY <1>1, <1>3, RowTypes, RowMoves
<1>4. QED
  BY <1>2, <1>3

\* Claim keeps the invariant.
LEMMA ClaimInv ==
  ASSUME Inv, NEW h \in Handler, Claim(h), UNCHANGED requests, faults' \in 0 .. MaxFaults
  PROVE  Inv'
<1>1. handler[h].pc = "claim" /\ UNCHANGED <<data, msg>>
  BY DEF Claim, At
<1>2. PICK t \in Task : Handles(h, t)
  BY <1>1, AtWork
<1>3. handler[h].task = t /\ Exists(t)
  BY <1>1, <1>2, WorkTypes
<1>4. CASE Claimable(task[t])
  <2>1. task' = [task EXCEPT ![t] = Claimed(task[t])] /\ Goto(h, "read")
    BY <1>3, <1>4 DEF Claim
  <2>2. QED
    BY <1>1, <1>3, <2>1, RowTurns, DataSame, PlainInv DEF Plain
<1>5. CASE ~Claimable(task[t])
  <2>1. UNCHANGED task /\ Goto(h, "check")
    BY <1>3, <1>5 DEF Claim
  <2>2. QED
    BY <1>1, <2>1, RowsSame, DataSame, PlainInv DEF Plain
<1>6. QED
  BY <1>4, <1>5

\* CheckDuplicate keeps the invariant.
LEMMA CheckDuplicateInv ==
  ASSUME Inv, NEW h \in Handler, CheckDuplicate(h), UNCHANGED requests, faults' \in 0 .. MaxFaults
  PROVE  Inv'
<1>1. /\ handler[h].pc = "check" /\ UNCHANGED <<data, queue>>
      /\ Goto(h, "ack") \/ Goto(h, "nak")
  BY DEF CheckDuplicate, At
<1>2. QED
  BY <1>1, RowsSame, DataSame, PlainInv DEF Plain, queue

\* ScheduleRetry keeps the invariant.
LEMMA ScheduleRetryInv ==
  ASSUME Inv, NEW h \in Handler, ScheduleRetry(h), UNCHANGED requests, faults' \in 0 .. MaxFaults
  PROVE  Inv'
<1>1. handler[h].pc = "retry" /\ UNCHANGED <<data, msg>>
  BY DEF ScheduleRetry, At
<1>2. PICK t \in Task : Handles(h, t)
  BY <1>1, AtWork
<1>3. handler[h].task = t /\ Exists(t)
  BY <1>1, <1>2, WorkTypes
<1>4. CASE CanScheduleRetry(task[t], MaxRetries)
  <2>1. task' = [task EXCEPT ![t] = BackToPending(task[t])]
    BY <1>3, <1>4 DEF ScheduleRetry
  <2>2. Goto(h, "reset") \/ Goto(h, "nak")
    BY <1>3, <1>4 DEF ScheduleRetry
  <2>3. QED
    BY <1>1, <1>3, <2>1, <2>2, RowTurns, DataSame, PlainInv DEF Plain
<1>5. CASE ~CanScheduleRetry(task[t], MaxRetries)
  <2>1. UNCHANGED task /\ Goto(h, "failDoc")
    BY <1>3, <1>5 DEF ScheduleRetry
  <2>2. QED
    BY <1>1, <2>1, RowsSame, DataSame, PlainInv DEF Plain
<1>6. QED
  BY <1>4, <1>5

\* The statuses of a stage's start and failure (retryPendingDocumentStatus,
\* persistFailure).
LEMMA StartNames ==
  ASSUME NEW type \in TaskTypes
  PROVE  /\ StageStart(type) \in DocStatuses \ {"indexed"}
         /\ FailureStatus(type) \in DocStatuses \ {"indexed"}
BY TypeTables DEF TaskTypes, FailureStatus, DocStatuses

\* ResetStatus keeps the invariant.
LEMMA ResetStatusInv ==
  ASSUME Inv, NEW h \in Handler, ResetStatusForRetry(h), UNCHANGED requests,
         faults' \in 0 .. MaxFaults
  PROVE  Inv'
<1> DEFINE start == StageStart(Type(h))
<1>1. /\ handler[h].pc = "reset" /\ UNCHANGED <<chunks, vectors, object, msg>>
  BY DEF ResetStatusForRetry, At
<1>2. Type(h) \in TaskTypes
  BY <1>1, AtWork, WorkTypes, TypesOfTasks
<1>3. CASE CanReset(start)
  <2>1. SetStatus(start) /\ Goto(h, "nak") /\ UNCHANGED task
    BY <1>3 DEF ResetStatusForRetry
  <2>2. DataStep
    BY <1>1, <1>2, <1>3, <2>1, StartNames, DocMoves
  <2>3. QED
    BY <1>1, <2>1, <2>2, RowsSame, PlainInv DEF Plain
<1>4. CASE ~CanReset(start)
  <2>1. MoveTask(h, "failed", "failDoc", "failDoc") /\ UNCHANGED doc
    BY <1>4 DEF ResetStatusForRetry
  <2>2. RowsStep /\ \E step \in Plain : Goto(h, step)
    BY <1>1, <2>1, MoveTaskRows DEF Plain, TaskStatuses
  <2>3. QED
    BY <1>1, <2>1, <2>2, DataSame, PlainInv DEF data
<1>5. QED
  BY <1>3, <1>4

\* FailDocument keeps the invariant.
LEMMA FailDocumentInv ==
  ASSUME Inv, NEW h \in Handler, FailDocument(h), UNCHANGED requests, faults' \in 0 .. MaxFaults
  PROVE  Inv'
<1> DEFINE status == FailureStatus(Type(h))
<1>1. handler[h].pc = "failDoc" /\ UNCHANGED <<chunks, vectors, object, queue>>
  BY DEF FailDocument, At
<1>2. Type(h) \in TaskTypes
  BY <1>1, AtWork, WorkTypes, TypesOfTasks
<1>3. RowsStep
  BY <1>1, RowsSame DEF queue
<1>4. CASE CanSet(status)
  <2>1. SetStatus(status) /\ Goto(h, "failTask")
    BY <1>4 DEF FailDocument
  <2>2. DataStep
    BY <1>1, <1>2, <1>4, <2>1, StartNames, DocMoves
  <2>3. QED
    BY <1>1, <1>3, <2>1, <2>2, PlainInv DEF Plain
<1>5. CASE ~CanSet(status)
  <2>1. UNCHANGED doc /\ Goto(h, "nak")
    BY <1>5 DEF FailDocument
  <2>2. QED
    BY <1>1, <1>3, <2>1, DataSame, PlainInv DEF Plain, data
<1>6. QED
  BY <1>4, <1>5

\* FailTask keeps the invariant.
LEMMA FailTaskInv ==
  ASSUME Inv, NEW h \in Handler, FailTask(h), UNCHANGED requests, faults' \in 0 .. MaxFaults
  PROVE  Inv'
<1>1. /\ handler[h].pc = "failTask" /\ MoveTask(h, "failed", "ack", "nak")
      /\ UNCHANGED <<data, msg>>
  BY DEF FailTask, At
<1>2. RowsStep /\ \E step \in Plain : Goto(h, step)
  BY <1>1, MoveTaskRows DEF Plain, TaskStatuses
<1>3. QED
  BY <1>1, <1>2, DataSame, PlainInv

\* RecoveryFails keeps the invariant.
LEMMA RecoveryFailsInv ==
  ASSUME Inv, NEW h \in Handler, RecoveryFails(h), UNCHANGED requests, faults' \in 0 .. MaxFaults
  PROVE  Inv'
<1>1. handler[h].pc # "idle" /\ Goto(h, "nak") /\ UNCHANGED <<data, queue>>
  BY DEF RecoveryFails
<1>2. QED
  BY <1>1, RowsSame, DataSame, PlainInv DEF Plain, queue

\* Answer keeps the invariant.
LEMMA AnswerInv ==
  ASSUME Inv, NEW h \in Handler, Ack(h) \/ Nak(h), UNCHANGED requests, faults' \in 0 .. MaxFaults
  PROVE  Inv'
<1>1. PICK state \in {"gone", "queued"} : Answer(h, state) /\ handler[h].pc # "idle"
  BY DEF Ack, Nak, At
<1>2. PICK t \in Task : Handles(h, t)
  BY <1>1, AtWork
<1>3. handler[h].task = t /\ Exists(t)
  BY <1>1, <1>2, WorkTypes
<1>4. PICK s \in Messages : msg' = [msg EXCEPT ![t] = s]
  <2>1. msg' = [msg EXCEPT ![t] = IF msg[t] = "delivered" THEN state ELSE msg[t]]
    BY <1>1, <1>3 DEF Answer
  <2>2. msg[t] \in Messages /\ state \in Messages
    BY DEF Inv, TypeOK, Messages
  <2>3. QED
    BY <2>1, <2>2
<1>5. RowsStep /\ DataStep
  BY <1>1, <1>3, <1>4, MessageMoves, DataSame DEF Answer
<1>6. QED
  BY <1>1, <1>5, IdleInv DEF Answer

\* Crash keeps the invariant.
LEMMA CrashInv ==
  ASSUME Inv, NEW h \in Handler, Crash(h), UNCHANGED requests, faults' \in 0 .. MaxFaults
  PROVE  Inv'
BY RowsSame, DataSame, IdleInv DEF Crash, queue

\* Every step and fault of a handler keeps the invariant.
LEMMA HandlerInv ==
  ASSUME Inv, NEW h \in Handler, HandlerStep(h) \/ HandlerFault(h)
  PROVE  Inv'
<1>1. UNCHANGED requests /\ faults' \in 0 .. MaxFaults
  <2>1. CASE HandlerStep(h)
    BY <2>1 DEF HandlerStep, Inv, TypeOK
  <2>2. CASE HandlerFault(h)
    <3>1. UNCHANGED requests /\ faults < MaxFaults /\ faults' = faults + 1
      BY <2>2 DEF HandlerFault, Fault
    <3>2. faults \in 0 .. MaxFaults
      BY DEF Inv, TypeOK
    <3>3. QED
      BY <3>1, <3>2, BoundsAssumption
  <2>3. QED
    BY <2>1, <2>2
<1>2. CASE StageStep(h) \/ ReplyLost(h)
  BY <1>1, <1>2, StageInv
<1>3. CASE CallFails(h)
  BY <1>1, <1>3, CallFailsInv
<1>4. CASE Claim(h)
  BY <1>1, <1>4, ClaimInv
<1>5. CASE CheckDuplicate(h)
  BY <1>1, <1>5, CheckDuplicateInv
<1>6. CASE Complete(h)
  BY <1>1, <1>6, CompleteInv
<1>7. CASE ScheduleRetry(h)
  BY <1>1, <1>7, ScheduleRetryInv
<1>8. CASE ResetStatusForRetry(h)
  BY <1>1, <1>8, ResetStatusInv
<1>9. CASE FailDocument(h)
  BY <1>1, <1>9, FailDocumentInv
<1>10. CASE FailTask(h)
  BY <1>1, <1>10, FailTaskInv
<1>11. CASE Ack(h) \/ Nak(h)
  BY <1>1, <1>11, AnswerInv
<1>12. CASE RecoveryFails(h)
  BY <1>1, <1>12, RecoveryFailsInv
<1>13. CASE Crash(h)
  BY <1>1, <1>13, CrashInv
<1>14. QED
  BY <1>2, <1>3, <1>4, <1>5, <1>6, <1>7, <1>8, <1>9, <1>10, <1>11, <1>12, <1>13
     DEF HandlerStep, HandlerFault, RunStep

-----------------------------------------------------------------------------
(* Steps of the queue and of the user *)
LEMMA StillInv ==
  ASSUME Inv, RowsStep, DataStep, UNCHANGED <<handler, faults>>
  PROVE  Inv'
<1>1. /\ handler' \in [Handler -> [pc: Steps, task: Task \cup {NoTask}]]
      /\ faults' \in 0 .. MaxFaults
      /\ \A g \in Handler : handler'[g] = handler[g]
  BY DEF Inv, TypeOK
<1>2. QED
  BY <1>1, Assemble

\* Deliver keeps the invariant.
LEMMA DeliverInv ==
  ASSUME Inv, NEW t \in Task, NEW h \in Handler, Deliver(t, h)
  PROVE  Inv'
<1>1. /\ handler' \in [Handler -> [pc: Steps, task: Task \cup {NoTask}]]
      /\ handler'[h].pc = "claim" /\ handler'[h].task = t
      /\ \A g \in Handler : g # h => handler'[g] = handler[g]
  BY DEF Deliver, Inv, TypeOK, Steps
<1>2. Exists(t)
  BY DEF Deliver, Inv, RowsExist
<1>3. RowsStep /\ DataStep
  <2>1. "delivered" \in Messages
    BY DEF Messages
  <2>2. QED
    BY <1>2, <2>1, MessageMoves, DataSame DEF Deliver
<1>4. Local(h)'
  BY <1>1, <1>2, <1>3 DEF Local, RowsStep, Exists
<1>5. faults' \in 0 .. MaxFaults
  BY DEF Deliver, Inv, TypeOK
<1>6. QED
  BY <1>1, <1>3, <1>4, <1>5, Assemble

\* Redeliver keeps the invariant.
LEMMA RedeliverInv ==
  ASSUME Inv, NEW t \in Task, Redeliver(t)
  PROVE  Inv'
<1>1. Exists(t) /\ "queued" \in Messages
  BY DEF Redeliver, Inv, RowsExist, Messages
<1>2. QED
  BY <1>1, MessageMoves, DataSame, StillInv DEF Redeliver

\* LeaseLapses keeps the invariant.
LEMMA LeaseLapsesInv ==
  ASSUME Inv, NEW t \in Task, LeaseLapses(t)
  PROVE  Inv'
<1>1. /\ task[t] \in Rows /\ task[t].status = "running" /\ Exists(t)
      /\ task' = [task EXCEPT ![t] = [task[t] EXCEPT !.lease = "lapsed"]]
  BY DEF LeaseLapses, Inv, TypeOK, Exists
<1>2. /\ [task[t] EXCEPT !.lease = "lapsed"] \in Rows
      /\ [task[t] EXCEPT !.lease = "lapsed"].status = "running"
  BY <1>1 DEF Rows, Leases
<1>3. RowsStep
  BY <1>1, <1>2, RowMoves DEF LeaseLapses
<1>4. QED
  BY <1>3, DataSame, StillInv DEF LeaseLapses

\* DeleteRequest keeps the invariant.
LEMMA DeleteRequestInv ==
  ASSUME Inv, NEW d \in DeleteTask, DeleteRequest(d)
  PROVE  Inv'
<1>1. d \in Task
  BY DEF Task
<1>2. DataStep
  BY DocMoves DEF DeleteRequest, DocStatuses
<1>3. Leaving'
  BY DEF DeleteRequest, SetStatus, Leaving, Inv, TypeOK
<1>4. RowsStep
  BY <1>1, <1>3, RowAppears DEF DeleteRequest
<1>5. QED
  BY <1>2, <1>4, StillInv DEF DeleteRequest

\* UserRetry keeps the invariant.
LEMMA UserRetryInv ==
  ASSUME Inv, NEW t \in Task, UserRetry(t)
  PROVE  Inv'
<1> DEFINE start == StageStart(TypeOf(t))
<1>1. /\ CanReset(start) /\ SetStatus(start)
      /\ UNCHANGED <<chunks, vectors, object, handler, requests, faults>>
      /\ task' = [task EXCEPT ![t] = BackToPending(task[t])]
      /\ msg' = [msg EXCEPT ![t] = "queued"]
      /\ task[t].status = "failed"
  BY DEF UserRetry, CanRetry
<1>2. start \in DocStatuses \ {"indexed"}
  BY TypesOfTasks, StartNames
<1>3. DataStep
  BY <1>1, <1>2, DocMoves
<1>4. /\ task[t] \in Rows /\ Exists(t)
      /\ BackToPending(task[t]) \in Rows /\ BackToPending(task[t]).status = "pending"
  BY <1>1, RowTypes DEF Inv, TypeOK, Exists
<1>5. RowsStep
  <2>1. \A u \in Task : /\ task'[u] = IF u = t THEN BackToPending(task[t]) ELSE task[u]
                        /\ msg'[u] = IF u = t THEN "queued" ELSE msg[u]
    BY <1>1 DEF Inv, TypeOK
  <2>2. task' \in [Task -> Rows] /\ msg' \in [Task -> Messages]
    BY <1>1, <1>4 DEF Inv, TypeOK, Messages
  <2>3. QED
    BY <1>4, <2>1, <2>2 DEF Inv, RowsExist, RowsStep, Exists
<1>6. QED
  BY <1>1, <1>3, <1>5, StillInv

\* The requests over many documents come only where the instance has them.
LEMMA RacesInv ==
  ASSUME Inv, \/ ClearList \/ ClearVectors \/ ClearChunks \/ ClearFailedByUser
              \/ SubjectVectors \/ SoftDeleteByOwner
  PROVE  Inv'
<1>1. Races
  BY DEF ClearList, ClearVectors, ClearChunks, ClearFailedByUser, SubjectVectors,
         SoftDeleteByOwner, Races, Inv, NoRequests
<1>2. NoRequests'
  BY <1>1 DEF NoRequests, Races
<1>3. UNCHANGED <<task, msg, handler, faults, object>>
  BY DEF ClearList, ClearVectors, ClearChunks, ClearFailedByUser, SubjectVectors,
         SoftDeleteByOwner, data, queue
<1>4. /\ clearing' \in {"idle", "listed", "dropped", "marked", "unmarked"}
      /\ dropping' \in {"idle", "dropped", "done"}
      /\ chunks' \in BOOLEAN /\ vectors' \in BOOLEAN
  BY DEF ClearList, ClearVectors, ClearChunks, ClearFailedByUser, SubjectVectors,
         SoftDeleteByOwner, data, Inv, TypeOK
<1>5. CASE UNCHANGED doc
  BY <1>1, <1>2, <1>3, <1>4, <1>5, RowsSame, StillInv DEF DataStep, Inv, TypeOK, Leaving
<1>6. CASE doc' = [doc EXCEPT !.deleted = TRUE]
  <2>1. doc'.deleted /\ doc'.status = doc.status
        /\ doc' \in [status: DocStatuses, deleted: BOOLEAN]
    BY <1>6 DEF Inv, TypeOK
  <2>2. DataStep
    BY <1>1, <1>2, <1>3, <1>4, <2>1 DEF DataStep, Leaving, Inv, TypeOK
  <2>3. QED
    BY <1>3, <2>2, RowsSame, StillInv
<1>7. doc' = doc \/ doc' = [doc EXCEPT !.deleted = TRUE]
  <2>1. CASE ClearFailedByUser
    <3>1. doc' = [doc EXCEPT !.deleted = doc.deleted \/ doc.status = "failed"]
      BY <2>1 DEF ClearFailedByUser
    <3>2. CASE doc.status = "failed"
      BY <3>1, <3>2
    <3>3. CASE doc.status # "failed"
      BY <3>1, <3>3 DEF Inv, TypeOK
    <3>4. QED
      BY <3>2, <3>3
  <2>2. CASE SoftDeleteByOwner
    BY <2>2 DEF SoftDeleteByOwner
  <2>3. CASE ClearList \/ ClearVectors \/ ClearChunks \/ SubjectVectors
    BY <2>3 DEF ClearList, ClearVectors, ClearChunks, SubjectVectors, data
  <2>4. QED
    BY <2>1, <2>2, <2>3
<1>8. QED
  BY <1>5, <1>6, <1>7

\* The invariant holds when the upload is done.
LEMMA InitInv == Init => Inv
<1> SUFFICES ASSUME Init PROVE Inv
  OBVIOUS
<1>1. TypeOK
  <2>1. NewRow \in Rows /\ NoRow \in Rows
    BY DEF NewRow, NoRow, Rows, TaskStatuses, Leases
  <2>2. 0 \in 0 .. MaxFaults
    BY BoundsAssumption
  <2>3. Idle \in [pc: Steps, task: Task \cup {NoTask}]
    BY DEF Idle, Steps
  <2>4. QED
    BY <2>1, <2>2, <2>3 DEF Init, TypeOK, DocStatuses
<1>2. \A t \in Task : task[t] = IF t = "parse" THEN NewRow ELSE NoRow
  BY DEF Init
<1>3. RowsExist /\ SuccessIsBacked
  BY <1>2, NewRowType, TaskIdAssumption DEF Init, RowsExist, SuccessIsBacked, Exists
<1>4. \A h \in Handler : Local(h)
  BY DEF Init, Local, Idle
<1>5. IndexedIsSearchable /\ NoRequests
  BY DEF Init, IndexedIsSearchable, NoRequests
<1>6. QED
  BY <1>1, <1>3, <1>4, <1>5 DEF Inv

\* Stuttering keeps the invariant.
LEMMA StutterInv == Inv /\ UNCHANGED vars => Inv'
<1> SUFFICES ASSUME Inv, UNCHANGED vars PROVE Inv'
  OBVIOUS
<1>1. UNCHANGED <<task, msg, handler, faults>> /\ UNCHANGED <<data, requests>>
  BY DEF vars, data, requests
<1>2. QED
  BY <1>1, RowsSame, DataSame, StillInv

\* Every step keeps the invariant.
LEMMA StepInv == Inv /\ Next => Inv'
<1> SUFFICES ASSUME Inv, Next PROVE Inv'
  OBVIOUS
<1>1. CASE \E h \in Handler : HandlerStep(h) \/ HandlerFault(h)
  BY <1>1, HandlerInv
<1>2. CASE \E t \in Task, h \in Handler : Deliver(t, h)
  BY <1>2, DeliverInv
<1>3. CASE \E t \in Task : Redeliver(t) \/ LeaseLapses(t)
  BY <1>3, RedeliverInv, LeaseLapsesInv
<1>4. CASE UserStep
  <2>1. CASE \E d \in DeleteTask : DeleteRequest(d)
    BY <2>1, DeleteRequestInv
  <2>2. CASE \E t \in Task : UserRetry(t)
    BY <2>2, UserRetryInv
  <2>3. QED
    BY <1>4, <2>1, <2>2, RacesInv DEF UserStep
<1>5. QED
  BY <1>1, <1>2, <1>3, <1>4 DEF Next

-----------------------------------------------------------------------------
(* Theorems *)

\* The inductive invariant holds in every reachable state of the pipeline, whatever the
\* number of handlers, delete tasks, retries and faults.
THEOREM Invariance == Spec => []Inv
BY InitInv, StepInv, StutterInv, PTL DEF Spec

\* Every variable of the pipeline keeps its type: the statements of DocumentRepo, of
\* IndexTaskRepo and the steps of Manager.run write only values of the vocabulary.
THEOREM TypeCorrectness == Spec => []TypeOK
BY Invariance, InvType, PTL

\* Manager.run never reports a task as done before its result is stored, for any number
\* of handlers, overlapping deliveries, lost replies and requests of the user.
THEOREM SuccessMeansResult == Spec => []SuccessIsBacked
<1>1. Inv => SuccessIsBacked
  BY DEF Inv
<1>2. QED
  BY <1>1, Invariance, PTL

\* Unless failed documents are cleared or the knowledge base is deleted beside it, a
\* document that is "indexed" has its chunk rows and its vectors: embedDocument's last
\* UPDATE comes after both, and only a deletion takes them away.
THEOREM ReadyMeansSearchable == ASSUME ~Races PROVE Spec => []IndexedIsSearchable
<1>1. Inv => IndexedIsSearchable
  BY DEF Inv
<1>2. QED
  BY <1>1, Invariance, PTL

-----------------------------------------------------------------------------
(* Refinement *)

\* All that a step may do to the document row: nothing, one guarded UPDATE of the status
\* that leaves the contents alone, or hiding it.
DocStep ==
  \/ UNCHANGED doc
  \/ \E status \in DocStatuses :
       /\ CanSet(status) \/ CanReset(status)
       /\ SetStatus(status)
       /\ UNCHANGED <<chunks, vectors>>
  \/ /\ doc' = [doc EXCEPT !.deleted = TRUE]
     /\ Races \/ (~doc.deleted /\ doc.status = "deleting")

\* What a call of a stage does to the document.
LEMMA StageDocStep ==
  ASSUME Inv, NEW h \in Handler, StageStep(h) \/ ReplyLost(h)
  PROVE  DocStep
<1>1. CASE UNCHANGED doc
  BY <1>1 DEF DocStep
<1>2. CASE \E after : EnterStage(h, after)
  <2>1. PICK after : EnterStage(h, after)
    BY <1>2
  <2>2. Type(h) \in Stage
    BY <2>1 DEF EnterStage, At, Inv, Local
  <2>3. QED
    BY <2>1, <2>2, StageNames DEF EnterStage, DocStep
<1>3. CASE \E after : CompleteParse(h, after)
  BY <1>3 DEF CompleteParse, DocStep, DocStatuses
<1>4. CASE \E after : FinishStage(h, after)
  <2>1. PICK after : FinishStage(h, after)
    BY <1>4
  <2>2. Type(h) \in Stage
    BY <2>1 DEF FinishStage, At, Inv, Local, Stage
  <2>3. QED
    BY <2>1, <2>2, StageNames DEF FinishStage, DocStep
<1>5. CASE \E after : CompleteDelete(h, after)
  BY <1>5 DEF CompleteDelete, DocStep
<1>6. \/ UNCHANGED doc
      \/ \E after : EnterStage(h, after)
      \/ \E after : CompleteParse(h, after)
      \/ \E after : FinishStage(h, after)
      \/ \E after : CompleteDelete(h, after)
  BY DEF StageStep, ReplyLost, ReadDocument, ReplaceByDocument, ListByDocument, UpsertChunks,
         EnqueueNext, DeleteByDocIDs, HasDocVectors, RemoveObject, Refused, data
<1>7. QED
  BY <1>1, <1>2, <1>3, <1>4, <1>5, <1>6

\* What the error path of run does to the document.
LEMMA RunDocStep ==
  ASSUME Inv, NEW h \in Handler, ResetStatusForRetry(h) \/ FailDocument(h)
  PROVE  DocStep
<1>1. handler[h].pc # "idle" /\ UNCHANGED <<chunks, vectors>>
  BY DEF ResetStatusForRetry, FailDocument, At
<1>2. Type(h) \in TaskTypes
  BY <1>1, AtWork, WorkTypes, TypesOfTasks
<1>3. CASE ResetStatusForRetry(h)
  <2>1. \/ UNCHANGED doc
        \/ CanReset(StageStart(Type(h))) /\ SetStatus(StageStart(Type(h)))
    BY <1>3 DEF ResetStatusForRetry
  <2>2. QED
    BY <1>1, <1>2, <2>1, StartNames DEF DocStep
<1>4. CASE FailDocument(h)
  <2>1. \/ UNCHANGED doc
        \/ CanSet(FailureStatus(Type(h))) /\ SetStatus(FailureStatus(Type(h)))
    BY <1>4 DEF FailDocument
  <2>2. QED
    BY <1>1, <1>2, <2>1, StartNames DEF DocStep
<1>5. QED
  BY <1>3, <1>4

\* What the users' requests do to the document.
LEMMA UserDocStep ==
  ASSUME Inv, UserStep
  PROVE  DocStep
<1>1. CASE \E d \in DeleteTask : DeleteRequest(d)
  BY <1>1 DEF DeleteRequest, DocStep, DocStatuses
<1>2. CASE \E t \in Task : UserRetry(t)
  <2>1. PICK t \in Task : UserRetry(t)
    BY <1>2
  <2>2. StageStart(TypeOf(t)) \in DocStatuses
    BY TypesOfTasks, StartNames
  <2>3. QED
    BY <2>1, <2>2 DEF UserRetry, DocStep
<1>3. CASE \/ ClearList \/ ClearVectors \/ ClearChunks \/ ClearFailedByUser
           \/ SubjectVectors \/ SoftDeleteByOwner
  <2>1. Races
    BY <1>3 DEF ClearList, ClearVectors, ClearChunks, ClearFailedByUser, SubjectVectors,
                SoftDeleteByOwner, Races, Inv, NoRequests
  <2>2. CASE ClearFailedByUser
    <3>1. doc' = [doc EXCEPT !.deleted = doc.deleted \/ doc.status = "failed"]
      BY <2>2 DEF ClearFailedByUser
    <3>2. CASE doc.status = "failed"
      BY <2>1, <3>1, <3>2 DEF DocStep
    <3>3. CASE doc.status # "failed"
      BY <3>1, <3>3 DEF Inv, TypeOK, DocStep
    <3>4. QED
      BY <3>2, <3>3
  <2>3. CASE SoftDeleteByOwner
    BY <2>1, <2>3 DEF SoftDeleteByOwner, DocStep
  <2>4. CASE ClearList \/ ClearVectors \/ ClearChunks \/ SubjectVectors
    BY <2>4 DEF ClearList, ClearVectors, ClearChunks, SubjectVectors, data, DocStep
  <2>5. QED
    BY <1>3, <2>2, <2>3, <2>4
<1>4. QED
  BY <1>1, <1>2, <1>3 DEF UserStep

\* Every step does one of these to the document.
LEMMA NextDocStep ==
  ASSUME Inv, Next
  PROVE  DocStep
<1>1. CASE \E h \in Handler : HandlerStep(h) \/ HandlerFault(h)
  <2>1. PICK h \in Handler : HandlerStep(h) \/ HandlerFault(h)
    BY <1>1
  <2>2. CASE StageStep(h) \/ ReplyLost(h)
    BY <2>2, StageDocStep
  <2>3. CASE ResetStatusForRetry(h) \/ FailDocument(h)
    BY <2>3, RunDocStep
  <2>4. \/ StageStep(h) \/ ReplyLost(h)
        \/ ResetStatusForRetry(h) \/ FailDocument(h)
        \/ UNCHANGED doc
    BY <2>1 DEF HandlerStep, HandlerFault, RunStep, CallFails, Claim, CheckDuplicate, Complete,
                ScheduleRetry, FailTask, Ack, Nak, Answer, RecoveryFails, Crash, data
  <2>5. QED
    BY <2>2, <2>3, <2>4 DEF DocStep
<1>2. CASE \E t \in Task, h \in Handler : Deliver(t, h)
  BY <1>2 DEF Deliver, DocStep, data
<1>3. CASE \E t \in Task : Redeliver(t) \/ LeaseLapses(t)
  BY <1>3 DEF Redeliver, LeaseLapses, DocStep, data
<1>4. CASE UserStep
  BY <1>4, UserDocStep
<1>5. QED
  BY <1>1, <1>2, <1>3, <1>4 DEF Next

\* What the user sees for each status.
LEMMA PhaseTable ==
  ASSUME NEW row \in [status: DocStatuses, deleted: BOOLEAN]
  PROVE  /\ row.deleted => PhaseOf(row) = "gone"
         /\ ~row.deleted =>
              /\ row.status \in InProgress <=> PhaseOf(row) = "processing"
              /\ row.status = "indexed" <=> PhaseOf(row) = "ready"
              /\ row.status = "failed" <=> PhaseOf(row) = "failed"
              /\ row.status = "deleting" <=> PhaseOf(row) = "deleting"
              /\ row.status = "delete_failed" <=> PhaseOf(row) = "deleteFailed"
         /\ PhaseOf(row) \in {"processing", "ready", "failed", "deleting", "deleteFailed", "gone"}
<1>1. CASE row.deleted
  BY <1>1 DEF PhaseOf
<1>2. CASE ~row.deleted /\ row.status \in InProgress
  BY <1>2 DEF PhaseOf, InProgress
<1>3. CASE ~row.deleted /\ row.status \notin InProgress
  BY <1>3 DEF PhaseOf, InProgress, DocStatuses
<1>4. QED
  BY <1>1, <1>2, <1>3

\* A guarded UPDATE of the status is a move of the lifecycle, or is not seen.
LEMMA StatusSimulation ==
  ASSUME Inv, Inv', UNCHANGED <<chunks, vectors>>,
         NEW status \in DocStatuses, SetStatus(status), CanSet(status) \/ CanReset(status)
  PROVE  Lifecycle!Next \/ UNCHANGED <<PhaseOf(doc), chunks /\ vectors>>
<1>1. /\ ~doc.deleted /\ ~doc'.deleted /\ doc'.status = status
      /\ doc \in [status: DocStatuses, deleted: BOOLEAN]
      /\ doc' \in [status: DocStatuses, deleted: BOOLEAN]
  BY DEF Inv, TypeOK, SetStatus, CanSet, CanReset
<1>2. CASE status = "indexed"
  <2>1. PhaseOf(doc) = "processing" /\ PhaseOf(doc)' = "ready"
    BY <1>1, <1>2, PhaseTable, PreviousStatuses
       DEF CanSet, CanReset, DocumentRetryPreviousStatuses, InProgress
  <2>2. Races \/ (chunks' /\ vectors')
    BY <1>1, <1>2 DEF Inv, IndexedIsSearchable, Races
  <2>3. QED
    BY <2>1, <2>2 DEF Lifecycle!Next, Lifecycle!Index, Lifecycle!Move, Inv, TypeOK
<1>3. CASE status = "failed"
  <2>1. PhaseOf(doc) = "processing" /\ PhaseOf(doc)' = "failed"
    BY <1>1, <1>3, PhaseTable, PreviousStatuses
       DEF CanSet, CanReset, DocumentRetryPreviousStatuses
  <2>2. QED
    BY <2>1 DEF Lifecycle!Next, Lifecycle!Fail, Lifecycle!Move
<1>4. CASE status = "deleting"
  <2>1. PhaseOf(doc) \in {"processing", "ready", "failed", "deleteFailed"}
        /\ PhaseOf(doc)' = "deleting"
    BY <1>1, <1>4, PhaseTable, PreviousStatuses, RetryPreviousStatuses DEF CanSet, CanReset
  <2>2. QED
    BY <2>1 DEF Lifecycle!Next, Lifecycle!RequestDelete, Lifecycle!Move, Lifecycle!Phases
<1>5. CASE status = "delete_failed"
  <2>1. PhaseOf(doc) = "deleting" /\ PhaseOf(doc)' = "deleteFailed"
    BY <1>1, <1>5, PhaseTable, PreviousStatuses
       DEF CanSet, CanReset, DocumentRetryPreviousStatuses
  <2>2. QED
    BY <2>1 DEF Lifecycle!Next, Lifecycle!DeletionFails, Lifecycle!Move
<1>6. CASE status \in InProgress
  <2>1. doc.status \in InProgress \cup {"failed"}
    BY <1>1, <1>6, PreviousStatuses, RetryPreviousStatuses
       DEF CanSet, CanReset, InProgress, DocumentPreviousStatuses, DocumentRetryPreviousStatuses
  <2>2. PhaseOf(doc)' = "processing" /\ PhaseOf(doc) \in {"processing", "failed"}
    BY <1>1, <1>6, <2>1, PhaseTable
  <2>3. CASE PhaseOf(doc) = "processing"
    BY <2>2, <2>3
  <2>4. CASE PhaseOf(doc) = "failed"
    BY <2>2, <2>4 DEF Lifecycle!Next, Lifecycle!Retry, Lifecycle!Move
  <2>5. QED
    BY <2>2, <2>3, <2>4
<1>7. QED
  BY <1>2, <1>3, <1>4, <1>5, <1>6 DEF DocStatuses, InProgress

\* Each of them is a step of DocLifecycle or a stutter.
LEMMA StepSimulation ==
  ASSUME Inv, Inv', DocStep
  PROVE  Lifecycle!Next \/ UNCHANGED <<PhaseOf(doc), chunks /\ vectors>>
<1>1. /\ doc \in [status: DocStatuses, deleted: BOOLEAN]
      /\ chunks' \in BOOLEAN /\ vectors' \in BOOLEAN
  BY DEF Inv, TypeOK
<1>2. CASE UNCHANGED doc
  <2>1. UNCHANGED PhaseOf(doc)
    BY <1>2 DEF PhaseOf
  <2>2. CASE Races \/ PhaseOf(doc) # "ready"
    BY <1>1, <2>1, <2>2 DEF Lifecycle!Next, Lifecycle!Store
  <2>3. CASE ~Races /\ PhaseOf(doc) = "ready"
    <3>1. ~doc.deleted /\ doc.status = "indexed"
      BY <1>1, <2>3, PhaseTable
    <3>2. chunks /\ vectors /\ chunks' /\ vectors'
      BY <1>2, <2>3, <3>1 DEF Inv, IndexedIsSearchable, Races
    <3>3. QED
      BY <2>1, <3>2
  <2>4. QED
    BY <2>2, <2>3
<1>3. CASE \E status \in DocStatuses :
             /\ CanSet(status) \/ CanReset(status)
             /\ SetStatus(status)
             /\ UNCHANGED <<chunks, vectors>>
  BY <1>3, StatusSimulation
<1>4. CASE /\ doc' = [doc EXCEPT !.deleted = TRUE]
           /\ Races \/ (~doc.deleted /\ doc.status = "deleting")
  <2>1. PhaseOf(doc)' = "gone"
    BY <1>1, <1>4 DEF PhaseOf
  <2>2. CASE Races
    <3>1. PhaseOf(doc) \in Lifecycle!Phases
      BY <1>1, PhaseTable DEF Lifecycle!Phases
    <3>2. QED
      BY <1>1, <2>1, <2>2, <3>1 DEF Lifecycle!Next, Lifecycle!Drop, Lifecycle!Move
  <2>3. CASE ~doc.deleted /\ doc.status = "deleting"
    <3>1. PhaseOf(doc) = "deleting"
      BY <1>1, <2>3, PhaseTable
    <3>2. QED
      BY <1>1, <2>1, <3>1 DEF Lifecycle!Next, Lifecycle!Remove, Lifecycle!Move
  <2>4. QED
    BY <1>4, <2>2, <2>3
<1>5. QED
  BY <1>2, <1>3, <1>4 DEF DocStep

\* The pipeline implements the lifecycle of DocLifecycle: every statement of a handler
\* or of a request either moves the document as the lifecycle allows or is not seen, and
\* (outside the races) a ready document keeps its chunks and vectors.
THEOREM Refinement == Spec => Implements
<1>1. Init => Lifecycle!Init
  BY DEF Init, Lifecycle!Init, PhaseOf, InProgress
<1>2. Inv /\ Inv' /\ [Next]_vars => [Lifecycle!Next]_<<PhaseOf(doc), chunks /\ vectors>>
  <2>1. SUFFICES ASSUME Inv, Inv', [Next]_vars
                 PROVE  Lifecycle!Next \/ UNCHANGED <<PhaseOf(doc), chunks /\ vectors>>
    OBVIOUS
  <2>2. CASE Next
    BY <2>1, <2>2, NextDocStep, StepSimulation
  <2>3. CASE UNCHANGED vars
    BY <2>3 DEF vars, PhaseOf
  <2>4. QED
    BY <2>1, <2>2, <2>3
<1>3. QED
  BY <1>1, <1>2, Invariance, PTL DEF Spec, Implements, Lifecycle!Spec
=============================================================================
