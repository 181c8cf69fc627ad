----------------------------- MODULE TaskQueue -----------------------------
(***************************************************************************)
(* How a document task travels: the index_tasks row and its outbox row are  *)
(* written in one transaction, a publisher moves the outbox row into the    *)
(* JetStream work queue, the queue delivers the message to a handler, the   *)
(* handler claims the row under a lease, runs the stage, settles the row    *)
(* and answers the message (api/internal/worker/manager.go, with            *)
(* repository/postgres/outboxrepo.go and service/taskqueue/taskqueue.go).   *)
(* What a stage does to the document is DocPipeline's subject: here a stage *)
(* ends well, with a transient error or with a permanent one.               *)
(*                                                                          *)
(* Clocks are not modelled; what they order is:                             *)
(*   - a lease and a handler's deadline are the same TaskTimeout and the    *)
(*     deadline starts first, so a lease lapses only when no handler of the *)
(*     task is still inside its stage;                                      *)
(*   - a publisher holds an outbox row for at most 10 s, the row's lock     *)
(*     lapses after 1 min, so it lapses only once the row is let go.        *)
(* Three orderings the configuration suggests and the code does not         *)
(* enforce are constants, so that a run can say which property needs which. *)
(***************************************************************************)
EXTENDS TaskRow, FiniteSets

CONSTANTS
  Task,        \* ids of index_tasks rows
  Msg,         \* slots of the DOCUMENT_TASKS stream (bounds stored messages)
  Handler,     \* subscription callbacks that may run at once
  Publisher,   \* publishOutbox loops
  NoTask, NoMsg,
  MaxRetries,  \* maxAutomaticRetries
  MaxDeliver,  \* deliveries the consumer allows one message
  MaxUserRetries, \* bound: how often users retry a task
  MaxFaults,   \* bound: crashes, lost replies, failed calls, refused document
               \* updates
  TimelyAck,   \* AckWait ends only after the handler of the message has ended
  PatientUser, \* users retry after the deduplication window and the old message
  WideWindow   \* the deduplication window outlasts an outbox row's republishing

ASSUME LimitsAssumption ==
  /\ MaxRetries \in Nat
  /\ MaxDeliver \in Nat
  /\ MaxUserRetries \in Nat
  /\ MaxFaults \in Nat
ASSUME TimingAssumption ==
  /\ TimelyAck \in BOOLEAN
  /\ PatientUser \in BOOLEAN
  /\ WideWindow \in BOOLEAN
ASSUME NullAssumption == NoTask \notin Task /\ NoMsg \notin Msg

VARIABLES
  task,        \* Task -> row of index_tasks
  outbox,      \* Task -> state of its task_outbox row
  window,      \* Task -> is its id inside the stream's deduplication window
  msg,         \* Msg -> message of the stream
  pub,         \* Publisher -> batch in hand
  handler,     \* Handler -> program counter of run and the message it answers
  dead,        \* tasks with a record in DOCUMENT_TASKS_DLQ
  userRetries, \* Task -> retries asked for by users (bounded)
  faults       \* faults so far (bounded)

vars == <<task, outbox, window, msg, pub, handler, dead, userRetries, faults>>
storeVars == <<outbox, window, pub, userRetries>>

Steps == {"idle", "claim", "check", "work", "complete", "retry", "reset",
          "failDoc", "failTask", "deadLetter", "ack", "nak", "defer"}

TypeOK ==
  /\ task \in [Task -> Rows]
  /\ outbox \in [Task -> {"none", "ready", "locked", "published"}]
  /\ window \in [Task -> BOOLEAN]
  /\ msg \in [Msg -> [task: Task \cup {NoTask},
                      state: {"free", "queued", "delivered", "deferred", "gone"},
                      deliveries: 0 .. MaxDeliver]]
  /\ pub \in [Publisher -> [batch: SUBSET Task, current: Task \cup {NoTask},
                            outcome: {"none", "acked", "error"}]]
  /\ handler \in [Handler -> [pc: Steps, msg: Msg \cup {NoMsg}]]
  /\ dead \subseteq Task
  /\ userRetries \in [Task -> 0 .. MaxUserRetries]
  /\ faults \in 0 .. MaxFaults

IdlePub     == [batch |-> {}, current |-> NoTask, outcome |-> "none"]
IdleHandler == [pc |-> "idle", msg |-> NoMsg]

Init ==
  /\ task = [t \in Task |-> NoRow]
  /\ outbox = [t \in Task |-> "none"]
  /\ window = [t \in Task |-> FALSE]
  /\ msg = [m \in Msg |-> [task |-> NoTask, state |-> "free", deliveries |-> 0]]
  /\ pub = [p \in Publisher |-> IdlePub]
  /\ handler = [h \in Handler |-> IdleHandler]
  /\ dead = {}
  /\ userRetries = [t \in Task |-> 0]
  /\ faults = 0

-----------------------------------------------------------------------------
(* Vocabulary *)

TaskOf(h) == IF handler[h].msg = NoMsg THEN NoTask ELSE msg[handler[h].msg].task

Executing(h, t) == handler[h].pc = "work" /\ TaskOf(h) = t

InHand(t) == \E p \in Publisher : t \in pub[p].batch \/ pub[p].current = t

Handled(m) == \E h \in Handler : handler[h].msg = m

InStream(m, t) == msg[m].task = t /\ msg[m].state \in {"queued", "delivered", "deferred"}

\* Beyond MaxDeliver the server keeps a message of a work queue and never
\* delivers it again.
Exhausted(m) == msg[m].state = "queued" /\ msg[m].deliveries = MaxDeliver

Fault == faults < MaxFaults /\ faults' = faults + 1

NoFault == UNCHANGED faults

-----------------------------------------------------------------------------
(* The API side: a task and its outbox row appear in one transaction *)

Create(t) ==
  /\ task[t] = NoRow
  /\ task' = [task EXCEPT ![t] = NewRow]
  /\ outbox' = [outbox EXCEPT ![t] = "ready"]
  /\ UNCHANGED <<window, msg, pub, handler, dead, userRetries, faults>>

Settled(t) ==
  /\ ~window[t]
  /\ ~InHand(t)
  /\ \A m \in Msg : ~InStream(m, t)

UserRetry(t) ==
  /\ CanRetry(task[t])
  /\ userRetries[t] < MaxUserRetries
  /\ PatientUser => Settled(t)
  /\ task' = [task EXCEPT ![t] = BackToPending(@)]
  /\ outbox' = [outbox EXCEPT ![t] = "ready"]
  /\ userRetries' = [userRetries EXCEPT ![t] = @ + 1]
  /\ UNCHANGED <<window, msg, pub, handler, dead, faults>>

-----------------------------------------------------------------------------
(* The outbox publisher *)

ClaimBatch(p) ==
  LET due == {t \in Task : outbox[t] = "ready"}
  IN  /\ pub[p] = IdlePub
      /\ due # {}
      /\ outbox' = [t \in Task |-> IF t \in due THEN "locked" ELSE outbox[t]]
      /\ pub' = [pub EXCEPT ![p].batch = due]
      /\ UNCHANGED <<task, window, msg, handler, dead, userRetries, faults>>

\* Faulty: published without the task's id, every publication is stored.
StoreEveryTime(t) ==
  \E m \in Msg :
    /\ msg[m].state = "free"
    /\ msg' = [msg EXCEPT ![m] = [task |-> t, state |-> "queued", deliveries |-> 0]]
    /\ window' = [window EXCEPT ![t] = TRUE]

\* The server stores a message unless its id (the task's id) is in the window.
Store(t) ==
  IF window[t]
  THEN UNCHANGED <<msg, window>>
  ELSE \E m \in Msg :
         /\ msg[m].state = "free"
         /\ msg' = [msg EXCEPT ![m] = [task |-> t, state |-> "queued", deliveries |-> 0]]
         /\ window' = [window EXCEPT ![t] = TRUE]

InHandAs(p, t, outcome) ==
  pub' = [pub EXCEPT ![p] = [batch |-> pub[p].batch \ {t}, current |-> t, outcome |-> outcome]]

Publish(p, t) ==
  /\ t \in pub[p].batch
  /\ pub[p].current = NoTask
  /\ Store(t)
  /\ InHandAs(p, t, "acked")
  /\ UNCHANGED <<task, outbox, handler, dead, userRetries, faults>>

\* An error tells the publisher nothing of whether the server stored the message.
PublishFails(p, t) ==
  /\ t \in pub[p].batch
  /\ pub[p].current = NoTask
  /\ Store(t) \/ UNCHANGED <<msg, window>>
  /\ InHandAs(p, t, "error")
  /\ Fault
  /\ UNCHANGED <<task, outbox, handler, dead, userRetries>>

LetGo(p) == pub' = [pub EXCEPT ![p].current = NoTask, ![p].outcome = "none"]

MarkPublished(p) ==
  /\ pub[p].outcome = "acked"
  /\ outbox' = [outbox EXCEPT ![pub[p].current] = "published"]
  /\ LetGo(p)
  /\ UNCHANGED <<task, window, msg, handler, dead, userRetries, faults>>

\* Faulty: a publication that failed counts as done.
MarkFailedAsPublished(p) ==
  /\ pub[p].outcome = "error"
  /\ outbox' = [outbox EXCEPT ![pub[p].current] = "published"]
  /\ LetGo(p)
  /\ UNCHANGED <<task, window, msg, handler, dead, userRetries, faults>>

\* MarkFailed clears the lock and leaves published_at alone.
MarkFailed(p) ==
  /\ pub[p].outcome = "error"
  /\ outbox' = [outbox EXCEPT ![pub[p].current] = IF @ = "published" THEN @ ELSE "ready"]
  /\ LetGo(p)
  /\ UNCHANGED <<task, window, msg, handler, dead, userRetries, faults>>

\* A crash, the batch's 10 s running out, or a mark whose error is ignored: the
\* rows in hand stay locked.
PublisherStops(p) ==
  /\ pub[p] # IdlePub
  /\ pub' = [pub EXCEPT ![p] = IdlePub]
  /\ Fault
  /\ UNCHANGED <<task, outbox, window, msg, handler, dead, userRetries>>

\* Faulty: ClaimBatch takes no row whose lock was left behind.
LockLapsesNever(t) == FALSE /\ outbox[t] = "locked" /\ UNCHANGED vars

LockLapses(t) ==
  /\ outbox[t] = "locked"
  /\ ~InHand(t)
  /\ outbox' = [outbox EXCEPT ![t] = "ready"]
  /\ UNCHANGED <<task, window, msg, pub, handler, dead, userRetries, faults>>

WindowCloses(t) ==
  /\ window[t]
  /\ WideWindow => outbox[t] = "published"
  /\ window' = [window EXCEPT ![t] = FALSE]
  /\ UNCHANGED <<task, outbox, msg, pub, handler, dead, userRetries, faults>>

-----------------------------------------------------------------------------
(* The stream's consumer *)

Deliver(m, h) ==
  /\ msg[m].state = "queued"
  /\ msg[m].deliveries < MaxDeliver
  /\ handler[h].pc = "idle"
  /\ msg' = [msg EXCEPT ![m].state = "delivered", ![m].deliveries = @ + 1]
  /\ handler' = [handler EXCEPT ![h] = [pc |-> "claim", msg |-> m]]
  /\ UNCHANGED <<task, outbox, window, pub, dead, userRetries, faults>>

\* AckWait is TaskTimeout + 30 s: with a handler that ends inside its deadline and
\* its recovery time it ends after the handler and after the lease.  A message that
\* waited in a subscription's buffer, or a slow handler, breaks that.
AckWaitEnds(m) ==
  /\ msg[m].state = "delivered"
  /\ TimelyAck => ~Handled(m) /\ task[msg[m].task].lease # "live"
  /\ msg' = [msg EXCEPT ![m].state = "queued"]
  /\ UNCHANGED <<task, outbox, window, pub, handler, dead, userRetries, faults>>

\* The delay of a message put off is TaskTimeout: the lease it met has lapsed by then.
DelayEnds(m) ==
  /\ msg[m].state = "deferred"
  /\ TimelyAck => task[msg[m].task].lease # "live"
  /\ msg' = [msg EXCEPT ![m].state = "queued"]
  /\ UNCHANGED <<task, outbox, window, pub, handler, dead, userRetries, faults>>

LeaseLapses(t) ==
  /\ task[t].status = "running"
  /\ task[t].lease = "live"
  /\ \A h \in Handler : ~Executing(h, t)
  /\ task' = [task EXCEPT ![t].lease = "lapsed"]
  /\ UNCHANGED <<outbox, window, msg, pub, handler, dead, userRetries, faults>>

-----------------------------------------------------------------------------
(* Manager.run, one statement or call at a time *)

At(h, step) == handler[h].pc = step
Goto(h, step) == handler' = [handler EXCEPT ![h].pc = step]
KeepRows == UNCHANGED <<task, msg, dead>>

Claim(h) ==
  LET t == TaskOf(h)
  IN  /\ At(h, "claim")
      /\ IF Claimable(task[t])
         THEN task' = [task EXCEPT ![t] = Claimed(@)] /\ Goto(h, "work")
         ELSE UNCHANGED task /\ Goto(h, "check")
      /\ UNCHANGED <<msg, dead, storeVars, faults>>

\* The claim's error may follow the claim's effect.
ClaimErrs(h) ==
  LET t == TaskOf(h)
  IN  /\ At(h, "claim")
      /\ \/ UNCHANGED task
         \/ Claimable(task[t]) /\ task' = [task EXCEPT ![t] = Claimed(@)]
      /\ Goto(h, "nak")
      /\ Fault
      /\ UNCHANGED <<msg, dead, storeVars>>

\* Faulty: whatever could not be claimed counts as a duplicate.
CheckDuplicateAcksAll(h) ==
  /\ At(h, "check")
  /\ Goto(h, "ack")
  /\ NoFault /\ KeepRows /\ UNCHANGED storeVars

CheckDuplicate(h) ==
  /\ At(h, "check")
  /\ Goto(h, IF Terminal(task[TaskOf(h)]) THEN "ack" ELSE "defer")
  /\ NoFault /\ KeepRows /\ UNCHANGED storeVars

StageEnds(h) ==
  /\ At(h, "work")
  /\ \E next \in {"complete", "retry", "failDoc"} : Goto(h, next)
  /\ NoFault /\ KeepRows /\ UNCHANGED storeVars

\* The row that settles: changed, or not when the statement's guard refuses it.
Settle(h, next, onDone, onConflict) ==
  LET t == TaskOf(h)
  IN  IF CanMove(task[t], next)
      THEN task' = [task EXCEPT ![t] = Moved(@, next)] /\ Goto(h, onDone)
      ELSE UNCHANGED task /\ Goto(h, onConflict)

Complete(h) ==
  /\ At(h, "complete")
  /\ Settle(h, "success", "ack", "nak")
  /\ UNCHANGED <<msg, dead, storeVars, faults>>

ScheduleRetry(h) ==
  LET t == TaskOf(h)
  IN  /\ At(h, "retry")
      /\ IF CanScheduleRetry(task[t], MaxRetries)
         THEN task' = [task EXCEPT ![t] = BackToPending(@)] /\ Goto(h, "reset")
         ELSE UNCHANGED task /\ Goto(h, "failDoc")
      /\ UNCHANGED <<msg, dead, storeVars, faults>>

\* The row is pending again and the reply is lost: the error counts as a refusal.
RetryReplyLost(h) ==
  LET t == TaskOf(h)
  IN  /\ At(h, "retry")
      /\ CanScheduleRetry(task[t], MaxRetries)
      /\ task' = [task EXCEPT ![t] = BackToPending(@)]
      /\ Goto(h, "failDoc")
      /\ Fault
      /\ UNCHANGED <<msg, dead, storeVars>>

\* The document goes back to the stage's start; when it will not, the task is set
\* to failed (the answer ignored) and the failure is persisted after all.
ResetDocument(h) ==
  LET t == TaskOf(h)
  IN  /\ At(h, "reset")
      /\ \/ UNCHANGED task /\ Goto(h, "nak") /\ NoFault
         \/ Settle(h, "failed", "failDoc", "failDoc") /\ Fault
      /\ UNCHANGED <<msg, dead, storeVars>>

\* persistFailure: the document first, a conflict there leaves the task alone.
FailDocument(h) ==
  /\ At(h, "failDoc")
  /\ KeepRows /\ UNCHANGED storeVars
  /\ \/ Goto(h, "failTask") /\ NoFault
     \/ Goto(h, "nak") /\ Fault

FailTask(h) ==
  /\ At(h, "failTask")
  /\ Settle(h, "failed", "deadLetter", "nak")
  /\ UNCHANGED <<msg, dead, storeVars, faults>>

DeadLetter(h) ==
  /\ At(h, "deadLetter")
  /\ dead' = dead \cup {TaskOf(h)}
  /\ Goto(h, "ack")
  /\ UNCHANGED <<task, msg, storeVars, faults>>

\* A call of the recovery or completion part fails, with or without its effect.
RecoveryErrs(h) ==
  LET t == TaskOf(h)
      next == IF At(h, "complete") THEN "success" ELSE "failed"
  IN  /\ handler[h].pc \in {"complete", "failTask", "deadLetter", "check"}
      /\ \/ UNCHANGED <<task, dead>>
         \/ /\ handler[h].pc \in {"complete", "failTask"}
            /\ CanMove(task[t], next)
            /\ task' = [task EXCEPT ![t] = Moved(@, next)]
            /\ UNCHANGED dead
         \/ At(h, "deadLetter") /\ dead' = dead \cup {t} /\ UNCHANGED task
      /\ Goto(h, IF At(h, "check") THEN "defer" ELSE "nak")
      /\ Fault
      /\ UNCHANGED <<msg, storeVars>>

\* Acknowledging deletes the message of a work queue, whichever delivery is answered.
Ack(h) ==
  /\ At(h, "ack")
  /\ msg' = [msg EXCEPT ![handler[h].msg].state = "gone"]
  /\ handler' = [handler EXCEPT ![h] = IdleHandler]
  /\ UNCHANGED <<task, dead, storeVars, faults>>

\* NakWithDelay: 2 s, or TaskTimeout for a message whose task someone else runs.
Nak(h) ==
  /\ handler[h].pc \in {"nak", "defer"}
  /\ LET m == handler[h].msg
         next == IF At(h, "nak") THEN "queued" ELSE "deferred"
     IN  msg' = IF msg[m].state = "delivered" THEN [msg EXCEPT ![m].state = next] ELSE msg
  /\ handler' = [handler EXCEPT ![h] = IdleHandler]
  /\ UNCHANGED <<task, dead, storeVars, faults>>

\* The process dies, or its answer to the server is lost.
Crash(h) ==
  /\ ~At(h, "idle")
  /\ handler' = [handler EXCEPT ![h] = IdleHandler]
  /\ Fault
  /\ KeepRows /\ UNCHANGED storeVars

-----------------------------------------------------------------------------
HandlerStep(h) ==
  \/ Claim(h) \/ CheckDuplicate(h) \/ StageEnds(h) \/ Complete(h)
  \/ ScheduleRetry(h) \/ ResetDocument(h) \/ FailDocument(h) \/ FailTask(h)
  \/ DeadLetter(h) \/ Ack(h) \/ Nak(h)

HandlerFault(h) == ClaimErrs(h) \/ RetryReplyLost(h) \/ RecoveryErrs(h) \/ Crash(h)

PublisherStep(p) ==
  \/ ClaimBatch(p) \/ MarkPublished(p) \/ MarkFailed(p)
  \/ \E t \in Task : Publish(p, t)

PublisherFault(p) == PublisherStops(p) \/ \E t \in Task : PublishFails(p, t)

Expiry(t) == LockLapses(t) \/ LeaseLapses(t)

Next ==
  \/ \E t \in Task : Create(t) \/ UserRetry(t) \/ WindowCloses(t) \/ Expiry(t)
  \/ \E p \in Publisher : PublisherStep(p) \/ PublisherFault(p)
  \/ \E m \in Msg : AckWaitEnds(m) \/ DelayEnds(m) \/ \E h \in Handler : Deliver(m, h)
  \/ \E h \in Handler : HandlerStep(h) \/ HandlerFault(h)

Spec == Init /\ [][Next]_vars

\* Ticker, subscriptions, timers: what the running process and the servers do by
\* themselves.  Users, faults and the window owe nothing.
Fairness ==
  /\ \A t \in Task : WF_vars(LockLapses(t)) /\ WF_vars(LeaseLapses(t))
  /\ \A p \in Publisher : WF_vars(PublisherStep(p))
  /\ \A h \in Handler : WF_vars(HandlerStep(h))
  /\ \A m \in Msg : WF_vars(AckWaitEnds(m)) /\ WF_vars(DelayEnds(m))
                    /\ WF_vars(\E h \in Handler : Deliver(m, h))

FairSpec == Spec /\ Fairness

-----------------------------------------------------------------------------
(* Properties *)

\* No two handlers are ever inside the stage of one task: the claim's lease and the
\* queue's redelivery together give mutual exclusion (Manager.run, Claim).
Exclusive ==
  \A t \in Task : \A g, h \in Handler : Executing(g, t) /\ Executing(h, t) => g = h

\* A task that is not finished still has something that will run it: an outbox row to
\* publish or a message in the stream.  The outbox transaction, the lock that lapses,
\* the deduplicated republish and acknowledging last are all needed for it.
NotLost ==
  \A t \in Task :
    Unfinished(task[t]) => \/ outbox[t] \in {"ready", "locked"}
                           \/ \E m \in Msg : InStream(m, t)

\* The message of the task is used up and nothing else will run the task.
Stranded(t) ==
  /\ Unfinished(task[t])
  /\ outbox[t] = "published"
  /\ \A m \in Msg : InStream(m, t) => Exhausted(m) /\ ~Handled(m)

\* A task nobody retried by hand is stranded only when its deliveries were used up one
\* by one: an automatic retry uses one; a crash, a lost reply or a failed call uses at
\* most two, since a message given back while the row's lease runs is delivered after
\* 2 s, finds the lease and is put off in its turn (run's claim, NakWithDelay and
\* UpdateStatus).  With Start's MaxDeliver of five and three automatic retries: no
\* fault, never; one fault, only a task that used all its automatic retries; two, only
\* one that used one of them.
StrandingIsPaidFor ==
  \A t \in Task :
    Stranded(t) /\ userRetries[t] = 0 => MaxDeliver <= task[t].retries + 2 * faults

\* A message leaves the stream only when its task is settled: run acknowledges after
\* the terminal status is stored and never before.
AckOnlyWhenSettled ==
  [][\A m \in Msg : msg[m].state # "gone" /\ msg'[m].state = "gone"
                      => Terminal(task[msg[m].task])]_vars

\* A finished task stays finished: no late statement of an older handler, no retry and
\* no redelivery takes success back.
SuccessIsFinal ==
  [][\A t \in Task : task[t].status = "success" => task'[t].status = "success"]_vars

\* Every task settles, or its deliveries run out (then it is stranded and stays so).
EverySettles ==
  \A t \in Task : task[t].status = "pending" ~> (Terminal(task[t]) \/ Stranded(t))

=============================================================================
