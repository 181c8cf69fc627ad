-------------------------- MODULE TaskQueue_proofs --------------------------
(***************************************************************************)
(* Proofs about TaskQueue, for every set of tasks, messages, handlers and   *)
(* publishers and every bound: that no unfinished task is lost, that one    *)
(* handler at a time is inside a task's stage, that a message leaves the    *)
(* stream only when its task is settled, that automatic retries and faults  *)
(* account for every delivery of a stranded task.  They assume the three    *)
(* orderings the module names TimelyAck, PatientUser and WideWindow;        *)
(* without any one of them TLC refutes at least one of the first three.     *)
(***************************************************************************)
EXTENDS TaskQueue, TLAPS

\* The statements of IndexTaskRepo turn a row into a row, and never into "none".
LEMMA RowTypes ==
  ASSUME NEW row \in Rows
  PROVE  /\ Claimed(row) \in Rows /\ Claimed(row).status = "running"
         /\ BackToPending(row) \in Rows /\ BackToPending(row).status = "pending"
         /\ \A next \in TaskStatuses : Moved(row, next) \in Rows /\ Moved(row, next).status = next
<1>1. row.retries + 1 \in Nat
  BY DEF Rows
<1>2. QED
  BY <1>1 DEF Rows, Claimed, BackToPending, Moved, TaskStatuses, Leases

-----------------------------------------------------------------------------
(* The inductive invariant *)

Queued(t) == \E m \in Msg : InStream(m, t)
Holds(p, t) == t \in pub[p].batch \/ pub[p].current = t
Due(t) == outbox[t] \in {"ready", "locked"}

\* A handler away from "idle" has a message that nobody else has.
Addressed ==
  /\ \A m \in Msg : msg[m].state # "free" => msg[m].task \in Task
  /\ \A h \in Handler :
       /\ handler[h].pc = "idle" <=> handler[h].msg = NoMsg
       /\ handler[h].pc # "idle" => msg[handler[h].msg].state = "delivered"
  /\ \A g, h \in Handler :
       handler[g].msg = handler[h].msg /\ handler[g].msg # NoMsg => g = h

\* A row and its outbox row exist together, before anything is stored in the stream.
Paired ==
  \A t \in Task : /\ task[t].status = "none" <=> outbox[t] = "none"
                  /\ outbox[t] = "none" => ~window[t] /\ ~Queued(t)

\* One publisher at a time has a locked row in hand.
Held ==
  /\ \A p \in Publisher, t \in Task : Holds(p, t) => outbox[t] = "locked"
  /\ \A p, q \in Publisher, t \in Task : Holds(p, t) /\ Holds(q, t) => p = q
  /\ \A p \in Publisher : /\ pub[p].outcome = "none" <=> pub[p].current = NoTask
                          /\ pub[p].current \notin pub[p].batch

\* The stream has at most one message of a task, and while the outbox may publish the
\* task again the window still remembers the message.
Single ==
  /\ \A m, n \in Msg, t \in Task : InStream(m, t) /\ InStream(n, t) => m = n
  /\ \A t \in Task : Queued(t) /\ Due(t) => window[t]

\* A task that is not finished has a message if the window remembers one or the server
\* acknowledged one; it has its outbox row otherwise.
Backed ==
  \A t \in Task : Unfinished(task[t]) =>
    /\ window[t] => Queued(t)
    /\ \A p \in Publisher : pub[p].outcome = "acked" /\ pub[p].current = t => Queued(t)
    /\ Due(t) \/ Queued(t)

\* About to acknowledge means settled.
SettledFirst ==
  \A h \in Handler :
    handler[h].pc \in {"ack", "deadLetter"} => Terminal(task[TaskOf(h)])

Inv == TypeOK /\ Addressed /\ Paired /\ Held /\ Single /\ Backed /\ SettledFirst

-----------------------------------------------------------------------------
(* Rows and handlers *)

\* What a handler away from "idle" has in hand.
LEMMA Owner ==
  ASSUME TypeOK, Addressed, NEW h \in Handler, handler[h].pc # "idle"
  PROVE  /\ handler[h].msg \in Msg
         /\ msg[handler[h].msg].state = "delivered"
         /\ TaskOf(h) = msg[handler[h].msg].task
         /\ TaskOf(h) \in Task
         /\ task[TaskOf(h)] \in Rows
         /\ InStream(handler[h].msg, TaskOf(h))
BY NullAssumption DEF TypeOK, Addressed, TaskOf, InStream

\* What run does between the delivery and the answer: the handler keeps its message and
\* changes at most its own task's row, which exists before and after.
Keeps(h) ==
  /\ handler[h].pc # "idle"
  /\ UNCHANGED <<msg, outbox, window, pub, userRetries>>
  /\ dead' \subseteq Task
  /\ faults' \in 0 .. MaxFaults
  /\ \E step \in Steps \ {"idle"}, row \in Rows :
       /\ handler' = [handler EXCEPT ![h].pc = step]
       /\ task' = [task EXCEPT ![TaskOf(h)] = row]
       /\ row.status = "none" <=> task[TaskOf(h)].status = "none"
       /\ step \in {"ack", "deadLetter"} => Terminal(row)

\* UpdateStatus moves the row, or finds a conflict and leaves it.
LEMMA SettleCases ==
  ASSUME NEW h \in Handler, NEW next \in TaskStatuses, NEW done, NEW conflict,
         Settle(h, next, done, conflict)
  PROVE  \/ /\ CanMove(task[TaskOf(h)], next)
            /\ task' = [task EXCEPT ![TaskOf(h)] = Moved(task[TaskOf(h)], next)]
            /\ handler' = [handler EXCEPT ![h].pc = done]
         \/ /\ task' = task
            /\ handler' = [handler EXCEPT ![h].pc = conflict]
<1>1. CASE CanMove(task[TaskOf(h)], next)
  BY <1>1 DEF Settle, Goto
<1>2. CASE ~CanMove(task[TaskOf(h)], next)
  BY <1>2 DEF Settle, Goto
<1>3. QED
  BY <1>1, <1>2

\* UpdateStatus is such a step.
LEMMA SettleKeeps ==
  ASSUME TypeOK, Addressed, NEW h \in Handler, handler[h].pc # "idle",
         NEW next \in {"success", "failed"},
         NEW done \in Steps \ {"idle"}, NEW conflict \in Steps \ {"idle", "ack", "deadLetter"},
         Settle(h, next, done, conflict),
         UNCHANGED <<msg, outbox, window, pub, userRetries>>,
         dead' \subseteq Task, faults' \in 0 .. MaxFaults
  PROVE  Keeps(h)
<1> DEFINE t == TaskOf(h)
<1>1. t \in Task /\ task[t] \in Rows
  BY Owner
<1>2. next \in TaskStatuses
  BY DEF TaskStatuses
<1>3. Moved(task[t], next) \in Rows /\ Moved(task[t], next).status = next
  BY <1>1, <1>2, RowTypes
<1>4. CASE /\ CanMove(task[t], next)
           /\ task' = [task EXCEPT ![t] = Moved(task[t], next)]
           /\ handler' = [handler EXCEPT ![h].pc = done]
  <2>1. task[t].status # "none"
    BY <1>4 DEF CanMove, TaskPreviousStatuses
  <2>2. Terminal(Moved(task[t], next))
    BY <1>3 DEF Terminal
  <2>3. QED
    BY <1>3, <1>4, <2>1, <2>2 DEF Keeps
<1>5. CASE task' = task /\ handler' = [handler EXCEPT ![h].pc = conflict]
  <2>1. task' = [task EXCEPT ![t] = task[t]]
    BY <1>1, <1>5 DEF TypeOK
  <2>2. QED
    BY <1>1, <1>5, <2>1 DEF Keeps
<1>6. QED
  BY <1>2, <1>4, <1>5, SettleCases

\* A step that leaves the row alone.
LEMMA StayKeeps ==
  ASSUME TypeOK, Addressed, NEW h \in Handler, handler[h].pc # "idle",
         NEW step \in Steps \ {"idle"}, handler' = [handler EXCEPT ![h].pc = step],
         step \in {"ack", "deadLetter"} => Terminal(task[TaskOf(h)]),
         UNCHANGED <<task, msg, outbox, window, pub, userRetries>>,
         dead' \subseteq Task, faults' \in 0 .. MaxFaults
  PROVE  Keeps(h)
<1>1. TaskOf(h) \in Task /\ task[TaskOf(h)] \in Rows
  BY Owner
<1>2. task' = [task EXCEPT ![TaskOf(h)] = task[TaskOf(h)]]
  BY <1>1 DEF TypeOK
<1>3. QED
  BY <1>1, <1>2 DEF Keeps

\* A step that puts an unfinished row in the place of one that exists.
LEMMA WriteKeeps ==
  ASSUME TypeOK, Addressed, NEW h \in Handler, handler[h].pc # "idle",
         NEW step \in Steps \ {"idle", "ack", "deadLetter"},
         handler' = [handler EXCEPT ![h].pc = step],
         NEW row \in Rows, row.status # "none", task[TaskOf(h)].status # "none",
         task' = [task EXCEPT ![TaskOf(h)] = row],
         UNCHANGED <<msg, outbox, window, pub, userRetries>>,
         dead' \subseteq Task, faults' \in 0 .. MaxFaults
  PROVE  Keeps(h)
BY DEF Keeps

\* Claiming the row, refused or not, is such a step.
LEMMA ClaimKeeps ==
  ASSUME TypeOK, Addressed, NEW h \in Handler, Claim(h) \/ ClaimErrs(h)
  PROVE  Keeps(h)
<1> DEFINE t == TaskOf(h)
<1>1. handler[h].pc # "idle"
  BY DEF Claim, ClaimErrs, At
<1>2. task[t] \in Rows
  BY <1>1, Owner
<1>3. /\ UNCHANGED <<msg, outbox, window, pub, userRetries>>
      /\ dead' \subseteq Task
      /\ faults' \in 0 .. MaxFaults
  BY LimitsAssumption DEF TypeOK, Claim, ClaimErrs, storeVars, Fault
<1>4. ASSUME Claimable(task[t]), task' = [task EXCEPT ![t] = Claimed(task[t])],
             NEW step \in {"work", "nak"}, handler' = [handler EXCEPT ![h].pc = step]
      PROVE  Keeps(h)
  <2>1. task[t].status # "none"
    BY <1>4 DEF Claimable
  <2>2. Claimed(task[t]) \in Rows /\ Claimed(task[t]).status # "none"
    BY <1>2, RowTypes
  <2>3. QED
    BY <1>1, <1>3, <1>4, <2>1, <2>2, WriteKeeps DEF Steps
<1>5. ASSUME task' = task, NEW step \in {"check", "nak"},
             handler' = [handler EXCEPT ![h].pc = step]
      PROVE  Keeps(h)
  BY <1>1, <1>3, <1>5, StayKeeps DEF Steps
<1>6. CASE Claim(h)
  <2>1. CASE Claimable(task[t])
    BY <1>4, <1>6, <2>1 DEF Claim, Goto
  <2>2. CASE ~Claimable(task[t])
    BY <1>5, <1>6, <2>2 DEF Claim, Goto
  <2>3. QED
    BY <2>1, <2>2
<1>7. CASE ClaimErrs(h)
  <2>1. CASE task' = task
    BY <1>5, <1>7, <2>1 DEF ClaimErrs, Goto
  <2>2. CASE Claimable(task[t]) /\ task' = [task EXCEPT ![t] = Claimed(@)]
    BY <1>4, <1>7, <2>2 DEF ClaimErrs, Goto
  <2>3. QED
    BY <1>7, <2>1, <2>2 DEF ClaimErrs
<1>8. QED
  BY <1>6, <1>7

\* ScheduleRetry, whose reply may be lost, is such a step.
LEMMA RetryKeeps ==
  ASSUME TypeOK, Addressed, NEW h \in Handler, ScheduleRetry(h) \/ RetryReplyLost(h)
  PROVE  Keeps(h)
<1> DEFINE t == TaskOf(h)
<1>1. handler[h].pc # "idle"
  BY DEF ScheduleRetry, RetryReplyLost, At
<1>2. task[t] \in Rows
  BY <1>1, Owner
<1>3. /\ UNCHANGED <<msg, outbox, window, pub, userRetries>>
      /\ dead' \subseteq Task
      /\ faults' \in 0 .. MaxFaults
  BY LimitsAssumption DEF TypeOK, ScheduleRetry, RetryReplyLost, storeVars, Fault
<1>4. CASE CanScheduleRetry(task[t], MaxRetries)
  <2>1. task[t].status # "none"
    BY <1>4 DEF CanScheduleRetry
  <2>2. BackToPending(task[t]) \in Rows /\ BackToPending(task[t]).status # "none"
    BY <1>2, RowTypes
  <2>3. task' = [task EXCEPT ![t] = BackToPending(task[t])]
    BY <1>4 DEF ScheduleRetry, RetryReplyLost
  <2>4. \E step \in {"reset", "failDoc"} : handler' = [handler EXCEPT ![h].pc = step]
    BY <1>4 DEF ScheduleRetry, RetryReplyLost, Goto
  <2>5. QED
    BY <1>1, <1>3, <2>1, <2>2, <2>3, <2>4, WriteKeeps DEF Steps
<1>5. CASE ~CanScheduleRetry(task[t], MaxRetries)
  <2>1. task' = task /\ handler' = [handler EXCEPT ![h].pc = "failDoc"]
    BY <1>5 DEF ScheduleRetry, RetryReplyLost, Goto
  <2>2. QED
    BY <1>1, <1>3, <2>1, StayKeeps DEF Steps
<1>6. QED
  BY <1>4, <1>5

\* Complete, ResetDocument and FailTask take such a step.
LEMMA SettlingKeeps ==
  ASSUME TypeOK, Addressed, NEW h \in Handler, Complete(h) \/ ResetDocument(h) \/ FailTask(h)
  PROVE  Keeps(h)
<1>1. handler[h].pc # "idle"
  BY DEF Complete, ResetDocument, FailTask, At
<1>2. /\ UNCHANGED <<msg, outbox, window, pub, userRetries>>
      /\ dead' \subseteq Task
      /\ faults' \in 0 .. MaxFaults
  BY LimitsAssumption
     DEF TypeOK, Complete, ResetDocument, FailTask, storeVars, NoFault, Fault
<1>3. CASE Complete(h)
  BY <1>1, <1>2, <1>3, SettleKeeps DEF Complete, Steps
<1>4. CASE ResetDocument(h)
  <2>1. CASE UNCHANGED task /\ Goto(h, "nak")
    BY <1>1, <1>2, <2>1, StayKeeps DEF Goto, Steps
  <2>2. CASE Settle(h, "failed", "failDoc", "failDoc")
    BY <1>1, <1>2, <2>2, SettleKeeps DEF Steps
  <2>3. QED
    BY <1>4, <2>1, <2>2 DEF ResetDocument
<1>5. CASE FailTask(h)
  BY <1>1, <1>2, <1>5, SettleKeeps DEF FailTask, Steps
<1>6. QED
  BY <1>3, <1>4, <1>5

\* CheckDuplicate, StageEnds, FailDocument and DeadLetter take such a step.
LEMMA StayingKeeps ==
  ASSUME TypeOK, Addressed, SettledFirst, NEW h \in Handler,
         CheckDuplicate(h) \/ StageEnds(h) \/ FailDocument(h) \/ DeadLetter(h)
  PROVE  Keeps(h)
<1>1. handler[h].pc # "idle"
  BY DEF CheckDuplicate, StageEnds, FailDocument, DeadLetter, At
<1>2. TaskOf(h) \in Task
  BY <1>1, Owner
<1>3. /\ UNCHANGED <<task, msg, outbox, window, pub, userRetries>>
      /\ dead' \subseteq Task
      /\ faults' \in 0 .. MaxFaults
  BY <1>2, LimitsAssumption
     DEF TypeOK, CheckDuplicate, StageEnds, FailDocument, DeadLetter, storeVars, KeepRows,
         NoFault, Fault
<1>4. CASE CheckDuplicate(h)
  <2>1. CASE Terminal(task[TaskOf(h)])
    <3>1. handler' = [handler EXCEPT ![h].pc = "ack"]
      BY <1>4, <2>1 DEF CheckDuplicate, Goto
    <3>2. QED
      BY <1>1, <1>3, <2>1, <3>1, StayKeeps DEF Steps
  <2>2. CASE ~Terminal(task[TaskOf(h)])
    <3>1. handler' = [handler EXCEPT ![h].pc = "defer"]
      BY <1>4, <2>2 DEF CheckDuplicate, Goto
    <3>2. QED
      BY <1>1, <1>3, <3>1, StayKeeps DEF Steps
  <2>3. QED
    BY <2>1, <2>2
<1>5. CASE StageEnds(h)
  BY <1>1, <1>3, <1>5, StayKeeps DEF StageEnds, Goto, Steps
<1>6. CASE FailDocument(h)
  BY <1>1, <1>3, <1>6, StayKeeps DEF FailDocument, Goto, Steps
<1>7. CASE DeadLetter(h)
  <2>1. Terminal(task[TaskOf(h)])
    BY <1>7 DEF SettledFirst, DeadLetter, At
  <2>2. handler' = [handler EXCEPT ![h].pc = "ack"]
    BY <1>7 DEF DeadLetter, Goto
  <2>3. QED
    BY <1>1, <1>3, <2>1, <2>2, StayKeeps DEF Steps
<1>8. QED
  BY <1>4, <1>5, <1>6, <1>7

\* A failing call on the error path takes such a step.
LEMMA RecoveryErrsKeeps ==
  ASSUME TypeOK, Addressed, NEW h \in Handler, RecoveryErrs(h)
  PROVE  Keeps(h)
<1> DEFINE t == TaskOf(h)
           next == IF At(h, "complete") THEN "success" ELSE "failed"
<1>1. handler[h].pc # "idle"
  BY DEF RecoveryErrs
<1>2. t \in Task /\ task[t] \in Rows
  BY <1>1, Owner
<1>3. /\ UNCHANGED <<msg, outbox, window, pub, userRetries>>
      /\ dead' \subseteq Task
      /\ faults' \in 0 .. MaxFaults
  BY <1>2, LimitsAssumption DEF TypeOK, RecoveryErrs, storeVars, Fault
<1>4. \E step \in {"defer", "nak"} : handler' = [handler EXCEPT ![h].pc = step]
  BY DEF RecoveryErrs, Goto
<1>5. CASE task' = task
  BY <1>1, <1>3, <1>4, <1>5, StayKeeps DEF Steps
<1>6. CASE CanMove(task[t], next) /\ task' = [task EXCEPT ![t] = Moved(@, next)]
  <2>1. next \in TaskStatuses /\ next # "none"
    BY DEF TaskStatuses
  <2>2. Moved(task[t], next) \in Rows /\ Moved(task[t], next).status = next
    BY <1>2, <2>1, RowTypes
  <2>3. task[t].status # "none"
    BY <1>6 DEF CanMove, TaskPreviousStatuses
  <2>4. task' = [task EXCEPT ![t] = Moved(task[t], next)]
    BY <1>6
  <2> HIDE DEF next
  <2>5. QED
    BY <1>1, <1>3, <1>4, <2>1, <2>2, <2>3, <2>4, WriteKeeps DEF Steps
<1>7. QED
  BY <1>5, <1>6 DEF RecoveryErrs

-----------------------------------------------------------------------------
(* Steps of the invariant *)

\* Nothing but a handler's own row changes: by Addressed and Single no other handler
\* answers a message of the same task, so nobody else's Terminal row is taken back.
LEMMA KeepsInv ==
  ASSUME Inv, NEW h \in Handler, Keeps(h)
  PROVE  Inv'
<1> DEFINE t == TaskOf(h)
<1>1. /\ t \in Task
      /\ handler[h].msg \in Msg
      /\ InStream(handler[h].msg, t)
  BY Owner DEF Inv, Keeps
<1>2. PICK step \in Steps \ {"idle"}, row \in Rows :
        /\ handler' = [handler EXCEPT ![h].pc = step]
        /\ task' = [task EXCEPT ![t] = row]
        /\ row.status = "none" <=> task[t].status = "none"
        /\ step \in {"ack", "deadLetter"} => Terminal(row)
  BY DEF Keeps
<1>3. UNCHANGED <<msg, outbox, window, pub, userRetries>> /\ dead' \subseteq Task
      /\ faults' \in 0 .. MaxFaults
  BY DEF Keeps
<1>4. TypeOK'
  BY <1>1, <1>2, <1>3 DEF Inv, TypeOK
<1>5. \A g \in Handler : /\ handler'[g].msg = handler[g].msg
                         /\ TaskOf(g)' = TaskOf(g)
                         /\ handler'[g].pc = IF g = h THEN step ELSE handler[g].pc
  BY <1>2, <1>3 DEF Inv, TypeOK, TaskOf
<1>6. Addressed'
  BY <1>2, <1>3, <1>5 DEF Inv, Addressed, Keeps
<1>7. \A u \in Task : task'[u] = IF u = t THEN row ELSE task[u]
  BY <1>2 DEF Inv, TypeOK
<1>8. \A m \in Msg, u \in Task : InStream(m, u)' = InStream(m, u)
  BY <1>3 DEF InStream
<1>9. Paired'
  BY <1>2, <1>3, <1>7 DEF Inv, Paired, Queued, InStream
<1>10. Held' /\ Single'
  BY <1>3 DEF Inv, Held, Single, Holds, Queued, InStream, Due
<1>11. Backed'
  <2> SUFFICES ASSUME NEW u \in Task, Unfinished(task[u])'
               PROVE  /\ window[u] => Queued(u)
                      /\ \A p \in Publisher :
                           pub[p].outcome = "acked" /\ pub[p].current = u => Queued(u)
                      /\ Due(u) \/ Queued(u)
    BY <1>3 DEF Backed, Queued, InStream, Due
  <2>1. CASE u = t
    BY <1>1, <2>1 DEF Queued
  <2>2. CASE u # t
    BY <1>7, <2>2 DEF Inv, Backed, Unfinished
  <2>3. QED
    BY <2>1, <2>2
<1>12. SettledFirst'
  <2> SUFFICES ASSUME NEW g \in Handler, handler'[g].pc \in {"ack", "deadLetter"}
               PROVE  Terminal(task'[TaskOf(g)])
    BY <1>5 DEF SettledFirst, Terminal
  <2>1. CASE g = h
    BY <1>1, <1>2, <1>5, <1>7, <2>1 DEF Terminal
  <2>2. CASE g # h
    <3>1. handler[g].pc \in {"ack", "deadLetter"}
      BY <1>5, <2>2
    <3>2. Terminal(task[TaskOf(g)])
      BY <3>1 DEF Inv, SettledFirst
    <3>3. /\ handler[g].msg \in Msg /\ TaskOf(g) \in Task
          /\ InStream(handler[g].msg, TaskOf(g)) /\ handler[g].msg # NoMsg
      BY <3>1, Owner, NullAssumption DEF Inv
    <3>4. TaskOf(g) # t
      BY <1>1, <2>2, <3>3 DEF Inv, Single, Addressed
    <3>5. QED
      BY <1>7, <3>2, <3>3, <3>4
  <2>3. QED
    BY <2>1, <2>2
<1>13. QED
  BY <1>4, <1>6, <1>9, <1>10, <1>11, <1>12 DEF Inv

\* The rows, the outbox and the window do not change, and every message keeps its
\* task and whether the stream has it: what the consumer's timers and most answers do.
SameStream ==
  /\ UNCHANGED <<task, outbox, window, pub, userRetries, dead>>
  /\ \A m \in Msg, t \in Task : InStream(m, t)' = InStream(m, t)

\* A step that leaves stream and outbox alone keeps the invariant if the
\* handlers that answer keep their reason to.
LEMMA SameStreamInv ==
  ASSUME Inv, TypeOK', Addressed', SameStream,
         \A h \in Handler : handler'[h].pc \in {"ack", "deadLetter"} =>
                              handler'[h] = handler[h] /\ TaskOf(h)' = TaskOf(h)
  PROVE  Inv'
<1>1. \A t \in Task : Queued(t)' = Queued(t)
  BY DEF SameStream, Queued
<1>2. Paired'
  BY <1>1 DEF Inv, Paired, SameStream
<1>3. Held'
  BY DEF Inv, Held, Holds, SameStream
<1>4. Single'
  BY <1>1 DEF Inv, Single, Due, SameStream
<1>5. Backed'
  BY <1>1 DEF Inv, Backed, Due, SameStream
<1>6. SettledFirst'
  BY DEF Inv, SettledFirst, SameStream
<1>7. QED
  BY <1>2, <1>3, <1>4, <1>5, <1>6 DEF Inv

\* Deliver keeps the invariant.
LEMMA DeliverInv ==
  ASSUME Inv, NEW m \in Msg, NEW h \in Handler, Deliver(m, h)
  PROVE  Inv'
<1>1. /\ msg[m].state = "queued" /\ msg[m].deliveries < MaxDeliver
      /\ handler[h].pc = "idle"
      /\ msg' = [msg EXCEPT ![m].state = "delivered", ![m].deliveries = @ + 1]
      /\ handler' = [handler EXCEPT ![h] = [pc |-> "claim", msg |-> m]]
      /\ UNCHANGED <<task, outbox, window, pub, dead, userRetries, faults>>
  BY DEF Deliver
<1>2. /\ msg'[m].task = msg[m].task /\ msg'[m].state = "delivered"
      /\ \A n \in Msg : n # m => msg'[n] = msg[n]
  BY <1>1 DEF Inv, TypeOK
<1>3. TypeOK'
  <2>1. msg[m].deliveries + 1 \in 0 .. MaxDeliver
    BY <1>1, LimitsAssumption DEF Inv, TypeOK
  <2>2. QED
    BY <1>1, <2>1 DEF Inv, TypeOK, Steps
<1>4. \A g \in Handler : handler[g].msg # m
  BY <1>1, NullAssumption DEF Inv, TypeOK, Addressed
<1>5. \A g \in Handler : handler'[g] = IF g = h THEN [pc |-> "claim", msg |-> m] ELSE handler[g]
  BY <1>1 DEF Inv, TypeOK
<1>6. Addressed'
  <2>1. \A n \in Msg : msg'[n].state # "free" => msg'[n].task \in Task
    BY <1>1, <1>2 DEF Inv, Addressed
  <2>2. \A g \in Handler : /\ handler'[g].pc = "idle" <=> handler'[g].msg = NoMsg
                           /\ handler'[g].pc # "idle" => msg'[handler'[g].msg].state = "delivered"
    <3> SUFFICES ASSUME NEW g \in Handler
                 PROVE  /\ handler'[g].pc = "idle" <=> handler'[g].msg = NoMsg
                        /\ handler'[g].pc # "idle" => msg'[handler'[g].msg].state = "delivered"
      OBVIOUS
    <3>1. CASE g = h
      BY <1>2, <1>5, <3>1, NullAssumption
    <3>2. CASE g # h
      BY <1>2, <1>4, <1>5, <3>2 DEF Inv, TypeOK, Addressed
    <3>3. QED
      BY <3>1, <3>2
  <2>3. \A f, g \in Handler :
          handler'[f].msg = handler'[g].msg /\ handler'[f].msg # NoMsg => f = g
    BY <1>4, <1>5 DEF Inv, Addressed
  <2>4. QED
    BY <2>1, <2>2, <2>3 DEF Addressed
<1>7. SameStream
  BY <1>1, <1>2 DEF SameStream, InStream
<1>8. \A g \in Handler : handler'[g].pc \in {"ack", "deadLetter"} =>
        handler'[g] = handler[g] /\ TaskOf(g)' = TaskOf(g)
  BY <1>2, <1>4, <1>5 DEF Inv, TypeOK, TaskOf
<1>9. QED
  BY <1>3, <1>6, <1>7, <1>8, SameStreamInv

\* A message that comes back to the stream keeps the invariant.
LEMMA RequeueInv ==
  ASSUME Inv, TimelyAck, NEW m \in Msg, AckWaitEnds(m) \/ DelayEnds(m)
  PROVE  Inv'
<1>1. /\ msg[m].state \in {"delivered", "deferred"}
      /\ \A h \in Handler : handler[h].msg # m
      /\ msg' = [msg EXCEPT ![m].state = "queued"]
      /\ UNCHANGED <<task, outbox, window, pub, handler, dead, userRetries, faults>>
  <2>1. CASE AckWaitEnds(m)
    BY <2>1 DEF AckWaitEnds, Handled
  <2>2. CASE DelayEnds(m)
    BY <2>2, NullAssumption DEF DelayEnds, Inv, TypeOK, Addressed
  <2>3. QED
    BY <2>1, <2>2
<1>2. /\ msg'[m].task = msg[m].task /\ msg'[m].state = "queued"
      /\ \A n \in Msg : n # m => msg'[n] = msg[n]
  BY <1>1 DEF Inv, TypeOK
<1>3. TypeOK'
  BY <1>1 DEF Inv, TypeOK
<1>4. Addressed'
  BY <1>1, <1>2 DEF Inv, TypeOK, Addressed
<1>5. SameStream
  BY <1>1, <1>2 DEF SameStream, InStream
<1>6. \A h \in Handler : TaskOf(h)' = TaskOf(h)
  BY <1>1, <1>2 DEF Inv, TypeOK, TaskOf
<1>7. QED
  BY <1>1, <1>3, <1>4, <1>5, <1>6, SameStreamInv

\* A handler that answers, or dies, leaves its message to the others.
LEMMA LeaveInv ==
  ASSUME Inv, NEW h \in Handler, Nak(h) \/ Crash(h)
  PROVE  Inv'
<1> DEFINE m == handler[h].msg
<1>1. handler[h].pc # "idle"
  BY DEF Nak, Crash, At
<1>2. m \in Msg /\ msg[m].state = "delivered" /\ m # NoMsg
  BY <1>1, Owner, NullAssumption DEF Inv
<1>3. /\ handler' = [handler EXCEPT ![h] = IdleHandler]
      /\ UNCHANGED <<task, outbox, window, pub, userRetries, dead>>
      /\ faults' \in 0 .. MaxFaults
  <2>1. CASE Nak(h)
    BY <2>1 DEF Inv, TypeOK, Nak, storeVars
  <2>2. CASE Crash(h)
    <3>1. faults' \in 0 .. MaxFaults
      BY <2>2, LimitsAssumption DEF Inv, TypeOK, Crash, Fault
    <3>2. QED
      BY <2>2, <3>1 DEF Crash, KeepRows, storeVars
  <2>3. QED
    BY <2>1, <2>2
<1>4. \E next \in {"queued", "delivered", "deferred"} : msg' = [msg EXCEPT ![m].state = next]
  <2>1. CASE Nak(h)
    BY <1>2, <2>1 DEF Nak
  <2>2. CASE Crash(h)
    <3>1. msg' = [msg EXCEPT ![m].state = "delivered"]
      BY <1>2, <2>2 DEF Inv, TypeOK, Crash, KeepRows
    <3>2. QED
      BY <3>1
  <2>3. QED
    BY <2>1, <2>2
<1>5. /\ msg'[m].task = msg[m].task /\ msg'[m].state \in {"queued", "delivered", "deferred"}
      /\ \A n \in Msg : n # m => msg'[n] = msg[n]
  BY <1>2, <1>4 DEF Inv, TypeOK
<1>6. TypeOK'
  <2>1. PICK next \in {"queued", "delivered", "deferred"} : msg' = [msg EXCEPT ![m].state = next]
    BY <1>4
  <2>2. msg' \in [Msg -> [task: Task \cup {NoTask},
                          state: {"free", "queued", "delivered", "deferred", "gone"},
                          deliveries: 0 .. MaxDeliver]]
    BY <1>2, <2>1 DEF Inv, TypeOK
  <2>3. handler' \in [Handler -> [pc: Steps, msg: Msg \cup {NoMsg}]]
    BY <1>3 DEF Inv, TypeOK, IdleHandler, Steps
  <2>4. QED
    BY <1>3, <2>2, <2>3 DEF Inv, TypeOK
<1>7. \A g \in Handler : handler'[g] = IF g = h THEN IdleHandler ELSE handler[g]
  BY <1>3 DEF Inv, TypeOK
<1>8. \A g \in Handler : g # h => handler[g].msg # m
  BY <1>2 DEF Inv, Addressed
<1>9. Addressed'
  <2>1. \A n \in Msg : msg'[n].state # "free" => msg'[n].task \in Task
    BY <1>2, <1>5 DEF Inv, Addressed
  <2>2. \A g \in Handler : /\ handler'[g].pc = "idle" <=> handler'[g].msg = NoMsg
                           /\ handler'[g].pc # "idle" => msg'[handler'[g].msg].state = "delivered"
    BY <1>2, <1>5, <1>7, <1>8 DEF Inv, TypeOK, Addressed, IdleHandler
  <2>3. \A f, g \in Handler :
          handler'[f].msg = handler'[g].msg /\ handler'[f].msg # NoMsg => f = g
    BY <1>7 DEF Inv, Addressed, IdleHandler
  <2>4. QED
    BY <2>1, <2>2, <2>3 DEF Addressed
<1>10. SameStream
  BY <1>2, <1>3, <1>5 DEF SameStream, InStream
<1>11. \A g \in Handler : handler'[g].pc \in {"ack", "deadLetter"} =>
        handler'[g] = handler[g] /\ TaskOf(g)' = TaskOf(g)
  BY <1>5, <1>7, <1>8 DEF Inv, TypeOK, TaskOf, IdleHandler
<1>12. QED
  BY <1>6, <1>9, <1>10, <1>11, SameStreamInv

\* Acknowledging takes the only message of a task that is settled.
LEMMA AckInv ==
  ASSUME Inv, NEW h \in Handler, Ack(h)
  PROVE  Inv'
<1> DEFINE m == handler[h].msg
           t == TaskOf(h)
<1>1. handler[h].pc = "ack"
  BY DEF Ack, At
<1>2. /\ m \in Msg /\ msg[m].state = "delivered" /\ m # NoMsg
      /\ t = msg[m].task /\ t \in Task
  BY <1>1, Owner, NullAssumption DEF Inv
<1>3. Terminal(task[t])
  BY <1>1 DEF Inv, SettledFirst
<1>4. /\ handler' = [handler EXCEPT ![h] = IdleHandler]
      /\ msg' = [msg EXCEPT ![m].state = "gone"]
      /\ UNCHANGED <<task, outbox, window, pub, userRetries, dead, faults>>
  BY DEF Ack, storeVars
<1>5. /\ msg'[m].task = msg[m].task /\ msg'[m].state = "gone"
      /\ \A n \in Msg : n # m => msg'[n] = msg[n]
  BY <1>2, <1>4 DEF Inv, TypeOK
<1>6. TypeOK'
  BY <1>2, <1>4 DEF Inv, TypeOK, IdleHandler, Steps
<1>7. \A g \in Handler : handler'[g] = IF g = h THEN IdleHandler ELSE handler[g]
  BY <1>4 DEF Inv, TypeOK
<1>8. \A g \in Handler : g # h => handler[g].msg # m
  BY <1>2 DEF Inv, Addressed
<1>9. Addressed'
  <2>1. \A n \in Msg : msg'[n].state # "free" => msg'[n].task \in Task
    BY <1>2, <1>5 DEF Inv, Addressed
  <2>2. \A g \in Handler : /\ handler'[g].pc = "idle" <=> handler'[g].msg = NoMsg
                           /\ handler'[g].pc # "idle" => msg'[handler'[g].msg].state = "delivered"
    BY <1>2, <1>5, <1>7, <1>8 DEF Inv, TypeOK, Addressed, IdleHandler
  <2>3. \A f, g \in Handler :
          handler'[f].msg = handler'[g].msg /\ handler'[f].msg # NoMsg => f = g
    BY <1>7 DEF Inv, Addressed, IdleHandler
  <2>4. QED
    BY <2>1, <2>2, <2>3 DEF Addressed
<1>10. \A n \in Msg, u \in Task : InStream(n, u)' <=> InStream(n, u) /\ n # m
  BY <1>2, <1>5 DEF InStream
<1>11. \A u \in Task : /\ Queued(u)' => Queued(u)
                       /\ u # t => Queued(u)' = Queued(u)
  BY <1>2, <1>10 DEF Queued, InStream
<1>12. Paired'
  BY <1>4, <1>11 DEF Inv, Paired
<1>13. Held'
  BY <1>4 DEF Inv, Held, Holds
<1>14. Single'
  BY <1>4, <1>10, <1>11 DEF Inv, Single, Due
<1>15. Backed'
  <2> SUFFICES ASSUME NEW u \in Task, Unfinished(task[u])
               PROVE  /\ window[u] => Queued(u)'
                      /\ \A p \in Publisher :
                           pub[p].outcome = "acked" /\ pub[p].current = u => Queued(u)'
                      /\ Due(u) \/ Queued(u)'
    BY <1>4 DEF Backed, Due
  <2>1. u # t
    BY <1>3 DEF Unfinished, Terminal
  <2>2. QED
    BY <1>11, <2>1 DEF Inv, Backed
<1>16. SettledFirst'
  BY <1>4, <1>5, <1>7, <1>8 DEF Inv, TypeOK, SettledFirst, TaskOf, IdleHandler
<1>17. QED
  BY <1>6, <1>9, <1>12, <1>13, <1>14, <1>15, <1>16 DEF Inv

-----------------------------------------------------------------------------
(* Rows, publishers, clocks *)

\* No handler moves and the stream is as it was.
LEMMA QuietHandlers ==
  ASSUME Inv, UNCHANGED <<msg, handler>>
  PROVE  /\ Addressed'
         /\ \A m \in Msg, t \in Task : InStream(m, t)' = InStream(m, t)
         /\ \A t \in Task : Queued(t)' = Queued(t)
         /\ \A h \in Handler : TaskOf(h)' = TaskOf(h)
BY DEF Inv, Addressed, InStream, Queued, TaskOf

\* Create keeps the invariant.
LEMMA CreateInv ==
  ASSUME Inv, NEW t \in Task, Create(t)
  PROVE  Inv'
<1>1. /\ task[t].status = "none" /\ outbox[t] = "none"
      /\ ~window[t] /\ ~Queued(t)
  BY DEF Inv, Paired, Create, NoRow
<1>2. NewRow \in Rows /\ NewRow.status = "pending"
  BY DEF NewRow, Rows, TaskStatuses, Leases
<1>3. \A u \in Task : /\ task'[u] = IF u = t THEN NewRow ELSE task[u]
                      /\ outbox'[u] = IF u = t THEN "ready" ELSE outbox[u]
  BY DEF Inv, TypeOK, Create
<1>4. TypeOK'
  BY <1>2 DEF Inv, TypeOK, Create
<1>5. /\ UNCHANGED <<window, msg, pub, handler>>
      /\ Addressed'
      /\ \A m \in Msg, u \in Task : InStream(m, u)' = InStream(m, u)
      /\ \A u \in Task : Queued(u)' = Queued(u)
      /\ \A h \in Handler : TaskOf(h)' = TaskOf(h)
  BY QuietHandlers DEF Create
<1>6. \A p \in Publisher : ~Holds(p, t)
  BY <1>1 DEF Inv, Held
<1>7. Paired'
  BY <1>2, <1>3, <1>5 DEF Inv, Paired
<1>8. Held'
  BY <1>3, <1>5, <1>6 DEF Inv, Held, Holds
<1>9. Single'
  BY <1>1, <1>3, <1>5 DEF Inv, Single, Due
<1>10. Backed'
  BY <1>1, <1>3, <1>5, <1>6 DEF Inv, Backed, Due, Unfinished, Holds
<1>11. SettledFirst'
  <2> SUFFICES ASSUME NEW h \in Handler, handler[h].pc \in {"ack", "deadLetter"}
               PROVE  Terminal(task'[TaskOf(h)])
    BY <1>5 DEF SettledFirst, Terminal
  <2>1. Terminal(task[TaskOf(h)]) /\ TaskOf(h) \in Task
    BY Owner DEF Inv, SettledFirst
  <2>2. TaskOf(h) # t
    BY <1>1, <2>1 DEF Terminal
  <2>3. QED
    BY <1>3, <2>1, <2>2
<1>12. QED
  BY <1>4, <1>5, <1>7, <1>8, <1>9, <1>10, <1>11 DEF Inv

\* A user who waits finds the task's message gone, its id forgotten and nobody
\* publishing it.
LEMMA UserRetryInv ==
  ASSUME Inv, PatientUser, NEW t \in Task, UserRetry(t)
  PROVE  Inv'
<1>1. /\ task[t].status = "failed"
      /\ ~window[t] /\ ~Queued(t)
      /\ \A p \in Publisher : ~Holds(p, t)
  BY DEF UserRetry, CanRetry, Settled, InHand, Queued, Holds
<1>2. BackToPending(task[t]) \in Rows /\ BackToPending(task[t]).status = "pending"
  BY RowTypes DEF Inv, TypeOK
<1>3. \A u \in Task : /\ task'[u] = IF u = t THEN BackToPending(task[t]) ELSE task[u]
                      /\ outbox'[u] = IF u = t THEN "ready" ELSE outbox[u]
  BY DEF Inv, TypeOK, UserRetry
<1>4. TypeOK'
  <2>1. userRetries' \in [Task -> 0 .. MaxUserRetries]
    BY LimitsAssumption DEF Inv, TypeOK, UserRetry
  <2>2. task' \in [Task -> Rows]
    BY <1>2 DEF Inv, TypeOK, UserRetry
  <2>3. QED
    BY <2>1, <2>2 DEF Inv, TypeOK, UserRetry
<1>5. /\ UNCHANGED <<window, msg, pub, handler>>
      /\ Addressed'
      /\ \A m \in Msg, u \in Task : InStream(m, u)' = InStream(m, u)
      /\ \A u \in Task : Queued(u)' = Queued(u)
      /\ \A h \in Handler : TaskOf(h)' = TaskOf(h)
  BY QuietHandlers DEF UserRetry
<1>6. outbox[t] # "none"
  BY <1>1 DEF Inv, Paired
<1>7. Paired'
  BY <1>1, <1>2, <1>3, <1>5, <1>6 DEF Inv, Paired
<1>8. Held'
  BY <1>1, <1>3, <1>5 DEF Inv, Held, Holds
<1>9. Single'
  BY <1>1, <1>3, <1>5 DEF Inv, Single, Due
<1>10. Backed'
  BY <1>1, <1>3, <1>5 DEF Inv, Backed, Due, Unfinished, Holds
<1>11. SettledFirst'
  <2> SUFFICES ASSUME NEW h \in Handler, handler[h].pc \in {"ack", "deadLetter"}
               PROVE  Terminal(task'[TaskOf(h)])
    BY <1>5 DEF SettledFirst, Terminal
  <2>1. /\ Terminal(task[TaskOf(h)]) /\ TaskOf(h) \in Task
        /\ Queued(TaskOf(h))
    BY Owner DEF Inv, SettledFirst, Queued
  <2>2. TaskOf(h) # t
    BY <1>1, <2>1
  <2>3. QED
    BY <1>3, <2>1, <2>2
<1>12. QED
  BY <1>4, <1>5, <1>7, <1>8, <1>9, <1>10, <1>11 DEF Inv

\* LeaseLapses keeps the invariant.
LEMMA LeaseLapsesInv ==
  ASSUME Inv, NEW t \in Task, LeaseLapses(t)
  PROVE  Inv'
<1> DEFINE row == [task[t] EXCEPT !.lease = "lapsed"]
<1>1. row \in Rows /\ row.status = task[t].status
  BY DEF Inv, TypeOK, Rows, Leases
<1>2. \A u \in Task : task'[u].status = task[u].status
  BY DEF Inv, TypeOK, LeaseLapses
<1>3. TypeOK'
  BY <1>1 DEF Inv, TypeOK, LeaseLapses
<1>4. /\ UNCHANGED <<outbox, window, msg, pub, handler>>
      /\ Addressed'
      /\ \A m \in Msg, u \in Task : InStream(m, u)' = InStream(m, u)
      /\ \A u \in Task : Queued(u)' = Queued(u)
      /\ \A h \in Handler : TaskOf(h)' = TaskOf(h)
  BY QuietHandlers DEF LeaseLapses
<1>5. Paired' /\ Held' /\ Single'
  BY <1>2, <1>4 DEF Inv, Paired, Held, Holds, Single, Due
<1>6. Backed'
  BY <1>2, <1>4 DEF Inv, Backed, Due, Unfinished
<1>7. SettledFirst'
  BY <1>2, <1>4, Owner DEF Inv, SettledFirst, Terminal
<1>8. QED
  BY <1>3, <1>4, <1>5, <1>6, <1>7 DEF Inv

\* Expiry keeps the invariant.
LEMMA ExpiryInv ==
  ASSUME Inv, WideWindow, NEW t \in Task, LockLapses(t) \/ WindowCloses(t)
  PROVE  Inv'
<1>1. /\ UNCHANGED <<task, msg, pub, handler>>
      /\ Addressed'
      /\ \A m \in Msg, u \in Task : InStream(m, u)' = InStream(m, u)
      /\ \A u \in Task : Queued(u)' = Queued(u)
      /\ \A h \in Handler : TaskOf(h)' = TaskOf(h)
  BY QuietHandlers DEF LockLapses, WindowCloses
<1>2. TypeOK'
  <2>1. CASE LockLapses(t)
    BY <2>1 DEF Inv, TypeOK, LockLapses
  <2>2. CASE WindowCloses(t)
    BY <2>2 DEF Inv, TypeOK, WindowCloses
  <2>3. QED
    BY <2>1, <2>2
<1>3. SettledFirst'
  BY <1>1 DEF Inv, SettledFirst
<1>4. CASE LockLapses(t)
  <2>1. /\ outbox[t] = "locked"
        /\ \A p \in Publisher : ~Holds(p, t)
        /\ window' = window
    BY <1>4 DEF LockLapses, InHand, Holds
  <2>2. \A u \in Task : outbox'[u] = IF u = t THEN "ready" ELSE outbox[u]
    BY <1>4 DEF Inv, TypeOK, LockLapses
  <2>3. Paired' /\ Held' /\ Single' /\ Backed'
    BY <1>1, <2>1, <2>2 DEF Inv, Paired, Held, Holds, Single, Backed, Due
  <2>4. QED
    BY <1>1, <1>2, <1>3, <2>3 DEF Inv
<1>5. CASE WindowCloses(t)
  <2>1. outbox[t] = "published" /\ outbox' = outbox
    BY <1>5 DEF WindowCloses
  <2>2. \A u \in Task : window'[u] = IF u = t THEN FALSE ELSE window[u]
    BY <1>5 DEF Inv, TypeOK, WindowCloses
  <2>3. Paired' /\ Held'
    <3>1. Paired'
      BY <1>1, <2>1, <2>2 DEF Inv, Paired
    <3>2. Held'
      BY <1>1, <2>1 DEF Inv, Held, Holds
    <3>3. QED
      BY <3>1, <3>2
  <2>4. Single'
    BY <1>1, <2>1, <2>2 DEF Inv, Single, Due
  <2>5. Backed'
    BY <1>1, <2>1, <2>2 DEF Inv, Backed, Due
  <2>6. QED
    BY <1>1, <1>2, <1>3, <2>3, <2>4, <2>5 DEF Inv
<1>6. QED
  BY <1>4, <1>5

\* Only rows that are "ready" are taken, so nobody has them in hand.
LEMMA ClaimBatchInv ==
  ASSUME Inv, NEW p \in Publisher, ClaimBatch(p)
  PROVE  Inv'
<1> DEFINE due == {t \in Task : outbox[t] = "ready"}
<1>1. /\ pub[p] = IdlePub
      /\ outbox' = [t \in Task |-> IF t \in due THEN "locked" ELSE outbox[t]]
      /\ pub' = [pub EXCEPT ![p].batch = due]
      /\ UNCHANGED <<task, window, msg, handler, dead, userRetries, faults>>
  BY DEF ClaimBatch
<1>2. /\ pub'[p].batch = due /\ pub'[p].current = NoTask /\ pub'[p].outcome = "none"
      /\ \A q \in Publisher : q # p => pub'[q] = pub[q]
  BY <1>1 DEF Inv, TypeOK, IdlePub
<1>3. \A t \in Task : outbox'[t] = IF outbox[t] = "ready" THEN "locked" ELSE outbox[t]
  BY <1>1
<1>4. TypeOK'
  <2>1. outbox' \in [Task -> {"none", "ready", "locked", "published"}]
    BY <1>1 DEF Inv, TypeOK
  <2>2. pub' \in [Publisher -> [batch : SUBSET Task, current : Task \cup {NoTask},
                               outcome : {"none", "acked", "error"}]]
    BY <1>1 DEF Inv, TypeOK
  <2>3. QED
    BY <1>1, <2>1, <2>2 DEF Inv, TypeOK
<1>5. /\ Addressed'
      /\ \A m \in Msg, u \in Task : InStream(m, u)' = InStream(m, u)
      /\ \A u \in Task : Queued(u)' = Queued(u)
      /\ \A h \in Handler : TaskOf(h)' = TaskOf(h)
  BY <1>1, QuietHandlers
<1>6. \A q \in Publisher, t \in Task :
        Holds(q, t)' <=> IF q = p THEN outbox[t] = "ready" ELSE Holds(q, t)
  BY <1>2, NullAssumption DEF Holds
<1>7. Held'
  <2>1. \A q \in Publisher, t \in Task : Holds(q, t)' => outbox'[t] = "locked"
    BY <1>3, <1>6 DEF Inv, Held
  <2>2. \A q, r \in Publisher, t \in Task : Holds(q, t)' /\ Holds(r, t)' => q = r
    BY <1>6 DEF Inv, Held
  <2>3. \A q \in Publisher : /\ pub'[q].outcome = "none" <=> pub'[q].current = NoTask
                             /\ pub'[q].current \notin pub'[q].batch
    BY <1>2, NullAssumption DEF Inv, Held
  <2>4. QED
    BY <2>1, <2>2, <2>3 DEF Held
<1>8. Paired'
  BY <1>1, <1>3, <1>5 DEF Inv, TypeOK, Paired
<1>9. Single'
  BY <1>1, <1>3, <1>5 DEF Inv, Single, Due
<1>10. Backed'
  BY <1>1, <1>2, <1>3, <1>5 DEF Inv, Backed, Due
<1>11. SettledFirst'
  BY <1>1, <1>5 DEF Inv, SettledFirst
<1>12. QED
  BY <1>4, <1>5, <1>7, <1>8, <1>9, <1>10, <1>11 DEF Inv

\* Letting go, marked or not: an acknowledged task that is not finished is in the
\* stream, so its outbox row may go.
LEMMA LetGoInv ==
  ASSUME Inv, NEW p \in Publisher, MarkPublished(p) \/ MarkFailed(p)
  PROVE  Inv'
<1> DEFINE t == pub[p].current
<1>1. PICK mark \in {"published", "ready"} :
        /\ outbox' = [outbox EXCEPT ![t] = mark]
        /\ mark = "published" => pub[p].outcome = "acked"
  <2>1. CASE MarkPublished(p)
    BY <2>1 DEF MarkPublished
  <2>2. CASE MarkFailed(p)
    <3>1. CASE outbox[t] = "published"
      <4>1. t \in Task
        BY <2>2 DEF MarkFailed, Inv, TypeOK, Held
      <4>2. outbox[t] = "locked"
        BY <4>1 DEF Inv, Held, Holds
      <4>3. QED
        BY <3>1, <4>2
    <3>2. CASE outbox[t] # "published"
      BY <2>2, <3>2 DEF MarkFailed
    <3>3. QED
      BY <3>1, <3>2
  <2>3. QED
    BY <2>1, <2>2
<1>2. /\ pub' = [pub EXCEPT ![p].current = NoTask, ![p].outcome = "none"]
      /\ UNCHANGED <<task, window, msg, handler, dead, userRetries, faults>>
      /\ pub[p].outcome # "none"
  BY DEF MarkPublished, MarkFailed, LetGo
<1>3. t \in Task /\ outbox[t] = "locked"
  BY <1>2 DEF Inv, TypeOK, Held, Holds
<1>4. /\ pub'[p].batch = pub[p].batch /\ pub'[p].current = NoTask /\ pub'[p].outcome = "none"
      /\ \A q \in Publisher : q # p => pub'[q] = pub[q]
  BY <1>2 DEF Inv, TypeOK
<1>5. \A u \in Task : outbox'[u] = IF u = t THEN mark ELSE outbox[u]
  BY <1>1 DEF Inv, TypeOK
<1>6. TypeOK'
  BY <1>1, <1>2 DEF Inv, TypeOK
<1>7. /\ Addressed'
      /\ \A m \in Msg, u \in Task : InStream(m, u)' = InStream(m, u)
      /\ \A u \in Task : Queued(u)' = Queued(u)
      /\ \A h \in Handler : TaskOf(h)' = TaskOf(h)
  BY <1>2, QuietHandlers
<1>8. \A q \in Publisher, u \in Task : Holds(q, u)' => Holds(q, u) /\ u # t
  <2> SUFFICES ASSUME NEW q \in Publisher, NEW u \in Task, Holds(q, u)'
               PROVE  Holds(q, u) /\ u # t
    OBVIOUS
  <2>1. Holds(q, u)
    BY <1>4, NullAssumption DEF Holds
  <2>2. CASE q = p
    BY <1>4, <2>1, <2>2, NullAssumption DEF Inv, Held, Holds
  <2>3. CASE q # p
    BY <1>3, <2>1, <2>3 DEF Inv, Held, Holds
  <2>4. QED
    BY <2>1, <2>2, <2>3
<1>9. Held'
  <2>1. \A q \in Publisher, u \in Task : Holds(q, u)' => outbox'[u] = "locked"
    BY <1>5, <1>8 DEF Inv, Held
  <2>2. \A q, r \in Publisher, u \in Task : Holds(q, u)' /\ Holds(r, u)' => q = r
    BY <1>8 DEF Inv, Held
  <2>3. \A q \in Publisher : /\ pub'[q].outcome = "none" <=> pub'[q].current = NoTask
                             /\ pub'[q].current \notin pub'[q].batch
    BY <1>4, NullAssumption DEF Inv, TypeOK, Held
  <2>4. QED
    BY <2>1, <2>2, <2>3 DEF Held
<1>10. Paired'
  BY <1>2, <1>3, <1>5, <1>7 DEF Inv, Paired
<1>11. Single'
  BY <1>2, <1>3, <1>5, <1>7 DEF Inv, Single, Due
<1>12. Backed'
  <2> SUFFICES ASSUME NEW u \in Task, Unfinished(task[u])
               PROVE  /\ window[u] => Queued(u)
                      /\ \A q \in Publisher :
                           pub'[q].outcome = "acked" /\ pub'[q].current = u => Queued(u)
                      /\ Due(u)' \/ Queued(u)
    BY <1>2, <1>7 DEF Backed
  <2>1. CASE u = t
    BY <1>1, <1>3, <1>4, <1>5, <2>1 DEF Inv, Backed, Due
  <2>2. CASE u # t
    BY <1>4, <1>5, <2>2 DEF Inv, Backed, Due
  <2>3. QED
    BY <2>1, <2>2
<1>13. SettledFirst'
  BY <1>2, <1>7 DEF Inv, SettledFirst
<1>14. QED
  BY <1>6, <1>7, <1>9, <1>10, <1>11, <1>12, <1>13 DEF Inv

\* The stream drops a publication inside its window and stores any other.
LEMMA StoreCases ==
  ASSUME Inv, NEW t \in Task, Due(t), Store(t)
  PROVE  \/ window[t] /\ UNCHANGED <<msg, window>>
         \/ /\ ~window[t] /\ ~Queued(t)
            /\ \A u \in Task : window'[u] = (window[u] \/ u = t)
            /\ \E m \in Msg :
                 /\ msg[m].state = "free"
                 /\ msg' = [msg EXCEPT ![m] =
                              [task |-> t, state |-> "queued", deliveries |-> 0]]
            /\ window' \in [Task -> BOOLEAN]
<1>1. CASE window[t]
  BY <1>1 DEF Store
<1>2. CASE ~window[t]
  <2>1. /\ window' = [window EXCEPT ![t] = TRUE]
        /\ \E m \in Msg :
             /\ msg[m].state = "free"
             /\ msg' = [msg EXCEPT ![m] =
                          [task |-> t, state |-> "queued", deliveries |-> 0]]
    BY <1>2 DEF Store
  <2>2. ~Queued(t)
    BY <1>2 DEF Inv, Single
  <2>3. QED
    BY <1>2, <2>1, <2>2 DEF Inv, TypeOK
<1>3. QED
  BY <1>1, <1>2

\* What publishing does to the stream: nothing, or the first message of the task.
Stored(t) ==
  /\ Addressed'
  /\ \A u \in Task : Queued(u)' <=> Queued(u) \/ (u = t /\ window'[t] /\ ~window[t])
  /\ \A m, n \in Msg, u \in Task : InStream(m, u)' /\ InStream(n, u)' => m = n
  /\ \A u \in Task : window'[u] => window[u] \/ (u = t /\ Queued(t)')
  /\ \A u \in Task : window[u] => window'[u]
  /\ \A h \in Handler : handler[h].pc # "idle" => TaskOf(h)' = TaskOf(h)
  /\ msg' \in [Msg -> [task: Task \cup {NoTask},
                       state: {"free", "queued", "delivered", "deferred", "gone"},
                       deliveries: 0 .. MaxDeliver]]
  /\ window' \in [Task -> BOOLEAN]

\* A publication that never reached the stream changes nothing.
LEMMA UnstoredStored ==
  ASSUME Inv, NEW t \in Task, UNCHANGED <<msg, window, handler>>
  PROVE  Stored(t)
<1>1. /\ Addressed'
      /\ \A m \in Msg, u \in Task : InStream(m, u)' = InStream(m, u)
      /\ \A u \in Task : Queued(u)' = Queued(u)
      /\ \A h \in Handler : TaskOf(h)' = TaskOf(h)
  BY QuietHandlers
<1>2. QED
  BY <1>1 DEF Inv, TypeOK, Single, Stored

\* A publication leaves the task inside the window and with one message at
\* most.
LEMMA StoreStored ==
  ASSUME Inv, NEW t \in Task, Due(t), Store(t), UNCHANGED handler
  PROVE  Stored(t) /\ window'[t]
<1>1. CASE window[t] /\ UNCHANGED <<msg, window>>
  BY <1>1, UnstoredStored
<1>2. CASE /\ ~window[t] /\ ~Queued(t)
           /\ \A u \in Task : window'[u] = (window[u] \/ u = t)
           /\ \E m \in Msg :
                /\ msg[m].state = "free"
                /\ msg' = [msg EXCEPT ![m] =
                             [task |-> t, state |-> "queued", deliveries |-> 0]]
           /\ window' \in [Task -> BOOLEAN]
  <2>1. PICK m \in Msg : /\ msg[m].state = "free"
                         /\ msg' = [msg EXCEPT ![m] =
                              [task |-> t, state |-> "queued", deliveries |-> 0]]
    BY <1>2
  <2>2. /\ msg'[m] = [task |-> t, state |-> "queued", deliveries |-> 0]
        /\ \A n \in Msg : n # m => msg'[n] = msg[n]
    BY <2>1 DEF Inv, TypeOK
  <2>3. \A h \in Handler : handler[h].pc # "idle" => handler[h].msg # m /\ handler[h].msg \in Msg
    BY <2>1, Owner DEF Inv
  <2>4. Addressed'
    BY <2>2, <2>3 DEF Inv, Addressed
  <2>5. \A n \in Msg, u \in Task : InStream(n, u)' <=> InStream(n, u) \/ (n = m /\ u = t)
    BY <2>1, <2>2 DEF InStream
  <2>6. \A u \in Task : Queued(u)' <=> Queued(u) \/ u = t
    BY <2>5 DEF Queued
  <2>7. \A n, o \in Msg, u \in Task : InStream(n, u)' /\ InStream(o, u)' => n = o
    BY <1>2, <2>5 DEF Inv, Single, Queued
  <2>8. \A h \in Handler : handler[h].pc # "idle" => TaskOf(h)' = TaskOf(h)
    BY <2>2, <2>3 DEF TaskOf
  <2>9. msg' \in [Msg -> [task: Task \cup {NoTask},
                       state: {"free", "queued", "delivered", "deferred", "gone"},
                       deliveries: 0 .. MaxDeliver]]
    <3>1. 0 \in 0 .. MaxDeliver
      BY LimitsAssumption
    <3>2. QED
      BY <2>1, <3>1 DEF Inv, TypeOK
  <2>10. QED
    BY <1>2, <2>4, <2>6, <2>7, <2>8, <2>9 DEF Stored
<1>3. QED
  BY <1>1, <1>2, StoreCases

\* One attempt of publishOutbox.  After an acknowledgement the stream has the task's
\* message, or had it until the task settled.
LEMMA PublishInv ==
  ASSUME Inv, NEW p \in Publisher, NEW t \in Task, Publish(p, t) \/ PublishFails(p, t)
  PROVE  Inv'
<1>1. /\ t \in pub[p].batch /\ pub[p].current = NoTask
      /\ UNCHANGED <<task, outbox, handler, dead, userRetries>>
      /\ faults' \in 0 .. MaxFaults
  BY LimitsAssumption DEF Inv, TypeOK, Publish, PublishFails, Fault
<1>2. PICK outcome \in {"acked", "error"} :
        /\ pub' = [pub EXCEPT ![p] =
                     [batch |-> pub[p].batch \ {t}, current |-> t, outcome |-> outcome]]
        /\ outcome = "acked" => Store(t)
        /\ Store(t) \/ UNCHANGED <<msg, window>>
  BY DEF Publish, PublishFails, InHandAs
<1>3. outbox[t] = "locked" /\ Due(t)
  BY <1>1 DEF Inv, Held, Holds, Due
<1>4. Stored(t) /\ (outcome = "acked" => window'[t])
  BY <1>1, <1>2, <1>3, StoreStored, UnstoredStored
<1>5. /\ pub'[p] = [batch |-> pub[p].batch \ {t}, current |-> t, outcome |-> outcome]
      /\ \A q \in Publisher : q # p => pub'[q] = pub[q]
  BY <1>2 DEF Inv, TypeOK
<1>6. TypeOK'
  <2>1. pub' \in [Publisher -> [batch: SUBSET Task, current: Task \cup {NoTask},
                                outcome: {"none", "acked", "error"}]]
    BY <1>2 DEF Inv, TypeOK
  <2>2. QED
    BY <1>1, <1>4, <2>1 DEF Inv, TypeOK, Stored
<1>7. Paired'
  BY <1>1, <1>3, <1>4 DEF Inv, Paired, Stored
<1>8. \A q \in Publisher, u \in Task : Holds(q, u)' => Holds(q, u)
  <2> SUFFICES ASSUME NEW q \in Publisher, NEW u \in Task, Holds(q, u)'
               PROVE  Holds(q, u)
    OBVIOUS
  <2>1. CASE q = p
    BY <1>1, <1>5, <2>1 DEF Holds
  <2>2. CASE q # p
    BY <1>5, <2>2 DEF Holds
  <2>3. QED
    BY <2>1, <2>2
<1>9. Held'
  <2>1. \A q \in Publisher, u \in Task : Holds(q, u)' => outbox'[u] = "locked"
    BY <1>1, <1>8 DEF Inv, Held
  <2>2. \A q, r \in Publisher, u \in Task : Holds(q, u)' /\ Holds(r, u)' => q = r
    BY <1>8 DEF Inv, Held
  <2>3. \A q \in Publisher : /\ pub'[q].outcome = "none" <=> pub'[q].current = NoTask
                             /\ pub'[q].current \notin pub'[q].batch
    <3> SUFFICES ASSUME NEW q \in Publisher
                 PROVE  /\ pub'[q].outcome = "none" <=> pub'[q].current = NoTask
                        /\ pub'[q].current \notin pub'[q].batch
      OBVIOUS
    <3>1. CASE q = p
      BY <1>5, <3>1, NullAssumption
    <3>2. CASE q # p
      BY <1>5, <3>2 DEF Inv, Held
    <3>3. QED
      BY <3>1, <3>2
  <2>4. QED
    BY <2>1, <2>2, <2>3 DEF Held
<1>10. Single'
  BY <1>1, <1>4 DEF Inv, Single, Stored, Due
<1>11. Backed'
  <2> SUFFICES ASSUME NEW u \in Task, Unfinished(task[u])
               PROVE  /\ window'[u] => Queued(u)'
                      /\ \A q \in Publisher :
                           pub'[q].outcome = "acked" /\ pub'[q].current = u => Queued(u)'
                      /\ Due(u) \/ Queued(u)'
    BY <1>1 DEF Backed, Due
  <2>1. window'[u] => Queued(u)'
    BY <1>4 DEF Inv, Backed, Stored
  <2>2. ASSUME NEW q \in Publisher, pub'[q].outcome = "acked", pub'[q].current = u
        PROVE  Queued(u)'
    <3>1. CASE q = p
      BY <1>4, <1>5, <2>1, <2>2, <3>1
    <3>2. CASE q # p
      BY <1>4, <1>5, <2>2, <3>2 DEF Inv, Backed, Stored
    <3>3. QED
      BY <3>1, <3>2
  <2>3. Due(u) \/ Queued(u)'
    BY <1>4 DEF Inv, Backed, Stored
  <2>4. QED
    BY <2>1, <2>2, <2>3
<1>12. SettledFirst'
  BY <1>1, <1>4 DEF Inv, SettledFirst, Stored
<1>13. QED
  BY <1>4, <1>6, <1>7, <1>9, <1>10, <1>11, <1>12 DEF Inv, Stored

\* PublisherStops keeps the invariant.
LEMMA PublisherStopsInv ==
  ASSUME Inv, NEW p \in Publisher, PublisherStops(p)
  PROVE  Inv'
<1>1. /\ pub' = [pub EXCEPT ![p] = IdlePub]
      /\ UNCHANGED <<task, outbox, window, msg, handler, dead, userRetries>>
      /\ faults' \in 0 .. MaxFaults
  BY LimitsAssumption DEF Inv, TypeOK, PublisherStops, Fault
<1>2. pub'[p] = IdlePub /\ \A q \in Publisher : q # p => pub'[q] = pub[q]
  BY <1>1 DEF Inv, TypeOK
<1>3. TypeOK'
  BY <1>1 DEF Inv, TypeOK, IdlePub
<1>4. /\ Addressed'
      /\ \A m \in Msg, u \in Task : InStream(m, u)' = InStream(m, u)
      /\ \A u \in Task : Queued(u)' = Queued(u)
      /\ \A h \in Handler : TaskOf(h)' = TaskOf(h)
  BY <1>1, QuietHandlers
<1>5. \A q \in Publisher, u \in Task : Holds(q, u)' => Holds(q, u)
  BY <1>2, NullAssumption DEF Holds, IdlePub
<1>6. Held'
  <2>1. \A q \in Publisher : /\ pub'[q].outcome = "none" <=> pub'[q].current = NoTask
                             /\ pub'[q].current \notin pub'[q].batch
    BY <1>2 DEF Inv, Held, IdlePub
  <2>2. QED
    BY <1>1, <1>5, <2>1 DEF Inv, Held
<1>7. Paired' /\ Single'
  BY <1>1, <1>4 DEF Inv, Paired, Single, Due
<1>8. Backed'
  BY <1>1, <1>2, <1>4 DEF Inv, Backed, Due, IdlePub
<1>9. SettledFirst'
  BY <1>1, <1>4 DEF Inv, SettledFirst
<1>10. QED
  BY <1>3, <1>4, <1>6, <1>7, <1>8, <1>9 DEF Inv

-----------------------------------------------------------------------------
(* Theorems *)

\* The orderings the code relies on (see TaskQueue).
Timing == TimelyAck /\ PatientUser /\ WideWindow

\* The invariant holds before the first task.
LEMMA InitInv == Init => Inv
<1> SUFFICES ASSUME Init
             PROVE  Inv
  OBVIOUS
<1>1. \A m \in Msg, t \in Task : ~InStream(m, t)
  BY DEF Init, InStream
<1>2. \A p \in Publisher, t \in Task : ~Holds(p, t)
  BY NullAssumption DEF Init, IdlePub, Holds
<1>3. NoRow \in Rows /\ NoRow.status = "none"
  BY DEF NoRow, Rows, TaskStatuses, Leases
<1>4. TypeOK
  BY <1>3, LimitsAssumption DEF Init, TypeOK, IdlePub, IdleHandler, Steps
<1>5. Addressed
  BY DEF Init, Addressed, IdleHandler
<1>6. Paired
  BY <1>1, <1>3 DEF Init, Paired, Queued
<1>7. Held
  BY <1>2 DEF Init, Held, IdlePub
<1>8. Single
  BY <1>1 DEF Single, Queued
<1>9. Backed
  BY <1>3 DEF Init, Backed, Unfinished
<1>10. SettledFirst
  BY DEF Init, SettledFirst, IdleHandler
<1>11. QED
  BY <1>4, <1>5, <1>6, <1>7, <1>8, <1>9, <1>10 DEF Inv

\* Every step keeps the invariant.
LEMMA StepInv ==
  ASSUME Timing
  PROVE  Inv /\ [Next]_vars => Inv'
<1> SUFFICES ASSUME Inv, [Next]_vars
             PROVE  Inv'
  OBVIOUS
<1>1. CASE UNCHANGED vars
  BY <1>1 DEF vars, Inv, TypeOK, Addressed, Paired, Held, Holds, Single, Backed, Due, Queued,
              InStream, SettledFirst, TaskOf
<1>2. ASSUME NEW t \in Task,
             Create(t) \/ UserRetry(t) \/ WindowCloses(t) \/ Expiry(t)
      PROVE  Inv'
  BY <1>2, CreateInv, UserRetryInv, ExpiryInv, LeaseLapsesInv DEF Expiry, Timing
<1>3. ASSUME NEW p \in Publisher, PublisherStep(p) \/ PublisherFault(p)
      PROVE  Inv'
  BY <1>3, ClaimBatchInv, LetGoInv, PublishInv, PublisherStopsInv
     DEF PublisherStep, PublisherFault
<1>4. ASSUME NEW m \in Msg,
             AckWaitEnds(m) \/ DelayEnds(m) \/ \E h \in Handler : Deliver(m, h)
      PROVE  Inv'
  BY <1>4, RequeueInv, DeliverInv DEF Timing
<1>5. ASSUME NEW h \in Handler, HandlerStep(h) \/ HandlerFault(h)
      PROVE  Inv'
  <2>1. TypeOK /\ Addressed /\ SettledFirst
    BY DEF Inv
  <2>2. CASE Nak(h) \/ Crash(h)
    BY <2>2, LeaveInv
  <2>3. CASE Ack(h)
    BY <2>3, AckInv
  <2>4. CASE \/ Claim(h) \/ ClaimErrs(h) \/ ScheduleRetry(h) \/ RetryReplyLost(h)
             \/ Complete(h) \/ ResetDocument(h) \/ FailTask(h)
             \/ CheckDuplicate(h) \/ StageEnds(h) \/ FailDocument(h) \/ DeadLetter(h)
             \/ RecoveryErrs(h)
    <3>1. Keeps(h)
      BY <2>1, <2>4, ClaimKeeps, RetryKeeps, SettlingKeeps, StayingKeeps, RecoveryErrsKeeps
    <3>2. QED
      BY <3>1, KeepsInv
  <2>5. QED
    BY <1>5, <2>2, <2>3, <2>4 DEF HandlerStep, HandlerFault
<1>6. QED
  BY <1>1, <1>2, <1>3, <1>4, <1>5 DEF Next

\* The invariant holds in every reachable state: rows to publish, messages,
\* handlers and leases of each task fit together (IndexTaskRepo, OutboxRepo,
\* Manager.run).
THEOREM Invariance ==
  ASSUME Timing
  PROVE  Spec => []Inv
BY InitInv, StepInv, PTL DEF Spec

\* Every variable keeps the type of the column, stream field or program counter it
\* stands for (all of manager.go's and the repositories' statements).
THEOREM TypeCorrectness ==
  ASSUME Timing
  PROVE  Spec => []TypeOK
<1>1. Inv => TypeOK
  BY DEF Inv
<1>2. QED
  BY <1>1, Invariance, PTL

\* An unfinished task always has an outbox row to publish or a message in the stream
\* (IndexTaskRepo.Create's transaction, publishOutbox, acknowledging last).
THEOREM NoTaskIsLost ==
  ASSUME Timing
  PROVE  Spec => []NotLost
<1>1. Inv => NotLost
  BY DEF Inv, Backed, NotLost, Due, Queued
<1>2. QED
  BY <1>1, Invariance, PTL

\* Two handlers inside the stage of one task would have to answer one message, and a
\* message has one handler at a time (Manager.run, Claim, AckWait).
THEOREM MutualExclusion ==
  ASSUME Timing
  PROVE  Spec => []Exclusive
<1>1. Inv => Exclusive
  <2> SUFFICES ASSUME Inv, NEW t \in Task, NEW g \in Handler, NEW h \in Handler,
                      Executing(g, t), Executing(h, t)
               PROVE  g = h
    BY DEF Exclusive
  <2>1. /\ handler[g].msg \in Msg /\ InStream(handler[g].msg, t)
        /\ handler[h].msg \in Msg /\ InStream(handler[h].msg, t)
    BY Owner DEF Inv, Executing
  <2>2. handler[g].msg = handler[h].msg /\ handler[g].msg # NoMsg
    BY <2>1, NullAssumption DEF Inv, Single
  <2>3. QED
    BY <2>2 DEF Inv, Addressed
<1>2. QED
  BY <1>1, Invariance, PTL

\* A message leaves the stream only when its task has a final status: Ack comes after
\* the statement that stores it, and nothing takes the status back in between.
THEOREM AcknowledgedLast ==
  ASSUME Timing
  PROVE  Spec => AckOnlyWhenSettled
<1> DEFINE Last == \A m \in Msg : msg[m].state # "gone" /\ msg'[m].state = "gone"
                                   => Terminal(task[msg[m].task])
<1>1. Inv /\ [Next]_vars => Last
  <2> SUFFICES ASSUME Inv, [Next]_vars, NEW m \in Msg,
                      msg[m].state # "gone", msg'[m].state = "gone"
               PROVE  Terminal(task[msg[m].task])
    OBVIOUS
  <2>1. msg' # msg
    OBVIOUS
  <2>2. ASSUME NEW h \in Handler, Ack(h)
        PROVE  Terminal(task[msg[m].task])
    <3>1. handler[h].pc = "ack" /\ msg' = [msg EXCEPT ![handler[h].msg].state = "gone"]
      BY <2>2 DEF Ack, At
    <3>2. m = handler[h].msg
      BY <3>1 DEF Inv, TypeOK
    <3>3. QED
      BY <3>1, <3>2, Owner DEF Inv, SettledFirst
  <2>3. ASSUME NEW h \in Handler, Nak(h)
        PROVE  FALSE
    <3>1. msg' = msg \/ msg' = [msg EXCEPT ![handler[h].msg].state = "queued"]
                     \/ msg' = [msg EXCEPT ![handler[h].msg].state = "deferred"]
      BY <2>3 DEF Nak
    <3>2. QED
      BY <3>1 DEF Inv, TypeOK
  <2>4. ASSUME NEW n \in Msg, NEW h \in Handler, Deliver(n, h)
        PROVE  FALSE
    <3>1. msg' = [msg EXCEPT ![n].state = "delivered", ![n].deliveries = @ + 1]
      BY <2>4 DEF Deliver
    <3>2. msg'[m].state = IF m = n THEN "delivered" ELSE msg[m].state
      BY <3>1 DEF Inv, TypeOK
    <3>3. QED
      BY <3>2
  <2>5. ASSUME NEW n \in Msg, AckWaitEnds(n) \/ DelayEnds(n)
        PROVE  FALSE
    <3>1. msg' = [msg EXCEPT ![n].state = "queued"]
      BY <2>5 DEF AckWaitEnds, DelayEnds
    <3>2. QED
      BY <3>1 DEF Inv, TypeOK
  <2>6. ASSUME NEW p \in Publisher, NEW t \in Task, Publish(p, t) \/ PublishFails(p, t)
        PROVE  FALSE
    <3>1. msg' = msg \/ \E n \in Msg : msg' = [msg EXCEPT ![n] =
                          [task |-> t, state |-> "queued", deliveries |-> 0]]
      BY <2>6 DEF Publish, PublishFails, Store
    <3>2. QED
      BY <3>1 DEF Inv, TypeOK
  <2>7. CASE UNCHANGED vars
    BY <2>1, <2>7 DEF vars
  <2>8. ASSUME NEW t \in Task,
               Create(t) \/ UserRetry(t) \/ WindowCloses(t) \/ Expiry(t)
        PROVE  FALSE
    BY <2>1, <2>8 DEF Create, UserRetry, WindowCloses, Expiry, LockLapses, LeaseLapses
  <2>9. ASSUME NEW p \in Publisher, PublisherStep(p) \/ PublisherFault(p)
        PROVE  FALSE
    BY <2>1, <2>6, <2>9 DEF PublisherStep, PublisherFault, ClaimBatch, MarkPublished,
                            MarkFailed, PublisherStops
  <2>10. ASSUME NEW h \in Handler, HandlerStep(h) \/ HandlerFault(h)
         PROVE  \/ Ack(h) \/ Nak(h)
    BY <2>1, <2>10
       DEF HandlerStep, HandlerFault, Claim, CheckDuplicate, StageEnds, Complete, ScheduleRetry,
           ResetDocument, FailDocument, FailTask, DeadLetter, ClaimErrs, RetryReplyLost,
           RecoveryErrs, Crash, KeepRows
  <2>11. QED
    BY <2>2, <2>3, <2>4, <2>5, <2>7, <2>8, <2>9, <2>10 DEF Next
<1>2. QED
  BY <1>1, Invariance, PTL DEF Spec, AckOnlyWhenSettled

\* What a step may do to the rows.
Writes ==
  \/ task' = task
  \/ \E t, row : task' = [task EXCEPT ![t] = row] /\ task[t].status # "success"

\* UpdateStatus never writes over a success.
LEMMA SettleWrites ==
  ASSUME NEW h \in Handler, NEW next \in {"success", "failed"}, NEW done, NEW conflict,
         Settle(h, next, done, conflict)
  PROVE  Writes
<1>1. next \in TaskStatuses
  BY DEF TaskStatuses
<1>2. CASE CanMove(task[TaskOf(h)], next)
  <2>1. task[TaskOf(h)].status # "success"
    BY <1>2 DEF CanMove, TaskPreviousStatuses
  <2>2. task' = [task EXCEPT ![TaskOf(h)] = Moved(task[TaskOf(h)], next)]
    BY <1>2 DEF Settle
  <2>3. QED
    BY <2>1, <2>2 DEF Writes
<1>3. CASE ~CanMove(task[TaskOf(h)], next)
  BY <1>3 DEF Settle, Writes
<1>4. QED
  BY <1>2, <1>3

\* No step writes over a success.
LEMMA NextWrites ==
  ASSUME [Next]_vars
  PROVE  Writes
<1>1. ASSUME NEW t \in Task, Create(t) \/ UserRetry(t) \/ LeaseLapses(t)
      PROVE  Writes
  <2>1. CASE Create(t)
    <3>1. task' = [task EXCEPT ![t] = NewRow] /\ task[t].status # "success"
      BY <2>1 DEF Create, NoRow
    <3>2. QED
      BY <3>1 DEF Writes
  <2>2. CASE UserRetry(t)
    <3>1. task' = [task EXCEPT ![t] = BackToPending(task[t])] /\ task[t].status = "failed"
      BY <2>2 DEF UserRetry, CanRetry
    <3>2. QED
      BY <3>1 DEF Writes
  <2>3. CASE LeaseLapses(t)
    <3>1. task' = [task EXCEPT ![t] = [task[t] EXCEPT !.lease = "lapsed"]]
      BY <2>3 DEF LeaseLapses
    <3>2. QED
      BY <2>3, <3>1 DEF LeaseLapses, Writes
  <2>4. QED
    BY <1>1, <2>1, <2>2, <2>3
<1>2. ASSUME NEW h \in Handler, Claim(h) \/ ClaimErrs(h)
      PROVE  Writes
  <2>1. CASE task' = task
    BY <2>1 DEF Writes
  <2>2. CASE task' # task
    <3>1. /\ Claimable(task[TaskOf(h)])
          /\ task' = [task EXCEPT ![TaskOf(h)] = Claimed(task[TaskOf(h)])]
      BY <1>2, <2>2 DEF Claim, ClaimErrs
    <3>2. task[TaskOf(h)].status # "success"
      BY <3>1 DEF Claimable
    <3>3. QED
      BY <3>1, <3>2 DEF Writes
  <2>3. QED
    BY <2>1, <2>2
<1>3. ASSUME NEW h \in Handler, ScheduleRetry(h) \/ RetryReplyLost(h)
      PROVE  Writes
  <2>1. CASE CanScheduleRetry(task[TaskOf(h)], MaxRetries)
    <3>1. task' = [task EXCEPT ![TaskOf(h)] = BackToPending(task[TaskOf(h)])]
      BY <1>3, <2>1 DEF ScheduleRetry, RetryReplyLost
    <3>2. task[TaskOf(h)].status # "success"
      BY <2>1 DEF CanScheduleRetry
    <3>3. QED
      BY <3>1, <3>2 DEF Writes
  <2>2. CASE ~CanScheduleRetry(task[TaskOf(h)], MaxRetries)
    <3>1. task' = task
      BY <1>3, <2>2 DEF ScheduleRetry, RetryReplyLost
    <3>2. QED
      BY <3>1 DEF Writes
  <2>3. QED
    BY <2>1, <2>2
<1>4. ASSUME NEW h \in Handler, Complete(h) \/ ResetDocument(h) \/ FailTask(h)
      PROVE  Writes
  BY <1>4, SettleWrites DEF Complete, ResetDocument, FailTask, Writes
<1>5. ASSUME NEW h \in Handler, RecoveryErrs(h)
      PROVE  Writes
  <2> DEFINE next == IF At(h, "complete") THEN "success" ELSE "failed"
  <2>1. CASE task' = task
    BY <2>1 DEF Writes
  <2>2. CASE task' # task
    <3>1. /\ CanMove(task[TaskOf(h)], next)
          /\ task' = [task EXCEPT ![TaskOf(h)] = Moved(task[TaskOf(h)], next)]
      BY <1>5, <2>2 DEF RecoveryErrs
    <3>2. task[TaskOf(h)].status # "success"
      BY <3>1 DEF CanMove, TaskPreviousStatuses
    <3>3. QED
      BY <3>1, <3>2 DEF Writes
  <2>3. QED
    BY <2>1, <2>2
<1>6. ASSUME UNCHANGED task
      PROVE  Writes
  BY <1>6 DEF Writes
<1>7. ASSUME NEW t \in Task,
             Create(t) \/ UserRetry(t) \/ WindowCloses(t) \/ Expiry(t)
      PROVE  Writes
  BY <1>1, <1>6, <1>7 DEF WindowCloses, Expiry, LockLapses
<1>8. ASSUME NEW p \in Publisher, PublisherStep(p) \/ PublisherFault(p)
      PROVE  Writes
  BY <1>6, <1>8 DEF PublisherStep, PublisherFault, ClaimBatch, Publish, PublishFails,
                    MarkPublished, MarkFailed, PublisherStops
<1>9. ASSUME NEW m \in Msg,
             AckWaitEnds(m) \/ DelayEnds(m) \/ \E h \in Handler : Deliver(m, h)
      PROVE  Writes
  BY <1>6, <1>9 DEF AckWaitEnds, DelayEnds, Deliver
<1>10. ASSUME NEW h \in Handler, HandlerStep(h) \/ HandlerFault(h)
       PROVE  Writes
  BY <1>2, <1>3, <1>4, <1>5, <1>6, <1>10
     DEF HandlerStep, HandlerFault, CheckDuplicate, StageEnds, FailDocument, DeadLetter, Ack,
         Nak, Crash, KeepRows
<1>11. CASE UNCHANGED vars
  BY <1>6, <1>11 DEF vars
<1>12. QED
  BY <1>7, <1>8, <1>9, <1>10, <1>11 DEF Next

\* A task that ended well is never run or failed again, whatever the clocks do: every
\* statement of IndexTaskRepo asks for a status that success is not.
THEOREM SuccessForEver == Spec => SuccessIsFinal
<1> DEFINE Table == task = [t \in Task |-> task[t]]
           Kept == \A t \in Task : task[t].status = "success" => task'[t].status = "success"
<1>1. Init => Table
  BY DEF Init
<1>2. Table /\ [Next]_vars => Table' /\ Kept
  <2> SUFFICES ASSUME Table, [Next]_vars
               PROVE  Table' /\ Kept
    OBVIOUS
  <2>1. CASE task' = task
    BY <2>1
  <2>2. CASE \E t, row : task' = [task EXCEPT ![t] = row] /\ task[t].status # "success"
    BY <2>2
  <2>3. QED
    BY <2>1, <2>2, NextWrites DEF Writes
<1>3. QED
  BY <1>1, <1>2, PTL DEF Spec, SuccessIsFinal

-----------------------------------------------------------------------------
(* What a message's deliveries were used for *)

\* A delivery after the first is paid for by an automatic retry, which pays for one, or by
\* a fault, which pays for two.  A message that comes back while the row's lease runs will
\* be put off and delivered once more: Wait is that delivery.
Wait(row) == IF row.lease = "live" THEN 1 ELSE 0

Untouched(t) == userRetries[t] = 0 /\ Unfinished(task[t])

Paid(m, t) == msg[m].deliveries <= task[t].retries + 2 * faults

\* Messages that no handler has.
Resting ==
  \A m \in Msg, t \in Task : InStream(m, t) /\ Untouched(t) =>
    /\ msg[m].state = "queued" => msg[m].deliveries + Wait(task[t]) <= task[t].retries + 2 * faults
    /\ ~Handled(m) => Paid(m, t)

\* A handler at a step, with a row, after that many deliveries and faults.
Frugal(step, row, deliveries, n) ==
  LET paid == row.retries + 2 * n
  IN  /\ deliveries <= paid + 1
      /\ step = "claim" => deliveries + Wait(row) <= paid + 1
      /\ step \in {"check", "defer", "reset"} => deliveries <= paid
      /\ step = "nak" => deliveries + Wait(row) <= paid

Fits(step, row, deliveries, n) ==
  /\ step \in {"work", "complete", "retry"} => row.status = "running"
  /\ step = "reset" => row.status # "running"
  /\ Unfinished(row) => Frugal(step, row, deliveries, n)

Working(h) ==
  handler[h].pc # "idle" /\ userRetries[TaskOf(h)] = 0 =>
    Fits(handler[h].pc, task[TaskOf(h)], msg[handler[h].msg].deliveries, faults)

\* A task that was not published yet was never run; only what runs has a lease; only users
\* go beyond MaxRetries.
Fresh ==
  \A t \in Task : userRetries[t] = 0 /\ Due(t) /\ ~window[t] => task[t] = NewRow

Neat(row, byUsers) ==
  /\ row.status # "running" => row.lease = "null"
  /\ byUsers = 0 => row.retries <= MaxRetries

Thrift ==
  /\ Resting
  /\ \A h \in Handler : Working(h)
  /\ Fresh
  /\ \A t \in Task : Neat(task[t], userRetries[t])

\* What the statements write.
LEMMA RowFields ==
  ASSUME NEW row \in Rows
  PROVE  /\ row.retries \in Nat
         /\ Claimed(row).retries = row.retries /\ Claimed(row).lease = "live"
         /\ BackToPending(row).retries = row.retries + 1 /\ BackToPending(row).lease = "null"
         /\ \A next \in TaskStatuses :
              Moved(row, next).retries = row.retries /\ Moved(row, next).lease = "null"
BY DEF Rows, Claimed, BackToPending, Moved

\* The numbers are numbers.
LEMMA Numbers ==
  ASSUME TypeOK
  PROVE  /\ faults \in Nat
         /\ \A m \in Msg : msg[m].deliveries \in Nat
         /\ \A t \in Task : task[t] \in Rows /\ task[t].retries \in Nat /\ Wait(task[t]) \in {0, 1}
BY LimitsAssumption DEF TypeOK, Rows, Wait

Put(t, row) == task' = [task EXCEPT ![t] = row]

\* A step of a handler inside run that pays for what it will need.
Spends(h) ==
  /\ handler[h].pc # "idle"
  /\ UNCHANGED <<msg, outbox, window, userRetries>>
  /\ faults' \in Nat /\ faults <= faults'
  /\ \E step \in Steps \ {"idle"}, row \in Rows :
       /\ Goto(h, step) /\ Put(TaskOf(h), row)
       /\ Neat(row, userRetries[TaskOf(h)])
       /\ userRetries[TaskOf(h)] = 0 =>
            Fits(step, row, msg[handler[h].msg].deliveries, faults')

\* Nobody else answers a message of the task, and the task was published.
LEMMA SpendsThrift ==
  ASSUME Inv, Thrift, NEW h \in Handler, Spends(h)
  PROVE  Thrift'
<1> DEFINE t == TaskOf(h)
<1>1. PICK step \in Steps \ {"idle"}, row \in Rows :
        /\ handler' = [handler EXCEPT ![h].pc = step]
        /\ task' = [task EXCEPT ![t] = row]
        /\ Neat(row, userRetries[t])
        /\ userRetries[t] = 0 => Fits(step, row, msg[handler[h].msg].deliveries, faults')
  BY DEF Spends, Goto, Put
<1>2. UNCHANGED <<msg, outbox, window, userRetries>> /\ faults' \in Nat /\ faults <= faults'
  BY DEF Spends
<1>3. t \in Task /\ handler[h].msg \in Msg /\ InStream(handler[h].msg, t)
  BY Owner DEF Inv, Spends
<1>4. \A u \in Task : task'[u] = IF u = t THEN row ELSE task[u]
  BY <1>1 DEF Inv, TypeOK
<1>5. \A g \in Handler : /\ handler'[g].msg = handler[g].msg
                         /\ TaskOf(g)' = TaskOf(g)
                         /\ handler'[g].pc = IF g = h THEN step ELSE handler[g].pc
  BY <1>1, <1>2 DEF Inv, TypeOK, TaskOf
<1>6. \A m \in Msg, u \in Task : InStream(m, u) /\ m # handler[h].msg => u # t
  BY <1>3 DEF Inv, Single
<1>7. /\ faults \in Nat
      /\ \A m \in Msg : msg[m].deliveries \in Nat
      /\ \A u \in Task : task[u].retries \in Nat /\ Wait(task[u]) \in {0, 1}
  BY Numbers DEF Inv
<1>8. Resting'
  <2> SUFFICES ASSUME NEW m \in Msg, NEW u \in Task, InStream(m, u), Untouched(u)'
               PROVE  /\ msg[m].state = "queued" =>
                           msg[m].deliveries + Wait(task'[u]) <= task'[u].retries + 2 * faults'
                      /\ ~Handled(m)' => msg[m].deliveries <= task'[u].retries + 2 * faults'
    BY <1>2 DEF Resting, InStream, Paid
  <2>1. CASE m = handler[h].msg
    <3>1. Handled(m)' /\ msg[m].state = "delivered"
      BY <1>5, <2>1, Owner DEF Handled, Inv, Spends
    <3>2. QED
      BY <3>1
  <2>2. CASE m # handler[h].msg
    <3>1. task'[u] = task[u] /\ Untouched(u)
      BY <1>2, <1>4, <1>6, <2>2 DEF Untouched
    <3>2. Handled(m)' <=> Handled(m)
      BY <1>5 DEF Handled
    <3>3. /\ msg[m].state = "queued" => msg[m].deliveries + Wait(task[u]) <= task[u].retries + 2 * faults
          /\ ~Handled(m) => msg[m].deliveries <= task[u].retries + 2 * faults
      BY <3>1 DEF Thrift, Resting, Paid
    <3>4. QED
      BY <1>2, <1>7, <3>1, <3>2, <3>3
  <2>3. QED
    BY <2>1, <2>2
<1>9. ASSUME NEW g \in Handler
      PROVE  Working(g)'
  <2>1. CASE g = h
    BY <1>1, <1>2, <1>3, <1>4, <1>5, <2>1 DEF Working
  <2>2. CASE g # h /\ handler[g].pc # "idle"
    <3>1. /\ handler[g].msg \in Msg /\ TaskOf(g) \in Task
          /\ InStream(handler[g].msg, TaskOf(g)) /\ handler[g].msg # NoMsg
      BY <2>2, Owner, NullAssumption DEF Inv
    <3>2. TaskOf(g) # t
      BY <1>6, <2>2, <3>1 DEF Inv, Addressed
    <3>3. userRetries[TaskOf(g)] = 0 =>
            Fits(handler[g].pc, task[TaskOf(g)], msg[handler[g].msg].deliveries, faults)
      BY <2>2 DEF Thrift, Working
    <3>4. userRetries[TaskOf(g)] = 0 =>
            Fits(handler[g].pc, task[TaskOf(g)], msg[handler[g].msg].deliveries, faults')
      BY <1>2, <1>7, <3>1, <3>3 DEF Fits, Frugal
    <3>5. QED
      BY <1>2, <1>4, <1>5, <2>2, <3>1, <3>2, <3>4 DEF Working
  <2>3. CASE g # h /\ handler[g].pc = "idle"
    BY <1>5, <2>3 DEF Working
  <2>4. QED
    BY <2>1, <2>2, <2>3
<1>10. Fresh'
  BY <1>2, <1>3, <1>4 DEF Thrift, Fresh, Due, Inv, Single, Queued
<1>11. \A u \in Task : Neat(task[u], userRetries[u])'
  BY <1>1, <1>2, <1>4 DEF Thrift, Neat
<1>12. QED
  BY <1>8, <1>9, <1>10, <1>11 DEF Thrift

\* A step that leaves the row alone.
LEMMA StaySpends ==
  ASSUME Inv, Thrift, NEW h \in Handler, handler[h].pc # "idle",
         UNCHANGED <<task, msg, outbox, window, userRetries>>,
         faults' \in Nat, faults <= faults',
         NEW step \in Steps \ {"idle"}, Goto(h, step),
         userRetries[TaskOf(h)] = 0 =>
           Fits(step, task[TaskOf(h)], msg[handler[h].msg].deliveries, faults')
  PROVE  Spends(h)
<1>1. TaskOf(h) \in Task /\ task[TaskOf(h)] \in Rows
  BY Owner DEF Inv
<1>2. Put(TaskOf(h), task[TaskOf(h)])
  BY <1>1 DEF Inv, TypeOK, Put
<1>3. Neat(task[TaskOf(h)], userRetries[TaskOf(h)])
  BY <1>1 DEF Thrift
<1>4. QED
  BY <1>1, <1>2, <1>3 DEF Spends

\* What a handler can count on.
LEMMA Accounts ==
  ASSUME Inv, Thrift, NEW h \in Handler, handler[h].pc # "idle"
  PROVE  /\ TaskOf(h) \in Task /\ task[TaskOf(h)] \in Rows
         /\ task[TaskOf(h)].retries \in Nat /\ faults \in Nat
         /\ msg[handler[h].msg].deliveries \in Nat
         /\ Neat(task[TaskOf(h)], userRetries[TaskOf(h)])
         /\ userRetries[TaskOf(h)] = 0 =>
              Fits(handler[h].pc, task[TaskOf(h)], msg[handler[h].msg].deliveries, faults)
BY Owner, Numbers DEF Inv, Thrift, Working

\* A claim met a pending row or a lapsed lease, or there is a wait to pay for.
LEMMA ClaimSpends ==
  ASSUME Inv, Thrift, NEW h \in Handler, Claim(h) \/ ClaimErrs(h)
  PROVE  Spends(h)
<1> DEFINE t == TaskOf(h)
           d == msg[handler[h].msg].deliveries
<1>1. handler[h].pc = "claim" /\ UNCHANGED <<msg, outbox, window, userRetries>>
  BY DEF Claim, ClaimErrs, At, storeVars
<1>2. /\ task[t] \in Rows /\ t \in Task /\ task[t].retries \in Nat /\ faults \in Nat /\ d \in Nat
      /\ Neat(task[t], userRetries[t])
      /\ userRetries[t] = 0 => Fits("claim", task[t], d, faults)
  BY <1>1, Accounts
<1>3. CASE Claimable(task[t]) /\ Put(t, Claimed(task[t]))
  <2> DEFINE row == Claimed(task[t])
  <2>1. /\ row \in Rows /\ row.status = "running" /\ row.lease = "live"
        /\ row.retries = task[t].retries
    BY <1>2, RowTypes, RowFields
  <2>2. task'[t] = row /\ Unfinished(task[t]) /\ Wait(task[t]) = 0
    BY <1>2, <1>3 DEF Claimable, Unfinished, Inv, TypeOK, Wait, Thrift, Neat, Put
  <2>3. Put(t, row)
    BY <1>3
  <2>4. \/ Goto(h, "work") /\ faults' = faults
        \/ Goto(h, "nak") /\ faults' = faults + 1
    BY <1>1, <1>3, <2>1, <2>2 DEF Claim, ClaimErrs, Fault, At
  <2>5. Neat(row, userRetries[t])
    BY <1>2, <2>1 DEF Neat
  <2>6. userRetries[t] = 0 => /\ Fits("work", row, d, faults)
                              /\ Fits("nak", row, d, faults + 1)
    BY <1>2, <2>1, <2>2 DEF Fits, Frugal, Wait
  <2> HIDE DEF row, d
  <2>7. QED
    BY <1>1, <1>2, <2>1, <2>3, <2>4, <2>5, <2>6 DEF Spends, Steps, d
<1>4. CASE task' = task
  <2>1. \/ /\ Goto(h, "check") /\ faults' = faults
           /\ ~Claimable(task[t])
        \/ /\ Goto(h, "nak")
           /\ faults' = faults + 1
        \/ Claimable(task[t]) /\ Put(t, Claimed(task[t]))
    BY <1>4 DEF Claim, ClaimErrs, Fault, Put
  <2>2. userRetries[t] = 0 =>
          /\ ~Claimable(task[t]) => Fits("check", task[t], d, faults)
          /\ Fits("nak", task[t], d, faults + 1)
    BY <1>2 DEF Fits, Frugal, Wait, Claimable, Unfinished
  <2>3. QED
    BY <1>1, <1>2, <1>3, <1>4, <2>1, <2>2, StaySpends DEF Steps
<1>5. QED
  BY <1>3, <1>4 DEF Claim, ClaimErrs, Put

\* An automatic retry pays for the next delivery.
LEMMA RetrySpends ==
  ASSUME Inv, Thrift, NEW h \in Handler, ScheduleRetry(h) \/ RetryReplyLost(h)
  PROVE  Spends(h)
<1> DEFINE t == TaskOf(h)
           d == msg[handler[h].msg].deliveries
<1>1. handler[h].pc = "retry" /\ UNCHANGED <<msg, outbox, window, userRetries>>
  BY DEF ScheduleRetry, RetryReplyLost, At, storeVars
<1>2. /\ task[t] \in Rows /\ t \in Task /\ task[t].retries \in Nat /\ faults \in Nat /\ d \in Nat
      /\ Neat(task[t], userRetries[t])
      /\ userRetries[t] = 0 => Fits("retry", task[t], d, faults)
  BY <1>1, Accounts
<1>3. CASE CanScheduleRetry(task[t], MaxRetries)
  <2> DEFINE row == BackToPending(task[t])
  <2>1. /\ row \in Rows /\ row.status = "pending" /\ row.lease = "null"
        /\ row.retries = task[t].retries + 1
    BY <1>2, RowTypes, RowFields
  <2>2. Put(t, row) /\ task[t].retries < MaxRetries
    BY <1>3 DEF ScheduleRetry, RetryReplyLost, CanScheduleRetry, Put
  <2>3. \/ Goto(h, "reset") /\ faults' = faults
        \/ Goto(h, "failDoc") /\ faults' = faults + 1
    BY <1>3 DEF ScheduleRetry, RetryReplyLost, Fault
  <2>4. Neat(row, userRetries[t])
    BY <1>2, <2>1, <2>2, LimitsAssumption DEF Neat
  <2>5. userRetries[t] = 0 => /\ Fits("reset", row, d, faults)
                              /\ Fits("failDoc", row, d, faults + 1)
    BY <1>2, <2>1 DEF Fits, Frugal, Wait, Unfinished
  <2> HIDE DEF row, d
  <2>6. QED
    BY <1>1, <1>2, <2>1, <2>2, <2>3, <2>4, <2>5 DEF Spends, Steps, d
<1>4. CASE ~CanScheduleRetry(task[t], MaxRetries)
  <2>1. /\ task' = task /\ Goto(h, "failDoc")
        /\ faults' = faults
    BY <1>4 DEF ScheduleRetry, RetryReplyLost
  <2>2. userRetries[t] = 0 => Fits("failDoc", task[t], d, faults)
    BY <1>2 DEF Fits, Frugal, Unfinished
  <2>3. QED
    BY <1>1, <1>2, <2>1, <2>2, StaySpends DEF Steps
<1>5. QED
  BY <1>3, <1>4

\* Once a row has settled nothing more is owed.
LEMMA SettledSpends ==
  ASSUME Inv, Thrift, NEW h \in Handler, handler[h].pc # "idle",
         NEW next \in {"success", "failed"},
         UNCHANGED <<msg, outbox, window, userRetries>>,
         faults' \in Nat, faults <= faults',
         Put(TaskOf(h), Moved(task[TaskOf(h)], next)),
         NEW step \in Steps \ {"idle", "work", "complete", "retry"},
         Goto(h, step)
  PROVE  Spends(h)
<1> DEFINE t == TaskOf(h)
           row == Moved(task[t], next)
<1>1. task[t] \in Rows /\ task[t].retries \in Nat /\ Neat(task[t], userRetries[t])
  BY Accounts
<1>2. next \in TaskStatuses
  BY DEF TaskStatuses
<1>3. row \in Rows /\ row.status = next /\ row.lease = "null" /\ row.retries = task[t].retries
  BY <1>1, <1>2, RowTypes, RowFields
<1>4. Neat(row, userRetries[t])
  BY <1>1, <1>3 DEF Neat
<1>5. Fits(step, row, msg[handler[h].msg].deliveries, faults')
  BY <1>3 DEF Fits, Unfinished
<1> HIDE DEF row
<1>6. Put(t, row)
  BY DEF row
<1>7. QED
  BY <1>3, <1>4, <1>5, <1>6 DEF Spends

\* Complete, ResetDocument and FailTask find the row in a status they can move, or have
\* paid for the next delivery.
LEMMA SettlingSpends ==
  ASSUME Inv, Thrift, NEW h \in Handler, Complete(h) \/ ResetDocument(h) \/ FailTask(h)
  PROVE  Spends(h)
<1> DEFINE t == TaskOf(h)
           d == msg[handler[h].msg].deliveries
           next == IF At(h, "complete") THEN "success" ELSE "failed"
<1>1. /\ handler[h].pc \in {"complete", "reset", "failTask"}
      /\ UNCHANGED <<msg, outbox, window, userRetries>>
  BY DEF Complete, ResetDocument, FailTask, At, storeVars
<1>2. /\ task[t] \in Rows /\ t \in Task /\ task[t].retries \in Nat /\ faults \in Nat /\ d \in Nat
      /\ Neat(task[t], userRetries[t])
      /\ userRetries[t] = 0 => Fits(handler[h].pc, task[t], d, faults)
  BY <1>1, Accounts
<1>3. faults' \in {faults, faults + 1}
  BY DEF Complete, ResetDocument, FailTask, Fault, NoFault
<1>4. CASE /\ Put(t, Moved(task[t], next))
           /\ \E step \in {"ack", "failDoc", "deadLetter"} :
                Goto(h, step)
  BY <1>1, <1>2, <1>3, <1>4, SettledSpends DEF Steps
<1>5. CASE Complete(h) /\ ~CanMove(task[t], next)
  <2>1. task' = task /\ Goto(h, "nak") /\ faults' = faults
    BY <1>5 DEF Complete, Settle
  <2>2. userRetries[t] # 0
    BY <1>2, <1>5 DEF Complete, At, Fits, CanMove, TaskPreviousStatuses
  <2>3. QED
    BY <1>1, <1>2, <2>1, <2>2, StaySpends DEF Steps
<1>6. CASE FailTask(h) /\ ~CanMove(task[t], next)
  <2>1. task' = task /\ Goto(h, "nak") /\ faults' = faults
    BY <1>6 DEF FailTask, Settle, At
  <2>2. ~Unfinished(task[t])
    BY <1>6 DEF FailTask, At, CanMove, TaskPreviousStatuses, Unfinished
  <2>3. Fits("nak", task[t], d, faults)
    BY <2>2 DEF Fits
  <2>4. QED
    BY <1>1, <1>2, <2>1, <2>3, StaySpends DEF Steps
<1>7. CASE ResetDocument(h) /\ task' = task
  <2>1. handler[h].pc = "reset"
    BY <1>7 DEF ResetDocument, At
  <2>2. \/ Goto(h, "nak") /\ faults' = faults
        \/ Goto(h, "failDoc") /\ faults' = faults + 1
    BY <1>7 DEF ResetDocument, Settle, NoFault, Fault
  <2>3. userRetries[t] = 0 => /\ Fits("nak", task[t], d, faults)
                              /\ Fits("failDoc", task[t], d, faults + 1)
    BY <1>2, <2>1 DEF Fits, Frugal, Neat, Wait, Unfinished
  <2>4. QED
    BY <1>1, <1>2, <1>3, <1>7, <2>2, <2>3, StaySpends DEF Steps
<1>8. CASE Settle(h, next, "ack", "nak") \/ Settle(h, next, "failDoc", "failDoc")
           \/ Settle(h, next, "deadLetter", "nak")
  <2>1. \/ /\ CanMove(task[t], next)
           /\ Put(t, Moved(task[t], next))
           /\ \E step \in {"ack", "failDoc", "deadLetter"} :
                Goto(h, step)
        \/ ~CanMove(task[t], next) /\ task' = task
    BY <1>8 DEF Settle, Put
  <2>2. QED
    BY <1>4, <1>5, <1>6, <1>7, <2>1
<1>9. QED
  BY <1>7, <1>8 DEF Complete, ResetDocument, FailTask, At

\* The steps that leave the row alone.
LEMMA StayingSpends ==
  ASSUME Inv, Thrift, NEW h \in Handler,
         CheckDuplicate(h) \/ StageEnds(h) \/ FailDocument(h) \/ DeadLetter(h)
  PROVE  Spends(h)
<1> DEFINE t == TaskOf(h)
           d == msg[handler[h].msg].deliveries
<1>1. /\ handler[h].pc \in {"check", "work", "failDoc", "deadLetter"}
      /\ UNCHANGED <<task, msg, outbox, window, userRetries>>
  BY DEF CheckDuplicate, StageEnds, FailDocument, DeadLetter, At, storeVars, KeepRows
<1>2. /\ task[t] \in Rows /\ t \in Task /\ task[t].retries \in Nat /\ faults \in Nat /\ d \in Nat
      /\ Neat(task[t], userRetries[t])
      /\ userRetries[t] = 0 => Fits(handler[h].pc, task[t], d, faults)
  BY <1>1, Accounts
<1>3. CASE CheckDuplicate(h)
  <2>1. \/ /\ Goto(h, "ack") /\ faults' = faults
           /\ ~Unfinished(task[t])
        \/ Goto(h, "defer") /\ faults' = faults
    BY <1>3 DEF CheckDuplicate, NoFault, Terminal, Unfinished
  <2>2. userRetries[t] = 0 => /\ ~Unfinished(task[t]) => Fits("ack", task[t], d, faults)
                              /\ Fits("defer", task[t], d, faults)
    BY <1>2, <1>3 DEF CheckDuplicate, At, Fits, Frugal
  <2>3. QED
    BY <1>1, <1>2, <2>1, <2>2, StaySpends DEF Steps
<1>4. CASE StageEnds(h)
  <2>1. \E step \in {"complete", "retry", "failDoc"} :
          Goto(h, step) /\ faults' = faults
    BY <1>4 DEF StageEnds, NoFault
  <2>2. userRetries[t] = 0 =>
          \A step \in {"complete", "retry", "failDoc"} : Fits(step, task[t], d, faults)
    BY <1>2, <1>4 DEF StageEnds, At, Fits, Frugal
  <2>3. QED
    BY <1>1, <1>2, <2>1, <2>2, StaySpends DEF Steps
<1>5. CASE FailDocument(h)
  <2>1. \/ Goto(h, "failTask") /\ faults' = faults
        \/ Goto(h, "nak") /\ faults' = faults + 1
    BY <1>1, <1>5 DEF FailDocument, NoFault, Fault
  <2>2. userRetries[t] = 0 => /\ Fits("failTask", task[t], d, faults)
                              /\ Fits("nak", task[t], d, faults + 1)
    BY <1>2, <1>5 DEF FailDocument, At, Fits, Frugal, Wait
  <2>3. QED
    BY <1>1, <1>2, <2>1, <2>2, StaySpends DEF Steps
<1>6. CASE DeadLetter(h)
  <2>1. Goto(h, "ack") /\ faults' = faults
    BY <1>6 DEF DeadLetter
  <2>2. userRetries[t] = 0 => Fits("ack", task[t], d, faults)
    BY <1>2, <1>6 DEF DeadLetter, At, Fits, Frugal
  <2>3. QED
    BY <1>1, <1>2, <2>1, <2>2, StaySpends DEF Steps
<1>7. QED
  BY <1>3, <1>4, <1>5, <1>6

\* A call that fails is a fault, and costs what it makes necessary.
LEMMA RecoveryErrsSpends ==
  ASSUME Inv, Thrift, NEW h \in Handler, RecoveryErrs(h)
  PROVE  Spends(h)
<1> DEFINE t == TaskOf(h)
           d == msg[handler[h].msg].deliveries
           next == IF At(h, "complete") THEN "success" ELSE "failed"
           step == IF At(h, "check") THEN "defer" ELSE "nak"
<1>1. /\ handler[h].pc \in {"complete", "failTask", "deadLetter", "check"}
      /\ UNCHANGED <<msg, outbox, window, userRetries>>
      /\ Goto(h, step)
      /\ faults' = faults + 1
  BY DEF RecoveryErrs, storeVars, Fault
<1>2. /\ task[t] \in Rows /\ t \in Task /\ task[t].retries \in Nat /\ faults \in Nat /\ d \in Nat
      /\ Neat(task[t], userRetries[t])
      /\ userRetries[t] = 0 => Fits(handler[h].pc, task[t], d, faults)
  BY <1>1, Accounts
<1>3. CASE task' = task
  <2>1. userRetries[t] = 0 => Fits(step, task[t], d, faults + 1)
    BY <1>1, <1>2, <1>3 DEF At, Fits, Frugal, Wait
  <2>2. QED
    BY <1>1, <1>2, <1>3, <2>1, StaySpends DEF Steps
<1>4. CASE Put(t, Moved(task[t], next))
  BY <1>1, <1>2, <1>4, SettledSpends DEF Steps
<1>5. QED
  BY <1>3, <1>4 DEF RecoveryErrs, Put

\* A handler that ends leaves a message behind that is paid for, or none.
LEMMA LeaveThrift ==
  ASSUME Inv, Thrift, NEW h \in Handler, Nak(h) \/ Crash(h) \/ Ack(h)
  PROVE  Thrift'
<1> DEFINE m0 == handler[h].msg
           t0 == TaskOf(h)
<1>1. /\ handler[h].pc # "idle" /\ handler' = [handler EXCEPT ![h] = IdleHandler]
      /\ UNCHANGED <<task, outbox, window, userRetries>>
      /\ faults' \in Nat /\ faults <= faults'
  BY Numbers DEF Nak, Crash, Ack, At, storeVars, KeepRows, Fault, Inv
<1>2. /\ m0 \in Msg /\ t0 \in Task /\ InStream(m0, t0) /\ msg[m0].state = "delivered"
      /\ m0 # NoMsg /\ t0 = msg[m0].task
  BY <1>1, Owner, NullAssumption DEF Inv
<1>3. /\ \A m \in Msg : m # m0 => msg'[m] = msg[m]
      /\ msg'[m0].deliveries = msg[m0].deliveries /\ msg'[m0].task = t0
      /\ \/ Nak(h) /\ handler[h].pc = "nak" /\ msg'[m0].state = "queued"
         \/ Nak(h) /\ handler[h].pc = "defer" /\ msg'[m0].state = "deferred"
         \/ Crash(h) /\ msg'[m0].state = "delivered" /\ faults' = faults + 1
         \/ Ack(h) /\ msg'[m0].state = "gone"
  <2>1. CASE Nak(h)
    <3>1. \/ handler[h].pc = "nak" /\ msg' = [msg EXCEPT ![m0].state = "queued"]
          \/ handler[h].pc = "defer" /\ msg' = [msg EXCEPT ![m0].state = "deferred"]
      BY <1>2, <2>1 DEF Nak, At
    <3>2. QED
      BY <1>2, <2>1, <3>1 DEF Inv, TypeOK
  <2>2. CASE Crash(h)
    BY <1>2, <2>2 DEF Crash, KeepRows, Fault
  <2>3. CASE Ack(h)
    BY <1>2, <2>3 DEF Ack, Inv, TypeOK
  <2>4. QED
    BY <2>1, <2>2, <2>3
<1>4. \A g \in Handler : g # h =>
        /\ handler'[g] = handler[g]
        /\ handler[g].pc # "idle" => handler[g].msg \in Msg /\ handler[g].msg # m0
                                     /\ TaskOf(g)' = TaskOf(g) /\ TaskOf(g) \in Task
  <2> SUFFICES ASSUME NEW g \in Handler, g # h
               PROVE  /\ handler'[g] = handler[g]
                      /\ handler[g].pc # "idle" =>
                           /\ handler[g].msg \in Msg /\ handler[g].msg # m0
                           /\ TaskOf(g)' = TaskOf(g) /\ TaskOf(g) \in Task
    OBVIOUS
  <2>1. handler'[g] = handler[g]
    BY <1>1 DEF Inv, TypeOK
  <2>2. ASSUME handler[g].pc # "idle"
        PROVE  /\ handler[g].msg \in Msg /\ handler[g].msg # m0
               /\ TaskOf(g)' = TaskOf(g) /\ TaskOf(g) \in Task
    <3>1. handler[g].msg \in Msg /\ TaskOf(g) \in Task
      BY <2>2, Owner DEF Inv
    <3>2. handler[g].msg # m0
      BY <1>2 DEF Inv, Addressed
    <3>3. QED
      BY <1>3, <2>1, <3>1, <3>2 DEF TaskOf
  <2>3. QED
    BY <2>1, <2>2
<1>5. handler'[h].pc = "idle" /\ handler'[h].msg = NoMsg
  BY <1>1 DEF Inv, TypeOK, IdleHandler
<1>6. /\ faults \in Nat /\ \A m \in Msg : msg[m].deliveries \in Nat
      /\ \A t \in Task : task[t].retries \in Nat /\ Wait(task[t]) \in {0, 1}
  BY Numbers DEF Inv
<1>7. Resting'
  <2> SUFFICES ASSUME NEW m \in Msg, NEW t \in Task, InStream(m, t)', Untouched(t)
               PROVE  /\ msg'[m].state = "queued" =>
                           msg'[m].deliveries + Wait(task[t]) <= task[t].retries + 2 * faults'
                      /\ ~Handled(m)' => msg'[m].deliveries <= task[t].retries + 2 * faults'
    BY <1>1 DEF Resting, Paid, Untouched
  <2>1. CASE m = m0
    <3>1. t = t0
      BY <1>3, <2>1 DEF InStream
    <3>2. Fits(handler[h].pc, task[t], msg[m].deliveries, faults)
      BY <1>1, <2>1, <3>1 DEF Thrift, Working, Untouched
    <3>3. QED
      BY <1>1, <1>3, <1>6, <2>1, <3>2 DEF Fits, Frugal, Untouched, InStream
  <2>2. CASE m # m0
    <3>1. InStream(m, t) /\ msg'[m] = msg[m]
      BY <1>3, <2>2 DEF InStream
    <3>2. Handled(m) => Handled(m)'
      BY <1>4, <2>2 DEF Handled
    <3>3. /\ msg[m].state = "queued" => msg[m].deliveries + Wait(task[t]) <= task[t].retries + 2 * faults
          /\ ~Handled(m) => msg[m].deliveries <= task[t].retries + 2 * faults
      BY <3>1 DEF Thrift, Resting, Paid
    <3>4. QED
      BY <1>1, <1>6, <3>1, <3>2, <3>3
  <2>3. QED
    BY <2>1, <2>2
<1>8. ASSUME NEW g \in Handler
      PROVE  Working(g)'
  <2>1. CASE g = h \/ handler[g].pc = "idle"
    BY <1>4, <1>5, <2>1 DEF Working
  <2>2. CASE g # h /\ handler[g].pc # "idle"
    <3>1. Working(g) /\ msg'[handler[g].msg] = msg[handler[g].msg]
      BY <1>3, <1>4, <2>2 DEF Thrift
    <3>2. QED
      BY <1>1, <1>4, <1>6, <2>2, <3>1 DEF Working, Fits, Frugal
  <2>3. QED
    BY <2>1, <2>2
<1>9. Fresh' /\ \A t \in Task : Neat(task[t], userRetries[t])'
  BY <1>1 DEF Thrift, Fresh, Due, Neat
<1>10. QED
  BY <1>7, <1>8, <1>9 DEF Thrift

\* A delivery uses up what was paid for it.
LEMMA DeliverThrift ==
  ASSUME Inv, Thrift, NEW m \in Msg, NEW h \in Handler, Deliver(m, h)
  PROVE  Thrift'
<1>1. /\ msg[m].state = "queued" /\ handler[h].pc = "idle"
      /\ handler' = [handler EXCEPT ![h] = [pc |-> "claim", msg |-> m]]
      /\ UNCHANGED <<task, outbox, window, userRetries, faults>>
  BY DEF Deliver
<1>2. /\ \A n \in Msg : n # m => msg'[n] = msg[n]
      /\ msg'[m].state = "delivered" /\ msg'[m].deliveries = msg[m].deliveries + 1
      /\ msg'[m].task = msg[m].task
  BY DEF Deliver, Inv, TypeOK
<1>3. /\ \A g \in Handler : g # h => handler'[g] = handler[g]
      /\ handler'[h].pc = "claim" /\ handler'[h].msg = m
  BY <1>1 DEF Inv, TypeOK
<1>4. \A g \in Handler : handler[g].pc # "idle" =>
        handler[g].msg \in Msg /\ handler[g].msg # m /\ handler[g].msg # NoMsg
  BY <1>1, Owner, NullAssumption DEF Inv
<1>5. msg[m].task \in Task /\ InStream(m, msg[m].task)
  BY <1>1 DEF Inv, Addressed, InStream
<1>6. /\ faults \in Nat /\ \A n \in Msg : msg[n].deliveries \in Nat
      /\ \A t \in Task : task[t].retries \in Nat /\ Wait(task[t]) \in {0, 1}
  BY Numbers DEF Inv
<1>7. Resting'
  <2> SUFFICES ASSUME NEW n \in Msg, NEW t \in Task, InStream(n, t)', Untouched(t)
               PROVE  /\ msg'[n].state = "queued" =>
                           msg'[n].deliveries + Wait(task[t]) <= task[t].retries + 2 * faults
                      /\ ~Handled(n)' => msg'[n].deliveries <= task[t].retries + 2 * faults
    BY <1>1 DEF Resting, Paid, Untouched
  <2>1. CASE n = m
    BY <1>2, <1>3, <2>1 DEF Handled
  <2>2. CASE n # m
    <3>1. InStream(n, t) /\ msg'[n] = msg[n]
      BY <1>2, <2>2 DEF InStream
    <3>2. Handled(n) => Handled(n)'
      BY <1>1, <1>3, NullAssumption DEF Handled, Inv, Addressed
    <3>3. QED
      BY <3>1, <3>2 DEF Thrift, Resting, Paid
  <2>3. QED
    BY <2>1, <2>2
<1>8. ASSUME NEW g \in Handler
      PROVE  Working(g)'
  <2>1. CASE g = h
    <3>1. TaskOf(h)' = msg[m].task
      BY <1>2, <1>3, NullAssumption DEF TaskOf
    <3>2. Untouched(msg[m].task) =>
            msg[m].deliveries + Wait(task[msg[m].task]) <= task[msg[m].task].retries + 2 * faults
      BY <1>1, <1>5 DEF Thrift, Resting
    <3>3. userRetries[msg[m].task] = 0 =>
            Fits("claim", task[msg[m].task], msg[m].deliveries + 1, faults)
      BY <1>5, <1>6, <3>2 DEF Fits, Frugal, Untouched
    <3>4. QED
      BY <1>1, <1>2, <1>3, <2>1, <3>1, <3>3 DEF Working
  <2>2. CASE g # h /\ handler[g].pc # "idle"
    <3>1. Working(g) /\ msg'[handler[g].msg] = msg[handler[g].msg] /\ TaskOf(g)' = TaskOf(g)
      BY <1>2, <1>3, <1>4, <2>2 DEF Thrift, TaskOf
    <3>2. QED
      BY <1>1, <1>3, <2>2, <3>1 DEF Working
  <2>3. CASE g # h /\ handler[g].pc = "idle"
    BY <1>3, <2>3 DEF Working
  <2>4. QED
    BY <2>1, <2>2, <2>3
<1>9. Fresh' /\ \A t \in Task : Neat(task[t], userRetries[t])'
  BY <1>1 DEF Thrift, Fresh, Due, Neat
<1>10. QED
  BY <1>7, <1>8, <1>9 DEF Thrift

\* A message comes back when no handler has it and no lease would put it off.
LEMMA RequeueThrift ==
  ASSUME Inv, Thrift, TimelyAck, NEW m \in Msg, AckWaitEnds(m) \/ DelayEnds(m)
  PROVE  Thrift'
<1>1. /\ msg[m].state \in {"delivered", "deferred"}
      /\ msg' = [msg EXCEPT ![m].state = "queued"]
      /\ UNCHANGED <<task, outbox, window, handler, userRetries, faults>>
      /\ task[msg[m].task].lease # "live"
      /\ msg[m].state = "delivered" => ~Handled(m)
  BY DEF AckWaitEnds, DelayEnds
<1>2. /\ \A n \in Msg : n # m => msg'[n] = msg[n]
      /\ msg'[m].state = "queued" /\ msg'[m].deliveries = msg[m].deliveries
      /\ msg'[m].task = msg[m].task
  BY <1>1 DEF Inv, TypeOK
<1>3. \A g \in Handler : handler[g].pc # "idle" =>
        handler[g].msg \in Msg /\ handler[g].msg # m /\ handler[g].msg # NoMsg
  BY <1>1, Owner, NullAssumption DEF Inv, Handled
<1>4. ~Handled(m)
  BY <1>3, NullAssumption DEF Handled, Inv, Addressed
<1>5. /\ faults \in Nat /\ \A n \in Msg : msg[n].deliveries \in Nat
      /\ \A t \in Task : task[t].retries \in Nat
  BY Numbers DEF Inv
<1>6. Resting'
  <2> SUFFICES ASSUME NEW n \in Msg, NEW t \in Task, InStream(n, t)', Untouched(t)
               PROVE  /\ msg'[n].state = "queued" =>
                           msg'[n].deliveries + Wait(task[t]) <= task[t].retries + 2 * faults
                      /\ ~Handled(n) => msg'[n].deliveries <= task[t].retries + 2 * faults
    BY <1>1 DEF Resting, Paid, Untouched, Handled
  <2>1. InStream(n, t)
    BY <1>1, <1>2 DEF InStream
  <2>2. CASE n = m
    <3>1. msg[m].deliveries <= task[t].retries + 2 * faults
      BY <1>4, <2>1, <2>2 DEF Thrift, Resting, Paid
    <3>2. Wait(task[t]) = 0
      BY <1>1, <2>1, <2>2 DEF Wait, InStream
    <3>3. QED
      BY <1>2, <1>5, <2>2, <3>1, <3>2
  <2>3. CASE n # m
    BY <1>2, <2>1, <2>3 DEF Thrift, Resting, Paid
  <2>4. QED
    BY <2>2, <2>3
<1>7. ASSUME NEW g \in Handler
      PROVE  Working(g)'
  <2>1. CASE handler[g].pc # "idle"
    <3>1. Working(g) /\ msg'[handler[g].msg] = msg[handler[g].msg] /\ TaskOf(g)' = TaskOf(g)
      BY <1>1, <1>2, <1>3, <2>1 DEF Thrift, TaskOf
    <3>2. QED
      BY <1>1, <2>1, <3>1 DEF Working
  <2>2. CASE handler[g].pc = "idle"
    BY <1>1, <2>2 DEF Working
  <2>3. QED
    BY <2>1, <2>2
<1>8. Fresh' /\ \A t \in Task : Neat(task[t], userRetries[t])'
  BY <1>1 DEF Thrift, Fresh, Due, Neat
<1>9. QED
  BY <1>6, <1>7, <1>8 DEF Thrift

\* What the outbox does to a task that was published already, and what it leaves to be
\* published, is as it was.
LEMMA OutboxThrift ==
  ASSUME Inv, Thrift, UNCHANGED <<task, msg, handler, userRetries>>,
         faults' \in Nat, faults <= faults',
         \A u \in Task : Due(u)' /\ ~window'[u] => Due(u) /\ ~window[u]
  PROVE  Thrift'
<1>1. /\ faults \in Nat /\ \A m \in Msg : msg[m].deliveries \in Nat
      /\ \A t \in Task : task[t].retries \in Nat /\ Wait(task[t]) \in {0, 1}
  BY Numbers DEF Inv
<1>2. /\ \A m \in Msg : Handled(m)' = Handled(m)
      /\ \A m \in Msg, t \in Task : InStream(m, t)' = InStream(m, t)
      /\ \A h \in Handler : TaskOf(h)' = TaskOf(h)
  BY DEF Handled, InStream, TaskOf
<1>3. Resting'
  <2> SUFFICES ASSUME NEW m \in Msg, NEW t \in Task, InStream(m, t), Untouched(t)
               PROVE  /\ msg[m].state = "queued" =>
                           msg[m].deliveries + Wait(task[t]) <= task[t].retries + 2 * faults'
                      /\ ~Handled(m) => msg[m].deliveries <= task[t].retries + 2 * faults'
    BY <1>2 DEF Resting, Paid, Untouched
  <2>1. /\ msg[m].state = "queued" => msg[m].deliveries + Wait(task[t]) <= task[t].retries + 2 * faults
        /\ ~Handled(m) => msg[m].deliveries <= task[t].retries + 2 * faults
    BY DEF Thrift, Resting, Paid
  <2>2. QED
    BY <1>1, <2>1
<1>4. ASSUME NEW h \in Handler
      PROVE  Working(h)'
  <2>1. CASE handler[h].pc # "idle"
    <3>1. handler[h].msg \in Msg /\ TaskOf(h) \in Task
      BY <2>1, Owner DEF Inv
    <3>2. userRetries[TaskOf(h)] = 0 =>
            Fits(handler[h].pc, task[TaskOf(h)], msg[handler[h].msg].deliveries, faults)
      BY <2>1 DEF Thrift, Working
    <3>3. userRetries[TaskOf(h)] = 0 =>
            Fits(handler[h].pc, task[TaskOf(h)], msg[handler[h].msg].deliveries, faults')
      BY <1>1, <3>1, <3>2 DEF Fits, Frugal
    <3>4. QED
      BY <1>2, <3>3 DEF Working
  <2>2. CASE handler[h].pc = "idle"
    BY <2>2 DEF Working
  <2>3. QED
    BY <2>1, <2>2
<1>5. Fresh'
  BY DEF Thrift, Fresh
<1>6. \A t \in Task : Neat(task[t], userRetries[t])'
  BY DEF Thrift, Neat
<1>7. QED
  BY <1>3, <1>4, <1>5, <1>6 DEF Thrift

\* Claiming, marking, letting go and forgetting publish nothing and make nothing new due.
LEMMA PublisherThrift ==
  ASSUME Inv, Thrift, WideWindow,
         \/ \E p \in Publisher :
              ClaimBatch(p) \/ MarkPublished(p) \/ MarkFailed(p) \/ PublisherStops(p)
         \/ \E t \in Task : LockLapses(t) \/ WindowCloses(t)
  PROVE  Thrift'
<1>1. UNCHANGED <<task, msg, handler, userRetries>> /\ faults' \in Nat /\ faults <= faults'
  BY Numbers DEF Inv, ClaimBatch, MarkPublished, MarkFailed, PublisherStops, LockLapses,
                 WindowCloses, Fault
<1>2. \A u \in Task : Due(u)' /\ ~window'[u] => Due(u) /\ ~window[u]
  <2>1. ASSUME NEW p \in Publisher, ClaimBatch(p)
        PROVE  \A u \in Task : window'[u] = window[u] /\ (Due(u)' => Due(u))
    BY <2>1 DEF ClaimBatch, Due
  <2>2. ASSUME NEW p \in Publisher, MarkPublished(p) \/ MarkFailed(p)
        PROVE  \A u \in Task : window'[u] = window[u] /\ (Due(u)' => Due(u))
    <3>1. pub[p].current \in Task /\ outbox[pub[p].current] = "locked"
      BY <2>2 DEF MarkPublished, MarkFailed, Inv, TypeOK, Held, Holds
    <3>2. \A u \in Task : u # pub[p].current => outbox'[u] = outbox[u]
      BY <2>2 DEF MarkPublished, MarkFailed, Inv, TypeOK
    <3>3. QED
      BY <2>2, <3>1, <3>2 DEF MarkPublished, MarkFailed, Due
  <2>3. ASSUME NEW p \in Publisher, PublisherStops(p)
        PROVE  \A u \in Task : window'[u] = window[u] /\ (Due(u)' => Due(u))
    BY <2>3 DEF PublisherStops, Due
  <2>4. ASSUME NEW t \in Task, LockLapses(t)
        PROVE  \A u \in Task : window'[u] = window[u] /\ (Due(u)' => Due(u))
    BY <2>4 DEF LockLapses, Due, Inv, TypeOK
  <2>5. ASSUME NEW t \in Task, WindowCloses(t)
        PROVE  /\ outbox' = outbox /\ outbox[t] = "published"
               /\ \A u \in Task : u # t => window'[u] = window[u]
    BY <2>5 DEF WindowCloses, Inv, TypeOK
  <2>6. QED
    BY <2>1, <2>2, <2>3, <2>4, <2>5 DEF Due
<1>3. QED
  BY <1>1, <1>2, OutboxThrift

\* Publishing stores a first message, of a task nobody has run; every delivery of it is
\* still to come.
LEMMA PublishThrift ==
  ASSUME Inv, Thrift, NEW p \in Publisher, NEW t \in Task, Publish(p, t) \/ PublishFails(p, t)
  PROVE  Thrift'
<1>1. /\ UNCHANGED <<task, outbox, handler, userRetries>>
      /\ faults' \in Nat /\ faults <= faults'
      /\ Store(t) \/ UNCHANGED <<msg, window>>
  BY Numbers DEF Inv, Publish, PublishFails, Fault
<1>2. Due(t)
  BY DEF Publish, PublishFails, Inv, Held, Holds, Due
<1>3. CASE UNCHANGED <<msg, window>>
  BY <1>1, <1>3, OutboxThrift DEF Due
<1>4. CASE ~window[t] /\ Store(t)
  <2>1. /\ ~Queued(t)
        /\ \A u \in Task : window'[u] = (window[u] \/ u = t)
    BY <1>2, <1>4, StoreCases
  <2>2. PICK m \in Msg :
          /\ msg[m].state = "free"
          /\ msg' = [msg EXCEPT ![m] = [task |-> t, state |-> "queued", deliveries |-> 0]]
    BY <1>2, <1>4, StoreCases
  <2>3. /\ msg'[m] = [task |-> t, state |-> "queued", deliveries |-> 0]
        /\ \A n \in Msg : n # m => msg'[n] = msg[n]
    BY <2>2 DEF Inv, TypeOK
  <2>4. /\ faults \in Nat /\ \A n \in Msg : msg[n].deliveries \in Nat
        /\ \A u \in Task : task[u].retries \in Nat /\ Wait(task[u]) \in {0, 1}
    BY Numbers DEF Inv
  <2>5. ASSUME NEW h \in Handler, handler[h].pc # "idle"
        PROVE  /\ handler[h].msg \in Msg /\ TaskOf(h) \in Task
               /\ msg'[handler[h].msg] = msg[handler[h].msg] /\ TaskOf(h)' = TaskOf(h)
    <3>1. handler[h].msg \in Msg /\ TaskOf(h) \in Task /\ handler[h].msg # m
      BY <2>2, <2>5, Owner DEF Inv
    <3>2. QED
      BY <1>1, <2>3, <3>1 DEF TaskOf
  <2>6. userRetries[t] = 0 => task[t] = NewRow
    BY <1>2, <1>4 DEF Thrift, Fresh
  <2>7. Resting'
    <3> SUFFICES ASSUME NEW n \in Msg, NEW u \in Task, InStream(n, u)', Untouched(u)
                 PROVE  /\ msg'[n].state = "queued" =>
                             msg'[n].deliveries + Wait(task[u]) <= task[u].retries + 2 * faults'
                        /\ ~Handled(n) => msg'[n].deliveries <= task[u].retries + 2 * faults'
      BY <1>1 DEF Resting, Paid, Untouched, Handled
    <3>1. CASE n = m
      <4>1. u = t /\ Wait(task[u]) = 0
        BY <2>3, <2>6, <3>1 DEF InStream, Wait, NewRow, Untouched
      <4>2. QED
        BY <1>1, <2>3, <2>4, <3>1, <4>1
    <3>2. CASE n # m
      <4>1. InStream(n, u) /\ msg'[n] = msg[n]
        BY <2>3, <3>2 DEF InStream
      <4>2. /\ msg[n].state = "queued" => msg[n].deliveries + Wait(task[u]) <= task[u].retries + 2 * faults
            /\ ~Handled(n) => msg[n].deliveries <= task[u].retries + 2 * faults
        BY <4>1 DEF Thrift, Resting, Paid
      <4>3. QED
        BY <1>1, <2>4, <4>1, <4>2
    <3>3. QED
      BY <3>1, <3>2
  <2>8. ASSUME NEW h \in Handler
        PROVE  Working(h)'
    <3>1. CASE handler[h].pc # "idle"
      <4>1. userRetries[TaskOf(h)] = 0 =>
              Fits(handler[h].pc, task[TaskOf(h)], msg[handler[h].msg].deliveries, faults)
        BY <3>1 DEF Thrift, Working
      <4>2. userRetries[TaskOf(h)] = 0 =>
              Fits(handler[h].pc, task[TaskOf(h)], msg[handler[h].msg].deliveries, faults')
        BY <1>1, <2>4, <2>5, <3>1, <4>1 DEF Fits, Frugal
      <4>3. QED
        BY <1>1, <2>5, <3>1, <4>2 DEF Working
    <3>2. CASE handler[h].pc = "idle"
      BY <1>1, <3>2 DEF Working
    <3>3. QED
      BY <3>1, <3>2
  <2>9. Fresh' /\ \A u \in Task : Neat(task[u], userRetries[u])'
    BY <1>1, <2>1 DEF Thrift, Fresh, Due, Neat
  <2>10. QED
    BY <2>7, <2>8, <2>9 DEF Thrift
<1>5. QED
  BY <1>1, <1>2, <1>3, <1>4, StoreCases

\* A row that nothing runs and whose lease is over, or that a user touched, owes no
\* more than before.
LEMMA RowThrift ==
  ASSUME Inv, Thrift, NEW t \in Task, NEW row \in Rows, Put(t, row),
         UNCHANGED <<msg, handler, faults>>,
         \A u \in Task : u # t => userRetries'[u] = userRetries[u],
         userRetries'[t] = 0 =>
           /\ userRetries[t] = 0
           /\ \/ /\ row.status = task[t].status /\ row.retries = task[t].retries
                 /\ row.lease # "live"
              \/ ~Queued(t),
         Neat(row, userRetries'[t]),
         Fresh'
  PROVE  Thrift'
<1>1. task'[t] = row /\ \A u \in Task : u # t => task'[u] = task[u]
  BY DEF Put, Inv, TypeOK
<1>2. /\ \A m \in Msg : Handled(m)' = Handled(m)
      /\ \A m \in Msg, u \in Task : InStream(m, u)' = InStream(m, u)
      /\ \A h \in Handler : TaskOf(h)' = TaskOf(h)
  BY DEF Handled, InStream, TaskOf
<1>3. /\ faults \in Nat /\ \A m \in Msg : msg[m].deliveries \in Nat
      /\ \A u \in Task : task[u].retries \in Nat /\ Wait(task[u]) \in {0, 1}
  BY Numbers DEF Inv
<1>4. Resting'
  <2> SUFFICES ASSUME NEW m \in Msg, NEW u \in Task, InStream(m, u), Untouched(u)'
               PROVE  /\ msg[m].state = "queued" =>
                           msg[m].deliveries + Wait(task'[u]) <= task'[u].retries + 2 * faults
                      /\ ~Handled(m) => msg[m].deliveries <= task'[u].retries + 2 * faults
    BY <1>2 DEF Resting, Paid
  <2>1. userRetries[u] = 0 /\ Unfinished(task[u]) /\ task'[u].retries = task[u].retries
        /\ (task'[u] = task[u] \/ Wait(task'[u]) = 0)
    BY <1>1 DEF Untouched, Unfinished, Wait, Queued
  <2>2. /\ msg[m].state = "queued" => msg[m].deliveries + Wait(task[u]) <= task[u].retries + 2 * faults
        /\ ~Handled(m) => msg[m].deliveries <= task[u].retries + 2 * faults
    BY <2>1 DEF Thrift, Resting, Paid, Untouched
  <2>3. QED
    BY <1>3, <2>1, <2>2
<1>5. ASSUME NEW h \in Handler
      PROVE  Working(h)'
  <2>1. CASE handler[h].pc # "idle" /\ userRetries'[TaskOf(h)] = 0
    <3>1. handler[h].msg \in Msg /\ TaskOf(h) \in Task /\ Queued(TaskOf(h))
      BY <2>1, Owner DEF Inv, Queued
    <3>2. userRetries[TaskOf(h)] = 0
      BY <2>1, <3>1
    <3>3. Fits(handler[h].pc, task[TaskOf(h)], msg[handler[h].msg].deliveries, faults)
      BY <2>1, <3>2 DEF Thrift, Working
    <3>4. \/ task'[TaskOf(h)] = task[TaskOf(h)]
          \/ /\ task'[TaskOf(h)].status = task[TaskOf(h)].status
             /\ task'[TaskOf(h)].retries = task[TaskOf(h)].retries
             /\ task'[TaskOf(h)].lease # "live"
      BY <1>1, <2>1, <3>1
    <3>5. Fits(handler[h].pc, task'[TaskOf(h)], msg[handler[h].msg].deliveries, faults)
      BY <1>3, <3>1, <3>3, <3>4 DEF Fits, Frugal, Unfinished, Wait
    <3>6. QED
      BY <1>2, <3>5 DEF Working
  <2>2. CASE handler[h].pc = "idle" \/ userRetries'[TaskOf(h)] # 0
    BY <1>2, <2>2 DEF Working
  <2>3. QED
    BY <2>1, <2>2
<1>6. \A u \in Task : Neat(task'[u], userRetries'[u])
  BY <1>1 DEF Thrift
<1>7. QED
  BY <1>4, <1>5, <1>6 DEF Thrift, Neat

\* Create, a user's retry and the end of a lease are such writes.
LEMMA WriteThrift ==
  ASSUME Inv, Thrift, NEW t \in Task, Create(t) \/ UserRetry(t) \/ LeaseLapses(t)
  PROVE  Thrift'
<1>1. CASE Create(t)
  <2>1. /\ task' = [task EXCEPT ![t] = NewRow] /\ NewRow \in Rows
        /\ UNCHANGED <<msg, handler, faults, userRetries, window>>
        /\ \A u \in Task : u # t => outbox'[u] = outbox[u]
    BY <1>1 DEF Create, NewRow, Rows, TaskStatuses, Leases, Inv, TypeOK
  <2>2. ~Queued(t)
    BY <1>1 DEF Inv, Paired, Create, NoRow
  <2>3. Neat(NewRow, userRetries[t])
    BY LimitsAssumption DEF Neat, NewRow
  <2>4. \A u \in Task : task'[u] = IF u = t THEN NewRow ELSE task[u]
    BY <2>1 DEF Inv, TypeOK
  <2>5. Fresh'
    BY <2>1, <2>4 DEF Thrift, Fresh, Due
  <2>6. QED
    BY <2>1, <2>2, <2>3, <2>5, RowThrift DEF Put
<1>2. CASE UserRetry(t)
  <2> DEFINE row == BackToPending(task[t])
  <2>1. /\ task' = [task EXCEPT ![t] = row]
        /\ UNCHANGED <<msg, handler, faults, window>>
        /\ \A u \in Task : u # t => outbox'[u] = outbox[u]
        /\ userRetries'[t] # 0
        /\ \A u \in Task : u # t => userRetries'[u] = userRetries[u]
    BY <1>2, LimitsAssumption DEF UserRetry, Inv, TypeOK
  <2>2. row \in Rows /\ row.lease = "null"
    BY RowTypes, RowFields DEF Inv, TypeOK
  <2>3. Neat(row, userRetries'[t])
    BY <2>1, <2>2 DEF Neat
  <2> HIDE DEF row
  <2>4. \A u \in Task : u # t => task'[u] = task[u]
    BY <2>1, <2>2 DEF Inv, TypeOK
  <2>5. Fresh'
    BY <2>1, <2>4 DEF Thrift, Fresh, Due
  <2>6. QED
    BY <2>1, <2>2, <2>3, <2>5, RowThrift DEF Put
<1>3. CASE LeaseLapses(t)
  <2> DEFINE row == [task[t] EXCEPT !.lease = "lapsed"]
  <2>1. /\ task' = [task EXCEPT ![t] = row]
        /\ UNCHANGED <<msg, handler, faults, window, outbox, userRetries>>
        /\ task[t].status = "running"
    BY <1>3 DEF LeaseLapses
  <2>2. /\ row \in Rows /\ row.status = task[t].status /\ row.retries = task[t].retries
        /\ row.lease = "lapsed"
    <3>1. task[t] \in Rows
      BY DEF Inv, TypeOK
    <3>2. QED
      BY <3>1 DEF Rows, Leases
  <2>3. Neat(row, userRetries[t])
    BY <2>1, <2>2 DEF Thrift, Neat
  <2> HIDE DEF row
  <2>4. \A u \in Task : u # t => task'[u] = task[u]
    BY <2>1, <2>2 DEF Inv, TypeOK
  <2>5. task[t] # NewRow
    BY <2>1 DEF NewRow
  <2>6. Fresh'
    BY <2>1, <2>4, <2>5 DEF Thrift, Fresh, Due
  <2>7. QED
    BY <2>1, <2>2, <2>3, <2>6, RowThrift DEF Put
<1>4. QED
  BY <1>1, <1>2, <1>3

\* Before the first task nothing is owed.
LEMMA InitThrift == Init => Thrift
<1> SUFFICES ASSUME Init
             PROVE  Thrift
  OBVIOUS
<1>1. Resting
  BY DEF Init, Resting, InStream
<1>2. \A h \in Handler : Working(h)
  BY DEF Init, Working, IdleHandler
<1>3. Fresh
  BY DEF Init, Fresh, Due
<1>4. \A t \in Task : Neat(task[t], userRetries[t])
  BY LimitsAssumption DEF Init, Neat, NoRow
<1>5. QED
  BY <1>1, <1>2, <1>3, <1>4 DEF Thrift

\* Every step pays for the deliveries it makes necessary.
LEMMA StepThrift ==
  ASSUME Timing
  PROVE  Inv /\ Thrift /\ [Next]_vars => Thrift'
<1> SUFFICES ASSUME Inv, Thrift, [Next]_vars
             PROVE  Thrift'
  OBVIOUS
<1>1. CASE UNCHANGED vars
  <2>1. UNCHANGED <<task, msg, handler, userRetries, faults, outbox, window>>
    BY <1>1 DEF vars
  <2>2. QED
    BY <2>1, OutboxThrift, Numbers DEF Inv, Due
<1>2. ASSUME NEW t \in Task,
             Create(t) \/ UserRetry(t) \/ WindowCloses(t) \/ Expiry(t)
      PROVE  Thrift'
  BY <1>2, WriteThrift, PublisherThrift DEF Expiry, Timing
<1>3. ASSUME NEW p \in Publisher, PublisherStep(p) \/ PublisherFault(p)
      PROVE  Thrift'
  BY <1>3, PublisherThrift, PublishThrift DEF PublisherStep, PublisherFault, Timing
<1>4. ASSUME NEW m \in Msg,
             AckWaitEnds(m) \/ DelayEnds(m) \/ \E h \in Handler : Deliver(m, h)
      PROVE  Thrift'
  BY <1>4, RequeueThrift, DeliverThrift DEF Timing
<1>5. ASSUME NEW h \in Handler, HandlerStep(h) \/ HandlerFault(h)
      PROVE  Thrift'
  <2>1. CASE Nak(h) \/ Crash(h) \/ Ack(h)
    BY <2>1, LeaveThrift
  <2>2. CASE \/ Claim(h) \/ ClaimErrs(h) \/ ScheduleRetry(h) \/ RetryReplyLost(h)
             \/ Complete(h) \/ ResetDocument(h) \/ FailTask(h)
             \/ CheckDuplicate(h) \/ StageEnds(h) \/ FailDocument(h) \/ DeadLetter(h)
             \/ RecoveryErrs(h)
    <3>1. Spends(h)
      BY <2>2, ClaimSpends, RetrySpends, SettlingSpends, StayingSpends, RecoveryErrsSpends
    <3>2. QED
      BY <3>1, SpendsThrift
  <2>3. QED
    BY <1>5, <2>1, <2>2 DEF HandlerStep, HandlerFault
<1>6. QED
  BY <1>1, <1>2, <1>3, <1>4, <1>5 DEF Next

\* A task that no user retried is stranded only when its automatic retries and its faults,
\* two deliveries each, add up to all the deliveries of its message (Manager.run against
\* the consumer's MaxDeliver).
THEOREM StrandedOnlyWhenPaidFor ==
  ASSUME Timing
  PROVE  Spec => []StrandingIsPaidFor
<1>1. Inv /\ Thrift => StrandingIsPaidFor
  <2> SUFFICES ASSUME Inv, Thrift, NEW t \in Task, userRetries[t] = 0, Stranded(t)
               PROVE  MaxDeliver <= task[t].retries + 2 * faults
    BY DEF StrandingIsPaidFor
  <2>1. PICK m \in Msg : InStream(m, t)
    BY DEF Stranded, Inv, Backed, Due, Queued
  <2>2. msg[m].state = "queued" /\ msg[m].deliveries = MaxDeliver /\ Unfinished(task[t])
    BY <2>1 DEF Stranded, Exhausted
  <2>3. MaxDeliver + Wait(task[t]) <= task[t].retries + 2 * faults
    BY <2>1, <2>2 DEF Thrift, Resting, Untouched
  <2>4. Wait(task[t]) \in Nat /\ task[t].retries \in Nat /\ faults \in Nat
    BY Numbers DEF Inv
  <2>5. QED
    BY <2>3, <2>4, LimitsAssumption
<1>2. Inv /\ [Next]_vars => Inv'
  BY StepInv
<1>3. Inv /\ Thrift /\ [Next]_vars => Thrift'
  BY StepThrift
<1>4. QED
  BY <1>1, <1>2, <1>3, InitInv, InitThrift, PTL DEF Spec

\* So no task is stranded without a fault, and with a single one only when all the
\* automatic retries are used, if the consumer allows a first delivery, one for each
\* automatic retry and one more, as Manager.Start's MaxDeliver does.
THEOREM OneFaultStrandsOnlyTheSpent ==
  ASSUME Timing, MaxDeliver >= MaxRetries + 2
  PROVE  Spec => [](\A t \in Task : Stranded(t) /\ userRetries[t] = 0 =>
                      /\ faults # 0
                      /\ faults = 1 => task[t].retries = MaxRetries)
<1>1. Inv /\ Thrift /\ StrandingIsPaidFor =>
        \A t \in Task : Stranded(t) /\ userRetries[t] = 0 =>
          /\ faults # 0
          /\ faults = 1 => task[t].retries = MaxRetries
  <2> SUFFICES ASSUME Inv, Thrift, StrandingIsPaidFor,
                      NEW t \in Task, Stranded(t), userRetries[t] = 0
               PROVE  faults # 0 /\ (faults = 1 => task[t].retries = MaxRetries)
    OBVIOUS
  <2>1. MaxDeliver <= task[t].retries + 2 * faults
    BY DEF StrandingIsPaidFor
  <2>2. task[t].retries <= MaxRetries
    BY DEF Thrift, Neat
  <2>3. task[t].retries \in Nat /\ faults \in Nat
    BY Numbers DEF Inv
  <2>4. faults # 0
    BY <2>1, <2>2, <2>3, LimitsAssumption
  <2>5. ASSUME faults = 1
        PROVE  task[t].retries = MaxRetries
    <3>1. MaxRetries + 2 <= task[t].retries + 2
      BY <2>1, <2>3, <2>5, LimitsAssumption
    <3>2. QED
      BY <3>1, <2>2, <2>3, LimitsAssumption
  <2>6. QED
    BY <2>4, <2>5
<1>2. Inv /\ [Next]_vars => Inv'
  BY StepInv
<1>3. Inv /\ Thrift /\ [Next]_vars => Thrift'
  BY StepThrift
<1>4. QED
  BY <1>1, <1>2, <1>3, InitInv, InitThrift, StrandedOnlyWhenPaidFor, PTL DEF Spec
=============================================================================
