------------------------------ MODULE ChatRun ------------------------------
(***************************************************************************)
(* One chat run: the request that asks, the requests that resume it, the    *)
(* ones that cancel it, each on some instance of the API                    *)
(* (api/internal/logic/chat, repository/postgres/runrepo.go,                *)
(* service/runcontrol/controller.go, service/conversation/persistence.go).  *)
(* An execution is one request's way through beginRun, the agent,           *)
(* PersistTurn, completeRun or failRun, and cleanup.  The agent is a call   *)
(* that answers, fails, or never returns.                                   *)
(*                                                                          *)
(* The run belongs to a conversation.  The context of an execution is live, *)
(* cancelled by cancel(), or gone with the client that left (then the       *)
(* request's own context is cancelled too).  Terminal statements use a      *)
(* context of their own (terminalContext) and are not stopped by either.    *)
(***************************************************************************)
EXTENDS Naturals, Sequences

CONSTANTS
  Execution,   \* requests that may ask or resume (bound)
  Instance,    \* API processes
  NoExecution, NoInstance,
  MaxCancels,  \* bound: cancel requests
  MaxFaults    \* bound: crashes, failed statements, clients that leave

ASSUME RunBoundsAssumption == MaxCancels \in Nat /\ MaxFaults \in Nat
ASSUME RunNullAssumption == NoExecution \notin Execution /\ NoInstance \notin Instance

VARIABLES
  run,        \* row of chat_runs: status and cancel_requested
  exec,       \* Execution -> program counter, instance, context, how it failed
  controller, \* Instance -> the execution whose cancel function is registered
  signal,     \* instance of a cancel request that has yet to call the controller
  saved,      \* the turn is in chat_messages
  log,        \* types of the chat_run_events, by sequence
  cancels, faults

vars == <<run, exec, controller, signal, saved, log, cancels, faults>>

Open == {"created", "running"}
Ended == {"completed", "failed", "cancelled"}
EventTypes == {"running", "cancel_requested"} \cup Ended
Steps == {"idle", "mark", "register", "announce", "invoke", "persist", "complete",
          "confirm", "logEnd", "fail", "logFail", "cleanup", "done"}
\* Between Register and cleanup, the watcher goroutine polls.
Watched == {"announce", "invoke", "persist", "complete", "confirm", "logEnd", "fail", "logFail"}

TypeOK ==
  /\ run \in [status: {"none"} \cup Open \cup Ended, cancelRequested: BOOLEAN]
  /\ exec \in [Execution -> [pc: Steps, at: Instance \cup {NoInstance},
                             ctx: {"live", "cancelled", "left"},
                             outcome: {"none", "failed", "cancelled"}]]
  /\ controller \in [Instance -> Execution \cup {NoExecution}]
  /\ signal \in Instance \cup {NoInstance}
  /\ saved \in BOOLEAN
  /\ log \in Seq(EventTypes)
  /\ cancels \in 0 .. MaxCancels
  /\ faults \in 0 .. MaxFaults

Init ==
  /\ run = [status |-> "none", cancelRequested |-> FALSE]
  /\ exec = [x \in Execution |->
               [pc |-> "idle", at |-> NoInstance, ctx |-> "live", outcome |-> "none"]]
  /\ controller = [i \in Instance |-> NoExecution]
  /\ signal = NoInstance
  /\ saved = FALSE
  /\ log = <<>>
  /\ cancels = 0
  /\ faults = 0

-----------------------------------------------------------------------------
(* Vocabulary *)

At(x, step)   == exec[x].pc = step
Goto(x, step) == exec' = [exec EXCEPT ![x].pc = step]
Active(x)     == exec[x].pc \notin {"idle", "done"}
Cancelled(x)  == exec[x].ctx # "live"
Fault         == faults < MaxFaults /\ faults' = faults + 1
SetStatus(status) == run' = [run EXCEPT !.status = status]
AppendEvent(type) == log' = Append(log, type)

\* effectiveRunError: a cancelled context hides the error itself.
FailWith(x, error) ==
  exec' = [exec EXCEPT ![x].pc = "fail",
                       ![x].outcome = IF Cancelled(x) THEN "cancelled" ELSE error]

-----------------------------------------------------------------------------
(* beginRun *)

Begin(x, i) ==
  /\ At(x, "idle")
  /\ exec' = [exec EXCEPT ![x].pc = "mark", ![x].at = i]
  /\ UNCHANGED <<controller, signal, saved, log, cancels, faults>>

\* ChatAsk, ChatStream: a run of its own.
Create(x, i) ==
  /\ run.status = "none"
  /\ SetStatus("created")
  /\ Begin(x, i)

\* ChatRunResume: ResetForResume takes failed and cancelled runs only.
ResetForResume(x, i) ==
  /\ run.status \in {"failed", "cancelled"}
  /\ run' = [status |-> "created", cancelRequested |-> FALSE]
  /\ Begin(x, i)

\* Refused, or its context cancelled, the request ends here and the row stays.
MarkRunning(x) ==
  /\ At(x, "mark")
  /\ IF run.status \in Open /\ ~Cancelled(x)
     THEN SetStatus("running") /\ Goto(x, "register")
     ELSE UNCHANGED run /\ Goto(x, "done")
  /\ UNCHANGED <<controller, signal, saved, log, cancels, faults>>

\* A statement before Register fails: beginRun returns and the run stays as it is.
BeginErrs(x) ==
  /\ At(x, "mark")
  /\ UNCHANGED run \/ (run.status \in Open /\ SetStatus("running"))
  /\ Goto(x, "done")
  /\ Fault
  /\ UNCHANGED <<controller, signal, saved, log, cancels>>

Register(x) ==
  /\ At(x, "register")
  /\ controller' = [controller EXCEPT ![exec[x].at] = x]
  /\ Goto(x, "announce")
  /\ UNCHANGED <<run, signal, saved, log, cancels, faults>>

\* The request's context carries this event: it is lost with a client that left.
Announce(x) ==
  /\ At(x, "announce")
  /\ AppendEvent("running") \/ (exec[x].ctx = "left" /\ UNCHANGED log)
  /\ Goto(x, "invoke")
  /\ UNCHANGED <<run, controller, signal, saved, cancels, faults>>

\* Faulty: the watcher looks only at the instance that took the cancel request.
WatchLocally(x) ==
  /\ exec[x].pc \in Watched
  /\ run.cancelRequested /\ ~Cancelled(x)
  /\ signal = exec[x].at
  /\ exec' = [exec EXCEPT ![x].ctx = "cancelled"]
  /\ UNCHANGED <<run, controller, signal, saved, log, cancels, faults>>

\* watchPersistentCancellation
Watch(x) ==
  /\ exec[x].pc \in Watched
  /\ run.cancelRequested /\ ~Cancelled(x)
  /\ exec' = [exec EXCEPT ![x].ctx = "cancelled"]
  /\ UNCHANGED <<run, controller, signal, saved, log, cancels, faults>>

-----------------------------------------------------------------------------
(* The agent, the turn, the end *)

AgentAnswers(x) ==
  /\ At(x, "invoke")
  /\ ~Cancelled(x)
  /\ Goto(x, "persist")
  /\ UNCHANGED <<run, controller, signal, saved, log, cancels, faults>>

AgentFails(x) ==
  /\ At(x, "invoke")
  /\ FailWith(x, "failed")
  /\ UNCHANGED <<run, controller, signal, saved, log, cancels, faults>>

SaveTurn(x) ==
  /\ At(x, "persist")
  /\ ~Cancelled(x)
  /\ saved' = TRUE
  /\ Goto(x, "complete")
  /\ UNCHANGED <<run, controller, signal, log, cancels, faults>>

\* The session is gone, the context is cancelled, or the commit's reply is lost.
SaveTurnFails(x) ==
  /\ At(x, "persist")
  /\ saved' \in {saved, TRUE}
  /\ FailWith(x, "failed")
  /\ UNCHANGED <<run, controller, signal, log, cancels, faults>>

\* Faulty: the completing UPDATE without cancel_requested = false.
CanCompleteAnyway == run.status = "running"

CanComplete == run.status = "running" /\ ~run.cancelRequested

\* Faulty: a refused completion is taken for a run that has ended.
CompleteOrLeave(x) ==
  /\ At(x, "complete")
  /\ IF CanComplete
     THEN SetStatus("completed") /\ Goto(x, "logEnd")
     ELSE UNCHANGED run /\ Goto(x, "cleanup")
  /\ UNCHANGED <<controller, signal, saved, log, cancels, faults>>

\* RunRepo.Complete, first statement ...
Complete(x) ==
  /\ At(x, "complete")
  /\ IF CanComplete
     THEN SetStatus("completed") /\ Goto(x, "logEnd")
     ELSE UNCHANGED run /\ Goto(x, "confirm")
  /\ UNCHANGED <<controller, signal, saved, log, cancels, faults>>

\* ... and second: a cancelled run answers context.Canceled, any other ErrNoRows.
CompleteCancelled(x) ==
  /\ At(x, "confirm")
  /\ IF run.cancelRequested /\ run.status \in Open
     THEN SetStatus("cancelled") /\ FailWith(x, "cancelled")
     ELSE UNCHANGED run /\ FailWith(x, "failed")
  /\ UNCHANGED <<controller, signal, saved, log, cancels, faults>>

\* A statement fails, or takes effect and its reply is lost.
CompleteErrs(x) ==
  /\ exec[x].pc \in {"complete", "confirm"}
  /\ \/ UNCHANGED run
     \/ At(x, "complete") /\ CanComplete /\ SetStatus("completed")
     \/ At(x, "confirm") /\ run.cancelRequested /\ run.status \in Open /\ SetStatus("cancelled")
  /\ FailWith(x, "failed")
  /\ Fault
  /\ UNCHANGED <<controller, signal, saved, log, cancels>>

\* Faulty: the event is written under the execution's own context.
LogCompletedUnlessCancelled(x) ==
  /\ At(x, "logEnd")
  /\ AppendEvent("completed") \/ (Cancelled(x) /\ UNCHANGED log)
  /\ Goto(x, "cleanup")
  /\ UNCHANGED <<run, controller, signal, saved, cancels, faults>>

LogCompleted(x) ==
  /\ At(x, "logEnd")
  /\ AppendEvent("completed")
  /\ Goto(x, "cleanup")
  /\ UNCHANGED <<run, controller, signal, saved, cancels, faults>>

\* failRun ignores the answer of Fail.
Fail(x) ==
  /\ At(x, "fail")
  /\ IF run.status \in Open THEN SetStatus(exec[x].outcome) ELSE UNCHANGED run
  /\ Goto(x, "logFail")
  /\ UNCHANGED <<controller, signal, saved, log, cancels, faults>>

FailErrs(x) ==
  /\ At(x, "fail")
  /\ Goto(x, "logFail")
  /\ Fault
  /\ UNCHANGED <<run, controller, signal, saved, log, cancels>>

LogFailed(x) ==
  /\ At(x, "logFail")
  /\ AppendEvent(exec[x].outcome)
  /\ Goto(x, "cleanup")
  /\ UNCHANGED <<run, controller, signal, saved, cancels, faults>>

LogErrs(x) ==
  /\ exec[x].pc \in {"announce", "logEnd", "logFail"}
  /\ Goto(x, IF At(x, "announce") THEN "invoke" ELSE "cleanup")
  /\ Fault
  /\ UNCHANGED <<run, controller, signal, saved, log, cancels>>

\* Unregister deletes whatever is registered for the run by now.
Cleanup(x) ==
  /\ At(x, "cleanup")
  /\ controller' = [controller EXCEPT ![exec[x].at] = NoExecution]
  /\ exec' = [exec EXCEPT ![x].pc = "done", ![x].ctx = "cancelled"]
  /\ UNCHANGED <<run, signal, saved, log, cancels, faults>>

-----------------------------------------------------------------------------
(* Cancel requests, clients, crashes *)

RequestCancel(i) ==
  /\ cancels < MaxCancels
  /\ signal = NoInstance
  /\ run.status \in Open
  /\ run' = [run EXCEPT !.cancelRequested = TRUE]
  /\ signal' = i
  /\ cancels' = cancels + 1
  /\ UNCHANGED <<exec, controller, saved, log, faults>>

\* RunController.Cancel, then the event, whose error is ignored.
Signal ==
  /\ signal # NoInstance
  /\ LET x == controller[signal]
     IN  exec' = IF x = NoExecution \/ Cancelled(x) THEN exec
                 ELSE [exec EXCEPT ![x].ctx = "cancelled"]
  /\ signal' = NoInstance
  /\ \/ AppendEvent("cancel_requested") /\ UNCHANGED faults
     \/ UNCHANGED log /\ Fault
  /\ UNCHANGED <<run, controller, saved, cancels>>

ClientLeaves(x) ==
  /\ Active(x) /\ exec[x].ctx # "left"
  /\ exec' = [exec EXCEPT ![x].ctx = "left"]
  /\ Fault
  /\ UNCHANGED <<run, controller, signal, saved, log, cancels>>

Crash(i) ==
  /\ exec' = [x \in Execution |->
                IF exec[x].at = i /\ Active(x)
                THEN [exec[x] EXCEPT !.pc = "done"] ELSE exec[x]]
  /\ controller' = [controller EXCEPT ![i] = NoExecution]
  /\ signal' = IF signal = i THEN NoInstance ELSE signal
  /\ Fault
  /\ UNCHANGED <<run, saved, log, cancels>>

-----------------------------------------------------------------------------
\* What the process does by itself once the agent has answered or been cancelled.
Step(x) ==
  \/ MarkRunning(x) \/ Register(x) \/ Announce(x) \/ SaveTurn(x) \/ Complete(x)
  \/ CompleteCancelled(x) \/ LogCompleted(x) \/ Fail(x) \/ LogFailed(x) \/ Cleanup(x)
  \/ Cancelled(x) /\ (AgentFails(x) \/ SaveTurnFails(x))

Errs(x) == BeginErrs(x) \/ CompleteErrs(x) \/ FailErrs(x) \/ LogErrs(x) \/ ClientLeaves(x)

Next ==
  \/ \E x \in Execution : \/ Step(x) \/ Watch(x) \/ Errs(x)
                          \/ AgentAnswers(x) \/ AgentFails(x) \/ SaveTurnFails(x)
                          \/ \E i \in Instance : Create(x, i) \/ ResetForResume(x, i)
  \/ \E i \in Instance : RequestCancel(i) \/ Crash(i)
  \/ Signal

Spec == Init /\ [][Next]_vars

\* Goroutines go on and the watcher's ticker ticks; nothing says that the agent ever
\* answers, that users act or that the cancel request reaches the controller.
Fairness == \A x \in Execution : WF_vars(Step(x)) /\ WF_vars(Watch(x))

FairSpec == Spec /\ Fairness

-----------------------------------------------------------------------------
(* Properties *)

Quiet == \A x \in Execution : ~Active(x)

Lifecycle == INSTANCE RunLifecycle
               WITH phase <- IF run.status \in Open THEN "underway" ELSE run.status,
                    asked <- run.cancelRequested

\* Executions, cancel requests and resumes in any order, with crashes and lost replies,
\* keep to the lifecycle: an accepted cancellation is never followed by completion unless
\* the run was resumed, and completion follows the saved turn (Complete's guard, the
\* order PersistTurn before completeRun).
Implements == Lifecycle!Spec

\* No execution leaves its run open behind it unless something failed: every path out of
\* ChatAsk, ChatStream and ChatRunResume ends the run, whatever races with it.
OrphanNeedsFault == run.status \in Open /\ Quiet => faults > 0

\* When all is over, the run's end is among its events (completeRun, failRun).
EndIsLogged ==
  run.status \in Ended /\ Quiet /\ faults = 0 => \E k \in DOMAIN log : log[k] = run.status

\* An accepted cancellation stops the run although the agent may never return: the
\* controller's signal may be lost or its entry removed, the watcher is enough.
CancelStops == run.cancelRequested ~> run.status \in Ended \/ Quiet

=============================================================================
