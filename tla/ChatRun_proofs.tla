--------------------------- MODULE ChatRun_proofs ---------------------------
(***************************************************************************)
(* Proofs about ChatRun, for any number of requests, API processes, cancel  *)
(* requests and faults: its types, that only a fault leaves a run open,     *)
(* that a run's end is among its events, and that it keeps to RunLifecycle. *)
(***************************************************************************)
EXTENDS ChatRun, SequenceTheorems, TLAPS

-----------------------------------------------------------------------------
(* The inductive invariant *)

\* Steps from which an execution still ends its run, or finds it ended.
Carrier == {"mark", "register", "announce", "invoke", "persist", "complete", "confirm", "fail"}
Early == {"idle", "mark", "register"}

Request ==
  [pc: Steps, at: Instance \cup {NoInstance}, ctx: {"live", "cancelled", "left"},
   outcome: {"none", "failed", "cancelled"}]

Logged(type) == \E k \in DOMAIN log : log[k] = type

\* An execution that is about to log the end of the run.
Tells(x) ==
  \/ At(x, "logEnd") /\ run.status = "completed"
  \/ exec[x].pc \in {"fail", "logFail"} /\ exec[x].outcome = run.status

\* What an execution at a step knows.
Local(x) ==
  /\ exec[x].pc # "idle" => run.status # "none"
  /\ exec[x].pc \in {"complete", "confirm", "logEnd"} => saved
  /\ exec[x].pc \in {"fail", "logFail"} => exec[x].outcome # "none"
  /\ faults = 0 /\ exec[x].pc \in Early => ~Cancelled(x)

\* Whoever is registered has passed Register.
Registered ==
  \A i \in Instance : controller[i] # NoExecution => exec[controller[i]].pc \notin Early

Carried == faults = 0 /\ run.status \in Open => \E x \in Execution : exec[x].pc \in Carrier

Told ==
  faults = 0 /\ run.status \in Ended => Logged(run.status) \/ \E x \in Execution : Tells(x)

Inv ==
  /\ TypeOK
  /\ \A x \in Execution : Local(x)
  /\ Registered
  /\ Carried
  /\ Told

-----------------------------------------------------------------------------
\* The invariant holds before the first request.
LEMMA InvInit == Init => Inv
<1> SUFFICES ASSUME Init PROVE Inv
  OBVIOUS
<1>1. TypeOK
  <2>1. log \in Seq(EventTypes)
    BY EmptySeq DEF Init
  <2>2. run \in [status: {"none"} \cup Open \cup Ended, cancelRequested: BOOLEAN]
    BY DEF Init
  <2>3. exec \in [Execution -> Request]
    BY DEF Init, Request, Steps
  <2>4. /\ controller \in [Instance -> Execution \cup {NoExecution}]
        /\ signal \in Instance \cup {NoInstance}
        /\ saved \in BOOLEAN
    BY DEF Init
  <2>5. 0 \in 0 .. MaxCancels /\ 0 \in 0 .. MaxFaults
    BY RunBoundsAssumption
  <2> QED
    BY <2>1, <2>2, <2>3, <2>4, <2>5 DEF TypeOK, Request, Init
<1>2. \A x \in Execution : Local(x)
  BY DEF Init, Local, Cancelled
<1>3. Registered
  BY DEF Init, Registered
<1>4. Carried /\ Told
  BY DEF Init, Carried, Told, Open, Ended
<1> QED
  BY <1>1, <1>2, <1>3, <1>4 DEF Inv

-----------------------------------------------------------------------------
(* What a step of one execution has to establish: the rest of the invariant  *)
(* then follows in the same way for every action.                            *)

LogGrows == \A t \in EventTypes : Logged(t) => Logged(t)'

\* Only x moves; what others know of run, saved and faults stays true.
Alone(x) ==
  /\ exec' \in [Execution -> Request]
  /\ \A y \in Execution \ {x} : exec'[y] = exec[y]
  /\ exec[x].pc \notin Early => exec'[x].pc \notin Early
  /\ run.status # "none" => run'.status # "none"
  /\ saved => saved'
  /\ faults' = 0 => faults = 0

Registers(x) ==
  \A i \in Instance : \/ controller'[i] \in {controller[i], NoExecution}
                      \/ controller'[i] = x /\ exec'[x].pc \notin Early

Carries(x) ==
  faults' = 0 /\ run'.status \in Open =>
    \/ exec'[x].pc \in Carrier
    \/ run.status \in Open /\ exec[x].pc \notin Carrier

TellsOn(x) ==
  faults' = 0 /\ run'.status \in Ended =>
    \/ Logged(run.status)' \/ Tells(x)'
    \/ run'.status = run.status /\ ~Tells(x) /\ LogGrows

\* An event that is appended is in the log, and the log only grows
\* (AppendEvent).
LEMMA AppendedType ==
  ASSUME TypeOK, NEW type \in EventTypes, AppendEvent(type)
  PROVE  /\ log' \in Seq(EventTypes)
         /\ LogGrows
         /\ Logged(type)'
<1>1. log \in Seq(EventTypes)
  BY DEF TypeOK
<1>2. log' = Append(log, type)
  BY DEF AppendEvent
<1>3. /\ Len(log') = Len(log) + 1
      /\ log'[Len(log) + 1] = type
      /\ \A k \in 1 .. Len(log) : log'[k] = log[k]
  BY <1>1, <1>2
<1>4. log' \in Seq(EventTypes)
  BY <1>1, <1>2
<1>5. DOMAIN log = 1 .. Len(log) /\ DOMAIN log' = 1 .. Len(log')
  BY <1>1, <1>4
<1>6. Len(log) \in Nat
  BY <1>1
<1> QED
  BY <1>3, <1>4, <1>5, <1>6 DEF LogGrows, Logged

\* Goto moves one execution and no other.
LEMMA GotoEffect ==
  ASSUME Inv, NEW x \in Execution, NEW s \in Steps, Goto(x, s)
  PROVE  /\ exec \in [Execution -> Request] /\ exec' \in [Execution -> Request]
         /\ exec'[x] = [exec[x] EXCEPT !.pc = s]
         /\ \A y \in Execution \ {x} : exec'[y] = exec[y]
  BY DEF Inv, TypeOK, Goto, Request

\* failRun's outcome is the error's, or cancelled if the run's context is
\* (effectiveRunError).
LEMMA FailWithEffect ==
  ASSUME Inv, NEW x \in Execution, NEW e \in {"failed", "cancelled"}, FailWith(x, e)
  PROVE  \E o \in {e, "cancelled"} :
           /\ exec \in [Execution -> Request] /\ exec' \in [Execution -> Request]
           /\ exec'[x] = [exec[x] EXCEPT !.pc = "fail", !.outcome = o]
           /\ \A y \in Execution \ {x} : exec'[y] = exec[y]
<1> DEFINE o == IF Cancelled(x) THEN "cancelled" ELSE e
<1>1. exec' = [exec EXCEPT ![x] = [exec[x] EXCEPT !.pc = "fail", !.outcome = o]]
  BY DEF FailWith, Inv, TypeOK
<1>2. exec \in [Execution -> Request]
  BY DEF Inv, TypeOK, Request
<1>3. o \in {e, "cancelled"}
  OBVIOUS
<1> HIDE DEF o
<1>4. [exec[x] EXCEPT !.pc = "fail", !.outcome = o] \in Request
  BY <1>2, <1>3 DEF Request, Steps
<1> QED
  BY <1>1, <1>2, <1>3, <1>4

\* A fault is counted.
LEMMA FaultEffect ==
  ASSUME TypeOK, Fault
  PROVE  faults' \in 0 .. MaxFaults /\ faults' # 0
  BY RunBoundsAssumption DEF TypeOK, Fault

\* A step of one execution keeps the invariant if that execution keeps its
\* own part of it, and nobody else loses what it relies on.
LEMMA MoveKeepsInv ==
  ASSUME Inv, NEW x \in Execution, TypeOK', Local(x)',
         Alone(x), Registers(x), Carries(x), TellsOn(x)
  PROVE  Inv'
<1>1. \A y \in Execution : Local(y)'
  <2> SUFFICES ASSUME NEW y \in Execution \ {x} PROVE Local(y)'
    OBVIOUS
  <2>1. Local(y) /\ exec'[y] = exec[y]
    BY DEF Inv, Alone
  <2> QED
    BY <2>1 DEF Alone, Local, Cancelled, Early
<1>2. Registered'
  BY DEF Inv, TypeOK, Alone, Registers, Registered
<1>3. Carried'
  <2> SUFFICES ASSUME faults' = 0, run'.status \in Open
               PROVE  \E y \in Execution : exec'[y].pc \in Carrier
    BY DEF Carried
  <2>1. CASE exec'[x].pc \in Carrier
    BY <2>1
  <2>2. CASE run.status \in Open /\ exec[x].pc \notin Carrier
    BY <2>2 DEF Inv, Carried, Alone
  <2> QED
    BY <2>1, <2>2 DEF Carries
<1>4. Told'
  <2> SUFFICES ASSUME faults' = 0, run'.status \in Ended,
                      run'.status = run.status, ~Tells(x), LogGrows
               PROVE  Logged(run.status)' \/ \E y \in Execution : Tells(y)'
    BY DEF Told, TellsOn
  <2>1. Logged(run.status) \/ \E y \in Execution \ {x} : Tells(y)
    BY DEF Inv, Told, Alone
  <2>2. ASSUME NEW y \in Execution \ {x}, Tells(y) PROVE Tells(y)'
    BY <2>2 DEF Tells, At, Alone
  <2>3. Logged(run.status) => Logged(run.status)'
    BY DEF LogGrows, EventTypes, Logged
  <2> QED
    BY <2>1, <2>2, <2>3
<1> QED
  BY <1>1, <1>2, <1>3, <1>4 DEF Inv

\* MarkRunning keeps the invariant.
LEMMA MarkRunningInv ==
  ASSUME Inv, NEW x \in Execution, MarkRunning(x)
  PROVE  Inv'
<1>1. PICK s \in {"register", "done"} :
        /\ Goto(x, s)
        /\ s = "done" => UNCHANGED run /\ ~(run.status \in Open /\ ~Cancelled(x))
  BY DEF MarkRunning
<1>2. /\ exec \in [Execution -> Request] /\ exec' \in [Execution -> Request]
      /\ exec'[x] = [exec[x] EXCEPT !.pc = s]
      /\ \A y \in Execution \ {x} : exec'[y] = exec[y]
  BY <1>1, GotoEffect DEF Steps
<1>3. TypeOK'
  BY <1>1, <1>2 DEF MarkRunning, SetStatus, Open, Inv, TypeOK, Request
<1>4. Local(x)'
  BY <1>1, <1>2 DEF MarkRunning, SetStatus, Open, Inv, TypeOK, Request, Local, At, Cancelled,
     Early
<1>5. Alone(x) /\ Registers(x) /\ Carries(x)
  BY <1>1, <1>2 DEF MarkRunning, SetStatus, Open, Inv, TypeOK, Request, Local, At, Cancelled,
     Early, Alone, Registers, Carries, Carrier
<1>6. TellsOn(x)
  BY <1>1, <1>2 DEF MarkRunning, SetStatus, Open, Inv, TypeOK, Request, At, TellsOn, Tells,
     LogGrows, Logged, Ended
<1> QED
  BY <1>3, <1>4, <1>5, <1>6, MoveKeepsInv

\* BeginErrs keeps the invariant.
LEMMA BeginErrsInv ==
  ASSUME Inv, NEW x \in Execution, BeginErrs(x)
  PROVE  Inv'
<1>1. Goto(x, "done")
  BY DEF BeginErrs
<1>2. /\ exec \in [Execution -> Request] /\ exec' \in [Execution -> Request]
      /\ exec'[x] = [exec[x] EXCEPT !.pc = "done"]
      /\ \A y \in Execution \ {x} : exec'[y] = exec[y]
  BY <1>1, GotoEffect DEF Steps
<1>3. faults' \in 0 .. MaxFaults /\ faults' # 0
  BY FaultEffect DEF BeginErrs, Inv
<1>4. TypeOK'
  BY <1>1, <1>2, <1>3 DEF BeginErrs, SetStatus, Inv, TypeOK, Request, Open, Ended
<1>5. Local(x)'
  BY <1>1, <1>2, <1>3 DEF BeginErrs, SetStatus, Inv, TypeOK, Request, Local, At, Cancelled,
     Early, Open
<1>6. Alone(x) /\ Registers(x) /\ Carries(x)
  BY <1>1, <1>2, <1>3 DEF BeginErrs, SetStatus, Inv, TypeOK, Request, Local, At, Cancelled,
     Early, Alone, Registers, Carries, Carrier, Open
<1>7. TellsOn(x)
  BY <1>1, <1>2, <1>3 DEF BeginErrs, SetStatus, Inv, TypeOK, Request, At, TellsOn, Tells
<1> QED
  BY <1>4, <1>5, <1>6, <1>7, MoveKeepsInv

\* Register keeps the invariant.
LEMMA RegisterInv ==
  ASSUME Inv, NEW x \in Execution, Register(x)
  PROVE  Inv'
<1>1. Goto(x, "announce")
  BY DEF Register
<1>2. /\ exec \in [Execution -> Request] /\ exec' \in [Execution -> Request]
      /\ exec'[x] = [exec[x] EXCEPT !.pc = "announce"]
      /\ \A y \in Execution \ {x} : exec'[y] = exec[y]
  BY <1>1, GotoEffect DEF Steps
<1>3. TypeOK'
  BY <1>1, <1>2 DEF Register, Inv, TypeOK, Request
<1>4. Local(x)'
  BY <1>1, <1>2 DEF Register, Inv, TypeOK, Request, Local, At, Cancelled, Early
<1>5. Alone(x) /\ Registers(x) /\ Carries(x)
  BY <1>1, <1>2 DEF Register, Inv, TypeOK, Request, Local, At, Cancelled, Early, Alone,
     Registers, Carries, Carrier
<1>6. TellsOn(x)
  BY <1>1, <1>2 DEF Register, Inv, TypeOK, Request, At, TellsOn, Tells, LogGrows, Logged
<1> QED
  BY <1>3, <1>4, <1>5, <1>6, MoveKeepsInv

\* AgentAnswers keeps the invariant.
LEMMA AgentAnswersInv ==
  ASSUME Inv, NEW x \in Execution, AgentAnswers(x)
  PROVE  Inv'
<1>1. Goto(x, "persist")
  BY DEF AgentAnswers
<1>2. /\ exec \in [Execution -> Request] /\ exec' \in [Execution -> Request]
      /\ exec'[x] = [exec[x] EXCEPT !.pc = "persist"]
      /\ \A y \in Execution \ {x} : exec'[y] = exec[y]
  BY <1>1, GotoEffect DEF Steps
<1>3. TypeOK'
  BY <1>1, <1>2 DEF AgentAnswers, Inv, TypeOK, Request
<1>4. Local(x)'
  BY <1>1, <1>2 DEF AgentAnswers, Inv, TypeOK, Request, Local, At, Cancelled, Early
<1>5. Alone(x) /\ Registers(x) /\ Carries(x)
  BY <1>1, <1>2 DEF AgentAnswers, Inv, TypeOK, Request, Local, At, Cancelled, Early, Alone,
     Registers, Carries, Carrier
<1>6. TellsOn(x)
  BY <1>1, <1>2 DEF AgentAnswers, Inv, TypeOK, Request, At, TellsOn, Tells, LogGrows, Logged
<1> QED
  BY <1>3, <1>4, <1>5, <1>6, MoveKeepsInv

\* SaveTurn keeps the invariant.
LEMMA SaveTurnInv ==
  ASSUME Inv, NEW x \in Execution, SaveTurn(x)
  PROVE  Inv'
<1>1. Goto(x, "complete")
  BY DEF SaveTurn
<1>2. /\ exec \in [Execution -> Request] /\ exec' \in [Execution -> Request]
      /\ exec'[x] = [exec[x] EXCEPT !.pc = "complete"]
      /\ \A y \in Execution \ {x} : exec'[y] = exec[y]
  BY <1>1, GotoEffect DEF Steps
<1>3. TypeOK'
  BY <1>1, <1>2 DEF SaveTurn, Inv, TypeOK, Request
<1>4. Local(x)'
  BY <1>1, <1>2 DEF SaveTurn, Inv, TypeOK, Request, Local, At, Cancelled, Early
<1>5. Alone(x) /\ Registers(x) /\ Carries(x)
  BY <1>1, <1>2 DEF SaveTurn, Inv, TypeOK, Request, Local, At, Cancelled, Early, Alone,
     Registers, Carries, Carrier
<1>6. TellsOn(x)
  BY <1>1, <1>2 DEF SaveTurn, Inv, TypeOK, Request, At, TellsOn, Tells, LogGrows, Logged
<1> QED
  BY <1>3, <1>4, <1>5, <1>6, MoveKeepsInv

\* Complete keeps the invariant.
LEMMA CompleteInv ==
  ASSUME Inv, NEW x \in Execution, Complete(x)
  PROVE  Inv'
<1>1. PICK s \in {"logEnd", "confirm"} :
        /\ Goto(x, s)
        /\ s = "logEnd" => SetStatus("completed")
        /\ s = "confirm" => UNCHANGED run
  BY DEF Complete
<1>2. /\ exec \in [Execution -> Request] /\ exec' \in [Execution -> Request]
      /\ exec'[x] = [exec[x] EXCEPT !.pc = s]
      /\ \A y \in Execution \ {x} : exec'[y] = exec[y]
  BY <1>1, GotoEffect DEF Steps
<1>3. TypeOK'
  BY <1>1, <1>2 DEF Complete, SetStatus, Open, Ended, Inv, TypeOK, Request
<1>4. Local(x)'
  BY <1>1, <1>2 DEF Complete, SetStatus, Open, Ended, Inv, TypeOK, Request, Local, At,
     Cancelled, Early
<1>5. Alone(x) /\ Registers(x) /\ Carries(x)
  BY <1>1, <1>2 DEF Complete, SetStatus, Open, Ended, Inv, TypeOK, Request, Local, At,
     Cancelled, Early, Alone, Registers, Carries, Carrier
<1>6. TellsOn(x)
  BY <1>1, <1>2 DEF Complete, SetStatus, Open, Ended, Inv, TypeOK, Request, At, TellsOn, Tells,
     LogGrows, Logged
<1> QED
  BY <1>3, <1>4, <1>5, <1>6, MoveKeepsInv

\* Fail keeps the invariant.
LEMMA FailInv ==
  ASSUME Inv, NEW x \in Execution, Fail(x)
  PROVE  Inv'
<1>1. Goto(x, "logFail")
  BY DEF Fail
<1>2. /\ exec \in [Execution -> Request] /\ exec' \in [Execution -> Request]
      /\ exec'[x] = [exec[x] EXCEPT !.pc = "logFail"]
      /\ \A y \in Execution \ {x} : exec'[y] = exec[y]
  BY <1>1, GotoEffect DEF Steps
<1>3. TypeOK'
  BY <1>1, <1>2 DEF Fail, SetStatus, Open, Ended, Inv, TypeOK, Request
<1>4. Local(x)'
  BY <1>1, <1>2 DEF Fail, SetStatus, Open, Ended, Inv, TypeOK, Request, Local, At, Cancelled,
     Early
<1>5. Alone(x) /\ Registers(x) /\ Carries(x)
  BY <1>1, <1>2 DEF Fail, SetStatus, Open, Ended, Inv, TypeOK, Request, Local, At, Cancelled,
     Early, Alone, Registers, Carries, Carrier
<1>6. TellsOn(x)
  BY <1>1, <1>2 DEF Fail, SetStatus, Open, Ended, Inv, TypeOK, Request, At, TellsOn, Tells,
     LogGrows, Logged
<1> QED
  BY <1>3, <1>4, <1>5, <1>6, MoveKeepsInv

\* FailErrs keeps the invariant.
LEMMA FailErrsInv ==
  ASSUME Inv, NEW x \in Execution, FailErrs(x)
  PROVE  Inv'
<1>1. Goto(x, "logFail")
  BY DEF FailErrs
<1>2. /\ exec \in [Execution -> Request] /\ exec' \in [Execution -> Request]
      /\ exec'[x] = [exec[x] EXCEPT !.pc = "logFail"]
      /\ \A y \in Execution \ {x} : exec'[y] = exec[y]
  BY <1>1, GotoEffect DEF Steps
<1>3. faults' \in 0 .. MaxFaults /\ faults' # 0
  BY FaultEffect DEF FailErrs, Inv
<1>4. TypeOK'
  BY <1>1, <1>2, <1>3 DEF FailErrs, Inv, TypeOK, Request
<1>5. Local(x)'
  BY <1>1, <1>2, <1>3 DEF FailErrs, Inv, TypeOK, Request, Local, At, Cancelled, Early
<1>6. Alone(x) /\ Registers(x) /\ Carries(x)
  BY <1>1, <1>2, <1>3 DEF FailErrs, Inv, TypeOK, Request, Local, At, Cancelled, Early, Alone,
     Registers, Carries, Carrier
<1>7. TellsOn(x)
  BY <1>1, <1>2, <1>3 DEF FailErrs, Inv, TypeOK, Request, At, TellsOn, Tells
<1> QED
  BY <1>4, <1>5, <1>6, <1>7, MoveKeepsInv

\* AgentFails keeps the invariant.
LEMMA AgentFailsInv ==
  ASSUME Inv, NEW x \in Execution, AgentFails(x)
  PROVE  Inv'
<1>1. FailWith(x, "failed")
  BY DEF AgentFails
<1>2. PICK o \in {"failed", "cancelled"} :
        /\ exec \in [Execution -> Request] /\ exec' \in [Execution -> Request]
        /\ exec'[x] = [exec[x] EXCEPT !.pc = "fail", !.outcome = o]
        /\ \A y \in Execution \ {x} : exec'[y] = exec[y]
  BY <1>1, FailWithEffect
<1>3. TypeOK'
  BY <1>1, <1>2 DEF AgentFails, Inv, TypeOK, Request
<1>4. Local(x)'
  BY <1>1, <1>2 DEF AgentFails, Inv, TypeOK, Request, Local, At, Cancelled, Early
<1>5. Alone(x) /\ Registers(x) /\ Carries(x)
  BY <1>1, <1>2 DEF AgentFails, Inv, TypeOK, Request, Local, At, Cancelled, Early, Alone,
     Registers, Carries, Carrier
<1>6. TellsOn(x)
  BY <1>1, <1>2 DEF AgentFails, Inv, TypeOK, Request, At, TellsOn, Tells, LogGrows, Logged
<1> QED
  BY <1>3, <1>4, <1>5, <1>6, MoveKeepsInv

\* SaveTurnFails keeps the invariant.
LEMMA SaveTurnFailsInv ==
  ASSUME Inv, NEW x \in Execution, SaveTurnFails(x)
  PROVE  Inv'
<1>1. FailWith(x, "failed")
  BY DEF SaveTurnFails
<1>2. PICK o \in {"failed", "cancelled"} :
        /\ exec \in [Execution -> Request] /\ exec' \in [Execution -> Request]
        /\ exec'[x] = [exec[x] EXCEPT !.pc = "fail", !.outcome = o]
        /\ \A y \in Execution \ {x} : exec'[y] = exec[y]
  BY <1>1, FailWithEffect
<1>3. saved => saved'
  BY DEF SaveTurnFails
<1>4. TypeOK'
  BY <1>1, <1>2, <1>3 DEF SaveTurnFails, Inv, TypeOK, Request
<1>5. Local(x)'
  BY <1>1, <1>2, <1>3 DEF SaveTurnFails, Inv, TypeOK, Request, Local, At, Cancelled, Early
<1>6. Alone(x) /\ Registers(x) /\ Carries(x)
  BY <1>1, <1>2, <1>3 DEF SaveTurnFails, Inv, TypeOK, Request, Local, At, Cancelled, Early,
     Alone, Registers, Carries, Carrier
<1>7. TellsOn(x)
  BY <1>1, <1>2, <1>3 DEF SaveTurnFails, Inv, TypeOK, Request, At, TellsOn, Tells, LogGrows,
     Logged
<1> QED
  BY <1>4, <1>5, <1>6, <1>7, MoveKeepsInv

\* CompleteCancelled keeps the invariant.
LEMMA CompleteCancelledInv ==
  ASSUME Inv, NEW x \in Execution, CompleteCancelled(x)
  PROVE  Inv'
<1>1. PICK e \in {"failed", "cancelled"} :
        /\ FailWith(x, e)
        /\ e = "cancelled" => run.status \in Open /\ SetStatus("cancelled")
        /\ e = "failed" => UNCHANGED run
  BY DEF CompleteCancelled
<1>2. PICK o \in {e, "cancelled"} :
        /\ exec \in [Execution -> Request] /\ exec' \in [Execution -> Request]
        /\ exec'[x] = [exec[x] EXCEPT !.pc = "fail", !.outcome = o]
        /\ \A y \in Execution \ {x} : exec'[y] = exec[y]
  BY <1>1, FailWithEffect
<1>3. TypeOK'
  BY <1>1, <1>2 DEF CompleteCancelled, SetStatus, Open, Ended, Inv, TypeOK, Request
<1>4. Local(x)'
  BY <1>1, <1>2 DEF CompleteCancelled, SetStatus, Open, Ended, Inv, TypeOK, Request, Local, At,
     Cancelled, Early
<1>5. Alone(x) /\ Registers(x) /\ Carries(x)
  BY <1>1, <1>2 DEF CompleteCancelled, SetStatus, Open, Ended, Inv, TypeOK, Request, Local, At,
     Cancelled, Early, Alone, Registers, Carries, Carrier
<1>6. TellsOn(x)
  BY <1>1, <1>2 DEF CompleteCancelled, SetStatus, Open, Ended, Inv, TypeOK, Request, At,
     TellsOn, Tells, LogGrows, Logged
<1> QED
  BY <1>3, <1>4, <1>5, <1>6, MoveKeepsInv

\* CompleteErrs keeps the invariant.
LEMMA CompleteErrsInv ==
  ASSUME Inv, NEW x \in Execution, CompleteErrs(x)
  PROVE  Inv'
<1>1. FailWith(x, "failed")
  BY DEF CompleteErrs
<1>2. PICK o \in {"failed", "cancelled"} :
        /\ exec \in [Execution -> Request] /\ exec' \in [Execution -> Request]
        /\ exec'[x] = [exec[x] EXCEPT !.pc = "fail", !.outcome = o]
        /\ \A y \in Execution \ {x} : exec'[y] = exec[y]
  BY <1>1, FailWithEffect
<1>3. faults' \in 0 .. MaxFaults /\ faults' # 0
  BY FaultEffect DEF CompleteErrs, Inv
<1>4. TypeOK'
  BY <1>1, <1>2, <1>3 DEF CompleteErrs, SetStatus, Inv, TypeOK, Request, Open, Ended
<1>5. Local(x)'
  BY <1>1, <1>2, <1>3 DEF CompleteErrs, SetStatus, Inv, TypeOK, Request, Local, At, Cancelled,
     Early, Open
<1>6. Alone(x) /\ Registers(x) /\ Carries(x)
  BY <1>1, <1>2, <1>3 DEF CompleteErrs, SetStatus, Inv, TypeOK, Request, Local, At, Cancelled,
     Early, Alone, Registers, Carries, Carrier, Open
<1>7. TellsOn(x)
  BY <1>1, <1>2, <1>3 DEF CompleteErrs, SetStatus, Inv, TypeOK, Request, At, TellsOn, Tells
<1> QED
  BY <1>4, <1>5, <1>6, <1>7, MoveKeepsInv

\* LogErrs keeps the invariant.
LEMMA LogErrsInv ==
  ASSUME Inv, NEW x \in Execution, LogErrs(x)
  PROVE  Inv'
<1>1. PICK s \in {"invoke", "cleanup"} :
        /\ Goto(x, s)
        /\ s = "invoke" => At(x, "announce")
  BY DEF LogErrs
<1>2. /\ exec \in [Execution -> Request] /\ exec' \in [Execution -> Request]
      /\ exec'[x] = [exec[x] EXCEPT !.pc = s]
      /\ \A y \in Execution \ {x} : exec'[y] = exec[y]
  BY <1>1, GotoEffect DEF Steps
<1>3. faults' \in 0 .. MaxFaults /\ faults' # 0
  BY FaultEffect DEF LogErrs, Inv
<1>4. TypeOK'
  BY <1>1, <1>2, <1>3 DEF LogErrs, Inv, TypeOK, Request
<1>5. Local(x)'
  BY <1>1, <1>2, <1>3 DEF LogErrs, Inv, TypeOK, Request, Local, At, Cancelled, Early
<1>6. Alone(x) /\ Registers(x) /\ Carries(x)
  BY <1>1, <1>2, <1>3 DEF LogErrs, Inv, TypeOK, Request, Local, At, Cancelled, Early, Alone,
     Registers, Carries, Carrier
<1>7. TellsOn(x)
  BY <1>1, <1>2, <1>3 DEF LogErrs, Inv, TypeOK, Request, At, TellsOn, Tells
<1> QED
  BY <1>4, <1>5, <1>6, <1>7, MoveKeepsInv

\* LogCompleted keeps the invariant.
LEMMA LogCompletedInv ==
  ASSUME Inv, NEW x \in Execution, LogCompleted(x)
  PROVE  Inv'
<1>1. Goto(x, "cleanup")
  BY DEF LogCompleted
<1>2. /\ exec \in [Execution -> Request] /\ exec' \in [Execution -> Request]
      /\ exec'[x] = [exec[x] EXCEPT !.pc = "cleanup"]
      /\ \A y \in Execution \ {x} : exec'[y] = exec[y]
  BY <1>1, GotoEffect DEF Steps
<1>3. LogGrows /\ log' \in Seq(EventTypes) /\ Logged("completed")'
  BY AppendedType DEF LogCompleted, Inv, EventTypes, Ended
<1>4. TypeOK'
  BY <1>1, <1>2, <1>3 DEF LogCompleted, Inv, TypeOK, Request
<1>5. Local(x)'
  BY <1>1, <1>2, <1>3 DEF LogCompleted, Inv, TypeOK, Request, Local, At, Cancelled, Early
<1>6. Alone(x) /\ Registers(x) /\ Carries(x)
  BY <1>1, <1>2, <1>3 DEF LogCompleted, Inv, TypeOK, Request, Local, At, Cancelled, Early,
     Alone, Registers, Carries, Carrier
<1>7. TellsOn(x)
  BY <1>1, <1>2, <1>3 DEF LogCompleted, Inv, TypeOK, Request, At, TellsOn, Tells
<1> QED
  BY <1>4, <1>5, <1>6, <1>7, MoveKeepsInv

\* LogFailed keeps the invariant.
LEMMA LogFailedInv ==
  ASSUME Inv, NEW x \in Execution, LogFailed(x)
  PROVE  Inv'
<1>1. Goto(x, "cleanup")
  BY DEF LogFailed
<1>2. /\ exec \in [Execution -> Request] /\ exec' \in [Execution -> Request]
      /\ exec'[x] = [exec[x] EXCEPT !.pc = "cleanup"]
      /\ \A y \in Execution \ {x} : exec'[y] = exec[y]
  BY <1>1, GotoEffect DEF Steps
<1>3. PICK type \in Ended : type = exec[x].outcome
  BY <1>2 DEF LogFailed, Inv, Local, At, Request, Ended
<1>4. LogGrows /\ log' \in Seq(EventTypes) /\ Logged(type)'
  BY <1>3, AppendedType DEF LogFailed, Inv, EventTypes
<1>5. TypeOK'
  BY <1>2, <1>4 DEF LogFailed, Inv, TypeOK, Request
<1>6. Local(x)'
  BY <1>2, <1>4 DEF LogFailed, Inv, TypeOK, Request, Local, At, Cancelled, Early
<1>7. Alone(x) /\ Registers(x) /\ Carries(x)
  BY <1>2, <1>4 DEF LogFailed, Inv, TypeOK, Request, Local, At, Cancelled, Early, Alone,
     Registers, Carries, Carrier
<1>8. TellsOn(x)
  <2>1. run' = run /\ exec[x].pc = "logFail" /\ exec[x].outcome = type
    BY <1>3 DEF LogFailed, At
  <2>2. CASE run.status = type
    BY <1>4, <2>1, <2>2 DEF TellsOn, Logged
  <2>3. CASE run.status # type
    BY <1>4, <2>1, <2>3 DEF TellsOn, Tells, At
  <2> QED
    BY <2>2, <2>3
<1> QED
  BY <1>5, <1>6, <1>7, <1>8, MoveKeepsInv

\* Announce keeps the invariant.
LEMMA AnnounceInv ==
  ASSUME Inv, NEW x \in Execution, Announce(x)
  PROVE  Inv'
<1>1. Goto(x, "invoke")
  BY DEF Announce
<1>2. /\ exec \in [Execution -> Request] /\ exec' \in [Execution -> Request]
      /\ exec'[x] = [exec[x] EXCEPT !.pc = "invoke"]
      /\ \A y \in Execution \ {x} : exec'[y] = exec[y]
  BY <1>1, GotoEffect DEF Steps
<1>3. log' \in Seq(EventTypes) /\ LogGrows
  <2>1. CASE AppendEvent("running")
    BY <2>1, AppendedType DEF Inv, EventTypes
  <2>2. CASE UNCHANGED log
    BY <2>2 DEF LogGrows, Logged, Inv, TypeOK
  <2> QED
    BY <2>1, <2>2 DEF Announce
<1>4. TypeOK'
  BY <1>1, <1>2, <1>3 DEF Announce, Inv, TypeOK, Request
<1>5. Local(x)'
  BY <1>1, <1>2, <1>3 DEF Announce, Inv, TypeOK, Request, Local, At, Cancelled, Early
<1>6. Alone(x) /\ Registers(x) /\ Carries(x)
  BY <1>1, <1>2, <1>3 DEF Announce, Inv, TypeOK, Request, Local, At, Cancelled, Early, Alone,
     Registers, Carries, Carrier
<1>7. TellsOn(x)
  BY <1>1, <1>2, <1>3 DEF Announce, Inv, TypeOK, Request, At, TellsOn, Tells
<1> QED
  BY <1>4, <1>5, <1>6, <1>7, MoveKeepsInv

\* Watch keeps the invariant.
LEMMA WatchInv ==
  ASSUME Inv, NEW x \in Execution, Watch(x)
  PROVE  Inv'
<1>1. exec' = [exec EXCEPT ![x] = [exec[x] EXCEPT !.ctx = "cancelled"]]
  BY DEF Watch, Inv, TypeOK
<1>2. /\ exec \in [Execution -> Request] /\ exec' \in [Execution -> Request]
      /\ exec'[x] = [exec[x] EXCEPT !.ctx = "cancelled"]
      /\ \A y \in Execution \ {x} : exec'[y] = exec[y]
  BY <1>1 DEF Inv, TypeOK, Request, Steps
<1>3. TypeOK'
  BY <1>1, <1>2 DEF Watch, Watched, Inv, TypeOK, Request
<1>4. Local(x)'
  BY <1>1, <1>2 DEF Watch, Watched, Inv, TypeOK, Request, Local, At, Cancelled, Early
<1>5. Alone(x) /\ Registers(x) /\ Carries(x)
  BY <1>1, <1>2 DEF Watch, Watched, Inv, TypeOK, Request, Local, At, Cancelled, Early, Alone,
     Registers, Carries, Carrier
<1>6. TellsOn(x)
  BY <1>1, <1>2 DEF Watch, Watched, Inv, TypeOK, Request, At, TellsOn, Tells, LogGrows, Logged
<1> QED
  BY <1>3, <1>4, <1>5, <1>6, MoveKeepsInv

\* ClientLeaves keeps the invariant.
LEMMA ClientLeavesInv ==
  ASSUME Inv, NEW x \in Execution, ClientLeaves(x)
  PROVE  Inv'
<1>1. exec' = [exec EXCEPT ![x] = [exec[x] EXCEPT !.ctx = "left"]]
  BY DEF ClientLeaves, Inv, TypeOK
<1>2. /\ exec \in [Execution -> Request] /\ exec' \in [Execution -> Request]
      /\ exec'[x] = [exec[x] EXCEPT !.ctx = "left"]
      /\ \A y \in Execution \ {x} : exec'[y] = exec[y]
  BY <1>1 DEF Inv, TypeOK, Request, Steps
<1>3. faults' \in 0 .. MaxFaults /\ faults' # 0
  BY FaultEffect DEF ClientLeaves, Inv
<1>4. TypeOK'
  BY <1>1, <1>2, <1>3 DEF ClientLeaves, Inv, TypeOK, Request
<1>5. Local(x)'
  BY <1>1, <1>2, <1>3 DEF ClientLeaves, Inv, TypeOK, Request, Local, At, Cancelled, Early
<1>6. Alone(x) /\ Registers(x) /\ Carries(x)
  BY <1>1, <1>2, <1>3 DEF ClientLeaves, Inv, TypeOK, Request, Local, At, Cancelled, Early,
     Alone, Registers, Carries, Carrier
<1>7. TellsOn(x)
  BY <1>1, <1>2, <1>3 DEF ClientLeaves, Inv, TypeOK, Request, At, TellsOn, Tells
<1> QED
  BY <1>4, <1>5, <1>6, <1>7, MoveKeepsInv

\* Cleanup keeps the invariant.
LEMMA CleanupInv ==
  ASSUME Inv, NEW x \in Execution, Cleanup(x)
  PROVE  Inv'
<1>1. exec' = [exec EXCEPT ![x] = [exec[x] EXCEPT !.pc = "done", !.ctx = "cancelled"]]
  BY DEF Cleanup, Inv, TypeOK
<1>2. /\ exec \in [Execution -> Request] /\ exec' \in [Execution -> Request]
      /\ exec'[x] = [exec[x] EXCEPT !.pc = "done", !.ctx = "cancelled"]
      /\ \A y \in Execution \ {x} : exec'[y] = exec[y]
  <2>1. exec \in [Execution -> Request]
    BY DEF Inv, TypeOK, Request
  <2>2. exec[x] \in Request
    BY <2>1
  <2>3. [exec[x] EXCEPT !.pc = "done", !.ctx = "cancelled"] \in Request
    BY <2>2 DEF Request, Steps
  <2>4. QED
    BY <1>1, <2>1, <2>3
<1>3. TypeOK'
  BY <1>1, <1>2 DEF Cleanup, Inv, TypeOK, Request
<1>4. Local(x)'
  BY <1>1, <1>2 DEF Cleanup, Inv, TypeOK, Request, Local, At, Cancelled, Early
<1>5. Alone(x) /\ Registers(x) /\ Carries(x)
  BY <1>1, <1>2 DEF Cleanup, Inv, TypeOK, Request, Local, At, Cancelled, Early, Alone,
     Registers, Carries, Carrier
<1>6. TellsOn(x)
  BY <1>1, <1>2 DEF Cleanup, Inv, TypeOK, Request, At, TellsOn, Tells, LogGrows, Logged
<1> QED
  BY <1>3, <1>4, <1>5, <1>6, MoveKeepsInv

\* Create keeps the invariant.
LEMMA CreateInv ==
  ASSUME Inv, NEW x \in Execution, NEW i \in Instance, Create(x, i)
  PROVE  Inv'
<1>1. exec' = [exec EXCEPT ![x] = [exec[x] EXCEPT !.pc = "mark", !.at = i]]
  BY DEF Create, Begin, Inv, TypeOK
<1>2. /\ exec \in [Execution -> Request] /\ exec' \in [Execution -> Request]
      /\ exec'[x] = [exec[x] EXCEPT !.pc = "mark", !.at = i]
      /\ \A y \in Execution \ {x} : exec'[y] = exec[y]
  <2>1. exec \in [Execution -> Request]
    BY DEF Inv, TypeOK, Request
  <2>2. exec[x] \in Request
    BY <2>1
  <2>3. [exec[x] EXCEPT !.pc = "mark", !.at = i] \in Request
    BY <2>2 DEF Request, Steps
  <2>4. QED
    BY <1>1, <2>1, <2>3
<1>3. TypeOK'
  BY <1>1, <1>2 DEF Create, Begin, SetStatus, Open, Ended, Inv, TypeOK, Request
<1>4. Local(x)'
  BY <1>1, <1>2 DEF Create, Begin, SetStatus, Open, Ended, Inv, TypeOK, Request, Local, At,
     Cancelled, Early
<1>5. Alone(x) /\ Registers(x) /\ Carries(x)
  BY <1>1, <1>2 DEF Create, Begin, SetStatus, Open, Ended, Inv, TypeOK, Request, Local, At,
     Cancelled, Early, Alone, Registers, Carries, Carrier
<1>6. TellsOn(x)
  BY <1>1, <1>2 DEF Create, Begin, SetStatus, Open, Ended, Inv, TypeOK, Request, At, TellsOn,
     Tells, LogGrows, Logged
<1> QED
  BY <1>3, <1>4, <1>5, <1>6, MoveKeepsInv

\* ResetForResume keeps the invariant.
LEMMA ResetForResumeInv ==
  ASSUME Inv, NEW x \in Execution, NEW i \in Instance, ResetForResume(x, i)
  PROVE  Inv'
<1>1. exec' = [exec EXCEPT ![x] = [exec[x] EXCEPT !.pc = "mark", !.at = i]]
  BY DEF ResetForResume, Begin, Inv, TypeOK
<1>2. /\ exec \in [Execution -> Request] /\ exec' \in [Execution -> Request]
      /\ exec'[x] = [exec[x] EXCEPT !.pc = "mark", !.at = i]
      /\ \A y \in Execution \ {x} : exec'[y] = exec[y]
  <2>1. exec \in [Execution -> Request]
    BY DEF Inv, TypeOK, Request
  <2>2. exec[x] \in Request
    BY <2>1
  <2>3. [exec[x] EXCEPT !.pc = "mark", !.at = i] \in Request
    BY <2>2 DEF Request, Steps
  <2>4. QED
    BY <1>1, <2>1, <2>3
<1>3. TypeOK'
  BY <1>1, <1>2 DEF ResetForResume, Begin, SetStatus, Open, Ended, Inv, TypeOK, Request
<1>4. Local(x)'
  BY <1>1, <1>2 DEF ResetForResume, Begin, SetStatus, Open, Ended, Inv, TypeOK, Request, Local,
     At, Cancelled, Early
<1>5. Alone(x) /\ Registers(x) /\ Carries(x)
  BY <1>1, <1>2 DEF ResetForResume, Begin, SetStatus, Open, Ended, Inv, TypeOK, Request, Local,
     At, Cancelled, Early, Alone, Registers, Carries, Carrier
<1>6. TellsOn(x)
  BY <1>1, <1>2 DEF ResetForResume, Begin, SetStatus, Open, Ended, Inv, TypeOK, Request, At,
     TellsOn, Tells, LogGrows, Logged
<1> QED
  BY <1>3, <1>4, <1>5, <1>6, MoveKeepsInv

\* RequestCancel keeps the invariant.
LEMMA RequestCancelInv ==
  ASSUME Inv, NEW i \in Instance, RequestCancel(i)
  PROVE  Inv'
<1>1. /\ run' \in [status: {"none"} \cup Open \cup Ended, cancelRequested: BOOLEAN]
      /\ run'.status = run.status
  BY DEF RequestCancel, Inv, TypeOK
<1>2. cancels' \in 0 .. MaxCancels
  BY RunBoundsAssumption DEF RequestCancel, Inv, TypeOK
<1>3. TypeOK'
  BY <1>1, <1>2 DEF RequestCancel, Inv, TypeOK
<1>4. (\A x \in Execution : Local(x)') /\ Registered'
  BY <1>1 DEF RequestCancel, Inv, Local, Cancelled, Registered
<1>5. Carried' /\ Told'
  BY <1>1 DEF RequestCancel, Inv, Carried, Told, Tells, At, Logged, Open, Ended
<1> QED
  BY <1>3, <1>4, <1>5 DEF Inv

\* Signal keeps the invariant.
LEMMA SignalInv ==
  ASSUME Inv, Signal
  PROVE  Inv'
<1>1. log' \in Seq(EventTypes) /\ LogGrows
  <2>1. CASE AppendEvent("cancel_requested")
    BY <2>1, AppendedType DEF Inv, EventTypes
  <2>2. CASE UNCHANGED log
    BY <2>2 DEF LogGrows, Logged, Inv, TypeOK
  <2> QED
    BY <2>1, <2>2 DEF Signal
<1>2. /\ exec \in [Execution -> Request] /\ exec' \in [Execution -> Request]
      /\ \A x \in Execution : /\ exec'[x].pc = exec[x].pc
                              /\ exec'[x].outcome = exec[x].outcome
                              /\ exec[x].pc \in Early => exec'[x] = exec[x]
  BY DEF Signal, Inv, TypeOK, Request, Registered
<1>3. /\ run' = run /\ controller' = controller /\ saved' = saved /\ cancels' = cancels
      /\ faults' \in 0 .. MaxFaults
      /\ faults' = 0 => faults = 0
  BY FaultEffect DEF Signal, Inv, TypeOK
<1>4. TypeOK'
  BY <1>1, <1>2, <1>3 DEF Signal, Inv, TypeOK, Request
<1>5. (\A x \in Execution : Local(x)') /\ Registered' /\ Carried'
  BY <1>2, <1>3 DEF Inv, TypeOK, Local, Cancelled, Registered, Carried
<1>6. Told'
  <2>1. \A x \in Execution : Tells(x) => Tells(x)'
    BY <1>2, <1>3 DEF Tells, At
  <2>2. run.status \in Ended /\ Logged(run.status) => Logged(run.status)'
    BY <1>1, <1>3 DEF LogGrows, EventTypes, Logged
  <2> QED
    BY <1>3, <2>1, <2>2 DEF Inv, Told
<1> QED
  BY <1>4, <1>5, <1>6 DEF Inv

\* Crash keeps the invariant.
LEMMA CrashInv ==
  ASSUME Inv, NEW i \in Instance, Crash(i)
  PROVE  Inv'
<1>1. faults' \in 0 .. MaxFaults /\ faults' # 0
  BY FaultEffect DEF Crash, Inv
<1>2. /\ exec \in [Execution -> Request] /\ exec' \in [Execution -> Request]
      /\ \A x \in Execution : exec'[x] = exec[x] \/ (exec'[x].pc = "done" /\ Active(x))
  <2>1. exec \in [Execution -> Request]
    BY DEF Inv, TypeOK, Request
  <2>2. \A x \in Execution : [exec[x] EXCEPT !.pc = "done"] \in Request
    BY <2>1 DEF Request, Steps
  <2>3. \A x \in Execution :
          \/ exec'[x] = exec[x]
          \/ Active(x) /\ exec'[x] = [exec[x] EXCEPT !.pc = "done"]
    BY <2>1 DEF Crash
  <2>4. exec' = [x \in Execution |-> exec'[x]]
    BY DEF Crash
  <2>5. exec' \in [Execution -> Request]
    BY <2>1, <2>2, <2>3, <2>4
  <2>6. ASSUME NEW x \in Execution
        PROVE  exec'[x] = exec[x] \/ (exec'[x].pc = "done" /\ Active(x))
    BY <2>1, <2>3 DEF Request
  <2> QED
    BY <2>1, <2>5, <2>6
<1>3. run' = run /\ saved' = saved /\ log' = log /\ cancels' = cancels
  BY DEF Crash
<1>4. TypeOK'
  BY <1>1, <1>2, <1>3 DEF Crash, Inv, TypeOK, Request
<1>5. \A x \in Execution : Local(x)'
  BY <1>1, <1>2, <1>3 DEF Inv, Local, Active
<1>6. Registered'
  BY <1>2 DEF Crash, Inv, TypeOK, Registered, Early
<1>7. Carried' /\ Told'
  BY <1>1 DEF Carried, Told
<1> QED
  BY <1>4, <1>5, <1>6, <1>7 DEF Inv

-----------------------------------------------------------------------------
(* The theorems *)
LEMMA InvStep == Inv /\ [Next]_vars => Inv'
<1> SUFFICES ASSUME Inv, [Next]_vars PROVE Inv'
  OBVIOUS
<1>1. ASSUME NEW x \in Execution, Step(x) PROVE Inv'
  BY <1>1, MarkRunningInv, RegisterInv, AnnounceInv, SaveTurnInv, CompleteInv,
     CompleteCancelledInv, LogCompletedInv, FailInv, LogFailedInv, CleanupInv, AgentFailsInv,
     SaveTurnFailsInv DEF Step
<1>2. ASSUME NEW x \in Execution, Errs(x) PROVE Inv'
  BY <1>2, BeginErrsInv, CompleteErrsInv, FailErrsInv, LogErrsInv, ClientLeavesInv DEF Errs
<1>3. ASSUME NEW x \in Execution, Watch(x) \/ AgentAnswers(x) \/ AgentFails(x) \/ SaveTurnFails(x)
      PROVE  Inv'
  BY <1>3, WatchInv, AgentAnswersInv, AgentFailsInv, SaveTurnFailsInv
<1>4. ASSUME NEW x \in Execution, NEW i \in Instance, Create(x, i) \/ ResetForResume(x, i)
      PROVE  Inv'
  BY <1>4, CreateInv, ResetForResumeInv
<1>5. ASSUME NEW i \in Instance, RequestCancel(i) \/ Crash(i) PROVE Inv'
  BY <1>5, RequestCancelInv, CrashInv
<1>6. CASE Signal
  BY <1>6, SignalInv
<1>7. CASE UNCHANGED vars
  BY <1>7 DEF vars, Inv, TypeOK, Local, Cancelled, Registered, Carried, Told, Tells, At, Logged
<1> QED
  BY <1>1, <1>2, <1>3, <1>4, <1>5, <1>6, <1>7 DEF Next

\* The invariant holds in every reachable state, whatever requests, cancellations, crashes
\* and lost replies come in between.
THEOREM Invariance == Spec => []Inv
  BY InvInit, InvStep, PTL DEF Spec

\* Rows, program counters, contexts and events stay in their types.
THEOREM TypeCorrectness == Spec => []TypeOK
<1>1. Inv => TypeOK
  BY DEF Inv
<1> QED
  BY <1>1, Invariance, PTL

\* While nothing fails, an open run has an execution on its way to completeRun or failRun:
\* no race of completion, cancellation and resumption leaves it behind.
THEOREM NoOrphans == Spec => []OrphanNeedsFault
<1>1. Inv => OrphanNeedsFault
  BY DEF Inv, TypeOK, Carried, Carrier, OrphanNeedsFault, Quiet, Active
<1> QED
  BY <1>1, Invariance, PTL

\* While nothing fails, whoever ends the run (the UPDATE of Complete or Fail) also writes
\* its event, even when another execution has resumed or cancelled in between.
THEOREM EndsAreLogged == Spec => []EndIsLogged
<1>1. Inv => EndIsLogged
  BY DEF Inv, Told, Tells, At, Logged, EndIsLogged, Quiet, Active
<1> QED
  BY <1>1, Invariance, PTL

-----------------------------------------------------------------------------
(* The lifecycle *)

PhaseNow == IF run.status \in Open THEN "underway" ELSE run.status

\* What an action may do to the row and the turn.
RowStep ==
  \/ UNCHANGED <<run, saved>>
  \/ run.status = "none" /\ SetStatus("created") /\ UNCHANGED saved
  \/ run.status \in Open /\ SetStatus("running") /\ UNCHANGED saved
  \/ run.status \in Open /\ run' = [run EXCEPT !.cancelRequested = TRUE] /\ UNCHANGED saved
  \/ run.status # "none" /\ UNCHANGED run /\ saved' \in {saved, TRUE}
  \/ CanComplete /\ saved /\ SetStatus("completed") /\ UNCHANGED saved
  \/ /\ run.status \in Open /\ UNCHANGED saved
     /\ \E status \in {"failed", "cancelled"} : SetStatus(status)
  \/ /\ run.status \in {"failed", "cancelled"} /\ UNCHANGED saved
     /\ run' = [status |-> "created", cancelRequested |-> FALSE]

\* Every step is one of the few the run's row can take.
LEMMA NextRowStep ==
  ASSUME Inv, Next
  PROVE  RowStep
<1>1. ASSUME NEW x \in Execution, Step(x) \/ Errs(x) PROVE RowStep
  <2>1. CASE Register(x) \/ Announce(x) \/ LogCompleted(x) \/ LogFailed(x) \/ Cleanup(x)
             \/ FailErrs(x) \/ LogErrs(x) \/ ClientLeaves(x) \/ AgentFails(x)
    BY <2>1 DEF RowStep, Register, Announce, LogCompleted, LogFailed, Cleanup, FailErrs, LogErrs,
       ClientLeaves, AgentFails
  <2>2. CASE MarkRunning(x) \/ BeginErrs(x)
    BY <2>2 DEF RowStep, MarkRunning, BeginErrs
  <2>3. CASE SaveTurn(x) \/ SaveTurnFails(x)
    BY <1>1, <2>3 DEF RowStep, SaveTurn, SaveTurnFails, At, Inv, Local
  <2>4. CASE Complete(x) \/ CompleteCancelled(x) \/ CompleteErrs(x)
    BY <1>1, <2>4 DEF RowStep, Complete, CompleteCancelled, CompleteErrs, At, Inv, Local
  <2>5. CASE Fail(x)
    <3>1. exec[x].outcome \in {"failed", "cancelled"}
      BY <1>1, <2>5 DEF Fail, At, Inv, Local, TypeOK
    <3> QED
      BY <2>5, <3>1 DEF RowStep, Fail
  <2> QED
    BY <1>1, <2>1, <2>2, <2>3, <2>4, <2>5 DEF Step, Errs
<1>2. ASSUME NEW x \in Execution, Watch(x) \/ AgentAnswers(x) \/ AgentFails(x) PROVE RowStep
  BY <1>2 DEF RowStep, Watch, AgentAnswers, AgentFails
<1>3. ASSUME NEW x \in Execution, SaveTurnFails(x) PROVE RowStep
  BY <1>3 DEF RowStep, SaveTurnFails, At, Inv, Local
<1>4. ASSUME NEW x \in Execution, NEW i \in Instance, Create(x, i) \/ ResetForResume(x, i)
      PROVE  RowStep
  BY <1>4 DEF RowStep, Create, ResetForResume, Begin
<1>5. ASSUME NEW i \in Instance, RequestCancel(i) \/ Crash(i) PROVE RowStep
  BY <1>5 DEF RowStep, RequestCancel, Crash
<1>6. CASE Signal
  BY <1>6 DEF RowStep, Signal
<1> QED
  BY <1>1, <1>2, <1>3, <1>4, <1>5, <1>6 DEF Next

\* Each of those is a step of RunLifecycle or a stutter.
LEMMA RowStepSimulation ==
  ASSUME TypeOK, RowStep
  PROVE  Lifecycle!Next \/ UNCHANGED <<PhaseNow, run.cancelRequested, saved>>
<1>1. run \in [status: {"none"} \cup Open \cup Ended, cancelRequested: BOOLEAN]
  BY DEF TypeOK
<1> USE DEF SetStatus, PhaseNow, Open, Ended, Lifecycle!Next, Lifecycle!Move
<1>2. CASE UNCHANGED <<run, saved>>
  BY <1>2
<1>3. CASE run.status = "none" /\ SetStatus("created") /\ UNCHANGED saved
  BY <1>1, <1>3 DEF Lifecycle!Begin
<1>4. CASE run.status \in Open /\ SetStatus("running") /\ UNCHANGED saved
  BY <1>1, <1>4
<1>5. CASE run.status \in Open /\ run' = [run EXCEPT !.cancelRequested = TRUE] /\ UNCHANGED saved
  BY <1>1, <1>5 DEF Lifecycle!Ask
<1>6. CASE run.status # "none" /\ UNCHANGED run /\ saved' \in {saved, TRUE}
  BY <1>1, <1>6 DEF Lifecycle!Save
<1>7. CASE CanComplete /\ saved /\ SetStatus("completed") /\ UNCHANGED saved
  BY <1>1, <1>7 DEF Lifecycle!Complete, CanComplete
<1>8. CASE /\ run.status \in Open /\ UNCHANGED saved
           /\ \E status \in {"failed", "cancelled"} : SetStatus(status)
  BY <1>1, <1>8 DEF Lifecycle!Stop
<1>9. CASE /\ run.status \in {"failed", "cancelled"} /\ UNCHANGED saved
           /\ run' = [status |-> "created", cancelRequested |-> FALSE]
  BY <1>1, <1>9 DEF Lifecycle!Resume
<1> QED
  BY <1>2, <1>3, <1>4, <1>5, <1>6, <1>7, <1>8, <1>9 DEF RowStep

\* ChatRun implements RunLifecycle: no statement completes a run whose cancellation was
\* accepted and not taken back by ResetForResume, or one without a saved turn, and none
\* takes a completed run back.
THEOREM Refinement == Spec => Implements
<1>1. Init => Lifecycle!Init
  BY DEF Init, Lifecycle!Init, Open
<1>2. Inv /\ [Next]_vars => [Lifecycle!Next]_<<PhaseNow, run.cancelRequested, saved>>
  <2>1. SUFFICES ASSUME Inv, [Next]_vars
                 PROVE  Lifecycle!Next \/ UNCHANGED <<PhaseNow, run.cancelRequested, saved>>
    OBVIOUS
  <2>2. CASE Next
    BY <2>1, <2>2, NextRowStep, RowStepSimulation DEF Inv
  <2>3. CASE UNCHANGED vars
    BY <2>3 DEF vars, PhaseNow
  <2> QED
    BY <2>1, <2>2, <2>3
<1> QED
  BY <1>1, <1>2, Invariance, PTL DEF Spec, Implements, Lifecycle!Spec, PhaseNow

=============================================================================
