------------------------------ MODULE Service ------------------------------
(***************************************************************************)
(* The life of the API process, for several processes on one database,     *)
(* one object store and one stream: main (rag.go), NewServiceContext and   *)
(* Close (svc/servicecontext.go), the migrations (postgres/migrator.go)    *)
(* and the worker manager's Start, track and Close (worker/manager.go).    *)
(*                                                                         *)
(* A process connects, migrates the schema under an advisory lock,         *)
(* provides the bucket, the streams and the collection, subscribes its     *)
(* workers one kind after the other and serves.  On a signal it refuses    *)
(* new messages, waits for those it has taken within a budget, and only    *)
(* then closes what they use.  A process may be killed, lose the session   *)
(* that holds the lock, or fail at any call on its way up.                 *)
(*                                                                         *)
(* The stream delivers through a durable consumer per kind, which the      *)
(* first process to subscribe creates and the others bind to, and which    *)
(* its maker's Unsubscribe deletes for all of them (nats.go).              *)
(*                                                                         *)
(* What a handler does with its message is TaskQueue's and DocPipeline's,  *)
(* a second delivery beside the first too; here a message waits, has       *)
(* reached a process's callback, is inside a handler, or is done.          *)
(***************************************************************************)
EXTENDS Naturals, FiniteSets, Sequences

CONSTANTS
  Proc,        \* API processes
  Task,        \* messages of the stream
  Kinds,       \* kinds of worker, subscribed in the order 1 .. Kinds
  KindOf,      \* the kind that handles a task
  Files,       \* migrations, in the order of their names
  MaxConns,    \* Postgres.MaxConns of each process
  MaxStarts,   \* bound: starts of processes
  MaxFaults    \* bound: kills, lost sessions, lost replies of a commit

Nobody == "nobody"
Absent == "absent"

ASSUME ServiceAssumption ==
  /\ Nobody \notin Proc /\ Absent \notin Proc
  /\ Kinds \in Nat \ {0} /\ KindOf \in [Task -> 1 .. Kinds]
  /\ Files \in Nat /\ MaxConns \in [Proc -> Nat \ {0}]
  /\ MaxStarts \in Nat /\ MaxFaults \in Nat

VARIABLES
  pc,          \* where each process is
  file,        \* the migration a process is at
  conns,       \* connections of its pool that a process holds
  owner,       \* who holds the advisory lock
  applied,     \* versions in schema_migrations
  runs,        \* how often the statements of a migration were committed
  step,        \* where a process is in Plan
  missing,     \* it has seen that the thing of this step is missing
  things,      \* what exists: bucket, streams, collection
  open,        \* the clients of a process are open
  workers,     \* kinds a process has subscribed
  closing,     \* Manager.closing
  publisher,   \* the publisher's goroutine
  cancelled,   \* the manager's context is cancelled
  result,      \* what Manager.Close returned
  place,       \* where a message is
  maker,       \* kind -> whose Unsubscribe deletes its consumer, or Absent
  bound,       \* kind -> processes its consumer delivers to
  starts, faults

migration == <<owner, applied, runs>>
life      == <<file, conns, step, missing, open>>
manager   == <<workers, closing, publisher, cancelled, result>>
stream    == <<place, maker, bound>>
bounds    == <<starts, faults>>
vars == <<pc, migration, life, things, manager, stream, bounds>>

Version == 1 .. Files
Kind    == 1 .. Kinds

\* NewServiceContext after the migrations: clients, and the things it provides
\* by looking first and creating what is missing.
Plan   == <<"redis", "bucket", "nats", "stream", "dead letters", "embedder", "collection">>
Things == {"bucket", "stream", "dead letters", "collection"}

Migrating == {"acquire", "lock", "table", "look", "statements", "record", "commit", "unlock"}
Starting  == {"ping"} \cup Migrating \cup {"wire", "subscribe", "flush"}
Stopping  == {"closing", "release", "exit"}

At(state, p)   == [at |-> state, by |-> p]
Waiting        == At("waiting", Nobody)
InHandler(p)   == {m \in Task : place[m] = At("inside", p)}
Running(p)     == pc[p] \in {"subscribe", "flush", "serving"} \cup Stopping

Init ==
  /\ pc = [p \in Proc |-> "down"]
  /\ owner = Nobody /\ applied = {} /\ runs = [f \in Version |-> 0]
  /\ file = [p \in Proc |-> 1] /\ conns = [p \in Proc |-> 0]
  /\ step = [p \in Proc |-> 1] /\ missing = [p \in Proc |-> FALSE]
  /\ open = [p \in Proc |-> FALSE]
  /\ things = {}
  /\ workers = [p \in Proc |-> 0] /\ closing = [p \in Proc |-> FALSE]
  /\ publisher = [p \in Proc |-> "off"] /\ cancelled = [p \in Proc |-> FALSE]
  /\ result = [p \in Proc |-> "none"]
  /\ place = [m \in Task |-> Waiting]
  /\ maker = [k \in Kind |-> Absent] /\ bound = [k \in Kind |-> {}]
  /\ starts = 0 /\ faults = 0

Go(p, where) == pc' = [pc EXCEPT ![p] = where]

-----------------------------------------------------------------------------
(* Start, up to the migrations *)

Start(p) ==
  /\ pc[p] = "down" /\ starts < MaxStarts
  /\ Go(p, "ping") /\ starts' = starts + 1
  /\ file' = [file EXCEPT ![p] = 1] /\ step' = [step EXCEPT ![p] = 1]
  /\ missing' = [missing EXCEPT ![p] = FALSE]
  /\ closing' = [closing EXCEPT ![p] = FALSE]
  /\ publisher' = [publisher EXCEPT ![p] = "off"]
  /\ cancelled' = [cancelled EXCEPT ![p] = FALSE]
  /\ result' = [result EXCEPT ![p] = "none"]
  /\ UNCHANGED <<migration, conns, open, things, workers, stream, faults>>

Ping(p) ==
  /\ pc[p] = "ping" /\ Go(p, "acquire")
  /\ open' = [open EXCEPT ![p] = TRUE]
  /\ UNCHANGED <<migration, file, conns, step, missing, things, manager, stream, bounds>>

-----------------------------------------------------------------------------
(* RunMigrations: one connection holds the lock, every other statement     *)
(* takes another connection of the same pool.                              *)

FreeConn(p) == conns[p] < MaxConns[p]

Acquire(p) ==
  /\ pc[p] = "acquire" /\ FreeConn(p)
  /\ Go(p, "lock") /\ conns' = [conns EXCEPT ![p] = @ + 1]
  /\ UNCHANGED <<migration, file, step, missing, open, things, manager, stream, bounds>>

Lock(p) ==
  /\ pc[p] = "lock" /\ owner = Nobody
  /\ Go(p, "table") /\ owner' = p
  /\ UNCHANGED <<applied, runs, life, things, manager, stream, bounds>>

CreateTable(p) ==
  /\ pc[p] = "table" /\ FreeConn(p)
  /\ Go(p, "look")
  /\ UNCHANGED <<migration, life, things, manager, stream, bounds>>

\* migrationApplied
Look(p) ==
  /\ pc[p] = "look"
  /\ IF file[p] > Files
       THEN Go(p, "unlock") /\ UNCHANGED file
       ELSE /\ FreeConn(p)
            /\ IF file[p] \in applied
                 THEN file' = [file EXCEPT ![p] = @ + 1] /\ UNCHANGED pc
                 ELSE Go(p, "statements") /\ UNCHANGED file
  /\ UNCHANGED <<migration, conns, step, missing, open, things, manager, stream, bounds>>

\* The transaction takes its connection and runs the file.
Statements(p) ==
  /\ pc[p] = "statements" /\ FreeConn(p)
  /\ Go(p, "record") /\ conns' = [conns EXCEPT ![p] = @ + 1]
  /\ UNCHANGED <<migration, file, step, missing, open, things, manager, stream, bounds>>

\* Faulty: a version that is already recorded does not count.
UnclaimedByOthers(p) == \A q \in Proc : pc[q] = "commit" => file[q] # file[p]

\* Nobody else has this version: a second insert waits for the transaction of
\* the first and fails, by the primary key, once that one is committed.
Unclaimed(p) ==
  /\ file[p] \notin applied
  /\ \A q \in Proc : pc[q] = "commit" => file[q] # file[p]

Record(p) ==
  /\ pc[p] = "record" /\ Unclaimed(p)
  /\ Go(p, "commit")
  /\ UNCHANGED <<migration, life, things, manager, stream, bounds>>

Stored(p) ==
  /\ applied' = applied \cup {file[p]}
  /\ runs' = [runs EXCEPT ![file[p]] = @ + 1]
  /\ UNCHANGED owner

Commit(p) ==
  /\ pc[p] = "commit" /\ Stored(p)
  /\ Go(p, "look")
  /\ file' = [file EXCEPT ![p] = @ + 1] /\ conns' = [conns EXCEPT ![p] = @ - 1]
  /\ UNCHANGED <<step, missing, open, things, manager, stream, bounds>>

\* Both deferred calls; when the session is gone the lock went with it.
LetGo(p) == owner' = IF owner = p THEN Nobody ELSE owner

Unlock(p) ==
  /\ pc[p] = "unlock" /\ LetGo(p)
  /\ Go(p, "wire") /\ conns' = [conns EXCEPT ![p] = 0]
  /\ UNCHANGED <<applied, runs, file, step, missing, open, things, manager, stream, bounds>>

-----------------------------------------------------------------------------
(* The other clients, and what the process provides *)

\* Faulty: the last thing of the plan is passed over.
AdvanceEarly(p) ==
  /\ step' = [step EXCEPT ![p] = @ + 1] /\ missing' = [missing EXCEPT ![p] = FALSE]
  /\ IF step[p] >= Len(Plan) - 1 THEN Go(p, "subscribe") ELSE UNCHANGED pc

Advance(p) ==
  /\ step' = [step EXCEPT ![p] = @ + 1] /\ missing' = [missing EXCEPT ![p] = FALSE]
  /\ IF step[p] = Len(Plan) THEN Go(p, "subscribe") ELSE UNCHANGED pc

\* A client is made, or the thing is found (a stream is brought up to date).
Wire(p) ==
  /\ pc[p] = "wire" /\ ~missing[p]
  /\ IF Plan[step[p]] \in Things \ things
       THEN missing' = [missing EXCEPT ![p] = TRUE] /\ UNCHANGED <<pc, step>>
       ELSE Advance(p)
  /\ UNCHANGED <<migration, file, conns, open, things, manager, stream, bounds>>

\* Faulty: the start looks again and again for what it should create.
ProvideUntilSeen(p) ==
  /\ pc[p] = "wire" /\ missing[p]
  /\ missing' = [missing EXCEPT ![p] = FALSE]
  /\ UNCHANGED <<pc, migration, file, conns, step, open, things, manager, stream, bounds>>

\* Between the look and this call another process may have created it; the
\* server then answers with success, or with an error that stops the start
\* (Abort).
Provide(p) ==
  /\ pc[p] = "wire" /\ missing[p]
  /\ things' = things \cup {Plan[step[p]]}
  /\ Advance(p)
  /\ UNCHANGED <<migration, file, conns, open, manager, stream, bounds>>

\* Any call on the way up fails, or the sixty seconds of the start are over:
\* the deferred unlock and rollback run, what was opened is closed, and the
\* process ends.
Abort(p) ==
  /\ pc[p] \in {"ping"} \cup Migrating \cup {"wire"}
  /\ LetGo(p) /\ UNCHANGED <<applied, runs>>
  /\ conns' = [conns EXCEPT ![p] = 0] /\ open' = [open EXCEPT ![p] = FALSE]
  /\ Go(p, "exit")
  /\ UNCHANGED <<file, step, missing, things, manager, stream, bounds>>

-----------------------------------------------------------------------------
(* Manager.Start, track, Close *)

\* The library makes the consumer of the kind or binds to it.
Subscribe(p) ==
  /\ pc[p] = "subscribe" /\ workers[p] < Kinds
  /\ workers' = [workers EXCEPT ![p] = @ + 1]
  /\ maker' = [maker EXCEPT ![workers[p] + 1] = IF @ = Absent THEN p ELSE @]
  /\ bound' = [bound EXCEPT ![workers[p] + 1] = @ \cup {p}]
  /\ UNCHANGED <<pc, migration, life, things, closing, publisher, cancelled, result, place, bounds>>

StartPublisher(p) ==
  /\ pc[p] = "subscribe" /\ workers[p] = Kinds
  /\ publisher' = [publisher EXCEPT ![p] = "on"]
  /\ Go(p, "flush")
  /\ UNCHANGED <<migration, life, things, workers, closing, cancelled, result, stream, bounds>>

Serve(p) ==
  /\ pc[p] = "flush" /\ Go(p, "serving")
  /\ UNCHANGED <<migration, life, things, manager, stream, bounds>>

\* Subscription.Unsubscribe: the consumers it has made are gone, for the others too.
Unsubscribe(p) ==
  /\ maker' = [k \in Kind |-> IF maker[k] = p THEN Absent ELSE maker[k]]
  /\ bound' = [k \in Kind |-> IF maker[k] = p THEN {} ELSE bound[k] \ {p}]

\* The connection is gone: the consumers stay, and nobody deletes those it has made.
Disconnect(p) ==
  /\ maker' = [k \in Kind |-> IF maker[k] = p THEN Nobody ELSE maker[k]]
  /\ bound' = [k \in Kind |-> bound[k] \ {p}]

\* What dies with a process: its session, its transaction, its subscriptions,
\* and its hold on messages, which the stream delivers again.
Vanish(p) ==
  /\ Go(p, "down") /\ LetGo(p)
  /\ conns' = [conns EXCEPT ![p] = 0] /\ open' = [open EXCEPT ![p] = FALSE]
  /\ workers' = [workers EXCEPT ![p] = 0]
  /\ publisher' = [publisher EXCEPT ![p] = "off"]
  /\ place' = [m \in Task |-> IF place[m].by = p THEN Waiting ELSE place[m]]

\* A subscription fails, which takes back those before, or the flush: log.Fatalf, no
\* deferred call runs.
StartFails(p) ==
  /\ pc[p] \in {"subscribe", "flush"} /\ Vanish(p)
  /\ IF pc[p] = "subscribe" THEN Unsubscribe(p) ELSE Disconnect(p)
  /\ UNCHANGED <<applied, runs, file, step, missing, things, closing, cancelled, result, bounds>>

Deliver(p, m) ==
  /\ place[m] = Waiting /\ p \in bound[KindOf[m]]
  /\ place' = [place EXCEPT ![m] = At("arrived", p)]
  /\ UNCHANGED <<pc, migration, life, things, manager, maker, bound, bounds>>

\* track, under lifecycleMu
Admit(p, m) ==
  /\ place[m] = At("arrived", p) /\ ~closing[p]
  /\ place' = [place EXCEPT ![m] = At("inside", p)]

\* Faulty: a closing manager terminates what it does not take.
TermWhenClosing(p, m) ==
  /\ place[m] = At("arrived", p) /\ closing[p]
  /\ place' = [place EXCEPT ![m] = At("arrived", Nobody)]

Refuse(p, m) ==
  /\ place[m] = At("arrived", p) /\ closing[p]
  /\ place' = [place EXCEPT ![m] = Waiting]

Track(p, m) ==
  /\ Admit(p, m) \/ Refuse(p, m)
  /\ UNCHANGED <<pc, migration, life, things, manager, maker, bound, bounds>>

\* The handler returns: its message is settled (when the consumer is gone, and the
\* acknowledgement with it, a duplicate comes again, which is TaskQueue's), or, once
\* its context or its clients are gone, left for another delivery.
Return(p, m) ==
  /\ place[m] = At("inside", p)
  /\ \/ open[p] /\ place' = [place EXCEPT ![m] = At("done", Nobody)]
     \/ cancelled[p] /\ place' = [place EXCEPT ![m] = Waiting]
  /\ UNCHANGED <<pc, migration, life, things, manager, maker, bound, bounds>>

\* The signal: server.Start returns and the deferred Close begins.
Stop(p) ==
  /\ pc[p] = "serving" /\ Go(p, "closing")
  /\ closing' = [closing EXCEPT ![p] = TRUE]
  /\ workers' = [workers EXCEPT ![p] = 0] /\ Unsubscribe(p)
  /\ publisher' = [publisher EXCEPT ![p] = "stopping"]
  /\ UNCHANGED <<migration, life, things, cancelled, result, place, bounds>>

\* publishOutbox sees outboxStop after its batch.
PublisherEnds(p) ==
  /\ publisher[p] = "stopping"
  /\ publisher' = [publisher EXCEPT ![p] = "off"]
  /\ UNCHANGED <<pc, migration, life, things, workers, closing, cancelled, result, stream, bounds>>

\* Faulty: the publisher is not waited for.
DrainedOfHandlers(p) == InHandler(p) = {}

\* The goroutine of Close has seen the publisher and every handler end.
Drained(p) == publisher[p] = "off" /\ InHandler(p) = {}

CloseDone(p) ==
  /\ pc[p] = "closing" /\ Drained(p)
  /\ result' = [result EXCEPT ![p] = "clean"]
  /\ cancelled' = [cancelled EXCEPT ![p] = TRUE]
  /\ Go(p, "release")
  /\ UNCHANGED <<migration, life, things, workers, closing, publisher, stream, bounds>>

\* ShutdownTimeoutSeconds are over first.
CloseLate(p) ==
  /\ pc[p] = "closing"
  /\ result' = [result EXCEPT ![p] = "late"]
  /\ cancelled' = [cancelled EXCEPT ![p] = TRUE]
  /\ Go(p, "release")
  /\ UNCHANGED <<migration, life, things, workers, closing, publisher, stream, bounds>>

\* ServiceContext.Close
Release(p) ==
  /\ pc[p] = "release" /\ open' = [open EXCEPT ![p] = FALSE]
  /\ Go(p, "exit")
  /\ UNCHANGED <<migration, file, conns, step, missing, things, manager, stream, bounds>>

Exit(p) ==
  /\ pc[p] = "exit" /\ Vanish(p) /\ Disconnect(p)
  /\ UNCHANGED <<applied, runs, file, step, missing, things, closing, cancelled, result, bounds>>

-----------------------------------------------------------------------------
(* Faults *)

Fault == faults < MaxFaults /\ faults' = faults + 1

Kill(p) ==
  /\ pc[p] # "down" /\ Fault /\ Vanish(p) /\ Disconnect(p)
  /\ UNCHANGED <<applied, runs, file, step, missing, things, closing, cancelled, result, starts>>

\* The lock belongs to the session of one idle connection; the process goes on
\* through the others.
LoseSession(p) ==
  /\ owner = p /\ Fault /\ owner' = Nobody
  /\ UNCHANGED <<pc, applied, runs, life, things, manager, stream, starts>>

\* The commit is done and its reply is lost: RunMigrations returns an error.
CommitUnheard(p) ==
  /\ pc[p] = "commit" /\ Fault
  /\ applied' = applied \cup {file[p]} /\ runs' = [runs EXCEPT ![file[p]] = @ + 1]
  /\ LetGo(p)
  /\ conns' = [conns EXCEPT ![p] = 0] /\ open' = [open EXCEPT ![p] = FALSE]
  /\ Go(p, "exit")
  /\ UNCHANGED <<file, step, missing, things, manager, stream, starts>>

-----------------------------------------------------------------------------

Migrate(p) == Acquire(p) \/ Lock(p) \/ CreateTable(p) \/ Look(p) \/ Statements(p)
                \/ Record(p) \/ Commit(p) \/ Unlock(p)
Up(p)      == Ping(p) \/ Migrate(p) \/ Wire(p) \/ Provide(p) \/ Abort(p)
                \/ Subscribe(p) \/ StartPublisher(p) \/ Serve(p) \/ StartFails(p)
Down(p)    == CloseDone(p) \/ CloseLate(p) \/ Release(p) \/ Exit(p)
Handle(p, m) == Track(p, m) \/ Return(p, m)

Next ==
  \/ \E p \in Proc :
       \/ Start(p) \/ Up(p) \/ Stop(p) \/ PublisherEnds(p) \/ Down(p)
       \/ Kill(p) \/ LoseSession(p) \/ CommitUnheard(p)
  \/ \E p \in Proc, m \in Task : Deliver(p, m) \/ Handle(p, m)

Spec == Init /\ [][Next]_vars

(* The scheduler runs the main goroutine, the publisher and the callbacks; *)
(* the stream delivers to a subscription.  Nothing makes a process start   *)
(* or be stopped.                                                          *)
Fairness ==
  /\ \A p \in Proc : WF_vars(Up(p)) /\ WF_vars(Down(p)) /\ WF_vars(PublisherEnds(p))
  /\ \A p \in Proc, m \in Task : WF_vars(Handle(p, m))
  /\ \A m \in Task : WF_vars(\E p \in Proc : Deliver(p, m))

FairSpec == Spec /\ Fairness

-----------------------------------------------------------------------------
(* Properties *)

TypePlaces == pc \in [Proc -> {"down", "serving"} \cup Starting \cup Stopping]

TypePosition == file \in [Proc -> 1 .. Files + 1] /\ step \in [Proc -> 1 .. Len(Plan) + 1]

TypeConns == conns \in [Proc -> 0 .. 2]

TypeMigration ==
  /\ owner \in Proc \cup {Nobody} /\ applied \subseteq Version /\ runs \in [Version -> Nat]

TypeWiring ==
  /\ missing \in [Proc -> BOOLEAN]
  /\ things \subseteq Things /\ open \in [Proc -> BOOLEAN]

TypeManager ==
  /\ workers \in [Proc -> 0 .. Kinds] /\ closing \in [Proc -> BOOLEAN]
  /\ publisher \in [Proc -> {"off", "on", "stopping"}]
  /\ cancelled \in [Proc -> BOOLEAN] /\ result \in [Proc -> {"none", "clean", "late"}]

TypeMessages ==
  place \in [Task -> [at : {"waiting", "arrived", "inside", "done"}, by : Proc \cup {Nobody}]]

TypeConsumers ==
  /\ maker \in [Kind -> Proc \cup {Nobody, Absent}] /\ bound \in [Kind -> SUBSET Proc]

(* Every value stays in its type: no migration past the last file, never   *)
(* more than the lock's and one further connection (RunMigrations), no     *)
(* step past the last client (NewServiceContext), no kind of worker twice  *)
(* (Manager.Start).                                                        *)
TypeOK ==
  /\ TypePlaces /\ TypePosition /\ TypeConns /\ TypeMigration /\ TypeWiring /\ TypeManager
  /\ TypeMessages /\ TypeConsumers /\ starts \in Nat /\ faults \in Nat

(* Each migration takes effect at most once, is recorded exactly when it   *)
(* did, and never before the ones in front of it: also when the session    *)
(* with the advisory lock is lost and two processes migrate at once        *)
(* (RunMigrations).                                                        *)
MigratedOnceInOrder ==
  \A f \in Version :
    /\ runs[f] = IF f \in applied THEN 1 ELSE 0
    /\ f \in applied => 1 .. f \subseteq applied

(* A message is in a handler only of a process that has left no migration  *)
(* and no bucket, stream or collection behind, although messages arrive    *)
(* while Start is still subscribing (main, NewServiceContext, Start).      *)
HandlersFindEverything ==
  \A p \in Proc : InHandler(p) # {} => applied = Version /\ things = Things

(* The clients outlive their users: a handler whose context has not been   *)
(* cancelled, and the publisher of a close that kept its budget, still     *)
(* have them (main's deferred calls, Manager.Close).                       *)
ClientsOutliveUsers ==
  \A p \in Proc :
    /\ InHandler(p) # {} /\ ~cancelled[p] => open[p]
    /\ result[p] = "clean" => InHandler(p) = {} /\ publisher[p] = "off"

(* Once a process is closing, no further message gets into a handler, even *)
(* one that had arrived before (track's check under lifecycleMu).          *)
NothingEntersWhenClosing ==
  [][\A p \in Proc : closing[p] => InHandler(p)' \subseteq InHandler(p)]_vars

(* A start comes to an end, also with a pool too small for the migrations  *)
(* or a lock somebody else keeps, and so does a shutdown, however long its *)
(* handlers take (startupCtx, ShutdownTimeoutSeconds).                     *)
StartAndStopEnd ==
  \A p \in Proc :
    /\ pc[p] \in Starting ~> pc[p] \in {"serving", "down"}
    /\ pc[p] \in Stopping ~> pc[p] = "down"

(* If some process keeps serving, every message is handled, whatever the   *)
(* others took with them when they were stopped or killed (track refuses   *)
(* with a negative acknowledgement; unacknowledged messages come back),    *)
(* unless its kind is left without a consumer that anybody is bound to:    *)
(* the maker of the last one was stopped, or its start failed, and nobody  *)
(* who has subscribed since is left (unsubscribeAllLocked).                *)
WorkSurvivesShutdown ==
  \A p \in Proc, m \in Task :
    <>[](pc[p] = "serving") =>
      <>(place[m].at = "done") \/ <>[](bound[KindOf[m]] = {})

=============================================================================
