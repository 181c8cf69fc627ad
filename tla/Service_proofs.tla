-------------------------- MODULE Service_proofs --------------------------
(***************************************************************************)
(* What holds of every number of processes, messages, migrations and kinds *)
(* of worker, for every pool size: the types, each migration once and in   *)
(* order, handlers only behind a complete start, clients that outlive      *)
(* their users, and a closing process that takes nothing in.  The proofs   *)
(* need no assumption on the advisory lock: what it protects is kept by    *)
(* the primary key of schema_migrations.                                   *)
(***************************************************************************)
EXTENDS Service, TLAPS

-----------------------------------------------------------------------------
(* Types, with the connections a process holds at each statement. *)

ConnsKnown ==
  \A p \in Proc :
    conns[p] = IF pc[p] \in {"record", "commit"} THEN 2
               ELSE IF pc[p] \in Migrating \ {"acquire"} THEN 1 ELSE 0

\* How far a process can be at each place.
Ranges ==
  \A p \in Proc :
    /\ pc[p] \in {"ping", "acquire", "lock", "table"} => file[p] = 1
    /\ pc[p] \in {"statements", "record", "commit"} => file[p] <= Files
    /\ pc[p] \in ({"ping"} \cup Migrating) => step[p] = 1
    /\ pc[p] = "wire" => step[p] <= Len(Plan)
    /\ missing[p] => Plan[step[p]] \in Things

\* A consumer delivers only to processes that have subscribed its kind.
Subscribed == \A p \in Proc, k \in Kind : p \in bound[k] => k <= workers[p]

TypeInv == TypeOK /\ ConnsKnown /\ Ranges /\ Subscribed

(* Plan has seven steps, and who has taken them all has passed every thing *)
(* (NewServiceContext).                                                    *)
LEMMA PlanLength == Len(Plan) = 7
BY DEF Plan

\* Who has every thing of the plan has all things.
LEMMA PlanCovers ==
  ASSUME NEW S, \A i \in 1 .. 7 : Plan[i] \in Things => Plan[i] \in S PROVE Things \subseteq S
<1>1. /\ Plan[2] = "bucket" /\ Plan[4] = "stream"
      /\ Plan[5] = "dead letters" /\ Plan[7] = "collection"
  BY DEF Plan
<1>2. 2 \in 1 .. 7 /\ 4 \in 1 .. 7 /\ 5 \in 1 .. 7 /\ 7 \in 1 .. 7
  OBVIOUS
<1>. QED
  BY <1>1, <1>2 DEF Things

\* A consumer has one maker at most and delivers only to processes that have subscribed
\* its kind (QueueSubscribe, unsubscribeAllLocked).
LEMMA ConsumersKnown ==
  ASSUME TypeInv, [Next]_vars
  PROVE  TypeConsumers' /\ Subscribed'
<1>1. /\ TypeConsumers /\ Subscribed /\ workers \in [Proc -> 0 .. Kinds] /\ Kinds \in Nat
      /\ \A k \in Kind : k \in 1 .. Kinds
  BY ServiceAssumption DEF TypeInv, TypeOK, TypeManager, Kind
<1>2. CASE UNCHANGED <<maker, bound, workers>>
  BY <1>1, <1>2 DEF TypeConsumers, Subscribed
<1>3. ASSUME NEW p \in Proc, Subscribe(p)
      PROVE  TypeConsumers' /\ Subscribed'
  <2> DEFINE next == workers[p] + 1
  <2>1. next \in Kind
    BY <1>1, <1>3 DEF Subscribe, Kind
  <2>2. /\ maker' = [maker EXCEPT ![next] = IF @ = Absent THEN p ELSE @]
        /\ bound' = [bound EXCEPT ![next] = @ \cup {p}]
        /\ workers' = [workers EXCEPT ![p] = next]
    BY <1>3 DEF Subscribe
  <2>3. \A k \in Kind : k <= workers[p] => k <= next
    BY <1>1
  <2>4. next <= next
    BY <1>1
  <2> HIDE DEF next
  <2>5. TypeConsumers'
    BY <1>1, <2>1, <2>2 DEF TypeConsumers
  <2>6. ASSUME NEW q \in Proc, NEW k \in Kind, q \in bound'[k]
        PROVE  k <= workers'[q]
    <3>1. CASE q = p /\ k = next
      BY <1>1, <2>2, <2>4, <3>1
    <3>2. CASE q = p /\ k # next
      BY <1>1, <2>2, <2>3, <2>6, <3>2 DEF Subscribed, TypeConsumers
    <3>3. CASE q # p
      BY <1>1, <2>2, <2>6, <3>3 DEF Subscribed, TypeConsumers
    <3>4. QED
      BY <3>1, <3>2, <3>3
  <2>7. QED
    BY <2>5, <2>6 DEF Subscribed
<1>4. ASSUME NEW p \in Proc, Unsubscribe(p) \/ Disconnect(p),
             workers' = [workers EXCEPT ![p] = 0]
      PROVE  TypeConsumers' /\ Subscribed'
  <2>1. TypeConsumers'
    BY <1>1, <1>4 DEF Unsubscribe, Disconnect, TypeConsumers
  <2>2. \A k \in Kind : bound'[k] \subseteq bound[k] \ {p}
    BY <1>1, <1>4 DEF Unsubscribe, Disconnect
  <2>3. \A q \in Proc \ {p} : workers'[q] = workers[q]
    BY <1>1, <1>4
  <2>4. QED
    BY <1>1, <2>1, <2>2, <2>3 DEF Subscribed
<1>5. ASSUME NEW p \in Proc, StartFails(p) \/ Stop(p) \/ Exit(p) \/ Kill(p)
      PROVE  TypeConsumers' /\ Subscribed'
  BY <1>4, <1>5 DEF StartFails, Stop, Exit, Kill, Vanish
<1>6. ASSUME NEW p \in Proc,
             Start(p) \/ Ping(p) \/ Migrate(p) \/ Wire(p) \/ Provide(p) \/ Abort(p)
               \/ StartPublisher(p) \/ Serve(p) \/ PublisherEnds(p) \/ CloseDone(p)
               \/ CloseLate(p) \/ Release(p) \/ LoseSession(p) \/ CommitUnheard(p)
      PROVE  UNCHANGED <<maker, bound, workers>>
  BY <1>6 DEF Start, Ping, Migrate, Acquire, Lock, CreateTable, Look, Statements, Record, Commit,
              Unlock, Wire, Provide, Abort, StartPublisher, Serve, PublisherEnds, CloseDone,
              CloseLate, Release, LoseSession, CommitUnheard, manager, stream
<1>7. ASSUME NEW p \in Proc, NEW m \in Task, Deliver(p, m) \/ Handle(p, m)
      PROVE  UNCHANGED <<maker, bound, workers>>
  BY <1>7 DEF Deliver, Handle, Track, Return, manager
<1>8. CASE UNCHANGED vars
  BY <1>2, <1>8 DEF vars, manager, stream
<1>9. CASE Next
  BY <1>2, <1>3, <1>5, <1>6, <1>7, <1>9 DEF Next, Up, Down
<1>10. QED
  BY <1>8, <1>9

(* TypeInv is inductive (RunMigrations, NewServiceContext, Manager). *)
THEOREM TypeInvariance == Spec => []TypeInv
<1>. USE ServiceAssumption, PlanLength
<1>1. Init => TypeInv
  BY
     DEF Init, TypeInv, TypeOK, TypePlaces, TypePosition, TypeConns, TypeMigration,
         TypeWiring, TypeManager, TypeMessages, Ranges, ConnsKnown, Starting, Stopping,
         Migrating, Things, Version,
         At, Waiting, TypeConsumers, Subscribed, Kind
<1>2. ASSUME TypeInv, [Next]_vars PROVE TypeInv'
  <2>1. TypeInv
    BY <1>2
  <2>c. TypeConsumers' /\ Subscribed'
    BY <1>2, ConsumersKnown
  <2>2. ASSUME NEW p \in Proc, Start(p) PROVE TypeInv'
    <3>1. TypePlaces'
      BY <2>2, <2>1
         DEF Start, Go, TypeInv, TypeOK, TypePlaces, Starting, Stopping, Migrating,
             migration, life, manager, bounds, stream
    <3>2. TypePosition'
      BY <2>2, <2>1
         DEF Start, Go, TypeInv, TypeOK, TypePosition, Ranges, migration, life, manager,
             bounds, stream
    <3>3. TypeConns'
      BY <2>2, <2>1
         DEF Start, Go, TypeInv, TypeOK, TypeConns, ConnsKnown, Migrating, migration,
             life, manager, bounds, stream
    <3>4. TypeMigration'
      BY <2>2, <2>1
         DEF Start, Go, TypeInv, TypeOK, TypePosition, TypeMigration, Ranges, Version,
             migration, life, manager, bounds, stream
    <3>5. TypeWiring'
      BY <2>2, <2>1
         DEF Start, Go, TypeInv, TypeOK, TypeWiring, Ranges, Things, migration, life,
             manager, bounds, stream
    <3>6. TypeManager'
      BY <2>2, <2>1 DEF Start, Go, TypeInv, TypeOK, TypeManager, migration, life, manager,
                        bounds, stream
    <3>7. TypeMessages'
      BY <2>2, <2>1
         DEF Start, Go, TypeInv, TypeOK, TypeMessages, At, Waiting, migration, life,
             manager, bounds, stream
    <3>8. (starts \in Nat /\ faults \in Nat)'
      BY <2>2, <2>1 DEF Start, Go, TypeInv, TypeOK, migration, life, manager, bounds, stream
    <3>9. ConnsKnown'
      BY <2>2, <2>1
         DEF Start, Go, TypeInv, TypeOK, TypePlaces, TypeConns, ConnsKnown, Migrating,
             migration, life, manager, bounds, stream
    <3>10. Ranges'
      BY <2>2, <2>1
         DEF Start, Go, TypeInv, TypeOK, TypePlaces, TypePosition, TypeWiring, Ranges,
             Migrating, Version, migration, life, manager, bounds, stream
    <3>. QED
      BY <2>c, <3>1, <3>2, <3>3, <3>4, <3>5, <3>6, <3>7, <3>8, <3>9, <3>10 DEF TypeInv, TypeOK
  <2>3. ASSUME NEW p \in Proc, Ping(p) PROVE TypeInv'
    <3>1. TypePlaces'
      BY <2>3, <2>1
         DEF Ping, Go, TypeInv, TypeOK, TypePlaces, Starting, Stopping, Migrating,
             migration, life, manager, bounds, stream
    <3>2. TypePosition'
      BY <2>3, <2>1
         DEF Ping, Go, TypeInv, TypeOK, TypePosition, Ranges, migration, life, manager,
             bounds, stream
    <3>3. TypeConns'
      BY <2>3, <2>1
         DEF Ping, Go, TypeInv, TypeOK, TypeConns, ConnsKnown, Migrating, migration, life,
             manager, bounds, stream
    <3>4. TypeMigration'
      BY <2>3, <2>1
         DEF Ping, Go, TypeInv, TypeOK, TypePosition, TypeMigration, Ranges, Version,
             migration, life, manager, bounds, stream
    <3>5. TypeWiring'
      BY <2>3, <2>1
         DEF Ping, Go, TypeInv, TypeOK, TypeWiring, Ranges, Things, migration, life,
             manager, bounds, stream
    <3>6. TypeManager'
      BY <2>3, <2>1 DEF Ping, Go, TypeInv, TypeOK, TypeManager, migration, life, manager,
                        bounds, stream
    <3>7. TypeMessages'
      BY <2>3, <2>1
         DEF Ping, Go, TypeInv, TypeOK, TypeMessages, At, Waiting, migration, life,
             manager, bounds, stream
    <3>8. (starts \in Nat /\ faults \in Nat)'
      BY <2>3, <2>1 DEF Ping, Go, TypeInv, TypeOK, migration, life, manager, bounds, stream
    <3>9. ConnsKnown'
      BY <2>3, <2>1
         DEF Ping, Go, TypeInv, TypeOK, TypePlaces, TypeConns, ConnsKnown, Migrating,
             migration, life, manager, bounds, stream
    <3>10. Ranges'
      BY <2>3, <2>1
         DEF Ping, Go, TypeInv, TypeOK, TypePlaces, TypePosition, TypeWiring, Ranges,
             Migrating, Version, migration, life, manager, bounds, stream
    <3>. QED
      BY <2>c, <3>1, <3>2, <3>3, <3>4, <3>5, <3>6, <3>7, <3>8, <3>9, <3>10 DEF TypeInv, TypeOK
  <2>4. ASSUME NEW p \in Proc, Acquire(p) PROVE TypeInv'
    <3>1. TypePlaces'
      BY <2>4, <2>1
         DEF Acquire, FreeConn, Go, TypeInv, TypeOK, TypePlaces, Starting, Stopping,
             Migrating, migration, life, manager, bounds, stream
    <3>2. TypePosition'
      BY <2>4, <2>1
         DEF Acquire, FreeConn, Go, TypeInv, TypeOK, TypePosition, Ranges, migration,
             life, manager, bounds, stream
    <3>3. TypeConns'
      BY <2>4, <2>1
         DEF Acquire, FreeConn, Go, TypeInv, TypeOK, TypeConns, ConnsKnown, Migrating,
             migration, life, manager, bounds, stream
    <3>4. TypeMigration'
      BY <2>4, <2>1
         DEF Acquire, FreeConn, Go, TypeInv, TypeOK, TypePosition, TypeMigration, Ranges,
             Version, migration, life, manager, bounds, stream
    <3>5. TypeWiring'
      BY <2>4, <2>1
         DEF Acquire, FreeConn, Go, TypeInv, TypeOK, TypeWiring, Ranges, Things,
             migration, life, manager, bounds, stream
    <3>6. TypeManager'
      BY <2>4, <2>1
         DEF Acquire, FreeConn, Go, TypeInv, TypeOK, TypeManager, migration, life,
             manager, bounds, stream
    <3>7. TypeMessages'
      BY <2>4, <2>1
         DEF Acquire, FreeConn, Go, TypeInv, TypeOK, TypeMessages, At, Waiting, migration,
             life, manager, bounds, stream
    <3>8. (starts \in Nat /\ faults \in Nat)'
      BY <2>4, <2>1 DEF Acquire, FreeConn, Go, TypeInv, TypeOK, migration, life, manager,
                        bounds, stream
    <3>9. ConnsKnown'
      BY <2>4, <2>1
         DEF Acquire, FreeConn, Go, TypeInv, TypeOK, TypePlaces, TypeConns, ConnsKnown,
             Migrating, migration, life, manager, bounds, stream
    <3>10. Ranges'
      BY <2>4, <2>1
         DEF Acquire, FreeConn, Go, TypeInv, TypeOK, TypePlaces, TypePosition, TypeWiring,
             Ranges, Migrating, Version, migration, life, manager, bounds, stream
    <3>. QED
      BY <2>c, <3>1, <3>2, <3>3, <3>4, <3>5, <3>6, <3>7, <3>8, <3>9, <3>10 DEF TypeInv, TypeOK
  <2>5. ASSUME NEW p \in Proc, Lock(p) PROVE TypeInv'
    <3>1. TypePlaces'
      BY <2>5, <2>1
         DEF Lock, Go, TypeInv, TypeOK, TypePlaces, Starting, Stopping, Migrating,
             migration, life, manager, bounds, stream
    <3>2. TypePosition'
      BY <2>5, <2>1
         DEF Lock, Go, TypeInv, TypeOK, TypePosition, Ranges, migration, life, manager,
             bounds, stream
    <3>3. TypeConns'
      BY <2>5, <2>1
         DEF Lock, Go, TypeInv, TypeOK, TypeConns, ConnsKnown, Migrating, migration, life,
             manager, bounds, stream
    <3>4. TypeMigration'
      BY <2>5, <2>1
         DEF Lock, Go, TypeInv, TypeOK, TypePosition, TypeMigration, Ranges, Version,
             migration, life, manager, bounds, stream
    <3>5. TypeWiring'
      BY <2>5, <2>1
         DEF Lock, Go, TypeInv, TypeOK, TypeWiring, Ranges, Things, migration, life,
             manager, bounds, stream
    <3>6. TypeManager'
      BY <2>5, <2>1 DEF Lock, Go, TypeInv, TypeOK, TypeManager, migration, life, manager,
                        bounds, stream
    <3>7. TypeMessages'
      BY <2>5, <2>1
         DEF Lock, Go, TypeInv, TypeOK, TypeMessages, At, Waiting, migration, life,
             manager, bounds, stream
    <3>8. (starts \in Nat /\ faults \in Nat)'
      BY <2>5, <2>1 DEF Lock, Go, TypeInv, TypeOK, migration, life, manager, bounds, stream
    <3>9. ConnsKnown'
      BY <2>5, <2>1
         DEF Lock, Go, TypeInv, TypeOK, TypePlaces, TypeConns, ConnsKnown, Migrating,
             migration, life, manager, bounds, stream
    <3>10. Ranges'
      BY <2>5, <2>1
         DEF Lock, Go, TypeInv, TypeOK, TypePlaces, TypePosition, TypeWiring, Ranges,
             Migrating, Version, migration, life, manager, bounds, stream
    <3>. QED
      BY <2>c, <3>1, <3>2, <3>3, <3>4, <3>5, <3>6, <3>7, <3>8, <3>9, <3>10 DEF TypeInv, TypeOK
  <2>6. ASSUME NEW p \in Proc, CreateTable(p) PROVE TypeInv'
    <3>1. TypePlaces'
      BY <2>6, <2>1
         DEF CreateTable, FreeConn, Go, TypeInv, TypeOK, TypePlaces, Starting, Stopping,
             Migrating, migration, life, manager, bounds, stream
    <3>2. TypePosition'
      BY <2>6, <2>1
         DEF CreateTable, FreeConn, Go, TypeInv, TypeOK, TypePosition, Ranges, migration,
             life, manager, bounds, stream
    <3>3. TypeConns'
      BY <2>6, <2>1
         DEF CreateTable, FreeConn, Go, TypeInv, TypeOK, TypeConns, ConnsKnown, Migrating,
             migration, life, manager, bounds, stream
    <3>4. TypeMigration'
      BY <2>6, <2>1
         DEF CreateTable, FreeConn, Go, TypeInv, TypeOK, TypePosition, TypeMigration,
             Ranges, Version, migration, life, manager, bounds, stream
    <3>5. TypeWiring'
      BY <2>6, <2>1
         DEF CreateTable, FreeConn, Go, TypeInv, TypeOK, TypeWiring, Ranges, Things,
             migration, life, manager, bounds, stream
    <3>6. TypeManager'
      BY <2>6, <2>1
         DEF CreateTable, FreeConn, Go, TypeInv, TypeOK, TypeManager, migration, life,
             manager, bounds, stream
    <3>7. TypeMessages'
      BY <2>6, <2>1
         DEF CreateTable, FreeConn, Go, TypeInv, TypeOK, TypeMessages, At, Waiting,
             migration, life, manager, bounds, stream
    <3>8. (starts \in Nat /\ faults \in Nat)'
      BY <2>6, <2>1 DEF CreateTable, FreeConn, Go, TypeInv, TypeOK, migration, life,
                        manager, bounds, stream
    <3>9. ConnsKnown'
      BY <2>6, <2>1
         DEF CreateTable, FreeConn, Go, TypeInv, TypeOK, TypePlaces, TypeConns,
             ConnsKnown, Migrating, migration, life, manager, bounds, stream
    <3>10. Ranges'
      BY <2>6, <2>1
         DEF CreateTable, FreeConn, Go, TypeInv, TypeOK, TypePlaces, TypePosition,
             TypeWiring, Ranges, Migrating, Version, migration, life, manager, bounds, stream
    <3>. QED
      BY <2>c, <3>1, <3>2, <3>3, <3>4, <3>5, <3>6, <3>7, <3>8, <3>9, <3>10 DEF TypeInv, TypeOK
  <2>7. ASSUME NEW p \in Proc, Look(p) PROVE TypeInv'
    <3>1. TypePlaces'
      BY <2>7, <2>1
         DEF Look, FreeConn, Go, TypeInv, TypeOK, TypePlaces, Starting, Stopping,
             Migrating, migration, life, manager, bounds, stream
    <3>2. TypePosition'
      BY <2>7, <2>1
         DEF Look, FreeConn, Go, TypeInv, TypeOK, TypePosition, Ranges, migration, life,
             manager, bounds, stream
    <3>3. TypeConns'
      BY <2>7, <2>1
         DEF Look, FreeConn, Go, TypeInv, TypeOK, TypeConns, ConnsKnown, Migrating,
             migration, life, manager, bounds, stream
    <3>4. TypeMigration'
      BY <2>7, <2>1
         DEF Look, FreeConn, Go, TypeInv, TypeOK, TypePosition, TypeMigration, Ranges,
             Version, migration, life, manager, bounds, stream
    <3>5. TypeWiring'
      BY <2>7, <2>1
         DEF Look, FreeConn, Go, TypeInv, TypeOK, TypeWiring, Ranges, Things, migration,
             life, manager, bounds, stream
    <3>6. TypeManager'
      BY <2>7, <2>1
         DEF Look, FreeConn, Go, TypeInv, TypeOK, TypeManager, migration, life, manager,
             bounds, stream
    <3>7. TypeMessages'
      BY <2>7, <2>1
         DEF Look, FreeConn, Go, TypeInv, TypeOK, TypeMessages, At, Waiting, migration,
             life, manager, bounds, stream
    <3>8. (starts \in Nat /\ faults \in Nat)'
      BY <2>7, <2>1 DEF Look, FreeConn, Go, TypeInv, TypeOK, migration, life, manager,
                        bounds, stream
    <3>9. ConnsKnown'
      BY <2>7, <2>1
         DEF Look, FreeConn, Go, TypeInv, TypeOK, TypePlaces, TypeConns, ConnsKnown,
             Migrating, migration, life, manager, bounds, stream
    <3>10. Ranges'
      BY <2>7, <2>1
         DEF Look, FreeConn, Go, TypeInv, TypeOK, TypePlaces, TypePosition, TypeWiring,
             Ranges, Migrating, Version, migration, life, manager, bounds, stream
    <3>. QED
      BY <2>c, <3>1, <3>2, <3>3, <3>4, <3>5, <3>6, <3>7, <3>8, <3>9, <3>10 DEF TypeInv, TypeOK
  <2>8. ASSUME NEW p \in Proc, Statements(p) PROVE TypeInv'
    <3>1. TypePlaces'
      BY <2>8, <2>1
         DEF Statements, FreeConn, Go, TypeInv, TypeOK, TypePlaces, Starting, Stopping,
             Migrating, migration, life, manager, bounds, stream
    <3>2. TypePosition'
      BY <2>8, <2>1
         DEF Statements, FreeConn, Go, TypeInv, TypeOK, TypePosition, Ranges, migration,
             life, manager, bounds, stream
    <3>3. TypeConns'
      BY <2>8, <2>1
         DEF Statements, FreeConn, Go, TypeInv, TypeOK, TypeConns, ConnsKnown, Migrating,
             migration, life, manager, bounds, stream
    <3>4. TypeMigration'
      BY <2>8, <2>1
         DEF Statements, FreeConn, Go, TypeInv, TypeOK, TypePosition, TypeMigration,
             Ranges, Version, migration, life, manager, bounds, stream
    <3>5. TypeWiring'
      BY <2>8, <2>1
         DEF Statements, FreeConn, Go, TypeInv, TypeOK, TypeWiring, Ranges, Things,
             migration, life, manager, bounds, stream
    <3>6. TypeManager'
      BY <2>8, <2>1
         DEF Statements, FreeConn, Go, TypeInv, TypeOK, TypeManager, migration, life,
             manager, bounds, stream
    <3>7. TypeMessages'
      BY <2>8, <2>1
         DEF Statements, FreeConn, Go, TypeInv, TypeOK, TypeMessages, At, Waiting,
             migration, life, manager, bounds, stream
    <3>8. (starts \in Nat /\ faults \in Nat)'
      BY <2>8, <2>1 DEF Statements, FreeConn, Go, TypeInv, TypeOK, migration, life,
                        manager, bounds, stream
    <3>9. ConnsKnown'
      BY <2>8, <2>1
         DEF Statements, FreeConn, Go, TypeInv, TypeOK, TypePlaces, TypeConns, ConnsKnown,
             Migrating, migration, life, manager, bounds, stream
    <3>10. Ranges'
      BY <2>8, <2>1
         DEF Statements, FreeConn, Go, TypeInv, TypeOK, TypePlaces, TypePosition,
             TypeWiring, Ranges, Migrating, Version, migration, life, manager, bounds, stream
    <3>. QED
      BY <2>c, <3>1, <3>2, <3>3, <3>4, <3>5, <3>6, <3>7, <3>8, <3>9, <3>10 DEF TypeInv, TypeOK
  <2>9. ASSUME NEW p \in Proc, Record(p) PROVE TypeInv'
    <3>1. TypePlaces'
      BY <2>9, <2>1
         DEF Record, Unclaimed, Go, TypeInv, TypeOK, TypePlaces, Starting, Stopping,
             Migrating, migration, life, manager, bounds, stream
    <3>2. TypePosition'
      BY <2>9, <2>1
         DEF Record, Unclaimed, Go, TypeInv, TypeOK, TypePosition, Ranges, migration,
             life, manager, bounds, stream
    <3>3. TypeConns'
      BY <2>9, <2>1
         DEF Record, Unclaimed, Go, TypeInv, TypeOK, TypeConns, ConnsKnown, Migrating,
             migration, life, manager, bounds, stream
    <3>4. TypeMigration'
      BY <2>9, <2>1
         DEF Record, Unclaimed, Go, TypeInv, TypeOK, TypePosition, TypeMigration, Ranges,
             Version, migration, life, manager, bounds, stream
    <3>5. TypeWiring'
      BY <2>9, <2>1
         DEF Record, Unclaimed, Go, TypeInv, TypeOK, TypeWiring, Ranges, Things,
             migration, life, manager, bounds, stream
    <3>6. TypeManager'
      BY <2>9, <2>1
         DEF Record, Unclaimed, Go, TypeInv, TypeOK, TypeManager, migration, life,
             manager, bounds, stream
    <3>7. TypeMessages'
      BY <2>9, <2>1
         DEF Record, Unclaimed, Go, TypeInv, TypeOK, TypeMessages, At, Waiting, migration,
             life, manager, bounds, stream
    <3>8. (starts \in Nat /\ faults \in Nat)'
      BY <2>9, <2>1 DEF Record, Unclaimed, Go, TypeInv, TypeOK, migration, life, manager,
                        bounds, stream
    <3>9. ConnsKnown'
      BY <2>9, <2>1
         DEF Record, Unclaimed, Go, TypeInv, TypeOK, TypePlaces, TypeConns, ConnsKnown,
             Migrating, migration, life, manager, bounds, stream
    <3>10. Ranges'
      BY <2>9, <2>1
         DEF Record, Unclaimed, Go, TypeInv, TypeOK, TypePlaces, TypePosition, TypeWiring,
             Ranges, Migrating, Version, migration, life, manager, bounds, stream
    <3>. QED
      BY <2>c, <3>1, <3>2, <3>3, <3>4, <3>5, <3>6, <3>7, <3>8, <3>9, <3>10 DEF TypeInv, TypeOK
  <2>10. ASSUME NEW p \in Proc, Commit(p) PROVE TypeInv'
    <3>1. TypePlaces'
      BY <2>10, <2>1
         DEF Commit, Stored, Go, TypeInv, TypeOK, TypePlaces, Starting, Stopping,
             Migrating, migration, life, manager, bounds, stream
    <3>2. TypePosition'
      BY <2>10, <2>1
         DEF Commit, Stored, Go, TypeInv, TypeOK, TypePosition, Ranges, migration, life,
             manager, bounds, stream
    <3>3. TypeConns'
      BY <2>10, <2>1
         DEF Commit, Stored, Go, TypeInv, TypeOK, TypeConns, ConnsKnown, Migrating,
             migration, life, manager, bounds, stream
    <3>4. TypeMigration'
      <4>1. file[p] \in Version
        BY <2>10, <2>1 DEF Commit, TypeInv, TypeOK, TypePosition, Ranges, Version
      <4>. QED
        BY <4>1, <2>10, <2>1
           DEF Commit, Stored, TypeInv, TypeOK, TypeMigration, migration, life, manager,
               bounds, stream
    <3>5. TypeWiring'
      BY <2>10, <2>1
         DEF Commit, Stored, Go, TypeInv, TypeOK, TypeWiring, Ranges, Things, migration,
             life, manager, bounds, stream
    <3>6. TypeManager'
      BY <2>10, <2>1
         DEF Commit, Stored, Go, TypeInv, TypeOK, TypeManager, migration, life, manager,
             bounds, stream
    <3>7. TypeMessages'
      BY <2>10, <2>1
         DEF Commit, Stored, Go, TypeInv, TypeOK, TypeMessages, At, Waiting, migration,
             life, manager, bounds, stream
    <3>8. (starts \in Nat /\ faults \in Nat)'
      BY <2>10, <2>1 DEF Commit, Stored, Go, TypeInv, TypeOK, migration, life, manager,
                         bounds, stream
    <3>9. ConnsKnown'
      BY <2>10, <2>1
         DEF Commit, Stored, Go, TypeInv, TypeOK, TypePlaces, TypeConns, ConnsKnown,
             Migrating, migration, life, manager, bounds, stream
    <3>10. Ranges'
      BY <2>10, <2>1
         DEF Commit, Stored, Go, TypeInv, TypeOK, TypePlaces, TypePosition, TypeWiring,
             Ranges, Migrating, Version, migration, life, manager, bounds, stream
    <3>. QED
      BY <2>c, <3>1, <3>2, <3>3, <3>4, <3>5, <3>6, <3>7, <3>8, <3>9, <3>10 DEF TypeInv, TypeOK
  <2>11. ASSUME NEW p \in Proc, Unlock(p) PROVE TypeInv'
    <3>1. TypePlaces'
      BY <2>11, <2>1
         DEF Unlock, LetGo, Go, TypeInv, TypeOK, TypePlaces, Starting, Stopping,
             Migrating, migration, life, manager, bounds, stream
    <3>2. TypePosition'
      BY <2>11, <2>1
         DEF Unlock, LetGo, Go, TypeInv, TypeOK, TypePosition, Ranges, migration, life,
             manager, bounds, stream
    <3>3. TypeConns'
      BY <2>11, <2>1
         DEF Unlock, LetGo, Go, TypeInv, TypeOK, TypeConns, ConnsKnown, Migrating,
             migration, life, manager, bounds, stream
    <3>4. TypeMigration'
      BY <2>11, <2>1
         DEF Unlock, LetGo, Go, TypeInv, TypeOK, TypePosition, TypeMigration, Ranges,
             Version, migration, life, manager, bounds, stream
    <3>5. TypeWiring'
      BY <2>11, <2>1
         DEF Unlock, LetGo, Go, TypeInv, TypeOK, TypeWiring, Ranges, Things, migration,
             life, manager, bounds, stream
    <3>6. TypeManager'
      BY <2>11, <2>1
         DEF Unlock, LetGo, Go, TypeInv, TypeOK, TypeManager, migration, life, manager,
             bounds, stream
    <3>7. TypeMessages'
      BY <2>11, <2>1
         DEF Unlock, LetGo, Go, TypeInv, TypeOK, TypeMessages, At, Waiting, migration,
             life, manager, bounds, stream
    <3>8. (starts \in Nat /\ faults \in Nat)'
      BY <2>11, <2>1 DEF Unlock, LetGo, Go, TypeInv, TypeOK, migration, life, manager,
                         bounds, stream
    <3>9. ConnsKnown'
      BY <2>11, <2>1
         DEF Unlock, LetGo, Go, TypeInv, TypeOK, TypePlaces, TypeConns, ConnsKnown,
             Migrating, migration, life, manager, bounds, stream
    <3>10. Ranges'
      BY <2>11, <2>1
         DEF Unlock, LetGo, Go, TypeInv, TypeOK, TypePlaces, TypePosition, TypeWiring,
             Ranges, Migrating, Version, migration, life, manager, bounds, stream
    <3>. QED
      BY <2>c, <3>1, <3>2, <3>3, <3>4, <3>5, <3>6, <3>7, <3>8, <3>9, <3>10 DEF TypeInv, TypeOK
  <2>12. ASSUME NEW p \in Proc, Wire(p) PROVE TypeInv'
    <3>1. TypePlaces'
      BY <2>12, <2>1
         DEF Wire, Advance, Go, TypeInv, TypeOK, TypePlaces, Starting, Stopping,
             Migrating, migration, life, manager, bounds, stream
    <3>2. TypePosition'
      BY <2>12, <2>1
         DEF Wire, Advance, Go, TypeInv, TypeOK, TypePosition, Ranges, migration, life,
             manager, bounds, stream
    <3>3. TypeConns'
      BY <2>12, <2>1
         DEF Wire, Advance, Go, TypeInv, TypeOK, TypeConns, ConnsKnown, Migrating,
             migration, life, manager, bounds, stream
    <3>4. TypeMigration'
      BY <2>12, <2>1
         DEF Wire, Advance, Go, TypeInv, TypeOK, TypePosition, TypeMigration, Ranges,
             Version, migration, life, manager, bounds, stream
    <3>5. TypeWiring'
      BY <2>12, <2>1
         DEF Wire, Advance, TypeInv, TypeOK, TypeWiring, migration, life, manager, bounds, stream
    <3>6. TypeManager'
      BY <2>12, <2>1
         DEF Wire, Advance, Go, TypeInv, TypeOK, TypeManager, migration, life, manager,
             bounds, stream
    <3>7. TypeMessages'
      BY <2>12, <2>1
         DEF Wire, Advance, Go, TypeInv, TypeOK, TypeMessages, At, Waiting, migration,
             life, manager, bounds, stream
    <3>8. (starts \in Nat /\ faults \in Nat)'
      BY <2>12, <2>1 DEF Wire, Advance, Go, TypeInv, TypeOK, migration, life, manager,
                         bounds, stream
    <3>9. ConnsKnown'
      BY <2>12, <2>1
         DEF Wire, Advance, Go, TypeInv, TypeOK, TypePlaces, TypeConns, ConnsKnown,
             Migrating, migration, life, manager, bounds, stream
    <3>10. Ranges'
      BY <2>12, <2>1
         DEF Wire, Advance, Go, TypeInv, TypeOK, TypePlaces, TypePosition, TypeWiring,
             Ranges, Migrating, Version, migration, life, manager, bounds, stream
    <3>. QED
      BY <2>c, <3>1, <3>2, <3>3, <3>4, <3>5, <3>6, <3>7, <3>8, <3>9, <3>10 DEF TypeInv, TypeOK
  <2>13. ASSUME NEW p \in Proc, Provide(p) PROVE TypeInv'
    <3>1. TypePlaces'
      BY <2>13, <2>1
         DEF Provide, Advance, Go, TypeInv, TypeOK, TypePlaces, Starting, Stopping,
             Migrating, migration, life, manager, bounds, stream
    <3>2. TypePosition'
      BY <2>13, <2>1
         DEF Provide, Advance, Go, TypeInv, TypeOK, TypePosition, Ranges, migration, life,
             manager, bounds, stream
    <3>3. TypeConns'
      BY <2>13, <2>1
         DEF Provide, Advance, Go, TypeInv, TypeOK, TypeConns, ConnsKnown, Migrating,
             migration, life, manager, bounds, stream
    <3>4. TypeMigration'
      BY <2>13, <2>1
         DEF Provide, Advance, Go, TypeInv, TypeOK, TypePosition, TypeMigration, Ranges,
             Version, migration, life, manager, bounds, stream
    <3>5. TypeWiring'
      BY <2>13, <2>1
         DEF Provide, Advance, TypeInv, TypeOK, TypeWiring, Ranges, migration, life,
             manager, bounds, stream
    <3>6. TypeManager'
      BY <2>13, <2>1
         DEF Provide, Advance, Go, TypeInv, TypeOK, TypeManager, migration, life, manager,
             bounds, stream
    <3>7. TypeMessages'
      BY <2>13, <2>1
         DEF Provide, Advance, Go, TypeInv, TypeOK, TypeMessages, At, Waiting, migration,
             life, manager, bounds, stream
    <3>8. (starts \in Nat /\ faults \in Nat)'
      BY <2>13, <2>1 DEF Provide, Advance, Go, TypeInv, TypeOK, migration, life, manager,
                         bounds, stream
    <3>9. ConnsKnown'
      BY <2>13, <2>1
         DEF Provide, Advance, Go, TypeInv, TypeOK, TypePlaces, TypeConns, ConnsKnown,
             Migrating, migration, life, manager, bounds, stream
    <3>10. Ranges'
      BY <2>13, <2>1
         DEF Provide, Advance, Go, TypeInv, TypeOK, TypePlaces, TypePosition, TypeWiring,
             Ranges, Migrating, Version, migration, life, manager, bounds, stream
    <3>. QED
      BY <2>c, <3>1, <3>2, <3>3, <3>4, <3>5, <3>6, <3>7, <3>8, <3>9, <3>10 DEF TypeInv, TypeOK
  <2>14. ASSUME NEW p \in Proc, Abort(p) PROVE TypeInv'
    <3>1. TypePlaces'
      BY <2>14, <2>1
         DEF Abort, LetGo, Go, TypeInv, TypeOK, TypePlaces, Starting, Stopping, Migrating,
             migration, life, manager, bounds, stream
    <3>2. TypePosition'
      BY <2>14, <2>1
         DEF Abort, LetGo, Go, TypeInv, TypeOK, TypePosition, Ranges, migration, life,
             manager, bounds, stream
    <3>3. TypeConns'
      BY <2>14, <2>1
         DEF Abort, LetGo, Go, TypeInv, TypeOK, TypeConns, ConnsKnown, Migrating,
             migration, life, manager, bounds, stream
    <3>4. TypeMigration'
      BY <2>14, <2>1
         DEF Abort, LetGo, Go, TypeInv, TypeOK, TypePosition, TypeMigration, Ranges,
             Version, migration, life, manager, bounds, stream
    <3>5. TypeWiring'
      BY <2>14, <2>1
         DEF Abort, LetGo, Go, TypeInv, TypeOK, TypeWiring, Ranges, Things, migration,
             life, manager, bounds, stream
    <3>6. TypeManager'
      BY <2>14, <2>1
         DEF Abort, LetGo, Go, TypeInv, TypeOK, TypeManager, migration, life, manager,
             bounds, stream
    <3>7. TypeMessages'
      BY <2>14, <2>1
         DEF Abort, LetGo, Go, TypeInv, TypeOK, TypeMessages, At, Waiting, migration,
             life, manager, bounds, stream
    <3>8. (starts \in Nat /\ faults \in Nat)'
      BY <2>14, <2>1 DEF Abort, LetGo, Go, TypeInv, TypeOK, migration, life, manager, bounds, stream
    <3>9. ConnsKnown'
      BY <2>14, <2>1
         DEF Abort, LetGo, Go, TypeInv, TypeOK, TypePlaces, TypeConns, ConnsKnown,
             Migrating, migration, life, manager, bounds, stream
    <3>10. Ranges'
      BY <2>14, <2>1
         DEF Abort, LetGo, Go, TypeInv, TypeOK, TypePlaces, TypePosition, TypeWiring,
             Ranges, Migrating, Version, migration, life, manager, bounds, stream
    <3>. QED
      BY <2>c, <3>1, <3>2, <3>3, <3>4, <3>5, <3>6, <3>7, <3>8, <3>9, <3>10 DEF TypeInv, TypeOK
  <2>15. ASSUME NEW p \in Proc, Subscribe(p) PROVE TypeInv'
    <3>1. TypePlaces'
      BY <2>15, <2>1
         DEF Subscribe, TypeInv, TypeOK, TypePlaces, Starting, Stopping, Migrating,
             migration, life, manager, bounds, stream
    <3>2. TypePosition'
      BY <2>15, <2>1
         DEF Subscribe, TypeInv, TypeOK, TypePosition, Ranges, migration, life, manager,
             bounds, stream
    <3>3. TypeConns'
      BY <2>15, <2>1
         DEF Subscribe, TypeInv, TypeOK, TypeConns, ConnsKnown, Migrating, migration,
             life, manager, bounds, stream
    <3>4. TypeMigration'
      BY <2>15, <2>1
         DEF Subscribe, TypeInv, TypeOK, TypePosition, TypeMigration, Ranges, Version,
             migration, life, manager, bounds, stream
    <3>5. TypeWiring'
      BY <2>15, <2>1
         DEF Subscribe, TypeInv, TypeOK, TypeWiring, Ranges, Things, migration, life,
             manager, bounds, stream
    <3>6. TypeManager'
      BY <2>15, <2>1 DEF Subscribe, TypeInv, TypeOK, TypeManager, migration, life, manager,
                         bounds, stream
    <3>7. TypeMessages'
      BY <2>15, <2>1
         DEF Subscribe, TypeInv, TypeOK, TypeMessages, At, Waiting, migration, life,
             manager, bounds, stream
    <3>8. (starts \in Nat /\ faults \in Nat)'
      BY <2>15, <2>1 DEF Subscribe, TypeInv, TypeOK, migration, life, manager, bounds, stream
    <3>9. ConnsKnown'
      BY <2>15, <2>1
         DEF Subscribe, TypeInv, TypeOK, TypePlaces, TypeConns, ConnsKnown, Migrating,
             migration, life, manager, bounds, stream
    <3>10. Ranges'
      BY <2>15, <2>1
         DEF Subscribe, TypeInv, TypeOK, TypePlaces, TypePosition, TypeWiring, Ranges,
             Migrating, Version, migration, life, manager, bounds, stream
    <3>. QED
      BY <2>c, <3>1, <3>2, <3>3, <3>4, <3>5, <3>6, <3>7, <3>8, <3>9, <3>10 DEF TypeInv, TypeOK
  <2>16. ASSUME NEW p \in Proc, StartPublisher(p) PROVE TypeInv'
    <3>1. TypePlaces'
      BY <2>16, <2>1
         DEF StartPublisher, Go, TypeInv, TypeOK, TypePlaces, Starting, Stopping,
             Migrating, migration, life, manager, bounds, stream
    <3>2. TypePosition'
      BY <2>16, <2>1
         DEF StartPublisher, Go, TypeInv, TypeOK, TypePosition, Ranges, migration, life,
             manager, bounds, stream
    <3>3. TypeConns'
      BY <2>16, <2>1
         DEF StartPublisher, Go, TypeInv, TypeOK, TypeConns, ConnsKnown, Migrating,
             migration, life, manager, bounds, stream
    <3>4. TypeMigration'
      BY <2>16, <2>1
         DEF StartPublisher, Go, TypeInv, TypeOK, TypePosition, TypeMigration, Ranges,
             Version, migration, life, manager, bounds, stream
    <3>5. TypeWiring'
      BY <2>16, <2>1
         DEF StartPublisher, Go, TypeInv, TypeOK, TypeWiring, Ranges, Things, migration,
             life, manager, bounds, stream
    <3>6. TypeManager'
      BY <2>16, <2>1
         DEF StartPublisher, Go, TypeInv, TypeOK, TypeManager, migration, life, manager,
             bounds, stream
    <3>7. TypeMessages'
      BY <2>16, <2>1
         DEF StartPublisher, Go, TypeInv, TypeOK, TypeMessages, At, Waiting, migration,
             life, manager, bounds, stream
    <3>8. (starts \in Nat /\ faults \in Nat)'
      BY <2>16, <2>1 DEF StartPublisher, Go, TypeInv, TypeOK, migration, life, manager,
                         bounds, stream
    <3>9. ConnsKnown'
      BY <2>16, <2>1
         DEF StartPublisher, Go, TypeInv, TypeOK, TypePlaces, TypeConns, ConnsKnown,
             Migrating, migration, life, manager, bounds, stream
    <3>10. Ranges'
      BY <2>16, <2>1
         DEF StartPublisher, Go, TypeInv, TypeOK, TypePlaces, TypePosition, TypeWiring,
             Ranges, Migrating, Version, migration, life, manager, bounds, stream
    <3>. QED
      BY <2>c, <3>1, <3>2, <3>3, <3>4, <3>5, <3>6, <3>7, <3>8, <3>9, <3>10 DEF TypeInv, TypeOK
  <2>17. ASSUME NEW p \in Proc, Serve(p) PROVE TypeInv'
    <3>1. TypePlaces'
      BY <2>17, <2>1
         DEF Serve, Go, TypeInv, TypeOK, TypePlaces, Starting, Stopping, Migrating,
             migration, life, manager, bounds, stream
    <3>2. TypePosition'
      BY <2>17, <2>1
         DEF Serve, Go, TypeInv, TypeOK, TypePosition, Ranges, migration, life, manager,
             bounds, stream
    <3>3. TypeConns'
      BY <2>17, <2>1
         DEF Serve, Go, TypeInv, TypeOK, TypeConns, ConnsKnown, Migrating, migration,
             life, manager, bounds, stream
    <3>4. TypeMigration'
      BY <2>17, <2>1
         DEF Serve, Go, TypeInv, TypeOK, TypePosition, TypeMigration, Ranges, Version,
             migration, life, manager, bounds, stream
    <3>5. TypeWiring'
      BY <2>17, <2>1
         DEF Serve, Go, TypeInv, TypeOK, TypeWiring, Ranges, Things, migration, life,
             manager, bounds, stream
    <3>6. TypeManager'
      BY <2>17, <2>1 DEF Serve, Go, TypeInv, TypeOK, TypeManager, migration, life, manager,
                         bounds, stream
    <3>7. TypeMessages'
      BY <2>17, <2>1
         DEF Serve, Go, TypeInv, TypeOK, TypeMessages, At, Waiting, migration, life,
             manager, bounds, stream
    <3>8. (starts \in Nat /\ faults \in Nat)'
      BY <2>17, <2>1 DEF Serve, Go, TypeInv, TypeOK, migration, life, manager, bounds, stream
    <3>9. ConnsKnown'
      BY <2>17, <2>1
         DEF Serve, Go, TypeInv, TypeOK, TypePlaces, TypeConns, ConnsKnown, Migrating,
             migration, life, manager, bounds, stream
    <3>10. Ranges'
      BY <2>17, <2>1
         DEF Serve, Go, TypeInv, TypeOK, TypePlaces, TypePosition, TypeWiring, Ranges,
             Migrating, Version, migration, life, manager, bounds, stream
    <3>. QED
      BY <2>c, <3>1, <3>2, <3>3, <3>4, <3>5, <3>6, <3>7, <3>8, <3>9, <3>10 DEF TypeInv, TypeOK
  <2>18. ASSUME NEW p \in Proc, StartFails(p) PROVE TypeInv'
    <3>1. TypePlaces'
      BY <2>18, <2>1
         DEF StartFails, Vanish, LetGo, Go, TypeInv, TypeOK, TypePlaces, Starting,
             Stopping, Migrating, migration, life, manager, bounds, stream
    <3>2. TypePosition'
      BY <2>18, <2>1
         DEF StartFails, Vanish, LetGo, Go, TypeInv, TypeOK, TypePosition, Ranges,
             migration, life, manager, bounds, stream
    <3>3. TypeConns'
      BY <2>18, <2>1
         DEF StartFails, Vanish, LetGo, Go, TypeInv, TypeOK, TypeConns, ConnsKnown,
             Migrating, migration, life, manager, bounds, stream
    <3>4. TypeMigration'
      BY <2>18, <2>1
         DEF StartFails, Vanish, LetGo, Go, TypeInv, TypeOK, TypePosition, TypeMigration,
             Ranges, Version, migration, life, manager, bounds, stream
    <3>5. TypeWiring'
      BY <2>18, <2>1
         DEF StartFails, Vanish, LetGo, Go, TypeInv, TypeOK, TypeWiring, Ranges, Things,
             migration, life, manager, bounds, stream
    <3>6. TypeManager'
      BY <2>18, <2>1
         DEF StartFails, Vanish, LetGo, Go, TypeInv, TypeOK, TypeManager, migration, life,
             manager, bounds, stream
    <3>7. TypeMessages'
      BY <2>18, <2>1
         DEF StartFails, Vanish, LetGo, Go, TypeInv, TypeOK, TypeMessages, At, Waiting,
             migration, life, manager, bounds, stream
    <3>8. (starts \in Nat /\ faults \in Nat)'
      BY <2>18, <2>1
         DEF StartFails, Vanish, LetGo, Go, TypeInv, TypeOK, migration, life, manager,
             bounds, stream
    <3>9. ConnsKnown'
      BY <2>18, <2>1
         DEF StartFails, Vanish, LetGo, Go, TypeInv, TypeOK, TypePlaces, TypeConns,
             ConnsKnown, Migrating, migration, life, manager, bounds, stream
    <3>10. Ranges'
      BY <2>18, <2>1
         DEF StartFails, Vanish, LetGo, Go, TypeInv, TypeOK, TypePlaces, TypePosition,
             TypeWiring, Ranges, Migrating, Version, migration, life, manager, bounds, stream
    <3>. QED
      BY <2>c, <3>1, <3>2, <3>3, <3>4, <3>5, <3>6, <3>7, <3>8, <3>9, <3>10 DEF TypeInv, TypeOK
  <2>19. ASSUME NEW p \in Proc, Stop(p) PROVE TypeInv'
    <3>1. TypePlaces'
      BY <2>19, <2>1
         DEF Stop, Go, TypeInv, TypeOK, TypePlaces, Starting, Stopping, Migrating,
             migration, life, manager, bounds, stream
    <3>2. TypePosition'
      BY <2>19, <2>1
         DEF Stop, Go, TypeInv, TypeOK, TypePosition, Ranges, migration, life, manager,
             bounds, stream
    <3>3. TypeConns'
      BY <2>19, <2>1
         DEF Stop, Go, TypeInv, TypeOK, TypeConns, ConnsKnown, Migrating, migration, life,
             manager, bounds, stream
    <3>4. TypeMigration'
      BY <2>19, <2>1
         DEF Stop, Go, TypeInv, TypeOK, TypePosition, TypeMigration, Ranges, Version,
             migration, life, manager, bounds, stream
    <3>5. TypeWiring'
      BY <2>19, <2>1
         DEF Stop, Go, TypeInv, TypeOK, TypeWiring, Ranges, Things, migration, life,
             manager, bounds, stream
    <3>6. TypeManager'
      BY <2>19, <2>1 DEF Stop, Go, TypeInv, TypeOK, TypeManager, migration, life, manager,
                         bounds, stream
    <3>7. TypeMessages'
      BY <2>19, <2>1
         DEF Stop, Go, TypeInv, TypeOK, TypeMessages, At, Waiting, migration, life,
             manager, bounds, stream
    <3>8. (starts \in Nat /\ faults \in Nat)'
      BY <2>19, <2>1 DEF Stop, Go, TypeInv, TypeOK, migration, life, manager, bounds, stream
    <3>9. ConnsKnown'
      BY <2>19, <2>1
         DEF Stop, Go, TypeInv, TypeOK, TypePlaces, TypeConns, ConnsKnown, Migrating,
             migration, life, manager, bounds, stream
    <3>10. Ranges'
      BY <2>19, <2>1
         DEF Stop, Go, TypeInv, TypeOK, TypePlaces, TypePosition, TypeWiring, Ranges,
             Migrating, Version, migration, life, manager, bounds, stream
    <3>. QED
      BY <2>c, <3>1, <3>2, <3>3, <3>4, <3>5, <3>6, <3>7, <3>8, <3>9, <3>10 DEF TypeInv, TypeOK
  <2>20. ASSUME NEW p \in Proc, PublisherEnds(p) PROVE TypeInv'
    <3>1. TypePlaces'
      BY <2>20, <2>1
         DEF PublisherEnds, TypeInv, TypeOK, TypePlaces, Starting, Stopping, Migrating,
             migration, life, manager, bounds, stream
    <3>2. TypePosition'
      BY <2>20, <2>1
         DEF PublisherEnds, TypeInv, TypeOK, TypePosition, Ranges, migration, life,
             manager, bounds, stream
    <3>3. TypeConns'
      BY <2>20, <2>1
         DEF PublisherEnds, TypeInv, TypeOK, TypeConns, ConnsKnown, Migrating, migration,
             life, manager, bounds, stream
    <3>4. TypeMigration'
      BY <2>20, <2>1
         DEF PublisherEnds, TypeInv, TypeOK, TypePosition, TypeMigration, Ranges, Version,
             migration, life, manager, bounds, stream
    <3>5. TypeWiring'
      BY <2>20, <2>1
         DEF PublisherEnds, TypeInv, TypeOK, TypeWiring, Ranges, Things, migration, life,
             manager, bounds, stream
    <3>6. TypeManager'
      BY <2>20, <2>1
         DEF PublisherEnds, TypeInv, TypeOK, TypeManager, migration, life, manager, bounds, stream
    <3>7. TypeMessages'
      BY <2>20, <2>1
         DEF PublisherEnds, TypeInv, TypeOK, TypeMessages, At, Waiting, migration, life,
             manager, bounds, stream
    <3>8. (starts \in Nat /\ faults \in Nat)'
      BY <2>20, <2>1 DEF PublisherEnds, TypeInv, TypeOK, migration, life, manager, bounds, stream
    <3>9. ConnsKnown'
      BY <2>20, <2>1
         DEF PublisherEnds, TypeInv, TypeOK, TypePlaces, TypeConns, ConnsKnown, Migrating,
             migration, life, manager, bounds, stream
    <3>10. Ranges'
      BY <2>20, <2>1
         DEF PublisherEnds, TypeInv, TypeOK, TypePlaces, TypePosition, TypeWiring, Ranges,
             Migrating, Version, migration, life, manager, bounds, stream
    <3>. QED
      BY <2>c, <3>1, <3>2, <3>3, <3>4, <3>5, <3>6, <3>7, <3>8, <3>9, <3>10 DEF TypeInv, TypeOK
  <2>21. ASSUME NEW p \in Proc, CloseDone(p) PROVE TypeInv'
    <3>1. TypePlaces'
      BY <2>21, <2>1
         DEF CloseDone, Drained, Go, TypeInv, TypeOK, TypePlaces, Starting, Stopping,
             Migrating, migration, life, manager, bounds, stream
    <3>2. TypePosition'
      BY <2>21, <2>1
         DEF CloseDone, Drained, Go, TypeInv, TypeOK, TypePosition, Ranges, migration,
             life, manager, bounds, stream
    <3>3. TypeConns'
      BY <2>21, <2>1
         DEF CloseDone, Drained, Go, TypeInv, TypeOK, TypeConns, ConnsKnown, Migrating,
             migration, life, manager, bounds, stream
    <3>4. TypeMigration'
      BY <2>21, <2>1
         DEF CloseDone, Drained, Go, TypeInv, TypeOK, TypePosition, TypeMigration, Ranges,
             Version, migration, life, manager, bounds, stream
    <3>5. TypeWiring'
      BY <2>21, <2>1
         DEF CloseDone, Drained, Go, TypeInv, TypeOK, TypeWiring, Ranges, Things,
             migration, life, manager, bounds, stream
    <3>6. TypeManager'
      BY <2>21, <2>1
         DEF CloseDone, Drained, Go, TypeInv, TypeOK, TypeManager, migration, life,
             manager, bounds, stream
    <3>7. TypeMessages'
      BY <2>21, <2>1
         DEF CloseDone, Drained, Go, TypeInv, TypeOK, TypeMessages, At, Waiting,
             migration, life, manager, bounds, stream
    <3>8. (starts \in Nat /\ faults \in Nat)'
      BY <2>21, <2>1 DEF CloseDone, Drained, Go, TypeInv, TypeOK, migration, life, manager,
                         bounds, stream
    <3>9. ConnsKnown'
      BY <2>21, <2>1
         DEF CloseDone, Drained, Go, TypeInv, TypeOK, TypePlaces, TypeConns, ConnsKnown,
             Migrating, migration, life, manager, bounds, stream
    <3>10. Ranges'
      BY <2>21, <2>1
         DEF CloseDone, Drained, Go, TypeInv, TypeOK, TypePlaces, TypePosition,
             TypeWiring, Ranges, Migrating, Version, migration, life, manager, bounds, stream
    <3>. QED
      BY <2>c, <3>1, <3>2, <3>3, <3>4, <3>5, <3>6, <3>7, <3>8, <3>9, <3>10 DEF TypeInv, TypeOK
  <2>22. ASSUME NEW p \in Proc, CloseLate(p) PROVE TypeInv'
    <3>1. TypePlaces'
      BY <2>22, <2>1
         DEF CloseLate, Go, TypeInv, TypeOK, TypePlaces, Starting, Stopping, Migrating,
             migration, life, manager, bounds, stream
    <3>2. TypePosition'
      BY <2>22, <2>1
         DEF CloseLate, Go, TypeInv, TypeOK, TypePosition, Ranges, migration, life,
             manager, bounds, stream
    <3>3. TypeConns'
      BY <2>22, <2>1
         DEF CloseLate, Go, TypeInv, TypeOK, TypeConns, ConnsKnown, Migrating, migration,
             life, manager, bounds, stream
    <3>4. TypeMigration'
      BY <2>22, <2>1
         DEF CloseLate, Go, TypeInv, TypeOK, TypePosition, TypeMigration, Ranges, Version,
             migration, life, manager, bounds, stream
    <3>5. TypeWiring'
      BY <2>22, <2>1
         DEF CloseLate, Go, TypeInv, TypeOK, TypeWiring, Ranges, Things, migration, life,
             manager, bounds, stream
    <3>6. TypeManager'
      BY <2>22, <2>1
         DEF CloseLate, Go, TypeInv, TypeOK, TypeManager, migration, life, manager, bounds, stream
    <3>7. TypeMessages'
      BY <2>22, <2>1
         DEF CloseLate, Go, TypeInv, TypeOK, TypeMessages, At, Waiting, migration, life,
             manager, bounds, stream
    <3>8. (starts \in Nat /\ faults \in Nat)'
      BY <2>22, <2>1 DEF CloseLate, Go, TypeInv, TypeOK, migration, life, manager, bounds, stream
    <3>9. ConnsKnown'
      BY <2>22, <2>1
         DEF CloseLate, Go, TypeInv, TypeOK, TypePlaces, TypeConns, ConnsKnown, Migrating,
             migration, life, manager, bounds, stream
    <3>10. Ranges'
      BY <2>22, <2>1
         DEF CloseLate, Go, TypeInv, TypeOK, TypePlaces, TypePosition, TypeWiring, Ranges,
             Migrating, Version, migration, life, manager, bounds, stream
    <3>. QED
      BY <2>c, <3>1, <3>2, <3>3, <3>4, <3>5, <3>6, <3>7, <3>8, <3>9, <3>10 DEF TypeInv, TypeOK
  <2>23. ASSUME NEW p \in Proc, Release(p) PROVE TypeInv'
    <3>1. TypePlaces'
      BY <2>23, <2>1
         DEF Release, Go, TypeInv, TypeOK, TypePlaces, Starting, Stopping, Migrating,
             migration, life, manager, bounds, stream
    <3>2. TypePosition'
      BY <2>23, <2>1
         DEF Release, Go, TypeInv, TypeOK, TypePosition, Ranges, migration, life, manager,
             bounds, stream
    <3>3. TypeConns'
      BY <2>23, <2>1
         DEF Release, Go, TypeInv, TypeOK, TypeConns, ConnsKnown, Migrating, migration,
             life, manager, bounds, stream
    <3>4. TypeMigration'
      BY <2>23, <2>1
         DEF Release, Go, TypeInv, TypeOK, TypePosition, TypeMigration, Ranges, Version,
             migration, life, manager, bounds, stream
    <3>5. TypeWiring'
      BY <2>23, <2>1
         DEF Release, Go, TypeInv, TypeOK, TypeWiring, Ranges, Things, migration, life,
             manager, bounds, stream
    <3>6. TypeManager'
      BY <2>23, <2>1 DEF Release, Go, TypeInv, TypeOK, TypeManager, migration, life,
                         manager, bounds, stream
    <3>7. TypeMessages'
      BY <2>23, <2>1
         DEF Release, Go, TypeInv, TypeOK, TypeMessages, At, Waiting, migration, life,
             manager, bounds, stream
    <3>8. (starts \in Nat /\ faults \in Nat)'
      BY <2>23, <2>1 DEF Release, Go, TypeInv, TypeOK, migration, life, manager, bounds, stream
    <3>9. ConnsKnown'
      BY <2>23, <2>1
         DEF Release, Go, TypeInv, TypeOK, TypePlaces, TypeConns, ConnsKnown, Migrating,
             migration, life, manager, bounds, stream
    <3>10. Ranges'
      BY <2>23, <2>1
         DEF Release, Go, TypeInv, TypeOK, TypePlaces, TypePosition, TypeWiring, Ranges,
             Migrating, Version, migration, life, manager, bounds, stream
    <3>. QED
      BY <2>c, <3>1, <3>2, <3>3, <3>4, <3>5, <3>6, <3>7, <3>8, <3>9, <3>10 DEF TypeInv, TypeOK
  <2>24. ASSUME NEW p \in Proc, Exit(p) PROVE TypeInv'
    <3>1. TypePlaces'
      BY <2>24, <2>1
         DEF Exit, Vanish, LetGo, Go, TypeInv, TypeOK, TypePlaces, Starting, Stopping,
             Migrating, migration, life, manager, bounds, stream
    <3>2. TypePosition'
      BY <2>24, <2>1
         DEF Exit, Vanish, LetGo, Go, TypeInv, TypeOK, TypePosition, Ranges, migration,
             life, manager, bounds, stream
    <3>3. TypeConns'
      BY <2>24, <2>1
         DEF Exit, Vanish, LetGo, Go, TypeInv, TypeOK, TypeConns, ConnsKnown, Migrating,
             migration, life, manager, bounds, stream
    <3>4. TypeMigration'
      BY <2>24, <2>1
         DEF Exit, Vanish, LetGo, Go, TypeInv, TypeOK, TypePosition, TypeMigration,
             Ranges, Version, migration, life, manager, bounds, stream
    <3>5. TypeWiring'
      BY <2>24, <2>1
         DEF Exit, Vanish, LetGo, Go, TypeInv, TypeOK, TypeWiring, Ranges, Things,
             migration, life, manager, bounds, stream
    <3>6. TypeManager'
      BY <2>24, <2>1
         DEF Exit, Vanish, LetGo, Go, TypeInv, TypeOK, TypeManager, migration, life,
             manager, bounds, stream
    <3>7. TypeMessages'
      BY <2>24, <2>1
         DEF Exit, Vanish, LetGo, Go, TypeInv, TypeOK, TypeMessages, At, Waiting,
             migration, life, manager, bounds, stream
    <3>8. (starts \in Nat /\ faults \in Nat)'
      BY <2>24, <2>1 DEF Exit, Vanish, LetGo, Go, TypeInv, TypeOK, migration, life,
                         manager, bounds, stream
    <3>9. ConnsKnown'
      BY <2>24, <2>1
         DEF Exit, Vanish, LetGo, Go, TypeInv, TypeOK, TypePlaces, TypeConns, ConnsKnown,
             Migrating, migration, life, manager, bounds, stream
    <3>10. Ranges'
      BY <2>24, <2>1
         DEF Exit, Vanish, LetGo, Go, TypeInv, TypeOK, TypePlaces, TypePosition,
             TypeWiring, Ranges, Migrating, Version, migration, life, manager, bounds, stream
    <3>. QED
      BY <2>c, <3>1, <3>2, <3>3, <3>4, <3>5, <3>6, <3>7, <3>8, <3>9, <3>10 DEF TypeInv, TypeOK
  <2>25. ASSUME NEW p \in Proc, Kill(p) PROVE TypeInv'
    <3>1. TypePlaces'
      BY <2>25, <2>1
         DEF Kill, Vanish, LetGo, Fault, Go, TypeInv, TypeOK, TypePlaces, Starting,
             Stopping, Migrating, migration, life, manager, bounds, stream
    <3>2. TypePosition'
      BY <2>25, <2>1
         DEF Kill, Vanish, LetGo, Fault, Go, TypeInv, TypeOK, TypePosition, Ranges,
             migration, life, manager, bounds, stream
    <3>3. TypeConns'
      BY <2>25, <2>1
         DEF Kill, Vanish, LetGo, Fault, Go, TypeInv, TypeOK, TypeConns, ConnsKnown,
             Migrating, migration, life, manager, bounds, stream
    <3>4. TypeMigration'
      BY <2>25, <2>1
         DEF Kill, Vanish, LetGo, Fault, Go, TypeInv, TypeOK, TypePosition, TypeMigration,
             Ranges, Version, migration, life, manager, bounds, stream
    <3>5. TypeWiring'
      BY <2>25, <2>1
         DEF Kill, Vanish, LetGo, Fault, Go, TypeInv, TypeOK, TypeWiring, Ranges, Things,
             migration, life, manager, bounds, stream
    <3>6. TypeManager'
      BY <2>25, <2>1
         DEF Kill, Vanish, LetGo, Fault, Go, TypeInv, TypeOK, TypeManager, migration,
             life, manager, bounds, stream
    <3>7. TypeMessages'
      BY <2>25, <2>1
         DEF Kill, Vanish, LetGo, Fault, Go, TypeInv, TypeOK, TypeMessages, At, Waiting,
             migration, life, manager, bounds, stream
    <3>8. (starts \in Nat /\ faults \in Nat)'
      BY <2>25, <2>1
         DEF Kill, Vanish, LetGo, Fault, Go, TypeInv, TypeOK, migration, life, manager,
             bounds, stream
    <3>9. ConnsKnown'
      BY <2>25, <2>1
         DEF Kill, Vanish, LetGo, Fault, Go, TypeInv, TypeOK, TypePlaces, TypeConns,
             ConnsKnown, Migrating, migration, life, manager, bounds, stream
    <3>10. Ranges'
      BY <2>25, <2>1
         DEF Kill, Vanish, LetGo, Fault, Go, TypeInv, TypeOK, TypePlaces, TypePosition,
             TypeWiring, Ranges, Migrating, Version, migration, life, manager, bounds, stream
    <3>. QED
      BY <2>c, <3>1, <3>2, <3>3, <3>4, <3>5, <3>6, <3>7, <3>8, <3>9, <3>10 DEF TypeInv, TypeOK
  <2>26. ASSUME NEW p \in Proc, LoseSession(p) PROVE TypeInv'
    <3>1. TypePlaces'
      BY <2>26, <2>1
         DEF LoseSession, Fault, TypeInv, TypeOK, TypePlaces, Starting, Stopping,
             Migrating, migration, life, manager, bounds, stream
    <3>2. TypePosition'
      BY <2>26, <2>1
         DEF LoseSession, Fault, TypeInv, TypeOK, TypePosition, Ranges, migration, life,
             manager, bounds, stream
    <3>3. TypeConns'
      BY <2>26, <2>1
         DEF LoseSession, Fault, TypeInv, TypeOK, TypeConns, ConnsKnown, Migrating,
             migration, life, manager, bounds, stream
    <3>4. TypeMigration'
      BY <2>26, <2>1
         DEF LoseSession, Fault, TypeInv, TypeOK, TypePosition, TypeMigration, Ranges,
             Version, migration, life, manager, bounds, stream
    <3>5. TypeWiring'
      BY <2>26, <2>1
         DEF LoseSession, Fault, TypeInv, TypeOK, TypeWiring, Ranges, Things, migration,
             life, manager, bounds, stream
    <3>6. TypeManager'
      BY <2>26, <2>1
         DEF LoseSession, Fault, TypeInv, TypeOK, TypeManager, migration, life, manager,
             bounds, stream
    <3>7. TypeMessages'
      BY <2>26, <2>1
         DEF LoseSession, Fault, TypeInv, TypeOK, TypeMessages, At, Waiting, migration,
             life, manager, bounds, stream
    <3>8. (starts \in Nat /\ faults \in Nat)'
      BY <2>26, <2>1 DEF LoseSession, Fault, TypeInv, TypeOK, migration, life, manager,
                         bounds, stream
    <3>9. ConnsKnown'
      BY <2>26, <2>1
         DEF LoseSession, Fault, TypeInv, TypeOK, TypePlaces, TypeConns, ConnsKnown,
             Migrating, migration, life, manager, bounds, stream
    <3>10. Ranges'
      BY <2>26, <2>1
         DEF LoseSession, Fault, TypeInv, TypeOK, TypePlaces, TypePosition, TypeWiring,
             Ranges, Migrating, Version, migration, life, manager, bounds, stream
    <3>. QED
      BY <2>c, <3>1, <3>2, <3>3, <3>4, <3>5, <3>6, <3>7, <3>8, <3>9, <3>10 DEF TypeInv, TypeOK
  <2>27. ASSUME NEW p \in Proc, CommitUnheard(p) PROVE TypeInv'
    <3>1. TypePlaces'
      BY <2>27, <2>1
         DEF CommitUnheard, Fault, LetGo, Go, TypeInv, TypeOK, TypePlaces, Starting,
             Stopping, Migrating, migration, life, manager, bounds, stream
    <3>2. TypePosition'
      BY <2>27, <2>1
         DEF CommitUnheard, Fault, LetGo, Go, TypeInv, TypeOK, TypePosition, Ranges,
             migration, life, manager, bounds, stream
    <3>3. TypeConns'
      BY <2>27, <2>1
         DEF CommitUnheard, Fault, LetGo, Go, TypeInv, TypeOK, TypeConns, ConnsKnown,
             Migrating, migration, life, manager, bounds, stream
    <3>4. TypeMigration'
      <4>1. file[p] \in Version
        BY <2>27, <2>1 DEF CommitUnheard, TypeInv, TypeOK, TypePosition, Ranges, Version
      <4>. QED
        BY <4>1, <2>27, <2>1
           DEF CommitUnheard, LetGo, TypeInv, TypeOK, TypeMigration, migration, life,
               manager, bounds, stream
    <3>5. TypeWiring'
      BY <2>27, <2>1
         DEF CommitUnheard, Fault, LetGo, Go, TypeInv, TypeOK, TypeWiring, Ranges, Things,
             migration, life, manager, bounds, stream
    <3>6. TypeManager'
      BY <2>27, <2>1
         DEF CommitUnheard, Fault, LetGo, Go, TypeInv, TypeOK, TypeManager, migration,
             life, manager, bounds, stream
    <3>7. TypeMessages'
      BY <2>27, <2>1
         DEF CommitUnheard, Fault, LetGo, Go, TypeInv, TypeOK, TypeMessages, At, Waiting,
             migration, life, manager, bounds, stream
    <3>8. (starts \in Nat /\ faults \in Nat)'
      BY <2>27, <2>1
         DEF CommitUnheard, Fault, LetGo, Go, TypeInv, TypeOK, migration, life, manager,
             bounds, stream
    <3>9. ConnsKnown'
      BY <2>27, <2>1
         DEF CommitUnheard, Fault, LetGo, Go, TypeInv, TypeOK, TypePlaces, TypeConns,
             ConnsKnown, Migrating, migration, life, manager, bounds, stream
    <3>10. Ranges'
      BY <2>27, <2>1
         DEF CommitUnheard, Fault, LetGo, Go, TypeInv, TypeOK, TypePlaces, TypePosition,
             TypeWiring, Ranges, Migrating, Version, migration, life, manager, bounds, stream
    <3>. QED
      BY <2>c, <3>1, <3>2, <3>3, <3>4, <3>5, <3>6, <3>7, <3>8, <3>9, <3>10 DEF TypeInv, TypeOK
  <2>28. ASSUME NEW p \in Proc, NEW m \in Task, Deliver(p, m) PROVE TypeInv'
    <3>1. TypePlaces'
      BY <2>28, <2>1
         DEF Deliver, TypeInv, TypeOK, TypePlaces, Starting, Stopping, Migrating,
             migration, life, manager, bounds, stream
    <3>2. TypePosition'
      BY <2>28, <2>1
         DEF Deliver, TypeInv, TypeOK, TypePosition, Ranges, migration, life, manager,
             bounds, stream
    <3>3. TypeConns'
      BY <2>28, <2>1
         DEF Deliver, TypeInv, TypeOK, TypeConns, ConnsKnown, Migrating, migration, life,
             manager, bounds, stream
    <3>4. TypeMigration'
      BY <2>28, <2>1
         DEF Deliver, TypeInv, TypeOK, TypePosition, TypeMigration, Ranges, Version,
             migration, life, manager, bounds, stream
    <3>5. TypeWiring'
      BY <2>28, <2>1
         DEF Deliver, TypeInv, TypeOK, TypeWiring, Ranges, Things, migration, life,
             manager, bounds, stream
    <3>6. TypeManager'
      BY <2>28, <2>1 DEF Deliver, TypeInv, TypeOK, TypeManager, migration, life, manager,
                         bounds, stream
    <3>7. TypeMessages'
      BY <2>28, <2>1
         DEF Deliver, TypeInv, TypeOK, TypeMessages, At, Waiting, migration, life,
             manager, bounds, stream
    <3>8. (starts \in Nat /\ faults \in Nat)'
      BY <2>28, <2>1 DEF Deliver, TypeInv, TypeOK, migration, life, manager, bounds, stream
    <3>9. ConnsKnown'
      BY <2>28, <2>1
         DEF Deliver, TypeInv, TypeOK, TypePlaces, TypeConns, ConnsKnown, Migrating,
             migration, life, manager, bounds, stream
    <3>10. Ranges'
      BY <2>28, <2>1
         DEF Deliver, TypeInv, TypeOK, TypePlaces, TypePosition, TypeWiring, Ranges,
             Migrating, Version, migration, life, manager, bounds, stream
    <3>. QED
      BY <2>c, <3>1, <3>2, <3>3, <3>4, <3>5, <3>6, <3>7, <3>8, <3>9, <3>10 DEF TypeInv, TypeOK
  <2>29. ASSUME NEW p \in Proc, NEW m \in Task, Track(p, m) PROVE TypeInv'
    <3>1. TypePlaces'
      BY <2>29, <2>1
         DEF Track, Admit, Refuse, TypeInv, TypeOK, TypePlaces, Starting, Stopping,
             Migrating, migration, life, manager, bounds, stream
    <3>2. TypePosition'
      BY <2>29, <2>1
         DEF Track, Admit, Refuse, TypeInv, TypeOK, TypePosition, Ranges, migration, life,
             manager, bounds, stream
    <3>3. TypeConns'
      BY <2>29, <2>1
         DEF Track, Admit, Refuse, TypeInv, TypeOK, TypeConns, ConnsKnown, Migrating,
             migration, life, manager, bounds, stream
    <3>4. TypeMigration'
      BY <2>29, <2>1
         DEF Track, Admit, Refuse, TypeInv, TypeOK, TypePosition, TypeMigration, Ranges,
             Version, migration, life, manager, bounds, stream
    <3>5. TypeWiring'
      BY <2>29, <2>1
         DEF Track, Admit, Refuse, TypeInv, TypeOK, TypeWiring, Ranges, Things, migration,
             life, manager, bounds, stream
    <3>6. TypeManager'
      BY <2>29, <2>1
         DEF Track, Admit, Refuse, TypeInv, TypeOK, TypeManager, migration, life, manager,
             bounds, stream
    <3>7. TypeMessages'
      BY <2>29, <2>1
         DEF Track, Admit, Refuse, TypeInv, TypeOK, TypeMessages, At, Waiting, migration,
             life, manager, bounds, stream
    <3>8. (starts \in Nat /\ faults \in Nat)'
      BY <2>29, <2>1 DEF Track, Admit, Refuse, TypeInv, TypeOK, migration, life, manager,
                         bounds, stream
    <3>9. ConnsKnown'
      BY <2>29, <2>1
         DEF Track, Admit, Refuse, TypeInv, TypeOK, TypePlaces, TypeConns, ConnsKnown,
             Migrating, migration, life, manager, bounds, stream
    <3>10. Ranges'
      BY <2>29, <2>1
         DEF Track, Admit, Refuse, TypeInv, TypeOK, TypePlaces, TypePosition, TypeWiring,
             Ranges, Migrating, Version, migration, life, manager, bounds, stream
    <3>. QED
      BY <2>c, <3>1, <3>2, <3>3, <3>4, <3>5, <3>6, <3>7, <3>8, <3>9, <3>10 DEF TypeInv, TypeOK
  <2>30. ASSUME NEW p \in Proc, NEW m \in Task, Return(p, m) PROVE TypeInv'
    <3>1. TypePlaces'
      BY <2>30, <2>1
         DEF Return, TypeInv, TypeOK, TypePlaces, Starting, Stopping, Migrating,
             migration, life, manager, bounds, stream
    <3>2. TypePosition'
      BY <2>30, <2>1
         DEF Return, TypeInv, TypeOK, TypePosition, Ranges, migration, life, manager,
             bounds, stream
    <3>3. TypeConns'
      BY <2>30, <2>1
         DEF Return, TypeInv, TypeOK, TypeConns, ConnsKnown, Migrating, migration, life,
             manager, bounds, stream
    <3>4. TypeMigration'
      BY <2>30, <2>1
         DEF Return, TypeInv, TypeOK, TypePosition, TypeMigration, Ranges, Version,
             migration, life, manager, bounds, stream
    <3>5. TypeWiring'
      BY <2>30, <2>1
         DEF Return, TypeInv, TypeOK, TypeWiring, Ranges, Things, migration, life,
             manager, bounds, stream
    <3>6. TypeManager'
      BY <2>30, <2>1 DEF Return, TypeInv, TypeOK, TypeManager, migration, life, manager,
                         bounds, stream
    <3>7. TypeMessages'
      BY <2>30, <2>1
         DEF Return, TypeInv, TypeOK, TypeMessages, At, Waiting, migration, life, manager,
             bounds, stream
    <3>8. (starts \in Nat /\ faults \in Nat)'
      BY <2>30, <2>1 DEF Return, TypeInv, TypeOK, migration, life, manager, bounds, stream
    <3>9. ConnsKnown'
      BY <2>30, <2>1
         DEF Return, TypeInv, TypeOK, TypePlaces, TypeConns, ConnsKnown, Migrating,
             migration, life, manager, bounds, stream
    <3>10. Ranges'
      BY <2>30, <2>1
         DEF Return, TypeInv, TypeOK, TypePlaces, TypePosition, TypeWiring, Ranges,
             Migrating, Version, migration, life, manager, bounds, stream
    <3>. QED
      BY <2>c, <3>1, <3>2, <3>3, <3>4, <3>5, <3>6, <3>7, <3>8, <3>9, <3>10 DEF TypeInv, TypeOK
  <2>31. CASE UNCHANGED vars
    BY <2>31, <2>1, <2>c
       DEF vars, TypeInv, TypeOK, TypePlaces, Starting, Stopping, Migrating, migration,
           life, manager, bounds, stream, TypePosition, Ranges, TypeConns, ConnsKnown,
           TypeMigration, Version, TypeWiring, Things, TypeManager, TypeMessages, At,
           Waiting, TypeInv
  <2>. QED
    BY <2>2, <2>3, <2>4, <2>5, <2>6, <2>7, <2>8, <2>9, <2>10, <2>11, <2>12, <2>13, <2>14, <2>15,
       <2>16, <2>17, <2>18, <2>19, <2>20, <2>21, <2>22, <2>23, <2>24, <2>25, <2>26, <2>27, <2>28,
       <2>29, <2>30, <2>31, <1>2
       DEF Next, Up, Down, Migrate, Handle
<1>. QED
  BY <1>1, <1>2, PTL DEF Spec

-----------------------------------------------------------------------------
(* Migrations: a process has passed only what is applied, and two          *)
(* transactions that have inserted their version insert different ones.    *)

Passed ==
  \A p \in Proc :
    /\ pc[p] \in {"look", "statements", "record", "commit"} => 1 .. (file[p] - 1) \subseteq applied
    /\ pc[p] = "commit" => file[p] \notin applied
    /\ \A q \in Proc : pc[p] = "commit" /\ pc[q] = "commit" /\ p # q => file[p] # file[q]

Complete == applied = Version /\ things = Things

\* What a process knows of its start, and what its workers rely on.
KnownOf(p) ==
  /\ pc[p] \in {"unlock", "wire"} => applied = Version
  /\ pc[p] = "wire" => \A i \in 1 .. 7 : i < step[p] /\ Plan[i] \in Things => Plan[i] \in things
  /\ pc[p] \in {"subscribe", "flush", "serving", "closing", "release"} => Complete

Known == \A p \in Proc : KnownOf(p)

StartInv == MigratedOnceInOrder /\ Passed /\ Known

(* StartInv is inductive (RunMigrations, NewServiceContext). *)
THEOREM StartInvariance == Spec => []StartInv
<1>. USE ServiceAssumption, PlanLength
<1>1. Init => StartInv
  BY DEF Init, StartInv, MigratedOnceInOrder, Passed, Known, KnownOf, Complete, Version
<1>2. ASSUME TypeInv, StartInv, [Next]_vars PROVE StartInv'
  <2>1. TypeInv /\ StartInv
    BY <1>2
  <2>2. ASSUME NEW p \in Proc, Start(p) PROVE StartInv'
    <3>1. MigratedOnceInOrder'
      BY <2>2, <2>1
         DEF Start, Go, MigratedOnceInOrder, Passed, StartInv, TypeInv, TypeOK,
             TypePlaces, TypePosition, TypeConns, TypeMigration, TypeWiring, Ranges,
             Version, migration, life, manager, bounds, stream
    <3>2. Passed'
      BY <2>2, <2>1
         DEF Start, Go, Passed, MigratedOnceInOrder, StartInv, TypeInv, TypeOK,
             TypePlaces, TypePosition, TypeConns, TypeMigration, TypeWiring, Ranges,
             Version, migration, life, manager, bounds, stream
    <3>3. Known'
      BY <2>2, <2>1
         DEF Start, Go, Known, KnownOf, Complete, StartInv, TypeInv, TypeOK, TypePlaces,
             TypePosition, migration, life, manager, bounds, stream
    <3>. QED
      BY <3>1, <3>2, <3>3 DEF StartInv
  <2>3. ASSUME NEW p \in Proc, Ping(p) PROVE StartInv'
    <3>1. MigratedOnceInOrder'
      BY <2>3, <2>1
         DEF Ping, Go, MigratedOnceInOrder, Passed, StartInv, TypeInv, TypeOK, TypePlaces,
             TypePosition, TypeConns, TypeMigration, TypeWiring, Ranges, Version,
             migration, life, manager, bounds, stream
    <3>2. Passed'
      BY <2>3, <2>1
         DEF Ping, Go, Passed, MigratedOnceInOrder, StartInv, TypeInv, TypeOK, TypePlaces,
             TypePosition, TypeConns, TypeMigration, TypeWiring, Ranges, Version,
             migration, life, manager, bounds, stream
    <3>3. Known'
      BY <2>3, <2>1
         DEF Ping, Go, Known, KnownOf, Complete, StartInv, TypeInv, TypeOK, TypePlaces,
             TypePosition, migration, life, manager, bounds, stream
    <3>. QED
      BY <3>1, <3>2, <3>3 DEF StartInv
  <2>4. ASSUME NEW p \in Proc, Acquire(p) PROVE StartInv'
    <3>1. MigratedOnceInOrder'
      BY <2>4, <2>1
         DEF Acquire, FreeConn, Go, MigratedOnceInOrder, Passed, StartInv, TypeInv,
             TypeOK, TypePlaces, TypePosition, TypeConns, TypeMigration, TypeWiring,
             Ranges, Version, migration, life, manager, bounds, stream
    <3>2. Passed'
      BY <2>4, <2>1
         DEF Acquire, FreeConn, Go, Passed, MigratedOnceInOrder, StartInv, TypeInv,
             TypeOK, TypePlaces, TypePosition, TypeConns, TypeMigration, TypeWiring,
             Ranges, Version, migration, life, manager, bounds, stream
    <3>3. Known'
      BY <2>4, <2>1
         DEF Acquire, FreeConn, Go, Known, KnownOf, Complete, StartInv, TypeInv, TypeOK,
             TypePlaces, TypePosition, migration, life, manager, bounds, stream
    <3>. QED
      BY <3>1, <3>2, <3>3 DEF StartInv
  <2>5. ASSUME NEW p \in Proc, Lock(p) PROVE StartInv'
    <3>1. MigratedOnceInOrder'
      BY <2>5, <2>1
         DEF Lock, Go, MigratedOnceInOrder, Passed, StartInv, TypeInv, TypeOK, TypePlaces,
             TypePosition, TypeConns, TypeMigration, TypeWiring, Ranges, Version,
             migration, life, manager, bounds, stream
    <3>2. Passed'
      BY <2>5, <2>1
         DEF Lock, Go, Passed, MigratedOnceInOrder, StartInv, TypeInv, TypeOK, TypePlaces,
             TypePosition, TypeConns, TypeMigration, TypeWiring, Ranges, Version,
             migration, life, manager, bounds, stream
    <3>3. Known'
      BY <2>5, <2>1
         DEF Lock, Go, Known, KnownOf, Complete, StartInv, TypeInv, TypeOK, TypePlaces,
             TypePosition, migration, life, manager, bounds, stream
    <3>. QED
      BY <3>1, <3>2, <3>3 DEF StartInv
  <2>6. ASSUME NEW p \in Proc, CreateTable(p) PROVE StartInv'
    <3>1. MigratedOnceInOrder'
      BY <2>6, <2>1
         DEF CreateTable, FreeConn, Go, MigratedOnceInOrder, Passed, StartInv, TypeInv,
             TypeOK, TypePlaces, TypePosition, TypeConns, TypeMigration, TypeWiring,
             Ranges, Version, migration, life, manager, bounds, stream
    <3>2. Passed'
      BY <2>6, <2>1
         DEF CreateTable, FreeConn, Go, Passed, MigratedOnceInOrder, StartInv, TypeInv,
             TypeOK, TypePlaces, TypePosition, TypeConns, TypeMigration, TypeWiring,
             Ranges, Version, migration, life, manager, bounds, stream
    <3>3. Known'
      BY <2>6, <2>1
         DEF CreateTable, FreeConn, Go, Known, KnownOf, Complete, StartInv, TypeInv,
             TypeOK, TypePlaces, TypePosition, migration, life, manager, bounds, stream
    <3>. QED
      BY <3>1, <3>2, <3>3 DEF StartInv
  <2>7. ASSUME NEW p \in Proc, Look(p) PROVE StartInv'
    <3>1. MigratedOnceInOrder'
      BY <2>7, <2>1
         DEF Look, FreeConn, Go, MigratedOnceInOrder, Passed, StartInv, TypeInv, TypeOK,
             TypePlaces, TypePosition, TypeConns, TypeMigration, TypeWiring, Ranges,
             Version, migration, life, manager, bounds, stream
    <3>2. Passed'
      BY <2>7, <2>1
         DEF Look, FreeConn, Go, Passed, MigratedOnceInOrder, StartInv, TypeInv, TypeOK,
             TypePlaces, TypePosition, TypeConns, TypeMigration, TypeWiring, Ranges,
             Version, migration, life, manager, bounds, stream
    <3>3. Known'
      <4>1. file[p] > Files => applied = Version
        <5>1. pc[p] = "look" /\ file[p] \in 1 .. Files + 1 /\ applied \subseteq Version
          BY <2>7, <2>1 DEF Look, TypeInv, TypeOK, TypePosition, TypeMigration
        <5>2. 1 .. (file[p] - 1) \subseteq applied
          BY <5>1, <2>1 DEF StartInv, Passed
        <5>3. file[p] > Files => file[p] - 1 = Files
          BY <5>1
        <5>. QED
          BY <5>1, <5>2, <5>3 DEF Version
      <4>. QED
        BY <4>1, <2>7, <2>1
           DEF Look, Go, Known, KnownOf, Complete, StartInv, TypeInv, TypeOK,
               TypePlaces, migration, life, manager, bounds, stream
    <3>. QED
      BY <3>1, <3>2, <3>3 DEF StartInv
  <2>8. ASSUME NEW p \in Proc, Statements(p) PROVE StartInv'
    <3>1. MigratedOnceInOrder'
      BY <2>8, <2>1
         DEF Statements, FreeConn, Go, MigratedOnceInOrder, Passed, StartInv, TypeInv,
             TypeOK, TypePlaces, TypePosition, TypeConns, TypeMigration, TypeWiring,
             Ranges, Version, migration, life, manager, bounds, stream
    <3>2. Passed'
      BY <2>8, <2>1
         DEF Statements, FreeConn, Go, Passed, MigratedOnceInOrder, StartInv, TypeInv,
             TypeOK, TypePlaces, TypePosition, TypeConns, TypeMigration, TypeWiring,
             Ranges, Version, migration, life, manager, bounds, stream
    <3>3. Known'
      BY <2>8, <2>1
         DEF Statements, FreeConn, Go, Known, KnownOf, Complete, StartInv, TypeInv,
             TypeOK, TypePlaces, TypePosition, migration, life, manager, bounds, stream
    <3>. QED
      BY <3>1, <3>2, <3>3 DEF StartInv
  <2>9. ASSUME NEW p \in Proc, Record(p) PROVE StartInv'
    <3>1. MigratedOnceInOrder'
      BY <2>9, <2>1
         DEF Record, Unclaimed, Go, MigratedOnceInOrder, Passed, StartInv, TypeInv,
             TypeOK, TypePlaces, TypePosition, TypeConns, TypeMigration, TypeWiring,
             Ranges, Version, migration, life, manager, bounds, stream
    <3>2. Passed'
      BY <2>9, <2>1
         DEF Record, Unclaimed, Go, Passed, MigratedOnceInOrder, StartInv, TypeInv,
             TypeOK, TypePlaces, TypePosition, TypeConns, TypeMigration, TypeWiring,
             Ranges, Version, migration, life, manager, bounds, stream
    <3>3. Known'
      BY <2>9, <2>1
         DEF Record, Unclaimed, Go, Known, KnownOf, Complete, StartInv, TypeInv, TypeOK,
             TypePlaces, TypePosition, migration, life, manager, bounds, stream
    <3>. QED
      BY <3>1, <3>2, <3>3 DEF StartInv
  <2>10. ASSUME NEW p \in Proc, Commit(p) PROVE StartInv'
    <3>1. MigratedOnceInOrder'
      <4>1. file[p] \in Version /\ file[p] \notin applied /\ 1 .. (file[p] - 1) \subseteq applied
        BY <2>10, <2>1 DEF Commit, StartInv, Passed, TypeInv, TypeOK, TypePosition, Ranges, Version
      <4>2. applied' = applied \cup {file[p]} /\ runs' = [runs EXCEPT ![file[p]] = @ + 1]
        BY <2>10 DEF Commit, Stored
      <4>3. ASSUME NEW f \in Version PROVE runs'[f] = IF f \in applied' THEN 1 ELSE 0
        BY <4>1, <4>2, <2>1 DEF StartInv, MigratedOnceInOrder, TypeInv, TypeOK, TypeMigration
      <4>4. ASSUME NEW f \in Version, f \in applied' PROVE 1 .. f \subseteq applied'
        <5>1. CASE f = file[p]
          BY <5>1, <4>1, <4>2 DEF Version
        <5>2. CASE f \in applied
          BY <5>2, <4>2, <2>1 DEF StartInv, MigratedOnceInOrder
        <5>. QED
          BY <5>1, <5>2, <4>4, <4>2
      <4>. QED
        BY <4>3, <4>4 DEF MigratedOnceInOrder
    <3>2. Passed'
      BY <2>10, <2>1
         DEF Commit, Stored, Go, Passed, MigratedOnceInOrder, StartInv, TypeInv, TypeOK,
             TypePlaces, TypePosition, TypeConns, TypeMigration, TypeWiring, Ranges,
             Version, migration, life, manager, bounds, stream
    <3>3. Known'
      <4>1. file[p] \in Version /\ file[p] \notin applied /\ 1 .. (file[p] - 1) \subseteq applied
        BY <2>10, <2>1 DEF Commit, StartInv, Passed, TypeInv, TypeOK, TypePosition, Ranges, Version
      <4>2. applied = Version => applied' = Version
        BY <4>1
      <4>. QED
        BY <4>1, <4>2, <2>10, <2>1
           DEF Commit, Stored, Go, Known, KnownOf, Complete, StartInv, TypeInv, TypeOK,
               TypePlaces, migration, life, manager, bounds, stream
    <3>. QED
      BY <3>1, <3>2, <3>3 DEF StartInv
  <2>11. ASSUME NEW p \in Proc, Unlock(p) PROVE StartInv'
    <3>1. MigratedOnceInOrder'
      BY <2>11, <2>1
         DEF Unlock, LetGo, Go, MigratedOnceInOrder, Passed, StartInv, TypeInv, TypeOK,
             TypePlaces, TypePosition, TypeConns, TypeMigration, TypeWiring, Ranges,
             Version, migration, life, manager, bounds, stream
    <3>2. Passed'
      BY <2>11, <2>1
         DEF Unlock, LetGo, Go, Passed, MigratedOnceInOrder, StartInv, TypeInv, TypeOK,
             TypePlaces, TypePosition, TypeConns, TypeMigration, TypeWiring, Ranges,
             Version, migration, life, manager, bounds, stream
    <3>3. Known'
      BY <2>11, <2>1
         DEF Unlock, LetGo, Go, Known, KnownOf, Complete, StartInv, TypeInv, TypeOK,
             TypePlaces, TypePosition, Ranges, Migrating, migration, life, manager, bounds, stream
    <3>. QED
      BY <3>1, <3>2, <3>3 DEF StartInv
  <2>12. ASSUME NEW p \in Proc, Wire(p) PROVE StartInv'
    <3>1. MigratedOnceInOrder'
      BY <2>12, <2>1
         DEF Wire, Advance, Go, MigratedOnceInOrder, Passed, StartInv, TypeInv, TypeOK,
             TypePlaces, TypePosition, TypeConns, TypeMigration, TypeWiring, Ranges,
             Version, migration, life, manager, bounds, stream
    <3>2. Passed'
      BY <2>12, <2>1
         DEF Wire, Advance, Go, Passed, MigratedOnceInOrder, StartInv, TypeInv, TypeOK,
             TypePlaces, TypePosition, TypeConns, TypeMigration, TypeWiring, Ranges,
             Version, migration, life, manager, bounds, stream
    <3>3. Known'
      <4>1. ASSUME NEW q \in Proc, q # p PROVE KnownOf(q)'
        BY <4>1, <2>12, <2>1
           DEF Wire, Advance, Go, Known, KnownOf, Complete, StartInv, TypeInv, TypeOK,
               TypePlaces, TypePosition, Ranges, migration, life, manager, bounds, stream
      <4>2. step[p] \in 1 .. 7 /\ applied = Version /\ applied' = applied
        BY <2>12, <2>1
           DEF Wire, Advance, Go, Known, KnownOf, Complete, StartInv, TypeInv, TypeOK,
               TypePlaces, TypePosition, Ranges, migration, life, manager, bounds, stream
      <4>3. CASE Plan[step[p]] \in Things \ things
        BY <4>1, <4>3, <2>12, <2>1
           DEF Wire, Advance, Go, Known, KnownOf, Complete, StartInv, TypeInv, TypeOK,
               TypePlaces, TypePosition, Ranges, migration, life, manager, bounds, stream
      <4>4. CASE Plan[step[p]] \notin Things \ things
        <5>1. Advance(p) /\ things' = things
          BY <4>4, <2>12 DEF Wire
        <5>2. \A i \in 1 .. 7 : i < step[p] + 1 /\ Plan[i] \in Things => Plan[i] \in things'
          <6>1. \A i \in 1 .. 7 : i < step[p] /\ Plan[i] \in Things => Plan[i] \in things'
            BY <2>12, <2>1 DEF Wire, StartInv, Known, KnownOf
          <6>2. Plan[step[p]] \in Things => Plan[step[p]] \in things'
            BY <4>4, <5>1
          <6>. QED
            BY <6>1, <6>2, <4>2
        <5>3. CASE step[p] # 7
          BY <5>1, <5>2, <5>3, <4>1, <4>2, <2>12, <2>1
             DEF Wire, Advance, Go, Known, KnownOf, Complete, StartInv, TypeInv,
                 TypeOK, TypePlaces, TypePosition, Ranges, migration, life, manager,
                 bounds, stream
        <5>4. CASE step[p] = 7
          <6>1. Things \subseteq things'
            BY <5>2, <5>4, PlanCovers
          <6>2. things' = Things
            BY <6>1, <2>12, <2>1
               DEF Wire, Advance, Go, Known, KnownOf, Complete, StartInv, TypeInv,
                   TypeOK, TypePlaces, TypePosition, Ranges, migration, life,
                   manager, bounds, stream, TypeWiring
          <6>. QED
            BY <6>2, <5>1, <5>4, <4>1, <4>2, <2>12, <2>1
               DEF Wire, Advance, Go, Known, KnownOf, Complete, StartInv, TypeInv,
                   TypeOK, TypePlaces, TypePosition, Ranges, migration, life,
                   manager, bounds, stream
        <5>. QED
          BY <5>3, <5>4
      <4>. QED
        BY <4>3, <4>4
    <3>. QED
      BY <3>1, <3>2, <3>3 DEF StartInv
  <2>13. ASSUME NEW p \in Proc, Provide(p) PROVE StartInv'
    <3>1. MigratedOnceInOrder'
      BY <2>13, <2>1
         DEF Provide, Advance, Go, MigratedOnceInOrder, Passed, StartInv, TypeInv, TypeOK,
             TypePlaces, TypePosition, TypeConns, TypeMigration, TypeWiring, Ranges,
             Version, migration, life, manager, bounds, stream
    <3>2. Passed'
      BY <2>13, <2>1
         DEF Provide, Advance, Go, Passed, MigratedOnceInOrder, StartInv, TypeInv, TypeOK,
             TypePlaces, TypePosition, TypeConns, TypeMigration, TypeWiring, Ranges,
             Version, migration, life, manager, bounds, stream
    <3>3. Known'
      <4>3. things \subseteq things' /\ (things = Things => things' = Things)
        BY <2>13, <2>1 DEF Provide, TypeInv, Ranges
      <4>1. ASSUME NEW q \in Proc, q # p PROVE KnownOf(q)'
        BY <4>3, <4>1, <2>13, <2>1
           DEF Provide, Advance, Go, Known, KnownOf, Complete, StartInv, TypeInv,
               TypeOK, TypePlaces, TypePosition, migration, life, manager, bounds, stream
      <4>2. step[p] \in 1 .. 7 /\ applied = Version /\ applied' = applied
        BY <2>13, <2>1
           DEF Provide, Advance, Go, Known, KnownOf, Complete, StartInv, TypeInv,
               TypeOK, TypePlaces, TypePosition, Ranges, migration, life, manager,
               bounds, stream
      <4>4. Known'
        <5>1. Advance(p)
          BY <2>13 DEF Provide
        <5>2. \A i \in 1 .. 7 : i < step[p] + 1 /\ Plan[i] \in Things => Plan[i] \in things'
          <6>1. \A i \in 1 .. 7 : i < step[p] /\ Plan[i] \in Things => Plan[i] \in things'
            BY <2>13, <2>1 DEF Provide, StartInv, Known, KnownOf
          <6>2. Plan[step[p]] \in Things => Plan[step[p]] \in things'
            BY <2>13 DEF Provide
          <6>. QED
            BY <6>1, <6>2, <4>2
        <5>3. CASE step[p] # 7
          BY <5>1, <5>2, <5>3, <4>1, <4>2, <2>13, <2>1
             DEF Provide, Advance, Go, Known, KnownOf, Complete, StartInv, TypeInv,
                 TypeOK, TypePlaces, TypePosition, Ranges, migration, life, manager,
                 bounds, stream
        <5>4. CASE step[p] = 7
          <6>1. Things \subseteq things'
            BY <5>2, <5>4, PlanCovers
          <6>2. things' = Things
            BY <6>1, <2>13, <2>1
               DEF Provide, Advance, Go, Known, KnownOf, Complete, StartInv,
                   TypeInv, TypeOK, TypePlaces, TypePosition, Ranges, migration,
                   life, manager, bounds, stream, TypeWiring
          <6>. QED
            BY <6>2, <5>1, <5>4, <4>1, <4>2, <2>13, <2>1
               DEF Provide, Advance, Go, Known, KnownOf, Complete, StartInv,
                   TypeInv, TypeOK, TypePlaces, TypePosition, Ranges, migration,
                   life, manager, bounds, stream
        <5>. QED
          BY <5>3, <5>4
      <4>. QED
        BY <4>4
    <3>. QED
      BY <3>1, <3>2, <3>3 DEF StartInv
  <2>14. ASSUME NEW p \in Proc, Abort(p) PROVE StartInv'
    <3>1. MigratedOnceInOrder'
      BY <2>14, <2>1
         DEF Abort, LetGo, Go, MigratedOnceInOrder, Passed, StartInv, TypeInv, TypeOK,
             TypePlaces, TypePosition, TypeConns, TypeMigration, TypeWiring, Ranges,
             Version, migration, life, manager, bounds, stream
    <3>2. Passed'
      BY <2>14, <2>1
         DEF Abort, LetGo, Go, Passed, MigratedOnceInOrder, StartInv, TypeInv, TypeOK,
             TypePlaces, TypePosition, TypeConns, TypeMigration, TypeWiring, Ranges,
             Version, migration, life, manager, bounds, stream
    <3>3. Known'
      BY <2>14, <2>1
         DEF Abort, LetGo, Go, Known, KnownOf, Complete, StartInv, TypeInv, TypeOK,
             TypePlaces, TypePosition, migration, life, manager, bounds, stream
    <3>. QED
      BY <3>1, <3>2, <3>3 DEF StartInv
  <2>15. ASSUME NEW p \in Proc, Subscribe(p) PROVE StartInv'
    <3>1. MigratedOnceInOrder'
      BY <2>15, <2>1
         DEF Subscribe, MigratedOnceInOrder, Passed, StartInv, TypeInv, TypeOK,
             TypePlaces, TypePosition, TypeConns, TypeMigration, TypeWiring, Ranges,
             Version, migration, life, manager, bounds, stream
    <3>2. Passed'
      BY <2>15, <2>1
         DEF Subscribe, Passed, MigratedOnceInOrder, StartInv, TypeInv, TypeOK,
             TypePlaces, TypePosition, TypeConns, TypeMigration, TypeWiring, Ranges,
             Version, migration, life, manager, bounds, stream
    <3>3. Known'
      BY <2>15, <2>1
         DEF Subscribe, Known, KnownOf, Complete, StartInv, TypeInv, TypeOK, TypePlaces,
             TypePosition, migration, life, manager, bounds, stream
    <3>. QED
      BY <3>1, <3>2, <3>3 DEF StartInv
  <2>16. ASSUME NEW p \in Proc, StartPublisher(p) PROVE StartInv'
    <3>1. MigratedOnceInOrder'
      BY <2>16, <2>1
         DEF StartPublisher, Go, MigratedOnceInOrder, Passed, StartInv, TypeInv, TypeOK,
             TypePlaces, TypePosition, TypeConns, TypeMigration, TypeWiring, Ranges,
             Version, migration, life, manager, bounds, stream
    <3>2. Passed'
      BY <2>16, <2>1
         DEF StartPublisher, Go, Passed, MigratedOnceInOrder, StartInv, TypeInv, TypeOK,
             TypePlaces, TypePosition, TypeConns, TypeMigration, TypeWiring, Ranges,
             Version, migration, life, manager, bounds, stream
    <3>3. Known'
      BY <2>16, <2>1
         DEF StartPublisher, Go, Known, KnownOf, Complete, StartInv, TypeInv, TypeOK,
             TypePlaces, TypePosition, migration, life, manager, bounds, stream
    <3>. QED
      BY <3>1, <3>2, <3>3 DEF StartInv
  <2>17. ASSUME NEW p \in Proc, Serve(p) PROVE StartInv'
    <3>1. MigratedOnceInOrder'
      BY <2>17, <2>1
         DEF Serve, Go, MigratedOnceInOrder, Passed, StartInv, TypeInv, TypeOK,
             TypePlaces, TypePosition, TypeConns, TypeMigration, TypeWiring, Ranges,
             Version, migration, life, manager, bounds, stream
    <3>2. Passed'
      BY <2>17, <2>1
         DEF Serve, Go, Passed, MigratedOnceInOrder, StartInv, TypeInv, TypeOK,
             TypePlaces, TypePosition, TypeConns, TypeMigration, TypeWiring, Ranges,
             Version, migration, life, manager, bounds, stream
    <3>3. Known'
      BY <2>17, <2>1
         DEF Serve, Go, Known, KnownOf, Complete, StartInv, TypeInv, TypeOK, TypePlaces,
             TypePosition, migration, life, manager, bounds, stream
    <3>. QED
      BY <3>1, <3>2, <3>3 DEF StartInv
  <2>18. ASSUME NEW p \in Proc, StartFails(p) PROVE StartInv'
    <3>1. MigratedOnceInOrder'
      BY <2>18, <2>1
         DEF StartFails, Vanish, LetGo, Go, MigratedOnceInOrder, Passed, StartInv,
             TypeInv, TypeOK, TypePlaces, TypePosition, TypeConns, TypeMigration,
             TypeWiring, Ranges, Version, migration, life, manager, bounds, stream
    <3>2. Passed'
      BY <2>18, <2>1
         DEF StartFails, Vanish, LetGo, Go, Passed, MigratedOnceInOrder, StartInv,
             TypeInv, TypeOK, TypePlaces, TypePosition, TypeConns, TypeMigration,
             TypeWiring, Ranges, Version, migration, life, manager, bounds, stream
    <3>3. Known'
      BY <2>18, <2>1
         DEF StartFails, Vanish, LetGo, Go, Known, KnownOf, Complete, StartInv, TypeInv,
             TypeOK, TypePlaces, TypePosition, migration, life, manager, bounds, stream
    <3>. QED
      BY <3>1, <3>2, <3>3 DEF StartInv
  <2>19. ASSUME NEW p \in Proc, Stop(p) PROVE StartInv'
    <3>1. MigratedOnceInOrder'
      BY <2>19, <2>1
         DEF Stop, Go, MigratedOnceInOrder, Passed, StartInv, TypeInv, TypeOK, TypePlaces,
             TypePosition, TypeConns, TypeMigration, TypeWiring, Ranges, Version,
             migration, life, manager, bounds, stream
    <3>2. Passed'
      BY <2>19, <2>1
         DEF Stop, Go, Passed, MigratedOnceInOrder, StartInv, TypeInv, TypeOK, TypePlaces,
             TypePosition, TypeConns, TypeMigration, TypeWiring, Ranges, Version,
             migration, life, manager, bounds, stream
    <3>3. Known'
      BY <2>19, <2>1
         DEF Stop, Go, Known, KnownOf, Complete, StartInv, TypeInv, TypeOK, TypePlaces,
             TypePosition, migration, life, manager, bounds, stream
    <3>. QED
      BY <3>1, <3>2, <3>3 DEF StartInv
  <2>20. ASSUME NEW p \in Proc, PublisherEnds(p) PROVE StartInv'
    <3>1. MigratedOnceInOrder'
      BY <2>20, <2>1
         DEF PublisherEnds, MigratedOnceInOrder, Passed, StartInv, TypeInv, TypeOK,
             TypePlaces, TypePosition, TypeConns, TypeMigration, TypeWiring, Ranges,
             Version, migration, life, manager, bounds, stream
    <3>2. Passed'
      BY <2>20, <2>1
         DEF PublisherEnds, Passed, MigratedOnceInOrder, StartInv, TypeInv, TypeOK,
             TypePlaces, TypePosition, TypeConns, TypeMigration, TypeWiring, Ranges,
             Version, migration, life, manager, bounds, stream
    <3>3. Known'
      BY <2>20, <2>1
         DEF PublisherEnds, Known, KnownOf, Complete, StartInv, TypeInv, TypeOK,
             TypePlaces, TypePosition, migration, life, manager, bounds, stream
    <3>. QED
      BY <3>1, <3>2, <3>3 DEF StartInv
  <2>21. ASSUME NEW p \in Proc, CloseDone(p) PROVE StartInv'
    <3>1. MigratedOnceInOrder'
      BY <2>21, <2>1
         DEF CloseDone, Drained, Go, MigratedOnceInOrder, Passed, StartInv, TypeInv,
             TypeOK, TypePlaces, TypePosition, TypeConns, TypeMigration, TypeWiring,
             Ranges, Version, migration, life, manager, bounds, stream
    <3>2. Passed'
      BY <2>21, <2>1
         DEF CloseDone, Drained, Go, Passed, MigratedOnceInOrder, StartInv, TypeInv,
             TypeOK, TypePlaces, TypePosition, TypeConns, TypeMigration, TypeWiring,
             Ranges, Version, migration, life, manager, bounds, stream
    <3>3. Known'
      BY <2>21, <2>1
         DEF CloseDone, Drained, Go, Known, KnownOf, Complete, StartInv, TypeInv, TypeOK,
             TypePlaces, TypePosition, migration, life, manager, bounds, stream
    <3>. QED
      BY <3>1, <3>2, <3>3 DEF StartInv
  <2>22. ASSUME NEW p \in Proc, CloseLate(p) PROVE StartInv'
    <3>1. MigratedOnceInOrder'
      BY <2>22, <2>1
         DEF CloseLate, Go, MigratedOnceInOrder, Passed, StartInv, TypeInv, TypeOK,
             TypePlaces, TypePosition, TypeConns, TypeMigration, TypeWiring, Ranges,
             Version, migration, life, manager, bounds, stream
    <3>2. Passed'
      BY <2>22, <2>1
         DEF CloseLate, Go, Passed, MigratedOnceInOrder, StartInv, TypeInv, TypeOK,
             TypePlaces, TypePosition, TypeConns, TypeMigration, TypeWiring, Ranges,
             Version, migration, life, manager, bounds, stream
    <3>3. Known'
      BY <2>22, <2>1
         DEF CloseLate, Go, Known, KnownOf, Complete, StartInv, TypeInv, TypeOK,
             TypePlaces, TypePosition, migration, life, manager, bounds, stream
    <3>. QED
      BY <3>1, <3>2, <3>3 DEF StartInv
  <2>23. ASSUME NEW p \in Proc, Release(p) PROVE StartInv'
    <3>1. MigratedOnceInOrder'
      BY <2>23, <2>1
         DEF Release, Go, MigratedOnceInOrder, Passed, StartInv, TypeInv, TypeOK,
             TypePlaces, TypePosition, TypeConns, TypeMigration, TypeWiring, Ranges,
             Version, migration, life, manager, bounds, stream
    <3>2. Passed'
      BY <2>23, <2>1
         DEF Release, Go, Passed, MigratedOnceInOrder, StartInv, TypeInv, TypeOK,
             TypePlaces, TypePosition, TypeConns, TypeMigration, TypeWiring, Ranges,
             Version, migration, life, manager, bounds, stream
    <3>3. Known'
      BY <2>23, <2>1
         DEF Release, Go, Known, KnownOf, Complete, StartInv, TypeInv, TypeOK, TypePlaces,
             TypePosition, migration, life, manager, bounds, stream
    <3>. QED
      BY <3>1, <3>2, <3>3 DEF StartInv
  <2>24. ASSUME NEW p \in Proc, Exit(p) PROVE StartInv'
    <3>1. MigratedOnceInOrder'
      BY <2>24, <2>1
         DEF Exit, Vanish, LetGo, Go, MigratedOnceInOrder, Passed, StartInv, TypeInv,
             TypeOK, TypePlaces, TypePosition, TypeConns, TypeMigration, TypeWiring,
             Ranges, Version, migration, life, manager, bounds, stream
    <3>2. Passed'
      BY <2>24, <2>1
         DEF Exit, Vanish, LetGo, Go, Passed, MigratedOnceInOrder, StartInv, TypeInv,
             TypeOK, TypePlaces, TypePosition, TypeConns, TypeMigration, TypeWiring,
             Ranges, Version, migration, life, manager, bounds, stream
    <3>3. Known'
      BY <2>24, <2>1
         DEF Exit, Vanish, LetGo, Go, Known, KnownOf, Complete, StartInv, TypeInv, TypeOK,
             TypePlaces, TypePosition, migration, life, manager, bounds, stream
    <3>. QED
      BY <3>1, <3>2, <3>3 DEF StartInv
  <2>25. ASSUME NEW p \in Proc, Kill(p) PROVE StartInv'
    <3>1. MigratedOnceInOrder'
      BY <2>25, <2>1
         DEF Kill, Vanish, LetGo, Fault, Go, MigratedOnceInOrder, Passed, StartInv,
             TypeInv, TypeOK, TypePlaces, TypePosition, TypeConns, TypeMigration,
             TypeWiring, Ranges, Version, migration, life, manager, bounds, stream
    <3>2. Passed'
      BY <2>25, <2>1
         DEF Kill, Vanish, LetGo, Fault, Go, Passed, MigratedOnceInOrder, StartInv,
             TypeInv, TypeOK, TypePlaces, TypePosition, TypeConns, TypeMigration,
             TypeWiring, Ranges, Version, migration, life, manager, bounds, stream
    <3>3. Known'
      BY <2>25, <2>1
         DEF Kill, Vanish, LetGo, Fault, Go, Known, KnownOf, Complete, StartInv, TypeInv,
             TypeOK, TypePlaces, TypePosition, migration, life, manager, bounds, stream
    <3>. QED
      BY <3>1, <3>2, <3>3 DEF StartInv
  <2>26. ASSUME NEW p \in Proc, LoseSession(p) PROVE StartInv'
    <3>1. MigratedOnceInOrder'
      BY <2>26, <2>1
         DEF LoseSession, Fault, MigratedOnceInOrder, Passed, StartInv, TypeInv, TypeOK,
             TypePlaces, TypePosition, TypeConns, TypeMigration, TypeWiring, Ranges,
             Version, migration, life, manager, bounds, stream
    <3>2. Passed'
      BY <2>26, <2>1
         DEF LoseSession, Fault, Passed, MigratedOnceInOrder, StartInv, TypeInv, TypeOK,
             TypePlaces, TypePosition, TypeConns, TypeMigration, TypeWiring, Ranges,
             Version, migration, life, manager, bounds, stream
    <3>3. Known'
      BY <2>26, <2>1
         DEF LoseSession, Fault, Known, KnownOf, Complete, StartInv, TypeInv, TypeOK,
             TypePlaces, TypePosition, migration, life, manager, bounds, stream
    <3>. QED
      BY <3>1, <3>2, <3>3 DEF StartInv
  <2>27. ASSUME NEW p \in Proc, CommitUnheard(p) PROVE StartInv'
    <3>1. MigratedOnceInOrder'
      <4>1. file[p] \in Version /\ file[p] \notin applied /\ 1 .. (file[p] - 1) \subseteq applied
        BY <2>27, <2>1
           DEF CommitUnheard, StartInv, Passed, TypeInv, TypeOK, TypePosition, Ranges,
               Version
      <4>2. applied' = applied \cup {file[p]} /\ runs' = [runs EXCEPT ![file[p]] = @ + 1]
        BY <2>27 DEF CommitUnheard, LetGo
      <4>3. ASSUME NEW f \in Version PROVE runs'[f] = IF f \in applied' THEN 1 ELSE 0
        BY <4>1, <4>2, <2>1 DEF StartInv, MigratedOnceInOrder, TypeInv, TypeOK, TypeMigration
      <4>4. ASSUME NEW f \in Version, f \in applied' PROVE 1 .. f \subseteq applied'
        <5>1. CASE f = file[p]
          BY <5>1, <4>1, <4>2 DEF Version
        <5>2. CASE f \in applied
          BY <5>2, <4>2, <2>1 DEF StartInv, MigratedOnceInOrder
        <5>. QED
          BY <5>1, <5>2, <4>4, <4>2
      <4>. QED
        BY <4>3, <4>4 DEF MigratedOnceInOrder
    <3>2. Passed'
      BY <2>27, <2>1
         DEF CommitUnheard, Fault, LetGo, Go, Passed, MigratedOnceInOrder, StartInv,
             TypeInv, TypeOK, TypePlaces, TypePosition, TypeConns, TypeMigration,
             TypeWiring, Ranges, Version, migration, life, manager, bounds, stream
    <3>3. Known'
      <4>1. file[p] \in Version /\ file[p] \notin applied /\ 1 .. (file[p] - 1) \subseteq applied
        BY <2>27, <2>1
           DEF CommitUnheard, StartInv, Passed, TypeInv, TypeOK, TypePosition, Ranges,
               Version
      <4>2. applied = Version => applied' = Version
        BY <4>1
      <4>. QED
        BY <4>1, <4>2, <2>27, <2>1
           DEF CommitUnheard, LetGo, Go, Known, KnownOf, Complete, StartInv, TypeInv,
               TypeOK, TypePlaces, migration, life, manager, bounds, stream
    <3>. QED
      BY <3>1, <3>2, <3>3 DEF StartInv
  <2>28. ASSUME NEW p \in Proc, NEW m \in Task, Deliver(p, m) PROVE StartInv'
    <3>1. MigratedOnceInOrder'
      BY <2>28, <2>1
         DEF Deliver, MigratedOnceInOrder, Passed, StartInv, TypeInv, TypeOK, TypePlaces,
             TypePosition, TypeConns, TypeMigration, TypeWiring, Ranges, Version,
             migration, life, manager, bounds, stream
    <3>2. Passed'
      BY <2>28, <2>1
         DEF Deliver, Passed, MigratedOnceInOrder, StartInv, TypeInv, TypeOK, TypePlaces,
             TypePosition, TypeConns, TypeMigration, TypeWiring, Ranges, Version,
             migration, life, manager, bounds, stream
    <3>3. Known'
      BY <2>28, <2>1
         DEF Deliver, Known, KnownOf, Complete, StartInv, TypeInv, TypeOK, TypePlaces,
             TypePosition, migration, life, manager, bounds, stream
    <3>. QED
      BY <3>1, <3>2, <3>3 DEF StartInv
  <2>29. ASSUME NEW p \in Proc, NEW m \in Task, Track(p, m) PROVE StartInv'
    <3>1. MigratedOnceInOrder'
      BY <2>29, <2>1
         DEF Track, Admit, Refuse, MigratedOnceInOrder, Passed, StartInv, TypeInv, TypeOK,
             TypePlaces, TypePosition, TypeConns, TypeMigration, TypeWiring, Ranges,
             Version, migration, life, manager, bounds, stream
    <3>2. Passed'
      BY <2>29, <2>1
         DEF Track, Admit, Refuse, Passed, MigratedOnceInOrder, StartInv, TypeInv, TypeOK,
             TypePlaces, TypePosition, TypeConns, TypeMigration, TypeWiring, Ranges,
             Version, migration, life, manager, bounds, stream
    <3>3. Known'
      BY <2>29, <2>1
         DEF Track, Admit, Refuse, Known, KnownOf, Complete, StartInv, TypeInv, TypeOK,
             TypePlaces, TypePosition, migration, life, manager, bounds, stream
    <3>. QED
      BY <3>1, <3>2, <3>3 DEF StartInv
  <2>30. ASSUME NEW p \in Proc, NEW m \in Task, Return(p, m) PROVE StartInv'
    <3>1. MigratedOnceInOrder'
      BY <2>30, <2>1
         DEF Return, MigratedOnceInOrder, Passed, StartInv, TypeInv, TypeOK, TypePlaces,
             TypePosition, TypeConns, TypeMigration, TypeWiring, Ranges, Version,
             migration, life, manager, bounds, stream
    <3>2. Passed'
      BY <2>30, <2>1
         DEF Return, Passed, MigratedOnceInOrder, StartInv, TypeInv, TypeOK, TypePlaces,
             TypePosition, TypeConns, TypeMigration, TypeWiring, Ranges, Version,
             migration, life, manager, bounds, stream
    <3>3. Known'
      BY <2>30, <2>1
         DEF Return, Known, KnownOf, Complete, StartInv, TypeInv, TypeOK, TypePlaces,
             TypePosition, migration, life, manager, bounds, stream
    <3>. QED
      BY <3>1, <3>2, <3>3 DEF StartInv
  <2>31. CASE UNCHANGED vars
    BY <2>31, <2>1
       DEF vars, MigratedOnceInOrder, Passed, StartInv, TypeInv, TypeOK, TypePlaces,
           TypePosition, TypeConns, TypeMigration, TypeWiring, Ranges, Version, migration,
           life, manager, bounds, stream, Known, KnownOf, Complete, StartInv
  <2>. QED
    BY <2>2, <2>3, <2>4, <2>5, <2>6, <2>7, <2>8, <2>9, <2>10, <2>11, <2>12, <2>13, <2>14, <2>15,
       <2>16, <2>17, <2>18, <2>19, <2>20, <2>21, <2>22, <2>23, <2>24, <2>25, <2>26, <2>27, <2>28,
       <2>29, <2>30, <2>31, <1>2
       DEF Next, Up, Down, Migrate, Handle
<1>. QED
  BY <1>1, <1>2, TypeInvariance, PTL DEF Spec

-----------------------------------------------------------------------------
(* The manager: where workers, clients and messages can be. *)

Attended ==
  \A p \in Proc :
    /\ workers[p] > 0 => pc[p] \in {"subscribe", "flush", "serving"}
    /\ pc[p] \in {"subscribe", "flush", "serving", "closing", "release"} => open[p]
    /\ pc[p] \in (Migrating \cup {"wire"}) => open[p]
    /\ closing[p] => pc[p] \in (Stopping \cup {"down"})
    /\ pc[p] \in {"closing", "release"} => closing[p]
    /\ pc[p] = "release" => cancelled[p]

Quiet ==
  \A p \in Proc : result[p] = "clean" =>
    /\ pc[p] \in {"release", "exit", "down"} /\ closing[p] /\ publisher[p] = "off"
    /\ \A m \in Task : place[m] # At("inside", p)

\* A process has messages only between its first subscription and the closing
\* of its manager, or afterwards with its context cancelled.
Held ==
  \A p \in Proc, m \in Task : place[m].by = p =>
    /\ applied = Version /\ things = Things
    /\ \/ pc[p] \in {"subscribe", "flush", "serving", "closing"}
       \/ pc[p] \in {"release", "exit"} /\ cancelled[p] /\ closing[p]

ManagerInv == Attended /\ Quiet /\ Held

(* ManagerInv is inductive (Manager.Start, track, Close, main). *)
THEOREM ManagerInvariance == Spec => []ManagerInv
<1>. USE ServiceAssumption
<1>1. Init => ManagerInv
  BY DEF Init, ManagerInv, Attended, Quiet, Held, Stopping, Migrating, At, Waiting
<1>2. ASSUME TypeInv, StartInv, ManagerInv, [Next]_vars PROVE ManagerInv'
  <2>1. TypeInv /\ StartInv /\ ManagerInv
    BY <1>2
  <2>2. ASSUME NEW p \in Proc, Start(p) PROVE ManagerInv'
    <3>1. Attended'
      BY <2>2, <2>1
         DEF Start, Go, Attended, Stopping, Migrating, ManagerInv, TypeInv, TypeOK,
             TypePlaces, TypeWiring, TypeManager, migration, life, manager, bounds, stream
    <3>2. Quiet'
      BY <2>2, <2>1
         DEF Start, Go, Quiet, Attended, InHandler, At, Waiting, Stopping, TypeMessages,
             ManagerInv, TypeInv, TypeOK, TypePlaces, TypeWiring, TypeManager, migration,
             life, manager, bounds, stream
    <3>3. Held'
      BY <2>2, <2>1
         DEF Start, Go, Held, Attended, StartInv, Known, KnownOf, Complete, TypeMigration,
             TypeMessages, At, Waiting, ManagerInv, TypeInv, TypeOK, TypePlaces,
             TypeWiring, TypeManager, migration, life, manager, bounds, stream
    <3>. QED
      BY <3>1, <3>2, <3>3 DEF ManagerInv
  <2>3. ASSUME NEW p \in Proc, Ping(p) PROVE ManagerInv'
    <3>1. Attended'
      BY <2>3, <2>1
         DEF Ping, Go, Attended, Stopping, Migrating, ManagerInv, TypeInv, TypeOK,
             TypePlaces, TypeWiring, TypeManager, migration, life, manager, bounds, stream
    <3>2. Quiet'
      BY <2>3, <2>1
         DEF Ping, Go, Quiet, Attended, InHandler, At, Waiting, Stopping, TypeMessages,
             ManagerInv, TypeInv, TypeOK, TypePlaces, TypeWiring, TypeManager, migration,
             life, manager, bounds, stream
    <3>3. Held'
      BY <2>3, <2>1
         DEF Ping, Go, Held, Attended, StartInv, Known, KnownOf, Complete, TypeMigration,
             TypeMessages, At, Waiting, ManagerInv, TypeInv, TypeOK, TypePlaces,
             TypeWiring, TypeManager, migration, life, manager, bounds, stream
    <3>. QED
      BY <3>1, <3>2, <3>3 DEF ManagerInv
  <2>4. ASSUME NEW p \in Proc, Acquire(p) PROVE ManagerInv'
    <3>1. Attended'
      BY <2>4, <2>1
         DEF Acquire, FreeConn, Go, Attended, Stopping, Migrating, ManagerInv, TypeInv,
             TypeOK, TypePlaces, TypeWiring, TypeManager, migration, life, manager, bounds, stream
    <3>2. Quiet'
      BY <2>4, <2>1
         DEF Acquire, FreeConn, Go, Quiet, Attended, InHandler, At, Waiting, Stopping,
             TypeMessages, ManagerInv, TypeInv, TypeOK, TypePlaces, TypeWiring,
             TypeManager, migration, life, manager, bounds, stream
    <3>3. Held'
      BY <2>4, <2>1
         DEF Acquire, FreeConn, Go, Held, Attended, StartInv, Known, KnownOf, Complete,
             TypeMigration, TypeMessages, At, Waiting, ManagerInv, TypeInv, TypeOK,
             TypePlaces, TypeWiring, TypeManager, migration, life, manager, bounds, stream
    <3>. QED
      BY <3>1, <3>2, <3>3 DEF ManagerInv
  <2>5. ASSUME NEW p \in Proc, Lock(p) PROVE ManagerInv'
    <3>1. Attended'
      BY <2>5, <2>1
         DEF Lock, Go, Attended, Stopping, Migrating, ManagerInv, TypeInv, TypeOK,
             TypePlaces, TypeWiring, TypeManager, migration, life, manager, bounds, stream
    <3>2. Quiet'
      BY <2>5, <2>1
         DEF Lock, Go, Quiet, Attended, InHandler, At, Waiting, Stopping, TypeMessages,
             ManagerInv, TypeInv, TypeOK, TypePlaces, TypeWiring, TypeManager, migration,
             life, manager, bounds, stream
    <3>3. Held'
      BY <2>5, <2>1
         DEF Lock, Go, Held, Attended, StartInv, Known, KnownOf, Complete, TypeMigration,
             TypeMessages, At, Waiting, ManagerInv, TypeInv, TypeOK, TypePlaces,
             TypeWiring, TypeManager, migration, life, manager, bounds, stream
    <3>. QED
      BY <3>1, <3>2, <3>3 DEF ManagerInv
  <2>6. ASSUME NEW p \in Proc, CreateTable(p) PROVE ManagerInv'
    <3>1. Attended'
      BY <2>6, <2>1
         DEF CreateTable, FreeConn, Go, Attended, Stopping, Migrating, ManagerInv,
             TypeInv, TypeOK, TypePlaces, TypeWiring, TypeManager, migration, life,
             manager, bounds, stream
    <3>2. Quiet'
      BY <2>6, <2>1
         DEF CreateTable, FreeConn, Go, Quiet, Attended, InHandler, At, Waiting, Stopping,
             TypeMessages, ManagerInv, TypeInv, TypeOK, TypePlaces, TypeWiring,
             TypeManager, migration, life, manager, bounds, stream
    <3>3. Held'
      BY <2>6, <2>1
         DEF CreateTable, FreeConn, Go, Held, Attended, StartInv, Known, KnownOf,
             Complete, TypeMigration, TypeMessages, At, Waiting, ManagerInv, TypeInv,
             TypeOK, TypePlaces, TypeWiring, TypeManager, migration, life, manager, bounds, stream
    <3>. QED
      BY <3>1, <3>2, <3>3 DEF ManagerInv
  <2>7. ASSUME NEW p \in Proc, Look(p) PROVE ManagerInv'
    <3>1. Attended'
      BY <2>7, <2>1
         DEF Look, FreeConn, Go, Attended, Stopping, Migrating, ManagerInv, TypeInv,
             TypeOK, TypePlaces, TypeWiring, TypeManager, migration, life, manager, bounds, stream
    <3>2. Quiet'
      BY <2>7, <2>1
         DEF Look, FreeConn, Go, Quiet, Attended, InHandler, At, Waiting, Stopping,
             TypeMessages, ManagerInv, TypeInv, TypeOK, TypePlaces, TypeWiring,
             TypeManager, migration, life, manager, bounds, stream
    <3>3. Held'
      BY <2>7, <2>1
         DEF Look, FreeConn, Go, Held, Attended, StartInv, Known, KnownOf, Complete,
             TypeMigration, TypeMessages, At, Waiting, ManagerInv, TypeInv, TypeOK,
             TypePlaces, TypeWiring, TypeManager, migration, life, manager, bounds, stream
    <3>. QED
      BY <3>1, <3>2, <3>3 DEF ManagerInv
  <2>8. ASSUME NEW p \in Proc, Statements(p) PROVE ManagerInv'
    <3>1. Attended'
      BY <2>8, <2>1
         DEF Statements, FreeConn, Go, Attended, Stopping, Migrating, ManagerInv, TypeInv,
             TypeOK, TypePlaces, TypeWiring, TypeManager, migration, life, manager, bounds, stream
    <3>2. Quiet'
      BY <2>8, <2>1
         DEF Statements, FreeConn, Go, Quiet, Attended, InHandler, At, Waiting, Stopping,
             TypeMessages, ManagerInv, TypeInv, TypeOK, TypePlaces, TypeWiring,
             TypeManager, migration, life, manager, bounds, stream
    <3>3. Held'
      BY <2>8, <2>1
         DEF Statements, FreeConn, Go, Held, Attended, StartInv, Known, KnownOf, Complete,
             TypeMigration, TypeMessages, At, Waiting, ManagerInv, TypeInv, TypeOK,
             TypePlaces, TypeWiring, TypeManager, migration, life, manager, bounds, stream
    <3>. QED
      BY <3>1, <3>2, <3>3 DEF ManagerInv
  <2>9. ASSUME NEW p \in Proc, Record(p) PROVE ManagerInv'
    <3>1. Attended'
      BY <2>9, <2>1
         DEF Record, Unclaimed, Go, Attended, Stopping, Migrating, ManagerInv, TypeInv,
             TypeOK, TypePlaces, TypeWiring, TypeManager, migration, life, manager, bounds, stream
    <3>2. Quiet'
      BY <2>9, <2>1
         DEF Record, Unclaimed, Go, Quiet, Attended, InHandler, At, Waiting, Stopping,
             TypeMessages, ManagerInv, TypeInv, TypeOK, TypePlaces, TypeWiring,
             TypeManager, migration, life, manager, bounds, stream
    <3>3. Held'
      BY <2>9, <2>1
         DEF Record, Unclaimed, Go, Held, Attended, StartInv, Known, KnownOf, Complete,
             TypeMigration, TypeMessages, At, Waiting, ManagerInv, TypeInv, TypeOK,
             TypePlaces, TypeWiring, TypeManager, migration, life, manager, bounds, stream
    <3>. QED
      BY <3>1, <3>2, <3>3 DEF ManagerInv
  <2>10. ASSUME NEW p \in Proc, Commit(p) PROVE ManagerInv'
    <3>1. Attended'
      BY <2>10, <2>1
         DEF Commit, Stored, Go, Attended, Stopping, Migrating, ManagerInv, TypeInv,
             TypeOK, TypePlaces, TypeWiring, TypeManager, migration, life, manager, bounds, stream
    <3>2. Quiet'
      BY <2>10, <2>1
         DEF Commit, Stored, Go, Quiet, Attended, InHandler, At, Waiting, Stopping,
             TypeMessages, ManagerInv, TypeInv, TypeOK, TypePlaces, TypeWiring,
             TypeManager, migration, life, manager, bounds, stream
    <3>3. Held'
      <4>1. \A m \in Task : place[m].by # p
        BY <2>10, <2>1 DEF Commit, ManagerInv, Held, Migrating
      <4>2. place' = place /\ cancelled' = cancelled /\ closing' = closing
        BY <2>10 DEF Commit, manager, stream
      <4>3. \A q \in Proc : q # p => pc'[q] = pc[q]
        BY <2>10, <2>1 DEF Commit, Go, TypeInv, TypeOK, TypePlaces
      <4>4. (applied = Version => applied' = Version) /\ things' = things
        BY <2>10, <2>1 DEF Commit, Stored, TypeInv, TypeOK, TypePosition, Ranges, Version
      <4>. QED
        BY <4>1, <4>2, <4>3, <4>4, <2>1 DEF Held, ManagerInv
    <3>. QED
      BY <3>1, <3>2, <3>3 DEF ManagerInv
  <2>11. ASSUME NEW p \in Proc, Unlock(p) PROVE ManagerInv'
    <3>1. Attended'
      BY <2>11, <2>1
         DEF Unlock, LetGo, Go, Attended, Stopping, Migrating, ManagerInv, TypeInv,
             TypeOK, TypePlaces, TypeWiring, TypeManager, migration, life, manager, bounds, stream
    <3>2. Quiet'
      BY <2>11, <2>1
         DEF Unlock, LetGo, Go, Quiet, Attended, InHandler, At, Waiting, Stopping,
             TypeMessages, ManagerInv, TypeInv, TypeOK, TypePlaces, TypeWiring,
             TypeManager, migration, life, manager, bounds, stream
    <3>3. Held'
      BY <2>11, <2>1
         DEF Unlock, LetGo, Go, Held, Attended, StartInv, Known, KnownOf, Complete,
             TypeMigration, TypeMessages, At, Waiting, ManagerInv, TypeInv, TypeOK,
             TypePlaces, TypeWiring, TypeManager, migration, life, manager, bounds, stream
    <3>. QED
      BY <3>1, <3>2, <3>3 DEF ManagerInv
  <2>12. ASSUME NEW p \in Proc, Wire(p) PROVE ManagerInv'
    <3>1. Attended'
      BY <2>12, <2>1
         DEF Wire, Advance, Go, Attended, Stopping, Migrating, ManagerInv, TypeInv,
             TypeOK, TypePlaces, TypeWiring, TypeManager, migration, life, manager, bounds, stream
    <3>2. Quiet'
      BY <2>12, <2>1
         DEF Wire, Advance, Go, Quiet, Attended, InHandler, At, Waiting, Stopping,
             TypeMessages, ManagerInv, TypeInv, TypeOK, TypePlaces, TypeWiring,
             TypeManager, migration, life, manager, bounds, stream
    <3>3. Held'
      BY <2>12, <2>1
         DEF Wire, Advance, Go, Held, Attended, StartInv, Known, KnownOf, Complete,
             TypeMigration, TypeMessages, At, Waiting, ManagerInv, TypeInv, TypeOK,
             TypePlaces, TypeWiring, TypeManager, migration, life, manager, bounds, stream
    <3>. QED
      BY <3>1, <3>2, <3>3 DEF ManagerInv
  <2>13. ASSUME NEW p \in Proc, Provide(p) PROVE ManagerInv'
    <3>1. Attended'
      BY <2>13, <2>1
         DEF Provide, Advance, Go, Attended, Stopping, Migrating, ManagerInv, TypeInv,
             TypeOK, TypePlaces, TypeWiring, TypeManager, migration, life, manager, bounds, stream
    <3>2. Quiet'
      BY <2>13, <2>1
         DEF Provide, Advance, Go, Quiet, ManagerInv, TypeInv, TypeOK, TypePlaces, manager, stream
    <3>3. Held'
      <4>1. \A m \in Task : place[m].by # p
        BY <2>13, <2>1 DEF Provide, ManagerInv, Held, Migrating
      <4>2. place' = place /\ cancelled' = cancelled /\ closing' = closing
        BY <2>13 DEF Provide, manager, stream
      <4>3. \A q \in Proc : q # p => pc'[q] = pc[q]
        BY <2>13, <2>1 DEF Provide, Advance, Go, TypeInv, TypeOK, TypePlaces
      <4>4. applied' = applied /\ (things = Things => things' = Things)
        BY <2>13, <2>1 DEF Provide, migration, TypeInv, Ranges
      <4>. QED
        BY <4>1, <4>2, <4>3, <4>4, <2>1 DEF Held, ManagerInv
    <3>. QED
      BY <3>1, <3>2, <3>3 DEF ManagerInv
  <2>14. ASSUME NEW p \in Proc, Abort(p) PROVE ManagerInv'
    <3>1. Attended'
      BY <2>14, <2>1
         DEF Abort, LetGo, Go, Attended, Stopping, Migrating, ManagerInv, TypeInv, TypeOK,
             TypePlaces, TypeWiring, TypeManager, migration, life, manager, bounds, stream
    <3>2. Quiet'
      BY <2>14, <2>1
         DEF Abort, LetGo, Go, Quiet, Attended, InHandler, At, Waiting, Stopping,
             TypeMessages, ManagerInv, TypeInv, TypeOK, TypePlaces, TypeWiring,
             TypeManager, migration, life, manager, bounds, stream
    <3>3. Held'
      <4>1. \A m \in Task : place[m].by # p
        BY <2>14, <2>1 DEF Abort, ManagerInv, Held, Migrating
      <4>2. place' = place /\ cancelled' = cancelled /\ closing' = closing
        BY <2>14 DEF Abort, manager, stream
      <4>3. \A q \in Proc : q # p => pc'[q] = pc[q]
        BY <2>14, <2>1 DEF Abort, Go, TypeInv, TypeOK, TypePlaces
      <4>4. applied' = applied /\ things' = things
        BY <2>14, <2>1 DEF Abort
      <4>. QED
        BY <4>1, <4>2, <4>3, <4>4, <2>1 DEF Held, ManagerInv
    <3>. QED
      BY <3>1, <3>2, <3>3 DEF ManagerInv
  <2>15. ASSUME NEW p \in Proc, Subscribe(p) PROVE ManagerInv'
    <3>1. Attended'
      BY <2>15, <2>1
         DEF Subscribe, Attended, Stopping, Migrating, ManagerInv, TypeInv, TypeOK,
             TypePlaces, TypeWiring, TypeManager, migration, life, manager, bounds, stream
    <3>2. Quiet'
      BY <2>15, <2>1
         DEF Subscribe, Quiet, Attended, InHandler, At, Waiting, Stopping, TypeMessages,
             ManagerInv, TypeInv, TypeOK, TypePlaces, TypeWiring, TypeManager, migration,
             life, manager, bounds, stream
    <3>3. Held'
      BY <2>15, <2>1
         DEF Subscribe, Held, Attended, StartInv, Known, KnownOf, Complete, TypeMigration,
             TypeMessages, At, Waiting, ManagerInv, TypeInv, TypeOK, TypePlaces,
             TypeWiring, TypeManager, migration, life, manager, bounds, stream
    <3>. QED
      BY <3>1, <3>2, <3>3 DEF ManagerInv
  <2>16. ASSUME NEW p \in Proc, StartPublisher(p) PROVE ManagerInv'
    <3>1. Attended'
      BY <2>16, <2>1
         DEF StartPublisher, Go, Attended, Stopping, Migrating, ManagerInv, TypeInv,
             TypeOK, TypePlaces, TypeWiring, TypeManager, migration, life, manager, bounds, stream
    <3>2. Quiet'
      BY <2>16, <2>1
         DEF StartPublisher, Go, Quiet, Attended, InHandler, At, Waiting, Stopping,
             TypeMessages, ManagerInv, TypeInv, TypeOK, TypePlaces, TypeWiring,
             TypeManager, migration, life, manager, bounds, stream
    <3>3. Held'
      BY <2>16, <2>1
         DEF StartPublisher, Go, Held, Attended, StartInv, Known, KnownOf, Complete,
             TypeMigration, TypeMessages, At, Waiting, ManagerInv, TypeInv, TypeOK,
             TypePlaces, TypeWiring, TypeManager, migration, life, manager, bounds, stream
    <3>. QED
      BY <3>1, <3>2, <3>3 DEF ManagerInv
  <2>17. ASSUME NEW p \in Proc, Serve(p) PROVE ManagerInv'
    <3>1. Attended'
      BY <2>17, <2>1
         DEF Serve, Go, Attended, Stopping, Migrating, ManagerInv, TypeInv, TypeOK,
             TypePlaces, TypeWiring, TypeManager, migration, life, manager, bounds, stream
    <3>2. Quiet'
      BY <2>17, <2>1
         DEF Serve, Go, Quiet, Attended, InHandler, At, Waiting, Stopping, TypeMessages,
             ManagerInv, TypeInv, TypeOK, TypePlaces, TypeWiring, TypeManager, migration,
             life, manager, bounds, stream
    <3>3. Held'
      BY <2>17, <2>1
         DEF Serve, Go, Held, Attended, StartInv, Known, KnownOf, Complete, TypeMigration,
             TypeMessages, At, Waiting, ManagerInv, TypeInv, TypeOK, TypePlaces,
             TypeWiring, TypeManager, migration, life, manager, bounds, stream
    <3>. QED
      BY <3>1, <3>2, <3>3 DEF ManagerInv
  <2>18. ASSUME NEW p \in Proc, StartFails(p) PROVE ManagerInv'
    <3>1. Attended'
      BY <2>18, <2>1
         DEF StartFails, Vanish, LetGo, Go, Attended, Stopping, Migrating, ManagerInv,
             TypeInv, TypeOK, TypePlaces, TypeWiring, TypeManager, migration, life,
             manager, bounds, stream
    <3>2. Quiet'
      BY <2>18, <2>1
         DEF StartFails, Vanish, LetGo, Go, Quiet, Attended, InHandler, At, Waiting,
             Stopping, TypeMessages, ManagerInv, TypeInv, TypeOK, TypePlaces, TypeWiring,
             TypeManager, migration, life, manager, bounds, stream
    <3>3. Held'
      BY <2>18, <2>1
         DEF StartFails, Vanish, LetGo, Go, Held, Attended, StartInv, Known, KnownOf,
             Complete, TypeMigration, TypeMessages, At, Waiting, ManagerInv, TypeInv,
             TypeOK, TypePlaces, TypeWiring, TypeManager, migration, life, manager, bounds, stream
    <3>. QED
      BY <3>1, <3>2, <3>3 DEF ManagerInv
  <2>19. ASSUME NEW p \in Proc, Stop(p) PROVE ManagerInv'
    <3>1. Attended'
      BY <2>19, <2>1
         DEF Stop, Go, Attended, Stopping, Migrating, ManagerInv, TypeInv, TypeOK,
             TypePlaces, TypeWiring, TypeManager, migration, life, manager, bounds, stream
    <3>2. Quiet'
      BY <2>19, <2>1
         DEF Stop, Go, Quiet, Attended, InHandler, At, Waiting, Stopping, TypeMessages,
             ManagerInv, TypeInv, TypeOK, TypePlaces, TypeWiring, TypeManager, migration,
             life, manager, bounds, stream
    <3>3. Held'
      BY <2>19, <2>1
         DEF Stop, Go, Held, Attended, StartInv, Known, KnownOf, Complete, TypeMigration,
             TypeMessages, At, Waiting, ManagerInv, TypeInv, TypeOK, TypePlaces,
             TypeWiring, TypeManager, migration, life, manager, bounds, stream
    <3>. QED
      BY <3>1, <3>2, <3>3 DEF ManagerInv
  <2>20. ASSUME NEW p \in Proc, PublisherEnds(p) PROVE ManagerInv'
    <3>1. Attended'
      BY <2>20, <2>1
         DEF PublisherEnds, Attended, Stopping, Migrating, ManagerInv, TypeInv, TypeOK,
             TypePlaces, TypeWiring, TypeManager, migration, life, manager, bounds, stream
    <3>2. Quiet'
      BY <2>20, <2>1
         DEF PublisherEnds, Quiet, Attended, InHandler, At, Waiting, Stopping,
             TypeMessages, ManagerInv, TypeInv, TypeOK, TypePlaces, TypeWiring,
             TypeManager, migration, life, manager, bounds, stream
    <3>3. Held'
      BY <2>20, <2>1
         DEF PublisherEnds, Held, Attended, StartInv, Known, KnownOf, Complete,
             TypeMigration, TypeMessages, At, Waiting, ManagerInv, TypeInv, TypeOK,
             TypePlaces, TypeWiring, TypeManager, migration, life, manager, bounds, stream
    <3>. QED
      BY <3>1, <3>2, <3>3 DEF ManagerInv
  <2>21. ASSUME NEW p \in Proc, CloseDone(p) PROVE ManagerInv'
    <3>1. Attended'
      BY <2>21, <2>1
         DEF CloseDone, Drained, Go, Attended, Stopping, Migrating, ManagerInv, TypeInv,
             TypeOK, TypePlaces, TypeWiring, TypeManager, migration, life, manager, bounds, stream
    <3>2. Quiet'
      BY <2>21, <2>1
         DEF CloseDone, Drained, Go, Quiet, Attended, InHandler, At, Waiting, Stopping,
             TypeMessages, ManagerInv, TypeInv, TypeOK, TypePlaces, TypeWiring,
             TypeManager, migration, life, manager, bounds, stream
    <3>3. Held'
      BY <2>21, <2>1
         DEF CloseDone, Drained, Go, Held, Attended, StartInv, Known, KnownOf, Complete,
             TypeMigration, TypeMessages, At, Waiting, ManagerInv, TypeInv, TypeOK,
             TypePlaces, TypeWiring, TypeManager, migration, life, manager, bounds, stream
    <3>. QED
      BY <3>1, <3>2, <3>3 DEF ManagerInv
  <2>22. ASSUME NEW p \in Proc, CloseLate(p) PROVE ManagerInv'
    <3>1. Attended'
      BY <2>22, <2>1
         DEF CloseLate, Go, Attended, Stopping, Migrating, ManagerInv, TypeInv, TypeOK,
             TypePlaces, TypeWiring, TypeManager, migration, life, manager, bounds, stream
    <3>2. Quiet'
      BY <2>22, <2>1
         DEF CloseLate, Go, Quiet, Attended, InHandler, At, Waiting, Stopping,
             TypeMessages, ManagerInv, TypeInv, TypeOK, TypePlaces, TypeWiring,
             TypeManager, migration, life, manager, bounds, stream
    <3>3. Held'
      BY <2>22, <2>1
         DEF CloseLate, Go, Held, Attended, StartInv, Known, KnownOf, Complete,
             TypeMigration, TypeMessages, At, Waiting, ManagerInv, TypeInv, TypeOK,
             TypePlaces, TypeWiring, TypeManager, migration, life, manager, bounds, stream
    <3>. QED
      BY <3>1, <3>2, <3>3 DEF ManagerInv
  <2>23. ASSUME NEW p \in Proc, Release(p) PROVE ManagerInv'
    <3>1. Attended'
      BY <2>23, <2>1
         DEF Release, Go, Attended, Stopping, Migrating, ManagerInv, TypeInv, TypeOK,
             TypePlaces, TypeWiring, TypeManager, migration, life, manager, bounds, stream
    <3>2. Quiet'
      BY <2>23, <2>1
         DEF Release, Go, Quiet, Attended, InHandler, At, Waiting, Stopping, TypeMessages,
             ManagerInv, TypeInv, TypeOK, TypePlaces, TypeWiring, TypeManager, migration,
             life, manager, bounds, stream
    <3>3. Held'
      BY <2>23, <2>1
         DEF Release, Go, Held, Attended, StartInv, Known, KnownOf, Complete,
             TypeMigration, TypeMessages, At, Waiting, ManagerInv, TypeInv, TypeOK,
             TypePlaces, TypeWiring, TypeManager, migration, life, manager, bounds, stream
    <3>. QED
      BY <3>1, <3>2, <3>3 DEF ManagerInv
  <2>24. ASSUME NEW p \in Proc, Exit(p) PROVE ManagerInv'
    <3>1. Attended'
      BY <2>24, <2>1
         DEF Exit, Vanish, LetGo, Go, Attended, Stopping, Migrating, ManagerInv, TypeInv,
             TypeOK, TypePlaces, TypeWiring, TypeManager, migration, life, manager, bounds, stream
    <3>2. Quiet'
      BY <2>24, <2>1
         DEF Exit, Vanish, LetGo, Go, Quiet, Attended, InHandler, At, Waiting, Stopping,
             TypeMessages, ManagerInv, TypeInv, TypeOK, TypePlaces, TypeWiring,
             TypeManager, migration, life, manager, bounds, stream
    <3>3. Held'
      BY <2>24, <2>1
         DEF Exit, Vanish, LetGo, Go, Held, Attended, StartInv, Known, KnownOf, Complete,
             TypeMigration, TypeMessages, At, Waiting, ManagerInv, TypeInv, TypeOK,
             TypePlaces, TypeWiring, TypeManager, migration, life, manager, bounds, stream
    <3>. QED
      BY <3>1, <3>2, <3>3 DEF ManagerInv
  <2>25. ASSUME NEW p \in Proc, Kill(p) PROVE ManagerInv'
    <3>1. Attended'
      BY <2>25, <2>1
         DEF Kill, Vanish, LetGo, Fault, Go, Attended, Stopping, Migrating, ManagerInv,
             TypeInv, TypeOK, TypePlaces, TypeWiring, TypeManager, migration, life,
             manager, bounds, stream
    <3>2. Quiet'
      BY <2>25, <2>1
         DEF Kill, Vanish, LetGo, Fault, Go, Quiet, Attended, InHandler, At, Waiting,
             Stopping, TypeMessages, ManagerInv, TypeInv, TypeOK, TypePlaces, TypeWiring,
             TypeManager, migration, life, manager, bounds, stream
    <3>3. Held'
      BY <2>25, <2>1
         DEF Kill, Vanish, LetGo, Fault, Go, Held, Attended, StartInv, Known, KnownOf,
             Complete, TypeMigration, TypeMessages, At, Waiting, ManagerInv, TypeInv,
             TypeOK, TypePlaces, TypeWiring, TypeManager, migration, life, manager, bounds, stream
    <3>. QED
      BY <3>1, <3>2, <3>3 DEF ManagerInv
  <2>26. ASSUME NEW p \in Proc, LoseSession(p) PROVE ManagerInv'
    <3>1. Attended'
      BY <2>26, <2>1
         DEF LoseSession, Fault, Attended, Stopping, Migrating, ManagerInv, TypeInv,
             TypeOK, TypePlaces, TypeWiring, TypeManager, migration, life, manager, bounds, stream
    <3>2. Quiet'
      BY <2>26, <2>1
         DEF LoseSession, Fault, Quiet, Attended, InHandler, At, Waiting, Stopping,
             TypeMessages, ManagerInv, TypeInv, TypeOK, TypePlaces, TypeWiring,
             TypeManager, migration, life, manager, bounds, stream
    <3>3. Held'
      BY <2>26, <2>1
         DEF LoseSession, Fault, Held, Attended, StartInv, Known, KnownOf, Complete,
             TypeMigration, TypeMessages, At, Waiting, ManagerInv, TypeInv, TypeOK,
             TypePlaces, TypeWiring, TypeManager, migration, life, manager, bounds, stream
    <3>. QED
      BY <3>1, <3>2, <3>3 DEF ManagerInv
  <2>27. ASSUME NEW p \in Proc, CommitUnheard(p) PROVE ManagerInv'
    <3>1. Attended'
      BY <2>27, <2>1
         DEF CommitUnheard, Fault, LetGo, Go, Attended, Stopping, Migrating, ManagerInv,
             TypeInv, TypeOK, TypePlaces, TypeWiring, TypeManager, migration, life,
             manager, bounds, stream
    <3>2. Quiet'
      BY <2>27, <2>1
         DEF CommitUnheard, Fault, LetGo, Go, Quiet, Attended, InHandler, At, Waiting,
             Stopping, TypeMessages, ManagerInv, TypeInv, TypeOK, TypePlaces, TypeWiring,
             TypeManager, migration, life, manager, bounds, stream
    <3>3. Held'
      <4>1. \A m \in Task : place[m].by # p
        BY <2>27, <2>1 DEF CommitUnheard, ManagerInv, Held, Migrating
      <4>2. place' = place /\ cancelled' = cancelled /\ closing' = closing
        BY <2>27 DEF CommitUnheard, manager, stream
      <4>3. \A q \in Proc : q # p => pc'[q] = pc[q]
        BY <2>27, <2>1 DEF CommitUnheard, Go, TypeInv, TypeOK, TypePlaces
      <4>4. (applied = Version => applied' = Version) /\ things' = things
        BY <2>27, <2>1 DEF CommitUnheard, TypeInv, TypeOK, TypePosition, Ranges, Version
      <4>. QED
        BY <4>1, <4>2, <4>3, <4>4, <2>1 DEF Held, ManagerInv
    <3>. QED
      BY <3>1, <3>2, <3>3 DEF ManagerInv
  <2>28. ASSUME NEW p \in Proc, NEW m \in Task, Deliver(p, m) PROVE ManagerInv'
    <3>1. Attended'
      BY <2>28, <2>1
         DEF Deliver, Attended, Stopping, Migrating, ManagerInv, TypeInv, TypeOK,
             TypePlaces, TypeWiring, TypeManager, migration, life, manager, bounds, stream
    <3>2. Quiet'
      BY <2>28, <2>1
         DEF Deliver, Quiet, Attended, InHandler, At, Waiting, Stopping, TypeMessages,
             ManagerInv, TypeInv, TypeOK, TypePlaces, TypeWiring, TypeManager, migration,
             life, manager, bounds, stream
    <3>3. Held'
      <4>1. workers[p] > 0
        <5>1. KindOf[m] \in Kind /\ KindOf[m] <= workers[p] /\ KindOf[m] >= 1
          BY <2>28, <2>1 DEF Deliver, TypeInv, Subscribed, Kind
        <5>2. workers[p] \in Nat /\ KindOf[m] \in Nat
          BY <2>1 DEF TypeInv, TypeOK, TypeManager
        <5>. QED
          BY <5>1, <5>2
      <4>. QED
        BY <4>1, <2>28, <2>1
           DEF Deliver, Held, Attended, StartInv, Known, KnownOf, Complete, TypeMigration,
               TypeMessages, At, Waiting, ManagerInv, TypeInv, TypeOK, TypePlaces,
               TypeWiring, TypeManager, migration, life, manager, bounds, stream
    <3>. QED
      BY <3>1, <3>2, <3>3 DEF ManagerInv
  <2>29. ASSUME NEW p \in Proc, NEW m \in Task, Track(p, m) PROVE ManagerInv'
    <3>1. Attended'
      BY <2>29, <2>1
         DEF Track, Admit, Refuse, Attended, Stopping, Migrating, ManagerInv, TypeInv,
             TypeOK, TypePlaces, TypeWiring, TypeManager, migration, life, manager, bounds, stream
    <3>2. Quiet'
      BY <2>29, <2>1
         DEF Track, Admit, Refuse, Quiet, Attended, InHandler, At, Waiting, Stopping,
             TypeMessages, ManagerInv, TypeInv, TypeOK, TypePlaces, TypeWiring,
             TypeManager, migration, life, manager, bounds, stream
    <3>3. Held'
      BY <2>29, <2>1
         DEF Track, Admit, Refuse, Held, Attended, StartInv, Known, KnownOf, Complete,
             TypeMigration, TypeMessages, At, Waiting, ManagerInv, TypeInv, TypeOK,
             TypePlaces, TypeWiring, TypeManager, migration, life, manager, bounds, stream
    <3>. QED
      BY <3>1, <3>2, <3>3 DEF ManagerInv
  <2>30. ASSUME NEW p \in Proc, NEW m \in Task, Return(p, m) PROVE ManagerInv'
    <3>1. Attended'
      BY <2>30, <2>1
         DEF Return, Attended, Stopping, Migrating, ManagerInv, TypeInv, TypeOK,
             TypePlaces, TypeWiring, TypeManager, migration, life, manager, bounds, stream
    <3>2. Quiet'
      BY <2>30, <2>1
         DEF Return, Quiet, Attended, InHandler, At, Waiting, Stopping, TypeMessages,
             ManagerInv, TypeInv, TypeOK, TypePlaces, TypeWiring, TypeManager, migration,
             life, manager, bounds, stream
    <3>3. Held'
      BY <2>30, <2>1
         DEF Return, Held, Attended, StartInv, Known, KnownOf, Complete, TypeMigration,
             TypeMessages, At, Waiting, ManagerInv, TypeInv, TypeOK, TypePlaces,
             TypeWiring, TypeManager, migration, life, manager, bounds, stream
    <3>. QED
      BY <3>1, <3>2, <3>3 DEF ManagerInv
  <2>31. CASE UNCHANGED vars
    BY <2>31, <2>1
       DEF vars, Attended, Stopping, Migrating, ManagerInv, TypeInv, TypeOK, TypePlaces,
           TypeWiring, TypeManager, migration, life, manager, bounds, stream, Quiet, InHandler, At,
           Waiting, TypeMessages, Held, StartInv, Known, KnownOf, Complete, TypeMigration,
           ManagerInv
  <2>. QED
    BY <2>2, <2>3, <2>4, <2>5, <2>6, <2>7, <2>8, <2>9, <2>10, <2>11, <2>12, <2>13, <2>14, <2>15,
       <2>16, <2>17, <2>18, <2>19, <2>20, <2>21, <2>22, <2>23, <2>24, <2>25, <2>26, <2>27, <2>28,
       <2>29, <2>30, <2>31, <1>2
       DEF Next, Up, Down, Migrate, Handle
<1>. QED
  BY <1>1, <1>2, TypeInvariance, StartInvariance, PTL DEF Spec

-----------------------------------------------------------------------------
(* What a reader should know *)

(* Every value stays in its type. *)
THEOREM TypeCorrectness == Spec => []TypeOK
<1>1. TypeInv => TypeOK
  BY DEF TypeInv
<1>. QED
  BY <1>1, TypeInvariance, PTL

(* Each migration takes effect once and in order, lock or no lock          *)
(* (RunMigrations).                                                        *)
THEOREM MigrationsHappenOnce == Spec => []MigratedOnceInOrder
<1>1. StartInv => MigratedOnceInOrder
  BY DEF StartInv
<1>. QED
  BY <1>1, StartInvariance, PTL

(* A handler finds the whole schema, the bucket, the streams and the       *)
(* collection (main, NewServiceContext).                                   *)
THEOREM HandlersStartLast == Spec => []HandlersFindEverything
<1>1. ManagerInv => HandlersFindEverything
  BY DEF ManagerInv, Held, HandlersFindEverything, InHandler, At
<1>. QED
  BY <1>1, ManagerInvariance, PTL

(* Clients are closed after their users, or after the budget and with the  *)
(* users' context cancelled (Manager.Close, main).                         *)
THEOREM ClientsCloseLast == Spec => []ClientsOutliveUsers
<1>1. ManagerInv => ClientsOutliveUsers
  BY DEF ManagerInv, Attended, Quiet, Held, ClientsOutliveUsers, InHandler, At
<1>. QED
  BY <1>1, ManagerInvariance, PTL

(* No message enters a handler of a closing process (track). *)
THEOREM ClosingTakesNothingIn == Spec => NothingEntersWhenClosing
<1>1. ASSUME TypeInv, [Next]_vars
      PROVE  [\A p \in Proc : closing[p] => InHandler(p)' \subseteq InHandler(p)]_vars
  <2>1. CASE UNCHANGED place
    BY <2>1 DEF InHandler, At
  <2>2. ASSUME NEW q \in Proc, Vanish(q)
        PROVE  \A p \in Proc : InHandler(p)' \subseteq InHandler(p)
    BY <2>2 DEF Vanish, InHandler, At, Waiting
  <2>3. ASSUME NEW q \in Proc, NEW m \in Task, Deliver(q, m)
        PROVE  \A p \in Proc : InHandler(p)' \subseteq InHandler(p)
    BY <2>3 DEF Deliver, InHandler, At
  <2>4. ASSUME NEW q \in Proc, NEW m \in Task, Handle(q, m)
        PROVE  \A p \in Proc : closing[p] => InHandler(p)' \subseteq InHandler(p)
    <3>1. CASE closing[q] /\ (Refuse(q, m) \/ Return(q, m))
      BY <3>1, <1>1 DEF Refuse, Return, InHandler, At, Waiting, TypeInv, TypeOK, TypeMessages
    <3>2. CASE ~closing[q] /\ \E s \in [at : {"inside", "done", "waiting"}, by : {q, Nobody}] :
                              place' = [place EXCEPT ![m] = s]
      BY <3>2, <1>1, ServiceAssumption DEF InHandler, At, TypeInv, TypeOK, TypeMessages
    <3>3. CASE Admit(q, m)
      BY <3>2, <3>3 DEF Admit, At
    <3>4. CASE Return(q, m) /\ ~closing[q]
      BY <3>2, <3>4 DEF Return, At, Waiting
    <3>5. CASE Refuse(q, m)
      BY <3>1, <3>5 DEF Refuse
    <3>. QED
      BY <2>4, <3>1, <3>3, <3>4, <3>5 DEF Handle, Track
  <2>5. ASSUME NEW q \in Proc,
               Start(q) \/ Ping(q) \/ Migrate(q) \/ Wire(q) \/ Provide(q) \/ Abort(q)
                 \/ Subscribe(q) \/ StartPublisher(q) \/ Serve(q) \/ Stop(q) \/ PublisherEnds(q)
                 \/ CloseDone(q) \/ CloseLate(q) \/ Release(q) \/ LoseSession(q) \/ CommitUnheard(q)
        PROVE  UNCHANGED place
    BY <2>5 DEF Start, Ping, Migrate, Acquire, Lock, CreateTable, Look, Statements, Record, Commit,
                Unlock, Wire, Provide, Abort, Subscribe, StartPublisher, Serve, Stop, PublisherEnds,
                CloseDone, CloseLate, Release, LoseSession, CommitUnheard, stream
  <2>6. ASSUME NEW q \in Proc, StartFails(q) \/ Exit(q) \/ Kill(q) PROVE Vanish(q)
    BY <2>6 DEF StartFails, Exit, Kill
  <2>7. CASE UNCHANGED vars
    BY <2>7 DEF vars, stream
  <2>8. CASE Next
    BY <2>1, <2>2, <2>3, <2>4, <2>5, <2>6, <2>8 DEF Next, Up, Down
  <2>. QED
    BY <1>1, <2>7, <2>8
<1>. QED
  BY <1>1, TypeInvariance, PTL DEF Spec, NothingEntersWhenClosing

=============================================================================
