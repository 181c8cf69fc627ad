-------------------------- MODULE AgentGraph_proofs --------------------------
(***************************************************************************)
(* What AgentGraph promises for any number of requests, slots, searches,    *)
(* sources and crashes.  One driver per run, and no checkpoint after the    *)
(* cleanup, rest on the order in which requests of a run get its lock       *)
(* (IInv); that an answer is properly cited and rests on its last search    *)
(* rests on what the channels hold for the node they are for, in memory and *)
(* in the store alike (Evidence, on top of IInv), so that a run taken up    *)
(* again finds what that node needs, and on what citations.py does with any *)
(* answer.                                                                  *)
(***************************************************************************)
EXTENDS AgentGraph, WellFoundedInduction, FiniteSetTheorems, TLAPS

\* As far as the proofs need types.
ControlType ==
  /\ req \in [Request -> [pc : Steps, stream : BOOLEAN, client : Clients,
                          lock : 0 .. MaxRequests]]
  /\ cleaned \in BOOLEAN

\* All requests in the agent queue at one lock, the one the dictionary names.
SameLock == \A r \in Request : Active(r) => req[r].lock = registered

\* Whoever drives has nobody older beside it.
OldestDrives == \A q, r \in Request : Drives(r) /\ q < r => ~Active(q)

\* Requests are sent in order, and answered ones are over.
InOrder ==
  /\ \A q, r \in Request : At(q, "idle") /\ q < r => At(r, "idle")
  /\ \A r \in Request : At(r, "idle") => req[r].client = "none"
  /\ \A r \in Request : req[r].client = "answered" =>
       \A q \in 1 .. r : At(q, "done")

Cleaned == cleaned => ~checkpoint.stored /\ \A r \in Request : ~Active(r)

IInv == ControlType /\ SameLock /\ OneDriver /\ OldestDrives /\ InOrder /\ Cleaned

-----------------------------------------------------------------------------
(* What the channels hold *)

\* A source, by the route and the round of searching that found it.
Source == [route : Routes, call : Nat, nr : Nat]

\* The channels of a thread.
Channels ==
  [stored : BOOLEAN, next : Nodes \cup {"end"}, route : Routes, content : BOOLEAN,
   complete : BOOLEAN, chunks : Seq(Source), links : Seq(Source),
   decision : {"sufficient", "rewrite", "refuse"}, answer : Answer, rewrites : Nat]

\* What the last round of searching on the route finds.
Found(channels) == [route : {channels.route}, call : {channels.rewrites}, nr : Nat]

\* From the search on, there is nothing but what that search has found.
LastSearch(channels) ==
  /\ channels.next \in {"route", "overview", "navigation"} =>
       channels.chunks = <<>> /\ channels.links = <<>>
  /\ channels.next \in Nodes /\ ~webSearch => channels.links = <<>>
  /\ channels.next \in {"web_search", "evaluate", "rewrite", "synthesize", "validate", "end"} =>
       channels.chunks \in Seq(Found(channels))
  /\ channels.next \in {"evaluate", "rewrite", "synthesize", "validate", "end"} =>
       channels.links \in Seq(Found(channels))

\* The nodes of a route are entered on that route only.
OnRoute(channels) ==
  /\ channels.next \in {"overview", "navigation"} => channels.route = channels.next
  /\ channels.next \in {"retrieve", "web_search", "evaluate", "rewrite"} =>
       channels.route = "rag"
  /\ channels.next = "web_search" => webSearch

\* An answer is written only when what was found is enough.
Enough(channels) ==
  \/ channels.next \in {"synthesize", "validate"}
  \/ channels.next = "end" /\ ~channels.answer.unsure
  => /\ channels.route = "rag" => channels.decision = "sufficient"
     /\ channels.route = "overview" => channels.complete

\* Few sources go to the model, and those it has cited come back.
Bounded(channels) ==
  /\ channels.next \in {"validate", "end"} =>
       Len(channels.chunks) + Len(channels.links) <= MaxCitations
  /\ channels.next = "end" =>
       ProperlyCited(channels.answer, channels.chunks, channels.links)

\* The channels have what the node they are for needs.
Grounded(channels) ==
  /\ LastSearch(channels) /\ OnRoute(channels)
  /\ Enough(channels) /\ Bounded(channels)

\* In memory and in the store; whoever is in the graph is at the node they are for.
Evidence ==
  /\ thread \in Channels /\ Grounded(thread)
  /\ checkpoint \in Channels /\ Grounded(checkpoint)
  /\ \A r \in Request : InGraph(r) => req[r].pc = thread.next

-----------------------------------------------------------------------------
(* One driver, no checkpoint after the cleanup *)

\* The invariant holds of the runtime as it is constructed.
LEMMA InitHolds == Init => IInv
  <1> SUFFICES ASSUME Init PROVE IInv
    OBVIOUS
  <1> USE DEF Active, Drives, At, HasLock, HasSlot, Nodes
  <1>1. \A r \in Request : req[r] = [pc |-> "idle", stream |-> FALSE, client |-> "none", lock |-> 0]
    BY DEF Init
  <1>2. ControlType
    <2>1. 0 \in 0 .. MaxRequests
      BY AgentBoundsAssumption
    <2>2. "idle" \in Steps /\ "none" \in Clients
      BY DEF Steps, Clients
    <2> QED BY <2>1, <2>2 DEF Init, ControlType
  <1>3. \A r \in Request : ~Active(r) /\ ~Drives(r) /\ At(r, "idle") /\ req[r].client = "none"
    BY <1>1
  <1>4. SameLock /\ OneDriver /\ OldestDrives /\ InOrder
    BY <1>3 DEF SameLock, OneDriver, OldestDrives, InOrder
  <1>5. Cleaned
    BY DEF Init, Cleaned
  <1> QED BY <1>2, <1>4, <1>5 DEF IInv

\* A driving request goes on: neither the locks nor the order change.
LEMMA DrivingOn ==
  ASSUME IInv, NEW r \in Request, Drives(r), NEW step \in HasLock, Goto(r, step),
         registered' = registered, cleaned' = cleaned
  PROVE  IInv'
  <1> USE DEF HasLock, HasSlot, Nodes, Active, Drives, At
  <1>1. /\ \A q \in Request \ {r} : req'[q] = req[q]
        /\ req'[r].pc = step /\ req'[r].lock = req[r].lock
        /\ req'[r].client = req[r].client
    BY DEF IInv, ControlType, Goto
  <1>2. ControlType'
    BY DEF IInv, ControlType, Goto, Steps
  <1>3. SameLock' /\ OneDriver' /\ OldestDrives'
    BY <1>1 DEF IInv, SameLock, OneDriver, OldestDrives
  <1>4. InOrder'
    <2>1. \A q \in Request : At(q, "idle")' <=> At(q, "idle")
      BY <1>1
    <2>2. \A q \in Request : At(q, "done")' <=> At(q, "done")
      BY <1>1
    <2>3. \A q \in Request : req'[q].client = req[q].client
      BY <1>1
    <2>4. \A s \in Request : \A q \in 1 .. s : q \in Request
      BY AgentBoundsAssumption DEF Request
    <2> HIDE DEF At
    <2> QED BY <2>1, <2>2, <2>3, <2>4 DEF IInv, InOrder
  <1>5. Cleaned'
    BY DEF IInv, Cleaned
  <1> QED BY <1>2, <1>3, <1>4, <1>5 DEF IInv

\* A request leaves with its lock; a reply of "answered" is for the one that drives.
LEMMA Leaves ==
  ASSUME IInv, NEW r \in Request, Active(r), NEW reply \in {"answered", "gone"},
         reply = "answered" => Drives(r), Leave(r, reply)
  PROVE  IInv'
  <1> USE DEF Active, Drives, At
  <1>1. /\ \A q \in Request \ {r} : req'[q] = req[q]
        /\ req'[r].pc = "done" /\ req'[r].lock = 0
        /\ req'[r].client = IF req[r].client = "waiting" THEN reply ELSE req[r].client
        /\ registered' = registered /\ cleaned' = cleaned
    BY DEF IInv, ControlType, Leave, LeaveWith
  <1>2. ControlType'
    <2>1. 0 \in 0 .. MaxRequests
      BY AgentBoundsAssumption
    <2>2. "done" \in Steps /\ reply \in Clients
      BY DEF Steps, Clients
    <2>3. req'[r] = [pc |-> "done", stream |-> FALSE, client |-> req'[r].client, lock |-> 0]
      BY DEF IInv, ControlType, Leave, LeaveWith
    <2>4. req'[r].client \in Clients
      BY <2>2, <1>1 DEF IInv, ControlType
    <2>5. req' = [q \in Request |-> req'[q]]
      BY DEF IInv, ControlType, Leave, LeaveWith
    <2>6. \A q \in Request : req'[q] \in [pc : Steps, stream : BOOLEAN, client : Clients,
                                          lock : 0 .. MaxRequests]
      <3> DEFINE client == req'[r].client
      <3>1. [pc |-> "done", stream |-> FALSE, client |-> client, lock |-> 0]
              \in [pc : Steps, stream : BOOLEAN, client : Clients, lock : 0 .. MaxRequests]
        <4>1. client \in Clients
          BY <2>4
        <4> HIDE DEF client
        <4> QED BY <2>1, <2>2, <4>1
      <3>2. req'[r] \in [pc : Steps, stream : BOOLEAN, client : Clients, lock : 0 .. MaxRequests]
        BY <3>1, <2>3
      <3> HIDE DEF client
      <3> QED BY <3>2, <1>1 DEF IInv, ControlType
    <2> QED BY <2>5, <2>6, <1>1 DEF IInv, ControlType
  <1>3. ~Active(r)' /\ ~Drives(r)'
    BY <1>1 DEF HasLock, HasSlot, Nodes
  <1>4. SameLock' /\ OneDriver' /\ OldestDrives'
    BY <1>1, <1>3 DEF IInv, SameLock, OneDriver, OldestDrives
  <1>5. InOrder'
    <2>1. \A q \in Request : (At(q, "idle"))' <=> At(q, "idle")
      BY <1>1
    <2>2. \A q \in Request : At(q, "done") => At(q, "done")'
      BY <1>1
    <2>3. \A q \in Request : At(q, "idle")' => req'[q].client = "none"
      BY <2>1, <1>1 DEF IInv, InOrder
    <2>4. ASSUME NEW s \in Request, req'[s].client = "answered", NEW q \in 1 .. s
          PROVE  At(q, "done")'
      <3>0. q \in Request
        BY AgentBoundsAssumption DEF Request
      <3>1. CASE req[s].client = "answered"
        BY <3>0, <3>1, <2>2 DEF IInv, InOrder
      <3>2. CASE req[s].client # "answered"
        <4>1. s = r /\ reply = "answered" /\ Drives(r)
          BY <3>2, <2>4, <1>1
        <4>2. CASE q = r
          BY <4>2, <1>1
        <4>3. CASE q # r
          <5>1. q < r
            BY <4>1, <4>3 DEF Request
          <5>2. ~Active(q)
            BY <4>1, <5>1, <3>0 DEF IInv, OldestDrives
          <5>3. ~At(q, "idle")
            BY <5>1, <3>0 DEF IInv, InOrder
          <5> QED BY <5>2, <5>3, <4>3, <3>0, <1>1
        <4> QED BY <4>2, <4>3
      <3> QED BY <3>1, <3>2
    <2> QED BY <2>1, <2>3, <2>4 DEF IInv, InOrder
  <1>6. Cleaned'
    BY <1>1 DEF IInv, Cleaned
  <1> QED BY <1>2, <1>4, <1>5, <1>6 DEF IInv

\* A request that joins the queue for the lock keeps the invariant
\* (_lock_for).
LEMMA Submits ==
  ASSUME IInv, NEW r \in Request, NEW stream \in BOOLEAN, Submit(r, stream)
  PROVE  IInv'
  <1> USE DEF Active, Drives, At
  <1> DEFINE lock == LockFor(r)
  <1>1. /\ \A q \in Request \ {r} : req'[q] = req[q]
        /\ req'[r] = [pc |-> "lock", stream |-> stream, client |-> "waiting", lock |-> lock]
        /\ registered' = lock /\ cleaned' = cleaned /\ ~cleaned
        /\ req[r].pc = "idle" /\ req[r].client = "none"
    BY DEF IInv, ControlType, InOrder, Submit
  <1>2. ControlType'
    <2>1. lock \in 0 .. MaxRequests
      <3>1. r \in 0 .. MaxRequests
        BY AgentBoundsAssumption DEF Request
      <3>2. CASE Remembered
        <4>1. PICK q \in Request : req[q].lock = registered
          BY <3>2 DEF Remembered
        <4> QED BY <3>2, <4>1 DEF LockFor, IInv, ControlType
      <3> QED BY <3>1, <3>2 DEF LockFor
    <2>2. "lock" \in Steps /\ "waiting" \in Clients
      BY DEF Steps, Clients
    <2> QED BY <2>1, <2>2 DEF IInv, ControlType, Submit
  <1>3. SameLock'
    <2>1. CASE Remembered
      BY <2>1, <1>1 DEF IInv, SameLock, LockFor
    <2>2. CASE ~Remembered
      <3>1. \A q \in Request : ~Active(q)
        BY <2>2 DEF Remembered, IInv, SameLock
      <3> QED BY <3>1, <1>1 DEF SameLock
    <2> QED BY <2>1, <2>2
  <1>4. ~Drives(r)' /\ Active(r)'
    BY <1>1 DEF HasLock, HasSlot, Nodes
  <1>5. OneDriver'
    BY <1>1, <1>4 DEF IInv, OneDriver
  <1>6. \A s \in Request : r < s => At(s, "idle")
    BY <1>1 DEF IInv, InOrder
  <1>7. OldestDrives'
    <2>1. ASSUME NEW q \in Request, NEW s \in Request, Drives(s)', q < s
          PROVE  ~Active(q)'
      <3>1. s # r
        BY <2>1, <1>4
      <3>2. Drives(s)
        BY <2>1, <3>1, <1>1
      <3>3. ~(r < s)
        BY <3>2, <1>6 DEF HasLock, HasSlot, Nodes
      <3>4. q # r
        BY <3>3, <2>1
      <3> QED BY <2>1, <3>2, <3>4, <1>1 DEF IInv, OldestDrives
    <2> QED BY <2>1 DEF OldestDrives
  <1>8. InOrder'
    <2>1. \A q \in Request : q < r => ~At(q, "idle")
      <3> SUFFICES ASSUME NEW q \in Request, q < r PROVE ~At(q, "idle")
        OBVIOUS
      <3>1. q \in 1 .. r - 1
        BY DEF Request
      <3>2. req[q].client # "none"
        BY <3>1 DEF Submit
      <3> QED BY <3>2 DEF IInv, InOrder
    <2>2. ASSUME NEW q \in Request, NEW s \in Request, At(q, "idle")', q < s
          PROVE  At(s, "idle")'
      BY <2>2, <2>1, <1>1 DEF IInv, InOrder
    <2>3. \A q \in Request : At(q, "idle")' => req'[q].client = "none"
      BY <1>1 DEF IInv, InOrder
    <2>4. ASSUME NEW s \in Request, req'[s].client = "answered", NEW q \in 1 .. s
          PROVE  At(q, "done")'
      <3>0. q \in Request
        BY AgentBoundsAssumption DEF Request
      <3>1. s # r
        BY <2>4, <1>1
      <3>2. At(q, "done")
        BY <2>4, <3>1, <1>1 DEF IInv, InOrder
      <3> QED BY <3>0, <3>2, <1>1
    <2> QED BY <2>2, <2>3, <2>4 DEF InOrder
  <1>9. Cleaned'
    BY <1>1 DEF Cleaned
  <1> QED BY <1>2, <1>3, <1>5, <1>7, <1>8, <1>9 DEF IInv

\* The dictionary forgets a lock that nobody holds or waits for, and the order of waiting
\* is the order of sending.
LEMMA Acquires ==
  ASSUME IInv, NEW r \in Request, Acquire(r)
  PROVE  IInv'
  <1> USE DEF Active, Drives, At
  <1>1. /\ \A q \in Request \ {r} : req'[q] = req[q]
        /\ req'[r].pc = "slot" /\ req[r].pc = "lock"
        /\ req'[r].lock = req[r].lock /\ req'[r].client = req[r].client
        /\ registered' = registered /\ cleaned' = cleaned /\ checkpoint' = checkpoint
    BY DEF IInv, ControlType, Acquire, Goto
  <1>2. ControlType'
    BY DEF IInv, ControlType, Acquire, Goto, Steps
  <1>3. \A q \in Request \ {r} : ~Drives(q) /\ ~(At(q, "lock") /\ q < r)
    <2> SUFFICES ASSUME NEW q \in Request \ {r}
                 PROVE  ~Drives(q) /\ ~(At(q, "lock") /\ q < r)
      OBVIOUS
    <2>1. CASE Active(q)
      <3>1. req[q].lock = req[r].lock
        BY <2>1, <1>1 DEF IInv, SameLock
      <3> QED BY <3>1 DEF Acquire
    <2>2. CASE ~Active(q)
      BY <2>2 DEF HasLock, HasSlot, Nodes
    <2> QED BY <2>1, <2>2
  <1>4. \A q \in Request : q < r => ~Active(q)
    <2> SUFFICES ASSUME NEW q \in Request, q < r, Active(q) PROVE FALSE
      OBVIOUS
    <2>1. req[q].pc \in Steps \ {"idle", "done"}
      BY DEF IInv, ControlType
    <2>2. Drives(q) \/ At(q, "lock")
      BY <2>1 DEF Steps, HasLock, HasSlot
    <2> QED BY <2>2, <1>3 DEF Request
  <1>5. SameLock'
    BY <1>1 DEF IInv, SameLock
  <1>6. OneDriver' /\ OldestDrives'
    BY <1>1, <1>3, <1>4 DEF OneDriver, OldestDrives
  <1>7. InOrder'
    <2>1. \A q \in Request : At(q, "idle")' <=> At(q, "idle")
      BY <1>1
    <2>2. \A q \in Request : At(q, "done")' <=> At(q, "done")
      BY <1>1
    <2>3. \A q \in Request : req'[q].client = req[q].client
      BY <1>1
    <2>4. \A s \in Request : \A q \in 1 .. s : q \in Request
      BY AgentBoundsAssumption DEF Request
    <2> HIDE DEF At
    <2> QED BY <2>1, <2>2, <2>3, <2>4 DEF IInv, InOrder
  <1>8. Cleaned'
    BY <1>1 DEF IInv, Cleaned
  <1> QED BY <1>2, <1>5, <1>6, <1>7, <1>8 DEF IInv

\* A client that leaves changes nothing the invariant is about.
LEMMA ClientsLeave ==
  ASSUME IInv, NEW r \in Request, ClientLeaves(r)
  PROVE  IInv'
  <1> USE DEF Active, Drives, At
  <1>1. /\ \A q \in Request \ {r} : req'[q] = req[q]
        /\ req'[r].pc = req[r].pc /\ req'[r].lock = req[r].lock
        /\ req'[r].client = "gone" /\ req[r].client = "waiting"
        /\ registered' = registered /\ cleaned' = cleaned /\ checkpoint' = checkpoint
    BY DEF IInv, ControlType, ClientLeaves
  <1>2. ControlType'
    BY DEF IInv, ControlType, ClientLeaves, Clients
  <1>3. \A q \in Request : req'[q].pc = req[q].pc /\ req'[q].lock = req[q].lock
    BY <1>1
  <1>4. SameLock' /\ OneDriver' /\ OldestDrives'
    BY <1>1, <1>3 DEF IInv, SameLock, OneDriver, OldestDrives
  <1>5. InOrder'
    <2>1. \A q \in Request : At(q, "idle")' <=> At(q, "idle")
      BY <1>3
    <2>2. \A q \in Request : At(q, "done")' <=> At(q, "done")
      BY <1>3
    <2>3. \A q \in Request : /\ req'[q].client = "answered" => req[q].client = "answered"
                             /\ req[q].client = "none" => req'[q].client = "none"
      BY <1>1
    <2>4. \A s \in Request : \A q \in 1 .. s : q \in Request
      BY AgentBoundsAssumption DEF Request
    <2> HIDE DEF At
    <2> QED BY <2>1, <2>2, <2>3, <2>4 DEF IInv, InOrder
  <1>6. Cleaned'
    BY <1>1, <1>3 DEF IInv, Cleaned
  <1> QED BY <1>2, <1>4, <1>5, <1>6 DEF IInv

\* A restart ends every request and empties the dictionary of locks.
LEMMA Crashes ==
  ASSUME IInv, Crash
  PROVE  IInv'
  <1> USE DEF Active, Drives, At
  <1>1. \A q \in Request :
          IF Active(q)
          THEN /\ req'[q].pc = "done" /\ req'[q].lock = 0 /\ req'[q].stream = FALSE
               /\ req'[q].client = IF req[q].client = "waiting" THEN "gone" ELSE req[q].client
          ELSE req'[q] = req[q]
    BY DEF IInv, ControlType, Crash
  <1>2. ControlType'
    <2>1. 0 \in 0 .. MaxRequests
      BY AgentBoundsAssumption
    <2>2. "done" \in Steps /\ "gone" \in Clients
      BY DEF Steps, Clients
    <2>3. \A q \in Request : req'[q] \in [pc : Steps, stream : BOOLEAN, client : Clients,
                                          lock : 0 .. MaxRequests]
      BY <2>1, <2>2 DEF IInv, ControlType, Crash
    <2>4. req' = [q \in Request |-> req'[q]]
      BY DEF Crash
    <2> QED BY <2>3, <2>4 DEF IInv, ControlType, Crash
  <1>3. \A q \in Request : ~Active(q)' /\ ~Drives(q)'
    BY <1>1 DEF HasLock, HasSlot, Nodes
  <1>4. SameLock' /\ OneDriver' /\ OldestDrives'
    BY <1>3 DEF SameLock, OneDriver, OldestDrives
  <1>5. InOrder'
    <2>1. \A q \in Request : At(q, "idle")' <=> At(q, "idle")
      BY <1>1
    <2>2. \A q \in Request : At(q, "done") => At(q, "done")'
      BY <1>1
    <2>3. \A q \in Request : /\ req'[q].client = "answered" => req[q].client = "answered"
                             /\ req[q].client = "none" => req'[q].client = "none"
      BY <1>1
    <2>4. \A s \in Request : \A q \in 1 .. s : q \in Request
      BY AgentBoundsAssumption DEF Request
    <2> HIDE DEF At
    <2> QED BY <2>1, <2>2, <2>3, <2>4 DEF IInv, InOrder
  <1>6. Cleaned'
    BY <1>3 DEF IInv, Cleaned, Crash
  <1> QED BY <1>2, <1>4, <1>5, <1>6 DEF IInv

\* Nobody is in the agent when the last request has been answered: those before it had
\* the lock before it.
LEMMA Cleans ==
  ASSUME IInv, CleanupCompletedCheckpoint
  PROVE  IInv'
  <1> USE DEF Active, Drives, At
  <1>1. req' = req /\ registered' = registered /\ cleaned' = TRUE
    BY DEF CleanupCompletedCheckpoint
  <1>2. \A q \in Request : ~Active(q)
    <2>1. PICK r \in Request : /\ req[r].client = "answered"
                               /\ \A q \in r + 1 .. MaxRequests : At(q, "idle")
      BY DEF CleanupCompletedCheckpoint
    <2>2. \A q \in Request : q \in 1 .. r \/ q \in r + 1 .. MaxRequests
      BY AgentBoundsAssumption DEF Request
    <2>3. \A q \in 1 .. r : At(q, "done")
      BY <2>1 DEF IInv, InOrder
    <2> QED BY <2>1, <2>2, <2>3
  <1>3. ~checkpoint'.stored
    BY DEF CleanupCompletedCheckpoint, NoCheckpoint, InitialState
  <1>4. ControlType' /\ SameLock' /\ OneDriver' /\ OldestDrives' /\ InOrder'
    BY <1>1 DEF IInv, ControlType, SameLock, OneDriver, OldestDrives, InOrder
  <1>5. Cleaned'
    BY <1>1, <1>2, <1>3 DEF Cleaned
  <1> QED BY <1>4, <1>5 DEF IInv

\* A node leads from one driving step to another, whatever it writes.
LEMMA GraphSteps ==
  ASSUME IInv, Evidence, NEW r \in Request, GraphStep(r)
  PROVE  IInv'
  <1> USE DEF HasLock, HasSlot, Nodes
  <1>1. ASSUME NEW here \in HasLock, NEW next \in HasLock, NEW channels,
               Node(r, here, next, channels)
        PROVE  IInv'
    BY <1>1, DrivingOn DEF Node, At, Drives
  <1>2. CASE \E tool \in {"overview", "navigation"} : RunKnowledgeTool(r, tool)
    BY <1>2, <1>1 DEF RunKnowledgeTool, NextAfterKnowledgeTool
  <1>3. CASE Start(r)
    <2> DEFINE from == IF checkpoint.stored THEN checkpoint ELSE InitialState
    <2>1. from.next \in HasLock
      BY DEF Evidence, Channels, InitialState
    <2>2. Node(r, "credentials", from.next, from)
      BY <1>3 DEF Start
    <2> HIDE DEF from
    <2>3. QED
      BY <2>1, <2>2, <1>1
  <1>4. CASE Route(r)
    BY <1>4, <1>1 DEF Route, Routes
  <1>5. CASE Retrieve(r)
    BY <1>5, <1>1 DEF Retrieve
  <1>6. CASE WebSearch(r)
    BY <1>6, <1>1 DEF WebSearch
  <1>7. CASE Evaluate(r)
    BY <1>7, <1>1 DEF Evaluate, NextAfterEvaluation
  <1>8. CASE Rewrite(r)
    BY <1>8, <1>1 DEF Rewrite
  <1>9. CASE Synthesize(r)
    BY <1>9, <1>1 DEF Synthesize
  <1>10. CASE ValidateAnswer(r)
    BY <1>10, <1>1 DEF ValidateAnswer, Finish
  <1>11. CASE Refuse(r)
    BY <1>11, <1>1 DEF Refuse, Finish
  <1> QED BY <1>2, <1>3, <1>4, <1>5, <1>6, <1>7, <1>8, <1>9, <1>10, <1>11 DEF GraphStep

\* Every step keeps the invariant.
LEMMA NextKeepsInv == IInv /\ Evidence /\ [Next]_vars => IInv'
  <1> SUFFICES ASSUME IInv, Evidence, [Next]_vars PROVE IInv'
    OBVIOUS
  <1>1. ASSUME NEW r \in Request, Proceeds(r) PROVE IInv'
    <2>1. CASE Acquire(r)
      BY <2>1, Acquires
    <2>2. CASE TakeSlot(r)
      <3>1. Drives(r) /\ "credentials" \in HasLock
        BY <2>2 DEF TakeSlot, At, Drives, HasLock, HasSlot
      <3> QED BY <3>1, <2>2, DrivingOn DEF TakeSlot
    <2>3. CASE GraphStep(r)
      BY <2>3, GraphSteps
    <2>4. CASE CallFails(r)
      BY <2>4, Leaves DEF CallFails, Active, Nodes
    <2>5. CASE Deliver(r)
      <3>1. Active(r) /\ Drives(r)
        BY <2>5 DEF Deliver, At, Active, Drives, HasLock, HasSlot
      <3> QED BY <3>1, <2>5, Leaves DEF Deliver
    <2> QED BY <1>1, <2>1, <2>2, <2>3, <2>4, <2>5 DEF Proceeds
  <1>2. ASSUME NEW r \in Request, TimesOut(r) \/ CloseStream(r) PROVE IInv'
    BY <1>2, Leaves DEF TimesOut, CloseStream
  <1>3. ASSUME NEW r \in Request, ClientLeaves(r) PROVE IInv'
    BY <1>3, ClientsLeave
  <1>4. ASSUME NEW r \in Request, NEW stream \in BOOLEAN, Submit(r, stream) PROVE IInv'
    BY <1>4, Submits
  <1>5. ASSUME UNCHANGED <<req, registered, checkpoint, cleaned>> PROVE IInv'
    BY <1>5 DEF IInv, ControlType, SameLock, OneDriver, OldestDrives, InOrder, Cleaned,
                Active, Drives, At
  <1>6. CASE OtherTakesSlot \/ OtherEnds \/ UNCHANGED vars
    BY <1>6, <1>5 DEF OtherTakesSlot, OtherEnds, vars
  <1>7. CASE Crash
    BY <1>7, Crashes
  <1>8. CASE CleanupCompletedCheckpoint
    BY <1>8, Cleans
  <1> QED BY <1>1, <1>2, <1>3, <1>4, <1>6, <1>7, <1>8 DEF Next

-----------------------------------------------------------------------------
(* Citations *)

\* A set of numbers that is not empty has a least one.
LEMMA LeastNat ==
  ASSUME NEW S \in SUBSET Nat, S # {}
  PROVE  \E n \in S : \A m \in S : n <= m
<1>1. \E n \in S : \A m \in S : ~(<<m, n>> \in OpToRel(<, Nat))
  BY NatLessThanWellFounded, WFMin
<1>2. \A m, n \in S : <<m, n>> \in OpToRel(<, Nat) <=> m < n
  BY DEF OpToRel
<1>3. PICK n \in S : \A m \in S : ~(<<m, n>> \in OpToRel(<, Nat))
  BY <1>1
<1>4. \A m \in S : ~(m < n)
  BY <1>2, <1>3
<1>5. QED
  BY <1>4

\* Induction, with a set for the property.
LEMMA SetInduction ==
  ASSUME NEW P, 0 \in P, \A n \in Nat : n \in P => n + 1 \in P
  PROVE  Nat \subseteq P
<1> DEFINE Bad == Nat \ P
<1>1. ASSUME Bad # {}
      PROVE  FALSE
  <2>1. PICK n \in Bad : \A m \in Bad : n <= m
    <3>1. Bad \in SUBSET Nat
      OBVIOUS
    <3> HIDE DEF Bad
    <3>2. QED
      BY <1>1, <3>1, LeastNat
  <2>2. n # 0 /\ n \in Nat
    OBVIOUS
  <2>3. n - 1 \in Nat /\ ~(n <= n - 1) /\ n = (n - 1) + 1
    BY <2>2
  <2>4. n - 1 \in P
    BY <2>1, <2>3
  <2>5. QED
    BY <2>3, <2>4
<1>2. QED
  BY <1>1

\* A finite set of numbers has its largest element.
LEMMA MaxIsMember ==
  ASSUME NEW N \in Nat, NEW s \in SUBSET (1 .. N), s # {}
  PROVE  Max(s) \in s
<1> DEFINE U == {n \in Nat : \A y \in s : y <= n}
<1>1. PICK n \in U : \A m \in U : n <= m
  <2>1. N \in U /\ U \in SUBSET Nat
    OBVIOUS
  <2>2. U # {}
    BY <2>1
  <2> HIDE DEF U
  <2>3. QED
    BY <2>1, <2>2, LeastNat
<1>2. n \in s
  <2> SUFFICES ASSUME n \notin s
               PROVE  FALSE
    OBVIOUS
  <2>1. PICK y \in s : TRUE
    OBVIOUS
  <2>2. n # 0 /\ n \in Nat
    BY <2>1
  <2>3. n - 1 \in U
    BY <2>2
  <2>4. QED
    BY <1>1, <2>2, <2>3
<1>3. \E x \in s : \A y \in s : x >= y
  BY <1>2
<1>4. QED
  BY <1>3 DEF Max

\* The equations of MapThenFoldSet over 1 .. N, which FoldLeft is.
Folds(it, N, base, F) ==
  \A s \in SUBSET (1 .. N) :
    it[s] = IF s = {} THEN base ELSE F[<<it[s \ {Max(s)}], Max(s)>>]

\* A fold over an interval of numbers can be computed, from its last number down.
LEMMA FoldExists ==
  ASSUME NEW N \in Nat, NEW Acc, NEW base \in Acc, NEW F \in [Acc \X (1 .. N) -> Acc]
  PROVE  \E it \in [SUBSET (1 .. N) -> Acc] : Folds(it, N, base, F)
<1> DEFINE Good(n, it) ==
             \A s \in SUBSET (1 .. n) :
               it[s] = IF s = {} THEN base ELSE F[<<it[s \ {Max(s)}], Max(s)>>]
           Foldable(n) == \E it \in [SUBSET (1 .. n) -> Acc] : Good(n, it)
           Bad == {n \in Nat : n <= N /\ ~Foldable(n)}
<1> HIDE DEF Foldable
<1>1. ASSUME Bad # {}
      PROVE  FALSE
  <2>1. PICK n \in Bad : \A m \in Bad : n <= m
    <3>1. Bad \in SUBSET Nat
      OBVIOUS
    <3> HIDE DEF Bad
    <3>2. QED
      BY <1>1, <3>1, LeastNat
  <2>2. n # 0
    <3> DEFINE it0 == [s \in SUBSET (1 .. 0) |-> base]
    <3>1. it0 \in [SUBSET (1 .. 0) -> Acc] /\ Good(0, it0)
      BY 1 .. 0 = {}
    <3>2. QED
      BY <3>1 DEF Foldable
  <2>3. n - 1 \in Nat /\ n - 1 <= N /\ n <= N /\ ~(n <= n - 1)
    BY <2>2
  <2>4. PICK it \in [SUBSET (1 .. n - 1) -> Acc] : Good(n - 1, it)
    <3>1. Foldable(n - 1)
      BY <2>1, <2>3
    <3>2. QED
      BY <3>1 DEF Foldable
  <2> DEFINE ext == [s \in SUBSET (1 .. n) |->
                       IF n \in s THEN F[<<it[s \ {n}], n>>] ELSE it[s]]
  <2>5. \A s \in SUBSET (1 .. n) : n \notin s => s \in SUBSET (1 .. n - 1)
    OBVIOUS
  <2>6. \A s \in SUBSET (1 .. n) : s \ {n} \in SUBSET (1 .. n - 1)
    OBVIOUS
  <2>7. ASSUME NEW s \in SUBSET (1 .. n), n \in s
        PROVE  Max(s) = n
    <3>1. \A x \in s : (\A y \in s : x >= y) <=> x = n
      BY <2>7
    <3>2. QED
      BY <2>7, <3>1 DEF Max
  <2>8. ext \in [SUBSET (1 .. n) -> Acc]
    <3>1. ASSUME NEW s \in SUBSET (1 .. n)
          PROVE  ext[s] \in Acc
      <4>1. CASE n \in s
        <5>1. it[s \ {n}] \in Acc /\ n \in 1 .. N
          BY <2>3, <2>6
        <5>2. QED
          BY <4>1, <5>1
      <4>2. CASE n \notin s
        BY <2>5, <4>2
      <4>3. QED
        BY <4>1, <4>2
    <3>2. QED
      BY <3>1
  <2>9. Good(n, ext)
    <3> SUFFICES ASSUME NEW s \in SUBSET (1 .. n)
                 PROVE  ext[s] = IF s = {} THEN base ELSE F[<<ext[s \ {Max(s)}], Max(s)>>]
      OBVIOUS
    <3>1. CASE n \in s
      <4>1. ext[s \ {n}] = it[s \ {n}]
        BY <2>6
      <4>2. QED
        BY <2>7, <3>1, <4>1
    <3>2. CASE n \notin s
      <4>1. s \in SUBSET (1 .. n - 1) /\ s \ {Max(s)} \in SUBSET (1 .. n - 1)
        BY <2>5, <3>2
      <4>2. ext[s] = it[s] /\ ext[s \ {Max(s)}] = it[s \ {Max(s)}]
        BY <3>2, <4>1
      <4>3. it[s] = IF s = {} THEN base ELSE F[<<it[s \ {Max(s)}], Max(s)>>]
        BY <2>4, <4>1
      <4>4. QED
        BY <4>2, <4>3
    <3>3. QED
      BY <3>1, <3>2
  <2>10. QED
    BY <2>1, <2>8, <2>9 DEF Foldable
<1>2. Foldable(N)
  BY <1>1
<1>3. QED
  BY <1>2 DEF Foldable, Folds

\* What the fold is at each prefix.
Unrolls(g, N, Acc, base, F) ==
  /\ g[{}] = base
  /\ \A s \in SUBSET (1 .. N) : s # {} /\ g[s \ {Max(s)}] \in Acc =>
       g[s] = F[<<g[s \ {Max(s)}], Max(s)>>]

\* One step of the fold after the other.
Chain(f, g, N, base, F) ==
  /\ f[0] = base /\ f[N] = g[1 .. N]
  /\ \A j \in 1 .. N : f[j] = F[<<f[j - 1], j>>]

\* A fold, followed through the intervals from the empty one to the whole.
LEMMA FoldPrefixes ==
  ASSUME NEW N \in Nat, NEW Acc, NEW base \in Acc, NEW F \in [Acc \X (1 .. N) -> Acc],
         NEW g, Unrolls(g, N, Acc, base, F)
  PROVE  \E f \in [0 .. N -> Acc] : Chain(f, g, N, base, F)
<1> DEFINE f == [j \in 0 .. N |-> g[1 .. j]]
           P == {j \in Nat : j <= N => g[1 .. j] \in Acc}
<1>1. 1 .. 0 = {} /\ {} \in SUBSET (1 .. N)
  OBVIOUS
<1>2. g[1 .. 0] = base
  BY <1>1 DEF Unrolls
<1>3. ASSUME NEW j \in Nat, j + 1 <= N, g[1 .. j] \in Acc
      PROVE  g[1 .. j + 1] = F[<<g[1 .. j], j + 1>>]
  <2>1. /\ 1 .. j + 1 \in SUBSET (1 .. N) /\ 1 .. j + 1 # {}
        /\ (1 .. j + 1) \ {j + 1} = 1 .. j
    BY <1>3
  <2>2. Max(1 .. j + 1) = j + 1
    <3>1. j + 1 \in 1 .. j + 1 /\ \A y \in 1 .. j + 1 : j + 1 >= y
      OBVIOUS
    <3>2. \A x \in 1 .. j + 1 : x >= j + 1 => x = j + 1
      OBVIOUS
    <3>3. QED
      BY <3>1, <3>2 DEF Max
  <2>3. QED
    BY <1>3, <2>1, <2>2 DEF Unrolls
<1>4. Nat \subseteq P
  <2>1. 0 \in P
    BY <1>2
  <2>2. ASSUME NEW j \in Nat, j \in P
        PROVE  j + 1 \in P
    <3>1. CASE j + 1 <= N
      <4>1. g[1 .. j] \in Acc /\ <<g[1 .. j], j + 1>> \in Acc \X (1 .. N)
        BY <2>2, <3>1
      <4>2. g[1 .. j + 1] \in Acc
        BY <1>3, <3>1, <4>1
      <4>3. QED
        BY <4>2
    <3>2. CASE ~(j + 1 <= N)
      BY <3>2
    <3>3. QED
      BY <3>1, <3>2
  <2> HIDE DEF P
  <2>3. QED
    BY <2>1, <2>2, SetInduction
<1>5. \A j \in 0 .. N : g[1 .. j] \in Acc
  <2> SUFFICES ASSUME NEW j \in 0 .. N
               PROVE  g[1 .. j] \in Acc
    OBVIOUS
  <2>1. j \in P /\ j <= N
    BY <1>4
  <2>2. QED
    BY <2>1
<1>6. f \in [0 .. N -> Acc]
  BY <1>5
<1>7. \A j \in 1 .. N : f[j] = F[<<f[j - 1], j>>]
  <2> SUFFICES ASSUME NEW j \in 1 .. N
               PROVE  f[j] = F[<<f[j - 1], j>>]
    OBVIOUS
  <2>1. j - 1 \in 0 .. N /\ j \in 0 .. N /\ (j - 1) + 1 = j /\ j - 1 \in Nat /\ j <= N
    OBVIOUS
  <2>2. g[1 .. j] = F[<<g[1 .. j - 1], j>>]
    BY <1>3, <1>5, <2>1
  <2>3. QED
    BY <2>1, <2>2
<1>8. f[0] = base /\ f[N] = g[1 .. N]
  BY <1>2
<1> HIDE DEF f
<1>9. QED
  BY <1>6, <1>7, <1>8 DEF Chain

\* The references of a text.
LEMMA TextOfReferences ==
  ASSUME NEW refs \in Seq(Reference)
  PROVE  /\ Len(refs) \in Nat /\ DOMAIN refs = 1 .. Len(refs)
         /\ \A k \in 1 .. Len(refs) : /\ refs[k] \in Reference
                                     /\ refs[k].nr \in Nat
                                     /\ refs[k].kind \in {"chunk", "link"}
<1>1. Len(refs) \in Nat /\ refs \in [1 .. Len(refs) -> Reference]
  OBVIOUS
<1>2. QED
  BY <1>1 DEF Reference

\* A sequence with one more element.
LEMMA Appended ==
  ASSUME NEW S, NEW s \in Seq(S), NEW e \in S
  PROVE  /\ Append(s, e) \in Seq(S)
         /\ Len(Append(s, e)) = Len(s) + 1 /\ Append(s, e)[Len(s) + 1] = e
         /\ \A k \in 1 .. Len(s) : Append(s, e)[k] = s[k]
  OBVIOUS

\* One match of _reference_indexes.
Noted(kind, limit, seen, ref) ==
  IF ref.kind = kind /\ ref.nr \in 1 .. limit /\ ~Contains(seen, ref.nr)
  THEN Append(seen, ref.nr) ELSE seen

\* _reference_indexes looks at one match after the other.
LEMMA ReferenceSteps ==
  ASSUME NEW refs \in Seq(Reference), NEW kind, NEW limit \in Nat
  PROVE  \E f \in [0 .. Len(refs) -> Seq(Nat)] :
           /\ f[0] = <<>>
           /\ \A j \in 1 .. Len(refs) : f[j] = Noted(kind, limit, f[j - 1], refs[j])
           /\ ReferenceIndexes(refs, kind, limit) = f[Len(refs)]
<1> DEFINE N == Len(refs)
           Acc == Seq(Nat)
           base == <<>>
           F == [p \in Seq(Nat) \X (1 .. N) |-> Noted(kind, limit, p[1], refs[p[2]])]
           Iterates(it) == it = [s \in SUBSET (1 .. N) |->
              IF s = {} THEN <<>> ELSE Noted(kind, limit, it[s \ {Max(s)}], refs[Max(s)])]
           g == CHOOSE it : Iterates(it)
<1>1. N \in Nat /\ DOMAIN refs = 1 .. N /\ \A i \in 1 .. N : refs[i].nr \in Nat
  BY TextOfReferences
<1>2. F \in [Acc \X (1 .. N) -> Acc] /\ base \in Acc
  <2>1. \A seen \in Seq(Nat), i \in 1 .. N : Noted(kind, limit, seen, refs[i]) \in Seq(Nat)
    BY <1>1 DEF Noted
  <2>2. QED
    BY <2>1
<1>3. ReferenceIndexes(refs, kind, limit) = g[1 .. N]
  BY <1>1 DEF ReferenceIndexes, FoldLeft, MapThenFoldSet, Noted
<1>4. \A s \in SUBSET (1 .. N) : s # {} => Max(s) \in 1 .. N
  BY <1>1, MaxIsMember
<1>5. \E it : Iterates(it)
  <2>1. PICK it \in [SUBSET (1 .. N) -> Acc] : Folds(it, N, base, F)
    <3> HIDE DEF F, N, Acc, base
    <3>1. QED
      BY <1>1, <1>2, FoldExists
  <2>2. ASSUME NEW s \in SUBSET (1 .. N)
        PROVE  it[s] = IF s = {} THEN <<>> ELSE Noted(kind, limit, it[s \ {Max(s)}], refs[Max(s)])
    <3>1. s # {} => Max(s) \in 1 .. N /\ it[s \ {Max(s)}] \in Seq(Nat)
      BY <1>4, <2>1
    <3>2. QED
      BY <2>1, <3>1 DEF Folds
  <2>3. Iterates(it)
    BY <2>2
  <2>4. QED
    BY <2>3
<1>6. Iterates(g)
  BY <1>5
<1> HIDE DEF g
<1>7. Unrolls(g, N, Acc, base, F)
  <2>1. g[{}] = base
    BY <1>6
  <2>2. ASSUME NEW s \in SUBSET (1 .. N), s # {}, g[s \ {Max(s)}] \in Acc
        PROVE  g[s] = F[<<g[s \ {Max(s)}], Max(s)>>]
    BY <1>4, <1>6, <2>2
  <2> HIDE DEF F, N, Acc, base
  <2>3. QED
    BY <2>1, <2>2 DEF Unrolls
<1>8. PICK f \in [0 .. N -> Acc] : Chain(f, g, N, base, F)
  <2> HIDE DEF F, N, Acc, base
  <2>1. QED
    BY <1>1, <1>2, <1>7, FoldPrefixes
<1>9. \A j \in 1 .. N : f[j] = Noted(kind, limit, f[j - 1], refs[j])
  <2> SUFFICES ASSUME NEW j \in 1 .. N
               PROVE  f[j] = Noted(kind, limit, f[j - 1], refs[j])
    OBVIOUS
  <2>1. f[j - 1] \in Seq(Nat)
    BY <1>1
  <2>2. QED
    BY <1>8, <2>1 DEF Chain
<1>10. QED
  BY <1>3, <1>8, <1>9 DEF Chain

\* A source has a new number if and only if it is among those selected, and it is found
\* there.
LEMMA Numbering ==
  ASSUME NEW indexes \in Seq(Nat), NEW nr
  PROVE  /\ NewNumber(indexes, nr) \in 0 .. Len(indexes)
         /\ NewNumber(indexes, nr) # 0 => indexes[NewNumber(indexes, nr)] = nr
         /\ Contains(indexes, nr) => NewNumber(indexes, nr) # 0
<1> DEFINE I == {i \in 1 .. Len(indexes) : indexes[i] = nr}
<1>1. NewNumber(indexes, nr) = IF I # {} THEN Min(I) ELSE 0
  BY DEF NewNumber, SelectInSeq
<1>2. I \in SUBSET Nat /\ Len(indexes) \in Nat
  OBVIOUS
<1>3. ASSUME I # {}
      PROVE  Min(I) \in I
  <2> HIDE DEF I
  <2>1. QED
    BY <1>2, <1>3, LeastNat DEF Min
<1>4. Contains(indexes, nr) <=> I # {}
  BY DEF Contains
<1>5. QED
  BY <1>1, <1>2, <1>3, <1>4

\* One match of _remap.
Replaced(kind, indexes, done, ref) ==
  IF ref.kind # kind THEN Append(done, ref)
  ELSE IF NewNumber(indexes, ref.nr) = 0 THEN done
  ELSE Append(done, [kind |-> kind, nr |-> NewNumber(indexes, ref.nr)])

\* _remap looks at one match after the other.
LEMMA RemapSteps ==
  ASSUME NEW refs \in Seq(Reference), NEW kind, NEW indexes \in Seq(Nat)
  PROVE  \E f \in [0 .. Len(refs) -> Seq(Reference)] :
           /\ f[0] = <<>>
           /\ \A j \in 1 .. Len(refs) : f[j] = Replaced(kind, indexes, f[j - 1], refs[j])
           /\ Remap(refs, kind, indexes) = f[Len(refs)]
<1> DEFINE N == Len(refs)
           Acc == Seq(Reference)
           base == <<>>
           F == [p \in Seq(Reference) \X (1 .. N) |-> Replaced(kind, indexes, p[1], refs[p[2]])]
           Iterates(it) == it = [s \in SUBSET (1 .. N) |->
              IF s = {} THEN <<>> ELSE Replaced(kind, indexes, it[s \ {Max(s)}], refs[Max(s)])]
           g == CHOOSE it : Iterates(it)
<1>1. N \in Nat /\ DOMAIN refs = 1 .. N /\ \A i \in 1 .. N : refs[i] \in Reference
  BY TextOfReferences
<1>2. F \in [Acc \X (1 .. N) -> Acc] /\ base \in Acc
  <2>1. ASSUME NEW done \in Seq(Reference), NEW i \in 1 .. N
        PROVE  Replaced(kind, indexes, done, refs[i]) \in Seq(Reference)
    <3>1. refs[i].kind = kind =>
            [kind |-> kind, nr |-> NewNumber(indexes, refs[i].nr)] \in Reference
      <4> DEFINE n == NewNumber(indexes, refs[i].nr)
      <4>1. n \in Nat
        BY Numbering
      <4> HIDE DEF n
      <4>2. refs[i].kind = kind => [kind |-> kind, nr |-> n] \in Reference
        BY <1>1, <4>1 DEF Reference
      <4>3. QED
        BY <4>2 DEF n
    <3>2. QED
      BY <1>1, <3>1 DEF Replaced
  <2>2. QED
    BY <2>1
<1>3. Remap(refs, kind, indexes) = g[1 .. N]
  BY <1>1 DEF Remap, FoldLeft, MapThenFoldSet, Replaced
<1>4. \A s \in SUBSET (1 .. N) : s # {} => Max(s) \in 1 .. N
  BY <1>1, MaxIsMember
<1>5. \E it : Iterates(it)
  <2>1. PICK it \in [SUBSET (1 .. N) -> Acc] : Folds(it, N, base, F)
    <3> HIDE DEF F, N, Acc, base
    <3>1. QED
      BY <1>1, <1>2, FoldExists
  <2>2. ASSUME NEW s \in SUBSET (1 .. N)
        PROVE  it[s] = IF s = {} THEN <<>> ELSE Replaced(kind, indexes, it[s \ {Max(s)}], refs[Max(s)])
    <3>1. s # {} => Max(s) \in 1 .. N /\ it[s \ {Max(s)}] \in Seq(Reference)
      BY <1>4, <2>1
    <3>2. QED
      BY <2>1, <3>1 DEF Folds
  <2>3. Iterates(it)
    BY <2>2
  <2>4. QED
    BY <2>3
<1>6. Iterates(g)
  BY <1>5
<1> HIDE DEF g
<1>7. Unrolls(g, N, Acc, base, F)
  <2>1. g[{}] = base
    BY <1>6
  <2>2. ASSUME NEW s \in SUBSET (1 .. N), s # {}, g[s \ {Max(s)}] \in Acc
        PROVE  g[s] = F[<<g[s \ {Max(s)}], Max(s)>>]
    BY <1>4, <1>6, <2>2
  <2> HIDE DEF F, N, Acc, base
  <2>3. QED
    BY <2>1, <2>2 DEF Unrolls
<1>8. PICK f \in [0 .. N -> Acc] : Chain(f, g, N, base, F)
  <2> HIDE DEF F, N, Acc, base
  <2>1. QED
    BY <1>1, <1>2, <1>7, FoldPrefixes
<1>9. \A j \in 1 .. N : f[j] = Replaced(kind, indexes, f[j - 1], refs[j])
  <2> SUFFICES ASSUME NEW j \in 1 .. N
               PROVE  f[j] = Replaced(kind, indexes, f[j - 1], refs[j])
    OBVIOUS
  <2>1. f[j - 1] \in Seq(Reference)
    BY <1>1
  <2>2. QED
    BY <1>8, <2>1 DEF Chain
<1>10. QED
  BY <1>3, <1>8, <1>9 DEF Chain

-----------------------------------------------------------------------------
\* The numbers that _reference_indexes keeps: each once, each of a reference of the kind,
\* and one after the other as the text has them.
Selects(idx, refs, kind, limit, last) ==
  /\ idx \in Seq(Nat)
  /\ \A i \in 1 .. Len(idx) : idx[i] \in 1 .. limit
  /\ \A i, j \in 1 .. Len(idx) : idx[i] = idx[j] => i = j
  /\ \A i \in 1 .. Len(idx) : \E k \in 1 .. last : refs[k].kind = kind /\ refs[k].nr = idx[i]
  /\ \A k \in 1 .. last :
       refs[k].kind = kind /\ refs[k].nr \in 1 .. limit => Contains(idx, refs[k].nr)
  /\ \A i \in 1 .. Len(idx), k \in 1 .. Len(refs) :
       i > 1 /\ refs[k].kind = kind /\ refs[k].nr = idx[i] =>
         \E earlier \in 1 .. k - 1 : refs[earlier].kind = kind /\ refs[earlier].nr = idx[i - 1]

\* One more match keeps that.
LEMMA NotedSelects ==
  ASSUME NEW refs \in Seq(Reference), NEW kind, NEW limit \in Nat,
         NEW last \in 0 .. Len(refs) - 1, NEW idx, Selects(idx, refs, kind, limit, last)
  PROVE  Selects(Noted(kind, limit, idx, refs[last + 1]), refs, kind, limit, last + 1)
<1> DEFINE ref == refs[last + 1]
           n == Len(idx)
<1>1. /\ idx \in Seq(Nat) /\ n \in Nat /\ Len(refs) \in Nat /\ last \in Nat
      /\ last + 1 \in 1 .. Len(refs)
      /\ \A k \in 1 .. Len(refs) : refs[k].nr \in Nat
  <2>1. idx \in Seq(Nat)
    BY DEF Selects
  <2>2. n \in Nat /\ Len(refs) \in Nat /\ last \in Nat /\ last + 1 \in 1 .. Len(refs)
    BY <2>1
  <2>3. QED
    BY <2>1, <2>2, TextOfReferences
<1>2. CASE ref.kind = kind /\ ref.nr \in 1 .. limit /\ ~Contains(idx, ref.nr)
  <2> DEFINE new == Append(idx, ref.nr)
  <2>1. /\ Noted(kind, limit, idx, ref) = new /\ new \in Seq(Nat) /\ Len(new) = n + 1
        /\ new[n + 1] = ref.nr /\ \A i \in 1 .. n : new[i] = idx[i]
    BY <1>1, <1>2, Appended DEF Noted
  <2>2. \A i \in 1 .. n : idx[i] # ref.nr
    BY <1>2 DEF Contains
  <2> HIDE DEF new, n
  <2>3. \A i \in 1 .. Len(new) : i \in 1 .. n \/ i = n + 1
    BY <1>1, <2>1
  <2>4. \A i \in 1 .. Len(new) : new[i] \in 1 .. limit
    BY <1>2, <2>1, <2>3 DEF Selects, n
  <2>5. \A i, j \in 1 .. Len(new) : new[i] = new[j] => i = j
    <3>1. \A i, j \in 1 .. n : idx[i] = idx[j] => i = j
      BY DEF Selects, n
    <3>2. QED
      BY <2>1, <2>2, <2>3, <3>1
  <2>6. \A i \in 1 .. Len(new) :
          \E k \in 1 .. last + 1 : refs[k].kind = kind /\ refs[k].nr = new[i]
    <3> SUFFICES ASSUME NEW i \in 1 .. Len(new)
                 PROVE  \E k \in 1 .. last + 1 : refs[k].kind = kind /\ refs[k].nr = new[i]
      OBVIOUS
    <3>1. CASE i \in 1 .. n
      <4>1. PICK k \in 1 .. last : refs[k].kind = kind /\ refs[k].nr = idx[i]
        BY <3>1 DEF Selects, n
      <4>2. k \in 1 .. last + 1
        BY <1>1
      <4>3. QED
        BY <2>1, <3>1, <4>1, <4>2
    <3>2. CASE i = n + 1
      <4>1. last + 1 \in 1 .. last + 1
        BY <1>1
      <4>2. QED
        BY <1>2, <2>1, <3>2, <4>1
    <3>3. QED
      BY <2>3, <3>1, <3>2
  <2>7. ASSUME NEW k \in 1 .. last + 1, refs[k].kind = kind, refs[k].nr \in 1 .. limit
        PROVE  Contains(new, refs[k].nr)
    <3>1. CASE k = last + 1
      <4>1. n + 1 \in 1 .. Len(new)
        BY <1>1, <2>1
      <4>2. QED
        BY <2>1, <3>1, <4>1 DEF Contains
    <3>2. CASE k \in 1 .. last
      <4>1. PICK i \in 1 .. n : idx[i] = refs[k].nr
        BY <2>7, <3>2 DEF Selects, Contains, n
      <4>2. i \in 1 .. Len(new)
        BY <1>1, <2>1
      <4>3. QED
        BY <2>1, <4>1, <4>2 DEF Contains
    <3>3. QED
      BY <1>1, <3>1, <3>2
  <2>8. ASSUME NEW i \in 1 .. Len(new), NEW k \in 1 .. Len(refs), i > 1,
               refs[k].kind = kind, refs[k].nr = new[i]
        PROVE  \E earlier \in 1 .. k - 1 :
                 refs[earlier].kind = kind /\ refs[earlier].nr = new[i - 1]
    <3>1. CASE i \in 1 .. n
      <4>1. i - 1 \in 1 .. n
        BY <1>1, <2>8, <3>1
      <4>2. /\ new[i] = idx[i] /\ new[i - 1] = idx[i - 1] /\ i \in 1 .. Len(idx)
            /\ i > 1 /\ refs[k].kind = kind /\ refs[k].nr = idx[i]
        BY <2>1, <2>8, <3>1, <4>1 DEF n
      <4>3. \E earlier \in 1 .. k - 1 :
              refs[earlier].kind = kind /\ refs[earlier].nr = idx[i - 1]
        BY <4>2 DEF Selects
      <4>4. QED
        BY <4>2, <4>3
    <3>2. CASE i = n + 1
      <4>1. n \in 1 .. n /\ i - 1 = n
        BY <1>1, <2>8, <3>2
      <4>2. PICK earlier \in 1 .. last : refs[earlier].kind = kind /\ refs[earlier].nr = idx[n]
        BY <4>1 DEF Selects, n
      <4>3. ~(k \in 1 .. last)
        <5>1. ~Contains(idx, refs[k].nr) /\ refs[k].nr \in 1 .. limit
          BY <1>2, <2>1, <2>8, <3>2
        <5>2. QED
          BY <2>8, <5>1 DEF Selects
      <4>4. earlier \in 1 .. k - 1
        BY <1>1, <4>3
      <4>5. QED
        BY <2>1, <4>1, <4>2, <4>4
    <3>3. QED
      BY <2>3, <3>1, <3>2
  <2>9. Selects(new, refs, kind, limit, last + 1)
    BY <2>1, <2>4, <2>5, <2>6, <2>7, <2>8 DEF Selects
  <2>10. QED
    BY <2>1, <2>9
<1>3. CASE ~(ref.kind = kind /\ ref.nr \in 1 .. limit /\ ~Contains(idx, ref.nr))
  <2>1. Noted(kind, limit, idx, ref) = idx
    BY <1>3 DEF Noted
  <2>2. \A i \in 1 .. n : \E k \in 1 .. last + 1 : refs[k].kind = kind /\ refs[k].nr = idx[i]
    <3> SUFFICES ASSUME NEW i \in 1 .. n
                 PROVE  \E k \in 1 .. last + 1 : refs[k].kind = kind /\ refs[k].nr = idx[i]
      OBVIOUS
    <3>1. PICK k \in 1 .. last : refs[k].kind = kind /\ refs[k].nr = idx[i]
      BY DEF Selects
    <3>2. k \in 1 .. last + 1
      BY <1>1
    <3>3. QED
      BY <3>1, <3>2
  <2>3. ASSUME NEW k \in 1 .. last + 1, refs[k].kind = kind, refs[k].nr \in 1 .. limit
        PROVE  Contains(idx, refs[k].nr)
    <3>1. CASE k = last + 1
      BY <1>3, <2>3, <3>1
    <3>2. CASE k \in 1 .. last
      BY <2>3, <3>2 DEF Selects
    <3>3. QED
      BY <1>1, <3>1, <3>2
  <2>4. Selects(idx, refs, kind, limit, last + 1)
    BY <2>2, <2>3 DEF Selects
  <2>5. QED
    BY <2>1, <2>4
<1>4. QED
  BY <1>2, <1>3

\* What _reference_indexes returns.
LEMMA ReferencesSelected ==
  ASSUME NEW refs \in Seq(Reference), NEW kind, NEW limit \in Nat
  PROVE  /\ Selects(ReferenceIndexes(refs, kind, limit), refs, kind, limit, Len(refs))
         /\ Len(ReferenceIndexes(refs, kind, limit)) <= limit
<1> DEFINE N == Len(refs)
<1>1. PICK f \in [0 .. N -> Seq(Nat)] :
        /\ f[0] = <<>>
        /\ \A j \in 1 .. N : f[j] = Noted(kind, limit, f[j - 1], refs[j])
        /\ ReferenceIndexes(refs, kind, limit) = f[N]
  BY ReferenceSteps
<1>2. N \in Nat
  BY TextOfReferences
<1> DEFINE P == {j \in Nat : j <= N => Selects(f[j], refs, kind, limit, j)}
<1>3. 0 \in P
  <2>1. Selects(<<>>, refs, kind, limit, 0)
    BY DEF Selects
  <2>2. QED
    BY <1>1, <2>1
<1>4. ASSUME NEW j \in Nat, j \in P
      PROVE  j + 1 \in P
  <2> SUFFICES ASSUME j + 1 <= N
               PROVE  Selects(f[j + 1], refs, kind, limit, j + 1)
    OBVIOUS
  <2>1. j \in 0 .. N - 1 /\ j + 1 \in 1 .. N /\ (j + 1) - 1 = j /\ j <= N
    BY <1>2
  <2>2. Selects(f[j], refs, kind, limit, j)
    BY <1>4, <2>1
  <2>3. f[j + 1] = Noted(kind, limit, f[j], refs[j + 1])
    BY <1>1, <2>1
  <2>4. QED
    BY <2>1, <2>2, <2>3, NotedSelects
<1>5. Selects(f[N], refs, kind, limit, N)
  <2> HIDE DEF P
  <2>1. Nat \subseteq P
    BY <1>3, <1>4, SetInduction
  <2>2. QED
    BY <1>2, <2>1 DEF P
<1>6. Len(f[N]) <= limit
  <2> DEFINE idx == f[N]
             n == Len(idx)
  <2>1. idx \in Seq(Nat) /\ n \in Nat
    BY <1>2
  <2>2. idx \in Injection(1 .. n, 1 .. limit)
    <3>1. idx \in [1 .. n -> 1 .. limit]
      BY <1>5, <2>1 DEF Selects
    <3>2. QED
      BY <1>5, <3>1 DEF Selects, Injection, IsInjective
  <2> HIDE DEF idx, n
  <2>3. /\ IsFiniteSet(1 .. n) /\ Cardinality(1 .. n) = n
        /\ IsFiniteSet(1 .. limit) /\ Cardinality(1 .. limit) = limit
    <3>1. \A m \in Nat : IsFiniteSet(1 .. m) /\ Cardinality(1 .. m) = m
      <4> SUFFICES ASSUME NEW m \in Nat
                   PROVE  IsFiniteSet(1 .. m) /\ Cardinality(1 .. m) = m
        OBVIOUS
      <4>1. 1 \in Int /\ m \in Int
        OBVIOUS
      <4>2. IsFiniteSet(1 .. m) /\ Cardinality(1 .. m) = IF 1 > m THEN 0 ELSE m - 1 + 1
        BY <4>1, FS_Interval
      <4>3. QED
        BY <4>2
    <3>2. QED
      BY <2>1, <3>1
  <2>4. Cardinality(1 .. n) <= Cardinality(1 .. limit)
    BY <2>2, <2>3, FS_Injection DEF ExistsInjection
  <2>5. QED
    BY <2>3, <2>4 DEF n, idx
<1>7. QED
  BY <1>1, <1>5, <1>6

\* Every reference of the kind has a new number, and the others stay as they are.
Renumbers(new, refs, kind, indexes, last) ==
  /\ new \in Seq(Reference) /\ Len(new) = last
  /\ \A k \in 1 .. last :
       /\ new[k].kind = refs[k].kind
       /\ refs[k].kind # kind => new[k] = refs[k]
       /\ refs[k].kind = kind =>
            new[k].nr \in 1 .. Len(indexes) /\ indexes[new[k].nr] = refs[k].nr

\* What _remap returns when every reference of the kind has a new number: all of them,
\* each with its number.
LEMMA ReferencesRenumbered ==
  ASSUME NEW refs \in Seq(Reference), NEW kind \in {"chunk", "link"}, NEW indexes \in Seq(Nat),
         \A k \in 1 .. Len(refs) : refs[k].kind = kind => Contains(indexes, refs[k].nr)
  PROVE  Renumbers(Remap(refs, kind, indexes), refs, kind, indexes, Len(refs))
<1> DEFINE N == Len(refs)
<1>1. PICK f \in [0 .. N -> Seq(Reference)] :
        /\ f[0] = <<>>
        /\ \A j \in 1 .. N : f[j] = Replaced(kind, indexes, f[j - 1], refs[j])
        /\ Remap(refs, kind, indexes) = f[N]
  BY RemapSteps
<1>2. N \in Nat
  BY TextOfReferences
<1> DEFINE P == {j \in Nat : j <= N => Renumbers(f[j], refs, kind, indexes, j)}
<1>3. 0 \in P
  <2>1. Renumbers(<<>>, refs, kind, indexes, 0)
    BY DEF Renumbers
  <2>2. QED
    BY <1>1, <2>1
<1>4. ASSUME NEW j \in Nat, j \in P
      PROVE  j + 1 \in P
  <2> SUFFICES ASSUME j + 1 <= N
               PROVE  Renumbers(f[j + 1], refs, kind, indexes, j + 1)
    OBVIOUS
  <2> DEFINE ref == refs[j + 1]
             nr == NewNumber(indexes, ref.nr)
             new == IF ref.kind = kind THEN [kind |-> kind, nr |-> nr] ELSE ref
             old == f[j]
  <2>1. j \in 0 .. N /\ j + 1 \in 1 .. N /\ (j + 1) - 1 = j /\ j <= N
    BY <1>2
  <2>2. Renumbers(old, refs, kind, indexes, j)
    BY <1>4, <2>1
  <2>3. ref \in Reference /\ ref.nr \in Nat /\ ref.kind \in {"chunk", "link"}
    BY <2>1, TextOfReferences
  <2>4. ref.kind = kind => nr \in 1 .. Len(indexes) /\ indexes[nr] = ref.nr
    <3>1. Len(indexes) \in Nat
      OBVIOUS
    <3>2. QED
      BY <2>1, <3>1, Numbering
  <2>5. new \in Reference
    <3>1. ref.kind = kind => nr \in Nat
      BY <2>4
    <3> HIDE DEF nr
    <3>2. QED
      BY <2>3, <3>1 DEF Reference
  <2>6. f[j + 1] = Append(old, new)
    <3>1. f[j + 1] = Replaced(kind, indexes, old, ref)
      BY <1>1, <2>1
    <3>2. ref.kind = kind => nr # 0
      BY <2>4
    <3>3. QED
      BY <3>1, <3>2 DEF Replaced
  <2>7. old \in Seq(Reference) /\ Len(old) = j
    BY <2>2 DEF Renumbers
  <2> HIDE DEF old, new, ref, nr
  <2> DEFINE longer == Append(old, new)
  <2>8. /\ longer \in Seq(Reference) /\ Len(longer) = j + 1 /\ longer[j + 1] = new
        /\ \A k \in 1 .. j : longer[k] = old[k]
    BY <2>5, <2>7, Appended
  <2> HIDE DEF longer
  <2>9. ASSUME NEW k \in 1 .. j + 1
        PROVE  /\ longer[k].kind = refs[k].kind
               /\ refs[k].kind # kind => longer[k] = refs[k]
               /\ refs[k].kind = kind =>
                    longer[k].nr \in 1 .. Len(indexes) /\ indexes[longer[k].nr] = refs[k].nr
    <3>1. CASE k \in 1 .. j
      BY <2>2, <2>8, <3>1 DEF Renumbers
    <3>2. CASE k = j + 1
      BY <2>4, <2>8, <3>2 DEF new, ref
    <3>3. QED
      BY <3>1, <3>2
  <2>10. QED
    BY <2>6, <2>8, <2>9 DEF Renumbers, longer
<1>5. Renumbers(f[N], refs, kind, indexes, N)
  <2> HIDE DEF P
  <2>1. Nat \subseteq P
    BY <1>3, <1>4, SetInduction
  <2>2. QED
    BY <1>2, <2>1 DEF P
<1>6. QED
  BY <1>1, <1>5

\* The new numbers run in the order of appearance.
LEMMA NumberedInOrder ==
  ASSUME NEW refs \in Seq(Reference), NEW new \in Seq(Reference), Len(new) = Len(refs),
         NEW kind, NEW limit \in Nat, NEW idx, Selects(idx, refs, kind, limit, Len(refs)),
         NEW sources, Len(sources) = Len(idx),
         \A k \in 1 .. Len(refs) :
           /\ new[k].kind = refs[k].kind
           /\ refs[k].kind = kind => new[k].nr \in 1 .. Len(idx) /\ idx[new[k].nr] = refs[k].nr
  PROVE  NumberedByAppearance(new, kind, sources)
<1> DEFINE N == Len(refs)
           n == Len(idx)
<1>1. /\ N \in Nat /\ DOMAIN new = 1 .. N /\ n \in Nat
      /\ \A k \in 1 .. N : new[k] \in Reference /\ new[k].nr \in Nat
  BY TextOfReferences DEF Selects
<1>2. ASSUME NEW i \in 1 .. n, NEW k \in 1 .. N, refs[k].kind = kind, refs[k].nr = idx[i]
      PROVE  new[k].nr = i /\ new[k].kind = kind
  BY <1>2 DEF Selects
<1>3. \A nr : (\E ref \in ToSet(new) : ref.kind = kind /\ ref.nr = nr) <=> nr \in 1 .. n
  <2>1. ASSUME NEW ref \in ToSet(new), ref.kind = kind
        PROVE  ref.nr \in 1 .. n
    BY <1>1, <2>1 DEF ToSet
  <2>2. ASSUME NEW i \in 1 .. n
        PROVE  \E ref \in ToSet(new) : ref.kind = kind /\ ref.nr = i
    <3>1. PICK k \in 1 .. N : refs[k].kind = kind /\ refs[k].nr = idx[i]
      BY DEF Selects
    <3>2. new[k].nr = i /\ new[k].kind = kind
      BY <1>2, <3>1
    <3>3. new[k] \in ToSet(new)
      BY <1>1 DEF ToSet
    <3>4. QED
      BY <3>2, <3>3
  <2>3. QED
    BY <2>1, <2>2
<1>4. {ref.nr : ref \in {r \in ToSet(new) : r.kind = kind}} = 1 .. Len(sources)
  <2> DEFINE Numbers == {ref.nr : ref \in {r \in ToSet(new) : r.kind = kind}}
  <2>1. \A nr : nr \in Numbers <=> \E ref \in ToSet(new) : ref.kind = kind /\ ref.nr = nr
    OBVIOUS
  <2> HIDE DEF Numbers
  <2>2. \A nr : nr \in Numbers <=> nr \in 1 .. n
    BY <1>3, <2>1
  <2>3. Numbers = 1 .. Len(sources)
    BY <2>2
  <2>4. QED
    BY <2>3 DEF Numbers
<1>5. ASSUME NEW k \in DOMAIN new, new[k].kind = kind, new[k].nr > 1
      PROVE  \E earlier \in 1 .. k - 1 : new[earlier] = [kind |-> kind, nr |-> new[k].nr - 1]
  <2> DEFINE i == new[k].nr
  <2>1. k \in 1 .. N /\ refs[k].kind = kind /\ i \in 1 .. n /\ refs[k].nr = idx[i] /\ i > 1
    BY <1>1, <1>5
  <2>2. PICK earlier \in 1 .. k - 1 : refs[earlier].kind = kind /\ refs[earlier].nr = idx[i - 1]
    BY <2>1 DEF Selects
  <2>3. earlier \in 1 .. N /\ i - 1 \in 1 .. n
    BY <1>1, <2>1
  <2>4. new[earlier].kind = kind /\ new[earlier].nr = i - 1 /\ new[earlier] \in Reference
    BY <1>1, <1>2, <2>2, <2>3
  <2>5. new[earlier] = [kind |-> kind, nr |-> i - 1]
    BY <2>4 DEF Reference
  <2>6. QED
    BY <2>5
<1>6. QED
  BY <1>4, <1>5 DEF NumberedByAppearance

\* A sequence of selected sources.
LEMMA Selection ==
  ASSUME NEW S, NEW sources \in Seq(S), NEW idx \in Seq(Nat),
         \A i \in 1 .. Len(idx) : idx[i] \in 1 .. Len(sources)
  PROVE  LET selected == [k \in DOMAIN idx |-> sources[idx[k]]]
         IN  /\ selected \in Seq(S) /\ Len(selected) = Len(idx)
             /\ \A k \in 1 .. Len(idx) : selected[k] = sources[idx[k]]
<1>1. DOMAIN idx = 1 .. Len(idx) /\ Len(idx) \in Nat
  OBVIOUS
<1>2. \A k \in 1 .. Len(idx) : sources[idx[k]] \in S
  OBVIOUS
<1>3. [k \in 1 .. Len(idx) |-> sources[idx[k]]] \in Seq(S)
  BY <1>1, <1>2
<1>4. QED
  BY <1>1, <1>3

\* A properly cited answer of the same kind, over some of the sources.
GoodSelection(result, answer, chunks, links, S) ==
  /\ result.answer \in Answer /\ result.answer.unsure = answer.unsure
  /\ ProperlyCited(result.answer, result.chunks, result.links)
  /\ result.chunks \in Seq(S) /\ Len(result.chunks) <= Len(chunks)
  /\ result.links \in Seq(S) /\ Len(result.links) <= Len(links)

\* What select_referenced_sources makes of an answer whose references all exist.
LEMMA SelectedAreCited ==
  ASSUME NEW S, NEW chunks \in Seq(S), NEW links \in Seq(S), NEW answer \in Answer,
         WellStructured(answer, chunks, links)
  PROVE  GoodSelection(SelectReferencedSources(answer, chunks, links), answer, chunks, links, S)
<1> DEFINE result == SelectReferencedSources(answer, chunks, links)
           refs == answer.refs
           ci == ReferenceIndexes(refs, "chunk", Len(chunks))
           li == ReferenceIndexes(refs, "link", Len(links))
           r1 == Remap(refs, "chunk", ci)
           r2 == Remap(r1, "link", li)
           N == Len(refs)
           selectedChunks == [k \in DOMAIN ci |-> chunks[ci[k]]]
           selectedLinks == [k \in DOMAIN li |-> links[li[k]]]
<1>1. CASE answer.unsure
  <2>1. result = [answer |-> NoAnswer, chunks |-> <<>>, links |-> <<>>]
    BY <1>1 DEF SelectReferencedSources
  <2>2. NoAnswer \in Answer /\ NoAnswer.unsure /\ NoAnswer.refs = <<>>
    BY DEF NoAnswer, Answer
  <2>3. answer.unsure = TRUE
    BY <1>1 DEF Answer
  <2>4. <<>> \in Seq(S) /\ Len(<<>>) = 0 /\ Len(chunks) \in Nat /\ Len(links) \in Nat
    OBVIOUS
  <2>5. ProperlyCited(NoAnswer, <<>>, <<>>)
    BY <2>2 DEF ProperlyCited
  <2>6. GoodSelection([answer |-> NoAnswer, chunks |-> <<>>, links |-> <<>>],
                      answer, chunks, links, S)
    <3> HIDE DEF result, refs, ci, li, r1, r2, N, selectedChunks, selectedLinks
    <3>1. NoAnswer.unsure = answer.unsure
      BY <2>3 DEF NoAnswer
    <3>2. QED
      BY <2>2, <3>1, <2>4, <2>5 DEF GoodSelection
  <2>7. QED
    BY <2>1, <2>6
<1>2. CASE ~answer.unsure
  <2>1. /\ refs \in Seq(Reference) /\ N \in Nat /\ Len(chunks) \in Nat /\ Len(links) \in Nat
        /\ answer.unsure = FALSE
    BY <1>2 DEF Answer
  <2>2. /\ refs # <<>>
        /\ \A k \in 1 .. N : refs[k].kind = "chunk" => refs[k].nr \in 1 .. Len(chunks)
        /\ \A k \in 1 .. N : refs[k].kind = "link" => refs[k].nr \in 1 .. Len(links)
    BY <1>2, <2>1 DEF WellStructured
  <2>3. /\ Selects(ci, refs, "chunk", Len(chunks), N) /\ Len(ci) <= Len(chunks)
        /\ Selects(li, refs, "link", Len(links), N) /\ Len(li) <= Len(links)
    BY <2>1, ReferencesSelected
  <2>4. result = [answer |-> [unsure |-> FALSE, refs |-> r2],
                  chunks |-> selectedChunks, links |-> selectedLinks]
    BY <1>2 DEF SelectReferencedSources
  <2> HIDE DEF result
  <2>5. /\ ci \in Seq(Nat) /\ \A i \in 1 .. Len(ci) : ci[i] \in 1 .. Len(chunks)
        /\ li \in Seq(Nat) /\ \A i \in 1 .. Len(li) : li[i] \in 1 .. Len(links)
    BY <2>3 DEF Selects
  <2>6. Renumbers(r1, refs, "chunk", ci, N)
    <3>1. \A k \in 1 .. N : refs[k].kind = "chunk" => Contains(ci, refs[k].nr)
      BY <2>2, <2>3 DEF Selects
    <3> HIDE DEF ci, refs
    <3>2. QED
      BY <2>1, <2>5, <3>1, ReferencesRenumbered
  <2> HIDE DEF r1
  <2>7. /\ r1 \in Seq(Reference) /\ Len(r1) = N
        /\ \A k \in 1 .. N : r1[k].kind = refs[k].kind
        /\ \A k \in 1 .. N : refs[k].kind # "chunk" => r1[k] = refs[k]
    BY <2>6 DEF Renumbers
  <2>8. Renumbers(r2, r1, "link", li, N)
    <3>1. \A k \in 1 .. N : r1[k].kind = "link" => Contains(li, r1[k].nr)
      BY <2>2, <2>3, <2>7 DEF Selects
    <3> HIDE DEF li, refs
    <3>2. QED
      BY <2>5, <2>7, <3>1, ReferencesRenumbered
  <2> HIDE DEF r2, ci, li, refs
  <2>9. /\ r2 \in Seq(Reference) /\ Len(r2) = N
        /\ \A k \in 1 .. N : r2[k].kind = refs[k].kind
        /\ \A k \in 1 .. N : refs[k].kind = "chunk" =>
             r2[k].nr \in 1 .. Len(ci) /\ ci[r2[k].nr] = refs[k].nr
        /\ \A k \in 1 .. N : refs[k].kind = "link" =>
             r2[k].nr \in 1 .. Len(li) /\ li[r2[k].nr] = refs[k].nr
    BY <2>6, <2>7, <2>8 DEF Renumbers
  <2>10. /\ selectedChunks \in Seq(S) /\ Len(selectedChunks) = Len(ci)
         /\ \A k \in 1 .. Len(ci) : selectedChunks[k] = chunks[ci[k]]
    BY <2>5, Selection
  <2>11. /\ selectedLinks \in Seq(S) /\ Len(selectedLinks) = Len(li)
         /\ \A k \in 1 .. Len(li) : selectedLinks[k] = links[li[k]]
    BY <2>5, Selection
  <2> HIDE DEF selectedChunks, selectedLinks
  <2>12. NumberedByAppearance(r2, "chunk", selectedChunks)
    BY <2>1, <2>3, <2>9, <2>10, NumberedInOrder
  <2>13. NumberedByAppearance(r2, "link", selectedLinks)
    BY <2>1, <2>3, <2>9, <2>11, NumberedInOrder
  <2>14. r2 # <<>>
    BY <2>1, <2>2, <2>9
  <2>15. [unsure |-> FALSE, refs |-> r2] \in Answer
    BY <2>9 DEF Answer
  <2>16. ProperlyCited([unsure |-> FALSE, refs |-> r2], selectedChunks, selectedLinks)
    BY <2>12, <2>13, <2>14 DEF ProperlyCited
  <2>17. GoodSelection([answer |-> [unsure |-> FALSE, refs |-> r2],
                        chunks |-> selectedChunks, links |-> selectedLinks],
                       answer, chunks, links, S)
    BY <2>1, <2>3, <2>10, <2>11, <2>15, <2>16 DEF GoodSelection
  <2>18. QED
    BY <2>4, <2>17 DEF result
<1>3. QED
  BY <1>1, <1>2

-----------------------------------------------------------------------------
(* What an answer rests on *)

\* Channels that are kept, in memory or in the store, keep what they had.
LEMMA KeptChannels ==
  ASSUME NEW channels, Grounded(channels), webSearch' = webSearch
  PROVE  /\ thread' = channels => Grounded(thread)'
         /\ checkpoint' = channels => Grounded(checkpoint)'
  BY DEF Grounded, LastSearch, OnRoute, Enough, Bounded, Found

\* A step that writes no channel and enters no node.
LEMMA StepsAside ==
  ASSUME Evidence, thread' = thread, checkpoint' = checkpoint, webSearch' = webSearch,
         \A r \in Request : req'[r].pc = req[r].pc \/ req'[r].pc \notin Nodes \cup {"end"}
  PROVE  Evidence'
<1>1. Grounded(thread)' /\ Grounded(checkpoint)'
  BY KeptChannels DEF Evidence
<1>2. \A r \in Request : InGraph(r)' => req'[r].pc = thread'.next
  BY DEF Evidence, InGraph
<1>3. QED
  BY <1>1, <1>2 DEF Evidence

\* Whoever is at a node finds the channels for that node.
LEMMA FindsChannels ==
  ASSUME Evidence, NEW r \in Request, NEW here \in Nodes, At(r, here)
  PROVE  thread \in Channels /\ Grounded(thread) /\ thread.next = here
  BY DEF Evidence, At, InGraph

\* What a node writes are the channels it is given, for the next node.
LEMMA WritesChannels ==
  ASSUME NEW r, NEW here, NEW next \in Nodes \cup {"end"}, NEW channels \in Channels,
         Node(r, here, next, channels)
  PROVE  /\ thread' \in Channels /\ thread'.next = next
         /\ thread'.route = channels.route /\ thread'.complete = channels.complete
         /\ thread'.chunks = channels.chunks /\ thread'.links = channels.links
         /\ thread'.decision = channels.decision /\ thread'.answer = channels.answer
         /\ thread'.rewrites = channels.rewrites
  BY DEF Node, Channels

\* Nobody else is in a node: only what has been written has to be looked at.
LEMMA NodeWrites ==
  ASSUME IInv, Evidence, NEW r \in Request, NEW here \in HasSlot, NEW next,
         NEW channels, Node(r, here, next, channels),
         thread' \in Channels, thread'.next = next, Grounded(thread')
  PROVE  Evidence'
<1>1. /\ req'[r].pc = next /\ webSearch' = webSearch
      /\ \A q \in Request \ {r} : req'[q] = req[q]
      /\ checkpoint' \in {checkpoint, thread'}
  BY DEF IInv, ControlType, Node, Goto
<1>2. Drives(r)
  BY DEF Node, At, Drives, HasLock
<1>3. ASSUME NEW q \in Request, InGraph(q)'
      PROVE  req'[q].pc = thread'.next
  <2>1. CASE q = r
    BY <1>1, <2>1
  <2>2. CASE q # r
    BY <1>1, <1>2, <1>3, <2>2 DEF IInv, OneDriver, Drives, InGraph, HasLock, HasSlot
  <2>3. QED
    BY <2>1, <2>2
<1>4. Grounded(thread)'
  BY <1>1, KeptChannels
<1>5. Grounded(checkpoint)' /\ checkpoint' \in Channels
  <2>1. CASE checkpoint' = checkpoint
    BY <1>1, <2>1, KeptChannels DEF Evidence
  <2>2. CASE checkpoint' = thread'
    BY <1>1, <2>2, KeptChannels
  <2>3. QED
    BY <1>1, <2>1, <2>2
<1>6. QED
  BY <1>3, <1>4, <1>5 DEF Evidence

\* At START nothing has been found.
LEMMA InitialGrounded ==
  /\ InitialState \in Channels /\ Grounded(InitialState)
  /\ NoCheckpoint \in Channels /\ Grounded(NoCheckpoint)
<1>1. InitialState \in Channels /\ NoCheckpoint \in Channels
  <2> DEFINE blank == [unsure |-> FALSE, refs |-> <<>>]
  <2>1. blank \in Answer /\ "route" \in Nodes /\ "rag" \in Routes
    BY DEF Answer, Nodes, Routes
  <2>2. InitialState =
          [stored |-> TRUE, next |-> "route", route |-> "rag", content |-> FALSE,
           complete |-> FALSE, chunks |-> <<>>, links |-> <<>>, decision |-> "refuse",
           answer |-> blank, rewrites |-> 0]
    BY DEF InitialState
  <2> HIDE DEF blank
  <2>3. InitialState \in Channels
    BY <2>1, <2>2 DEF Channels
  <2>4. QED
    BY <2>3 DEF NoCheckpoint, Channels
<1>2. ASSUME NEW channels, channels.next = "route", channels.chunks = <<>>, channels.links = <<>>
      PROVE  Grounded(channels)
  BY <1>2 DEF Grounded, LastSearch, OnRoute, Enough, Bounded
<1>3. /\ InitialState.next = "route" /\ InitialState.chunks = <<>> /\ InitialState.links = <<>>
      /\ NoCheckpoint.next = "route" /\ NoCheckpoint.chunks = <<>> /\ NoCheckpoint.links = <<>>
  BY DEF NoCheckpoint, InitialState
<1>4. QED
  BY <1>1, <1>2, <1>3

\* The run is taken up for the node the checkpoint is for, or begins with _initial_state.
LEMMA Starts ==
  ASSUME IInv, Evidence, NEW r \in Request, Start(r)
  PROVE  Evidence'
<1> DEFINE from == IF checkpoint.stored THEN checkpoint ELSE InitialState
<1>1. from \in Channels /\ Grounded(from)
  BY InitialGrounded DEF Evidence
<1>2. Node(r, "credentials", from.next, from)
  BY DEF Start
<1> HIDE DEF from
<1>3. from.next \in Nodes \cup {"end"}
  BY <1>1 DEF Channels
<1>4. /\ thread' \in Channels /\ thread'.next = from.next
      /\ thread'.route = from.route /\ thread'.complete = from.complete
      /\ thread'.chunks = from.chunks /\ thread'.links = from.links
      /\ thread'.decision = from.decision /\ thread'.answer = from.answer
      /\ thread'.rewrites = from.rewrites
  BY <1>1, <1>2, <1>3, WritesChannels
<1>5. Grounded(thread')
  BY <1>1, <1>4 DEF Grounded, LastSearch, OnRoute, Enough, Bounded, Found
<1>6. QED
  BY <1>2, <1>4, <1>5, NodeWrites DEF HasSlot

\* The route is chosen while nothing has been found.
LEMMA RoutesTheQuestion ==
  ASSUME IInv, Evidence, NEW r \in Request, Route(r)
  PROVE  Evidence'
<1>1. PICK route \in Routes :
        Node(r, "route", IF route = "rag" THEN "retrieve" ELSE route,
             [thread EXCEPT !.route = route])
  BY DEF Route
<1> DEFINE next == IF route = "rag" THEN "retrieve" ELSE route
           channels == [thread EXCEPT !.route = route]
<1>2. thread \in Channels /\ Grounded(thread) /\ thread.next = "route"
  BY <1>1, FindsChannels DEF Node, Nodes
<1>3. /\ channels \in Channels /\ channels.route = route
      /\ channels.chunks = <<>> /\ channels.links = <<>>
  BY <1>2 DEF Channels, Grounded, LastSearch
<1>4. Node(r, "route", next, channels)
  BY <1>1
<1>5. next \in Nodes /\ (next \in {"overview", "navigation"} => route = next)
      /\ (next = "retrieve" => route = "rag") /\ next \in {"overview", "navigation", "retrieve"}
  BY DEF Routes, Nodes
<1> HIDE DEF next, channels
<1>6. /\ thread' \in Channels /\ thread'.next = next /\ thread'.route = route
      /\ thread'.chunks = <<>> /\ thread'.links = <<>>
  BY <1>3, <1>4, <1>5, WritesChannels
<1>7. Grounded(thread')
  BY <1>5, <1>6 DEF Grounded, LastSearch, OnRoute, Enough, Bounded
<1>8. QED
  BY <1>4, <1>6, <1>7, NodeWrites DEF HasSlot, Nodes

\* What a search returns is of the route and the round it is made for.
LEMMA SearchesFind ==
  ASSUME thread \in Channels, NEW n \in Nat
  PROVE  /\ Fetched(n) \in Seq(Source)
         /\ Fetched(n) \in Seq(Found(thread))
<1> DEFINE source(k) == [route |-> thread.route, call |-> thread.rewrites, nr |-> k]
<1>1. \A k \in 1 .. n : source(k) \in Source /\ source(k) \in Found(thread)
  BY DEF Channels, Source, Found
<1>2. Fetched(n) = [k \in 1 .. n |-> source(k)]
  BY DEF Fetched
<1> HIDE DEF source
<1>3. QED
  BY <1>1, <1>2

\* The chunks are those of this round; without a web search there are no links at all.
LEMMA Retrieves ==
  ASSUME IInv, Evidence, NEW r \in Request, Retrieve(r)
  PROVE  Evidence'
<1>1. PICK n \in ChunkCounts :
        Node(r, "retrieve", IF webSearch THEN "web_search" ELSE "evaluate",
             [thread EXCEPT !.chunks = Fetched(n), !.content = FALSE, !.complete = FALSE])
  BY DEF Retrieve
<1> DEFINE next == IF webSearch THEN "web_search" ELSE "evaluate"
           found == Fetched(n)
           channels == [thread EXCEPT !.chunks = found, !.content = FALSE, !.complete = FALSE]
<1>2. thread \in Channels /\ Grounded(thread) /\ thread.next = "retrieve" /\ n \in Nat
  BY <1>1, AgentBoundsAssumption, FindsChannels DEF Node, Nodes
<1>3. found \in Seq(Source) /\ found \in Seq(Found(thread))
  BY <1>2, SearchesFind
<1>4. Node(r, "retrieve", next, channels)
  BY <1>1
<1> HIDE DEF found
<1>5. /\ channels \in Channels /\ channels.chunks = found /\ channels.links = thread.links
      /\ channels.route = thread.route /\ channels.rewrites = thread.rewrites
  BY <1>2, <1>3 DEF Channels
<1>6. next \in Nodes /\ next = IF webSearch THEN "web_search" ELSE "evaluate"
  BY DEF Nodes
<1> HIDE DEF channels, next
<1>7. /\ thread' \in Channels /\ thread'.next = next
      /\ thread'.chunks = found /\ thread'.links = thread.links
      /\ thread'.route = thread.route /\ thread'.rewrites = thread.rewrites
  BY <1>4, <1>5, <1>6, WritesChannels
<1>8. thread'.chunks \in Seq(Found(thread'))
  BY <1>3, <1>7 DEF Found
<1>9. thread'.route = "rag" /\ (~webSearch => thread'.links = <<>>)
  BY <1>2, <1>7 DEF Grounded, LastSearch, OnRoute, Nodes
<1>10. ~webSearch => thread'.links \in Seq(Found(thread'))
  <2>1. \A S : <<>> \in Seq(S)
    OBVIOUS
  <2>2. QED
    BY <1>9, <2>1
<1>11. Grounded(thread')
  BY <1>6, <1>7, <1>8, <1>9, <1>10 DEF Grounded, LastSearch, OnRoute, Enough, Bounded
<1>12. QED
  BY <1>4, <1>7, <1>11, NodeWrites DEF HasSlot, Nodes

\* The knowledge tools come first and last: there are no links, and what goes on to the
\* answer is complete where the route asks for it.
LEMMA KnowledgeToolsRun ==
  ASSUME IInv, Evidence, NEW r \in Request, NEW tool \in {"overview", "navigation"},
         RunKnowledgeTool(r, tool)
  PROVE  Evidence'
<1>1. PICK n \in ChunkCounts, content \in BOOLEAN, complete \in BOOLEAN :
        LET channels == [thread EXCEPT !.chunks = Fetched(n), !.content = content,
                                       !.complete = complete /\ tool = "overview"]
        IN  Node(r, tool, NextAfterKnowledgeTool(channels), channels)
  BY DEF RunKnowledgeTool
<1> DEFINE covered == complete /\ tool = "overview"
           found == Fetched(n)
           channels == [thread EXCEPT !.chunks = found, !.content = content,
                                      !.complete = covered]
           next == NextAfterKnowledgeTool(channels)
<1>2. thread \in Channels /\ Grounded(thread) /\ thread.next = tool /\ n \in Nat
  BY <1>1, AgentBoundsAssumption, FindsChannels DEF Node, Nodes
<1>3. found \in Seq(Source) /\ found \in Seq(Found(thread))
  BY <1>2, SearchesFind
<1>4. Node(r, tool, next, channels)
  BY <1>1
<1>5. thread.route = tool /\ thread.links = <<>>
  BY <1>2 DEF Grounded, LastSearch, OnRoute
<1> HIDE DEF found
<1>6. covered \in BOOLEAN /\ content \in BOOLEAN
  OBVIOUS
<1> HIDE DEF covered
<1>7. /\ channels \in Channels /\ channels.chunks = found /\ channels.complete = covered
      /\ channels.route = tool /\ channels.links = <<>> /\ channels.rewrites = thread.rewrites
  BY <1>2, <1>3, <1>5, <1>6 DEF Channels
<1>8. next \in {"synthesize", "refuse"} /\ (next = "synthesize" /\ tool = "overview" => covered)
  BY <1>7 DEF NextAfterKnowledgeTool
<1>9. next \in Nodes
  BY <1>8 DEF Nodes
<1> HIDE DEF channels, next
<1>10. /\ thread' \in Channels /\ thread'.next = next
       /\ thread'.chunks = found /\ thread'.links = <<>> /\ thread'.complete = covered
       /\ thread'.route = tool /\ thread'.rewrites = thread.rewrites
  BY <1>4, <1>7, <1>9, WritesChannels
<1>11. thread'.chunks \in Seq(Found(thread')) /\ thread'.links \in Seq(Found(thread'))
  <2>1. \A S : <<>> \in Seq(S)
    OBVIOUS
  <2>2. Found(thread') = Found(thread)
    BY <1>5, <1>10 DEF Found
  <2>3. QED
    BY <1>3, <1>10, <2>1, <2>2
<1>12. Grounded(thread')
  BY <1>8, <1>10, <1>11 DEF Grounded, LastSearch, OnRoute, Enough, Bounded
<1>13. QED
  BY <1>4, <1>10, <1>12, NodeWrites DEF HasSlot, Nodes

\* The links are those of the round whose chunks are there already.
LEMMA WebSearches ==
  ASSUME IInv, Evidence, NEW r \in Request, WebSearch(r)
  PROVE  Evidence'
<1>1. PICK n \in LinkCounts :
        Node(r, "web_search", "evaluate", [thread EXCEPT !.links = Fetched(n)])
  BY DEF WebSearch
<1> DEFINE found == Fetched(n)
           channels == [thread EXCEPT !.links = found]
<1>2. thread \in Channels /\ Grounded(thread) /\ thread.next = "web_search" /\ n \in Nat
  BY <1>1, AgentBoundsAssumption, FindsChannels DEF Node, Nodes
<1>3. found \in Seq(Source) /\ found \in Seq(Found(thread))
  BY <1>2, SearchesFind
<1>4. Node(r, "web_search", "evaluate", channels)
  BY <1>1
<1> HIDE DEF found
<1>5. /\ channels \in Channels /\ channels.chunks = thread.chunks /\ channels.links = found
      /\ channels.route = thread.route /\ channels.rewrites = thread.rewrites
  BY <1>2, <1>3 DEF Channels
<1> HIDE DEF channels
<1>6. /\ thread' \in Channels /\ thread'.next = "evaluate"
      /\ thread'.chunks = thread.chunks /\ thread'.links = found
      /\ thread'.route = thread.route /\ thread'.rewrites = thread.rewrites
  BY <1>4, <1>5, WritesChannels DEF Nodes
<1>7. Found(thread') = Found(thread)
  BY <1>6 DEF Found
<1>8. /\ thread'.chunks \in Seq(Found(thread')) /\ thread'.links \in Seq(Found(thread'))
      /\ thread'.route = "rag" /\ webSearch
  BY <1>2, <1>3, <1>6, <1>7 DEF Grounded, LastSearch, OnRoute
<1>9. Grounded(thread')
  BY <1>6, <1>8 DEF Grounded, LastSearch, OnRoute, Enough, Bounded
<1>10. QED
  BY <1>4, <1>6, <1>9, NodeWrites DEF HasSlot, Nodes

\* The decision is about what was found; on the way to an answer it is "sufficient".
LEMMA Evaluates ==
  ASSUME IInv, Evidence, NEW r \in Request, Evaluate(r)
  PROVE  Evidence'
<1>1. PICK decision \in Decisions :
        Node(r, "evaluate", NextAfterEvaluation(decision), [thread EXCEPT !.decision = decision])
  BY DEF Evaluate
<1> DEFINE next == NextAfterEvaluation(decision)
           channels == [thread EXCEPT !.decision = decision]
<1>2. thread \in Channels /\ Grounded(thread) /\ thread.next = "evaluate"
  BY <1>1, FindsChannels DEF Node, Nodes
<1>3. decision \in {"sufficient", "rewrite", "refuse"}
  BY DEF Decisions
<1>4. Node(r, "evaluate", next, channels)
  BY <1>1
<1>5. /\ channels \in Channels /\ channels.decision = decision
      /\ channels.chunks = thread.chunks /\ channels.links = thread.links
      /\ channels.route = thread.route /\ channels.rewrites = thread.rewrites
  BY <1>2, <1>3 DEF Channels
<1>6. /\ next \in {"synthesize", "rewrite", "refuse"} /\ next \in Nodes
      /\ next = "synthesize" => decision = "sufficient"
  BY DEF NextAfterEvaluation, Nodes
<1> HIDE DEF channels, next
<1>7. /\ thread' \in Channels /\ thread'.next = next /\ thread'.decision = decision
      /\ thread'.chunks = thread.chunks /\ thread'.links = thread.links
      /\ thread'.route = thread.route /\ thread'.rewrites = thread.rewrites
  BY <1>4, <1>5, <1>6, WritesChannels
<1>8. Found(thread') = Found(thread)
  BY <1>7 DEF Found
<1>9. /\ thread'.chunks \in Seq(Found(thread')) /\ thread'.links \in Seq(Found(thread'))
      /\ thread'.route = "rag" /\ (~webSearch => thread'.links = <<>>)
  BY <1>2, <1>7, <1>8 DEF Grounded, LastSearch, OnRoute, Nodes
<1>10. Grounded(thread')
  BY <1>6, <1>7, <1>9 DEF Grounded, LastSearch, OnRoute, Enough, Bounded
<1>11. QED
  BY <1>4, <1>7, <1>10, NodeWrites DEF HasSlot, Nodes

\* A rewritten question is searched again: what was found before does not count.
LEMMA Rewrites ==
  ASSUME IInv, Evidence, NEW r \in Request, Rewrite(r)
  PROVE  Evidence'
<1> DEFINE channels == [thread EXCEPT !.rewrites = thread.rewrites + 1]
<1>1. Node(r, "rewrite", "retrieve", channels)
  BY DEF Rewrite
<1>2. thread \in Channels /\ Grounded(thread) /\ thread.next = "rewrite"
  BY <1>1, FindsChannels DEF Node, Nodes
<1>3. channels \in Channels /\ channels.links = thread.links /\ channels.route = thread.route
  <2>1. thread.rewrites + 1 \in Nat
    BY <1>2 DEF Channels
  <2>2. QED
    BY <1>2, <2>1 DEF Channels
<1> HIDE DEF channels
<1>4. /\ thread' \in Channels /\ thread'.next = "retrieve"
      /\ thread'.links = thread.links /\ thread'.route = thread.route
  BY <1>1, <1>3, WritesChannels DEF Nodes
<1>5. thread'.route = "rag" /\ (~webSearch => thread'.links = <<>>)
  BY <1>2, <1>4 DEF Grounded, LastSearch, OnRoute, Nodes
<1>6. Grounded(thread')
  BY <1>4, <1>5 DEF Grounded, LastSearch, OnRoute, Enough, Bounded
<1>7. QED
  BY <1>1, <1>4, <1>6, NodeWrites DEF HasSlot, Nodes

\* The first sources are some of the sources, and no more than there may be.
LEMMA Shortened ==
  ASSUME NEW S, NEW n \in Nat, NEW sources \in Seq(S)
  PROVE  UpTo(n, sources) \in Seq(S) /\ Len(UpTo(n, sources)) \in Nat
         /\ Len(UpTo(n, sources)) <= n
         /\ (sources = <<>> => UpTo(n, sources) = <<>>)
<1> DEFINE m == IF n < Len(sources) THEN n ELSE Len(sources)
<1>1. m \in Nat /\ m <= Len(sources) /\ m <= n
  OBVIOUS
<1>2. UpTo(n, sources) = SubSeq(sources, 1, m)
  BY DEF UpTo
<1>3. sources = <<>> => m = 0
  OBVIOUS
<1> HIDE DEF m
<1>4. SubSeq(sources, 1, m) \in Seq(S) /\ Len(SubSeq(sources, 1, m)) = m
  BY <1>1
<1>5. m = 0 => SubSeq(sources, 1, m) = <<>>
  BY <1>4
<1>6. QED
  BY <1>1, <1>2, <1>3, <1>4, <1>5

\* The chunks come before the links, and together they are few enough.
LEMMA Synthesizes ==
  ASSUME IInv, Evidence, NEW r \in Request, Synthesize(r)
  PROVE  Evidence'
<1> DEFINE chunks == UpTo(MaxCitations, thread.chunks)
           links  == UpTo(MaxCitations - Len(chunks), thread.links)
<1>1. PICK answer \in Answers \cup {NoAnswer} :
        Node(r, "synthesize", "validate",
             [thread EXCEPT !.chunks = chunks, !.links = links, !.answer = answer])
  BY DEF Synthesize
<1> DEFINE channels == [thread EXCEPT !.chunks = chunks, !.links = links, !.answer = answer]
<1>2. /\ thread \in Channels /\ Grounded(thread) /\ thread.next = "synthesize"
      /\ MaxCitations \in Nat
  BY <1>1, AgentBoundsAssumption, FindsChannels DEF Node, Nodes
<1>3. thread.chunks \in Seq(Source) /\ thread.links \in Seq(Source)
  BY <1>2 DEF Channels
<1>4. /\ thread.chunks \in Seq(Found(thread)) /\ thread.links \in Seq(Found(thread))
      /\ (~webSearch => thread.links = <<>>)
  BY <1>2 DEF Grounded, LastSearch, Nodes
<1>5. /\ chunks \in Seq(Source) /\ chunks \in Seq(Found(thread))
      /\ Len(chunks) \in Nat /\ Len(chunks) <= MaxCitations
  BY <1>2, <1>3, <1>4, Shortened
<1>6. Node(r, "synthesize", "validate", channels)
  BY <1>1
<1> HIDE DEF chunks
<1>7. MaxCitations - Len(chunks) \in Nat
  BY <1>2, <1>5
<1>8. /\ links \in Seq(Source) /\ links \in Seq(Found(thread))
      /\ Len(links) \in Nat /\ Len(links) <= MaxCitations - Len(chunks)
      /\ (~webSearch => links = <<>>)
  BY <1>3, <1>4, <1>7, Shortened
<1> HIDE DEF links
<1>9. answer \in Answer
  <2>1. NoAnswer \in Answer
    BY DEF NoAnswer, Answer
  <2>2. QED
    BY <2>1, AgentBoundsAssumption
<1>10. /\ channels \in Channels /\ channels.chunks = chunks /\ channels.links = links
       /\ channels.route = thread.route /\ channels.rewrites = thread.rewrites
       /\ channels.decision = thread.decision /\ channels.complete = thread.complete
  BY <1>2, <1>5, <1>8, <1>9 DEF Channels
<1> HIDE DEF channels
<1>11. /\ thread' \in Channels /\ thread'.next = "validate"
       /\ thread'.chunks = chunks /\ thread'.links = links
       /\ thread'.route = thread.route /\ thread'.rewrites = thread.rewrites
       /\ thread'.decision = thread.decision /\ thread'.complete = thread.complete
  BY <1>6, <1>10, WritesChannels DEF Nodes
<1>12. Found(thread') = Found(thread)
  BY <1>11 DEF Found
<1>13. Len(thread'.chunks) + Len(thread'.links) <= MaxCitations
  BY <1>2, <1>5, <1>8, <1>11
<1>14. LastSearch(thread')
  BY <1>5, <1>8, <1>11, <1>12 DEF LastSearch
<1>15. Enough(thread')
  BY <1>2, <1>11 DEF Grounded, Enough
<1>16. Grounded(thread')
  BY <1>11, <1>13, <1>14, <1>15 DEF Grounded, OnRoute, Bounded
<1>17. QED
  BY <1>6, <1>11, <1>16, NodeWrites DEF HasSlot, Nodes

\* What is left after at most one repair has references to sources that exist, or none
\* because it says that it cannot tell.
LEMMA RepairIsStructured ==
  ASSUME NEW candidate \in Answer, NEW repaired \in Answer,
         NEW first \in BOOLEAN, NEW second \in BOOLEAN
  PROVE  LET final == Repaired(candidate, first, repaired, second)
         IN  final \in Answer /\ WellStructured(final, thread.chunks, thread.links)
<1> DEFINE final == Repaired(candidate, first, repaired, second)
<1>1. NoAnswer \in Answer /\ NoAnswer.unsure
  BY DEF NoAnswer, Answer
<1>2. CASE Supported(candidate, first)
  BY <1>2 DEF Repaired, Supported
<1>3. CASE ~Supported(candidate, first) /\ Supported(repaired, second)
  BY <1>3 DEF Repaired, Supported
<1>4. CASE ~Supported(candidate, first) /\ ~Supported(repaired, second)
  <2>1. final = NoAnswer
    BY <1>4 DEF Repaired
  <2> HIDE DEF final
  <2>2. QED
    BY <1>1, <2>1 DEF WellStructured, final
<1>5. QED
  BY <1>2, <1>3, <1>4

\* The sources of the answer are those it cites, in its order, out of those it was given.
LEMMA Validates ==
  ASSUME IInv, Evidence, NEW r \in Request, ValidateAnswer(r)
  PROVE  Evidence'
<1>1. PICK first \in BOOLEAN, second \in BOOLEAN, repaired \in Answers :
        Finish(r, "validate",
               SelectReferencedSources(Repaired(thread.answer, first, repaired, second),
                                       thread.chunks, thread.links))
  BY DEF ValidateAnswer
<1> DEFINE final == Repaired(thread.answer, first, repaired, second)
           result == SelectReferencedSources(final, thread.chunks, thread.links)
           channels == [thread EXCEPT !.answer = result.answer, !.chunks = result.chunks,
                                      !.links = result.links]
<1>2. /\ thread \in Channels /\ Grounded(thread) /\ thread.next = "validate"
      /\ MaxCitations \in Nat
  BY <1>1, AgentBoundsAssumption, FindsChannels DEF Finish, Node, Nodes
<1>3. /\ thread.chunks \in Seq(Source) /\ thread.links \in Seq(Source) /\ thread.answer \in Answer
  BY <1>2 DEF Channels
<1>4. /\ thread.chunks \in Seq(Found(thread)) /\ thread.links \in Seq(Found(thread))
      /\ Len(thread.chunks) + Len(thread.links) <= MaxCitations
  BY <1>2 DEF Grounded, LastSearch, Bounded
<1>5. final \in Answer /\ WellStructured(final, thread.chunks, thread.links)
  BY <1>3, AgentBoundsAssumption, RepairIsStructured
<1> HIDE DEF final
<1>6. /\ GoodSelection(result, final, thread.chunks, thread.links, Source)
      /\ GoodSelection(result, final, thread.chunks, thread.links, Found(thread))
  BY <1>3, <1>4, <1>5, SelectedAreCited
<1>7. Node(r, "validate", "end", channels)
  BY <1>1 DEF final, Finish
<1> HIDE DEF result
<1>8. /\ channels \in Channels /\ channels.chunks = result.chunks
      /\ channels.links = result.links /\ channels.answer = result.answer
      /\ channels.route = thread.route /\ channels.rewrites = thread.rewrites
      /\ channels.decision = thread.decision /\ channels.complete = thread.complete
  <2>1. /\ result.chunks \in Seq(Source) /\ result.links \in Seq(Source)
        /\ result.answer \in Answer
    BY <1>6 DEF GoodSelection
  <2>2. QED
    BY <1>2, <2>1 DEF Channels
<1> HIDE DEF channels
<1>9. /\ thread' \in Channels /\ thread'.next = "end" /\ thread'.chunks = result.chunks
      /\ thread'.links = result.links /\ thread'.answer = result.answer
      /\ thread'.route = thread.route /\ thread'.rewrites = thread.rewrites
      /\ thread'.decision = thread.decision /\ thread'.complete = thread.complete
  BY <1>7, <1>8, WritesChannels
<1>10. Found(thread') = Found(thread)
  BY <1>9 DEF Found
<1>11. LastSearch(thread')
  BY <1>6, <1>9, <1>10 DEF LastSearch, GoodSelection, Nodes
<1>12. Enough(thread')
  BY <1>2, <1>9 DEF Grounded, Enough
<1>13. Bounded(thread')
  <2>1. /\ Len(thread.chunks) \in Nat /\ Len(thread.links) \in Nat
        /\ Len(result.chunks) \in Nat /\ Len(result.links) \in Nat
    BY <1>3, <1>6 DEF GoodSelection
  <2>2. Len(result.chunks) <= Len(thread.chunks) /\ Len(result.links) <= Len(thread.links)
    BY <1>6 DEF GoodSelection
  <2>3. Len(result.chunks) + Len(result.links) <= MaxCitations
    <3>1. \A a, b, c, d \in Nat : a <= b /\ c <= d /\ b + d <= MaxCitations
                                => a + c <= MaxCitations
      BY <1>2
    <3>2. QED
      BY <1>4, <2>1, <2>2, <3>1
  <2>4. QED
    BY <1>6, <1>9, <2>3 DEF Bounded, GoodSelection
<1>14. Grounded(thread')
  BY <1>9, <1>11, <1>12, <1>13 DEF Grounded, OnRoute
<1>15. QED
  BY <1>7, <1>9, <1>14, NodeWrites DEF HasSlot, Nodes

\* A refusal shows no sources.
LEMMA Refuses ==
  ASSUME IInv, Evidence, NEW r \in Request, Refuse(r)
  PROVE  Evidence'
<1> DEFINE channels == [thread EXCEPT !.answer = NoAnswer, !.chunks = <<>>, !.links = <<>>]
<1>1. /\ NoAnswer \in Answer /\ NoAnswer.unsure /\ NoAnswer.refs = <<>>
      /\ \A S : <<>> \in Seq(S) /\ Len(<<>>) = 0
  BY DEF NoAnswer, Answer
<1>2. Node(r, "refuse", "end", channels)
  BY DEF Refuse, Finish
<1>3. /\ channels \in Channels /\ channels.answer = NoAnswer
      /\ channels.chunks = <<>> /\ channels.links = <<>>
  <2>1. thread \in Channels
    BY DEF Evidence
  <2>2. QED
    BY <1>1, <2>1 DEF Channels
<1> HIDE DEF channels
<1>4. /\ thread' \in Channels /\ thread'.next = "end" /\ thread'.answer = NoAnswer
      /\ thread'.chunks = <<>> /\ thread'.links = <<>>
  BY <1>2, <1>3, WritesChannels
<1>5. LastSearch(thread')
  BY <1>1, <1>4 DEF LastSearch, Nodes
<1>6. Enough(thread')
  BY <1>1, <1>4 DEF Enough
<1>7. Bounded(thread')
  <2>1. ProperlyCited(NoAnswer, <<>>, <<>>)
    BY <1>1 DEF ProperlyCited
  <2>2. Len(<<>>) + Len(<<>>) <= MaxCitations
    BY <1>1, AgentBoundsAssumption
  <2>3. QED
    BY <1>4, <2>1, <2>2 DEF Bounded
<1>8. Grounded(thread')
  BY <1>4, <1>5, <1>6, <1>7 DEF Grounded, OnRoute
<1>9. QED
  BY <1>2, <1>4, <1>8, NodeWrites DEF HasSlot, Nodes

\* Before the first request there is no checkpoint, and nobody is in the graph.
LEMMA EvidenceAtFirst == Init => Evidence
<1> SUFFICES ASSUME Init
             PROVE  Evidence
  OBVIOUS
<1>1. /\ thread \in Channels /\ Grounded(thread)
      /\ checkpoint \in Channels /\ Grounded(checkpoint)
  BY InitialGrounded DEF Init
<1>2. \A r \in Request : ~InGraph(r)
  BY DEF Init, InGraph, Nodes
<1>3. QED
  BY <1>1, <1>2 DEF Evidence

\* Nobody is in the graph any more, and memory and store hold what either of them held.
LEMMA AllKept ==
  ASSUME Evidence, thread' \in {thread, checkpoint}, checkpoint' \in {thread, checkpoint},
         webSearch' = webSearch, \A q \in Request : ~InGraph(q)'
  PROVE  Evidence'
<1>1. thread' \in Channels /\ checkpoint' \in Channels
  BY DEF Evidence
<1>2. Grounded(thread)'
  <2>1. thread' = thread \/ thread' = checkpoint
    OBVIOUS
  <2>2. QED
    BY <2>1, KeptChannels DEF Evidence
<1>3. Grounded(checkpoint)'
  <2>1. checkpoint' = thread \/ checkpoint' = checkpoint
    OBVIOUS
  <2>2. QED
    BY <2>1, KeptChannels DEF Evidence
<1>4. QED
  BY <1>1, <1>2, <1>3 DEF Evidence

\* Whoever leaves the graph was alone in it; whoever waits leaves the channels alone.
LEMMA LeavesAside ==
  ASSUME IInv, Evidence, NEW r \in Request, NEW reply, Leave(r, reply)
  PROVE  Evidence'
<1>1. /\ req'[r].pc = "done" /\ \A q \in Request \ {r} : req'[q] = req[q]
      /\ webSearch' = webSearch
  BY DEF IInv, ControlType, Leave, LeaveWith
<1>2. CASE InGraph(r)
  <2>1. checkpoint' \in {thread, checkpoint} /\ thread' = checkpoint'
    BY <1>2 DEF Leave, LeaveWith
  <2>2. \A q \in Request : ~InGraph(q)'
    BY <1>1, <1>2 DEF IInv, OneDriver, Drives, InGraph, HasLock, HasSlot, Nodes
  <2>3. QED
    BY <1>1, <2>1, <2>2, AllKept
<1>3. CASE ~InGraph(r)
  <2>1. thread' = thread /\ checkpoint' = checkpoint
    BY <1>3 DEF Leave, LeaveWith
  <2>2. QED
    BY <1>1, <2>1, StepsAside DEF Nodes
<1>4. QED
  BY <1>2, <1>3

\* Every step keeps it.
LEMMA NextKeepsEvidence == IInv /\ Evidence /\ [Next]_vars => Evidence'
<1> SUFFICES ASSUME IInv, Evidence, [Next]_vars
             PROVE  Evidence'
  OBVIOUS
<1>1. ASSUME NEW r \in Request, Proceeds(r)
      PROVE  Evidence'
  <2>1. CASE Acquire(r) \/ TakeSlot(r)
    <3>1. /\ req'[r].pc \in {"slot", "credentials"} /\ \A q \in Request \ {r} : req'[q] = req[q]
          /\ thread' = thread /\ checkpoint' = checkpoint /\ webSearch' = webSearch
      BY <2>1 DEF IInv, ControlType, Acquire, TakeSlot, Goto
    <3>2. QED
      BY <3>1, StepsAside DEF Nodes
  <2>2. CASE GraphStep(r)
    BY <2>2, KnowledgeToolsRun, Starts, RoutesTheQuestion, Retrieves, WebSearches, Evaluates,
       Rewrites, Synthesizes, Validates, Refuses DEF GraphStep
  <2>3. CASE CallFails(r) \/ Deliver(r)
    BY <2>3, LeavesAside DEF CallFails, Deliver
  <2>4. QED
    BY <1>1, <2>1, <2>2, <2>3 DEF Proceeds
<1>2. ASSUME NEW r \in Request, TimesOut(r) \/ CloseStream(r)
      PROVE  Evidence'
  BY <1>2, LeavesAside DEF TimesOut, CloseStream
<1>3. ASSUME NEW r \in Request, ClientLeaves(r)
      PROVE  Evidence'
  <2>1. /\ \A q \in Request : req'[q].pc = req[q].pc
        /\ thread' = thread /\ checkpoint' = checkpoint /\ webSearch' = webSearch
    BY <1>3 DEF IInv, ControlType, ClientLeaves
  <2>2. QED
    BY <2>1, StepsAside
<1>4. ASSUME NEW r \in Request, NEW stream \in BOOLEAN, Submit(r, stream)
      PROVE  Evidence'
  <2>1. /\ req'[r].pc = "lock" /\ \A q \in Request \ {r} : req'[q] = req[q]
        /\ thread' = thread /\ checkpoint' = checkpoint /\ webSearch' = webSearch
    BY <1>4 DEF IInv, ControlType, Submit
  <2>2. QED
    BY <2>1, StepsAside DEF Nodes
<1>5. CASE OtherTakesSlot \/ OtherEnds \/ UNCHANGED vars
  BY <1>5, StepsAside DEF OtherTakesSlot, OtherEnds, vars
<1>6. CASE Crash
  <2>1. \A q \in Request : ~InGraph(q)'
    BY <1>6 DEF IInv, ControlType, Crash, Active, InGraph, Nodes
  <2>2. thread' = checkpoint /\ checkpoint' = checkpoint /\ webSearch' = webSearch
    BY <1>6 DEF Crash
  <2>3. QED
    BY <2>1, <2>2, AllKept
<1>7. CASE CleanupCompletedCheckpoint
  <2>1. thread' = NoCheckpoint /\ checkpoint' = NoCheckpoint /\ webSearch' = webSearch
    BY <1>7 DEF CleanupCompletedCheckpoint
  <2>2. IInv' /\ cleaned'
    BY <1>7, Cleans DEF CleanupCompletedCheckpoint
  <2>3. \A q \in Request : ~InGraph(q)'
    BY <2>2 DEF IInv, Cleaned, Active, InGraph, Nodes
  <2>4. Grounded(thread)' /\ Grounded(checkpoint)'
    BY <2>1, InitialGrounded, KeptChannels
  <2>5. QED
    BY <2>1, <2>3, <2>4, InitialGrounded DEF Evidence
<1>8. QED
  BY <1>1, <1>2, <1>3, <1>4, <1>5, <1>6, <1>7 DEF Next

-----------------------------------------------------------------------------
\* The two are kept together: a run is taken up at a node, which the order of the lock
\* needs, and only one request writes channels.
LEMMA BothHold == Spec => [](IInv /\ Evidence)
  BY InitHolds, NextKeepsInv, EvidenceAtFirst, NextKeepsEvidence, PTL DEF Spec

\* The requests of a run queue at one lock in the order of sending, and a cleaned run has
\* nobody in the agent (_lock_for, the fair asyncio.Lock, completeRun).
THEOREM Invariance == Spec => []IInv
  BY BothHold, PTL

\* At most one request of a run is past its lock, for any number of requests, slots and
\* restarts (`async with self._lock_for(request)`).
THEOREM SingleDriver == Spec => []OneDriver
  <1>1. IInv => OneDriver
    BY DEF IInv
  <1> QED BY <1>1, Invariance, PTL

\* The checkpoint of a completed run stays removed
\* (cleanup_completed_checkpoint, called by completeRun).
THEOREM NoCheckpointAfterCleanup == Spec => []CleanedStaysClean
  <1>1. IInv => CleanedStaysClean
    BY DEF IInv, Cleaned, CleanedStaysClean
  <1> QED BY <1>1, Invariance, PTL

\* Whatever node a run is taken up at, after however many crashes, failures and requests,
\* its channels hold what that node needs: what was found, chosen and cited so far, in memory
\* and in the store (graph.py, with LangGraph's resumption by run_id).
THEOREM EvidenceInvariance == Spec => []Evidence
  BY BothHold, PTL

\* What a request returns is properly cited within max_citations, or is no answer
\* (_synthesize, _validate_answer, select_referenced_sources), also when it only hands out
\* what an earlier request of the run has left finished in the checkpoint.
THEOREM AnswersAreWellCited == Spec => []WellCited
<1>1. ASSUME Evidence, NEW r \in Request, At(r, "end")
      PROVE  Grounded(thread) /\ thread.next = "end"
  BY <1>1 DEF Evidence, At, InGraph
<1>2. Evidence => WellCited
  BY <1>1 DEF Grounded, Bounded, WellCited
<1>3. QED
  BY <1>2, EvidenceInvariance, PTL

\* An answer rests on one route and its last round of searching, found sufficient or
\* complete, however often the run was cut off and taken up again from its checkpoint
\* (_run_config, _retrieve, _web_search, _evaluate, _next_after_knowledge_tool).
THEOREM AnswersRestOnLastSearch == Spec => []RestsOnLastSearch
<1>1. ASSUME Evidence, NEW r \in Request, At(r, "end"), ~thread.answer.unsure
      PROVE  /\ \A s \in ToSet(thread.chunks \o thread.links) :
                  s.route = thread.route /\ s.call = thread.rewrites
             /\ thread.route = "rag" => thread.decision = "sufficient"
             /\ thread.route = "overview" => thread.complete
  <2>1. Grounded(thread) /\ thread.next = "end"
    BY <1>1 DEF Evidence, At, InGraph
  <2>2. thread.chunks \in Seq(Found(thread)) /\ thread.links \in Seq(Found(thread))
    BY <2>1 DEF Grounded, LastSearch
  <2>3. thread.chunks \o thread.links \in Seq(Found(thread))
    BY <2>2
  <2>4. ASSUME NEW s \in ToSet(thread.chunks \o thread.links)
        PROVE  s.route = thread.route /\ s.call = thread.rewrites
    <3>1. s \in Found(thread)
      <4> DEFINE all == thread.chunks \o thread.links
      <4>1. all \in Seq(Found(thread)) /\ s \in ToSet(all)
        BY <2>3
      <4> HIDE DEF all
      <4>2. QED
        BY <4>1 DEF ToSet
    <3>2. QED
      BY <3>1 DEF Found
  <2>5. QED
    BY <1>1, <2>1, <2>4 DEF Grounded, Enough
<1>2. Evidence => RestsOnLastSearch
  BY <1>1 DEF RestsOnLastSearch
<1>3. QED
  BY <1>2, EvidenceInvariance, PTL
=============================================================================
