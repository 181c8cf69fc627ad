-------------------------- MODULE Workspace_proofs --------------------------
(***************************************************************************)
(* What Workspace promises for any number of requests, users, knowledge     *)
(* bases, sessions and connections: unique names, whole changes, quiet      *)
(* deleted sessions and reads that miss nothing.  All of it rests on what a *)
(* transaction may rely on between its write and its commit (Pending), and  *)
(* that on the locks it holds (Locked).                                     *)
(***************************************************************************)
EXTENDS Workspace, TLAPS

\* Only a transaction that has written holds locks, no two the same, and with them the
\* name or the session it is about.
Locked ==
  /\ \A r \in Request : req[r].locks # {} => req[r].pc = "commit"
  /\ \A r \in Request : At(r, "register", "commit") => On(r) \in req[r].locks
  /\ \A r \in Request : At(r, "saveTurn", "commit") => SessionOf[On(r)] \in req[r].locks
  /\ \A q, r \in Request : q # r => req[q].locks \cap req[r].locks = {}

\* What a transaction has found when it wrote still holds when it commits.
Pending ==
  \A r \in Request :
    /\ At(r, "register", "commit") => ~Known(On(r))
    /\ At(r, "saveTurn", "commit") => sessions[SessionOf[On(r)]] = "live"

\* Rows that belong together are there together, and no two have one name.
Whole ==
  /\ tenants = {user.id : user \in users}
  /\ documents = {base.id : base \in bases}
  /\ NamesAreUnique

\* A request that is about to answer has done what it says.
Promised == \A r \in Request : req[r].pc \in {"status", "reply", "ok"} => Done(r)

\* What was acknowledged when a request began stays acknowledged.
Before == \A r \in Request : req[r].after \subseteq Acknowledged

\* What a request has read so far has what was acknowledged before it began.
Read(r) ==
  /\ At(r, "list", "rows") \/ At(r, "list", "reply") \/ At(r, "list", "ok") =>
       \A q \in req[r].after :
         /\ op[q].kind = "createSession" /\ sessions[On(q)] = "live" => On(q) \in req[r].listed
         /\ op[q].kind = "saveTurn" /\ SessionOf[On(q)] \in req[r].listed \ req[r].rest =>
              On(q) \in req[r].messages
  /\ At(r, "list", "reply") \/ At(r, "list", "ok") => req[r].rest = {}
  /\ At(r, "resolveKey", "reply") \/ At(r, "resolveKey", "ok") =>
       \A q \in req[r].after : op[q].kind = "saveKey" => req[r].found # Base

Reads == \A r \in Request : Read(r)

IInv == TypeOK /\ Locked /\ Pending /\ Whole /\ Promised /\ Before /\ Reads

\* What the requests are, apart from what is stored.
Progress == [pc : Places, conns : {0, 1}, locks : SUBSET Subject, rest : SUBSET Session,
             listed : SUBSET Session, messages : SUBSET Message,
             found : Request \cup {Base}, after : SUBSET Request]

DataOK ==
  /\ op \in Workloads
  /\ users \subseteq [id : Request, name : UserName] /\ tenants \subseteq Request
  /\ password \in Request \cup {Base} /\ key \in Request \cup {Base}
  /\ bases \subseteq [id : Request \cup {Base}, name : BaseName]
  /\ documents \subseteq Request \cup {Base} /\ vectors \subseteq {Base}
  /\ sessions \in [Session -> {"none", "live", "deleted"}]
  /\ turns \in [Message -> SUBSET Request]

\* The type invariant in these two parts.
LEMMA Types == TypeOK <=> DataOK /\ req \in [Request -> Progress]
  BY DEF TypeOK, DataOK, Progress

-----------------------------------------------------------------------------
\* The first state: nobody has begun, and there is one knowledge base.
LEMMA InitHolds == Init => IInv
  <1> SUFFICES ASSUME Init PROVE IInv
    OBVIOUS
  <1> USE WorkspaceAssumption DEF At
  <1>1. \A r \in Request : req[r] = Fresh
    BY DEF Init
  <1>2. TypeOK
    <2>1. Fresh \in [pc : Places, conns : {0, 1}, locks : SUBSET Subject, rest : SUBSET Session,
                     listed : SUBSET Session, messages : SUBSET Message,
                     found : Request \cup {Base}, after : SUBSET Request]
      BY DEF Fresh, Places
    <2>2. sessions \in [Session -> {"none", "live", "deleted"}]
      BY DEF Init
    <2> QED BY <2>1, <2>2 DEF Init, TypeOK
  <1>3. Locked /\ Pending /\ Promised /\ Before /\ Reads
    BY <1>1 DEF Locked, Pending, Promised, Before, Reads, Read, Fresh
  <1>4. Whole
    BY DEF Init, Whole, NamesAreUnique, OneEach
  <1> QED BY <1>2, <1>3, <1>4 DEF IInv

\* A request that is about something is about something of its kind.
LEMMA Subjects ==
  ASSUME TypeOK, NEW r \in Request
  PROVE  /\ op[r].kind \in Kinds /\ On(r) \in Subject
         /\ op[r].kind \in {"register", "login"} => On(r) \in UserName
         /\ op[r].kind \in {"createBase", "rename"} => On(r) \in BaseName
         /\ op[r].kind \in {"createSession", "retitle", "deleteSession"} => On(r) \in Session
         /\ op[r].kind = "saveTurn" => On(r) \in Message /\ SessionOf[On(r)] \in Session
  <1>1. op \in [Request -> [kind : Kinds, on : Subject]] /\ op[r].on \in SubjectOf(op[r].kind)
    BY WorkspaceAssumption DEF TypeOK
  <1> QED BY <1>1, WorkspaceAssumption DEF On, SubjectOf

\* One request goes on, the others stay where they are.
Alone(r) ==
  /\ req' \in [Request -> Progress]
  /\ \A q \in Request \ {r} : req'[q] = req[q]

\* A request's record is replaced by another.
LEMMA Becoming ==
  ASSUME req \in [Request -> Progress], NEW r \in Request, NEW new \in Progress,
         req' = [req EXCEPT ![r] = new]
  PROVE  Alone(r) /\ req'[r] = new
  BY DEF Alone

\* Goes changes the step and nothing else.
LEMMA Going ==
  ASSUME req \in [Request -> Progress], NEW r \in Request, NEW step \in Places, Goes(r, step)
  PROVE  /\ Alone(r) /\ req'[r].pc = step
         /\ req'[r].locks = req[r].locks /\ req'[r].rest = req[r].rest
         /\ req'[r].listed = req[r].listed /\ req'[r].messages = req[r].messages
         /\ req'[r].found = req[r].found /\ req'[r].after = req[r].after
  BY DEF Goes, Alone, Progress

\* Leaves changes the step and gives connection and locks back.
LEMMA Leaving ==
  ASSUME req \in [Request -> Progress], NEW r \in Request, NEW step \in Places, Leaves(r, step)
  PROVE  /\ Alone(r) /\ req'[r].pc = step /\ req'[r].locks = {}
         /\ req'[r].rest = req[r].rest
         /\ req'[r].listed = req[r].listed /\ req'[r].messages = req[r].messages
         /\ req'[r].found = req[r].found /\ req'[r].after = req[r].after
  <1> DEFINE new == [req[r] EXCEPT !.pc = step, !.conns = 0, !.locks = {}]
  <1>1. /\ new \in Progress
        /\ new.pc = step /\ new.locks = {} /\ new.rest = req[r].rest
        /\ new.listed = req[r].listed /\ new.messages = req[r].messages
        /\ new.found = req[r].found /\ new.after = req[r].after
    <2>1. req[r] \in Progress
      OBVIOUS
    <2>2. new \in Progress
      BY <2>1 DEF Progress
    <2>3. /\ new.pc = step /\ new.locks = {}
          /\ new.rest = req[r].rest /\ new.listed = req[r].listed
          /\ new.messages = req[r].messages
          /\ new.found = req[r].found /\ new.after = req[r].after
      BY <2>1 DEF Progress
    <2> QED BY <2>2, <2>3
  <1>2. req' = [req EXCEPT ![r] = new]
    BY DEF Leaves
  <1> HIDE DEF new
  <1> QED BY <1>1, <1>2, Becoming

\* Keeps changes the step and takes the locks of what is touched.
LEMMA Keeping ==
  ASSUME req \in [Request -> Progress], NEW r \in Request, NEW step \in Places, Keeps(r, step),
         Touched(r) \subseteq Subject
  PROVE  /\ Alone(r) /\ req'[r].pc = step /\ req'[r].locks = Touched(r)
         /\ req'[r].rest = req[r].rest
         /\ req'[r].listed = req[r].listed /\ req'[r].messages = req[r].messages
         /\ req'[r].found = req[r].found /\ req'[r].after = req[r].after
  <1> DEFINE new == [req[r] EXCEPT !.pc = step, !.locks = Touched(r)]
  <1>1. /\ new \in Progress
        /\ new.pc = step /\ new.locks = Touched(r) /\ new.rest = req[r].rest
        /\ new.listed = req[r].listed /\ new.messages = req[r].messages
        /\ new.found = req[r].found /\ new.after = req[r].after
    <2>1. req[r] \in Progress
      OBVIOUS
    <2>2. new \in Progress
      BY <2>1 DEF Progress
    <2>3. /\ new.pc = step /\ new.locks = Touched(r)
          /\ new.rest = req[r].rest /\ new.listed = req[r].listed
          /\ new.messages = req[r].messages
          /\ new.found = req[r].found /\ new.after = req[r].after
      BY <2>1 DEF Progress
    <2> QED BY <2>2, <2>3
  <1>2. req' = [req EXCEPT ![r] = new]
    BY DEF Keeps
  <1> HIDE DEF new
  <1> QED BY <1>1, <1>2, Becoming

-----------------------------------------------------------------------------
\* Most steps change nothing that is stored and end with no lock.
Quiet(r) ==
  /\ Alone(r) /\ UNCHANGED <<op, accounts, library, chats>>
  /\ req[r].pc # "ok"
  /\ req'[r].pc # "commit" /\ req'[r].locks = {}
  /\ req'[r].pc \in {"status", "reply", "ok"} => Done(r)
  /\ req'[r].after \subseteq Acknowledged
  /\ Read(r)'

\* What concerns the other requests, and what was acknowledged, stays.
LEMMA QuietKeeps ==
  ASSUME IInv, NEW r \in Request, Quiet(r)
  PROVE  IInv'
  <1> USE DEF Quiet, Alone, At, On, Known
  <1>1. TypeOK'
    <2>1. DataOK
      BY Types DEF IInv
    <2>2. DataOK'
      BY <2>1 DEF DataOK, accounts, library, chats
    <2> QED BY <2>2 DEF TypeOK, DataOK, Progress
  <1>2. Locked'
    BY DEF IInv, Locked
  <1>3. Pending'
    BY DEF IInv, Pending, accounts, chats
  <1>4. Whole'
    BY DEF IInv, Whole, NamesAreUnique, OneEach, accounts, library
  <1>5. \A q \in Request : Done(q)' <=> Done(q)
    BY DEF Done, Live, accounts, library, chats
  <1>6. Promised'
    BY <1>5 DEF IInv, Promised
  <1>7. Acknowledged \subseteq Acknowledged'
    BY DEF Acknowledged
  <1>8. Before'
    BY <1>7 DEF IInv, Before
  <1>9. Reads'
    BY DEF IInv, Reads, Read, accounts, library, chats
  <1> QED BY <1>1, <1>2, <1>3, <1>4, <1>6, <1>8, <1>9 DEF IInv

\* A request that does not read a list, nor a key, has nothing to show for Read.
LEMMA NoReader ==
  ASSUME NEW r \in Request, op' = op, op[r].kind \notin {"list", "resolveKey"}
         \/ req'[r].pc \notin {"rows", "reply", "ok"}
  PROVE  Read(r)'
  BY DEF Read, At

\* Steps that only lead on.
LEMMA LeadingOn ==
  ASSUME IInv, NEW r \in Request, NEW step \in Places, Goes(r, step) \/ Leaves(r, step),
         UNCHANGED <<op, accounts, library, chats>>,
         req[r].pc # "ok", req[r].pc # "commit" \/ Leaves(r, step), step # "commit",
         step \in {"status", "reply", "ok"} => Done(r), Read(r)'
  PROVE  IInv'
  <1>1. req \in [Request -> Progress]
    BY Types DEF IInv
  <1>2. Alone(r) /\ req'[r].pc = step /\ req'[r].after = req[r].after
    BY <1>1, Going, Leaving
  <1>3. req'[r].locks = {}
    <2>1. CASE Leaves(r, step)
      BY <1>1, <2>1, Leaving
    <2>2. CASE Goes(r, step) /\ req[r].pc # "commit"
      BY <1>1, <2>2, Going DEF IInv, Locked
    <2> QED BY <2>1, <2>2
  <1>4. req[r].after \subseteq Acknowledged
    BY DEF IInv, Before
  <1>5. Quiet(r)
    BY <1>2, <1>3, <1>4 DEF Quiet
  <1> QED BY <1>5, QuietKeeps

\* The steps that read, wait for another service or lead to the next statement.
LEMMA LeadingSteps ==
  ASSUME IInv, NEW r \in Request,
         \/ Reply(r) \/ Abort(r) \/ FindByUsername(r) \/ InsertTenant(r) \/ Login(r)
         \/ ComparePassword(r) \/ ValidateAPIKey(r) \/ ReadStatus(r) \/ FindUser(r)
         \/ ReadAgain(r) \/ FindBase(r) \/ Retitle(r) \/ CloseRows(r)
  PROVE  IInv'
  <1> USE DEF At, Places
  <1>1. CASE Reply(r)
    <2>1. Done(r)
      BY <1>1 DEF Reply, IInv, Promised
    <2>2. Read(r)'
      <3>1. /\ op' = op /\ sessions' = sessions /\ req'[r].pc = "ok" /\ req[r].pc = "reply"
            /\ req'[r].rest = req[r].rest /\ req'[r].listed = req[r].listed
            /\ req'[r].messages = req[r].messages /\ req'[r].found = req[r].found
            /\ req'[r].after = req[r].after
        BY <1>1, Types, Going DEF Reply, IInv, chats
      <3>2. Read(r)
        BY DEF IInv, Reads
      <3> QED BY <3>1, <3>2 DEF Read, On
    <2> QED BY <1>1, <2>1, <2>2, LeadingOn DEF Reply
  <1>2. CASE Abort(r)
    <2>1. req'[r].pc = "failed"
      BY <1>2, Types, Leaving DEF Abort, IInv
    <2>2. Read(r)'
      BY <1>2, <2>1, NoReader DEF Abort
    <2> QED BY <1>2, <2>2, LeadingOn DEF Abort, Active, Over
  <1>3. CASE CloseRows(r)
    <2>1. Done(r)
      BY <1>3 DEF CloseRows, Done
    <2>2. Read(r)'
      <3>1. /\ op' = op /\ sessions' = sessions /\ req'[r].pc = "reply" /\ req[r].pc = "rows"
            /\ req'[r].rest = {} /\ req[r].rest = {} /\ req'[r].listed = req[r].listed
            /\ req'[r].messages = req[r].messages
            /\ req'[r].after = req[r].after /\ op[r].kind = "list"
        BY <1>3, Types, Leaving DEF CloseRows, IInv, chats
      <3>2. Read(r)
        BY DEF IInv, Reads
      <3> QED BY <3>1, <3>2 DEF Read, On
    <2> QED BY <1>3, <2>1, <2>2, LeadingOn DEF CloseRows
  <1>4. CASE FindByUsername(r)
    <2>1. Read(r)'
      BY <1>4, NoReader DEF FindByUsername
    <2> QED BY <1>4, <2>1, LeadingOn DEF FindByUsername, Done
  <1>5. CASE InsertTenant(r)
    <2>1. Read(r)'
      BY <1>5, NoReader DEF InsertTenant
    <2> QED BY <1>5, <2>1, LeadingOn DEF InsertTenant, Done
  <1>6. CASE Login(r)
    <2>1. Read(r)'
      BY <1>6, NoReader DEF Login
    <2> QED BY <1>6, <2>1, LeadingOn DEF Login, Done
  <1>7. CASE ComparePassword(r)
    <2>1. Read(r)'
      BY <1>7, NoReader DEF ComparePassword
    <2> QED BY <1>7, <2>1, LeadingOn DEF ComparePassword, Done
  <1>8. CASE ValidateAPIKey(r)
    <2>1. Read(r)'
      BY <1>8, NoReader DEF ValidateAPIKey
    <2> QED BY <1>8, <2>1, LeadingOn DEF ValidateAPIKey, Done
  <1>9. CASE ReadStatus(r)
    <2>1. Read(r)'
      BY <1>9, NoReader DEF ReadStatus
    <2> QED BY <1>9, <2>1, LeadingOn DEF ReadStatus, Done, IInv, Promised
  <1>10. CASE FindUser(r)
    <2>1. req'[r].pc = "resolve"
      BY <1>10, Types, Going DEF FindUser, IInv
    <2>2. Read(r)'
      BY <1>10, <2>1, NoReader DEF FindUser
    <2> QED BY <1>10, <2>2, LeadingOn DEF FindUser
  <1>11. CASE ReadAgain(r)
    <2>1. Read(r)'
      BY <1>11, NoReader DEF ReadAgain
    <2> QED BY <1>11, <2>1, LeadingOn DEF ReadAgain, Done
  <1>12. CASE FindBase(r)
    <2>1. Read(r)'
      BY <1>12, NoReader DEF FindBase
    <2> QED BY <1>12, <2>1, LeadingOn DEF FindBase, Done
  <1>13. CASE Retitle(r)
    <2>1. Read(r)'
      BY <1>13, NoReader DEF Retitle, Writing
    <2> QED BY <1>13, <2>1, LeadingOn DEF Retitle, Writing, Done
  <1> QED BY <1>1, <1>2, <1>3, <1>4, <1>5, <1>6, <1>7, <1>8, <1>9, <1>10, <1>11, <1>12, <1>13

\* Steps that note what they have read, or take a connection.
LEMMA NotingSteps ==
  ASSUME IInv, NEW r \in Request,
         Start(r) \/ Take(r) \/ ResolveAPIKey(r) \/ QuerySessions(r) \/ ReadMessages(r)
  PROVE  IInv'
  <1> USE DEF At, Places
  <1>1. req \in [Request -> Progress]
    BY Types DEF IInv
  <1>2. Read(r) /\ req[r].after \subseteq Acknowledged /\ (req[r].locks # {} => req[r].pc = "commit")
    BY DEF IInv, Reads, Before, Locked
  <1>3. CASE Start(r)
    <2> DEFINE new == [req[r] EXCEPT !.pc = FirstStep(r), !.after = Acknowledged]
    <2>1. FirstStep(r) \in {"take", "begin", "new"}
      BY DEF FirstStep
    <2>2. Acknowledged \in SUBSET Request
      BY DEF Acknowledged
    <2>3. new \in Progress /\ new.pc = FirstStep(r) /\ new.after = Acknowledged
          /\ new.locks = req[r].locks
      <3>1. req[r] \in Progress
        BY <1>1
      <3>2. new \in Progress
        BY <3>1, <2>1, <2>2 DEF Progress
      <3>3. new.pc = FirstStep(r) /\ new.after = Acknowledged
            /\ new.locks = req[r].locks
        BY <3>1 DEF Progress
      <3> QED BY <3>2, <3>3
    <2>4. Alone(r) /\ req'[r] = new
      BY <1>1, <1>3, <2>3, Becoming DEF Start
    <2> HIDE DEF new
    <2>5. Read(r)'
      BY <1>3, <2>1, <2>3, <2>4, NoReader DEF Start
    <2> QED BY <1>2, <1>3, <2>1, <2>3, <2>4, <2>5, QuietKeeps DEF Quiet, Start
  <1>4. CASE Take(r)
    <2> DEFINE next == IF op[r].kind = "register" THEN "tenant" ELSE "write"
               new  == [req[r] EXCEPT !.pc = next, !.conns = 1]
    <2>1. new \in Progress /\ new.pc \in {"tenant", "write"} /\ new.after = req[r].after
          /\ new.locks = req[r].locks
      <3>1. req[r] \in Progress
        BY <1>1
      <3>2. new \in Progress
        BY <3>1 DEF Progress
      <3>3. new.pc \in {"tenant", "write"} /\ new.after = req[r].after
            /\ new.locks = req[r].locks
        BY <3>1 DEF Progress
      <3> QED BY <3>2, <3>3
    <2>2. Alone(r) /\ req'[r] = new
      BY <1>1, <1>4, <2>1, Becoming DEF Take
    <2> HIDE DEF new
    <2>3. Read(r)'
      BY <1>4, <2>1, <2>2, NoReader DEF Take
    <2> QED BY <1>2, <1>4, <2>1, <2>2, <2>3, QuietKeeps DEF Quiet, Take
  <1>5. CASE ResolveAPIKey(r)
    <2> DEFINE new == [req[r] EXCEPT !.pc = "reply", !.found = key]
    <2>1. key \in Request \cup {Base}
      BY DEF IInv, TypeOK
    <2>2. new \in Progress /\ new.pc = "reply" /\ new.after = req[r].after
          /\ new.locks = req[r].locks /\ new.found = key
      <3>1. req[r] \in Progress
        BY <1>1
      <3>2. new \in Progress
        BY <3>1, <2>1 DEF Progress
      <3>3. new.pc = "reply" /\ new.after = req[r].after
            /\ new.locks = req[r].locks /\ new.found = key
        BY <3>1 DEF Progress
      <3> QED BY <3>2, <3>3
    <2>3. Alone(r) /\ req'[r] = new
      BY <1>1, <1>5, <2>2, Becoming DEF ResolveAPIKey
    <2> HIDE DEF new
    <2>4. \A q \in req[r].after : op[q].kind = "saveKey" => key # Base
      BY <1>2 DEF IInv, Promised, Acknowledged, Done
    <2>5. Read(r)'
      BY <1>5, <2>2, <2>3, <2>4 DEF ResolveAPIKey, Read
    <2>6. Done(r)
      BY <1>5 DEF ResolveAPIKey, Done
    <2> QED BY <1>2, <1>5, <2>2, <2>3, <2>5, <2>6, QuietKeeps DEF Quiet, ResolveAPIKey
  <1>6. CASE QuerySessions(r)
    <2> DEFINE there == {x \in Session : sessions[x] = "live"}
               new == [req[r] EXCEPT !.pc = "rows", !.conns = 1, !.rest = there, !.listed = there]
    <2>1. new \in Progress /\ new.pc = "rows" /\ new.after = req[r].after
          /\ new.locks = req[r].locks /\ new.listed = there /\ new.rest = there
      <3>1. there \in SUBSET Session /\ req[r] \in Progress
        BY <1>1
      <3>2. new.listed = there /\ new.rest = there /\ new.pc = "rows" /\ new.after = req[r].after
            /\ new.locks = req[r].locks
        BY <3>1 DEF Progress
      <3> HIDE DEF there
      <3>3. new \in Progress
        BY <3>1 DEF Progress
      <3> QED BY <3>2, <3>3
    <2>2. Alone(r) /\ req'[r] = new
      BY <1>1, <1>6, <2>1, Becoming DEF QuerySessions
    <2> HIDE DEF new
    <2>3. Read(r)'
      <3>1. op' = op /\ sessions' = sessions
        BY <1>6 DEF QuerySessions, chats
      <3>2. \A q \in req[r].after : op[q].kind = "createSession" => On(q) \in Session
        BY <1>2, Subjects DEF IInv, Acknowledged
      <3> QED BY <1>6, <2>1, <2>2, <3>1, <3>2 DEF QuerySessions, Read, On
    <2> QED BY <1>2, <1>6, <2>1, <2>2, <2>3, QuietKeeps DEF Quiet, QuerySessions
  <1>7. CASE ReadMessages(r)
    <2>1. PICK x \in req[r].rest :
            req' = [req EXCEPT ![r] = [req[r] EXCEPT !.rest = req[r].rest \ {x},
                                             !.messages = req[r].messages \cup TurnsOf(x)]]
      BY <1>7 DEF ReadMessages
    <2> DEFINE new == [req[r] EXCEPT !.rest = req[r].rest \ {x},
                                             !.messages = req[r].messages \cup TurnsOf(x)]
    <2>2. new \in Progress /\ new.pc = req[r].pc /\ new.after = req[r].after
          /\ new.locks = req[r].locks /\ new.listed = req[r].listed
          /\ new.rest = req[r].rest \ {x} /\ new.messages = req[r].messages \cup TurnsOf(x)
      <3>1. TurnsOf(x) \in SUBSET Message /\ req[r] \in Progress
        BY <1>1 DEF TurnsOf
      <3>2. new \in Progress
        BY <3>1 DEF Progress
      <3>3. new.pc = req[r].pc /\ new.after = req[r].after
            /\ new.locks = req[r].locks /\ new.listed = req[r].listed
            /\ new.rest = req[r].rest \ {x} /\ new.messages = req[r].messages \cup TurnsOf(x)
        BY <3>1 DEF Progress
      <3> QED BY <3>2, <3>3
    <2>3. Alone(r) /\ req'[r] = new
      BY <1>1, <2>1, <2>2, Becoming
    <2> HIDE DEF new
    <2>4. \A q \in req[r].after : op[q].kind = "saveTurn" => On(q) \in Message /\ turns[On(q)] # {}
      BY <1>2, Subjects DEF IInv, Acknowledged, Promised, Done
    <2>5. Read(r)'
      <3>1. op' = op /\ sessions' = sessions
        BY <1>7 DEF ReadMessages, chats
      <3> QED BY <1>2, <1>7, <2>2, <2>3, <2>4, <3>1 DEF ReadMessages, Read, On, TurnsOf
    <2> QED BY <1>2, <1>7, <2>2, <2>3, <2>5, QuietKeeps DEF Quiet, ReadMessages
  <1> QED BY <1>3, <1>4, <1>5, <1>6, <1>7

-----------------------------------------------------------------------------
\* A write in a transaction takes locks that nobody holds and changes nothing yet.
LEMMA Locking ==
  ASSUME IInv, NEW r \in Request, NEW kind, Writing(r, kind), Keeps(r, "commit"),
         UNCHANGED <<op, accounts, library, chats>>,
         op[r].kind \notin {"list", "resolveKey"},
         op[r].kind = "register" => ~Known(On(r)),
         op[r].kind = "saveTurn" => sessions[SessionOf[On(r)]] = "live"
  PROVE  IInv'
  <1>1. req \in [Request -> Progress] /\ DataOK
    BY Types DEF IInv
  <1>2. Touched(r) \subseteq Subject
    <2>1. \A base \in bases : base.name \in BaseName
      BY <1>1 DEF DataOK
    <2> QED BY <2>1, Subjects DEF Touched, IInv, Subject
  <1>3. /\ Alone(r) /\ req'[r].pc = "commit" /\ req'[r].locks = Touched(r)
        /\ req'[r].after = req[r].after
    BY <1>1, <1>2, Keeping DEF Places
  <1>4. TypeOK'
    <2>1. DataOK'
      BY <1>1 DEF DataOK, accounts, library, chats
    <2> QED BY <1>3, <2>1 DEF TypeOK, DataOK, Progress, Alone
  <1>5. Locked'
    <2> USE <1>3 DEF Alone
    <2>1. (\A q \in Request : req[q].locks # {} => req[q].pc = "commit")'
      BY DEF IInv, Locked
    <2>2. (\A q \in Request : At(q, "register", "commit") => On(q) \in req[q].locks)'
      BY DEF IInv, Locked, At, On, Touched
    <2>3. (\A q \in Request : At(q, "saveTurn", "commit") => SessionOf[On(q)] \in req[q].locks)'
      BY DEF IInv, Locked, At, On, Touched
    <2>4. \A q \in Request \ {r} : Touched(r) \cap req[q].locks = {}
      BY DEF Writing
    <2>5. (\A p, q \in Request : p # q => req[p].locks \cap req[q].locks = {})'
      BY <2>4 DEF IInv, Locked
    <2> QED BY <2>1, <2>2, <2>3, <2>5 DEF Locked
  <1>6. Pending'
    BY <1>3 DEF IInv, Pending, At, On, Known, Alone, accounts, chats
  <1>7. Whole'
    BY DEF IInv, Whole, NamesAreUnique, OneEach, accounts, library
  <1>8. \A q \in Request : Done(q)' <=> Done(q)
    BY DEF Done, Live, Known, On, accounts, library, chats
  <1>9. Promised'
    BY <1>3, <1>8 DEF IInv, Promised, Alone
  <1>10. Acknowledged \subseteq Acknowledged'
    BY <1>3 DEF Acknowledged, Alone, Writing, At
  <1>11. Before'
    BY <1>3, <1>10 DEF IInv, Before, Alone
  <1>12. Reads'
    <2>1. Read(r)'
      BY NoReader
    <2> QED BY <1>3, <2>1 DEF IInv, Reads, Read, Alone, At, On, chats
  <1> QED BY <1>4, <1>5, <1>6, <1>7, <1>9, <1>11, <1>12 DEF IInv

\* The writes of transactions.
LEMMA LockingSteps ==
  ASSUME IInv, NEW r \in Request, InsertUser(r) \/ DropBase(r) \/ UpdateSession(r)
  PROVE  IInv'
  <1> USE DEF At, Places
  <1>1. CASE InsertUser(r)
    <2>1. CASE Known(On(r))
      <3>1. Read(r)'
        BY <1>1, NoReader DEF InsertUser, Writing
      <3> QED BY <1>1, <2>1, <3>1, LeadingOn DEF InsertUser, Writing
    <2>2. CASE ~Known(On(r))
      BY <1>1, <2>2, Locking DEF InsertUser, Writing
    <2> QED BY <2>1, <2>2
  <1>2. CASE DropBase(r)
    <2>1. CASE ~Live(Base)
      <3>1. Read(r)'
        BY <1>2, NoReader DEF DropBase, Writing
      <3> QED BY <1>2, <2>1, <3>1, LeadingOn DEF DropBase, Writing
    <2>2. CASE Live(Base)
      BY <1>2, <2>2, Locking DEF DropBase, Writing
    <2> QED BY <2>1, <2>2
  <1>3. CASE UpdateSession(r)
    <2>1. CASE sessions[SessionOf[On(r)]] # "live"
      <3>1. Read(r)'
        BY <1>3, NoReader DEF UpdateSession, Writing
      <3> QED BY <1>3, <2>1, <3>1, LeadingOn DEF UpdateSession, Writing
    <2>2. CASE sessions[SessionOf[On(r)]] = "live"
      BY <1>3, <2>2, Locking DEF UpdateSession, Writing
    <2> QED BY <2>1, <2>2
  <1> QED BY <1>1, <1>2, <1>3

-----------------------------------------------------------------------------
\* Nothing that was done is undone: accounts, the key and turns stay, knowledge bases of
\* requests too, sessions are created once and deleted for good.
Lasts ==
  /\ op' = op /\ users \subseteq users'
  /\ password' \in {password} \cup Request /\ key' \in {key} \cup Request
  /\ \A b \in Request : Live(b) => Live(b)'
  /\ Live(Base)' => Live(Base)
  /\ \A s \in Session : sessions[s] # "none" => sessions'[s] # "none"
  /\ \A s \in Session : sessions[s] = "deleted" => sessions'[s] = "deleted"
  /\ \A m \in Message : turns[m] \subseteq turns'[m]

\* What was acknowledged stays done.
LEMMA Lasting ==
  ASSUME TypeOK, Lasts, NEW q \in Request, Done(q)
  PROVE  Done(q)'
  <1> USE DEF Lasts, On
  <1>1. Base \notin Request
    BY WorkspaceAssumption
  <1>2. CASE op[q].kind \in {"register", "login", "password", "saveKey"}
    BY <1>1, <1>2 DEF Done, Known
  <1>3. CASE op[q].kind \in {"createBase", "drop"}
    BY <1>3 DEF Done
  <1>4. CASE op[q].kind \in {"createSession", "retitle", "deleteSession", "saveTurn"}
    <2>1. IF op[q].kind = "saveTurn" THEN On(q) \in Message ELSE On(q) \in Session
      BY <1>4, Subjects
    <2>2. CASE op[q].kind \in {"createSession", "retitle"}
      BY <2>1, <2>2 DEF Done
    <2>3. CASE op[q].kind = "deleteSession"
      BY <2>1, <2>3 DEF Done
    <2>4. CASE op[q].kind = "saveTurn"
      BY <2>1, <2>4 DEF Done
    <2> QED BY <1>4, <2>2, <2>3, <2>4
  <1>5. CASE op[q].kind \in {"resolveKey", "rename", "list"}
    BY <1>5 DEF Done
  <1> QED BY <1>2, <1>3, <1>4, <1>5, Subjects DEF Kinds

\* What a step that changes stored rows must see to; the rest of the invariant follows.
LEMMA Changing ==
  ASSUME IInv, NEW r \in Request, Alone(r), op' = op,
         op[r].kind \notin {"list", "resolveKey"},
         req[r].pc # "ok", req'[r].pc # "commit", req'[r].locks = {},
         req'[r].after = req[r].after,
         DataOK', Whole',
         \A q \in Request \ {r} :
           /\ At(q, "register", "commit") => ~Known(On(q))'
           /\ At(q, "saveTurn", "commit") => sessions'[SessionOf[On(q)]] = "live",
         Lasts,
         req'[r].pc \in {"status", "reply"} => Done(r)', req'[r].pc # "ok",
         \A s \in Session : sessions'[s] = "live" => sessions[s] # "deleted"
  PROVE  IInv'
  <1> USE DEF Alone
  <1>1. TypeOK'
    BY DEF TypeOK, DataOK, Progress
  <1>2. Locked'
    BY DEF IInv, Locked, At, On
  <1>3. Pending'
    BY DEF Pending, At, On
  <1>4. Promised'
    BY Lasting DEF IInv, Promised
  <1>5. Acknowledged \subseteq Acknowledged'
    BY DEF Acknowledged
  <1>6. Before'
    BY <1>5 DEF IInv, Before
  <1>7. Reads'
    <2>1. Read(r)'
      BY NoReader
    <2>2. ASSUME NEW p \in Request \ {r}, NEW q \in req[p].after,
                 op[q].kind = "createSession", sessions'[On(q)] = "live"
          PROVE  sessions[On(q)] = "live"
      <3>1. q \in Request /\ Done(q)
        BY DEF IInv, Before, Promised, Acknowledged
      <3>2. On(q) \in Session
        BY <2>2, <3>1, Subjects DEF IInv
      <3>3. sessions[On(q)] \in {"none", "live", "deleted"}
        BY <3>2 DEF IInv, TypeOK
      <3> QED BY <2>2, <3>1, <3>2, <3>3 DEF Done
    <2>3. ASSUME NEW p \in Request \ {r} PROVE Read(p)'
      <3>1. Read(p) /\ req'[p] = req[p]
        BY DEF IInv, Reads
      <3> QED BY <2>2, <3>1 DEF Read, At, On
    <2> QED BY <2>1, <2>3 DEF Reads
  <1> QED BY <1>1, <1>2, <1>3, <1>4, <1>6, <1>7 DEF IInv

\* Two registrations that are about to commit have different names, and a session into
\* which a turn is about to be saved is in nobody else's hands.
LEMMA Apart ==
  ASSUME IInv, NEW r \in Request, NEW q \in Request \ {r}
  PROVE  /\ At(r, "register", "commit") /\ At(q, "register", "commit") => On(q) # On(r)
         /\ \A kind : Writing(r, kind) /\ At(q, "saveTurn", "commit") =>
              SessionOf[On(q)] \notin Touched(r)
  BY DEF IInv, Locked, Writing

\* The user and the tenant come in together.
LEMMA CommitUserKeeps == ASSUME IInv, NEW r \in Request, CommitUser(r) PROVE IInv'
  <1> USE DEF At, Places
  <1>1. req \in [Request -> Progress] /\ DataOK
    BY Types DEF IInv
  <1>2. Alone(r) /\ req'[r].pc = "reply" /\ req'[r].locks = {} /\ req'[r].after = req[r].after
    BY <1>1, Leaving DEF CommitUser
  <1>3. /\ op' = op /\ op[r].kind = "register" /\ req[r].pc = "commit"
        /\ tenants' = tenants \cup {r} /\ users' = users \cup {[id |-> r, name |-> On(r)]}
        /\ UNCHANGED <<password, key, bases, documents, vectors, sessions, turns>>
    BY DEF CommitUser, library, chats
  <1>4. On(r) \in UserName /\ ~Known(On(r))
    BY <1>3, Subjects DEF IInv, Pending
  <1>5. DataOK'
    BY <1>1, <1>3, <1>4 DEF DataOK
  <1>6. Whole'
    <2> DEFINE made == [id |-> r, name |-> On(r)]
    <2>1. made.id = r /\ made.name = On(r) /\ users' = users \cup {made}
      BY <1>3
    <2> HIDE DEF made
    <2>2. (tenants = {user.id : user \in users})'
      BY <1>3, <2>1 DEF IInv, Whole
    <2>3. OneEach(users)'
      BY <1>4, <2>1 DEF IInv, Whole, NamesAreUnique, OneEach, Known
    <2> QED BY <1>3, <2>2, <2>3 DEF IInv, Whole, NamesAreUnique, OneEach
  <1>7. Lasts
    BY <1>3 DEF Lasts, Live
  <1>8. Done(r)'
    <2>1. \E user \in users' : user.id = r
      <3>1. [id |-> r, name |-> On(r)] \in users'
        BY <1>3
      <3> WITNESS [id |-> r, name |-> On(r)] \in users'
      <3> QED OBVIOUS
    <2> QED BY <1>3, <2>1 DEF Done
  <1>9. \A q \in Request \ {r} :
          /\ At(q, "register", "commit") => ~Known(On(q))'
          /\ At(q, "saveTurn", "commit") => sessions'[SessionOf[On(q)]] = "live"
    <2> SUFFICES ASSUME NEW q \in Request \ {r}
                 PROVE  /\ At(q, "register", "commit") => ~Known(On(q))'
                        /\ At(q, "saveTurn", "commit") => sessions'[SessionOf[On(q)]] = "live"
      OBVIOUS
    <2>1. At(q, "register", "commit") => ~Known(On(q)) /\ On(q) # On(r)
      BY <1>3, Apart DEF IInv, Pending
    <2>2. At(q, "saveTurn", "commit") => sessions[SessionOf[On(q)]] = "live"
      BY DEF IInv, Pending
    <2> QED BY <1>3, <2>1, <2>2 DEF Known, On
  <1> QED BY <1>2, <1>3, <1>5, <1>6, <1>7, <1>8, <1>9, Changing

\* The password, and the key, are one row each.
LEMMA SettingSteps ==
  ASSUME IInv, NEW r \in Request, UpdatePassword(r) \/ Upsert(r)
  PROVE  IInv'
  <1> USE DEF At, Places
  <1>1. req \in [Request -> Progress] /\ DataOK
    BY Types DEF IInv
  <1>2. /\ Alone(r) /\ req'[r].pc \in {"status", "reply"} /\ req'[r].locks = {}
        /\ req'[r].after = req[r].after
    BY <1>1, Leaving DEF UpdatePassword, Upsert
  <1>3. /\ op' = op /\ op[r].kind \in {"password", "saveKey"} /\ req[r].pc = "write"
        /\ password' \in {password, r} /\ key' \in {key, r}
        /\ op[r].kind = "password" => password' = r
        /\ op[r].kind = "saveKey" => key' = r
        /\ UNCHANGED <<users, tenants, bases, documents, vectors, sessions, turns>>
    BY DEF UpdatePassword, Upsert, Writing, library, chats
  <1>4. DataOK'
    BY <1>1, <1>3 DEF DataOK
  <1>5. Whole'
    BY <1>3 DEF IInv, Whole, NamesAreUnique, OneEach
  <1>6. Lasts
    BY <1>3 DEF Lasts, Live
  <1>7. Done(r)'
    BY <1>3, WorkspaceAssumption DEF Done
  <1>8. \A q \in Request \ {r} :
          /\ At(q, "register", "commit") => ~Known(On(q))'
          /\ At(q, "saveTurn", "commit") => sessions'[SessionOf[On(q)]] = "live"
    BY <1>3 DEF IInv, Pending, Known, On
  <1> QED BY <1>2, <1>3, <1>4, <1>5, <1>6, <1>7, <1>8, Changing

\* A knowledge base comes in with its documents, under a name nobody has.
LEMMA CreateBaseKeeps == ASSUME IInv, NEW r \in Request, CreateBase(r) PROVE IInv'
  <1> USE DEF At, Places
  <1>1. req \in [Request -> Progress] /\ DataOK
    BY Types DEF IInv
  <1>2. CASE Leaves(r, "failed") /\ UNCHANGED library
    <2>1. Read(r)'
      BY NoReader DEF CreateBase, Writing
    <2> QED BY <1>2, <2>1, LeadingOn DEF CreateBase, Writing
  <1>3. CASE InsertBase(r) /\ Leaves(r, "reply")
    <2>1. Alone(r) /\ req'[r].pc = "reply" /\ req'[r].locks = {} /\ req'[r].after = req[r].after
      BY <1>1, <1>3, Leaving
    <2> DEFINE made == [id |-> r, name |-> On(r)]
    <2>2. /\ op' = op /\ op[r].kind = "createBase" /\ req[r].pc = "write"
          /\ bases' = bases \cup {made} /\ documents' = documents \cup {r}
          /\ UNCHANGED <<users, tenants, password, key, vectors, sessions, turns>>
      BY <1>3 DEF InsertBase, CreateBase, Writing, accounts, chats
    <2>3. On(r) \in BaseName /\ \A base \in bases : base.name # On(r)
      BY <1>3, <2>2, Subjects DEF IInv, InsertBase, NameTaken
    <2>4. made.id = r /\ made.name = On(r) /\ made \in [id : Request \cup {Base}, name : BaseName]
      BY <2>3
    <2> HIDE DEF made
    <2>5. DataOK'
      BY <1>1, <2>2, <2>4 DEF DataOK
    <2>6. Whole'
      <3>1. (documents = {base.id : base \in bases})'
        BY <2>2, <2>4 DEF IInv, Whole
      <3>2. OneEach(bases)'
        BY <2>2, <2>3, <2>4 DEF IInv, Whole, NamesAreUnique, OneEach
      <3> QED BY <2>2, <3>1, <3>2 DEF IInv, Whole, NamesAreUnique, OneEach
    <2>7. Lasts
      BY <2>2, <2>4, WorkspaceAssumption DEF Lasts, Live
    <2>8. Done(r)'
      BY <2>2, <2>4 DEF Done, Live
    <2>9. \A q \in Request \ {r} :
          /\ At(q, "register", "commit") => ~Known(On(q))'
          /\ At(q, "saveTurn", "commit") => sessions'[SessionOf[On(q)]] = "live"
      BY <2>2 DEF IInv, Pending, Known, On
    <2> QED BY <2>1, <2>2, <2>5, <2>6, <2>7, <2>8, <2>9, Changing
  <1> QED BY <1>2, <1>3 DEF CreateBase

\* A knowledge base keeps its documents when it gets another name, which nobody has.
LEMMA RenameKeeps == ASSUME IInv, NEW r \in Request, Rename(r) PROVE IInv'
  <1> USE DEF At, Places
  <1>1. req \in [Request -> Progress] /\ DataOK
    BY Types DEF IInv
  <1>2. CASE Leaves(r, "failed") /\ UNCHANGED library
    <2>1. Read(r)'
      BY NoReader DEF Rename, Writing
    <2> QED BY <1>2, <2>1, LeadingOn DEF Rename, Writing
  <1>3. CASE UpdateByOwner(r) /\ Leaves(r, "reread")
    <2>1. Alone(r) /\ req'[r].pc = "reread" /\ req'[r].locks = {} /\ req'[r].after = req[r].after
      BY <1>1, <1>3, Leaving
    <2> DEFINE now == [id |-> Base, name |-> On(r)]
    <2>2. /\ op' = op /\ op[r].kind = "rename" /\ req[r].pc = "write"
          /\ bases' = {base \in bases : base.id # Base} \cup {now}
          /\ UNCHANGED <<users, tenants, password, key, documents, vectors, sessions, turns>>
      BY <1>3 DEF UpdateByOwner, Rename, Writing, accounts, chats
    <2>3. On(r) \in BaseName /\ Live(Base) /\ \A base \in bases : base.id # Base => base.name # On(r)
      BY <1>3, <2>2, Subjects DEF IInv, UpdateByOwner, NameTaken
    <2>4. now.id = Base /\ now.name = On(r) /\ now \in [id : Request \cup {Base}, name : BaseName]
      BY <2>3
    <2> HIDE DEF now
    <2>5. DataOK'
      BY <1>1, <2>2, <2>4 DEF DataOK
    <2>6. Whole'
      <3>1. (documents = {base.id : base \in bases})'
        BY <2>2, <2>3, <2>4 DEF IInv, Whole, Live
      <3>2. OneEach(bases)'
        BY <2>2, <2>3, <2>4 DEF IInv, Whole, NamesAreUnique, OneEach
      <3> QED BY <2>2, <3>1, <3>2 DEF IInv, Whole, NamesAreUnique, OneEach
    <2>7. Lasts
      BY <2>2, <2>3, <2>4, WorkspaceAssumption DEF Lasts, Live
    <2>8. \A q \in Request \ {r} :
          /\ At(q, "register", "commit") => ~Known(On(q))'
          /\ At(q, "saveTurn", "commit") => sessions'[SessionOf[On(q)]] = "live"
      BY <2>2 DEF IInv, Pending, Known, On
    <2> QED BY <2>1, <2>2, <2>5, <2>6, <2>7, <2>8, Changing
  <1> QED BY <1>2, <1>3 DEF Rename

\* A knowledge base goes with its documents; its vectors have gone before.
LEMMA DropSteps ==
  ASSUME IInv, NEW r \in Request, DeleteBySubject(r) \/ CommitDrop(r)
  PROVE  IInv'
  <1> USE DEF At, Places
  <1>1. req \in [Request -> Progress] /\ DataOK
    BY Types DEF IInv
  <1>2. CASE DeleteBySubject(r)
    <2>1. /\ op' = op /\ op[r].kind = "drop" /\ req[r].pc = "new" /\ vectors' = vectors \ {Base}
          /\ UNCHANGED <<users, tenants, password, key, bases, documents, sessions, turns>>
      BY <1>2 DEF DeleteBySubject, accounts, chats
    <2>2. Alone(r) /\ req'[r].pc = "begin" /\ req'[r].locks = {} /\ req'[r].after = req[r].after
      BY <1>1, <1>2, <2>1, Going DEF DeleteBySubject, IInv, Locked
    <2>3. DataOK'
      BY <1>1, <2>1 DEF DataOK
    <2>4. Whole'
      BY <2>1 DEF IInv, Whole, NamesAreUnique, OneEach
    <2>5. Lasts
      BY <2>1 DEF Lasts, Live
    <2>6. \A q \in Request \ {r} :
          /\ At(q, "register", "commit") => ~Known(On(q))'
          /\ At(q, "saveTurn", "commit") => sessions'[SessionOf[On(q)]] = "live"
      BY <2>1 DEF IInv, Pending, Known, On
    <2> QED BY <2>1, <2>2, <2>3, <2>4, <2>5, <2>6, Changing
  <1>3. CASE CommitDrop(r)
    <2>1. /\ op' = op /\ op[r].kind = "drop" /\ req[r].pc = "commit"
          /\ bases' = {base \in bases : base.id # Base} /\ documents' = documents \ {Base}
          /\ UNCHANGED <<users, tenants, password, key, vectors, sessions, turns>>
      BY <1>3 DEF CommitDrop, accounts, chats
    <2>2. Alone(r) /\ req'[r].pc = "reply" /\ req'[r].locks = {} /\ req'[r].after = req[r].after
      BY <1>1, <1>3, Leaving DEF CommitDrop
    <2>3. DataOK'
      BY <1>1, <2>1 DEF DataOK
    <2>4. Whole'
      BY <2>1 DEF IInv, Whole, NamesAreUnique, OneEach
    <2>5. Lasts
      BY <2>1, WorkspaceAssumption DEF Lasts, Live
    <2>6. Done(r)'
      BY <2>1 DEF Done, Live
    <2>7. \A q \in Request \ {r} :
          /\ At(q, "register", "commit") => ~Known(On(q))'
          /\ At(q, "saveTurn", "commit") => sessions'[SessionOf[On(q)]] = "live"
      BY <2>1 DEF IInv, Pending, Known, On
    <2> QED BY <2>1, <2>2, <2>3, <2>4, <2>5, <2>6, <2>7, Changing
  <1> QED BY <1>2, <1>3

\* A session is made once, and deleted only while nobody is about to save a turn into it.
LEMMA SessionSteps ==
  ASSUME IInv, NEW r \in Request, CreateSession(r) \/ DeleteSession(r)
  PROVE  IInv'
  <1> USE DEF At, Places
  <1>1. req \in [Request -> Progress] /\ DataOK
    BY Types DEF IInv
  <1>2. /\ op' = op /\ op[r].kind \in {"createSession", "deleteSession"} /\ req[r].pc = "write"
        /\ UNCHANGED <<users, tenants, password, key, bases, documents, vectors, turns>>
        /\ Writing(r, op[r].kind)
    BY DEF CreateSession, DeleteSession, Writing, accounts, library
  <1>3. On(r) \in Session /\ Touched(r) = {On(r)}
    BY <1>2, Subjects DEF IInv, Touched
  <1>4. CASE UNCHANGED sessions
    <2>1. Leaves(r, "failed") \/ Leaves(r, "nothing")
      BY <1>1, <1>3, <1>4 DEF CreateSession, DeleteSession, DataOK
    <2>2. UNCHANGED <<op, accounts, library, chats>>
      BY <1>2, <1>4 DEF accounts, library, chats
    <2>3. Read(r)'
      BY <1>2, NoReader
    <2> QED BY <1>2, <2>1, <2>2, <2>3, LeadingOn
  <1>5. CASE sessions' # sessions
    <2>1. /\ Leaves(r, "reply")
          /\ \/ /\ op[r].kind = "createSession" /\ sessions[On(r)] = "none"
                /\ sessions' = [sessions EXCEPT ![On(r)] = "live"]
             \/ /\ op[r].kind = "deleteSession" /\ sessions[On(r)] = "live"
                /\ sessions' = [sessions EXCEPT ![On(r)] = "deleted"]
      BY <1>5 DEF CreateSession, DeleteSession, Writing
    <2>2. Alone(r) /\ req'[r].pc = "reply" /\ req'[r].locks = {} /\ req'[r].after = req[r].after
      BY <1>1, <2>1, Leaving
    <2>3. DataOK'
      BY <1>1, <1>2, <2>1 DEF DataOK
    <2>4. Whole'
      BY <1>2 DEF IInv, Whole, NamesAreUnique, OneEach
    <2>5. Lasts
      BY <1>1, <1>2, <1>3, <2>1 DEF Lasts, Live, DataOK
    <2>6. Done(r)'
      BY <1>1, <1>2, <1>3, <2>1 DEF Done, DataOK, On
    <2>7. \A q \in Request \ {r} :
          /\ At(q, "register", "commit") => ~Known(On(q))'
          /\ At(q, "saveTurn", "commit") => sessions'[SessionOf[On(q)]] = "live"
      <3> SUFFICES ASSUME NEW q \in Request \ {r}
                   PROVE  /\ At(q, "register", "commit") => ~Known(On(q))'
                          /\ At(q, "saveTurn", "commit") =>
                               sessions'[SessionOf[On(q)]] = "live"
        OBVIOUS
      <3>1. At(q, "register", "commit") => ~Known(On(q))'
        BY <1>2 DEF IInv, Pending, Known, On
      <3>2. ASSUME At(q, "saveTurn", "commit")
            PROVE  sessions'[SessionOf[On(q)]] = "live"
        <4>1. sessions[SessionOf[On(q)]] = "live" /\ SessionOf[On(q)] # On(r)
          BY <1>2, <1>3, <3>2, Apart DEF IInv, Pending
        <4>2. SessionOf[On(q)] \in Session
          BY <3>2, Subjects DEF IInv
        <4> QED BY <1>1, <2>1, <4>1, <4>2 DEF DataOK
      <3> QED BY <3>1, <3>2
    <2>8. \A s \in Session : sessions'[s] = "live" => sessions[s] # "deleted"
      BY <1>1, <1>3, <2>1 DEF DataOK
    <2> QED BY <1>2, <2>1, <2>2, <2>3, <2>4, <2>5, <2>6, <2>7, <2>8, Changing
  <1> QED BY <1>4, <1>5

\* A turn is in its session, for good.
LEMMA CommitTurnKeeps == ASSUME IInv, NEW r \in Request, CommitTurn(r) PROVE IInv'
  <1> USE DEF At, Places
  <1>1. req \in [Request -> Progress] /\ DataOK
    BY Types DEF IInv
  <1>2. /\ op' = op /\ op[r].kind = "saveTurn" /\ req[r].pc = "commit"
        /\ turns' = [turns EXCEPT ![On(r)] = turns[On(r)] \cup {r}]
        /\ UNCHANGED <<users, tenants, password, key, bases, documents, vectors, sessions>>
    BY DEF CommitTurn, accounts, library
  <1>3. Alone(r) /\ req'[r].pc = "reply" /\ req'[r].locks = {} /\ req'[r].after = req[r].after
    BY <1>1, Leaving DEF CommitTurn
  <1>4. On(r) \in Message
    BY <1>2, Subjects DEF IInv
  <1>5. DataOK'
    BY <1>1, <1>2, <1>4 DEF DataOK
  <1>6. Whole'
    BY <1>2 DEF IInv, Whole, NamesAreUnique, OneEach
  <1>7. Lasts
    BY <1>1, <1>2, <1>4 DEF Lasts, Live, DataOK
  <1>8. Done(r)'
    BY <1>1, <1>2, <1>4 DEF Done, DataOK, On
  <1>9. \A q \in Request \ {r} :
          /\ At(q, "register", "commit") => ~Known(On(q))'
          /\ At(q, "saveTurn", "commit") => sessions'[SessionOf[On(q)]] = "live"
    BY <1>2 DEF IInv, Pending, Known, On
  <1> QED BY <1>2, <1>3, <1>5, <1>6, <1>7, <1>8, <1>9, Changing

-----------------------------------------------------------------------------
\* Every step of a request keeps the invariant.
LEMMA NextKeepsIInv == IInv /\ [Next]_vars => IInv'
  <1> SUFFICES ASSUME IInv, [Next]_vars PROVE IInv'
    OBVIOUS
  <1>1. CASE UNCHANGED vars
    BY <1>1 DEF vars, accounts, library, chats, IInv, TypeOK, Locked, Pending, Whole,
                NamesAreUnique, OneEach, Promised, Done, Live, Before, Acknowledged, Reads, Read,
                At, On, Known
  <1>2. CASE Next
    <2>1. PICK r \in Request : Start(r) \/ Step(r) \/ Abort(r)
      BY <1>2 DEF Next
    <2>2. CASE Account(r)
      BY <2>2, LeadingSteps, LockingSteps, CommitUserKeeps, SettingSteps, NotingSteps DEF Account
    <2>3. CASE KnowledgeBase(r)
      BY <2>3, CreateBaseKeeps, RenameKeeps, LeadingSteps, DropSteps, LockingSteps
         DEF KnowledgeBase
    <2>4. CASE Chat(r)
      BY <2>4, LeadingSteps, SessionSteps, LockingSteps, CommitTurnKeeps, NotingSteps DEF Chat
    <2>5. CASE Start(r) \/ Take(r) \/ Reply(r) \/ Abort(r)
      BY <2>5, NotingSteps, LeadingSteps
    <2> QED BY <2>1, <2>2, <2>3, <2>4, <2>5 DEF Step
  <1> QED BY <1>1, <1>2

\* The inductive invariant holds in every state, whatever the requests are.
THEOREM Invariance == Spec => []IInv
  BY InitHolds, NextKeepsIInv, PTL DEF Spec

\* Every reachable state has its type: what a request knows and holds is of its kind.
THEOREM TypeCorrectness == Spec => []TypeOK
  <1>1. IInv => TypeOK
    BY DEF IInv
  <1> QED BY <1>1, Invariance, PTL

\* No two live accounts have one username, no two live knowledge bases one name: the
\* registrations that are about to commit hold different names, and a knowledge base is
\* inserted or renamed only into a name that nobody has.
THEOREM NamesStayUnique == Spec => []NamesAreUnique
  <1>1. IInv => NamesAreUnique
    BY DEF IInv, Whole
  <1> QED BY <1>1, Invariance, PTL

\* What was acknowledged has been done and stays done, and what takes two rows or more is
\* done whole, wherever requests are cut off.
THEOREM NothingIsHalfDone == Spec => []AllOrNothing
  <1>1. IInv => AllOrNothing
    BY DEF IInv, Whole, Promised, Acknowledged, AllOrNothing
  <1> QED BY <1>1, Invariance, PTL

\* A listing, or the resolution of a key, misses nothing that was acknowledged before it
\* began and is still there, though its statements are not of one moment.
THEOREM ReadsAreComplete == Spec => []ReadsMissNothing
  <1>1. IInv => ReadsMissNothing
    <2> SUFFICES ASSUME IInv, NEW r \in Acknowledged, NEW q \in Request, q \in req[r].after
                 PROVE  /\ op[r].kind = "list" /\ op[q].kind = "createSession"
                             /\ sessions[On(q)] = "live" => On(q) \in req[r].listed
                        /\ op[r].kind = "list" /\ op[q].kind = "saveTurn"
                             /\ SessionOf[On(q)] \in req[r].listed => On(q) \in req[r].messages
                        /\ op[r].kind = "resolveKey" /\ op[q].kind = "saveKey" =>
                             req[r].found # Base
      BY DEF ReadsMissNothing
    <2>1. req[r].pc = "ok" /\ Read(r)
      BY DEF Acknowledged, IInv, Reads
    <2> QED BY <2>1 DEF Read, At
  <1> QED BY <1>1, Invariance, PTL

\* A deleted session stays as it was, whatever turns are still on their way into it: the
\* transaction that commits one has kept the session's row since it found it live.
THEOREM DeletedSessionsStayQuiet == Spec => DeletedStaysQuiet
  <1>1. IInv /\ [Next]_vars =>
          [\A m \in Message : sessions[SessionOf[m]] = "deleted" => turns'[m] = turns[m]]_vars
    <2> SUFFICES ASSUME IInv, Next, NEW m \in Message, sessions[SessionOf[m]] = "deleted"
                 PROVE  turns'[m] = turns[m]
      OBVIOUS
    <2>1. turns \in [Message -> SUBSET Request]
      BY DEF IInv, TypeOK
    <2>2. PICK r \in Request : Start(r) \/ Step(r) \/ Abort(r)
      BY DEF Next
    <2>3. CASE CommitTurn(r)
      <3>1. sessions[SessionOf[On(r)]] = "live"
        BY <2>3 DEF CommitTurn, IInv, Pending
      <3> QED BY <2>1, <2>3, <3>1 DEF CommitTurn
    <2>4. CASE ~CommitTurn(r)
      <3>1. CASE Account(r)
        BY <3>1 DEF Account, FindByUsername, InsertTenant, InsertUser, CommitUser, Login,
                    ComparePassword, UpdatePassword, ValidateAPIKey, Upsert, ReadStatus,
                    FindUser, ResolveAPIKey, chats
      <3>2. CASE KnowledgeBase(r)
        BY <3>2 DEF KnowledgeBase, CreateBase, Rename, ReadAgain, DeleteBySubject, DropBase,
                    CommitDrop, chats
      <3>3. CASE Chat(r)
        BY <2>4, <3>3 DEF Chat, FindBase, CreateSession, Retitle, DeleteSession, UpdateSession,
                          QuerySessions, ReadMessages, CloseRows, chats
      <3>4. CASE Start(r) \/ Take(r) \/ Reply(r) \/ Abort(r)
        BY <3>4 DEF Start, Take, Reply, Abort, chats
      <3> QED BY <2>2, <3>1, <3>2, <3>3, <3>4 DEF Step
    <2> QED BY <2>3, <2>4
  <1> QED BY <1>1, Invariance, PTL DEF Spec, DeletedStaysQuiet
=============================================================================
