------------------------------ MODULE Workspace ------------------------------
(***************************************************************************)
(* The single-user side of the API: accounts, model key, knowledge bases,   *)
(* chat sessions and their turns (logic/auth, logic/settings,               *)
(* logic/subject, logic/chat, service/conversation, service/modelsettings   *)
(* and their repositories).                                                 *)
(*                                                                          *)
(* Requests run at the same time over one pool of connections to            *)
(* PostgreSQL.  A statement takes a connection; a statement that can wait   *)
(* for a row or an index entry holds it while it waits, a transaction holds *)
(* it to its end, and a listing of sessions holds one while it takes        *)
(* another for the messages of each row.                                    *)
(*                                                                          *)
(* Pending changes of a transaction appear at its commit; until then it     *)
(* holds the locks that make others wait.                                   *)
(***************************************************************************)
EXTENDS Naturals, FiniteSets, FiniteSetsExt

CONSTANTS
  Request,   \* the requests
  Workloads, \* what they may be: functions from Request to a kind and its subject
  Session, Message, UserName, BaseName,
  SessionOf, \* message -> its session: a turn keeps its ids when it is saved again
  Base,      \* a knowledge base that is there from the start
  FirstName, \* its name
  Opened,    \* the sessions there may be at the start: sets of sessions
  MaxConns   \* Postgres.MaxConns

Kinds == {"register", "login", "password", "saveKey", "resolveKey", "createBase", "rename", "drop",
          "createSession", "retitle", "deleteSession", "saveTurn", "list"}

Subject == UserName \cup BaseName \cup Session \cup Message \cup {Base}

\* What a request of a kind is about; for the rest the subject plays no part.
SubjectOf(kind) ==
  CASE kind \in {"register", "login"}     -> UserName
    [] kind \in {"createBase", "rename"}  -> BaseName
    [] kind \in {"createSession", "retitle", "deleteSession"} -> Session
    [] kind = "saveTurn" -> Message
    [] OTHER -> Subject

ASSUME WorkspaceAssumption ==
  /\ IsFiniteSet(Request) /\ MaxConns \in Nat \ {0}
  /\ Workloads \subseteq [Request -> [kind : Kinds, on : Subject]]
  /\ \A work \in Workloads : \A r \in Request : work[r].on \in SubjectOf(work[r].kind)
  /\ SessionOf \in [Message -> Session]
  /\ Opened \subseteq SUBSET Session
  /\ FirstName \in BaseName /\ Base \notin Request

VARIABLES
  op,        \* the workload
  users, tenants, \* the accounts made by requests, and their tenants
  password,  \* the request that set the owner's password, or Base
  key,       \* the request that saved the tenant's key, or Base for the environment's
  bases,     \* live knowledge bases: id and name
  documents, \* knowledge bases whose documents are not deleted
  vectors,   \* knowledge bases that have vectors
  sessions,  \* session -> "none", "live" or "deleted"
  turns,     \* message -> the requests that have saved it
  req        \* request -> its progress

accounts == <<users, tenants, password, key>>
library  == <<bases, documents, vectors>>
chats    == <<sessions, turns>>
vars     == <<op, accounts, library, chats, req>>

Fresh == [pc |-> "idle", conns |-> 0, locks |-> {}, rest |-> {}, listed |-> {},
          messages |-> {}, found |-> Base, after |-> {}]

Init ==
  /\ op \in Workloads
  /\ users = {} /\ tenants = {} /\ password = Base /\ key = Base
  /\ bases = {[id |-> Base, name |-> FirstName]} /\ documents = {Base} /\ vectors = {Base}
  /\ \E open \in Opened : sessions = [s \in Session |-> IF s \in open THEN "live" ELSE "none"]
  /\ turns = [m \in Message |-> {}]
  /\ req = [r \in Request |-> Fresh]

At(r, kind, step) == op[r].kind = kind /\ req[r].pc = step
On(r)     == op[r].on
Over(r)   == req[r].pc \in {"ok", "nothing", "failed"}
Active(r) == req[r].pc # "idle" /\ ~Over(r)
Free      == MapThenSumSet(LAMBDA r : req[r].conns, Request) < MaxConns
Live(b)   == \E base \in bases : base.id = b
Goes(r, step) == req' = [req EXCEPT ![r].pc = step]

\* The statement or transaction is over and its connection back in the pool.
Leaves(r, step) ==
  req' = [req EXCEPT ![r] = [@ EXCEPT !.pc = step, !.conns = 0, !.locks = {}]]

-----------------------------------------------------------------------------
(* What all requests share *)

Acknowledged == {r \in Request : req[r].pc = "ok"}

FirstStep(r) ==
  CASE op[r].kind \in {"createBase", "rename", "retitle", "deleteSession"} -> "take"
    [] op[r].kind = "saveTurn" -> "begin"
    [] OTHER -> "new"

\* The handler's checks of its input and CurrentUser have let it in.
Start(r) ==
  /\ req[r].pc = "idle"
  /\ req' = [req EXCEPT ![r] = [@ EXCEPT !.pc = FirstStep(r), !.after = Acknowledged]]
  /\ UNCHANGED <<op, accounts, library, chats>>

\* A connection for a statement of its own, or for a transaction.
Take(r) ==
  /\ req[r].pc \in {"take", "begin"}
  /\ Free
  /\ LET next == IF op[r].kind = "register" THEN "tenant" ELSE "write"
     IN  req' = [req EXCEPT ![r] = [@ EXCEPT !.pc = next, !.conns = 1]]
  /\ UNCHANGED <<op, accounts, library, chats>>

\* The rows and index entries a write touches.
Touched(r) ==
  CASE op[r].kind = "rename"   -> {Base, On(r)}
    [] op[r].kind = "drop"     -> {Base} \cup {base.name : base \in {b \in bases : b.id = Base}}
    [] op[r].kind = "saveTurn" -> {SessionOf[On(r)]}
    [] op[r].kind \in {"password", "saveKey"} -> {}
    [] OTHER -> {On(r)}

\* It waits for the transactions that have touched them.
Writing(r, kind) ==
  /\ At(r, kind, "write")
  /\ \A q \in Request \ {r} : Touched(r) \cap req[q].locks = {}

\* In a transaction it keeps them.
Keeps(r, step) ==
  req' = [req EXCEPT ![r] = [@ EXCEPT !.pc = step, !.locks = Touched(r)]]

\* The answer goes out.
Reply(r) ==
  /\ req[r].pc = "reply"
  /\ Goes(r, "ok")
  /\ UNCHANGED <<op, accounts, library, chats>>

\* Timeout of rag-api.yaml, a lost connection or a crash: the transaction is rolled
\* back, and if all was done only the answer is lost.
Abort(r) ==
  /\ Active(r)
  /\ Leaves(r, "failed")
  /\ UNCHANGED <<op, accounts, library, chats>>

-----------------------------------------------------------------------------
(* Accounts *)

\* FindByUsername finds it.
Known(name) == \E user \in users : user.name = name

\* Faulty: the transaction is open when the name is looked up.
LookUpInTransaction(r) ==
  /\ At(r, "register", "new")
  /\ Free
  /\ IF req[r].conns = 0 THEN req' = [req EXCEPT ![r].conns = 1]
     ELSE IF Known(On(r)) THEN Leaves(r, "failed") ELSE Goes(r, "tenant")
  /\ UNCHANGED <<op, accounts, library, chats>>

\* AuthRegister looks the name up before it hashes the password.
FindByUsername(r) ==
  /\ At(r, "register", "new")
  /\ Free
  /\ IF Known(On(r)) THEN Leaves(r, "failed") ELSE Goes(r, "begin")
  /\ UNCHANGED <<op, accounts, library, chats>>

\* Faulty: the tenant is inserted beside the transaction.
InsertTenantAlone(r) ==
  /\ At(r, "register", "tenant")
  /\ tenants' = tenants \cup {r}
  /\ Goes(r, "write")
  /\ UNCHANGED <<op, users, password, key, library, chats>>

\* UserRepo.Create: the tenant,
InsertTenant(r) ==
  /\ At(r, "register", "tenant")
  /\ Goes(r, "write")
  /\ UNCHANGED <<op, accounts, library, chats>>

\* the user, whose name the unique index refuses if it has come in meanwhile,
InsertUser(r) ==
  /\ Writing(r, "register")
  /\ IF Known(On(r)) THEN Leaves(r, "failed") ELSE Keeps(r, "commit")
  /\ UNCHANGED <<op, accounts, library, chats>>

\* and both at once.
CommitUser(r) ==
  /\ At(r, "register", "commit")
  /\ tenants' = tenants \cup {r}
  /\ users' = users \cup {[id |-> r, name |-> On(r)]}
  /\ Leaves(r, "reply")
  /\ UNCHANGED <<op, password, key, library, chats>>

\* AuthLogin: the name, and the password, which may be the wrong one; the token is kept
\* nowhere.
Login(r) ==
  /\ At(r, "login", "new")
  /\ Free
  /\ Leaves(r, "failed") \/ (Known(On(r)) /\ Goes(r, "reply"))
  /\ UNCHANGED <<op, accounts, library, chats>>

\* UserPasswordUpdate reads the hash and compares; the old password may be the wrong one.
ComparePassword(r) ==
  /\ At(r, "password", "new")
  /\ Free
  /\ Goes(r, "take") \/ Leaves(r, "failed")
  /\ UNCHANGED <<op, accounts, library, chats>>

\* UpdatePassword asks for nothing but the user.
UpdatePassword(r) ==
  /\ Writing(r, "password")
  /\ password' = r
  /\ Leaves(r, "reply")
  /\ UNCHANGED <<op, users, tenants, key, library, chats>>

\* ValidateAPIKey asks the provider, for up to 25 seconds.
ValidateAPIKey(r) ==
  /\ At(r, "saveKey", "new")
  /\ Goes(r, "take") \/ Leaves(r, "failed")
  /\ UNCHANGED <<op, accounts, library, chats>>

\* Save: the tenant's row is inserted or replaced.
Upsert(r) ==
  /\ Writing(r, "saveKey")
  /\ key' = r
  /\ Leaves(r, "status")
  /\ UNCHANGED <<op, users, tenants, password, library, chats>>

\* Status is read for the answer.
ReadStatus(r) ==
  /\ At(r, "saveKey", "status")
  /\ Free
  /\ Goes(r, "reply")
  /\ UNCHANGED <<op, accounts, library, chats>>

\* modelCredentials: the user, then the tenant's key or the environment's.
FindUser(r) ==
  /\ At(r, "resolveKey", "new")
  /\ Free
  /\ Goes(r, "resolve")
  /\ UNCHANGED <<op, accounts, library, chats>>

ResolveAPIKey(r) ==
  /\ At(r, "resolveKey", "resolve")
  /\ Free
  /\ req' = [req EXCEPT ![r] = [@ EXCEPT !.pc = "reply", !.found = key]]
  /\ UNCHANGED <<op, accounts, library, chats>>

-----------------------------------------------------------------------------
(* Knowledge bases *)

\* Faulty: nothing keeps two knowledge bases from having one name.
NeverTaken(r) == FALSE

\* idx_subjects_owner_name_active: another live one of the owner has the name.
NameTaken(r) ==
  \E base \in bases : base.name = On(r) /\ (base.id # Base \/ op[r].kind = "createBase")

InsertBase(r) ==
  /\ ~NameTaken(r)
  /\ bases' = bases \cup {[id |-> r, name |-> On(r)]}
  /\ documents' = documents \cup {r}
  /\ UNCHANGED vectors

CreateBase(r) ==
  /\ Writing(r, "createBase")
  /\ \/ InsertBase(r) /\ Leaves(r, "reply")
     \/ NameTaken(r) /\ Leaves(r, "failed") /\ UNCHANGED library
  /\ UNCHANGED <<op, accounts, chats>>

UpdateByOwner(r) ==
  /\ Live(Base) /\ ~NameTaken(r)
  /\ bases' = {base \in bases : base.id # Base} \cup {[id |-> Base, name |-> On(r)]}
  /\ UNCHANGED <<documents, vectors>>

\* SubjectUpdate: the update ...
Rename(r) ==
  /\ Writing(r, "rename")
  /\ \/ UpdateByOwner(r) /\ Leaves(r, "reread")
     \/ (~Live(Base) \/ NameTaken(r)) /\ Leaves(r, "failed") /\ UNCHANGED library
  /\ UNCHANGED <<op, accounts, chats>>

\* ... and, for the answer, GetAccessibleByID, which may find it gone.
ReadAgain(r) ==
  /\ At(r, "rename", "reread")
  /\ Free
  /\ Goes(r, IF Live(Base) THEN "reply" ELSE "failed")
  /\ UNCHANGED <<op, accounts, library, chats>>

\* SubjectDelete: the vectors first, whatever becomes of the rest.
DeleteBySubject(r) ==
  /\ At(r, "drop", "new")
  /\ vectors' = vectors \ {Base}
  /\ Goes(r, "begin")
  /\ UNCHANGED <<op, accounts, bases, documents, chats>>

\* SoftDeleteByOwner: the knowledge base, if it is there ...
DropBase(r) ==
  /\ Writing(r, "drop")
  /\ IF Live(Base) THEN Keeps(r, "commit") ELSE Leaves(r, "nothing")
  /\ UNCHANGED <<op, accounts, library, chats>>

\* ... with its documents and chunks.
CommitDrop(r) ==
  /\ At(r, "drop", "commit")
  /\ bases' = {base \in bases : base.id # Base}
  /\ documents' = documents \ {Base}
  /\ Leaves(r, "reply")
  /\ UNCHANGED <<op, accounts, vectors, chats>>

-----------------------------------------------------------------------------
(* Sessions and turns *)

\* ChatSessionCreate: ExistsAccessible, if the session is about a knowledge base.
FindBase(r) ==
  /\ At(r, "createSession", "new")
  /\ Free
  /\ Goes(r, IF Live(Base) THEN "take" ELSE "failed")
  /\ UNCHANGED <<op, accounts, library, chats>>

\* The client has chosen the id.
CreateSession(r) ==
  /\ Writing(r, "createSession")
  /\ IF sessions[On(r)] = "none"
     THEN sessions' = [sessions EXCEPT ![On(r)] = "live"] /\ Leaves(r, "reply")
     ELSE Leaves(r, "failed") /\ UNCHANGED sessions
  /\ UNCHANGED <<op, accounts, library, turns>>

\* ChatSessionUpdate: the title of a session that is there.
Retitle(r) ==
  /\ Writing(r, "retitle")
  /\ Leaves(r, IF sessions[On(r)] = "live" THEN "reply" ELSE "nothing")
  /\ UNCHANGED <<op, accounts, library, chats>>

DeleteSession(r) ==
  /\ Writing(r, "deleteSession")
  /\ IF sessions[On(r)] = "live"
     THEN sessions' = [sessions EXCEPT ![On(r)] = "deleted"] /\ Leaves(r, "reply")
     ELSE Leaves(r, "nothing") /\ UNCHANGED sessions
  /\ UNCHANGED <<op, accounts, library, turns>>

\* Faulty: the session is looked at, not updated, and stays unlocked.
LookAtSession(r) ==
  /\ Writing(r, "saveTurn")
  /\ IF sessions[SessionOf[On(r)]] = "live" THEN Goes(r, "commit") ELSE Leaves(r, "failed")
  /\ UNCHANGED <<op, accounts, library, chats>>

\* SaveTurn: the session, which must be there and stays so until the commit ...
UpdateSession(r) ==
  /\ Writing(r, "saveTurn")
  /\ IF sessions[SessionOf[On(r)]] = "live" THEN Keeps(r, "commit") ELSE Leaves(r, "failed")
  /\ UNCHANGED <<op, accounts, library, chats>>

\* ... and the message, over the one an earlier attempt has saved.
CommitTurn(r) ==
  /\ At(r, "saveTurn", "commit")
  /\ turns' = [turns EXCEPT ![On(r)] = @ \cup {r}]
  /\ Leaves(r, "reply")
  /\ UNCHANGED <<op, accounts, library, sessions>>

\* ListSessions: the rows stay open ...
QuerySessions(r) ==
  /\ At(r, "list", "new")
  /\ Free
  /\ LET there == {s \in Session : sessions[s] = "live"}
     IN  req' = [req EXCEPT ![r] = [@ EXCEPT !.pc = "rows", !.conns = 1, !.rest = there,
                                             !.listed = there]]
  /\ UNCHANGED <<op, accounts, library, chats>>

TurnsOf(s) == {m \in Message : SessionOf[m] = s /\ turns[m] # {}}

\* Faulty: the messages of the first session will do.
ReadMessagesOnce(r) ==
  /\ At(r, "list", "rows") /\ req[r].rest # {}
  /\ Free
  /\ \E s \in req[r].rest :
       req' = [req EXCEPT ![r] = [@ EXCEPT !.rest = {}, !.messages = req[r].messages \cup TurnsOf(s)]]
  /\ UNCHANGED <<op, accounts, library, chats>>

\* ... while listMessages takes another connection for each of them.
ReadMessages(r) ==
  /\ At(r, "list", "rows") /\ req[r].rest # {}
  /\ Free
  /\ \E s \in req[r].rest :
       req' = [req EXCEPT ![r] = [@ EXCEPT !.rest = req[r].rest \ {s},
                                          !.messages = req[r].messages \cup TurnsOf(s)]]
  /\ UNCHANGED <<op, accounts, library, chats>>

CloseRows(r) ==
  /\ At(r, "list", "rows") /\ req[r].rest = {}
  /\ Leaves(r, "reply")
  /\ UNCHANGED <<op, accounts, library, chats>>

-----------------------------------------------------------------------------
Account(r) ==
  \/ FindByUsername(r) \/ InsertTenant(r) \/ InsertUser(r) \/ CommitUser(r) \/ Login(r)
  \/ ComparePassword(r) \/ UpdatePassword(r)
  \/ ValidateAPIKey(r) \/ Upsert(r) \/ ReadStatus(r) \/ FindUser(r) \/ ResolveAPIKey(r)

KnowledgeBase(r) ==
  CreateBase(r) \/ Rename(r) \/ ReadAgain(r) \/ DeleteBySubject(r) \/ DropBase(r) \/ CommitDrop(r)

Chat(r) ==
  \/ FindBase(r) \/ CreateSession(r) \/ Retitle(r) \/ DeleteSession(r) \/ UpdateSession(r) \/ CommitTurn(r)
  \/ QuerySessions(r) \/ ReadMessages(r) \/ CloseRows(r)

Step(r) == Take(r) \/ Reply(r) \/ Account(r) \/ KnowledgeBase(r) \/ Chat(r)

Next == \E r \in Request : Start(r) \/ Step(r) \/ Abort(r)

Spec == Init /\ [][Next]_vars

\* PostgreSQL and the pool serve whoever can go on; no request is made to fail.
FairSpec == Spec /\ \A r \in Request : WF_vars(Step(r))

-----------------------------------------------------------------------------
(* Properties *)

Places == {"idle", "take", "begin", "new", "tenant", "write", "commit", "status", "resolve",
           "reread", "rows", "reply", "ok", "nothing", "failed"}

\* What a request knows and holds is of its kind, and rows refer to what there is.
TypeOK ==
  /\ op \in Workloads
  /\ users \subseteq [id : Request, name : UserName] /\ tenants \subseteq Request
  /\ password \in Request \cup {Base} /\ key \in Request \cup {Base}
  /\ bases \subseteq [id : Request \cup {Base}, name : BaseName]
  /\ documents \subseteq Request \cup {Base} /\ vectors \subseteq {Base}
  /\ sessions \in [Session -> {"none", "live", "deleted"}]
  /\ turns \in [Message -> SUBSET Request]
  /\ req \in [Request -> [pc : Places, conns : {0, 1},
                          locks : SUBSET Subject,
                          rest : SUBSET Session, listed : SUBSET Session,
                          messages : SUBSET Message, found : Request \cup {Base},
                          after : SUBSET Request]]

OneEach(rows) == \A a, b \in rows : a.name = b.name => a = b

\* Two live accounts never have one username, nor two live knowledge bases of an owner
\* one name, however lookups, inserts, renames and deletions interleave (AuthRegister's
\* lookup decides nothing, the unique indexes do).
NamesAreUnique == OneEach(users) /\ OneEach(bases)

Done(r) ==
  CASE op[r].kind = "register"      -> \E user \in users : user.id = r
    [] op[r].kind = "login"         -> Known(On(r))
    [] op[r].kind = "password"      -> password # Base
    [] op[r].kind = "saveKey"       -> key # Base
    [] op[r].kind = "createBase"    -> Live(r)
    [] op[r].kind = "drop"          -> ~Live(Base)
    [] op[r].kind \in {"createSession", "retitle"} -> sessions[On(r)] # "none"
    [] op[r].kind = "deleteSession" -> sessions[On(r)] = "deleted"
    [] op[r].kind = "saveTurn"      -> r \in turns[On(r)]
    [] OTHER                        -> TRUE

\* What was acknowledged has been done, and what takes two rows or more is done whole,
\* wherever a request is cut off: no tenant without its user, no document that outlives
\* its knowledge base (Create, SoftDeleteByOwner and SaveTurn are transactions).
AllOrNothing ==
  /\ \A r \in Acknowledged : Done(r)
  /\ tenants = {user.id : user \in users}
  /\ documents = {base.id : base \in bases}

\* Turns are saved into live sessions only: a deleted session stays as it was, whatever
\* answers are still on their way into it (SaveTurn's update and DeleteSession meet at
\* the session's row).
DeletedStaysQuiet ==
  [][\A m \in Message : sessions[SessionOf[m]] = "deleted" => turns'[m] = turns[m]]_vars

\* A read misses nothing that was acknowledged before it began and not deleted since,
\* though its statements are not of one moment: a listing has the sessions and the turns
\* of the sessions it shows, the agent gets the tenant's key once there is one.
ReadsMissNothing ==
  \A r \in Acknowledged, q \in Request :
    q \in req[r].after =>
      /\ op[r].kind = "list" /\ op[q].kind = "createSession" /\ sessions[On(q)] = "live" =>
           On(q) \in req[r].listed
      /\ op[r].kind = "list" /\ op[q].kind = "saveTurn" /\ SessionOf[On(q)] \in req[r].listed =>
           On(q) \in req[r].messages
      /\ op[r].kind = "resolveKey" /\ op[q].kind = "saveKey" => req[r].found # Base

Listings == {r \in Request : op[r].kind = "list"}

\* With fewer listings at a time than the pool has connections every request ends of
\* itself: only listings hold a connection while they wait for another, and transactions
\* wait for each other in no circle.  (From MaxConns listings on all may wait until the
\* deadline.)
EndsWithoutDeadline ==
  \A r \in Request : (Cardinality(Listings) < MaxConns /\ Active(r)) ~> Over(r)
=============================================================================
