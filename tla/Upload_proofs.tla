--------------------------- MODULE Upload_proofs ---------------------------
(***************************************************************************)
(* Proofs about RateLimiter and Upload.  The limiter's invariant is proved  *)
(* of its own steps; Upload implements LimiterSpec and inherits it.         *)
(***************************************************************************)
EXTENDS Upload, FiniteSetTheorems, TLAPS

-----------------------------------------------------------------------------
(* Arithmetic of the window *)
LEMMA WindowType == Window \in Nat /\ Window > 0
  <1>1. \A p, s \in Nat \ {0} : p * s \in Nat /\ p * s > 0
    OBVIOUS
  <1> QED BY <1>1, LimitsAssumption DEF Window

\* math.ceil is not below its argument.
LEMMA CeilingBound ==
  ASSUME NEW n \in Int, NEW d \in Nat \ {0}
  PROVE  Ceiling(n, d) \in Int /\ Ceiling(n, d) * d >= n
  <1> DEFINE q == (n + d - 1) \div d
  <1>1. q \in Int /\ d * q + d > n + d - 1
    <2>1. \A k \in Int, e \in Nat : e > 0 => k \div e \in Int /\ e * (k \div e) + e > k
      BY SMT
    <2> QED BY <2>1
  <1>2. \A k \in Int : d * k + d > n + d - 1 => k * d >= n
    BY SMT
  <1>3. q * d >= n
    BY <1>1, <1>2
  <1> QED BY <1>1, <1>3 DEF Ceiling

\* Retry-After, in ticks, covers the remaining time of the oldest member.
LEMMA RetryCovers ==
  ASSUME NEW score \in Nat, now \in Nat
  PROVE  /\ RetryAfter(score) \in Int
         /\ score + Window <= now + RetryAfter(score) * Second
  <1> DEFINE left == score + Window - now
  <1>1. left \in Int
    BY WindowType
  <1>2. Ceiling(left, Second) \in Int /\ Ceiling(left, Second) * Second >= left
    BY <1>1, CeilingBound, LimitsAssumption
  <1>3. \A c \in Int, s \in Nat : c * s >= left => Larger(1, c) \in Int /\ Larger(1, c) * s >= left
    BY <1>1 DEF Larger
  <1>4. RetryAfter(score) \in Int /\ RetryAfter(score) * Second >= left
    BY <1>2, <1>3, LimitsAssumption DEF RetryAfter
  <1>5. RetryAfter(score) * Second \in Int
    BY <1>4, LimitsAssumption
  <1> QED BY <1>4, <1>5, WindowType

-----------------------------------------------------------------------------
(* The limiter's invariant *)

CallType ==
  /\ now \in Nat
  /\ members \subseteq Request
  /\ expires \in Int
  /\ call \in [Request -> [verdict : Verdicts, at : Nat, retry : Int]]

Past == \A r \in Request : call[r].at <= now

\* Whoever was let through inside the window is still a member ...
Known == \A r \in Request : call[r].verdict = "admitted" /\ call[r].at > now - Window => r \in members

\* ... because the key outlives its members.
Lives == \A m \in members : call[m].verdict # "none" /\ call[m].at + Window <= expires

Bounded == Cardinality(Recent) <= Quota

\* The members that refused r and still count.
Against(r) == {m \in Recent : call[m].at <= call[r].at}

FullNow == \A r \in Request : call[r].verdict = "refused" /\ call[r].at = now => ~Room

\* A full window that refused r has a member that is gone when Retry-After is over.
Leaving ==
  \A r \in Request : call[r].verdict = "refused" =>
    \/ Cardinality(Against(r)) < Quota
    \/ \E m \in Against(r) : call[m].at + Window <= call[r].at + call[r].retry * Second

LimiterInv ==
  CallType /\ Past /\ Known /\ Lives /\ Bounded /\ NeverOverQuota /\ FullNow /\ Leaving

\* The members of the window can be counted.
LEMMA RecentFinite ==
  ASSUME CallType
  PROVE  /\ Recent \subseteq members
         /\ IsFiniteSet(Recent) /\ Cardinality(Recent) \in Nat
         /\ \A S \in SUBSET Request : IsFiniteSet(S) /\ Cardinality(S) \in Nat
  <1>1. \A S \in SUBSET Request : IsFiniteSet(S) /\ Cardinality(S) \in Nat
    BY FS_Subset, FS_CardinalityType, LimitsAssumption
  <1>2. Recent \subseteq members /\ Recent \in SUBSET Request
    BY DEF Recent, CallType
  <1> QED BY <1>1, <1>2

\* The invariant of the limiter holds of an empty window.
LEMMA LimiterStarts == LimiterInit => LimiterInv
  <1> SUFFICES ASSUME LimiterInit PROVE LimiterInv
    OBVIOUS
  <1>1. CallType /\ Past /\ Known /\ Lives /\ FullNow /\ Leaving
    BY DEF LimiterInit, CallType, Past, Known, Lives, FullNow, Leaving, Verdicts
  <1>2. Recent = {}
    BY DEF LimiterInit, Recent
  <1>3. \A from, to : AdmittedIn(from, to) = {}
    BY DEF LimiterInit, AdmittedIn
  <1>4. Cardinality({}) = 0 /\ 0 <= Quota
    BY FS_EmptySet, LimitsAssumption
  <1> QED BY <1>1, <1>2, <1>3, <1>4 DEF LimiterInv, Bounded, NeverOverQuota

\* One call of the script, whatever its verdict: who counts afterwards.
LEMMA ScriptKeepsInv ==
  ASSUME LimiterInv, NEW r \in Request, call[r].verdict = "none",
         NEW verdict \in Verdicts \ {"none"}, NEW retry \in Int,
         call' = [call EXCEPT ![r] = [verdict |-> verdict, at |-> now, retry |-> retry]],
         RunScript(r) \/ (UNCHANGED <<now, members, expires>> /\ verdict = "unavailable"),
         verdict = "admitted" => Room,
         verdict = "refused" => /\ ~Room
                                /\ \E m \in Recent : call[m].at + Window <= now + retry * Second
  PROVE  LimiterInv'
  <1> USE DEF LimiterInv
  <1>1. /\ \A q \in Request \ {r} : call'[q] = call[q]
        /\ call'[r] = [verdict |-> verdict, at |-> now, retry |-> retry]
        /\ now' = now
    BY DEF CallType, RunScript
  <1>2. r \notin members /\ r \notin Recent
    BY DEF Lives, Recent
  <1>3. /\ Recent' = Recent \/ (Room /\ Recent' = Recent \cup {r})
        /\ Recent \subseteq members' /\ members' \subseteq Request
        /\ ~Room => Recent' = Recent
        /\ Room /\ verdict # "unavailable" => Recent' = Recent \cup {r}
    <2>1. \A m \in Recent : call'[m] = call[m] /\ call[m].at > now - Window
      BY <1>1, <1>2 DEF Recent, CallType
    <2>2. call'[r].at > now - Window
      BY <1>1, WindowType DEF CallType
    <2>3. CASE RunScript(r)
      <3>1. members' = IF Room THEN Recent \cup {r} ELSE Recent
        BY <2>3 DEF RunScript
      <3>2. Recent' = members'
        BY <1>1, <2>1, <2>2, <3>1 DEF Recent
      <3> QED BY <3>1, <3>2 DEF Recent, CallType
    <2>4. CASE UNCHANGED <<now, members, expires>> /\ verdict = "unavailable"
      <3>1. \A m \in members : call'[m] = call[m]
        BY <1>1, <1>2 DEF CallType
      <3>2. Recent' = Recent
        BY <2>4, <3>1 DEF Recent
      <3> QED BY <2>4, <3>2 DEF Recent, CallType
    <2> QED BY <2>3, <2>4
  <1>4. CallType'
    <2>1. expires' \in Int
      BY WindowType DEF RunScript, CallType
    <2>2. [verdict |-> verdict, at |-> now, retry |-> retry] \in
            [verdict : Verdicts, at : Nat, retry : Int]
      BY DEF CallType
    <2> QED BY <1>1, <1>3, <2>1, <2>2 DEF CallType
  <1>5. Past'
    BY <1>1 DEF Past, CallType
  <1>6. Known'
    <2> SUFFICES ASSUME NEW q \in Request, call'[q].verdict = "admitted", call'[q].at > now - Window
                 PROVE  q \in members'
      BY <1>1 DEF Known
    <2>1. CASE q = r
      <3>1. RunScript(r) /\ Room
        BY <1>1, <2>1
      <3> QED BY <2>1, <3>1 DEF RunScript
    <2>2. CASE q # r
      <3>1. q \in Recent
        BY <1>1, <2>2 DEF Known, Recent
      <3> QED BY <3>1, <1>3
    <2> QED BY <2>1, <2>2
  <1>7. Lives'
    <2>1. CASE RunScript(r)
      <3>1. members' \subseteq Recent \cup {r} /\ expires' = now + Window
        BY <2>1 DEF RunScript
      <3>2. \A m \in Recent : call[m].verdict # "none" /\ m \in Request \ {r}
        BY <1>2 DEF Lives, Recent, CallType
      <3>3. \A m \in Request : call'[m].at + Window <= now + Window
        BY <1>1, <1>4, <1>5, WindowType DEF Past, CallType
      <3> QED BY <1>1, <3>1, <3>2, <3>3 DEF Lives
    <2>2. CASE UNCHANGED <<now, members, expires>>
      BY <1>1, <1>2, <2>2 DEF Lives, CallType
    <2> QED BY <2>1, <2>2
  <1>8. Bounded'
    <2>1. Cardinality(Recent \cup {r}) = Cardinality(Recent) + 1 /\ Cardinality(Recent) \in Nat
      BY <1>2, RecentFinite, FS_AddElement
    <2>2. CASE Recent' = Recent
      BY <2>2 DEF Bounded
    <2>3. CASE Room /\ Recent' = Recent \cup {r}
      BY <2>1, <2>3, LimitsAssumption DEF Bounded, Room
    <2> QED BY <1>3, <2>2, <2>3
  <1>9. NeverOverQuota'
    <2> SUFFICES ASSUME NEW t \in 0 .. now
                 PROVE  Cardinality(AdmittedIn(t - Window + 1, t)') <= Quota
      BY <1>1 DEF NeverOverQuota
    <2>1. t \in Int /\ t - Window + 1 \in Int
      BY WindowType DEF CallType
    <2>2. CASE verdict # "admitted" \/ t < now
      <3>1. r \notin AdmittedIn(t - Window + 1, t) /\ r \notin AdmittedIn(t - Window + 1, t)'
        BY <1>1, <2>1, <2>2 DEF AdmittedIn, CallType
      <3>2. AdmittedIn(t - Window + 1, t)' = AdmittedIn(t - Window + 1, t)
        BY <1>1, <3>1 DEF AdmittedIn
      <3> QED BY <3>2 DEF NeverOverQuota
    <2>3. CASE verdict = "admitted" /\ t = now
      <3>1. Recent' = Recent \cup {r}
        BY <1>3, <2>3
      <3>2. \A q \in Request \ {r} :
              call[q].verdict = "admitted" /\ call[q].at > now - Window => q \in Recent
        BY DEF Known, Recent
      <3>3. AdmittedIn(t - Window + 1, t)' \subseteq Recent'
        BY <1>1, <2>1, <2>3, <3>1, <3>2, WindowType DEF AdmittedIn, CallType
      <3>4. IsFiniteSet(Recent') /\ Cardinality(Recent') \in Nat
        BY <1>4, RecentFinite DEF CallType, Recent
      <3>5. Cardinality(AdmittedIn(t - Window + 1, t)') <= Cardinality(Recent')
        BY <3>3, <3>4, FS_Subset
      <3>6. Cardinality(AdmittedIn(t - Window + 1, t)') \in Nat
        BY <3>3, <3>4, FS_Subset, FS_CardinalityType
      <3> QED BY <1>8, <3>4, <3>5, <3>6, LimitsAssumption DEF Bounded
    <2> QED BY <2>2, <2>3 DEF CallType
  <1>10. FullNow'
    <2> SUFFICES ASSUME NEW q \in Request, call'[q].verdict = "refused", call'[q].at = now
                 PROVE  ~Room'
      BY <1>1 DEF FullNow
    <2>1. ~Room
      BY <1>1 DEF FullNow
    <2> QED BY <1>3, <2>1 DEF Room
  <1>11. Leaving'
    <2> SUFFICES ASSUME NEW q \in Request, call'[q].verdict = "refused"
                 PROVE  \/ Cardinality(Against(q)') < Quota
                        \/ \E m \in Against(q)' :
                             call'[m].at + Window <= call'[q].at + call'[q].retry * Second
      BY DEF Leaving
    <2>1. \A m \in Recent : m \in Request \ {r} /\ call'[m] = call[m] /\ call[m].at <= now
      BY <1>1, <1>2 DEF Recent, CallType, Past
    <2>2. CASE q = r
      <3>1. PICK m \in Recent : call[m].at + Window <= now + retry * Second
        BY <1>1, <2>2
      <3>2. m \in Recent' /\ call'[m].at <= call'[q].at
        BY <1>1, <1>3, <2>1, <2>2
      <3> QED BY <1>1, <2>1, <2>2, <3>1, <3>2 DEF Against
    <2>3. CASE q # r
      <3>1. call'[q] = call[q] /\ (Room => call[q].at < now)
        BY <1>1, <2>3 DEF FullNow, Past, CallType
      <3>2. Against(q)' = Against(q)
        <4>1. CASE Recent' = Recent
          BY <2>1, <3>1, <4>1 DEF Against
        <4>2. CASE Room /\ Recent' = Recent \cup {r}
          <5>1. ~(call'[r].at <= call'[q].at)
            BY <1>1, <3>1, <4>2 DEF CallType
          <5> QED BY <2>1, <3>1, <4>2, <5>1 DEF Against
        <4> QED BY <1>3, <4>1, <4>2
      <3>3. \A m \in Against(q) : call'[m] = call[m]
        BY <2>1 DEF Against
      <3> QED BY <3>1, <3>2, <3>3 DEF Leaving
    <2> QED BY <2>2, <2>3
  <1> QED BY <1>4, <1>5, <1>6, <1>7, <1>8, <1>9, <1>10, <1>11

\* Tick keeps the invariant.
LEMMA TickKeepsInv ==
  ASSUME LimiterInv, Tick
  PROVE  LimiterInv'
  <1> USE DEF LimiterInv
  <1>1. /\ now' = now + 1 /\ call' = call
        /\ \/ members' = {} /\ expires = now + 1
           \/ UNCHANGED <<members, expires>>
    BY DEF Tick
  <1>2. CallType' /\ Past'
    BY <1>1 DEF Tick, CallType, Past
  <1>3. Known' /\ Lives'
    <2>1. \A r \in Request : call[r].at \in Nat
      BY DEF CallType
    <2> QED BY <1>1, <2>1, WindowType DEF Known, Lives, CallType
  <1>4. Recent' \subseteq Recent
    BY <1>1, WindowType DEF Recent, CallType
  <1>5. /\ Recent \in SUBSET Request
        /\ \A S \in SUBSET Recent : /\ IsFiniteSet(S) /\ Cardinality(S) \in Nat
                                    /\ Cardinality(S) <= Cardinality(Recent)
                                    /\ Cardinality(S) = Cardinality(Recent) => S = Recent
    BY RecentFinite, FS_Subset, FS_CardinalityType DEF CallType
  <1>6. Bounded'
    BY <1>4, <1>5, LimitsAssumption DEF Bounded
  <1>7. NeverOverQuota'
    <2> SUFFICES ASSUME NEW t \in 0 .. now + 1
                 PROVE  Cardinality(AdmittedIn(t - Window + 1, t)') <= Quota
      BY <1>1 DEF NeverOverQuota
    <2>1. AdmittedIn(t - Window + 1, t)' = AdmittedIn(t - Window + 1, t)
      BY <1>1 DEF AdmittedIn
    <2>2. CASE t \in 0 .. now
      BY <2>1, <2>2 DEF NeverOverQuota
    <2>3. CASE t = now + 1
      <3>1. AdmittedIn(t - Window + 1, t) \subseteq Recent
        BY <2>3, WindowType DEF AdmittedIn, Recent, Known, Past, CallType
      <3> QED BY <2>1, <3>1, <1>5, LimitsAssumption DEF Bounded
    <2> QED BY <2>2, <2>3 DEF CallType
  <1>8. FullNow'
    BY <1>1 DEF FullNow, Past, CallType
  <1>9. Leaving'
    <2> SUFFICES ASSUME NEW q \in Request, call[q].verdict = "refused"
                 PROVE  \/ Cardinality(Against(q)') < Quota
                        \/ \E m \in Against(q)' :
                             call[m].at + Window <= call[q].at + call[q].retry * Second
      BY <1>1 DEF Leaving
    <2>1. Against(q)' \subseteq Against(q) /\ Against(q) \subseteq Recent
      BY <1>1, <1>4 DEF Against
    <2>2. /\ IsFiniteSet(Against(q)) /\ Cardinality(Against(q)) \in Nat
          /\ Cardinality(Against(q)) <= Quota
      BY <1>5, <2>1, LimitsAssumption DEF Bounded
    <2>3. CASE Against(q)' = Against(q)
      BY <2>3 DEF Leaving
    <2>4. CASE Against(q)' # Against(q)
      <3>1. /\ Cardinality(Against(q)') <= Cardinality(Against(q))
            /\ Cardinality(Against(q)') # Cardinality(Against(q))
            /\ Cardinality(Against(q)') \in Nat
        BY <2>1, <2>2, <2>4, FS_Subset, FS_CardinalityType
      <3> QED BY <2>2, <3>1, LimitsAssumption
    <2> QED BY <2>3, <2>4
  <1> QED BY <1>2, <1>3, <1>6, <1>7, <1>8, <1>9

\* LimiterStep keeps the invariant.
LEMMA LimiterStepKeepsInv == LimiterInv /\ [LimiterNext]_limiter => LimiterInv'
  <1> SUFFICES ASSUME LimiterInv, [LimiterNext]_limiter PROVE LimiterInv'
    OBVIOUS
  <1>1. CASE Tick
    BY <1>1, TickKeepsInv
  <1>2. ASSUME NEW r \in Request, Admit(r) PROVE LimiterInv'
    <2>1. /\ Room /\ RunScript(r) /\ call[r].verdict = "none"
          /\ call' = [call EXCEPT ![r] = [verdict |-> "admitted", at |-> now, retry |-> 0]]
      BY <1>2 DEF Admit, Answer
    <2>2. "admitted" \in Verdicts \ {"none"} /\ 0 \in Int
      BY DEF Verdicts
    <2> QED BY ONLY <2>1, <2>2, LimiterInv, r \in Request, ScriptKeepsInv
  <1>3. ASSUME NEW r \in Request, Refuse(r) PROVE LimiterInv'
    <2>1. PICK score \in 0 .. now : Oldest(score) /\ Answer(r, "refused", RetryAfter(score))
      BY <1>3 DEF Refuse
    <2>2. now \in Nat /\ score \in Nat
      BY <2>1 DEF LimiterInv, CallType
    <2>3. /\ RetryAfter(score) \in Int
          /\ \E m \in Recent : call[m].at + Window <= now + RetryAfter(score) * Second
      BY <2>1, <2>2, RetryCovers DEF Oldest
    <2>4. /\ ~Room /\ RunScript(r) /\ call[r].verdict = "none"
          /\ call' = [call EXCEPT ![r] = [verdict |-> "refused", at |-> now,
                                           retry |-> RetryAfter(score)]]
      BY <1>3, <2>1 DEF Refuse, Answer
    <2>5. "refused" \in Verdicts \ {"none"} /\ "refused" # "admitted"
      BY DEF Verdicts
    <2> QED BY ONLY <2>3, <2>4, <2>5, LimiterInv, r \in Request, ScriptKeepsInv
  <1>4. ASSUME NEW r \in Request, Unavailable(r) PROVE LimiterInv'
    <2>1. /\ RunScript(r) \/ UNCHANGED <<now, members, expires>>
          /\ call[r].verdict = "none"
          /\ call' = [call EXCEPT ![r] = [verdict |-> "unavailable", at |-> now, retry |-> 0]]
      BY <1>4 DEF Unavailable, Answer
    <2>2. "unavailable" \in Verdicts \ {"none"} /\ 0 \in Int
      BY DEF Verdicts
    <2> QED BY ONLY <2>1, <2>2, LimiterInv, r \in Request, ScriptKeepsInv
  <1>5. CASE UNCHANGED limiter
    BY <1>5 DEF limiter, LimiterInv, CallType, Past, Known, Lives, Bounded, NeverOverQuota,
                FullNow, Leaving, Recent, Room, Against, AdmittedIn
  <1> QED BY <1>1, <1>2, <1>3, <1>4, <1>5 DEF LimiterNext

\* When its Retry-After is over, a refused call would find room
\* (slidingWindowScript).
LEMMA InvImpliesRetryIsEnough == LimiterInv => RetryIsEnough
  <1> SUFFICES ASSUME LimiterInv, NEW r \in Request, call[r].verdict = "refused",
                      now >= call[r].at + call[r].retry * Second
               PROVE  Cardinality(Against(r)) < Quota
    BY DEF RetryIsEnough, Against
  <1> USE DEF LimiterInv
  <1>1. call[r].retry * Second \in Int
    BY LimitsAssumption DEF CallType
  <1>2. \A m \in Against(r) : ~(call[m].at + Window <= call[r].at + call[r].retry * Second)
    BY <1>1, WindowType DEF Against, Recent, CallType
  <1> QED BY <1>2 DEF Leaving

\* The invariant of the window: whoever counts is a member, and members are never more than
\* the quota (the script).
THEOREM LimiterInvariance == LimiterSpec => []LimiterInv
  <1>1. LimiterInit => LimiterInv
    BY LimiterStarts
  <1>2. LimiterInv /\ [LimiterNext]_limiter => LimiterInv'
    BY LimiterStepKeepsInv
  <1> QED BY <1>1, <1>2, PTL DEF LimiterSpec

-----------------------------------------------------------------------------
(* Uploads go through the limiter *)
LEMMA UploadStep == [Next]_vars => [LimiterNext]_limiter
  <1> SUFFICES ASSUME [Next]_vars PROVE [LimiterNext]_limiter
    OBVIOUS
  <1>1. ASSUME NEW r \in Request, Receive(r) PROVE LimiterNext
    BY <1>1 DEF Receive, LimiterNext
  <1>2. ASSUME NEW r \in Request,
               \/ FindSubject(r) \/ LookUpName(r) \/ PutObject(r) \/ CreateWithIndexTask(r)
               \/ Fail(r) \/ DeleteDocument(r) \/ RemoveObject(r) \/ CompleteDelete(r)
        PROVE  UNCHANGED limiter
    BY <1>2 DEF FindSubject, LookUpName, PutObject, CreateWithIndexTask, Fail, DeleteDocument,
                RemoveObject, CompleteDelete
  <1>3. ASSUME NEW failed, ClearFailedByUser(failed) PROVE UNCHANGED limiter
    BY <1>3 DEF ClearFailedByUser
  <1>4. CASE SoftDeleteByOwner
    BY <1>4 DEF SoftDeleteByOwner
  <1>5. CASE Tick /\ UNCHANGED <<upload, store>>
    BY <1>5 DEF LimiterNext
  <1>6. CASE UNCHANGED vars
    BY <1>6 DEF vars
  <1> QED BY <1>1, <1>2, <1>3, <1>4, <1>5, <1>6 DEF Next

\* The upload endpoint never steps around the limiter.
THEOREM BehindTheLimiter == Spec => LimiterSpec
  <1>1. Init => LimiterInit
    BY DEF Init
  <1>2. [Next]_vars => [LimiterNext]_limiter
    BY UploadStep
  <1> QED BY <1>1, <1>2, PTL DEF Spec, LimiterSpec

\* For every quota, period and number of requests no window of PeriodSeconds admits more
\* than the quota (the script).
THEOREM QuotaHolds == Spec => []NeverOverQuota
  <1>1. LimiterInv => NeverOverQuota
    BY DEF LimiterInv
  <1> QED BY <1>1, LimiterInvariance, BehindTheLimiter, PTL

\* Whoever waits for Retry-After is not refused for the old requests again (the script).
THEOREM RetrySuffices == Spec => []RetryIsEnough
  <1> QED BY InvImpliesRetryIsEnough, LimiterInvariance, BehindTheLimiter, PTL

-----------------------------------------------------------------------------
(* Documents *)

UploadType ==
  /\ upload \in [Request -> [pc : Steps, file : Filename \cup {NoFilename}, saw : SUBSET Request]]
  /\ row \in [Request -> {"none", "live", "deleting", "hidden"}]
  /\ files \subseteq Request
  /\ queued \subseteq Request
  /\ dropped \in BOOLEAN

\* What a request's program counter knows of its document.
Local(r) ==
  /\ upload[r].pc \in {"idle", "subject", "name", "put", "create"} => row[r] = "none"
  /\ upload[r].pc \in {"idle", "subject", "name"} => upload[r].saw = {}
  /\ upload[r].pc = "create" => r \in files
  /\ upload[r].pc = "stored" => row[r] # "none"

Stored(r) ==
  /\ row[r] # "none" => r \in queued
  /\ row[r] = "live" => r \in files
  /\ \A d \in upload[r].saw : row[d] # "none"

\* Whoever saw a document of its name that is still kept has failed.
Refused(d, e) ==
  /\ d \in upload[e].saw /\ d \in Kept /\ d # e /\ ~dropped
  /\ upload[d].file = upload[e].file
  => upload[e].pc = "failed" /\ row[e] = "none"

UploadInv ==
  /\ UploadType
  /\ \A r \in Request : Local(r) /\ Stored(r)
  /\ \A d, e \in Request : Refused(d, e)

\* The invariant of uploads holds before the first one.
LEMMA UploadStarts == Init => UploadInv
  <1> SUFFICES ASSUME Init PROVE UploadInv
    OBVIOUS
  <1>1. UploadType
    BY DEF Init, UploadType, Steps
  <1>2. \A r \in Request : /\ upload[r].pc = "idle" /\ upload[r].saw = {} /\ row[r] = "none"
    BY DEF Init
  <1>3. \A r \in Request : Local(r) /\ Stored(r)
    BY <1>2 DEF Local, Stored
  <1>4. \A d, e \in Request : Refused(d, e)
    BY <1>2 DEF Refused
  <1> QED BY <1>1, <1>3, <1>4 DEF UploadInv

\* A step of request r that leaves the documents alone, but for the look-up of the name.
LEMMA MoveKeepsInv ==
  ASSUME UploadInv, NEW r \in Request, NEW pc \in Steps, Goto(r, pc),
         UNCHANGED <<row, queued, dropped>>, files \subseteq files', files' \subseteq Request,
         upload[r].pc # "stored", pc # "stored",
         pc \in {"idle", "subject", "name"} => upload[r].saw = {},
         pc # "failed" => row[r] = "none" /\ upload[r].pc # "failed",
         pc = "create" => r \in files'
  PROVE  UploadInv'
  <1> USE DEF UploadInv, UploadType
  <1>1. /\ \A q \in Request \ {r} : upload'[q] = upload[q]
        /\ upload'[r] = [upload[r] EXCEPT !.pc = pc]
    BY DEF Goto
  <1>2. \A q \in Request : upload'[q].file = upload[q].file /\ upload'[q].saw = upload[q].saw
    BY <1>1
  <1>3. UploadType'
    BY <1>1 DEF Goto
  <1>4. \A q \in Request : Local(q)' /\ Stored(q)'
    BY <1>1, <1>2 DEF Local, Stored
  <1>5. \A d, e \in Request : Refused(d, e)'
    <2> SUFFICES ASSUME NEW d \in Request, NEW e \in Request PROVE Refused(d, e)'
      OBVIOUS
    <2>1. Kept' = Kept
      BY DEF Kept
    <2>2. upload[e].pc = "failed" /\ row[e] = "none" => upload'[e].pc = "failed"
      BY <1>1
    <2> QED BY <1>2, <2>1, <2>2 DEF Refused
  <1> QED BY <1>3, <1>4, <1>5

\* The transaction of request r.
LEMMA InsertKeepsInv ==
  ASSUME UploadInv, NEW r \in Request, At(r, "create"), NEW pc \in {"stored", "failed"},
         Goto(r, pc), InsertAll(r)
  PROVE  UploadInv'
  <1> USE DEF UploadInv, UploadType
  <1>1. /\ \A q \in Request \ {r} : upload'[q] = upload[q] /\ row'[q] = row[q]
        /\ upload'[r] = [upload[r] EXCEPT !.pc = pc]
        /\ row'[r] = "live" /\ row[r] = "none" /\ upload[r].pc = "create"
        /\ files' = files /\ queued' = queued \cup {r} /\ dropped' = dropped
    BY DEF Goto, InsertAll, At, Local
  <1>2. \A q \in Request : upload'[q].file = upload[q].file /\ upload'[q].saw = upload[q].saw
    BY <1>1
  <1>3. UploadType'
    BY <1>1 DEF Goto, InsertAll, Steps
  <1>4. \A q \in Request : Local(q)' /\ Stored(q)'
    BY <1>1, <1>2 DEF Local, Stored
  <1>5. \A d, e \in Request : Refused(d, e)'
    <2> SUFFICES ASSUME NEW d \in Request, NEW e \in Request, d \in upload[e].saw, d \in Kept',
                        d # e, ~dropped, upload[d].file = upload[e].file
                 PROVE  upload'[e].pc = "failed" /\ row'[e] = "none"
      BY <1>1, <1>2 DEF Refused
    <2>1. row[d] # "none"
      BY DEF Stored
    <2>2. d # r /\ d \in Kept
      BY <1>1, <2>1 DEF Kept
    <2>3. upload[e].pc = "failed" /\ row[e] = "none"
      BY <2>2 DEF Refused
    <2> QED BY <1>1, <2>3
  <1> QED BY <1>3, <1>4, <1>5

\* A deletion: documents leave Kept or stay as they are.
LEMMA DeletionKeepsInv ==
  ASSUME UploadInv, UNCHANGED <<upload, queued>>, row' \in [Request -> {"none", "live", "deleting", "hidden"}],
         \A d \in Request : \/ row'[d] = row[d]
                            \/ row[d] = "live" /\ row'[d] = "deleting"
                            \/ d \in Kept /\ row'[d] = "hidden",
         files' \subseteq files, \A d \in files : d \in files' \/ row[d] = "deleting",
         dropped' \in {dropped, TRUE}
  PROVE  UploadInv'
  <1> USE DEF UploadInv, UploadType
  <1>1. \A d \in Request : /\ row'[d] = "none" => row[d] = "none"
                           /\ row[d] = "none" => row'[d] = "none"
                           /\ row'[d] = "live" => row[d] = "live"
                           /\ d \in Kept' => d \in Kept
    BY DEF Kept
  <1> HIDE DEF UploadInv, UploadType
  <1>2. \A d \in Request : d \in files /\ row[d] \in {"none", "live"} => d \in files'
    OBVIOUS
  <1>3. UploadType'
    BY DEF UploadInv, UploadType
  <1>4. ASSUME NEW r \in Request PROVE Local(r)' /\ Stored(r)'
    <2>1. Local(r) /\ Stored(r) /\ upload[r].saw \subseteq Request
      BY <1>4 DEF UploadInv, UploadType
    <2> QED BY <1>1, <1>4, <1>2, <2>1 DEF Local, Stored
  <1>5. ASSUME NEW d \in Request, NEW e \in Request, d \in upload[e].saw, d \in Kept', d # e,
               dropped' = FALSE, upload[d].file = upload[e].file
        PROVE  upload[e].pc = "failed" /\ row'[e] = "none"
    <2>1. dropped = FALSE /\ Refused(d, e)
      BY <1>5 DEF UploadInv, UploadType
    <2>2. upload[e].pc = "failed" /\ row[e] = "none"
      BY <1>1, <1>5, <2>1 DEF Refused
    <2> QED BY <1>1, <1>5, <2>2
  <1>6. \A d, e \in Request : Refused(d, e)'
    BY <1>3, <1>5 DEF Refused, UploadType
  <1> QED BY <1>3, <1>4, <1>6 DEF UploadInv

\* LookUp keeps the invariant.
LEMMA LookUpKeepsInv ==
  ASSUME UploadInv, NEW r \in Request, LookUpName(r)
  PROVE  UploadInv'
  <1> USE DEF UploadInv, UploadType
  <1> DEFINE pc == IF NameTaken(upload[r].file) THEN "failed" ELSE "put"
  <1>1. /\ \A q \in Request \ {r} : upload'[q] = upload[q]
        /\ upload'[r] = [pc |-> pc, file |-> upload[r].file, saw |-> Kept]
        /\ upload[r].pc = "name" /\ row[r] = "none"
        /\ row' = row /\ files' = files /\ queued' = queued /\ dropped' = dropped
    BY DEF LookUpName, At, Local, store
  <1>2. Kept \subseteq Request /\ \A d \in Kept : row[d] # "none"
    BY DEF Kept
  <1>3. UploadType'
    BY <1>1, <1>2 DEF LookUpName, Steps
  <1>4. \A q \in Request : Local(q)' /\ Stored(q)'
    BY <1>1, <1>2 DEF Local, Stored
  <1>5. \A d, e \in Request : Refused(d, e)'
    <2> SUFFICES ASSUME NEW d \in Request, NEW e \in Request, d \in upload'[e].saw, d \in Kept,
                        d # e, ~dropped, upload'[d].file = upload'[e].file
                 PROVE  upload'[e].pc = "failed" /\ row[e] = "none"
      BY <1>1 DEF Refused, Kept
    <2>1. \A q \in Request : upload'[q].file = upload[q].file
      BY <1>1
    <2>2. CASE e = r
      <3>1. NameTaken(upload[r].file)
        BY <2>1, <2>2 DEF NameTaken
      <3> QED BY <1>1, <2>2, <3>1
    <2>3. CASE e # r
      BY <1>1, <2>1, <2>3 DEF Refused
    <2> QED BY <2>2, <2>3
  <1> QED BY <1>3, <1>4, <1>5

\* Receive keeps the invariant.
LEMMA ReceiveKeepsInv ==
  ASSUME UploadInv, NEW r \in Request, Receive(r)
  PROVE  UploadInv'
  <1> USE DEF UploadInv, UploadType
  <1>1. upload[r].pc = "idle" /\ upload[r].saw = {} /\ row[r] = "none"
    BY DEF Receive, At, Local
  <1>2. PICK pc \in {"subject", "failed"} :
          /\ \A q \in Request \ {r} : upload'[q] = upload[q]
          /\ upload'[r].pc = pc /\ upload'[r].saw = {}
          /\ upload' \in [Request -> [pc : Steps, file : Filename \cup {NoFilename},
                                     saw : SUBSET Request]]
    <2>1. CASE Goto(r, "failed")
      BY <1>1, <2>1 DEF Goto, Steps
    <2>2. CASE \E file \in Filename :
                 upload' = [upload EXCEPT ![r] = [pc |-> "subject", file |-> file, saw |-> {}]]
      BY <2>2 DEF Steps
    <2> QED BY <2>1, <2>2 DEF Receive
  <1>3. /\ row' = row /\ files' = files /\ queued' = queued /\ dropped' = dropped
        /\ r \notin Kept
    BY <1>1 DEF Receive, store, Kept
  <1>4. UploadType'
    BY <1>2, <1>3
  <1>5. \A q \in Request : Local(q)' /\ Stored(q)'
    BY <1>1, <1>2, <1>3 DEF Local, Stored
  <1>6. \A d, e \in Request : Refused(d, e)'
    BY <1>2, <1>3 DEF Refused, Kept
  <1> QED BY <1>4, <1>5, <1>6

\* UploadStep keeps the invariant.
LEMMA UploadStepKeepsInv == UploadInv /\ [Next]_vars => UploadInv'
  <1> SUFFICES ASSUME UploadInv, [Next]_vars PROVE UploadInv'
    OBVIOUS
  <1>1. ASSUME NEW r \in Request, FindSubject(r) \/ PutObject(r) \/ Fail(r) PROVE UploadInv'
    <2>1. Local(r)
      BY <1>1 DEF UploadInv
    <2>2. CASE FindSubject(r)
      <3>1. PICK pc \in {"failed", "name"} : Goto(r, pc)
        BY <2>2 DEF FindSubject
      <3> QED BY <1>1, <2>1, <2>2, <3>1, MoveKeepsInv
              DEF FindSubject, At, Local, store, Steps, UploadInv, UploadType
    <2>3. CASE PutObject(r)
      BY <1>1, <2>1, <2>3, MoveKeepsInv
         DEF PutObject, At, Local, store, Steps, UploadInv, UploadType
    <2>4. CASE Fail(r)
      <3>1. Goto(r, "failed") /\ upload[r].pc \in {"subject", "name", "put", "create"}
        BY <2>4 DEF Fail
      <3>2. CASE At(r, "create") /\ InsertAll(r)
        BY <1>1, <3>1, <3>2, InsertKeepsInv
      <3>3. CASE UNCHANGED store \/ (files' = files \cup {r} /\ UNCHANGED <<row, queued, dropped>>)
        BY <1>1, <3>1, <3>3, MoveKeepsInv DEF store, Steps, UploadInv, UploadType
      <3> QED BY <2>4, <3>2, <3>3 DEF Fail
    <2> QED BY <1>1, <2>2, <2>3, <2>4
  <1>2. ASSUME NEW r \in Request, CreateWithIndexTask(r) PROVE UploadInv'
    BY <1>2, InsertKeepsInv DEF CreateWithIndexTask
  <1>3. ASSUME NEW d \in Request, DeleteDocument(d) \/ RemoveObject(d) \/ CompleteDelete(d)
        PROVE  UploadInv'
    BY <1>3, DeletionKeepsInv
       DEF DeleteDocument, RemoveObject, CompleteDelete, Kept, UploadInv, UploadType
  <1>4. ASSUME NEW failed \in SUBSET Kept, ClearFailedByUser(failed) PROVE UploadInv'
    BY <1>4, DeletionKeepsInv DEF ClearFailedByUser, Kept, UploadInv, UploadType
  <1>5. CASE SoftDeleteByOwner
    BY <1>5, DeletionKeepsInv DEF SoftDeleteByOwner, Kept, UploadInv, UploadType
  <1>6. CASE UNCHANGED <<upload, store>>
    BY <1>6 DEF store, UploadInv, UploadType, Local, Stored, Refused, Kept
  <1>7. CASE \E r \in Request : Receive(r) \/ LookUpName(r)
    BY <1>7, ReceiveKeepsInv, LookUpKeepsInv
  <1> QED BY <1>1, <1>2, <1>3, <1>4, <1>5, <1>6, <1>7 DEF Next, vars

\* The invariant of uploads: what a request knows of its document, and that whoever saw a
\* kept document of its name has failed (DocumentUpload).
THEOREM UploadInvariance == Spec => []UploadInv
  <1>1. Init => UploadInv
    BY UploadStarts
  <1>2. UploadInv /\ [Next]_vars => UploadInv'
    BY UploadStepKeepsInv
  <1> QED BY <1>1, <1>2, PTL DEF Spec

\* A document that may be seen has its file and its task, whatever fails (DocumentUpload).
THEOREM FileAndTask == Spec => []StoredTogether
  <1>1. UploadInv => StoredTogether
    BY DEF UploadInv, StoredTogether, Local, Stored, At
  <1> QED BY <1>1, UploadInvariance, PTL

\* Only uploads at the same time can leave two documents of one name (DocumentUpload).
THEOREM NamesRepeatOnlyAtOnce == Spec => []DuplicatesOverlap
  <1>1. UploadInv => DuplicatesOverlap
    BY DEF UploadInv, DuplicatesOverlap, Refused, Kept
  <1> QED BY <1>1, UploadInvariance, PTL
=============================================================================
