---------------------------- MODULE RateLimiter ----------------------------
(***************************************************************************)
(* The sliding window that limits a user's requests of one scope            *)
(* (api/internal/infrastructure/ratelimit/limiter.go): a sorted set in      *)
(* Redis, changed by one script that runs alone, and the requests of all    *)
(* API processes that call it.                                              *)
(*                                                                          *)
(* The score of a request's member is the time of its call.  Redis's clock  *)
(* is taken to never step back.                                             *)
(***************************************************************************)
EXTENDS Integers, FiniteSets

CONSTANTS
  Request,  \* the user's requests of the scope
  Quota,    \* ChatQuota, RetrievalQuota or UploadQuota
  Period,   \* PeriodSeconds
  Second,   \* clock ticks of a second (1000 milliseconds in the code)
  MaxTime   \* bound: when the clock stops

ASSUME LimitsAssumption ==
  /\ IsFiniteSet(Request)
  /\ Quota \in Nat \ {0} /\ Period \in Nat \ {0} /\ Second \in Nat \ {0}
  /\ MaxTime \in Nat

VARIABLES
  now,      \* TIME
  members,  \* the key's sorted set
  expires,  \* when the key expires, or -1: there is no key
  call      \* request -> its verdict, when it was called, Retry-After

limiter == <<now, members, expires, call>>

Window   == Period * Second
Verdicts == {"none", "admitted", "refused", "unavailable"}

LimiterInit ==
  /\ now = 0
  /\ members = {}
  /\ expires = -1
  /\ call = [r \in Request |-> [verdict |-> "none", at |-> 0, retry |-> 0]]

-----------------------------------------------------------------------------
(* The script *)

\* ZREMRANGEBYSCORE leaves them.
Recent == {m \in members : call[m].at > now - Window}

\* Faulty: one request too many.
RoomForOneMore == Cardinality(Recent) <= Quota

Room == Cardinality(Recent) < Quota

Ceiling(n, d) == (n + d - 1) \div d
Larger(m, n)  == IF m < n THEN n ELSE m

\* Faulty: rounded down to whole seconds.
RetryRoundedDown(score) == Larger(1, (score + Window - now) \div Second)

\* The oldest member's remaining time in seconds, at least one.
RetryAfter(score) == Larger(1, Ceiling(score + Window - now, Second))

Oldest(score) == /\ \E m \in Recent : call[m].at = score
                 /\ \A m \in Recent : score <= call[m].at

\* What the script leaves: ZADD of the caller when there is room, PEXPIRE in any case.
RunScript(r) ==
  /\ members' = IF Room THEN Recent \cup {r} ELSE Recent
  /\ expires' = now + Window
  /\ UNCHANGED now

Answer(r, verdict, retry) ==
  /\ call[r].verdict = "none"
  /\ call' = [call EXCEPT ![r] = [verdict |-> verdict, at |-> now, retry |-> retry]]

\* Allow, as the middleware takes it: pass on, 429 with Retry-After, or 503.
Admit(r) == Room /\ RunScript(r) /\ Answer(r, "admitted", 0)

Refuse(r) ==
  /\ ~Room
  /\ RunScript(r)
  /\ \E score \in 0 .. now : Oldest(score) /\ Answer(r, "refused", RetryAfter(score))

\* The call of Redis fails; the script may have run all the same.
Unavailable(r) ==
  /\ RunScript(r) \/ UNCHANGED <<now, members, expires>>
  /\ Answer(r, "unavailable", 0)

\* Time passes; a key that expires takes its members along.
Tick ==
  /\ now < MaxTime
  /\ now' = now + 1
  /\ IF expires = now + 1
     THEN members' = {} /\ expires' = -1
     ELSE UNCHANGED <<members, expires>>
  /\ UNCHANGED call

LimiterNext == Tick \/ \E r \in Request : Admit(r) \/ Refuse(r) \/ Unavailable(r)

LimiterSpec == LimiterInit /\ [][LimiterNext]_limiter

-----------------------------------------------------------------------------
(* Properties *)

AdmittedIn(from, to) ==
  {r \in Request : call[r].verdict = "admitted" /\ call[r].at \in from .. to}

\* However requests are spread over time, in no window of PeriodSeconds are more than the
\* quota let through, although the key expires and refused calls renew it (the script).
NeverOverQuota ==
  \A t \in 0 .. now : Cardinality(AdmittedIn(t - Window + 1, t)) <= Quota

\* A client that waits as long as Retry-After says is not refused again on account of the
\* requests that had filled the window before it (the script's rounding).
RetryIsEnough ==
  \A r \in Request :
    call[r].verdict = "refused" /\ now >= call[r].at + call[r].retry * Second =>
      Cardinality({m \in Recent : call[m].at <= call[r].at}) < Quota
=============================================================================
