------------------------------ MODULE TaskRow ------------------------------
(***************************************************************************)
(* One row of index_tasks and what each statement of IndexTaskRepo does to  *)
(* it (api/internal/repository/postgres/indextaskrepo.go).  Every statement *)
(* is one guarded UPDATE, so it is a guard on the row and a new row.  The   *)
(* lease is "live" until lease_expires_at passes, then "lapsed"; "null" is  *)
(* SQL's NULL.                                                              *)
(***************************************************************************)
EXTENDS Status

Leases == {"null", "live", "lapsed"}

NoRow  == [status |-> "none", retries |-> 0, lease |-> "null"]
NewRow == [status |-> "pending", retries |-> 0, lease |-> "null"]

Rows == [status: TaskStatuses \cup {"none"}, retries: Nat, lease: Leases]

Unfinished(row) == row.status \in {"pending", "running"}
Terminal(row)   == row.status \in {"success", "failed"}

Claimable(row) ==
  \/ row.status = "pending"
  \/ row.status = "running" /\ row.lease # "live"

Claimed(row) == [row EXCEPT !.status = "running", !.lease = "live"]

\* UpdateStatus
CanMove(row, next) == row.status \in TaskPreviousStatuses(next)
Moved(row, next)   == [row EXCEPT !.status = next, !.lease = "null"]

\* ScheduleRetry and the user's Retry differ in what they accept only.
CanScheduleRetry(row, maxRetries) ==
  /\ row.retries < maxRetries
  /\ row.status \in {"running", "failed"}

CanRetry(row) == row.status = "failed"

\* Faulty: the retry is not counted.
BackToPendingUncounted(row) == [row EXCEPT !.status = "pending", !.lease = "null"]

BackToPending(row) ==
  [row EXCEPT !.status = "pending", !.retries = row.retries + 1,
              !.lease = "null"]
=============================================================================
