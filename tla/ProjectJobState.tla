--------------------------- MODULE ProjectJobState ---------------------------
(***************************************************************************)
(* The rows of the tables projectJobs and projects, the predicates the     *)
(* server evaluates on them and the UPDATEs it issues, each as one         *)
(* operator on a row (server/services/project/projectJobState.ts,          *)
(* projectJobLease.ts, projectJobHeartbeat.ts and the SET clauses of       *)
(* projectWorkflow.ts and projectJobRecovery.ts).                          *)
(*                                                                         *)
(* Times are ticks of a shared clock; 0 stands for a NULL timestamp.       *)
(***************************************************************************)
EXTENDS Integers

CONSTANTS Projects,     \* ids of the rows of table projects
          Servers,      \* server processes; a process signs with its own id
          MaxJobs,      \* bound: ids 1..MaxJobs of the rows of projectJobs
          MaxAttempts,  \* PROJECT_JOB_MAX_ATTEMPTS
          LeaseTicks,   \* PROJECT_JOB_LEASE_MS, in ticks
          Nobody,       \* lockedBy IS NULL
          NoProject     \* projectId of a row that does not exist

ASSUME JobConstants ==
  /\ MaxJobs \in Nat \ {0}
  /\ MaxAttempts \in Nat \ {0}
  /\ LeaseTicks \in Nat \ {0}
  /\ Nobody \notin Servers
  /\ NoProject \notin Projects

JobIds == 1..MaxJobs

\* An import_zip job reads an uploaded temporary file; an inline ZIP payload
\* has no file and takes the steps of import_git.
ImportTypes == {"import_zip", "import_git"}
JobTypes    == ImportTypes \cup {"analyze"}

ActiveStatuses   == {"queued", "running"}
TerminalStatuses == {"completed", "failed"}
JobStatuses      == {"none"} \cup ActiveStatuses \cup TerminalStatuses

BusyStatuses    == {"importing", "analyzing"}
ProjectStatuses == {"draft", "ready", "completed", "failed"} \cup BusyStatuses

Row == [project      : Projects \cup {NoProject},
        type         : JobTypes,
        status       : JobStatuses,
        activeKey    : BOOLEAN,
        lockedBy     : Servers \cup {Nobody},
        leaseUntil   : Nat,
        attemptCount : 0..MaxAttempts,
        payload      : BOOLEAN]

NoRow == [project |-> NoProject, type |-> "analyze", status |-> "none",
          activeKey |-> FALSE, lockedBy |-> Nobody, leaseUntil |-> 0,
          attemptCount |-> 0, payload |-> FALSE]

(***************************************************************************)
(* The state machine of a project.                                         *)
(***************************************************************************)
NextStatuses(status) ==
  CASE status = "draft"     -> {"importing", "failed"}
    [] status = "importing" -> {"ready", "failed"}
    [] status = "ready"     -> {"importing", "analyzing", "failed"}
    [] status = "analyzing" -> {"completed", "failed"}
    [] status = "completed" -> {"importing", "analyzing", "failed"}
    [] status = "failed"    -> {"importing", "analyzing"}
    [] OTHER                -> {}

\* assertProjectTransition does not throw.
MayBecome(status, next) ==
  status \in ProjectStatuses /\ (status = next \/ next \in NextStatuses(status))

\* The statuses createQueuedProjectJob accepts, and the one it leaves.
AllowedFor(type) ==
  IF type = "analyze" THEN {"ready", "completed", "failed"}
                      ELSE {"draft", "ready", "completed", "failed"}
BusyWith(type) == IF type = "analyze" THEN "analyzing" ELSE "importing"

(***************************************************************************)
(* Predicates on a job row.                                                *)
(***************************************************************************)
\* Variant for the mutants: every job that exists counts as active.
EveryRowIsActive(row) == row.status # "none"
IsActive(row)         == row.status \in ActiveStatuses
\* Variant for the mutants: the expiry is taken a tick too early.
LeaseExpiresEarly(row, now) == row.status = "running" /\ row.leaseUntil <= now + 1
IsLeaseExpired(row, now) == row.status = "running" /\ row.leaseUntil <= now
IsBlocking(row, now)     == IsActive(row) /\ ~IsLeaseExpired(row, now)
CanRetry(row)            == row.attemptCount < MaxAttempts

\* Variants for the mutants: the retry budget, the expired leases forgotten.
ClaimableBeyondBudget(row, now) == row.status = "queued" \/ IsLeaseExpired(row, now)
ClaimableOnlyQueued(row, now)   == CanRetry(row) /\ row.status = "queued"

\* The WHERE clause of a claim; rows without a lease are only left by
\* versions of the server that had none and are not in this model.
IsClaimable(row, now) ==
  CanRetry(row) /\ (row.status = "queued" \/ IsLeaseExpired(row, now))

\* The fence: status, lockedBy and attemptCount of the WHERE clauses.
IsHeldBy(row, owner, attempt) ==
  row.status = "running" /\ row.lockedBy = owner /\ row.attemptCount = attempt

\* isProjectJobOwnershipActive: the fence, and a lease that still runs.
IsOwnershipActive(row, owner, attempt, now) ==
  IsHeldBy(row, owner, attempt) /\ row.leaseUntil > now

(***************************************************************************)
(* The writes.                                                             *)
(***************************************************************************)
QueuedRow(project, type) ==
  [project |-> project, type |-> type, status |-> "queued",
   activeKey |-> TRUE, lockedBy |-> Nobody, leaseUntil |-> 0,
   attemptCount |-> 0, payload |-> TRUE]

Claimed(row, owner, attempt, now) ==
  [row EXCEPT !.status = "running", !.lockedBy = owner,
              !.leaseUntil = now + LeaseTicks, !.attemptCount = attempt]

\* Variant for the mutants: a renewal that forgets the length of the lease.
RenewedToNow(row, now) == [row EXCEPT !.leaseUntil = now]
Renewed(row, now) == [row EXCEPT !.leaseUntil = now + LeaseTicks]

Finished(row, status) ==
  [row EXCEPT !.status = status, !.activeKey = FALSE, !.payload = FALSE,
              !.lockedBy = Nobody, !.leaseUntil = 0]

\* Variant for the mutants: given back, but still locked.
RequeuedLocked(row) == [row EXCEPT !.status = "queued"]
Requeued(row) ==
  [row EXCEPT !.status = "queued", !.lockedBy = Nobody, !.leaseUntil = 0]

WithoutKey(row) == [row EXCEPT !.activeKey = FALSE]
=============================================================================
