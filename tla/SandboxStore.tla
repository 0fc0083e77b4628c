---------------------------- MODULE SandboxStore ----------------------------
(***************************************************************************)
(* The rows of the `sandboxes` table and the statements of                 *)
(* backend/internal/store/sandbox.go that change them.  Each operator is   *)
(* one UPDATE: it takes the row as it is when the statement runs, applies  *)
(* its WHERE clause, and returns the row afterwards.  SQLite runs one      *)
(* statement at a time, so an operator is one atomic step of its caller.   *)
(*                                                                         *)
(* Columns that no decision of the program depends on (reasons, error      *)
(* texts, updated_at, the attempt counter, which only feeds the backoff)   *)
(* are left out.  Times are kept as what the program reads from them:      *)
(*   age       the time since deletion_started_at, -1 for NULL;            *)
(*   retry     whether deletion_next_retry_at is NULL, due or later;       *)
(*   deletedAt whether deleted_at is set.                                  *)
(***************************************************************************)
EXTENDS Integers

CONSTANT MaxAge   \* the age at which every deletion timeout has passed

ASSUME MaxAgeAssumption == MaxAge \in Nat

DesiredStates == {"active", "deleted"}

Lifecycles == {"creating", "pending", "running", "succeeded", "failed",
               "terminating", "stopped", "lost", "unknown", "deleted"}

\* DeletionPhase* constants; "" is the column's default.
DeletionPhases == {"", "requested", "quiescing_runtime", "deleting_storage",
                   "force_cleanup", "verifying", "completed"}

RetryTimes == {"null", "due", "later"}

ForceLevels == 0..3

\* The columns the deletion of a sandbox reads and writes.
DeletionRow == [desired   : DesiredStates,
                lifecycle : Lifecycles,
                phase     : DeletionPhases,
                age       : -1..MaxAge,
                retry     : RetryTimes,
                force     : ForceLevels,
                deletedAt : BOOLEAN]

\* The deletion columns of a row that Create inserts and the cluster has
\* brought up.
ActiveRow == [desired |-> "active", lifecycle |-> "running", phase |-> "",
              age |-> -1, retry |-> "null", force |-> 0, deletedAt |-> FALSE]

-----------------------------------------------------------------------------
\* Time passing, as the row's columns see it.

AgeRow(row) ==
    [row EXCEPT !.age = IF @ \in 0..(MaxAge - 1) THEN @ + 1 ELSE @]

RetryComesDue(row) == [row EXCEPT !.retry = "due"]

-----------------------------------------------------------------------------
\* Statements of the deletion state machine.

\* Mutant: a row that is deleted already is marked again.
MarkDeletionRequested_Always(row) ==
    [row EXCEPT !.desired = "deleted", !.lifecycle = "terminating",
                !.deletedAt = FALSE, !.phase = "requested",
                !.age = IF @ = -1 THEN 0 ELSE @, !.retry = "due", !.force = 0]

MarkDeletionRequested(row) ==
    IF row.lifecycle = "deleted" THEN row
    ELSE [row EXCEPT !.desired   = "deleted",
                     !.lifecycle = "terminating",
                     !.deletedAt = FALSE,
                     !.phase     = "requested",
                     !.age       = IF @ = -1 THEN 0 ELSE @,
                     !.retry     = "due",
                     !.force     = 0]

AdvanceDeletionPhase(row, phase) == [row EXCEPT !.phase = phase]

RecordDeletionAttempt(row, forceLevel, nextRetry) ==
    [row EXCEPT !.force = forceLevel, !.retry = nextRetry]

\* Mutant: the row is finished but its phase is not.
MarkDeletionCompleted_KeepsPhase(row) ==
    [row EXCEPT !.desired = "deleted", !.lifecycle = "deleted",
                !.deletedAt = TRUE, !.retry = "null"]

MarkDeletionCompleted(row) ==
    [row EXCEPT !.desired   = "deleted",
                !.lifecycle = "deleted",
                !.deletedAt = TRUE,
                !.phase     = "completed",
                !.retry     = "null"]

\* Mutant: desired_state is not looked at.
PendingDeletion_AnyDesired(row) ==
    row.lifecycle # "deleted" /\ row.phase # "completed" /\ row.retry # "later"

\* The WHERE clause of ListPendingDeletion.
PendingDeletion(row) ==
    /\ row.desired = "deleted"
    /\ row.lifecycle # "deleted"
    /\ row.phase # "completed"
    /\ row.retry # "later"

\* The WHERE clause of ListExpiredActive; whether the TTL has passed is left
\* open.
Expirable(row) ==
    /\ row.desired = "active"
    /\ row.lifecycle \notin {"deleted", "terminating", "stopped"}

\* What PurgeHistoricalData may remove once deleted_at is past the cutoff.
Purgeable(row) ==
    /\ row.lifecycle = "deleted"
    /\ row.phase \in {"completed", ""}
    /\ row.deletedAt

-----------------------------------------------------------------------------
(* Statements that set the lifecycle status.  UpdateObservedState and      *)
(* UpdateObservedStateIfActive differ from the two below in the pod        *)
(* columns only.  A row of the table also has `stopped`: whether           *)
(* stopped_at is set.                                                      *)

SandboxRow == [desired   : DesiredStates,
               lifecycle : Lifecycles,
               phase     : DeletionPhases,
               age       : -1..MaxAge,
               retry     : RetryTimes,
               force     : ForceLevels,
               deletedAt : BOOLEAN,
               stopped   : BOOLEAN]

UpdateStatus(row, status) == [row EXCEPT !.lifecycle = status]

\* Mutant: the WHERE clause only has the id.
UpdateStatusIfActive_Always(row, status) == [row EXCEPT !.lifecycle = status]

UpdateStatusIfActive(row, status) ==
    IF row.desired = "active" /\ row.lifecycle # "deleted"
    THEN [row EXCEPT !.lifecycle = status]
    ELSE row

SetStopped(row) == [row EXCEPT !.lifecycle = "stopped", !.stopped = TRUE]

SetStarted(row) == [row EXCEPT !.lifecycle = "pending", !.stopped = FALSE]

EnsureStoppedAt(row) == [row EXCEPT !.stopped = TRUE]

=============================================================================
