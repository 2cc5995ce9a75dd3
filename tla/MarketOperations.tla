--------------------------- MODULE MarketOperations ---------------------------
(***************************************************************************)
(* The table public.market_data_operations and the short transactions of   *)
(* PostgresMarketOperationRepository on it: submission, administrator      *)
(* controls, the three claim queries, lease renewal, progress and the      *)
(* final writes.  Every transaction is one step, except the two claims     *)
(* that select a row under READ COMMITTED and only meet the unique indexes *)
(* when they write it.                                                     *)
(*                                                                         *)
(* Time is abstracted to "this lease has run out" (expired), a version     *)
(* number to whether the owner's snapshot carries the present one          *)
(* (current), and the fresh owner uuid of every worker process to the      *)
(* worker itself while it lives and to Gone once it does not.              *)
(***************************************************************************)
EXTENDS Integers, FiniteSets

CONSTANTS
    Ops,        \* operation ids, numbered in order of (created_at, id)
    DatasetOf,  \* the dataset_id of each operation
    Chunks,     \* chunks_planned of every operation
    ControlledOps,  \* bound: operations administrators pause, resume or cancel
    Workers,    \* worker processes that may run at the same time
    NoOwner,    \* lease_owner is null, a lock is free
    Gone        \* a lease owner whose process has ended

ASSUME OpsAssumption == Ops \subseteq Nat
ASSUME ChunksAssumption == Chunks \in Nat \ {0}
ASSUME WorkersAssumption == NoOwner \notin Workers /\ Gone \notin Workers /\ NoOwner # Gone

VARIABLE row    \* row[o]: the persisted operation o

-----------------------------------------------------------------------------
(* Rows and the transition matrix *)

ControlStates == {"PAUSE_REQUESTED", "CANCEL_REQUESTED"}
TERMINAL_OPERATION_STATES == {"COMPLETED", "FAILED", "CANCELLED"}
OperationStates == {"PENDING", "CLAIMED", "RUNNING", "PAUSED", "RECOVERING"}
                     \cup ControlStates \cup TERMINAL_OPERATION_STATES
CLEAR_LEASE_STATES == {"PENDING", "PAUSED"} \cup TERMINAL_OPERATION_STATES

Owners == Workers \cup {NoOwner, Gone}

Rows == [status  : OperationStates \cup {"ABSENT"},
         owner   : Owners,             \* lease_owner
         expired : BOOLEAN,            \* lease_expires_at <= now
         lock    : Workers \cup {NoOwner},  \* row lock of an open claim
         started : BOOLEAN,            \* started_at is not null
         bound   : BOOLEAN,            \* local_job_id is not null
         done    : 0..Chunks,          \* chunks_completed
         current : BOOLEAN]            \* the owner knows this version

AbsentRow == [status |-> "ABSENT", owner |-> NoOwner, expired |-> FALSE,
              lock |-> NoOwner, started |-> FALSE, bound |-> FALSE,
              done |-> 0, current |-> FALSE]

NormalTransitions(s) ==
    CASE s = "PENDING" -> {"CLAIMED"} \cup ControlStates
      [] s = "CLAIMED" -> {"RUNNING", "FAILED"} \cup ControlStates
      [] s = "RUNNING" -> {"COMPLETED", "FAILED"} \cup ControlStates
      [] s = "PAUSE_REQUESTED" -> {"PAUSED", "COMPLETED", "FAILED"}
      [] s = "PAUSED" -> {"PENDING", "CANCEL_REQUESTED"}
      [] s = "CANCEL_REQUESTED" -> {"CANCELLED", "COMPLETED", "FAILED"}
      [] OTHER -> {}

\* What reconcile may make of a RECOVERING row.
ReconcileTargets == {"RUNNING", "PAUSED"} \cup TERMINAL_OPERATION_STATES

\* Rows of the partial unique index on dataset_id.
ActiveRow(r) == \/ r.status \in {"CLAIMED", "RUNNING", "RECOVERING"}
                \/ r.status \in ControlStates /\ r.owner # NoOwner

DatasetBusy(o) == \E p \in Ops : DatasetOf[p] = DatasetOf[o] /\ ActiveRow(row[p])
OwnsNothing(w) == \A p \in Ops : row[p].owner # w

\* (mutant) only the index on lease_owner.
UniqueIndexesAdmit_OwnerOnly(o, w) == \A p \in Ops \ {o} : row[p].owner # w
\* The two unique indexes let o become active under w.
UniqueIndexesAdmit(o, w) ==
    \A p \in Ops \ {o} : /\ ~(DatasetOf[p] = DatasetOf[o] /\ ActiveRow(row[p]))
                         /\ row[p].owner # w

Oldest(S) == CHOOSE o \in S : \A p \in S : o <= p

-----------------------------------------------------------------------------
(* Writes: version + 1, so only a writer that keeps the lease knows it *)

WriteAsOwner(o, r) == row' = [row EXCEPT ![o] = [r EXCEPT !.current = (r.owner # NoOwner)]]
WriteAsOther(o, r) == row' = [row EXCEPT ![o] = [r EXCEPT !.current = FALSE]]

\* The row in state s, its lease cleared when s never carries one.
InState(r, s) ==
    IF s \in CLEAR_LEASE_STATES
    THEN [r EXCEPT !.status = s, !.owner = NoOwner, !.expired = FALSE]
    ELSE [r EXCEPT !.status = s]

Leased(r, w) == [r EXCEPT !.owner = w, !.expired = FALSE, !.lock = NoOwner]

\* _locked_operation and _require_owned_active_lease both pass.
MayWrite(o, w) == /\ row[o].owner = w
                  /\ row[o].current
                  /\ ~row[o].expired

-----------------------------------------------------------------------------
(* Administrators *)

\* create_idempotently inserts a new row; a retry of the key finds it.
Submit(o) ==
    /\ row[o].status = "ABSENT"
    /\ \A p \in Ops : p < o => row[p].status # "ABSENT"
    /\ WriteAsOther(o, InState(row[o], "PENDING"))

\* (mutant) any state may follow any other.
RequestControl_Unchecked(o, target) ==
    /\ o \in ControlledOps
    /\ row[o].lock = NoOwner
    /\ WriteAsOther(o, InState(row[o], target))
\* pause, cancel and resume: request_state without an owner.
RequestControl(o, target) ==
    /\ o \in ControlledOps
    /\ row[o].lock = NoOwner
    /\ target \in NormalTransitions(row[o].status)
    /\ WriteAsOther(o, InState(row[o], target))

RequestPause(o) == RequestControl(o, "PAUSE_REQUESTED")
RequestCancel(o) == RequestControl(o, "CANCEL_REQUESTED")
RequestResume(o) == RequestControl(o, "PENDING")

\* Time passes the expiry of a lease nobody renewed.
LeaseExpires(o) ==
    /\ row[o].owner # NoOwner
    /\ ~row[o].expired
    /\ row' = [row EXCEPT ![o].expired = TRUE]

-----------------------------------------------------------------------------
(* Worker transactions *)

\* get by the owner: its snapshot carries the present version.
ReadRow(o, w) == row[o].owner = w /\ row' = [row EXCEPT ![o].current = TRUE]

\* (mutant) expired controls are left to their owner.
ExpiredRows_NoControls == {o \in Ops : row[o].expired /\ row[o].status \in {"CLAIMED", "RUNNING"}}
ExpiredRows == {o \in Ops : row[o].expired
                              /\ row[o].status \in {"CLAIMED", "RUNNING"} \cup ControlStates}
AbandonedRecoveries == {o \in Ops : row[o].status = "RECOVERING"
                              /\ (row[o].owner = NoOwner \/ row[o].expired)}

\* claim_next_expired: an interrupted recovery first, else the earliest
\* expiry, which is any of them here.
ClaimNextExpired(o, w) ==
    /\ OwnsNothing(w)
    /\ o \in (IF AbandonedRecoveries # {} THEN AbandonedRecoveries ELSE ExpiredRows)
    /\ WriteAsOwner(o, Leased([row[o] EXCEPT !.status = "RECOVERING"], w))

NothingToRecover(w) == OwnsNothing(w) => AbandonedRecoveries \cup ExpiredRows = {}

\* The two categories of settle_or_claim_next_unclaimed_control.
NeverStartedControls ==
    {o \in Ops : /\ row[o].status \in ControlStates
                 /\ row[o].owner = NoOwner
                 /\ row[o].lock = NoOwner
                 /\ ~row[o].started /\ ~row[o].bound /\ row[o].done = 0}
BoundControls(w) ==
    {o \in Ops : /\ row[o].status \in ControlStates
                 /\ row[o].owner = NoOwner
                 /\ row[o].lock = NoOwner
                 /\ row[o].started /\ row[o].bound
                 /\ OwnsNothing(w) /\ ~DatasetBusy(o)}
UnclaimedControls(w) == NeverStartedControls \cup BoundControls(w)

SettleNeverStarted(o, w) ==
    /\ o \in NeverStartedControls
    /\ o = Oldest(UnclaimedControls(w))
    /\ WriteAsOther(o, InState(row[o], IF row[o].status = "PAUSE_REQUESTED"
                                       THEN "PAUSED" ELSE "CANCELLED"))

\* claim_next's candidates.
PendingCandidates(w) ==
    {o \in Ops : /\ row[o].status = "PENDING"
                 /\ row[o].lock = NoOwner
                 /\ OwnsNothing(w) /\ ~DatasetBusy(o)}

\* "for update skip locked limit 1": the candidate is chosen and locked ...
LockRow(o, w) == row' = [row EXCEPT ![o].lock = w]
UnlockRow(o) == row' = [row EXCEPT ![o].lock = NoOwner]

\* ... and written, unless a unique index already knows a winner.
ClaimLocked(o, w, status) ==
    /\ UniqueIndexesAdmit(o, w)
    /\ WriteAsOwner(o, Leased([row[o] EXCEPT !.status = status,
                                       !.started = TRUE], w))

RenewLease(o, w) ==
    /\ MayWrite(o, w)
    /\ WriteAsOwner(o, row[o])

UpdateProgress(o, w, n) ==
    /\ MayWrite(o, w)
    /\ n >= row[o].done
    /\ WriteAsOwner(o, [row[o] EXCEPT !.done = n, !.bound = TRUE])

\* request_state to RUNNING, PAUSED or CANCELLED by the owner, complete, fail.
MayRequestState(o, w, target) ==
    /\ MayWrite(o, w)
    /\ target \in NormalTransitions(row[o].status)
RequestState(o, w, target) ==
    /\ MayRequestState(o, w, target)
    /\ WriteAsOwner(o, InState(row[o], target))

\* reconcile; progress n of a verified local job is published with it.
MayReconcile(o, w, n) == MayWrite(o, w) /\ row[o].status = "RECOVERING"
                            /\ (n >= 0 => n >= row[o].done)
Reconcile(o, w, target, n) ==
    /\ MayReconcile(o, w, n)
    /\ target \in ReconcileTargets
    /\ WriteAsOwner(o, InState(IF n < 0 THEN row[o]
                         ELSE [row[o] EXCEPT !.done = n, !.bound = TRUE], target))

\* The process of w ends: its uuid will never be seen again.
AbandonRows(w) ==
    row' = [o \in Ops |-> [row[o] EXCEPT !.owner = IF @ = w THEN Gone ELSE @,
                                         !.lock = IF @ = w THEN NoOwner ELSE @,
                                         !.current = @ /\ row[o].owner # w]]
=============================================================================
