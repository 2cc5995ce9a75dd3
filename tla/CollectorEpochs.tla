---------------------------- MODULE CollectorEpochs ----------------------------
(***************************************************************************)
(* The tables public.operational_market_data_collector_epochs and          *)
(* ..._commands: the state machine of one epoch (domain.py) and the        *)
(* transactions of PostgresOperationalMarketDataCollectorRepository.       *)
(*                                                                         *)
(* Time is abstracted to "the lease has run out" (expired).  A record      *)
(* version is abstracted to whether a worker's snapshot is still the row   *)
(* (fresh, in CollectorWorkers): every write makes the others stale.  A    *)
(* renewal that succeeds leaves the row as it is here.                     *)
(***************************************************************************)
EXTENDS Naturals

CONSTANTS
    MaxEpochs,    \* bound: epochs started
    Workers,      \* worker processes that may run at the same time
    MaxCommands,  \* bound: PAUSE, RESUME and STOP commands of a behaviour
    MaxFaults,    \* bound: crashes, lapsed leases and failed calls
    Attempts,     \* tries of every optimistic write, 3 in the code
    NoOwner,      \* worker_id is null, the collection lock is free
    Gone          \* the worker id of a process that has ended

ASSUME EpochsAssumption == MaxEpochs \in Nat \ {0}
ASSUME WorkersAssumption == NoOwner \notin Workers /\ Gone \notin Workers /\ NoOwner # Gone
ASSUME BoundsAssumption == MaxCommands \in Nat /\ MaxFaults \in Nat /\ Attempts \in Nat \ {0}

Epochs == 1..MaxEpochs      \* in order of start_requested_at

VARIABLE row      \* row[e]: the persisted epoch e

-----------------------------------------------------------------------------
(* The observed states and their graph *)

DesiredState == {"RUNNING", "PAUSED", "STOPPED"}
TERMINAL == {"STOPPED", "FAILED"}
ClaimRequired == {"STARTING", "RUNNING", "RECOVERING", "STOPPING"}
ObservedState == ClaimRequired \cup {"PENDING", "PAUSED"} \cup TERMINAL

ALLOWED_OBSERVED_TRANSITIONS ==
    [PENDING    |-> {"STARTING", "PAUSED", "STOPPED", "FAILED"},
     STARTING   |-> {"RUNNING", "PAUSED", "RECOVERING", "STOPPING", "FAILED"},
     RUNNING    |-> {"PAUSED", "RECOVERING", "STOPPING", "FAILED"},
     PAUSED     |-> {"STARTING", "STOPPED", "FAILED"},
     RECOVERING |-> {"STARTING", "PAUSED", "STOPPING", "STOPPED", "FAILED"},
     STOPPING   |-> {"RECOVERING", "STOPPED", "FAILED"},
     STOPPED    |-> {},
     FAILED     |-> {}]

\* What PAUSE, RESUME and STOP make desired, by what is desired now.
ALLOWED_DESIRED_COMMANDS ==
    [RUNNING |-> {"PAUSED", "STOPPED"}, PAUSED |-> {"RUNNING", "STOPPED"}, STOPPED |-> {}]

Rows == [desired  : DesiredState,
         observed : ObservedState \cup {"ABSENT"},
         owner    : Workers \cup {NoOwner, Gone},   \* worker_claim.worker_id
         fence    : Nat,                            \* fencing_token
         expired  : BOOLEAN]                        \* lease_expires_at <= now

AbsentRow == [desired |-> "RUNNING", observed |-> "ABSENT", owner |-> NoOwner,
              fence |-> 0, expired |-> FALSE]

\* What the dataclass and the table's checks require of a row.
WellFormed(r) == /\ r.observed \in ClaimRequired <=> r.owner # NoOwner
                 /\ r.expired => r.owner # NoOwner
                 /\ r.owner # NoOwner => r.fence > 0
                 /\ r.observed = "STOPPED" => r.desired = "STOPPED"

NonTerminal(e) == row[e].observed \notin TERMINAL \cup {"ABSENT"}

-----------------------------------------------------------------------------
(* The transformations of the domain: may is the precondition, the other   *)
(* operator the new row.                                                   *)

MayClaim(r) == /\ r.desired = "RUNNING"
               /\ r.observed \in {"PENDING", "PAUSED"}
               /\ r.owner = NoOwner
Claimed(r, w) == [r EXCEPT !.observed = "STARTING", !.owner = w, !.fence = @ + 1]

MayRecover(r) == r.observed \in ClaimRequired /\ r.expired
\* (mutant) the new claim keeps the fence of the old one.
Recovered_SameFence(r, w) == [r EXCEPT !.observed = "RECOVERING", !.owner = w, !.expired = FALSE]
Recovered(r, w) == [r EXCEPT !.observed = "RECOVERING", !.owner = w,
                             !.fence = @ + 1, !.expired = FALSE]

\* mark_starting and mark_running.
MayAdvance(r, s) == /\ r.desired = "RUNNING"
                    /\ r.observed = IF s = "STARTING" THEN "RECOVERING" ELSE "STARTING"
MayStopping(r) == r.desired = "STOPPED" /\ r.observed \in {"STARTING", "RUNNING", "RECOVERING"}
MayPause(r) == r.desired = "PAUSED" /\ r.observed \in {"STARTING", "RUNNING", "RECOVERING"}
MayStop(r) == r.desired = "STOPPED" /\ r.observed \in {"STOPPING", "RECOVERING"}
InState(r, s) == [r EXCEPT !.observed = s]
Released(r, s) == [r EXCEPT !.observed = s, !.owner = NoOwner, !.expired = FALSE]

\* settle_unclaimed goes where the desired state says, if the graph lets it.
MaySettleUnclaimed(r) == /\ r.owner = NoOwner
                         /\ r.desired # "RUNNING"
                         /\ r.desired \in ALLOWED_OBSERVED_TRANSITIONS[r.observed]

-----------------------------------------------------------------------------
(* Transactions *)

\* start: the insert meets the unique index on the scope of live epochs.
InsertEpoch(e) == /\ row[e].observed = "ABSENT"
                  /\ \A f \in 1..(e - 1) : row[f].observed # "ABSENT"
                  /\ \A f \in Epochs : ~NonTerminal(f)
                  /\ row' = [row EXCEPT ![e].observed = "PENDING"]

\* (mutant) a stopped epoch can be resumed.
RequestCommand_AfterStop(e, d) ==
    /\ NonTerminal(e)
    /\ d \in (ALLOWED_DESIRED_COMMANDS[row[e].desired] \cup {"RUNNING"}) \ {row[e].desired}
    /\ row' = [row EXCEPT ![e].desired = d]
\* request_command of an administrator who read the present version.
RequestCommand(e, d) ==
    /\ NonTerminal(e)
    /\ d \in ALLOWED_DESIRED_COMMANDS[row[e].desired]
    /\ row' = [row EXCEPT ![e].desired = d]

Update(e, r) == row' = [row EXCEPT ![e] = r]
===============================================================================
