---------------------------- MODULE PaperRunEpochs ----------------------------
(***************************************************************************)
(* The tables public.operational_paper_session_run_epochs and ..._commands *)
(* of one paper session: the state machine of a run epoch (domain.py) and  *)
(* the transactions of PostgresOperationalPaperSessionRunRepository.       *)
(*                                                                         *)
(* The graph is that of the collector epochs; what differs is who may      *)
(* resume, how an unclaimed epoch settles, that a worker recovers its own  *)
(* expired lease, and the upstream authority a run needs: its activation,  *)
(* materialization, authorization, profile and mandate, here one bit that  *)
(* an administrator's revocation clears for good.                          *)
(***************************************************************************)
EXTENDS Naturals

CONSTANTS
    MaxEpochs,    \* bound: epochs started for the session
    Workers,      \* worker processes that may run at the same time
    MaxCommands,  \* bound: PAUSE, RESUME and STOP commands of a behaviour
    MaxFaults,    \* bound: crashes, lapsed leases, failed calls and cycles
    Attempts,     \* tries of every optimistic write, 3 in the code
    NoOwner,      \* worker_id is null, the session lock is free
    Gone          \* the worker id of a process that has ended

ASSUME EpochsAssumption == MaxEpochs \in Nat \ {0}
ASSUME WorkersAssumption == NoOwner \notin Workers /\ Gone \notin Workers /\ NoOwner # Gone
ASSUME BoundsAssumption == MaxCommands \in Nat /\ MaxFaults \in Nat /\ Attempts \in Nat \ {0}

Epochs == 1..MaxEpochs      \* in order of start_requested_at

VARIABLES
    row,        \* row[e]: the persisted epoch e
    authority   \* the session's activation and all it rests on are valid

-----------------------------------------------------------------------------
DesiredState == {"RUNNING", "PAUSED", "STOPPED"}
TERMINAL == {"STOPPED", "FAILED"}
ClaimRequired == {"STARTING", "RUNNING", "RECOVERING", "STOPPING"}
ObservedState == ClaimRequired \cup {"PENDING", "PAUSED"} \cup TERMINAL

\* What PAUSE, RESUME and STOP make desired, by what is desired now.
ALLOWED_DESIRED_COMMANDS ==
    [RUNNING |-> {"PAUSED", "STOPPED"}, PAUSED |-> {"RUNNING", "STOPPED"}, STOPPED |-> {}]

Rows == [desired  : DesiredState,
         observed : ObservedState \cup {"ABSENT"},
         owner    : Workers \cup {NoOwner, Gone},   \* worker_claim.worker_id
         fence    : Nat,                            \* fencing_token
         expired  : BOOLEAN]                        \* lease_expires_at <= now

AbsentRow == [desired |-> "RUNNING", observed |-> "ABSENT", owner |-> NoOwner,
              fence |-> 0, expired |-> FALSE]

\* What the dataclass and the table's checks require of a row.
WellFormed(r) == /\ r.observed \in ClaimRequired <=> r.owner # NoOwner
                 /\ r.expired => r.owner # NoOwner
                 /\ r.owner # NoOwner => r.fence > 0
                 /\ r.observed \in {"STOPPING", "STOPPED"} => r.desired = "STOPPED"

NonTerminal(e) == row[e].observed \notin TERMINAL \cup {"ABSENT"}

-----------------------------------------------------------------------------
(* The transformations of the domain *)

MayClaim(r) == /\ r.desired = "RUNNING"
               /\ r.observed \in {"PENDING", "PAUSED"}
               /\ r.owner = NoOwner
Claimed(r, w) == [r EXCEPT !.observed = "STARTING", !.owner = w, !.fence = @ + 1]

\* (mutant) an epoch that was stopping cannot be recovered.
MayRecover_NotStopping(r) == r.observed \in ClaimRequired \ {"STOPPING"} /\ r.expired
MayRecover(r) == r.observed \in ClaimRequired /\ r.expired
\* (mutant) a worker that recovers its own lease keeps its fence.
Recovered_OwnFence(r, w) == [r EXCEPT !.observed = "RECOVERING", !.owner = w,
                                      !.fence = IF r.owner = w THEN @ ELSE @ + 1, !.expired = FALSE]
Recovered(r, w) == [r EXCEPT !.observed = "RECOVERING", !.owner = w,
                             !.fence = @ + 1, !.expired = FALSE]

MayStarting(r) == r.desired = "RUNNING" /\ r.observed = "RECOVERING"
MayRunning(r) == r.desired = "RUNNING" /\ r.observed = "STARTING"
MayStopping(r) == r.desired = "STOPPED" /\ r.observed \in {"STARTING", "RUNNING", "RECOVERING"}
MayPause(r) == r.desired = "PAUSED" /\ r.observed \in {"STARTING", "RUNNING", "RECOVERING"}
MayStop(r) == r.desired = "STOPPED" /\ r.observed = "STOPPING"
InState(r, s) == [r EXCEPT !.observed = s]
Released(r, s) == [r EXCEPT !.observed = s, !.owner = NoOwner, !.expired = FALSE]

\* settle_unclaimed: an epoch that is already PAUSED stays so.
SettledUnclaimed(r) == InState(r, r.desired)

-----------------------------------------------------------------------------
(* Transactions *)

\* start: no other epoch of the session is live, the activation AUTHORIZED.
InsertEpoch(e) == /\ row[e].observed = "ABSENT"
                  /\ \A f \in 1..(e - 1) : row[f].observed # "ABSENT"
                  /\ \A f \in Epochs : ~NonTerminal(f)
                  /\ authority
                  /\ row' = [row EXCEPT ![e].observed = "PENDING"]

\* (mutant) a run is resumed before it has paused.
RequestCommand_ResumeEarly(e, d) ==
    /\ NonTerminal(e)
    /\ d \in ALLOWED_DESIRED_COMMANDS[row[e].desired]
    /\ d = "RUNNING" => authority
    /\ row' = [row EXCEPT ![e].desired = d]
\* request_command of an administrator who read the present version; to
\* resume, the service wants the epoch PAUSED and its authority valid.
RequestCommand(e, d) ==
    /\ NonTerminal(e)
    /\ d \in ALLOWED_DESIRED_COMMANDS[row[e].desired]
    /\ d = "RUNNING" => row[e].observed = "PAUSED" /\ authority
    /\ row' = [row EXCEPT ![e].desired = d]

\* validate_execution_eligibility, one of its two readings.
Eligible(r) == /\ r.desired = "RUNNING"
               /\ r.observed \notin TERMINAL \cup {"PAUSED", "STOPPING"}
               /\ authority

Update(e, r) == row' = [row EXCEPT ![e] = r]
===============================================================================
