---------------------------- MODULE PaperRunWorkers ----------------------------
(***************************************************************************)
(* Supervisors that poll the run epochs of a paper session, the worker     *)
(* that drives an epoch for one cycle per poll, its administrators, and    *)
(* the session lock under which a cycle replays and publishes the session. *)
(*                                                                         *)
(* A read and the optimistic write it prepares are two steps, the write    *)
(* named as the read with "!".  Eligibility is read twice, around the      *)
(* validation of the local files, before an epoch runs and before every    *)
(* cycle; the cycle itself is a thread that nothing stops.  A renewal      *)
(* that succeeds leaves the row as it is here.                             *)
(***************************************************************************)
EXTENDS PaperRunEpochs, FiniteSets

VARIABLES
    wk,        \* wk[w]: what run_epoch of worker w is doing
    lock,      \* holder of the session lock
    late,      \* late[w]: cycles w began since the authority was lost
    commands,  \* commands so far
    faults     \* faults so far

vars == <<row, authority, wk, lock, late, commands, faults>>
bounds == <<commands, faults>>

Writes == {"claim", "settle", "recover", "starting!", "running!", "pause!",
           "stopping!", "stop!", "fail!"}
Points == {"idle", "starting", "prepare1", "prepare2", "check", "running",
           "loop1", "loop2", "own", "lock", "cycling", "after",
           "pause", "stop", "fail"} \cup Writes

Sessions == [pc    : Points,
             epoch : Epochs,
             fence : Nat,
             fresh : BOOLEAN,        \* the row is as last read
             tries : 0..Attempts,    \* conflicts of this write
             from  : {"start", "prepare", "loop", "cycle"}]  \* the boundary's caller

Idle == [pc |-> "idle", epoch |-> 1, fence |-> 0, fresh |-> FALSE, tries |-> 0, from |-> "loop"]

TypeOK == /\ row \in [Epochs -> Rows]
          /\ \A e \in Epochs : WellFormed(row[e])
          /\ authority \in BOOLEAN
          /\ wk \in [Workers -> Sessions]
          /\ lock \in Workers \cup {NoOwner}
          /\ \A w \in Workers : wk[w].pc = "cycling" <=> lock = w
          /\ late \in [Workers -> Nat]
          /\ commands \in 0..MaxCommands
          /\ faults \in 0..MaxFaults

Init == /\ row = [e \in Epochs |-> AbsentRow]
        /\ authority = TRUE
        /\ wk = [w \in Workers |-> Idle]
        /\ lock = NoOwner
        /\ late = [w \in Workers |-> 0]
        /\ commands = 0
        /\ faults = 0

-----------------------------------------------------------------------------
(* Sessions *)

R(w) == row[wk[w].epoch]
Owned(w) == R(w).owner = w /\ R(w).fence = wk[w].fence     \* _require_own_claim
Held(w) == Owned(w) /\ ~R(w).expired                       \* what _mutate wants

SetWk(w, s) == wk' = [wk EXCEPT ![w] = s]
Goto(w, pc) == SetWk(w, [wk[w] EXCEPT !.pc = pc, !.tries = 0])
\* A read that prepares a write: the snapshot is the row.
Prepare(w, pc) == SetWk(w, [wk[w] EXCEPT !.pc = pc, !.fresh = TRUE])
\* LeaseError, or nothing left to do: the poll is over, nothing is written.
Return(w) == SetWk(w, Idle)
Session(w, pc) == [wk[w] EXCEPT !.pc = pc, !.tries = 0, !.fresh = TRUE]

\* A committed write: w goes on as s, every other snapshot is stale.
Written(e, w, r, s) ==
    /\ Update(e, r)
    /\ wk' = [v \in Workers |-> IF v = w THEN s
                                ELSE IF wk[v].epoch = e THEN [wk[v] EXCEPT !.fresh = FALSE]
                                ELSE wk[v]]
Stale(e) == wk' = [v \in Workers |-> IF wk[v].epoch = e THEN [wk[v] EXCEPT !.fresh = FALSE] ELSE wk[v]]

\* _mutate refuses another version; the write is tried again from its read.
Conflict(w, read) ==
    /\ ~wk[w].fresh
    /\ SetWk(w, [wk[w] EXCEPT !.pc = read, !.tries = @ + 1])
Exhausted(w) == wk[w].tries = Attempts

\* A write that needs the active claim, the version and its precondition.
WriteMark(w, read, write, may, r, s) ==
    /\ wk[w].pc = write
    /\ \/ ~Held(w) /\ Return(w) /\ UNCHANGED row
       \/ Held(w) /\ Conflict(w, read) /\ UNCHANGED row
       \/ Held(w) /\ wk[w].fresh /\ may /\ Written(wk[w].epoch, w, r, s)
       \/ Held(w) /\ wk[w].fresh /\ ~may /\ Goto(w, "fail") /\ UNCHANGED row
    /\ UNCHANGED <<authority, lock, late, bounds>>

\* _settle_control_boundary goes by what is desired at its read.
Boundary(d) == IF d = "PAUSED" THEN "pause" ELSE "stop"
ToBoundary(w, from) ==
    SetWk(w, [wk[w] EXCEPT !.pc = Boundary(R(w).desired), !.tries = 0, !.from = from])

-----------------------------------------------------------------------------
(* Administrators *)

Start(e) == InsertEpoch(e) /\ UNCHANGED <<authority, wk, lock, late, bounds>>

Command(e) == /\ commands < MaxCommands
              /\ \E d \in DesiredState : RequestCommand(e, d)
              /\ Stale(e)
              /\ commands' = commands + 1
              /\ UNCHANGED <<authority, lock, late, faults>>

\* The activation is revoked, or something it rests on is.
Revoke == /\ authority
          /\ authority' = FALSE
          /\ UNCHANGED <<row, wk, lock, late, bounds>>

-----------------------------------------------------------------------------
(* poll_once and _acquire_or_settle *)

\* The poll lists the epoch, loads it and decides what to do with its claim.
Load(w, e) ==
    /\ wk[w].pc = "idle"
    /\ NonTerminal(e)
    /\ LET r == row[e]
           Begin(pc, from) == SetWk(w, [Idle EXCEPT !.pc = pc, !.epoch = e, !.fence = r.fence,
                                                    !.fresh = TRUE, !.from = from])
       IN \/ r.owner = NoOwner /\ r.desired = "RUNNING" /\ Begin("claim", "loop")
          \/ r.owner = NoOwner /\ r.desired # "RUNNING" /\ Begin("settle", "loop")
          \/ r.owner # NoOwner /\ r.expired /\ Begin("recover", "loop")
          \/ /\ r.owner = w
             /\ ~r.expired
             /\ \/ r.desired # "RUNNING" /\ Begin(Boundary(r.desired), "prepare")
                \/ r.desired = "RUNNING" /\ r.observed = "RECOVERING" /\ Begin("starting", "start")
                \/ r.desired = "RUNNING" /\ r.observed = "STARTING" /\ Begin("prepare1", "prepare")
                \/ r.desired = "RUNNING" /\ r.observed = "RUNNING" /\ Begin("loop1", "loop")
    /\ UNCHANGED <<row, authority, lock, late, bounds>>

\* A version conflict here fails only an epoch that is the worker's own.
Claim(w) ==
    /\ wk[w].pc = "claim"
    /\ \/ /\ wk[w].fresh /\ MayClaim(R(w))
          /\ Written(wk[w].epoch, w, Claimed(R(w), w),
                     [wk[w] EXCEPT !.pc = "prepare1", !.fence = R(w).fence + 1, !.from = "prepare"])
       \/ ~wk[w].fresh /\ Goto(w, "fail") /\ UNCHANGED row
    /\ UNCHANGED <<authority, lock, late, bounds>>

\* What recover returns is settled, or started again.
AfterRecover(w) == IF R(w).desired = "RUNNING"
                   THEN [wk[w] EXCEPT !.pc = "starting", !.fence = R(w).fence + 1, !.from = "start"]
                   ELSE [wk[w] EXCEPT !.pc = Boundary(R(w).desired), !.fence = R(w).fence + 1,
                                      !.from = "prepare"]

Recover(w) ==
    /\ wk[w].pc = "recover"
    /\ \/ /\ wk[w].fresh /\ MayRecover(R(w))
          /\ Written(wk[w].epoch, w, Recovered(R(w), w), AfterRecover(w))
       \/ ~wk[w].fresh /\ Goto(w, "fail") /\ UNCHANGED row
    /\ UNCHANGED <<authority, lock, late, bounds>>

SettleUnclaimed(w) ==
    /\ wk[w].pc = "settle"
    /\ \/ /\ wk[w].fresh
          /\ IF R(w).observed = R(w).desired THEN Return(w) /\ UNCHANGED row
             ELSE Written(wk[w].epoch, w, SettledUnclaimed(R(w)), Idle)
       \/ ~wk[w].fresh /\ Goto(w, "fail") /\ UNCHANGED row
    /\ UNCHANGED <<authority, lock, late, bounds>>

-----------------------------------------------------------------------------
(* _prepare_running: _mark_starting, eligibility, _mark_running *)

ReadStarting(w) ==
    /\ wk[w].pc = "starting"
    /\ \/ ~Owned(w) /\ Return(w)
       \/ Owned(w) /\ ~Exhausted(w) /\ Prepare(w, "starting!")
       \/ Owned(w) /\ Exhausted(w) /\ R(w).desired # "RUNNING" /\ ToBoundary(w, "start")
       \/ Owned(w) /\ Exhausted(w) /\ R(w).desired = "RUNNING" /\ Goto(w, "fail")
    /\ UNCHANGED <<row, authority, lock, late, bounds>>

MarkStarting(w) == WriteMark(w, "starting", "starting!", MayStarting(R(w)),
                             InState(R(w), "STARTING"), Session(w, "prepare1"))

\* (mutant) eligibility is not looked at.
CheckEligibility_Skipped(w, here, next) ==
    /\ wk[w].pc = here
    /\ Goto(w, next)
    /\ UNCHANGED <<row, authority, lock, late, bounds>>
\* One of the two readings of validate_execution_eligibility.
CheckEligibility(w, here, next) ==
    /\ wk[w].pc = here
    /\ IF Eligible(R(w)) THEN Goto(w, next) ELSE Goto(w, "fail")
    /\ UNCHANGED <<row, authority, lock, late, bounds>>

\* _latest_owned and the desired state, before the epoch runs.
CheckOwned(w, here, from, next) ==
    /\ wk[w].pc = here
    /\ \/ ~Owned(w) /\ Return(w)
       \/ Owned(w) /\ R(w).desired # "RUNNING" /\ ToBoundary(w, from)
       \/ Owned(w) /\ R(w).desired = "RUNNING" /\ SetWk(w, [Session(w, next) EXCEPT !.from = from])
    /\ UNCHANGED <<row, authority, lock, late, bounds>>

\* What follows _mark_running: the loop, or the cycle it was asked for.
AfterRunning(w) == IF wk[w].from = "cycle" THEN "lock" ELSE "loop1"

ReadRunning(w) ==
    /\ wk[w].pc = "running"
    /\ \/ ~Owned(w) /\ Return(w)
       \/ Owned(w) /\ R(w).desired # "RUNNING" /\ ToBoundary(w, wk[w].from)
       \/ Owned(w) /\ R(w).desired = "RUNNING" /\ R(w).observed = "RUNNING" /\ Goto(w, AfterRunning(w))
       \/ /\ Owned(w) /\ R(w).desired = "RUNNING" /\ R(w).observed # "RUNNING"
          /\ IF Exhausted(w) THEN Goto(w, "fail") ELSE Prepare(w, "running!")
    /\ UNCHANGED <<row, authority, lock, late, bounds>>

MarkRunning(w) == WriteMark(w, "running", "running!", MayRunning(R(w)),
                            InState(R(w), "RUNNING"), Session(w, AfterRunning(w)))

-----------------------------------------------------------------------------
(* The loop and the cycle *)

\* An epoch that does not run yet is marked before its cycle.
LoopOwned(w) == CheckOwned(w, "own", IF R(w).observed = "RUNNING" THEN "loop" ELSE "cycle",
                           IF R(w).observed = "RUNNING" THEN "lock" ELSE "running")

BeginCycle(w) == /\ wk[w].pc = "lock"
                 /\ lock = NoOwner
                 /\ lock' = w
                 /\ Goto(w, "cycling")
                 /\ late' = [late EXCEPT ![w] = IF authority THEN 0 ELSE @ + 1]
                 /\ UNCHANGED <<row, authority, bounds>>

\* MarketJobLockTimeoutError: LOCAL_RUNNER_BUSY.
LockBusy(w) == /\ wk[w].pc = "lock"
               /\ lock \notin {w, NoOwner}
               /\ Goto(w, "fail")
               /\ UNCHANGED <<row, authority, lock, late, bounds>>

\* The session is replayed and published, or nothing changed.
EndCycle(w) == /\ wk[w].pc = "cycling"
               /\ lock' = NoOwner
               /\ Goto(w, "after")
               /\ UNCHANGED <<row, authority, late, bounds>>

\* One cycle per poll, unless a command asks to settle.
After(w) == /\ wk[w].pc = "after"
            /\ IF Owned(w) /\ R(w).desired # "RUNNING" THEN ToBoundary(w, "loop") ELSE Return(w)
            /\ UNCHANGED <<row, authority, lock, late, bounds>>

-----------------------------------------------------------------------------
(* _settle_control_boundary *)

\* What the callers make of an epoch that wants to run again ...
Resumed(w) == CASE wk[w].from = "start" -> Goto(w, "fail")
                [] wk[w].from = "prepare" -> Goto(w, "loop1")
                [] wk[w].from = "cycle" -> Goto(w, "lock")
                [] OTHER -> Return(w)
\* ... and of one that has settled: before a cycle nobody looks.
Settled(w) == CASE wk[w].from = "start" -> Session(w, "fail")
                [] wk[w].from = "cycle" -> Session(w, "lock")
                [] OTHER -> Idle

ReadPause(w) ==
    /\ wk[w].pc = "pause"
    /\ \/ ~Owned(w) /\ Return(w)
       \/ Owned(w) /\ R(w).desired = "STOPPED" /\ ToBoundary(w, wk[w].from)
       \/ Owned(w) /\ R(w).desired = "RUNNING" /\ Resumed(w)
       \/ /\ Owned(w) /\ R(w).desired = "PAUSED"
          /\ IF Exhausted(w) THEN Goto(w, "fail") ELSE Prepare(w, "pause!")
    /\ UNCHANGED <<row, authority, lock, late, bounds>>

SettlePaused(w) == WriteMark(w, "pause", "pause!", MayPause(R(w)),
                             Released(R(w), "PAUSED"), Settled(w))

ReadStop(w) ==
    /\ wk[w].pc = "stop"
    /\ \/ ~Owned(w) /\ Return(w)
       \/ /\ Owned(w)
          /\ IF Exhausted(w) THEN Goto(w, "fail")
             ELSE Prepare(w, IF R(w).observed = "STOPPING" THEN "stop!" ELSE "stopping!")
    /\ UNCHANGED <<row, authority, lock, late, bounds>>

MarkStopping(w) == WriteMark(w, "stop", "stopping!", MayStopping(R(w)),
                             InState(R(w), "STOPPING"), Session(w, "stop"))
SettleStopped(w) == WriteMark(w, "stop", "stop!", MayStop(R(w)),
                              Released(R(w), "STOPPED"), Settled(w))

-----------------------------------------------------------------------------
(* _fail_if_owned: an epoch without a claim is left alone *)

ReadFail(w) ==
    /\ wk[w].pc = "fail"
    /\ IF R(w).owner # w \/ Exhausted(w) THEN Return(w)
       ELSE SetWk(w, [wk[w] EXCEPT !.pc = "fail!", !.fresh = TRUE, !.fence = R(w).fence])
    /\ UNCHANGED <<row, authority, lock, late, bounds>>

FailEpoch(w) == WriteMark(w, "fail", "fail!", TRUE, Released(R(w), "FAILED"), Idle)

-----------------------------------------------------------------------------
(* Faults *)

Fault == faults < MaxFaults /\ faults' = faults + 1
UnlockOf(w) == lock' = IF lock = w THEN NoOwner ELSE lock

\* A call, the heartbeat or the cycle raises: the epoch is failed if owned.
Raises(w) == /\ Fault
             /\ wk[w].pc # "idle"
             /\ Goto(w, "fail")
             /\ UnlockOf(w)
             /\ UNCHANGED <<row, authority, late, commands>>

\* The process ends; another one with a new id takes its place.
Crash(w) == /\ Fault
            /\ Return(w)
            /\ UnlockOf(w)
            /\ row' = [e \in Epochs |-> IF row[e].owner = w THEN [row[e] EXCEPT !.owner = Gone]
                                        ELSE row[e]]
            /\ late' = [late EXCEPT ![w] = 0]
            /\ UNCHANGED <<authority, commands>>

\* The lease of a live worker runs out: polls too far apart, a late renewal.
Lapse(e) == /\ Fault
            /\ row[e].owner \in Workers
            /\ ~row[e].expired
            /\ row' = [row EXCEPT ![e].expired = TRUE]
            /\ UNCHANGED <<authority, wk, lock, late, commands>>

Expire(e) == /\ row[e].owner = Gone
             /\ ~row[e].expired
             /\ row' = [row EXCEPT ![e].expired = TRUE]
             /\ UNCHANGED <<authority, wk, lock, late, bounds>>

-----------------------------------------------------------------------------
Step(w) == \/ \E e \in Epochs : Load(w, e)
           \/ Claim(w) \/ Recover(w) \/ SettleUnclaimed(w)
           \/ ReadStarting(w) \/ MarkStarting(w)
           \/ CheckEligibility(w, "prepare1", "prepare2")
           \/ CheckEligibility(w, "prepare2", "check")
           \/ CheckOwned(w, "check", "prepare", "running")
           \/ ReadRunning(w) \/ MarkRunning(w)
           \/ CheckEligibility(w, "loop1", "loop2")
           \/ CheckEligibility(w, "loop2", "own")
           \/ LoopOwned(w) \/ BeginCycle(w) \/ LockBusy(w) \/ EndCycle(w) \/ After(w)
           \/ ReadPause(w) \/ SettlePaused(w) \/ ReadStop(w) \/ MarkStopping(w)
           \/ SettleStopped(w) \/ ReadFail(w) \/ FailEpoch(w)

Next == \/ Revoke
        \/ \E e \in Epochs : Start(e) \/ Command(e) \/ Lapse(e) \/ Expire(e)
        \/ \E w \in Workers : Step(w) \/ Raises(w) \/ Crash(w)

Spec == Init /\ [][Next]_vars

\* Supervisors poll and sessions go on; the lease of a dead worker runs out.
Fairness == /\ \A w \in Workers : WF_vars(Step(w))
            /\ \A e \in Epochs : WF_vars(Expire(e))
FairSpec == Spec /\ Fairness

-----------------------------------------------------------------------------
(* Properties *)

\* A worker that runs a cycle, or is about to, holds the present claim of
\* its epoch or has been fenced by a recovery.  _run_cycle_with_heartbeat
\* does not look whether _mark_running settled the epoch instead: what keeps
\* a cycle off a paused epoch is that nothing is resumed before it paused.
CyclesAreFenced ==
    \A w \in Workers : wk[w].pc \in {"lock", "cycling"} => Owned(w) \/ R(w).fence > wk[w].fence

\* Rows that the table's constraints admit, and claims that mean something.
ClaimsHold == TypeOK /\ CyclesAreFenced

\* Once an activation is revoked, each worker begins at most the one cycle
\* whose eligibility it had read: the loop reads it anew before the next.
OneCycleAfterRevocation == \A w \in Workers : late[w] <= 1

\* What the contract keeps of a row, and the contract's view of the table.
TermsOf(r) == [desired |-> r.desired,
               phase   |-> CASE r.observed = "ABSENT" -> "NONE"
                             [] r.observed = "PENDING" -> "OPEN"
                             [] r.observed \in ClaimRequired -> "HELD"
                             [] OTHER -> r.observed,
               fence   |-> r.fence,
               expired |-> r.expired]
terms == [e \in Epochs |-> TermsOf(row[e])]

\* The contract of the decision record: one holder per fence, a lease taken
\* over only after it ran out, and nothing settled that was not desired.
Contract == INSTANCE FencedEpochs WITH contract <- terms
ImplementsContract == Contract!Spec

\* Whatever administrators desire last is what the run becomes and stays,
\* or it is over: commands and faults end, supervisors keep polling.
DesiredConverges ==
    \A e \in Epochs : <>[](row[e].observed \in TERMINAL \cup {"ABSENT", row[e].desired})

===============================================================================
