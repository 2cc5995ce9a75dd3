--------------------------- MODULE CollectorWorkers ---------------------------
(***************************************************************************)
(* Supervisors that poll the collector epochs, the worker that drives one  *)
(* epoch for one cycle per poll, the administrators that start, pause,     *)
(* resume and stop, and the collection lock of the host.                   *)
(*                                                                         *)
(* A worker reads the epoch and writes it in two transactions, so every    *)
(* write is optimistic: a read and the write it prepares are two steps,    *)
(* the write named as the read with "!".  The cycle reads its authority    *)
(* before the lock, and twice below it, and then collects while the        *)
(* heartbeat renews the lease.                                             *)
(***************************************************************************)
EXTENDS CollectorEpochs, FiniteSets

VARIABLES
    wk,        \* wk[w]: what run_epoch of worker w is doing
    lock,      \* holder of the collection lock of the host
    commands,  \* commands so far
    faults     \* faults so far

vars == <<row, wk, lock, commands, faults>>

Cycle == {"hook1", "hook2", "collecting"}       \* below the collection lock
Writes == {"claim", "settle", "recover", "starting!", "running!", "pause!",
           "stopping!", "stop!", "fail!"}
Points == {"idle", "starting", "running", "authority", "lock", "after",
           "pause", "stop", "fail"} \cup Cycle \cup Writes

Sessions == [pc    : Points,
             epoch : Epochs,
             fence : Nat,
             fresh : BOOLEAN,                    \* the row is as last read
             tries : 0..Attempts,                \* conflicts of this write
             from  : {"start", "prepare", "loop"}]  \* who called the boundary

Idle == [pc |-> "idle", epoch |-> 1, fence |-> 0, fresh |-> FALSE, tries |-> 0, from |-> "loop"]

TypeOK == /\ row \in [Epochs -> Rows]
          /\ \A e \in Epochs : WellFormed(row[e])
          /\ wk \in [Workers -> Sessions]
          /\ lock \in Workers \cup {NoOwner}
          /\ commands \in 0..MaxCommands
          /\ faults \in 0..MaxFaults
          /\ \A w \in Workers : wk[w].pc \in Cycle <=> lock = w

Init == /\ row = [e \in Epochs |-> AbsentRow]
        /\ wk = [w \in Workers |-> Idle]
        /\ lock = NoOwner
        /\ commands = 0
        /\ faults = 0

-----------------------------------------------------------------------------
(* Sessions *)

R(w) == row[wk[w].epoch]
\* _require_own_claim, without and with require_unexpired.
Owned(w) == R(w).owner = w /\ R(w).fence = wk[w].fence
Held(w) == Owned(w) /\ ~R(w).expired

UnlockOf(w) == lock' = IF lock = w THEN NoOwner ELSE lock
SetWk(w, s) == wk' = [wk EXCEPT ![w] = s]
Goto(w, pc) == SetWk(w, [wk[w] EXCEPT !.pc = pc, !.tries = 0])
\* A read that prepares a write: the snapshot is the row.
Prepare(w, pc) == SetWk(w, [wk[w] EXCEPT !.pc = pc, !.fresh = TRUE])
\* LeaseError, or nothing left to do: the poll is over, nothing is written.
Return(w) == SetWk(w, Idle)

\* A committed write: w goes on as s, every other snapshot is stale.
Written(e, w, r, s) ==
    /\ Update(e, r)
    /\ wk' = [v \in Workers |-> IF v = w THEN s
                                ELSE IF wk[v].epoch = e THEN [wk[v] EXCEPT !.fresh = FALSE]
                                ELSE wk[v]]
Stale(e) == wk' = [v \in Workers |-> IF wk[v].epoch = e THEN [wk[v] EXCEPT !.fresh = FALSE] ELSE wk[v]]

\* _mutate refuses another version; the write is tried again from its read.
Conflict(w, read) ==
    /\ ~wk[w].fresh
    /\ SetWk(w, [wk[w] EXCEPT !.pc = read, !.tries = @ + 1])
\* The loop of reads and writes has used up its attempts.
Exhausted(w) == wk[w].tries = Attempts

\* _settle_control_boundary goes by what is desired at its read.
Boundary(d) == IF d = "PAUSED" THEN "pause" ELSE "stop"
ToBoundary(w, from) ==
    SetWk(w, [wk[w] EXCEPT !.pc = Boundary(R(w).desired), !.tries = 0, !.from = from])

-----------------------------------------------------------------------------
(* Administrators *)

Start(e) == InsertEpoch(e) /\ UNCHANGED <<wk, lock, commands, faults>>

Command(e) == /\ commands < MaxCommands
              /\ \E d \in DesiredState : RequestCommand(e, d)
              /\ Stale(e)
              /\ commands' = commands + 1
              /\ UNCHANGED <<lock, faults>>

-----------------------------------------------------------------------------
(* poll_once and _acquire_or_settle *)

\* The poll lists the epoch, loads it and decides what to do with its claim.
Load(w, e) ==
    /\ wk[w].pc = "idle"
    /\ NonTerminal(e)
    /\ LET r == row[e]
           Begin(pc, from) == SetWk(w, [Idle EXCEPT !.pc = pc, !.epoch = e, !.fence = r.fence,
                                                    !.fresh = TRUE, !.from = from])
       IN \/ r.owner = NoOwner /\ r.desired = "RUNNING" /\ Begin("claim", "loop")
          \/ r.owner = NoOwner /\ r.desired # "RUNNING" /\ Begin("settle", "loop")
          \/ r.owner \notin {w, NoOwner} /\ r.expired /\ Begin("recover", "loop")
          \/ /\ r.owner = w
             /\ ~r.expired
             /\ \/ r.desired # "RUNNING" /\ Begin(Boundary(r.desired), "prepare")
                \/ r.desired = "RUNNING" /\ r.observed = "RECOVERING" /\ Begin("starting", "start")
                \/ r.desired = "RUNNING" /\ r.observed = "STARTING" /\ Begin("running", "prepare")
                \/ r.desired = "RUNNING" /\ r.observed = "RUNNING" /\ Begin("authority", "loop")
    /\ UNCHANGED <<row, lock, commands, faults>>

Claim(w) ==
    /\ wk[w].pc = "claim"
    /\ \/ /\ wk[w].fresh /\ MayClaim(R(w))
          /\ Written(wk[w].epoch, w, Claimed(R(w), w),
                     [wk[w] EXCEPT !.pc = "running", !.fence = R(w).fence + 1, !.from = "prepare"])
       \/ ~wk[w].fresh /\ Goto(w, "fail") /\ UNCHANGED row
    /\ UNCHANGED <<lock, commands, faults>>

\* What recover returns is settled, or started again.
AfterRecover(w) == IF R(w).desired = "RUNNING"
                   THEN [wk[w] EXCEPT !.pc = "starting", !.fence = R(w).fence + 1, !.from = "start"]
                   ELSE [wk[w] EXCEPT !.pc = Boundary(R(w).desired), !.fence = R(w).fence + 1,
                                      !.from = "prepare"]

Recover(w) ==
    /\ wk[w].pc = "recover"
    /\ \/ /\ wk[w].fresh /\ MayRecover(R(w))
          /\ Written(wk[w].epoch, w, Recovered(R(w), w), AfterRecover(w))
       \/ ~wk[w].fresh /\ Goto(w, "fail") /\ UNCHANGED row
    /\ UNCHANGED <<lock, commands, faults>>

\* An epoch without a claim is settled; the graph has no PAUSED -> PAUSED.
SettleUnclaimed(w) ==
    /\ wk[w].pc = "settle"
    /\ \/ /\ wk[w].fresh /\ MaySettleUnclaimed(R(w))
          /\ Written(wk[w].epoch, w, InState(R(w), R(w).desired), Idle)
       \/ /\ ~(wk[w].fresh /\ MaySettleUnclaimed(R(w)))
          /\ Goto(w, "fail")
          /\ UNCHANGED row
    /\ UNCHANGED <<lock, commands, faults>>

-----------------------------------------------------------------------------
(* _mark_starting and _mark_running *)

\* The read of a loop: lose the claim, meet a command, be done, try or fail.
ReadMark(w, read, write, from, done, next) ==
    /\ wk[w].pc = read
    /\ \/ ~Held(w) /\ Return(w)
       \/ Held(w) /\ R(w).desired # "RUNNING" /\ ToBoundary(w, from)
       \/ Held(w) /\ R(w).desired = "RUNNING" /\ R(w).observed \in done /\ Goto(w, next)
       \/ /\ Held(w) /\ R(w).desired = "RUNNING" /\ R(w).observed \notin done
          /\ IF Exhausted(w) THEN Goto(w, "fail") ELSE Prepare(w, write)
    /\ UNCHANGED <<row, lock, commands, faults>>

ReadStarting(w) == ReadMark(w, "starting", "starting!", "start", {"STARTING", "RUNNING"}, "running")
ReadRunning(w) == ReadMark(w, "running", "running!", "prepare", {"RUNNING"}, "authority")

\* A write that needs the active claim, the version and its precondition.
WriteMark(w, read, write, may, r, s) ==
    /\ wk[w].pc = write
    /\ \/ ~Held(w) /\ Return(w) /\ UNCHANGED row
       \/ Held(w) /\ Conflict(w, read) /\ UNCHANGED row
       \/ Held(w) /\ wk[w].fresh /\ may /\ Written(wk[w].epoch, w, r, s)
       \/ Held(w) /\ wk[w].fresh /\ ~may /\ Goto(w, "fail") /\ UNCHANGED row
    /\ UNCHANGED <<lock, commands, faults>>

Session(w, pc) == [wk[w] EXCEPT !.pc = pc, !.tries = 0, !.fresh = TRUE]

MarkStarting(w) == WriteMark(w, "starting", "starting!", MayAdvance(R(w), "STARTING"),
                             InState(R(w), "STARTING"), Session(w, "running"))
MarkRunning(w) == WriteMark(w, "running", "running!", MayAdvance(R(w), "RUNNING"),
                            InState(R(w), "RUNNING"), Session(w, "authority"))

-----------------------------------------------------------------------------
(* The cycle *)

\* _require_cycle_authority: go on, lose the lease, meet a command or fail.
Authority(w, next) ==
    \/ /\ ~Held(w) /\ Return(w) /\ UnlockOf(w)
    \/ /\ Held(w) /\ R(w).desired # "RUNNING" /\ ToBoundary(w, "loop") /\ UnlockOf(w)
    \/ /\ Held(w) /\ R(w).desired = "RUNNING" /\ R(w).observed # "RUNNING"
       /\ Goto(w, "fail") /\ UnlockOf(w)
    \/ /\ Held(w) /\ R(w).desired = "RUNNING" /\ R(w).observed = "RUNNING"
       /\ Goto(w, next) /\ UNCHANGED lock

AskAuthority(w) == /\ wk[w].pc = "authority"
                   /\ Authority(w, "lock")
                   /\ UNCHANGED <<row, commands, faults>>

TakeLock(w) == /\ wk[w].pc = "lock"
               /\ lock = NoOwner
               /\ lock' = w
               /\ Goto(w, "hook1")
               /\ UNCHANGED <<row, commands, faults>>

\* MarketJobLockTimeoutError: LOCAL_COLLECTOR_BUSY.
LockBusy(w) == /\ wk[w].pc = "lock"
               /\ lock \notin {w, NoOwner}
               /\ Goto(w, "fail")
               /\ UNCHANGED <<row, lock, commands, faults>>

\* guarded_startup, up to the local state.
AskBelowLock(w) == /\ wk[w].pc = "hook1"
                   /\ Authority(w, "hook2")
                   /\ UNCHANGED <<row, commands, faults>>

\* The interval of the previous cycle has not passed.
NotDue(w) == /\ wk[w].pc = "hook2"
             /\ Goto(w, "after")
             /\ lock' = NoOwner
             /\ UNCHANGED <<row, commands, faults>>

\* The recovery hook ran; the authority is asked again.
BeginCollecting(w) == /\ wk[w].pc = "hook2"
                      /\ Authority(w, "collecting")
                      /\ UNCHANGED <<row, commands, faults>>

EndCollecting(w) == /\ wk[w].pc = "collecting"
                    /\ Goto(w, "after")
                    /\ lock' = NoOwner
                    /\ UNCHANGED <<row, commands, faults>>

\* The cycle raises: the local state or a dataset is not sound.
CycleFails(w) == /\ wk[w].pc = "collecting"
                 /\ faults < MaxFaults
                 /\ faults' = faults + 1
                 /\ Goto(w, "fail")
                 /\ lock' = NoOwner
                 /\ UNCHANGED <<row, commands>>

\* After the cycle: one cycle per poll, unless a command asks to settle.
After(w) == /\ wk[w].pc = "after"
            /\ IF Held(w) /\ R(w).desired # "RUNNING"
               THEN ToBoundary(w, "loop")
               ELSE Return(w)
            /\ UNCHANGED <<row, lock, commands, faults>>

-----------------------------------------------------------------------------
(* _settle_control_boundary *)

\* What the caller makes of an epoch that was resumed meanwhile.
Resumed(w) == CASE wk[w].from = "start" -> Goto(w, "fail")
                [] wk[w].from = "prepare" -> Goto(w, "authority")
                [] OTHER -> Return(w)
\* ... and of one that is settled: _prepare_running wants STARTING.
Settled(w) == IF wk[w].from = "start" THEN Session(w, "fail") ELSE Idle

ReadPause(w) ==
    /\ wk[w].pc = "pause"
    /\ \/ ~Owned(w) /\ Return(w)
       \/ Owned(w) /\ R(w).desired = "STOPPED" /\ ToBoundary(w, wk[w].from)
       \/ Owned(w) /\ R(w).desired = "RUNNING" /\ Resumed(w)
       \/ /\ Owned(w) /\ R(w).desired = "PAUSED"
          /\ IF Exhausted(w) THEN Goto(w, "fail") ELSE Prepare(w, "pause!")
    /\ UNCHANGED <<row, lock, commands, faults>>

\* (mutant) a pause keeps the claim's fence but frees a claim it lost.
SettlePaused_Unfenced(w) ==
    /\ wk[w].pc = "pause!"
    /\ Written(wk[w].epoch, w, Released(R(w), "PAUSED"), Settled(w))
    /\ UNCHANGED <<lock, commands, faults>>
SettlePaused(w) == WriteMark(w, "pause", "pause!", MayPause(R(w)), Released(R(w), "PAUSED"), Settled(w))

\* Commands end with STOP: only a takeover can come between these steps.
ReadStop(w) ==
    /\ wk[w].pc = "stop"
    /\ \/ ~Owned(w) /\ Return(w)
       \/ /\ Owned(w)
          /\ IF Exhausted(w) THEN Goto(w, "fail")
             ELSE Prepare(w, IF R(w).observed = "STOPPING" THEN "stop!" ELSE "stopping!")
    /\ UNCHANGED <<row, lock, commands, faults>>

MarkStopping(w) ==
    /\ wk[w].pc = "stopping!"
    /\ \/ ~Held(w) /\ Return(w) /\ UNCHANGED row
       \/ Held(w) /\ Conflict(w, "stop") /\ UNCHANGED row
       \/ /\ Held(w) /\ wk[w].fresh /\ MayStopping(R(w))
          /\ Written(wk[w].epoch, w, InState(R(w), "STOPPING"), Session(w, "stop"))
    /\ UNCHANGED <<lock, commands, faults>>

SettleStopped(w) == WriteMark(w, "stop", "stop!", MayStop(R(w)), Released(R(w), "STOPPED"), Settled(w))

-----------------------------------------------------------------------------
(* _fail_if_owned *)

ReadFail(w) ==
    /\ wk[w].pc = "fail"
    /\ IF \/ R(w).observed \in TERMINAL
          \/ R(w).owner \notin {w, NoOwner}
          \/ Exhausted(w)
       THEN Return(w)
       ELSE SetWk(w, [wk[w] EXCEPT !.pc = "fail!", !.fresh = TRUE, !.fence = R(w).fence])
    /\ UNCHANGED <<row, lock, commands, faults>>

\* fail_claimed or fail_unclaimed.
FailEpoch(w) ==
    /\ wk[w].pc = "fail!"
    /\ \/ R(w).owner # NoOwner /\ ~Held(w) /\ Return(w) /\ UNCHANGED row
       \/ Conflict(w, "fail") /\ UNCHANGED row
       \/ /\ R(w).owner = NoOwner \/ Held(w)
          /\ wk[w].fresh
          /\ Written(wk[w].epoch, w, Released(R(w), "FAILED"), Idle)
    /\ UNCHANGED <<lock, commands, faults>>

-----------------------------------------------------------------------------
(* Faults *)

Fault == faults < MaxFaults /\ faults' = faults + 1

\* A call or a heartbeat meets a database that is unavailable.
DatabaseFails(w) == /\ Fault
                    /\ wk[w].pc # "idle"
                    /\ Return(w)
                    /\ UnlockOf(w)
                    /\ UNCHANGED <<row, commands>>

\* The process ends; another one with a new id takes its place.
Crash(w) == /\ Fault
            /\ Return(w)
            /\ UnlockOf(w)
            /\ row' = [e \in Epochs |-> IF row[e].owner = w THEN [row[e] EXCEPT !.owner = Gone]
                                        ELSE row[e]]
            /\ UNCHANGED commands

\* The lease of a live worker runs out: polls too far apart, a late renewal.
Lapse(e) == /\ Fault
            /\ row[e].owner \in Workers
            /\ ~row[e].expired
            /\ row' = [row EXCEPT ![e].expired = TRUE]
            /\ UNCHANGED <<wk, lock, commands>>

Expire(e) == /\ row[e].owner = Gone
             /\ ~row[e].expired
             /\ row' = [row EXCEPT ![e].expired = TRUE]
             /\ UNCHANGED <<wk, lock, commands, faults>>

-----------------------------------------------------------------------------
Step(w) == \/ \E e \in Epochs : Load(w, e)
           \/ Claim(w) \/ Recover(w) \/ SettleUnclaimed(w)
           \/ ReadStarting(w) \/ MarkStarting(w) \/ ReadRunning(w) \/ MarkRunning(w)
           \/ AskAuthority(w) \/ TakeLock(w) \/ LockBusy(w) \/ AskBelowLock(w)
           \/ NotDue(w) \/ BeginCollecting(w) \/ EndCollecting(w) \/ After(w)
           \/ ReadPause(w) \/ SettlePaused(w) \/ ReadStop(w) \/ MarkStopping(w)
           \/ SettleStopped(w) \/ ReadFail(w) \/ FailEpoch(w)

Next == \/ \E e \in Epochs : Start(e) \/ Command(e) \/ Lapse(e) \/ Expire(e)
        \/ \E w \in Workers : Step(w) \/ CycleFails(w) \/ DatabaseFails(w) \/ Crash(w)

Spec == Init /\ [][Next]_vars

\* Supervisors poll and sessions go on; the lease of a dead worker runs out.
Fairness == /\ \A w \in Workers : WF_vars(Step(w))
            /\ \A e \in Epochs : WF_vars(Expire(e))
FairSpec == Spec /\ Fairness

-----------------------------------------------------------------------------
(* Properties *)

\* A worker that collects, or is about to below the lock, either holds the
\* present claim of its epoch or has been fenced: somebody recovered the
\* epoch after its lease ran out.  So nobody collects for an epoch that was
\* paused or stopped in good order, nor beside a claim of the same fence.
CollectorsAreFenced ==
    \A w \in Workers : wk[w].pc \in Cycle => Owned(w) \/ R(w).fence > wk[w].fence

\* Rows that the table's constraints admit, and claims that mean something.
ClaimsHold == TypeOK /\ CollectorsAreFenced

\* What the contract keeps of a row, and the contract's view of the table.
TermsOf(r) == [desired |-> r.desired,
               phase   |-> CASE r.observed = "ABSENT" -> "NONE"
                             [] r.observed = "PENDING" -> "OPEN"
                             [] r.observed \in ClaimRequired -> "HELD"
                             [] OTHER -> r.observed,
               fence   |-> r.fence,
               expired |-> r.expired]
terms == [e \in Epochs |-> TermsOf(row[e])]

\* The contract of the decision record: one holder per fence, a lease taken
\* over only after it ran out, and nothing settled that was not desired.
Contract == INSTANCE FencedEpochs WITH contract <- terms
ImplementsContract == Contract!Spec

\* Whatever administrators desire last is what the epoch becomes and stays,
\* or it is over, although workers crash, lose their leases and meet each
\* other: commands and faults end, supervisors keep polling.
DesiredConverges ==
    \A e \in Epochs : <>[](row[e].observed \in TERMINAL \cup {"ABSENT", row[e].desired})

===============================================================================
