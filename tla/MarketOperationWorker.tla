------------------------ MODULE MarketOperationWorker ------------------------
(***************************************************************************)
(* The market-operation workers: MarketOperationWorker.run_once, the        *)
(* BackfillExecutor it drives, the local job catalog (jobs.json), the       *)
(* dataset flock and the durable chunk receipts, against the PostgreSQL     *)
(* rows of MarketOperations.  A worker stops between any two steps: each    *)
(* step is one PostgreSQL transaction or one locked change of a local file. *)
(***************************************************************************)
EXTENDS MarketOperations

CONSTANTS
    CliControls,    \* may an operator pause or cancel local jobs by CLI?
    PlansMayFail,   \* may the planner rebuild another plan than submitted?
    LackingOps      \* operations of which the source may lack candles

VARIABLES
    job,        \* job[o]: the local job record of o in jobs.json
    receipts,   \* receipts[o]: chunks of o with a durable commit receipt
    short,      \* short[o]: those whose receipt counts fewer candles than the
                \* chunk has: the source had none at an edge of its range
    flock,      \* flock[d]: holder of the exclusive lock of dataset d
    wk          \* wk[w]: where worker w stands

vars == <<row, job, receipts, short, flock, wk>>

-----------------------------------------------------------------------------
Datasets == {DatasetOf[o] : o \in Ops}

JobStates == {"NONE", "PLANNED", "RUNNING", "PAUSED", "COMPLETED", "FAILED", "CANCELLED"}
Jobs == [status : JobStates, next : 0..Chunks]
NoJob == [status |-> "NONE", next |-> 0]

Points == {"down", "idle", "claimExpired", "recover", "reconcile",
           "claimControl", "controlRow", "settleControl",
           "claimNext", "claimRow", "start", "execute", "acquire",
           "boundary", "control", "verify", "fetch", "advance",
           "poll", "renew", "ckptRead", "ckptWrite", "finish"}

\* Which caller poll_control, checkpoint and the final write return to.
Contexts == {"none", "retry", "loop", "settle", "paused", "cancelled", "failure", "control"}
Goals == {"none"} \cup ReconcileTargets
Origins == {"none", "CLAIMED", "RUNNING", "RECOVERING"} \cup ControlStates

Sessions == [pc : Points, op : Ops \cup {NoOwner}, ctx : Contexts,
             from : Origins,      \* state the claim found
             goal : Goals,        \* control observed, or state to persist
             local : -1..Chunks]  \* chunks_completed of the record in hand

\* A session that has just taken o up in state `from`, or holds nothing.
Holding(pc, o, from) == [pc |-> pc, op |-> o, ctx |-> "none", from |-> from,
                         goal |-> "none", local |-> -1]
AtRest(pc) == Holding(pc, NoOwner, "none")

Become(w, s) == wk' = [wk EXCEPT ![w] = s]
Go(w, pc) == wk' = [wk EXCEPT ![w].pc = pc]
At(w, pc) == wk[w].pc = pc
Op(w) == wk[w].op
Dataset(w) == DatasetOf[Op(w)]

\* w is inside the executor's try block, under the flock.
InExecutor(w) == wk[w].ctx = "loop"

Release(w) == flock' = [d \in DOMAIN flock |-> IF flock[d] = w THEN NoOwner ELSE flock[d]]

-----------------------------------------------------------------------------
(* jobs.json *)

SetJob(o, s) == job' = [job EXCEPT ![o].status = s]

\* fail(): a completed or cancelled record stays what it is.
FailedJob(j) == IF j.status \in {"COMPLETED", "CANCELLED"} THEN j
                ELSE [j EXCEPT !.status = "FAILED"]
FailJob(o) == job' = [job EXCEPT ![o] = FailedJob(@)]

\* cancel() accepts FAILED too, but keeps its error_code, and the record
\* that results fails its own validation.
Cancellable(j) == j.status \in {"PLANNED", "RUNNING", "PAUSED"}

\* The record of a job that ends COMPLETED must count every candle planned.
MayAdvance(j, lacking) == j.next + 1 = Chunks /\ j.status # "CANCELLED" => lacking = {}

\* advance(): the last chunk completes every job but a cancelled one.
AdvancedJob(j) ==
    [status |-> IF j.next + 1 = Chunks /\ j.status # "CANCELLED"
                THEN "COMPLETED" ELSE j.status,
     next |-> j.next + 1]

\* A non-blocking flock is there for the taking.
LockFree_Always(d) == TRUE    \* (mutant) a shared flock
LockFree(d) == flock[d] = NoOwner

\* A RUNNING record without a runner.
Abandoned_ByStatus(o) == job[o].status = "RUNNING"    \* (mutant)
Abandoned(o) == job[o].status = "RUNNING" /\ LockFree(DatasetOf[o])

\* The receipt of the last chunk is there (_final_receipt).
Confirmed(o) == receipts[o] = Chunks
CompletedGoal(o) == IF Confirmed(o) THEN "COMPLETED" ELSE "FAILED"

-----------------------------------------------------------------------------
(* How a process ends *)

\* An exception leaves run_once, or the process is killed: flocks and row
\* locks are freed, leases stay until they expire.
EndProcess(w) ==
    /\ AbandonRows(w)
    /\ Release(w)
    /\ Become(w, AtRest("down"))

Exit(w) == EndProcess(w) /\ UNCHANGED <<job, receipts, short>>

\* Lease, version or ownership lost: re-raised; the executor's own handler
\* marks the local job FAILED on the way out.
Lost(w) ==
    /\ IF InExecutor(w) THEN FailJob(Op(w)) ELSE UNCHANGED job
    /\ EndProcess(w)
    /\ UNCHANGED <<receipts, short>>

\* _settle_failure: poll once more, then publish what the poll allows.
ToFailure(w) == Become(w, [wk[w] EXCEPT !.pc = "poll", !.ctx = "failure", !.goal = "none"])

\* Any other exception of the executor: the job is marked FAILED, the flock
\* freed, and _settle_failure polls the row.
ExecutorFails(w) ==
    /\ FailJob(Op(w))
    /\ Release(w)
    /\ ToFailure(w)
    /\ UNCHANGED <<row, receipts, short>>

Crash(w) == ~At(w, "down") /\ Exit(w)

Boot(w) ==
    /\ At(w, "down")
    /\ Become(w, AtRest("idle"))
    /\ UNCHANGED <<row, job, receipts, short, flock>>

-----------------------------------------------------------------------------
(* run_once *)

\* recover_abandoned: RUNNING jobs whose dataset nobody has locked.
RecoverAbandoned(w) ==
    /\ At(w, "idle")
    /\ job' = [o \in Ops |-> IF Abandoned(o) THEN FailedJob(job[o]) ELSE job[o]]
    /\ Go(w, "claimExpired")
    /\ UNCHANGED <<row, receipts, short, flock>>

ClaimExpired(w) ==
    /\ At(w, "claimExpired")
    /\ \/ \E o \in Ops :
            /\ ClaimNextExpired(o, w)
            /\ Become(w, Holding("recover", o, row[o].status))
       \/ /\ NothingToRecover(w)
          /\ Go(w, "claimControl")
          /\ UNCHANGED row
    /\ UNCHANGED <<job, receipts, short, flock>>

SelectControl(w) ==
    /\ At(w, "claimControl")
    /\ \/ \E o \in NeverStartedControls :
            /\ SettleNeverStarted(o, w)
            /\ Become(w, AtRest("idle"))
       \/ \E o \in BoundControls(w) :
            /\ o = Oldest(UnclaimedControls(w))
            /\ LockRow(o, w)
            /\ Become(w, [wk[w] EXCEPT !.pc = "controlRow", !.op = o])
       \/ /\ UnclaimedControls(w) = {}
          /\ Become(w, AtRest("claimNext"))
          /\ UNCHANGED row
    /\ UNCHANGED <<job, receipts, short, flock>>

SelectPending(w) ==
    /\ At(w, "claimNext")
    /\ \/ \E o \in PendingCandidates(w) :
            /\ o = Oldest(PendingCandidates(w))
            /\ LockRow(o, w)
            /\ Become(w, [wk[w] EXCEPT !.pc = "claimRow", !.op = o])
       \/ /\ PendingCandidates(w) = {}
          /\ Become(w, AtRest("idle"))
          /\ UNCHANGED row
    /\ UNCHANGED <<job, receipts, short, flock>>

\* The write of a locked candidate; a unique violation is retried once.
WriteClaim(w, again, status, next) ==
    \/ /\ ClaimLocked(Op(w), w, status)
       /\ Become(w, Holding(next, Op(w), status))
       /\ UNCHANGED <<job, receipts, short, flock>>
    \/ /\ ~UniqueIndexesAdmit(Op(w), w)
       /\ wk[w].ctx # "retry"
       /\ UnlockRow(Op(w))
       /\ Become(w, [AtRest(again) EXCEPT !.ctx = "retry"])
       /\ UNCHANGED <<job, receipts, short, flock>>
    \/ /\ ~UniqueIndexesAdmit(Op(w), w)
       /\ wk[w].ctx = "retry"
       /\ Exit(w)

ClaimPending(w) == At(w, "claimRow") /\ WriteClaim(w, "claimNext", "CLAIMED", "start")
ClaimControl(w) == At(w, "controlRow")
                     /\ WriteClaim(w, "claimControl", row[Op(w)].status, "settleControl")

\* start: CLAIMED to RUNNING with the version of the claim.
Start(w) ==
    /\ At(w, "start")
    /\ \/ /\ RequestState(Op(w), w, "RUNNING")
          /\ Become(w, Holding("execute", Op(w), "none"))
          /\ UNCHANGED <<job, receipts, short, flock>>
       \/ ~MayRequestState(Op(w), w, "RUNNING") /\ Lost(w)

-----------------------------------------------------------------------------
(* Execution: _run_running_operation, _execute_operation, _execute *)

Execute(w) ==
    /\ At(w, "execute")
    /\ \/ PlansMayFail /\ ToFailure(w) /\ UNCHANGED job
       \/ /\ job[Op(w)].status \in {"NONE", "PLANNED"}
          /\ SetJob(Op(w), "PLANNED")
          /\ Go(w, "acquire")
       \/ /\ job[Op(w)].status \in {"PAUSED", "FAILED"}
          /\ Go(w, "acquire")
          /\ UNCHANGED job
       \/ /\ job[Op(w)].status = "COMPLETED"
          /\ Become(w, [wk[w] EXCEPT !.pc = "ckptRead", !.ctx = "settle",
                                     !.local = job[Op(w)].next])
          /\ UNCHANGED job
       \/ /\ job[Op(w)].status \in {"RUNNING", "CANCELLED"}
          /\ ToFailure(w)
          /\ UNCHANGED job
    /\ UNCHANGED <<row, receipts, short, flock>>

\* The flock, then jobs.start (still outside the executor's try block).
Acquire(w) ==
    /\ At(w, "acquire")
    /\ \/ /\ LockFree(Dataset(w))
          /\ job[Op(w)].status \in {"PLANNED", "PAUSED", "FAILED"}
          /\ flock' = [flock EXCEPT ![Dataset(w)] = w]
          /\ SetJob(Op(w), "RUNNING")
          /\ Become(w, [wk[w] EXCEPT !.pc = "boundary", !.ctx = "loop",
                                     !.local = job[Op(w)].next])
       \/ /\ \/ ~LockFree(Dataset(w))
             \/ job[Op(w)].status \notin {"PLANNED", "PAUSED", "FAILED"}
          /\ ToFailure(w)
          /\ UNCHANGED <<job, flock>>
    /\ UNCHANGED <<row, receipts, short>>

\* The executor stopped with the local status; _settle_interruption polls.
Interrupted(w, ctx) ==
    /\ Release(w)
    /\ Become(w, [wk[w] EXCEPT !.pc = "poll", !.ctx = ctx, !.goal = "none"])

InterruptedAs(s) == IF s = "PAUSED" THEN "paused" ELSE "cancelled"

\* Top of the chunk loop: the job may have been stopped from the CLI.
Boundary(w) ==
    /\ At(w, "boundary")
    /\ \/ /\ job[Op(w)].status \in {"PAUSED", "CANCELLED"}
          /\ Interrupted(w, InterruptedAs(job[Op(w)].status))
       \/ /\ job[Op(w)].status \notin {"PAUSED", "CANCELLED"}
          /\ Go(w, "poll")
          /\ UNCHANGED flock
    /\ UNCHANGED <<row, job, receipts, short>>

\* before_chunk observed a control: the local job stops first.
ApplyControl(w) ==
    /\ At(w, "control")
    /\ \/ /\ \/ wk[w].goal = "PAUSED" /\ job[Op(w)].status = "RUNNING"
             \/ wk[w].goal = "CANCELLED" /\ Cancellable(job[Op(w)])
          /\ SetJob(Op(w), wk[w].goal)
          /\ Interrupted(w, InterruptedAs(wk[w].goal))
          /\ UNCHANGED <<row, receipts, short>>
       \/ /\ wk[w].goal = "PAUSED" => job[Op(w)].status # "RUNNING"
          /\ wk[w].goal = "CANCELLED" => ~Cancellable(job[Op(w)])
          /\ ExecutorFails(w)

\* A chunk that is stored whole and has a receipt is taken as done; any other is
\* fetched.  What a short receipt lacks another operation may have stored since.
Verify(w) ==
    /\ At(w, "verify")
    /\ \/ receipts[Op(w)] > wk[w].local /\ Go(w, "advance")
       \/ /\ receipts[Op(w)] > wk[w].local => wk[w].local \in short[Op(w)]
          /\ Go(w, "fetch")
    /\ UNCHANGED <<row, job, receipts, short, flock>>

\* ingest: the candles, the catalog and the receipt commit together, or the
\* source or the store fails; a second receipt of a chunk diverges from the first.
Fetch(w) ==
    /\ At(w, "fetch")
    /\ \/ /\ receipts[Op(w)] = wk[w].local
          /\ receipts' = [receipts EXCEPT ![Op(w)] = wk[w].local + 1]
          /\ \/ UNCHANGED short
             \/ /\ Op(w) \in LackingOps
                /\ short' = [short EXCEPT ![Op(w)] = @ \cup {wk[w].local}]
          /\ Go(w, "advance")
          /\ UNCHANGED <<row, job, flock>>
       \/ ExecutorFails(w)

Advance(w) ==
    /\ At(w, "advance")
    /\ \/ /\ job[Op(w)].status \in {"RUNNING", "PAUSED", "CANCELLED"}
          /\ job[Op(w)].next = wk[w].local
          /\ MayAdvance(job[Op(w)], short[Op(w)])
          /\ job' = [job EXCEPT ![Op(w)] = AdvancedJob(@)]
          /\ Become(w, [wk[w] EXCEPT !.pc = "ckptRead", !.local = @ + 1])
          /\ UNCHANGED <<row, receipts, short, flock>>
       \/ /\ \/ job[Op(w)].status \notin {"RUNNING", "PAUSED", "CANCELLED"}
             \/ job[Op(w)].next # wk[w].local
             \/ ~MayAdvance(job[Op(w)], short[Op(w)])
          /\ ExecutorFails(w)

-----------------------------------------------------------------------------
(* poll_control: get, then renew while work may continue *)

\* What the caller makes of the control it was given ("none": continue).
AfterPoll(w, control) ==
    CASE wk[w].ctx = "loop" ->
           [wk[w] EXCEPT !.pc = IF control = "none" THEN "verify" ELSE "control",
                         !.goal = control]
      [] wk[w].ctx = "settle" ->
           [wk[w] EXCEPT !.pc = "finish",
                         !.goal = IF control = "none" THEN CompletedGoal(Op(w)) ELSE control]
      [] wk[w].ctx = "failure" ->
           [wk[w] EXCEPT !.pc = "finish",
                         !.goal = IF control = "none" THEN "FAILED" ELSE control]
      [] OTHER ->   \* an interruption must match the control, or it is a failure
           IF control # "none" /\ wk[w].ctx = InterruptedAs(control)
           THEN [wk[w] EXCEPT !.pc = "finish", !.goal = control]
           ELSE [wk[w] EXCEPT !.pc = "poll", !.ctx = "failure", !.goal = "none"]

Poll(w) ==
    /\ At(w, "poll")
    /\ \/ /\ row[Op(w)].owner = w
          /\ row[Op(w)].status \in ControlStates
          /\ ReadRow(Op(w), w)
          /\ Become(w, AfterPoll(w, IF row[Op(w)].status = "PAUSE_REQUESTED"
                                    THEN "PAUSED" ELSE "CANCELLED"))
          /\ UNCHANGED <<job, receipts, short, flock>>
       \/ /\ row[Op(w)].owner = w
          /\ row[Op(w)].status \in {"CLAIMED", "RUNNING"}
          /\ ReadRow(Op(w), w)
          /\ Go(w, "renew")
          /\ UNCHANGED <<job, receipts, short, flock>>
       \/ /\ row[Op(w)].owner = w => row[Op(w)].status \notin {"CLAIMED", "RUNNING"} \cup ControlStates
          /\ Lost(w)

Renew(w) ==
    /\ At(w, "renew")
    /\ \/ /\ RenewLease(Op(w), w)
          /\ Become(w, AfterPoll(w, "none"))
          /\ UNCHANGED <<job, receipts, short, flock>>
       \/ ~MayWrite(Op(w), w) /\ Lost(w)

-----------------------------------------------------------------------------
(* checkpoint: get, then publish the local record in hand *)

CkptRead(w) ==
    /\ At(w, "ckptRead")
    /\ \/ /\ row[Op(w)].owner = w
          /\ row[Op(w)].status \in {"CLAIMED", "RUNNING"} \cup ControlStates
          /\ ReadRow(Op(w), w)
          /\ Go(w, "ckptWrite")
          /\ UNCHANGED <<job, receipts, short, flock>>
       \/ /\ row[Op(w)].owner = w => row[Op(w)].status \notin {"CLAIMED", "RUNNING"} \cup ControlStates
          /\ Lost(w)

\* The local status the executor returns with after the last chunk.
AfterLastChunk(w) ==
    IF job[Op(w)].status = "COMPLETED"
    THEN [wk[w] EXCEPT !.pc = "ckptRead", !.ctx = "settle"]
    ELSE [wk[w] EXCEPT !.pc = "poll", !.ctx = InterruptedAs(job[Op(w)].status)]
\* Where the caller goes on: the poll of the settlement, the final write, the
\* next chunk.
AfterCheckpoint(w) ==
    CASE wk[w].ctx = "settle" -> [wk[w] EXCEPT !.pc = "poll"]
      [] wk[w].ctx = "control" -> [wk[w] EXCEPT !.pc = "finish"]
      [] OTHER -> IF wk[w].local < Chunks THEN [wk[w] EXCEPT !.pc = "boundary"]
                  ELSE AfterLastChunk(w)

CkptWrite(w) ==
    /\ At(w, "ckptWrite")
    /\ \/ /\ UpdateProgress(Op(w), w, wk[w].local)
          /\ Become(w, AfterCheckpoint(w))
          /\ IF wk[w].local = Chunks THEN Release(w) ELSE UNCHANGED flock
          /\ UNCHANGED <<job, receipts, short>>
       \/ /\ ~(MayWrite(Op(w), w) /\ wk[w].local >= row[Op(w)].done)
          /\ Lost(w)

-----------------------------------------------------------------------------
(* finish_success, finish_failure, finish_pause, finish_cancel *)

Finish(w) ==
    /\ At(w, "finish")
    /\ \/ /\ RequestState(Op(w), w, wk[w].goal)
          /\ Become(w, AtRest("idle"))
          /\ UNCHANGED <<job, receipts, short, flock>>
       \/ ~MayRequestState(Op(w), w, wk[w].goal) /\ Lost(w)

-----------------------------------------------------------------------------
(* Recovery of an expired lease: _recover_operation, _converge_recovery *)

\* The local record that recovery ends up with: a cancel request cancels it.
RecoveredJob(from, j) ==
    IF from = "CANCEL_REQUESTED" /\ j.status \in {"PLANNED", "PAUSED"}
    THEN [j EXCEPT !.status = "CANCELLED"] ELSE j

\* (mutant) the receipts alone prove completion, whatever the local job says.
RecoveryGoal_ByReceipt(o, from, s) ==
    IF Confirmed(o) THEN "COMPLETED" ELSE "FAILED"
\* (mutant) a pause is acknowledged although the local job may be running.
RecoveryGoal_PausedAnyway(o, from, s) ==
    IF from = "PAUSE_REQUESTED" THEN "PAUSED" ELSE "FAILED"
\* A RUNNING row continues, an acknowledged control is published.
StoppedGoal(from, s) ==
    CASE from = "RUNNING" /\ s \in {"PLANNED", "FAILED", "PAUSED"} -> "RUNNING"
      [] from = "PAUSE_REQUESTED" /\ s # "RUNNING" -> "PAUSED"
      [] from = "CANCEL_REQUESTED" /\ s = "NONE" -> "CANCELLED"
      [] from = "RECOVERING" /\ s = "PAUSED" -> "PAUSED"
      [] OTHER -> "FAILED"
RecoveryGoal(o, from, s) ==
    IF from = "CLAIMED"
    THEN IF s = "NONE" /\ ~row[o].bound /\ row[o].done = 0 THEN "RUNNING" ELSE "FAILED"
    ELSE IF s = "COMPLETED" THEN CompletedGoal(o)
    ELSE IF s = "CANCELLED" THEN "CANCELLED" ELSE StoppedGoal(from, s)

\* Read the local job and decide; only a decision that rests on the local
\* job publishes its progress.
Recover(w) ==
    LET j == RecoveredJob(wk[w].from, job[Op(w)])
        goal == RecoveryGoal(Op(w), wk[w].from, j.status)
    IN  /\ At(w, "recover")
        /\ \/ /\ PlansMayFail
              /\ Become(w, [wk[w] EXCEPT !.pc = "reconcile", !.goal = "FAILED"])
              /\ UNCHANGED job
           \/ /\ job' = [job EXCEPT ![Op(w)] = j]
              /\ Become(w, [wk[w] EXCEPT !.pc = "reconcile", !.goal = goal,
                               !.local = IF goal = "FAILED" \/ j.status = "NONE"
                                         THEN -1 ELSE j.next])
        /\ UNCHANGED <<row, receipts, short, flock>>

ReconcileRow(w) ==
    /\ At(w, "reconcile")
    /\ \/ /\ Reconcile(Op(w), w, wk[w].goal, wk[w].local)
          /\ Become(w, IF wk[w].goal = "RUNNING"
                       THEN Holding("execute", Op(w), "none") ELSE AtRest("idle"))
          /\ UNCHANGED <<job, receipts, short, flock>>
       \/ ~MayReconcile(Op(w), w, wk[w].local) /\ Lost(w)

-----------------------------------------------------------------------------
(* _settle_claimed_unleased_control: settle a bound control, execute nothing *)

SettledControlJob(control, j) ==
    IF control = "CANCEL_REQUESTED" /\ j.status \in {"PLANNED", "PAUSED"}
    THEN [j EXCEPT !.status = "CANCELLED"] ELSE j

ControlGoal(o, control, s) ==
    CASE s = "COMPLETED" -> CompletedGoal(o)
      [] control = "PAUSE_REQUESTED" /\ s \in {"PLANNED", "PAUSED", "FAILED"} -> "PAUSED"
      [] control = "CANCEL_REQUESTED" /\ s = "CANCELLED" -> "CANCELLED"
      [] OTHER -> "FAILED"

SettleControl(w) ==
    LET control == wk[w].from
        j == SettledControlJob(control, job[Op(w)])
        goal == ControlGoal(Op(w), control, j.status)
    IN  /\ At(w, "settleControl")
        /\ \/ /\ PlansMayFail
              /\ Become(w, [wk[w] EXCEPT !.pc = "finish", !.ctx = "control", !.goal = "FAILED"])
              /\ UNCHANGED job
           \/ /\ job' = [job EXCEPT ![Op(w)] = j]
              /\ Become(w, [wk[w] EXCEPT !.pc = IF goal = "FAILED" THEN "finish" ELSE "ckptRead",
                                         !.ctx = "control", !.goal = goal, !.local = j.next])
        /\ UNCHANGED <<row, receipts, short, flock>>

-----------------------------------------------------------------------------
(* PostgreSQL fails a transaction and works again *)

\* A failed poll, checkpoint or final write is a failure of what it was for;
\* one after that ends the process, as a crash does.
DatabaseFails(w) ==
    \/ /\ InExecutor(w)
       /\ wk[w].pc \in {"poll", "renew", "ckptRead", "ckptWrite"}
       /\ ExecutorFails(w)
    \/ /\ wk[w].ctx \in {"settle", "paused", "cancelled"}
       /\ ToFailure(w)
       /\ UNCHANGED <<row, job, receipts, short, flock>>
    \/ /\ At(w, "reconcile") /\ wk[w].goal # "FAILED"
       /\ Become(w, [wk[w] EXCEPT !.goal = "FAILED", !.local = -1])
       /\ UNCHANGED <<row, job, receipts, short, flock>>
    \/ /\ wk[w].ctx = "control" /\ wk[w].goal # "FAILED"
       /\ Become(w, [wk[w] EXCEPT !.pc = "finish", !.goal = "FAILED"])
       /\ UNCHANGED <<row, job, receipts, short, flock>>

\* The heartbeat task fails while the executor waits for the source or for
\* the observer's lock: the executor is cancelled and leaves its job RUNNING.
HeartbeatFails(w) ==
    /\ InExecutor(w)
    /\ wk[w].pc \in {"fetch", "poll", "ckptRead"}
    /\ Release(w)
    /\ ToFailure(w)
    /\ UNCHANGED <<row, job, receipts, short>>

-----------------------------------------------------------------------------
(* The market-data CLI on the same jobs.json *)

CliPause(o) ==
    /\ CliControls
    /\ job[o].status = "RUNNING"
    /\ SetJob(o, "PAUSED")
    /\ UNCHANGED <<row, receipts, short, flock, wk>>

CliCancel(o) ==
    /\ CliControls
    /\ Cancellable(job[o])
    /\ SetJob(o, "CANCELLED")
    /\ UNCHANGED <<row, receipts, short, flock, wk>>

-----------------------------------------------------------------------------
Init ==
    /\ row = [o \in Ops |-> AbsentRow]
    /\ job = [o \in Ops |-> NoJob]
    /\ receipts = [o \in Ops |-> 0]
    /\ short = [o \in Ops |-> {}]
    /\ flock = [d \in Datasets |-> NoOwner]
    /\ wk = [w \in Workers |-> AtRest("down")]

WorkerStep(w) ==
    \/ RecoverAbandoned(w) \/ ClaimExpired(w) \/ SelectControl(w) \/ ClaimControl(w)
    \/ SelectPending(w) \/ ClaimPending(w) \/ Start(w) \/ Execute(w) \/ Acquire(w)
    \/ Boundary(w) \/ ApplyControl(w) \/ Verify(w) \/ Fetch(w) \/ Advance(w)
    \/ Poll(w) \/ Renew(w) \/ CkptRead(w) \/ CkptWrite(w) \/ Finish(w)
    \/ Recover(w) \/ ReconcileRow(w) \/ SettleControl(w)

SubmitStep(o) == Submit(o) /\ UNCHANGED <<job, receipts, short, flock, wk>>

AdminStep(o) == /\ RequestPause(o) \/ RequestCancel(o) \/ RequestResume(o)
                /\ UNCHANGED <<job, receipts, short, flock, wk>>

Expire(o) == LeaseExpires(o) /\ UNCHANGED <<job, receipts, short, flock, wk>>

DatabaseStep(w) == DatabaseFails(w) \/ HeartbeatFails(w)

Next == \/ \E w \in Workers : Boot(w) \/ Crash(w) \/ DatabaseStep(w) \/ WorkerStep(w)
        \/ \E o \in Ops : SubmitStep(o) \/ AdminStep(o) \/ Expire(o) \/ CliPause(o) \/ CliCancel(o)

Spec == Init /\ [][Next]_vars

-----------------------------------------------------------------------------
(* Properties *)

TypeOK ==
    /\ row \in [Ops -> Rows]
    /\ job \in [Ops -> Jobs]
    /\ receipts \in [Ops -> 0..Chunks]
    /\ short \in [Ops -> SUBSET Nat]
    /\ flock \in [Datasets -> Workers \cup {NoOwner}]
    /\ wk \in [Workers -> Sessions]

\* An operation is published COMPLETED only after every chunk has a durable
\* receipt that lacks no candle and the local job itself is complete, whoever
\* publishes it: the executor's settlement, a recovery or a control settlement.
CompletedIsDurable ==
    \A o \in Ops : row[o].status = "COMPLETED" =>
        /\ job[o].status = "COMPLETED"
        /\ receipts[o] = Chunks /\ short[o] = {}
        /\ row[o].done = Chunks

\* Progress never runs ahead of its evidence: PostgreSQL behind the local
\* checkpoint, the checkpoint behind the committed receipts.
ProgressIsDurable ==
    \A o \in Ops : row[o].done <= job[o].next /\ job[o].next <= receipts[o]

\* Claims that race under READ COMMITTED leave at most one active row per
\* dataset: the select may not see the other claim, the index does.
OneActivePerDataset ==
    \A o, p \in Ops : o # p /\ DatasetOf[o] = DatasetOf[p]
        => ~(ActiveRow(row[o]) /\ ActiveRow(row[p]))

\* Whatever crash came between the commit of a chunk and its checkpoint, the
\* source is asked again for it only if its receipt counts too few candles.
RefetchesOnlyShort ==
    \A w \in Workers :
        At(w, "fetch") /\ receipts[Op(w)] > wk[w].local => wk[w].local \in short[Op(w)]

\* A job that an executor is running is not failed under it by the
\* recover_abandoned of another worker, nor run by two executors; the CLI alone
\* may pause or cancel it before its next boundary.
ExecutorKeepsItsJob ==
    \A w \in Workers : wk[w].pc \in {"verify", "fetch", "advance"} =>
        /\ flock[Dataset(w)] = w
        /\ job[Op(w)].status \in {"RUNNING"} \cup (IF CliControls THEN {"PAUSED", "CANCELLED"} ELSE {})
        /\ job[Op(w)].next = wk[w].local

\* A dataset is worked on for one operation at a time, by one executor.
ExclusiveWork == OneActivePerDataset /\ ExecutorKeepsItsJob

\* Once a row says that work stopped at a safe boundary, or is done, no
\* worker is past the boundary of a chunk of it: not even one that lost its
\* lease and does not know.
StoppedMeansQuiet ==
    \A o \in Ops : row[o].status \in {"PENDING", "PAUSED", "CANCELLED", "COMPLETED"} =>
        \A w \in Workers : Op(w) = o => wk[w].pc \notin {"verify", "fetch", "advance"}

-----------------------------------------------------------------------------
(* The inductive invariant behind ProgressIsDurable, CompletedIsDurable and *)
(* RefetchesOnlyShort: what a session may rely on at each point            *)

\* Points at which a session has no operation in hand.
FreePoints == {"down", "idle", "claimExpired", "claimControl", "claimNext"}
ChunkPoints == {"boundary", "control", "verify", "fetch", "advance"}
LockPoints == {"claimRow", "controlRow"}

\* A session past its claim has an operation, and the record it read is not
\* ahead of the catalog.
KnowsItsJob(w) ==
    /\ wk[w].pc \in FreePoints => Op(w) = NoOwner /\ wk[w].local = -1
    /\ wk[w].pc \notin FreePoints => Op(w) \in Ops /\ wk[w].local <= job[Op(w)].next
    /\ wk[w].pc \in FreePoints \cup LockPoints => wk[w].ctx \in {"none", "retry"}
    /\ wk[w].pc \in {"ckptRead", "ckptWrite"} => wk[w].ctx \in {"loop", "settle", "control"}

\* The candidate a claim has locked is still what its query found.
HoldsRowLock(w) ==
    wk[w].pc \in LockPoints =>
        /\ row[Op(w)].lock = w
        /\ row[Op(w)].owner = NoOwner
        /\ row[Op(w)].status \in (IF At(w, "claimRow") THEN {"PENDING"} ELSE ControlStates)

\* The flock makes the executor the only one to move the job's checkpoint.
HoldsFlock(w) ==
    /\ wk[w].pc \in ChunkPoints => wk[w].ctx = "loop" /\ wk[w].local < Chunks
    /\ wk[w].ctx = "loop" =>
         /\ flock[Dataset(w)] = w
         /\ wk[w].local = job[Op(w)].next
         /\ wk[w].pc \in ChunkPoints \cup {"poll", "renew", "ckptRead", "ckptWrite"}
         /\ wk[w].pc \in {"poll", "renew"} => wk[w].local < Chunks
    /\ At(w, "fetch") => receipts[Op(w)] = wk[w].local \/ wk[w].local \in short[Op(w)]
    /\ At(w, "advance") => receipts[Op(w)] > wk[w].local

\* Who settles an execution, or intends COMPLETED, has seen the local job
\* complete and, before the final write, published all its chunks.
HasEvidence(w) ==
    /\ wk[w].ctx = "settle" \/ wk[w].goal = "COMPLETED" =>
         /\ wk[w].pc \in {"ckptRead", "ckptWrite", "poll", "renew", "finish", "reconcile"}
         /\ job[Op(w)].status = "COMPLETED"
         /\ wk[w].local = Chunks
    /\ wk[w].ctx = "settle" => ~At(w, "reconcile")
    /\ wk[w].goal = "COMPLETED" => wk[w].ctx \in {"settle", "control"} \/ At(w, "reconcile")
    /\ wk[w].goal = "COMPLETED" /\ At(w, "finish") => row[Op(w)].done = Chunks
    /\ wk[w].ctx = "settle" /\ wk[w].pc \in {"poll", "renew"} => row[Op(w)].done = Chunks

SessionInv(w) == KnowsItsJob(w) /\ HoldsRowLock(w) /\ HoldsFlock(w) /\ HasEvidence(w)

\* A finished local job has all its chunks, and only such a job has; a completed
\* one lacks no candle of them.
FinishedJobsHaveAllChunks ==
    \A o \in Ops :
        /\ job[o].status = "COMPLETED" => job[o].next = Chunks /\ short[o] = {}
        /\ job[o].next = Chunks => job[o].status \in {"COMPLETED", "CANCELLED"}

\* Only a lease can run out, and a queued row has none.
LeaseFits(r) == /\ r.owner = NoOwner => ~r.expired
                /\ r.status = "PENDING" => r.owner = NoOwner
LeasesFit == \A o \in Ops : LeaseFits(row[o])

DataInv == /\ ProgressIsDurable
           /\ CompletedIsDurable
           /\ FinishedJobsHaveAllChunks
           /\ LeasesFit

\* What every worker relies on between two of its steps, whatever the others
\* and their recoveries do meanwhile.
EvidenceInv == TypeOK /\ DataInv /\ \A w \in Workers : SessionInv(w)

-----------------------------------------------------------------------------
\* What the promise of the queue is about.
statuses == [o \in Ops |-> row[o].status]
leases == [o \in Ops |-> row[o].owner # NoOwner]
progress == [o \in Ops |-> row[o].done]

\* Workers, local files, crashes and recoveries together keep the promise of
\* the queue: every step is one legal update of one row, one chunk commit, or
\* nothing at all.
Lifecycle == INSTANCE MarketOperationLifecycle WITH
    status <- statuses, leased <- leases, done <- progress, durable <- receipts

ImplementsLifecycle == Lifecycle!Spec
=============================================================================
