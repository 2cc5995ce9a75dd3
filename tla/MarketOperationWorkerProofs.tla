--------------------- MODULE MarketOperationWorkerProofs ---------------------
(***************************************************************************)
(* What MarketOperationWorker and the loop around it in WorkerPresence keep,*)
(* for any operations, datasets, chunks and workers.                       *)
(*                                                                         *)
(* First EvidenceInv.  Each transaction of MarketOperations is shown once  *)
(* to keep the rows well-typed and what others rely on (RowsKeep); a step  *)
(* of a worker then has to establish its own SessionInv, and the other     *)
(* sessions keep theirs by SessionFrame.                                   *)
(*                                                                         *)
(* Then that the workers implement MarketOperationLifecycle, work on a     *)
(* dataset for one operation at a time, and are quiet about an operation   *)
(* that stands still.  What the rows do is proved by way of the lifecycle: *)
(* each transaction is one of its steps or none, and its steps keep        *)
(* QueueInv, whoever takes them.  What the sessions do rests on the flock: *)
(* only its holder, or nobody's recovery, takes a job out of the hands of  *)
(* its executor.                                                           *)
(*                                                                         *)
(* Last, that WorkerPresence tells administrators what is so. The loop     *)
(* around run_once takes no step of its own on the queue, so what was shown*)
(* of the workers holds there too; a row that has ended never changes, and *)
(* it ends in one step of one worker, which alone goes on to record it.    *)
(***************************************************************************)
EXTENDS WorkerPresence, TLAPS

-----------------------------------------------------------------------------
(* Rows *)

RowsOK == row \in [Ops -> Rows] /\ LeasesFit

\* What a step of w leaves alone in the rows: progress only grows, and a row
\* another worker has locked for a claim stays as it is.
RowsKeep(w) ==
    \A p \in Ops :
        /\ row[p].done <= row'[p].done
        /\ \A x \in Workers \ {w} :
             row[p].lock = x /\ row[p].owner = NoOwner
                /\ row[p].status \in {"PENDING"} \cup ControlStates
             => /\ row'[p].lock = x /\ row'[p].owner = NoOwner
                /\ row'[p].status = row[p].status

\* No row becomes COMPLETED, none changes its progress.
OutcomesKeep ==
    \A p \in Ops : /\ row'[p].done = row[p].done
                   /\ row'[p].status = "COMPLETED" => row[p].status = "COMPLETED"

RowsStep(w) == RowsOK' /\ RowsKeep(w)

\* Every state but the terminal ones has its normal successors among the
\* states, and a completed row has none.
LEMMA TransitionsType ==
    ASSUME NEW s, NEW t \in NormalTransitions(s)
    PROVE  /\ t \in OperationStates
           /\ s # "COMPLETED" /\ s # "ABSENT"
           /\ t = "COMPLETED" => s \in {"RUNNING"} \cup ControlStates
  BY DEF NormalTransitions, OperationStates, ControlStates, TERMINAL_OPERATION_STATES

\* Clearing the lease keeps a row a row and touches neither its progress nor
\* its row lock.
LEMMA InStateType ==
    ASSUME NEW r \in Rows, NEW s \in OperationStates
    PROVE  /\ InState(r, s) \in Rows
           /\ InState(r, s).status = s
           /\ InState(r, s).done = r.done
           /\ InState(r, s).lock = r.lock
           /\ InState(r, s).owner \in {r.owner, NoOwner}
           /\ LeaseFits(r) => LeaseFits(InState(r, s))
  BY DEF InState, Rows, Owners, LeaseFits, CLEAR_LEASE_STATES

\* A write of row o by anyone: the new row is r but for `current`.
LEMMA WriteType ==
    ASSUME RowsOK, NEW o \in Ops, NEW r \in Rows,
           LeaseFits(r),
           WriteAsOwner(o, r) \/ WriteAsOther(o, r)
    PROVE  /\ RowsOK'
           /\ \A p \in Ops \ {o} : row'[p] = row[p]
           /\ row'[o].status = r.status /\ row'[o].owner = r.owner
           /\ row'[o].lock = r.lock /\ row'[o].done = r.done
  <1>1. PICK b \in BOOLEAN : row' = [row EXCEPT ![o] = [r EXCEPT !.current = b]]
    BY DEF WriteAsOwner, WriteAsOther
  <1>2. [r EXCEPT !.current = b] \in Rows
    BY DEF Rows
  <1>3. row' \in [Ops -> Rows] /\ row'[o] = [r EXCEPT !.current = b]
        /\ \A p \in Ops \ {o} : row'[p] = row[p]
    BY <1>1, <1>2 DEF RowsOK
  <1>4. row'[o].status = r.status /\ row'[o].owner = r.owner /\ row'[o].expired = r.expired
        /\ row'[o].lock = r.lock /\ row'[o].done = r.done
    BY <1>3 DEF Rows
  <1> QED
    BY <1>3, <1>4 DEF RowsOK, LeasesFit, LeaseFits

\* A row that nobody has locked, whose lock is w's, or that is leased, is
\* nobody else's locked candidate: writing it keeps the rows others rely on.
LEMMA WriteStep ==
    ASSUME RowsOK, NEW o \in Ops, NEW r \in Rows, NEW w,
           LeaseFits(r),
           r.done >= row[o].done,
           \/ row[o].lock \in {NoOwner, w}
           \/ row[o].owner # NoOwner
           \/ row[o].status \notin {"PENDING"} \cup ControlStates,
           WriteAsOwner(o, r) \/ WriteAsOther(o, r)
    PROVE  /\ RowsStep(w)
           /\ \A p \in Ops \ {o} : row'[p] = row[p]
           /\ row'[o].status = r.status /\ row'[o].owner = r.owner
           /\ row'[o].lock = r.lock /\ row'[o].done = r.done
  <1>1. /\ RowsOK'
        /\ \A p \in Ops \ {o} : row'[p] = row[p]
        /\ row'[o].status = r.status /\ row'[o].owner = r.owner
        /\ row'[o].lock = r.lock /\ row'[o].done = r.done
    BY WriteType
  <1>2. RowsKeep(w)
    <2> SUFFICES ASSUME NEW p \in Ops
                 PROVE  /\ row[p].done <= row'[p].done
                        /\ \A x \in Workers \ {w} :
                             row[p].lock = x /\ row[p].owner = NoOwner
                                /\ row[p].status \in {"PENDING"} \cup ControlStates
                             => /\ row'[p].lock = x /\ row'[p].owner = NoOwner
                                /\ row'[p].status = row[p].status
      BY DEF RowsKeep
    <2>1. CASE p = o
      BY <1>1, <2>1, WorkersAssumption
    <2>2. CASE p # o
      BY <1>1, <2>2, ChunksAssumption DEF RowsOK, Rows
    <2> QED BY <2>1, <2>2
  <1> QED BY <1>1, <1>2 DEF RowsStep

-----------------------------------------------------------------------------
(* The transactions *)

\* create_idempotently inserts a row that nobody has locked yet.
LEMMA SubmitRow ==
    ASSUME RowsOK, NEW o \in Ops, Submit(o)
    PROVE  RowsStep(NoOwner) /\ OutcomesKeep
  <1>1. "PENDING" \in OperationStates /\ row[o] \in Rows
    BY DEF OperationStates, RowsOK
  <1>2. row[o].status = "ABSENT" /\ LeaseFits(row[o])
        /\ row[o].done >= row[o].done
    BY <1>1 DEF Submit, RowsOK, LeasesFit, LeaseFits, Rows
  <1> DEFINE r == InState(row[o], "PENDING")
  <1>3. /\ r \in Rows /\ r.status = "PENDING" /\ r.done = row[o].done
        /\ LeaseFits(r)
    BY <1>1, <1>2, InStateType
  <1>4. WriteAsOther(o, r)
    BY DEF Submit
  <1> HIDE DEF r
  <1>5. /\ RowsStep(NoOwner)
        /\ \A p \in Ops \ {o} : row'[p] = row[p]
        /\ row'[o].status = r.status /\ row'[o].done = r.done
    BY <1>2, <1>3, <1>4, WriteStep DEF ControlStates
  <1> QED
    BY <1>3, <1>5 DEF OutcomesKeep

\* pause, cancel and resume (request_state) change the row's state only, and
\* never that of a row locked by a claim.
LEMMA RequestControlRow ==
    ASSUME RowsOK, NEW o \in Ops, NEW t, RequestControl(o, t),
           t \in {"PENDING"} \cup ControlStates
    PROVE  RowsStep(NoOwner) /\ OutcomesKeep
  <1>1. t \in OperationStates /\ row[o] \in Rows
    BY TransitionsType DEF RequestControl, RowsOK
  <1>2. row[o].lock = NoOwner /\ LeaseFits(row[o])
        /\ row[o].done >= row[o].done
    BY <1>1 DEF RequestControl, RowsOK, LeasesFit, LeaseFits, Rows
  <1> DEFINE r == InState(row[o], t)
  <1>3. /\ r \in Rows /\ r.status = t /\ r.done = row[o].done
        /\ LeaseFits(r)
    BY <1>1, <1>2, InStateType
  <1>4. WriteAsOther(o, r)
    BY DEF RequestControl
  <1> HIDE DEF r
  <1>5. /\ RowsStep(NoOwner)
        /\ \A p \in Ops \ {o} : row'[p] = row[p]
        /\ row'[o].status = r.status /\ row'[o].done = r.done
    BY <1>2, <1>3, <1>4, WriteStep
  <1> QED
    BY <1>3, <1>5 DEF OutcomesKeep, ControlStates

\* get by the owner changes nothing but what the owner knows.
LEMMA ReadRowStep ==
    ASSUME RowsOK, NEW w \in Workers, NEW o \in Ops, ReadRow(o, w)
    PROVE  RowsStep(w) /\ OutcomesKeep
  <1>1. row' = [row EXCEPT ![o] = [row[o] EXCEPT !.current = TRUE]]
    BY DEF ReadRow, RowsOK, Rows
  <1>2. [row[o] EXCEPT !.current = TRUE] \in Rows
    BY DEF RowsOK, Rows
  <1>3. row' \in [Ops -> Rows]
        /\ \A p \in Ops : /\ row'[p].done = row[p].done
                          /\ row'[p].status = row[p].status
                          /\ row'[p].owner = row[p].owner
                          /\ row'[p].lock = row[p].lock
                          /\ row'[p].expired = row[p].expired
    BY <1>1, <1>2 DEF RowsOK, Rows
  <1>4. \A p \in Ops : row[p].done \in 0..Chunks
    BY DEF RowsOK, Rows
  <1> QED
    BY <1>3, <1>4, ChunksAssumption
    DEF RowsStep, RowsOK, RowsKeep, OutcomesKeep, LeasesFit, LeaseFits

\* A lease that runs out leaves state, owner, lock and progress alone.
LEMMA LeaseExpiresStep ==
    ASSUME RowsOK, NEW o \in Ops, LeaseExpires(o)
    PROVE  RowsStep(NoOwner) /\ OutcomesKeep
  <1>1. row' = [row EXCEPT ![o] = [row[o] EXCEPT !.expired = TRUE]]
    BY DEF LeaseExpires, RowsOK, Rows
  <1>2. [row[o] EXCEPT !.expired = TRUE] \in Rows
    BY DEF RowsOK, Rows
  <1>3. row' \in [Ops -> Rows]
        /\ \A p \in Ops : /\ row'[p].done = row[p].done
                          /\ row'[p].status = row[p].status
                          /\ row'[p].owner = row[p].owner
                          /\ row'[p].lock = row[p].lock
                          /\ p # o => row'[p].expired = row[p].expired
    BY <1>1, <1>2 DEF RowsOK, Rows
  <1>4. \A p \in Ops : row[p].done \in 0..Chunks
    BY DEF RowsOK, Rows
  <1> QED
    BY <1>3, <1>4, ChunksAssumption
    DEF RowsStep, RowsOK, RowsKeep, OutcomesKeep, LeasesFit, LeaseFits, LeaseExpires

\* Taking or giving back a row lock (for update skip locked) moves no other row.
LEMMA LockRowStep ==
    ASSUME RowsOK, NEW w \in Workers, NEW o \in Ops,
           \/ LockRow(o, w) /\ row[o].lock = NoOwner
           \/ UnlockRow(o) /\ row[o].lock = w
    PROVE  /\ RowsStep(w) /\ OutcomesKeep
           /\ row'[o].status = row[o].status /\ row'[o].owner = row[o].owner
           /\ LockRow(o, w) => row'[o].lock = w
  <1>1. PICK l \in {w, NoOwner} :
            /\ row' = [row EXCEPT ![o] = [row[o] EXCEPT !.lock = l]]
            /\ LockRow(o, w) => l = w
    BY DEF LockRow, UnlockRow, RowsOK, Rows
  <1>2. [row[o] EXCEPT !.lock = l] \in Rows
    BY DEF RowsOK, Rows
  <1>3. row' \in [Ops -> Rows] /\ row'[o].lock = l
        /\ \A p \in Ops : /\ row'[p].done = row[p].done
                          /\ row'[p].status = row[p].status
                          /\ row'[p].owner = row[p].owner
                          /\ p # o => row'[p].lock = row[p].lock
                          /\ row'[p].expired = row[p].expired
    BY <1>1, <1>2 DEF RowsOK, Rows
  <1>4. \A p \in Ops : row[p].done \in 0..Chunks
    BY DEF RowsOK, Rows
  <1> QED
    BY <1>1, <1>3, <1>4, ChunksAssumption, WorkersAssumption
    DEF RowsStep, RowsOK, RowsKeep, OutcomesKeep, LeasesFit, LeaseFits

\* A process that ends gives back only its own row locks; its leases stay.
LEMMA AbandonRowsStep ==
    ASSUME RowsOK, NEW w \in Workers, AbandonRows(w)
    PROVE  RowsStep(w) /\ OutcomesKeep
  <1>1. \A p \in Ops :
          /\ row'[p] \in Rows
          /\ row'[p].done = row[p].done
          /\ row'[p].status = row[p].status
          /\ row'[p].owner = IF row[p].owner = w THEN Gone ELSE row[p].owner
          /\ row'[p].lock = IF row[p].lock = w THEN NoOwner ELSE row[p].lock
          /\ row'[p].expired = row[p].expired
    BY DEF AbandonRows, RowsOK, Rows, Owners
  <1>2. row' \in [Ops -> Rows]
    BY <1>1 DEF AbandonRows
  <1>3. \A p \in Ops : row[p].done \in 0..Chunks
    BY DEF RowsOK, Rows
  <1> QED
    BY <1>1, <1>2, <1>3, ChunksAssumption, WorkersAssumption
    DEF RowsStep, RowsOK, RowsKeep, OutcomesKeep, LeasesFit, LeaseFits

\* A lease on a row makes it a leased row with the same state and progress.
LEMMA LeasedType ==
    ASSUME NEW r \in Rows, NEW w \in Workers
    PROVE  /\ Leased(r, w) \in Rows
           /\ Leased(r, w).status = r.status
           /\ Leased(r, w).done = r.done
           /\ Leased(r, w).owner = w /\ ~Leased(r, w).expired
  BY DEF Leased, Rows, Owners

\* The writes of a worker, o being the row it owns, claims or settles.
LEMMA ClaimExpiredRow ==
    ASSUME RowsOK, NEW w \in Workers, NEW o \in Ops, ClaimNextExpired(o, w)
    PROVE  /\ RowsStep(w) /\ OutcomesKeep
           /\ row[o].status \in {"CLAIMED", "RUNNING", "RECOVERING"} \cup ControlStates
  <1> DEFINE q == [row[o] EXCEPT !.status = "RECOVERING"]
             r == Leased(q, w)
  <1>0. q \in Rows /\ q.status = "RECOVERING" /\ q.done = row[o].done
        /\ row[o].done \in 0..Chunks
    BY DEF RowsOK, Rows, OperationStates
  <1> HIDE DEF q
  <1>1. /\ r \in Rows /\ r.status = "RECOVERING" /\ r.done = row[o].done
        /\ LeaseFits(r)
        /\ r.done >= row[o].done
    BY <1>0, LeasedType, ChunksAssumption, WorkersAssumption DEF LeaseFits
  <1>2. WriteAsOwner(o, r)
    BY DEF ClaimNextExpired, q
  <1>3. /\ row[o].status \in {"CLAIMED", "RUNNING", "RECOVERING"} \cup ControlStates
        /\ \/ row[o].owner # NoOwner
           \/ row[o].status \notin {"PENDING"} \cup ControlStates
    BY DEF ClaimNextExpired, AbandonedRecoveries, ExpiredRows, RowsOK, LeasesFit, LeaseFits,
           ControlStates
  <1> HIDE DEF r
  <1>4. /\ RowsStep(w)
        /\ \A p \in Ops \ {o} : row'[p] = row[p]
        /\ row'[o].status = r.status /\ row'[o].done = r.done
    BY <1>1, <1>2, <1>3, WriteStep
  <1> QED
    BY <1>1, <1>3, <1>4 DEF OutcomesKeep

\* The settlement of a control that never started publishes no completion and
\* no progress.
LEMMA SettleNeverStartedRow ==
    ASSUME RowsOK, NEW w \in Workers, NEW o \in Ops, SettleNeverStarted(o, w)
    PROVE  RowsStep(w) /\ OutcomesKeep
  <1>1. PICK t \in {"PAUSED", "CANCELLED"} : WriteAsOther(o, InState(row[o], t))
    BY DEF SettleNeverStarted
  <1> DEFINE r == InState(row[o], t)
  <1>2. row[o] \in Rows /\ t \in OperationStates /\ row[o].lock = NoOwner
    BY DEF RowsOK, OperationStates, TERMINAL_OPERATION_STATES, SettleNeverStarted,
           NeverStartedControls
  <1>3. LeaseFits(row[o]) /\ row[o].done >= row[o].done
    BY <1>2 DEF RowsOK, LeasesFit, LeaseFits, Rows
  <1>4. /\ r \in Rows /\ r.status = t /\ r.done = row[o].done
        /\ LeaseFits(r)
    BY <1>2, <1>3, InStateType
  <1>5. WriteAsOther(o, r)
    BY <1>1
  <1> HIDE DEF r
  <1>6. /\ RowsStep(w)
        /\ \A p \in Ops \ {o} : row'[p] = row[p]
        /\ row'[o].status = r.status /\ row'[o].done = r.done
    BY <1>2, <1>3, <1>4, <1>5, WriteStep
  <1> QED
    BY <1>4, <1>6 DEF OutcomesKeep

\* Writing a locked claim moves only the row its worker has locked.
LEMMA ClaimLockedRow ==
    ASSUME RowsOK, NEW w \in Workers, NEW o \in Ops, row[o].lock = w,
           NEW s \in {"CLAIMED"} \cup ControlStates, ClaimLocked(o, w, s)
    PROVE  RowsStep(w) /\ OutcomesKeep
  <1> DEFINE q == [row[o] EXCEPT !.status = s, !.started = TRUE]
             r == Leased(q, w)
  <1>0. q \in Rows /\ q.status = s /\ q.done = row[o].done
        /\ row[o].done \in 0..Chunks /\ s \notin {"PENDING", "COMPLETED"}
    BY DEF RowsOK, Rows, OperationStates, ControlStates
  <1> HIDE DEF q
  <1>1. /\ r \in Rows /\ r.status = s /\ r.done = row[o].done
        /\ LeaseFits(r)
        /\ r.done >= row[o].done
    BY <1>0, LeasedType, ChunksAssumption, WorkersAssumption DEF LeaseFits
  <1>2. WriteAsOwner(o, r)
    BY DEF ClaimLocked, q
  <1> HIDE DEF r
  <1>3. /\ RowsStep(w)
        /\ \A p \in Ops \ {o} : row'[p] = row[p]
        /\ row'[o].status = r.status /\ row'[o].done = r.done
    BY <1>1, <1>2, WriteStep
  <1> QED
    BY <1>0, <1>1, <1>3 DEF OutcomesKeep

\* A renewal leaves the row as it is.
LEMMA RenewLeaseRow ==
    ASSUME RowsOK, NEW w \in Workers, NEW o \in Ops, RenewLease(o, w)
    PROVE  RowsStep(w) /\ OutcomesKeep
  <1>1. /\ row[o] \in Rows /\ row[o].owner # NoOwner /\ LeaseFits(row[o])
        /\ row[o].done >= row[o].done
        /\ WriteAsOwner(o, row[o])
    BY WorkersAssumption DEF RenewLease, MayWrite, RowsOK, Rows, LeasesFit
  <1>2. /\ RowsStep(w)
        /\ \A p \in Ops \ {o} : row'[p] = row[p]
        /\ row'[o].status = row[o].status /\ row'[o].done = row[o].done
    BY <1>1, WriteStep
  <1> QED
    BY <1>2 DEF OutcomesKeep

\* Published progress is n, and nothing else about outcomes changes.
LEMMA UpdateProgressRow ==
    ASSUME RowsOK, NEW w \in Workers, NEW o \in Ops, NEW n \in 0..Chunks,
           UpdateProgress(o, w, n)
    PROVE  /\ RowsStep(w)
           /\ \A p \in Ops \ {o} : row'[p] = row[p]
           /\ row'[o].done = n /\ row'[o].status = row[o].status
  <1> DEFINE r == [row[o] EXCEPT !.done = n, !.bound = TRUE]
  <1>1. /\ r \in Rows /\ r.status = row[o].status /\ r.done = n
        /\ LeaseFits(r)
        /\ r.done >= row[o].done
        /\ row[o].owner # NoOwner
    BY WorkersAssumption DEF UpdateProgress, MayWrite, RowsOK, Rows, LeasesFit, LeaseFits
  <1>2. WriteAsOwner(o, r)
    BY DEF UpdateProgress
  <1> HIDE DEF r
  <1>3. /\ RowsStep(w)
        /\ \A p \in Ops \ {o} : row'[p] = row[p]
        /\ row'[o].status = r.status /\ row'[o].done = r.done
    BY <1>1, <1>2, WriteStep
  <1> QED
    BY <1>1, <1>3

\* request_state, complete and fail by the owner put the row in the state asked
\* for and keep its progress.
LEMMA RequestStateRow ==
    ASSUME RowsOK, NEW w \in Workers, NEW o \in Ops, NEW t, RequestState(o, w, t)
    PROVE  /\ RowsStep(w)
           /\ \A p \in Ops \ {o} : row'[p] = row[p]
           /\ row'[o].done = row[o].done /\ row'[o].status = t
  <1>1. /\ t \in OperationStates /\ row[o] \in Rows
        /\ row[o].owner # NoOwner /\ LeaseFits(row[o])
        /\ row[o].done >= row[o].done
    BY TransitionsType, WorkersAssumption
    DEF RequestState, MayRequestState, MayWrite, RowsOK, Rows, LeasesFit
  <1> DEFINE r == InState(row[o], t)
  <1>2. /\ r \in Rows /\ r.status = t /\ r.done = row[o].done
        /\ LeaseFits(r)
    BY <1>1, InStateType
  <1>3. WriteAsOwner(o, r)
    BY DEF RequestState
  <1> HIDE DEF r
  <1>4. /\ RowsStep(w)
        /\ \A p \in Ops \ {o} : row'[p] = row[p]
        /\ row'[o].status = r.status /\ row'[o].done = r.done
    BY <1>1, <1>2, <1>3, WriteStep
  <1> QED
    BY <1>2, <1>4

\* reconcile publishes the target, with the progress of the local job when it
\* rests on one.
LEMMA ReconcileRowStep ==
    ASSUME RowsOK, NEW w \in Workers, NEW o \in Ops, NEW t, NEW n \in -1..Chunks,
           Reconcile(o, w, t, n)
    PROVE  /\ RowsStep(w)
           /\ \A p \in Ops \ {o} : row'[p] = row[p]
           /\ row'[o].done = IF n < 0 THEN row[o].done ELSE n
           /\ row'[o].status = t
  <1> DEFINE r0 == IF n < 0 THEN row[o] ELSE [row[o] EXCEPT !.done = n, !.bound = TRUE]
             r == InState(r0, t)
  <1>1. /\ t \in OperationStates /\ row[o] \in Rows
        /\ row[o].owner # NoOwner /\ LeaseFits(row[o])
    BY WorkersAssumption
    DEF Reconcile, MayReconcile, MayWrite, RowsOK, LeasesFit, ReconcileTargets,
        OperationStates, TERMINAL_OPERATION_STATES
  <1>2. /\ r0 \in Rows /\ r0.owner = row[o].owner /\ LeaseFits(r0)
        /\ r0.done = IF n < 0 THEN row[o].done ELSE n
        /\ r0.done >= row[o].done
    <2>1. CASE n < 0
      BY <1>1, <2>1, ChunksAssumption DEF Rows
    <2>2. CASE ~(n < 0)
      <3>1. n \in 0..Chunks /\ n >= row[o].done
        BY <2>2, ChunksAssumption DEF Reconcile, MayReconcile
      <3>2. r0 = [row[o] EXCEPT !.done = n, !.bound = TRUE]
        BY <2>2
      <3>3. r0 \in Rows /\ r0.owner = row[o].owner /\ r0.done = n /\ LeaseFits(r0)
        BY <1>1, <3>1, <3>2 DEF Rows, LeaseFits
      <3> QED BY <2>2, <3>1, <3>3
    <2> QED BY <2>1, <2>2
  <1>3. WriteAsOwner(o, r)
    BY DEF Reconcile
  <1> HIDE DEF r0
  <1>4. /\ r \in Rows /\ r.status = t /\ r.done = r0.done
        /\ LeaseFits(r)
    BY <1>1, <1>2, InStateType
  <1> HIDE DEF r
  <1>5. /\ RowsStep(w)
        /\ \A p \in Ops \ {o} : row'[p] = row[p]
        /\ row'[o].status = r.status /\ row'[o].done = r.done
    BY <1>1, <1>2, <1>3, <1>4, WriteStep
  <1> QED
    BY <1>2, <1>4, <1>5

\* A step that writes no row keeps what others rely on in the rows.
LEMMA RowsUnchanged ==
    ASSUME RowsOK, UNCHANGED row, NEW w
    PROVE  RowsStep(w) /\ OutcomesKeep
  <1>1. \A p \in Ops : row[p].done \in 0..Chunks
    BY DEF RowsOK, Rows
  <1> QED
    BY <1>1, ChunksAssumption
    DEF RowsStep, RowsOK, RowsKeep, OutcomesKeep, LeasesFit, LeaseFits

-----------------------------------------------------------------------------
(* Files *)

FilesOK == /\ job \in [Ops -> Jobs]
           /\ receipts \in [Ops -> 0..Chunks] /\ short \in [Ops -> SUBSET Nat]
           /\ flock \in [Datasets -> Workers \cup {NoOwner}]

\* What a step of w leaves alone in the files: checkpoints only grow, a
\* completed job stays completed, and nobody moves the checkpoint, the
\* receipts or the flock of another executor.
FilesStep(w) ==
    /\ FilesOK'
    /\ \A o \in Ops : /\ job[o].next <= job'[o].next
                      /\ job[o].status = "COMPLETED" => job'[o].status = "COMPLETED"
    /\ \A x \in Workers \ {w} : wk[x].ctx = "loop" =>
          /\ flock'[Dataset(x)] = x
          /\ job'[Op(x)].next = job[Op(x)].next
          /\ receipts'[Op(x)] = receipts[Op(x)] /\ short'[Op(x)] = short[Op(x)]

\* No chunk moves, and no job leaves or enters COMPLETED.
JobsKeep ==
    /\ UNCHANGED <<receipts, short>>
    /\ \A o \in Ops :
          /\ job'[o].next = job[o].next
          /\ job'[o].status # job[o].status =>
               /\ job[o].status \notin {"COMPLETED", "CANCELLED"}
               /\ job'[o].status # "COMPLETED"

\* No lock of another worker moves.
FlockStep(w) ==
    /\ flock' \in [Datasets -> Workers \cup {NoOwner}]
    /\ \A d \in Datasets : flock[d] \in Workers \ {w} => flock'[d] = flock[d]

\* The parts of EvidenceInv that the lemmas on rows and files start from.
LEMMA TypeFacts ==
    ASSUME EvidenceInv
    PROVE  RowsOK /\ FilesOK /\ wk \in [Workers -> Sessions]
  BY DEF EvidenceInv, TypeOK, DataInv, RowsOK, FilesOK

\* An executor's dataset is a dataset.
LEMMA ExecutorsHold ==
    ASSUME EvidenceInv, NEW x \in Workers, wk[x].ctx = "loop"
    PROVE  /\ Op(x) \in Ops /\ Dataset(x) \in Datasets
           /\ flock[Dataset(x)] = x
  BY DEF EvidenceInv, SessionInv, KnowsItsJob, HoldsFlock, FreePoints, ChunkPoints,
         Datasets, Dataset

\* A step that commits no chunk and advances no job is no concern of the
\* sessions that read the catalog.
LEMMA QuietFiles ==
    ASSUME EvidenceInv, NEW w, job' \in [Ops -> Jobs], JobsKeep, FlockStep(w)
    PROVE  FilesStep(w)
  <1>1. FilesOK'
    BY TypeFacts DEF JobsKeep, FlockStep, FilesOK
  <1>2. ASSUME NEW o \in Ops
        PROVE  /\ job[o].next <= job'[o].next
               /\ job[o].status = "COMPLETED" => job'[o].status = "COMPLETED"
    <2>1. job[o].next \in 0..Chunks
      BY TypeFacts DEF FilesOK, Jobs
    <2> QED BY <2>1, ChunksAssumption DEF JobsKeep
  <1>3. ASSUME NEW x \in Workers \ {w}, wk[x].ctx = "loop"
        PROVE  /\ flock'[Dataset(x)] = x
               /\ job'[Op(x)].next = job[Op(x)].next
               /\ receipts'[Op(x)] = receipts[Op(x)] /\ short'[Op(x)] = short[Op(x)]
    BY <1>3, ExecutorsHold DEF JobsKeep, FlockStep
  <1> QED BY <1>1, <1>2, <1>3 DEF FilesStep

\* A step that leaves jobs.json, the receipts and the locks alone.
LEMMA FilesUnchanged ==
    ASSUME EvidenceInv, NEW w, UNCHANGED <<job, receipts, short, flock>>
    PROVE  FilesStep(w) /\ JobsKeep
  <1>1. JobsKeep
    BY DEF JobsKeep
  <1>2. job' \in [Ops -> Jobs] /\ FlockStep(w)
    BY TypeFacts DEF FilesOK, FlockStep
  <1> QED BY <1>1, <1>2, QuietFiles

\* Freeing one's own dataset lock takes nobody else's.
LEMMA ReleaseStep ==
    ASSUME FilesOK, NEW w, UNCHANGED flock \/ Release(w)
    PROVE  FlockStep(w)
  BY DEF FilesOK, Release, FlockStep

\* A new record j of job o that keeps its checkpoint and its outcome.
LEMMA JobWrite ==
    ASSUME FilesOK, NEW o \in Ops, NEW j \in Jobs, UNCHANGED <<receipts, short>>,
           j.next = job[o].next,
           j.status # job[o].status => /\ job[o].status \notin {"COMPLETED", "CANCELLED"}
                                       /\ j.status # "COMPLETED",
           job' = [job EXCEPT ![o] = j]
    PROVE  job' \in [Ops -> Jobs] /\ JobsKeep
  BY DEF FilesOK, JobsKeep

\* A status written to jobs.json keeps the checkpoint and revives no finished
\* job.
LEMMA SetJobKeeps ==
    ASSUME FilesOK, NEW o \in Ops, NEW s \in JobStates \ {"COMPLETED"}, UNCHANGED <<receipts, short>>,
           s # job[o].status => job[o].status \notin {"COMPLETED", "CANCELLED"},
           SetJob(o, s)
    PROVE  job' \in [Ops -> Jobs] /\ JobsKeep
  <1> DEFINE j == [job[o] EXCEPT !.status = s]
  <1>1. j \in Jobs /\ j.status = s /\ j.next = job[o].next
    BY DEF FilesOK, Jobs
  <1>2. job' = [job EXCEPT ![o] = j]
    BY DEF SetJob, FilesOK, Jobs
  <1> HIDE DEF j
  <1> QED BY <1>1, <1>2, JobWrite

\* fail() keeps the checkpoint, and a completed or cancelled job as it is.
LEMMA FailedJobType ==
    ASSUME NEW j \in Jobs
    PROVE  /\ FailedJob(j) \in Jobs /\ FailedJob(j).next = j.next
           /\ FailedJob(j).status # j.status =>
                /\ j.status \notin {"COMPLETED", "CANCELLED"}
                /\ FailedJob(j).status # "COMPLETED"
  BY DEF FailedJob, Jobs, JobStates

\* Marking a job FAILED on the executor's way out keeps every checkpoint.
LEMMA FailJobKeeps ==
    ASSUME FilesOK, NEW o \in Ops, UNCHANGED <<receipts, short>>, FailJob(o)
    PROVE  job' \in [Ops -> Jobs] /\ JobsKeep
  <1>1. job[o] \in Jobs /\ job' = [job EXCEPT ![o] = FailedJob(job[o])]
    BY DEF FilesOK, FailJob
  <1> QED BY <1>1, FailedJobType, JobWrite

-----------------------------------------------------------------------------
(* Sessions *)

SessionsStep(w) == /\ wk' \in [Workers -> Sessions]
                   /\ \A x \in Workers \ {w} : wk'[x] = wk[x]

\* A session that becomes s moves no other session.
LEMMA BecomeStep ==
    ASSUME wk \in [Workers -> Sessions], NEW w \in Workers, NEW s \in Sessions, Become(w, s)
    PROVE  SessionsStep(w) /\ wk'[w] = s
  BY DEF Become, SessionsStep

\* A session that moves on keeps what it has in hand.
LEMMA GoStep ==
    ASSUME wk \in [Workers -> Sessions], NEW w \in Workers, NEW pc \in Points, Go(w, pc)
    PROVE  /\ SessionsStep(w)
           /\ wk'[w].pc = pc /\ wk'[w].op = wk[w].op /\ wk'[w].ctx = wk[w].ctx
           /\ wk'[w].from = wk[w].from /\ wk'[w].goal = wk[w].goal
           /\ wk'[w].local = wk[w].local
  <1> DEFINE s == [wk[w] EXCEPT !.pc = pc]
  <1>1. /\ s \in Sessions
        /\ s.pc = pc /\ s.op = wk[w].op /\ s.ctx = wk[w].ctx
        /\ s.from = wk[w].from /\ s.goal = wk[w].goal /\ s.local = wk[w].local
    BY DEF Sessions
  <1>2. Become(w, s)
    BY DEF Go, Become, Sessions
  <1> HIDE DEF s
  <1> QED BY <1>1, <1>2, BecomeStep

\* A step of no worker moves no session.
LEMMA SessionsUnchanged ==
    ASSUME wk \in [Workers -> Sessions], UNCHANGED wk, NEW w
    PROVE  SessionsStep(w)
  BY DEF SessionsStep

\* A session that stands still keeps what it relies on through any step of
\* another worker, of an administrator or of the CLI.
LEMMA SessionFrame ==
    ASSUME EvidenceInv, NEW w, RowsStep(w), FilesStep(w),
           NEW x \in Workers \ {w}, wk'[x] = wk[x]
    PROVE  SessionInv(x)'
  <1>1. /\ SessionInv(x) /\ wk[x] \in Sessions /\ RowsOK /\ FilesOK
        /\ RowsOK' /\ FilesOK'
    BY TypeFacts DEF EvidenceInv, RowsStep, FilesStep
  <1>2. KnowsItsJob(x)'
    <2>1. ASSUME wk[x].pc \notin FreePoints
          PROVE  Op(x) \in Ops /\ wk[x].local <= job'[Op(x)].next
      <3>1. /\ Op(x) \in Ops /\ wk[x].local <= job[Op(x)].next
            /\ job[Op(x)].next <= job'[Op(x)].next
        BY <1>1, <2>1 DEF SessionInv, KnowsItsJob, FilesStep
      <3>2. /\ wk[x].local \in -1..Chunks /\ job[Op(x)].next \in 0..Chunks
            /\ job'[Op(x)].next \in 0..Chunks
        BY <1>1, <3>1 DEF Sessions, FilesOK, Jobs
      <3> QED BY <3>1, <3>2, ChunksAssumption
    <2> QED
      BY <1>1, <2>1 DEF SessionInv, KnowsItsJob, Op, At
  <1>3. HoldsRowLock(x)'
    BY <1>1 DEF SessionInv, KnowsItsJob, HoldsRowLock, RowsStep, RowsKeep, LockPoints,
                FreePoints, Op, At
  <1>4. HoldsFlock(x)'
    <2>1. CASE wk[x].ctx = "loop"
      BY <1>1, <2>1 DEF SessionInv, HoldsFlock, FilesStep, Op, Dataset, At
    <2>2. CASE wk[x].ctx # "loop"
      BY <1>1, <2>2 DEF SessionInv, HoldsFlock, ChunkPoints, Op, Dataset, At
    <2> QED BY <2>1, <2>2
  <1>5. HasEvidence(x)'
    <2>1. ASSUME wk[x].ctx = "settle" \/ wk[x].goal = "COMPLETED"
          PROVE  Op(x) \in Ops /\ job'[Op(x)].status = "COMPLETED"
      BY <1>1, <2>1 DEF SessionInv, KnowsItsJob, HasEvidence, FilesStep, FreePoints
    <2>2. ASSUME Op(x) \in Ops, row[Op(x)].done = Chunks
          PROVE  row'[Op(x)].done = Chunks
      <3>1. row[Op(x)].done <= row'[Op(x)].done /\ row'[Op(x)].done \in 0..Chunks
        BY <1>1, <2>2 DEF RowsStep, RowsKeep, RowsOK, Rows
      <3> QED BY <2>2, <3>1, ChunksAssumption
    <2> QED
      BY <1>1, <2>1, <2>2 DEF SessionInv, HasEvidence, Op, At
  <1> QED BY <1>2, <1>3, <1>4, <1>5 DEF SessionInv

\* A step keeps EvidenceInv when it respects the frame, the data it changed
\* still agree, and the worker that made it knows where it stands.
LEMMA StepKeeps ==
    ASSUME EvidenceInv, NEW w, RowsStep(w), FilesStep(w), SessionsStep(w), DataInv',
           w \in Workers => SessionInv(w)'
    PROVE  EvidenceInv'
  <1>1. TypeOK'
    BY DEF RowsStep, RowsOK, FilesStep, FilesOK, SessionsStep, TypeOK
  <1>2. ASSUME NEW x \in Workers PROVE SessionInv(x)'
    <2>1. CASE x = w
      BY <2>1
    <2>2. CASE x # w
      BY <2>2, SessionFrame DEF SessionsStep
    <2> QED BY <2>1, <2>2
  <1> QED BY <1>1, <1>2 DEF EvidenceInv

\* A step that publishes no outcome and moves no checkpoint keeps the evidence
\* of what was published.
LEMMA QuietData ==
    ASSUME EvidenceInv, RowsOK', OutcomesKeep, JobsKeep
    PROVE  DataInv'
  <1>1. ProgressIsDurable'
    BY DEF EvidenceInv, DataInv, ProgressIsDurable, OutcomesKeep, JobsKeep
  <1>2. CompletedIsDurable'
    BY DEF EvidenceInv, DataInv, CompletedIsDurable, OutcomesKeep, JobsKeep
  <1>3. FinishedJobsHaveAllChunks'
    BY DEF EvidenceInv, DataInv, FinishedJobsHaveAllChunks, JobsKeep
  <1> QED BY <1>1, <1>2, <1>3 DEF RowsOK, DataInv

\* Such a step keeps EvidenceInv once its own worker is accounted for.
LEMMA QuietStep ==
    ASSUME EvidenceInv, NEW w, RowsStep(w), OutcomesKeep, FilesStep(w), JobsKeep,
           SessionsStep(w), w \in Workers => SessionInv(w)'
    PROVE  EvidenceInv'
  <1>1. DataInv'
    BY QuietData DEF RowsStep
  <1> QED BY <1>1, StepKeeps

\* A session at rest relies on nothing.
LEMMA RestSession ==
    ASSUME NEW pc \in FreePoints
    PROVE  /\ AtRest(pc) \in Sessions
           /\ \A c \in {"none", "retry"} : [AtRest(pc) EXCEPT !.ctx = c] \in Sessions
  BY ChunksAssumption
  DEF AtRest, Holding, FreePoints, Sessions, Points, Contexts, Origins, Goals

\* A session with no operation in hand relies on nothing.
LEMMA FreeSession ==
    ASSUME NEW w \in Workers, wk'[w].pc \in FreePoints, wk'[w].op = NoOwner, wk'[w].local = -1,
           wk'[w].ctx \in {"none", "retry"}, wk'[w].goal # "COMPLETED"
    PROVE  SessionInv(w)'
  <1>1. KnowsItsJob(w)' /\ HoldsRowLock(w)'
    BY DEF KnowsItsJob, HoldsRowLock, FreePoints, LockPoints, Op, At
  <1>2. HoldsFlock(w)' /\ HasEvidence(w)'
    BY DEF HoldsFlock, HasEvidence, FreePoints, ChunkPoints, Op, At
  <1> QED BY <1>1, <1>2 DEF SessionInv

\* run_once begins and ends with such a session.
LEMMA AtRestSession ==
    ASSUME NEW w \in Workers, NEW pc \in FreePoints, wk'[w] = AtRest(pc)
    PROVE  SessionInv(w)'
  <1>1. /\ wk'[w].pc = pc /\ wk'[w].op = NoOwner /\ wk'[w].ctx = "none"
        /\ wk'[w].goal = "none" /\ wk'[w].local = -1
    BY DEF AtRest, Holding
  <1> QED BY <1>1, FreeSession

\* Points of a session that holds an operation outside the chunk loop.
HeldPoints == {"start", "execute", "acquire", "settleControl", "reconcile",
               "poll", "renew", "ckptRead", "ckptWrite", "finish"}

\* Outside the loop and the settlement, an operation in hand and a record not
\* ahead of the catalog are all a session needs.
LEMMA HeldSession ==
    ASSUME NEW w \in Workers, wk'[w].pc \in HeldPoints, wk'[w].op \in Ops,
           wk'[w].local <= job'[wk'[w].op].next,
           wk'[w].ctx \notin {"loop", "settle"}, wk'[w].goal # "COMPLETED",
           wk'[w].pc \in {"ckptRead", "ckptWrite"} => wk'[w].ctx = "control"
    PROVE  SessionInv(w)'
  <1>1. KnowsItsJob(w)' /\ HoldsRowLock(w)'
    BY DEF KnowsItsJob, HoldsRowLock, HeldPoints, FreePoints, LockPoints, Op, At
  <1>2. HoldsFlock(w)' /\ HasEvidence(w)'
    BY DEF HoldsFlock, HasEvidence, HeldPoints, ChunkPoints, Op, At
  <1> QED BY <1>1, <1>2 DEF SessionInv

\* What a worker past its claim knows of its operation.
LEMMA BusyFacts ==
    ASSUME EvidenceInv, NEW w \in Workers, wk[w].pc \notin FreePoints
    PROVE  /\ Op(w) \in Ops /\ wk[w] \in Sessions
           /\ row[Op(w)] \in Rows /\ job[Op(w)] \in Jobs /\ receipts[Op(w)] \in 0..Chunks
           /\ wk[w].local <= job[Op(w)].next /\ wk[w].local \in -1..Chunks
  BY TypeFacts
  DEF EvidenceInv, SessionInv, KnowsItsJob, RowsOK, FilesOK, Sessions

-----------------------------------------------------------------------------
(* How a process ends *)

\* Ending a process: its locks and row locks are freed, its leases left to expire.
LEMMA EndProcessKeeps ==
    ASSUME EvidenceInv, NEW w \in Workers, EndProcess(w), UNCHANGED <<receipts, short>>,
           job' \in [Ops -> Jobs], JobsKeep
    PROVE  EvidenceInv'
  <1>1. RowsStep(w) /\ OutcomesKeep
    BY TypeFacts, AbandonRowsStep DEF EndProcess
  <1>2. FilesStep(w)
    BY TypeFacts, ReleaseStep, QuietFiles DEF EndProcess
  <1>3. "down" \in FreePoints
    BY DEF FreePoints
  <1>4. SessionsStep(w) /\ SessionInv(w)'
    BY <1>3, TypeFacts, RestSession, BecomeStep, AtRestSession DEF EndProcess
  <1> QED BY <1>1, <1>2, <1>4, QuietStep

\* A process that ends, by a crash or an exception, leaves the evidence intact.
LEMMA ExitKeeps ==
    ASSUME EvidenceInv, NEW w \in Workers, Exit(w)
    PROVE  EvidenceInv'
  <1>1. job' \in [Ops -> Jobs] /\ JobsKeep
    BY TypeFacts DEF Exit, FilesOK, JobsKeep
  <1> QED BY <1>1, EndProcessKeeps DEF Exit

\* So does one that finds its lease, its version or its ownership lost.
LEMMA LostKeeps ==
    ASSUME EvidenceInv, NEW w \in Workers, Lost(w), wk[w].pc \notin FreePoints
    PROVE  EvidenceInv'
  <1>1. job' \in [Ops -> Jobs] /\ JobsKeep
    <2>1. CASE InExecutor(w)
      BY <2>1, TypeFacts, BusyFacts, FailJobKeeps DEF Lost
    <2>2. CASE ~InExecutor(w)
      BY <2>2, TypeFacts DEF Lost, FilesOK, JobsKeep
    <2> QED BY <2>1, <2>2
  <1> QED BY <1>1, EndProcessKeeps DEF Lost

\* A session that turns to reporting a failure.
LEMMA ToFailureSession ==
    ASSUME EvidenceInv, NEW w \in Workers, wk[w].pc \notin FreePoints, ToFailure(w), JobsKeep
    PROVE  SessionsStep(w) /\ SessionInv(w)'
  <1> DEFINE s == [wk[w] EXCEPT !.pc = "poll", !.ctx = "failure", !.goal = "none"]
  <1>1. /\ s \in Sessions /\ s.pc = "poll" /\ s.ctx = "failure" /\ s.goal = "none"
        /\ s.op = wk[w].op /\ s.local = wk[w].local
    BY BusyFacts DEF Sessions, Points, Contexts, Goals
  <1>2. Become(w, s)
    BY DEF ToFailure
  <1> HIDE DEF s
  <1>3. SessionsStep(w) /\ wk'[w] = s
    BY <1>1, <1>2, TypeFacts, BecomeStep
  <1>4. wk'[w].op \in Ops /\ wk'[w].local <= job'[wk'[w].op].next
    BY <1>1, <1>3, BusyFacts DEF JobsKeep, Op
  <1>5. SessionInv(w)'
    BY <1>1, <1>3, <1>4, HeldSession DEF HeldPoints
  <1> QED BY <1>3, <1>5

\* Going to _settle_failure relies on the operation alone.
LEMMA ToFailureKeeps ==
    ASSUME EvidenceInv, NEW w \in Workers, wk[w].pc \notin FreePoints, ToFailure(w),
           UNCHANGED <<row, receipts, short>>, job' \in [Ops -> Jobs], JobsKeep,
           UNCHANGED flock \/ Release(w)
    PROVE  EvidenceInv'
  <1>1. RowsStep(w) /\ OutcomesKeep
    BY TypeFacts, RowsUnchanged
  <1>2. FilesStep(w)
    BY TypeFacts, ReleaseStep, QuietFiles
  <1>3. SessionsStep(w) /\ SessionInv(w)'
    BY ToFailureSession
  <1> QED BY <1>1, <1>2, <1>3, QuietStep

\* An exception of the executor fails the job and keeps its checkpoint.
LEMMA ExecutorFailsKeeps ==
    ASSUME EvidenceInv, NEW w \in Workers, wk[w].pc \notin FreePoints, ExecutorFails(w)
    PROVE  EvidenceInv'
  <1>1. job' \in [Ops -> Jobs] /\ JobsKeep
    BY TypeFacts, BusyFacts, FailJobKeeps DEF ExecutorFails
  <1> QED BY <1>1, ToFailureKeeps DEF ExecutorFails

-----------------------------------------------------------------------------
(* Boot, abandoned jobs and claims *)

\* A new worker process begins with nothing in hand.
LEMMA BootKeeps ==
    ASSUME EvidenceInv, NEW w \in Workers, Boot(w)
    PROVE  EvidenceInv'
  <1>1. "idle" \in FreePoints
    BY DEF FreePoints
  <1>2. SessionsStep(w) /\ SessionInv(w)'
    BY <1>1, TypeFacts, RestSession, BecomeStep, AtRestSession DEF Boot
  <1>3. RowsStep(w) /\ OutcomesKeep /\ FilesStep(w) /\ JobsKeep
    BY TypeFacts, RowsUnchanged, FilesUnchanged DEF Boot
  <1> QED BY <1>2, <1>3, QuietStep

\* Moving from one free point to another.
LEMMA GoFree ==
    ASSUME EvidenceInv, NEW w \in Workers, NEW pc \in FreePoints,
           wk[w].pc \in FreePoints, Go(w, pc)
    PROVE  SessionsStep(w) /\ SessionInv(w)'
  <1>1. pc \in Points
    BY DEF FreePoints, Points
  <1>2. /\ SessionsStep(w)
        /\ wk'[w].pc = pc /\ wk'[w].op = wk[w].op /\ wk'[w].ctx = wk[w].ctx
        /\ wk'[w].goal = wk[w].goal /\ wk'[w].local = wk[w].local
    BY <1>1, TypeFacts, GoStep
  <1>3. /\ wk[w].op = NoOwner /\ wk[w].local = -1 /\ wk[w].ctx \in {"none", "retry"}
        /\ wk[w].goal # "COMPLETED"
    BY DEF EvidenceInv, SessionInv, KnowsItsJob, HasEvidence, FreePoints, Op
  <1> QED BY <1>2, <1>3, FreeSession

\* recover_abandoned fails RUNNING jobs whose dataset is free: none of them
\* belongs to an executor at work.
LEMMA RecoverAbandonedKeeps ==
    ASSUME EvidenceInv, NEW w \in Workers, RecoverAbandoned(w)
    PROVE  EvidenceInv'
  <1>1. job' \in [Ops -> Jobs] /\ JobsKeep
    <2>1. ASSUME NEW o \in Ops
          PROVE  /\ job'[o] \in Jobs /\ job'[o].next = job[o].next
                 /\ job'[o].status # job[o].status =>
                      /\ job[o].status \notin {"COMPLETED", "CANCELLED"}
                      /\ job'[o].status # "COMPLETED"
      <3>1. job[o] \in Jobs /\ job'[o] \in {job[o], FailedJob(job[o])}
        BY TypeFacts DEF RecoverAbandoned, FilesOK
      <3> QED BY <3>1, FailedJobType
    <2>2. job' = [o \in Ops |-> job'[o]] /\ UNCHANGED <<receipts, short>>
      BY DEF RecoverAbandoned
    <2>3. job' \in [Ops -> Jobs]
      BY <2>1, <2>2
    <2> QED BY <2>1, <2>2, <2>3 DEF JobsKeep
  <1>2. FilesStep(w)
    BY <1>1, TypeFacts, ReleaseStep, QuietFiles DEF RecoverAbandoned
  <1>3. "claimExpired" \in FreePoints /\ wk[w].pc \in FreePoints
    BY DEF FreePoints, RecoverAbandoned, At
  <1>4. SessionsStep(w) /\ SessionInv(w)'
    BY <1>3, GoFree DEF RecoverAbandoned
  <1>5. RowsStep(w) /\ OutcomesKeep
    BY TypeFacts, RowsUnchanged DEF RecoverAbandoned
  <1> QED BY <1>1, <1>2, <1>4, <1>5, QuietStep

\* The session of a worker that has just taken operation o up.
LEMMA HoldingSession ==
    ASSUME NEW o \in Ops, NEW pc \in Points, NEW f \in Origins
    PROVE  Holding(pc, o, f) \in Sessions
  BY ChunksAssumption DEF Holding, Sessions, Contexts, Goals

\* claim_next_expired takes an expired row and reads nothing yet.
LEMMA ClaimExpiredKeeps ==
    ASSUME EvidenceInv, NEW w \in Workers, ClaimExpired(w)
    PROVE  EvidenceInv'
  <1>1. FilesStep(w) /\ JobsKeep
    BY FilesUnchanged DEF ClaimExpired
  <1>2. ASSUME NEW o \in Ops, ClaimNextExpired(o, w),
               Become(w, Holding("recover", o, row[o].status))
        PROVE  EvidenceInv'
    <2> DEFINE s == Holding("recover", o, row[o].status)
    <2>1. /\ RowsStep(w) /\ OutcomesKeep
          /\ row[o].status \in {"CLAIMED", "RUNNING", "RECOVERING"} \cup ControlStates
      BY <1>2, TypeFacts, ClaimExpiredRow
    <2>2. /\ s \in Sessions
          /\ s.pc = "recover" /\ s.op = o /\ s.ctx = "none" /\ s.goal = "none"
          /\ s.local = -1 /\ s.from # "none"
      <3>1. row[o].status \in Origins \ {"none"} /\ "recover" \in Points
        BY <2>1 DEF Origins, Points, ControlStates
      <3> QED BY <3>1, HoldingSession DEF Holding
    <2> HIDE DEF s
    <2>3. SessionsStep(w) /\ wk'[w] = s
      BY <1>2, <2>2, TypeFacts, BecomeStep DEF s
    <2>4. -1 <= job'[o].next
      <3>1. job'[o].next \in 0..Chunks
        BY <1>1 DEF FilesStep, FilesOK, Jobs
      <3> QED BY <3>1, ChunksAssumption
    <2>5. KnowsItsJob(w)' /\ HoldsRowLock(w)'
      BY <2>2, <2>3, <2>4 DEF KnowsItsJob, HoldsRowLock, FreePoints, LockPoints, Op, At
    <2>6. HoldsFlock(w)' /\ HasEvidence(w)'
      BY <2>2, <2>3 DEF HoldsFlock, HasEvidence, ChunkPoints, Op, At
    <2> QED BY <1>1, <2>1, <2>3, <2>5, <2>6, QuietStep DEF SessionInv
  <1>3. ASSUME Go(w, "claimControl"), UNCHANGED row
        PROVE  EvidenceInv'
    <2>1. "claimControl" \in FreePoints /\ wk[w].pc \in FreePoints
      BY DEF FreePoints, ClaimExpired, At
    <2>2. SessionsStep(w) /\ SessionInv(w)'
      BY <1>3, <2>1, GoFree
    <2>3. RowsStep(w) /\ OutcomesKeep
      BY <1>3, TypeFacts, RowsUnchanged
    <2> QED BY <1>1, <2>2, <2>3, QuietStep
  <1> QED BY <1>2, <1>3 DEF ClaimExpired

\* Locking a candidate of a claim query.
LEMMA LockCandidate ==
    ASSUME EvidenceInv, NEW w \in Workers, NEW o \in Ops, NEW pc \in LockPoints,
           wk[w].pc \in FreePoints, UNCHANGED <<job, receipts, short, flock>>,
           row[o].lock = NoOwner, row[o].owner = NoOwner,
           row[o].status \in (IF pc = "claimRow" THEN {"PENDING"} ELSE ControlStates),
           LockRow(o, w),
           Become(w, [wk[w] EXCEPT !.pc = pc, !.op = o])
    PROVE  EvidenceInv'
  <1> DEFINE s == [wk[w] EXCEPT !.pc = pc, !.op = o]
  <1>1. FilesStep(w) /\ JobsKeep
    BY FilesUnchanged
  <1>2. /\ RowsStep(w) /\ OutcomesKeep
        /\ row'[o].status = row[o].status /\ row'[o].owner = row[o].owner
        /\ row'[o].lock = w
    BY TypeFacts, LockRowStep
  <1>3. wk[w] \in Sessions
    BY TypeFacts
  <1>4. /\ s \in Sessions
        /\ s.pc = pc /\ s.op = o /\ s.ctx = wk[w].ctx /\ s.goal = wk[w].goal
        /\ s.local = wk[w].local
    BY <1>3 DEF Sessions, Points, LockPoints
  <1> HIDE DEF s
  <1>5. SessionsStep(w) /\ wk'[w] = s
    BY <1>4, TypeFacts, BecomeStep DEF s
  <1>6. /\ wk[w].ctx \in {"none", "retry"} /\ wk[w].goal # "COMPLETED" /\ wk[w].local = -1
    BY DEF EvidenceInv, SessionInv, KnowsItsJob, HasEvidence, FreePoints
  <1>7. wk[w].local <= job'[o].next
    <2>1. job'[o].next \in 0..Chunks
      BY <1>1 DEF FilesStep, FilesOK, Jobs
    <2> QED BY <1>6, <2>1, ChunksAssumption
  <1>8. KnowsItsJob(w)' /\ HoldsRowLock(w)'
    BY <1>2, <1>4, <1>5, <1>6, <1>7
    DEF KnowsItsJob, HoldsRowLock, FreePoints, LockPoints, Op, At
  <1>9. HoldsFlock(w)' /\ HasEvidence(w)'
    BY <1>4, <1>5, <1>6 DEF HoldsFlock, HasEvidence, ChunkPoints, LockPoints, Op, At
  <1> QED BY <1>1, <1>2, <1>5, <1>8, <1>9, QuietStep DEF SessionInv

\* settle_or_claim_next_unclaimed_control settles a row or locks one.
LEMMA SelectControlKeeps ==
    ASSUME EvidenceInv, NEW w \in Workers, SelectControl(w)
    PROVE  EvidenceInv'
  <1>1. /\ FilesStep(w) /\ JobsKeep /\ UNCHANGED <<job, receipts, short, flock>>
        /\ wk[w].pc \in FreePoints
        /\ {"idle", "claimNext"} \subseteq FreePoints
    BY FilesUnchanged DEF SelectControl, FreePoints, At
  <1>2. ASSUME NEW o \in Ops, SettleNeverStarted(o, w), Become(w, AtRest("idle"))
        PROVE  EvidenceInv'
    <2>1. RowsStep(w) /\ OutcomesKeep
      BY <1>2, TypeFacts, SettleNeverStartedRow
    <2>2. SessionsStep(w) /\ SessionInv(w)'
      BY <1>1, <1>2, TypeFacts, RestSession, BecomeStep, AtRestSession
    <2> QED BY <1>1, <2>1, <2>2, QuietStep
  <1>3. ASSUME NEW o \in BoundControls(w), LockRow(o, w),
               Become(w, [wk[w] EXCEPT !.pc = "controlRow", !.op = o])
        PROVE  EvidenceInv'
    <2>1. /\ o \in Ops /\ row[o].status \in ControlStates
          /\ row[o].owner = NoOwner /\ row[o].lock = NoOwner
          /\ "controlRow" \in LockPoints
      BY <1>3 DEF BoundControls, LockPoints
    <2> QED BY <1>1, <1>3, <2>1, LockCandidate
  <1>4. ASSUME Become(w, AtRest("claimNext")), UNCHANGED row
        PROVE  EvidenceInv'
    <2>1. RowsStep(w) /\ OutcomesKeep
      BY <1>4, TypeFacts, RowsUnchanged
    <2>2. SessionsStep(w) /\ SessionInv(w)'
      BY <1>1, <1>4, TypeFacts, RestSession, BecomeStep, AtRestSession
    <2> QED BY <1>1, <2>1, <2>2, QuietStep
  <1>5. NeverStartedControls \subseteq Ops
    BY DEF NeverStartedControls
  <1> QED BY <1>2, <1>3, <1>4, <1>5 DEF SelectControl

\* claim_next locks a queued row.
LEMMA SelectPendingKeeps ==
    ASSUME EvidenceInv, NEW w \in Workers, SelectPending(w)
    PROVE  EvidenceInv'
  <1>1. /\ FilesStep(w) /\ JobsKeep /\ UNCHANGED <<job, receipts, short, flock>>
        /\ wk[w].pc \in FreePoints
        /\ "idle" \in FreePoints
    BY FilesUnchanged DEF SelectPending, FreePoints, At
  <1>2. ASSUME NEW o \in PendingCandidates(w), LockRow(o, w),
               Become(w, [wk[w] EXCEPT !.pc = "claimRow", !.op = o])
        PROVE  EvidenceInv'
    <2>1. /\ o \in Ops /\ row[o].status = "PENDING" /\ row[o].lock = NoOwner
          /\ "claimRow" \in LockPoints
      BY <1>2 DEF PendingCandidates, LockPoints
    <2>2. row[o].owner = NoOwner
      BY <2>1, TypeFacts DEF RowsOK, LeasesFit, LeaseFits
    <2> QED BY <1>1, <1>2, <2>1, <2>2, LockCandidate
  <1>3. ASSUME Become(w, AtRest("idle")), UNCHANGED row
        PROVE  EvidenceInv'
    <2>1. RowsStep(w) /\ OutcomesKeep
      BY <1>3, TypeFacts, RowsUnchanged
    <2>2. SessionsStep(w) /\ SessionInv(w)'
      BY <1>1, <1>3, TypeFacts, RestSession, BecomeStep, AtRestSession
    <2> QED BY <1>1, <2>1, <2>2, QuietStep
  <1> QED BY <1>2, <1>3 DEF SelectPending

\* The write of a claim, its retry and its second conflict.
LEMMA WriteClaimKeeps ==
    ASSUME EvidenceInv, NEW w \in Workers, wk[w].pc \in LockPoints,
           NEW again \in FreePoints, NEW s \in {"CLAIMED"} \cup ControlStates,
           NEW next \in {"start", "settleControl"},
           WriteClaim(w, again, s, next)
    PROVE  EvidenceInv'
  <1>1. /\ Op(w) \in Ops /\ row[Op(w)].lock = w
        /\ wk[w].pc \notin FreePoints
    BY DEF EvidenceInv, SessionInv, KnowsItsJob, HoldsRowLock, LockPoints, FreePoints
  <1>2. ASSUME ClaimLocked(Op(w), w, s), Become(w, Holding(next, Op(w), s)),
               UNCHANGED <<job, receipts, short, flock>>
        PROVE  EvidenceInv'
    <2>1. RowsStep(w) /\ OutcomesKeep /\ FilesStep(w) /\ JobsKeep
      BY <1>1, <1>2, TypeFacts, ClaimLockedRow, FilesUnchanged
    <2>2. Holding(next, Op(w), s) \in Sessions
      <3>1. s \in Origins /\ next \in Points
        BY DEF Origins, Points, ControlStates
      <3> QED BY <1>1, <3>1, HoldingSession
    <2>3. SessionsStep(w) /\ wk'[w] = Holding(next, Op(w), s)
      BY <1>2, <2>2, TypeFacts, BecomeStep
    <2>4. /\ wk'[w].pc \in HeldPoints \ {"ckptRead", "ckptWrite"}
          /\ wk'[w].op = Op(w) /\ wk'[w].local = -1
          /\ wk'[w].ctx = "none" /\ wk'[w].goal = "none"
      BY <2>3 DEF Holding, HeldPoints
    <2>5. wk'[w].local <= job'[wk'[w].op].next
      <3>1. job'[Op(w)].next \in 0..Chunks
        BY <1>1, <2>1 DEF FilesStep, FilesOK, Jobs
      <3> QED BY <2>4, <3>1, ChunksAssumption
    <2>6. SessionInv(w)'
      BY <1>1, <2>4, <2>5, HeldSession
    <2> QED BY <2>1, <2>3, <2>6, QuietStep
  <1>3. ASSUME UnlockRow(Op(w)), Become(w, [AtRest(again) EXCEPT !.ctx = "retry"]),
               UNCHANGED <<job, receipts, short, flock>>
        PROVE  EvidenceInv'
    <2>1. RowsStep(w) /\ OutcomesKeep /\ FilesStep(w) /\ JobsKeep
      BY <1>1, <1>3, TypeFacts, LockRowStep, FilesUnchanged
    <2> DEFINE r == [AtRest(again) EXCEPT !.ctx = "retry"]
    <2>2. /\ r \in Sessions
          /\ r.pc = again /\ r.op = NoOwner /\ r.ctx = "retry"
          /\ r.goal = "none" /\ r.local = -1
      BY RestSession DEF AtRest, Holding
    <2> HIDE DEF r
    <2>3. SessionsStep(w) /\ wk'[w] = r
      BY <1>3, <2>2, TypeFacts, BecomeStep DEF r
    <2>4. SessionInv(w)'
      BY <2>2, <2>3, FreeSession
    <2> QED BY <2>1, <2>3, <2>4, QuietStep
  <1> QED BY <1>2, <1>3, ExitKeeps DEF WriteClaim

\* Both claims write the row their query had locked.
LEMMA ClaimRowKeeps ==
    ASSUME EvidenceInv, NEW w \in Workers, ClaimPending(w) \/ ClaimControl(w)
    PROVE  EvidenceInv'
  <1>1. CASE ClaimPending(w)
    BY <1>1, WriteClaimKeeps DEF ClaimPending, At, LockPoints, FreePoints
  <1>2. CASE ClaimControl(w)
    <2>1. wk[w].pc = "controlRow" /\ row[Op(w)].status \in ControlStates
      BY <1>2 DEF ClaimControl, At, EvidenceInv, SessionInv, HoldsRowLock, LockPoints
    <2> QED
      BY <1>2, <2>1, WriteClaimKeeps DEF ClaimControl, LockPoints, FreePoints
  <1> QED BY <1>1, <1>2

-----------------------------------------------------------------------------
(* Execution *)

\* Taking the claimed operation to a point outside the loop.
LEMMA HoldingStep ==
    ASSUME EvidenceInv, NEW w \in Workers, NEW pc \in HeldPoints \ {"ckptRead", "ckptWrite"},
           NEW f \in Origins, wk[w].pc \notin FreePoints, UNCHANGED <<job, receipts, short, flock>>,
           Become(w, Holding(pc, Op(w), f))
    PROVE  SessionsStep(w) /\ SessionInv(w)'
  <1>1. Op(w) \in Ops /\ pc \in Points
    BY BusyFacts DEF HeldPoints, Points
  <1>2. SessionsStep(w) /\ wk'[w] = Holding(pc, Op(w), f)
    BY <1>1, TypeFacts, HoldingSession, BecomeStep
  <1>3. /\ wk'[w].pc = pc /\ wk'[w].op = Op(w) /\ wk'[w].local = -1
        /\ wk'[w].ctx = "none" /\ wk'[w].goal = "none"
    BY <1>2 DEF Holding
  <1>4. wk'[w].local <= job'[wk'[w].op].next
    <2>1. job'[Op(w)].next \in 0..Chunks
      BY <1>1, FilesUnchanged DEF FilesStep, FilesOK, Jobs
    <2> QED BY <1>3, <2>1, ChunksAssumption
  <1> QED BY <1>1, <1>2, <1>3, <1>4, HeldSession

\* start needs only the lease.
LEMMA StartKeeps ==
    ASSUME EvidenceInv, NEW w \in Workers, Start(w)
    PROVE  EvidenceInv'
  <1>1. wk[w].pc \notin FreePoints /\ "execute" \in HeldPoints \ {"ckptRead", "ckptWrite"}
        /\ "none" \in Origins
    BY DEF Start, At, FreePoints, HeldPoints, Origins
  <1>2. Op(w) \in Ops
    BY <1>1, BusyFacts
  <1>3. ASSUME RequestState(Op(w), w, "RUNNING"),
               Become(w, Holding("execute", Op(w), "none")),
               UNCHANGED <<job, receipts, short, flock>>
        PROVE  EvidenceInv'
    <2>1. RowsStep(w) /\ OutcomesKeep
      BY <1>2, <1>3, TypeFacts, RequestStateRow DEF OutcomesKeep
    <2>2. FilesStep(w) /\ JobsKeep
      BY <1>3, FilesUnchanged
    <2>3. SessionsStep(w) /\ SessionInv(w)'
      BY <1>1, <1>3, HoldingStep
    <2> QED BY <2>1, <2>2, <2>3, QuietStep
  <1> QED BY <1>1, <1>3, LostKeeps DEF Start

\* What a session inside the executor's try block needs.
LEMMA LoopSession ==
    ASSUME NEW w \in Workers, wk'[w].ctx = "loop", wk'[w].op \in Ops,
           wk'[w].goal # "COMPLETED",
           flock'[DatasetOf[wk'[w].op]] = w,
           wk'[w].local = job'[wk'[w].op].next,
           job'[wk'[w].op].next \in 0..Chunks,
           wk'[w].pc \in ChunkPoints \cup {"poll", "renew", "ckptRead", "ckptWrite"},
           wk'[w].pc \in ChunkPoints \cup {"poll", "renew"} => wk'[w].local < Chunks,
           wk'[w].pc = "fetch" => \/ receipts'[wk'[w].op] = wk'[w].local
                                  \/ wk'[w].local \in short'[wk'[w].op],
           wk'[w].pc = "advance" => receipts'[wk'[w].op] > wk'[w].local
    PROVE  SessionInv(w)'
  <1>1. wk'[w].local <= job'[wk'[w].op].next
    BY ChunksAssumption
  <1>2. KnowsItsJob(w)' /\ HoldsRowLock(w)'
    BY <1>1 DEF KnowsItsJob, HoldsRowLock, ChunkPoints, FreePoints, LockPoints, Op, At
  <1>3. HoldsFlock(w)'
    BY DEF HoldsFlock, Op, Dataset, At
  <1>4. HasEvidence(w)'
    BY DEF HasEvidence, Op, At
  <1> QED BY <1>2, <1>3, <1>4 DEF SessionInv

\* What a session that may publish COMPLETED needs.
LEMMA SettleSession ==
    ASSUME NEW w \in Workers, wk'[w].op \in Ops, wk'[w].ctx # "loop",
           wk'[w].pc \in {"ckptRead", "ckptWrite", "poll", "renew", "finish", "reconcile"},
           job'[wk'[w].op].status = "COMPLETED", wk'[w].local = Chunks,
           job'[wk'[w].op].next = Chunks,
           wk'[w].ctx = "settle" => wk'[w].pc # "reconcile",
           wk'[w].pc \in {"ckptRead", "ckptWrite"} => wk'[w].ctx \in {"settle", "control"},
           wk'[w].goal = "COMPLETED" => wk'[w].ctx \in {"settle", "control"}
                                          \/ wk'[w].pc = "reconcile",
           wk'[w].pc = "finish" => row'[wk'[w].op].done = Chunks,
           wk'[w].ctx = "settle" /\ wk'[w].pc \in {"poll", "renew"}
             => row'[wk'[w].op].done = Chunks
    PROVE  SessionInv(w)'
  <1>1. wk'[w].local <= job'[wk'[w].op].next
    BY ChunksAssumption
  <1>2. KnowsItsJob(w)' /\ HoldsRowLock(w)'
    BY <1>1 DEF KnowsItsJob, HoldsRowLock, FreePoints, LockPoints, Op, At
  <1>3. HoldsFlock(w)'
    BY DEF HoldsFlock, ChunkPoints, At
  <1>4. HasEvidence(w)'
    BY DEF HasEvidence, Op, At
  <1> QED BY <1>2, <1>3, <1>4 DEF SessionInv

\* Moving between two points that need nothing but the operation.
LEMMA GoHeld ==
    ASSUME EvidenceInv, NEW w \in Workers, NEW pc \in HeldPoints,
           wk[w].pc \notin FreePoints, wk[w].ctx \notin {"loop", "settle"},
           pc \in {"ckptRead", "ckptWrite"} => wk[w].ctx = "control",
           wk[w].goal # "COMPLETED", JobsKeep, Go(w, pc)
    PROVE  SessionsStep(w) /\ SessionInv(w)'
  <1>1. pc \in Points
    BY DEF HeldPoints, Points
  <1>2. /\ SessionsStep(w)
        /\ wk'[w].pc = pc /\ wk'[w].op = wk[w].op /\ wk'[w].ctx = wk[w].ctx
        /\ wk'[w].goal = wk[w].goal /\ wk'[w].local = wk[w].local
    BY <1>1, TypeFacts, GoStep
  <1>3. wk'[w].op \in Ops /\ wk'[w].local <= job'[wk'[w].op].next
    BY <1>2, BusyFacts DEF JobsKeep, Op
  <1> QED BY <1>2, <1>3, HeldSession

\* At these points a session is neither in the loop nor settling.
LEMMA OutsideLoop ==
    ASSUME EvidenceInv, NEW w \in Workers,
           wk[w].pc \in {"start", "execute", "acquire", "settleControl", "recover"}
    PROVE  wk[w].ctx \notin {"loop", "settle"} /\ wk[w].goal # "COMPLETED"
  BY DEF EvidenceInv, SessionInv, HoldsFlock, HasEvidence, ChunkPoints

\* _execute_operation settles a local job only when it is complete.
LEMMA ExecuteKeeps ==
    ASSUME EvidenceInv, NEW w \in Workers, Execute(w)
    PROVE  EvidenceInv'
  <1>1. /\ wk[w].pc \notin FreePoints /\ wk[w].pc = "execute"
        /\ UNCHANGED <<row, receipts, short, flock>>
    BY DEF Execute, At, FreePoints
  <1>2. RowsStep(w) /\ OutcomesKeep /\ Op(w) \in Ops /\ wk[w] \in Sessions
    BY <1>1, TypeFacts, RowsUnchanged, BusyFacts
  <1>3. wk[w].ctx \notin {"loop", "settle"} /\ wk[w].goal # "COMPLETED"
    BY <1>1, OutsideLoop
  <1>4. "acquire" \in HeldPoints
    BY DEF HeldPoints
  <1>5. ASSUME ToFailure(w), UNCHANGED job
        PROVE  EvidenceInv'
    <2>1. job' \in [Ops -> Jobs] /\ JobsKeep
      BY <1>1, <1>5, TypeFacts DEF FilesOK, JobsKeep
    <2> QED BY <1>1, <1>5, <2>1, ToFailureKeeps
  <1>6. ASSUME job[Op(w)].status \in {"NONE", "PLANNED"}, SetJob(Op(w), "PLANNED"),
               Go(w, "acquire")
        PROVE  EvidenceInv'
    <2>1. job' \in [Ops -> Jobs] /\ JobsKeep
      BY <1>1, <1>2, <1>6, TypeFacts, SetJobKeeps DEF JobStates
    <2>2. FilesStep(w)
      BY <1>1, <2>1, TypeFacts, ReleaseStep, QuietFiles
    <2>3. SessionsStep(w) /\ SessionInv(w)'
      BY <1>1, <1>3, <1>4, <1>6, <2>1, GoHeld
    <2> QED BY <1>2, <2>1, <2>2, <2>3, QuietStep
  <1>7. ASSUME Go(w, "acquire"), UNCHANGED job
        PROVE  EvidenceInv'
    <2>1. FilesStep(w) /\ JobsKeep
      BY <1>1, <1>7, FilesUnchanged
    <2>2. SessionsStep(w) /\ SessionInv(w)'
      BY <1>1, <1>3, <1>4, <1>7, <2>1, GoHeld
    <2> QED BY <1>2, <2>1, <2>2, QuietStep
  <1>8. ASSUME job[Op(w)].status = "COMPLETED", UNCHANGED job,
               Become(w, [wk[w] EXCEPT !.pc = "ckptRead", !.ctx = "settle",
                                       !.local = job[Op(w)].next])
        PROVE  EvidenceInv'
    <2> DEFINE s == [wk[w] EXCEPT !.pc = "ckptRead", !.ctx = "settle",
                                  !.local = job[Op(w)].next]
    <2>1. job[Op(w)].next = Chunks
      BY <1>2, <1>8 DEF EvidenceInv, DataInv, FinishedJobsHaveAllChunks
    <2>0. s = [wk[w] EXCEPT !.pc = "ckptRead", !.ctx = "settle",
                            !.local = job[Op(w)].next]
      OBVIOUS
    <2> HIDE DEF s
    <2>2. /\ s \in Sessions
          /\ s.pc = "ckptRead" /\ s.ctx = "settle" /\ s.local = Chunks
          /\ s.op = wk[w].op /\ s.goal = wk[w].goal
      <3>1. Chunks \in -1..Chunks /\ "ckptRead" \in Points /\ "settle" \in Contexts
        BY ChunksAssumption DEF Points, Contexts
      <3> QED BY <1>2, <2>1, <2>0, <3>1 DEF Sessions
    <2>3. SessionsStep(w) /\ wk'[w] = s
      BY <1>8, <2>2, TypeFacts, BecomeStep DEF s
    <2>4. SessionInv(w)'
      BY <1>2, <1>8, <2>1, <2>2, <2>3, SettleSession DEF Op
    <2>5. FilesStep(w) /\ JobsKeep
      BY <1>1, <1>8, FilesUnchanged
    <2> QED BY <1>2, <2>3, <2>4, <2>5, QuietStep
  <1> QED BY <1>5, <1>6, <1>7, <1>8 DEF Execute

\* The flock makes the executor the owner of the job's checkpoint.
LEMMA AcquireKeeps ==
    ASSUME EvidenceInv, NEW w \in Workers, Acquire(w)
    PROVE  EvidenceInv'
  <1>1. /\ wk[w].pc \notin FreePoints /\ wk[w].pc = "acquire"
        /\ UNCHANGED <<row, receipts, short>>
    BY DEF Acquire, At, FreePoints
  <1>2. RowsStep(w) /\ OutcomesKeep /\ Op(w) \in Ops /\ wk[w] \in Sessions
    BY <1>1, TypeFacts, RowsUnchanged, BusyFacts
  <1>3. ASSUME LockFree(Dataset(w)), job[Op(w)].status \in {"PLANNED", "PAUSED", "FAILED"},
               flock' = [flock EXCEPT ![Dataset(w)] = w], SetJob(Op(w), "RUNNING"),
               Become(w, [wk[w] EXCEPT !.pc = "boundary", !.ctx = "loop",
                                       !.local = job[Op(w)].next])
        PROVE  EvidenceInv'
    <2>1. job' \in [Ops -> Jobs] /\ JobsKeep
      BY <1>1, <1>2, <1>3, TypeFacts, SetJobKeeps DEF JobStates
    <2>2. Dataset(w) \in Datasets
      BY <1>2 DEF Dataset, Datasets
    <2>3. FlockStep(w) /\ flock'[Dataset(w)] = w
      BY <1>3, <2>2, TypeFacts, WorkersAssumption DEF FilesOK, FlockStep, LockFree
    <2>4. FilesStep(w)
      BY <2>1, <2>3, QuietFiles
    <2> DEFINE s == [wk[w] EXCEPT !.pc = "boundary", !.ctx = "loop",
                                  !.local = job[Op(w)].next]
    <2>5. job[Op(w)].next \in 0..Chunks /\ job[Op(w)].next # Chunks
      BY <1>2, <1>3, TypeFacts
      DEF FilesOK, Jobs, EvidenceInv, DataInv, FinishedJobsHaveAllChunks
    <2>0. s = [wk[w] EXCEPT !.pc = "boundary", !.ctx = "loop",
                            !.local = job[Op(w)].next]
      OBVIOUS
    <2> HIDE DEF s
    <2>6. /\ s \in Sessions
          /\ s.pc = "boundary" /\ s.ctx = "loop" /\ s.local = job[Op(w)].next
          /\ s.op = wk[w].op /\ s.goal = wk[w].goal
      <3>1. job[Op(w)].next \in -1..Chunks /\ "boundary" \in Points /\ "loop" \in Contexts
        BY <2>5, ChunksAssumption DEF Points, Contexts
      <3> QED BY <1>2, <2>0, <3>1 DEF Sessions
    <2>7. SessionsStep(w) /\ wk'[w] = s
      BY <1>3, <2>6, TypeFacts, BecomeStep DEF s
    <2>8. /\ wk'[w].local = job'[Op(w)].next /\ wk'[w].local < Chunks
          /\ job'[Op(w)].next \in 0..Chunks
          /\ wk'[w].op = Op(w) /\ wk'[w].goal # "COMPLETED"
      BY <1>1, <1>2, <2>1, <2>5, <2>6, <2>7, OutsideLoop, ChunksAssumption
      DEF JobsKeep, Op
    <2>9. SessionInv(w)'
      BY <1>2, <2>3, <2>6, <2>7, <2>8, LoopSession DEF ChunkPoints, Dataset
    <2> QED BY <1>2, <2>1, <2>4, <2>7, <2>9, QuietStep
  <1>4. ASSUME ToFailure(w), UNCHANGED <<job, flock>>
        PROVE  EvidenceInv'
    <2>1. job' \in [Ops -> Jobs] /\ JobsKeep
      BY <1>1, <1>4, TypeFacts DEF FilesOK, JobsKeep
    <2> QED BY <1>1, <1>4, <2>1, ToFailureKeeps
  <1> QED BY <1>3, <1>4 DEF Acquire

\* What a step inside the chunk loop may start from.
LEMMA LoopFacts ==
    ASSUME EvidenceInv, NEW w \in Workers, wk[w].ctx = "loop"
    PROVE  /\ wk[w].pc \notin FreePoints /\ wk[w] \in Sessions /\ Op(w) \in Ops
           /\ flock[Dataset(w)] = w
           /\ wk[w].local = job[Op(w)].next /\ wk[w].local \in 0..Chunks
           /\ receipts[Op(w)] \in 0..Chunks /\ wk[w].local <= receipts[Op(w)]
           /\ wk[w].goal # "COMPLETED"
           /\ wk[w].pc \in ChunkPoints \cup {"poll", "renew"} => wk[w].local < Chunks
  <1>1. /\ SessionInv(w)
        /\ wk[w].pc \in ChunkPoints \cup {"poll", "renew", "ckptRead", "ckptWrite"}
    BY DEF EvidenceInv, SessionInv, HoldsFlock
  <1>2. wk[w].pc \notin FreePoints
    BY <1>1 DEF ChunkPoints, FreePoints
  <1>3. /\ wk[w] \in Sessions /\ Op(w) \in Ops /\ job[Op(w)] \in Jobs
        /\ receipts[Op(w)] \in 0..Chunks
    BY <1>2, BusyFacts
  <1>4. /\ flock[Dataset(w)] = w /\ wk[w].local = job[Op(w)].next
        /\ wk[w].pc \in ChunkPoints \cup {"poll", "renew"} => wk[w].local < Chunks
    BY <1>1 DEF SessionInv, HoldsFlock
  <1>5. wk[w].goal # "COMPLETED"
    BY <1>1 DEF SessionInv, HasEvidence, ChunkPoints, At
  <1>6. wk[w].local \in 0..Chunks
    BY <1>3, <1>4 DEF Jobs
  <1>7. wk[w].local <= receipts[Op(w)]
    BY <1>3, <1>4 DEF EvidenceInv, DataInv, ProgressIsDurable
  <1> QED BY <1>2, <1>3, <1>4, <1>5, <1>6, <1>7

\* From one point of the loop to another.
LEMMA GoLoop ==
    ASSUME EvidenceInv, NEW w \in Workers, wk[w].ctx = "loop",
           NEW pc \in ChunkPoints \cup {"poll", "renew", "ckptRead", "ckptWrite"},
           Go(w, pc), UNCHANGED <<job, flock>>,
           pc \in ChunkPoints \cup {"poll", "renew"} => wk[w].local < Chunks,
           pc = "fetch" => \/ receipts'[Op(w)] = wk[w].local
                           \/ wk[w].local \in short'[Op(w)],
           pc = "advance" => receipts'[Op(w)] > wk[w].local
    PROVE  SessionsStep(w) /\ SessionInv(w)'
  <1>1. pc \in Points
    BY DEF ChunkPoints, Points
  <1>2. /\ SessionsStep(w)
        /\ wk'[w].pc = pc /\ wk'[w].op = wk[w].op /\ wk'[w].ctx = wk[w].ctx
        /\ wk'[w].goal = wk[w].goal /\ wk'[w].local = wk[w].local
    BY <1>1, TypeFacts, GoStep
  <1>3. job'[Op(w)].next \in 0..Chunks
    BY LoopFacts
  <1> QED
    BY <1>2, <1>3, LoopFacts, LoopSession DEF Op, Dataset

\* The executor stops, frees the lock and asks the row why.
LEMMA InterruptedKeeps ==
    ASSUME EvidenceInv, NEW w \in Workers, wk[w].pc \notin FreePoints,
           NEW c \in {"paused", "cancelled"}, Interrupted(w, c),
           UNCHANGED <<row, receipts, short>>, job' \in [Ops -> Jobs], JobsKeep
    PROVE  EvidenceInv'
  <1> DEFINE s == [wk[w] EXCEPT !.pc = "poll", !.ctx = c, !.goal = "none"]
  <1>1. wk[w] \in Sessions
    BY BusyFacts
  <1>2. /\ s \in Sessions /\ s.pc = "poll" /\ s.ctx = c /\ s.goal = "none"
        /\ s.op = wk[w].op /\ s.local = wk[w].local
    BY <1>1 DEF Sessions, Points, Contexts, Goals
  <1>3. Become(w, s)
    BY DEF Interrupted
  <1> HIDE DEF s
  <1>4. SessionsStep(w) /\ wk'[w] = s
    BY <1>2, <1>3, TypeFacts, BecomeStep
  <1>5. wk'[w].op \in Ops /\ wk'[w].local <= job'[wk'[w].op].next
    BY <1>2, <1>4, BusyFacts DEF JobsKeep, Op
  <1>6. SessionInv(w)'
    BY <1>2, <1>4, <1>5, HeldSession DEF HeldPoints
  <1>7. FilesStep(w)
    BY TypeFacts, ReleaseStep, QuietFiles DEF Interrupted
  <1>8. RowsStep(w) /\ OutcomesKeep
    BY TypeFacts, RowsUnchanged
  <1> QED BY <1>4, <1>6, <1>7, <1>8, QuietStep

\* At a point of the chunk loop the session is the executor.
LEMMA ChunkPointFacts ==
    ASSUME EvidenceInv, NEW w \in Workers, wk[w].pc \in ChunkPoints
    PROVE  wk[w].ctx = "loop" /\ wk[w].pc \notin FreePoints /\ wk[w].local < Chunks
  BY DEF EvidenceInv, SessionInv, HoldsFlock, ChunkPoints, FreePoints

\* The boundary check either stops or polls.
LEMMA BoundaryKeeps ==
    ASSUME EvidenceInv, NEW w \in Workers, Boundary(w)
    PROVE  EvidenceInv'
  <1>1. /\ wk[w].pc \in ChunkPoints /\ UNCHANGED <<row, job, receipts, short>>
        /\ "poll" \in ChunkPoints \cup {"poll", "renew", "ckptRead", "ckptWrite"}
    BY DEF Boundary, At, ChunkPoints
  <1>2. /\ wk[w].ctx = "loop" /\ wk[w].pc \notin FreePoints /\ wk[w].local < Chunks
        /\ job' \in [Ops -> Jobs] /\ JobsKeep
    BY <1>1, TypeFacts, ChunkPointFacts DEF FilesOK, JobsKeep
  <1>3. ASSUME Interrupted(w, InterruptedAs(job[Op(w)].status))
        PROVE  EvidenceInv'
    <2>1. InterruptedAs(job[Op(w)].status) \in {"paused", "cancelled"}
      BY DEF InterruptedAs
    <2> QED BY <1>1, <1>2, <1>3, <2>1, InterruptedKeeps
  <1>4. ASSUME Go(w, "poll"), UNCHANGED flock
        PROVE  EvidenceInv'
    <2>1. SessionsStep(w) /\ SessionInv(w)'
      BY <1>1, <1>2, <1>4, GoLoop DEF ChunkPoints
    <2>2. RowsStep(w) /\ OutcomesKeep /\ FilesStep(w)
      BY <1>1, <1>4, TypeFacts, RowsUnchanged, FilesUnchanged
    <2> QED BY <1>2, <2>1, <2>2, QuietStep
  <1> QED BY <1>3, <1>4 DEF Boundary

\* An observed control stops the local job at its checkpoint.
LEMMA ApplyControlKeeps ==
    ASSUME EvidenceInv, NEW w \in Workers, ApplyControl(w)
    PROVE  EvidenceInv'
  <1>1. wk[w].pc \in ChunkPoints
    BY DEF ApplyControl, At, ChunkPoints
  <1>2. wk[w].pc \notin FreePoints /\ Op(w) \in Ops
    BY <1>1, ChunkPointFacts, BusyFacts
  <1>3. ASSUME \/ wk[w].goal = "PAUSED" /\ job[Op(w)].status = "RUNNING"
               \/ wk[w].goal = "CANCELLED" /\ Cancellable(job[Op(w)]),
               SetJob(Op(w), wk[w].goal), Interrupted(w, InterruptedAs(wk[w].goal)),
               UNCHANGED <<row, receipts, short>>
        PROVE  EvidenceInv'
    <2>1. job' \in [Ops -> Jobs] /\ JobsKeep
      <3>1. /\ wk[w].goal \in JobStates \ {"COMPLETED"}
            /\ job[Op(w)].status \notin {"COMPLETED", "CANCELLED"}
        BY <1>3 DEF JobStates, Cancellable
      <3> QED BY <1>2, <1>3, <3>1, TypeFacts, SetJobKeeps
    <2>2. InterruptedAs(wk[w].goal) \in {"paused", "cancelled"}
      BY DEF InterruptedAs
    <2> QED BY <1>2, <1>3, <2>1, <2>2, InterruptedKeeps
  <1> QED BY <1>2, <1>3, ExecutorFailsKeeps DEF ApplyControl

\* A chunk is advanced over only when its receipt was seen, and a committed one is
\* asked for again only when its receipt is short.
LEMMA VerifyKeeps ==
    ASSUME EvidenceInv, NEW w \in Workers, Verify(w)
    PROVE  EvidenceInv'
  <1>1. wk[w].pc \in ChunkPoints /\ UNCHANGED <<row, job, receipts, short, flock>>
    BY DEF Verify, At, ChunkPoints
  <1>2. wk[w].ctx = "loop" /\ wk[w].local < Chunks
    BY <1>1, ChunkPointFacts
  <1>3. ASSUME receipts[Op(w)] > wk[w].local, Go(w, "advance")
        PROVE  SessionsStep(w) /\ SessionInv(w)'
    <2>1. receipts'[Op(w)] > wk[w].local
      BY <1>1, <1>3
    <2>2. "advance" \in ChunkPoints
      BY DEF ChunkPoints
    <2> QED BY <1>1, <1>2, <1>3, <2>1, <2>2, GoLoop
  <1>4. ASSUME receipts[Op(w)] > wk[w].local => wk[w].local \in short[Op(w)],
               Go(w, "fetch")
        PROVE  SessionsStep(w) /\ SessionInv(w)'
    <2>1. \/ receipts'[Op(w)] = wk[w].local
          \/ wk[w].local \in short'[Op(w)]
      BY <1>1, <1>2, <1>4, LoopFacts, ChunksAssumption
    <2>2. "fetch" \in ChunkPoints
      BY DEF ChunkPoints
    <2> QED BY <1>1, <1>2, <1>4, <2>1, <2>2, GoLoop
  <1>5. SessionsStep(w) /\ SessionInv(w)'
    <2>1. \/ receipts[Op(w)] > wk[w].local /\ Go(w, "advance")
          \/ /\ receipts[Op(w)] > wk[w].local => wk[w].local \in short[Op(w)]
             /\ Go(w, "fetch")
      BY DEF Verify
    <2> QED BY <1>3, <1>4, <2>1
  <1>6. RowsStep(w) /\ OutcomesKeep /\ FilesStep(w) /\ JobsKeep
    BY <1>1, TypeFacts, RowsUnchanged, FilesUnchanged
  <1> QED BY <1>5, <1>6, QuietStep

\* Two executors never work on the same operation: both would hold its flock.
LEMMA OneExecutor ==
    ASSUME EvidenceInv, NEW w \in Workers, NEW x \in Workers \ {w},
           wk[w].ctx = "loop", wk[x].ctx = "loop"
    PROVE  Op(x) # Op(w)
  BY LoopFacts DEF Dataset

\* ingest adds the receipt of the very chunk the job is at.
LEMMA FetchKeeps ==
    ASSUME EvidenceInv, NEW w \in Workers, Fetch(w)
    PROVE  EvidenceInv'
  <1>1. wk[w].pc \in ChunkPoints /\ wk[w].pc = "fetch"
    BY DEF Fetch, At, ChunkPoints
  <1>2. /\ wk[w].ctx = "loop" /\ wk[w].local < Chunks
        /\ wk[w].pc \notin FreePoints /\ Op(w) \in Ops
        /\ wk[w].local \in 0..Chunks /\ wk[w].local = job[Op(w)].next
    BY <1>1, ChunkPointFacts, LoopFacts
  <1>3. ASSUME receipts' = [receipts EXCEPT ![Op(w)] = wk[w].local + 1],
               UNCHANGED short \/ short' = [short EXCEPT ![Op(w)] = @ \cup {wk[w].local}],
               Go(w, "advance"), UNCHANGED <<row, job, flock>>
        PROVE  EvidenceInv'
    <2>1. /\ receipts' \in [Ops -> 0..Chunks]
          /\ receipts'[Op(w)] = wk[w].local + 1
          /\ \A o \in Ops \ {Op(w)} : receipts'[o] = receipts[o]
      <3>1. wk[w].local + 1 \in 0..Chunks
        BY <1>2, ChunksAssumption
      <3> QED BY <1>2, <1>3, <3>1, TypeFacts DEF FilesOK
    <2>7. /\ short' \in [Ops -> SUBSET Nat]
          /\ \A o \in Ops \ {Op(w)} : short'[o] = short[o]
      <3>1. wk[w].local \in Nat
        BY <1>2, ChunksAssumption
      <3> QED BY <1>2, <1>3, <3>1, TypeFacts DEF FilesOK
    <2>8. job[Op(w)].status # "COMPLETED"
      BY <1>2, ChunksAssumption DEF EvidenceInv, DataInv, FinishedJobsHaveAllChunks
    <2>2. FilesStep(w)
      <3>1. FilesOK'
        BY <1>3, <2>1, <2>7, TypeFacts DEF FilesOK
      <3>2. ASSUME NEW o \in Ops
            PROVE  /\ job[o].next <= job'[o].next
                   /\ job[o].status = "COMPLETED" => job'[o].status = "COMPLETED"
        BY <1>3, FilesUnchanged, TypeFacts, ChunksAssumption DEF FilesOK, Jobs
      <3>3. ASSUME NEW x \in Workers \ {w}, wk[x].ctx = "loop"
            PROVE  /\ flock'[Dataset(x)] = x
                   /\ job'[Op(x)].next = job[Op(x)].next
                   /\ receipts'[Op(x)] = receipts[Op(x)] /\ short'[Op(x)] = short[Op(x)]
        BY <1>2, <1>3, <2>1, <2>7, <3>3, OneExecutor, LoopFacts
      <3> QED BY <3>1, <3>2, <3>3 DEF FilesStep
    <2>3. DataInv'
      <3>1. ProgressIsDurable'
        <4>1. job[Op(w)].next <= receipts'[Op(w)]
          BY <1>2, <2>1, ChunksAssumption
        <4> QED
          BY <1>2, <1>3, <2>1, <4>1 DEF EvidenceInv, DataInv, ProgressIsDurable
      <3>2. CompletedIsDurable'
        BY <1>2, <1>3, <2>1, <2>7, <2>8 DEF EvidenceInv, DataInv, CompletedIsDurable
      <3>3. FinishedJobsHaveAllChunks' /\ LeasesFit'
        BY <1>3, <2>7, <2>8 DEF EvidenceInv, DataInv, FinishedJobsHaveAllChunks, LeasesFit, LeaseFits
      <3> QED BY <3>1, <3>2, <3>3 DEF DataInv
    <2>4. receipts'[Op(w)] > wk[w].local
      BY <1>2, <2>1, ChunksAssumption
    <2>5. SessionsStep(w) /\ SessionInv(w)'
      BY <1>2, <1>3, <2>4, GoLoop DEF ChunkPoints
    <2>6. RowsStep(w)
      BY <1>3, TypeFacts, RowsUnchanged
    <2> QED BY <2>2, <2>3, <2>5, <2>6, StepKeeps
  <1> QED BY <1>2, <1>3, ExecutorFailsKeeps DEF Fetch

\* advance moves the checkpoint over a receipt: progress stays behind it.
LEMMA AdvanceKeeps ==
    ASSUME EvidenceInv, NEW w \in Workers, Advance(w)
    PROVE  EvidenceInv'
  <1>1. wk[w].pc \in ChunkPoints /\ wk[w].pc = "advance"
    BY DEF Advance, At, ChunkPoints
  <1>2. /\ wk[w].ctx = "loop" /\ wk[w].local < Chunks /\ wk[w] \in Sessions
        /\ wk[w].pc \notin FreePoints /\ Op(w) \in Ops /\ wk[w].goal # "COMPLETED"
        /\ wk[w].local \in 0..Chunks /\ wk[w].local = job[Op(w)].next
        /\ flock[Dataset(w)] = w /\ receipts[Op(w)] \in 0..Chunks
        /\ job[Op(w)] \in Jobs
    BY <1>1, ChunkPointFacts, LoopFacts, BusyFacts
  <1>3. receipts[Op(w)] > wk[w].local
    BY <1>1 DEF EvidenceInv, SessionInv, HoldsFlock, At
  <1>4. ASSUME job[Op(w)].status \in {"RUNNING", "PAUSED", "CANCELLED"},
               MayAdvance(job[Op(w)], short[Op(w)]),
               job' = [job EXCEPT ![Op(w)] = AdvancedJob(@)],
               Become(w, [wk[w] EXCEPT !.pc = "ckptRead", !.local = @ + 1]),
               UNCHANGED <<row, receipts, short, flock>>
        PROVE  EvidenceInv'
    <2> DEFINE j == AdvancedJob(job[Op(w)])
               n == job[Op(w)].next + 1
    <2>1. n \in 0..Chunks /\ n \in -1..Chunks
      BY <1>2, ChunksAssumption
    <2>2. /\ j \in Jobs /\ j.next = n
          /\ j.status = "COMPLETED" <=> n = Chunks /\ job[Op(w)].status # "CANCELLED"
          /\ n = Chunks => j.status \in {"COMPLETED", "CANCELLED"}
      BY <1>2, <1>4, <2>1 DEF AdvancedJob, Jobs, JobStates
    <2>3. job' = [job EXCEPT ![Op(w)] = j]
      BY <1>4
    <2> HIDE DEF j, n
    <2>4. /\ job' \in [Ops -> Jobs] /\ job'[Op(w)] = j
          /\ \A o \in Ops \ {Op(w)} : job'[o] = job[o]
      BY <1>2, <2>2, <2>3, TypeFacts DEF FilesOK
    <2>5. job[Op(w)].next <= n /\ n <= receipts[Op(w)]
      BY <1>2, <1>3, <2>1, ChunksAssumption DEF n
    <2>6. FilesStep(w)
      <3>1. FilesOK'
        BY <1>4, <2>4, TypeFacts DEF FilesOK
      <3>2. ASSUME NEW o \in Ops
            PROVE  /\ job[o].next <= job'[o].next
                   /\ job[o].status = "COMPLETED" => job'[o].status = "COMPLETED"
        <4>1. CASE o = Op(w)
          BY <1>4, <2>2, <2>4, <2>5, <4>1
        <4>2. CASE o # Op(w)
          BY <2>4, <4>2, TypeFacts, ChunksAssumption DEF FilesOK, Jobs
        <4> QED BY <4>1, <4>2
      <3>3. ASSUME NEW x \in Workers \ {w}, wk[x].ctx = "loop"
            PROVE  /\ flock'[Dataset(x)] = x
                   /\ job'[Op(x)].next = job[Op(x)].next
                   /\ receipts'[Op(x)] = receipts[Op(x)] /\ short'[Op(x)] = short[Op(x)]
        BY <1>2, <1>4, <2>4, <3>3, OneExecutor, LoopFacts
      <3> QED BY <3>1, <3>2, <3>3 DEF FilesStep
    <2>7. DataInv'
      <3>1. ProgressIsDurable'
        <4>1. row[Op(w)].done <= n
          <5>1. row[Op(w)].done <= job[Op(w)].next /\ row[Op(w)].done \in 0..Chunks
            BY <1>2, TypeFacts
            DEF EvidenceInv, DataInv, ProgressIsDurable, RowsOK, Rows
          <5> QED BY <1>2, <5>1, <2>1, <2>5, ChunksAssumption
        <4> QED
          BY <1>4, <2>2, <2>4, <2>5, <4>1 DEF EvidenceInv, DataInv, ProgressIsDurable
      <3>2. CompletedIsDurable'
        BY <1>2, <1>4, <2>4 DEF EvidenceInv, DataInv, CompletedIsDurable
      <3>3. FinishedJobsHaveAllChunks'
        <4>1. j.status = "COMPLETED" => short[Op(w)] = {}
          BY <1>4, <2>2 DEF MayAdvance, n
        <4> QED BY <1>4, <2>2, <2>4, <4>1 DEF EvidenceInv, DataInv, FinishedJobsHaveAllChunks
      <3>4. LeasesFit'
        BY <1>4 DEF EvidenceInv, DataInv, LeasesFit, LeaseFits
      <3> QED BY <3>1, <3>2, <3>3, <3>4 DEF DataInv
    <2> DEFINE s == [wk[w] EXCEPT !.pc = "ckptRead", !.local = n]
    <2>8. Become(w, s)
      BY <1>2, <1>4 DEF n, Become, Sessions
    <2>9. /\ s \in Sessions /\ s.pc = "ckptRead" /\ s.local = n
          /\ s.op = wk[w].op /\ s.ctx = wk[w].ctx /\ s.goal = wk[w].goal
      BY <1>2, <2>1 DEF Sessions, Points
    <2> HIDE DEF s
    <2>10. SessionsStep(w) /\ wk'[w] = s
      BY <2>8, <2>9, TypeFacts, BecomeStep
    <2>11. SessionInv(w)'
      BY <1>2, <1>4, <2>1, <2>2, <2>4, <2>9, <2>10, LoopSession DEF Op, Dataset, ChunkPoints
    <2>12. RowsStep(w)
      BY <1>4, TypeFacts, RowsUnchanged
    <2> QED BY <2>6, <2>7, <2>10, <2>11, <2>12, StepKeeps
  <1> QED BY <1>2, <1>4, ExecutorFailsKeeps DEF Advance
-----------------------------------------------------------------------------
(* poll_control and checkpoint *)

\* A step that keeps outcomes and files, made by a session that stays sound.
LEMMA OnlyRowStep ==
    ASSUME EvidenceInv, NEW w, RowsStep(w), OutcomesKeep, UNCHANGED <<job, receipts, short, flock>>,
           SessionsStep(w), w \in Workers => SessionInv(w)'
    PROVE  EvidenceInv'
  BY FilesUnchanged, QuietStep

\* What a session knows at poll_control, checkpoint and the final writes.
LEMMA PollFacts ==
    ASSUME EvidenceInv, NEW w \in Workers,
           wk[w].pc \in {"poll", "renew", "ckptRead", "ckptWrite", "finish", "reconcile"}
    PROVE  /\ wk[w].pc \notin FreePoints /\ Op(w) \in Ops /\ wk[w] \in Sessions
           /\ wk[w].local <= job[Op(w)].next
           /\ wk[w].goal = "COMPLETED" =>
                wk[w].ctx \in {"settle", "control"} \/ wk[w].pc = "reconcile"
           /\ wk[w].pc \in {"ckptRead", "ckptWrite"} => wk[w].ctx \in {"loop", "settle", "control"}
           /\ wk[w].ctx = "settle" \/ wk[w].goal = "COMPLETED" =>
                job[Op(w)].status = "COMPLETED" /\ job[Op(w)].next = Chunks
                /\ wk[w].local = Chunks
           /\ wk[w].ctx = "settle" => wk[w].pc # "reconcile"
           /\ wk[w].ctx = "settle" /\ wk[w].pc \in {"poll", "renew"} => row[Op(w)].done = Chunks
           /\ wk[w].goal = "COMPLETED" /\ wk[w].pc = "finish" => row[Op(w)].done = Chunks
  <1>1. wk[w].pc \notin FreePoints
    BY DEF FreePoints
  <1>2. /\ Op(w) \in Ops /\ wk[w] \in Sessions /\ wk[w].local <= job[Op(w)].next
    BY <1>1, BusyFacts
  <1>3. ASSUME wk[w].ctx = "settle" \/ wk[w].goal = "COMPLETED"
        PROVE  /\ job[Op(w)].status = "COMPLETED" /\ job[Op(w)].next = Chunks
               /\ wk[w].local = Chunks
    BY <1>2, <1>3 DEF EvidenceInv, SessionInv, HasEvidence, DataInv, FinishedJobsHaveAllChunks
  <1> QED
    BY <1>1, <1>2, <1>3 DEF EvidenceInv, SessionInv, HasEvidence, KnowsItsJob, At

\* Whatever poll_control answers, the caller's next point keeps its evidence.
LEMMA AfterPollSession ==
    ASSUME EvidenceInv, NEW w \in Workers, wk[w].pc \in {"poll", "renew"},
           NEW control \in {"none", "PAUSED", "CANCELLED"},
           Become(w, AfterPoll(w, control)),
           UNCHANGED <<job, receipts, short, flock>>, OutcomesKeep
    PROVE  SessionsStep(w) /\ SessionInv(w)'
  <1> DEFINE s == AfterPoll(w, control)
  <1>1. /\ wk[w] \in Sessions /\ Op(w) \in Ops /\ Op(w) = wk[w].op
        /\ wk[w].local <= job[Op(w)].next
        /\ row'[Op(w)].done = row[Op(w)].done
    BY PollFacts DEF OutcomesKeep, Op
  <1>2. CASE wk[w].ctx = "loop"
    <2>1. s = [wk[w] EXCEPT !.pc = IF control = "none" THEN "verify" ELSE "control",
                            !.goal = control]
      BY <1>2 DEF AfterPoll
    <2> HIDE DEF s
    <2>2. /\ s \in Sessions /\ s.pc \in {"verify", "control"} /\ s.goal = control
          /\ s.op = wk[w].op /\ s.ctx = "loop" /\ s.local = wk[w].local
      BY <1>1, <1>2, <2>1 DEF Sessions, Points, Goals, ReconcileTargets,
                              TERMINAL_OPERATION_STATES
    <2>3. SessionsStep(w) /\ wk'[w] = s
      BY <2>2, TypeFacts, BecomeStep DEF s
    <2>4. job'[Op(w)].next \in 0..Chunks
      BY <1>2, LoopFacts
    <2>5. wk[w].local < Chunks
      BY <1>2, LoopFacts
    <2>6. SessionInv(w)'
      BY <1>1, <1>2, <2>2, <2>3, <2>4, <2>5, LoopFacts, LoopSession
      DEF Dataset, ChunkPoints
    <2> QED BY <2>3, <2>6
  <1>3. CASE wk[w].ctx = "settle"
    <2>1. s = [wk[w] EXCEPT !.pc = "finish",
                            !.goal = IF control = "none" THEN CompletedGoal(Op(w)) ELSE control]
      BY <1>3 DEF AfterPoll
    <2>2. (IF control = "none" THEN CompletedGoal(Op(w)) ELSE control) \in Goals
      BY DEF CompletedGoal, Goals, ReconcileTargets, TERMINAL_OPERATION_STATES
    <2> HIDE DEF s
    <2>3. /\ s \in Sessions /\ s.pc = "finish"
          /\ s.op = wk[w].op /\ s.ctx = "settle" /\ s.local = wk[w].local
      BY <1>1, <1>3, <2>1, <2>2 DEF Sessions, Points
    <2>4. SessionsStep(w) /\ wk'[w] = s
      BY <2>3, TypeFacts, BecomeStep DEF s
    <2>5. SessionInv(w)'
      BY <1>1, <1>3, <2>3, <2>4, PollFacts, SettleSession
    <2> QED BY <2>4, <2>5
  <1>4. CASE wk[w].ctx \notin {"loop", "settle"}
    <2>1. /\ s \in Sessions /\ s.pc \in {"finish", "poll"} /\ s.ctx \notin {"loop", "settle"}
          /\ s.goal # "COMPLETED" /\ s.op = wk[w].op /\ s.local = wk[w].local
      <3>1. CASE wk[w].ctx = "failure"
        <4>1. s = [wk[w] EXCEPT !.pc = "finish",
                                !.goal = IF control = "none" THEN "FAILED" ELSE control]
          BY <3>1 DEF AfterPoll
        <4>2. (IF control = "none" THEN "FAILED" ELSE control) \in Goals \ {"COMPLETED"}
          BY DEF Goals, ReconcileTargets, TERMINAL_OPERATION_STATES
        <4> HIDE DEF s
        <4> QED BY <1>1, <1>4, <4>1, <4>2 DEF Sessions, Points
      <3>2. CASE wk[w].ctx # "failure" /\ s = [wk[w] EXCEPT !.pc = "finish", !.goal = control]
        <4> HIDE DEF s
        <4> QED BY <1>1, <1>4, <3>2 DEF Sessions, Points, Goals, ReconcileTargets,
                                         TERMINAL_OPERATION_STATES
      <3>3. CASE s = [wk[w] EXCEPT !.pc = "poll", !.ctx = "failure", !.goal = "none"]
        <4> HIDE DEF s
        <4> QED BY <1>1, <3>3 DEF Sessions, Points, Goals, Contexts
      <3> QED BY <1>4, <3>1, <3>2, <3>3 DEF AfterPoll
    <2> HIDE DEF s
    <2>2. SessionsStep(w) /\ wk'[w] = s
      BY <2>1, TypeFacts, BecomeStep DEF s
    <2>3. SessionInv(w)'
      BY <1>1, <2>1, <2>2, HeldSession DEF HeldPoints
    <2> QED BY <2>2, <2>3
  <1> QED BY <1>2, <1>3, <1>4

\* From poll to renew, or from the read of a checkpoint to its write.
LEMMA PollGo ==
    ASSUME EvidenceInv, NEW w \in Workers, wk[w].pc = "poll", Go(w, "renew"),
           UNCHANGED <<job, receipts, short, flock>>, OutcomesKeep
    PROVE  SessionsStep(w) /\ SessionInv(w)'
  <1>1. /\ wk[w].pc \notin FreePoints /\ Op(w) \in Ops
        /\ "renew" \in Points /\ "renew" \in HeldPoints /\ JobsKeep
        /\ row'[Op(w)].done = row[Op(w)].done
    BY PollFacts, FilesUnchanged DEF Points, HeldPoints, OutcomesKeep
  <1>2. CASE wk[w].ctx = "loop"
    BY <1>2, LoopFacts, GoLoop
  <1>3. CASE wk[w].ctx = "settle"
    <2>1. /\ SessionsStep(w)
          /\ wk'[w].pc = "renew" /\ wk'[w].op = Op(w) /\ wk'[w].ctx = "settle"
          /\ wk'[w].goal = wk[w].goal /\ wk'[w].local = wk[w].local
      BY <1>1, <1>3, TypeFacts, GoStep DEF Op
    <2> QED BY <1>1, <1>3, <2>1, PollFacts, SettleSession
  <1>4. CASE wk[w].ctx = "control" /\ wk[w].goal = "COMPLETED"
    <2>1. /\ SessionsStep(w)
          /\ wk'[w].pc = "renew" /\ wk'[w].op = Op(w) /\ wk'[w].ctx = "control"
          /\ wk'[w].goal = wk[w].goal /\ wk'[w].local = wk[w].local
      BY <1>1, <1>4, TypeFacts, GoStep DEF Op
    <2> QED BY <1>1, <1>4, <2>1, PollFacts, SettleSession
  <1>5. CASE wk[w].ctx \notin {"loop", "settle"} /\ wk[w].goal # "COMPLETED"
    BY <1>1, <1>5, GoHeld
  <1> QED BY <1>2, <1>3, <1>4, <1>5, PollFacts

\* The read of poll_control.
LEMMA PollKeeps ==
    ASSUME EvidenceInv, NEW w \in Workers, Poll(w)
    PROVE  EvidenceInv'
  <1>1. wk[w].pc = "poll" /\ wk[w].pc \notin FreePoints /\ Op(w) \in Ops
    BY PollFacts DEF Poll, At
  <1>2. ASSUME NEW c \in {"PAUSED", "CANCELLED"}, ReadRow(Op(w), w),
               Become(w, AfterPoll(w, c)), UNCHANGED <<job, receipts, short, flock>>
        PROVE  EvidenceInv'
    <2>1. RowsStep(w) /\ OutcomesKeep
      BY <1>1, <1>2, TypeFacts, ReadRowStep
    <2>2. SessionsStep(w) /\ SessionInv(w)'
      BY <1>1, <1>2, <2>1, AfterPollSession
    <2> QED BY <1>2, <2>1, <2>2, OnlyRowStep
  <1>3. ASSUME ReadRow(Op(w), w), Go(w, "renew"), UNCHANGED <<job, receipts, short, flock>>
        PROVE  EvidenceInv'
    <2>1. RowsStep(w) /\ OutcomesKeep
      BY <1>1, <1>3, TypeFacts, ReadRowStep
    <2>2. SessionsStep(w) /\ SessionInv(w)'
      BY <1>1, <1>3, <2>1, PollGo
    <2> QED BY <1>3, <2>1, <2>2, OnlyRowStep
  <1> QED BY <1>1, <1>2, <1>3, LostKeeps DEF Poll

\* The renewal of poll_control, after which work continues.
LEMMA RenewKeeps ==
    ASSUME EvidenceInv, NEW w \in Workers, Renew(w)
    PROVE  EvidenceInv'
  <1>1. wk[w].pc = "renew" /\ wk[w].pc \notin FreePoints /\ Op(w) \in Ops
    BY PollFacts DEF Renew, At
  <1>2. ASSUME RenewLease(Op(w), w), Become(w, AfterPoll(w, "none")),
               UNCHANGED <<job, receipts, short, flock>>
        PROVE  EvidenceInv'
    <2>1. RowsStep(w) /\ OutcomesKeep
      BY <1>1, <1>2, TypeFacts, RenewLeaseRow
    <2>2. SessionsStep(w) /\ SessionInv(w)'
      BY <1>1, <1>2, <2>1, AfterPollSession
    <2> QED BY <1>2, <2>1, <2>2, OnlyRowStep
  <1> QED BY <1>1, <1>2, LostKeeps DEF Renew

\* The read of a checkpoint.
LEMMA CkptReadKeeps ==
    ASSUME EvidenceInv, NEW w \in Workers, CkptRead(w)
    PROVE  EvidenceInv'
  <1>1. wk[w].pc = "ckptRead" /\ wk[w].pc \notin FreePoints /\ Op(w) \in Ops
    BY PollFacts DEF CkptRead, At
  <1>2. ASSUME ReadRow(Op(w), w), Go(w, "ckptWrite"), UNCHANGED <<job, receipts, short, flock>>
        PROVE  EvidenceInv'
    <2>1. RowsStep(w) /\ OutcomesKeep
      BY <1>1, <1>2, TypeFacts, ReadRowStep
    <2>2. JobsKeep /\ "ckptWrite" \in Points /\ "ckptWrite" \in HeldPoints
      BY <1>2, FilesUnchanged DEF Points, HeldPoints
    <2>3. SessionsStep(w) /\ SessionInv(w)'
      <3>1. CASE wk[w].ctx = "loop"
        BY <1>2, <3>1, GoLoop DEF ChunkPoints
      <3>2. CASE wk[w].ctx = "settle" \/ wk[w].goal = "COMPLETED"
        <4>1. /\ SessionsStep(w)
              /\ wk'[w].pc = "ckptWrite" /\ wk'[w].op = Op(w) /\ wk'[w].ctx = wk[w].ctx
              /\ wk'[w].goal = wk[w].goal /\ wk'[w].local = wk[w].local
          BY <1>2, <2>2, TypeFacts, GoStep DEF Op
        <4>2. wk[w].ctx \in {"settle", "control"}
          BY <1>1, <3>2, PollFacts
        <4> QED BY <1>1, <1>2, <3>2, <4>1, <4>2, PollFacts, SettleSession
      <3>3. CASE wk[w].ctx \notin {"loop", "settle"} /\ wk[w].goal # "COMPLETED"
        BY <1>1, <1>2, <2>2, <3>3, PollFacts, GoHeld
      <3> QED BY <3>1, <3>2, <3>3
    <2> QED BY <1>2, <2>1, <2>3, OnlyRowStep
  <1> QED BY <1>1, <1>2, LostKeeps DEF CkptRead

\* Publishing the record in hand leaves progress behind the evidence.
LEMMA ProgressData ==
    ASSUME EvidenceInv, NEW w \in Workers, NEW o \in Ops, NEW n \in 0..Chunks,
           UpdateProgress(o, w, n), n <= job[o].next, UNCHANGED <<job, receipts, short>>
    PROVE  RowsStep(w) /\ row'[o].done = n /\ DataInv'
  <1>1. /\ RowsStep(w)
        /\ \A p \in Ops \ {o} : row'[p] = row[p]
        /\ row'[o].done = n /\ row'[o].status = row[o].status
    BY TypeFacts, UpdateProgressRow
  <1>2. n >= row[o].done /\ row[o].done \in 0..Chunks
    BY TypeFacts DEF UpdateProgress, RowsOK, Rows
  <1>3. row[o].done = Chunks => n = Chunks
    BY <1>2, ChunksAssumption
  <1>4. ProgressIsDurable'
    BY <1>1 DEF EvidenceInv, DataInv, ProgressIsDurable
  <1>5. CompletedIsDurable'
    BY <1>1, <1>3 DEF EvidenceInv, DataInv, CompletedIsDurable
  <1>6. FinishedJobsHaveAllChunks'
    BY DEF EvidenceInv, DataInv, FinishedJobsHaveAllChunks
  <1> QED BY <1>1, <1>4, <1>5, <1>6 DEF DataInv, RowsStep, RowsOK

\* Where a checkpoint returns to, its progress n published.
LEMMA AfterCheckpointSession ==
    ASSUME EvidenceInv, NEW w \in Workers, wk[w].pc = "ckptWrite",
           Become(w, AfterCheckpoint(w)), UNCHANGED <<job, receipts, short>>,
           wk[w].local < Chunks => UNCHANGED flock,
           row'[Op(w)].done = wk[w].local, wk[w].local \in 0..Chunks
    PROVE  SessionsStep(w) /\ SessionInv(w)'
  <1> DEFINE s == AfterCheckpoint(w)
  <1>1. /\ wk[w] \in Sessions /\ Op(w) \in Ops /\ Op(w) = wk[w].op
        /\ wk[w].local <= job[Op(w)].next
        /\ wk[w].ctx \in {"loop", "settle", "control"}
    BY PollFacts DEF Op
  <1>2. CASE wk[w].ctx = "settle"
    <2>1. s = [wk[w] EXCEPT !.pc = "poll"]
      BY <1>2 DEF AfterCheckpoint
    <2> HIDE DEF s
    <2>2. /\ s \in Sessions /\ s.pc = "poll" /\ s.ctx = "settle" /\ s.goal = wk[w].goal
          /\ s.op = wk[w].op /\ s.local = wk[w].local
      BY <1>1, <1>2, <2>1 DEF Sessions, Points
    <2>3. SessionsStep(w) /\ wk'[w] = s
      BY <2>2, TypeFacts, BecomeStep DEF s
    <2> QED BY <1>1, <1>2, <2>2, <2>3, PollFacts, SettleSession
  <1>3. CASE wk[w].ctx = "control"
    <2>1. s = [wk[w] EXCEPT !.pc = "finish"]
      BY <1>3 DEF AfterCheckpoint
    <2> HIDE DEF s
    <2>2. /\ s \in Sessions /\ s.pc = "finish" /\ s.ctx = "control" /\ s.goal = wk[w].goal
          /\ s.op = wk[w].op /\ s.local = wk[w].local
      BY <1>1, <1>3, <2>1 DEF Sessions, Points
    <2>3. SessionsStep(w) /\ wk'[w] = s
      BY <2>2, TypeFacts, BecomeStep DEF s
    <2>4. CASE wk[w].goal = "COMPLETED"
      BY <1>1, <2>2, <2>3, <2>4, PollFacts, SettleSession
    <2>5. CASE wk[w].goal # "COMPLETED"
      BY <1>1, <2>2, <2>3, <2>5, HeldSession DEF HeldPoints
    <2> QED BY <2>3, <2>4, <2>5
  <1>4. CASE wk[w].ctx = "loop" /\ wk[w].local < Chunks
    <2>1. s = [wk[w] EXCEPT !.pc = "boundary"]
      BY <1>4 DEF AfterCheckpoint
    <2> HIDE DEF s
    <2>2. /\ s \in Sessions /\ s.pc = "boundary" /\ s.ctx = "loop" /\ s.goal = wk[w].goal
          /\ s.op = wk[w].op /\ s.local = wk[w].local
      BY <1>1, <1>4, <2>1 DEF Sessions, Points
    <2>3. SessionsStep(w) /\ wk'[w] = s
      BY <2>2, TypeFacts, BecomeStep DEF s
    <2>4. job'[Op(w)].next \in 0..Chunks
      BY <1>4, LoopFacts
    <2> QED BY <1>1, <1>4, <2>2, <2>3, <2>4, LoopFacts, LoopSession DEF ChunkPoints, Dataset
  <1>5. CASE wk[w].ctx = "loop" /\ ~(wk[w].local < Chunks) /\ job[Op(w)].status = "COMPLETED"
    <2>1. s = [wk[w] EXCEPT !.pc = "ckptRead", !.ctx = "settle"]
      BY <1>5 DEF AfterCheckpoint, AfterLastChunk
    <2> HIDE DEF s
    <2>2. /\ s \in Sessions /\ s.pc = "ckptRead" /\ s.ctx = "settle" /\ s.goal = wk[w].goal
          /\ s.op = wk[w].op /\ s.local = wk[w].local
      BY <1>1, <2>1 DEF Sessions, Points, Contexts
    <2>3. SessionsStep(w) /\ wk'[w] = s
      BY <2>2, TypeFacts, BecomeStep DEF s
    <2>4. wk[w].local = Chunks /\ job[Op(w)].next = Chunks
      BY <1>5, LoopFacts, ChunksAssumption
    <2> QED BY <1>1, <1>5, <2>2, <2>3, <2>4, SettleSession
  <1>6. CASE wk[w].ctx = "loop" /\ ~(wk[w].local < Chunks) /\ job[Op(w)].status # "COMPLETED"
    <2>1. s = [wk[w] EXCEPT !.pc = "poll", !.ctx = InterruptedAs(job[Op(w)].status)]
      BY <1>6 DEF AfterCheckpoint, AfterLastChunk
    <2>2. InterruptedAs(job[Op(w)].status) \in {"paused", "cancelled"}
      BY DEF InterruptedAs
    <2> HIDE DEF s
    <2>3. /\ s \in Sessions /\ s.pc = "poll" /\ s.ctx \in {"paused", "cancelled"}
          /\ s.goal = wk[w].goal /\ s.op = wk[w].op /\ s.local = wk[w].local
      BY <1>1, <2>1, <2>2 DEF Sessions, Points, Contexts
    <2>4. SessionsStep(w) /\ wk'[w] = s
      BY <2>3, TypeFacts, BecomeStep DEF s
    <2> QED BY <1>1, <1>6, <2>3, <2>4, LoopFacts, HeldSession DEF HeldPoints
  <1> QED BY <1>1, <1>2, <1>3, <1>4, <1>5, <1>6

\* The write of a checkpoint: PostgreSQL follows the record in hand, which is
\* no further than the catalog.
LEMMA CkptWriteKeeps ==
    ASSUME EvidenceInv, NEW w \in Workers, CkptWrite(w)
    PROVE  EvidenceInv'
  <1>1. wk[w].pc = "ckptWrite" /\ wk[w].pc \notin FreePoints /\ Op(w) \in Ops
    BY PollFacts DEF CkptWrite, At
  <1>2. ASSUME UpdateProgress(Op(w), w, wk[w].local), Become(w, AfterCheckpoint(w)),
               IF wk[w].local = Chunks THEN Release(w) ELSE UNCHANGED flock,
               UNCHANGED <<job, receipts, short>>
        PROVE  EvidenceInv'
    <2>1. wk[w].local \in 0..Chunks
      <3>1. /\ wk[w].local \in -1..Chunks /\ row[Op(w)].done \in 0..Chunks
            /\ wk[w].local >= row[Op(w)].done
        BY <1>1, <1>2, BusyFacts DEF Rows, UpdateProgress
      <3> QED BY <3>1, ChunksAssumption
    <2>2. wk[w].local <= job[Op(w)].next
      BY <1>1, PollFacts
    <2>3. RowsStep(w) /\ row'[Op(w)].done = wk[w].local /\ DataInv'
      BY <1>1, <1>2, <2>1, <2>2, ProgressData
    <2>4. wk[w].local < Chunks => UNCHANGED flock
      BY <1>2, <2>1, ChunksAssumption
    <2>5. SessionsStep(w) /\ SessionInv(w)'
      BY <1>1, <1>2, <2>1, <2>3, <2>4, AfterCheckpointSession
    <2>6. job' \in [Ops -> Jobs] /\ JobsKeep
      BY <1>2, TypeFacts DEF FilesOK, JobsKeep
    <2>7. FilesStep(w)
      BY <1>2, <2>6, TypeFacts, ReleaseStep, QuietFiles
    <2> QED BY <2>3, <2>5, <2>7, StepKeeps
  <1> QED BY <1>1, <1>2, LostKeeps DEF CkptWrite
-----------------------------------------------------------------------------
(* Final writes, recovery and control settlement *)

\* A row that is published with progress backed by its job, and COMPLETED only
\* with all of it.
LEMMA PublishData ==
    ASSUME EvidenceInv, NEW o \in Ops, RowsOK', UNCHANGED <<job, receipts, short>>,
           \A p \in Ops \ {o} : row'[p] = row[p],
           row'[o].done <= job[o].next,
           row'[o].status = "COMPLETED" =>
               row'[o].done = Chunks /\ job[o].status = "COMPLETED"
    PROVE  DataInv'
  <1>1. ProgressIsDurable'
    BY DEF EvidenceInv, DataInv, ProgressIsDurable
  <1>2. ASSUME job[o].status = "COMPLETED" PROVE receipts[o] = Chunks /\ short[o] = {}
    <2>1. /\ job[o].next = Chunks /\ job[o].next <= receipts[o] /\ short[o] = {}
          /\ receipts[o] \in 0..Chunks
      BY <1>2, TypeFacts
      DEF EvidenceInv, DataInv, ProgressIsDurable, FinishedJobsHaveAllChunks, FilesOK
    <2> QED BY <2>1, ChunksAssumption
  <1>3. CompletedIsDurable'
    BY <1>2 DEF EvidenceInv, DataInv, CompletedIsDurable
  <1>4. FinishedJobsHaveAllChunks'
    BY DEF EvidenceInv, DataInv, FinishedJobsHaveAllChunks
  <1> QED BY <1>1, <1>3, <1>4 DEF DataInv, RowsOK

\* The final write: COMPLETED is published only by a session that has seen the
\* job complete and has published all its chunks.
LEMMA FinishKeeps ==
    ASSUME EvidenceInv, NEW w \in Workers, Finish(w)
    PROVE  EvidenceInv'
  <1>1. wk[w].pc = "finish" /\ wk[w].pc \notin FreePoints /\ Op(w) \in Ops
    BY PollFacts DEF Finish, At
  <1>2. ASSUME RequestState(Op(w), w, wk[w].goal), Become(w, AtRest("idle")),
               UNCHANGED <<job, receipts, short, flock>>
        PROVE  EvidenceInv'
    <2>1. /\ RowsStep(w)
          /\ \A p \in Ops \ {Op(w)} : row'[p] = row[p]
          /\ row'[Op(w)].done = row[Op(w)].done /\ row'[Op(w)].status = wk[w].goal
      BY <1>1, <1>2, TypeFacts, RequestStateRow
    <2>2. row[Op(w)].done <= job[Op(w)].next
      BY <1>1 DEF EvidenceInv, DataInv, ProgressIsDurable
    <2>3. wk[w].goal = "COMPLETED" =>
              row[Op(w)].done = Chunks /\ job[Op(w)].status = "COMPLETED"
      BY <1>1, PollFacts
    <2>4. DataInv'
      BY <1>1, <1>2, <2>1, <2>2, <2>3, PublishData DEF RowsStep
    <2>5. "idle" \in FreePoints
      BY DEF FreePoints
    <2>6. SessionsStep(w) /\ SessionInv(w)'
      BY <1>2, <2>5, TypeFacts, RestSession, BecomeStep, AtRestSession
    <2>7. FilesStep(w)
      BY <1>2, FilesUnchanged
    <2> QED BY <2>1, <2>4, <2>6, <2>7, StepKeeps
  <1> QED BY <1>1, <1>2, LostKeeps DEF Finish

\* The outcome of a recovery, under the same condition.
LEMMA ReconcileRowKeeps ==
    ASSUME EvidenceInv, NEW w \in Workers, ReconcileRow(w)
    PROVE  EvidenceInv'
  <1>1. /\ wk[w].pc = "reconcile" /\ wk[w].pc \notin FreePoints /\ Op(w) \in Ops
        /\ wk[w].local \in -1..Chunks
    BY PollFacts, BusyFacts DEF ReconcileRow, At
  <1>2. ASSUME Reconcile(Op(w), w, wk[w].goal, wk[w].local),
               UNCHANGED <<job, receipts, short, flock>>,
               Become(w, IF wk[w].goal = "RUNNING"
                         THEN Holding("execute", Op(w), "none") ELSE AtRest("idle"))
        PROVE  EvidenceInv'
    <2>1. /\ RowsStep(w)
          /\ \A p \in Ops \ {Op(w)} : row'[p] = row[p]
          /\ row'[Op(w)].done = IF wk[w].local < 0 THEN row[Op(w)].done ELSE wk[w].local
          /\ row'[Op(w)].status = wk[w].goal
      BY <1>1, <1>2, TypeFacts, ReconcileRowStep
    <2>2. row'[Op(w)].done <= job[Op(w)].next
      BY <1>1, <2>1, PollFacts DEF EvidenceInv, DataInv, ProgressIsDurable
    <2>3. wk[w].goal = "COMPLETED" =>
              row'[Op(w)].done = Chunks /\ job[Op(w)].status = "COMPLETED"
      BY <1>1, <2>1, PollFacts, ChunksAssumption
    <2>4. DataInv'
      BY <1>1, <1>2, <2>1, <2>2, <2>3, PublishData DEF RowsStep
    <2>5. FilesStep(w)
      BY <1>2, FilesUnchanged
    <2>6. SessionsStep(w) /\ SessionInv(w)'
      <3>1. CASE wk[w].goal = "RUNNING"
        <4>1. /\ "execute" \in HeldPoints \ {"ckptRead", "ckptWrite"} /\ "none" \in Origins
              /\ Become(w, Holding("execute", Op(w), "none"))
          BY <1>2, <3>1 DEF HeldPoints, Origins
        <4> QED BY <1>1, <1>2, <4>1, HoldingStep
      <3>2. CASE wk[w].goal # "RUNNING"
        <4>1. "idle" \in FreePoints /\ Become(w, AtRest("idle"))
          BY <1>2, <3>2 DEF FreePoints
        <4> QED BY <4>1, TypeFacts, RestSession, BecomeStep, AtRestSession
      <3> QED BY <3>1, <3>2
    <2> QED BY <2>1, <2>4, <2>5, <2>6, StepKeeps
  <1> QED BY <1>1, <1>2, LostKeeps DEF ReconcileRow

\* A control request cancels the record of a job that is not running.
LEMMA StoppedRecord ==
    ASSUME EvidenceInv, NEW o \in Ops, NEW c, NEW j,
           j = RecoveredJob(c, job[o]) \/ j = SettledControlJob(c, job[o])
    PROVE  /\ j \in Jobs /\ j.next = job[o].next
           /\ j.status # job[o].status =>
                job[o].status \notin {"COMPLETED", "CANCELLED"} /\ j.status # "COMPLETED"
           /\ j.status = "COMPLETED" => j.next = Chunks
  <1>1. job[o] \in Jobs /\ (job[o].status = "COMPLETED" => job[o].next = Chunks)
    BY TypeFacts DEF FilesOK, EvidenceInv, DataInv, FinishedJobsHaveAllChunks
  <1> QED BY <1>1 DEF RecoveredJob, SettledControlJob, Jobs, JobStates

\* Only a completed local job is recovered, or settled, as COMPLETED.
LEMMA GoalFacts ==
    ASSUME NEW o, NEW c, NEW s
    PROVE  /\ RecoveryGoal(o, c, s) \in Goals
           /\ RecoveryGoal(o, c, s) = "COMPLETED" => s = "COMPLETED"
           /\ ControlGoal(o, c, s) \in Goals
           /\ ControlGoal(o, c, s) = "COMPLETED" => s = "COMPLETED"
  <1>1. StoppedGoal(c, s) \in {"RUNNING", "PAUSED", "CANCELLED", "FAILED"}
    BY DEF StoppedGoal
  <1>2. CompletedGoal(o) \in {"COMPLETED", "FAILED"}
    BY DEF CompletedGoal
  <1>3. {"RUNNING", "PAUSED", "CANCELLED", "FAILED", "COMPLETED"} \subseteq Goals
    BY DEF Goals, ReconcileTargets, TERMINAL_OPERATION_STATES
  <1>4. /\ RecoveryGoal(o, c, s) \in Goals
        /\ RecoveryGoal(o, c, s) = "COMPLETED" => s = "COMPLETED"
    BY <1>1, <1>2, <1>3 DEF RecoveryGoal
  <1>5. \/ s = "COMPLETED" /\ ControlGoal(o, c, s) = CompletedGoal(o)
        \/ ControlGoal(o, c, s) \in {"PAUSED", "CANCELLED", "FAILED"}
    BY DEF ControlGoal
  <1> QED BY <1>2, <1>3, <1>4, <1>5

\* Writing back the record of a job that was not running.
LEMMA RecordStep ==
    ASSUME EvidenceInv, NEW w \in Workers, Op(w) \in Ops, NEW c, NEW j,
           j = RecoveredJob(c, job[Op(w)]) \/ j = SettledControlJob(c, job[Op(w)]),
           job' = [job EXCEPT ![Op(w)] = j], UNCHANGED <<receipts, short, flock>>
    PROVE  /\ FilesStep(w) /\ JobsKeep /\ job'[Op(w)] = j
           /\ j \in Jobs /\ j.next \in 0..Chunks
           /\ j.status = "COMPLETED" => j.next = Chunks
  <1>1. /\ j \in Jobs /\ j.next = job[Op(w)].next
        /\ j.status # job[Op(w)].status =>
             job[Op(w)].status \notin {"COMPLETED", "CANCELLED"} /\ j.status # "COMPLETED"
        /\ j.status = "COMPLETED" => j.next = Chunks
    BY StoppedRecord
  <1>2. job' \in [Ops -> Jobs] /\ JobsKeep
    BY <1>1, TypeFacts, JobWrite
  <1>3. FilesStep(w)
    BY <1>2, TypeFacts, ReleaseStep, QuietFiles
  <1>4. job'[Op(w)] = j
    BY TypeFacts DEF FilesOK
  <1> QED BY <1>1, <1>2, <1>3, <1>4 DEF Jobs

\* _converge_recovery decides on the local job and the final receipt.
LEMMA RecoverKeeps ==
    ASSUME EvidenceInv, NEW w \in Workers, Recover(w)
    PROVE  EvidenceInv'
  <1> DEFINE j == RecoveredJob(wk[w].from, job[Op(w)])
             g == RecoveryGoal(Op(w), wk[w].from, j.status)
             n == IF g = "FAILED" \/ j.status = "NONE" THEN -1 ELSE j.next
             f == [wk[w] EXCEPT !.pc = "reconcile", !.goal = "FAILED"]
             s == [wk[w] EXCEPT !.pc = "reconcile", !.goal = g, !.local = n]
  <1>1. /\ wk[w].pc = "recover" /\ wk[w].pc \notin FreePoints
        /\ UNCHANGED <<row, receipts, short, flock>>
    BY DEF Recover, At, FreePoints
  <1>2. /\ wk[w] \in Sessions /\ Op(w) \in Ops /\ Op(w) = wk[w].op
        /\ wk[w].local <= job[Op(w)].next
        /\ wk[w].ctx \notin {"loop", "settle"}
        /\ RowsStep(w) /\ OutcomesKeep
    BY <1>1, BusyFacts, OutsideLoop, TypeFacts, RowsUnchanged DEF Op
  <1>3. \/ Become(w, f) /\ UNCHANGED job
        \/ Become(w, s) /\ job' = [job EXCEPT ![Op(w)] = j]
    BY DEF Recover
  <1>4. g \in Goals /\ (g = "COMPLETED" => j.status = "COMPLETED")
    BY GoalFacts
  <1>5. j = RecoveredJob(wk[w].from, job[Op(w)])
    OBVIOUS
  <1>6. n = IF g = "FAILED" \/ j.status = "NONE" THEN -1 ELSE j.next
    OBVIOUS
  <1>7. /\ f \in Sessions /\ f.pc = "reconcile" /\ f.goal = "FAILED"
        /\ f.op = wk[w].op /\ f.ctx = wk[w].ctx /\ f.local = wk[w].local
    BY <1>2 DEF Sessions, Points, Goals, ReconcileTargets, TERMINAL_OPERATION_STATES
  <1> HIDE DEF j, g, n, f
  <1>8. CASE Become(w, f) /\ UNCHANGED job
    <2>1. SessionsStep(w) /\ wk'[w] = f
      BY <1>7, <1>8, TypeFacts, BecomeStep
    <2>2. SessionInv(w)'
      BY <1>2, <1>7, <1>8, <2>1, HeldSession DEF HeldPoints
    <2> QED BY <1>1, <1>2, <1>8, <2>1, <2>2, OnlyRowStep
  <1>9. CASE Become(w, s) /\ job' = [job EXCEPT ![Op(w)] = j]
    <2>1. /\ FilesStep(w) /\ JobsKeep /\ job'[Op(w)] = j
          /\ j.next \in 0..Chunks /\ (j.status = "COMPLETED" => j.next = Chunks)
      BY <1>1, <1>2, <1>5, <1>9, RecordStep
    <2>2. n \in -1..Chunks /\ n <= j.next
      BY <1>6, <2>1, ChunksAssumption
    <2>3. /\ s \in Sessions /\ s.pc = "reconcile" /\ s.goal = g
          /\ s.op = wk[w].op /\ s.ctx = wk[w].ctx /\ s.local = n
      BY <1>2, <1>4, <2>2 DEF Sessions, Points
    <2> HIDE DEF s
    <2>4. SessionsStep(w) /\ wk'[w] = s
      BY <1>9, <2>3, TypeFacts, BecomeStep
    <2>5. SessionInv(w)'
      <3>1. CASE g = "COMPLETED"
        <4>1. n = Chunks /\ j.status = "COMPLETED" /\ j.next = Chunks
          BY <1>4, <1>6, <2>1, <3>1
        <4> QED BY <1>2, <2>1, <2>3, <2>4, <4>1, SettleSession
      <3>2. CASE g # "COMPLETED"
        BY <1>2, <2>1, <2>2, <2>3, <2>4, <3>2, HeldSession DEF HeldPoints
      <3> QED BY <3>1, <3>2
    <2> QED BY <1>2, <2>1, <2>4, <2>5, QuietStep
  <1> QED BY <1>3, <1>8, <1>9

\* _settle_claimed_unleased_control decides on them as well.
LEMMA SettleControlKeeps ==
    ASSUME EvidenceInv, NEW w \in Workers, SettleControl(w)
    PROVE  EvidenceInv'
  <1> DEFINE j == SettledControlJob(wk[w].from, job[Op(w)])
             g == ControlGoal(Op(w), wk[w].from, j.status)
             pc == IF g = "FAILED" THEN "finish" ELSE "ckptRead"
             f == [wk[w] EXCEPT !.pc = "finish", !.ctx = "control", !.goal = "FAILED"]
             s == [wk[w] EXCEPT !.pc = pc, !.ctx = "control", !.goal = g, !.local = j.next]
  <1>1. /\ wk[w].pc = "settleControl" /\ wk[w].pc \notin FreePoints
        /\ UNCHANGED <<row, receipts, short, flock>>
    BY DEF SettleControl, At, FreePoints
  <1>2. /\ wk[w] \in Sessions /\ Op(w) \in Ops /\ Op(w) = wk[w].op
        /\ wk[w].local <= job[Op(w)].next
        /\ RowsStep(w) /\ OutcomesKeep
    BY <1>1, BusyFacts, TypeFacts, RowsUnchanged DEF Op
  <1>3. \/ Become(w, f) /\ UNCHANGED job
        \/ Become(w, s) /\ job' = [job EXCEPT ![Op(w)] = j]
    BY DEF SettleControl
  <1>4. g \in Goals /\ (g = "COMPLETED" => j.status = "COMPLETED")
    BY GoalFacts
  <1>5. j = SettledControlJob(wk[w].from, job[Op(w)])
    OBVIOUS
  <1>6. pc = IF g = "FAILED" THEN "finish" ELSE "ckptRead"
    OBVIOUS
  <1>7. /\ f \in Sessions /\ f.pc = "finish" /\ f.ctx = "control" /\ f.goal = "FAILED"
        /\ f.op = wk[w].op /\ f.local = wk[w].local
    BY <1>2 DEF Sessions, Points, Contexts, Goals, ReconcileTargets,
                TERMINAL_OPERATION_STATES
  <1> HIDE DEF j, g, pc, f
  <1>8. CASE Become(w, f) /\ UNCHANGED job
    <2>1. SessionsStep(w) /\ wk'[w] = f
      BY <1>7, <1>8, TypeFacts, BecomeStep
    <2>2. SessionInv(w)'
      BY <1>2, <1>7, <1>8, <2>1, HeldSession DEF HeldPoints
    <2> QED BY <1>1, <1>2, <1>8, <2>1, <2>2, OnlyRowStep
  <1>9. CASE Become(w, s) /\ job' = [job EXCEPT ![Op(w)] = j]
    <2>1. /\ FilesStep(w) /\ JobsKeep /\ job'[Op(w)] = j
          /\ j.next \in 0..Chunks /\ (j.status = "COMPLETED" => j.next = Chunks)
      BY <1>1, <1>2, <1>5, <1>9, RecordStep
    <2>2. j.next \in -1..Chunks /\ j.next <= j.next /\ pc \in {"finish", "ckptRead"}
      BY <1>6, <2>1, ChunksAssumption
    <2>3. /\ s \in Sessions /\ s.pc = pc /\ s.goal = g
          /\ s.op = wk[w].op /\ s.ctx = "control" /\ s.local = j.next
      BY <1>2, <1>4, <2>2 DEF Sessions, Points, Contexts
    <2> HIDE DEF s
    <2>4. SessionsStep(w) /\ wk'[w] = s
      BY <1>9, <2>3, TypeFacts, BecomeStep
    <2>5. SessionInv(w)'
      <3>1. CASE g = "COMPLETED"
        <4>1. j.status = "COMPLETED" /\ j.next = Chunks /\ pc = "ckptRead"
          BY <1>4, <1>6, <2>1, <3>1
        <4> QED BY <1>2, <2>1, <2>3, <2>4, <4>1, SettleSession
      <3>2. CASE g # "COMPLETED"
        BY <1>2, <2>1, <2>2, <2>3, <2>4, <3>2, HeldSession DEF HeldPoints
      <3> QED BY <3>1, <3>2
    <2> QED BY <1>2, <2>1, <2>4, <2>5, QuietStep
  <1> QED BY <1>3, <1>8, <1>9
-----------------------------------------------------------------------------
(* Failures, the CLI and administrators *)

\* A failed transaction turns what it was for into a failure to publish.
LEMMA DatabaseFailsKeeps ==
    ASSUME EvidenceInv, NEW w \in Workers, DatabaseFails(w)
    PROVE  EvidenceInv'
  <1> DEFINE r == [wk[w] EXCEPT !.goal = "FAILED", !.local = -1]
             f == [wk[w] EXCEPT !.pc = "finish", !.goal = "FAILED"]
  <1>1. CASE InExecutor(w) /\ ExecutorFails(w)
    BY <1>1, LoopFacts, ExecutorFailsKeeps DEF InExecutor
  <1>2. CASE /\ wk[w].ctx \in {"settle", "paused", "cancelled"}
             /\ ToFailure(w) /\ UNCHANGED <<row, job, receipts, short, flock>>
    <2>1. wk[w].pc \notin FreePoints
      BY <1>2 DEF EvidenceInv, SessionInv, KnowsItsJob
    <2>2. job' \in [Ops -> Jobs] /\ JobsKeep
      BY <1>2, TypeFacts DEF FilesOK, JobsKeep
    <2> QED BY <1>2, <2>1, <2>2, ToFailureKeeps
  <1>3. CASE At(w, "reconcile") /\ Become(w, r) /\ UNCHANGED <<row, job, receipts, short, flock>>
    <2>1. /\ wk[w].pc = "reconcile" /\ Op(w) \in Ops /\ wk[w] \in Sessions
          /\ Op(w) = wk[w].op /\ job[Op(w)].next \in 0..Chunks
      BY <1>3, PollFacts, TypeFacts DEF At, Op, FilesOK, Jobs
    <2>2. wk[w].ctx \notin {"loop", "settle"}
      BY <2>1, PollFacts DEF EvidenceInv, SessionInv, HoldsFlock, ChunkPoints
    <2>3. /\ r \in Sessions /\ r.pc = "reconcile" /\ r.goal = "FAILED"
          /\ r.op = wk[w].op /\ r.ctx = wk[w].ctx /\ r.local = -1
      <3>1. -1 \in -1..Chunks
        BY ChunksAssumption
      <3> QED BY <2>1, <3>1 DEF Sessions, Goals, ReconcileTargets, TERMINAL_OPERATION_STATES
    <2> HIDE DEF r
    <2>4. SessionsStep(w) /\ wk'[w] = r
      BY <1>3, <2>3, TypeFacts, BecomeStep
    <2>5. wk'[w].local <= job'[wk'[w].op].next
      BY <1>3, <2>1, <2>3, <2>4, ChunksAssumption
    <2>6. SessionInv(w)'
      BY <2>1, <2>2, <2>3, <2>4, <2>5, HeldSession DEF HeldPoints
    <2>7. RowsStep(w) /\ OutcomesKeep
      BY <1>3, TypeFacts, RowsUnchanged
    <2> QED BY <1>3, <2>4, <2>6, <2>7, OnlyRowStep
  <1>4. CASE wk[w].ctx = "control" /\ Become(w, f) /\ UNCHANGED <<row, job, receipts, short, flock>>
    <2>1. wk[w].pc \notin FreePoints
      BY <1>4 DEF EvidenceInv, SessionInv, KnowsItsJob
    <2>2. /\ Op(w) \in Ops /\ wk[w] \in Sessions /\ Op(w) = wk[w].op
          /\ wk[w].local <= job[Op(w)].next
      BY <2>1, BusyFacts DEF Op
    <2>3. /\ f \in Sessions /\ f.pc = "finish" /\ f.goal = "FAILED"
          /\ f.op = wk[w].op /\ f.ctx = wk[w].ctx /\ f.local = wk[w].local
      BY <2>2 DEF Sessions, Points, Goals, ReconcileTargets, TERMINAL_OPERATION_STATES
    <2> HIDE DEF f
    <2>4. SessionsStep(w) /\ wk'[w] = f
      BY <1>4, <2>3, TypeFacts, BecomeStep
    <2>5. SessionInv(w)'
      BY <1>4, <2>2, <2>3, <2>4, HeldSession DEF HeldPoints
    <2>6. RowsStep(w) /\ OutcomesKeep
      BY <1>4, TypeFacts, RowsUnchanged
    <2> QED BY <1>4, <2>4, <2>5, <2>6, OnlyRowStep
  <1> QED BY <1>1, <1>2, <1>3, <1>4 DEF DatabaseFails

\* The cancelled executor leaves its job RUNNING at its checkpoint.
LEMMA HeartbeatFailsKeeps ==
    ASSUME EvidenceInv, NEW w \in Workers, HeartbeatFails(w)
    PROVE  EvidenceInv'
  <1>1. wk[w].pc \notin FreePoints
    BY LoopFacts DEF HeartbeatFails, InExecutor
  <1>2. job' \in [Ops -> Jobs] /\ JobsKeep
    BY TypeFacts DEF HeartbeatFails, FilesOK, JobsKeep
  <1> QED BY <1>1, <1>2, ToFailureKeeps DEF HeartbeatFails

\* A step of nobody: rows, or job records, change under standing sessions.
LEMMA OutsideStep ==
    ASSUME EvidenceInv, UNCHANGED <<receipts, short, flock, wk>>, RowsStep(NoOwner), OutcomesKeep,
           job' \in [Ops -> Jobs], JobsKeep
    PROVE  EvidenceInv'
  <1>1. FilesStep(NoOwner)
    BY TypeFacts, ReleaseStep, QuietFiles
  <1>2. SessionsStep(NoOwner)
    BY TypeFacts, SessionsUnchanged
  <1> QED BY <1>1, <1>2, WorkersAssumption, QuietStep

\* An operator's pause or cancel on jobs.json keeps every checkpoint.
LEMMA CliKeeps ==
    ASSUME EvidenceInv, NEW o \in Ops, CliPause(o) \/ CliCancel(o)
    PROVE  EvidenceInv'
  <1>1. PICK s \in {"PAUSED", "CANCELLED"} :
            SetJob(o, s) /\ job[o].status \notin {"COMPLETED", "CANCELLED"}
    BY DEF CliPause, CliCancel, Cancellable
  <1>2. UNCHANGED <<row, receipts, short, flock, wk>>
    BY DEF CliPause, CliCancel
  <1>3. job' \in [Ops -> Jobs] /\ JobsKeep
    BY <1>1, <1>2, TypeFacts, SetJobKeeps DEF JobStates
  <1>4. RowsStep(NoOwner) /\ OutcomesKeep
    BY <1>2, TypeFacts, RowsUnchanged
  <1> QED BY <1>2, <1>3, <1>4, OutsideStep

\* Submissions, administrators and the clock touch rows only.
LEMMA RowOnlyKeeps ==
    ASSUME EvidenceInv, NEW o \in Ops, SubmitStep(o) \/ AdminStep(o) \/ Expire(o)
    PROVE  EvidenceInv'
  <1>1. UNCHANGED <<job, receipts, short, flock, wk>>
    BY DEF SubmitStep, AdminStep, Expire
  <1>2. RowsStep(NoOwner) /\ OutcomesKeep
    <2>1. CASE SubmitStep(o)
      BY <2>1, TypeFacts, SubmitRow DEF SubmitStep
    <2>2. CASE AdminStep(o)
      BY <2>2, TypeFacts, RequestControlRow
      DEF AdminStep, RequestPause, RequestCancel, RequestResume, ControlStates
    <2>3. CASE Expire(o)
      BY <2>3, TypeFacts, LeaseExpiresStep DEF Expire
    <2> QED BY <2>1, <2>2, <2>3
  <1>3. job' \in [Ops -> Jobs] /\ JobsKeep
    BY <1>1, TypeFacts DEF FilesOK, JobsKeep
  <1> QED BY <1>1, <1>2, <1>3, OutsideStep

-----------------------------------------------------------------------------
(* The invariant *)

\* Every step of run_once keeps EvidenceInv: one lemma per action.
LEMMA WorkerStepKeeps ==
    ASSUME EvidenceInv, NEW w \in Workers, WorkerStep(w)
    PROVE  EvidenceInv'
  BY RecoverAbandonedKeeps, ClaimExpiredKeeps, SelectControlKeeps, ClaimRowKeeps,
     SelectPendingKeeps, StartKeeps, ExecuteKeeps, AcquireKeeps, BoundaryKeeps,
     ApplyControlKeeps, VerifyKeeps, FetchKeeps, AdvanceKeeps, PollKeeps, RenewKeeps,
     CkptReadKeeps, CkptWriteKeeps, FinishKeeps, RecoverKeeps, ReconcileRowKeeps,
     SettleControlKeeps
  DEF WorkerStep

\* There is nothing to prove of an empty queue.
LEMMA InitEvidence == Init => EvidenceInv
  <1> SUFFICES ASSUME Init PROVE EvidenceInv
    OBVIOUS
  <1>1. 0 \in 0..Chunks /\ -1 \in -1..Chunks
    BY ChunksAssumption
  <1>2. AbsentRow \in Rows /\ LeaseFits(AbsentRow) /\ NoJob \in Jobs
    BY <1>1 DEF AbsentRow, Rows, Owners, LeaseFits, NoJob, Jobs, JobStates
  <1>3. AtRest("down") \in Sessions
    BY RestSession DEF FreePoints
  <1>4. TypeOK
    BY <1>1, <1>2, <1>3 DEF Init, TypeOK
  <1>5. DataInv
    <2>1. LeasesFit
      BY <1>2 DEF Init, LeasesFit
    <2>2. ProgressIsDurable /\ CompletedIsDurable /\ FinishedJobsHaveAllChunks
      BY ChunksAssumption
      DEF Init, AbsentRow, NoJob, ProgressIsDurable, CompletedIsDurable,
          FinishedJobsHaveAllChunks
    <2> QED BY <2>1, <2>2 DEF DataInv
  <1>6. ASSUME NEW w \in Workers PROVE SessionInv(w)
    <2>1. wk[w] = AtRest("down")
      BY DEF Init
    <2>2. /\ wk[w].pc = "down" /\ wk[w].op = NoOwner /\ wk[w].ctx = "none"
          /\ wk[w].goal = "none" /\ wk[w].local = -1
      BY <2>1 DEF AtRest, Holding
    <2>3. KnowsItsJob(w) /\ HoldsRowLock(w)
      BY <2>2 DEF KnowsItsJob, HoldsRowLock, FreePoints, LockPoints, Op, At
    <2>4. HoldsFlock(w) /\ HasEvidence(w)
      BY <2>2 DEF HoldsFlock, HasEvidence, ChunkPoints, At
    <2> QED BY <2>3, <2>4 DEF SessionInv
  <1> QED BY <1>4, <1>5, <1>6 DEF EvidenceInv

\* A stuttering step keeps EvidenceInv.
LEMMA StutterKeeps ==
    ASSUME EvidenceInv, UNCHANGED vars
    PROVE  EvidenceInv'
  <1>1. UNCHANGED <<row, job, receipts, short, flock, wk>>
    BY DEF vars
  <1>2. RowsStep(NoOwner) /\ OutcomesKeep
    BY <1>1, TypeFacts, RowsUnchanged
  <1>3. job' \in [Ops -> Jobs] /\ JobsKeep
    BY <1>1, TypeFacts DEF FilesOK, JobsKeep
  <1> QED BY <1>1, <1>2, <1>3, OutsideStep

\* EvidenceInv is inductive: one case per action of Next.
LEMMA NextEvidence == EvidenceInv /\ [Next]_vars => EvidenceInv'
  <1> SUFFICES ASSUME EvidenceInv, [Next]_vars PROVE EvidenceInv'
    OBVIOUS
  <1>1. ASSUME NEW w \in Workers, Boot(w) PROVE EvidenceInv'
    BY <1>1, BootKeeps
  <1>2. ASSUME NEW w \in Workers, Crash(w) PROVE EvidenceInv'
    BY <1>2, ExitKeeps DEF Crash
  <1>3. ASSUME NEW w \in Workers, DatabaseStep(w) PROVE EvidenceInv'
    BY <1>3, DatabaseFailsKeeps, HeartbeatFailsKeeps DEF DatabaseStep
  <1>4. ASSUME NEW w \in Workers, WorkerStep(w) PROVE EvidenceInv'
    BY <1>4, WorkerStepKeeps
  <1>5. ASSUME NEW o \in Ops, SubmitStep(o) \/ AdminStep(o) \/ Expire(o) PROVE EvidenceInv'
    BY <1>5, RowOnlyKeeps
  <1>6. ASSUME NEW o \in Ops, CliPause(o) \/ CliCancel(o) PROVE EvidenceInv'
    BY <1>6, CliKeeps
  <1> QED BY <1>1, <1>2, <1>3, <1>4, <1>5, <1>6, StutterKeeps DEF Next

\* Every worker keeps what it relies on between two of its steps, whatever
\* other workers, recoveries, administrators, the CLI and crashes do meanwhile.
THEOREM EvidenceAlways == Spec => []EvidenceInv
  BY InitEvidence, NextEvidence, PTL DEF Spec

\* The persisted rows, job records, receipts, locks and sessions keep their
\* types: no checkpoint passes chunks_planned.
THEOREM TypeAlways == Spec => []TypeOK
  <1>1. EvidenceInv => TypeOK
    BY DEF EvidenceInv
  <1> QED BY <1>1, EvidenceAlways, PTL

\* What update_progress and reconcile publish never passes the local
\* checkpoint, and that never passes the committed receipts.
THEOREM ProgressAlwaysDurable == Spec => []ProgressIsDurable
  <1>1. EvidenceInv => ProgressIsDurable
    BY DEF EvidenceInv, DataInv
  <1> QED BY <1>1, EvidenceAlways, PTL

\* An operation that complete, reconcile or a control settlement has made
\* COMPLETED has every chunk committed and a completed local job, for good.
THEOREM CompletedAlwaysDurable == Spec => []CompletedIsDurable
  <1>1. EvidenceInv => CompletedIsDurable
    BY DEF EvidenceInv, DataInv
  <1> QED BY <1>1, EvidenceAlways, PTL

\* After any crash between a commit and its checkpoint, the executor asks the source
\* again for a committed chunk only when its receipt counts too few candles.
THEOREM RefetchesAlwaysShort == Spec => []RefetchesOnlyShort
  <1>1. ASSUME EvidenceInv PROVE RefetchesOnlyShort
    <2> SUFFICES ASSUME NEW w \in Workers, At(w, "fetch"), receipts[Op(w)] > wk[w].local
                 PROVE  wk[w].local \in short[Op(w)]
      BY DEF RefetchesOnlyShort
    <2>1. wk[w].ctx = "loop"
      BY <1>1, ChunkPointFacts DEF At, ChunkPoints
    <2>2. receipts[Op(w)] = wk[w].local \/ wk[w].local \in short[Op(w)]
      BY <1>1 DEF EvidenceInv, SessionInv, HoldsFlock
    <2> QED BY <1>1, <2>1, <2>2, LoopFacts, ChunksAssumption
  <1> QED BY <1>1, EvidenceAlways, PTL

-----------------------------------------------------------------------------
(* The queue, and the lifecycle it promises *)

queueVars == <<statuses, leases, progress, receipts>>

\* Who waits or is done has no lease, who is worked on has one.
OwnerFits(s, l, n) == /\ s \in CLEAR_LEASE_STATES \cup {"ABSENT"} => ~l
                      /\ s \in {"CLAIMED", "RUNNING", "RECOVERING"} => l
                      /\ s = "ABSENT" => n = 0

QueueInv == \A o \in Ops : /\ OwnerFits(statuses[o], leases[o], progress[o])
                           /\ \A p \in Ops \ {o} : DatasetOf[p] = DatasetOf[o]
                                 => ~(leases[o] /\ leases[p])

LEMMA QueueType ==
    ASSUME RowsOK
    PROVE  /\ statuses \in [Ops -> OperationStates \cup {"ABSENT"}]
           /\ leases \in [Ops -> BOOLEAN] /\ progress \in [Ops -> 0..Chunks]
           /\ \A o \in Ops : /\ statuses[o] = row[o].status
                             /\ leases[o] <=> row[o].owner # NoOwner
                             /\ progress[o] = row[o].done
  BY DEF statuses, leases, progress, RowsOK, Rows

\* In such a queue the active rows of the index are the leased ones.
LEMMA ActiveIsLeased ==
    ASSUME RowsOK, QueueInv, NEW o \in Ops
    PROVE  ActiveRow(row[o]) <=> row[o].owner # NoOwner
  <1>1. /\ statuses[o] = row[o].status /\ (leases[o] <=> row[o].owner # NoOwner)
        /\ row[o].status \in OperationStates \cup {"ABSENT"}
    BY QueueType DEF RowsOK, Rows
  <1>2. OwnerFits(statuses[o], leases[o], progress[o])
    BY DEF QueueInv
  <1> QED
    BY <1>1, <1>2 DEF OwnerFits, ActiveRow, OperationStates, ControlStates, CLEAR_LEASE_STATES,
                      TERMINAL_OPERATION_STATES

\* An update keeps the queue sound when it leases only what was leased, or what
\* nobody of the dataset is busy with.
LEMMA UpdateKeeps ==
    ASSUME RowsOK, QueueInv, NEW o \in Ops, NEW s, NEW l \in BOOLEAN, NEW n,
           Lifecycle!Update(o, s, l, n), OwnerFits(s, l, n),
           l => leases[o] \/ ~Lifecycle!Busy(DatasetOf[o])
    PROVE  QueueInv'
  <1>1. /\ statuses' = [statuses EXCEPT ![o] = s] /\ leases' = [leases EXCEPT ![o] = l]
        /\ progress' = [progress EXCEPT ![o] = n]
    BY DEF Lifecycle!Update
  <1>2. /\ \A p \in Ops \ {o} : /\ statuses'[p] = statuses[p] /\ leases'[p] = leases[p]
                                /\ progress'[p] = progress[p]
        /\ statuses'[o] = s /\ leases'[o] = l /\ progress'[o] = n
    BY <1>1, QueueType
  <1>3. l => \A p \in Ops \ {o} : DatasetOf[p] = DatasetOf[o] => ~leases[p]
    BY DEF QueueInv, Lifecycle!Busy
  <1>4. ASSUME NEW p \in Ops
        PROVE  OwnerFits(statuses'[p], leases'[p], progress'[p])
    BY <1>2 DEF QueueInv
  <1>5. ASSUME NEW p \in Ops, NEW q \in Ops \ {p}, DatasetOf[q] = DatasetOf[p]
        PROVE  ~(leases'[p] /\ leases'[q])
    BY <1>2, <1>3, <1>5 DEF QueueInv
  <1> QED BY <1>4, <1>5 DEF QueueInv

\* Every step of the lifecycle keeps the queue sound.
LEMMA LifecycleKeeps == ASSUME RowsOK, QueueInv, [Lifecycle!Next]_queueVars PROVE QueueInv'
  <1>1. CASE UNCHANGED queueVars
    BY <1>1 DEF queueVars, QueueInv
  <1> SUFFICES ASSUME NEW o \in Ops,
                      \/ Lifecycle!Insert(o) \/ Lifecycle!Claim(o) \/ Lifecycle!HoldControl(o)
                      \/ Lifecycle!Start(o) \/ Lifecycle!Commit(o) \/ Lifecycle!Complete(o)
                      \/ Lifecycle!TakeOver(o)
                      \/ \E s \in Lifecycle!Controls \cup {"PENDING"} : Lifecycle!Request(o, s)
                      \/ \E s \in {"PAUSED"} \cup Lifecycle!Terminal : Lifecycle!Acknowledge(o, s)
                      \/ \E n \in 0..Chunks : Lifecycle!Publish(o, n)
                      \/ \E s \in {"RUNNING", "PAUSED"} \cup Lifecycle!Terminal, n \in 0..Chunks :
                            Lifecycle!Resolve(o, s, n)
               PROVE  QueueInv'
    BY <1>1 DEF Lifecycle!Next
  <1>0. /\ OwnerFits(statuses[o], leases[o], progress[o]) /\ leases[o] \in BOOLEAN
        /\ \A s, l, n : OwnerFits(s, l, n) <=> /\ s \in CLEAR_LEASE_STATES \cup {"ABSENT"} => ~l
                                               /\ s \in {"CLAIMED", "RUNNING", "RECOVERING"} => l
                                               /\ s = "ABSENT" => n = 0
    BY QueueType DEF QueueInv, OwnerFits
  <1> USE DEF CLEAR_LEASE_STATES, TERMINAL_OPERATION_STATES
  <1>2. CASE Lifecycle!Insert(o)
    BY <1>0, <1>2, UpdateKeeps DEF Lifecycle!Insert
  <1>3. CASE Lifecycle!Claim(o)
    BY <1>0, <1>3, UpdateKeeps DEF Lifecycle!Claim
  <1>4. CASE Lifecycle!HoldControl(o)
    BY <1>0, <1>4, UpdateKeeps DEF Lifecycle!HoldControl, Lifecycle!Controls
  <1>5. CASE Lifecycle!Start(o)
    <2>1. leases[o] /\ OwnerFits("RUNNING", TRUE, progress[o])
      BY <1>0, <1>5 DEF Lifecycle!Start
    <2> QED BY <1>5, <2>1, UpdateKeeps DEF Lifecycle!Start
  <1>6. CASE Lifecycle!Commit(o)
    BY <1>6 DEF Lifecycle!Commit, QueueInv
  <1>7. CASE Lifecycle!Complete(o)
    BY <1>0, <1>7, UpdateKeeps DEF Lifecycle!Complete
  <1>8. CASE Lifecycle!TakeOver(o)
    BY <1>0, <1>8, UpdateKeeps DEF Lifecycle!TakeOver
  <1>9. ASSUME NEW s \in Lifecycle!Controls \cup {"PENDING"}, Lifecycle!Request(o, s)
        PROVE  QueueInv'
    <2>1. s \in {"PAUSE_REQUESTED", "CANCEL_REQUESTED", "PENDING"}
      BY DEF Lifecycle!Controls
    <2>2. OwnerFits(s, leases[o], progress[o])
      BY <1>0, <1>9, <2>1 DEF Lifecycle!Request, Lifecycle!Executing
    <2> QED BY <1>0, <1>9, <2>2, UpdateKeeps DEF Lifecycle!Request
  <1>10. ASSUME NEW s \in {"PAUSED"} \cup Lifecycle!Terminal, Lifecycle!Acknowledge(o, s)
         PROVE  QueueInv'
    <2>1. OwnerFits(s, FALSE, progress[o])
      BY <1>0 DEF Lifecycle!Terminal
    <2> QED BY <1>10, <2>1, UpdateKeeps DEF Lifecycle!Acknowledge
  <1>11. ASSUME NEW n \in 0..Chunks, Lifecycle!Publish(o, n)
         PROVE  QueueInv'
    <2>1. OwnerFits(statuses[o], TRUE, n) /\ leases[o]
      BY <1>0, <1>11 DEF Lifecycle!Publish
    <2> QED BY <1>11, <2>1, UpdateKeeps DEF Lifecycle!Publish
  <1>12. ASSUME NEW s \in {"RUNNING", "PAUSED"} \cup Lifecycle!Terminal, NEW n \in 0..Chunks,
                Lifecycle!Resolve(o, s, n)
         PROVE  QueueInv'
    <2>1. OwnerFits(s, s = "RUNNING", n) /\ leases[o]
      BY <1>0, <1>12 DEF Lifecycle!Terminal, Lifecycle!Resolve
    <2> QED BY <1>12, <2>1, UpdateKeeps DEF Lifecycle!Resolve
  <1> QED
    BY <1>2, <1>3, <1>4, <1>5, <1>6, <1>7, <1>8, <1>9, <1>10, <1>11, <1>12

-----------------------------------------------------------------------------
(* Each transaction is a step of the lifecycle, or none *)

\* What others may count on when w writes: w gives no row to another worker,
\* and lets go of no row outside S, unless that row failed.
OwnersStep(w, S) ==
    \A p \in Ops :
        /\ \A x \in Workers \ {w} : row'[p].owner = x => row[p].owner = x
        /\ row'[p].owner = NoOwner /\ row'[p].status # "FAILED" /\ p \notin S
             => row[p].owner = NoOwner

\* w takes no row either.
NothingTaken(w) == \A p \in Ops : row'[p].owner = w => row[p].owner = w

\* A write of the row o, as the lifecycle sees it.
LEMMA MappedUpdate ==
    ASSUME RowsOK, NEW o \in Ops, NEW r \in Rows, LeaseFits(r), UNCHANGED <<receipts, short>>,
           WriteAsOwner(o, r) \/ WriteAsOther(o, r), NEW l \in BOOLEAN, l <=> r.owner # NoOwner
    PROVE  /\ Lifecycle!Update(o, r.status, l, r.done)
           /\ \A p \in Ops \ {o} : row'[p] = row[p]
           /\ row'[o].status = r.status /\ row'[o].owner = r.owner /\ row'[o].done = r.done
  <1>1. /\ RowsOK' /\ \A p \in Ops \ {o} : row'[p] = row[p]
        /\ row'[o].status = r.status /\ row'[o].owner = r.owner /\ row'[o].done = r.done
    BY WriteType
  <1>2. statuses' = [statuses EXCEPT ![o] = r.status]
    BY <1>1 DEF statuses, RowsOK
  <1>3. leases' = [leases EXCEPT ![o] = l]
    BY <1>1 DEF leases, RowsOK
  <1>4. progress' = [progress EXCEPT ![o] = r.done]
    BY <1>1 DEF progress, RowsOK
  <1> QED BY <1>1, <1>2, <1>3, <1>4 DEF Lifecycle!Update

\* A step after which every row has its status, lease and progress.
LEMMA Unseen ==
    ASSUME UNCHANGED <<receipts, short>>,
           \A p \in Ops : /\ row'[p].status = row[p].status /\ row'[p].done = row[p].done
                          /\ row'[p].owner # NoOwner <=> row[p].owner # NoOwner
    PROVE  UNCHANGED queueVars
  BY DEF queueVars, statuses, leases, progress

\* Reads, row locks, expiries and the end of a process are not seen.
LEMMA QuietRows ==
    ASSUME RowsOK, NEW w \in Workers, UNCHANGED <<receipts, short>>,
           \/ UNCHANGED row
           \/ \E o \in Ops : ReadRow(o, w) \/ LockRow(o, w) \/ UnlockRow(o) \/ LeaseExpires(o)
                             \/ RenewLease(o, w)
           \/ AbandonRows(w)
    PROVE  UNCHANGED queueVars /\ OwnersStep(w, {}) /\ NothingTaken(w)
  <1>1. \A p \in Ops : /\ row'[p].status = row[p].status /\ row'[p].done = row[p].done
                       /\ row'[p].owner \in {row[p].owner, Gone}
                       /\ row'[p].owner # row[p].owner => row[p].owner = w
    <2>1. CASE UNCHANGED row
      BY <2>1
    <2>2. ASSUME NEW o \in Ops, ReadRow(o, w) \/ LockRow(o, w) \/ UnlockRow(o) \/ LeaseExpires(o)
          PROVE  \A p \in Ops : /\ row'[p].status = row[p].status /\ row'[p].done = row[p].done
                                /\ row'[p].owner = row[p].owner
      BY <2>2 DEF ReadRow, LockRow, UnlockRow, LeaseExpires, RowsOK, Rows
    <2>3. ASSUME NEW o \in Ops, RenewLease(o, w)
          PROVE  \A p \in Ops : /\ row'[p].status = row[p].status /\ row'[p].done = row[p].done
                                /\ row'[p].owner = row[p].owner
      <3>1. row[o] \in Rows /\ LeaseFits(row[o]) /\ WriteAsOwner(o, row[o])
        BY <2>3 DEF RenewLease, RowsOK, LeasesFit
      <3> QED BY <3>1, WriteType
    <2>4. CASE AbandonRows(w)
      <3>1. \A p \in Ops : row'[p] = [row[p] EXCEPT !.owner = IF @ = w THEN Gone ELSE @,
                                                    !.lock = IF @ = w THEN NoOwner ELSE @,
                                                    !.current = @ /\ row[p].owner # w]
        BY <2>4 DEF AbandonRows
      <3> QED BY <3>1 DEF RowsOK, Rows
    <2> QED BY <2>1, <2>2, <2>3, <2>4
  <1>2. \A p \in Ops : row'[p].owner # NoOwner <=> row[p].owner # NoOwner
    BY <1>1, WorkersAssumption
  <1>3. UNCHANGED queueVars
    BY <1>1, <1>2, Unseen
  <1>4. OwnersStep(w, {}) /\ NothingTaken(w)
    BY <1>1, <1>2, WorkersAssumption DEF OwnersStep, NothingTaken
  <1> QED BY <1>3, <1>4

\* claim_next_expired.
LEMMA TakeOverStep ==
    ASSUME RowsOK, QueueInv, NEW w \in Workers, NEW o \in Ops, UNCHANGED <<receipts, short>>,
           ClaimNextExpired(o, w)
    PROVE  [Lifecycle!Next]_queueVars /\ OwnersStep(w, {})
  <1> DEFINE q == [row[o] EXCEPT !.status = "RECOVERING"]
             r == Leased(q, w)
  <1>0. q \in Rows /\ q.status = "RECOVERING" /\ q.done = row[o].done
    BY DEF RowsOK, Rows, OperationStates
  <1>1. WriteAsOwner(o, r)
    BY DEF ClaimNextExpired
  <1> HIDE DEF q
  <1>2. /\ r \in Rows /\ r.status = "RECOVERING" /\ r.done = row[o].done /\ r.owner = w
        /\ LeaseFits(r)
    BY <1>0, LeasedType, WorkersAssumption DEF LeaseFits
  <1> HIDE DEF r
  <1>3. row[o].owner # NoOwner
    <2>1. row[o].status = "RECOVERING" \/ row[o].expired
      BY DEF ClaimNextExpired, AbandonedRecoveries, ExpiredRows
    <2>2. OwnerFits(statuses[o], leases[o], progress[o]) /\ LeaseFits(row[o])
      BY DEF QueueInv, RowsOK, LeasesFit
    <2> QED BY <2>1, <2>2, QueueType DEF OwnerFits, LeaseFits
  <1>4. /\ Lifecycle!Update(o, "RECOVERING", TRUE, progress[o])
        /\ \A p \in Ops \ {o} : row'[p] = row[p]
        /\ row'[o].owner = w
    <2>1. /\ TRUE <=> r.owner # NoOwner
          /\ progress[o] = r.done
      BY <1>2, QueueType, WorkersAssumption
    <2>2. /\ Lifecycle!Update(o, r.status, TRUE, r.done)
          /\ \A p \in Ops \ {o} : row'[p] = row[p]
          /\ row'[o].owner = r.owner
      BY <1>1, <1>2, <2>1, MappedUpdate
    <2> QED BY <1>2, <2>1, <2>2
  <1>5. Lifecycle!TakeOver(o)
    BY <1>3, <1>4, QueueType DEF Lifecycle!TakeOver
  <1>6. OwnersStep(w, {})
    BY <1>4, WorkersAssumption DEF OwnersStep
  <1> QED BY <1>5, <1>6 DEF Lifecycle!Next

\* claim_next and the claim of a bound control: what the unique indexes admit,
\* the lifecycle does.
LEMMA ClaimStep ==
    ASSUME RowsOK, QueueInv, NEW w \in Workers, NEW o \in Ops, UNCHANGED <<receipts, short>>,
           NEW s, row[o].owner = NoOwner,
           \/ s = "CLAIMED" /\ row[o].status = "PENDING"
           \/ s \in ControlStates /\ row[o].status = s,
           ClaimLocked(o, w, s)
    PROVE  [Lifecycle!Next]_queueVars /\ OwnersStep(w, {})
  <1> DEFINE q == [row[o] EXCEPT !.status = s, !.started = TRUE]
             r == Leased(q, w)
  <1>0. q \in Rows /\ q.status = s /\ q.done = row[o].done
    BY DEF RowsOK, Rows, OperationStates, ControlStates
  <1>1. WriteAsOwner(o, r)
    BY DEF ClaimLocked
  <1> HIDE DEF q
  <1>2. /\ r \in Rows /\ r.status = s /\ r.done = row[o].done /\ r.owner = w
        /\ LeaseFits(r)
    BY <1>0, LeasedType, WorkersAssumption DEF LeaseFits, ControlStates
  <1> HIDE DEF r
  <1>4. /\ Lifecycle!Update(o, s, TRUE, progress[o])
        /\ \A p \in Ops \ {o} : row'[p] = row[p]
        /\ row'[o].owner = w
    <2>1. /\ TRUE <=> r.owner # NoOwner
          /\ progress[o] = r.done
      BY <1>2, QueueType, WorkersAssumption
    <2>2. /\ Lifecycle!Update(o, r.status, TRUE, r.done)
          /\ \A p \in Ops \ {o} : row'[p] = row[p]
          /\ row'[o].owner = r.owner
      BY <1>1, <1>2, <2>1, MappedUpdate
    <2> QED BY <1>2, <2>1, <2>2
  <1>5. ASSUME NEW p \in Ops, DatasetOf[p] = DatasetOf[o]
        PROVE  ~leases[p] /\ statuses[p] \notin Lifecycle!Executing
    <2>1. OwnerFits(statuses[p], leases[p], progress[p])
      BY DEF QueueInv
    <2>2. ~leases[p]
      <3>1. CASE p = o
        BY <3>1, QueueType
      <3>2. CASE p # o
        BY <1>5, <3>2, ActiveIsLeased, QueueType DEF ClaimLocked, UniqueIndexesAdmit
      <3> QED BY <3>1, <3>2
    <2> QED BY <2>1, <2>2 DEF OwnerFits, Lifecycle!Executing
  <1>6. ~Lifecycle!Busy(DatasetOf[o])
    BY <1>5 DEF Lifecycle!Busy
  <1>7. Lifecycle!Claim(o) \/ Lifecycle!HoldControl(o)
    BY <1>4, <1>6, QueueType DEF Lifecycle!Claim, Lifecycle!HoldControl, Lifecycle!Controls,
                                 ControlStates
  <1>8. OwnersStep(w, {})
    BY <1>4, WorkersAssumption DEF OwnersStep
  <1> QED BY <1>7, <1>8 DEF Lifecycle!Next

\* A write that keeps the owner or clears it gives nothing to anyone.
LEMMA KeptOrCleared ==
    ASSUME RowsOK, NEW w, NEW o \in Ops, NEW r,
           \A p \in Ops \ {o} : row'[p] = row[p],
           row'[o].status = r.status /\ row'[o].owner = r.owner,
           r.owner \in {row[o].owner, NoOwner}
    PROVE  /\ w \in Workers => NothingTaken(w)
           /\ OwnersStep(w, {o})
           /\ r.owner # NoOwner \/ row[o].owner = NoOwner \/ r.status = "FAILED" => OwnersStep(w, {})
  BY WorkersAssumption DEF NothingTaken, OwnersStep

\* create_idempotently.
LEMMA SubmitLifecycle ==
    ASSUME RowsOK, QueueInv, NEW o \in Ops, UNCHANGED <<receipts, short>>, Submit(o)
    PROVE  [Lifecycle!Next]_queueVars /\ OwnersStep(NoOwner, {})
  <1> DEFINE r == InState(row[o], "PENDING")
  <1>1. row[o] \in Rows /\ LeaseFits(row[o]) /\ row[o].status = "ABSENT"
    BY DEF Submit, RowsOK, LeasesFit
  <1>2. "PENDING" \in OperationStates /\ "PENDING" \in CLEAR_LEASE_STATES
    BY DEF OperationStates, CLEAR_LEASE_STATES
  <1>3. /\ r \in Rows /\ r.status = "PENDING" /\ r.done = row[o].done /\ LeaseFits(r)
        /\ r.owner = NoOwner
    BY <1>1, <1>2, InStateType DEF InState, Rows
  <1>4. WriteAsOther(o, r)
    BY DEF Submit
  <1> HIDE DEF r
  <1>5. OwnerFits(statuses[o], leases[o], progress[o])
    BY DEF QueueInv
  <1>6. row[o].owner = NoOwner /\ row[o].done = 0 /\ statuses[o] = "ABSENT"
    BY <1>1, <1>5, QueueType DEF OwnerFits
  <1>7. FALSE <=> r.owner # NoOwner
    BY <1>3
  <1>8. /\ Lifecycle!Update(o, r.status, FALSE, r.done)
        /\ \A p \in Ops \ {o} : row'[p] = row[p]
        /\ row'[o].status = r.status /\ row'[o].owner = r.owner
    BY <1>3, <1>4, <1>7, MappedUpdate
  <1>9. Lifecycle!Insert(o)
    BY <1>3, <1>6, <1>8 DEF Lifecycle!Insert
  <1>10. OwnersStep(NoOwner, {})
    BY <1>3, <1>6, <1>8, KeptOrCleared
  <1> QED BY <1>9, <1>10 DEF Lifecycle!Next

\* pause, cancel and resume ask of a row what its state allows.
LEMMA RequestLifecycle ==
    ASSUME RowsOK, QueueInv, NEW o \in Ops, UNCHANGED <<receipts, short>>,
           NEW t \in {"PENDING"} \cup ControlStates, RequestControl(o, t)
    PROVE  [Lifecycle!Next]_queueVars /\ OwnersStep(NoOwner, {})
  <1> DEFINE r == InState(row[o], t)
  <1>1. /\ row[o] \in Rows /\ LeaseFits(row[o])
        /\ t \in NormalTransitions(row[o].status) /\ t \in OperationStates
    BY TransitionsType DEF RequestControl, RowsOK, LeasesFit
  <1>2. /\ r \in Rows /\ r.status = t /\ r.done = row[o].done /\ LeaseFits(r)
        /\ r.owner \in {row[o].owner, NoOwner}
    BY <1>1, InStateType
  <1>3. t \in ControlStates => r.owner = row[o].owner
    BY <1>1 DEF InState, CLEAR_LEASE_STATES, TERMINAL_OPERATION_STATES, ControlStates, Rows
  <1>4. WriteAsOther(o, r)
    BY DEF RequestControl
  <1> HIDE DEF r
  <1>5. OwnerFits(statuses[o], leases[o], progress[o])
    BY DEF QueueInv
  <1>6. \/ t = "PAUSE_REQUESTED" /\ row[o].status \in {"PENDING", "CLAIMED", "RUNNING"}
        \/ t = "CANCEL_REQUESTED" /\ row[o].status \in {"PENDING", "PAUSED", "CLAIMED", "RUNNING"}
        \/ t = "PENDING" /\ row[o].status = "PAUSED"
    BY <1>1, <1>2 DEF NormalTransitions, ControlStates
  <1>7. t = "PENDING" => row[o].owner = NoOwner
    BY <1>5, <1>6, QueueType DEF OwnerFits, CLEAR_LEASE_STATES, ControlStates
  <1>8. r.owner = row[o].owner
    BY <1>2, <1>3, <1>7
  <1>9. (leases[o] <=> r.owner # NoOwner) /\ leases[o] \in BOOLEAN
    BY <1>8, QueueType
  <1>10. /\ Lifecycle!Update(o, r.status, leases[o], r.done)
         /\ \A p \in Ops \ {o} : row'[p] = row[p]
         /\ row'[o].status = r.status /\ row'[o].owner = r.owner
    BY <1>2, <1>4, <1>9, MappedUpdate
  <1>11. Lifecycle!Update(o, t, leases[o], progress[o]) /\ statuses[o] = row[o].status
    BY <1>2, <1>10, QueueType
  <1>12. Lifecycle!Request(o, t)
    BY <1>6, <1>11 DEF Lifecycle!Request, Lifecycle!Executing
  <1>13. OwnersStep(NoOwner, {})
    <2>1. r.owner # NoOwner \/ row[o].owner = NoOwner
      BY <1>8
    <2> QED BY <1>8, <1>10, <2>1, KeptOrCleared
  <1>14. t \in Lifecycle!Controls \cup {"PENDING"}
    BY DEF Lifecycle!Controls, ControlStates
  <1> QED BY <1>12, <1>13, <1>14 DEF Lifecycle!Next

\* settle_or_claim_next_unclaimed_control of a control nobody ever started.
LEMMA NeverStartedLifecycle ==
    ASSUME RowsOK, QueueInv, NEW w \in Workers, NEW o \in Ops, UNCHANGED <<receipts, short>>,
           SettleNeverStarted(o, w)
    PROVE  [Lifecycle!Next]_queueVars /\ OwnersStep(w, {}) /\ NothingTaken(w)
  <1> DEFINE t == IF row[o].status = "PAUSE_REQUESTED" THEN "PAUSED" ELSE "CANCELLED"
             r == InState(row[o], t)
  <1>1. /\ row[o] \in Rows /\ LeaseFits(row[o]) /\ row[o].owner = NoOwner
        /\ row[o].status \in ControlStates
    BY DEF SettleNeverStarted, NeverStartedControls, RowsOK, LeasesFit
  <1>2. /\ t \in OperationStates /\ t \in {"PAUSED"} \cup Lifecycle!Terminal
        /\ \/ t = "PAUSED" /\ row[o].status = "PAUSE_REQUESTED"
           \/ t = "CANCELLED" /\ row[o].status = "CANCEL_REQUESTED"
    BY <1>1 DEF OperationStates, TERMINAL_OPERATION_STATES, ControlStates, Lifecycle!Terminal
  <1>3. WriteAsOther(o, r)
    BY DEF SettleNeverStarted
  <1> HIDE DEF t
  <1>4. /\ r \in Rows /\ r.status = t /\ r.done = row[o].done /\ LeaseFits(r)
        /\ r.owner = NoOwner
    BY <1>1, <1>2, InStateType
  <1> HIDE DEF r
  <1>5. FALSE <=> r.owner # NoOwner
    BY <1>4
  <1>6. /\ Lifecycle!Update(o, r.status, FALSE, r.done)
        /\ \A p \in Ops \ {o} : row'[p] = row[p]
        /\ row'[o].status = r.status /\ row'[o].owner = r.owner
    BY <1>3, <1>4, <1>5, MappedUpdate
  <1>7. Lifecycle!Update(o, t, FALSE, progress[o]) /\ statuses[o] = row[o].status
    BY <1>4, <1>6, QueueType
  <1>8. Lifecycle!Acknowledge(o, t)
    BY <1>2, <1>7 DEF Lifecycle!Acknowledge
  <1>9. OwnersStep(w, {}) /\ NothingTaken(w)
    BY <1>1, <1>4, <1>6, KeptOrCleared
  <1> QED BY <1>2, <1>8, <1>9 DEF Lifecycle!Next

\* request_state, complete and fail by the owner.
LEMMA RequestStateLifecycle ==
    ASSUME RowsOK, QueueInv, NEW w \in Workers, NEW o \in Ops, UNCHANGED <<receipts, short>>,
           NEW t \in Goals, RequestState(o, w, t),
           t = "COMPLETED" => row[o].done = Chunks /\ receipts[o] = Chunks
    PROVE  /\ [Lifecycle!Next]_queueVars /\ NothingTaken(w) /\ OwnersStep(w, {o})
           /\ t \in {"RUNNING", "FAILED"} => OwnersStep(w, {})
  <1> DEFINE r == InState(row[o], t)
  <1>1. /\ row[o] \in Rows /\ LeaseFits(row[o]) /\ row[o].owner = w
        /\ t \in NormalTransitions(row[o].status)
    BY DEF RequestState, MayRequestState, MayWrite, RowsOK, LeasesFit
  <1>2. t \in OperationStates /\ t \in {"RUNNING", "PAUSED"} \cup Lifecycle!Terminal
    BY <1>1, TransitionsType
    DEF Goals, ReconcileTargets, TERMINAL_OPERATION_STATES, OperationStates, ControlStates,
        Lifecycle!Terminal
  <1>3. /\ t = "RUNNING" => row[o].status = "CLAIMED"
        /\ t = "COMPLETED" => row[o].status \in {"RUNNING"} \cup Lifecycle!Controls
        /\ t = "FAILED" => row[o].status \in Lifecycle!Executing \cup Lifecycle!Controls
        /\ t = "PAUSED" => row[o].status = "PAUSE_REQUESTED"
        /\ t = "CANCELLED" => row[o].status = "CANCEL_REQUESTED"
    BY <1>1 DEF NormalTransitions, ControlStates, Lifecycle!Controls, Lifecycle!Executing
  <1>4. /\ r \in Rows /\ r.status = t /\ r.done = row[o].done /\ LeaseFits(r)
        /\ r.owner \in {row[o].owner, NoOwner}
    BY <1>1, <1>2, InStateType
  <1>5. IF t = "RUNNING" THEN r.owner = w ELSE r.owner = NoOwner
    BY <1>1, <1>2 DEF InState, CLEAR_LEASE_STATES, TERMINAL_OPERATION_STATES, Rows,
                      Lifecycle!Terminal
  <1>6. WriteAsOwner(o, r)
    BY DEF RequestState
  <1> HIDE DEF r
  <1>7. (t = "RUNNING" <=> r.owner # NoOwner) /\ (t = "RUNNING") \in BOOLEAN
    BY <1>5, WorkersAssumption
  <1>8. /\ Lifecycle!Update(o, r.status, t = "RUNNING", r.done)
        /\ \A p \in Ops \ {o} : row'[p] = row[p]
        /\ row'[o].status = r.status /\ row'[o].owner = r.owner
    BY <1>4, <1>6, <1>7, MappedUpdate
  <1>9. /\ Lifecycle!Update(o, t, t = "RUNNING", progress[o])
        /\ statuses[o] = row[o].status /\ leases[o] /\ progress[o] = row[o].done
    BY <1>1, <1>4, <1>8, QueueType, WorkersAssumption
  <1>10. \/ Lifecycle!Start(o) \/ Lifecycle!Complete(o)
         \/ t \in {"PAUSED"} \cup Lifecycle!Terminal /\ Lifecycle!Acknowledge(o, t)
    <2>1. CASE t = "RUNNING"
      <3>1. Lifecycle!Update(o, "RUNNING", TRUE, progress[o])
        BY <1>9, <2>1
      <3> QED BY <1>3, <1>9, <2>1, <3>1 DEF Lifecycle!Start
    <2>2. CASE t = "COMPLETED"
      <3>1. Lifecycle!Update(o, "COMPLETED", FALSE, Chunks)
        BY <1>9, <2>2
      <3> QED BY <1>3, <1>9, <2>2, <3>1 DEF Lifecycle!Complete
    <2>3. CASE t \notin {"RUNNING", "COMPLETED"}
      <3>1. Lifecycle!Update(o, t, FALSE, progress[o])
        BY <1>9, <2>3
      <3> QED BY <1>2, <1>3, <1>9, <2>3, <3>1 DEF Lifecycle!Acknowledge, Lifecycle!Terminal
    <2> QED BY <2>1, <2>2, <2>3
  <1>11. NothingTaken(w) /\ OwnersStep(w, {o})
    BY <1>4, <1>8, KeptOrCleared
  <1>12. t \in {"RUNNING", "FAILED"} => OwnersStep(w, {})
    <2>1. t \in {"RUNNING", "FAILED"} => r.owner # NoOwner \/ r.status = "FAILED"
      BY <1>4, <1>5, WorkersAssumption
    <2> QED BY <1>4, <1>8, <2>1, KeptOrCleared
  <1> QED BY <1>10, <1>11, <1>12 DEF Lifecycle!Next

\* update_progress.
LEMMA ProgressLifecycle ==
    ASSUME RowsOK, QueueInv, NEW w \in Workers, NEW o \in Ops, UNCHANGED <<receipts, short>>,
           NEW n \in 0..Chunks, n <= receipts[o], UpdateProgress(o, w, n)
    PROVE  [Lifecycle!Next]_queueVars /\ NothingTaken(w) /\ OwnersStep(w, {})
  <1> DEFINE r == [row[o] EXCEPT !.done = n, !.bound = TRUE]
  <1>1. /\ row[o] \in Rows /\ LeaseFits(row[o]) /\ row[o].owner = w /\ row[o].done <= n
    BY ChunksAssumption DEF UpdateProgress, MayWrite, RowsOK, LeasesFit, Rows
  <1>2. /\ r \in Rows /\ r.status = row[o].status /\ r.done = n /\ r.owner = w /\ LeaseFits(r)
    BY <1>1, WorkersAssumption DEF Rows, LeaseFits
  <1>3. WriteAsOwner(o, r)
    BY DEF UpdateProgress
  <1> HIDE DEF r
  <1>4. TRUE <=> r.owner # NoOwner
    BY <1>2, WorkersAssumption
  <1>5. /\ Lifecycle!Update(o, r.status, TRUE, r.done)
        /\ \A p \in Ops \ {o} : row'[p] = row[p]
        /\ row'[o].status = r.status /\ row'[o].owner = r.owner
    BY <1>2, <1>3, <1>4, MappedUpdate
  <1>6. /\ Lifecycle!Update(o, statuses[o], TRUE, n)
        /\ leases[o] /\ progress[o] = row[o].done
    BY <1>1, <1>2, <1>5, QueueType, WorkersAssumption
  <1>7. Lifecycle!Publish(o, n)
    BY <1>1, <1>6 DEF Lifecycle!Publish
  <1>8. NothingTaken(w) /\ OwnersStep(w, {})
    <2>1. r.owner \in {row[o].owner, NoOwner} /\ r.owner # NoOwner
      BY <1>1, <1>2, WorkersAssumption
    <2> QED BY <1>5, <2>1, KeptOrCleared
  <1> QED BY <1>7, <1>8 DEF Lifecycle!Next

\* reconcile.
LEMMA ReconcileLifecycle ==
    ASSUME RowsOK, QueueInv, NEW w \in Workers, NEW o \in Ops, UNCHANGED <<receipts, short>>,
           NEW t, NEW n \in -1..Chunks, Reconcile(o, w, t, n),
           n <= receipts[o], row[o].done <= receipts[o], t = "COMPLETED" => n = Chunks
    PROVE  /\ [Lifecycle!Next]_queueVars /\ NothingTaken(w) /\ OwnersStep(w, {o})
           /\ t = "FAILED" => OwnersStep(w, {})
  <1> DEFINE m == IF n < 0 THEN row[o].done ELSE n
             q == IF n < 0 THEN row[o] ELSE [row[o] EXCEPT !.done = n, !.bound = TRUE]
             r == InState(q, t)
  <1>1. /\ row[o] \in Rows /\ LeaseFits(row[o]) /\ row[o].owner = w
        /\ row[o].status = "RECOVERING" /\ (n >= 0 => n >= row[o].done)
        /\ row[o].done \in 0..Chunks
    BY DEF Reconcile, MayReconcile, MayWrite, RowsOK, LeasesFit, Rows
  <1>2. /\ t \in {"RUNNING", "PAUSED"} \cup Lifecycle!Terminal /\ t \in OperationStates
    BY DEF Reconcile, ReconcileTargets, TERMINAL_OPERATION_STATES, OperationStates,
           Lifecycle!Terminal
  <1>3. /\ q \in Rows /\ LeaseFits(q) /\ q.owner = w /\ q.done = m
        /\ m \in 0..Chunks /\ row[o].done <= m /\ m <= receipts[o]
        /\ t = "COMPLETED" => m = Chunks
    <2>1. CASE n < 0
      BY <1>1, <2>1, ChunksAssumption
    <2>2. CASE ~(n < 0)
      <3>1. n \in 0..Chunks /\ m = n /\ q = [row[o] EXCEPT !.done = n, !.bound = TRUE]
        BY <2>2
      <3>2. /\ q \in Rows /\ q.owner = w /\ q.done = n
            /\ q.expired = row[o].expired /\ q.status = row[o].status
        BY <1>1, <3>1 DEF Rows
      <3>3. LeaseFits(q)
        BY <1>1, <3>2 DEF LeaseFits
      <3>4. row[o].done <= n /\ n <= receipts[o] /\ (t = "COMPLETED" => n = Chunks)
        BY <1>1, <3>1, ChunksAssumption
      <3> QED BY <3>1, <3>2, <3>3, <3>4
    <2> QED BY <2>1, <2>2
  <1>4. WriteAsOwner(o, r)
    BY DEF Reconcile
  <1> HIDE DEF m, q
  <1>5. /\ r \in Rows /\ r.status = t /\ r.done = m /\ LeaseFits(r)
        /\ r.owner \in {w, NoOwner}
    BY <1>2, <1>3, InStateType
  <1>6. IF t = "RUNNING" THEN r.owner = w ELSE r.owner = NoOwner
    BY <1>2, <1>3 DEF InState, CLEAR_LEASE_STATES, TERMINAL_OPERATION_STATES, Rows,
                      Lifecycle!Terminal
  <1> HIDE DEF r
  <1>7. (t = "RUNNING" <=> r.owner # NoOwner) /\ (t = "RUNNING") \in BOOLEAN
    BY <1>6, WorkersAssumption
  <1>8. /\ Lifecycle!Update(o, r.status, t = "RUNNING", r.done)
        /\ \A p \in Ops \ {o} : row'[p] = row[p]
        /\ row'[o].status = r.status /\ row'[o].owner = r.owner
    BY <1>4, <1>5, <1>7, MappedUpdate
  <1>9. /\ Lifecycle!Update(o, t, t = "RUNNING", m)
        /\ statuses[o] = "RECOVERING" /\ progress[o] = row[o].done
    BY <1>1, <1>5, <1>8, QueueType
  <1>10. Lifecycle!Resolve(o, t, m)
    BY <1>2, <1>3, <1>9 DEF Lifecycle!Resolve
  <1>11. NothingTaken(w) /\ OwnersStep(w, {o})
    BY <1>1, <1>5, <1>8, KeptOrCleared
  <1>12. t = "FAILED" => OwnersStep(w, {})
    BY <1>1, <1>5, <1>8, KeptOrCleared
  <1> QED BY <1>2, <1>3, <1>10, <1>11, <1>12 DEF Lifecycle!Next

\* A row that has ended stays as it ended.
LEMMA EndsStay ==
    ASSUME RowsOK, QueueInv, [Lifecycle!Next]_queueVars,
           NEW p \in Ops, statuses[p] \in TERMINAL_OPERATION_STATES
    PROVE  statuses'[p] = statuses[p]
  <1>1. CASE UNCHANGED queueVars
    BY <1>1 DEF queueVars
  <1>2. statuses \in [Ops -> OperationStates \cup {"ABSENT"}] /\ ~leases[p]
    BY QueueType DEF QueueInv, OwnerFits, CLEAR_LEASE_STATES, TERMINAL_OPERATION_STATES
  <1>3. ASSUME NEW o \in Ops, NEW s, NEW l, NEW n, Lifecycle!Update(o, s, l, n),
               o = p => s = statuses[p]
        PROVE  statuses'[p] = statuses[p]
    BY <1>2, <1>3 DEF Lifecycle!Update
  <1> SUFFICES ASSUME NEW o \in Ops,
                      \/ Lifecycle!Insert(o) \/ Lifecycle!Claim(o) \/ Lifecycle!HoldControl(o)
                      \/ Lifecycle!Start(o) \/ Lifecycle!Commit(o) \/ Lifecycle!Complete(o)
                      \/ Lifecycle!TakeOver(o)
                      \/ \E s \in Lifecycle!Controls \cup {"PENDING"} : Lifecycle!Request(o, s)
                      \/ \E s \in {"PAUSED"} \cup Lifecycle!Terminal : Lifecycle!Acknowledge(o, s)
                      \/ \E n \in 0..Chunks : Lifecycle!Publish(o, n)
                      \/ \E s \in {"RUNNING", "PAUSED"} \cup Lifecycle!Terminal, n \in 0..Chunks :
                            Lifecycle!Resolve(o, s, n)
               PROVE  statuses'[p] = statuses[p]
    BY <1>1 DEF Lifecycle!Next
  <1>4. CASE Lifecycle!Commit(o)
    BY <1>4 DEF Lifecycle!Commit
  <1>5. CASE \/ Lifecycle!Insert(o) \/ Lifecycle!Claim(o) \/ Lifecycle!HoldControl(o)
             \/ Lifecycle!Start(o) \/ Lifecycle!Complete(o) \/ Lifecycle!TakeOver(o)
    BY <1>2, <1>3, <1>5 DEF Lifecycle!Insert, Lifecycle!Claim, Lifecycle!HoldControl, Lifecycle!Start,
       Lifecycle!Complete, Lifecycle!TakeOver, Lifecycle!Controls, TERMINAL_OPERATION_STATES
  <1>6. ASSUME NEW s \in Lifecycle!Controls \cup {"PENDING"}, Lifecycle!Request(o, s)
        PROVE  statuses'[p] = statuses[p]
    BY <1>3, <1>6 DEF Lifecycle!Request, Lifecycle!Executing, TERMINAL_OPERATION_STATES
  <1>7. ASSUME NEW s \in {"PAUSED"} \cup Lifecycle!Terminal, Lifecycle!Acknowledge(o, s)
        PROVE  statuses'[p] = statuses[p]
    BY <1>2, <1>3, <1>7 DEF Lifecycle!Acknowledge, TERMINAL_OPERATION_STATES
  <1>8. ASSUME NEW n \in 0..Chunks, Lifecycle!Publish(o, n)
        PROVE  statuses'[p] = statuses[p]
    BY <1>2, <1>3, <1>8 DEF Lifecycle!Publish
  <1>9. ASSUME NEW s \in {"RUNNING", "PAUSED"} \cup Lifecycle!Terminal, NEW n \in 0..Chunks,
               Lifecycle!Resolve(o, s, n)
        PROVE  statuses'[p] = statuses[p]
    BY <1>3, <1>9 DEF Lifecycle!Resolve, TERMINAL_OPERATION_STATES
  <1> QED BY <1>4, <1>5, <1>6, <1>7, <1>8, <1>9

-----------------------------------------------------------------------------
(* What the sessions do *)

\* The local states of a job whose chunks are being fetched.
Executable == {"RUNNING"} \cup (IF CliControls THEN {"PAUSED", "CANCELLED"} ELSE {})

Past == {"verify", "fetch", "advance"}
RecoveryPoints == {"recover", "reconcile"}

LoopRuns(w) == wk[w].ctx = "loop" /\ wk[w].local < Chunks => job[Op(w)].status \in Executable
RecoversAlone(w) == wk[w].pc \in RecoveryPoints => wk[w].ctx = "none"

WorkInv == QueueInv /\ \A w \in Workers : LoopRuns(w) /\ RecoversAlone(w)

\* w holds the lease of its operation and has seen what became of the work
\* on it before; a recovery has once it found something to go on with.
KnowsRow(w) == /\ wk[w].pc \notin FreePoints \cup {"recover"}
               /\ ~(wk[w].pc = "reconcile" /\ wk[w].goal = "FAILED")
               /\ row[Op(w)].owner = w

\* Nobody is past a boundary of a row that nobody holds, unless it failed, nor
\* of one whose holder knows it, but that holder.
QuietInv == \A x \in Workers : wk[x].pc \in Past =>
                /\ row[Op(x)].owner = NoOwner => row[Op(x)].status = "FAILED"
                /\ \A w \in Workers \ {x} : Op(w) = Op(x) => ~KnowsRow(w)

\* No step of w stops a job under another executor.
JobsFrame(w) == \A o \in Ops : job[o].status \in Executable =>
                   job'[o].status \in Executable \/ flock[DatasetOf[o]] \in {w, NoOwner}

\* w goes past a boundary only with the lease.
Enters(w) == wk'[w].pc \in Past =>
                wk'[w].op = wk[w].op /\ (wk[w].pc \in Past \/ row'[Op(w)].owner = w)

\* w comes to know a row that nobody held, or whose job nobody runs.
Learns(w) == KnowsRow(w)' =>
                \/ KnowsRow(w) /\ wk'[w].op = wk[w].op
                \/ row[wk'[w].op].owner = NoOwner /\ row[wk'[w].op].status # "FAILED"
                \/ job[wk'[w].op].status # "RUNNING"

OwnSession(w) == LoopRuns(w)' /\ RecoversAlone(w)' /\ Enters(w) /\ Learns(w)

LetsGo(w) == {o \in Ops : o = Op(w) /\ KnowsRow(w) /\ wk[w].pc \notin Past}

\* What a step of w does for the queue, the job records and the sessions.
Works(w) == /\ [Lifecycle!Next]_queueVars
            /\ OwnersStep(w, LetsGo(w))
            /\ JobsFrame(w)
            /\ \A x \in Workers \ {w} : wk'[x] = wk[x]
            /\ w \in Workers => OwnSession(w)

\* A session that ends up with nothing in hand.
LEMMA RestingSession ==
    ASSUME NEW w \in Workers, wk'[w].pc \in FreePoints, wk'[w].ctx # "loop"
    PROVE  OwnSession(w)
  BY DEF OwnSession, LoopRuns, RecoversAlone, Enters, Learns, KnowsRow, FreePoints, Past,
         RecoveryPoints

\* A session that goes on with what it has in hand.
LEMMA StandingSession ==
    ASSUME NEW w \in Workers, NothingTaken(w), Op(w) \in Ops, wk'[w].op = wk[w].op,
           wk[w].pc \notin FreePoints \cup RecoveryPoints, wk'[w].pc \notin RecoveryPoints,
           LoopRuns(w)', wk'[w].pc \in Past => wk[w].pc \in Past \/ row'[Op(w)].owner = w
    PROVE  OwnSession(w)
  BY DEF OwnSession, RecoversAlone, Enters, Learns, KnowsRow, RecoveryPoints, NothingTaken, Op

LEMMA SameJobs == ASSUME NEW w, UNCHANGED job PROVE JobsFrame(w)
  BY DEF JobsFrame

\* A write of one job record.
LEMMA OneJob ==
    ASSUME EvidenceInv, NEW w, NEW o \in Ops, NEW j, job' = [job EXCEPT ![o] = j],
           \/ job[o].status \in Executable => j.status \in Executable
           \/ flock[DatasetOf[o]] \in {w, NoOwner}
    PROVE  JobsFrame(w)
  BY TypeFacts DEF FilesOK, JobsFrame

\* The executor, and nobody else, fails its job.
LEMMA OwnJobFails ==
    ASSUME EvidenceInv, NEW w \in Workers, wk[w].ctx = "loop", FailJob(Op(w))
    PROVE  JobsFrame(w)
  BY LoopFacts, OneJob DEF FailJob, Dataset

LEMMA FewerLetGo ==
    ASSUME NEW w, OwnersStep(w, {})
    PROVE  OwnersStep(w, LetsGo(w))
  BY DEF OwnersStep

\* What a session that becomes s is, and the others are.
LEMMA Becomes ==
    ASSUME EvidenceInv, NEW w \in Workers, NEW s, Become(w, s)
    PROVE  wk'[w] = s /\ \A x \in Workers \ {w} : wk'[x] = wk[x]
  BY TypeFacts DEF Become

\* A session that moves on has the same in hand.
LEMMA Goes ==
    ASSUME EvidenceInv, NEW w \in Workers, NEW pc \in Points, Go(w, pc)
    PROVE  /\ wk'[w].pc = pc /\ wk'[w].op = wk[w].op /\ wk'[w].ctx = wk[w].ctx
           /\ wk'[w].goal = wk[w].goal /\ wk'[w].local = wk[w].local
           /\ \A x \in Workers \ {w} : wk'[x] = wk[x]
  BY TypeFacts, GoStep DEF SessionsStep

\* A step that leaves the rows alone.
LEMMA RowsAlone ==
    ASSUME EvidenceInv, NEW w \in Workers, UNCHANGED <<row, receipts, short>>
    PROVE  /\ [Lifecycle!Next]_queueVars /\ OwnersStep(w, LetsGo(w)) /\ NothingTaken(w)
           /\ \A o \in Ops : row'[o].owner = row[o].owner
  BY TypeFacts, QuietRows, FewerLetGo

\* The end of a process leaves its leases to expire.
LEMMA EndsWork ==
    ASSUME EvidenceInv, NEW w \in Workers, EndProcess(w), UNCHANGED <<receipts, short>>, JobsFrame(w)
    PROVE  Works(w)
  <1>1. wk'[w] = AtRest("down") /\ \A x \in Workers \ {w} : wk'[x] = wk[x]
    BY Becomes DEF EndProcess
  <1>2. OwnSession(w)
    BY <1>1, RestingSession DEF AtRest, Holding, FreePoints
  <1>3. [Lifecycle!Next]_queueVars /\ OwnersStep(w, LetsGo(w))
    BY TypeFacts, QuietRows, FewerLetGo DEF EndProcess
  <1> QED BY <1>1, <1>2, <1>3 DEF Works

LEMMA ExitWorks == ASSUME EvidenceInv, NEW w \in Workers, Exit(w) PROVE Works(w)
  BY EndsWork, SameJobs DEF Exit

LEMMA LostWorks == ASSUME EvidenceInv, NEW w \in Workers, Lost(w) PROVE Works(w)
  <1>1. JobsFrame(w)
    BY SameJobs, OwnJobFails DEF Lost, InExecutor
  <1> QED BY <1>1, EndsWork DEF Lost

\* A failure is settled by a session that still has its operation in hand.
LEMMA FailureWorks ==
    ASSUME EvidenceInv, NEW w \in Workers, wk[w].pc \notin FreePoints \cup RecoveryPoints,
           ToFailure(w), UNCHANGED <<row, receipts, short>>, JobsFrame(w)
    PROVE  Works(w)
  <1>1. wk[w] \in Sessions /\ Op(w) \in Ops
    BY BusyFacts
  <1>2. /\ wk'[w].pc = "poll" /\ wk'[w].ctx = "failure" /\ wk'[w].op = wk[w].op
        /\ \A x \in Workers \ {w} : wk'[x] = wk[x]
    <2> DEFINE s == [wk[w] EXCEPT !.pc = "poll", !.ctx = "failure", !.goal = "none"]
    <2>1. s.pc = "poll" /\ s.ctx = "failure" /\ s.op = wk[w].op
      BY <1>1 DEF Sessions
    <2>2. Become(w, s)
      BY DEF ToFailure
    <2> HIDE DEF s
    <2> QED BY <2>1, <2>2, Becomes
  <1>3. OwnSession(w)
    BY <1>1, <1>2, RowsAlone, StandingSession DEF LoopRuns, Past, RecoveryPoints
  <1> QED BY <1>2, <1>3, RowsAlone DEF Works

\* The chunk loop is no recovery.
LEMMA LoopPoints ==
    ASSUME EvidenceInv, WorkInv, NEW w \in Workers, wk[w].ctx = "loop"
    PROVE  wk[w].pc \notin FreePoints \cup RecoveryPoints /\ wk[w] \in Sessions /\ Op(w) \in Ops
  BY LoopFacts DEF WorkInv, RecoversAlone

LEMMA ExecutorFailsWorks ==
    ASSUME EvidenceInv, WorkInv, NEW w \in Workers, wk[w].ctx = "loop", ExecutorFails(w)
    PROVE  Works(w)
  BY LoopPoints, OwnJobFails, FailureWorks DEF ExecutorFails

LEMMA BootWorks == ASSUME EvidenceInv, NEW w \in Workers, Boot(w) PROVE Works(w)
  <1>1. wk'[w] = AtRest("idle") /\ \A x \in Workers \ {w} : wk'[x] = wk[x]
    BY Becomes DEF Boot
  <1>2. OwnSession(w)
    BY <1>1, RestingSession DEF AtRest, Holding, FreePoints
  <1> QED BY <1>1, <1>2, RowsAlone, SameJobs DEF Works, Boot

\* recover_abandoned leaves the jobs of locked datasets alone.
LEMMA RecoverAbandonedWorks ==
    ASSUME EvidenceInv, NEW w \in Workers, RecoverAbandoned(w)
    PROVE  Works(w)
  <1>1. JobsFrame(w)
    BY DEF RecoverAbandoned, JobsFrame, Abandoned, LockFree
  <1>2. /\ wk'[w].pc = "claimExpired" /\ wk'[w].ctx = wk[w].ctx
        /\ \A x \in Workers \ {w} : wk'[x] = wk[x]
    BY Goes DEF RecoverAbandoned, Points
  <1>3. wk[w].ctx # "loop"
    BY LoopFacts DEF RecoverAbandoned, At, FreePoints
  <1>4. OwnSession(w)
    BY <1>2, <1>3, RestingSession DEF FreePoints
  <1> QED BY <1>1, <1>2, <1>4, RowsAlone DEF Works, RecoverAbandoned

\* A taken-over operation is not known yet.
LEMMA ClaimExpiredWorks ==
    ASSUME EvidenceInv, WorkInv, NEW w \in Workers, ClaimExpired(w)
    PROVE  Works(w)
  <1>1. CASE NothingToRecover(w) /\ Go(w, "claimControl") /\ UNCHANGED <<row, job, receipts, short, flock>>
    <2>1. /\ wk'[w].pc = "claimControl" /\ wk'[w].ctx = wk[w].ctx
          /\ \A x \in Workers \ {w} : wk'[x] = wk[x]
      BY <1>1, Goes DEF Points
    <2>2. wk[w].ctx # "loop"
      BY LoopFacts DEF ClaimExpired, At, FreePoints
    <2>3. OwnSession(w)
      BY <2>1, <2>2, RestingSession DEF FreePoints
    <2> QED BY <1>1, <2>1, <2>3, RowsAlone, SameJobs DEF Works
  <1>2. ASSUME NEW o \in Ops, ClaimNextExpired(o, w), Become(w, Holding("recover", o, row[o].status)),
               UNCHANGED <<job, receipts, short, flock>>
        PROVE  Works(w)
    <2>1. /\ wk'[w].pc = "recover" /\ wk'[w].ctx = "none"
          /\ \A x \in Workers \ {w} : wk'[x] = wk[x]
      BY <1>2, Becomes DEF Holding
    <2>2. OwnSession(w)
      BY <2>1 DEF OwnSession, LoopRuns, RecoversAlone, Enters, Learns, KnowsRow, Past
    <2>3. [Lifecycle!Next]_queueVars /\ OwnersStep(w, LetsGo(w))
      BY <1>2, TypeFacts, TakeOverStep, FewerLetGo DEF WorkInv
    <2> QED BY <1>2, <2>1, <2>2, <2>3, SameJobs DEF Works
  <1> QED BY <1>1, <1>2 DEF ClaimExpired

\* A locked candidate is not leased yet.
LEMMA LockWorks ==
    ASSUME EvidenceInv, NEW w \in Workers, NEW o \in Ops, NEW pc \in LockPoints,
           wk[w].pc \in FreePoints, row[o].owner = NoOwner, UNCHANGED <<job, receipts, short, flock>>,
           LockRow(o, w), Become(w, [wk[w] EXCEPT !.pc = pc, !.op = o])
    PROVE  Works(w)
  <1>1. wk[w] \in Sessions /\ wk[w].ctx # "loop"
    BY TypeFacts, LoopFacts
  <1>2. /\ wk'[w].pc = pc /\ wk'[w].op = o /\ wk'[w].ctx = wk[w].ctx
        /\ \A x \in Workers \ {w} : wk'[x] = wk[x]
    <2> DEFINE s == [wk[w] EXCEPT !.pc = pc, !.op = o]
    <2>1. s.pc = pc /\ s.op = o /\ s.ctx = wk[w].ctx
      BY <1>1 DEF Sessions
    <2>2. Become(w, s)
      OBVIOUS
    <2> HIDE DEF s
    <2> QED BY <2>1, <2>2, Becomes
  <1>3. [Lifecycle!Next]_queueVars /\ OwnersStep(w, LetsGo(w)) /\ NothingTaken(w)
    BY TypeFacts, QuietRows, FewerLetGo
  <1>4. row'[o].owner # w
    BY <1>3, WorkersAssumption DEF NothingTaken
  <1>5. OwnSession(w)
    BY <1>1, <1>2, <1>4 DEF OwnSession, LoopRuns, RecoversAlone, Enters, Learns, KnowsRow, Past,
                            RecoveryPoints, LockPoints, Op
  <1> QED BY <1>2, <1>3, <1>5, SameJobs DEF Works

LEMMA SelectWorks ==
    ASSUME EvidenceInv, WorkInv, NEW w \in Workers, SelectControl(w) \/ SelectPending(w)
    PROVE  Works(w)
  <1>1. wk[w].pc \in FreePoints /\ UNCHANGED <<job, receipts, short, flock>>
    BY DEF SelectControl, SelectPending, At, FreePoints
  <1>2. ASSUME NEW pc \in FreePoints, Become(w, AtRest(pc)),
               [Lifecycle!Next]_queueVars, OwnersStep(w, LetsGo(w))
        PROVE  Works(w)
    <2>1. wk'[w] = AtRest(pc) /\ \A x \in Workers \ {w} : wk'[x] = wk[x]
      BY <1>2, Becomes
    <2>2. OwnSession(w)
      BY <2>1, RestingSession DEF AtRest, Holding
    <2> QED BY <1>1, <1>2, <2>1, <2>2, SameJobs DEF Works
  <1>3. ASSUME NEW o \in Ops, SettleNeverStarted(o, w), Become(w, AtRest("idle"))
        PROVE  Works(w)
    <2>1. [Lifecycle!Next]_queueVars /\ OwnersStep(w, LetsGo(w))
      BY <1>1, <1>3, TypeFacts, NeverStartedLifecycle, FewerLetGo DEF WorkInv
    <2> QED BY <1>2, <1>3, <2>1 DEF FreePoints
  <1>4. ASSUME NEW o \in Ops, NEW pc \in LockPoints, row[o].owner = NoOwner, LockRow(o, w),
               Become(w, [wk[w] EXCEPT !.pc = pc, !.op = o])
        PROVE  Works(w)
    BY <1>1, <1>4, LockWorks
  <1>5. ASSUME NEW pc \in FreePoints, Become(w, AtRest(pc)), UNCHANGED row
        PROVE  Works(w)
    BY <1>1, <1>2, <1>5, RowsAlone
  <1>6. CASE SelectControl(w)
    <2>1. \/ \E o \in NeverStartedControls : SettleNeverStarted(o, w) /\ Become(w, AtRest("idle"))
          \/ \E o \in BoundControls(w) :
                LockRow(o, w) /\ Become(w, [wk[w] EXCEPT !.pc = "controlRow", !.op = o])
          \/ Become(w, AtRest("claimNext")) /\ UNCHANGED row
      BY <1>6 DEF SelectControl
    <2> QED BY <1>3, <1>4, <1>5, <2>1 DEF NeverStartedControls, BoundControls, LockPoints, FreePoints
  <1>7. CASE SelectPending(w)
    <2>1. \/ \E o \in PendingCandidates(w) :
                LockRow(o, w) /\ Become(w, [wk[w] EXCEPT !.pc = "claimRow", !.op = o])
          \/ Become(w, AtRest("idle")) /\ UNCHANGED row
      BY <1>7 DEF SelectPending
    <2>2. ASSUME NEW o \in PendingCandidates(w) PROVE o \in Ops /\ row[o].owner = NoOwner
      <3>1. o \in Ops /\ row[o].status = "PENDING"
        BY DEF PendingCandidates
      <3> QED BY <3>1, TypeFacts DEF RowsOK, LeasesFit, LeaseFits
    <2> QED BY <1>4, <1>5, <2>1, <2>2 DEF LockPoints, FreePoints
  <1> QED BY <1>6, <1>7

\* A claim takes what nobody holds.
LEMMA WriteClaimWorks ==
    ASSUME EvidenceInv, WorkInv, NEW w \in Workers, ClaimPending(w) \/ ClaimControl(w)
    PROVE  Works(w)
  <1>1. /\ wk[w].pc \in LockPoints /\ Op(w) \in Ops /\ row[Op(w)].owner = NoOwner
        /\ row[Op(w)].status \in (IF At(w, "claimRow") THEN {"PENDING"} ELSE ControlStates)
    <2>1. wk[w].pc \in LockPoints /\ wk[w].pc \notin FreePoints
      BY DEF ClaimPending, ClaimControl, At, LockPoints, FreePoints
    <2> QED BY <2>1, BusyFacts DEF EvidenceInv, SessionInv, HoldsRowLock
  <1>2. ASSUME NEW again \in FreePoints, NEW s, NEW pc \in {"start", "settleControl"},
               \/ s = "CLAIMED" /\ row[Op(w)].status = "PENDING"
               \/ s \in ControlStates /\ row[Op(w)].status = s,
               WriteClaim(w, again, s, pc)
        PROVE  Works(w)
    <2>1. CASE /\ ClaimLocked(Op(w), w, s) /\ Become(w, Holding(pc, Op(w), s))
               /\ UNCHANGED <<job, receipts, short, flock>>
      <3>1. /\ wk'[w].pc = pc /\ wk'[w].op = Op(w) /\ wk'[w].ctx = "none"
            /\ \A x \in Workers \ {w} : wk'[x] = wk[x]
        BY <2>1, Becomes DEF Holding
      <3>2. [Lifecycle!Next]_queueVars /\ OwnersStep(w, LetsGo(w))
        BY <1>1, <1>2, <2>1, TypeFacts, ClaimStep, FewerLetGo DEF WorkInv
      <3>3. row[Op(w)].status # "FAILED"
        BY <1>2 DEF ControlStates
      <3>4. OwnSession(w)
        BY <1>1, <3>1, <3>3 DEF OwnSession, LoopRuns, RecoversAlone, Enters, Learns, Past,
                                RecoveryPoints
      <3> QED BY <2>1, <3>1, <3>2, <3>4, SameJobs DEF Works
    <2>2. CASE /\ UnlockRow(Op(w)) /\ Become(w, [AtRest(again) EXCEPT !.ctx = "retry"])
               /\ UNCHANGED <<job, receipts, short, flock>>
      <3>1. /\ wk'[w].pc = again /\ wk'[w].ctx = "retry"
            /\ \A x \in Workers \ {w} : wk'[x] = wk[x]
        BY <2>2, Becomes DEF AtRest, Holding
      <3>2. OwnSession(w)
        BY <3>1, RestingSession
      <3>3. [Lifecycle!Next]_queueVars /\ OwnersStep(w, LetsGo(w))
        BY <1>1, <2>2, TypeFacts, QuietRows, FewerLetGo
      <3> QED BY <2>2, <3>1, <3>2, <3>3, SameJobs DEF Works
    <2>3. CASE Exit(w)
      BY <2>3, ExitWorks
    <2> QED BY <1>2, <2>1, <2>2, <2>3 DEF WriteClaim
  <1>3. CASE ClaimPending(w)
    BY <1>1, <1>2, <1>3 DEF ClaimPending, FreePoints
  <1>4. CASE ClaimControl(w)
    <2>1. row[Op(w)].status \in ControlStates
      BY <1>1, <1>4 DEF ClaimControl, At
    <2> QED BY <1>2, <1>4, <2>1 DEF ClaimControl, FreePoints
  <1> QED BY <1>3, <1>4

\* A write of the row in hand by a session that goes on outside the loop.
LEMMA HeldWorks ==
    ASSUME EvidenceInv, NEW w \in Workers, wk[w].pc \notin FreePoints \cup RecoveryPoints,
           [Lifecycle!Next]_queueVars, NothingTaken(w), OwnersStep(w, {}), JobsFrame(w),
           \A x \in Workers \ {w} : wk'[x] = wk[x],
           wk'[w].op = wk[w].op, wk'[w].ctx # "loop", wk'[w].pc \notin Past \cup RecoveryPoints
    PROVE  Works(w)
  <1>1. Op(w) \in Ops
    BY BusyFacts
  <1>2. OwnSession(w)
    BY <1>1, StandingSession DEF LoopRuns
  <1> QED BY <1>2, FewerLetGo DEF Works

LEMMA StartWorks ==
    ASSUME EvidenceInv, WorkInv, NEW w \in Workers, Start(w)
    PROVE  Works(w)
  <1>1. wk[w].pc = "start" /\ Op(w) \in Ops
    BY BusyFacts DEF Start, At, FreePoints
  <1>2. CASE /\ RequestState(Op(w), w, "RUNNING") /\ Become(w, Holding("execute", Op(w), "none"))
             /\ UNCHANGED <<job, receipts, short, flock>>
    <2>1. "RUNNING" \in Goals
      BY DEF Goals, ReconcileTargets
    <2>2. [Lifecycle!Next]_queueVars /\ NothingTaken(w) /\ OwnersStep(w, {})
      BY <1>1, <1>2, <2>1, TypeFacts, RequestStateLifecycle DEF WorkInv
    <2>3. /\ wk'[w].pc = "execute" /\ wk'[w].op = wk[w].op /\ wk'[w].ctx = "none"
          /\ \A x \in Workers \ {w} : wk'[x] = wk[x]
      BY <1>2, Becomes DEF Holding, Op
    <2> QED BY <1>1, <1>2, <2>2, <2>3, SameJobs, HeldWorks DEF FreePoints, RecoveryPoints, Past
  <1>3. CASE Lost(w)
    BY <1>3, LostWorks
  <1> QED BY <1>2, <1>3 DEF Start

\* _execute_operation up to the flock touches no job that runs.
LEMMA ExecuteWorks ==
    ASSUME EvidenceInv, NEW w \in Workers, Execute(w)
    PROVE  Works(w)
  <1>1. /\ wk[w].pc = "execute" /\ wk[w].pc \notin FreePoints \cup RecoveryPoints
        /\ UNCHANGED <<row, receipts, short, flock>>
    BY DEF Execute, At, FreePoints, RecoveryPoints
  <1>2. wk[w] \in Sessions /\ Op(w) \in Ops /\ wk[w].ctx # "loop"
    BY <1>1, BusyFacts, OutsideLoop
  <1>3. JobsFrame(w)
    <2>1. CASE UNCHANGED job
      BY <2>1, SameJobs
    <2>2. CASE job[Op(w)].status \in {"NONE", "PLANNED"} /\ SetJob(Op(w), "PLANNED")
      <3>1. job[Op(w)].status \notin Executable
        BY <2>2 DEF Executable
      <3> QED BY <1>2, <2>2, <3>1, TypeFacts DEF SetJob, FilesOK, JobsFrame
    <2> QED BY <2>1, <2>2 DEF Execute
  <1>4. CASE ToFailure(w)
    BY <1>1, <1>3, <1>4, FailureWorks
  <1>5. CASE Go(w, "acquire")
    <2>1. /\ wk'[w].pc = "acquire" /\ wk'[w].op = wk[w].op /\ wk'[w].ctx = wk[w].ctx
          /\ \A x \in Workers \ {w} : wk'[x] = wk[x]
      BY <1>5, Goes DEF Points
    <2>2. [Lifecycle!Next]_queueVars /\ NothingTaken(w) /\ OwnersStep(w, {})
      BY <1>1, TypeFacts, QuietRows
    <2> QED BY <1>1, <1>2, <1>3, <2>1, <2>2, HeldWorks DEF Past, RecoveryPoints
  <1>6. CASE Become(w, [wk[w] EXCEPT !.pc = "ckptRead", !.ctx = "settle", !.local = job[Op(w)].next])
    <2> DEFINE s == [wk[w] EXCEPT !.pc = "ckptRead", !.ctx = "settle", !.local = job[Op(w)].next]
    <2>1. s.pc = "ckptRead" /\ s.ctx = "settle" /\ s.op = wk[w].op
      BY <1>2 DEF Sessions
    <2>2. Become(w, s)
      BY <1>6
    <2> HIDE DEF s
    <2>3. wk'[w] = s /\ \A x \in Workers \ {w} : wk'[x] = wk[x]
      BY <2>2, Becomes
    <2>4. [Lifecycle!Next]_queueVars /\ NothingTaken(w) /\ OwnersStep(w, {})
      BY <1>1, TypeFacts, QuietRows
    <2> QED BY <1>1, <1>2, <1>3, <2>1, <2>3, <2>4, HeldWorks DEF Past, RecoveryPoints
  <1> QED BY <1>4, <1>5, <1>6 DEF Execute

\* The flock comes before jobs.start.
LEMMA AcquireWorks ==
    ASSUME EvidenceInv, NEW w \in Workers, Acquire(w)
    PROVE  Works(w)
  <1>1. /\ wk[w].pc = "acquire" /\ wk[w].pc \notin FreePoints \cup RecoveryPoints
        /\ UNCHANGED <<row, receipts, short>>
    BY DEF Acquire, At, FreePoints, RecoveryPoints
  <1>2. wk[w] \in Sessions /\ Op(w) \in Ops /\ Op(w) = wk[w].op
    BY <1>1, BusyFacts DEF Op
  <1>3. CASE ToFailure(w) /\ UNCHANGED <<job, flock>>
    BY <1>1, <1>3, SameJobs, FailureWorks
  <1>4. CASE /\ LockFree(Dataset(w)) /\ SetJob(Op(w), "RUNNING")
             /\ Become(w, [wk[w] EXCEPT !.pc = "boundary", !.ctx = "loop", !.local = job[Op(w)].next])
    <2> DEFINE s == [wk[w] EXCEPT !.pc = "boundary", !.ctx = "loop", !.local = job[Op(w)].next]
    <2>1. s.pc = "boundary" /\ s.ctx = "loop" /\ s.op = wk[w].op
      BY <1>2 DEF Sessions
    <2>2. Become(w, s)
      BY <1>4
    <2> HIDE DEF s
    <2>3. wk'[w] = s /\ \A x \in Workers \ {w} : wk'[x] = wk[x]
      BY <2>2, Becomes
    <2>4. JobsFrame(w) /\ job'[Op(w)].status = "RUNNING"
      BY <1>2, <1>4, TypeFacts DEF SetJob, FilesOK, JobsFrame, LockFree, Dataset, Jobs
    <2>5. LoopRuns(w)'
      BY <1>2, <2>1, <2>3, <2>4 DEF LoopRuns, Executable, Op
    <2>6. OwnSession(w)
      BY <1>1, <1>2, <2>1, <2>3, <2>5, RowsAlone, StandingSession DEF Past, RecoveryPoints
    <2> QED BY <1>1, <2>3, <2>4, <2>6, RowsAlone DEF Works
  <1> QED BY <1>3, <1>4 DEF Acquire

\* A session that moves on with the record it has.
LEMMA GoWorks ==
    ASSUME EvidenceInv, WorkInv, NEW w \in Workers, wk[w].pc \notin FreePoints \cup RecoveryPoints,
           NEW pc \in Points \ RecoveryPoints, Go(w, pc), UNCHANGED job,
           [Lifecycle!Next]_queueVars, NothingTaken(w), OwnersStep(w, {}),
           pc \in Past => wk[w].pc \in Past \/ row'[Op(w)].owner = w
    PROVE  Works(w)
  <1>1. /\ wk'[w].pc = pc /\ wk'[w].op = wk[w].op /\ wk'[w].ctx = wk[w].ctx
        /\ wk'[w].local = wk[w].local /\ \A x \in Workers \ {w} : wk'[x] = wk[x]
    BY Goes
  <1>2. LoopRuns(w)'
    BY <1>1 DEF WorkInv, LoopRuns, Op
  <1>3. Op(w) \in Ops
    BY BusyFacts
  <1>4. OwnSession(w)
    BY <1>1, <1>2, <1>3, StandingSession
  <1> QED BY <1>1, <1>4, SameJobs, FewerLetGo DEF Works

\* The executor stops: the lock goes, the operation stays in hand.
LEMMA InterruptedWorks ==
    ASSUME EvidenceInv, WorkInv, NEW w \in Workers, wk[w].ctx = "loop",
           NEW c \in {"paused", "cancelled"}, Interrupted(w, c), UNCHANGED <<row, receipts, short>>,
           JobsFrame(w)
    PROVE  Works(w)
  <1> DEFINE s == [wk[w] EXCEPT !.pc = "poll", !.ctx = c, !.goal = "none"]
  <1>1. wk[w].pc \notin FreePoints \cup RecoveryPoints /\ wk[w] \in Sessions
    BY LoopPoints
  <1>2. s.pc = "poll" /\ s.ctx = c /\ s.op = wk[w].op
    BY <1>1 DEF Sessions
  <1>3. Become(w, s)
    BY DEF Interrupted
  <1> HIDE DEF s
  <1>4. wk'[w] = s /\ \A x \in Workers \ {w} : wk'[x] = wk[x]
    BY <1>3, Becomes
  <1>5. [Lifecycle!Next]_queueVars /\ NothingTaken(w) /\ OwnersStep(w, {})
    BY TypeFacts, QuietRows
  <1> QED BY <1>1, <1>2, <1>4, <1>5, HeldWorks DEF Past, RecoveryPoints

LEMMA BoundaryWorks ==
    ASSUME EvidenceInv, WorkInv, NEW w \in Workers, Boundary(w)
    PROVE  Works(w)
  <1>1. wk[w].ctx = "loop" /\ wk[w].pc \notin FreePoints \cup RecoveryPoints
    BY ChunkPointFacts, LoopPoints DEF Boundary, At, ChunkPoints
  <1>2. [Lifecycle!Next]_queueVars /\ NothingTaken(w) /\ OwnersStep(w, {}) /\ UNCHANGED job
    BY TypeFacts, QuietRows DEF Boundary
  <1>3. CASE Interrupted(w, InterruptedAs(job[Op(w)].status))
    BY <1>1, <1>2, <1>3, InterruptedWorks, SameJobs DEF Boundary, InterruptedAs
  <1>4. CASE Go(w, "poll")
    BY <1>1, <1>2, <1>4, GoWorks DEF Points, RecoveryPoints, Past
  <1> QED BY <1>3, <1>4 DEF Boundary

LEMMA ApplyControlWorks ==
    ASSUME EvidenceInv, WorkInv, NEW w \in Workers, ApplyControl(w)
    PROVE  Works(w)
  <1>1. wk[w].ctx = "loop"
    BY ChunkPointFacts DEF ApplyControl, At, ChunkPoints
  <1>2. CASE /\ SetJob(Op(w), wk[w].goal) /\ Interrupted(w, InterruptedAs(wk[w].goal))
             /\ UNCHANGED <<row, receipts, short>>
    <2>1. JobsFrame(w)
      BY <1>1, <1>2, LoopFacts, OneJob DEF SetJob, Dataset
    <2> QED BY <1>1, <1>2, <2>1, InterruptedWorks DEF InterruptedAs
  <1>3. CASE ExecutorFails(w)
    BY <1>1, <1>3, ExecutorFailsWorks
  <1> QED BY <1>2, <1>3 DEF ApplyControl

LEMMA VerifyWorks ==
    ASSUME EvidenceInv, WorkInv, NEW w \in Workers, Verify(w)
    PROVE  Works(w)
  <1>1. wk[w].pc \in Past /\ wk[w].pc \notin FreePoints \cup RecoveryPoints
    BY DEF Verify, At, Past, FreePoints, RecoveryPoints
  <1>2. [Lifecycle!Next]_queueVars /\ NothingTaken(w) /\ OwnersStep(w, {}) /\ UNCHANGED job
    BY TypeFacts, QuietRows DEF Verify
  <1> QED BY <1>1, <1>2, GoWorks DEF Verify, Points, RecoveryPoints

\* ingest commits one more chunk of an operation.
LEMMA FetchWorks ==
    ASSUME EvidenceInv, WorkInv, NEW w \in Workers, Fetch(w)
    PROVE  Works(w)
  <1>1. /\ wk[w].ctx = "loop" /\ wk[w].pc = "fetch" /\ wk[w].local < Chunks
        /\ wk[w].pc \notin FreePoints \cup RecoveryPoints /\ Op(w) \in Ops
    BY ChunkPointFacts, LoopPoints DEF Fetch, At, ChunkPoints
  <1>2. CASE ExecutorFails(w)
    BY <1>1, <1>2, ExecutorFailsWorks
  <1>3. CASE /\ receipts[Op(w)] = wk[w].local
             /\ receipts' = [receipts EXCEPT ![Op(w)] = wk[w].local + 1] /\ Go(w, "advance")
             /\ UNCHANGED <<row, job, flock>>
    <2>1. receipts[Op(w)] = wk[w].local
      BY <1>3
    <2>2. Lifecycle!Commit(Op(w))
      BY <1>1, <1>3, <2>1 DEF Lifecycle!Commit, statuses, leases, progress
    <2>3. NothingTaken(w) /\ OwnersStep(w, {})
      BY <1>3 DEF NothingTaken, OwnersStep
    <2>4. [Lifecycle!Next]_queueVars
      BY <1>1, <2>2 DEF Lifecycle!Next
    <2> QED BY <1>1, <1>3, <2>3, <2>4, GoWorks DEF Points, RecoveryPoints, Past
  <1> QED BY <1>2, <1>3 DEF Fetch

\* advance moves the job under its own lock.
LEMMA AdvanceWorks ==
    ASSUME EvidenceInv, WorkInv, NEW w \in Workers, Advance(w)
    PROVE  Works(w)
  <1>1. /\ wk[w].ctx = "loop" /\ wk[w].local < Chunks /\ wk[w] \in Sessions
        /\ wk[w].pc \notin FreePoints \cup RecoveryPoints /\ Op(w) \in Ops /\ Op(w) = wk[w].op
    BY ChunkPointFacts, LoopPoints DEF Advance, At, ChunkPoints, Op
  <1>2. CASE ExecutorFails(w)
    BY <1>1, <1>2, ExecutorFailsWorks
  <1>3. CASE /\ job[Op(w)].next = wk[w].local /\ job' = [job EXCEPT ![Op(w)] = AdvancedJob(@)]
             /\ Become(w, [wk[w] EXCEPT !.pc = "ckptRead", !.local = @ + 1])
             /\ UNCHANGED <<row, receipts, short, flock>>
    <2> DEFINE s == [wk[w] EXCEPT !.pc = "ckptRead", !.local = @ + 1]
    <2>1. s.pc = "ckptRead" /\ s.local = wk[w].local + 1 /\ s.op = wk[w].op
      BY <1>1 DEF Sessions
    <2>2. Become(w, s)
      BY <1>3
    <2> HIDE DEF s
    <2>3. wk'[w] = s /\ \A x \in Workers \ {w} : wk'[x] = wk[x]
      BY <2>2, Becomes
    <2>4. job'[Op(w)] = AdvancedJob(job[Op(w)]) /\ JobsFrame(w)
      BY <1>1, <1>3, TypeFacts, LoopFacts, OneJob DEF FilesOK, Dataset
    <2>5. LoopRuns(w)'
      <3>1. ASSUME wk[w].local + 1 < Chunks PROVE job'[Op(w)].status = job[Op(w)].status
        <4>1. wk[w].local + 1 # Chunks
          BY <1>1, <3>1, LoopFacts, ChunksAssumption
        <4> QED BY <1>3, <2>4, <4>1 DEF AdvancedJob
      <3>2. job[Op(w)].status \in Executable
        BY <1>1 DEF WorkInv, LoopRuns
      <3> QED BY <1>1, <2>1, <2>3, <3>1, <3>2 DEF LoopRuns, Op
    <2>6. OwnSession(w)
      BY <1>1, <1>3, <2>1, <2>3, <2>5, RowsAlone, StandingSession DEF Past, RecoveryPoints
    <2> QED BY <1>3, <2>3, <2>4, <2>6, RowsAlone DEF Works
  <1> QED BY <1>2, <1>3 DEF Advance

\* What poll_control's caller goes on with.
LEMMA AfterPollFacts ==
    ASSUME NEW w, wk[w] \in Sessions, NEW c \in {"none", "PAUSED", "CANCELLED"},
           wk[w].pc \in {"poll", "renew"}, NEW s, s = AfterPoll(w, c)
    PROVE  /\ s.pc \in {"verify", "control", "finish", "poll"}
           /\ s.op = wk[w].op /\ s.local = wk[w].local
           /\ s.ctx = "loop" => wk[w].ctx = "loop"
           /\ s.pc = "verify" => c = "none"
  <1>1. CASE wk[w].ctx = "loop"
    BY <1>1 DEF AfterPoll, Sessions
  <1>2. CASE wk[w].ctx = "settle"
    BY <1>2 DEF AfterPoll, Sessions
  <1>3. CASE wk[w].ctx = "failure"
    BY <1>3 DEF AfterPoll, Sessions
  <1>4. CASE wk[w].ctx \notin {"loop", "settle", "failure"}
    <2>1. \/ s = [wk[w] EXCEPT !.pc = "finish", !.goal = c]
          \/ s = [wk[w] EXCEPT !.pc = "poll", !.ctx = "failure", !.goal = "none"]
      BY <1>4 DEF AfterPoll
    <2> QED BY <2>1 DEF Sessions
  <1> QED BY <1>1, <1>2, <1>3, <1>4

\* A poll goes on to the next chunk only after it has renewed the lease.
LEMMA AfterPollWorks ==
    ASSUME EvidenceInv, WorkInv, NEW w \in Workers, wk[w].pc \in {"poll", "renew"},
           NEW c \in {"none", "PAUSED", "CANCELLED"}, Become(w, AfterPoll(w, c)), UNCHANGED job,
           [Lifecycle!Next]_queueVars, NothingTaken(w), OwnersStep(w, {}),
           c = "none" => row'[Op(w)].owner = w
    PROVE  Works(w)
  <1> DEFINE s == AfterPoll(w, c)
  <1>1. wk[w].pc \notin FreePoints \cup RecoveryPoints /\ wk[w] \in Sessions /\ Op(w) \in Ops
    BY PollFacts DEF RecoveryPoints
  <1>2. /\ s.pc \in {"verify", "control", "finish", "poll"} /\ s.op = wk[w].op
        /\ s.local = wk[w].local /\ (s.ctx = "loop" => wk[w].ctx = "loop")
        /\ s.pc = "verify" => c = "none"
    BY <1>1, AfterPollFacts
  <1>3. Become(w, s)
    OBVIOUS
  <1> HIDE DEF s
  <1>4. wk'[w] = s /\ \A x \in Workers \ {w} : wk'[x] = wk[x]
    BY <1>3, Becomes
  <1>5. LoopRuns(w)'
    BY <1>2, <1>4 DEF WorkInv, LoopRuns, Op
  <1>6. OwnSession(w)
    BY <1>1, <1>2, <1>4, <1>5, StandingSession DEF Past, RecoveryPoints
  <1> QED BY <1>4, <1>6, SameJobs, FewerLetGo DEF Works

LEMMA PollWorks ==
    ASSUME EvidenceInv, WorkInv, NEW w \in Workers, Poll(w)
    PROVE  Works(w)
  <1>1. /\ wk[w].pc = "poll" /\ wk[w].pc \notin FreePoints \cup RecoveryPoints /\ Op(w) \in Ops
    BY PollFacts DEF Poll, At, RecoveryPoints
  <1>2. CASE Lost(w)
    BY <1>2, LostWorks
  <1>3. ASSUME ReadRow(Op(w), w), UNCHANGED <<job, receipts, short, flock>>
        PROVE  [Lifecycle!Next]_queueVars /\ NothingTaken(w) /\ OwnersStep(w, {})
    BY <1>1, <1>3, TypeFacts, QuietRows
  <1>4. ASSUME NEW c \in {"PAUSED", "CANCELLED"}, ReadRow(Op(w), w), Become(w, AfterPoll(w, c)),
               UNCHANGED <<job, receipts, short, flock>>
        PROVE  Works(w)
    BY <1>1, <1>3, <1>4, AfterPollWorks
  <1>5. CASE ReadRow(Op(w), w) /\ Go(w, "renew") /\ UNCHANGED <<job, receipts, short, flock>>
    BY <1>1, <1>3, <1>5, GoWorks DEF Points, RecoveryPoints, Past
  <1> QED BY <1>2, <1>4, <1>5 DEF Poll

LEMMA RenewWorks ==
    ASSUME EvidenceInv, WorkInv, NEW w \in Workers, Renew(w)
    PROVE  Works(w)
  <1>1. wk[w].pc = "renew" /\ Op(w) \in Ops
    BY PollFacts DEF Renew, At
  <1>2. CASE Lost(w)
    BY <1>2, LostWorks
  <1>3. CASE /\ RenewLease(Op(w), w) /\ Become(w, AfterPoll(w, "none"))
             /\ UNCHANGED <<job, receipts, short, flock>>
    <2>1. [Lifecycle!Next]_queueVars /\ NothingTaken(w) /\ OwnersStep(w, {})
      BY <1>1, <1>3, TypeFacts, QuietRows
    <2>2. row'[Op(w)].owner = w
      <3>1. row[Op(w)] \in Rows /\ LeaseFits(row[Op(w)]) /\ row[Op(w)].owner = w
        BY <1>1, <1>3, TypeFacts DEF RenewLease, MayWrite, RowsOK, LeasesFit
      <3> QED BY <1>1, <1>3, <3>1, TypeFacts, WriteType DEF RenewLease
    <2> QED BY <1>1, <1>3, <2>1, <2>2, AfterPollWorks
  <1> QED BY <1>2, <1>3 DEF Renew

\* checkpoint reads the row it owns.
LEMMA CkptReadWorks ==
    ASSUME EvidenceInv, WorkInv, NEW w \in Workers, CkptRead(w)
    PROVE  Works(w)
  <1>1. /\ wk[w].pc = "ckptRead" /\ wk[w].pc \notin FreePoints \cup RecoveryPoints /\ Op(w) \in Ops
    BY PollFacts DEF CkptRead, At, RecoveryPoints
  <1>2. CASE Lost(w)
    BY <1>2, LostWorks
  <1>3. CASE ReadRow(Op(w), w) /\ Go(w, "ckptWrite") /\ UNCHANGED <<job, receipts, short, flock>>
    <2>1. [Lifecycle!Next]_queueVars /\ NothingTaken(w) /\ OwnersStep(w, {})
      BY <1>1, <1>3, TypeFacts, QuietRows
    <2> QED BY <1>1, <1>3, <2>1, GoWorks DEF Points, RecoveryPoints, Past
  <1> QED BY <1>2, <1>3 DEF CkptRead

\* Where a checkpoint goes on: never past a boundary.
LEMMA AfterCheckpointFacts ==
    ASSUME NEW w, wk[w] \in Sessions, wk[w].pc = "ckptWrite", NEW s, s = AfterCheckpoint(w)
    PROVE  /\ s.pc \in {"poll", "finish", "boundary", "ckptRead"}
           /\ s.op = wk[w].op /\ s.local = wk[w].local
           /\ s.ctx = "loop" => wk[w].ctx = "loop"
  <1>1. CASE wk[w].ctx = "settle"
    BY <1>1 DEF AfterCheckpoint, Sessions
  <1>2. CASE wk[w].ctx = "control"
    BY <1>2 DEF AfterCheckpoint, Sessions
  <1>3. CASE wk[w].ctx \notin {"settle", "control"}
    <2>1. \/ s = [wk[w] EXCEPT !.pc = "boundary"]
          \/ s = [wk[w] EXCEPT !.pc = "ckptRead", !.ctx = "settle"]
          \/ \E c \in {"paused", "cancelled"} : s = [wk[w] EXCEPT !.pc = "poll", !.ctx = c]
      BY <1>3 DEF AfterCheckpoint, AfterLastChunk, InterruptedAs
    <2> QED BY <2>1 DEF Sessions
  <1> QED BY <1>1, <1>2, <1>3

LEMMA CkptWriteWorks ==
    ASSUME EvidenceInv, WorkInv, NEW w \in Workers, CkptWrite(w)
    PROVE  Works(w)
  <1>1. /\ wk[w].pc = "ckptWrite" /\ wk[w].pc \notin FreePoints \cup RecoveryPoints
        /\ Op(w) \in Ops /\ wk[w] \in Sessions /\ wk[w].local <= job[Op(w)].next
    BY PollFacts DEF CkptWrite, At, RecoveryPoints
  <1>2. CASE Lost(w)
    BY <1>2, LostWorks
  <1>3. CASE /\ UpdateProgress(Op(w), w, wk[w].local) /\ Become(w, AfterCheckpoint(w))
             /\ UNCHANGED <<job, receipts, short>>
    <2> DEFINE s == AfterCheckpoint(w)
    <2>1. /\ s.pc \in {"poll", "finish", "boundary", "ckptRead"}
          /\ s.op = wk[w].op /\ s.local = wk[w].local /\ (s.ctx = "loop" => wk[w].ctx = "loop")
      BY <1>1, AfterCheckpointFacts
    <2>2. Become(w, s)
      BY <1>3
    <2> HIDE DEF s
    <2>3. wk'[w] = s /\ \A x \in Workers \ {w} : wk'[x] = wk[x]
      BY <2>2, Becomes
    <2>4. wk[w].local \in 0..Chunks /\ wk[w].local <= receipts[Op(w)]
      <3>1. /\ wk[w].local \in -1..Chunks /\ job[Op(w)].next \in 0..Chunks
            /\ receipts[Op(w)] \in 0..Chunks /\ row[Op(w)].done \in 0..Chunks
        BY <1>1, TypeFacts DEF Sessions, FilesOK, Jobs, RowsOK, Rows
      <3>2. wk[w].local >= row[Op(w)].done /\ job[Op(w)].next <= receipts[Op(w)]
        BY <1>1, <1>3 DEF UpdateProgress, EvidenceInv, DataInv, ProgressIsDurable
      <3> QED BY <1>1, <3>1, <3>2, ChunksAssumption
    <2>5. [Lifecycle!Next]_queueVars /\ NothingTaken(w) /\ OwnersStep(w, {})
      BY <1>1, <1>3, <2>4, TypeFacts, ProgressLifecycle DEF WorkInv
    <2>6. LoopRuns(w)'
      BY <1>3, <2>1, <2>3 DEF WorkInv, LoopRuns, Op
    <2>7. OwnSession(w)
      BY <1>1, <2>1, <2>3, <2>5, <2>6, StandingSession DEF Past, RecoveryPoints
    <2> QED BY <1>3, <2>3, <2>5, <2>7, SameJobs, FewerLetGo DEF Works
  <1> QED BY <1>2, <1>3 DEF CkptWrite

\* The final write by an owner that knows the row.
LEMMA FinishWorks ==
    ASSUME EvidenceInv, WorkInv, NEW w \in Workers, Finish(w)
    PROVE  Works(w)
  <1>1. /\ wk[w].pc = "finish" /\ Op(w) \in Ops /\ wk[w].goal \in Goals
        /\ wk[w].goal = "COMPLETED" => /\ job[Op(w)].next = Chunks /\ row[Op(w)].done = Chunks
    BY PollFacts DEF Finish, At, Sessions
  <1>2. CASE Lost(w)
    BY <1>2, LostWorks
  <1>3. CASE /\ RequestState(Op(w), w, wk[w].goal) /\ Become(w, AtRest("idle"))
             /\ UNCHANGED <<job, receipts, short, flock>>
    <2>1. wk'[w] = AtRest("idle") /\ \A x \in Workers \ {w} : wk'[x] = wk[x]
      BY <1>3, Becomes
    <2>2. OwnSession(w)
      BY <2>1, RestingSession DEF AtRest, Holding, FreePoints
    <2>3. wk[w].goal = "COMPLETED" => receipts[Op(w)] = Chunks
      <3>1. receipts[Op(w)] \in 0..Chunks /\ job[Op(w)].next <= receipts[Op(w)]
        BY <1>1, TypeFacts DEF FilesOK, EvidenceInv, DataInv, ProgressIsDurable
      <3> QED BY <1>1, <3>1, ChunksAssumption
    <2>4. [Lifecycle!Next]_queueVars /\ OwnersStep(w, {Op(w)})
      BY <1>1, <1>3, <2>3, TypeFacts, RequestStateLifecycle DEF WorkInv
    <2>5. KnowsRow(w)
      BY <1>1, <1>3 DEF KnowsRow, FreePoints, RequestState, MayRequestState, MayWrite
    <2>6. OwnersStep(w, LetsGo(w))
      BY <1>1, <2>4, <2>5 DEF OwnersStep, LetsGo, Past
    <2> QED BY <1>3, <2>1, <2>2, <2>4, <2>6, SameJobs DEF Works
  <1> QED BY <1>2, <1>3 DEF Finish

\* The write of a recovery, by an owner that knows the row if it lets go.
LEMMA ReconcileWorks ==
    ASSUME EvidenceInv, WorkInv, NEW w \in Workers, ReconcileRow(w)
    PROVE  Works(w)
  <1>1. /\ wk[w].pc = "reconcile" /\ Op(w) \in Ops /\ wk[w].local \in -1..Chunks
        /\ wk[w].local <= job[Op(w)].next
        /\ wk[w].goal = "COMPLETED" => wk[w].local = Chunks
    BY PollFacts DEF ReconcileRow, At, Sessions
  <1>2. CASE Lost(w)
    BY <1>2, LostWorks
  <1>3. CASE /\ Reconcile(Op(w), w, wk[w].goal, wk[w].local)
             /\ Become(w, IF wk[w].goal = "RUNNING"
                          THEN Holding("execute", Op(w), "none") ELSE AtRest("idle"))
             /\ UNCHANGED <<job, receipts, short, flock>>
    <2>1. row[Op(w)].owner = w
      BY <1>3 DEF Reconcile, MayReconcile, MayWrite
    <2>2. wk[w].local <= receipts[Op(w)] /\ row[Op(w)].done <= receipts[Op(w)]
      <3>1. /\ job[Op(w)].next \in 0..Chunks /\ receipts[Op(w)] \in 0..Chunks
            /\ row[Op(w)].done \in 0..Chunks
        BY <1>1, TypeFacts DEF FilesOK, Jobs, RowsOK, Rows
      <3>2. row[Op(w)].done <= job[Op(w)].next /\ job[Op(w)].next <= receipts[Op(w)]
        BY <1>1 DEF EvidenceInv, DataInv, ProgressIsDurable
      <3> QED BY <1>1, <3>1, <3>2, ChunksAssumption
    <2>3. /\ [Lifecycle!Next]_queueVars /\ NothingTaken(w) /\ OwnersStep(w, {Op(w)})
          /\ wk[w].goal = "FAILED" => OwnersStep(w, {})
      BY <1>1, <1>3, <2>2, TypeFacts, ReconcileLifecycle DEF WorkInv
    <2>4. wk[w].goal # "FAILED" => KnowsRow(w)
      BY <1>1, <2>1 DEF KnowsRow, FreePoints
    <2>5. OwnersStep(w, LetsGo(w))
      BY <1>1, <2>3, <2>4, FewerLetGo DEF OwnersStep, LetsGo, Past
    <2>6. CASE wk[w].goal = "RUNNING"
      <3>1. /\ wk'[w].pc = "execute" /\ wk'[w].op = Op(w) /\ wk'[w].ctx = "none"
            /\ \A x \in Workers \ {w} : wk'[x] = wk[x]
        BY <1>3, <2>6, Becomes DEF Holding
      <3>2. OwnSession(w)
        BY <2>4, <2>6, <3>1 DEF OwnSession, LoopRuns, RecoversAlone, Enters, Learns, Past,
                                RecoveryPoints, Op
      <3> QED BY <1>3, <2>3, <2>5, <3>1, <3>2, SameJobs DEF Works
    <2>7. CASE wk[w].goal # "RUNNING"
      <3>1. wk'[w] = AtRest("idle") /\ \A x \in Workers \ {w} : wk'[x] = wk[x]
        BY <1>3, <2>7, Becomes
      <3>2. OwnSession(w)
        BY <3>1, RestingSession DEF AtRest, Holding, FreePoints
      <3> QED BY <1>3, <2>3, <2>5, <3>1, <3>2, SameJobs DEF Works
    <2> QED BY <2>6, <2>7
  <1> QED BY <1>2, <1>3 DEF ReconcileRow

\* A recovery goes on only with a job that nobody runs, and stops none.
LEMMA GoalNeedsAStoppedJob ==
    ASSUME NEW o, NEW from, NEW j \in Jobs
    PROVE  /\ RecoveryGoal(o, from, RecoveredJob(from, j).status) # "FAILED" => j.status # "RUNNING"
           /\ j.status \in Executable => /\ RecoveredJob(from, j).status \in Executable
                                         /\ SettledControlJob(from, j).status \in Executable
  <1>1. ASSUME j.status = "RUNNING"
        PROVE  RecoveryGoal(o, from, RecoveredJob(from, j).status) = "FAILED"
    <2>1. RecoveredJob(from, j).status = "RUNNING"
      BY <1>1 DEF RecoveredJob
    <2>2. StoppedGoal(from, "RUNNING") = "FAILED"
      BY DEF StoppedGoal
    <2> QED BY <2>1, <2>2 DEF RecoveryGoal
  <1>2. ASSUME j.status \in Executable
        PROVE  /\ RecoveredJob(from, j).status \in Executable
               /\ SettledControlJob(from, j).status \in Executable
    BY <1>2 DEF RecoveredJob, SettledControlJob, Executable, Jobs
  <1> QED BY <1>1, <1>2

LEMMA RecoverWorks ==
    ASSUME EvidenceInv, WorkInv, NEW w \in Workers, Recover(w)
    PROVE  Works(w)
  <1> DEFINE j == RecoveredJob(wk[w].from, job[Op(w)])
             g == RecoveryGoal(Op(w), wk[w].from, j.status)
             n == IF g = "FAILED" \/ j.status = "NONE" THEN -1 ELSE j.next
             f == [wk[w] EXCEPT !.pc = "reconcile", !.goal = "FAILED"]
             s == [wk[w] EXCEPT !.pc = "reconcile", !.goal = g, !.local = n]
  <1>1. wk[w].pc = "recover" /\ wk[w].ctx = "none" /\ UNCHANGED <<row, receipts, short, flock>>
    BY DEF Recover, At, WorkInv, RecoversAlone, RecoveryPoints
  <1>2. wk[w] \in Sessions /\ Op(w) \in Ops /\ Op(w) = wk[w].op /\ job[Op(w)] \in Jobs
    BY <1>1, BusyFacts DEF Op, FreePoints
  <1>3. \/ Become(w, f) /\ UNCHANGED job
        \/ Become(w, s) /\ job' = [job EXCEPT ![Op(w)] = j]
    BY DEF Recover
  <1>4. /\ g # "FAILED" => job[Op(w)].status # "RUNNING"
        /\ job[Op(w)].status \in Executable => j.status \in Executable
    BY <1>2, GoalNeedsAStoppedJob
  <1>5. /\ f.pc = "reconcile" /\ f.goal = "FAILED" /\ f.op = Op(w) /\ f.ctx = "none"
        /\ s.pc = "reconcile" /\ s.goal = g /\ s.op = Op(w) /\ s.ctx = "none"
    BY <1>1, <1>2 DEF Sessions
  <1>6. JobsFrame(w)
    BY <1>2, <1>3, <1>4, SameJobs, OneJob
  <1> HIDE DEF j, g, n, f, s
  <1>7. /\ wk'[w].pc = "reconcile" /\ wk'[w].ctx = "none" /\ wk'[w].op = Op(w)
        /\ wk'[w].goal = "FAILED" \/ wk'[w].goal = g
        /\ \A x \in Workers \ {w} : wk'[x] = wk[x]
    BY <1>3, <1>5, Becomes
  <1>8. OwnSession(w)
    BY <1>4, <1>7 DEF OwnSession, LoopRuns, RecoversAlone, Enters, Learns, KnowsRow, Past, Op
  <1> QED BY <1>1, <1>6, <1>7, <1>8, RowsAlone DEF Works

LEMMA SettleControlWorks ==
    ASSUME EvidenceInv, WorkInv, NEW w \in Workers, SettleControl(w)
    PROVE  Works(w)
  <1> DEFINE j == SettledControlJob(wk[w].from, job[Op(w)])
             g == ControlGoal(Op(w), wk[w].from, j.status)
             pc == IF g = "FAILED" THEN "finish" ELSE "ckptRead"
             f == [wk[w] EXCEPT !.pc = "finish", !.ctx = "control", !.goal = "FAILED"]
             s == [wk[w] EXCEPT !.pc = pc, !.ctx = "control", !.goal = g, !.local = j.next]
  <1>1. /\ wk[w].pc = "settleControl" /\ wk[w].pc \notin FreePoints \cup RecoveryPoints
        /\ UNCHANGED <<row, receipts, short, flock>>
    BY DEF SettleControl, At, FreePoints, RecoveryPoints
  <1>2. wk[w] \in Sessions /\ Op(w) \in Ops /\ job[Op(w)] \in Jobs
    BY <1>1, BusyFacts
  <1>3. \/ Become(w, f) /\ UNCHANGED job
        \/ Become(w, s) /\ job' = [job EXCEPT ![Op(w)] = j]
    BY DEF SettleControl
  <1>4. job[Op(w)].status \in Executable => j.status \in Executable
    BY <1>2, GoalNeedsAStoppedJob
  <1>5. JobsFrame(w)
    BY <1>2, <1>3, <1>4, SameJobs, OneJob
  <1>6. pc \in {"finish", "ckptRead"}
    OBVIOUS
  <1> HIDE DEF j, g, pc
  <1>7. /\ f.pc \in {"finish", "ckptRead"} /\ f.op = wk[w].op /\ f.ctx = "control"
        /\ s.pc \in {"finish", "ckptRead"} /\ s.op = wk[w].op /\ s.ctx = "control"
    BY <1>2, <1>6 DEF Sessions
  <1> HIDE DEF f, s
  <1>8. /\ wk'[w].pc \in {"finish", "ckptRead"} /\ wk'[w].ctx = "control" /\ wk'[w].op = wk[w].op
        /\ \A x \in Workers \ {w} : wk'[x] = wk[x]
    BY <1>3, <1>7, Becomes
  <1>9. [Lifecycle!Next]_queueVars /\ NothingTaken(w) /\ OwnersStep(w, {})
    BY <1>1, TypeFacts, QuietRows
  <1> QED BY <1>1, <1>5, <1>8, <1>9, HeldWorks DEF Past, RecoveryPoints

\* A failed transaction makes a failure of what it was for.
LEMMA DatabaseWorks ==
    ASSUME EvidenceInv, WorkInv, NEW w \in Workers, DatabaseStep(w)
    PROVE  Works(w)
  <1> DEFINE r == [wk[w] EXCEPT !.goal = "FAILED", !.local = -1]
             f == [wk[w] EXCEPT !.pc = "finish", !.goal = "FAILED"]
  <1>1. CASE InExecutor(w) /\ ExecutorFails(w)
    BY <1>1, ExecutorFailsWorks DEF InExecutor
  <1>2. CASE /\ wk[w].ctx \in {"settle", "paused", "cancelled"}
             /\ ToFailure(w) /\ UNCHANGED <<row, job, receipts, short, flock>>
    <2>1. wk[w].pc \notin FreePoints \cup RecoveryPoints
      BY <1>2 DEF EvidenceInv, SessionInv, KnowsItsJob, WorkInv, RecoversAlone
    <2> QED BY <1>2, <2>1, SameJobs, FailureWorks
  <1>3. CASE At(w, "reconcile") /\ Become(w, r) /\ UNCHANGED <<row, job, receipts, short, flock>>
    <2>1. /\ wk[w].pc = "reconcile" /\ wk[w].ctx = "none" /\ wk[w] \in Sessions
      BY <1>3, TypeFacts DEF At, WorkInv, RecoversAlone, RecoveryPoints
    <2>2. r.pc = "reconcile" /\ r.ctx = "none" /\ r.goal = "FAILED"
      BY <2>1 DEF Sessions
    <2> HIDE DEF r
    <2>3. wk'[w] = r /\ \A x \in Workers \ {w} : wk'[x] = wk[x]
      BY <1>3, Becomes
    <2>4. OwnSession(w)
      BY <2>2, <2>3 DEF OwnSession, LoopRuns, RecoversAlone, Enters, Learns, KnowsRow, Past
    <2> QED BY <1>3, <2>3, <2>4, RowsAlone, SameJobs DEF Works
  <1>4. CASE wk[w].ctx = "control" /\ Become(w, f) /\ UNCHANGED <<row, job, receipts, short, flock>>
    <2>1. wk[w].pc \notin FreePoints \cup RecoveryPoints /\ wk[w] \in Sessions
      BY <1>4, TypeFacts DEF EvidenceInv, SessionInv, KnowsItsJob, WorkInv, RecoversAlone
    <2>2. f.pc = "finish" /\ f.ctx = "control" /\ f.op = wk[w].op
      BY <1>4, <2>1 DEF Sessions
    <2> HIDE DEF f
    <2>3. wk'[w] = f /\ \A x \in Workers \ {w} : wk'[x] = wk[x]
      BY <1>4, Becomes
    <2>4. [Lifecycle!Next]_queueVars /\ NothingTaken(w) /\ OwnersStep(w, {})
      BY <1>4, TypeFacts, QuietRows
    <2> QED BY <1>4, <2>1, <2>2, <2>3, <2>4, SameJobs, HeldWorks DEF Past, RecoveryPoints
  <1>5. CASE HeartbeatFails(w)
    BY <1>5, LoopPoints, SameJobs, FailureWorks DEF HeartbeatFails, InExecutor
  <1> QED BY <1>1, <1>2, <1>3, <1>4, <1>5 DEF DatabaseStep, DatabaseFails

\* Submissions, administrators and the clock touch one row, the CLI one job.
LEMMA OutsideWorks ==
    ASSUME EvidenceInv, WorkInv, NEW o \in Ops,
           SubmitStep(o) \/ AdminStep(o) \/ Expire(o) \/ CliPause(o) \/ CliCancel(o)
    PROVE  Works(NoOwner) /\ UNCHANGED wk
  <1>1. UNCHANGED wk /\ UNCHANGED <<receipts, short>>
    BY DEF SubmitStep, AdminStep, Expire, CliPause, CliCancel
  <1>2. ASSUME [Lifecycle!Next]_queueVars, OwnersStep(NoOwner, {}), JobsFrame(NoOwner)
        PROVE  Works(NoOwner)
    BY <1>1, <1>2, WorkersAssumption, FewerLetGo DEF Works
  <1>3. CASE SubmitStep(o)
    BY <1>2, <1>3, TypeFacts, SubmitLifecycle, SameJobs DEF SubmitStep, WorkInv
  <1>4. CASE AdminStep(o)
    <2>1. PICK t \in {"PENDING"} \cup ControlStates : RequestControl(o, t)
      BY <1>4 DEF AdminStep, RequestPause, RequestCancel, RequestResume, ControlStates
    <2> QED BY <1>2, <1>4, <2>1, TypeFacts, RequestLifecycle, SameJobs DEF AdminStep, WorkInv
  <1>5. CASE Expire(o)
    <2>1. \A p \in Ops : /\ row'[p].status = row[p].status /\ row'[p].done = row[p].done
                         /\ row'[p].owner = row[p].owner
      BY <1>5, TypeFacts DEF Expire, LeaseExpires, RowsOK, Rows
    <2>2. UNCHANGED queueVars /\ OwnersStep(NoOwner, {})
      BY <1>1, <2>1, Unseen DEF OwnersStep
    <2> QED BY <1>2, <1>5, <2>2, SameJobs DEF Expire
  <1>6. CASE CliPause(o) \/ CliCancel(o)
    <2>1. /\ UNCHANGED row /\ CliControls
          /\ \E s \in {"PAUSED", "CANCELLED"} : SetJob(o, s)
      BY <1>6 DEF CliPause, CliCancel
    <2>2. JobsFrame(NoOwner)
      BY <2>1, TypeFacts DEF SetJob, JobsFrame, Executable, FilesOK, Jobs
    <2>3. [Lifecycle!Next]_queueVars /\ OwnersStep(NoOwner, {})
      BY <1>1, <2>1, Unseen DEF OwnersStep
    <2> QED BY <1>1, <2>2, <2>3, WorkersAssumption, FewerLetGo DEF Works
  <1> QED BY <1>1, <1>3, <1>4, <1>5, <1>6

-----------------------------------------------------------------------------
(* The invariants and the refinement *)

\* The steps of a worker are its work.
LEMMA StepWorks ==
    ASSUME EvidenceInv, WorkInv, NEW w \in Workers,
           Boot(w) \/ Exit(w) \/ DatabaseStep(w) \/ WorkerStep(w)
    PROVE  Works(w)
  <1>1. CASE Boot(w) \/ Exit(w) \/ DatabaseStep(w)
    BY <1>1, BootWorks, ExitWorks, DatabaseWorks
  <1>2. CASE WorkerStep(w)
    BY <1>2, RecoverAbandonedWorks, ClaimExpiredWorks, SelectWorks, WriteClaimWorks, StartWorks,
       ExecuteWorks, AcquireWorks, BoundaryWorks, ApplyControlWorks, VerifyWorks, FetchWorks,
       AdvanceWorks, PollWorks, RenewWorks, CkptReadWorks, CkptWriteWorks, FinishWorks,
       RecoverWorks, ReconcileWorks, SettleControlWorks
    DEF WorkerStep
  <1> QED BY <1>1, <1>2

\* Every step is the work of one worker, or of none.
LEMMA NextWorks ==
    ASSUME EvidenceInv, WorkInv, [Next]_vars
    PROVE  \E w \in Workers \cup {NoOwner} : Works(w)
  <1>1. ASSUME NEW w \in Workers, Boot(w) \/ Crash(w) \/ DatabaseStep(w) \/ WorkerStep(w)
        PROVE  Works(w)
    BY <1>1, StepWorks DEF Crash
  <1>2. ASSUME NEW o \in Ops,
               SubmitStep(o) \/ AdminStep(o) \/ Expire(o) \/ CliPause(o) \/ CliCancel(o)
        PROVE  Works(NoOwner)
    BY <1>2, OutsideWorks
  <1>3. CASE UNCHANGED vars
    <2>1. UNCHANGED <<row, job, receipts, short, wk>>
      BY <1>3 DEF vars
    <2>2. [Lifecycle!Next]_queueVars /\ OwnersStep(NoOwner, {})
      BY <2>1, Unseen DEF OwnersStep
    <2>3. Works(NoOwner)
      BY <2>1, <2>2, WorkersAssumption, SameJobs, FewerLetGo DEF Works
    <2> QED BY <2>3
  <1> QED BY <1>1, <1>2, <1>3 DEF Next

\* WorkInv is inductive on EvidenceInv: an executor's flock keeps its job.
LEMMA NextWork ==
    ASSUME EvidenceInv, WorkInv, NEW w \in Workers \cup {NoOwner}, Works(w)
    PROVE  WorkInv'
  <1>1. QueueInv'
    BY TypeFacts, LifecycleKeeps DEF Works, WorkInv
  <1>2. ASSUME NEW x \in Workers PROVE LoopRuns(x)' /\ RecoversAlone(x)'
    <2>1. CASE x = w
      BY <2>1 DEF Works, OwnSession
    <2>2. CASE x # w
      <3>1. wk'[x] = wk[x]
        BY <2>2 DEF Works
      <3>2. RecoversAlone(x)'
        BY <3>1 DEF WorkInv, RecoversAlone
      <3>3. ASSUME wk[x].ctx = "loop", wk[x].local < Chunks PROVE job'[Op(x)].status \in Executable
        <4>1. job[Op(x)].status \in Executable /\ Op(x) \in Ops /\ flock[DatasetOf[Op(x)]] = x
          BY <3>3, LoopFacts DEF WorkInv, LoopRuns, Dataset
        <4> QED BY <2>2, <4>1, WorkersAssumption DEF Works, JobsFrame
      <3> QED BY <3>1, <3>2, <3>3 DEF LoopRuns, Op
    <2> QED BY <2>1, <2>2
  <1> QED BY <1>1, <1>2 DEF WorkInv

\* QuietInv is inductive on both, as long as only workers stop jobs: a holder
\* lets go of what it knows, and who comes to know a row finds it at rest.
LEMMA NextQuiet ==
    ASSUME EvidenceInv, EvidenceInv', WorkInv, QuietInv, ~CliControls,
           NEW w \in Workers \cup {NoOwner}, Works(w)
    PROVE  QuietInv'
  <1> SUFFICES ASSUME NEW x \in Workers, wk'[x].pc \in Past
               PROVE  /\ row'[wk'[x].op].owner = NoOwner => row'[wk'[x].op].status = "FAILED"
                      /\ \A y \in Workers \ {x} : wk'[y].op = wk'[x].op => ~KnowsRow(y)'
    BY DEF QuietInv, Op
  <1>1. wk'[x].op = Op(x) /\ (wk[x].pc \in Past \/ (x = w /\ row'[Op(x)].owner = w))
    <2>1. CASE x = w
      BY <2>1 DEF Works, OwnSession, Enters, Op
    <2>2. CASE x # w
      BY <2>2 DEF Works, Op
    <2> QED BY <2>1, <2>2
  <1>2. Op(x) \in Ops
    BY <1>1, TypeFacts DEF EvidenceInv, SessionInv, KnowsItsJob, Past, FreePoints, Op
  <1>3. wk[x].pc \in Past => /\ row[Op(x)].owner = NoOwner => row[Op(x)].status = "FAILED"
                            /\ \A y \in Workers \ {x} : Op(y) = Op(x) => ~KnowsRow(y)
    BY DEF QuietInv
  <1>4. /\ \A y \in Workers \ {w} : row'[Op(x)].owner = y => row[Op(x)].owner = y
        /\ row'[Op(x)].owner = NoOwner /\ row'[Op(x)].status # "FAILED" /\ Op(x) \notin LetsGo(w)
             => row[Op(x)].owner = NoOwner
    BY <1>2 DEF Works, OwnersStep
  <1>5. ASSUME row'[Op(x)].owner = NoOwner PROVE row'[Op(x)].status = "FAILED"
    <2> SUFFICES ASSUME row'[Op(x)].status # "FAILED" PROVE FALSE
      OBVIOUS
    <2>1. wk[x].pc \in Past
      BY <1>1, <1>5, WorkersAssumption
    <2>2. row[Op(x)].status # "FAILED"
      <3>1. statuses[Op(x)] = "FAILED" => statuses'[Op(x)] = "FAILED"
        BY <1>2, TypeFacts, EndsStay DEF Works, WorkInv, TERMINAL_OPERATION_STATES
      <3> QED BY <1>2, <3>1 DEF statuses
    <2>3. row[Op(x)].owner # NoOwner
      BY <1>3, <2>1, <2>2
    <2>4. Op(x) = Op(w) /\ KnowsRow(w) /\ wk[w].pc \notin Past
      BY <1>4, <1>5, <2>3 DEF LetsGo
    <2>5. w \in Workers \ {x}
      BY <2>1, <2>3, <2>4 DEF KnowsRow
    <2> QED BY <1>3, <2>1, <2>4, <2>5
  <1>6. ASSUME NEW y \in Workers \ {x}, wk'[y].op = wk'[x].op, KnowsRow(y)' PROVE FALSE
    <2>1. CASE y # w
      <3>1. wk'[y] = wk[y]
        BY <2>1 DEF Works
      <3>2. row'[Op(x)].owner = y
        BY <1>1, <1>6 DEF KnowsRow, Op
      <3>3. row[Op(x)].owner = y /\ Op(y) = Op(x)
        BY <1>1, <1>4, <1>6, <2>1, <3>1, <3>2 DEF Op
      <3>4. KnowsRow(y)
        BY <1>6, <3>1, <3>3 DEF KnowsRow
      <3>5. wk[x].pc \in Past
        BY <1>1, <2>1, <3>2
      <3> QED BY <1>3, <3>3, <3>4, <3>5
    <2>2. CASE y = w
      <3>1. wk[x].pc \in Past
        BY <1>1, <1>6, <2>2
      <3>2. \/ KnowsRow(y) /\ wk'[y].op = wk[y].op
            \/ row[Op(x)].owner = NoOwner /\ row[Op(x)].status # "FAILED"
            \/ job[Op(x)].status # "RUNNING"
        BY <1>1, <1>6, <2>2 DEF Works, OwnSession, Learns
      <3>3. job[Op(x)].status = "RUNNING"
        <4>1. wk[x].ctx = "loop" /\ wk[x].local < Chunks
          BY <3>1, ChunkPointFacts DEF Past, ChunkPoints
        <4> QED BY <4>1 DEF WorkInv, LoopRuns, Executable
      <3> QED BY <1>1, <1>3, <1>6, <3>1, <3>2, <3>3 DEF Op
    <2> QED BY <2>1, <2>2
  <1> QED BY <1>1, <1>5, <1>6

\* Nothing is queued and nobody works at first.
LEMMA InitWork == Init => WorkInv /\ QuietInv
  <1> SUFFICES ASSUME Init PROVE WorkInv /\ QuietInv
    OBVIOUS
  <1>1. AbsentRow.status = "ABSENT" /\ AbsentRow.owner = NoOwner /\ AbsentRow.done = 0
    BY DEF AbsentRow
  <1>2. ASSUME NEW o \in Ops PROVE statuses[o] = "ABSENT" /\ ~leases[o] /\ progress[o] = 0
    <2>1. row[o] = AbsentRow
      BY DEF Init
    <2>2. statuses[o] = "ABSENT"
      BY <1>1, <2>1 DEF statuses
    <2>3. ~leases[o]
      BY <1>1, <2>1 DEF leases
    <2>4. progress[o] = 0
      BY <1>1, <2>1 DEF progress
    <2> QED BY <2>2, <2>3, <2>4
  <1>3. QueueInv
    BY <1>2 DEF QueueInv, OwnerFits
  <1>4. ASSUME NEW w \in Workers PROVE wk[w].pc = "down" /\ wk[w].ctx = "none"
    BY DEF Init, AtRest, Holding
  <1> QED BY <1>3, <1>4 DEF WorkInv, QuietInv, LoopRuns, RecoversAlone, RecoveryPoints, Past

\* What the flock and the leases give, in every state.
LEMMA WorkAlways == Spec => []WorkInv
  <1>1. EvidenceInv /\ WorkInv /\ [Next]_vars => WorkInv'
    BY NextWorks, NextWork
  <1> QED BY <1>1, InitWork, EvidenceAlways, PTL DEF Spec

\* Claims that race under READ COMMITTED, expiries, recoveries and the end of
\* processes leave one active row per dataset, and one executor, which holds
\* the flock and whose job record only the CLI may stop.
THEOREM ExclusiveWorkAlways == Spec => []ExclusiveWork
  <1>1. ASSUME EvidenceInv, WorkInv PROVE ExclusiveWork
    <2>1. OneActivePerDataset
      <3> SUFFICES ASSUME NEW o \in Ops, NEW p \in Ops, o # p, DatasetOf[o] = DatasetOf[p]
                   PROVE  ~(ActiveRow(row[o]) /\ ActiveRow(row[p]))
        BY DEF OneActivePerDataset
      <3>1. ~(leases[o] /\ leases[p])
        BY <1>1 DEF WorkInv, QueueInv
      <3>2. /\ ActiveRow(row[o]) <=> row[o].owner # NoOwner
            /\ ActiveRow(row[p]) <=> row[p].owner # NoOwner
        BY <1>1, TypeFacts, ActiveIsLeased DEF WorkInv
      <3> QED BY <3>1, <3>2 DEF leases
    <2>2. ASSUME NEW w \in Workers, wk[w].pc \in {"verify", "fetch", "advance"}
          PROVE  /\ flock[Dataset(w)] = w
                 /\ job[Op(w)].status \in Executable
                 /\ job[Op(w)].next = wk[w].local
      <3>1. wk[w].ctx = "loop" /\ wk[w].local < Chunks
        BY <1>1, <2>2, ChunkPointFacts DEF ChunkPoints
      <3> QED BY <1>1, <3>1, LoopFacts DEF WorkInv, LoopRuns
    <2> QED BY <2>1, <2>2 DEF ExclusiveWork, ExecutorKeepsItsJob, Executable
  <1> QED BY <1>1, EvidenceAlways, WorkAlways, PTL

\* A row that says PENDING, PAUSED, CANCELLED or COMPLETED is one nobody is
\* fetching or checkpointing a chunk of, not even an executor that lost its
\* lease.  CliControls is the operator's own pause of a local job, which takes
\* effect at the next boundary only.
THEOREM StoppedAlwaysQuiet == ~CliControls /\ Spec => []StoppedMeansQuiet
  <1>1. EvidenceInv /\ EvidenceInv' /\ WorkInv /\ QuietInv /\ ~CliControls /\ [Next]_vars
          => QuietInv'
    BY NextWorks, NextQuiet
  <1>2. ASSUME EvidenceInv, WorkInv, QuietInv PROVE StoppedMeansQuiet
    <2> SUFFICES ASSUME NEW o \in Ops, row[o].status \in {"PENDING", "PAUSED", "CANCELLED", "COMPLETED"},
                        NEW w \in Workers, Op(w) = o, wk[w].pc \in Past
                 PROVE  FALSE
      BY DEF StoppedMeansQuiet, Past
    <2>1. row[o].owner = NoOwner
      BY <1>2, TypeFacts, QueueType
      DEF WorkInv, QueueInv, OwnerFits, CLEAR_LEASE_STATES, TERMINAL_OPERATION_STATES
    <2> QED BY <1>2, <2>1 DEF QuietInv
  <1>3. CASE CliControls
    BY <1>3
  <1>4. CASE ~CliControls
    <2>1. EvidenceInv /\ EvidenceInv' /\ WorkInv /\ QuietInv /\ [Next]_vars => QuietInv'
      BY <1>1, <1>4
    <2> QED BY <1>2, <2>1, InitWork, EvidenceAlways, WorkAlways, PTL DEF Spec
  <1> QED BY <1>3, <1>4

\* Workers, local files, crashes and recoveries keep the promise of the queue:
\* the trigger's transitions, its monotone progress and its lease rules, and
\* the evidence of every outcome.
THEOREM WorkersImplementLifecycle == Spec => ImplementsLifecycle
  <1>1. Init => Lifecycle!Init
    <2> SUFFICES ASSUME Init PROVE Lifecycle!Init
      OBVIOUS
    <2>1. /\ AbsentRow.status = "ABSENT" /\ AbsentRow.owner = NoOwner /\ AbsentRow.done = 0
          /\ \A o \in Ops : row[o] = AbsentRow
      BY DEF AbsentRow, Init
    <2>2. statuses = [o \in Ops |-> "ABSENT"]
      BY <2>1 DEF statuses
    <2>3. leases = [o \in Ops |-> FALSE]
      BY <2>1 DEF leases
    <2>4. progress = [o \in Ops |-> 0]
      BY <2>1 DEF progress
    <2> QED BY <2>2, <2>3, <2>4 DEF Init, Lifecycle!Init
  <1>2. ASSUME EvidenceInv, WorkInv, [Next]_vars PROVE [Lifecycle!Next]_(Lifecycle!lifecycleVars)
    BY <1>2, NextWorks DEF Works, queueVars, Lifecycle!lifecycleVars
  <1> QED BY <1>1, <1>2, EvidenceAlways, WorkAlways, PTL DEF Spec, ImplementsLifecycle, Lifecycle!Spec

-----------------------------------------------------------------------------
(* The loop and the rows *)

Places == {"down", "ready", "poll", "record", "rest", "ending"}
Recorded == [at : Places, op : Ops \cup {NoOwner},
             state : SETTLED_OPERATION_STATES \cup {"NONE", "STOPPED"}]
Runtimes == [state : {"NONE", "RUNNING", "STOPPED", "FAILED"}, activity : {"IDLE", "ACTIVE"}]

PresenceType == /\ session \in [Workers -> Recorded]
                /\ runtime \in [Workers -> Runtimes]
                /\ events \in [Ops -> Seq(Terminal)]

\* Outside a poll the worker has nothing in hand, and while the loop runs its
\* row says RUNNING, ACTIVE between the two writes around a poll.
LoopFits(w) ==
    /\ session[w].at \in {"ready", "record", "rest"} => wk[w].pc = "idle"
    /\ session[w].at \in {"down", "ending"} => wk[w].pc = "down"
    /\ session[w].at # "down" => runtime[w].state = "RUNNING"
    /\ session[w].at = "ending" => session[w].state \in {"STOPPED", "FAILED"}
    /\ session[w].at \in {"poll", "record", "rest"} => runtime[w].activity = "ACTIVE"
    /\ ValidRuntime(runtime[w])
    /\ session[w].at = "record" => session[w].op \in Ops
                                   /\ session[w].state \in SETTLED_OPERATION_STATES

\* w is about to record the end of an operation.
Ends(w) == session[w].at = "record" /\ session[w].state \in Terminal

\* The end of o is recorded, or one worker is about to.
EndsOnce(o) ==
    /\ events[o] # <<>> => events[o] = <<row[o].status>> /\ row[o].status \in Terminal
    /\ \A w \in Workers : Ends(w) /\ session[w].op = o =>
         /\ row[o].status = session[w].state
         /\ events[o] = <<>>
         /\ \A x \in Workers \ {w} : Ends(x) => session[x].op # o

PresenceInv == /\ EvidenceInv /\ WorkInv
               /\ PresenceType
               /\ \A w \in Workers : LoopFits(w)
               /\ \A o \in Ops : EndsOnce(o)

-----------------------------------------------------------------------------
(* The steps *)

\* What every step does to the rows: those that have ended stay.
EndedRowsStay == \A o \in Ops : row[o].status \in Terminal => row'[o].status = row[o].status

LEMMA WorkKeepsEnds ==
    ASSUME EvidenceInv, WorkInv, NEW w \in Workers \cup {NoOwner}, Works(w)
    PROVE  EndedRowsStay
  <1> SUFFICES ASSUME NEW o \in Ops, row[o].status \in Terminal
               PROVE  row'[o].status = row[o].status
    BY DEF EndedRowsStay
  <1>1. statuses[o] = row[o].status /\ statuses'[o] = row'[o].status
    BY DEF statuses
  <1>2. statuses'[o] = statuses[o]
    BY <1>1, TypeFacts, EndsStay DEF Works, WorkInv, Terminal, TERMINAL_OPERATION_STATES
  <1> QED BY <1>1, <1>2

\* A step of the queue or of a worker, with what it keeps.
QueueStep(w) == EvidenceInv' /\ WorkInv' /\ EndedRowsStay
                /\ \A x \in Workers \ {w} : wk'[x] = wk[x]

LEMMA WorkerSteps ==
    ASSUME EvidenceInv, WorkInv, NEW w \in Workers,
           Boot(w) \/ Exit(w) \/ DatabaseStep(w) \/ WorkerStep(w)
    PROVE  QueueStep(w)
  <1>1. Works(w)
    BY StepWorks
  <1>2. EvidenceInv'
    BY BootKeeps, ExitKeeps, DatabaseFailsKeeps, HeartbeatFailsKeeps, WorkerStepKeeps
    DEF DatabaseStep
  <1>3. WorkInv'
    BY <1>1, NextWork
  <1>4. EndedRowsStay
    BY <1>1, WorkKeepsEnds
  <1>5. \A x \in Workers \ {w} : wk'[x] = wk[x]
    BY <1>1 DEF Works
  <1> QED BY <1>2, <1>3, <1>4, <1>5 DEF QueueStep

LEMMA OtherSteps ==
    ASSUME EvidenceInv, WorkInv, NEW o \in Ops,
           SubmitStep(o) \/ AdminStep(o) \/ Expire(o) \/ CliPause(o) \/ CliCancel(o)
    PROVE  QueueStep(NoOwner)
  <1>1. Works(NoOwner)
    BY OutsideWorks
  <1>2. EvidenceInv'
    BY RowOnlyKeeps, CliKeeps
  <1>3. WorkInv'
    BY <1>1, NextWork
  <1>4. EndedRowsStay
    BY <1>1, WorkKeepsEnds
  <1>5. \A x \in Workers \ {NoOwner} : wk'[x] = wk[x]
    BY <1>1 DEF Works
  <1> QED BY <1>2, <1>3, <1>4, <1>5 DEF QueueStep

LEMMA QuietSteps ==
    ASSUME EvidenceInv, WorkInv, NEW w \in Workers \cup {NoOwner}, UNCHANGED vars
    PROVE  QueueStep(w)
  <1>1. UNCHANGED <<row, wk>>
    BY DEF vars
  <1>2. EvidenceInv'
    BY NextEvidence
  <1>3. WorkInv'
    BY NextWorks, NextWork
  <1>4. EndedRowsStay
    BY <1>1 DEF EndedRowsStay
  <1> QED BY <1>1, <1>2, <1>3, <1>4 DEF QueueStep

\* A step that records nothing, and after which w records nothing: what was
\* recorded or is about to be, is still as it was.
LEMMA NothingEnds ==
    ASSUME PresenceInv, NEW w \in Workers \cup {NoOwner}, QueueStep(w), UNCHANGED events,
           \A x \in Workers \ {w} : session'[x] = session[x],
           w \in Workers => ~Ends(w)'
    PROVE  \A o \in Ops : EndsOnce(o)'
  <1> SUFFICES ASSUME NEW o \in Ops PROVE EndsOnce(o)'
    OBVIOUS
  <1>1. EndsOnce(o)
    BY DEF PresenceInv
  <1>2. row[o].status \in Terminal => row'[o].status = row[o].status
    BY DEF QueueStep, EndedRowsStay
  <1>3. events'[o] # <<>> => events'[o] = <<row'[o].status>> /\ row'[o].status \in Terminal
    BY <1>1, <1>2 DEF EndsOnce
  <1>4. \A x \in Workers : Ends(x)' => x # w /\ Ends(x) /\ session'[x] = session[x]
    BY DEF Ends
  <1>5. ASSUME NEW x \in Workers, Ends(x)', session'[x].op = o
        PROVE  /\ row'[o].status = session'[x].state
               /\ events'[o] = <<>>
               /\ \A y \in Workers \ {x} : Ends(y)' => session'[y].op # o
    <2>1. Ends(x) /\ session'[x] = session[x]
      BY <1>4, <1>5
    <2>2. row[o].status = session[x].state /\ events[o] = <<>>
      BY <1>1, <1>5, <2>1 DEF EndsOnce
    <2>3. row'[o].status = session'[x].state
      BY <1>2, <2>1, <2>2 DEF Ends
    <2>4. \A y \in Workers \ {x} : Ends(y)' => session'[y].op # o
      BY <1>1, <1>4, <1>5, <2>1 DEF EndsOnce
    <2> QED BY <2>2, <2>3, <2>4
  <1> QED BY <1>3, <1>5 DEF EndsOnce

\* The sessions and rows of the others are what they were.
LEMMA OthersFit ==
    ASSUME PresenceInv, NEW w \in Workers \cup {NoOwner}, QueueStep(w),
           \A x \in Workers \ {w} : session'[x] = session[x] /\ runtime'[x] = runtime[x]
    PROVE  \A x \in Workers \ {w} : LoopFits(x)'
  <1> SUFFICES ASSUME NEW x \in Workers \ {w} PROVE LoopFits(x)'
    OBVIOUS
  <1>1. LoopFits(x) /\ wk'[x] = wk[x]
    BY DEF PresenceInv, QueueStep
  <1> QED BY <1>1 DEF LoopFits

\* A step of the loop of w, alone or with a step of its worker.
LEMMA LoopStep ==
    ASSUME PresenceInv, NEW w \in Workers, QueueStep(w), UNCHANGED events,
           NEW s \in Recorded, session' = [session EXCEPT ![w] = s],
           NEW r \in Runtimes, runtime' = [runtime EXCEPT ![w] = r],
           LoopFits(w)', ~Ends(w)'
    PROVE  PresenceInv'
  <1>1. PresenceType'
    BY DEF PresenceInv, PresenceType
  <1>2. \A x \in Workers \ {w} : session'[x] = session[x] /\ runtime'[x] = runtime[x]
    BY DEF PresenceInv, PresenceType
  <1>3. \A x \in Workers : LoopFits(x)'
    BY <1>2, OthersFit
  <1>4. \A o \in Ops : EndsOnce(o)'
    BY <1>2, NothingEnds
  <1> QED BY <1>1, <1>3, <1>4 DEF PresenceInv, QueueStep

\* The places of the loop where nothing is recorded.
LEMMA ClosedAt ==
    ASSUME NEW at \in Places
    PROVE  /\ [Closed EXCEPT !.at = at] \in Recorded
           /\ [Closed EXCEPT !.at = at].at = at
           /\ [Closed EXCEPT !.at = at].state = "NONE"
  BY DEF Closed, Recorded

LEMMA PresenceFacts ==
    ASSUME PresenceInv, NEW w \in Workers
    PROVE  /\ EvidenceInv /\ WorkInv /\ LoopFits(w)
           /\ session[w] \in Recorded /\ runtime[w] \in Runtimes
           /\ session \in [Workers -> Recorded] /\ runtime \in [Workers -> Runtimes]
           /\ wk \in [Workers -> Sessions]
           /\ runtime = [runtime EXCEPT ![w] = runtime[w]]
  BY DEF PresenceInv, PresenceType, EvidenceInv, TypeOK

LEMMA OpenKeeps ==
    ASSUME PresenceInv, NEW w \in Workers, Open(w) PROVE PresenceInv'
  <1> DEFINE s == [Closed EXCEPT !.at = "ready"]
             r == [state |-> "RUNNING", activity |-> "IDLE"]
  <1>1. Boot(w) /\ session' = [session EXCEPT ![w] = s] /\ runtime' = [runtime EXCEPT ![w] = r]
        /\ UNCHANGED events
    BY DEF Open, GoTo, StartRuntime
  <1>2. s \in Recorded /\ s.at = "ready" /\ r \in Runtimes
    BY ClosedAt DEF Places, Runtimes
  <1>3. QueueStep(w)
    BY <1>1, PresenceFacts, WorkerSteps
  <1>4. wk'[w].pc = "idle"
    BY <1>1, PresenceFacts DEF Boot, Become, AtRest, Holding
  <1>5. session'[w] = s /\ runtime'[w] = r
    BY <1>1, PresenceFacts
  <1>6. LoopFits(w)' /\ ~Ends(w)'
    BY <1>2, <1>4, <1>5 DEF LoopFits, Ends, ValidRuntime
  <1> HIDE DEF s, r
  <1> QED BY <1>1, <1>2, <1>3, <1>6, LoopStep

\* The two writes around a poll.
LEMMA WritesKeep ==
    ASSUME PresenceInv, NEW w \in Workers, BeginPoll(w) \/ EndPoll(w) PROVE PresenceInv'
  <1> SUFFICES ASSUME NEW activity \in {"ACTIVE", "IDLE"}, NEW at \in {"poll", "ready"},
                      activity = "ACTIVE" <=> at = "poll",
                      WriteActivity(w, activity), GoTo(w, at), UNCHANGED <<vars, events>>,
                      session[w].at \in {"ready", "rest"}
               PROVE  PresenceInv'
    BY DEF BeginPoll, EndPoll
  <1> DEFINE s == [Closed EXCEPT !.at = at]
             r == [runtime[w] EXCEPT !.activity = activity]
  <1>1. session' = [session EXCEPT ![w] = s] /\ runtime' = [runtime EXCEPT ![w] = r]
    BY DEF GoTo, WriteActivity
  <1>2. s \in Recorded /\ s.at = at
    BY ClosedAt DEF Places
  <1>3. r \in Runtimes /\ r.state = "RUNNING" /\ r.activity = activity
    BY PresenceFacts DEF Runtimes, WriteActivity
  <1>4. QueueStep(w)
    BY PresenceFacts, QuietSteps
  <1>5. wk' = wk /\ wk[w].pc = "idle"
    BY PresenceFacts DEF vars, LoopFits
  <1>6. session'[w] = s /\ runtime'[w] = r
    BY <1>1, PresenceFacts
  <1>7. LoopFits(w)' /\ ~Ends(w)'
    BY <1>2, <1>3, <1>5, <1>6 DEF LoopFits, Ends, ValidRuntime
  <1> HIDE DEF s, r
  <1> QED BY <1>1, <1>2, <1>3, <1>4, <1>7, LoopStep

\* The process ends, by its own doing or not.
LEMMA ExitFacts ==
    ASSUME PresenceInv, NEW w \in Workers, Exit(w)
    PROVE  QueueStep(w) /\ wk'[w].pc = "down"
  BY PresenceFacts, WorkerSteps DEF Exit, EndProcess, Become, AtRest, Holding

LEMMA GiveUpKeeps ==
    ASSUME PresenceInv, NEW w \in Workers, NEW outcome \in {"STOPPED", "FAILED"},
           session[w].at # "down", GiveUp(w, outcome)
    PROVE  PresenceInv'
  <1> DEFINE s == [at |-> "ending", op |-> NoOwner, state |-> outcome]
  <1>1. Exit(w) /\ session' = [session EXCEPT ![w] = s] /\ UNCHANGED <<runtime, events>>
    BY DEF GiveUp
  <1>2. s \in Recorded /\ s.at = "ending" /\ s.state = outcome
    BY DEF Recorded, Places, SETTLED_OPERATION_STATES, Terminal
  <1>3. QueueStep(w) /\ wk'[w].pc = "down"
    BY <1>1, ExitFacts
  <1>4. session'[w] = s /\ runtime' = runtime /\ LoopFits(w)
    BY <1>1, PresenceFacts
  <1>5. LoopFits(w)' /\ ~Ends(w)'
    BY <1>2, <1>3, <1>4 DEF LoopFits, Ends, ValidRuntime
  <1> HIDE DEF s
  <1> QED BY <1>1, <1>2, <1>3, <1>5, PresenceFacts, LoopStep

LEMMA KillKeeps ==
    ASSUME PresenceInv, NEW w \in Workers, Kill(w) PROVE PresenceInv'
  <1> DEFINE s == [Closed EXCEPT !.at = "down"]
  <1>1. Exit(w) /\ session' = [session EXCEPT ![w] = s] /\ UNCHANGED <<runtime, events>>
    BY DEF Kill, GoTo
  <1>2. s \in Recorded /\ s.at = "down"
    BY ClosedAt DEF Places
  <1>3. QueueStep(w) /\ wk'[w].pc = "down"
    BY <1>1, ExitFacts
  <1>4. session'[w] = s /\ runtime' = runtime /\ LoopFits(w)
    BY <1>1, PresenceFacts
  <1>5. LoopFits(w)' /\ ~Ends(w)'
    BY <1>2, <1>3, <1>4 DEF LoopFits, Ends, ValidRuntime
  <1> HIDE DEF s
  <1> QED BY <1>1, <1>2, <1>3, <1>5, PresenceFacts, LoopStep

\* The last write of a process leaves a row that may say it ended, or not.
LEMMA EndRuntimeKeeps ==
    ASSUME PresenceInv, NEW w \in Workers, EndRuntime(w) PROVE PresenceInv'
  <1> DEFINE s == [Closed EXCEPT !.at = "down"]
  <1>1. session' = [session EXCEPT ![w] = s] /\ UNCHANGED <<vars, events>>
    BY DEF EndRuntime, GoTo
  <1>2. s \in Recorded /\ s.at = "down"
    BY ClosedAt DEF Places
  <1>3. QueueStep(w)
    BY <1>1, PresenceFacts, QuietSteps
  <1>4. wk' = wk /\ wk[w].pc = "down"
    BY <1>1, PresenceFacts DEF vars, LoopFits, EndRuntime
  <1>5. PICK r \in Runtimes : runtime' = [runtime EXCEPT ![w] = r] /\ ValidRuntime(r)
    <2>1. CASE UNCHANGED runtime
      BY <2>1, PresenceFacts DEF LoopFits
    <2>2. ASSUME NEW state \in {"STOPPED", "FAILED"}, Terminalize(w, state)
          PROVE  \E r \in Runtimes : runtime' = [runtime EXCEPT ![w] = r] /\ ValidRuntime(r)
      <3> DEFINE r == [state |-> state, activity |-> "IDLE"]
      <3>1. r \in Runtimes /\ ValidRuntime(r)
        BY DEF Runtimes, ValidRuntime
      <3>2. runtime' = [runtime EXCEPT ![w] = r]
        BY <2>2 DEF Terminalize
      <3> QED BY <3>1, <3>2
    <2>3. CASE WriteActivity(w, "IDLE")
      <3> DEFINE r == [runtime[w] EXCEPT !.activity = "IDLE"]
      <3>1. r \in Runtimes /\ ValidRuntime(r)
        BY PresenceFacts DEF Runtimes, ValidRuntime
      <3>2. runtime' = [runtime EXCEPT ![w] = r]
        BY <2>3 DEF WriteActivity
      <3> QED BY <3>1, <3>2
    <2>4. session[w].state \in {"STOPPED", "FAILED"}
      BY PresenceFacts DEF EndRuntime, LoopFits
    <2>5. \/ UNCHANGED runtime \/ WriteActivity(w, "IDLE")
          \/ \E state \in {"STOPPED", "FAILED"} : Terminalize(w, state)
      BY <2>4, Zenon DEF EndRuntime
    <2> QED BY <2>1, <2>2, <2>3, <2>5
  <1>6. session'[w] = s /\ runtime'[w] = r
    BY <1>1, <1>5, PresenceFacts
  <1>7. LoopFits(w)' /\ ~Ends(w)'
    BY <1>2, <1>4, <1>5, <1>6 DEF LoopFits, Ends
  <1> HIDE DEF s
  <1> QED BY <1>1, <1>2, <1>3, <1>5, <1>7, LoopStep

-----------------------------------------------------------------------------
(* A poll, and what it settled *)

\* A step of run_once that goes on, ends the process, or returns without an end.
LEMMA PollGoesOn ==
    ASSUME PresenceInv, NEW w \in Workers, RunPoll(w), QueueStep(w), ~Ends(w)'
    PROVE  PresenceInv'
  <1> DEFINE s == session'[w]
  <1>1. /\ session[w].at = "poll" /\ UNCHANGED <<runtime, events>>
        /\ \E t : session' = [session EXCEPT ![w] = t]
    BY DEF RunPoll
  <1>2. LoopFits(w)
    BY PresenceFacts
  <1>3. CASE wk'[w].pc = "down"
    <2> DEFINE t == [at |-> "ending", op |-> NoOwner, state |-> "FAILED"]
    <2>1. session' = [session EXCEPT ![w] = t]
      BY <1>3 DEF RunPoll
    <2>2. t \in Recorded
      BY DEF Recorded, Places, SETTLED_OPERATION_STATES, Terminal
    <2>3. LoopFits(w)'
      BY <1>1, <1>2, <1>3, <2>1, PresenceFacts DEF LoopFits
    <2> HIDE DEF t
    <2> QED BY <1>1, <2>1, <2>2, <2>3, PresenceFacts, LoopStep
  <1>4. CASE wk'[w].pc = "idle" /\ Settled(w) # {}
    <2> DEFINE o == CHOOSE o \in Settled(w) : TRUE
    <2>1. o \in Settled(w)
      BY <1>4
    <2>2. PICK p \in Ops : p = o /\ row'[p].status \in SETTLED_OPERATION_STATES
      BY <2>1 DEF Settled
    <2> HIDE DEF o
    <2> DEFINE t == [at |-> "record", op |-> p, state |-> row'[p].status]
    <2>3. session' = [session EXCEPT ![w] = t]
      BY <1>4, <2>2 DEF RunPoll, o
    <2>4. PICK u : u = t
      OBVIOUS
    <2>5. u \in Recorded /\ u.at = "record" /\ u.op = p /\ u.state \in SETTLED_OPERATION_STATES
      BY <2>2, <2>4 DEF Recorded, Places
    <2>6. session'[w] = u
      BY <2>3, <2>4, PresenceFacts
    <2>7. LoopFits(w)'
      BY <1>1, <1>2, <1>4, <2>5, <2>6 DEF LoopFits
    <2>8. session' = [session EXCEPT ![w] = u]
      BY <2>3, <2>4
    <2> HIDE DEF t
    <2> QED BY <1>1, <2>5, <2>7, <2>8, PresenceFacts, LoopStep
  <1>5. CASE wk'[w].pc = "idle" /\ Settled(w) = {}
    <2> DEFINE t == [Closed EXCEPT !.at = "rest"]
    <2>1. session' = [session EXCEPT ![w] = t]
      BY <1>5 DEF RunPoll
    <2>2. t \in Recorded /\ t.at = "rest"
      BY ClosedAt DEF Places
    <2>3. LoopFits(w)'
      BY <1>1, <1>2, <1>5, <2>1, <2>2, PresenceFacts DEF LoopFits
    <2> HIDE DEF t
    <2> QED BY <1>1, <2>1, <2>2, <2>3, PresenceFacts, LoopStep
  <1>6. CASE wk'[w].pc \notin {"down", "idle"}
    <2>1. session' = [session EXCEPT ![w] = session[w]]
      BY <1>6 DEF RunPoll
    <2>2. session'[w] = session[w] /\ session[w] \in Recorded
      BY <2>1, PresenceFacts
    <2>3. LoopFits(w)'
      BY <1>1, <1>2, <2>2 DEF LoopFits
    <2> QED BY <1>1, <2>1, <2>2, <2>3, PresenceFacts, LoopStep
  <1> QED BY <1>3, <1>4, <1>5, <1>6

\* A poll that ended an operation: nobody else did, or records it.
LEMMA PollEnds ==
    ASSUME PresenceInv, NEW w \in Workers, RunPoll(w), QueueStep(w), Ends(w)'
    PROVE  PresenceInv'
  <1>1. /\ session[w].at = "poll" /\ UNCHANGED <<runtime, events>> /\ LoopFits(w)
        /\ wk'[w].pc = "idle" /\ Settled(w) # {}
    <2>1. session[w].at = "poll" /\ UNCHANGED <<runtime, events>> /\ LoopFits(w)
      BY PresenceFacts DEF RunPoll
    <2>2. session'[w].at = "record"
      BY DEF Ends
    <2>3. session'[w] = CASE wk'[w].pc = "down" -> [at |-> "ending", op |-> NoOwner, state |-> "FAILED"]
                       [] wk'[w].pc = "idle" /\ Settled(w) # {} ->
                            LET o == CHOOSE o \in Settled(w) : TRUE
                            IN  [at |-> "record", op |-> o, state |-> row'[o].status]
                       [] wk'[w].pc = "idle" /\ Settled(w) = {} -> [Closed EXCEPT !.at = "rest"]
                       [] OTHER -> session[w]
      BY PresenceFacts DEF RunPoll
    <2>4. [Closed EXCEPT !.at = "rest"].at = "rest"
      BY ClosedAt DEF Places
    <2> QED BY <2>1, <2>2, <2>3, <2>4
  <1> DEFINE o == CHOOSE o \in Settled(w) : TRUE
  <1>2. PICK p \in Ops : p = o /\ row'[p].status # row[p].status
                         /\ row'[p].status \in SETTLED_OPERATION_STATES
    BY <1>1 DEF Settled
  <1>3. PICK u : u = [at |-> "record", op |-> p, state |-> row'[p].status]
    OBVIOUS
  <1>4. session' = [session EXCEPT ![w] = u]
    BY <1>1, <1>2, <1>3 DEF RunPoll
  <1> HIDE DEF o
  <1>5. u \in Recorded /\ u.at = "record" /\ u.op = p /\ u.state = row'[p].status
        /\ u.state \in SETTLED_OPERATION_STATES
    BY <1>2, <1>3 DEF Recorded, Places
  <1>6. session'[w] = u /\ \A x \in Workers \ {w} : session'[x] = session[x]
    BY <1>4, PresenceFacts
  <1>7. u.state \in Terminal
    BY <1>6 DEF Ends
  <1>8. row[p].status \notin Terminal
    BY <1>2, <1>7 DEF QueueStep, EndedRowsStay
  <1>9. ASSUME NEW q \in Ops PROVE EndsOnce(q)'
    <2>1. EndsOnce(q) /\ (row[q].status \in Terminal => row'[q].status = row[q].status)
      BY DEF PresenceInv, QueueStep, EndedRowsStay
    <2>2. \A x \in Workers \ {w} : Ends(x)' => Ends(x) /\ session'[x] = session[x]
      BY <1>6 DEF Ends
    <2>3. events'[q] = events[q]
      BY <1>1
    <2>4. events'[q] # <<>> => events'[q] = <<row'[q].status>> /\ row'[q].status \in Terminal
      BY <2>1, <2>3 DEF EndsOnce
    <2>5. q = p => events[q] = <<>> /\ \A x \in Workers : Ends(x) => session[x].op # q
      <3>1. q = p => row[q].status \notin Terminal
        BY <1>8
      <3>2. q = p => events[q] = <<>>
        BY <2>1, <3>1 DEF EndsOnce
      <3>3. ASSUME NEW x \in Workers, q = p, Ends(x), session[x].op = q PROVE FALSE
        BY <2>1, <3>1, <3>3 DEF EndsOnce, Ends
      <3> QED BY <3>2, <3>3
    <2>6. ASSUME NEW x \in Workers, Ends(x)', session'[x].op = q
          PROVE  /\ row'[q].status = session'[x].state
                 /\ events'[q] = <<>>
                 /\ \A y \in Workers \ {x} : Ends(y)' => session'[y].op # q
      <3>1. CASE x = w
        BY <1>5, <1>6, <2>2, <2>3, <2>5, <2>6, <3>1
      <3>2. CASE x # w
        <4>1. Ends(x) /\ session'[x] = session[x]
          BY <2>2, <2>6, <3>2
        <4>2. q # p
          BY <2>5, <2>6, <4>1
        <4>3. row[q].status = session[x].state /\ events[q] = <<>>
              /\ \A y \in Workers \ {x} : Ends(y) => session[y].op # q
          BY <2>1, <2>6, <4>1 DEF EndsOnce
        <4>4. row'[q].status = session'[x].state
          BY <2>1, <4>1, <4>3 DEF Ends
        <4>5. \A y \in Workers \ {x} : Ends(y)' => session'[y].op # q
          BY <1>5, <1>6, <2>2, <4>2, <4>3
        <4> QED BY <2>3, <4>3, <4>4, <4>5
      <3> QED BY <3>1, <3>2
    <2> QED BY <2>4, <2>6 DEF EndsOnce
  <1>10. LoopFits(w)'
    BY <1>1, <1>5, <1>6 DEF LoopFits
  <1>11. PresenceType'
    BY <1>1, <1>4, <1>5 DEF PresenceInv, PresenceType
  <1>12. \A x \in Workers : LoopFits(x)'
    BY <1>1, <1>6, <1>10, OthersFit
  <1> QED BY <1>9, <1>11, <1>12 DEF PresenceInv, QueueStep

LEMMA RunPollKeeps ==
    ASSUME PresenceInv, NEW w \in Workers, RunPoll(w) PROVE PresenceInv'
  <1>1. QueueStep(w)
    BY PresenceFacts, WorkerSteps DEF RunPoll
  <1> QED BY <1>1, PollGoesOn, PollEnds

\* record_operation_settled writes what the row says, or the process fails.
LEMMA RecordSettledKeeps ==
    ASSUME PresenceInv, NEW w \in Workers, RecordSettled(w) PROVE PresenceInv'
  <1>1. CASE GiveUp(w, "FAILED")
    BY <1>1, GiveUpKeeps DEF RecordSettled
  <1> SUFFICES ASSUME row[session[w].op].status = session[w].state,
                      InsertEvent(session[w].op, session[w].state),
                      GoTo(w, "rest"), UNCHANGED <<vars, runtime>>,
                      session[w].at = "record"
               PROVE  PresenceInv'
    BY <1>1 DEF RecordSettled
  <1> DEFINE s == [Closed EXCEPT !.at = "rest"]
             e == session[w].op
  <1>2. /\ LoopFits(w) /\ e \in Ops /\ session[w].state \in SETTLED_OPERATION_STATES
        /\ QueueStep(w) /\ wk' = wk /\ row' = row
    BY PresenceFacts, QuietSteps DEF LoopFits, vars
  <1>3. session' = [session EXCEPT ![w] = s] /\ s \in Recorded /\ s.at = "rest"
    BY ClosedAt DEF GoTo, Places
  <1>4. session'[w] = s /\ \A x \in Workers \ {w} : session'[x] = session[x]
    BY <1>3, PresenceFacts
  <1>5. LoopFits(w)' /\ ~Ends(w)'
    BY <1>2, <1>3, <1>4 DEF LoopFits, Ends
  <1>6. CASE session[w].state \notin Terminal
    <2>1. UNCHANGED events
      BY <1>6 DEF InsertEvent, PresenceInv, PresenceType
    <2> HIDE DEF s
    <2> QED BY <1>2, <1>3, <1>5, <2>1, PresenceFacts, LoopStep
  <1>7. CASE session[w].state \in Terminal
    <2>1. Ends(w) /\ EndsOnce(e)
      BY <1>2, <1>7 DEF Ends, PresenceInv
    <2>2. events[e] = <<>> /\ \A x \in Workers \ {w} : Ends(x) => session[x].op # e
      BY <2>1 DEF EndsOnce
    <2>3. events' = [events EXCEPT ![e] = <<session[w].state>>]
      BY <1>7, <2>2 DEF InsertEvent
    <2>4. PresenceType'
      BY <1>2, <1>3, <1>7, <2>3 DEF PresenceInv, PresenceType
    <2>5. \A x \in Workers : LoopFits(x)'
      BY <1>2, <1>4, <1>5, OthersFit
    <2>6. ASSUME NEW q \in Ops PROVE EndsOnce(q)'
      <3>1. EndsOnce(q) /\ \A x \in Workers : Ends(x)' => x # w /\ Ends(x) /\ session'[x] = session[x]
        BY <1>4, <1>5 DEF PresenceInv, Ends
      <3>2. CASE q = e
        <4>1. events'[q] = <<row'[q].status>> /\ row'[q].status \in Terminal
          BY <1>2, <1>7, <2>3, <3>2 DEF PresenceInv, PresenceType
        <4>2. \A x \in Workers : Ends(x)' => session'[x].op # q
          BY <2>2, <3>1, <3>2
        <4> QED BY <4>1, <4>2 DEF EndsOnce
      <3>3. CASE q # e
        <4>1. events'[q] = events[q] /\ row'[q] = row[q]
          BY <1>2, <2>3, <3>3 DEF PresenceInv, PresenceType
        <4> QED BY <3>1, <4>1 DEF EndsOnce
      <3> QED BY <3>2, <3>3
    <2> QED BY <1>2, <2>4, <2>5, <2>6 DEF PresenceInv, QueueStep
  <1> QED BY <1>6, <1>7

-----------------------------------------------------------------------------
(* The theorems *)

LEMMA OthersKeep ==
    ASSUME PresenceInv, NEW o \in Ops, Others(o) PROVE PresenceInv'
  <1>1. QueueStep(NoOwner) /\ UNCHANGED presenceVars
    BY OtherSteps DEF Others, PresenceInv
  <1>2. UNCHANGED <<runtime, events, session>>
    BY <1>1 DEF presenceVars
  <1>3. PresenceType'
    BY <1>2 DEF PresenceInv, PresenceType
  <1>4. \A x \in Workers : LoopFits(x)'
    BY <1>1, <1>2, OthersFit, WorkersAssumption
  <1>5. \A q \in Ops : EndsOnce(q)'
    BY <1>1, <1>2, NothingEnds, WorkersAssumption
  <1> QED BY <1>1, <1>3, <1>4, <1>5 DEF PresenceInv, QueueStep

LEMMA StillKeeps ==
    ASSUME PresenceInv, UNCHANGED allVars PROVE PresenceInv'
  <1>1. QueueStep(NoOwner)
    BY QuietSteps DEF PresenceInv, allVars
  <1>2. UNCHANGED <<runtime, events, session>>
    BY DEF allVars, presenceVars
  <1>3. PresenceType'
    BY <1>2 DEF PresenceInv, PresenceType
  <1>4. \A x \in Workers : LoopFits(x)'
    BY <1>1, <1>2, OthersFit, WorkersAssumption
  <1>5. \A q \in Ops : EndsOnce(q)'
    BY <1>1, <1>2, NothingEnds, WorkersAssumption
  <1> QED BY <1>1, <1>3, <1>4, <1>5 DEF PresenceInv, QueueStep

LEMMA PresenceNextKeeps == PresenceInv /\ [PresenceNext]_allVars => PresenceInv'
  <1> SUFFICES ASSUME PresenceInv, [PresenceNext]_allVars PROVE PresenceInv'
    OBVIOUS
  <1>1. ASSUME NEW w \in Workers,
               Open(w) \/ BeginPoll(w) \/ RunPoll(w) \/ RecordSettled(w) \/ EndPoll(w)
        PROVE  PresenceInv'
    BY <1>1, OpenKeeps, WritesKeep, RunPollKeeps, RecordSettledKeeps
  <1>2. ASSUME NEW w \in Workers, PresenceFails(w) \/ RequestStop(w)
        PROVE  PresenceInv'
    BY <1>2, GiveUpKeeps DEF PresenceFails, RequestStop
  <1>3. ASSUME NEW w \in Workers, EndRuntime(w) \/ Kill(w) PROVE PresenceInv'
    BY <1>3, EndRuntimeKeeps, KillKeeps
  <1>4. ASSUME NEW o \in Ops, Others(o) PROVE PresenceInv'
    BY <1>4, OthersKeep
  <1> QED BY <1>1, <1>2, <1>3, <1>4, StillKeeps DEF PresenceNext

LEMMA PresenceInitInv == PresenceInit => PresenceInv
  <1> SUFFICES ASSUME PresenceInit PROVE PresenceInv
    OBVIOUS
  <1>1. Init /\ EvidenceInv /\ WorkInv
    BY InitEvidence, InitWork DEF PresenceInit
  <1>2. Closed \in Recorded /\ Closed.at = "down" /\ NoRuntime \in Runtimes
        /\ NoRuntime.state = "NONE"
    BY DEF Closed, Recorded, Places, NoRuntime, Runtimes
  <1>3. PresenceType
    BY <1>2 DEF PresenceInit, PresenceType
  <1>4. ASSUME NEW w \in Workers PROVE LoopFits(w) /\ ~Ends(w)
    <2>1. wk[w].pc = "down"
      BY <1>1 DEF Init, AtRest, Holding
    <2>2. session[w] = Closed /\ runtime[w] = NoRuntime
      BY DEF PresenceInit
    <2> QED BY <1>2, <2>1, <2>2 DEF LoopFits, ValidRuntime, Ends
  <1>5. \A o \in Ops : EndsOnce(o)
    BY <1>4 DEF EndsOnce, PresenceInit
  <1> QED BY <1>1, <1>3, <1>4, <1>5 DEF PresenceInv

LEMMA PresenceAlways == PresenceSpec => []PresenceInv
  BY PresenceInitInv, PresenceNextKeeps, PTL DEF PresenceSpec

\* A runtime row never says that a process is idle, stopped or failed while it
\* has an operation in hand, and the end of an operation is reported once, as
\* what it is, whoever lost the operation to whom before.
THEOREM ReportsAlwaysTrue == PresenceSpec => []ReportsAreTrue
  <1>1. ASSUME PresenceInv, NEW w \in Workers
        PROVE  /\ ValidRuntime(runtime[w])
               /\ wk[w].pc \notin {"down", "idle"} =>
                     runtime[w] = [state |-> "RUNNING", activity |-> "ACTIVE"]
               /\ runtime[w].state \in {"STOPPED", "FAILED"} => wk[w].pc = "down"
    <2>1. LoopFits(w) /\ session[w] \in Recorded /\ runtime[w] \in Runtimes
      BY <1>1, PresenceFacts
    <2>2. wk[w].pc \notin {"down", "idle"} => session[w].at = "poll"
      BY <2>1 DEF LoopFits, Recorded, Places
    <2> QED BY <2>1, <2>2 DEF LoopFits, Runtimes
  <1>2. ASSUME PresenceInv PROVE ReportsAreTrue
    BY <1>1, <1>2 DEF ReportsAreTrue, PresenceIsTrue, SettledOnce, PresenceInv, EndsOnce
  <1> QED BY <1>2, PresenceAlways, PTL

\* The database refuses to record a settlement only when it was a pause, and
\* an administrator has resumed or cancelled it: a worker does not fail over an
\* end it settled itself.
THEOREM OnlyResumesAlwaysRefuse == PresenceSpec => []OnlyResumesRefuse
  <1>1. ASSUME PresenceInv PROVE OnlyResumesRefuse
    <2> SUFFICES ASSUME NEW w \in Workers, session[w].at = "record",
                        row[session[w].op].status # session[w].state
                 PROVE  session[w].state = "PAUSED"
      BY DEF OnlyResumesRefuse
    <2>1. session[w].op \in Ops /\ session[w].state \in SETTLED_OPERATION_STATES
      BY <1>1, PresenceFacts DEF LoopFits
    <2>2. EndsOnce(session[w].op)
      BY <1>1, <2>1 DEF PresenceInv
    <2>3. session[w].state \notin Terminal
      BY <2>2 DEF EndsOnce, Ends
    <2> QED BY <2>1, <2>3 DEF SETTLED_OPERATION_STATES
  <1> QED BY <1>1, PresenceAlways, PTL

===============================================================================
