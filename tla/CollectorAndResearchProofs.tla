----------------------- MODULE CollectorAndResearchProofs -----------------------
(***************************************************************************)
(* Two parts that do not meet. First, the collector epochs: ClaimsHold is   *)
(* an invariant of CollectorWorkers and every step of it is one of the      *)
(* contract FencedEpochs, for any epochs, workers and bounds.               *)
(*                                                                         *)
(* The steps of a worker are of two shapes: SessionMove, which reads, and   *)
(* RowMove, which commits one of the domain's transformations. Each action  *)
(* is shown to be one of them; invariant and contract are then a matter of  *)
(* the shapes.                                                             *)
(*                                                                         *)
(* Then research, for any plans, callers, outcomes and bounds.              *)
(***************************************************************************)
EXTENDS CollectorWorkers, ResearchExecution, FiniteSetTheorems, SequenceTheorems, TLAPS

-----------------------------------------------------------------------------
(* The inductive invariant *)

Critical == {"lock"} \cup Cycle
Retried == {"starting!", "running!", "pause!", "stopping!", "stop!", "fail!"}

\* What a session may rely on in the row r of its epoch: it is there, it is
\* not over while the snapshot of a failure is fresh; a prepared write has
\* an attempt left.
SessionFits(s, r) == /\ s.pc # "idle" => r.observed # "ABSENT"
                     /\ s.pc = "fail!" /\ s.fresh => r.observed \notin TERMINAL
                     /\ s.pc \in Retried => s.tries < Attempts

\* The claim of a session of w is the present one, or was taken over.
ClaimOrFenced(w, s, r) == (r.owner = w /\ r.fence = s.fence) \/ r.fence > s.fence

\* From the first look at its authority on, before it has the lock, a worker
\* has its claim or has been fenced.
Fits(w, s, r) == /\ SessionFits(s, r)
                 /\ s.pc \in Critical => ClaimOrFenced(w, s, r)

IInv == TypeOK /\ \A w \in Workers : Fits(w, wk[w], R(w))

-----------------------------------------------------------------------------
(* Rows *)

\* The transformations a worker commits, by the state it read.
Transforms(r, w, t) ==
    \/ MayClaim(r) /\ t = Claimed(r, w)
    \/ MayRecover(r) /\ t = Recovered(r, w)
    \/ /\ r.observed \notin TERMINAL \cup {"ABSENT"}
       /\ MaySettleUnclaimed(r) /\ t = InState(r, r.desired)
    \/ /\ r.owner = w /\ ~r.expired
       /\ \/ MayAdvance(r, "STARTING") /\ t = InState(r, "STARTING")
          \/ MayAdvance(r, "RUNNING") /\ t = InState(r, "RUNNING")
          \/ MayStopping(r) /\ t = InState(r, "STOPPING")
          \/ MayPause(r) /\ t = Released(r, "PAUSED")
          \/ MayStop(r) /\ t = Released(r, "STOPPED")
    \/ /\ r.owner = NoOwner \/ (r.owner = w /\ ~r.expired)
       /\ r.observed \notin TERMINAL \cup {"ABSENT"}
       /\ t = Released(r, "FAILED")

\* The successors the graph gives an unclaimed row.
LEMMA UnclaimedGraph ==
    ASSUME NEW r \in Rows, WellFormed(r), r.observed \notin TERMINAL \cup {"ABSENT"},
           MaySettleUnclaimed(r)
    PROVE  /\ r.observed \in {"PENDING", "PAUSED"}
           /\ r.desired \in {"PAUSED", "STOPPED"}
  BY DEF Rows, WellFormed, MaySettleUnclaimed, ClaimRequired, ObservedState, TERMINAL, DesiredState

\* What a claim, a recovery, a change of state and a release write, field by
\* field.
LEMMA ClaimedFields ==
    ASSUME NEW r \in Rows, NEW w \in Workers, NEW t, t = Claimed(r, w)
    PROVE  /\ t \in Rows
           /\ t.desired = r.desired /\ t.observed = "STARTING" /\ t.owner = w
           /\ t.fence = r.fence + 1 /\ t.expired = r.expired
  <1>1. r.fence \in Nat /\ r.fence + 1 \in Nat
    BY DEF Rows
  <1> QED
    BY <1>1 DEF Claimed, Rows, ObservedState, ClaimRequired

LEMMA RecoveredFields ==
    ASSUME NEW r \in Rows, NEW w \in Workers, NEW t, t = Recovered(r, w)
    PROVE  /\ t \in Rows
           /\ t.desired = r.desired /\ t.observed = "RECOVERING" /\ t.owner = w
           /\ t.fence = r.fence + 1 /\ ~t.expired
  <1>1. r.fence \in Nat /\ r.fence + 1 \in Nat
    BY DEF Rows
  <1> QED
    BY <1>1 DEF Recovered, Rows, ObservedState, ClaimRequired

LEMMA InStateFields ==
    ASSUME NEW r \in Rows, NEW s \in ObservedState, NEW t, t = InState(r, s)
    PROVE  /\ t \in Rows
           /\ t.desired = r.desired /\ t.observed = s /\ t.owner = r.owner
           /\ t.fence = r.fence /\ t.expired = r.expired
  BY DEF InState, Rows

LEMMA ReleasedFields ==
    ASSUME NEW r \in Rows, NEW s \in ObservedState, NEW t, t = Released(r, s)
    PROVE  /\ t \in Rows
           /\ t.desired = r.desired /\ t.observed = s /\ t.owner = NoOwner
           /\ t.fence = r.fence /\ ~t.expired
  BY DEF Released, Rows

\* A transformation gives a sound row, never an absent one; the fence never
\* falls, and whoever else held the row keeps it or is fenced.
LEMMA TransformType ==
    ASSUME NEW w \in Workers, NEW r \in Rows, WellFormed(r), NEW t, Transforms(r, w, t)
    PROVE  /\ t \in Rows /\ WellFormed(t)
           /\ t.observed # "ABSENT" /\ r.observed # "ABSENT"
           /\ t.fence >= r.fence
           /\ \A v \in Workers \ {w} : r.owner = v => t.owner = v \/ t.fence > r.fence
  <1>1. r.fence \in Nat /\ r.expired \in BOOLEAN
    BY DEF Rows
  <1> USE WorkersAssumption DEF WellFormed, ClaimRequired, ObservedState, TERMINAL
  <1>2. CASE MayClaim(r) /\ t = Claimed(r, w)
    BY <1>1, <1>2, ClaimedFields DEF MayClaim
  <1>3. CASE MayRecover(r) /\ t = Recovered(r, w)
    <2>1. /\ t \in Rows /\ t.desired = r.desired
          /\ t.observed = "RECOVERING" /\ t.owner = w
          /\ t.fence = r.fence + 1 /\ ~t.expired
      BY <1>3, RecoveredFields
    <2> QED BY <1>1, <1>3, <2>1 DEF MayRecover
  <1>4. CASE /\ r.observed \notin TERMINAL \cup {"ABSENT"}
             /\ MaySettleUnclaimed(r) /\ t = InState(r, r.desired)
    <2>1. /\ r.observed \in {"PENDING", "PAUSED"}
          /\ r.desired \in {"PAUSED", "STOPPED"}
      BY <1>4, UnclaimedGraph
    <2>2. r.owner = NoOwner
      BY <1>4 DEF MaySettleUnclaimed
    <2> QED BY <1>1, <1>4, <2>1, <2>2, InStateFields
  <1>5. CASE /\ r.owner = w /\ ~r.expired
             /\ \/ MayAdvance(r, "STARTING") /\ t = InState(r, "STARTING")
                \/ MayAdvance(r, "RUNNING") /\ t = InState(r, "RUNNING")
                \/ MayStopping(r) /\ t = InState(r, "STOPPING")
    BY <1>1, <1>5, InStateFields DEF MayAdvance, MayStopping
  <1>6. CASE /\ r.owner = w /\ ~r.expired
             /\ \/ MayPause(r) /\ t = Released(r, "PAUSED")
                \/ MayStop(r) /\ t = Released(r, "STOPPED")
    <2>1. PICK u \in {"PAUSED", "STOPPED"} :
             /\ t = Released(r, u) /\ r.desired = u
             /\ r.observed \in ClaimRequired
      BY <1>6 DEF MayPause, MayStop
    <2>2. /\ t \in Rows /\ t.desired = r.desired /\ t.observed = u
          /\ t.owner = NoOwner /\ t.fence = r.fence /\ ~t.expired
      BY <2>1, ReleasedFields
    <2> QED BY <1>1, <1>6, <2>1, <2>2
  <1>7. CASE /\ r.owner = NoOwner \/ (r.owner = w /\ ~r.expired)
             /\ r.observed \notin TERMINAL \cup {"ABSENT"}
             /\ t = Released(r, "FAILED")
    <2>1. /\ t \in Rows /\ t.observed = "FAILED"
          /\ t.owner = NoOwner /\ t.fence = r.fence /\ ~t.expired
      BY <1>7, ReleasedFields
    <2> QED BY <1>1, <1>7, <2>1
  <1> QED BY <1>2, <1>3, <1>4, <1>5, <1>6, <1>7 DEF Transforms

-----------------------------------------------------------------------------
(* The two shapes of a worker's step *)

\* The collection lock after a step of w to pc: w has it exactly in the cycle.
LockFor(w, pc) == /\ lock' = IF pc \in Cycle THEN w ELSE IF lock = w THEN NoOwner ELSE lock
                  /\ pc \in Cycle => lock \in {w, NoOwner}

\* w goes on as s, the rows stay.
SessionMove(w, s) == /\ s \in Sessions
                     /\ row' = row
                     /\ wk' = [wk EXCEPT ![w] = s]
                     /\ LockFor(w, s.pc)
                     /\ Fits(w, s, row[s.epoch])
                     /\ commands' = commands
                     /\ faults' \in 0..MaxFaults
Moves(w) == \E s : SessionMove(w, s)

\* w, outside its cycle, commits the row t and goes on as s.
RowMove(w, s, t) == /\ s \in Sessions
                    /\ s.pc \notin Retried \cup Critical
                    /\ s.pc # "idle" => s.epoch = wk[w].epoch
                    /\ wk[w].pc \notin Cycle
                    /\ Transforms(R(w), w, t)
                    /\ Written(wk[w].epoch, w, t, s)
                    /\ UNCHANGED <<lock, commands, faults>>
Commits(w) == \E s, t : RowMove(w, s, t)

\* What every step of a worker may start from.
LEMMA SessionType ==
    ASSUME IInv, NEW w \in Workers
    PROVE  /\ wk[w] \in Sessions /\ wk[w].epoch \in Epochs
           /\ R(w) \in Rows /\ WellFormed(R(w))
           /\ wk[w].fence \in Nat /\ R(w).fence \in Nat
           /\ wk[w].tries \in 0..Attempts
           /\ wk[w].pc \in Cycle <=> lock = w
           /\ Fits(w, wk[w], R(w))
           /\ faults \in 0..MaxFaults
  <1>1. wk[w] \in Sessions
    BY DEF IInv, TypeOK
  <1>2. wk[w].epoch \in Epochs /\ wk[w].fence \in Nat /\ wk[w].tries \in 0..Attempts
    BY <1>1 DEF Sessions
  <1>3. R(w) \in Rows /\ WellFormed(R(w))
    BY <1>2 DEF IInv, TypeOK, R
  <1>4. R(w).fence \in Nat
    BY <1>3 DEF Rows
  <1> QED
    BY <1>1, <1>2, <1>3, <1>4 DEF IInv, TypeOK

\* A session that begins anew has all its attempts.
LEMMA NoTries == 0 \in 0..Attempts
  BY BoundsAssumption

LEMMA IdleFields == Idle \in Sessions /\ Idle.pc = "idle"
  <1>1. 0 \in 0..Attempts /\ 1 \in Epochs /\ 0 \in Nat
    BY NoTries, EpochsAssumption DEF Epochs
  <1> QED BY <1>1 DEF Idle, Sessions, Points

\* Outside the cycle an untouched lock is not w's; UnlockOf gives it back.
LEMMA LockStays ==
    ASSUME IInv, NEW w \in Workers, NEW pc, pc \notin Cycle,
           (wk[w].pc \notin Cycle /\ lock' = lock) \/ UnlockOf(w)
    PROVE  LockFor(w, pc)
  BY SessionType DEF LockFor, UnlockOf

\* Rows, commands and what is left of the faults, in a step that only reads.
Reads == row' = row /\ commands' = commands /\ faults' \in 0..MaxFaults

LEMMA GotoMove ==
    ASSUME IInv, NEW w \in Workers, NEW pc \in Points \ Retried, wk[w].pc # "idle",
           Goto(w, pc), Reads, LockFor(w, pc),
           pc \in Critical => ClaimOrFenced(w, wk[w], R(w))
    PROVE  Moves(w)
  <1> DEFINE s == [wk[w] EXCEPT !.pc = pc, !.tries = 0]
  <1>1. /\ s \in Sessions /\ s.pc = pc /\ s.epoch = wk[w].epoch /\ s.fence = wk[w].fence
    BY SessionType, NoTries DEF Sessions
  <1>2. wk' = [wk EXCEPT ![w] = s]
    BY DEF Goto, SetWk
  <1> HIDE DEF s
  <1>3. Fits(w, s, row[s.epoch])
    BY <1>1, SessionType DEF Fits, SessionFits, ClaimOrFenced, Retried, R
  <1> QED
    BY <1>1, <1>2, <1>3 DEF Moves, SessionMove, Reads

LEMMA PrepareMove ==
    ASSUME IInv, NEW w \in Workers, NEW pc \in Retried \ {"fail!"}, wk[w].pc # "idle",
           Prepare(w, pc), Reads, LockFor(w, pc), ~Exhausted(w)
    PROVE  Moves(w)
  <1> DEFINE s == [wk[w] EXCEPT !.pc = pc, !.fresh = TRUE]
  <1>0. pc \in Points
    BY DEF Retried, Points, Writes
  <1>1. /\ s \in Sessions /\ s.pc = pc /\ s.epoch = wk[w].epoch /\ s.tries = wk[w].tries
    BY <1>0, SessionType DEF Sessions
  <1>2. wk' = [wk EXCEPT ![w] = s]
    BY DEF Prepare, SetWk
  <1> HIDE DEF s
  <1>3. s.tries < Attempts
    BY <1>1, SessionType, BoundsAssumption DEF Exhausted
  <1>4. Fits(w, s, row[s.epoch])
    BY <1>1, <1>3, SessionType DEF Fits, SessionFits, Retried, Critical, Cycle, R
  <1> QED
    BY <1>1, <1>2, <1>4 DEF Moves, SessionMove, Reads

LEMMA ReturnMove ==
    ASSUME IInv, NEW w \in Workers, Return(w), Reads, LockFor(w, "idle")
    PROVE  Moves(w)
  <1>1. Fits(w, Idle, row[Idle.epoch])
    BY IdleFields DEF Fits, SessionFits, Retried, Critical, Cycle
  <1>2. wk' = [wk EXCEPT ![w] = Idle]
    BY DEF Return, SetWk
  <1> QED
    BY <1>1, <1>2, IdleFields DEF Moves, SessionMove, Reads

LEMMA BoundaryMove ==
    ASSUME IInv, NEW w \in Workers, NEW f \in {"start", "prepare", "loop"}, wk[w].pc # "idle",
           ToBoundary(w, f), Reads,
           (wk[w].pc \notin Cycle /\ lock' = lock) \/ UnlockOf(w)
    PROVE  Moves(w)
  <1> DEFINE pc == Boundary(R(w).desired)
             s == [wk[w] EXCEPT !.pc = pc, !.tries = 0, !.from = f]
  <1>0. pc \in {"pause", "stop"}
    BY DEF Boundary
  <1>1. wk' = [wk EXCEPT ![w] = s]
    BY DEF ToBoundary, SetWk
  <1> HIDE DEF pc
  <1>2. /\ s \in Sessions /\ s.pc = pc /\ s.epoch = wk[w].epoch
    BY <1>0, SessionType, NoTries DEF Sessions, Points
  <1> HIDE DEF s
  <1>3. Fits(w, s, row[s.epoch])
    BY <1>0, <1>2, SessionType DEF Fits, SessionFits, Retried, Critical, Cycle, R
  <1>4. LockFor(w, s.pc)
    BY <1>0, <1>2, LockStays DEF Cycle
  <1> QED
    BY <1>1, <1>2, <1>3, <1>4 DEF Moves, SessionMove, Reads

\* A write that meets another version goes back to its read, one try later.
LEMMA ConflictMove ==
    ASSUME IInv, NEW w \in Workers, NEW pc \in {"starting", "running", "pause", "stop", "fail"},
           wk[w].pc \in Retried,
           Conflict(w, pc), Reads, lock' = lock
    PROVE  Moves(w)
  <1> DEFINE s == [wk[w] EXCEPT !.pc = pc, !.tries = @ + 1]
  <1>1. wk[w].tries + 1 \in 0..Attempts
    BY SessionType, BoundsAssumption DEF Fits, SessionFits
  <1>2. /\ s \in Sessions /\ s.pc = pc /\ s.epoch = wk[w].epoch
    BY <1>1, SessionType DEF Sessions, Points
  <1>3. wk' = [wk EXCEPT ![w] = s]
    BY DEF Conflict, SetWk
  <1> HIDE DEF s
  <1>4. wk[w].pc \notin Cycle /\ wk[w].pc # "idle"
    BY DEF Retried, Cycle
  <1>5. Fits(w, s, row[s.epoch])
    BY <1>2, <1>4, SessionType DEF Fits, SessionFits, Retried, Critical, Cycle, R
  <1>6. LockFor(w, s.pc)
    BY <1>2, <1>4, LockStays DEF Cycle
  <1> QED
    BY <1>2, <1>3, <1>5, <1>6 DEF Moves, SessionMove, Reads

-----------------------------------------------------------------------------
(* Every action of a worker has one of the two shapes *)

Acts(w) == Moves(w) \/ Commits(w)

\* The poll takes a live epoch, with the fence of its row.
LEMMA LoadActs ==
    ASSUME IInv, NEW w \in Workers, NEW e \in Epochs, Load(w, e)
    PROVE  Acts(w)
  <1>1. row[e] \in Rows /\ row[e].fence \in Nat /\ row[e].observed \notin TERMINAL \cup {"ABSENT"}
    BY DEF IInv, TypeOK, Load, NonTerminal, Rows
  <1>2. PICK pc \in {"claim", "settle", "recover", "pause", "stop", "starting", "running",
                     "authority"},
             f \in {"start", "prepare", "loop"} :
          wk' = [wk EXCEPT ![w] = [Idle EXCEPT !.pc = pc, !.epoch = e, !.fence = row[e].fence,
                                              !.fresh = TRUE, !.from = f]]
    BY DEF Load, SetWk, Boundary
  <1> DEFINE s == [Idle EXCEPT !.pc = pc, !.epoch = e, !.fence = row[e].fence,
                               !.fresh = TRUE, !.from = f]
  <1>3. s \in Sessions /\ s.pc = pc /\ s.epoch = e
    BY <1>1, NoTries DEF Idle, Sessions, Points, Writes
  <1>4. wk' = [wk EXCEPT ![w] = s]
    BY <1>2
  <1> HIDE DEF s
  <1>5. Fits(w, s, row[s.epoch])
    BY <1>1, <1>3 DEF Fits, SessionFits, Retried, Critical, Cycle
  <1>6. wk[w].pc \notin Cycle /\ Reads /\ lock' = lock
    BY SessionType DEF Load, Reads, Cycle
  <1>7. LockFor(w, s.pc)
    BY <1>3, <1>6, LockStays DEF Cycle
  <1> QED
    BY <1>3, <1>4, <1>5, <1>6, <1>7 DEF Acts, Moves, SessionMove, Reads

\* A step of w that leaves rows, lock, commands and faults and is not in the
\* cycle: its shape is that of its write of the session.
LEMMA QuietMoves ==
    ASSUME IInv, NEW w \in Workers, wk[w].pc \notin Cycle \cup {"idle"},
           UNCHANGED <<row, lock, commands, faults>>
    PROVE  /\ Reads
           /\ \A pc \in Points \ (Retried \cup Critical) : Goto(w, pc) => Moves(w)
           /\ \A pc \in Retried \ {"fail!"} : Prepare(w, pc) /\ ~Exhausted(w) => Moves(w)
           /\ \A f \in {"start", "prepare", "loop"} : ToBoundary(w, f) => Moves(w)
           /\ Return(w) => Moves(w)
           /\ \A pc \in {"starting", "running", "pause", "stop", "fail"} :
                 wk[w].pc \in Retried /\ Conflict(w, pc) => Moves(w)
  <1>1. Reads
    BY SessionType DEF Reads
  <1>2. \A pc : pc \notin Cycle => LockFor(w, pc)
    BY LockStays
  <1>3. \A pc \in Points \ (Retried \cup Critical) : Goto(w, pc) => Moves(w)
    BY <1>1, <1>2, GotoMove DEF Critical
  <1>4. \A pc \in Retried \ {"fail!"} : Prepare(w, pc) /\ ~Exhausted(w) => Moves(w)
    BY <1>1, <1>2, PrepareMove DEF Retried, Cycle
  <1>5. \A f \in {"start", "prepare", "loop"} : ToBoundary(w, f) => Moves(w)
    BY <1>1, BoundaryMove
  <1>6. Return(w) => Moves(w)
    BY <1>1, <1>2, ReturnMove DEF Cycle
  <1>7. \A pc \in {"starting", "running", "pause", "stop", "fail"} :
           wk[w].pc \in Retried /\ Conflict(w, pc) => Moves(w)
    BY <1>1, ConflictMove
  <1> QED
    BY <1>1, <1>3, <1>4, <1>5, <1>6, <1>7

\* A write that needs the active claim and the read version.
LEMMA WriteMarkActs ==
    ASSUME IInv, NEW w \in Workers,
           NEW read \in {"starting", "running", "pause", "stop", "fail"},
           NEW write \in Retried, NEW may, NEW r, NEW s,
           WriteMark(w, read, write, may, r, s),
           s \in Sessions, s.pc \notin Retried \cup Critical,
           s.pc # "idle" => s.epoch = wk[w].epoch,
           Held(w) /\ may => Transforms(R(w), w, r)
    PROVE  Acts(w)
  <1>1. wk[w].pc = write /\ wk[w].pc \notin Cycle \cup {"idle"} /\ wk[w].pc \in Retried
    BY DEF WriteMark, Retried, Cycle
  <1>2. UNCHANGED <<lock, commands, faults>>
    BY DEF WriteMark
  <1>3. CASE Return(w) /\ UNCHANGED row
    BY <1>1, <1>2, <1>3, QuietMoves DEF Acts
  <1>4. CASE Conflict(w, read) /\ UNCHANGED row
    BY <1>1, <1>2, <1>4, QuietMoves DEF Acts
  <1>5. CASE Held(w) /\ wk[w].fresh /\ may /\ Written(wk[w].epoch, w, r, s)
    BY <1>1, <1>2, <1>5 DEF Acts, Commits, RowMove
  <1>6. CASE Goto(w, "fail") /\ UNCHANGED row
    <2>1. "fail" \in Points \ (Retried \cup Critical)
      BY DEF Points, Retried, Critical, Cycle
    <2> QED BY <1>1, <1>2, <1>6, <2>1, QuietMoves DEF Acts
  <1> QED
    BY <1>3, <1>4, <1>5, <1>6 DEF WriteMark

LEMMA ClaimActs == ASSUME IInv, NEW w \in Workers, Claim(w) PROVE Acts(w)
  <1>1. wk[w].pc \notin Cycle \cup {"idle"} /\ UNCHANGED <<lock, commands, faults>>
    BY DEF Claim, Cycle
  <1>2. CASE Goto(w, "fail") /\ UNCHANGED row
    <2>1. "fail" \in Points \ (Retried \cup Critical)
      BY DEF Points, Retried, Critical, Cycle
    <2> QED BY <1>1, <1>2, <2>1, QuietMoves DEF Acts
  <1>3. CASE /\ MayClaim(R(w))
             /\ Written(wk[w].epoch, w, Claimed(R(w), w),
                        [wk[w] EXCEPT !.pc = "running", !.fence = R(w).fence + 1, !.from = "prepare"])
    <2> DEFINE s == [wk[w] EXCEPT !.pc = "running", !.fence = R(w).fence + 1, !.from = "prepare"]
    <2>1. R(w).fence + 1 \in Nat
      BY SessionType
    <2>2. s \in Sessions /\ s.pc = "running" /\ s.epoch = wk[w].epoch
      BY <2>1, SessionType DEF Sessions, Points
    <2> HIDE DEF s
    <2>3. s.pc \notin Retried \cup Critical
      BY <2>2 DEF Retried, Critical, Cycle
    <2>4. Written(wk[w].epoch, w, Claimed(R(w), w), s)
      BY <1>3 DEF s
    <2>5. Transforms(R(w), w, Claimed(R(w), w))
      BY <1>3 DEF Transforms
    <2> QED BY <1>1, <2>2, <2>3, <2>4, <2>5 DEF Acts, Commits, RowMove
  <1> QED BY <1>2, <1>3 DEF Claim

LEMMA RecoverActs == ASSUME IInv, NEW w \in Workers, Recover(w) PROVE Acts(w)
  <1>1. wk[w].pc \notin Cycle \cup {"idle"} /\ UNCHANGED <<lock, commands, faults>>
    BY DEF Recover, Cycle
  <1>2. CASE Goto(w, "fail") /\ UNCHANGED row
    <2>1. "fail" \in Points \ (Retried \cup Critical)
      BY DEF Points, Retried, Critical, Cycle
    <2> QED BY <1>1, <1>2, <2>1, QuietMoves DEF Acts
  <1>3. CASE /\ MayRecover(R(w))
             /\ Written(wk[w].epoch, w, Recovered(R(w), w), AfterRecover(w))
    <2>1. R(w).fence + 1 \in Nat
      BY SessionType
    <2>2. /\ AfterRecover(w) \in Sessions
          /\ AfterRecover(w).pc \in {"starting", "pause", "stop"}
          /\ AfterRecover(w).epoch = wk[w].epoch
      BY <2>1, SessionType DEF AfterRecover, Boundary, Sessions, Points
    <2>3. AfterRecover(w).pc \notin Retried \cup Critical
      BY <2>2 DEF Retried, Critical, Cycle
    <2>4. Transforms(R(w), w, Recovered(R(w), w))
      BY <1>3 DEF Transforms
    <2> QED BY <1>1, <1>3, <2>2, <2>3, <2>4 DEF Acts, Commits, RowMove
  <1> QED BY <1>2, <1>3 DEF Recover

LEMMA SettleUnclaimedActs == ASSUME IInv, NEW w \in Workers, SettleUnclaimed(w) PROVE Acts(w)
  <1>1. wk[w].pc \notin Cycle \cup {"idle"} /\ UNCHANGED <<lock, commands, faults>>
    BY DEF SettleUnclaimed, Cycle
  <1>2. CASE Goto(w, "fail") /\ UNCHANGED row
    <2>1. "fail" \in Points \ (Retried \cup Critical)
      BY DEF Points, Retried, Critical, Cycle
    <2> QED BY <1>1, <1>2, <2>1, QuietMoves DEF Acts
  <1>3. CASE /\ MaySettleUnclaimed(R(w))
             /\ Written(wk[w].epoch, w, InState(R(w), R(w).desired), Idle)
    <2>1. Idle.pc \notin Retried \cup Critical
      BY IdleFields DEF Retried, Critical, Cycle
    <2>2. R(w).observed \notin TERMINAL \cup {"ABSENT"}
      <3>1. R(w).observed # "ABSENT"
        BY <1>1, SessionType DEF Fits, SessionFits
      <3>2. R(w).desired \in ALLOWED_OBSERVED_TRANSITIONS[R(w).observed]
        BY <1>3 DEF MaySettleUnclaimed
      <3> QED BY <3>1, <3>2 DEF ALLOWED_OBSERVED_TRANSITIONS, TERMINAL
    <2>3. Transforms(R(w), w, InState(R(w), R(w).desired))
      BY <1>3, <2>2 DEF Transforms
    <2> QED BY <1>1, <1>3, <2>1, <2>3, IdleFields DEF Acts, Commits, RowMove
  <1> QED BY <1>2, <1>3 DEF SettleUnclaimed

\* The loops of _mark_starting and _mark_running.
LEMMA ReadMarkActs ==
    ASSUME IInv, NEW w \in Workers, NEW read \in {"starting", "running"},
           NEW write \in Retried \ {"fail!"}, NEW f \in {"start", "prepare", "loop"}, NEW done,
           NEW next \in Points \ (Retried \cup Critical), ReadMark(w, read, write, f, done, next)
    PROVE  Acts(w)
  <1>1. wk[w].pc \notin Cycle \cup {"idle"} /\ UNCHANGED <<row, lock, commands, faults>>
    BY DEF ReadMark, Cycle
  <1>2. "fail" \in Points \ (Retried \cup Critical)
    BY DEF Points, Retried, Critical, Cycle
  <1>3. \/ Return(w) \/ ToBoundary(w, f) \/ Goto(w, next) \/ Goto(w, "fail")
        \/ Prepare(w, write) /\ ~Exhausted(w)
    BY DEF ReadMark
  <1> QED
    BY <1>1, <1>2, <1>3, QuietMoves DEF Acts

LEMMA MarkActs ==
    ASSUME IInv, NEW w \in Workers,
           ReadStarting(w) \/ MarkStarting(w) \/ ReadRunning(w) \/ MarkRunning(w)
    PROVE  Acts(w)
  <1>1. CASE ReadStarting(w)
    BY <1>1, ReadMarkActs DEF ReadStarting, Points, Retried, Critical, Cycle
  <1>2. CASE ReadRunning(w)
    BY <1>2, ReadMarkActs DEF ReadRunning, Points, Retried, Critical, Cycle
  <1>3. CASE MarkStarting(w)
    <2>1. /\ Session(w, "running") \in Sessions
          /\ Session(w, "running").pc = "running" /\ Session(w, "running").epoch = wk[w].epoch
      BY SessionType, NoTries DEF Session, Sessions, Points
    <2>2. Held(w) /\ MayAdvance(R(w), "STARTING")
            => Transforms(R(w), w, InState(R(w), "STARTING"))
      BY DEF Held, Owned, Transforms
    <2> QED BY <1>3, <2>1, <2>2, WriteMarkActs DEF MarkStarting, Retried, Critical, Cycle
  <1>4. CASE MarkRunning(w)
    <2>1. /\ Session(w, "authority") \in Sessions
          /\ Session(w, "authority").pc = "authority"
          /\ Session(w, "authority").epoch = wk[w].epoch
      BY SessionType, NoTries DEF Session, Sessions, Points
    <2>2. Held(w) /\ MayAdvance(R(w), "RUNNING")
            => Transforms(R(w), w, InState(R(w), "RUNNING"))
      BY DEF Held, Owned, Transforms
    <2> QED BY <1>4, <2>1, <2>2, WriteMarkActs DEF MarkRunning, Retried, Critical, Cycle
  <1> QED BY <1>1, <1>2, <1>3, <1>4

\* _require_cycle_authority, before the lock and below it: who goes on has the
\* present claim.
LEMMA AuthorityActs ==
    ASSUME IInv, NEW w \in Workers, NEW next,
           \/ wk[w].pc = "authority" /\ next = "lock"
           \/ wk[w].pc = "hook1" /\ next = "hook2"
           \/ wk[w].pc = "hook2" /\ next = "collecting",
           Authority(w, next), UNCHANGED <<row, commands, faults>>
    PROVE  Acts(w)
  <1>1. Reads /\ wk[w].pc # "idle"
    BY SessionType DEF Reads
  <1>2. CASE Return(w) /\ UnlockOf(w)
    BY <1>1, <1>2, LockStays, ReturnMove DEF Acts, Cycle
  <1>3. CASE ToBoundary(w, "loop") /\ UnlockOf(w)
    BY <1>1, <1>3, BoundaryMove DEF Acts
  <1>4. CASE Goto(w, "fail") /\ UnlockOf(w)
    <2>1. "fail" \in Points \ Retried /\ "fail" \notin Critical /\ "fail" \notin Cycle
      BY DEF Points, Retried, Critical, Cycle
    <2> QED BY <1>1, <1>4, <2>1, LockStays, GotoMove DEF Acts
  <1>5. CASE Held(w) /\ Goto(w, next) /\ UNCHANGED lock
    <2>1. next \in Points \ Retried
      BY DEF Points, Retried, Cycle
    <2>2. LockFor(w, next)
      BY <1>5, SessionType DEF LockFor, Cycle
    <2>3. ClaimOrFenced(w, wk[w], R(w))
      BY <1>5 DEF Held, Owned, ClaimOrFenced
    <2> QED BY <1>1, <1>5, <2>1, <2>2, <2>3, GotoMove DEF Acts
  <1> QED BY <1>2, <1>3, <1>4, <1>5 DEF Authority

LEMMA CycleActs ==
    ASSUME IInv, NEW w \in Workers,
           \/ AskAuthority(w) \/ TakeLock(w) \/ LockBusy(w) \/ AskBelowLock(w) \/ NotDue(w)
           \/ BeginCollecting(w) \/ EndCollecting(w) \/ CycleFails(w) \/ After(w)
    PROVE  Acts(w)
  <1>1. CASE AskAuthority(w) \/ AskBelowLock(w) \/ BeginCollecting(w)
    BY <1>1, AuthorityActs DEF AskAuthority, AskBelowLock, BeginCollecting
  <1>2. CASE TakeLock(w)
    <2>1. wk[w].pc = "lock" /\ Reads /\ Goto(w, "hook1")
      BY <1>2, SessionType DEF TakeLock, Reads
    <2>2. ClaimOrFenced(w, wk[w], R(w))
      BY <2>1, SessionType DEF Fits, Critical
    <2>3. "hook1" \in Points \ Retried /\ LockFor(w, "hook1")
      BY <1>2 DEF TakeLock, LockFor, Points, Retried, Cycle
    <2> QED BY <2>1, <2>2, <2>3, GotoMove DEF Acts
  <1>3. CASE LockBusy(w)
    <2>1. wk[w].pc \notin Cycle \cup {"idle"} /\ UNCHANGED <<row, lock, commands, faults>>
      BY <1>3 DEF LockBusy, Cycle
    <2>2. "fail" \in Points \ (Retried \cup Critical)
      BY DEF Points, Retried, Critical, Cycle
    <2> QED BY <1>3, <2>1, <2>2, QuietMoves DEF LockBusy, Acts
  <1>4. CASE NotDue(w) \/ EndCollecting(w)
    <2>1. wk[w].pc \in Cycle /\ wk[w].pc # "idle" /\ Reads /\ Goto(w, "after") /\ lock' = NoOwner
      BY <1>4, SessionType DEF NotDue, EndCollecting, Cycle, Reads
    <2>2. "after" \in Points \ Retried /\ "after" \notin Critical /\ LockFor(w, "after")
      BY <2>1, SessionType DEF LockFor, Points, Retried, Critical, Cycle
    <2> QED BY <2>1, <2>2, GotoMove DEF Acts
  <1>5. CASE CycleFails(w)
    <2>1. wk[w].pc \in Cycle /\ wk[w].pc # "idle" /\ Reads /\ Goto(w, "fail") /\ lock' = NoOwner
      BY <1>5, SessionType, BoundsAssumption DEF CycleFails, Cycle, Reads
    <2>2. "fail" \in Points \ Retried /\ "fail" \notin Critical /\ LockFor(w, "fail")
      BY <2>1, SessionType DEF LockFor, Points, Retried, Critical, Cycle
    <2> QED BY <2>1, <2>2, GotoMove DEF Acts
  <1>6. CASE After(w)
    <2>1. wk[w].pc \notin Cycle \cup {"idle"} /\ UNCHANGED <<row, lock, commands, faults>>
      BY <1>6 DEF After, Cycle
    <2> QED BY <1>6, <2>1, QuietMoves DEF After, Acts
  <1> QED BY <1>1, <1>2, <1>3, <1>4, <1>5, <1>6

\* _settle_control_boundary.
LEMMA SettledType ==
    ASSUME IInv, NEW w \in Workers
    PROVE  /\ Settled(w) \in Sessions
           /\ Settled(w).pc \in {"fail", "idle"}
           /\ Settled(w).pc # "idle" => Settled(w).epoch = wk[w].epoch
  <1>1. CASE wk[w].from = "start"
    BY <1>1, SessionType, NoTries DEF Settled, Session, Sessions, Points
  <1>2. CASE wk[w].from # "start"
    BY <1>2, IdleFields DEF Settled
  <1> QED BY <1>1, <1>2

LEMMA BoundaryActs ==
    ASSUME IInv, NEW w \in Workers,
           ReadPause(w) \/ SettlePaused(w) \/ ReadStop(w) \/ MarkStopping(w) \/ SettleStopped(w)
    PROVE  Acts(w)
  <1>1. {"fail", "authority"} \subseteq Points \ (Retried \cup Critical)
    BY DEF Points, Retried, Critical, Cycle
  <1>2. CASE ReadPause(w)
    <2>1. wk[w].pc \notin Cycle \cup {"idle"} /\ UNCHANGED <<row, lock, commands, faults>>
      BY <1>2 DEF ReadPause, Cycle
    <2>2. wk[w].from \in {"start", "prepare", "loop"}
      BY SessionType DEF Sessions
    <2>3. \/ Return(w) \/ ToBoundary(w, wk[w].from)
          \/ Goto(w, "fail") \/ Goto(w, "authority")
          \/ Prepare(w, "pause!") /\ ~Exhausted(w)
      BY <1>2, <2>2 DEF ReadPause, Resumed
    <2>4. "pause!" \in Retried \ {"fail!"}
      BY DEF Retried
    <2> QED BY <1>1, <2>1, <2>2, <2>3, <2>4, QuietMoves DEF Acts
  <1>3. CASE ReadStop(w)
    <2>1. wk[w].pc \notin Cycle \cup {"idle"} /\ UNCHANGED <<row, lock, commands, faults>>
      BY <1>3 DEF ReadStop, Cycle
    <2>2. \/ Return(w) \/ Goto(w, "fail")
          \/ \E pc \in {"stop!", "stopping!"} : Prepare(w, pc) /\ ~Exhausted(w)
      BY <1>3 DEF ReadStop
    <2>3. {"stop!", "stopping!"} \subseteq Retried \ {"fail!"}
      BY DEF Retried
    <2> QED BY <1>1, <2>1, <2>2, <2>3, QuietMoves DEF Acts
  <1>4. CASE SettlePaused(w)
    <2>1. Held(w) /\ MayPause(R(w)) => Transforms(R(w), w, Released(R(w), "PAUSED"))
      BY DEF Held, Owned, Transforms
    <2>2. Settled(w).pc \notin Retried \cup Critical
      BY SettledType DEF Retried, Critical, Cycle
    <2> QED BY <1>4, <2>1, <2>2, SettledType, WriteMarkActs DEF SettlePaused, Retried
  <1>5. CASE SettleStopped(w)
    <2>1. Held(w) /\ MayStop(R(w)) => Transforms(R(w), w, Released(R(w), "STOPPED"))
      BY DEF Held, Owned, Transforms
    <2>2. Settled(w).pc \notin Retried \cup Critical
      BY SettledType DEF Retried, Critical, Cycle
    <2> QED BY <1>5, <2>1, <2>2, SettledType, WriteMarkActs DEF SettleStopped, Retried
  <1>6. CASE MarkStopping(w)
    <2>1. /\ Session(w, "stop") \in Sessions
          /\ Session(w, "stop").pc = "stop" /\ Session(w, "stop").epoch = wk[w].epoch
      BY SessionType, NoTries DEF Session, Sessions, Points
    <2>2. Held(w) /\ MayStopping(R(w)) => Transforms(R(w), w, InState(R(w), "STOPPING"))
      BY DEF Held, Owned, Transforms
    <2>3. WriteMark(w, "stop", "stopping!", MayStopping(R(w)),
                    InState(R(w), "STOPPING"), Session(w, "stop"))
      BY <1>6 DEF MarkStopping, WriteMark
    <2> QED BY <2>1, <2>2, <2>3, WriteMarkActs DEF Retried, Critical, Cycle
  <1> QED BY <1>2, <1>3, <1>4, <1>5, <1>6

\* _fail_if_owned: the epoch was not over when it was read.
LEMMA FailActs ==
    ASSUME IInv, NEW w \in Workers, ReadFail(w) \/ FailEpoch(w)
    PROVE  Acts(w)
  <1>1. wk[w].pc \notin Cycle \cup {"idle"} /\ UNCHANGED <<lock, commands, faults>>
    BY DEF ReadFail, FailEpoch, Cycle
  <1>2. CASE Return(w) /\ UNCHANGED row
    BY <1>1, <1>2, QuietMoves DEF Acts
  <1>3. CASE wk[w].pc = "fail!" /\ Conflict(w, "fail") /\ UNCHANGED row
    BY <1>1, <1>3, QuietMoves DEF Acts, Retried
  <1>4. CASE /\ R(w).observed \notin TERMINAL /\ ~Exhausted(w) /\ UNCHANGED row
             /\ SetWk(w, [wk[w] EXCEPT !.pc = "fail!", !.fresh = TRUE, !.fence = R(w).fence])
    <2> DEFINE s == [wk[w] EXCEPT !.pc = "fail!", !.fresh = TRUE, !.fence = R(w).fence]
    <2>1. s \in Sessions /\ s.pc = "fail!" /\ s.epoch = wk[w].epoch /\ s.tries = wk[w].tries
      BY SessionType DEF Sessions, Points, Writes
    <2>2. wk' = [wk EXCEPT ![w] = s]
      BY <1>4 DEF SetWk
    <2> HIDE DEF s
    <2>3. s.tries < Attempts
      BY <1>4, <2>1, SessionType, BoundsAssumption DEF Exhausted
    <2>4. Fits(w, s, row[s.epoch])
      BY <1>1, <1>4, <2>1, <2>3, SessionType DEF Fits, SessionFits, Critical, Cycle, R
    <2>5. LockFor(w, s.pc) /\ Reads
      BY <1>1, <1>4, <2>1, LockStays, SessionType DEF Cycle, Reads
    <2> QED BY <2>1, <2>2, <2>4, <2>5 DEF Acts, Moves, SessionMove, Reads
  <1>5. CASE /\ R(w).owner = NoOwner \/ Held(w)
             /\ wk[w].pc = "fail!" /\ wk[w].fresh
             /\ Written(wk[w].epoch, w, Released(R(w), "FAILED"), Idle)
    <2>1. R(w).observed \notin TERMINAL \cup {"ABSENT"}
      BY <1>5, SessionType DEF Fits, SessionFits
    <2>2. Transforms(R(w), w, Released(R(w), "FAILED"))
      BY <1>5, <2>1 DEF Transforms, Held, Owned
    <2>3. Idle.pc \notin Retried \cup Critical
      BY IdleFields DEF Retried, Critical, Cycle
    <2> QED BY <1>1, <1>5, <2>2, <2>3, IdleFields DEF Acts, Commits, RowMove
  <1> QED BY <1>2, <1>3, <1>4, <1>5 DEF ReadFail, FailEpoch

\* A call that fails ends the poll and frees the lock.
LEMMA DatabaseFailsActs == ASSUME IInv, NEW w \in Workers, DatabaseFails(w) PROVE Acts(w)
  <1>1. Return(w) /\ UnlockOf(w) /\ Reads
    BY SessionType, BoundsAssumption DEF DatabaseFails, Fault, Reads
  <1> QED BY <1>1, LockStays, ReturnMove DEF Acts, Cycle

\* Whatever a live worker does is a read or a transformation of its row.
LEMMA StepActs ==
    ASSUME IInv, NEW w \in Workers, Step(w) \/ CycleFails(w) \/ DatabaseFails(w)
    PROVE  Acts(w)
  BY LoadActs, ClaimActs, RecoverActs, SettleUnclaimedActs, MarkActs, CycleActs, BoundaryActs,
     FailActs, DatabaseFailsActs DEF Step

-----------------------------------------------------------------------------
(* The invariant *)

LEMMA InitIInv == Init => IInv
  <1> SUFFICES ASSUME Init PROVE IInv
    OBVIOUS
  <1>1. AbsentRow \in Rows /\ WellFormed(AbsentRow)
    BY DEF AbsentRow, Rows, WellFormed, DesiredState, ClaimRequired
  <1>2. TypeOK
    BY <1>1, IdleFields, WorkersAssumption, BoundsAssumption DEF Init, TypeOK, Cycle
  <1>3. \A w \in Workers : Fits(w, wk[w], R(w))
    BY IdleFields DEF Init, Fits, SessionFits, Retried, Critical, Cycle
  <1> QED BY <1>2, <1>3 DEF IInv

LEMMA MovesKeep == ASSUME IInv, NEW w \in Workers, Moves(w) PROVE IInv'
  <1>1. PICK s : SessionMove(w, s)
    BY DEF Moves
  <1>2. /\ row' = row /\ wk' \in [Workers -> Sessions] /\ wk'[w] = s
        /\ \A v \in Workers \ {w} : wk'[v] = wk[v]
    BY <1>1 DEF IInv, TypeOK, SessionMove
  <1>3. /\ lock' \in Workers \cup {NoOwner}
        /\ \A v \in Workers : wk'[v].pc \in Cycle <=> lock' = v
    BY <1>1, <1>2, WorkersAssumption DEF IInv, TypeOK, SessionMove, LockFor
  <1>4. TypeOK'
    BY <1>1, <1>2, <1>3 DEF IInv, TypeOK, SessionMove
  <1>5. ASSUME NEW v \in Workers PROVE Fits(v, wk'[v], R(v)')
    <2>1. CASE v = w
      BY <1>1, <1>2, <2>1 DEF SessionMove, R
    <2>2. CASE v # w
      BY <1>2, <2>2 DEF IInv, R
    <2> QED BY <2>1, <2>2
  <1> QED BY <1>4, <1>5 DEF IInv

\* Losing its snapshot changes nothing else of a session.
LEMMA StaleSession ==
    ASSUME NEW x \in Sessions, NEW s, s = [x EXCEPT !.fresh = FALSE]
    PROVE  /\ s \in Sessions /\ ~s.fresh
           /\ s.pc = x.pc /\ s.epoch = x.epoch /\ s.fence = x.fence /\ s.tries = x.tries
  BY DEF Sessions

\* What a session of another worker relies on survives a commit to its row.
LEMMA CommitsKeep == ASSUME IInv, NEW w \in Workers, Commits(w) PROVE IInv'
  <1>1. PICK s, t : RowMove(w, s, t)
    BY DEF Commits
  <1> DEFINE e == wk[w].epoch
  <1>2. /\ t \in Rows /\ WellFormed(t)
        /\ t.observed # "ABSENT" /\ row[e].observed # "ABSENT"
        /\ t.fence >= row[e].fence
        /\ \A v \in Workers \ {w} : row[e].owner = v => t.owner = v \/ t.fence > row[e].fence
        /\ e \in Epochs
    BY <1>1, SessionType, TransformType DEF RowMove, R
  <1>3. /\ row' \in [Epochs -> Rows] /\ row'[e] = t
        /\ \A f \in Epochs \ {e} : row'[f] = row[f]
    BY <1>1, <1>2 DEF RowMove, Written, Update, IInv, TypeOK
  <1>4. /\ wk'[w] = s
        /\ \A v \in Workers \ {w} : wk'[v] = IF wk[v].epoch = e THEN [wk[v] EXCEPT !.fresh = FALSE]
                                             ELSE wk[v]
        /\ wk' = [v \in Workers |-> wk'[v]]
    BY <1>1 DEF RowMove, Written
  <1>5. \A v \in Workers \ {w} :
          /\ wk'[v] \in Sessions /\ wk'[v].pc = wk[v].pc /\ wk'[v].epoch = wk[v].epoch
          /\ wk'[v].fence = wk[v].fence /\ wk'[v].tries = wk[v].tries
          /\ wk[v].epoch = e => ~wk'[v].fresh
          /\ wk[v].epoch # e => wk'[v] = wk[v]
    <2> TAKE v \in Workers \ {w}
    <2>1. wk[v] \in Sessions
      BY SessionType
    <2>2. CASE wk[v].epoch = e
      <3>1. wk'[v] = [wk[v] EXCEPT !.fresh = FALSE]
        BY <1>4, <2>2
      <3> QED BY <2>1, <2>2, <3>1, StaleSession
    <2>3. CASE wk[v].epoch # e
      BY <1>4, <2>1, <2>3
    <2> QED BY <2>2, <2>3
  <1>6. s \in Sessions /\ s.pc \notin Retried \cup Critical /\ (s.pc # "idle" => s.epoch = e)
        /\ wk[w].pc \notin Cycle /\ UNCHANGED <<lock, commands, faults>>
    BY <1>1 DEF RowMove
  <1>7. \A v \in Workers : wk'[v] \in Sessions /\ (wk'[v].pc \in Cycle <=> lock' = v)
    <2>1. s.pc \notin Cycle
      BY <1>6 DEF Critical
    <2> QED BY <1>4, <1>5, <1>6, <2>1, SessionType
  <1>8. TypeOK'
    BY <1>2, <1>3, <1>4, <1>6, <1>7 DEF IInv, TypeOK
  <1>9. ASSUME NEW v \in Workers PROVE Fits(v, wk'[v], R(v)')
    <2>1. CASE v = w
      <3>1. wk'[v] = s /\ R(v)' = row'[s.epoch]
        BY <1>4, <2>1 DEF R
      <3> QED BY <1>2, <1>3, <1>6, <3>1 DEF Fits, SessionFits, Retried
    <2>2. CASE v # w /\ wk[v].epoch # e
      <3>1. wk'[v] = wk[v] /\ R(v)' = R(v)
        BY <1>3, <1>5, <2>2, SessionType DEF R
      <3> QED BY <3>1, SessionType
    <2>3. CASE v # w /\ wk[v].epoch = e
      <3>1. R(v)' = t /\ R(v) = row[e] /\ ~wk'[v].fresh
            /\ wk'[v].pc = wk[v].pc /\ wk'[v].fence = wk[v].fence /\ wk'[v].tries = wk[v].tries
        BY <1>3, <1>5, <2>3, SessionType DEF R
      <3>2. SessionFits(wk'[v], t)
        BY <1>2, <3>1, SessionType DEF Fits, SessionFits
      <3>3. wk[v].pc \in Critical => ClaimOrFenced(v, wk[v], row[e])
        BY <3>1, SessionType DEF Fits
      <3>4. t.fence \in Nat /\ row[e].fence \in Nat /\ wk[v].fence \in Nat
        BY <1>2, SessionType DEF R, Rows
      <3>5. wk[v].pc \in Critical => ClaimOrFenced(v, wk'[v], t)
        BY <1>2, <2>3, <3>1, <3>3, <3>4 DEF ClaimOrFenced
      <3> QED BY <3>1, <3>2, <3>5 DEF Fits
    <2> QED BY <2>1, <2>2, <2>3
  <1> QED BY <1>8, <1>9 DEF IInv

LEMMA StartKeeps == ASSUME IInv, NEW e \in Epochs, Start(e) PROVE IInv'
  <1>1. /\ row[e].observed = "ABSENT" /\ row' = [row EXCEPT ![e] = InState(row[e], "PENDING")]
        /\ row[e] \in Rows /\ WellFormed(row[e]) /\ UNCHANGED <<wk, lock, commands, faults>>
    BY DEF Start, InsertEpoch, InState, IInv, TypeOK
  <1>2. /\ InState(row[e], "PENDING") \in Rows /\ WellFormed(InState(row[e], "PENDING"))
    BY <1>1, InStateFields DEF WellFormed, ClaimRequired, ObservedState, Rows
  <1>3. TypeOK'
    BY <1>1, <1>2 DEF IInv, TypeOK
  <1>4. ASSUME NEW v \in Workers PROVE Fits(v, wk'[v], R(v)')
    <2>1. CASE wk[v].pc = "idle"
      BY <1>1, <2>1 DEF Fits, SessionFits, Retried, Critical, Cycle
    <2>2. CASE wk[v].pc # "idle"
      <3>1. wk[v].epoch # e
        BY <1>1, <2>2, SessionType DEF Fits, SessionFits, R
      <3>2. R(v)' = R(v)
        BY <1>1, <3>1, SessionType DEF R, IInv, TypeOK
      <3> QED BY <1>1, <3>2, SessionType
    <2> QED BY <2>1, <2>2
  <1> QED BY <1>3, <1>4 DEF IInv

\* A command changes what is desired of a live epoch, nothing else of it.
LEMMA CommandKeeps == ASSUME IInv, NEW e \in Epochs, Command(e) PROVE IInv'
  <1>1. PICK d \in DesiredState : RequestCommand(e, d)
    BY DEF Command
  <1> DEFINE t == [row[e] EXCEPT !.desired = d]
  <1>2. row[e] \in Rows /\ WellFormed(row[e]) /\ row' = [row EXCEPT ![e] = t]
        /\ row[e].observed \notin TERMINAL \cup {"ABSENT"}
    BY <1>1 DEF RequestCommand, NonTerminal, IInv, TypeOK
  <1>3. /\ t \in Rows /\ t.observed = row[e].observed /\ t.owner = row[e].owner
        /\ t.fence = row[e].fence /\ t.expired = row[e].expired
    BY <1>2 DEF Rows
  <1> HIDE DEF t
  <1>4. WellFormed(t)
    BY <1>2, <1>3 DEF WellFormed, TERMINAL
  <1>5. /\ row' \in [Epochs -> Rows] /\ \A f \in Epochs : WellFormed(row'[f])
        /\ \A f \in Epochs : /\ row'[f].observed = row[f].observed
                             /\ row'[f].owner = row[f].owner /\ row'[f].fence = row[f].fence
    BY <1>2, <1>3, <1>4 DEF IInv, TypeOK
  <1>6. /\ wk' = [v \in Workers |-> wk'[v]]
        /\ \A v \in Workers : \/ wk'[v] = wk[v]
                              \/ wk'[v] = [wk[v] EXCEPT !.fresh = FALSE]
    BY DEF Command, Stale
  <1>7. \A v \in Workers :
          /\ wk'[v] \in Sessions
          /\ wk'[v].pc = wk[v].pc /\ wk'[v].epoch = wk[v].epoch
          /\ wk'[v].fence = wk[v].fence /\ wk'[v].tries = wk[v].tries
          /\ wk'[v].fresh => wk[v].fresh
    BY <1>6, SessionType, StaleSession
  <1>8. lock' = lock /\ commands' \in 0..MaxCommands /\ faults' = faults
    BY BoundsAssumption DEF Command, IInv, TypeOK
  <1>9. TypeOK'
    BY <1>5, <1>6, <1>7, <1>8 DEF IInv, TypeOK
  <1>10. ASSUME NEW v \in Workers PROVE Fits(v, wk'[v], R(v)')
    <2>1. /\ R(v)'.observed = R(v).observed /\ R(v)'.owner = R(v).owner
          /\ R(v)'.fence = R(v).fence
      BY <1>5, <1>7, SessionType DEF R
    <2> QED BY <1>7, <2>1, SessionType DEF Fits, SessionFits, ClaimOrFenced
  <1> QED BY <1>9, <1>10 DEF IInv

\* A lease that runs out touches no owner, fence or state.
LEMMA LeaseKeeps == ASSUME IInv, NEW e \in Epochs, Lapse(e) \/ Expire(e) PROVE IInv'
  <1> DEFINE t == [row[e] EXCEPT !.expired = TRUE]
  <1>1. /\ row[e] \in Rows /\ WellFormed(row[e]) /\ row' = [row EXCEPT ![e] = t]
        /\ row[e].owner # NoOwner
        /\ UNCHANGED <<wk, lock, commands>> /\ faults' \in 0..MaxFaults
    BY WorkersAssumption, BoundsAssumption DEF Lapse, Expire, Fault, IInv, TypeOK
  <1>2. /\ t \in Rows /\ t.observed = row[e].observed /\ t.owner = row[e].owner
        /\ t.fence = row[e].fence /\ t.desired = row[e].desired
    BY <1>1 DEF Rows
  <1> HIDE DEF t
  <1>3. WellFormed(t)
    BY <1>1, <1>2 DEF WellFormed
  <1>4. /\ row' \in [Epochs -> Rows] /\ \A f \in Epochs : WellFormed(row'[f])
        /\ \A f \in Epochs : /\ row'[f].observed = row[f].observed
                             /\ row'[f].owner = row[f].owner /\ row'[f].fence = row[f].fence
    BY <1>1, <1>2, <1>3 DEF IInv, TypeOK
  <1>5. TypeOK'
    BY <1>1, <1>4 DEF IInv, TypeOK
  <1>6. ASSUME NEW v \in Workers PROVE Fits(v, wk'[v], R(v)')
    <2>1. /\ R(v)'.observed = R(v).observed /\ R(v)'.owner = R(v).owner
          /\ R(v)'.fence = R(v).fence /\ wk'[v] = wk[v]
      BY <1>1, <1>4, SessionType DEF R
    <2> QED BY <2>1, SessionType DEF Fits, SessionFits, ClaimOrFenced
  <1> QED BY <1>5, <1>6 DEF IInv

\* A process that ends leaves its claims to a name that nobody has.
LEMMA CrashKeeps == ASSUME IInv, NEW w \in Workers, Crash(w) PROVE IInv'
  <1>1. \A e \in Epochs : row[e] \in Rows /\ WellFormed(row[e])
    BY DEF IInv, TypeOK
  <1>2. /\ row' = [e \in Epochs |-> row'[e]]
        /\ \A e \in Epochs : row'[e] = IF row[e].owner = w THEN [row[e] EXCEPT !.owner = Gone]
                                       ELSE row[e]
    BY DEF Crash
  <1>3. \A e \in Epochs : /\ row'[e] \in Rows
                          /\ row'[e].observed = row[e].observed /\ row'[e].fence = row[e].fence
                          /\ row'[e].expired = row[e].expired /\ row'[e].desired = row[e].desired
                          /\ row'[e].owner = IF row[e].owner = w THEN Gone ELSE row[e].owner
    BY <1>1, <1>2 DEF Rows
  <1>4. \A e \in Epochs : WellFormed(row'[e])
    BY <1>1, <1>3, WorkersAssumption DEF WellFormed
  <1>5. /\ wk' = [wk EXCEPT ![w] = Idle] /\ UnlockOf(w)
        /\ commands' = commands /\ faults' \in 0..MaxFaults
    BY BoundsAssumption DEF Crash, Fault, Return, SetWk, IInv, TypeOK
  <1>6. /\ wk' \in [Workers -> Sessions] /\ wk'[w] = Idle
        /\ \A v \in Workers \ {w} : wk'[v] = wk[v]
    BY <1>5, IdleFields DEF IInv, TypeOK
  <1>7. /\ lock' \in Workers \cup {NoOwner}
        /\ \A v \in Workers : wk'[v].pc \in Cycle <=> lock' = v
    BY <1>5, <1>6, SessionType, IdleFields, WorkersAssumption DEF UnlockOf, IInv, TypeOK, Cycle
  <1>8. TypeOK'
    BY <1>2, <1>3, <1>4, <1>5, <1>6, <1>7 DEF IInv, TypeOK
  <1>9. ASSUME NEW v \in Workers PROVE Fits(v, wk'[v], R(v)')
    <2>1. CASE v = w
      BY <1>6, <2>1, IdleFields DEF Fits, SessionFits, Retried, Critical, Cycle
    <2>2. CASE v # w
      <3>1. /\ R(v)'.observed = R(v).observed /\ R(v)'.fence = R(v).fence
            /\ R(v)'.owner = (IF R(v).owner = w THEN Gone ELSE R(v).owner)
            /\ wk'[v] = wk[v]
        BY <1>3, <1>6, <2>2, SessionType DEF R
      <3> QED BY <2>2, <3>1, SessionType DEF Fits, SessionFits, ClaimOrFenced
    <2> QED BY <2>1, <2>2
  <1> QED BY <1>8, <1>9 DEF IInv

\* Every step keeps the invariant.
LEMMA NextIInv == IInv /\ [Next]_vars => IInv'
  <1> SUFFICES ASSUME IInv, [Next]_vars PROVE IInv'
    OBVIOUS
  <1>1. CASE UNCHANGED vars
    BY <1>1 DEF vars, IInv, TypeOK, Fits, SessionFits, ClaimOrFenced, R
  <1>2. ASSUME NEW e \in Epochs, Start(e) \/ Command(e) \/ Lapse(e) \/ Expire(e) PROVE IInv'
    BY <1>2, StartKeeps, CommandKeeps, LeaseKeeps
  <1>3. ASSUME NEW w \in Workers, Step(w) \/ CycleFails(w) \/ DatabaseFails(w) PROVE IInv'
    BY <1>3, StepActs, MovesKeep, CommitsKeep DEF Acts
  <1>4. ASSUME NEW w \in Workers, Crash(w) PROVE IInv'
    BY <1>4, CrashKeeps
  <1> QED BY <1>1, <1>2, <1>3, <1>4 DEF Next

LEMMA Invariance == Spec => []IInv
  BY InitIInv, NextIInv, PTL DEF Spec

\* Rows stay what the table's checks admit, the collection lock belongs to
\* the one worker below it, and whoever collects, or is about to, has the
\* present claim of its epoch or was fenced by a recovery (epochs of
\* operational_market_data_collectors, run_epoch and its cycle).
THEOREM ClaimsAlwaysHold == Spec => []ClaimsHold
  <1>1. IInv => ClaimsHold
    BY DEF IInv, Fits, ClaimOrFenced, ClaimsHold, CollectorsAreFenced, Owned, Critical
  <1> QED BY <1>1, Invariance, PTL

-----------------------------------------------------------------------------
(* The contract *)

Phases == {"NONE", "OPEN", "HELD", "PAUSED", "STOPPED", "FAILED"}
Terms == [desired : DesiredState, phase : Phases, fence : Nat, expired : BOOLEAN]

\* The contract's phase by the observed state.
LEMMA TermsFields ==
    ASSUME NEW r \in Rows
    PROVE  /\ TermsOf(r) \in Terms
           /\ TermsOf(r).desired = r.desired /\ TermsOf(r).fence = r.fence
           /\ TermsOf(r).expired = r.expired
           /\ r.observed = "ABSENT" => TermsOf(r).phase = "NONE"
           /\ r.observed = "PENDING" => TermsOf(r).phase = "OPEN"
           /\ r.observed \in ClaimRequired => TermsOf(r).phase = "HELD"
           /\ r.observed \in {"PAUSED", "STOPPED", "FAILED"} => TermsOf(r).phase = r.observed
  <1>1. r.observed \in ClaimRequired \cup {"ABSENT", "PENDING", "PAUSED", "STOPPED", "FAILED"}
    BY DEF Rows, ObservedState, TERMINAL
  <1> DEFINE phase == CASE r.observed = "ABSENT" -> "NONE"
                        [] r.observed = "PENDING" -> "OPEN"
                        [] r.observed \in ClaimRequired -> "HELD"
                        [] OTHER -> r.observed
  <1>2. /\ r.observed = "ABSENT" => phase = "NONE"
        /\ r.observed = "PENDING" => phase = "OPEN"
        /\ r.observed \in ClaimRequired => phase = "HELD"
        /\ r.observed \in {"PAUSED", "STOPPED", "FAILED"} => phase = r.observed
        /\ phase \in Phases
    BY <1>1 DEF ClaimRequired, Phases
  <1>3. TermsOf(r) = [desired |-> r.desired, phase |-> phase, fence |-> r.fence,
                      expired |-> r.expired]
    BY DEF TermsOf
  <1> HIDE DEF phase
  <1> QED BY <1>2, <1>3 DEF Terms, Rows

\* A write of one row changes one entry of the contract.
LEMMA TermsUpdate ==
    ASSUME row \in [Epochs -> Rows], NEW e \in Epochs, NEW t \in Rows,
           row' = [row EXCEPT ![e] = t]
    PROVE  /\ terms \in [Epochs -> Terms] /\ terms[e] = TermsOf(row[e])
           /\ terms' = [terms EXCEPT ![e] = TermsOf(t)]
           /\ TermsOf(row[e]) \in Terms /\ TermsOf(t) \in Terms
  <1>1. \A f \in Epochs : TermsOf(row[f]) \in Terms
    BY TermsFields
  <1>2. TermsOf(t) \in Terms
    BY TermsFields
  <1>3. terms' = [f \in Epochs |-> TermsOf(row'[f])]
    BY DEF terms
  <1> QED BY <1>1, <1>2, <1>3 DEF terms

\* The steps of the contract, as changes of one entry.
LEMMA ContractSteps ==
    ASSUME terms \in [Epochs -> Terms], NEW e \in Epochs, NEW u \in Terms,
           terms' = [terms EXCEPT ![e] = u],
           LET q == terms[e] IN
              \/ /\ q.phase \in {"OPEN", "PAUSED"} /\ q.desired = "RUNNING"
                 /\ u.phase = "HELD" /\ u.fence = q.fence + 1
                 /\ u.desired = q.desired /\ u.expired = q.expired
              \/ /\ q.phase = "HELD" /\ q.expired
                 /\ u.fence = q.fence + 1 /\ ~u.expired
                 /\ u.phase = q.phase /\ u.desired = q.desired
              \/ /\ q.phase = "HELD" /\ u.expired
                 /\ u.fence = q.fence /\ u.phase = q.phase /\ u.desired = q.desired
              \/ /\ q.phase \in {"OPEN", "HELD", "PAUSED"} /\ ~q.expired
                 /\ q.desired \in {"PAUSED", "STOPPED"} /\ u.phase = q.desired
                 /\ u.fence = q.fence /\ u.expired = q.expired /\ u.desired = q.desired
              \/ /\ q.phase \notin {"NONE", "STOPPED", "FAILED"} /\ ~q.expired
                 /\ u.phase = "FAILED"
                 /\ u.fence = q.fence /\ u.expired = q.expired /\ u.desired = q.desired
              \/ /\ q.phase \notin {"NONE", "STOPPED", "FAILED"} /\ q.desired # "STOPPED"
                 /\ u.phase = q.phase /\ u.fence = q.fence /\ u.expired = q.expired
                 /\ u.desired # q.desired
              \/ u = q
    PROVE  [Contract!Next]_terms
  <1> DEFINE q == terms[e]
  <1>0. /\ q \in Terms
        /\ q.desired \in DesiredState /\ u.desired \in DesiredState
        /\ q.expired \in BOOLEAN /\ u.expired \in BOOLEAN
    BY DEF Terms
  <1>1. CASE /\ q.phase \in {"OPEN", "PAUSED"} /\ q.desired = "RUNNING"
             /\ u.phase = "HELD" /\ u.fence = q.fence + 1
             /\ u.desired = q.desired /\ u.expired = q.expired
    <2>1. u = [q EXCEPT !.phase = "HELD", !.fence = @ + 1]
      BY <1>0, <1>1 DEF Terms
    <2>2. terms' = [terms EXCEPT ![e].phase = "HELD", ![e].fence = @ + 1]
      BY <2>1
    <2> QED BY <1>1, <2>2 DEF Contract!Next, Contract!Take
  <1>2. CASE /\ q.phase = "HELD" /\ q.expired
             /\ u.fence = q.fence + 1 /\ ~u.expired
             /\ u.phase = q.phase /\ u.desired = q.desired
    <2>1. u = [q EXCEPT !.fence = @ + 1, !.expired = FALSE]
      BY <1>0, <1>2 DEF Terms
    <2>2. terms' = [terms EXCEPT ![e].fence = @ + 1, ![e].expired = FALSE]
      BY <2>1
    <2> QED BY <1>0, <1>2, <2>2 DEF Contract!Next, Contract!TakeOver
  <1>3. CASE /\ q.phase = "HELD" /\ u.expired
             /\ u.fence = q.fence /\ u.phase = q.phase /\ u.desired = q.desired
    <2>1. u = [q EXCEPT !.expired = TRUE]
      BY <1>0, <1>3 DEF Terms
    <2>2. terms' = [terms EXCEPT ![e].expired = TRUE]
      BY <2>1
    <2> QED BY <1>0, <1>3, <2>2 DEF Contract!Next, Contract!LeaseEnds
  <1>4. CASE /\ q.phase \in {"OPEN", "HELD", "PAUSED"} /\ ~q.expired
             /\ q.desired \in {"PAUSED", "STOPPED"} /\ u.phase = q.desired
             /\ u.fence = q.fence /\ u.expired = q.expired /\ u.desired = q.desired
    <2>1. u = [q EXCEPT !.phase = q.desired]
      BY <1>0, <1>4 DEF Terms
    <2>2. terms' = [terms EXCEPT ![e].phase = terms[e].desired]
      BY <2>1
    <2> QED BY <1>0, <1>4, <2>2 DEF Contract!Next, Contract!Settle
  <1>5. CASE /\ q.phase \notin {"NONE", "STOPPED", "FAILED"} /\ ~q.expired
             /\ u.phase = "FAILED"
             /\ u.fence = q.fence /\ u.expired = q.expired /\ u.desired = q.desired
    <2>1. u = [q EXCEPT !.phase = "FAILED"]
      BY <1>0, <1>5 DEF Terms
    <2>2. terms' = [terms EXCEPT ![e].phase = "FAILED"]
      BY <2>1
    <2> QED BY <1>0, <1>5, <2>2 DEF Contract!Next, Contract!Fail, Contract!Live, Contract!Over
  <1>6. CASE /\ q.phase \notin {"NONE", "STOPPED", "FAILED"} /\ q.desired # "STOPPED"
             /\ u.phase = q.phase /\ u.fence = q.fence /\ u.expired = q.expired
             /\ u.desired # q.desired
    <2>1. u = [q EXCEPT !.desired = u.desired]
      BY <1>0, <1>6 DEF Terms
    <2>2. terms' = [terms EXCEPT ![e].desired = u.desired]
      BY <2>1
    <2> QED BY <1>0, <1>6, <2>2 DEF Contract!Next, Contract!Command, Contract!Live, Contract!Over, DesiredState
  <1>7. CASE u = q
    <2>1. terms' = terms
      BY <1>7
    <2> QED BY <2>1
  <1> QED BY <1>1, <1>2, <1>3, <1>4, <1>5, <1>6, <1>7

\* A commit takes, takes over, settles or fails; or the contract does not see it.
LEMMA CommitsContract == ASSUME IInv, NEW w \in Workers, Commits(w) PROVE [Contract!Next]_terms
  <1>1. PICK s, t : RowMove(w, s, t)
    BY DEF Commits
  <1> DEFINE e == wk[w].epoch
             r == row[e]
             q == TermsOf(r)
             u == TermsOf(t)
  <1>2. /\ t \in Rows /\ r \in Rows /\ WellFormed(r) /\ e \in Epochs
        /\ Transforms(r, w, t)
    BY <1>1, SessionType, TransformType DEF RowMove, R
  <1>3. row \in [Epochs -> Rows] /\ row' = [row EXCEPT ![e] = t]
    BY <1>1 DEF RowMove, Written, Update, IInv, TypeOK
  <1>4. /\ terms \in [Epochs -> Terms] /\ terms[e] = q
        /\ terms' = [terms EXCEPT ![e] = u]
        /\ q \in Terms /\ u \in Terms
    BY <1>2, <1>3, TermsUpdate
  <1>5. /\ q.desired = r.desired /\ q.fence = r.fence /\ q.expired = r.expired
        /\ r.observed = "ABSENT" => q.phase = "NONE"
        /\ r.observed = "PENDING" => q.phase = "OPEN"
        /\ r.observed \in ClaimRequired => q.phase = "HELD"
        /\ r.observed \in {"PAUSED", "STOPPED", "FAILED"} => q.phase = r.observed
    BY <1>2, TermsFields
  <1>6. /\ u.desired = t.desired /\ u.fence = t.fence /\ u.expired = t.expired
        /\ t.observed \in ClaimRequired => u.phase = "HELD"
        /\ t.observed \in {"PAUSED", "STOPPED", "FAILED"} => u.phase = t.observed
    BY <1>2, TermsFields
  <1>7. /\ "PAUSED" \in ObservedState /\ "STOPPED" \in ObservedState
        /\ "FAILED" \in ObservedState /\ "STARTING" \in ObservedState
        /\ "RUNNING" \in ObservedState /\ "STOPPING" \in ObservedState
    BY DEF ObservedState, ClaimRequired, TERMINAL
  <1>8. r.expired \in BOOLEAN /\ t.expired \in BOOLEAN
        /\ r.observed \in ObservedState \cup {"ABSENT"}
    BY <1>2 DEF Rows
  <1> HIDE DEF e, r, q, u
  <1>9. CASE MayClaim(r) /\ t = Claimed(r, w)
    <2>1. /\ t.desired = r.desired /\ t.observed = "STARTING"
          /\ t.fence = r.fence + 1 /\ t.expired = r.expired
      BY <1>2, <1>9, ClaimedFields
    <2>2. /\ q.phase \in {"OPEN", "PAUSED"} /\ q.desired = "RUNNING" /\ u.phase = "HELD"
          /\ u.fence = q.fence + 1 /\ u.desired = q.desired /\ u.expired = q.expired
      BY <1>5, <1>6, <1>9, <2>1 DEF MayClaim, ClaimRequired
    <2> QED BY <1>2, <1>4, <2>2, ContractSteps
  <1>10. CASE MayRecover(r) /\ t = Recovered(r, w)
    <2>1. /\ t.desired = r.desired /\ t.observed = "RECOVERING"
          /\ t.fence = r.fence + 1 /\ ~t.expired
      BY <1>2, <1>10, RecoveredFields
    <2>2. /\ q.phase = "HELD" /\ q.expired /\ u.phase = q.phase
          /\ u.fence = q.fence + 1 /\ u.desired = q.desired /\ ~u.expired
      BY <1>5, <1>6, <1>10, <2>1 DEF MayRecover, ClaimRequired
    <2> QED BY <1>2, <1>4, <2>2, ContractSteps
  <1>11. CASE /\ r.observed \notin TERMINAL \cup {"ABSENT"}
              /\ MaySettleUnclaimed(r) /\ t = InState(r, r.desired)
    <2>1. /\ r.observed \in {"PENDING", "PAUSED"} /\ r.desired \in {"PAUSED", "STOPPED"}
          /\ ~r.expired
      BY <1>2, <1>11, UnclaimedGraph DEF WellFormed, MaySettleUnclaimed
    <2>2. /\ t.desired = r.desired /\ t.observed = r.desired
          /\ t.fence = r.fence /\ t.expired = r.expired
      <3>1. r.desired \in ObservedState
        BY <1>7, <2>1
      <3> QED BY <1>2, <1>11, <3>1, InStateFields
    <2>3. /\ q.phase \in {"OPEN", "HELD", "PAUSED"} /\ ~q.expired
          /\ q.desired \in {"PAUSED", "STOPPED"} /\ u.phase = q.desired
          /\ u.fence = q.fence /\ u.expired = q.expired /\ u.desired = q.desired
      BY <1>5, <1>6, <2>1, <2>2
    <2> QED BY <1>2, <1>4, <2>3, ContractSteps
  <1>12. CASE \/ MayAdvance(r, "STARTING") /\ t = InState(r, "STARTING")
              \/ MayAdvance(r, "RUNNING") /\ t = InState(r, "RUNNING")
              \/ MayStopping(r) /\ t = InState(r, "STOPPING")
    <2>1. /\ t.desired = r.desired /\ t.observed \in ClaimRequired
          /\ t.fence = r.fence /\ t.expired = r.expired /\ r.observed \in ClaimRequired
      <3>1. PICK v \in {"STARTING", "RUNNING", "STOPPING"} :
               t = InState(r, v) /\ r.observed \in ClaimRequired
        BY <1>12 DEF MayAdvance, MayStopping, ClaimRequired
      <3>2. v \in ObservedState /\ v \in ClaimRequired
        BY <1>7 DEF ClaimRequired
      <3> QED BY <1>2, <3>1, <3>2, InStateFields
    <2>2. u = q
      BY <2>1 DEF u, q, TermsOf, ClaimRequired
    <2> QED BY <1>2, <1>4, <2>2, ContractSteps
  <1>13. CASE /\ ~r.expired
              /\ \/ MayPause(r) /\ t = Released(r, "PAUSED")
                 \/ MayStop(r) /\ t = Released(r, "STOPPED")
    <2>1. PICK v \in {"PAUSED", "STOPPED"} :
             /\ t = Released(r, v) /\ r.desired = v /\ r.observed \in ClaimRequired
      BY <1>13 DEF MayPause, MayStop, ClaimRequired
    <2>2. /\ t.desired = r.desired /\ t.observed = v /\ t.fence = r.fence /\ ~t.expired
      <3>1. v \in ObservedState
        BY <1>7
      <3> QED BY <1>2, <2>1, <3>1, ReleasedFields
    <2>3. q.expired = u.expired
      BY <1>5, <1>6, <1>8, <1>13, <2>2
    <2>4. /\ q.phase \in {"OPEN", "HELD", "PAUSED"} /\ ~q.expired
          /\ q.desired \in {"PAUSED", "STOPPED"} /\ u.phase = q.desired
          /\ u.fence = q.fence /\ u.desired = q.desired
      BY <1>5, <1>6, <1>13, <2>1, <2>2
    <2> QED BY <1>2, <1>4, <2>3, <2>4, ContractSteps
  <1>14. CASE /\ r.owner = NoOwner \/ ~r.expired
              /\ r.observed \notin TERMINAL \cup {"ABSENT"}
              /\ t = Released(r, "FAILED")
    <2>1. ~r.expired
      BY <1>2, <1>14 DEF WellFormed
    <2>2. /\ t.desired = r.desired /\ t.observed = "FAILED" /\ t.fence = r.fence /\ ~t.expired
      <3>1. "FAILED" \in ObservedState
        BY <1>7
      <3> QED BY <1>2, <1>14, <3>1, ReleasedFields
    <2>3. q.expired = u.expired
      BY <1>5, <1>6, <1>8, <2>1, <2>2
    <2>4. /\ q.phase \notin {"NONE", "STOPPED", "FAILED"} /\ ~q.expired
          /\ u.phase = "FAILED" /\ u.fence = q.fence /\ u.desired = q.desired
      BY <1>5, <1>6, <1>8, <1>14, <2>1, <2>2 DEF ObservedState, TERMINAL, ClaimRequired
    <2> QED BY <1>2, <1>4, <2>3, <2>4, ContractSteps
  <1> QED
    BY <1>2, <1>9, <1>10, <1>11, <1>12, <1>13, <1>14 DEF Transforms

LEMMA StartContract == ASSUME IInv, NEW e \in Epochs, Start(e) PROVE [Contract!Next]_terms
  <1> DEFINE t == InState(row[e], "PENDING")
  <1>1. /\ row \in [Epochs -> Rows] /\ row[e].observed = "ABSENT"
        /\ row' = [row EXCEPT ![e] = t]
        /\ \A f \in Epochs : ~NonTerminal(f)
    BY DEF Start, InsertEpoch, InState, IInv, TypeOK
  <1>2. /\ t \in Rows /\ t.desired = row[e].desired /\ t.observed = "PENDING"
        /\ t.fence = row[e].fence /\ t.expired = row[e].expired
    BY <1>1, InStateFields DEF ObservedState
  <1> HIDE DEF t
  <1>3. /\ terms \in [Epochs -> Terms] /\ terms[e] = TermsOf(row[e])
        /\ terms' = [terms EXCEPT ![e] = TermsOf(t)]
    BY <1>1, <1>2, TermsUpdate
  <1>4. TermsOf(t) = [TermsOf(row[e]) EXCEPT !.phase = "OPEN"] /\ TermsOf(row[e]).phase = "NONE"
    <2>1. row[e] \in Rows /\ TermsOf(row[e]) \in Terms /\ TermsOf(t) \in Terms
      BY <1>1, <1>2, TermsFields
    <2>2. /\ TermsOf(row[e]).phase = "NONE" /\ TermsOf(t).phase = "OPEN"
          /\ TermsOf(t).desired = TermsOf(row[e]).desired
          /\ TermsOf(t).fence = TermsOf(row[e]).fence
          /\ TermsOf(t).expired = TermsOf(row[e]).expired
      BY <1>1, <1>2, <2>1, TermsFields
    <2> QED BY <2>1, <2>2 DEF Terms
  <1>5. terms' = [terms EXCEPT ![e].phase = "OPEN"]
    BY <1>3, <1>4
  <1>6. \A f \in Epochs : terms[f].phase \in {"NONE", "STOPPED", "FAILED"}
    <2> TAKE f \in Epochs
    <2>1. row[f] \in Rows /\ row[f].observed \in TERMINAL \cup {"ABSENT"}
      BY <1>1 DEF NonTerminal
    <2>2. terms[f] = TermsOf(row[f])
      BY DEF terms
    <2> QED BY <2>1, <2>2, TermsFields DEF TERMINAL
  <1>7. Contract!Start(e)
    BY <1>3, <1>4, <1>5, <1>6 DEF Contract!Start, Contract!Live, Contract!Over
  <1> QED BY <1>7 DEF Contract!Next

LEMMA CommandContract == ASSUME IInv, NEW e \in Epochs, Command(e) PROVE [Contract!Next]_terms
  <1>1. PICK d \in DesiredState : RequestCommand(e, d)
    BY DEF Command
  <1> DEFINE t == [row[e] EXCEPT !.desired = d]
  <1>2. /\ row \in [Epochs -> Rows] /\ row[e] \in Rows
        /\ row' = [row EXCEPT ![e] = t]
        /\ row[e].observed \notin TERMINAL \cup {"ABSENT"}
        /\ row[e].desired # "STOPPED" /\ d # row[e].desired
    BY <1>1 DEF RequestCommand, NonTerminal, IInv, TypeOK, Rows, DesiredState,
                ALLOWED_DESIRED_COMMANDS
  <1>3. /\ t \in Rows /\ t.observed = row[e].observed /\ t.desired = d
        /\ t.fence = row[e].fence /\ t.expired = row[e].expired
    BY <1>2 DEF Rows
  <1> HIDE DEF t
  <1>4. /\ terms \in [Epochs -> Terms] /\ terms[e] = TermsOf(row[e])
        /\ terms' = [terms EXCEPT ![e] = TermsOf(t)]
        /\ TermsOf(row[e]) \in Terms /\ TermsOf(t) \in Terms
    BY <1>2, <1>3, TermsUpdate
  <1>5. TermsOf(t).phase = TermsOf(row[e]).phase
    BY <1>3 DEF TermsOf
  <1>6. TermsOf(row[e]).phase \notin {"NONE", "STOPPED", "FAILED"}
    BY <1>2, TermsFields DEF Rows, ObservedState, TERMINAL, ClaimRequired
  <1>7. /\ TermsOf(t).fence = TermsOf(row[e]).fence
        /\ TermsOf(t).expired = TermsOf(row[e]).expired
        /\ TermsOf(t).desired # TermsOf(row[e]).desired
        /\ TermsOf(row[e]).desired # "STOPPED"
    BY <1>2, <1>3 DEF TermsOf
  <1> QED BY <1>4, <1>5, <1>6, <1>7, ContractSteps

LEMMA LeaseContract ==
    ASSUME IInv, NEW e \in Epochs, Lapse(e) \/ Expire(e)
    PROVE  [Contract!Next]_terms
  <1> DEFINE t == [row[e] EXCEPT !.expired = TRUE]
  <1>1. /\ row \in [Epochs -> Rows] /\ row[e] \in Rows /\ WellFormed(row[e])
        /\ row' = [row EXCEPT ![e] = t] /\ row[e].owner # NoOwner
    BY WorkersAssumption DEF Lapse, Expire, IInv, TypeOK
  <1>2. /\ t \in Rows /\ t.observed = row[e].observed /\ t.desired = row[e].desired
        /\ t.fence = row[e].fence /\ t.expired
    BY <1>1 DEF Rows
  <1> HIDE DEF t
  <1>3. /\ terms \in [Epochs -> Terms] /\ terms[e] = TermsOf(row[e])
        /\ terms' = [terms EXCEPT ![e] = TermsOf(t)] /\ TermsOf(t) \in Terms
    BY <1>1, <1>2, TermsUpdate
  <1>4. /\ TermsOf(t).phase = TermsOf(row[e]).phase /\ TermsOf(row[e]).phase = "HELD"
    BY <1>1, <1>2, TermsFields DEF WellFormed
  <1>5. /\ TermsOf(t).fence = TermsOf(row[e]).fence /\ TermsOf(t).expired
        /\ TermsOf(t).desired = TermsOf(row[e]).desired
    BY <1>2 DEF TermsOf
  <1> QED BY <1>3, <1>4, <1>5, ContractSteps

\* The end of a process is not seen: its claim stays until somebody takes over.
LEMMA CrashContract == ASSUME IInv, NEW w \in Workers, Crash(w) PROVE terms' = terms
  <1>1. \A e \in Epochs : TermsOf(row'[e]) = TermsOf(row[e])
    <2> TAKE e \in Epochs
    <2>1. row[e] \in Rows
          /\ row'[e] = IF row[e].owner = w THEN [row[e] EXCEPT !.owner = Gone] ELSE row[e]
      BY DEF Crash, IInv, TypeOK
    <2>2. /\ row'[e].observed = row[e].observed /\ row'[e].fence = row[e].fence
          /\ row'[e].expired = row[e].expired /\ row'[e].desired = row[e].desired
      BY <2>1 DEF Rows
    <2> QED BY <2>2 DEF TermsOf
  <1> QED BY <1>1 DEF terms

\* Every step of the collectors is one of the contract, or none.
LEMMA StepContract == IInv /\ [Next]_vars => [Contract!Next]_terms
  <1> SUFFICES ASSUME IInv, [Next]_vars PROVE [Contract!Next]_terms
    OBVIOUS
  <1>1. CASE row' = row
    <2>1. terms' = terms
      BY <1>1 DEF terms
    <2> QED BY <2>1
  <1>2. CASE UNCHANGED vars
    BY <1>1, <1>2 DEF vars
  <1>3. ASSUME NEW e \in Epochs, Start(e) \/ Command(e) \/ Lapse(e) \/ Expire(e)
        PROVE  [Contract!Next]_terms
    BY <1>3, StartContract, CommandContract, LeaseContract
  <1>4. ASSUME NEW w \in Workers, Step(w) \/ CycleFails(w) \/ DatabaseFails(w)
        PROVE  [Contract!Next]_terms
    <2>1. Moves(w) => row' = row
      BY DEF Moves, SessionMove
    <2> QED BY <1>1, <1>4, <2>1, StepActs, CommitsContract DEF Acts
  <1>5. ASSUME NEW w \in Workers, Crash(w) PROVE [Contract!Next]_terms
    BY <1>5, CrashContract
  <1> QED BY <1>2, <1>3, <1>4, <1>5 DEF Next

LEMMA InitContract == Init => Contract!Init
  <1> SUFFICES ASSUME Init PROVE Contract!Init
    OBVIOUS
  <1>1. TermsOf(AbsentRow) = [desired |-> "RUNNING", phase |-> "NONE", fence |-> 0,
                              expired |-> FALSE]
    <2>1. AbsentRow \in Rows
      BY DEF AbsentRow, Rows, DesiredState
    <2>2. /\ TermsOf(AbsentRow) \in Terms
          /\ TermsOf(AbsentRow).desired = "RUNNING" /\ TermsOf(AbsentRow).phase = "NONE"
          /\ TermsOf(AbsentRow).fence = 0 /\ TermsOf(AbsentRow).expired = FALSE
      BY <2>1, TermsFields DEF AbsentRow
    <2> QED BY <2>2 DEF Terms
  <1>2. terms = [e \in Epochs |-> TermsOf(AbsentRow)]
    BY DEF Init, terms
  <1> QED BY <1>1, <1>2 DEF Contract!Init

\* The collector epochs implement the contract of fenced epochs: one holder
\* per fence, a lease taken over only after it ran out, nothing settled that
\* was not desired, nothing resumed after a stop (the triggers of
\* operational_market_data_collector_epochs, the collectors' repository).
THEOREM CollectorsKeepTheContract == Spec => ImplementsContract
  <1>1. Spec => Contract!Spec
    BY InitContract, StepContract, Invariance, PTL DEF Spec, Contract!Spec
  <1> QED BY <1>1 DEF ImplementsContract

-----------------------------------------------------------------------------
(***************************************************************************)
(* Research: what ResearchExecution publishes can be read, and comes out    *)
(* again. ResearchInv says of each caller, by the place where it is, how    *)
(* far the fold in hand and the folds before it are backed by artifacts,    *)
(* and of each document that its constructors take it. HonestInv adds that  *)
(* a fold was selected from artifacts that were all there but for some that *)
(* are damaged by now (Honest); a fold that was not is held back by one of  *)
(* the verifications that follow, unless they fail, too.                    *)
(***************************************************************************)

Publishing == {"publish", "staging", "renamed"}
Places == {"idle", "planned", "specs", "ran", "select", "folds"} \cup Publishing
Kinds == {"experiment", "walk", "report"}
IsSequence(s) == s \in Seq(Range(s))

\* A caller executes plans that were created and validated.
Planned(q) == q \in budget.plans /\ MayPlan(Requests[q]) /\ ValidWalkForwardPlan(PlanOf(q))

\* The first records of fold k are of its runs, and have their artifacts.
RecordsFit(q, k, records) == /\ records \in Seq(RunStatuses) /\ Len(records) <= Len(Specs(q, k))
                             /\ RecordsHold(q, k, records, artifacts)
\* All of them.
Complete(q, k, records) == RecordsFit(q, k, records) /\ Len(records) = Len(Specs(q, k))
\* A result of fold k its constructor takes, with what it was made from.
FoldFits(q, k, f) ==
    /\ ValidFoldResult(f, PlanOf(q).direction)
    /\ f.status # "FAILED_EXECUTION" => Complete(q, k, f.records)
    /\ f.status = "COMPLETED" => /\ f.parameters \notin {None, <<>>} /\ f.score \in Int
                                 /\ f.holdout \in Int \cup {None}
FoldsSettled(q, results) == /\ Planned(q) /\ IsSequence(results)
                            /\ \A k \in DOMAIN results : FoldFits(q, k, results[k])
\* An execution of a walk-forward has every fold of its plan.
WalkFits(d) == /\ FoldsSettled(d.plan, d.folds) /\ d = WalkDoc(d.plan, d.folds)
               /\ Len(d.folds) = PlanOf(d.plan).foldCount

\* A caller is at work on the fold after the results it has.
InFold(s) == \/ s.at \in {"specs", "ran", "select"}
             \/ s.at \in Publishing /\ s.doc.kind = "experiment"
\* What a caller relies on, place by place.
CallerFits(s) ==
    /\ s.at \in Places
    /\ s = [at |-> s.at, plan |-> s.plan, records |-> s.records, results |-> s.results,
            doc |-> s.doc]
    /\ s.at = "planned" => /\ s.plan \in DOMAIN Requests /\ MayPlan(Requests[s.plan])
                           /\ s.records = <<>> /\ s.results = <<>>
    /\ InFold(s) => /\ FoldsSettled(s.plan, s.results)
                    /\ Len(s.results) < PlanOf(s.plan).foldCount
                    /\ RecordsFit(s.plan, Len(s.results) + 1, s.records)
    /\ InFold(s) /\ s.at \notin {"specs", "ran"} => Complete(s.plan, Len(s.results) + 1, s.records)
    /\ s.at = "ran" =>
         LET specs == Specs(s.plan, Len(s.results) + 1)  g == Len(s.records) + 1
         IN  /\ g <= Len(specs)
             /\ specs[g].run \in DOMAIN scores /\ scores[specs[g].run] # Broken
    /\ s.at = "folds" => /\ FoldsSettled(s.plan, s.results)
                         /\ Len(s.results) = PlanOf(s.plan).foldCount
    /\ s.at \in Publishing => /\ s.doc.kind \in Kinds /\ Readable(s.doc)
                              /\ s.doc.kind = "walk" => WalkFits(s.doc)

\* What is executed, scored and published.
BudgetFits == /\ budget \in [overlap : BOOLEAN, plans : SUBSET DOMAIN Requests,
                             executions : Nat, odd : Nat, kills : Nat, faults : Nat,
                             damage : Nat, analyses : Nat]
              /\ plans = [q \in budget.plans |-> WalkForwardPlan(Requests[q])]
ScoresFit == /\ scores = [r \in DOMAIN scores |-> scores[r]]
             /\ \A r \in DOMAIN scores : scores[r] \in Outcomes \cup {Usual}
             /\ \A r \in artifacts : r \in DOMAIN scores /\ scores[r] # Broken
CallersFit == caller = [c \in Callers |-> caller[c]] /\ \A c \in Callers : CallerFits(caller[c])
PublishedFit == \A d \in published : d.kind \in Kinds /\ (d.kind = "walk" => WalkFits(d))
ResearchInv == BudgetFits /\ ScoresFit /\ CallersFit /\ PublishedFit

\* Fold k comes out as f from the artifacts, but for some that are damaged now.
Honest(q, k, f) == \/ f.status = "FAILED_EXECUTION"
                   \/ \E m \in SUBSET damaged : f = FoldResult(q, k, f.records, artifacts \ m)
AllHonest(q, results) == \A k \in DOMAIN results : Honest(q, k, results[k])
\* A caller has honest folds. Or a verification failed when one was selected, and at
\* most one more can; once its manifest was built a second one did, and the check in
\* the staging directory refuses it.
CallerHonest(s) ==
    /\ InFold(s) \/ s.at = "folds" => AllHonest(s.plan, s.results) \/ budget.faults <= 1
    /\ s.at \in Publishing /\ s.doc.kind = "walk" =>
         \/ AllHonest(s.doc.plan, s.doc.folds)
         \/ s.at # "renamed" /\ budget.faults <= 0
\* What is published is honest, if no more than two verifications can fail.
HonestInv == /\ budget.faults <= 2
             /\ \A c \in Callers : CallerHonest(caller[c])
             /\ \A d \in published : d.kind = "walk" => AllHonest(d.plan, d.folds)

\* A finite set of numbers has a first and a last one.
LEMMA Extremes ==
    ASSUME NEW S \in SUBSET Int, S # {}, IsFiniteSet(S)
    PROVE  /\ Min(S) \in S /\ \A k \in S : Min(S) <= k
           /\ Max(S) \in S /\ \A k \in S : k <= Max(S)
<1> DEFINE Above(m) == {k \in S : k >= m}
           Below(m) == {k \in S : k <= m}
           Order == StrictSubsetOrdering(S)
           F == FiniteSubsetsOf(S)
<1>1. IsWellFoundedOn(Order, F)
  BY FS_StrictSubsetOrderingWellFounded
<1>2. ASSUME NEW T \in SUBSET S
      PROVE  T \in F
  BY FS_Subset DEF FiniteSubsetsOf
<1>0. \A n \in S : n \in Int
  OBVIOUS
<1>3. \E m \in S : \A k \in S : m >= k
  <2> DEFINE G == {Above(m) : m \in S}
  <2>1. G \subseteq F /\ G # {}
    BY <1>2
  <2>2. PICK x \in G : \A y \in G : ~(<<y, x>> \in Order)
    BY <1>1, <2>1, WFMin, Zenon
  <2>3. PICK m \in S : x = Above(m)
    BY <2>2
  <2>4. ASSUME NEW k \in S, ~(m >= k) PROVE FALSE
    <3>1. m \in Above(m) /\ m \notin Above(k)
      BY <1>0, <2>4
    <3>2. Above(k) \subseteq Above(m)
      <4>1. \A n \in S : n >= k => n >= m
        BY <1>0, <2>4
      <4> QED BY <4>1
    <3>3. <<Above(k), x>> \in Order
      BY <3>1, <3>2, <2>3 DEF StrictSubsetOrdering
    <3> QED BY <3>3, <2>2
  <2> QED BY <2>4
<1>4. \E m \in S : \A k \in S : m <= k
  <2> DEFINE G == {Below(m) : m \in S}
  <2>1. G \subseteq F /\ G # {}
    BY <1>2
  <2>2. PICK x \in G : \A y \in G : ~(<<y, x>> \in Order)
    BY <1>1, <2>1, WFMin, Zenon
  <2>3. PICK m \in S : x = Below(m)
    BY <2>2
  <2>4. ASSUME NEW k \in S, ~(m <= k) PROVE FALSE
    <3>1. m \in Below(m) /\ m \notin Below(k)
      BY <1>0, <2>4
    <3>2. Below(k) \subseteq Below(m)
      <4>1. \A n \in S : n <= k => n <= m
        BY <1>0, <2>4
      <4> QED BY <4>1
    <3>3. <<Below(k), x>> \in Order
      BY <3>1, <3>2, <2>3 DEF StrictSubsetOrdering
    <3> QED BY <3>3, <2>2
  <2> QED BY <2>4
<1>5. Max(S) \in S /\ \A k \in S : Max(S) >= k
  BY <1>3, Zenon DEF Max
<1>6. Min(S) \in S /\ \A k \in S : Min(S) <= k
  BY <1>4, Zenon DEF Min
<1> QED BY <1>0, <1>5, <1>6

\* What holds at 0, and after n whenever at n, holds up to k.
LEMMA UpTo ==
    ASSUME NEW k \in Nat, NEW S, 0 \in S,
           ASSUME NEW n \in 0..(k - 1), n \in S PROVE n + 1 \in S
    PROVE  0..k \subseteq S
<1> DEFINE D == (0..k) \ S
<1>1. SUFFICES ASSUME D # {} PROVE FALSE
  OBVIOUS
<1>2. D \in SUBSET Int /\ IsFiniteSet(D)
  <2>1. IsFiniteSet(0..k)
    BY FS_Interval
  <2> QED BY <2>1, FS_Subset
<1>3. Min(D) \in D /\ \A j \in D : Min(D) <= j
  <2> HIDE DEF D
  <2> QED BY <1>1, <1>2, Extremes
<1>4. PICK m : m = Min(D)
  OBVIOUS
<1>5. m \in 0..k /\ m \notin S
  BY <1>3, <1>4
<1>6. m - 1 \in 0..(k - 1)
  BY <1>5
<1>7. m - 1 \in S
  <2>1. m - 1 \in 0..k /\ ~(m <= m - 1)
    BY <1>5, <1>6
  <2> QED BY <2>1, <1>3, <1>4
<1>8. (m - 1) + 1 \in S
  BY <1>6, <1>7
<1> QED BY <1>5, <1>8

-----------------------------------------------------------------------------
(* Plans *)

\* What is needed of the experiment of a fold: n combinations in three segments.
Shape(q, k, n) ==
    /\ n \in 1..MostCombinations
    /\ PlanOf(q).space.cardinality = n
    /\ Specs(q, k) = [g \in 1..(3 * n) |-> Specs(q, k)[g]]
    /\ FoldOf(q, k).experiment.cardinality = 3 * n
    /\ ValidExperimentPlan(FoldOf(q, k).experiment)
    /\ \A g \in 1..(3 * n) : /\ Specs(q, k)[g].run # None
                             /\ Specs(q, k)[g].combination.parameters \notin {None, <<>>}

LEMMA RoleIndex ==
    \A role \in {"TRAIN", "VALIDATION", "TEST"} : (CHOOSE i \in 1..3 : Roles[i] = role) \in 1..3
<1> SUFFICES ASSUME NEW role \in {"TRAIN", "VALIDATION", "TEST"}
             PROVE  (CHOOSE i \in 1..3 : Roles[i] = role) \in 1..3
  OBVIOUS
<1>1. Roles[1] = "TRAIN" /\ Roles[2] = "VALIDATION" /\ Roles[3] = "TEST"
  BY DEF Roles
<1>2. \E i \in 1..3 : Roles[i] = role
  BY <1>1
<1> QED BY <1>2

\* The strategy of a plan has a parameter, for one at least is searched.
LEMMA HasParameters ==
    ASSUME NEW r, MayPlan(r), NEW i
    PROVE  Combination(Space(r.space), i).parameters # <<>>
<1>1. DOMAIN Names # {}
  BY DEF MayPlan, MayCreateSpace, Range
<1>2. DOMAIN Descriptor # {}
  BY <1>1 DEF Names
<1>3. DOMAIN Combination(Space(r.space), i).parameters = DOMAIN Descriptor
  BY DEF Combination
<1>4. DOMAIN <<>> = {}
  OBVIOUS
<1> QED BY <1>2, <1>3, <1>4

LEMMA PlanShape ==
    ASSUME BudgetFits, NEW q, Planned(q)
    PROVE  /\ PlanOf(q).foldCount \in 2..MostFolds
           /\ \A k \in 1..PlanOf(q).foldCount : \E n : Shape(q, k, n)
<1> DEFINE r == Requests[q]
           n == Space(r.space).cardinality
           m == FoldCount(r.snapshot, r.window)
<1>1. PlanOf(q) = WalkForwardPlan(r) /\ q \in DOMAIN Requests /\ MayPlan(r)
  BY DEF BudgetFits, Planned, PlanOf
<1>2. m \in 2..MostFolds
  <2>1. m \in 2..r.window.maxFolds /\ r.window.maxFolds \in 2..MostFolds
    BY <1>1 DEF MayPlan, ValidWindow
  <2> QED BY <2>1, FoldsAssumption
<1>3. PlanOf(q).foldCount = m /\ PlanOf(q).space.cardinality = n
      /\ PlanOf(q).folds = [k \in 1..m |-> FoldPlan(r, k - 1)]
  BY <1>1 DEF WalkForwardPlan
<1>4. ASSUME NEW k \in 1..m
      PROVE  Shape(q, k, n)
  <2>1. FoldOf(q, k).experiment = FoldPlan(r, k - 1).experiment
    BY <1>3 DEF FoldOf
  <2>2. PICK temporal :
          FoldOf(q, k).experiment = ExperimentPlan(temporal, Space(r.space), r.settings, 3 * n)
    BY <2>1 DEF FoldPlan
  <2> DEFINE e == FoldOf(q, k).experiment
  <2>3. n \in 1..MostCombinations
    <3>1. k - 1 \in 0..(m - 1)
      BY <1>2
    <3>2. SpecsFit(n, 3 * n)
      BY <1>1, <3>1, Zenon DEF MayPlan, MayPlanExperiment
    <3> QED BY <3>2 DEF SpecsFit
  <2>4. /\ e.cardinality = 3 * n
        /\ e.specs = [g \in 1..(3 * n) |-> RunSpec(temporal, Expansion(Space(r.space)), g - 1)]
    BY <2>2 DEF ExperimentPlan
  <2>5. ValidExperimentPlan(e)
    <3>1. Len(PlanOf(q).folds) = m
      BY <1>2, <1>3
    <3>2. \A j \in DOMAIN PlanOf(q).folds : ValidFoldPlan(PlanOf(q).folds[j])
      BY DEF Planned, ValidWalkForwardPlan
    <3>3. k \in DOMAIN PlanOf(q).folds
      BY <1>3
    <3> QED BY <3>2, <3>3 DEF ValidFoldPlan, FoldOf
  <2>6. ASSUME NEW g \in 1..(3 * n)
        PROVE  /\ e.specs[g].run # None
               /\ e.specs[g].combination.parameters \notin {None, <<>>}
    <3>1. e.specs[g] \in Range(e.specs)
      BY <2>4 DEF Range
    <3>2. None \notin {e.specs[g].run, e.specs[g].combination.parameters}
      <4>1. k \in DOMAIN PlanOf(q).folds
        BY <1>3
      <4>2. \A p \in {WalkForwardPlan(Requests[q])} : \A j \in DOMAIN p.folds :
              \A x \in Range(p.folds[j].experiment.specs) :
                None \notin {x.run, x.combination.parameters}
        BY <1>1, NoneAssumption
      <4>3. \A j \in DOMAIN PlanOf(q).folds :
              \A x \in Range(PlanOf(q).folds[j].experiment.specs) :
                None \notin {x.run, x.combination.parameters}
        BY <4>2, <1>1
      <4> QED BY <4>1, <4>3, <3>1 DEF FoldOf
    <3>3. e.specs[g] = RunSpec(temporal, Expansion(Space(r.space)), g - 1)
      BY <2>4
    <3>4. 1 + ((g - 1) \div 3) \in 1..n
      BY <2>3
    <3>5. e.specs[g].combination = Expansion(Space(r.space))[1 + ((g - 1) \div 3)]
      BY <3>3 DEF RunSpec
    <3>6. PICK i : e.specs[g].combination = Combination(Space(r.space), i)
      BY <3>4, <3>5 DEF Expansion
    <3>7. Combination(Space(r.space), i).parameters # <<>>
      BY <1>1, HasParameters
    <3> QED BY <3>2, <3>6, <3>7
  <2>7. Specs(q, k) = e.specs /\ e.specs = [g \in 1..(3 * n) |-> e.specs[g]]
    BY <2>4 DEF Specs
  <2> HIDE DEF n, e, r, m
  <2>8. FoldOf(q, k).experiment = e
    BY DEF e
  <2> QED BY <2>3, <2>4, <2>5, <2>6, <2>7, <2>8, <1>3, Zenon DEF Shape
<1> QED BY <1>2, <1>3, <1>4

-----------------------------------------------------------------------------
(* Selection *)

Judged(e, n) == /\ e \in [0..(n - 1) -> Candidate]
                /\ \A c \in 0..(n - 1) : ValidCandidate(e[c])

\* No other candidate is better than w, and of equal ones it is the first.
IsBest(e, w, direction) ==
    /\ w \in Eligible(e)
    /\ \A c \in Eligible(e) \ {w} : \/ Better(e[w].score, e[c].score, direction)
                                    \/ e[c].score = e[w].score /\ w < c

\* The winner is one of the eligible; no other one is better, and of equal ones
\* it is the first.
LEMMA WinnerIs ==
    ASSUME NEW n \in Nat, NEW e, Judged(e, n), Eligible(e) # {}, NEW direction
    PROVE  /\ Winner(e, direction) \in Eligible(e)
           /\ IsBest(e, Winner(e, direction), direction)
<1> DEFINE E == Eligible(e)
           S == {e[c].score : c \in E}
           best == {c \in E : \A d \in E : ~Better(e[d].score, e[c].score, direction)}
<1>1. E \in SUBSET (0..(n - 1)) /\ IsFiniteSet(E)
  <2>1. E \in SUBSET (0..(n - 1))
    BY DEF Eligible, Judged
  <2>2. IsFiniteSet(0..(n - 1))
    BY FS_Interval
  <2> QED BY <2>1, <2>2, FS_Subset
<1>2. S \in SUBSET Int /\ S # {} /\ IsFiniteSet(S)
  <2>1. \A c \in E : e[c].score \in Int
    BY <1>1 DEF Eligible, Judged, Candidate
  <2>2. IsFiniteSet(S)
    <3>1. [c \in E |-> e[c].score] \in Surjection(E, S)
      BY DEF Surjection
    <3> QED BY <1>1, <3>1, FS_Surjection
  <2> QED BY <2>1, <2>2
<1>3. best # {}
  <2> HIDE DEF S
  <2>1. PICK lo, hi : /\ lo \in S /\ \A k \in S : lo <= k
                      /\ hi \in S /\ \A k \in S : k <= hi
    BY <1>2, Extremes, Zenon
  <2>2. PICK a \in E : e[a].score = lo
    BY <2>1 DEF S
  <2>3. PICK b \in E : e[b].score = hi
    BY <2>1 DEF S
  <2>4. \A d \in E : e[d].score \in S /\ e[d].score \in Int
    BY <1>2 DEF S
  <2>5. \A d \in E : ~Better(e[d].score, e[b].score, "MAXIMIZE")
    BY <2>1, <2>3, <2>4 DEF Better
  <2>6. \A d \in E : direction # "MAXIMIZE" => ~Better(e[d].score, e[a].score, direction)
    BY <2>1, <2>2, <2>4 DEF Better
  <2> QED BY <2>5, <2>6
<1>4. best \in SUBSET Int /\ IsFiniteSet(best)
  <2>1. best \subseteq E
    OBVIOUS
  <2> QED BY <2>1, <1>1, FS_Subset
<1>5. \E c \in best : \A d \in best : c <= d
  <2> HIDE DEF best
  <2> QED BY <1>3, <1>4, Extremes
<1>6. Winner(e, direction) = CHOOSE c \in best : \A d \in best : c <= d
  BY DEF Winner
<1>7. PICK w : w = Winner(e, direction)
  OBVIOUS
<1>8. w \in best /\ \A d \in best : w <= d
  <2> HIDE DEF best
  <2> QED BY <1>5, <1>6, <1>7, Zenon
<1>9. ASSUME NEW c \in E, c # w
      PROVE  Better(e[w].score, e[c].score, direction) \/ (e[c].score = e[w].score /\ w < c)
  <2>1. PICK x, y : x = e[w].score /\ y = e[c].score
    OBVIOUS
  <2>2. x \in Int /\ y \in Int /\ ~Better(y, x, direction) /\ w \in E
    BY <1>2, <1>8, <2>1
  <2>3. CASE x = y
    <3>1. \A d \in E : ~Better(e[d].score, y, direction)
      BY <1>8, <2>1, <2>3
    <3>2. c \in best
      BY <2>1, <3>1
    <3>3. w <= c
      BY <1>8, <3>2
    <3>4. w \in Int /\ c \in Int
      BY <1>1, <2>2
    <3> QED BY <1>9, <2>1, <2>3, <3>3, <3>4
  <2>4. CASE x # y
    BY <2>1, <2>2, <2>4 DEF Better
  <2> QED BY <2>3, <2>4
<1> HIDE DEF best
<1>10. w \in E
  BY <1>8 DEF best
<1>11. IsBest(e, w, direction)
  BY <1>9, <1>10 DEF IsBest
<1> QED BY <1>7, <1>10, <1>11

\* The records of a fold, at every position of its plan.
LEMMA PositionOf ==
    ASSUME NEW n \in Nat, NEW c \in 0..(n - 1), NEW role \in {"TRAIN", "VALIDATION", "TEST"}
    PROVE  3 * c + (CHOOSE i \in 1..3 : Roles[i] = role) \in 1..(3 * n)
<1>1. PICK i : i = (CHOOSE j \in 1..3 : Roles[j] = role)
  OBVIOUS
<1>2. i \in 1..3
  BY <1>1, RoleIndex
<1>3. 3 * c + i \in 1..(3 * n)
  BY <1>2
<1> QED BY <1>1, <1>3

\* The run of a candidate in a role, by its position.
LEMMA RunsVerified ==
    ASSUME NEW q, NEW k, NEW n, Shape(q, k, n), NEW records, Complete(q, k, records),
           NEW c \in 0..(n - 1), NEW role \in {"TRAIN", "VALIDATION", "TEST"}
    PROVE  \E g \in DOMAIN records : /\ RecordOf(records, c, role) = records[g]
                                     /\ SpecOf(q, k, c, role) = Specs(q, k)[g]
<1>1. PICK g : g = 3 * c + (CHOOSE i \in 1..3 : Roles[i] = role)
  OBVIOUS
<1>2. n \in Nat
  BY DEF Shape
<1>3. g \in 1..(3 * n)
  BY <1>1, <1>2, PositionOf
<1>4. Len(Specs(q, k)) = 3 * n
  <2>1. PICK s : s = Specs(q, k)
    OBVIOUS
  <2>2. s = [h \in 1..(3 * n) |-> s[h]]
    BY <2>1 DEF Shape
  <2>3. Len(s) = 3 * n
    BY <2>2, <1>2
  <2> QED BY <2>1, <2>3
<1>5. records \in Seq(RunStatuses) /\ Len(records) = 3 * n
  BY <1>4 DEF Complete, RecordsFit
<1>6. DOMAIN records = 1..(3 * n)
  BY <1>5
<1>7. RecordOf(records, c, role) = records[g] /\ SpecOf(q, k, c, role) = Specs(q, k)[g]
  BY <1>1 DEF RecordOf, SpecOf
<1> QED BY <1>3, <1>6, <1>7

\* What the engine and its verification make of a fold fits the fold.
Scored(r) == r \in DOMAIN scores /\ scores[r] \in Int \cup {None}

LEMMA ArtifactsScored ==
    ASSUME ScoresFit
    PROVE  \A r \in artifacts : Scored(r)
BY OutcomesAssumption DEF ScoresFit, Scored

LEMMA EvidenceIs ==
    ASSUME NEW q, NEW k, NEW n, Shape(q, k, n), NEW records, NEW ok,
           \A c \in 0..(n - 1) : Reference(q, k, records, c, "VALIDATION", ok) = "verified"
                                => Scored(SpecOf(q, k, c, "VALIDATION").run)
    PROVE  Judged(Evidence(q, k, records, ok), n)
<1>1. Candidates(q) = 0..(n - 1)
  BY DEF Shape, Candidates
<1>2. PICK e : e = Evidence(q, k, records, ok)
  OBVIOUS
<1>3. ASSUME NEW c \in 0..(n - 1)
      PROVE  e[c] \in Candidate /\ ValidCandidate(e[c])
  <2>1. PICK train, validation, x :
          /\ train = Reference(q, k, records, c, "TRAIN", ok)
          /\ validation = Reference(q, k, records, c, "VALIDATION", ok)
          /\ x = scores[SpecOf(q, k, c, "VALIDATION").run]
    OBVIOUS
  <2>2. e[c] = [train |-> train, validation |-> validation,
                score |-> IF train = "verified" /\ validation = "verified" THEN x ELSE None]
    BY <1>1, <1>2, <2>1 DEF Evidence
  <2>3. /\ train \in {"verified", "not_verified", "verification_failed"}
        /\ validation \in {"verified", "not_verified", "verification_failed"}
    BY <2>1 DEF Reference
  <2>4. validation = "verified" => x \in Int \cup {None}
    <3>1. validation = "verified" => Scored(SpecOf(q, k, c, "VALIDATION").run)
      BY <2>1
    <3> QED BY <3>1, <2>1 DEF Scored
  <2>5. PICK y : y = IF train = "verified" /\ validation = "verified" THEN x ELSE None
    OBVIOUS
  <2>6. y \in Int \cup {None}
    BY <2>4, <2>5
  <2>7. e[c] = [train |-> train, validation |-> validation, score |-> y]
    BY <2>2, <2>5
  <2>8. e[c] \in Candidate
    <3>1. train \in Findings /\ validation \in Findings
      BY <2>3 DEF Findings
    <3>2. [train |-> train, validation |-> validation, score |-> y] \in Candidate
      BY <2>6, <3>1, Zenon DEF Candidate
    <3> QED BY <2>7, <3>2
  <2>9. ValidCandidate(e[c])
    BY <2>3, <2>5, <2>7 DEF ValidCandidate
  <2> QED BY <2>8, <2>9
<1>4. e = [c \in 0..(n - 1) |-> e[c]]
  BY <1>1, <1>2 DEF Evidence
<1>5. e \in [0..(n - 1) -> Candidate]
  BY <1>3, <1>4
<1> QED BY <1>2, <1>3, <1>5 DEF Judged

\* Evidence is a value.
LEMMA JudgedIsValid ==
    ASSUME NEW n \in 1..MostCombinations, NEW e, Judged(e, n)
    PROVE  e # None /\ ValidEvidence(e)
<1>1. e \in [0..(n - 1) -> Candidate] /\ DOMAIN e = 0..(n - 1)
  BY DEF Judged
<1>2. None \notin [0..(n - 1) -> Candidate]
  BY NoneAssumption DEF Candidate
<1>3. Cardinality(0..(n - 1)) = n
  BY FS_Interval
<1>4. ValidEvidence(e)
  <2>1. 0 \in DOMAIN e
    BY <1>1
  <2>2. Cardinality(DOMAIN e) = n
    BY <1>1, <1>3
  <2> QED BY <1>1, <2>1, <2>2 DEF ValidEvidence, Judged
<1> QED BY <1>1, <1>2, <1>4

\* Records of a complete fold are a value.
LEMMA RecordsAre ==
    ASSUME NEW q, NEW k, NEW n, Shape(q, k, n), NEW records, Complete(q, k, records)
    PROVE  /\ records \in [1..(3 * n) -> RunStatuses] /\ records # None
           /\ records \in Seq(RunStatuses) /\ DOMAIN records = 1..(3 * n) /\ Len(records) = 3 * n
           /\ Len(Specs(q, k)) = 3 * n
<1>1. n \in 1..MostCombinations /\ n \in Nat
  BY DEF Shape
<1>2. Len(Specs(q, k)) = 3 * n
  <2>1. PICK s : s = Specs(q, k)
    OBVIOUS
  <2>2. s = [h \in 1..(3 * n) |-> s[h]]
    BY <2>1 DEF Shape
  <2>3. Len(s) = 3 * n
    BY <2>2, <1>1
  <2> QED BY <2>1, <2>3
<1>3. records \in Seq(RunStatuses) /\ Len(records) = 3 * n
  BY <1>2 DEF Complete, RecordsFit
<1>4. records \in [1..(3 * n) -> RunStatuses] /\ DOMAIN records = 1..(3 * n)
  BY <1>3, <1>1
<1>5. records # None
  BY <1>1, <1>4, NoneAssumption
<1> QED BY <1>2, <1>3, <1>4, <1>5

\* A run that an intact set of artifacts has is scored.
LEMMA OkScored ==
    ASSUME ScoresFit, NEW ok, ok \subseteq artifacts
    PROVE  \A r \in ok : Scored(r)
BY ArtifactsScored

\* What is selected of a complete fold is accepted by the constructor.
LEMMA FoldSettled ==
    ASSUME ScoresFit, NEW q, NEW k, NEW n, Shape(q, k, n), NEW records, Complete(q, k, records),
           NEW ok, ok \subseteq artifacts
    PROVE  FoldFits(q, k, FoldResult(q, k, records, ok))
<1>1. PICK e, w, h, direction, f :
        /\ e = Evidence(q, k, records, ok)
        /\ direction = PlanOf(q).direction
        /\ w = Winner(e, direction)
        /\ h = Holdout(q, k, records, w, ok)
        /\ f = FoldResult(q, k, records, ok)
  OBVIOUS
<1>2. n \in 1..MostCombinations /\ n \in Nat
  BY DEF Shape
<1>3. Judged(e, n)
  <2>1. ASSUME NEW c \in 0..(n - 1), Reference(q, k, records, c, "VALIDATION", ok) = "verified"
        PROVE  Scored(SpecOf(q, k, c, "VALIDATION").run)
    BY <2>1, OkScored DEF Reference
  <2> QED BY <2>1, <1>1, EvidenceIs
<1>4. e # None /\ ValidEvidence(e) /\ records # None
  BY <1>2, <1>3, JudgedIsValid, RecordsAre
<1>5. CASE Eligible(e) = {}
  <2>1. f = FailedFold("FAILED_NO_ELIGIBLE_CANDIDATE", "no_candidate", records, e)
    BY <1>1, <1>5 DEF FoldResult
  <2>2. "no_candidate" # None
    BY NoneAssumption DEF Reasons
  <2>3. ValidFoldResult(f, direction)
    BY <2>1, <2>2, <1>4, <1>5 DEF FailedFold, ValidFoldResult
  <2>4. f.status # "COMPLETED" /\ f.records = records
    BY <2>1 DEF FailedFold
  <2> QED BY <2>3, <2>4, <1>1 DEF FoldFits
<1>6. CASE Eligible(e) # {}
  <2>1. w \in Eligible(e)
    BY <1>1, <1>2, <1>3, <1>6, WinnerIs
  <2>2. w \in 0..(n - 1) /\ e[w].score \in Int
    BY <2>1, <1>3 DEF Eligible, Judged, Candidate
  <2>3. w # None
    BY <2>2, NoneAssumption
  <2>4. h \in {"record", "verification", "held"}
    BY <1>1 DEF Holdout
  <2>5. h # "held" => h # None
    BY <2>4, NoneAssumption DEF Reasons
  <2>6. PICK x, y : x = SpecOf(q, k, w, "TEST").combination.parameters
                    /\ y = scores[SpecOf(q, k, w, "TEST").run]
    OBVIOUS
  <2>7. h = "held" => y \in Int \cup {None}
    <3>1. h = "held" => SpecOf(q, k, w, "TEST").run \in ok
      BY <1>1 DEF Holdout
    <3> QED BY <3>1, <2>6, OkScored DEF Scored
  <2>8. x \notin {None, <<>>}
    <3>1. PICK g \in DOMAIN records : SpecOf(q, k, w, "TEST") = Specs(q, k)[g]
      BY <2>2, RunsVerified
    <3>2. g \in 1..(3 * n)
      BY <3>1, RecordsAre
    <3> QED BY <3>1, <3>2, <2>6 DEF Shape
  <2>9. f = [status |-> IF h = "held" THEN "COMPLETED" ELSE "FAILED_HOLDOUT",
             failure |-> IF h = "held" THEN None ELSE h,
             records |-> records, evidence |-> e, winner |-> w, parameters |-> x,
             score |-> e[w].score, holdout |-> IF h = "held" THEN y ELSE None]
    BY <1>1, <1>6, <2>6, Zenon DEF FoldResult
  <2>10. DecisionFits(f, direction)
    BY <1>1, <1>6, <2>9 DEF DecisionFits
  <2>11. ValidFoldResult(f, direction)
    BY <1>4, <2>3, <2>5, <2>9, <2>10 DEF ValidFoldResult
  <2>12. f.status = "COMPLETED" => f.parameters \notin {None, <<>>} /\ f.score \in Int
                                   /\ f.holdout \in Int \cup {None}
    BY <2>2, <2>7, <2>8, <2>9
  <2>13. f.records = records
    BY <2>9
  <2> QED BY <2>11, <2>12, <2>13, <1>1 DEF FoldFits
<1> QED BY <1>5, <1>6

\* What is selected depends on which of the successful runs are intact, and
\* on nothing else.
Agree(q, k, records, a, b) ==
    \A g \in DOMAIN records :
        Successful(records[g]) => (Specs(q, k)[g].run \in a <=> Specs(q, k)[g].run \in b)

LEMMA SameResult ==
    ASSUME ScoresFit, NEW q, NEW k, NEW n, Shape(q, k, n), NEW records, Complete(q, k, records),
           NEW a, a \subseteq artifacts, NEW b, Agree(q, k, records, a, b)
    PROVE  FoldResult(q, k, records, a) = FoldResult(q, k, records, b)
<1>1. n \in 1..MostCombinations /\ n \in Nat /\ Candidates(q) = 0..(n - 1)
  BY DEF Shape, Candidates
<1>2. ASSUME NEW c \in 0..(n - 1), NEW role \in {"TRAIN", "VALIDATION", "TEST"}
      PROVE  Successful(RecordOf(records, c, role)) =>
               (SpecOf(q, k, c, role).run \in a <=> SpecOf(q, k, c, role).run \in b)
  <2>1. PICK g \in DOMAIN records : /\ RecordOf(records, c, role) = records[g]
                                    /\ SpecOf(q, k, c, role) = Specs(q, k)[g]
    BY RunsVerified
  <2> QED BY <2>1 DEF Agree
<1>3. ASSUME NEW c \in 0..(n - 1), NEW role \in {"TRAIN", "VALIDATION", "TEST"}
      PROVE  Reference(q, k, records, c, role, a) = Reference(q, k, records, c, role, b)
  BY <1>2 DEF Reference
<1>4. Evidence(q, k, records, a) = Evidence(q, k, records, b)
  BY <1>1, <1>3, Zenon DEF Evidence
<1>5. PICK e, w : e = Evidence(q, k, records, a) /\ w = Winner(e, PlanOf(q).direction)
  OBVIOUS
<1>6. Eligible(e) # {} => Holdout(q, k, records, w, a) = Holdout(q, k, records, w, b)
  <2> SUFFICES ASSUME Eligible(e) # {}
               PROVE  Holdout(q, k, records, w, a) = Holdout(q, k, records, w, b)
    OBVIOUS
  <2>1. Judged(e, n)
    <3>1. ASSUME NEW c \in 0..(n - 1), Reference(q, k, records, c, "VALIDATION", a) = "verified"
          PROVE  Scored(SpecOf(q, k, c, "VALIDATION").run)
      BY <3>1, OkScored DEF Reference
    <3> QED BY <3>1, <1>5, EvidenceIs
  <2>2. w \in Eligible(e)
    BY <1>1, <1>5, <2>1, WinnerIs
  <2>3. w \in 0..(n - 1)
    BY <2>1, <2>2 DEF Eligible, Judged
  <2> QED BY <1>2, <2>3 DEF Holdout
<1> QED BY <1>4, <1>5, <1>6, Zenon DEF FoldResult

\* The plans stay, and so does what a run came to; artifacts are only added.
Grows == /\ budget'.plans = budget.plans /\ plans' = plans
         /\ artifacts \subseteq artifacts'
         /\ \A r \in DOMAIN scores : r \in DOMAIN scores' /\ scores'[r] = scores[r]

\* The successful runs that are intact have a score.
Backed(q, k, records, ok) ==
    \A g \in DOMAIN records :
        Successful(records[g]) /\ Specs(q, k)[g].run \in ok => Scored(Specs(q, k)[g].run)

LEMMA ResultStays ==
    ASSUME Grows, NEW q, NEW k, NEW n, Shape(q, k, n), NEW records,
           Complete(q, k, records), NEW a, Backed(q, k, records, a)
    PROVE  FoldResult(q, k, records, a)' = FoldResult(q, k, records, a)
<1>1. n \in 1..MostCombinations /\ n \in Nat /\ Candidates(q) = 0..(n - 1)
  BY DEF Shape, Candidates
<1>2. plans' = plans
  BY DEF Grows
<1>3. Candidates(q)' = Candidates(q) /\ PlanOf(q)' = PlanOf(q)
  BY <1>2 DEF Candidates, PlanOf
<1>4. ASSUME NEW c, NEW role
      PROVE  /\ SpecOf(q, k, c, role)' = SpecOf(q, k, c, role)
             /\ Reference(q, k, records, c, role, a)' = Reference(q, k, records, c, role, a)
             /\ Holdout(q, k, records, c, a)' = Holdout(q, k, records, c, a)
  BY <1>2 DEF SpecOf, Specs, FoldOf, PlanOf, Reference, Holdout
<1>5. ASSUME NEW c \in 0..(n - 1), NEW role \in {"TRAIN", "VALIDATION", "TEST"},
             Successful(RecordOf(records, c, role)), SpecOf(q, k, c, role).run \in a
      PROVE  /\ Scored(SpecOf(q, k, c, role).run)
             /\ scores[SpecOf(q, k, c, role).run]' = scores[SpecOf(q, k, c, role).run]
  <2>1. PICK r : r = SpecOf(q, k, c, role).run
    OBVIOUS
  <2>2. PICK g \in DOMAIN records : /\ RecordOf(records, c, role) = records[g]
                                    /\ SpecOf(q, k, c, role) = Specs(q, k)[g]
    BY RunsVerified
  <2>3. Scored(r)
    BY <1>5, <2>1, <2>2 DEF Backed
  <2>4. scores'[r] = scores[r]
    BY <2>3 DEF Grows, Scored
  <2> QED BY <2>1, <2>3, <2>4, <1>4
<1>6. PICK e, f : e = Evidence(q, k, records, a) /\ f = Evidence(q, k, records, a)'
  OBVIOUS
<1>7. ASSUME NEW c \in 0..(n - 1)
      PROVE  e[c] = f[c]
  <2>1. PICK train, validation : /\ train = Reference(q, k, records, c, "TRAIN", a)
                                 /\ validation = Reference(q, k, records, c, "VALIDATION", a)
    OBVIOUS
  <2>2. e[c] = [train |-> train, validation |-> validation,
                score |-> IF train = "verified" /\ validation = "verified"
                          THEN scores[SpecOf(q, k, c, "VALIDATION").run] ELSE None]
    BY <1>1, <1>6, <2>1 DEF Evidence
  <2>3. f[c] = [train |-> train, validation |-> validation,
                score |-> IF train = "verified" /\ validation = "verified"
                          THEN scores[SpecOf(q, k, c, "VALIDATION").run]' ELSE None]
    BY <1>1, <1>3, <1>4, <1>6, <2>1 DEF Evidence
  <2>4. validation = "verified" =>
          Successful(RecordOf(records, c, "VALIDATION")) /\ SpecOf(q, k, c, "VALIDATION").run \in a
    BY <2>1 DEF Reference
  <2> QED BY <2>2, <2>3, <2>4, <1>5
<1>8. e = [c \in 0..(n - 1) |-> e[c]] /\ f = [c \in 0..(n - 1) |-> f[c]]
  BY <1>1, <1>3, <1>6 DEF Evidence
<1>9. e = f
  BY <1>7, <1>8
<1>10. PICK w, h, direction : /\ direction = PlanOf(q).direction
                              /\ w = Winner(e, direction)
                              /\ h = Holdout(q, k, records, w, a)
  OBVIOUS
<1>11. /\ Holdout(q, k, records, w, a)' = h
       /\ SpecOf(q, k, w, "TEST")' = SpecOf(q, k, w, "TEST")
  BY <1>4, <1>10
<1>12. h = "held" /\ Eligible(e) # {} =>
         scores[SpecOf(q, k, w, "TEST").run]' = scores[SpecOf(q, k, w, "TEST").run]
  <2> SUFFICES ASSUME h = "held", Eligible(e) # {}
               PROVE  scores[SpecOf(q, k, w, "TEST").run]' = scores[SpecOf(q, k, w, "TEST").run]
    OBVIOUS
  <2>1. Successful(RecordOf(records, w, "TEST")) /\ SpecOf(q, k, w, "TEST").run \in a
    BY <1>10 DEF Holdout
  <2>2. ASSUME NEW c \in 0..(n - 1), Reference(q, k, records, c, "VALIDATION", a) = "verified"
        PROVE  Scored(SpecOf(q, k, c, "VALIDATION").run)
    <3>1. Successful(RecordOf(records, c, "VALIDATION")) /\ SpecOf(q, k, c, "VALIDATION").run \in a
      BY <2>2 DEF Reference
    <3> QED BY <3>1, <1>5
  <2>3. Judged(e, n)
    BY <1>6, <2>2, EvidenceIs
  <2>4. w \in Eligible(e)
    BY <1>1, <1>10, <1>6, <2>3, WinnerIs
  <2>5. w \in 0..(n - 1)
    BY <2>3, <2>4 DEF Eligible, Judged
  <2> QED BY <2>1, <2>5, <1>5
<1>13. PICK x, y, z : /\ x = SpecOf(q, k, w, "TEST").combination.parameters
                      /\ y = scores[SpecOf(q, k, w, "TEST").run]
                      /\ z = scores[SpecOf(q, k, w, "TEST").run]'
  OBVIOUS
<1> DEFINE Result(v) == IF Eligible(e) = {}
                        THEN FailedFold("FAILED_NO_ELIGIBLE_CANDIDATE", "no_candidate", records, e)
                        ELSE [status |-> IF h = "held" THEN "COMPLETED" ELSE "FAILED_HOLDOUT",
                              failure |-> IF h = "held" THEN None ELSE h,
                              records |-> records, evidence |-> e, winner |-> w,
                              parameters |-> x, score |-> e[w].score,
                              holdout |-> IF h = "held" THEN v ELSE None]
<1>14. FoldResult(q, k, records, a) = Result(y)
  BY <1>6, <1>10, <1>13, Zenon DEF FoldResult
<1>15. FoldResult(q, k, records, a)' = Result(z)
  BY <1>3, <1>6, <1>9, <1>10, <1>11, <1>13, Zenon DEF FoldResult
<1>16. h = "held" /\ Eligible(e) # {} => y = z
  BY <1>12, <1>13
<1>17. Result(y) = Result(z)
  BY <1>16
<1> QED BY <1>14, <1>15, <1>17

-----------------------------------------------------------------------------
(* What is written can be read *)

\* The three kinds of numbers a manifest counts add up.
LEMMA ThreeCounts ==
    ASSUME NEW m \in Nat, NEW f, NEW A, NEW B,
           A = {i \in 1..m : f[i] = "COMPLETED"}, B = {i \in 1..m : f[i] = "REUSED"}
    PROVE  Cardinality(A) + Cardinality(B)
             + Cardinality({i \in 1..m : ~Successful(f[i])}) = m
<1> DEFINE C == {i \in 1..m : ~Successful(f[i])}
           AB == A \cup B
<1>1. IsFiniteSet(1..m) /\ Cardinality(1..m) = m
  BY FS_Interval
<1>2. A \subseteq 1..m /\ B \subseteq 1..m /\ C \subseteq 1..m
  OBVIOUS
<1>3. IsFiniteSet(A) /\ IsFiniteSet(B) /\ IsFiniteSet(C)
  BY <1>1, <1>2, FS_Subset
<1>4. AB \cup C = 1..m
  BY DEF Successful
<1>5. A \cap B = {} /\ AB \cap C = {}
  BY DEF Successful
<1> HIDE DEF C
<1>6. Cardinality(AB) = Cardinality(A) + Cardinality(B) - Cardinality(A \cap B) /\ IsFiniteSet(AB)
  BY <1>3, FS_Union
<1> HIDE DEF AB
<1>7. Cardinality(AB \cup C) = Cardinality(AB) + Cardinality(C) - Cardinality(AB \cap C)
  BY <1>3, <1>6, FS_Union
<1>8. Cardinality({}) = 0
  BY FS_EmptySet
<1>9. Cardinality(A) \in Nat /\ Cardinality(B) \in Nat /\ Cardinality(C) \in Nat
  BY <1>3, FS_CardinalityType
<1>10. PICK a, b, c, ab : /\ a = Cardinality(A) /\ b = Cardinality(B) /\ c = Cardinality(C)
                          /\ ab = Cardinality(AB)
  OBVIOUS
<1>11. Cardinality(A \cap B) = 0 /\ Cardinality(AB \cap C) = 0
  BY <1>5, <1>8
<1>12. ab = a + b - 0
  BY <1>6, <1>10, <1>11
<1>13. m = ab + c - 0
  BY <1>1, <1>4, <1>7, <1>10, <1>11
<1>14. a + b + c = m
  <2>1. a \in Nat /\ b \in Nat /\ c \in Nat
    BY <1>9, <1>10
  <2> QED BY <2>1, <1>12, <1>13
<1> QED BY <1>10, <1>14 DEF C

\* The specification of a run, by its position.
LEMMA SpecIs ==
    ASSUME NEW q, NEW k, NEW n, Shape(q, k, n), NEW g \in 1..(3 * n)
    PROVE  LET x == Specs(q, k)[g]
           IN  /\ x.global = g - 1 /\ x.combination.index = (g - 1) \div 3
               /\ x.segment.index = (g - 1) % 3
               /\ x.purpose = Purpose[Roles[x.segment.index + 1]]
<1>1. PICK e, x : e = FoldOf(q, k).experiment /\ x = Specs(q, k)[g]
  OBVIOUS
<1>2. n \in Nat /\ ValidExperimentPlan(e) /\ e.cardinality = 3 * n
  BY <1>1 DEF Shape
<1>3. e.specs = Specs(q, k) /\ x = e.specs[g] /\ g \in DOMAIN e.specs
  BY <1>1 DEF Specs, Shape
<1>4. /\ ValidRunSpec(x) /\ x.global = g - 1
      /\ x.combination = e.combinations[1 + (x.global \div 3)]
      /\ x.segment = e.temporal.segments[1 + (x.global % 3)]
  BY <1>2, <1>3, Zenon DEF ValidExperimentPlan
<1>5. e.space.cardinality = n
  <2>1. e.cardinality = 3 * e.space.cardinality /\ e.space.cardinality \in 1..MostCombinations
    BY <1>2 DEF ValidExperimentPlan, SpecsFit
  <2> QED BY <2>1, <1>2, NoneAssumption
<1>6. PICK i, j : i = (g - 1) \div 3 /\ j = (g - 1) % 3
  OBVIOUS
<1>7. i \in 0..(n - 1) /\ j \in 0..2
  BY <1>2, <1>6
<1>8. x.combination.index = i
  <2>1. ValidExpansion(e.combinations, e.space)
    BY <1>2 DEF ValidExperimentPlan
  <2>2. \A h \in DOMAIN e.combinations : e.combinations[h].index = h - 1
    BY <2>1 DEF ValidExpansion
  <2>3. 1 + i \in DOMAIN e.combinations
    BY <2>1, <1>5, <1>7 DEF ValidExpansion
  <2>4. e.combinations[1 + i].index = i
    BY <2>2, <2>3, <1>7
  <2> QED BY <2>4, <1>4, <1>6
<1>9. x.segment.index = j
  <2>1. ValidTemporalPlan(e.temporal)
    BY <1>2 DEF ValidExperimentPlan
  <2>2. \A h \in 1..3 : e.temporal.segments[h].index = h - 1
    BY <2>1, Zenon DEF ValidTemporalPlan
  <2>3. 1 + j \in 1..3
    BY <1>7
  <2>4. e.temporal.segments[1 + j].index = j
    BY <2>2, <2>3, <1>7
  <2> QED BY <2>4, <1>4, <1>6
<1>10. x.purpose = Purpose[Roles[x.segment.index + 1]]
  BY <1>4 DEF ValidRunSpec, ValidSegment
<1> QED BY <1>1, <1>4, <1>6, <1>8, <1>9, <1>10

\* What a run is recorded as fits its place in the plan.
LEMMA RecordFits ==
    ASSUME NEW q, NEW k, NEW n, Shape(q, k, n), NEW g \in 1..(3 * n), NEW status \in RunStatuses
    PROVE  LET x == Specs(q, k)[g]  r == RunRecord(x, status)
           IN  /\ ValidRecord(r) /\ r.global = g - 1 /\ r.combination = (g - 1) \div 3
               /\ r.global = x.global /\ r.purpose = x.purpose
               /\ r.combination = x.combination.index /\ r.segment = x.segment.index
               /\ Successful(r.status) => r.run = x.run
               /\ r.status = "COMPLETED" <=> status = "COMPLETED"
               /\ r.status = "REUSED" <=> status = "REUSED"
               /\ r.status = "FAILED" <=> ~Successful(status)
<1>1. PICK x, r : x = Specs(q, k)[g] /\ r = RunRecord(x, status)
  OBVIOUS
<1>2. PICK i, j : i = (g - 1) \div 3 /\ j = (g - 1) % 3
  OBVIOUS
<1>3. n \in Nat /\ x.run # None
  BY <1>1 DEF Shape
<1>4. g - 1 = 3 * i + j /\ i \in Nat /\ j \in 0..2
  BY <1>2, <1>3
<1>5. /\ x.global = g - 1 /\ x.combination.index = i /\ x.segment.index = j
      /\ x.purpose = Purpose[Roles[j + 1]]
  BY <1>1, <1>2, SpecIs
<1>6. status # None /\ status # "FAILED"
  BY NoneAssumption DEF RunStatuses
<1>7. r = [global |-> g - 1, combination |-> i, segment |-> j, purpose |-> x.purpose,
           status |-> IF Successful(status) THEN status ELSE "FAILED",
           run |-> IF Successful(status) THEN x.run ELSE None,
           error |-> IF Successful(status) THEN None ELSE status,
           verified |-> Successful(status), reused |-> status = "REUSED"]
  BY <1>1, <1>5, Zenon DEF RunRecord
<1>8. ValidRecord(r)
  <2>1. r.segment \in 0..2 /\ r.global = 3 * r.combination + r.segment
    BY <1>4, <1>7
  <2>2. r.purpose = Purpose[Roles[r.segment + 1]]
    BY <1>5, <1>7
  <2>3. CASE Successful(status)
    <3>1. r.status = status /\ r.run = x.run /\ r.error = None
          /\ r.verified = TRUE /\ r.reused = (status = "REUSED")
      BY <1>7, <2>3
    <3>2. Successful(r.status)
      BY <2>3, <3>1
    <3> QED BY <2>1, <2>2, <3>1, <3>2, <1>3 DEF ValidRecord
  <2>4. CASE ~Successful(status)
    <3>1. r.status = "FAILED" /\ r.run = None /\ r.error = status
          /\ r.verified = FALSE /\ r.reused = (status = "REUSED")
      BY <1>7, <2>4
    <3>2. ~Successful(r.status) /\ status # "REUSED"
      BY <2>4, <3>1 DEF Successful
    <3> QED BY <2>1, <2>2, <3>1, <3>2, <1>6 DEF ValidRecord
  <2> QED BY <2>3, <2>4
<1>9. /\ r.global = g - 1 /\ r.combination = i /\ r.segment = j /\ r.purpose = x.purpose
      /\ Successful(r.status) => r.run = x.run
  BY <1>7 DEF Successful
<1>10. /\ r.status = "COMPLETED" <=> status = "COMPLETED"
       /\ r.status = "REUSED" <=> status = "REUSED"
       /\ r.status = "FAILED" <=> ~Successful(status)
  BY <1>6, <1>7 DEF Successful
<1> QED BY <1>1, <1>2, <1>5, <1>8, <1>9, <1>10

\* The manifest of a complete experiment is accepted against its plan.
LEMMA ExperimentReadable ==
    ASSUME NEW q, NEW k, NEW n, Shape(q, k, n), NEW records, Complete(q, k, records)
    PROVE  Readable(ExperimentDoc(q, k, records))
<1>1. PICK e, m, rs : /\ e = FoldOf(q, k).experiment
                      /\ m = ExperimentManifest(e, records)
                      /\ rs = m.records
  OBVIOUS
<1>2. n \in Nat /\ n >= 1 /\ ValidExperimentPlan(e) /\ e.cardinality = 3 * n
  BY <1>1 DEF Shape
<1>3. e.specs = Specs(q, k)
  BY <1>1 DEF Specs
<1>4. /\ records \in [1..(3 * n) -> RunStatuses]
      /\ DOMAIN records = 1..(3 * n) /\ Len(records) = 3 * n /\ Len(e.specs) = 3 * n
  BY <1>3, RecordsAre
<1>5. rs = [g \in 1..(3 * n) |-> RunRecord(e.specs[g], records[g])]
  BY <1>1, <1>4 DEF ExperimentManifest
<1>6. DOMAIN rs = 1..(3 * n) /\ Len(rs) = 3 * n
  BY <1>2, <1>5
<1>7. ASSUME NEW g \in 1..(3 * n)
      PROVE  LET x == e.specs[g]
             IN  /\ ValidRecord(rs[g]) /\ rs[g].global = g - 1 /\ rs[g].combination = (g - 1) \div 3
                 /\ rs[g].global = x.global /\ rs[g].purpose = x.purpose
                 /\ rs[g].combination = x.combination.index /\ rs[g].segment = x.segment.index
                 /\ Successful(rs[g].status) => rs[g].run = x.run
                 /\ rs[g].status = "COMPLETED" <=> records[g] = "COMPLETED"
                 /\ rs[g].status = "REUSED" <=> records[g] = "REUSED"
                 /\ rs[g].status = "FAILED" <=> ~Successful(records[g])
  <2>1. PICK status : status = records[g]
    OBVIOUS
  <2>2. status \in RunStatuses /\ rs[g] = RunRecord(Specs(q, k)[g], status)
    BY <1>3, <1>4, <1>5, <2>1
  <2> QED BY <1>3, <2>1, <2>2, RecordFits
<1> DEFINE A == {g \in 1..(3 * n) : records[g] = "COMPLETED"}
           B == {g \in 1..(3 * n) : records[g] = "REUSED"}
           C == {g \in 1..(3 * n) : ~Successful(records[g])}
<1>8. /\ m.total = 3 * n /\ m.failed = Cardinality(C) /\ m.completed = Cardinality(A)
      /\ m.reused = Cardinality(B) /\ m.status = Aggregate(m.failed, 3 * n)
  BY <1>1, <1>4 DEF ExperimentManifest, CountOf
<1>9. /\ {g \in DOMAIN rs : rs[g].status = "COMPLETED"} = A
      /\ {g \in DOMAIN rs : rs[g].status = "REUSED"} = B
      /\ {g \in DOMAIN rs : rs[g].status = "FAILED"} = C
  BY <1>6, <1>7
<1>10. Cardinality(A) + Cardinality(B) + Cardinality(C) = 3 * n
  <2>1. 3 * n \in Nat
    BY <1>2
  <2> QED BY <2>1, ThreeCounts
<1>11. ValidRecords(rs)
  <2>1. rs # <<>> /\ Len(rs) % 3 = 0
    BY <1>2, <1>6
  <2> QED BY <1>6, <1>7, <2>1 DEF ValidRecords
<1>12. ValidExperimentManifest(m)
  <2>1. /\ CountOf(m.records, LAMBDA r : r.status = "COMPLETED") = Cardinality(A)
        /\ CountOf(m.records, LAMBDA r : r.status = "REUSED") = Cardinality(B)
        /\ CountOf(m.records, LAMBDA r : r.status = "FAILED") = Cardinality(C)
    BY <1>1, <1>9 DEF CountOf
  <2>2. m.completed + m.reused + m.failed = m.total /\ m.total = Len(m.records)
    BY <1>1, <1>6, <1>8, <1>10
  <2>3. m.status = Aggregate(m.failed, m.total)
    BY <1>8
  <2> HIDE DEF A, B, C
  <2> QED BY <2>1, <2>2, <2>3, <1>1, <1>8, <1>11, Zenon DEF ValidExperimentManifest
<1>13. ManifestFitsPlan(m, e)
  BY <1>1, <1>2, <1>4, <1>6, <1>7, <1>8, <1>12 DEF ManifestFitsPlan
<1> QED BY <1>1, <1>13 DEF Readable, ExperimentDoc

\* The manifest of folds as many as planned is accepted.
LEMMA WalkReadable ==
    ASSUME BudgetFits, NEW d, WalkFits(d)
    PROVE  Readable(d)
<1>1. PICK q, fs, m : q = d.plan /\ fs = d.folds /\ m = WalkForwardManifest(fs)
  OBVIOUS
<1>2. d.kind = "walk"
  BY DEF WalkFits, WalkDoc
<1>3. FoldsSettled(q, fs) /\ Len(fs) = PlanOf(q).foldCount
  BY <1>1 DEF WalkFits
<1>4. Len(fs) >= 2
  <2>1. PlanOf(q).foldCount \in 2..MostFolds
    BY <1>3, PlanShape DEF FoldsSettled
  <2> QED BY <2>1, <1>3, FoldsAssumption
<1>5. PICK direction : direction = PlanOf(q).direction
  OBVIOUS
<1>6. \A k \in DOMAIN fs : ValidFoldResult(fs[k], direction)
  BY <1>3, <1>5 DEF FoldsSettled, FoldFits
<1>7. ValidWalkForwardManifest(m, direction)
  BY <1>1, <1>4, <1>6 DEF ValidWalkForwardManifest, WalkForwardManifest
<1> QED BY <1>1, <1>2, <1>5, <1>7 DEF Readable

-----------------------------------------------------------------------------
(* Completed folds and observations, one by one *)

Added(items, n, prev) == IF items[n].status = "COMPLETED" THEN Append(prev, items[n]) ELSE prev
IsTable(f, items, k) == f = [i \in 0..k |-> IF i = 0 THEN <<>> ELSE Added(items, i, f[i - 1])]

LEMMA TableExists ==
    ASSUME NEW items, NEW k \in Nat
    PROVE  \E f : IsTable(f, items, k)
<1> DEFINE S == {m \in 0..k : \E f : IsTable(f, items, m)}
<1>1. 0 \in S
  <2>1. PICK f : f = [i \in 0..0 |-> <<>>]
    OBVIOUS
  <2>2. IsTable(f, items, 0)
    BY <2>1 DEF IsTable
  <2> QED BY <2>2
<1>2. ASSUME NEW m \in 0..(k - 1), m \in S PROVE m + 1 \in S
  <2>1. PICK f : IsTable(f, items, m)
    BY <1>2
  <2>2. m \in Nat /\ m + 1 \in 0..k
    OBVIOUS
  <2> DEFINE h == [i \in 0..(m + 1) |-> IF i <= m THEN f[i] ELSE Added(items, m + 1, f[m])]
  <2>3. ASSUME NEW i \in 0..(m + 1)
        PROVE  h[i] = IF i = 0 THEN <<>> ELSE Added(items, i, h[i - 1])
    <3>1. CASE i = 0
      <4>1. h[0] = f[0] /\ f[0] = <<>>
        BY <2>1, <2>2 DEF IsTable
      <4> QED BY <3>1, <4>1
    <3>2. CASE i # 0 /\ i <= m
      <4>1. i \in 0..m /\ i - 1 \in 0..m /\ i - 1 <= m /\ i - 1 \in 0..(m + 1)
        BY <2>2, <3>2
      <4>2. h[i] = f[i] /\ h[i - 1] = f[i - 1]
        BY <3>2, <4>1
      <4>3. f[i] = Added(items, i, f[i - 1])
        BY <2>1, <3>2, <4>1 DEF IsTable
      <4> QED BY <3>2, <4>2, <4>3
    <3>3. CASE i = m + 1
      <4>1. i # 0 /\ i - 1 = m /\ m \in 0..(m + 1) /\ ~(i <= m)
        BY <2>2, <3>3
      <4>2. h[i] = Added(items, m + 1, f[m]) /\ h[m] = f[m]
        BY <2>2, <4>1
      <4> QED BY <3>3, <4>1, <4>2
    <3> QED BY <2>2, <3>1, <3>2, <3>3
  <2>4. IsTable(h, items, m + 1)
    <3>1. h = [i \in 0..(m + 1) |-> h[i]]
      OBVIOUS
    <3> HIDE DEF h
    <3> QED BY <2>3, <3>1 DEF IsTable
  <2> HIDE DEF h
  <2> QED BY <2>2, <2>4
<1>3. 0..k \subseteq S
  <2> HIDE DEF S
  <2> QED BY <1>1, <1>2, UpTo
<1> QED BY <1>3

LEMMA TableIs ==
    ASSUME NEW items, NEW k \in Nat
    PROVE  \E f : IsTable(f, items, k) /\ CompletedTo(items, k) = f[k]
<1> DEFINE g == CHOOSE f : IsTable(f, items, k)
<1>1. IsTable(g, items, k)
  BY TableExists
<1>2. CompletedTo(items, k) = g[k]
  <2>1. CompletedTo(items, k) =
          LET done[i \in 0..k] == IF i = 0 THEN <<>>
                                  ELSE IF items[i].status = "COMPLETED" THEN Append(done[i - 1], items[i])
                                  ELSE done[i - 1]
          IN  done[k]
    BY DEF CompletedTo
  <2> QED BY <2>1 DEF IsTable, Added
<1> HIDE DEF g
<1> QED BY <1>1, <1>2

LEMMA CompletedUnfolds ==
    ASSUME NEW items, NEW n \in Nat
    PROVE  /\ CompletedTo(items, 0) = <<>>
           /\ CompletedTo(items, n + 1) = Added(items, n + 1, CompletedTo(items, n))
<1>1. CompletedTo(items, 0) = <<>>
  <2>1. PICK f : IsTable(f, items, 0) /\ CompletedTo(items, 0) = f[0]
    BY TableIs
  <2>2. f[0] = <<>>
    BY <2>1 DEF IsTable
  <2> QED BY <2>1, <2>2
<1>2. PICK f : IsTable(f, items, n) /\ CompletedTo(items, n) = f[n]
  BY TableIs
<1>3. PICK g : IsTable(g, items, n + 1) /\ CompletedTo(items, n + 1) = g[n + 1]
  <2>1. n + 1 \in Nat
    OBVIOUS
  <2> QED BY <2>1, TableIs
<1> DEFINE S == {i \in 0..n : f[i] = g[i]}
<1>4. 0 \in S
  BY <1>2, <1>3 DEF IsTable
<1>5. ASSUME NEW m \in 0..(n - 1), m \in S PROVE m + 1 \in S
  <2>1. m + 1 \in 0..n /\ m + 1 \in 0..(n + 1) /\ m + 1 # 0 /\ (m + 1) - 1 = m
    OBVIOUS
  <2>2. f[m + 1] = Added(items, m + 1, f[m]) /\ g[m + 1] = Added(items, m + 1, g[m])
    BY <1>2, <1>3, <2>1 DEF IsTable
  <2> QED BY <1>5, <2>1, <2>2
<1>6. 0..n \subseteq S
  <2> HIDE DEF S
  <2> QED BY <1>4, <1>5, UpTo
<1>7. f[n] = g[n]
  BY <1>6
<1>8. g[n + 1] = Added(items, n + 1, g[n])
  <2>1. n + 1 \in 0..(n + 1) /\ n + 1 # 0 /\ (n + 1) - 1 = n
    OBVIOUS
  <2> QED BY <1>3, <2>1 DEF IsTable
<1> QED BY <1>1, <1>2, <1>3, <1>7, <1>8

\* Folds that a report can be made of.
Reportable(fs) ==
    \A k \in DOMAIN fs : fs[k].status = "COMPLETED" =>
        fs[k].parameters \notin {None, <<>>} /\ fs[k].score \in Int /\ fs[k].holdout \in Int

\* The observations c are those of the completed folds f, each after the one before.
Follows(c, f, direction) ==
    /\ c \in Seq(Range(c)) /\ f \in Seq(Range(f)) /\ Len(c) = Len(f)
    /\ \A i \in 1..Len(f) :
         /\ f[i].parameters \notin {None, <<>>} /\ f[i].score \in Int /\ f[i].holdout \in Int
         /\ c[i] = CompletedObservation(f[i], IF i = 1 THEN <<>> ELSE f[i - 1].parameters, direction)

LEMMA Extended ==
    ASSUME NEW s, s \in Seq(Range(s)), NEW x
    PROVE  LET t == Append(s, x)
           IN  /\ t \in Seq(Range(t)) /\ Len(t) = Len(s) + 1 /\ Len(s) \in Nat
               /\ t[Len(s) + 1] = x /\ \A i \in 1..Len(s) : t[i] = s[i]
<1> DEFINE t == Append(s, x)
           S == Range(s) \cup {x}
<1>1. s \in Seq(S)
  BY SeqMonotonic
<1>2. t \in Seq(S) /\ Len(t) = Len(s) + 1 /\ Len(s) \in Nat
  BY <1>1
<1>3. t[Len(s) + 1] = x /\ \A i \in 1..Len(s) : t[i] = s[i]
  BY <1>1
<1>4. t \in Seq(Range(t))
  <2>1. t \in [1..Len(t) -> S] /\ Len(t) \in Nat
    <3> HIDE DEF t, S
    <3> QED BY <1>2, LenProperties
  <2>2. t \in [1..Len(t) -> Range(t)]
    BY <2>1 DEF Range
  <2> HIDE DEF t
  <2> QED BY <2>1, <2>2, SeqDef
<1> QED BY <1>2, <1>3, <1>4

LEMMA ObservationIs ==
    ASSUME NEW fs, NEW direction, NEW k \in DOMAIN fs
    PROVE  LET o == Observations(fs, direction)[k]
           IN  /\ o.status = "COMPLETED" <=> fs[k].status = "COMPLETED"
               /\ fs[k].status = "COMPLETED" =>
                    o = CompletedObservation(fs[k], PreviousParameters(fs, k), direction)
               /\ fs[k].status # "COMPLETED" => o = FailedObservation(fs[k].status)
<1>1. PICK o : o = Observations(fs, direction)[k]
  OBVIOUS
<1>2. o = IF fs[k].status = "COMPLETED"
          THEN CompletedObservation(fs[k], PreviousParameters(fs, k), direction)
          ELSE FailedObservation(fs[k].status)
  BY <1>1 DEF Observations
<1>3. CASE fs[k].status = "COMPLETED"
  <2>1. o = CompletedObservation(fs[k], PreviousParameters(fs, k), direction)
    BY <1>2, <1>3
  <2>2. o.status = "COMPLETED"
    BY <2>1 DEF CompletedObservation
  <2> QED BY <1>1, <1>3, <2>1, <2>2
<1>4. CASE fs[k].status # "COMPLETED"
  <2>1. o = FailedObservation(fs[k].status)
    BY <1>2, <1>4
  <2>2. o.status = fs[k].status
    BY <2>1 DEF FailedObservation
  <2> QED BY <1>1, <1>4, <2>1, <2>2
<1> QED BY <1>3, <1>4

LEMMA ObservationsFollow ==
    ASSUME NEW fs, NEW n \in Nat, DOMAIN fs = 1..n, Reportable(fs), NEW direction
    PROVE  Follows(CompletedTo(Observations(fs, direction), n), CompletedTo(fs, n), direction)
<1> DEFINE obs == Observations(fs, direction)
           P(m) == Follows(CompletedTo(obs, m), CompletedTo(fs, m), direction)
           S == {m \in 0..n : P(m)}
<1>1. 0 \in S
  <2>1. CompletedTo(obs, 0) = <<>> /\ CompletedTo(fs, 0) = <<>>
    BY CompletedUnfolds
  <2>2. Follows(<<>>, <<>>, direction)
    BY DEF Follows
  <2> HIDE DEF obs
  <2> QED BY <2>1, <2>2
<1>2. ASSUME NEW m \in 0..(n - 1), m \in S PROVE m + 1 \in S
  <2>1. PICK c, f : c = CompletedTo(obs, m) /\ f = CompletedTo(fs, m)
    OBVIOUS
  <2>2. Follows(c, f, direction)
    BY <1>2, <2>1
  <2>3. m \in Nat /\ m + 1 \in DOMAIN fs /\ m + 1 \in 0..n /\ (m + 1) - 1 = m
    OBVIOUS
  <2>4. PICK a, b : a = CompletedTo(obs, m + 1) /\ b = CompletedTo(fs, m + 1)
    OBVIOUS
  <2>5. a = Added(obs, m + 1, c) /\ b = Added(fs, m + 1, f)
    BY <2>1, <2>3, <2>4, CompletedUnfolds
  <2>6. PICK o, x, s : o = obs[m + 1] /\ x = fs[m + 1] /\ s = PreviousParameters(fs, m + 1)
    OBVIOUS
  <2>7. /\ o.status = "COMPLETED" <=> x.status = "COMPLETED"
        /\ x.status = "COMPLETED" => o = CompletedObservation(x, s, direction)
    BY <2>3, <2>6, ObservationIs
  <2>8. CASE x.status # "COMPLETED"
    <3>1. a = c /\ b = f
      BY <2>5, <2>6, <2>7, <2>8 DEF Added
    <3> QED BY <3>1, <2>2, <2>3, <2>4
  <2>9. CASE x.status = "COMPLETED"
    <3>1. a = Append(c, o) /\ b = Append(f, x)
      BY <2>5, <2>6, <2>7, <2>9 DEF Added
    <3>2. PICK l : l = Len(f)
      OBVIOUS
    <3>3. /\ c \in Seq(Range(c)) /\ f \in Seq(Range(f)) /\ Len(c) = l
          /\ \A i \in 1..l :
               /\ f[i].parameters \notin {None, <<>>} /\ f[i].score \in Int /\ f[i].holdout \in Int
               /\ c[i] = CompletedObservation(f[i], IF i = 1 THEN <<>> ELSE f[i - 1].parameters, direction)
      BY <2>2, <3>2, Zenon DEF Follows
    <3>4. /\ a \in Seq(Range(a)) /\ Len(a) = l + 1 /\ l \in Nat
          /\ a[l + 1] = o /\ \A i \in 1..l : a[i] = c[i]
      BY <3>1, <3>3, Extended
    <3>5. /\ b \in Seq(Range(b)) /\ Len(b) = l + 1
          /\ b[l + 1] = x /\ \A i \in 1..l : b[i] = f[i]
      BY <3>1, <3>2, <3>3, Extended
    <3>6. s = IF l = 0 THEN <<>> ELSE f[l].parameters
      <4>1. CompletedBefore(fs, m + 1) = f
        BY <2>1, <2>3 DEF CompletedBefore
      <4>2. f = <<>> <=> l = 0
        BY <3>2, <3>3
      <4> QED BY <2>6, <3>2, <4>1, <4>2 DEF PreviousParameters, Last
    <3>7. x.parameters \notin {None, <<>>} /\ x.score \in Int /\ x.holdout \in Int
      BY <2>3, <2>6, <2>9 DEF Reportable
    <3>8. o = CompletedObservation(x, s, direction)
      BY <2>7, <2>9
    <3>9. ASSUME NEW i \in 1..(l + 1)
          PROVE  /\ b[i].parameters \notin {None, <<>>} /\ b[i].score \in Int /\ b[i].holdout \in Int
                 /\ a[i] = CompletedObservation(b[i], IF i = 1 THEN <<>> ELSE b[i - 1].parameters, direction)
      <4>1. CASE i \in 1..l
        <5>1. b[i] = f[i] /\ a[i] = c[i]
          BY <3>4, <3>5, <4>1
        <5>2. i # 1 => b[i - 1] = f[i - 1]
          BY <3>4, <3>5, <4>1
        <5> QED BY <5>1, <5>2, <3>3, <4>1
      <4>2. CASE i = l + 1
        <5>1. b[i] = x /\ a[i] = o
          BY <3>4, <3>5, <4>2
        <5>2. i = 1 <=> l = 0
          BY <3>4, <4>2
        <5>3. i # 1 => b[i - 1] = f[l]
          BY <3>4, <3>5, <4>2
        <5>4. s = IF i = 1 THEN <<>> ELSE b[i - 1].parameters
          BY <5>2, <5>3, <3>6
        <5> QED BY <5>1, <5>4, <3>7, <3>8
      <4> QED BY <3>4, <4>1, <4>2
    <3>10. Follows(a, b, direction)
      BY <3>4, <3>5, <3>9, Zenon DEF Follows
    <3> QED BY <3>10, <2>3, <2>4
  <2> QED BY <2>8, <2>9
<1>3. 0..n \subseteq S
  <2> HIDE DEF S
  <2> QED BY <1>1, <1>2, UpTo
<1>4. n \in 0..n
  OBVIOUS
<1> QED BY <1>3, <1>4

\* An observation of a fold has all of its fields, or none.
LEMMA ObservationValid ==
    ASSUME NEW fs, NEW n \in Nat, DOMAIN fs = 1..n, Reportable(fs), NEW direction,
           NEW k \in DOMAIN fs
    PROVE  ValidObservation(Observations(fs, direction)[k])
<1>1. PICK o, x, s : /\ o = Observations(fs, direction)[k] /\ x = fs[k]
                     /\ s = PreviousParameters(fs, k)
  OBVIOUS
<1>2. CASE x.status = "COMPLETED"
  <2>1. o = CompletedObservation(x, s, direction) /\ o.status = "COMPLETED"
    BY <1>1, <1>2, ObservationIs
  <2>2. x.parameters # None /\ x.score \in Int /\ x.holdout \in Int
    BY <1>1, <1>2 DEF Reportable
  <2>3. PICK d, w : /\ d = Degradation(x.score, x.holdout, direction)
                    /\ w = NotWorse(x.score, x.holdout, direction)
    OBVIOUS
  <2>4. d \in Int
    BY <2>2, <2>3 DEF Degradation
  <2>5. w = TRUE \/ w = FALSE
    <3>1. PICK a, b : a = x.score /\ b = x.holdout
      OBVIOUS
    <3>2. w = IF direction = "MAXIMIZE" THEN b >= a ELSE b <= a
      BY <2>3, <3>1 DEF NotWorse
    <3>3. a \in Int /\ b \in Int
      BY <2>2, <3>1
    <3> QED BY <3>2, <3>3
  <2>6. d # None /\ x.score # None /\ x.holdout # None /\ w # None
    <3>1. d # None /\ x.score # None /\ x.holdout # None
      BY <2>2, <2>4, NoneAssumption
    <3>2. None # TRUE /\ None # FALSE
      BY NoneAssumption
    <3> QED BY <3>1, <3>2, <2>5
  <2>7. /\ o.parameters = x.parameters /\ o.validation = x.score /\ o.test = x.holdout
        /\ o.degradation = d /\ o.notWorse = w
    BY <2>1, <2>3, Zenon DEF CompletedObservation
  <2>8. PICK v : v = <<o.parameters, o.validation, o.test, o.degradation, o.notWorse>>
    OBVIOUS
  <2>9. DOMAIN v = 1..5
    BY <2>8
  <2>10. /\ v[1] = o.parameters /\ v[2] = o.validation /\ v[3] = o.test
         /\ v[4] = o.degradation /\ v[5] = o.notWorse
    BY <2>8
  <2>11. v[1] # None /\ v[2] # None /\ v[3] # None /\ v[4] # None /\ v[5] # None
    BY <2>2, <2>6, <2>7, <2>10
  <2>12. \A i \in DOMAIN v : v[i] # None
    BY <2>9, <2>11
  <2> QED BY <1>1, <2>1, <2>8, <2>12 DEF ValidObservation
<1>3. CASE x.status # "COMPLETED"
  <2>1. o = FailedObservation(x.status)
    BY <1>1, <1>3, ObservationIs
  <2> QED BY <2>1, <1>1, <1>3 DEF FailedObservation, ValidObservation
<1> QED BY <1>2, <1>3

\* The report on a walk-forward whose holdouts have the metric is accepted.
LEMMA ReportReadable ==
    ASSUME BudgetFits, NEW d, WalkFits(d), NEW policy, ValidPolicy(policy), MayReport(d.folds)
    PROVE  Readable(ReportDoc(d, policy))
<1>1. PICK fs, n, direction, obs, r :
        /\ fs = d.folds /\ n = Len(fs) /\ direction = policy.direction
        /\ obs = Observations(fs, direction) /\ r = Report(d, policy, obs)
  OBVIOUS
<1>2. FoldsSettled(d.plan, fs) /\ n = PlanOf(d.plan).foldCount
  BY <1>1 DEF WalkFits
<1>3. n \in Nat /\ n \in 2..MostStabilityFolds
  <2>1. n \in 2..MostFolds
    BY <1>2, PlanShape DEF FoldsSettled
  <2> QED BY <2>1, FoldsAssumption
<1>4. DOMAIN fs = 1..n
  <2>1. fs \in Seq(Range(fs))
    BY <1>2 DEF FoldsSettled, IsSequence
  <2> QED BY <2>1, <1>1
<1>5. Reportable(fs)
  BY <1>1, <1>2 DEF FoldsSettled, FoldFits, MayReport, Reportable
<1>6. DOMAIN obs = 1..n /\ Len(obs) = n
  <2>1. obs = [k \in 1..n |-> obs[k]]
    BY <1>1, <1>4 DEF Observations
  <2> QED BY <2>1, <1>3
<1>7. \A k \in DOMAIN obs : ValidObservation(obs[k])
  BY <1>1, <1>3, <1>4, <1>5, <1>6, ObservationValid
<1>8. PICK c, f : c = CompletedTo(obs, n) /\ f = CompletedTo(fs, n)
  OBVIOUS
<1>9. Follows(c, f, direction)
  BY <1>1, <1>3, <1>4, <1>5, <1>8, ObservationsFollow
<1>10. PICK l : l = Len(f)
  OBVIOUS
<1>11. l \in Nat /\ Len(c) = l /\ DOMAIN c = 1..l
  BY <1>9, <1>10 DEF Follows
<1>12. Completed(obs) = c
  BY <1>6, <1>8 DEF Completed
<1>13. ASSUME NEW i \in 1..l
       PROVE  /\ c[i].degradation = Degradation(c[i].validation, c[i].test, direction)
              /\ c[i].notWorse = NotWorse(c[i].validation, c[i].test, direction)
              /\ c[i].changed = IF i = 1 THEN None ELSE c[i].parameters # c[i - 1].parameters
  <2>1. \A j \in 1..l : /\ f[j].parameters # <<>>
                        /\ c[j] = CompletedObservation(f[j], IF j = 1 THEN <<>> ELSE f[j - 1].parameters,
                                                       direction)
    BY <1>9, <1>10 DEF Follows
  <2>2. PICK s : s = IF i = 1 THEN <<>> ELSE f[i - 1].parameters
    OBVIOUS
  <2>3. c[i] = CompletedObservation(f[i], s, direction)
    BY <2>1, <2>2
  <2>4. /\ c[i].parameters = f[i].parameters /\ c[i].validation = f[i].score
        /\ c[i].test = f[i].holdout
        /\ c[i].degradation = Degradation(f[i].score, f[i].holdout, direction)
        /\ c[i].notWorse = NotWorse(f[i].score, f[i].holdout, direction)
        /\ c[i].changed = IF s = <<>> THEN None ELSE f[i].parameters # s
    BY <2>3 DEF CompletedObservation
  <2>5. CASE i = 1
    BY <2>2, <2>4, <2>5
  <2>6. CASE i # 1
    <3>1. i - 1 \in 1..l
      BY <1>11, <2>6
    <3>2. f[i - 1].parameters # <<>>
      BY <2>1, <3>1
    <3>3. PICK t : t = IF i - 1 = 1 THEN <<>> ELSE f[(i - 1) - 1].parameters
      OBVIOUS
    <3>4. c[i - 1] = CompletedObservation(f[i - 1], t, direction)
      BY <2>1, <3>1, <3>3
    <3>5. c[i - 1].parameters = f[i - 1].parameters
      BY <3>4 DEF CompletedObservation
    <3> QED BY <2>2, <2>4, <2>6, <3>2, <3>5
  <2> QED BY <2>5, <2>6
<1>14. /\ r.source = d /\ r.policy = policy /\ r.observations = obs
       /\ r.foldCount = Len(obs) /\ r.completed = Len(Completed(obs))
  BY <1>1 DEF Report
<1>15. r = Report(r.source, r.policy, r.observations)
  BY <1>1, <1>14, Zenon
<1>16. policy.direction = direction
  BY <1>1
<1>17. ValidReport(r)
  <2>1. Completed(r.observations) = c /\ r.policy.direction = direction
    BY <1>12, <1>14, <1>16
  <2>2. ValidPolicy(r.policy) /\ Len(r.observations) \in 2..MostStabilityFolds
    BY <1>3, <1>6, <1>14
  <2>3. \A k \in DOMAIN r.observations : ValidObservation(r.observations[k])
    BY <1>7, <1>14
  <2>4. r.foldCount = Len(r.observations) /\ r.completed = Len(c)
    BY <1>12, <1>14
  <2>5. \A i \in DOMAIN c :
          /\ c[i].degradation = Degradation(c[i].validation, c[i].test, r.policy.direction)
          /\ c[i].notWorse = NotWorse(c[i].validation, c[i].test, r.policy.direction)
          /\ c[i].changed = IF i = 1 THEN None ELSE c[i].parameters # c[i - 1].parameters
    BY <1>11, <1>13, <2>1, Zenon
  <2> QED BY <1>15, <2>1, <2>2, <2>3, <2>4, <2>5, Zenon DEF ValidReport
<1>18. ReportDoc(d, policy) = [kind |-> "report", plan |-> d.plan, report |-> r]
  BY <1>1 DEF ReportDoc
<1> QED BY <1>17, <1>18 DEF Readable

-----------------------------------------------------------------------------
(* What a step leaves as it was *)

LEMMA PlansStay ==
    ASSUME Grows, NEW q
    PROVE  /\ PlanOf(q)' = PlanOf(q) /\ Planned(q)' = Planned(q)
           /\ \A k : Specs(q, k)' = Specs(q, k) /\ FoldOf(q, k)' = FoldOf(q, k)
BY DEF Grows, PlanOf, Planned, Specs, FoldOf

LEMMA RecordsStay ==
    ASSUME Grows, NEW q, NEW k, NEW records
    PROVE  /\ RecordsFit(q, k, records) => RecordsFit(q, k, records)'
           /\ Complete(q, k, records) => Complete(q, k, records)'
<1>1. Specs(q, k)' = Specs(q, k)
  BY PlansStay
<1>2. artifacts \subseteq artifacts'
  BY DEF Grows
<1>3. RecordsHold(q, k, records, artifacts) => RecordsHold(q, k, records, artifacts)'
  BY <1>1, <1>2 DEF RecordsHold
<1> QED BY <1>1, <1>3 DEF RecordsFit, Complete

LEMMA FoldsStay ==
    ASSUME Grows, NEW q
    PROVE  /\ \A k, f : FoldFits(q, k, f) => FoldFits(q, k, f)'
           /\ \A results : FoldsSettled(q, results) => FoldsSettled(q, results)'
<1>1. PlanOf(q)' = PlanOf(q) /\ Planned(q)' = Planned(q)
  BY PlansStay
<1>2. \A k, records : Complete(q, k, records) => Complete(q, k, records)'
  BY RecordsStay
<1>3. \A k, f : FoldFits(q, k, f) => FoldFits(q, k, f)'
  BY <1>1, <1>2 DEF FoldFits
<1> QED BY <1>1, <1>3 DEF FoldsSettled

LEMMA DocumentsStay ==
    ASSUME Grows, NEW d
    PROVE  /\ Readable(d)' = Readable(d)
           /\ WalkFits(d) => WalkFits(d)'
<1>1. plans' = plans
  BY DEF Grows
<1>2. Readable(d)' = Readable(d)
  BY <1>1 DEF Readable, PlanOf, FoldOf
<1>3. PlanOf(d.plan)' = PlanOf(d.plan)
  BY PlansStay
<1>4. FoldsSettled(d.plan, d.folds) => FoldsSettled(d.plan, d.folds)'
  BY FoldsStay
<1>5. WalkFits(d) => WalkFits(d)'
  BY <1>3, <1>4 DEF WalkFits
<1> QED BY <1>2, <1>5

LEMMA CallerStays ==
    ASSUME Grows, NEW s, CallerFits(s)
    PROVE  CallerFits(s)'
<1>1. /\ PlanOf(s.plan)' = PlanOf(s.plan) /\ Planned(s.plan)' = Planned(s.plan)
      /\ \A k : Specs(s.plan, k)' = Specs(s.plan, k)
  BY PlansStay
<1>2. FoldsSettled(s.plan, s.results) => FoldsSettled(s.plan, s.results)'
  BY FoldsStay
<1>3. /\ RecordsFit(s.plan, Len(s.results) + 1, s.records)
           => RecordsFit(s.plan, Len(s.results) + 1, s.records)'
      /\ Complete(s.plan, Len(s.results) + 1, s.records)
           => Complete(s.plan, Len(s.results) + 1, s.records)'
  BY RecordsStay
<1>4. Readable(s.doc)' = Readable(s.doc) /\ (WalkFits(s.doc) => WalkFits(s.doc)')
  BY DocumentsStay
<1>5. s.at = "ran" =>
        (LET specs == Specs(s.plan, Len(s.results) + 1)  g == Len(s.records) + 1
         IN  /\ g <= Len(specs)
             /\ specs[g].run \in DOMAIN scores /\ scores[specs[g].run] # Broken)'
  <2> SUFFICES ASSUME s.at = "ran"
               PROVE  (LET specs == Specs(s.plan, Len(s.results) + 1)  g == Len(s.records) + 1
                       IN  /\ g <= Len(specs)
                           /\ specs[g].run \in DOMAIN scores /\ scores[specs[g].run] # Broken)'
    OBVIOUS
  <2>1. PICK specs, g : specs = Specs(s.plan, Len(s.results) + 1) /\ g = Len(s.records) + 1
    OBVIOUS
  <2>2. /\ g <= Len(specs)
        /\ specs[g].run \in DOMAIN scores /\ scores[specs[g].run] # Broken
    BY <2>1, Zenon DEF CallerFits
  <2>3. specs[g].run \in DOMAIN scores' /\ scores'[specs[g].run] # Broken
    BY <2>2 DEF Grows
  <2>4. Specs(s.plan, Len(s.results) + 1)' = specs
    BY <1>1, <2>1
  <2> QED BY <2>1, <2>2, <2>3, <2>4
<1> QED BY <1>1, <1>2, <1>3, <1>4, <1>5, Zenon DEF CallerFits

\* What is published only fits more.
LEMMA PublishedStays ==
    ASSUME Grows, PublishedFit, published' \subseteq published
    PROVE  PublishedFit'
<1>1. \A d \in published : d.kind \in Kinds /\ (d.kind = "walk" => WalkFits(d)')
  BY DocumentsStay DEF PublishedFit
<1> QED BY <1>1 DEF PublishedFit

\* A step in which one caller moves, the others go on fitting.
LEMMA CallersStay ==
    ASSUME Grows, CallersFit, NEW c \in Callers, NEW t,
           caller' = [caller EXCEPT ![c] = t], CallerFits(t)'
    PROVE  CallersFit'
<1>1. caller = [a \in Callers |-> caller[a]] /\ DOMAIN caller = Callers
  BY DEF CallersFit
<1>2. caller' = [a \in Callers |-> IF a = c THEN t ELSE caller[a]]
  BY <1>1
<1>3. ASSUME NEW a \in Callers
      PROVE  CallerFits(caller[a])'
  <2>1. PICK s : s = caller[a]
    OBVIOUS
  <2>2. CallerFits(s)
    BY <2>1 DEF CallersFit
  <2>3. CallerFits(s)'
    BY <2>2, CallerStays
  <2>4. caller'[a] = IF a = c THEN t ELSE s
    BY <1>2, <2>1
  <2>5. CASE a = c
    <3>1. caller'[a] = t
      BY <2>4, <2>5
    <3> QED BY <3>1
  <2>6. CASE a # c
    <3>1. caller'[a] = s
      BY <2>4, <2>6
    <3> QED BY <3>1, <2>3
  <2> QED BY <2>5, <2>6
<1>4. caller' = [a \in Callers |-> caller'[a]]
  BY <1>2
<1> QED BY <1>3, <1>4 DEF CallersFit

LEMMA QuietGrows ==
    ASSUME BudgetFits, BudgetFits', budget'.plans = budget.plans, plans' = plans,
           scores' = scores, artifacts \subseteq artifacts'
    PROVE  Grows
BY DEF Grows

\* A verification misses one artifact at most, and only if it may.
LEMMA MissIs ==
    ASSUME BudgetFits, NEW miss \in Misses
    PROVE  /\ Cardinality(miss) \in 0..budget.faults /\ Ok(miss) \subseteq artifacts
           /\ Cardinality(miss) = 0 => miss = {}
           /\ Cardinality(miss) \in {0, 1}
<1>1. budget.faults \in Nat
  BY DEF BudgetFits
<1>2. CASE miss = {}
  <2>1. Cardinality(miss) = 0
    BY <1>2, FS_EmptySet
  <2> QED BY <2>1, <1>1, <1>2 DEF Ok
<1>3. CASE miss # {}
  <2>1. budget.faults > 0 /\ \E r : miss = {r}
    BY <1>3 DEF Misses
  <2>2. Cardinality(miss) = 1
    BY <2>1, FS_Singleton
  <2> QED BY <2>1, <2>2, <1>1 DEF Ok
<1> QED BY <1>2, <1>3

LEMMA Spent ==
    ASSUME BudgetFits, plans' = plans,
           NEW field \in {"executions", "kills", "faults", "damage", "analyses"},
           NEW n \in 0..budget[field], Spend(field, n)
    PROVE  /\ BudgetFits' /\ budget'.plans = budget.plans
           /\ budget'.faults = IF field = "faults" THEN budget.faults - n ELSE budget.faults
<1>1. PICK b, c : b = budget /\ c = [b EXCEPT ![field] = @ - n]
  OBVIOUS
<1>2. b \in [overlap : BOOLEAN, plans : SUBSET DOMAIN Requests, executions : Nat, odd : Nat,
             kills : Nat, faults : Nat, damage : Nat, analyses : Nat]
  BY <1>1 DEF BudgetFits
<1>3. n \in 0..b[field] /\ budget' = c
  BY <1>1 DEF Spend
<1>4. /\ c \in [overlap : BOOLEAN, plans : SUBSET DOMAIN Requests, executions : Nat, odd : Nat,
                kills : Nat, faults : Nat, damage : Nat, analyses : Nat]
      /\ c.plans = b.plans
      /\ c.faults = IF field = "faults" THEN b.faults - n ELSE b.faults
  <2>1. CASE field = "executions"
    BY <1>1, <1>2, <1>3, <2>1
  <2>2. CASE field = "kills"
    BY <1>1, <1>2, <1>3, <2>2
  <2>3. CASE field = "faults"
    BY <1>1, <1>2, <1>3, <2>3
  <2>4. CASE field = "damage"
    BY <1>1, <1>2, <1>3, <2>4
  <2>5. CASE field = "analyses"
    BY <1>1, <1>2, <1>3, <2>5
  <2> QED BY <2>1, <2>2, <2>3, <2>4, <2>5
<1> QED BY <1>1, <1>3, <1>4 DEF BudgetFits

LEMMA MissSpent ==
    ASSUME BudgetFits, plans' = plans, NEW miss \in Misses, Spend("faults", Cardinality(miss))
    PROVE  BudgetFits' /\ budget'.plans = budget.plans
           /\ budget'.faults = budget.faults - Cardinality(miss)
<1>1. PICK n : n = Cardinality(miss)
  OBVIOUS
<1>2. n \in 0..budget["faults"] /\ Spend("faults", n)
  BY <1>1, MissIs
<1>3. "faults" \in {"executions", "kills", "faults", "damage", "analyses"}
  OBVIOUS
<1>4. /\ BudgetFits' /\ budget'.plans = budget.plans
      /\ budget'.faults = IF "faults" = "faults" THEN budget.faults - n ELSE budget.faults
  BY <1>2, <1>3, Spent
<1> QED BY <1>1, <1>4

\* A caller moves; whatever else changes, only grows.
LEMMA Moved ==
    ASSUME ResearchInv, BudgetFits', ScoresFit', Grows, PublishedFit',
           NEW c \in Callers, NEW t, caller' = [caller EXCEPT ![c] = t], CallerFits(t)'
    PROVE  ResearchInv'
BY CallersStay DEF ResearchInv

\* A caller moves and nothing was run or published.
LEMMA QuietlyMoved ==
    ASSUME ResearchInv, BudgetFits', budget'.plans = budget.plans, plans' = plans,
           scores' = scores, artifacts' = artifacts, published' \subseteq published,
           NEW c \in Callers, NEW t, caller' = [caller EXCEPT ![c] = t], CallerFits(t)
    PROVE  ResearchInv' /\ Grows
<1>1. Grows
  BY QuietGrows DEF ResearchInv
<1>2. ScoresFit'
  BY DEF ResearchInv, ScoresFit
<1>3. PublishedFit'
  BY <1>1, PublishedStays DEF ResearchInv
<1>4. CallerFits(t)'
  BY <1>1, CallerStays
<1> QED BY <1>1, <1>2, <1>3, <1>4, Moved

-----------------------------------------------------------------------------
(* Where a caller may go *)

LEMMA IdleFits == CallerFits(IdleCaller)
BY DEF CallerFits, IdleCaller, Places, Publishing, InFold

LEMMA FailureSettled ==
    ASSUME NEW q, NEW k, NEW failure \in {"verification", "publication"}
    PROVE  FoldFits(q, k, FailedFold("FAILED_EXECUTION", failure, None, None))
<1>1. failure # None
  BY NoneAssumption DEF Reasons
<1> QED BY <1>1 DEF FoldFits, ValidFoldResult, FailedFold

LEMMA SpecsLength ==
    ASSUME BudgetFits, NEW q, Planned(q), NEW k \in 1..PlanOf(q).foldCount
    PROVE  Len(Specs(q, k)) \in Nat
<1>1. PICK n : Shape(q, k, n)
  BY PlanShape
<1>2. PICK s : s = Specs(q, k)
  OBVIOUS
<1>3. s = [g \in 1..(3 * n) |-> s[g]] /\ n \in Nat
  BY <1>1, <1>2 DEF Shape
<1>4. Len(s) = 3 * n
  BY <1>3
<1> QED BY <1>2, <1>3, <1>4

\* A caller whose fold is over starts the next one, or has all folds.
WithFold(s, f) == [s EXCEPT !.results = Append(s.results, f), !.records = <<>>, !.doc = None,
                            !.at = IF Len(Append(s.results, f)) = PlanOf(s.plan).foldCount
                                   THEN "folds" ELSE "specs"]
WithRecord(s, status) == [s EXCEPT !.at = "specs", !.records = Append(s.records, status)]

LEMMA NextFoldFits ==
    ASSUME BudgetFits, NEW s, CallerFits(s), InFold(s),
           NEW f, FoldFits(s.plan, Len(s.results) + 1, f),
           NEW t, t = WithFold(s, f)
    PROVE  CallerFits(t)
<1>1. PICK q, rs, l, us : /\ q = s.plan /\ rs = s.results /\ l = Len(rs) /\ us = Append(rs, f)
  OBVIOUS
<1>2. s = [at |-> s.at, plan |-> q, records |-> s.records, results |-> rs, doc |-> s.doc]
  BY <1>1 DEF CallerFits
<1>3. FoldsSettled(q, rs) /\ l < PlanOf(q).foldCount
  BY <1>1 DEF CallerFits
<1>4. Planned(q) /\ rs \in Seq(Range(rs)) /\ \A k \in DOMAIN rs : FoldFits(q, k, rs[k])
  BY <1>3 DEF FoldsSettled, IsSequence
<1>5. /\ us \in Seq(Range(us)) /\ Len(us) = l + 1 /\ l \in Nat
      /\ us[l + 1] = f /\ \A i \in 1..l : us[i] = rs[i]
  BY <1>1, <1>4, Extended
<1>6. PICK m : m = PlanOf(q).foldCount
  OBVIOUS
<1>7. m \in Nat /\ l < m
  <2>1. m \in 2..MostFolds
    BY <1>4, <1>6, PlanShape
  <2> QED BY <2>1, <1>3, <1>6, FoldsAssumption
<1>8. FoldsSettled(q, us)
  <2>1. ASSUME NEW k \in DOMAIN us
        PROVE  FoldFits(q, k, us[k])
    <3>1. k \in 1..(l + 1)
      BY <1>5
    <3>2. CASE k = l + 1
      BY <3>2, <1>1, <1>5
    <3>3. CASE k \in 1..l
      <4>1. k \in DOMAIN rs
        BY <3>3, <1>1, <1>4
      <4> QED BY <4>1, <3>3, <1>4, <1>5
    <3> QED BY <3>1, <3>2, <3>3, <1>5
  <2> QED BY <2>1, <1>4, <1>5 DEF FoldsSettled, IsSequence
<1>9. t = [at |-> IF Len(us) = m THEN "folds" ELSE "specs", plan |-> q, records |-> <<>>,
           results |-> us, doc |-> None]
  BY <1>1, <1>2, <1>6 DEF WithFold
<1>10. CASE Len(us) = m
  <2>1. t = [at |-> "folds", plan |-> q, records |-> <<>>, results |-> us, doc |-> None]
    BY <1>9, <1>10
  <2>2. /\ t.at = "folds" /\ t.plan = q /\ t.results = us
        /\ t = [at |-> t.at, plan |-> t.plan, records |-> t.records, results |-> t.results,
                doc |-> t.doc]
    <3>1. t.at = "folds" /\ t.plan = q /\ t.results = us /\ t.records = <<>> /\ t.doc = None
      BY <2>1
    <3> QED BY <2>1, <3>1, Zenon
  <2>3. ~InFold(t)
    BY <2>2 DEF InFold, Publishing
  <2> QED BY <2>2, <2>3, <1>6, <1>8, <1>10 DEF CallerFits, Places, Publishing
<1>11. CASE Len(us) # m
  <2>1. t = [at |-> "specs", plan |-> q, records |-> <<>>, results |-> us, doc |-> None]
    BY <1>9, <1>11
  <2>2. /\ t.at = "specs" /\ t.plan = q /\ t.results = us /\ t.records = <<>>
        /\ t = [at |-> t.at, plan |-> t.plan, records |-> t.records, results |-> t.results,
                doc |-> t.doc]
    <3>1. t.at = "specs" /\ t.plan = q /\ t.results = us /\ t.records = <<>> /\ t.doc = None
      BY <2>1
    <3> QED BY <2>1, <3>1, Zenon
  <2>3. Len(us) < m /\ Len(us) + 1 \in 1..m
    BY <1>5, <1>7, <1>11
  <2>4. Len(Specs(q, Len(us) + 1)) \in Nat
    BY <2>3, <1>4, <1>6, SpecsLength
  <2>5. RecordsFit(q, Len(us) + 1, <<>>)
    <3>1. <<>> \in Seq(RunStatuses) /\ Len(<<>>) = 0 /\ DOMAIN <<>> = {}
      OBVIOUS
    <3>2. PICK h : h = Len(Specs(q, Len(us) + 1))
      OBVIOUS
    <3>3. h \in Nat
      BY <2>4, <3>2
    <3>4. 0 <= h
      BY <3>3
    <3>5. RecordsHold(q, Len(us) + 1, <<>>, artifacts)
      BY <3>1 DEF RecordsHold
    <3> QED BY <3>1, <3>2, <3>4, <3>5 DEF RecordsFit
  <2> QED BY <2>2, <2>3, <2>5, <1>6, <1>8 DEF CallerFits, Places, Publishing
<1> QED BY <1>10, <1>11

\* A run is recorded; a success only of an artifact that is there.
LEMMA AppendFits ==
    ASSUME Grows, NEW s, CallerFits(s), s.at \in {"specs", "ran"}, NEW status \in RunStatuses,
           Len(s.records) < Len(Specs(s.plan, Len(s.results) + 1)),
           Successful(status) =>
             Specs(s.plan, Len(s.results) + 1)[Len(s.records) + 1].run \in artifacts',
           Len(Specs(s.plan, Len(s.results) + 1)) \in Nat,
           NEW t, t = WithRecord(s, status)
    PROVE  CallerFits(t)'
<1>1. PICK q, k, rs, l, us, specs :
        /\ q = s.plan /\ k = Len(s.results) + 1 /\ rs = s.records /\ l = Len(rs)
        /\ us = Append(rs, status) /\ specs = Specs(q, k)
  OBVIOUS
<1>2. s = [at |-> s.at, plan |-> q, records |-> rs, results |-> s.results, doc |-> s.doc]
  BY <1>1 DEF CallerFits
<1>3. InFold(s)
  BY DEF InFold
<1>4. FoldsSettled(q, s.results) /\ Len(s.results) < PlanOf(q).foldCount /\ RecordsFit(q, k, rs)
  BY <1>1, <1>3 DEF CallerFits
<1>5. FoldsSettled(q, s.results)' /\ PlanOf(q)' = PlanOf(q) /\ Specs(q, k)' = specs
  BY <1>1, <1>4, FoldsStay, PlansStay
<1>6. /\ rs \in Seq(RunStatuses) /\ l \in Nat /\ Len(specs) \in Nat /\ l < Len(specs)
      /\ \A g \in DOMAIN rs : Successful(rs[g]) => specs[g].run \in artifacts'
  <2>1. rs \in Seq(RunStatuses)
    BY <1>4 DEF RecordsFit
  <2>2. \A g \in DOMAIN rs : Successful(rs[g]) => specs[g].run \in artifacts
    BY <1>1, <1>4 DEF RecordsFit, RecordsHold
  <2> QED BY <2>1, <2>2, <1>1 DEF Grows
<1>7. /\ us \in Seq(RunStatuses) /\ Len(us) = l + 1 /\ DOMAIN us = 1..(l + 1)
      /\ us[l + 1] = status /\ \A g \in 1..l : us[g] = rs[g] /\ g \in DOMAIN rs
  BY <1>1, <1>6
<1>8. ASSUME NEW g \in DOMAIN us, Successful(us[g])
      PROVE  specs[g].run \in artifacts'
  <2>1. CASE g = l + 1
    BY <2>1, <1>1, <1>7, <1>8
  <2>2. CASE g \in 1..l
    BY <2>2, <1>6, <1>7, <1>8
  <2> QED BY <2>1, <2>2, <1>6, <1>7
<1>9. RecordsFit(q, k, us)'
  <2>1. RecordsHold(q, k, us, artifacts)'
    BY <1>5, <1>8 DEF RecordsHold
  <2>2. Len(us) <= Len(specs)
    BY <1>6, <1>7
  <2> QED BY <2>1, <2>2, <1>5, <1>7 DEF RecordsFit
<1>10. t = [at |-> "specs", plan |-> q, records |-> us, results |-> s.results, doc |-> s.doc]
  BY <1>1, <1>2 DEF WithRecord
<1>11. /\ t.at = "specs" /\ t.plan = q /\ t.results = s.results /\ t.records = us
       /\ t = [at |-> t.at, plan |-> t.plan, records |-> t.records, results |-> t.results,
               doc |-> t.doc]
  <2>1. t.at = "specs" /\ t.plan = q /\ t.results = s.results /\ t.records = us /\ t.doc = s.doc
    BY <1>10
  <2> QED BY <1>10, <2>1, Zenon
<1>12. Len(t.results) < PlanOf(t.plan).foldCount' /\ RecordsFit(t.plan, Len(t.results) + 1, t.records)'
       /\ FoldsSettled(t.plan, t.results)'
  BY <1>1, <1>4, <1>5, <1>9, <1>11
<1> QED BY <1>11, <1>12 DEF CallerFits, Places, Publishing

WithPlace(s, at) == [s EXCEPT !.at = at]
WithDoc(s, d) == [s EXCEPT !.at = "publish", !.doc = d]
Selecting(s) == [s EXCEPT !.at = "select", !.doc = None]

LEMMA FitsIs ==
    ASSUME NEW s, CallerFits(s)
    PROVE  s = [at |-> s.at, plan |-> s.plan, records |-> s.records, results |-> s.results,
                doc |-> s.doc]
BY DEF CallerFits

LEMMA StagedFits ==
    ASSUME NEW s, CallerFits(s), s.at \in Publishing, NEW at \in Publishing,
           NEW t, t = WithPlace(s, at)
    PROVE  CallerFits(t)
<1>1. t = [at |-> at, plan |-> s.plan, records |-> s.records, results |-> s.results, doc |-> s.doc]
  BY FitsIs DEF WithPlace
<1>2. t.at = at /\ t.plan = s.plan /\ t.records = s.records /\ t.results = s.results /\ t.doc = s.doc
  BY <1>1
<1>3. t = [at |-> t.at, plan |-> t.plan, records |-> t.records, results |-> t.results, doc |-> t.doc]
  BY <1>1, <1>2, Zenon
<1>4. t.at \notin {"planned", "specs", "ran", "folds"} /\ s.at \notin {"specs", "ran"}
  BY <1>2 DEF Publishing
<1>5. InFold(t) = InFold(s)
  BY <1>2, <1>4 DEF InFold, Publishing
<1> QED BY <1>2, <1>3, <1>4, <1>5 DEF CallerFits, Places

LEMMA SelectingFits ==
    ASSUME NEW s, CallerFits(s), s.at \in Publishing, s.doc.kind = "experiment",
           NEW t, t = Selecting(s)
    PROVE  CallerFits(t)
<1>1. t = [at |-> "select", plan |-> s.plan, records |-> s.records, results |-> s.results,
           doc |-> None]
  <2>1. PICK a, p, r, u, x : /\ s = [at |-> a, plan |-> p, records |-> r, results |-> u, doc |-> x]
                            /\ a = s.at /\ p = s.plan /\ r = s.records /\ u = s.results
    BY FitsIs, Zenon
  <2>2. t = [at |-> "select", plan |-> p, records |-> r, results |-> u, doc |-> None]
    BY <2>1 DEF Selecting
  <2> QED BY <2>1, <2>2
<1>2. t.at = "select" /\ t.plan = s.plan /\ t.records = s.records /\ t.results = s.results
  BY <1>1
<1>3. t.doc = None
  BY <1>1
<1>4. t = [at |-> t.at, plan |-> t.plan, records |-> t.records, results |-> t.results, doc |-> t.doc]
  BY <1>1, <1>2, <1>3, Zenon
<1>5. InFold(s) /\ s.at \notin {"specs", "ran"}
  BY DEF InFold, Publishing
<1>6. /\ FoldsSettled(s.plan, s.results) /\ Len(s.results) < PlanOf(s.plan).foldCount
      /\ RecordsFit(s.plan, Len(s.results) + 1, s.records)
      /\ Complete(s.plan, Len(s.results) + 1, s.records)
  BY <1>5 DEF CallerFits
<1> QED BY <1>2, <1>4, <1>6 DEF CallerFits, Places, Publishing

\* The document of a complete experiment.
LEMMA ExperimentFits ==
    ASSUME BudgetFits, NEW s, CallerFits(s), s.at = "specs",
           Complete(s.plan, Len(s.results) + 1, s.records),
           NEW t, t = WithDoc(s, ExperimentDoc(s.plan, Len(s.results) + 1, s.records))
    PROVE  CallerFits(t)
<1>1. PICK d : d = ExperimentDoc(s.plan, Len(s.results) + 1, s.records)
  OBVIOUS
<1>2. t = [at |-> "publish", plan |-> s.plan, records |-> s.records, results |-> s.results,
           doc |-> d]
  <2>1. PICK a, p, r, u, x : /\ s = [at |-> a, plan |-> p, records |-> r, results |-> u, doc |-> x]
                            /\ a = s.at /\ p = s.plan /\ r = s.records /\ u = s.results
    BY FitsIs, Zenon
  <2>2. t = WithDoc(s, d)
    BY <1>1
  <2>3. t = [at |-> "publish", plan |-> p, records |-> r, results |-> u, doc |-> d]
    BY <2>1, <2>2 DEF WithDoc
  <2> QED BY <2>1, <2>3
<1>3. t.at = "publish" /\ t.plan = s.plan /\ t.records = s.records /\ t.results = s.results
  BY <1>2
<1>4. t.doc = d
  BY <1>2
<1>5. t = [at |-> t.at, plan |-> t.plan, records |-> t.records, results |-> t.results, doc |-> t.doc]
  BY <1>2, <1>3, <1>4, Zenon
<1>6. InFold(s)
  BY DEF InFold
<1>7. /\ FoldsSettled(s.plan, s.results) /\ Len(s.results) < PlanOf(s.plan).foldCount
      /\ RecordsFit(s.plan, Len(s.results) + 1, s.records)
  BY <1>6 DEF CallerFits
<1>8. d.kind = "experiment"
  BY <1>1 DEF ExperimentDoc
<1>9. Readable(d)
  <2>1. PICK k : k = Len(s.results) + 1
    OBVIOUS
  <2>2. Planned(s.plan) /\ k \in 1..PlanOf(s.plan).foldCount
    <3>1. Planned(s.plan) /\ s.results \in Seq(Range(s.results))
      BY <1>7 DEF FoldsSettled, IsSequence
    <3>2. PICK l, m : l = Len(s.results) /\ m = PlanOf(s.plan).foldCount
      OBVIOUS
    <3>3. l \in Nat
      BY <3>1, <3>2
    <3>4. m \in 2..MostFolds
      BY <3>1, <3>2, PlanShape
    <3>5. l < m /\ k = l + 1
      BY <1>7, <2>1, <3>2
    <3>6. k \in 1..m
      BY <3>3, <3>4, <3>5, FoldsAssumption
    <3> QED BY <3>1, <3>2, <3>6
  <2>3. PICK n : Shape(s.plan, k, n)
    BY <2>2, PlanShape
  <2>4. Complete(s.plan, k, s.records)
    BY <2>1
  <2> QED BY <1>1, <2>1, <2>3, <2>4, ExperimentReadable
<1> QED BY <1>3, <1>4, <1>5, <1>7, <1>8, <1>9 DEF CallerFits, Places, Publishing, Kinds

\* A caller that publishes a walk-forward or a report has nothing else.
LEMMA PublisherFits ==
    ASSUME NEW d, d.kind \in {"walk", "report"}, Readable(d), d.kind = "walk" => WalkFits(d),
           NEW t, t = WithDoc(IdleCaller, d)
    PROVE  CallerFits(t)
<1>1. PICK u : u = [at |-> "publish", plan |-> None, records |-> <<>>, results |-> <<>>, doc |-> d]
  OBVIOUS
<1>2. t = u
  <2>1. PICK s : s = IdleCaller
    OBVIOUS
  <2>2. s = [at |-> "idle", plan |-> None, records |-> <<>>, results |-> <<>>, doc |-> None]
    BY <2>1 DEF IdleCaller
  <2>3. t = WithDoc(s, d)
    BY <2>1
  <2> QED BY <1>1, <2>2, <2>3 DEF WithDoc
<1>3. u.at = "publish" /\ u.plan = None /\ u.doc = d
  BY <1>1
<1>4. u.records = <<>> /\ u.results = <<>>
  BY <1>1
<1>5. u = [at |-> u.at, plan |-> u.plan, records |-> u.records, results |-> u.results, doc |-> u.doc]
  BY <1>1, <1>3, <1>4, Zenon
<1>6. ~InFold(u)
  BY <1>3 DEF InFold, Publishing
<1>7. CallerFits(u)
  BY <1>3, <1>5, <1>6 DEF CallerFits, Places, Publishing, Kinds
<1> QED BY <1>2, <1>7

-----------------------------------------------------------------------------
(* The steps *)

\* The fold a caller is at.
LEMMA FoldIs ==
    ASSUME BudgetFits, NEW s, CallerFits(s), InFold(s)
    PROVE  /\ Planned(s.plan) /\ Len(s.results) + 1 \in 1..PlanOf(s.plan).foldCount
           /\ \E n : Shape(s.plan, Len(s.results) + 1, n)
           /\ Len(Specs(s.plan, Len(s.results) + 1)) \in Nat
<1>1. PICK q, l, m : q = s.plan /\ l = Len(s.results) /\ m = PlanOf(s.plan).foldCount
  OBVIOUS
<1>2. Planned(q) /\ s.results \in Seq(Range(s.results)) /\ l < m
  BY <1>1 DEF CallerFits, FoldsSettled, IsSequence
<1>3. l \in Nat
  BY <1>1, <1>2
<1>4. m \in 2..MostFolds
  BY <1>1, <1>2, PlanShape
<1>5. l + 1 \in 1..m
  BY <1>2, <1>3, <1>4, FoldsAssumption
<1>6. \E n : Shape(q, l + 1, n)
  BY <1>1, <1>2, <1>5, PlanShape
<1>7. Len(Specs(q, l + 1)) \in Nat
  BY <1>1, <1>2, <1>5, SpecsLength
<1> QED BY <1>1, <1>2, <1>5, <1>6, <1>7

LEMMA PlanStep ==
    ASSUME ResearchInv, NEW c \in Callers, NEW q \in Drafts, Plan(c, q)
    PROVE  ResearchInv' /\ Grows
<1>1. BudgetFits' /\ budget'.plans = budget.plans
  <2>1. budget["executions"] \in Nat /\ budget["executions"] > 0
    BY DEF ResearchInv, BudgetFits, Plan, MayStart
  <2>2. 1 \in 0..budget["executions"]
    BY <2>1
  <2>3. Spend("executions", 1) /\ plans' = plans
    BY DEF Plan
  <2> QED BY <2>2, <2>3, Spent DEF ResearchInv
<1>2. PICK t : t = [IdleCaller EXCEPT !.at = "planned", !.plan = q]
  OBVIOUS
<1>3. CallerFits(t)
  <2>1. PICK s : s = IdleCaller
    OBVIOUS
  <2>2. s = [at |-> "idle", plan |-> None, records |-> <<>>, results |-> <<>>, doc |-> None]
    BY <2>1 DEF IdleCaller
  <2>3. t = [s EXCEPT !.at = "planned", !.plan = q]
    BY <1>2, <2>1
  <2>4. t = [at |-> "planned", plan |-> q, records |-> <<>>, results |-> <<>>, doc |-> None]
    BY <2>2, <2>3
  <2>5. t.at = "planned" /\ t.plan = q
    BY <2>4
  <2>6. t.records = <<>> /\ t.results = <<>> /\ t.doc = None
    BY <2>4
  <2>7. t = [at |-> t.at, plan |-> t.plan, records |-> t.records, results |-> t.results, doc |-> t.doc]
    BY <2>4, <2>5, <2>6, Zenon
  <2>8. q \in DOMAIN Requests /\ MayPlan(Requests[q])
    BY DEF Plan, Drafts, ResearchInv, BudgetFits
  <2>9. ~InFold(t)
    BY <2>5 DEF InFold, Publishing
  <2> QED BY <2>5, <2>6, <2>7, <2>8, <2>9 DEF CallerFits, Places, Publishing
<1>4. caller' = [caller EXCEPT ![c] = t] /\ UNCHANGED <<plans, scores, artifacts, published>>
  BY <1>2 DEF Plan, Becomes
<1> QED BY <1>1, <1>3, <1>4, QuietlyMoved

LEMMA BeginStep ==
    ASSUME ResearchInv, NEW c \in Callers, Begin(c)
    PROVE  ResearchInv' /\ Grows
<1>1. PICK s, t : s = caller[c] /\ t = WithPlace(s, "specs")
  OBVIOUS
<1>2. CallerFits(s) /\ s.at = "planned" /\ BudgetFits
  BY <1>1 DEF Begin, ResearchInv, CallersFit
<1>3. /\ s.plan \in budget.plans /\ ValidWalkForwardPlan(PlanOf(s.plan))
      /\ MayPlan(Requests[s.plan]) /\ s.records = <<>> /\ s.results = <<>>
  BY <1>1, <1>2 DEF Begin, CallerFits
<1>4. Planned(s.plan)
  BY <1>3 DEF Planned
<1>5. t = [at |-> "specs", plan |-> s.plan, records |-> <<>>, results |-> <<>>, doc |-> s.doc]
  BY <1>1, <1>2, <1>3, FitsIs DEF WithPlace
<1>6. t.at = "specs" /\ t.plan = s.plan
  BY <1>5
<1>7. t.records = <<>> /\ t.results = <<>> /\ t.doc = s.doc
  BY <1>5
<1>8. t = [at |-> t.at, plan |-> t.plan, records |-> t.records, results |-> t.results, doc |-> t.doc]
  BY <1>5, <1>6, <1>7, Zenon
<1>9. FoldsSettled(s.plan, <<>>)
  <2>1. DOMAIN <<>> = {} /\ <<>> \in Seq(Range(<<>>))
    OBVIOUS
  <2> QED BY <2>1, <1>4 DEF FoldsSettled, IsSequence
<1>10. PICK m : m = PlanOf(s.plan).foldCount
  OBVIOUS
<1>11. m \in 2..MostFolds
  BY <1>2, <1>4, <1>10, PlanShape
<1>12. PICK k : k = Len(<<>>) + 1
  OBVIOUS
<1>13. Len(<<>>) < m /\ k \in 1..m
  BY <1>11, <1>12, FoldsAssumption
<1>14. RecordsFit(s.plan, k, <<>>)
  <2>1. PICK h : h = Len(Specs(s.plan, k))
    OBVIOUS
  <2>2. h \in Nat
    BY <1>2, <1>4, <1>10, <1>13, <2>1, SpecsLength
  <2>3. <<>> \in Seq(RunStatuses) /\ Len(<<>>) <= h
    BY <2>2
  <2>4. DOMAIN <<>> = {}
    OBVIOUS
  <2> QED BY <2>1, <2>3, <2>4 DEF RecordsFit, RecordsHold
<1>15. CallerFits(t)
  BY <1>6, <1>7, <1>8, <1>9, <1>10, <1>12, <1>13, <1>14 DEF CallerFits, Places, Publishing
<1>16. /\ caller' = [caller EXCEPT ![c] = t] /\ BudgetFits' /\ budget'.plans = budget.plans
       /\ UNCHANGED <<plans, scores, artifacts, published>>
  BY <1>1, <1>2 DEF Begin, Becomes, BudgetFits, WithPlace
<1> QED BY <1>15, <1>16, QuietlyMoved

LEMMA KillStep ==
    ASSUME ResearchInv, NEW c \in Callers, Kill(c)
    PROVE  ResearchInv' /\ Grows
<1>1. BudgetFits' /\ budget'.plans = budget.plans
  <2>1. budget["kills"] \in Nat /\ budget["kills"] > 0
    BY DEF ResearchInv, BudgetFits, Kill
  <2>2. 1 \in 0..budget["kills"]
    BY <2>1
  <2>3. Spend("kills", 1) /\ plans' = plans
    BY DEF Kill
  <2> QED BY <2>2, <2>3, Spent DEF ResearchInv
<1>2. PICK t : t = IdleCaller
  OBVIOUS
<1>3. caller' = [caller EXCEPT ![c] = t] /\ UNCHANGED <<plans, scores, artifacts, published>>
  BY <1>2 DEF Kill, Becomes
<1> QED BY <1>1, <1>2, <1>3, IdleFits, QuietlyMoved

\* The caller that takes a step; what it spends on verification.
LEMMA Standing ==
    ASSUME ResearchInv, NEW c \in Callers
    PROVE  CallerFits(caller[c]) /\ BudgetFits /\ ScoresFit /\ PublishedFit
BY DEF ResearchInv, CallersFit

LEMMA ReuseStep ==
    ASSUME ResearchInv, NEW c \in Callers, NEW miss \in Misses, ReuseRun(c, miss)
    PROVE  ResearchInv' /\ Grows
<1>1. PICK s, k, r : s = caller[c] /\ k = Len(s.results) + 1 /\ r = NextRun(c)
  OBVIOUS
<1>2. CallerFits(s) /\ BudgetFits /\ s.at = "specs"
  BY <1>1, Standing DEF ReuseRun
<1>3. InFold(s) /\ Len(s.records) < Len(Specs(s.plan, k))
  BY <1>1, <1>2 DEF ReuseRun, MoreSpecs, InFold
<1>4. r = Specs(s.plan, k)[Len(s.records) + 1].run
  BY <1>1 DEF NextRun
<1>5. PICK status : status = IF r \in Ok(miss) THEN "REUSED" ELSE "verification"
  OBVIOUS
<1>6. status \in RunStatuses /\ (Successful(status) => r \in artifacts)
  BY <1>5 DEF RunStatuses, Successful, Ok
<1>7. PICK t : t = WithRecord(s, status)
  OBVIOUS
<1>8. caller' = [caller EXCEPT ![c] = t]
  BY <1>1, <1>5, <1>7 DEF ReuseRun, Recorded, Becomes, WithRecord
<1>9. /\ UNCHANGED <<plans, scores, artifacts, published>>
      /\ BudgetFits' /\ budget'.plans = budget.plans
  BY <1>2, MissSpent DEF ReuseRun
<1>10. Grows
  BY <1>2, <1>9, QuietGrows
<1>11. CallerFits(t)'
  <2>1. Len(Specs(s.plan, k)) \in Nat
    BY <1>1, <1>2, <1>3, FoldIs
  <2>2. Successful(status) => Specs(s.plan, k)[Len(s.records) + 1].run \in artifacts'
    BY <1>4, <1>6, <1>9
  <2> QED BY <1>1, <1>2, <1>3, <1>6, <1>7, <1>10, <2>1, <2>2, AppendFits
<1>12. ScoresFit' /\ PublishedFit'
  BY <1>9, <1>10, PublishedStays DEF ResearchInv, ScoresFit
<1> QED BY <1>8, <1>9, <1>10, <1>11, <1>12, Moved

LEMMA RunStep ==
    ASSUME ResearchInv, NEW c \in Callers, Run(c)
    PROVE  ResearchInv' /\ Grows
<1>1. PICK s, k, r : s = caller[c] /\ k = Len(s.results) + 1 /\ r = NextRun(c)
  OBVIOUS
<1>2. CallerFits(s) /\ BudgetFits /\ s.at = "specs"
  BY <1>1, Standing DEF Run
<1>3. InFold(s) /\ Len(s.records) < Len(Specs(s.plan, k))
  BY <1>1, <1>2 DEF Run, MoreSpecs, InFold
<1>4. r = Specs(s.plan, k)[Len(s.records) + 1].run
  BY <1>1 DEF NextRun
<1>5. PICK x : /\ x \in OutcomesOf(r)
               /\ scores' = [p \in {r} \cup DOMAIN scores |-> IF p = r THEN x ELSE scores[p]]
               /\ IF x = Broken THEN Recorded(c, "engine")
                  ELSE Becomes(c, [caller[c] EXCEPT !.at = "ran"])
  BY <1>1 DEF Run
<1>6. /\ UNCHANGED <<plans, artifacts, published, budget>>
      /\ BudgetFits' /\ budget'.plans = budget.plans
  BY <1>2 DEF Run, BudgetFits
<1>7. /\ scores' = [p \in {r} \cup DOMAIN scores |-> IF p = r THEN x ELSE scores[p]]
      /\ x \in Outcomes \cup {Usual}
      /\ r \in DOMAIN scores => scores[r] = x
  <2>1. scores' = [p \in {r} \cup DOMAIN scores |-> IF p = r THEN x ELSE scores[p]]
    BY <1>5
  <2>2. \A p \in DOMAIN scores : scores[p] \in Outcomes \cup {Usual}
    BY DEF ResearchInv, ScoresFit
  <2> QED BY <1>5, <2>1, <2>2 DEF OutcomesOf
<1>8. /\ \A p \in DOMAIN scores : p \in DOMAIN scores' /\ scores'[p] = scores[p]
      /\ r \in DOMAIN scores' /\ scores'[r] = x
      /\ \A p \in DOMAIN scores' : p = r \/ p \in DOMAIN scores
  BY <1>7
<1>9. Grows
  BY <1>6, <1>8 DEF Grows
<1>10. ScoresFit'
  <2>1. scores' = [p \in DOMAIN scores' |-> scores'[p]]
    BY <1>7
  <2>2. \A p \in DOMAIN scores' : scores'[p] \in Outcomes \cup {Usual}
    BY <1>7, <1>8 DEF ResearchInv, ScoresFit
  <2>3. \A p \in artifacts : p \in DOMAIN scores' /\ scores'[p] # Broken
    BY <1>8 DEF ResearchInv, ScoresFit
  <2> QED BY <1>6, <2>1, <2>2, <2>3 DEF ScoresFit
<1>11. PublishedFit'
  BY <1>6, <1>9, PublishedStays DEF ResearchInv
<1>12. CASE x = Broken
  <2>1. PICK t : t = WithRecord(s, "engine")
    OBVIOUS
  <2>2. caller' = [caller EXCEPT ![c] = t]
    BY <1>1, <1>5, <1>12, <2>1 DEF Recorded, Becomes, WithRecord
  <2>3. "engine" \in RunStatuses /\ ~Successful("engine")
    BY DEF RunStatuses, Successful
  <2>4. Len(Specs(s.plan, k)) \in Nat
    BY <1>1, <1>2, <1>3, FoldIs
  <2>5. CallerFits(t)'
    BY <1>1, <1>2, <1>3, <1>9, <2>1, <2>3, <2>4, AppendFits
  <2> QED BY <1>6, <1>9, <1>10, <1>11, <2>2, <2>5, Moved
<1>13. CASE x # Broken
  <2>1. PICK t : t = WithPlace(s, "ran")
    OBVIOUS
  <2>2. caller' = [caller EXCEPT ![c] = t]
    BY <1>1, <1>5, <1>13, <2>1 DEF Becomes, WithPlace
  <2>3. CallerFits(t)'
    <3>1. CallerFits(s)'
      BY <1>2, <1>9, CallerStays
    <3>2. t = [at |-> "ran", plan |-> s.plan, records |-> s.records, results |-> s.results,
               doc |-> s.doc]
      BY <1>2, <2>1, FitsIs DEF WithPlace
    <3>3. t.at = "ran" /\ t.plan = s.plan /\ t.results = s.results
      BY <3>2
    <3>4. t.records = s.records /\ t.doc = s.doc
      BY <3>2
    <3>5. t = [at |-> t.at, plan |-> t.plan, records |-> t.records, results |-> t.results,
               doc |-> t.doc]
      BY <3>2, <3>3, <3>4, Zenon
    <3>6. /\ FoldsSettled(s.plan, s.results)' /\ Len(s.results) < PlanOf(s.plan).foldCount'
          /\ RecordsFit(s.plan, Len(s.results) + 1, s.records)'
      BY <3>1, <1>3 DEF CallerFits
    <3>7. PICK specs, g : specs = Specs(s.plan, k) /\ g = Len(s.records) + 1
      OBVIOUS
    <3>8. g <= Len(specs)
      <4>1. Len(specs) \in Nat
        BY <1>1, <1>2, <1>3, <3>7, FoldIs
      <4>2. s.records \in Seq(RunStatuses)
        BY <1>2, <1>3 DEF CallerFits, RecordsFit
      <4>3. PICK l, h : l = Len(s.records) /\ h = Len(specs)
        OBVIOUS
      <4>4. l \in Nat /\ h \in Nat /\ l < h /\ g = l + 1
        BY <1>3, <3>7, <4>1, <4>2, <4>3
      <4> QED BY <4>3, <4>4
    <3>9. specs[g].run \in DOMAIN scores' /\ scores'[specs[g].run] # Broken
      BY <1>4, <1>8, <1>13, <3>7
    <3>10. Specs(s.plan, k)' = specs
      BY <1>9, <3>7, PlansStay
    <3>11. (LET ss == Specs(t.plan, Len(t.results) + 1)  h == Len(t.records) + 1
            IN  /\ h <= Len(ss)
                /\ ss[h].run \in DOMAIN scores /\ scores[ss[h].run] # Broken)'
      BY <1>1, <3>3, <3>4, <3>7, <3>8, <3>9, <3>10
    <3> QED BY <3>3, <3>4, <3>5, <3>6, <3>11 DEF CallerFits, Places, Publishing
  <2> QED BY <1>6, <1>9, <1>10, <1>11, <2>2, <2>3, Moved
<1> QED BY <1>12, <1>13

LEMMA PublishRunStep ==
    ASSUME ResearchInv, NEW c \in Callers, NEW miss \in Misses, PublishRun(c, miss)
    PROVE  ResearchInv' /\ Grows
<1>1. PICK s, k, r : s = caller[c] /\ k = Len(s.results) + 1 /\ r = NextRun(c)
  OBVIOUS
<1>2. CallerFits(s) /\ BudgetFits /\ s.at = "ran"
  BY <1>1, Standing DEF PublishRun
<1>3. InFold(s)
  BY <1>2 DEF InFold
<1>4. r = Specs(s.plan, k)[Len(s.records) + 1].run
  BY <1>1 DEF NextRun
<1>5. /\ Len(s.records) + 1 <= Len(Specs(s.plan, k))
      /\ r \in DOMAIN scores /\ scores[r] # Broken
  BY <1>1, <1>2, <1>4, Zenon DEF CallerFits
<1>6. Len(Specs(s.plan, k)) \in Nat
  BY <1>1, <1>2, <1>3, FoldIs
<1>7. Len(s.records) < Len(Specs(s.plan, k))
  <2>1. s.records \in Seq(RunStatuses)
    BY <1>2, <1>3 DEF CallerFits, RecordsFit
  <2>2. PICK l, h : l = Len(s.records) /\ h = Len(Specs(s.plan, k))
    OBVIOUS
  <2>3. l \in Nat /\ h \in Nat /\ l + 1 <= h
    BY <1>5, <1>6, <2>1, <2>2
  <2> QED BY <2>2, <2>3
<1>8. PICK status : status = IF r \in damaged \cup miss THEN "verification" ELSE "COMPLETED"
  OBVIOUS
<1>9. status \in RunStatuses
  BY <1>8 DEF RunStatuses
<1>10. PICK t : t = WithRecord(s, status)
  OBVIOUS
<1>11. caller' = [caller EXCEPT ![c] = t]
  BY <1>1, <1>8, <1>10 DEF PublishRun, Recorded, Becomes, WithRecord
<1>12. /\ UNCHANGED <<plans, scores, published>> /\ artifacts' = artifacts \cup {r}
       /\ BudgetFits' /\ budget'.plans = budget.plans
  BY <1>1, <1>2, MissSpent DEF PublishRun
<1>13. Grows
  BY <1>2, <1>12, QuietGrows
<1>14. CallerFits(t)'
  <2>1. Specs(s.plan, k)[Len(s.records) + 1].run \in artifacts'
    BY <1>4, <1>12
  <2> QED BY <1>1, <1>2, <1>6, <1>7, <1>9, <1>10, <1>13, <2>1, AppendFits
<1>15. PublishedFit'
  BY <1>12, <1>13, PublishedStays DEF ResearchInv
<1>16. ScoresFit'
  BY <1>5, <1>12 DEF ResearchInv, ScoresFit
<1> QED BY <1>11, <1>12, <1>13, <1>14, <1>15, <1>16, Moved

\* A fold is over, with nothing run or published.
LEMMA FoldOver ==
    ASSUME ResearchInv, BudgetFits', budget'.plans = budget.plans, plans' = plans,
           scores' = scores, artifacts' = artifacts, published' \subseteq published,
           NEW c \in Callers, InFold(caller[c]), NEW f,
           FoldFits(caller[c].plan, Len(caller[c].results) + 1, f), FoldDone(c, f)
    PROVE  ResearchInv' /\ Grows
<1>1. PICK s, t : s = caller[c] /\ t = WithFold(s, f)
  OBVIOUS
<1>2. CallerFits(s) /\ BudgetFits /\ InFold(s) /\ FoldFits(s.plan, Len(s.results) + 1, f)
  BY <1>1, Standing
<1>3. CallerFits(t)
  BY <1>1, <1>2, NextFoldFits
<1>4. caller' = [caller EXCEPT ![c] = t]
  BY <1>1 DEF FoldDone, Becomes, WithFold
<1> QED BY <1>3, <1>4, QuietlyMoved

LEMMA FinishStep ==
    ASSUME ResearchInv, NEW c \in Callers, NEW miss \in Misses, FinishExperiment(c, miss)
    PROVE  ResearchInv' /\ Grows
<1>1. PICK s, q, k : s = caller[c] /\ q = s.plan /\ k = Len(s.results) + 1
  OBVIOUS
<1>2. CallerFits(s) /\ BudgetFits /\ s.at = "specs" /\ InFold(s) /\ InFold(caller[c])
  BY <1>1, Standing DEF FinishExperiment, InFold
<1>3. /\ UNCHANGED <<plans, scores, artifacts, published>>
      /\ BudgetFits' /\ budget'.plans = budget.plans
  BY <1>2, MissSpent DEF FinishExperiment
<1>4. CASE RecordsHold(q, k, s.records, Ok(miss))
  <2>1. PICK t : t = WithDoc(s, ExperimentDoc(q, k, s.records))
    OBVIOUS
  <2>2. caller' = [caller EXCEPT ![c] = t]
    BY <1>1, <1>4, <2>1 DEF FinishExperiment, Becomes, WithDoc
  <2>3. Complete(q, k, s.records)
    <3>1. RecordsFit(q, k, s.records)
      BY <1>1, <1>2 DEF CallerFits
    <3>2. PICK l, h : l = Len(s.records) /\ h = Len(Specs(q, k))
      OBVIOUS
    <3>3. s.records \in Seq(RunStatuses) /\ l <= h
      BY <3>1, <3>2 DEF RecordsFit
    <3>4. l \in Nat
      BY <3>2, <3>3
    <3>5. h \in Nat
      BY <1>1, <1>2, <3>2, FoldIs
    <3>6. ~(l < h)
      BY <1>1, <1>2, <3>2 DEF FinishExperiment, MoreSpecs
    <3>7. l = h
      BY <3>3, <3>4, <3>5, <3>6
    <3> QED BY <3>1, <3>2, <3>7 DEF Complete
  <2>4. CallerFits(t)
    BY <1>1, <1>2, <2>1, <2>3, ExperimentFits
  <2> QED BY <1>3, <2>2, <2>4, QuietlyMoved
<1>5. CASE ~RecordsHold(q, k, s.records, Ok(miss))
  <2>1. PICK f : f = FailedFold("FAILED_EXECUTION", "verification", None, None)
    OBVIOUS
  <2>2. FoldDone(c, f)
    BY <1>1, <1>5, <2>1 DEF FinishExperiment
  <2>3. FoldFits(caller[c].plan, Len(caller[c].results) + 1, f)
    BY <2>1, FailureSettled
  <2> QED BY <1>2, <1>3, <2>2, <2>3, FoldOver
<1> QED BY <1>4, <1>5

\* What a caller selects.
LEMMA SelectsSettled ==
    ASSUME ResearchInv, NEW s, CallerFits(s), s.at = "select", NEW ok, ok \subseteq artifacts
    PROVE  FoldFits(s.plan, Len(s.results) + 1,
                   FoldResult(s.plan, Len(s.results) + 1, s.records, ok))
<1>1. InFold(s) /\ BudgetFits /\ ScoresFit
  BY DEF InFold, ResearchInv
<1>2. PICK k : k = Len(s.results) + 1
  OBVIOUS
<1>3. Complete(s.plan, k, s.records)
  BY <1>1, <1>2 DEF CallerFits
<1>4. PICK n : Shape(s.plan, k, n)
  BY <1>1, <1>2, FoldIs
<1>5. FoldFits(s.plan, k, FoldResult(s.plan, k, s.records, ok))
  BY <1>1, <1>3, <1>4, FoldSettled
<1> QED BY <1>2, <1>5

LEMMA SelectStep ==
    ASSUME ResearchInv, NEW c \in Callers, NEW miss \in Misses, Select(c, miss)
    PROVE  ResearchInv' /\ Grows
<1>1. PICK s, ok, f : /\ s = caller[c] /\ ok = Ok(miss)
                      /\ f = FoldResult(s.plan, Len(s.results) + 1, s.records, ok)
  OBVIOUS
<1>2. CallerFits(s) /\ BudgetFits /\ s.at = "select" /\ InFold(caller[c])
  BY <1>1, Standing DEF Select, InFold
<1>3. /\ UNCHANGED <<plans, scores, artifacts, published>>
      /\ BudgetFits' /\ budget'.plans = budget.plans
  BY <1>2, MissSpent DEF Select
<1>4. ok \subseteq artifacts
  BY <1>1, <1>2, MissIs
<1>5. FoldFits(s.plan, Len(s.results) + 1, f)
  BY <1>1, <1>2, <1>4, SelectsSettled
<1>6. FoldDone(c, f)
  BY <1>1 DEF Select
<1> QED BY <1>1, <1>2, <1>3, <1>5, <1>6, FoldOver

\* The document a caller makes of its folds.
LEMMA WalkDocFits ==
    ASSUME NEW s, CallerFits(s), s.at = "folds"
    PROVE  WalkFits(WalkDoc(s.plan, s.results)) /\ WalkDoc(s.plan, s.results).kind = "walk"
<1>1. PICK d : d = WalkDoc(s.plan, s.results)
  OBVIOUS
<1>2. d.plan = s.plan /\ d.folds = s.results /\ d.kind = "walk"
  BY <1>1 DEF WalkDoc
<1>3. FoldsSettled(s.plan, s.results) /\ Len(s.results) = PlanOf(s.plan).foldCount
  BY DEF CallerFits
<1> QED BY <1>1, <1>2, <1>3 DEF WalkFits

LEMMA BuildStep ==
    ASSUME ResearchInv, NEW c \in Callers, NEW miss \in Misses, BuildManifest(c, miss)
    PROVE  ResearchInv' /\ Grows
<1>1. PICK s, d, t : /\ s = caller[c] /\ d = WalkDoc(s.plan, s.results)
                     /\ t = IF Meaningful(d, Ok(miss)) THEN WithDoc(IdleCaller, d) ELSE IdleCaller
  OBVIOUS
<1>2. CallerFits(s) /\ BudgetFits /\ s.at = "folds"
  BY <1>1, Standing DEF BuildManifest
<1>3. /\ UNCHANGED <<plans, scores, artifacts, published>>
      /\ BudgetFits' /\ budget'.plans = budget.plans
  BY <1>2, MissSpent DEF BuildManifest
<1>4. caller' = [caller EXCEPT ![c] = t]
  BY <1>1 DEF BuildManifest, Becomes, WithDoc
<1>5. WalkFits(d) /\ d.kind = "walk"
  BY <1>1, <1>2, WalkDocFits
<1>6. Readable(d)
  BY <1>2, <1>5, WalkReadable
<1>7. CASE Meaningful(d, Ok(miss))
  <2>1. t = WithDoc(IdleCaller, d)
    BY <1>1, <1>7
  <2>2. CallerFits(t)
    BY <1>5, <1>6, <2>1, PublisherFits
  <2> QED BY <1>3, <1>4, <2>2, QuietlyMoved
<1>8. CASE ~Meaningful(d, Ok(miss))
  <2>1. t = IdleCaller
    BY <1>1, <1>8
  <2>2. CallerFits(t)
    BY <2>1, IdleFits
  <2> QED BY <1>3, <1>4, <2>2, QuietlyMoved
<1> QED BY <1>7, <1>8

LEMMA AnalyzeStep ==
    ASSUME ResearchInv, NEW c \in Callers, NEW d \in published, NEW policy \in Policies,
           Analyze(c, d, policy)
    PROVE  ResearchInv' /\ Grows
<1>1. PICK r, t : r = ReportDoc(d, policy) /\ t = WithDoc(IdleCaller, r)
  OBVIOUS
<1>2. BudgetFits /\ PublishedFit
  BY Standing
<1>3. BudgetFits' /\ budget'.plans = budget.plans
  <2>1. budget["analyses"] \in Nat /\ budget["analyses"] > 0
    BY <1>2 DEF BudgetFits, Analyze, MayStart
  <2>2. 1 \in 0..budget["analyses"]
    BY <2>1
  <2>3. Spend("analyses", 1) /\ plans' = plans
    BY DEF Analyze
  <2> QED BY <1>2, <2>2, <2>3, Spent
<1>4. d.kind = "walk" /\ ValidPolicy(policy) /\ MayReport(d.folds)
  BY DEF Analyze, MayAnalyze
<1>5. WalkFits(d)
  BY <1>2, <1>4 DEF PublishedFit
<1>6. Readable(r)
  BY <1>1, <1>2, <1>4, <1>5, ReportReadable
<1>7. r.kind = "report"
  BY <1>1 DEF ReportDoc
<1>8. CallerFits(t)
  BY <1>1, <1>6, <1>7, PublisherFits
<1>9. caller' = [caller EXCEPT ![c] = t] /\ UNCHANGED <<plans, scores, artifacts, published>>
  BY <1>1 DEF Analyze, Becomes, WithDoc
<1> QED BY <1>3, <1>8, <1>9, QuietlyMoved

\* A caller whose document is published, or is not.
Quietly == /\ BudgetFits' /\ budget'.plans = budget.plans /\ plans' = plans /\ scores' = scores
           /\ artifacts' = artifacts /\ published' \subseteq published

LEMMA DoneMoves ==
    ASSUME ResearchInv, Quietly, NEW c \in Callers, caller[c].at \in Publishing, Done(c)
    PROVE  ResearchInv' /\ Grows
<1>1. PICK s, t : s = caller[c] /\ t = IF s.doc.kind = "experiment" THEN Selecting(s) ELSE IdleCaller
  OBVIOUS
<1>2. CallerFits(s) /\ s.at \in Publishing
  BY <1>1, Standing
<1>3. caller' = [caller EXCEPT ![c] = t]
  BY <1>1 DEF Done, Becomes, Selecting
<1>4. CallerFits(t)
  <2>1. CASE s.doc.kind = "experiment"
    <3>1. t = Selecting(s)
      BY <1>1, <2>1
    <3> QED BY <3>1, <1>2, <2>1, SelectingFits
  <2>2. CASE s.doc.kind # "experiment"
    <3>1. t = IdleCaller
      BY <1>1, <2>2
    <3> QED BY <3>1, IdleFits
  <2> QED BY <2>1, <2>2
<1> QED BY <1>3, <1>4, QuietlyMoved DEF Quietly

LEMMA FailedMoves ==
    ASSUME ResearchInv, Quietly, NEW c \in Callers, caller[c].at \in Publishing, Failed(c)
    PROVE  ResearchInv' /\ Grows
<1>1. CASE caller[c].doc.kind = "experiment"
  <2>1. PICK f : f = FailedFold("FAILED_EXECUTION", "publication", None, None)
    OBVIOUS
  <2>2. FoldDone(c, f)
    BY <1>1, <2>1 DEF Failed
  <2>3. InFold(caller[c])
    BY <1>1 DEF InFold
  <2>4. FoldFits(caller[c].plan, Len(caller[c].results) + 1, f)
    BY <2>1, FailureSettled
  <2> QED BY <2>2, <2>3, <2>4, FoldOver DEF Quietly
<1>2. CASE caller[c].doc.kind # "experiment"
  <2>1. PICK t : t = IdleCaller
    OBVIOUS
  <2>2. caller' = [caller EXCEPT ![c] = t]
    BY <1>2, <2>1 DEF Failed, Becomes
  <2>3. CallerFits(t)
    BY <2>1, IdleFits
  <2> QED BY <2>2, <2>3, QuietlyMoved DEF Quietly
<1> QED BY <1>1, <1>2

LEMMA StagingMoves ==
    ASSUME ResearchInv, Quietly, NEW c \in Callers, caller[c].at \in Publishing,
           Becomes(c, [caller[c] EXCEPT !.at = "staging"])
    PROVE  ResearchInv' /\ Grows
<1>1. PICK s, t : s = caller[c] /\ t = WithPlace(s, "staging")
  OBVIOUS
<1>2. CallerFits(s) /\ s.at \in Publishing /\ "staging" \in Publishing
  BY <1>1, Standing DEF Publishing
<1>3. caller' = [caller EXCEPT ![c] = t]
  BY <1>1 DEF Becomes, WithPlace
<1>4. CallerFits(t)
  BY <1>1, <1>2, StagedFits
<1> QED BY <1>3, <1>4, QuietlyMoved DEF Quietly

LEMMA BusyStep ==
    ASSUME ResearchInv, NEW c \in Callers, LockIsBusy(c)
    PROVE  ResearchInv' /\ Grows
<1>1. Quietly
  BY DEF LockIsBusy, Quietly, ResearchInv, BudgetFits
<1>2. caller[c].at \in Publishing /\ Failed(c)
  BY DEF LockIsBusy, Publishing
<1> QED BY <1>1, <1>2, FailedMoves

LEMMA EnterStep ==
    ASSUME ResearchInv, NEW c \in Callers, NEW miss \in Misses, Enter(c, miss)
    PROVE  ResearchInv' /\ Grows
<1>1. BudgetFits' /\ budget'.plans = budget.plans
  BY Standing, MissSpent DEF Enter
<1>2. published' \subseteq published
  BY DEF Enter
<1>3. Quietly
  BY <1>1, <1>2 DEF Quietly, Enter
<1>4. caller[c].at \in Publishing
  BY DEF Enter, Publishing
<1>5. \/ Becomes(c, [caller[c] EXCEPT !.at = "staging"]) \/ Done(c) \/ Failed(c)
  BY Zenon DEF Enter
<1> QED BY <1>3, <1>4, <1>5, StagingMoves, DoneMoves, FailedMoves

LEMMA ConfirmStep ==
    ASSUME ResearchInv, NEW c \in Callers, NEW miss \in Misses, Confirm(c, miss)
    PROVE  ResearchInv' /\ Grows
<1>1. BudgetFits' /\ budget'.plans = budget.plans
  BY Standing, MissSpent DEF Confirm
<1>2. published' \subseteq published
  BY DEF Confirm
<1>3. Quietly
  BY <1>1, <1>2 DEF Quietly, Confirm
<1>4. caller[c].at \in Publishing
  BY DEF Confirm, Publishing
<1>5. Done(c) \/ Failed(c)
  BY Zenon DEF Confirm
<1> QED BY <1>3, <1>4, <1>5, DoneMoves, FailedMoves

LEMMA RenameStep ==
    ASSUME ResearchInv, NEW c \in Callers, NEW miss \in Misses, Rename(c, miss)
    PROVE  ResearchInv' /\ Grows
<1>1. PICK s, d : s = caller[c] /\ d = s.doc
  OBVIOUS
<1>2. CallerFits(s) /\ BudgetFits /\ s.at = "staging" /\ s.at \in Publishing
  BY <1>1, Standing DEF Rename, Publishing
<1>3. BudgetFits' /\ budget'.plans = budget.plans /\ UNCHANGED <<plans, scores, artifacts>>
  BY <1>2, MissSpent DEF Rename
<1>4. CASE /\ published' = published \cup {d}
           /\ Becomes(c, [caller[c] EXCEPT !.at = "renamed"])
  <2>1. Grows
    BY <1>2, <1>3, QuietGrows
  <2>2. PICK t : t = WithPlace(s, "renamed")
    OBVIOUS
  <2>3. caller' = [caller EXCEPT ![c] = t]
    BY <1>1, <1>4, <2>2 DEF Becomes, WithPlace
  <2>4. "renamed" \in Publishing
    BY DEF Publishing
  <2>5. CallerFits(t)
    BY <1>2, <2>2, <2>4, StagedFits
  <2>6. CallerFits(t)'
    BY <2>1, <2>5, CallerStays
  <2>7. d.kind \in Kinds /\ (d.kind = "walk" => WalkFits(d))
    BY <1>1, <1>2 DEF CallerFits
  <2>8. PublishedFit'
    <3>1. ASSUME NEW x \in published'
          PROVE  x.kind \in Kinds /\ (x.kind = "walk" => WalkFits(x)')
      <4>1. x = d \/ x \in published
        BY <1>4
      <4>2. x.kind \in Kinds /\ (x.kind = "walk" => WalkFits(x))
        BY <4>1, <2>7 DEF ResearchInv, PublishedFit
      <4> QED BY <4>2, <2>1, DocumentsStay
    <3> QED BY <3>1 DEF PublishedFit
  <2>9. ScoresFit'
    BY <1>3 DEF ResearchInv, ScoresFit
  <2> QED BY <1>3, <2>1, <2>3, <2>6, <2>8, <2>9, Moved
<1>5. CASE Failed(c) /\ published' = published
  <2>1. Quietly
    BY <1>3, <1>5 DEF Quietly
  <2> QED BY <1>1, <1>2, <1>5, <2>1, FailedMoves
<1>6. \/ published' = published \cup {d} /\ Becomes(c, [caller[c] EXCEPT !.at = "renamed"])
      \/ Failed(c) /\ published' = published
  BY <1>1, Zenon DEF Rename
<1> QED BY <1>4, <1>5, <1>6

\* Damage to files touches no caller.
LEMMA DamageStep ==
    ASSUME ResearchInv, (\E r \in artifacts : DamageRun(r)) \/ (\E d \in published : SpoilDocument(d))
    PROVE  ResearchInv' /\ Grows
<1>1. Spend("damage", 1) /\ budget["damage"] \in Nat /\ budget["damage"] > 0
      /\ UNCHANGED <<plans, scores, artifacts, published, caller>>
  BY DEF DamageRun, SpoilDocument, ResearchInv, BudgetFits
<1>2. BudgetFits' /\ budget'.plans = budget.plans
  <2>1. 1 \in 0..budget["damage"]
    BY <1>1
  <2> QED BY <1>1, <2>1, Spent DEF ResearchInv
<1>3. Grows
  BY <1>1, <1>2, QuietGrows DEF ResearchInv
<1>4. PublishedFit' /\ ScoresFit'
  BY <1>1, <1>3, PublishedStays DEF ResearchInv, ScoresFit
<1>5. CallersFit'
  <2>1. ASSUME NEW a \in Callers
        PROVE  CallerFits(caller[a])'
    <3>1. PICK s : s = caller[a]
      OBVIOUS
    <3>2. CallerFits(s)'
      BY <1>3, <3>1, Standing, CallerStays
    <3>3. caller'[a] = s
      BY <1>1, <3>1
    <3> QED BY <3>2, <3>3
  <2>2. caller' = [a \in Callers |-> caller'[a]]
    BY <1>1 DEF ResearchInv, CallersFit
  <2> QED BY <2>1, <2>2 DEF CallersFit
<1> QED BY <1>2, <1>3, <1>4, <1>5 DEF ResearchInv

\* The initial states.
LEMMA ResearchStarts == ResearchInit => ResearchInv
<1> SUFFICES ASSUME ResearchInit PROVE ResearchInv
  OBVIOUS
<1>1. BudgetFits
  BY BudgetsAssumption DEF ResearchInit, BudgetFits
<1>2. ScoresFit
  <2>1. scores = <<>> /\ artifacts = {}
    BY DEF ResearchInit
  <2>2. <<>> = [r \in DOMAIN <<>> |-> <<>>[r]] /\ DOMAIN <<>> = {}
    OBVIOUS
  <2> QED BY <2>1, <2>2 DEF ScoresFit
<1>3. CallersFit
  <2>1. caller = [c \in Callers |-> IdleCaller]
    BY DEF ResearchInit
  <2>2. \A c \in Callers : caller[c] = IdleCaller
    BY <2>1
  <2> QED BY <2>1, <2>2, IdleFits DEF CallersFit
<1>4. PublishedFit
  BY DEF ResearchInit, PublishedFit
<1> QED BY <1>1, <1>2, <1>3, <1>4 DEF ResearchInv

LEMMA ResearchSteps ==
    ASSUME ResearchInv, [ResearchNext]_researchVars
    PROVE  ResearchInv' /\ Grows
<1>1. CASE UNCHANGED researchVars
  <2>1. UNCHANGED <<plans, scores, artifacts, damaged, published, spoiled, caller, budget>>
    BY <1>1 DEF researchVars
  <2>2. BudgetFits' /\ ScoresFit' /\ budget'.plans = budget.plans
    BY <2>1 DEF ResearchInv, BudgetFits, ScoresFit
  <2>3. Grows
    BY <2>1, <2>2, QuietGrows DEF ResearchInv
  <2>4. PublishedFit'
    BY <2>1, <2>3, PublishedStays DEF ResearchInv
  <2>5. CallersFit'
    <3>1. ASSUME NEW a \in Callers
          PROVE  CallerFits(caller[a])'
      <4>1. PICK s : s = caller[a]
        OBVIOUS
      <4>2. CallerFits(s)'
        BY <2>3, <4>1, Standing, CallerStays
      <4>3. caller'[a] = s
        BY <2>1, <4>1
      <4> QED BY <4>2, <4>3
    <3>2. caller' = [a \in Callers |-> caller'[a]]
      BY <2>1 DEF ResearchInv, CallersFit
    <3> QED BY <3>1, <3>2 DEF CallersFit
  <2> QED BY <2>2, <2>3, <2>4, <2>5 DEF ResearchInv
<1>2. CASE ResearchNext
  <2>1. CASE \E c \in Callers : \E q \in Drafts : Plan(c, q)
    BY <2>1, PlanStep
  <2>2. CASE \E c \in Callers : Begin(c) \/ Run(c) \/ LockIsBusy(c) \/ Kill(c)
    BY <2>2, BeginStep, RunStep, BusyStep, KillStep
  <2>3. CASE \E c \in Callers : \E miss \in Misses :
               ReuseRun(c, miss) \/ PublishRun(c, miss) \/ FinishExperiment(c, miss)
    BY <2>3, ReuseStep, PublishRunStep, FinishStep
  <2>4. CASE \E c \in Callers : \E miss \in Misses : Select(c, miss) \/ BuildManifest(c, miss)
    BY <2>4, SelectStep, BuildStep
  <2>5. CASE \E c \in Callers : \E miss \in Misses :
               Enter(c, miss) \/ Rename(c, miss) \/ Confirm(c, miss)
    BY <2>5, EnterStep, RenameStep, ConfirmStep
  <2>6. CASE \E c \in Callers : \E d \in published, policy \in Policies : Analyze(c, d, policy)
    BY <2>6, AnalyzeStep
  <2>7. CASE (\E r \in artifacts : DamageRun(r)) \/ (\E d \in published : SpoilDocument(d))
    BY <2>7, DamageStep
  <2> QED BY <1>2, <2>1, <2>2, <2>3, <2>4, <2>5, <2>6, <2>7, Zenon DEF ResearchNext
<1> QED BY <1>1, <1>2

THEOREM ResearchFits == ResearchSpec => []ResearchInv
<1>1. ResearchInv /\ [ResearchNext]_researchVars => ResearchInv'
  BY ResearchSteps
<1> QED BY ResearchStarts, <1>1, PTL DEF ResearchSpec

\* Whatever a writer makes of an execution, of any plan, by any number of callers,
\* the constructors that read it back accept.
THEOREM DocumentsAreReadable == ResearchSpec => []WritersMeetReaders
<1>1. ResearchInv => WritersMeetReaders
  BY DEF ResearchInv, CallersFit, CallerFits, WritersMeetReaders, Publishing
<1> QED BY <1>1, ResearchFits, PTL

-----------------------------------------------------------------------------
(* Results that come out again *)

Intact(q, k) == \A x \in Range(Specs(q, k)) : x.run \notin damaged

\* What comes out again of the intact artifacts is honest, and the other way round.
LEMMA HonestIs ==
    ASSUME ScoresFit, NEW q, NEW k, NEW n, Shape(q, k, n), NEW f, FoldFits(q, k, f)
    PROVE  /\ f = FoldResult(q, k, f.records, artifacts \ damaged) => Honest(q, k, f)
           /\ Honest(q, k, f) /\ Intact(q, k) /\ f.status # "FAILED_EXECUTION" =>
                f = FoldResult(q, k, f.records, artifacts \ damaged)
<1>1. f = FoldResult(q, k, f.records, artifacts \ damaged) => Honest(q, k, f)
  BY DEF Honest
<1>2. ASSUME Honest(q, k, f), Intact(q, k), f.status # "FAILED_EXECUTION"
      PROVE  f = FoldResult(q, k, f.records, artifacts \ damaged)
  <2>1. PICK records : records = f.records
    OBVIOUS
  <2>2. Complete(q, k, records)
    BY <1>2, <2>1 DEF FoldFits
  <2>3. PICK m \in SUBSET damaged : f = FoldResult(q, k, records, artifacts \ m)
    BY <1>2, <2>1 DEF Honest
  <2>4. PICK a, b, specs : a = artifacts \ m /\ b = artifacts \ damaged /\ specs = Specs(q, k)
    OBVIOUS
  <2>5. specs = [g \in 1..(3 * n) |-> specs[g]] /\ DOMAIN records = 1..(3 * n)
    BY <2>2, <2>4, RecordsAre DEF Shape
  <2>6. ASSUME NEW g \in DOMAIN records
        PROVE  specs[g].run \notin damaged
    <3>1. specs[g] \in Range(specs)
      BY <2>5 DEF Range
    <3> QED BY <3>1, <1>2, <2>4 DEF Intact
  <2>7. Agree(q, k, records, a, b)
    BY <2>4, <2>6 DEF Agree
  <2>8. a \subseteq artifacts
    BY <2>4
  <2>9. FoldResult(q, k, records, a) = FoldResult(q, k, records, b)
    BY <2>2, <2>7, <2>8, SameResult
  <2> QED BY <2>1, <2>3, <2>4, <2>9
<1> QED BY <1>1, <1>2

\* A fold result stays honest: its runs stay as they were.
LEMMA HonestStays ==
    ASSUME ScoresFit, Grows, damaged \subseteq damaged', NEW q, NEW k, NEW n, Shape(q, k, n),
           NEW f, FoldFits(q, k, f), Honest(q, k, f)
    PROVE  Honest(q, k, f)'
<1>1. CASE f.status = "FAILED_EXECUTION"
  BY <1>1 DEF Honest
<1>2. CASE f.status # "FAILED_EXECUTION"
  <2>1. PICK records : records = f.records
    OBVIOUS
  <2>2. PICK m \in SUBSET damaged : f = FoldResult(q, k, records, artifacts \ m)
    BY <1>2, <2>1 DEF Honest
  <2>3. PICK a, b : a = artifacts \ m /\ b = artifacts' \ m
    OBVIOUS
  <2>4. Complete(q, k, records)
    BY <1>2, <2>1 DEF FoldFits
  <2>5. f = FoldResult(q, k, records, a)
    BY <2>2, <2>3
  <2>6. \A g \in DOMAIN records : Successful(records[g]) => Specs(q, k)[g].run \in artifacts
    BY <2>4 DEF Complete, RecordsFit, RecordsHold
  <2>7. a \subseteq artifacts /\ Agree(q, k, records, a, b)
    BY <2>3, <2>6 DEF Agree, Grows
  <2>8. FoldResult(q, k, records, a) = FoldResult(q, k, records, b)
    BY <2>4, <2>7, SameResult
  <2>9. Backed(q, k, records, b)
    BY <2>6, OkScored DEF Backed
  <2>10. FoldResult(q, k, records, b)' = FoldResult(q, k, records, b)
    BY <2>4, <2>9, ResultStays
  <2>11. f = FoldResult(q, k, f.records, artifacts \ m)'
    BY <2>1, <2>3, <2>5, <2>8, <2>10
  <2>12. m \in SUBSET damaged'
    OBVIOUS
  <2> QED BY <2>11, <2>12 DEF Honest
<1> QED BY <1>1, <1>2

\* The folds of a plan, by their position.
LEMMA FoldsAre ==
    ASSUME BudgetFits, NEW q, NEW results, FoldsSettled(q, results),
           Len(results) <= PlanOf(q).foldCount, NEW k \in DOMAIN results
    PROVE  FoldFits(q, k, results[k]) /\ \E n : Shape(q, k, n)
<1>1. Planned(q) /\ results \in Seq(Range(results)) /\ FoldFits(q, k, results[k])
  BY DEF FoldsSettled, IsSequence
<1>2. PICK l, m : l = Len(results) /\ m = PlanOf(q).foldCount
  OBVIOUS
<1>3. l \in Nat /\ k \in 1..l
  BY <1>1, <1>2
<1>4. m \in 2..MostFolds
  BY <1>1, <1>2, PlanShape
<1>5. k \in 1..m
  BY <1>2, <1>3, <1>4, FoldsAssumption
<1>6. \E n : Shape(q, k, n)
  BY <1>1, <1>2, <1>5, PlanShape
<1> QED BY <1>1, <1>6

\* Folds that come out again of the intact artifacts are honest; honest ones
\* come out again if nothing they rest on was damaged.
LEMMA ReproducedIs ==
    ASSUME BudgetFits, ScoresFit, NEW q, NEW results, FoldsSettled(q, results),
           Len(results) <= PlanOf(q).foldCount
    PROVE  /\ Reproduced(q, results, artifacts \ damaged) => AllHonest(q, results)
           /\ AllHonest(q, results) /\ (\A k \in DOMAIN results : Intact(q, k)) =>
                Reproduced(q, results, artifacts \ damaged)
<1>1. ASSUME NEW k \in DOMAIN results, NEW f, f = results[k]
      PROVE  /\ f = FoldResult(q, k, f.records, artifacts \ damaged) => Honest(q, k, f)
             /\ Honest(q, k, f) /\ Intact(q, k) /\ f.status # "FAILED_EXECUTION" =>
                  f = FoldResult(q, k, f.records, artifacts \ damaged)
  <2>1. PICK n : Shape(q, k, n)
    BY FoldsAre
  <2>2. FoldFits(q, k, f)
    BY <1>1, FoldsAre
  <2> QED BY <2>1, <2>2, HonestIs
<1>2. ASSUME Reproduced(q, results, artifacts \ damaged)
      PROVE  AllHonest(q, results)
  <2>1. ASSUME NEW k \in DOMAIN results
        PROVE  Honest(q, k, results[k])
    <3>1. CASE results[k].status = "FAILED_EXECUTION"
      BY <3>1 DEF Honest
    <3>2. CASE results[k].status # "FAILED_EXECUTION"
      BY <1>1, <1>2, <3>2 DEF Reproduced
    <3> QED BY <3>1, <3>2
  <2> QED BY <2>1 DEF AllHonest
<1>3. ASSUME AllHonest(q, results), \A k \in DOMAIN results : Intact(q, k)
      PROVE  Reproduced(q, results, artifacts \ damaged)
  BY <1>1, <1>3 DEF Reproduced, AllHonest
<1> QED BY <1>2, <1>3

\* Every step spends and damages; it gives nothing back.
Later == /\ Grows /\ damaged \subseteq damaged'
         /\ budget.faults \in Nat /\ budget'.faults \in Nat
         /\ budget'.faults <= budget.faults

LEMMA AllStay ==
    ASSUME BudgetFits, ScoresFit, Later, NEW q, NEW results, FoldsSettled(q, results),
           Len(results) <= PlanOf(q).foldCount, AllHonest(q, results)
    PROVE  AllHonest(q, results)'
<1>1. ASSUME NEW k \in DOMAIN results, NEW f, f = results[k]
      PROVE  Honest(q, k, f)'
  <2>1. PICK n : Shape(q, k, n)
    BY FoldsAre
  <2>2. FoldFits(q, k, f)
    BY <1>1, FoldsAre
  <2>3. Honest(q, k, f)
    BY <1>1 DEF AllHonest
  <2> QED BY <2>1, <2>2, <2>3, HonestStays DEF Later
<1> QED BY <1>1 DEF AllHonest

LEMMA WalksStay ==
    ASSUME BudgetFits, ScoresFit, Later, NEW d, WalkFits(d), AllHonest(d.plan, d.folds)
    PROVE  AllHonest(d.plan, d.folds)'
<1>1. PICK q, results : q = d.plan /\ results = d.folds
  OBVIOUS
<1>2. FoldsSettled(q, results) /\ Len(results) = PlanOf(q).foldCount
  BY <1>1 DEF WalkFits
<1>3. PICK l : l = Len(results)
  OBVIOUS
<1>4. l \in Nat
  BY <1>2, <1>3 DEF FoldsSettled, IsSequence
<1>5. Len(results) <= PlanOf(q).foldCount
  BY <1>2, <1>3, <1>4
<1>6. AllHonest(q, results)'
  BY <1>1, <1>2, <1>5, AllStay
<1> QED BY <1>1, <1>6

\* A caller that does nothing goes on being honest.
LEMMA CallerStaysHonest ==
    ASSUME BudgetFits, ScoresFit, Later, NEW s, CallerFits(s), CallerHonest(s)
    PROVE  CallerHonest(s)'
<1>1. ASSUME InFold(s) \/ s.at = "folds"
      PROVE  AllHonest(s.plan, s.results)' \/ budget'.faults <= 1
  <2>1. CASE AllHonest(s.plan, s.results)
    <3>1. FoldsSettled(s.plan, s.results)
      BY <1>1 DEF CallerFits
    <3>2. PICK l, m : l = Len(s.results) /\ m = PlanOf(s.plan).foldCount
      OBVIOUS
    <3>3. l < m \/ l = m
      BY <1>1, <3>2 DEF CallerFits
    <3>4. l \in Nat /\ m \in Nat
      <4>1. Planned(s.plan) /\ s.results \in Seq(Range(s.results))
        BY <3>1 DEF FoldsSettled, IsSequence
      <4>2. m \in 2..MostFolds
        BY <3>2, <4>1, PlanShape
      <4> QED BY <3>2, <4>1, <4>2, FoldsAssumption
    <3>5. Len(s.results) <= PlanOf(s.plan).foldCount
      BY <3>2, <3>3, <3>4
    <3> QED BY <2>1, <3>1, <3>5, AllStay
  <2>2. CASE budget.faults <= 1
    BY <2>2 DEF Later
  <2> QED BY <1>1, <2>1, <2>2 DEF CallerHonest
<1>2. ASSUME s.at \in Publishing, s.doc.kind = "walk"
      PROVE  AllHonest(s.doc.plan, s.doc.folds)' \/ (s.at # "renamed" /\ budget'.faults <= 0)
  <2>1. CASE AllHonest(s.doc.plan, s.doc.folds)
    <3>1. WalkFits(s.doc)
      BY <1>2 DEF CallerFits
    <3> QED BY <2>1, <3>1, WalksStay
  <2>2. CASE s.at # "renamed" /\ budget.faults <= 0
    BY <2>2 DEF Later
  <2> QED BY <1>2, <2>1, <2>2 DEF CallerHonest
<1> QED BY <1>1, <1>2 DEF CallerHonest

\* What is published goes on being honest.
WalksAreHonest == \A d \in published : d.kind = "walk" => AllHonest(d.plan, d.folds)

LEMMA PublishedStaysHonest ==
    ASSUME ResearchInv, Later, NEW d \in published, d.kind = "walk", WalksAreHonest
    PROVE  AllHonest(d.plan, d.folds)'
<1>1. BudgetFits /\ ScoresFit /\ WalkFits(d) /\ AllHonest(d.plan, d.folds)
  BY DEF ResearchInv, PublishedFit, WalksAreHonest
<1> QED BY <1>1, WalksStay

\* A step in which one caller moves.
LEMMA HonestlyMoved ==
    ASSUME ResearchInv, HonestInv, Later, NEW c \in Callers, NEW t,
           caller' = [caller EXCEPT ![c] = t], CallerHonest(t)',
           \A d \in published' : d.kind = "walk" => d \in published \/ AllHonest(d.plan, d.folds)'
    PROVE  HonestInv'
<1>1. caller = [a \in Callers |-> caller[a]] /\ BudgetFits /\ ScoresFit
  BY DEF ResearchInv, CallersFit
<1>2. ASSUME NEW a \in Callers
      PROVE  CallerHonest(caller[a])'
  <2>1. PICK s : s = caller[a]
    OBVIOUS
  <2>2. CallerFits(s) /\ CallerHonest(s)
    BY <2>1, Standing DEF HonestInv
  <2>3. CallerHonest(s)'
    BY <1>1, <2>2, CallerStaysHonest
  <2>4. CASE a = c
    <3>1. caller'[a] = t
      BY <1>1, <2>4
    <3> QED BY <3>1
  <2>5. CASE a # c
    <3>1. caller'[a] = s
      BY <1>1, <2>1, <2>5
    <3> QED BY <3>1, <2>3
  <2> QED BY <2>4, <2>5
<1>3. ASSUME NEW d \in published', d.kind = "walk"
      PROVE  AllHonest(d.plan, d.folds)'
  <2>1. CASE d \in published
    <3>1. WalksAreHonest
      BY DEF HonestInv, WalksAreHonest
    <3> QED BY <1>3, <2>1, <3>1, PublishedStaysHonest
  <2> QED BY <1>3, <2>1
<1>4. budget'.faults <= 2
  BY DEF HonestInv, Later
<1> QED BY <1>2, <1>3, <1>4 DEF HonestInv

\* What a step spends it does not have any more.
LEMMA FaultsFall ==
    ASSUME ResearchInv, ResearchInv', Grows, damaged \subseteq damaged',
           \/ UNCHANGED budget
           \/ \E field \in {"executions", "kills", "damage", "analyses"} :
                budget[field] > 0 /\ Spend(field, 1)
           \/ \E miss \in Misses : Spend("faults", Cardinality(miss))
    PROVE  Later
<1>1. BudgetFits /\ BudgetFits' /\ plans' = plans
  BY DEF ResearchInv, Grows
<1>2. budget.faults \in Nat /\ budget'.faults \in Nat
  BY <1>1 DEF BudgetFits
<1>3. CASE UNCHANGED budget
  BY <1>2, <1>3 DEF Later
<1>4. ASSUME NEW field \in {"executions", "kills", "damage", "analyses"}, budget[field] > 0,
             Spend(field, 1)
      PROVE  Later
  <2>1. budget[field] \in Nat
    <3>1. PICK b : b = budget
      OBVIOUS
    <3>2. b \in [overlap : BOOLEAN, plans : SUBSET DOMAIN Requests, executions : Nat, odd : Nat,
                 kills : Nat, faults : Nat, damage : Nat, analyses : Nat]
      BY <1>1, <3>1 DEF BudgetFits
    <3>3. b["executions"] \in Nat /\ b["kills"] \in Nat /\ b["damage"] \in Nat /\ b["analyses"] \in Nat
      BY <3>2
    <3> QED BY <3>1, <3>3
  <2>2. 1 \in 0..budget[field] /\ field \in {"executions", "kills", "faults", "damage", "analyses"}
    BY <1>4, <2>1
  <2>3. budget'.faults = IF field = "faults" THEN budget.faults - 1 ELSE budget.faults
    BY <1>1, <1>4, <2>2, Spent
  <2>4. budget'.faults = budget.faults
    BY <2>3
  <2> QED BY <1>2, <2>4 DEF Later
<1>5. ASSUME NEW miss \in Misses, Spend("faults", Cardinality(miss))
      PROVE  Later
  <2>1. budget'.faults = budget.faults - Cardinality(miss) /\ Cardinality(miss) \in 0..budget.faults
    BY <1>1, <1>5, MissSpent, MissIs
  <2> QED BY <1>2, <2>1 DEF Later
<1> QED BY <1>3, <1>4, <1>5

LEMMA StepsLater ==
    ASSUME ResearchInv, [ResearchNext]_researchVars
    PROVE  Later
<1>1. ResearchInv' /\ Grows
  BY ResearchSteps
<1>2. /\ damaged \subseteq damaged'
      /\ \/ UNCHANGED budget
         \/ \E field \in {"executions", "kills", "damage", "analyses"} :
              budget[field] > 0 /\ Spend(field, 1)
         \/ \E miss \in Misses : Spend("faults", Cardinality(miss))
  <2>1. CASE UNCHANGED researchVars
    BY <2>1 DEF researchVars
  <2>2. ASSUME NEW c \in Callers, NEW q \in Drafts, Plan(c, q)
        PROVE  <1>2!1 /\ <1>2!2
    BY <2>2 DEF Plan, MayStart
  <2>3. ASSUME NEW c \in Callers, Begin(c) \/ Run(c) \/ LockIsBusy(c)
        PROVE  <1>2!1 /\ <1>2!2
    BY <2>3 DEF Begin, Run, LockIsBusy
  <2>4. ASSUME NEW c \in Callers, Kill(c)
        PROVE  <1>2!1 /\ <1>2!2
    BY <2>4 DEF Kill
  <2>5. ASSUME NEW c \in Callers, NEW miss \in Misses,
               \/ ReuseRun(c, miss) \/ PublishRun(c, miss) \/ FinishExperiment(c, miss)
               \/ Select(c, miss) \/ BuildManifest(c, miss)
        PROVE  <1>2!1 /\ <1>2!2
    BY <2>5 DEF ReuseRun, PublishRun, FinishExperiment, Select, BuildManifest
  <2>6. ASSUME NEW c \in Callers, NEW miss \in Misses,
               Enter(c, miss) \/ Rename(c, miss) \/ Confirm(c, miss)
        PROVE  <1>2!1 /\ <1>2!2
    BY <2>6 DEF Enter, Rename, Confirm
  <2>7. ASSUME NEW c \in Callers, NEW d \in published, NEW policy \in Policies, Analyze(c, d, policy)
        PROVE  <1>2!1 /\ <1>2!2
    BY <2>7 DEF Analyze, MayStart
  <2>8. CASE (\E r \in artifacts : DamageRun(r)) \/ (\E d \in published : SpoilDocument(d))
    BY <2>8 DEF DamageRun, SpoilDocument
  <2> QED BY <2>1, <2>2, <2>3, <2>4, <2>5, <2>6, <2>7, <2>8, Zenon DEF ResearchNext
<1> QED BY <1>1, <1>2, FaultsFall

-----------------------------------------------------------------------------
(* Where an honest caller may go *)

LEMMA RecordFields ==
    ASSUME NEW s, CallerFits(s), NEW status, NEW t, t = WithRecord(s, status)
    PROVE  t.at = "specs" /\ t.plan = s.plan /\ t.results = s.results /\ t.doc = s.doc
<1>0. PICK a, p, r, u, x : a = s.at /\ p = s.plan /\ r = s.records /\ u = s.results /\ x = s.doc
  OBVIOUS
<1>1. s = [at |-> a, plan |-> p, records |-> r, results |-> u, doc |-> x]
  BY <1>0, FitsIs, Zenon
<1>2. t = [at |-> "specs", plan |-> p, records |-> Append(r, status), results |-> u, doc |-> x]
  BY <1>1 DEF WithRecord
<1> QED BY <1>1, <1>2

LEMMA PlaceFields ==
    ASSUME NEW s, CallerFits(s), NEW at, NEW t, t = WithPlace(s, at)
    PROVE  t.at = at /\ t.plan = s.plan /\ t.results = s.results /\ t.doc = s.doc
<1>0. PICK a, p, r, u, x : a = s.at /\ p = s.plan /\ r = s.records /\ u = s.results /\ x = s.doc
  OBVIOUS
<1>1. s = [at |-> a, plan |-> p, records |-> r, results |-> u, doc |-> x]
  BY <1>0, FitsIs, Zenon
<1>2. t = [at |-> at, plan |-> p, records |-> r, results |-> u, doc |-> x]
  BY <1>1 DEF WithPlace
<1> QED BY <1>1, <1>2

LEMMA DocFields ==
    ASSUME NEW s, CallerFits(s), NEW d, NEW t, t = WithDoc(s, d)
    PROVE  t.at = "publish" /\ t.plan = s.plan /\ t.results = s.results /\ t.doc = d
<1>0. PICK a, p, r, u, x : a = s.at /\ p = s.plan /\ r = s.records /\ u = s.results /\ x = s.doc
  OBVIOUS
<1>1. s = [at |-> a, plan |-> p, records |-> r, results |-> u, doc |-> x]
  BY <1>0, FitsIs, Zenon
<1>2. t = [at |-> "publish", plan |-> p, records |-> r, results |-> u, doc |-> d]
  BY <1>1 DEF WithDoc
<1> QED BY <1>1, <1>2

LEMMA SelectingFields ==
    ASSUME NEW s, CallerFits(s), NEW t, t = Selecting(s)
    PROVE  t.at = "select" /\ t.plan = s.plan /\ t.results = s.results
<1>0. PICK a, p, r, u, x : a = s.at /\ p = s.plan /\ r = s.records /\ u = s.results /\ x = s.doc
  OBVIOUS
<1>1. s = [at |-> a, plan |-> p, records |-> r, results |-> u, doc |-> x]
  BY <1>0, FitsIs, Zenon
<1>2. t = [at |-> "select", plan |-> p, records |-> r, results |-> u, doc |-> None]
  BY <1>1 DEF Selecting
<1> QED BY <1>1, <1>2

LEMMA FoldFields ==
    ASSUME NEW s, CallerFits(s), NEW f, NEW t, t = WithFold(s, f)
    PROVE  t.at \in {"specs", "folds"} /\ t.plan = s.plan /\ t.results = Append(s.results, f)
<1>1. PICK a, p, r, u, x, at :
        /\ s = [at |-> a, plan |-> p, records |-> r, results |-> u, doc |-> x]
        /\ a = s.at /\ p = s.plan /\ r = s.records /\ u = s.results /\ x = s.doc
        /\ at = IF Len(Append(s.results, f)) = PlanOf(s.plan).foldCount THEN "folds" ELSE "specs"
  BY FitsIs, Zenon
<1>2. t = [at |-> at, plan |-> p, records |-> <<>>, results |-> Append(u, f), doc |-> None]
  BY <1>1 DEF WithFold
<1>3. t.at = at /\ t.plan = p /\ t.results = Append(u, f)
  BY <1>2
<1> QED BY <1>1, <1>3

\* A caller at the same folds is as honest as it was.
LEMMA Keeping ==
    ASSUME NEW s, InFold(s), CallerHonest(s)', NEW t, t.plan = s.plan, t.results = s.results,
           t.at \in Publishing => t.doc.kind # "walk"
    PROVE  CallerHonest(t)'
BY DEF CallerHonest

LEMMA NothingAtHand ==
    ASSUME NEW t, ~InFold(t), t.at # "folds", t.at \in Publishing => t.doc.kind # "walk"
    PROVE  CallerHonest(t)'
BY DEF CallerHonest

LEMMA IdleIsHonest == ASSUME NEW t, t = IdleCaller PROVE CallerHonest(t)'
<1>1. t.at = "idle"
  BY DEF IdleCaller
<1>2. ~InFold(t) /\ t.at # "folds" /\ t.at \notin Publishing
  BY <1>1 DEF InFold, Publishing
<1> QED BY <1>2 DEF CallerHonest

\* One more fold: an honest one, or a verification was missed on the way.
LEMMA OneMore ==
    ASSUME Later, NEW s, CallerFits(s), InFold(s), CallerHonest(s)', NEW f,
           Honest(s.plan, Len(s.results) + 1, f)' \/ budget'.faults <= 1,
           NEW t, t = WithFold(s, f)
    PROVE  CallerHonest(t)'
<1>1. t.at \in {"specs", "folds"} /\ t.plan = s.plan /\ t.results = Append(s.results, f)
  BY FoldFields
<1>2. t.at \notin Publishing
  BY <1>1 DEF Publishing
<1>3. CASE budget'.faults <= 1
  BY <1>2, <1>3 DEF CallerHonest
<1>4. CASE AllHonest(s.plan, s.results)' /\ Honest(s.plan, Len(s.results) + 1, f)'
  <2>1. PICK q, rs, l, us : q = s.plan /\ rs = s.results /\ l = Len(rs) /\ us = Append(rs, f)
    OBVIOUS
  <2>2. rs \in Seq(Range(rs))
    BY <2>1 DEF CallerFits, FoldsSettled, IsSequence
  <2>3. /\ l \in Nat /\ DOMAIN us = 1..(l + 1) /\ us[l + 1] = f
        /\ \A k \in 1..l : us[k] = rs[k] /\ k \in DOMAIN rs
    BY <2>1, <2>2
  <2>4. ASSUME NEW k \in DOMAIN us
        PROVE  Honest(q, k, us[k])'
    <3>1. CASE k = l + 1
      BY <3>1, <1>4, <2>1, <2>3
    <3>2. CASE k \in 1..l
      <4>1. us[k] = rs[k] /\ k \in DOMAIN rs
        BY <3>2, <2>3
      <4>2. Honest(q, k, rs[k])'
        BY <4>1, <1>4, <2>1 DEF AllHonest
      <4> QED BY <4>1, <4>2
    <3> QED BY <3>1, <3>2, <2>3
  <2>5. AllHonest(q, us)'
    BY <2>4 DEF AllHonest
  <2> QED BY <1>1, <1>2, <2>1, <2>5 DEF CallerHonest
<1>5. AllHonest(s.plan, s.results)' \/ budget'.faults <= 1
  BY DEF CallerHonest
<1> QED BY <1>3, <1>4, <1>5

-----------------------------------------------------------------------------
(* The steps *)

\* The caller that takes a step, before and after what else it changes.
LEMMA HonestStanding ==
    ASSUME ResearchInv, HonestInv, Later, NEW c \in Callers, NEW s, s = caller[c]
    PROVE  CallerFits(s) /\ CallerHonest(s) /\ CallerHonest(s)'
<1>1. CallerFits(s) /\ BudgetFits /\ ScoresFit /\ CallerHonest(s)
  BY Standing DEF HonestInv
<1> QED BY <1>1, CallerStaysHonest

HonestSoFar == ResearchInv /\ HonestInv /\ Later

\* A step that publishes nothing.
LEMMA HonestAlone ==
    ASSUME HonestSoFar, published' \subseteq published, NEW c \in Callers, NEW t,
           caller' = [caller EXCEPT ![c] = t], CallerHonest(t)'
    PROVE  HonestInv'
<1>1. \A d \in published' : d.kind = "walk" => d \in published \/ AllHonest(d.plan, d.folds)'
  OBVIOUS
<1> QED BY <1>1, HonestlyMoved DEF HonestSoFar

LEMMA HonestStarts ==
    ASSUME HonestSoFar, NEW c \in Callers,
           (\E q \in Drafts : Plan(c, q)) \/ Begin(c) \/ Kill(c)
    PROVE  HonestInv'
<1>1. PICK s : s = caller[c]
  OBVIOUS
<1>2. CallerFits(s)
  BY <1>1, HonestStanding DEF HonestSoFar
<1>3. ASSUME NEW q \in Drafts, Plan(c, q)
      PROVE  HonestInv'
  <2>1. PICK i, t : i = IdleCaller /\ t = [i EXCEPT !.at = "planned", !.plan = q]
    OBVIOUS
  <2>2. t = [at |-> "planned", plan |-> q, records |-> <<>>, results |-> <<>>, doc |-> None]
    BY <2>1 DEF IdleCaller
  <2>3. t.at = "planned"
    BY <2>2
  <2>4. CallerHonest(t)'
    BY <2>3, NothingAtHand DEF InFold, Publishing
  <2>5. caller' = [caller EXCEPT ![c] = t] /\ published' \subseteq published
    BY <1>3, <2>1 DEF Plan, Becomes
  <2> QED BY <2>4, <2>5, HonestAlone
<1>4. CASE Begin(c)
  <2>1. PICK t : t = WithPlace(s, "specs")
    OBVIOUS
  <2>2. t.at = "specs" /\ t.plan = s.plan /\ t.results = s.results
    BY <1>2, <2>1, PlaceFields
  <2>3. s.results = <<>>
    BY <1>1, <1>2, <1>4 DEF Begin, CallerFits
  <2>4. AllHonest(t.plan, t.results)'
    <3>1. DOMAIN t.results = {}
      BY <2>2, <2>3
    <3> QED BY <3>1 DEF AllHonest
  <2>5. CallerHonest(t)'
    BY <2>2, <2>4 DEF CallerHonest, Publishing
  <2>6. caller' = [caller EXCEPT ![c] = t] /\ published' \subseteq published
    BY <1>1, <1>4, <2>1 DEF Begin, Becomes, WithPlace
  <2> QED BY <2>5, <2>6, HonestAlone
<1>5. CASE Kill(c)
  <2>1. PICK t : t = IdleCaller
    OBVIOUS
  <2>2. caller' = [caller EXCEPT ![c] = t] /\ published' \subseteq published
    BY <1>5, <2>1 DEF Kill, Becomes
  <2> QED BY <2>1, <2>2, IdleIsHonest, HonestAlone
<1> QED BY <1>3, <1>4, <1>5

\* A run is recorded.
LEMMA HonestRecord ==
    ASSUME HonestSoFar, NEW c \in Callers, NEW status, caller[c].at \in {"specs", "ran"},
           Recorded(c, status), published' \subseteq published
    PROVE  HonestInv'
<1>1. PICK s, t : s = caller[c] /\ t = WithRecord(s, status)
  OBVIOUS
<1>2. CallerFits(s) /\ CallerHonest(s)' /\ InFold(s)
  BY <1>1, HonestStanding DEF HonestSoFar, InFold
<1>3. t.at = "specs" /\ t.plan = s.plan /\ t.results = s.results
  BY <1>1, <1>2, RecordFields
<1>4. CallerHonest(t)'
  <2>1. t.at \notin Publishing
    BY <1>3 DEF Publishing
  <2> QED BY <1>2, <1>3, <2>1, Keeping
<1>5. caller' = [caller EXCEPT ![c] = t]
  BY <1>1 DEF Recorded, Becomes, WithRecord
<1> QED BY <1>4, <1>5, HonestAlone

LEMMA HonestRuns ==
    ASSUME HonestSoFar, NEW c \in Callers,
           Run(c) \/ \E miss \in Misses : ReuseRun(c, miss) \/ PublishRun(c, miss)
    PROVE  HonestInv'
<1>1. ASSUME NEW miss \in Misses, ReuseRun(c, miss) \/ PublishRun(c, miss)
      PROVE  HonestInv'
  <2>1. caller[c].at \in {"specs", "ran"} /\ published' \subseteq published
    BY <1>1 DEF ReuseRun, PublishRun
  <2>2. \E status : Recorded(c, status)
    BY <1>1, Zenon DEF ReuseRun, PublishRun
  <2> QED BY <2>1, <2>2, HonestRecord
<1>2. CASE Run(c)
  <2>1. caller[c].at = "specs" /\ published' \subseteq published
    BY <1>2 DEF Run
  <2>2. Recorded(c, "engine") \/ Becomes(c, [caller[c] EXCEPT !.at = "ran"])
    BY <1>2, Zenon DEF Run
  <2>3. CASE Recorded(c, "engine")
    BY <2>1, <2>3, HonestRecord
  <2>4. CASE Becomes(c, [caller[c] EXCEPT !.at = "ran"])
    <3>1. PICK s, t : s = caller[c] /\ t = WithPlace(s, "ran")
      OBVIOUS
    <3>2. CallerFits(s) /\ CallerHonest(s)' /\ InFold(s)
      BY <2>1, <3>1, HonestStanding DEF HonestSoFar, InFold
    <3>3. t.at = "ran" /\ t.plan = s.plan /\ t.results = s.results
      BY <3>1, <3>2, PlaceFields
    <3>4. CallerHonest(t)'
      <4>1. t.at \notin Publishing
        BY <3>3 DEF Publishing
      <4> QED BY <3>2, <3>3, <4>1, Keeping
    <3>5. caller' = [caller EXCEPT ![c] = t]
      BY <2>4, <3>1 DEF Becomes, WithPlace
    <3> QED BY <2>1, <3>4, <3>5, HonestAlone
  <2> QED BY <2>2, <2>3, <2>4
<1> QED BY <1>1, <1>2

\* A fold is over.
LEMMA HonestFold ==
    ASSUME HonestSoFar, NEW c \in Callers, NEW s, s = caller[c], InFold(s),
           NEW f, FoldDone(c, f),
           \/ f.status = "FAILED_EXECUTION"
           \/ Honest(s.plan, Len(s.results) + 1, f)'
           \/ budget'.faults <= 1,
           published' \subseteq published
    PROVE  HonestInv'
<1>1. PICK t : t = WithFold(s, f)
  OBVIOUS
<1>2. CallerFits(s) /\ CallerHonest(s)' /\ Later
  BY HonestStanding DEF HonestSoFar
<1>3. Honest(s.plan, Len(s.results) + 1, f)' \/ budget'.faults <= 1
  BY DEF Honest
<1>4. CallerHonest(t)'
  BY <1>1, <1>2, <1>3, OneMore
<1>5. caller' = [caller EXCEPT ![c] = t]
  BY <1>1 DEF FoldDone, Becomes, WithFold
<1> QED BY <1>4, <1>5, HonestAlone

\* What is missed is spent.
LEMMA MissFaults ==
    ASSUME HonestSoFar, NEW miss \in Misses, Spend("faults", Cardinality(miss))
    PROVE  /\ miss = {} \/ (budget.faults > 0 /\ budget'.faults = budget.faults - 1)
           /\ budget.faults \in Nat /\ budget.faults <= 2
<1>1. BudgetFits /\ plans' = plans /\ budget.faults \in Nat /\ budget.faults <= 2
  BY DEF HonestSoFar, Later, Grows, ResearchInv, HonestInv
<1>2. budget'.faults = budget.faults - Cardinality(miss)
  BY <1>1, MissSpent
<1>3. PICK n : n = Cardinality(miss)
  OBVIOUS
<1>4. n \in 0..budget.faults /\ n \in {0, 1} /\ (n = 0 => miss = {})
  BY <1>1, <1>3, MissIs
<1> QED BY <1>1, <1>2, <1>3, <1>4

LEMMA HonestFinish ==
    ASSUME HonestSoFar, NEW c \in Callers, NEW miss \in Misses, FinishExperiment(c, miss)
    PROVE  HonestInv'
<1>1. PICK s, q, k : s = caller[c] /\ q = s.plan /\ k = Len(s.results) + 1
  OBVIOUS
<1>2. s.at = "specs" /\ InFold(s) /\ published' \subseteq published
  BY <1>1 DEF FinishExperiment, InFold
<1>3. CallerFits(s) /\ CallerHonest(s)'
  BY <1>1, HonestStanding DEF HonestSoFar
<1>4. CASE RecordsHold(q, k, s.records, Ok(miss))
  <2>1. PICK d, t : d = ExperimentDoc(q, k, s.records) /\ t = WithDoc(s, d)
    OBVIOUS
  <2>2. caller' = [caller EXCEPT ![c] = t]
    BY <1>1, <1>4, <2>1 DEF FinishExperiment, Becomes, WithDoc
  <2>3. t.plan = s.plan /\ t.results = s.results /\ t.doc = d
    BY <1>3, <2>1, DocFields
  <2>4. t.doc.kind # "walk"
    BY <2>1, <2>3 DEF ExperimentDoc
  <2>5. CallerHonest(t)'
    BY <1>2, <1>3, <2>3, <2>4, Keeping
  <2> QED BY <1>2, <2>2, <2>5, HonestAlone
<1>5. CASE ~RecordsHold(q, k, s.records, Ok(miss))
  <2>1. PICK f : f = FailedFold("FAILED_EXECUTION", "verification", None, None)
    OBVIOUS
  <2>2. FoldDone(c, f)
    BY <1>1, <1>5, <2>1 DEF FinishExperiment
  <2>3. f.status = "FAILED_EXECUTION"
    BY <2>1 DEF FailedFold
  <2> QED BY <1>1, <1>2, <2>2, <2>3, HonestFold
<1> QED BY <1>4, <1>5

\* What is selected with nothing missed is honest.
LEMMA HonestSelect ==
    ASSUME HonestSoFar, NEW c \in Callers, NEW miss \in Misses, Select(c, miss)
    PROVE  HonestInv'
<1>1. PICK s, k, ok, f : /\ s = caller[c] /\ k = Len(s.results) + 1 /\ ok = Ok(miss)
                         /\ f = FoldResult(s.plan, k, s.records, ok)
  OBVIOUS
<1>2. s.at = "select" /\ InFold(s) /\ published' \subseteq published
  BY <1>1 DEF Select, InFold
<1>3. CallerFits(s) /\ ResearchInv /\ BudgetFits /\ ScoresFit /\ Later
  BY <1>1, HonestStanding DEF HonestSoFar, ResearchInv
<1>4. FoldDone(c, f)
  BY <1>1 DEF Select
<1>5. CASE miss = {}
  <2>1. PICK n : Shape(s.plan, k, n)
    BY <1>1, <1>2, <1>3, FoldIs
  <2>2. ok = artifacts \ damaged /\ ok \subseteq artifacts
    BY <1>1, <1>5 DEF Ok
  <2>3. FoldFits(s.plan, k, f)
    BY <1>1, <1>2, <1>3, <2>2, SelectsSettled
  <2>4. f.records = s.records
    BY <1>1, Zenon DEF FoldResult, FailedFold
  <2>5. f = FoldResult(s.plan, k, f.records, artifacts \ damaged)
    BY <1>1, <2>2, <2>4
  <2>6. Honest(s.plan, k, f)
    BY <1>3, <2>1, <2>3, <2>5, HonestIs
  <2>7. Honest(s.plan, k, f)'
    BY <1>3, <2>1, <2>3, <2>6, HonestStays DEF Later
  <2>8. Honest(s.plan, Len(s.results) + 1, f)'
    BY <1>1, <2>7
  <2> QED BY <1>1, <1>2, <1>4, <2>8, HonestFold
<1>6. CASE miss # {}
  <2>1. budget'.faults <= 1
    BY <1>6, MissFaults DEF Select
  <2> QED BY <1>1, <1>2, <1>4, <2>1, HonestFold
<1> QED BY <1>5, <1>6

\* Folds that come out again with nothing missed are honest.
LEMMA MeaningfulIsHonest ==
    ASSUME HonestSoFar, NEW d, WalkFits(d), d.kind = "walk", NEW miss, miss = {},
           Meaningful(d, Ok(miss))
    PROVE  AllHonest(d.plan, d.folds) /\ AllHonest(d.plan, d.folds)'
<1>1. BudgetFits /\ ScoresFit /\ Later
  BY DEF HonestSoFar, ResearchInv
<1>2. PICK q, results, l : q = d.plan /\ results = d.folds /\ l = Len(results)
  OBVIOUS
<1>3. FoldsSettled(q, results) /\ l = PlanOf(q).foldCount /\ l \in Nat
  <2>1. FoldsSettled(q, results) /\ l = PlanOf(q).foldCount
    BY <1>2 DEF WalkFits
  <2>2. results \in Seq(Range(results))
    BY <2>1 DEF FoldsSettled, IsSequence
  <2>3. Len(results) \in Nat
    BY <2>2
  <2> QED BY <1>2, <2>1, <2>3
<1>4. Len(results) <= PlanOf(q).foldCount
  BY <1>2, <1>3
<1>5. Ok(miss) = artifacts \ damaged
  BY DEF Ok
<1>6. Reproduced(q, results, artifacts \ damaged)
  BY <1>2, <1>5 DEF Meaningful
<1>7. AllHonest(q, results)
  BY <1>1, <1>3, <1>4, <1>6, ReproducedIs
<1>8. AllHonest(d.plan, d.folds)
  BY <1>2, <1>7
<1> QED BY <1>1, <1>8, WalksStay

\* The first of the two validations: of folds that are not honest, it is the
\* one whose verification may still fail.
LEMMA HonestBuild ==
    ASSUME HonestSoFar, NEW c \in Callers, NEW miss \in Misses, BuildManifest(c, miss)
    PROVE  HonestInv'
<1>1. PICK s, d, t : /\ s = caller[c] /\ d = WalkDoc(s.plan, s.results)
                     /\ t = IF Meaningful(d, Ok(miss)) THEN WithDoc(IdleCaller, d) ELSE IdleCaller
  OBVIOUS
<1>2. s.at = "folds" /\ published' \subseteq published
  BY <1>1 DEF BuildManifest
<1>3. CallerFits(s) /\ CallerHonest(s)' /\ Later
  BY <1>1, HonestStanding DEF HonestSoFar
<1>4. caller' = [caller EXCEPT ![c] = t]
  BY <1>1 DEF BuildManifest, Becomes, WithDoc
<1>5. WalkFits(d) /\ d.kind = "walk" /\ d.plan = s.plan /\ d.folds = s.results
  BY <1>1, <1>2, <1>3, WalkDocFits DEF WalkDoc
<1>6. CASE Meaningful(d, Ok(miss))
  <2>1. PICK i : i = IdleCaller
    OBVIOUS
  <2>2. t = WithDoc(i, d) /\ CallerFits(i)
    BY <1>1, <1>6, <2>1, IdleFits
  <2>3. t.at = "publish" /\ t.doc = d
    BY <2>2, DocFields
  <2>4. ~InFold(t) /\ t.at # "folds" /\ t.at # "renamed"
    BY <1>5, <2>3 DEF InFold
  <2>5. AllHonest(d.plan, d.folds)' \/ budget'.faults <= 0
    <3>1. CASE miss = {}
      BY <1>5, <1>6, <3>1, MeaningfulIsHonest
    <3>2. CASE miss # {}
      <4>1. budget'.faults = budget.faults - 1 /\ budget.faults \in Nat
        BY <3>2, MissFaults DEF BuildManifest
      <4>2. AllHonest(s.plan, s.results) \/ budget.faults <= 1
        BY <1>1, <1>2, HonestStanding DEF HonestSoFar, CallerHonest
      <4>3. CASE AllHonest(s.plan, s.results)
        <5>1. AllHonest(d.plan, d.folds)
          BY <1>5, <4>3
        <5> QED BY <1>5, <5>1, WalksStay DEF HonestSoFar, ResearchInv
      <4>4. CASE budget.faults <= 1
        BY <4>1, <4>4
      <4> QED BY <4>2, <4>3, <4>4
    <3> QED BY <3>1, <3>2
  <2>6. CallerHonest(t)'
    BY <2>3, <2>4, <2>5 DEF CallerHonest
  <2> QED BY <1>2, <1>4, <2>6, HonestAlone
<1>7. CASE ~Meaningful(d, Ok(miss))
  <2>1. t = IdleCaller
    BY <1>1, <1>7
  <2> QED BY <1>2, <1>4, <2>1, IdleIsHonest, HonestAlone
<1> QED BY <1>6, <1>7

LEMMA HonestAnalyze ==
    ASSUME HonestSoFar, NEW c \in Callers, NEW d \in published, NEW policy \in Policies,
           Analyze(c, d, policy)
    PROVE  HonestInv'
<1>1. PICK r, i, t : r = ReportDoc(d, policy) /\ i = IdleCaller /\ t = WithDoc(i, r)
  OBVIOUS
<1>2. CallerFits(i)
  BY <1>1, IdleFits
<1>3. t.at = "publish" /\ t.doc = r
  BY <1>1, <1>2, DocFields
<1>4. r.kind = "report"
  BY <1>1 DEF ReportDoc
<1>5. ~InFold(t) /\ t.at # "folds" /\ t.doc.kind # "walk"
  BY <1>3, <1>4 DEF InFold
<1>6. CallerHonest(t)'
  BY <1>5, NothingAtHand
<1>7. caller' = [caller EXCEPT ![c] = t] /\ published' \subseteq published
  BY <1>1 DEF Analyze, Becomes, WithDoc
<1> QED BY <1>6, <1>7, HonestAlone

\* A caller whose document is published, or is not.
LEMMA HonestDone ==
    ASSUME HonestSoFar, NEW c \in Callers, caller[c].at \in Publishing, Done(c),
           published' \subseteq published
    PROVE  HonestInv'
<1>1. PICK s, t : s = caller[c] /\ t = IF s.doc.kind = "experiment" THEN Selecting(s) ELSE IdleCaller
  OBVIOUS
<1>2. CallerFits(s) /\ CallerHonest(s)'
  BY <1>1, HonestStanding DEF HonestSoFar
<1>3. caller' = [caller EXCEPT ![c] = t]
  BY <1>1 DEF Done, Becomes, Selecting
<1>4. CASE s.doc.kind = "experiment"
  <2>1. InFold(s)
    BY <1>1, <1>4 DEF InFold
  <2>2. t.at = "select" /\ t.plan = s.plan /\ t.results = s.results
    <3>1. t = Selecting(s)
      BY <1>1, <1>4
    <3> QED BY <1>2, <3>1, SelectingFields
  <2>3. CallerHonest(t)'
    <3>1. t.at \notin Publishing
      BY <2>2 DEF Publishing
    <3> QED BY <1>2, <2>1, <2>2, <3>1, Keeping
  <2> QED BY <1>3, <2>3, HonestAlone
<1>5. CASE s.doc.kind # "experiment"
  <2>1. t = IdleCaller
    BY <1>1, <1>5
  <2> QED BY <1>3, <2>1, IdleIsHonest, HonestAlone
<1> QED BY <1>4, <1>5

LEMMA HonestFailed ==
    ASSUME HonestSoFar, NEW c \in Callers, caller[c].at \in Publishing, Failed(c),
           published' \subseteq published
    PROVE  HonestInv'
<1>1. PICK s : s = caller[c]
  OBVIOUS
<1>2. CASE s.doc.kind = "experiment"
  <2>1. PICK f : f = FailedFold("FAILED_EXECUTION", "publication", None, None)
    OBVIOUS
  <2>2. FoldDone(c, f)
    BY <1>1, <1>2, <2>1 DEF Failed
  <2>3. InFold(s)
    BY <1>1, <1>2 DEF InFold
  <2>4. f.status = "FAILED_EXECUTION"
    BY <2>1 DEF FailedFold
  <2> QED BY <1>1, <2>2, <2>3, <2>4, HonestFold
<1>3. CASE s.doc.kind # "experiment"
  <2>1. PICK t : t = IdleCaller
    OBVIOUS
  <2>2. caller' = [caller EXCEPT ![c] = t]
    BY <1>1, <1>3, <2>1 DEF Failed, Becomes
  <2> QED BY <2>1, <2>2, IdleIsHonest, HonestAlone
<1> QED BY <1>2, <1>3

LEMMA HonestStaging ==
    ASSUME HonestSoFar, NEW c \in Callers, caller[c].at = "publish",
           Becomes(c, [caller[c] EXCEPT !.at = "staging"]), published' \subseteq published
    PROVE  HonestInv'
<1>1. PICK s, t : s = caller[c] /\ t = WithPlace(s, "staging")
  OBVIOUS
<1>2. CallerFits(s) /\ CallerHonest(s)' /\ s.at = "publish"
  BY <1>1, HonestStanding DEF HonestSoFar
<1>3. t.at = "staging" /\ t.plan = s.plan /\ t.results = s.results /\ t.doc = s.doc
  BY <1>1, <1>2, PlaceFields
<1>4. InFold(t) = InFold(s) /\ t.at # "folds" /\ s.at \in Publishing /\ t.at # "renamed"
  BY <1>2, <1>3 DEF InFold, Publishing
<1>5. CallerHonest(t)'
  BY <1>2, <1>3, <1>4 DEF CallerHonest
<1>6. caller' = [caller EXCEPT ![c] = t]
  BY <1>1 DEF Becomes, WithPlace
<1> QED BY <1>5, <1>6, HonestAlone

LEMMA HonestPublishing ==
    ASSUME HonestSoFar, NEW c \in Callers,
           LockIsBusy(c) \/ \E miss \in Misses : Enter(c, miss) \/ Confirm(c, miss)
    PROVE  HonestInv'
<1>1. CASE LockIsBusy(c)
  <2>1. caller[c].at \in Publishing /\ Failed(c) /\ published' \subseteq published
    BY <1>1 DEF LockIsBusy, Publishing
  <2> QED BY <2>1, HonestFailed
<1>2. ASSUME NEW miss \in Misses, Enter(c, miss)
      PROVE  HonestInv'
  <2>1. caller[c].at = "publish" /\ caller[c].at \in Publishing /\ published' \subseteq published
    BY <1>2 DEF Enter, Publishing
  <2>2. Becomes(c, [caller[c] EXCEPT !.at = "staging"]) \/ Done(c) \/ Failed(c)
    BY <1>2, Zenon DEF Enter
  <2> QED BY <2>1, <2>2, HonestStaging, HonestDone, HonestFailed
<1>3. ASSUME NEW miss \in Misses, Confirm(c, miss)
      PROVE  HonestInv'
  <2>1. caller[c].at \in Publishing /\ published' \subseteq published
    BY <1>3 DEF Confirm, Publishing
  <2>2. Done(c) \/ Failed(c)
    BY <1>3, Zenon DEF Confirm
  <2> QED BY <2>1, <2>2, HonestDone, HonestFailed
<1> QED BY <1>1, <1>2, <1>3

\* The second validation: folds that are not honest do not pass it.
LEMMA HonestRename ==
    ASSUME HonestSoFar, NEW c \in Callers, NEW miss \in Misses, Rename(c, miss)
    PROVE  HonestInv'
<1>1. PICK s, d, t : s = caller[c] /\ d = s.doc /\ t = WithPlace(s, "renamed")
  OBVIOUS
<1>2. CallerFits(s) /\ CallerHonest(s) /\ CallerHonest(s)' /\ s.at = "staging" /\ s.at \in Publishing
  BY <1>1, HonestStanding DEF HonestSoFar, Rename, Publishing
<1>3. CASE /\ Meaningful(d, Ok(miss)) /\ published' = published \cup {d}
           /\ Becomes(c, [caller[c] EXCEPT !.at = "renamed"])
  <2>1. caller' = [caller EXCEPT ![c] = t]
    BY <1>1, <1>3 DEF Becomes, WithPlace
  <2>2. t.at = "renamed" /\ t.plan = s.plan /\ t.results = s.results /\ t.doc = d
    BY <1>1, <1>2, PlaceFields
  <2>3. d.kind = "walk" => AllHonest(d.plan, d.folds)'
    <3> SUFFICES ASSUME d.kind = "walk" PROVE AllHonest(d.plan, d.folds)'
      OBVIOUS
    <3>1. WalkFits(d)
      BY <1>1, <1>2 DEF CallerFits
    <3>2. AllHonest(d.plan, d.folds) \/ budget.faults <= 0
      BY <1>1, <1>2 DEF CallerHonest
    <3>3. CASE AllHonest(d.plan, d.folds)
      BY <3>1, <3>3, WalksStay DEF HonestSoFar, ResearchInv
    <3>4. CASE budget.faults <= 0
      <4>1. miss = {}
        BY <3>4, MissFaults DEF Rename
      <4> QED BY <1>3, <3>1, <4>1, MeaningfulIsHonest
    <3> QED BY <3>2, <3>3, <3>4
  <2>4. InFold(t) => InFold(s)
    BY <1>1, <1>2, <2>2 DEF InFold, Publishing
  <2>5. CallerHonest(t)'
    BY <1>2, <2>2, <2>3, <2>4 DEF CallerHonest
  <2>6. \A x \in published' : x.kind = "walk" => x \in published \/ AllHonest(x.plan, x.folds)'
    <3>1. ASSUME NEW x \in published', x.kind = "walk", x \notin published
          PROVE  AllHonest(x.plan, x.folds)'
      <4>1. x = d
        BY <1>3, <3>1
      <4> QED BY <2>3, <3>1, <4>1
    <3> QED BY <3>1
  <2> QED BY <2>1, <2>5, <2>6, HonestlyMoved DEF HonestSoFar
<1>4. CASE Failed(c) /\ published' = published
  BY <1>1, <1>2, <1>4, HonestFailed
<1> QED BY <1>1, <1>3, <1>4, Zenon DEF Rename

\* Without a caller that moves, and with nothing published.
LEMMA HonestStill ==
    ASSUME HonestSoFar, UNCHANGED <<caller, published>>
    PROVE  HonestInv'
<1>1. ASSUME NEW a \in Callers
      PROVE  CallerHonest(caller[a])'
  <2>1. PICK s : s = caller[a]
    OBVIOUS
  <2>2. CallerHonest(s)'
    BY <2>1, HonestStanding DEF HonestSoFar
  <2>3. caller'[a] = s
    BY <2>1
  <2> QED BY <2>2, <2>3
<1>2. ASSUME NEW d \in published', d.kind = "walk"
      PROVE  AllHonest(d.plan, d.folds)'
  <2>1. d \in published /\ WalksAreHonest
    BY DEF HonestSoFar, HonestInv, WalksAreHonest
  <2> QED BY <1>2, <2>1, PublishedStaysHonest DEF HonestSoFar
<1>3. budget'.faults <= 2
  BY DEF HonestSoFar, HonestInv, Later
<1> QED BY <1>1, <1>2, <1>3 DEF HonestInv

LEMMA HonestSteps ==
    ASSUME ResearchInv, HonestInv, [ResearchNext]_researchVars
    PROVE  HonestInv'
<1>1. HonestSoFar
  BY StepsLater DEF HonestSoFar
<1>2. CASE UNCHANGED researchVars
  <2>1. UNCHANGED <<caller, published>>
    BY <1>2 DEF researchVars
  <2> QED BY <1>1, <2>1, HonestStill
<1>3. CASE ResearchNext
  <2>1. CASE \E c \in Callers : (\E q \in Drafts : Plan(c, q)) \/ Begin(c) \/ Kill(c)
    BY <1>1, <2>1, HonestStarts
  <2>2. CASE \E c \in Callers : Run(c) \/ \E miss \in Misses : ReuseRun(c, miss) \/ PublishRun(c, miss)
    BY <1>1, <2>2, HonestRuns
  <2>3. CASE \E c \in Callers : \E miss \in Misses :
               FinishExperiment(c, miss) \/ Select(c, miss) \/ BuildManifest(c, miss)
    BY <1>1, <2>3, HonestFinish, HonestSelect, HonestBuild
  <2>4. CASE \E c \in Callers : LockIsBusy(c) \/ \E miss \in Misses : Enter(c, miss) \/ Confirm(c, miss)
    BY <1>1, <2>4, HonestPublishing
  <2>5. CASE \E c \in Callers : \E miss \in Misses : Rename(c, miss)
    BY <1>1, <2>5, HonestRename
  <2>6. CASE \E c \in Callers : \E d \in published, policy \in Policies : Analyze(c, d, policy)
    BY <1>1, <2>6, HonestAnalyze
  <2>7. CASE (\E r \in artifacts : DamageRun(r)) \/ (\E d \in published : SpoilDocument(d))
    <3>1. UNCHANGED <<caller, published>>
      BY <2>7 DEF DamageRun, SpoilDocument
    <3> QED BY <1>1, <3>1, HonestStill
  <2> QED BY <1>3, <2>1, <2>2, <2>3, <2>4, <2>5, <2>6, <2>7, Zenon DEF ResearchNext
<1> QED BY <1>2, <1>3

\* What HoldoutOfBest says of one fold.
OfBest(q, k, f) ==
    LET outcome(c, role) == scores[SpecOf(q, k, c, role).run]
    IN  /\ f.score = outcome(f.winner, "VALIDATION") /\ f.holdout = outcome(f.winner, "TEST")
        /\ \A c \in Candidates(q) \ {f.winner} :
             \/ ~Successful(RecordOf(f.records, c, "TRAIN"))
             \/ ~Successful(RecordOf(f.records, c, "VALIDATION"))
             \/ {SpecOf(q, k, c, r).run : r \in {"TRAIN", "VALIDATION"}} \cap damaged # {}
             \/ outcome(c, "VALIDATION") = None
             \/ Better(f.score, outcome(c, "VALIDATION"), PlanOf(q).direction)
             \/ outcome(c, "VALIDATION") = f.score /\ f.winner < c

\* A candidate whose evidence a selection finds is judged by its outcome.
LEMMA JudgedByOutcome ==
    ASSUME NEW q, NEW k, NEW records, NEW a, NEW c \in Candidates(q),
           NEW e, e = Evidence(q, k, records, a)
    PROVE  /\ e[c].score # None => e[c].score = scores[SpecOf(q, k, c, "VALIDATION").run]
           /\ /\ Reference(q, k, records, c, "TRAIN", a) = "verified"
              /\ Reference(q, k, records, c, "VALIDATION", a) = "verified"
              => e[c].score = scores[SpecOf(q, k, c, "VALIDATION").run]
<1>1. PICK train, validation, x :
        /\ train = Reference(q, k, records, c, "TRAIN", a)
        /\ validation = Reference(q, k, records, c, "VALIDATION", a)
        /\ x = scores[SpecOf(q, k, c, "VALIDATION").run]
  OBVIOUS
<1>2. e[c] = [train |-> train, validation |-> validation,
              score |-> IF train = "verified" /\ validation = "verified" THEN x ELSE None]
  BY <1>1 DEF Evidence
<1> QED BY <1>1, <1>2

\* An honest fold that was completed has the holdout of its best candidate.
LEMMA BestIsHeldOut ==
    ASSUME ScoresFit, NEW q, NEW k, NEW n, Shape(q, k, n), NEW f, FoldFits(q, k, f),
           Honest(q, k, f), f.status = "COMPLETED"
    PROVE  OfBest(q, k, f)
<1>1. PICK records, direction : records = f.records /\ direction = PlanOf(q).direction
  OBVIOUS
<1>2. Complete(q, k, records)
  BY <1>1 DEF FoldFits
<1>3. PICK m \in SUBSET damaged : f = FoldResult(q, k, records, artifacts \ m)
  BY <1>1 DEF Honest
<1>4. PICK a, e, w, h : /\ a = artifacts \ m
                        /\ e = Evidence(q, k, records, a)
                        /\ w = Winner(e, direction)
                        /\ h = Holdout(q, k, records, w, a)
  OBVIOUS
<1>5. f = FoldResult(q, k, records, a) /\ a \subseteq artifacts
  BY <1>3, <1>4
<1>6. n \in 1..MostCombinations /\ n \in Nat /\ Candidates(q) = 0..(n - 1)
  BY DEF Shape, Candidates
<1>7. Judged(e, n)
  <2>1. ASSUME NEW c \in 0..(n - 1), Reference(q, k, records, c, "VALIDATION", a) = "verified"
        PROVE  Scored(SpecOf(q, k, c, "VALIDATION").run)
    BY <2>1, <1>5, OkScored DEF Reference
  <2> QED BY <2>1, <1>4, EvidenceIs
<1>8. Eligible(e) # {}
  <2> SUFFICES ASSUME Eligible(e) = {} PROVE FALSE
    OBVIOUS
  <2>1. f = FailedFold("FAILED_NO_ELIGIBLE_CANDIDATE", "no_candidate", records, e)
    BY <1>4, <1>5 DEF FoldResult
  <2> QED BY <2>1 DEF FailedFold
<1>9. PICK x, y : x = SpecOf(q, k, w, "TEST").combination.parameters
                  /\ y = scores[SpecOf(q, k, w, "TEST").run]
  OBVIOUS
<1>10. f = [status |-> IF h = "held" THEN "COMPLETED" ELSE "FAILED_HOLDOUT",
            failure |-> IF h = "held" THEN None ELSE h,
            records |-> records, evidence |-> e, winner |-> w, parameters |-> x,
            score |-> e[w].score, holdout |-> IF h = "held" THEN y ELSE None]
  BY <1>1, <1>4, <1>5, <1>8, <1>9, Zenon DEF FoldResult
<1>11. f.winner = w /\ f.score = e[w].score /\ f.holdout = y
  BY <1>10
<1>12. IsBest(e, w, direction)
  <2>1. IsBest(e, Winner(e, direction), direction)
    BY <1>6, <1>7, <1>8, WinnerIs
  <2>2. w = Winner(e, direction)
    BY <1>4
  <2> QED BY <2>1, <2>2
<1>13. w \in Candidates(q) /\ e[w].score # None
  BY <1>6, <1>7, <1>12 DEF Eligible, Judged, IsBest
<1>14. e[w].score = scores[SpecOf(q, k, w, "VALIDATION").run]
  BY <1>4, <1>13, JudgedByOutcome
<1>15. ASSUME NEW c \in Candidates(q) \ {w},
              Successful(RecordOf(records, c, "TRAIN")), Successful(RecordOf(records, c, "VALIDATION")),
              {SpecOf(q, k, c, r).run : r \in {"TRAIN", "VALIDATION"}} \cap damaged = {},
              scores[SpecOf(q, k, c, "VALIDATION").run] # None
       PROVE  LET o == scores[SpecOf(q, k, c, "VALIDATION").run]
              IN  Better(f.score, o, direction) \/ (o = f.score /\ f.winner < c)
  <2>1. ASSUME NEW role \in {"TRAIN", "VALIDATION"}
        PROVE  Reference(q, k, records, c, role, a) = "verified"
    <3>1. PICK g \in DOMAIN records : /\ RecordOf(records, c, role) = records[g]
                                      /\ SpecOf(q, k, c, role) = Specs(q, k)[g]
      BY <1>2, <1>6, RunsVerified
    <3>2. Successful(records[g])
      BY <1>15, <3>1
    <3>3. SpecOf(q, k, c, role).run \in artifacts
      BY <1>2, <3>1, <3>2 DEF Complete, RecordsFit, RecordsHold
    <3>4. SpecOf(q, k, c, role).run \notin damaged
      BY <1>15
    <3>5. SpecOf(q, k, c, role).run \in a
      BY <1>4, <3>3, <3>4
    <3> QED BY <3>1, <3>2, <3>5 DEF Reference
  <2>2. e[c].score = scores[SpecOf(q, k, c, "VALIDATION").run]
    BY <1>4, <2>1, JudgedByOutcome
  <2>3. c \in Eligible(e) \ {w}
    <3>1. DOMAIN e = 0..(n - 1)
      BY <1>7 DEF Judged
    <3> QED BY <1>6, <1>15, <2>2, <3>1 DEF Eligible
  <2> QED BY <1>11, <1>12, <2>2, <2>3 DEF IsBest
<1> QED BY <1>1, <1>9, <1>11, <1>14, <1>15 DEF OfBest

\* Fewer verifications fail than it takes to believe what three of them say.
FewMisses == \A b \in Budgets : b.faults <= 2

\* Whatever is executed, by any number of callers, and whichever files are
\* damaged: if no more than two verifications fail, what is published of a fold
\* comes out the same when it is selected again from intact artifacts, and its
\* holdout is that of the candidate no other one with intact artifacts improves on.
THEOREM PublishedComesOutAgain == FewMisses => (ResearchSpec => []PublishedIsSound)
<1> SUFFICES ASSUME FewMisses PROVE ResearchSpec => []PublishedIsSound
  OBVIOUS
<1>1. ResearchInit => ResearchInv /\ HonestInv
  <2> SUFFICES ASSUME ResearchInit PROVE HonestInv
    BY ResearchStarts
  <2>1. budget.faults <= 2 /\ published = {}
    BY DEF ResearchInit, FewMisses
  <2>2. ASSUME NEW c \in Callers
        PROVE  CallerHonest(caller[c])
    <3>1. caller[c] = IdleCaller
      BY DEF ResearchInit
    <3>2. caller[c].at = "idle"
      BY <3>1 DEF IdleCaller
    <3> QED BY <3>2 DEF CallerHonest, InFold, Publishing
  <2> QED BY <2>1, <2>2 DEF HonestInv
<1>2. ResearchInv /\ HonestInv /\ [ResearchNext]_researchVars => ResearchInv' /\ HonestInv'
  BY ResearchSteps, HonestSteps
<1>3. ResearchInv /\ HonestInv => StoredIsReproducible
  <2> SUFFICES ASSUME ResearchInv, HonestInv, NEW d \in published, d.kind = "walk",
                      ~ \E k \in DOMAIN d.folds : \E x \in Range(Specs(d.plan, k)) : x.run \in damaged
               PROVE  Reproduced(d.plan, d.folds, artifacts \ damaged)
    BY DEF StoredIsReproducible
  <2>1. BudgetFits /\ ScoresFit /\ WalkFits(d) /\ AllHonest(d.plan, d.folds)
    BY DEF ResearchInv, PublishedFit, HonestInv
  <2>2. PICK q, results, l : q = d.plan /\ results = d.folds /\ l = Len(results)
    OBVIOUS
  <2>3. FoldsSettled(q, results) /\ l = PlanOf(q).foldCount
    BY <2>1, <2>2 DEF WalkFits
  <2>4. l \in Nat
    <3>1. results \in Seq(Range(results))
      BY <2>3 DEF FoldsSettled, IsSequence
    <3>2. Len(results) \in Nat
      BY <3>1
    <3> QED BY <2>2, <3>2
  <2>5. Len(results) <= PlanOf(q).foldCount
    BY <2>2, <2>3, <2>4
  <2>6. AllHonest(q, results) /\ \A k \in DOMAIN results : Intact(q, k)
    BY <2>1, <2>2 DEF Intact
  <2>7. Reproduced(q, results, artifacts \ damaged)
    BY <2>1, <2>3, <2>5, <2>6, ReproducedIs
  <2> QED BY <2>2, <2>7
<1>4. ResearchInv /\ HonestInv => HoldoutOfBest
  <2> SUFFICES ASSUME ResearchInv, HonestInv, NEW d \in published, d.kind = "walk",
                      NEW k \in DOMAIN d.folds, d.folds[k].status = "COMPLETED"
               PROVE  OfBest(d.plan, k, d.folds[k])
    BY Zenon DEF HoldoutOfBest, OfBest
  <2>1. BudgetFits /\ ScoresFit /\ WalkFits(d) /\ AllHonest(d.plan, d.folds)
    BY DEF ResearchInv, PublishedFit, HonestInv
  <2>2. PICK q, results, l : q = d.plan /\ results = d.folds /\ l = Len(results)
    OBVIOUS
  <2>3. FoldsSettled(q, results) /\ l = PlanOf(q).foldCount
    BY <2>1, <2>2 DEF WalkFits
  <2>4. l \in Nat
    <3>1. results \in Seq(Range(results))
      BY <2>3 DEF FoldsSettled, IsSequence
    <3>2. Len(results) \in Nat
      BY <3>1
    <3> QED BY <2>2, <3>2
  <2>5. Len(results) <= PlanOf(q).foldCount /\ k \in DOMAIN results
    BY <2>2, <2>3, <2>4
  <2>6. PICK f : f = results[k]
    OBVIOUS
  <2>7. FoldFits(q, k, f) /\ \E n : Shape(q, k, n)
    BY <2>1, <2>3, <2>5, <2>6, FoldsAre
  <2>8. Honest(q, k, f) /\ f.status = "COMPLETED"
    BY <2>1, <2>2, <2>5, <2>6 DEF AllHonest
  <2>9. OfBest(q, k, f)
    BY <2>1, <2>7, <2>8, BestIsHeldOut
  <2> QED BY <2>2, <2>6, <2>9
<1>5. ResearchInv /\ HonestInv => PublishedIsSound
  BY <1>3, <1>4 DEF PublishedIsSound
<1> QED BY <1>1, <1>2, <1>5, PTL DEF ResearchSpec
=============================================================================
