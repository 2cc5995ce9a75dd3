------------------------- MODULE PaperRunWorkersProofs -------------------------
(***************************************************************************)
(* ClaimsHold and OneCycleAfterRevocation are invariants of                *)
(* PaperRunWorkers and every step of it is one of the contract             *)
(* FencedEpochs, for any epochs, workers and bounds.                       *)
(*                                                                         *)
(* The steps of a worker are of two shapes: SessionMove, which reads, and  *)
(* RowMove, which commits one of the domain's transformations.  Each       *)
(* action is shown to be one of them; invariants and contract are then a   *)
(* matter of the shapes.                                                   *)
(***************************************************************************)
EXTENDS PaperRunWorkers, TLAPS

-----------------------------------------------------------------------------
(* The inductive invariant *)

Critical == {"lock", "cycling"}
Looping == {"loop1", "loop2", "own"}
\* Past the first reading of eligibility that the next cycle rests on.
Admitted == {"loop2", "own", "lock"}
Pausing == {"pause", "pause!"}
Retried == {"starting!", "running!", "pause!", "stopping!", "stop!", "fail!"}

\* The session s of w has the claim of the row r; or it was taken over.
OwnedBy(w, s, r) == r.owner = w /\ r.fence = s.fence
ClaimOrFenced(w, s, r) == OwnedBy(w, s, r) \/ r.fence > s.fence

\* What a session may rely on in the row r of its epoch.  The branch of a cycle
\* for an epoch that does not run yet is never taken: whoever loops under its
\* own claim finds the epoch running, and nobody finds its own claim resumed.
Fits(w, s, r) ==
    /\ s.pc # "idle" => r.observed # "ABSENT"
    /\ s.pc = "settle" /\ s.fresh => /\ r.owner = NoOwner /\ r.desired # "RUNNING"
                                     /\ r.observed \notin TERMINAL
    /\ s.pc \in Retried => s.tries < Attempts
    /\ s.from # "cycle"
    /\ s.pc \in Pausing /\ OwnedBy(w, s, r) => r.desired # "RUNNING"
    /\ s.pc \in Looping /\ OwnedBy(w, s, r) => r.observed = "RUNNING"
    /\ s.pc \in Critical => ClaimOrFenced(w, s, r)

\* n cycles were begun since the authority was lost: after one, no other is
\* admitted.
LateFits(s, n) == /\ n \in {0, 1}
                  /\ authority => n = 0
                  /\ n = 1 => s.pc \notin Admitted

IInv == TypeOK /\ \A w \in Workers : Fits(w, wk[w], R(w)) /\ LateFits(wk[w], late[w])

-----------------------------------------------------------------------------
(* Rows *)

\* The transformations a worker commits, by the state it read.
Transforms(r, w, t) ==
    \/ MayClaim(r) /\ t = Claimed(r, w)
    \/ MayRecover(r) /\ t = Recovered(r, w)
    \/ /\ r.owner = NoOwner /\ r.desired # "RUNNING"
       /\ r.observed \notin TERMINAL \cup {"ABSENT"}
       /\ t = SettledUnclaimed(r)
    \/ /\ r.owner = w /\ ~r.expired
       /\ \/ MayStarting(r) /\ t = InState(r, "STARTING")
          \/ MayRunning(r) /\ t = InState(r, "RUNNING")
          \/ MayStopping(r) /\ t = InState(r, "STOPPING")
          \/ MayPause(r) /\ t = Released(r, "PAUSED")
          \/ MayStop(r) /\ t = Released(r, "STOPPED")
          \/ t = Released(r, "FAILED")

\* An unclaimed live row is PENDING or PAUSED.
LEMMA UnclaimedGraph ==
    ASSUME NEW r \in Rows, WellFormed(r), r.observed \notin TERMINAL \cup {"ABSENT"},
           r.owner = NoOwner, r.desired # "RUNNING"
    PROVE  /\ r.observed \in {"PENDING", "PAUSED"}
           /\ r.desired \in {"PAUSED", "STOPPED"}
  BY DEF Rows, WellFormed, ClaimRequired, ObservedState, TERMINAL, DesiredState

\* What a claim, a recovery, a change of state and a release write, field by
\* field.
LEMMA ClaimedFields ==
    ASSUME NEW r \in Rows, NEW w \in Workers, NEW t, t = Claimed(r, w)
    PROVE  /\ t \in Rows
           /\ t.desired = r.desired /\ t.observed = "STARTING" /\ t.owner = w
           /\ t.fence = r.fence + 1 /\ t.expired = r.expired
  <1>1. r.fence \in Nat /\ r.fence + 1 \in Nat
    BY DEF Rows
  <1> QED
    BY <1>1 DEF Claimed, Rows, ObservedState, ClaimRequired

LEMMA RecoveredFields ==
    ASSUME NEW r \in Rows, NEW w \in Workers, NEW t, t = Recovered(r, w)
    PROVE  /\ t \in Rows
           /\ t.desired = r.desired /\ t.observed = "RECOVERING" /\ t.owner = w
           /\ t.fence = r.fence + 1 /\ ~t.expired
  <1>1. r.fence \in Nat /\ r.fence + 1 \in Nat
    BY DEF Rows
  <1> QED
    BY <1>1 DEF Recovered, Rows, ObservedState, ClaimRequired

LEMMA InStateFields ==
    ASSUME NEW r \in Rows, NEW s \in ObservedState, NEW t, t = InState(r, s)
    PROVE  /\ t \in Rows
           /\ t.desired = r.desired /\ t.observed = s /\ t.owner = r.owner
           /\ t.fence = r.fence /\ t.expired = r.expired
  BY DEF InState, Rows

LEMMA ReleasedFields ==
    ASSUME NEW r \in Rows, NEW s \in ObservedState, NEW t, t = Released(r, s)
    PROVE  /\ t \in Rows
           /\ t.desired = r.desired /\ t.observed = s /\ t.owner = NoOwner
           /\ t.fence = r.fence /\ ~t.expired
  BY DEF Released, Rows

\* A transformation gives a sound row, never an absent one; the fence never
\* falls, whoever else held the row is fenced, and nobody else holds it after.
LEMMA TransformType ==
    ASSUME NEW w \in Workers, NEW r \in Rows, WellFormed(r), NEW t, Transforms(r, w, t)
    PROVE  /\ t \in Rows /\ WellFormed(t)
           /\ t.observed # "ABSENT" /\ r.observed # "ABSENT"
           /\ t.fence >= r.fence
           /\ t.owner \in {w, NoOwner}
           /\ \A v \in Workers \ {w} : r.owner = v => t.fence > r.fence
  <1>1. /\ r.fence \in Nat /\ r.expired \in BOOLEAN
        /\ "PAUSED" \in ObservedState /\ "STOPPED" \in ObservedState
        /\ "FAILED" \in ObservedState /\ "STARTING" \in ObservedState
        /\ "RUNNING" \in ObservedState /\ "STOPPING" \in ObservedState
    BY DEF Rows, ObservedState, ClaimRequired, TERMINAL
  <1> USE WorkersAssumption
  <1>2. CASE MayClaim(r) /\ t = Claimed(r, w)
    BY <1>1, <1>2, ClaimedFields DEF MayClaim, WellFormed, ClaimRequired
  <1>3. CASE MayRecover(r) /\ t = Recovered(r, w)
    <2>1. /\ t \in Rows /\ t.desired = r.desired
          /\ t.observed = "RECOVERING" /\ t.owner = w
          /\ t.fence = r.fence + 1 /\ ~t.expired
      BY <1>3, RecoveredFields
    <2> QED BY <1>1, <1>3, <2>1 DEF MayRecover, WellFormed, ClaimRequired
  <1>4. CASE /\ r.owner = NoOwner /\ r.desired # "RUNNING"
             /\ r.observed \notin TERMINAL \cup {"ABSENT"}
             /\ t = SettledUnclaimed(r)
    <2>1. /\ r.observed \in {"PENDING", "PAUSED"}
          /\ r.desired \in {"PAUSED", "STOPPED"}
      BY <1>4, UnclaimedGraph
    <2>2. PICK v \in ObservedState : v = r.desired /\ t = InState(r, v)
      BY <1>1, <1>4, <2>1 DEF SettledUnclaimed
    <2>3. /\ t \in Rows /\ t.desired = r.desired /\ t.observed = v
          /\ t.owner = r.owner /\ t.fence = r.fence /\ t.expired = r.expired
      BY <2>2, InStateFields
    <2> QED BY <1>1, <1>4, <2>1, <2>2, <2>3 DEF WellFormed, ClaimRequired
  <1>5. CASE /\ r.owner = w /\ ~r.expired
             /\ \/ MayStarting(r) /\ t = InState(r, "STARTING")
                \/ MayRunning(r) /\ t = InState(r, "RUNNING")
                \/ MayStopping(r) /\ t = InState(r, "STOPPING")
    <2>1. PICK v \in {"STARTING", "RUNNING", "STOPPING"} :
             /\ t = InState(r, v) /\ (v = "STOPPING" => r.desired = "STOPPED")
             /\ r.observed \in ClaimRequired
      BY <1>5 DEF MayStarting, MayRunning, MayStopping, ClaimRequired
    <2>2. v \in ObservedState
      BY <1>1
    <2>3. /\ t \in Rows /\ t.desired = r.desired /\ t.observed = v
          /\ t.owner = r.owner /\ t.fence = r.fence /\ t.expired = r.expired
      BY <2>1, <2>2, InStateFields
    <2> QED BY <1>1, <1>5, <2>1, <2>3 DEF WellFormed, ClaimRequired
  <1>6. CASE /\ r.owner = w /\ ~r.expired
             /\ \/ MayPause(r) /\ t = Released(r, "PAUSED")
                \/ MayStop(r) /\ t = Released(r, "STOPPED")
                \/ t = Released(r, "FAILED")
    <2>1. PICK v \in {"PAUSED", "STOPPED", "FAILED"} :
             t = Released(r, v) /\ (v = "STOPPED" => r.desired = "STOPPED")
      BY <1>6 DEF MayPause, MayStop
    <2>2. v \in ObservedState
      BY <1>1
    <2>3. /\ t \in Rows /\ t.desired = r.desired /\ t.observed = v
          /\ t.owner = NoOwner /\ t.fence = r.fence /\ ~t.expired
      BY <2>1, <2>2, ReleasedFields
    <2> QED BY <1>1, <1>6, <2>1, <2>3 DEF WellFormed, ClaimRequired
  <1> QED BY <1>2, <1>3, <1>4, <1>5, <1>6 DEF Transforms

-----------------------------------------------------------------------------
(* The two shapes of a worker's step *)

\* The session lock after a step of w to pc: w has it exactly in the cycle.
LockFor(w, pc) == /\ lock' = IF pc = "cycling" THEN w ELSE IF lock = w THEN NoOwner ELSE lock
                  /\ pc = "cycling" => lock \in {w, NoOwner}

\* w goes on as s, rows and authority stay.
SessionMove(w, s) == /\ s \in Sessions
                     /\ row' = row
                     /\ wk' = [wk EXCEPT ![w] = s]
                     /\ LockFor(w, s.pc)
                     /\ Fits(w, s, row[s.epoch])
                     /\ LateFits(s, late'[w])
                     /\ late' \in [Workers -> Nat]
                     /\ \A v \in Workers \ {w} : late'[v] = late[v]
                     /\ authority' = authority
                     /\ commands' = commands
                     /\ faults' \in 0..MaxFaults
Moves(w) == \E s : SessionMove(w, s)

\* w, outside its cycle, commits the row t and goes on as s.
RowMove(w, s, t) == /\ s \in Sessions
                    /\ s.pc \notin Retried \cup Critical \cup Admitted \cup {"settle"}
                    /\ s.from # "cycle"
                    /\ s.pc \in Pausing => t.desired # "RUNNING"
                    /\ s.pc \in Looping => t.observed = "RUNNING"
                    /\ s.pc # "idle" => s.epoch = wk[w].epoch
                    /\ wk[w].pc # "cycling"
                    /\ Transforms(R(w), w, t)
                    /\ Written(wk[w].epoch, w, t, s)
                    /\ UNCHANGED <<authority, lock, late, bounds>>
Commits(w) == \E s, t : RowMove(w, s, t)

Acts(w) == Moves(w) \/ Commits(w)

\* What every step of a worker may start from.
LEMMA SessionType ==
    ASSUME IInv, NEW w \in Workers
    PROVE  /\ wk[w] \in Sessions /\ wk[w].epoch \in Epochs
           /\ R(w) \in Rows /\ WellFormed(R(w))
           /\ wk[w].fence \in Nat /\ R(w).fence \in Nat
           /\ wk[w].tries \in 0..Attempts
           /\ wk[w].from \in {"start", "prepare", "loop"}
           /\ wk[w].pc = "cycling" <=> lock = w
           /\ Fits(w, wk[w], R(w)) /\ LateFits(wk[w], late[w])
           /\ late \in [Workers -> Nat]
           /\ faults \in 0..MaxFaults
  <1>1. wk[w] \in Sessions /\ Fits(w, wk[w], R(w))
    BY DEF IInv, TypeOK
  <1>2. wk[w].epoch \in Epochs /\ wk[w].fence \in Nat /\ wk[w].tries \in 0..Attempts
    BY <1>1 DEF Sessions
  <1>3. R(w) \in Rows /\ WellFormed(R(w))
    BY <1>2 DEF IInv, TypeOK, R
  <1>4. R(w).fence \in Nat
    BY <1>3 DEF Rows
  <1>5. wk[w].from \in {"start", "prepare", "loop"}
    BY <1>1 DEF Sessions, Fits
  <1> QED
    BY <1>1, <1>2, <1>3, <1>4, <1>5 DEF IInv, TypeOK

\* A session that begins anew has all its attempts.
LEMMA NoTries == 0 \in 0..Attempts
  BY BoundsAssumption

LEMMA IdleFields == Idle \in Sessions /\ Idle.pc = "idle" /\ Idle.from = "loop"
  <1>1. 0 \in 0..Attempts /\ 1 \in Epochs /\ 0 \in Nat
    BY NoTries, EpochsAssumption DEF Epochs
  <1> QED BY <1>1 DEF Idle, Sessions, Points

\* Outside the cycle an untouched lock is not w's; UnlockOf gives it back.
LEMMA LockStays ==
    ASSUME IInv, NEW w \in Workers, NEW pc, pc # "cycling",
           (wk[w].pc # "cycling" /\ lock' = lock) \/ UnlockOf(w)
    PROVE  LockFor(w, pc)
  BY SessionType DEF LockFor, UnlockOf

\* Rows, authority, commands and what is left of the faults, in a step that
\* only reads.
Reads == /\ row' = row /\ authority' = authority
         /\ commands' = commands /\ faults' \in 0..MaxFaults

\* The cycles counted so far still fit a session that is not admitted by them.
LEMMA LateStays ==
    ASSUME IInv, NEW w \in Workers, late' = late, NEW s,
           s.pc \in Admitted => wk[w].pc \in Admitted \/ authority
    PROVE  /\ LateFits(s, late'[w]) /\ late' \in [Workers -> Nat]
           /\ \A v \in Workers \ {w} : late'[v] = late[v]
  BY SessionType DEF LateFits

LEMMA GotoMove ==
    ASSUME IInv, NEW w \in Workers, NEW pc \in Points \ (Retried \cup Pausing \cup {"settle"}),
           wk[w].pc # "idle",
           Goto(w, pc), Reads, LockFor(w, pc), late' = late,
           pc \in Critical => ClaimOrFenced(w, wk[w], R(w)),
           pc \in Looping /\ OwnedBy(w, wk[w], R(w)) => R(w).observed = "RUNNING",
           pc \in Admitted => wk[w].pc \in Admitted \/ authority
    PROVE  Moves(w)
  <1> DEFINE s == [wk[w] EXCEPT !.pc = pc, !.tries = 0]
  <1>1. /\ s \in Sessions /\ s.pc = pc /\ s.epoch = wk[w].epoch /\ s.fence = wk[w].fence
        /\ s.from = wk[w].from
    BY SessionType, NoTries DEF Sessions
  <1>2. wk' = [wk EXCEPT ![w] = s]
    BY DEF Goto, SetWk
  <1> HIDE DEF s
  <1>3. Fits(w, s, row[s.epoch])
    BY <1>1, SessionType DEF Fits, OwnedBy, ClaimOrFenced, R
  <1> QED
    BY <1>1, <1>2, <1>3, LateStays DEF Moves, SessionMove, Reads

LEMMA PrepareMove ==
    ASSUME IInv, NEW w \in Workers, NEW pc \in Retried, wk[w].pc # "idle",
           Prepare(w, pc), Reads, LockFor(w, pc), late' = late, ~Exhausted(w),
           pc = "pause!" => R(w).desired # "RUNNING"
    PROVE  Moves(w)
  <1> DEFINE s == [wk[w] EXCEPT !.pc = pc, !.fresh = TRUE]
  <1>0. pc \in Points
    BY DEF Retried, Points, Writes
  <1>1. /\ s \in Sessions /\ s.pc = pc /\ s.epoch = wk[w].epoch /\ s.tries = wk[w].tries
        /\ s.from = wk[w].from
    BY <1>0, SessionType DEF Sessions
  <1>2. wk' = [wk EXCEPT ![w] = s]
    BY DEF Prepare, SetWk
  <1> HIDE DEF s
  <1>3. s.tries < Attempts
    BY <1>1, SessionType, BoundsAssumption DEF Exhausted
  <1>4. Fits(w, s, row[s.epoch])
    BY <1>1, <1>3, SessionType DEF Fits, Retried, Critical, Looping, Pausing, R
  <1>5. s.pc \notin Admitted
    BY <1>1 DEF Retried, Admitted
  <1> QED
    BY <1>1, <1>2, <1>4, <1>5, LateStays DEF Moves, SessionMove, Reads

LEMMA ReturnMove ==
    ASSUME IInv, NEW w \in Workers, Return(w), Reads, LockFor(w, "idle"), late' = late
    PROVE  Moves(w)
  <1>1. Fits(w, Idle, row[Idle.epoch])
    BY IdleFields DEF Fits, Retried, Critical, Looping, Pausing
  <1>2. wk' = [wk EXCEPT ![w] = Idle]
    BY DEF Return, SetWk
  <1>3. Idle.pc \notin Admitted
    BY IdleFields DEF Admitted
  <1> QED
    BY <1>1, <1>2, <1>3, IdleFields, LateStays DEF Moves, SessionMove, Reads

LEMMA BoundaryMove ==
    ASSUME IInv, NEW w \in Workers, NEW f \in {"start", "prepare", "loop"},
           wk[w].pc \notin {"idle", "cycling"},
           ToBoundary(w, f), Reads, lock' = lock, late' = late, R(w).desired # "RUNNING"
    PROVE  Moves(w)
  <1> DEFINE pc == Boundary(R(w).desired)
             s == [wk[w] EXCEPT !.pc = pc, !.tries = 0, !.from = f]
  <1>0. pc \in {"pause", "stop"}
    BY DEF Boundary
  <1>1. wk' = [wk EXCEPT ![w] = s]
    BY DEF ToBoundary, SetWk
  <1> HIDE DEF pc
  <1>2. /\ s \in Sessions /\ s.pc = pc /\ s.epoch = wk[w].epoch /\ s.from = f
    BY <1>0, SessionType, NoTries DEF Sessions, Points
  <1> HIDE DEF s
  <1>3. Fits(w, s, row[s.epoch])
    BY <1>0, <1>2, SessionType DEF Fits, Retried, Critical, Looping, Pausing, R
  <1>4. LockFor(w, s.pc) /\ s.pc \notin Admitted
    BY <1>0, <1>2, LockStays DEF Admitted
  <1> QED
    BY <1>1, <1>2, <1>3, <1>4, LateStays DEF Moves, SessionMove, Reads

\* A write that meets another version goes back to its read, one try later.
LEMMA ConflictMove ==
    ASSUME IInv, NEW w \in Workers, NEW pc \in {"starting", "running", "pause", "stop", "fail"},
           wk[w].pc \in Retried, pc = "pause" => wk[w].pc = "pause!",
           Conflict(w, pc), Reads, lock' = lock, late' = late
    PROVE  Moves(w)
  <1> DEFINE s == [wk[w] EXCEPT !.pc = pc, !.tries = @ + 1]
  <1>1. wk[w].tries + 1 \in 0..Attempts
    BY SessionType, BoundsAssumption DEF Fits
  <1>2. /\ s \in Sessions /\ s.pc = pc /\ s.epoch = wk[w].epoch /\ s.fence = wk[w].fence
        /\ s.from = wk[w].from
    BY <1>1, SessionType DEF Sessions, Points
  <1>3. wk' = [wk EXCEPT ![w] = s]
    BY DEF Conflict, SetWk
  <1> HIDE DEF s
  <1>4. wk[w].pc # "cycling" /\ wk[w].pc # "idle"
    BY DEF Retried
  <1>5. Fits(w, s, row[s.epoch])
    BY <1>2, <1>4, SessionType DEF Fits, OwnedBy, Retried, Critical, Looping, Pausing, R
  <1>6. LockFor(w, s.pc) /\ s.pc \notin Admitted
    BY <1>2, <1>4, LockStays DEF Admitted
  <1> QED
    BY <1>2, <1>3, <1>5, <1>6, LateStays DEF Moves, SessionMove, Reads

-----------------------------------------------------------------------------
(* Every action of a worker has one of the two shapes *)

\* Where a step may always go, whatever the row is.
Plain == Points \ (Retried \cup Critical \cup Looping \cup Pausing \cup {"settle"})

\* A step of w that leaves rows, lock, authority, late and bounds and is not
\* in the cycle: its shape is that of its write of the session.
LEMMA QuietMoves ==
    ASSUME IInv, NEW w \in Workers, wk[w].pc \notin {"idle", "cycling"},
           UNCHANGED <<row, authority, lock, late, bounds>>
    PROVE  /\ Reads
           /\ \A pc \in Plain : Goto(w, pc) => Moves(w)
           /\ \A pc \in Retried : /\ Prepare(w, pc) /\ ~Exhausted(w)
                                  /\ pc = "pause!" => R(w).desired # "RUNNING"
                                  => Moves(w)
           /\ \A f \in {"start", "prepare", "loop"} :
                 ToBoundary(w, f) /\ R(w).desired # "RUNNING" => Moves(w)
           /\ Return(w) => Moves(w)
           /\ \A pc \in {"starting", "running", "pause", "stop", "fail"} :
                 /\ wk[w].pc \in Retried /\ Conflict(w, pc)
                 /\ pc = "pause" => wk[w].pc = "pause!"
                 => Moves(w)
  <1>1. Reads /\ late' = late /\ lock' = lock
    BY SessionType DEF Reads, bounds
  <1>2. \A pc : pc # "cycling" => LockFor(w, pc)
    BY LockStays
  <1>3. \A pc \in Plain : Goto(w, pc) => Moves(w)
    BY <1>1, <1>2, GotoMove DEF Plain, Critical, Looping, Admitted
  <1>4. \A pc \in Retried : /\ Prepare(w, pc) /\ ~Exhausted(w)
                            /\ pc = "pause!" => R(w).desired # "RUNNING"
                            => Moves(w)
    BY <1>1, <1>2, PrepareMove DEF Retried
  <1>5. \A f \in {"start", "prepare", "loop"} :
           ToBoundary(w, f) /\ R(w).desired # "RUNNING" => Moves(w)
    BY <1>1, BoundaryMove
  <1>6. Return(w) => Moves(w)
    BY <1>1, <1>2, ReturnMove
  <1>7. \A pc \in {"starting", "running", "pause", "stop", "fail"} :
           /\ wk[w].pc \in Retried /\ Conflict(w, pc)
           /\ pc = "pause" => wk[w].pc = "pause!"
           => Moves(w)
    BY <1>1, ConflictMove
  <1> QED
    BY <1>1, <1>3, <1>4, <1>5, <1>6, <1>7

LEMMA PlainPoints == /\ "fail" \in Plain /\ "after" \in Plain /\ "prepare2" \in Plain
                     /\ "check" \in Plain /\ "running" \in Plain
  BY DEF Plain, Points, Retried, Critical, Looping, Pausing

\* The poll takes a live epoch, with the fence of its row.
LEMMA LoadActs ==
    ASSUME IInv, NEW w \in Workers, NEW e \in Epochs, Load(w, e)
    PROVE  Acts(w)
  <1>1. row[e] \in Rows /\ row[e].fence \in Nat /\ row[e].observed \notin TERMINAL \cup {"ABSENT"}
    BY DEF IInv, TypeOK, Load, NonTerminal, Rows
  <1>2. PICK pc \in {"claim", "settle", "recover", "pause", "stop", "starting", "prepare1",
                     "loop1"},
             f \in {"start", "prepare", "loop"} :
          /\ wk' = [wk EXCEPT ![w] = [Idle EXCEPT !.pc = pc, !.epoch = e, !.fence = row[e].fence,
                                                  !.fresh = TRUE, !.from = f]]
          /\ pc = "settle" => row[e].owner = NoOwner /\ row[e].desired # "RUNNING"
          /\ pc = "pause" => row[e].desired # "RUNNING"
          /\ pc = "loop1" => row[e].observed = "RUNNING"
    BY DEF Load, SetWk, Boundary
  <1> DEFINE s == [Idle EXCEPT !.pc = pc, !.epoch = e, !.fence = row[e].fence,
                               !.fresh = TRUE, !.from = f]
  <1>3. s \in Sessions /\ s.pc = pc /\ s.epoch = e /\ s.from = f
    BY <1>1, NoTries DEF Idle, Sessions, Points, Writes
  <1>4. wk' = [wk EXCEPT ![w] = s]
    BY <1>2
  <1> HIDE DEF s
  <1>5. Fits(w, s, row[s.epoch])
    BY <1>1, <1>2, <1>3 DEF Fits, Retried, Critical, Looping, Pausing
  <1>6. wk[w].pc # "cycling" /\ Reads /\ lock' = lock /\ late' = late
    BY SessionType DEF Load, Reads, bounds
  <1>7. LockFor(w, s.pc) /\ s.pc \notin Admitted
    BY <1>3, <1>6, LockStays DEF Admitted
  <1> QED
    BY <1>3, <1>4, <1>5, <1>6, <1>7, LateStays DEF Acts, Moves, SessionMove, Reads

LEMMA ClaimActs == ASSUME IInv, NEW w \in Workers, Claim(w) PROVE Acts(w)
  <1>1. wk[w].pc \notin {"idle", "cycling"} /\ UNCHANGED <<authority, lock, late, bounds>>
    BY DEF Claim
  <1>2. CASE Goto(w, "fail") /\ UNCHANGED row
    BY <1>1, <1>2, PlainPoints, QuietMoves DEF Acts
  <1>3. CASE /\ MayClaim(R(w))
             /\ Written(wk[w].epoch, w, Claimed(R(w), w),
                        [wk[w] EXCEPT !.pc = "prepare1", !.fence = R(w).fence + 1, !.from = "prepare"])
    <2> DEFINE s == [wk[w] EXCEPT !.pc = "prepare1", !.fence = R(w).fence + 1, !.from = "prepare"]
    <2>1. R(w).fence + 1 \in Nat
      BY SessionType
    <2>2. s \in Sessions /\ s.pc = "prepare1" /\ s.epoch = wk[w].epoch /\ s.from = "prepare"
      BY <2>1, SessionType DEF Sessions, Points
    <2> HIDE DEF s
    <2>3. s.pc \notin Retried \cup Critical \cup Admitted \cup {"settle"} \cup Looping \cup Pausing
      BY <2>2 DEF Retried, Critical, Admitted, Looping, Pausing
    <2>4. Written(wk[w].epoch, w, Claimed(R(w), w), s)
      BY <1>3 DEF s
    <2>5. Transforms(R(w), w, Claimed(R(w), w))
      BY <1>3 DEF Transforms
    <2> QED BY <1>1, <2>2, <2>3, <2>4, <2>5 DEF Acts, Commits, RowMove
  <1> QED BY <1>2, <1>3 DEF Claim

LEMMA RecoverActs == ASSUME IInv, NEW w \in Workers, Recover(w) PROVE Acts(w)
  <1>1. wk[w].pc \notin {"idle", "cycling"} /\ UNCHANGED <<authority, lock, late, bounds>>
    BY DEF Recover
  <1>2. CASE Goto(w, "fail") /\ UNCHANGED row
    BY <1>1, <1>2, PlainPoints, QuietMoves DEF Acts
  <1>3. CASE /\ MayRecover(R(w))
             /\ Written(wk[w].epoch, w, Recovered(R(w), w), AfterRecover(w))
    <2>1. R(w).fence + 1 \in Nat
      BY SessionType
    <2>2. /\ AfterRecover(w) \in Sessions
          /\ AfterRecover(w).pc \in {"starting", "pause", "stop"}
          /\ AfterRecover(w).pc = "pause" => R(w).desired # "RUNNING"
          /\ AfterRecover(w).epoch = wk[w].epoch /\ AfterRecover(w).from # "cycle"
      BY <2>1, SessionType DEF AfterRecover, Boundary, Sessions, Points
    <2>3. AfterRecover(w).pc \notin Retried \cup Critical \cup Admitted \cup {"settle"} \cup Looping
      BY <2>2 DEF Retried, Critical, Admitted, Looping
    <2>4. Transforms(R(w), w, Recovered(R(w), w))
      BY <1>3 DEF Transforms
    <2>5. AfterRecover(w).pc \in Pausing => Recovered(R(w), w).desired # "RUNNING"
      BY <2>2, SessionType, RecoveredFields DEF Pausing
    <2> QED BY <1>1, <1>3, <2>2, <2>3, <2>4, <2>5 DEF Acts, Commits, RowMove
  <1> QED BY <1>2, <1>3 DEF Recover

LEMMA SettleUnclaimedActs == ASSUME IInv, NEW w \in Workers, SettleUnclaimed(w) PROVE Acts(w)
  <1>1. wk[w].pc \notin {"idle", "cycling"} /\ UNCHANGED <<authority, lock, late, bounds>>
    BY DEF SettleUnclaimed
  <1>2. CASE (Goto(w, "fail") \/ Return(w)) /\ UNCHANGED row
    BY <1>1, <1>2, PlainPoints, QuietMoves DEF Acts
  <1>3. CASE /\ wk[w].pc = "settle" /\ wk[w].fresh
             /\ Written(wk[w].epoch, w, SettledUnclaimed(R(w)), Idle)
    <2>1. Idle.pc \notin Retried \cup Critical \cup Admitted \cup {"settle"} \cup Looping \cup Pausing
      BY IdleFields DEF Retried, Critical, Admitted, Looping, Pausing
    <2>2. Transforms(R(w), w, SettledUnclaimed(R(w)))
      BY <1>3, SessionType DEF Transforms, Fits
    <2> QED BY <1>1, <1>3, <2>1, <2>2, IdleFields DEF Acts, Commits, RowMove
  <1> QED BY <1>2, <1>3 DEF SettleUnclaimed

\* A write that needs the active claim and the read version.
LEMMA WriteMarkActs ==
    ASSUME IInv, NEW w \in Workers,
           NEW read \in {"starting", "running", "pause", "stop", "fail"},
           NEW write \in Retried, read = "pause" => write = "pause!",
           NEW may, NEW r, NEW s,
           WriteMark(w, read, write, may, r, s),
           s \in Sessions, s.pc \notin Retried \cup Critical \cup Admitted \cup {"settle"} \cup Pausing,
           s.from # "cycle", s.pc \in Looping => r.observed = "RUNNING",
           s.pc # "idle" => s.epoch = wk[w].epoch,
           Held(w) /\ may => Transforms(R(w), w, r)
    PROVE  Acts(w)
  <1>1. wk[w].pc = write /\ wk[w].pc \notin {"idle", "cycling"} /\ wk[w].pc \in Retried
        /\ UNCHANGED <<authority, lock, late, bounds>>
    BY DEF WriteMark, Retried
  <1>2. CASE Return(w) /\ UNCHANGED row
    BY <1>1, <1>2, QuietMoves DEF Acts
  <1>3. CASE Conflict(w, read) /\ UNCHANGED row
    BY <1>1, <1>3, QuietMoves DEF Acts
  <1>4. CASE Held(w) /\ wk[w].fresh /\ may /\ Written(wk[w].epoch, w, r, s)
    BY <1>1, <1>4 DEF Acts, Commits, RowMove
  <1>5. CASE Goto(w, "fail") /\ UNCHANGED row
    BY <1>1, <1>5, PlainPoints, QuietMoves DEF Acts
  <1> QED
    BY <1>2, <1>3, <1>4, <1>5 DEF WriteMark

\* A session that begins anew at pc.
LEMMA SessionEdit ==
    ASSUME IInv, NEW w \in Workers, NEW pc \in Points
    PROVE  /\ Session(w, pc) \in Sessions
           /\ Session(w, pc).pc = pc /\ Session(w, pc).epoch = wk[w].epoch
           /\ Session(w, pc).fence = wk[w].fence /\ Session(w, pc).from = wk[w].from
  BY SessionType, NoTries DEF Session, Sessions

\* _mark_starting and _mark_running.
LEMMA MarkActs ==
    ASSUME IInv, NEW w \in Workers,
           ReadStarting(w) \/ MarkStarting(w) \/ ReadRunning(w) \/ MarkRunning(w)
    PROVE  Acts(w)
  <1>0. AfterRunning(w) = "loop1" /\ "loop1" \in Points /\ "prepare1" \in Points
        /\ wk[w].from \in {"start", "prepare", "loop"}
    BY SessionType DEF AfterRunning, Points
  <1>1. CASE ReadStarting(w)
    <2>1. wk[w].pc \notin {"idle", "cycling"} /\ UNCHANGED <<row, authority, lock, late, bounds>>
      BY <1>1 DEF ReadStarting
    <2>2. "starting!" \in Retried
      BY DEF Retried
    <2> QED BY <1>1, <2>1, <2>2, PlainPoints, QuietMoves DEF ReadStarting, Acts
  <1>2. CASE ReadRunning(w)
    <2>1. wk[w].pc \notin {"idle", "cycling"} /\ UNCHANGED <<row, authority, lock, late, bounds>>
      BY <1>2 DEF ReadRunning
    <2>2. "running!" \in Retried
      BY DEF Retried
    <2>3. CASE R(w).observed = "RUNNING" /\ Goto(w, "loop1")
      <3>1. "loop1" \in Points \ (Retried \cup Pausing \cup {"settle"})
            /\ "loop1" \notin Critical \cup Admitted
        BY DEF Points, Retried, Pausing, Critical, Admitted
      <3>2. Reads /\ LockFor(w, "loop1") /\ late' = late
        BY <2>1, LockStays, QuietMoves
      <3> QED BY <2>1, <2>3, <3>1, <3>2, GotoMove DEF Acts
    <2>4. CASE \/ Return(w)
               \/ R(w).desired # "RUNNING" /\ ToBoundary(w, wk[w].from)
               \/ Goto(w, "fail")
               \/ Prepare(w, "running!") /\ ~Exhausted(w)
      BY <1>0, <2>1, <2>2, <2>4, PlainPoints, QuietMoves DEF Acts
    <2>5. Goto(w, AfterRunning(w)) => Goto(w, "loop1")
      BY <1>0 DEF Goto
    <2>6. \/ Return(w)
          \/ R(w).desired # "RUNNING" /\ ToBoundary(w, wk[w].from)
          \/ R(w).observed = "RUNNING" /\ Goto(w, "loop1")
          \/ Goto(w, "fail")
          \/ Prepare(w, "running!") /\ ~Exhausted(w)
      BY <1>2, <2>5 DEF ReadRunning
    <2> QED BY <2>3, <2>4, <2>6
  <1>3. CASE MarkStarting(w)
    <2>1. Held(w) /\ MayStarting(R(w)) => Transforms(R(w), w, InState(R(w), "STARTING"))
      BY DEF Held, Owned, Transforms
    <2>2. Session(w, "prepare1").pc \notin
             Retried \cup Critical \cup Admitted \cup {"settle"} \cup Looping \cup Pausing
      BY <1>0, SessionEdit DEF Retried, Critical, Admitted, Looping, Pausing
    <2>3. /\ Session(w, "prepare1") \in Sessions /\ Session(w, "prepare1").epoch = wk[w].epoch
          /\ Session(w, "prepare1").from # "cycle" /\ "starting!" \in Retried
      BY <1>0, SessionEdit DEF Retried
    <2> QED BY <1>3, <2>1, <2>2, <2>3, WriteMarkActs DEF MarkStarting
  <1>4. CASE MarkRunning(w)
    <2>1. Held(w) /\ MayRunning(R(w)) => Transforms(R(w), w, InState(R(w), "RUNNING"))
      BY DEF Held, Owned, Transforms
    <2>2. Session(w, "loop1").pc \notin Retried \cup Critical \cup Admitted \cup {"settle"} \cup Pausing
      BY <1>0, SessionEdit DEF Retried, Critical, Admitted, Pausing
    <2>3. /\ Session(w, "loop1") \in Sessions /\ Session(w, "loop1").epoch = wk[w].epoch
          /\ Session(w, "loop1").from # "cycle" /\ "running!" \in Retried
      BY <1>0, SessionEdit DEF Retried
    <2>4. InState(R(w), "RUNNING").observed = "RUNNING"
      BY SessionType DEF InState, Rows
    <2>5. WriteMark(w, "running", "running!", MayRunning(R(w)),
                    InState(R(w), "RUNNING"), Session(w, "loop1"))
      BY <1>0, <1>4 DEF MarkRunning
    <2> QED BY <2>1, <2>2, <2>3, <2>4, <2>5, WriteMarkActs
  <1> QED BY <1>1, <1>2, <1>3, <1>4

\* One of the two readings of validate_execution_eligibility: who goes on from
\* it has read the authority.
LEMMA EligibilityActs ==
    ASSUME IInv, NEW w \in Workers, NEW here, NEW next,
           \/ here = "prepare1" /\ next = "prepare2"
           \/ here = "prepare2" /\ next = "check"
           \/ here = "loop1" /\ next = "loop2"
           \/ here = "loop2" /\ next = "own",
           CheckEligibility(w, here, next)
    PROVE  Acts(w)
  <1>1. wk[w].pc = here /\ wk[w].pc \notin {"idle", "cycling"}
        /\ UNCHANGED <<row, authority, lock, late, bounds>>
    BY DEF CheckEligibility
  <1>2. CASE Goto(w, "fail")
    BY <1>1, <1>2, PlainPoints, QuietMoves DEF Acts
  <1>3. CASE Eligible(R(w)) /\ Goto(w, next)
    <2>1. next \in Points \ (Retried \cup Pausing \cup {"settle"}) /\ next # "cycling"
          /\ next \notin Critical
      BY DEF Points, Retried, Pausing, Critical
    <2>2. next \in Looping /\ OwnedBy(w, wk[w], R(w)) => R(w).observed = "RUNNING"
      BY <1>1, SessionType DEF Fits, Looping
    <2>3. Reads /\ LockFor(w, next) /\ late' = late /\ authority
      BY <1>1, <1>3, <2>1, LockStays, QuietMoves DEF Eligible
    <2> QED BY <1>1, <1>3, <2>1, <2>2, <2>3, GotoMove DEF Acts
  <1> QED BY <1>2, <1>3 DEF CheckEligibility

\* A session that goes on to pc with its claim, called from f.
LEMMA OwnedMove ==
    ASSUME IInv, NEW w \in Workers, NEW pc \in {"running", "lock"},
           NEW f \in {"prepare", "loop"}, wk[w].pc \notin {"idle", "cycling"},
           SetWk(w, [Session(w, pc) EXCEPT !.from = f]),
           UNCHANGED <<row, authority, lock, late, bounds>>,
           Owned(w), pc = "lock" => wk[w].pc \in Admitted
    PROVE  Moves(w)
  <1> DEFINE x == Session(w, pc)
             s == [x EXCEPT !.from = f]
  <1>1. /\ x \in Sessions /\ x.pc = pc /\ x.epoch = wk[w].epoch /\ x.fence = wk[w].fence
    BY SessionEdit DEF Points
  <1>2. wk' = [wk EXCEPT ![w] = s]
    BY DEF SetWk
  <1> HIDE DEF x
  <1>3. /\ s \in Sessions /\ s.pc = pc /\ s.epoch = wk[w].epoch /\ s.fence = wk[w].fence
        /\ s.from = f
    BY <1>1 DEF Sessions
  <1> HIDE DEF s
  <1>4. Fits(w, s, row[s.epoch])
    BY <1>3, SessionType DEF Fits, ClaimOrFenced, OwnedBy, Owned, R, Retried, Critical, Looping,
                             Pausing
  <1>5. Reads /\ LockFor(w, s.pc) /\ late' = late
    BY <1>3, LockStays, QuietMoves
  <1>6. s.pc \in Admitted => wk[w].pc \in Admitted
    BY <1>3 DEF Admitted
  <1> QED
    BY <1>2, <1>3, <1>4, <1>5, <1>6, LateStays DEF Moves, SessionMove, Reads

\* _latest_owned before the epoch runs, and before its cycle.
LEMMA OwnedActs ==
    ASSUME IInv, NEW w \in Workers,
           CheckOwned(w, "check", "prepare", "running") \/ LoopOwned(w)
    PROVE  Acts(w)
  <1>1. wk[w].pc \in {"check", "own"} /\ wk[w].pc \notin {"idle", "cycling"}
        /\ UNCHANGED <<row, authority, lock, late, bounds>>
    BY DEF CheckOwned, LoopOwned
  <1>2. CASE CheckOwned(w, "check", "prepare", "running")
    <2>1. CASE Return(w) \/ (R(w).desired # "RUNNING" /\ ToBoundary(w, "prepare"))
      BY <1>1, <2>1, QuietMoves DEF Acts
    <2>2. CASE Owned(w) /\ SetWk(w, [Session(w, "running") EXCEPT !.from = "prepare"])
      BY <1>1, <2>2, OwnedMove DEF Acts
    <2> QED BY <1>2, <2>1, <2>2 DEF CheckOwned
  <1>3. CASE LoopOwned(w)
    <2>1. wk[w].pc = "own" /\ (Owned(w) => R(w).observed = "RUNNING")
      BY <1>3, SessionType DEF LoopOwned, CheckOwned, Fits, Looping, Owned, OwnedBy
    <2>2. CASE Return(w)
      BY <1>1, <2>2, QuietMoves DEF Acts
    <2>3. CASE R(w).desired # "RUNNING" /\ ToBoundary(w, "loop")
      BY <1>1, <2>3, QuietMoves DEF Acts
    <2>4. CASE Owned(w) /\ SetWk(w, [Session(w, "lock") EXCEPT !.from = "loop"])
      BY <1>1, <2>1, <2>4, OwnedMove DEF Acts, Admitted
    <2> QED BY <1>3, <2>1, <2>2, <2>3, <2>4 DEF LoopOwned, CheckOwned, ToBoundary, SetWk
  <1> QED BY <1>2, <1>3

LEMMA CycleActs ==
    ASSUME IInv, NEW w \in Workers,
           BeginCycle(w) \/ LockBusy(w) \/ EndCycle(w) \/ After(w)
    PROVE  Acts(w)
  <1>1. CASE BeginCycle(w)
    <2> DEFINE s == [wk[w] EXCEPT !.pc = "cycling", !.tries = 0]
    <2>1. /\ wk[w].pc = "lock" /\ wk' = [wk EXCEPT ![w] = s] /\ Reads
          /\ LockFor(w, "cycling")
      BY <1>1, SessionType DEF BeginCycle, Goto, SetWk, Reads, LockFor, bounds
    <2>2. /\ s \in Sessions /\ s.pc = "cycling" /\ s.epoch = wk[w].epoch /\ s.fence = wk[w].fence
          /\ s.from = wk[w].from
      BY SessionType, NoTries DEF Sessions, Points
    <2> HIDE DEF s
    <2>3. Fits(w, s, row[s.epoch])
      BY <2>1, <2>2, SessionType DEF Fits, OwnedBy, ClaimOrFenced, R, Retried, Critical, Looping,
                                     Pausing
    <2>4. /\ late' = [late EXCEPT ![w] = IF authority THEN 0 ELSE @ + 1]
          /\ late[w] = 0 /\ late \in [Workers -> Nat]
      BY <1>1, <2>1, SessionType DEF BeginCycle, LateFits, Admitted
    <2>5. /\ LateFits(s, late'[w]) /\ late' \in [Workers -> Nat]
          /\ \A v \in Workers \ {w} : late'[v] = late[v]
      BY <2>2, <2>4 DEF LateFits, Admitted
    <2> QED BY <2>1, <2>2, <2>3, <2>5 DEF Acts, Moves, SessionMove, Reads
  <1>2. CASE LockBusy(w)
    <2>1. wk[w].pc \notin {"idle", "cycling"} /\ UNCHANGED <<row, authority, lock, late, bounds>>
      BY <1>2 DEF LockBusy
    <2> QED BY <1>2, <2>1, PlainPoints, QuietMoves DEF LockBusy, Acts
  <1>3. CASE EndCycle(w)
    <2>1. /\ wk[w].pc = "cycling" /\ Goto(w, "after") /\ Reads /\ LockFor(w, "after")
          /\ late' = late
      BY <1>3, SessionType DEF EndCycle, Reads, LockFor, bounds
    <2>2. "after" \in Points \ (Retried \cup Pausing \cup {"settle"})
          /\ "after" \notin Critical \cup Looping \cup Admitted
      BY DEF Points, Retried, Pausing, Critical, Looping, Admitted
    <2> QED BY <2>1, <2>2, GotoMove DEF Acts
  <1>4. CASE After(w)
    <2>1. wk[w].pc \notin {"idle", "cycling"} /\ UNCHANGED <<row, authority, lock, late, bounds>>
      BY <1>4 DEF After
    <2> QED BY <1>4, <2>1, QuietMoves DEF After, Acts
  <1> QED BY <1>1, <1>2, <1>3, <1>4

\* _settle_control_boundary: no caller comes from a cycle, and nobody finds an
\* epoch of its own resumed.
LEMMA SettledType ==
    ASSUME IInv, NEW w \in Workers
    PROVE  /\ Settled(w) \in Sessions
           /\ Settled(w).pc \in {"fail", "idle"} /\ Settled(w).from # "cycle"
           /\ Settled(w).pc # "idle" => Settled(w).epoch = wk[w].epoch
  <1>1. CASE wk[w].from = "start"
    BY <1>1, SessionEdit DEF Settled, Points
  <1>2. CASE wk[w].from \in {"prepare", "loop"}
    BY <1>2, IdleFields DEF Settled
  <1> QED BY <1>1, <1>2, SessionType

LEMMA BoundaryActs ==
    ASSUME IInv, NEW w \in Workers,
           ReadPause(w) \/ SettlePaused(w) \/ ReadStop(w) \/ MarkStopping(w) \/ SettleStopped(w)
    PROVE  Acts(w)
  <1>1. "pause!" \in Retried /\ "stop!" \in Retried /\ "stopping!" \in Retried
    BY DEF Retried
  <1>2. CASE ReadPause(w)
    <2>1. wk[w].pc \notin {"idle", "cycling"} /\ UNCHANGED <<row, authority, lock, late, bounds>>
      BY <1>2 DEF ReadPause
    <2>2. wk[w].from \in {"start", "prepare", "loop"}
      BY SessionType
    <2>3. Owned(w) => R(w).desired # "RUNNING"
      BY <1>2, SessionType DEF ReadPause, Fits, Pausing, Owned, OwnedBy
    <2>4. \/ Return(w)
          \/ R(w).desired # "RUNNING" /\ ToBoundary(w, wk[w].from)
          \/ Goto(w, "fail")
          \/ Prepare(w, "pause!") /\ ~Exhausted(w) /\ R(w).desired # "RUNNING"
      BY <1>2, <2>3 DEF ReadPause
    <2> QED BY <1>1, <2>1, <2>2, <2>4, PlainPoints, QuietMoves DEF Acts
  <1>3. CASE ReadStop(w)
    <2>1. wk[w].pc \notin {"idle", "cycling"} /\ UNCHANGED <<row, authority, lock, late, bounds>>
      BY <1>3 DEF ReadStop
    <2>2. \/ Return(w) \/ Goto(w, "fail")
          \/ \E pc \in {"stop!", "stopping!"} : Prepare(w, pc) /\ ~Exhausted(w)
      BY <1>3 DEF ReadStop
    <2> QED BY <1>1, <2>1, <2>2, PlainPoints, QuietMoves DEF Acts
  <1>4. Settled(w).pc \notin Retried \cup Critical \cup Admitted \cup {"settle"} \cup Pausing \cup Looping
    BY SettledType DEF Retried, Critical, Admitted, Pausing, Looping
  <1>5. CASE SettlePaused(w)
    <2>1. Held(w) /\ MayPause(R(w)) => Transforms(R(w), w, Released(R(w), "PAUSED"))
      BY DEF Held, Owned, Transforms
    <2> QED BY <1>1, <1>4, <1>5, <2>1, SettledType, WriteMarkActs DEF SettlePaused
  <1>6. CASE SettleStopped(w)
    <2>1. Held(w) /\ MayStop(R(w)) => Transforms(R(w), w, Released(R(w), "STOPPED"))
      BY DEF Held, Owned, Transforms
    <2> QED BY <1>1, <1>4, <1>6, <2>1, SettledType, WriteMarkActs DEF SettleStopped
  <1>7. CASE MarkStopping(w)
    <2>1. Held(w) /\ MayStopping(R(w)) => Transforms(R(w), w, InState(R(w), "STOPPING"))
      BY DEF Held, Owned, Transforms
    <2>2. /\ Session(w, "stop") \in Sessions /\ Session(w, "stop").pc = "stop"
          /\ Session(w, "stop").epoch = wk[w].epoch /\ Session(w, "stop").from # "cycle"
      BY SessionEdit, SessionType DEF Points
    <2>3. Session(w, "stop").pc \notin
             Retried \cup Critical \cup Admitted \cup {"settle"} \cup Pausing \cup Looping
      BY <2>2 DEF Retried, Critical, Admitted, Pausing, Looping
    <2> QED BY <1>1, <1>7, <2>1, <2>2, <2>3, WriteMarkActs DEF MarkStopping
  <1> QED BY <1>2, <1>3, <1>5, <1>6, <1>7

\* _fail_if_owned.
LEMMA FailActs ==
    ASSUME IInv, NEW w \in Workers, ReadFail(w) \/ FailEpoch(w)
    PROVE  Acts(w)
  <1>1. CASE ReadFail(w) /\ Return(w)
    <2>1. wk[w].pc \notin {"idle", "cycling"} /\ UNCHANGED <<row, authority, lock, late, bounds>>
      BY <1>1 DEF ReadFail
    <2> QED BY <1>1, <2>1, QuietMoves DEF Acts
  <1>2. CASE /\ ReadFail(w) /\ ~Exhausted(w)
             /\ SetWk(w, [wk[w] EXCEPT !.pc = "fail!", !.fresh = TRUE, !.fence = R(w).fence])
    <2> DEFINE s == [wk[w] EXCEPT !.pc = "fail!", !.fresh = TRUE, !.fence = R(w).fence]
    <2>0. wk[w].pc \notin {"idle", "cycling"} /\ UNCHANGED <<row, authority, lock, late, bounds>>
      BY <1>2 DEF ReadFail
    <2>1. /\ s \in Sessions /\ s.pc = "fail!" /\ s.epoch = wk[w].epoch /\ s.tries = wk[w].tries
          /\ s.from = wk[w].from
      BY SessionType DEF Sessions, Points, Writes
    <2>2. wk' = [wk EXCEPT ![w] = s]
      BY <1>2 DEF SetWk
    <2> HIDE DEF s
    <2>3. s.tries < Attempts
      BY <1>2, <2>1, SessionType, BoundsAssumption DEF Exhausted
    <2>4. Fits(w, s, row[s.epoch])
      BY <2>0, <2>1, <2>3, SessionType DEF Fits, Critical, Looping, Pausing, R
    <2>5. LockFor(w, s.pc) /\ Reads /\ s.pc \notin Admitted /\ late' = late
      BY <2>0, <2>1, LockStays, QuietMoves DEF Admitted
    <2> QED BY <2>1, <2>2, <2>4, <2>5, LateStays DEF Acts, Moves, SessionMove, Reads
  <1>3. CASE FailEpoch(w)
    <2>1. Held(w) => Transforms(R(w), w, Released(R(w), "FAILED"))
      BY DEF Held, Owned, Transforms
    <2>2. Idle.pc \notin Retried \cup Critical \cup Admitted \cup {"settle"} \cup Looping \cup Pausing
      BY IdleFields DEF Retried, Critical, Admitted, Looping, Pausing
    <2>3. "fail!" \in Retried
      BY DEF Retried
    <2> QED BY <1>3, <2>1, <2>2, <2>3, IdleFields, WriteMarkActs DEF FailEpoch
  <1> QED BY <1>1, <1>2, <1>3 DEF ReadFail

\* A call, the heartbeat or the cycle raises.
LEMMA RaisesActs == ASSUME IInv, NEW w \in Workers, Raises(w) PROVE Acts(w)
  <1>1. wk[w].pc # "idle" /\ Goto(w, "fail") /\ UnlockOf(w) /\ Reads /\ late' = late
    BY SessionType, BoundsAssumption DEF Raises, Fault, Reads
  <1>2. "fail" \in Points \ (Retried \cup Pausing \cup {"settle"})
        /\ "fail" \notin Critical \cup Looping \cup Admitted
    BY DEF Points, Retried, Pausing, Critical, Looping, Admitted
  <1> QED BY <1>1, <1>2, LockStays, GotoMove DEF Acts

\* Whatever a live worker does is a read or a transformation of its row.
LEMMA StepActs ==
    ASSUME IInv, NEW w \in Workers, Step(w) \/ Raises(w)
    PROVE  Acts(w)
  BY LoadActs, ClaimActs, RecoverActs, SettleUnclaimedActs, MarkActs, EligibilityActs, OwnedActs,
     CycleActs, BoundaryActs, FailActs, RaisesActs DEF Step

-----------------------------------------------------------------------------
(* The invariant *)

LEMMA InitIInv == Init => IInv
  <1> SUFFICES ASSUME Init PROVE IInv
    OBVIOUS
  <1>1. AbsentRow \in Rows /\ WellFormed(AbsentRow)
    BY DEF AbsentRow, Rows, WellFormed, DesiredState, ClaimRequired
  <1>2. TypeOK
    BY <1>1, IdleFields, WorkersAssumption, BoundsAssumption DEF Init, TypeOK
  <1>3. \A w \in Workers : Fits(w, wk[w], R(w)) /\ LateFits(wk[w], late[w])
    BY IdleFields DEF Init, Fits, LateFits, Retried, Critical, Looping, Pausing, Admitted
  <1> QED BY <1>2, <1>3 DEF IInv

LEMMA MovesKeep == ASSUME IInv, NEW w \in Workers, Moves(w) PROVE IInv'
  <1>1. PICK s : SessionMove(w, s)
    BY DEF Moves
  <1>2. /\ row' = row /\ wk' \in [Workers -> Sessions] /\ wk'[w] = s
        /\ \A v \in Workers \ {w} : wk'[v] = wk[v] /\ late'[v] = late[v]
    BY <1>1 DEF IInv, TypeOK, SessionMove
  <1>3. /\ lock' \in Workers \cup {NoOwner}
        /\ \A v \in Workers : wk'[v].pc = "cycling" <=> lock' = v
    BY <1>1, <1>2, WorkersAssumption DEF IInv, TypeOK, SessionMove, LockFor
  <1>4. TypeOK'
    BY <1>1, <1>2, <1>3 DEF IInv, TypeOK, SessionMove
  <1>5. ASSUME NEW v \in Workers
        PROVE  Fits(v, wk'[v], R(v)') /\ LateFits(wk[v], late[v])'
    <2>1. CASE v = w
      BY <1>1, <1>2, <2>1 DEF SessionMove, R, LateFits
    <2>2. CASE v # w
      <3>1. authority' = authority
        BY <1>1 DEF SessionMove
      <3> QED BY <1>2, <2>2, <3>1 DEF IInv, R, LateFits
    <2> QED BY <2>1, <2>2
  <1> QED BY <1>4, <1>5 DEF IInv

\* Losing its snapshot changes nothing else of a session.
LEMMA StaleSession ==
    ASSUME NEW x \in Sessions, NEW s, s = [x EXCEPT !.fresh = FALSE]
    PROVE  /\ s \in Sessions /\ ~s.fresh
           /\ s.pc = x.pc /\ s.epoch = x.epoch /\ s.fence = x.fence /\ s.tries = x.tries
           /\ s.from = x.from
  BY DEF Sessions

\* What a session of another worker relies on survives a commit to its row.
LEMMA CommitsKeep == ASSUME IInv, NEW w \in Workers, Commits(w) PROVE IInv'
  <1>1. PICK s, t : RowMove(w, s, t)
    BY DEF Commits
  <1> DEFINE e == wk[w].epoch
  <1>2. /\ t \in Rows /\ WellFormed(t)
        /\ t.observed # "ABSENT" /\ row[e].observed # "ABSENT"
        /\ t.fence >= row[e].fence
        /\ t.owner \in {w, NoOwner}
        /\ \A v \in Workers \ {w} : row[e].owner = v => t.fence > row[e].fence
        /\ e \in Epochs
    BY <1>1, SessionType, TransformType DEF RowMove, R
  <1>3. /\ row' \in [Epochs -> Rows] /\ row'[e] = t
        /\ \A f \in Epochs \ {e} : row'[f] = row[f]
    BY <1>1, <1>2 DEF RowMove, Written, Update, IInv, TypeOK
  <1>4. /\ wk'[w] = s
        /\ \A v \in Workers \ {w} : wk'[v] = IF wk[v].epoch = e THEN [wk[v] EXCEPT !.fresh = FALSE]
                                             ELSE wk[v]
        /\ wk' = [v \in Workers |-> wk'[v]]
    BY <1>1 DEF RowMove, Written
  <1>5. \A v \in Workers \ {w} :
          /\ wk'[v] \in Sessions /\ wk'[v].pc = wk[v].pc /\ wk'[v].epoch = wk[v].epoch
          /\ wk'[v].fence = wk[v].fence /\ wk'[v].tries = wk[v].tries /\ wk'[v].from = wk[v].from
          /\ wk[v].epoch = e => ~wk'[v].fresh
          /\ wk[v].epoch # e => wk'[v] = wk[v]
    <2> TAKE v \in Workers \ {w}
    <2>1. wk[v] \in Sessions
      BY SessionType
    <2>2. CASE wk[v].epoch = e
      <3>1. wk'[v] = [wk[v] EXCEPT !.fresh = FALSE]
        BY <1>4, <2>2
      <3> QED BY <2>1, <2>2, <3>1, StaleSession
    <2>3. CASE wk[v].epoch # e
      BY <1>4, <2>1, <2>3
    <2> QED BY <2>2, <2>3
  <1>6. /\ s \in Sessions /\ s.pc \notin Retried \cup Critical \cup Admitted \cup {"settle"}
        /\ s.from # "cycle"
        /\ s.pc \in Pausing => t.desired # "RUNNING"
        /\ s.pc \in Looping => t.observed = "RUNNING"
        /\ s.pc # "idle" => s.epoch = e
        /\ wk[w].pc # "cycling" /\ UNCHANGED <<authority, lock, late, commands, faults>>
    BY <1>1 DEF RowMove, bounds
  <1>7. \A v \in Workers : wk'[v] \in Sessions /\ (wk'[v].pc = "cycling" <=> lock' = v)
    <2>1. s.pc # "cycling"
      BY <1>6 DEF Critical
    <2> QED BY <1>4, <1>5, <1>6, <2>1, SessionType
  <1>8. TypeOK'
    BY <1>2, <1>3, <1>4, <1>6, <1>7 DEF IInv, TypeOK
  <1>9. ASSUME NEW v \in Workers PROVE Fits(v, wk'[v], R(v)')
    <2>1. CASE v = w
      <3>1. wk'[v] = s /\ R(v)' = row'[s.epoch]
        BY <1>4, <2>1 DEF R
      <3>2. CASE s.pc = "idle"
        BY <1>6, <3>1, <3>2 DEF Fits, Pausing, Looping
      <3>3. CASE s.pc # "idle"
        BY <1>2, <1>3, <1>6, <3>1, <3>3 DEF Fits
      <3> QED BY <3>2, <3>3
    <2>2. CASE v # w /\ wk[v].epoch # e
      <3>1. wk'[v] = wk[v] /\ R(v)' = R(v)
        BY <1>3, <1>5, <2>2, SessionType DEF R
      <3> QED BY <3>1, SessionType
    <2>3. CASE v # w /\ wk[v].epoch = e
      <3>1. R(v)' = t /\ R(v) = row[e] /\ ~wk'[v].fresh
            /\ wk'[v].pc = wk[v].pc /\ wk'[v].fence = wk[v].fence /\ wk'[v].tries = wk[v].tries
            /\ wk'[v].from = wk[v].from
        BY <1>3, <1>5, <2>3, SessionType DEF R
      <3>2. ~OwnedBy(v, wk'[v], t)
        BY <1>2, <2>3, WorkersAssumption DEF OwnedBy
      <3>3. wk[v].pc \in Critical => ClaimOrFenced(v, wk[v], row[e])
        BY <3>1, SessionType DEF Fits
      <3>4. t.fence \in Nat /\ row[e].fence \in Nat /\ wk[v].fence \in Nat
        BY <1>2, SessionType DEF R, Rows
      <3>5. wk[v].pc \in Critical => ClaimOrFenced(v, wk'[v], t)
        BY <1>2, <2>3, <3>1, <3>3, <3>4 DEF ClaimOrFenced, OwnedBy
      <3> QED BY <1>2, <3>1, <3>2, <3>5, SessionType DEF Fits
    <2> QED BY <2>1, <2>2, <2>3
  <1>10. ASSUME NEW v \in Workers PROVE LateFits(wk[v], late[v])'
    <2>1. LateFits(wk[v], late[v]) /\ authority' = authority /\ late'[v] = late[v]
      BY <1>6, SessionType
    <2> QED BY <1>4, <1>5, <1>6, <2>1 DEF LateFits
  <1> QED BY <1>8, <1>9, <1>10 DEF IInv

LEMMA StartKeeps == ASSUME IInv, NEW e \in Epochs, Start(e) PROVE IInv'
  <1>1. /\ row[e].observed = "ABSENT" /\ row' = [row EXCEPT ![e] = InState(row[e], "PENDING")]
        /\ row[e] \in Rows /\ WellFormed(row[e])
        /\ UNCHANGED <<authority, wk, lock, late, commands, faults>>
    BY DEF Start, InsertEpoch, InState, IInv, TypeOK, bounds
  <1>2. /\ InState(row[e], "PENDING") \in Rows /\ WellFormed(InState(row[e], "PENDING"))
    <2> DEFINE t == InState(row[e], "PENDING")
    <2>1. "PENDING" \in ObservedState
      BY DEF ObservedState
    <2>2. /\ t \in Rows /\ t.observed = "PENDING" /\ t.owner = row[e].owner
          /\ t.expired = row[e].expired
      BY <1>1, <2>1, InStateFields
    <2> HIDE DEF t
    <2>3. WellFormed(t)
      BY <1>1, <2>2 DEF WellFormed, ClaimRequired
    <2> QED BY <2>2, <2>3 DEF t
  <1>3. TypeOK'
    BY <1>1, <1>2 DEF IInv, TypeOK
  <1>4. ASSUME NEW v \in Workers
        PROVE  Fits(v, wk'[v], R(v)') /\ LateFits(wk[v], late[v])'
    <2>1. CASE wk[v].pc = "idle"
      BY <1>1, <2>1, SessionType DEF Fits, LateFits, Retried, Critical, Looping, Pausing
    <2>2. CASE wk[v].pc # "idle"
      <3>1. wk[v].epoch # e
        BY <1>1, <2>2, SessionType DEF Fits, R
      <3>2. R(v)' = R(v)
        BY <1>1, <3>1, SessionType DEF R, IInv, TypeOK
      <3> QED BY <1>1, <3>2, SessionType DEF LateFits
    <2> QED BY <2>1, <2>2
  <1> QED BY <1>3, <1>4 DEF IInv

\* A command changes what is desired of a live epoch, nothing else of it; only
\* a paused epoch, which nobody owns, is made to run.
LEMMA CommandKeeps == ASSUME IInv, NEW e \in Epochs, Command(e) PROVE IInv'
  <1>1. PICK d \in DesiredState : RequestCommand(e, d)
    BY DEF Command
  <1> DEFINE t == [row[e] EXCEPT !.desired = d]
  <1>2. row[e] \in Rows /\ WellFormed(row[e]) /\ row' = [row EXCEPT ![e] = t]
        /\ row[e].observed \notin TERMINAL \cup {"ABSENT"}
        /\ row[e].desired # "STOPPED" /\ (d = "RUNNING" => row[e].observed = "PAUSED")
    BY <1>1 DEF RequestCommand, NonTerminal, IInv, TypeOK, ALLOWED_DESIRED_COMMANDS
  <1>3. /\ t \in Rows /\ t.observed = row[e].observed /\ t.owner = row[e].owner
        /\ t.fence = row[e].fence /\ t.expired = row[e].expired /\ t.desired = d
    BY <1>2 DEF Rows
  <1> HIDE DEF t
  <1>4. WellFormed(t)
    BY <1>2, <1>3 DEF WellFormed, TERMINAL
  <1>5. /\ row' \in [Epochs -> Rows] /\ \A f \in Epochs : WellFormed(row'[f])
        /\ \A f \in Epochs : /\ row'[f].observed = row[f].observed
                             /\ row'[f].owner = row[f].owner /\ row'[f].fence = row[f].fence
                             /\ f # e => row'[f].desired = row[f].desired
        /\ row'[e].desired = d
    BY <1>2, <1>3, <1>4 DEF IInv, TypeOK
  <1>6. /\ wk' = [v \in Workers |-> wk'[v]]
        /\ \A v \in Workers : wk'[v] = IF wk[v].epoch = e THEN [wk[v] EXCEPT !.fresh = FALSE]
                                       ELSE wk[v]
    BY DEF Command, Stale
  <1>7. \A v \in Workers :
          /\ wk'[v] \in Sessions
          /\ wk'[v].pc = wk[v].pc /\ wk'[v].epoch = wk[v].epoch
          /\ wk'[v].fence = wk[v].fence /\ wk'[v].tries = wk[v].tries /\ wk'[v].from = wk[v].from
          /\ wk'[v].fresh => wk[v].fresh /\ wk[v].epoch # e
    BY <1>6, SessionType, StaleSession
  <1>8. /\ lock' = lock /\ commands' \in 0..MaxCommands /\ faults' = faults
        /\ late' = late /\ authority' = authority
    BY BoundsAssumption DEF Command, IInv, TypeOK
  <1>9. TypeOK'
    BY <1>5, <1>6, <1>7, <1>8 DEF IInv, TypeOK
  <1>10. ASSUME NEW v \in Workers
         PROVE  Fits(v, wk'[v], R(v)') /\ LateFits(wk[v], late[v])'
    <2>1. /\ R(v)'.observed = R(v).observed /\ R(v)'.owner = R(v).owner
          /\ R(v)'.fence = R(v).fence
          /\ wk[v].epoch # e => R(v)'.desired = R(v).desired
          /\ wk[v].epoch = e => R(v)'.desired = d /\ R(v) = row[e]
      BY <1>5, <1>7, SessionType DEF R
    <2>2. R(v).observed = "PAUSED" => R(v).owner = NoOwner
      BY SessionType DEF WellFormed, ClaimRequired
    <2>3. OwnedBy(v, wk'[v], R(v)') => OwnedBy(v, wk[v], R(v)) /\ R(v).owner # NoOwner
      BY <1>7, <2>1, WorkersAssumption DEF OwnedBy
    <2>4. Fits(v, wk[v], R(v)) /\ LateFits(wk[v], late[v])
      BY SessionType
    <2>5. wk'[v].pc \in Pausing /\ OwnedBy(v, wk'[v], R(v)') => R(v)'.desired # "RUNNING"
      BY <1>2, <1>7, <2>1, <2>2, <2>3, <2>4 DEF Fits
    <2>6. wk'[v].pc \in Critical => ClaimOrFenced(v, wk'[v], R(v)')
      BY <1>7, <2>1, <2>4 DEF Fits, ClaimOrFenced, OwnedBy
    <2>7. LateFits(wk[v], late[v])'
      BY <1>7, <1>8, <2>4 DEF LateFits
    <2> QED BY <1>7, <2>1, <2>3, <2>4, <2>5, <2>6, <2>7 DEF Fits
  <1> QED BY <1>9, <1>10 DEF IInv

\* A revocation admits no further cycle, and touches nothing else.
LEMMA RevokeKeeps == ASSUME IInv, Revoke PROVE IInv'
  <1>1. authority' = FALSE /\ UNCHANGED <<row, wk, lock, late, commands, faults>>
    BY DEF Revoke, bounds
  <1> QED BY <1>1 DEF IInv, TypeOK, Fits, LateFits, ClaimOrFenced, OwnedBy, R

\* A lease that runs out touches no owner, fence or state.
LEMMA LeaseKeeps == ASSUME IInv, NEW e \in Epochs, Lapse(e) \/ Expire(e) PROVE IInv'
  <1> DEFINE t == [row[e] EXCEPT !.expired = TRUE]
  <1>1. /\ row[e] \in Rows /\ WellFormed(row[e]) /\ row' = [row EXCEPT ![e] = t]
        /\ row[e].owner # NoOwner
        /\ UNCHANGED <<authority, wk, lock, late, commands>> /\ faults' \in 0..MaxFaults
    BY WorkersAssumption, BoundsAssumption DEF Lapse, Expire, Fault, IInv, TypeOK, bounds
  <1>2. /\ t \in Rows /\ t.observed = row[e].observed /\ t.owner = row[e].owner
        /\ t.fence = row[e].fence /\ t.desired = row[e].desired
    BY <1>1 DEF Rows
  <1> HIDE DEF t
  <1>3. WellFormed(t)
    BY <1>1, <1>2 DEF WellFormed
  <1>4. /\ row' \in [Epochs -> Rows] /\ \A f \in Epochs : WellFormed(row'[f])
        /\ \A f \in Epochs : /\ row'[f].observed = row[f].observed
                             /\ row'[f].owner = row[f].owner /\ row'[f].fence = row[f].fence
                             /\ row'[f].desired = row[f].desired
    BY <1>1, <1>2, <1>3 DEF IInv, TypeOK
  <1>5. TypeOK'
    BY <1>1, <1>4 DEF IInv, TypeOK
  <1>6. ASSUME NEW v \in Workers
        PROVE  Fits(v, wk'[v], R(v)') /\ LateFits(wk[v], late[v])'
    <2>1. /\ R(v)'.observed = R(v).observed /\ R(v)'.owner = R(v).owner
          /\ R(v)'.fence = R(v).fence /\ R(v)'.desired = R(v).desired /\ wk'[v] = wk[v]
      BY <1>1, <1>4, SessionType DEF R
    <2> QED BY <1>1, <2>1, SessionType DEF Fits, LateFits, ClaimOrFenced, OwnedBy
  <1> QED BY <1>5, <1>6 DEF IInv

\* A process that ends leaves its claims to a name that nobody has.
LEMMA CrashKeeps == ASSUME IInv, NEW w \in Workers, Crash(w) PROVE IInv'
  <1>1. \A e \in Epochs : row[e] \in Rows /\ WellFormed(row[e])
    BY DEF IInv, TypeOK
  <1>2. /\ row' = [e \in Epochs |-> row'[e]]
        /\ \A e \in Epochs : row'[e] = IF row[e].owner = w THEN [row[e] EXCEPT !.owner = Gone]
                                       ELSE row[e]
    BY DEF Crash
  <1>3. \A e \in Epochs : /\ row'[e] \in Rows
                          /\ row'[e].observed = row[e].observed /\ row'[e].fence = row[e].fence
                          /\ row'[e].expired = row[e].expired /\ row'[e].desired = row[e].desired
                          /\ row'[e].owner = IF row[e].owner = w THEN Gone ELSE row[e].owner
    BY <1>1, <1>2 DEF Rows
  <1>4. \A e \in Epochs : WellFormed(row'[e])
    BY <1>1, <1>3, WorkersAssumption DEF WellFormed
  <1>5. /\ wk' = [wk EXCEPT ![w] = Idle] /\ UnlockOf(w)
        /\ late' = [late EXCEPT ![w] = 0] /\ authority' = authority
        /\ commands' = commands /\ faults' \in 0..MaxFaults
    BY BoundsAssumption DEF Crash, Fault, Return, SetWk, IInv, TypeOK
  <1>6. /\ wk' \in [Workers -> Sessions] /\ wk'[w] = Idle
        /\ late' \in [Workers -> Nat] /\ late'[w] = 0
        /\ \A v \in Workers \ {w} : wk'[v] = wk[v] /\ late'[v] = late[v]
    BY <1>5, IdleFields DEF IInv, TypeOK
  <1>7. /\ lock' \in Workers \cup {NoOwner}
        /\ \A v \in Workers : wk'[v].pc = "cycling" <=> lock' = v
    BY <1>5, <1>6, SessionType, IdleFields, WorkersAssumption DEF UnlockOf, IInv, TypeOK
  <1>8. TypeOK'
    BY <1>2, <1>3, <1>4, <1>5, <1>6, <1>7 DEF IInv, TypeOK
  <1>9. ASSUME NEW v \in Workers
        PROVE  Fits(v, wk'[v], R(v)') /\ LateFits(wk[v], late[v])'
    <2>1. CASE v = w
      BY <1>6, <2>1, IdleFields DEF Fits, LateFits, Retried, Critical, Looping, Pausing
    <2>2. CASE v # w
      <3>1. /\ R(v)'.observed = R(v).observed /\ R(v)'.fence = R(v).fence
            /\ R(v)'.desired = R(v).desired
            /\ R(v)'.owner = (IF R(v).owner = w THEN Gone ELSE R(v).owner)
            /\ wk'[v] = wk[v] /\ late'[v] = late[v] /\ authority' = authority
        BY <1>3, <1>5, <1>6, <2>2, SessionType DEF R
      <3>2. OwnedBy(v, wk'[v], R(v)') <=> OwnedBy(v, wk[v], R(v))
        BY <2>2, <3>1, WorkersAssumption DEF OwnedBy
      <3> QED BY <3>1, <3>2, SessionType, WorkersAssumption DEF Fits, LateFits, ClaimOrFenced
    <2> QED BY <2>1, <2>2
  <1> QED BY <1>8, <1>9 DEF IInv

\* Every step keeps the invariant.
LEMMA NextIInv == IInv /\ [Next]_vars => IInv'
  <1> SUFFICES ASSUME IInv, [Next]_vars PROVE IInv'
    OBVIOUS
  <1>1. CASE UNCHANGED vars
    BY <1>1 DEF vars, IInv, TypeOK, Fits, LateFits, ClaimOrFenced, OwnedBy, R
  <1>2. ASSUME NEW e \in Epochs, Start(e) \/ Command(e) \/ Lapse(e) \/ Expire(e) PROVE IInv'
    BY <1>2, StartKeeps, CommandKeeps, LeaseKeeps
  <1>3. ASSUME NEW w \in Workers, Step(w) \/ Raises(w) PROVE IInv'
    BY <1>3, StepActs, MovesKeep, CommitsKeep DEF Acts
  <1>4. ASSUME NEW w \in Workers, Crash(w) PROVE IInv'
    BY <1>4, CrashKeeps
  <1>5. CASE Revoke
    BY <1>5, RevokeKeeps
  <1> QED BY <1>1, <1>2, <1>3, <1>4, <1>5 DEF Next

LEMMA Invariance == Spec => []IInv
  BY InitIInv, NextIInv, PTL DEF Spec

\* Rows stay what the table's checks admit, the session lock belongs to the one
\* worker in its cycle, and whoever runs a cycle, or is about to, has the
\* present claim of its epoch or was fenced by a recovery (run_epoch and
\* _run_cycle_with_heartbeat of the paper runner).
THEOREM ClaimsAlwaysHold == Spec => []ClaimsHold
  <1>1. IInv => ClaimsHold
    BY DEF IInv, Fits, ClaimOrFenced, OwnedBy, ClaimsHold, CyclesAreFenced, Owned, Critical
  <1> QED BY <1>1, Invariance, PTL

\* After its activation is revoked a worker begins at most one more cycle, for
\* any workers, epochs and interleaving: the loop reads eligibility anew before
\* every cycle (validate_execution_eligibility and the loop of run_epoch).
THEOREM OneCycleAfterRevocationAlways == Spec => []OneCycleAfterRevocation
  <1>1. IInv => OneCycleAfterRevocation
    BY DEF IInv, LateFits, OneCycleAfterRevocation
  <1> QED BY <1>1, Invariance, PTL

-----------------------------------------------------------------------------
(* The contract *)

Phases == {"NONE", "OPEN", "HELD", "PAUSED", "STOPPED", "FAILED"}
Terms == [desired : DesiredState, phase : Phases, fence : Nat, expired : BOOLEAN]

\* The contract's phase by the observed state.
LEMMA TermsFields ==
    ASSUME NEW r \in Rows
    PROVE  /\ TermsOf(r) \in Terms
           /\ TermsOf(r).desired = r.desired /\ TermsOf(r).fence = r.fence
           /\ TermsOf(r).expired = r.expired
           /\ r.observed = "ABSENT" => TermsOf(r).phase = "NONE"
           /\ r.observed = "PENDING" => TermsOf(r).phase = "OPEN"
           /\ r.observed \in ClaimRequired => TermsOf(r).phase = "HELD"
           /\ r.observed \in {"PAUSED", "STOPPED", "FAILED"} => TermsOf(r).phase = r.observed
  <1>1. r.observed \in ClaimRequired \cup {"ABSENT", "PENDING", "PAUSED", "STOPPED", "FAILED"}
    BY DEF Rows, ObservedState, TERMINAL
  <1> DEFINE phase == CASE r.observed = "ABSENT" -> "NONE"
                        [] r.observed = "PENDING" -> "OPEN"
                        [] r.observed \in ClaimRequired -> "HELD"
                        [] OTHER -> r.observed
  <1>2. /\ r.observed = "ABSENT" => phase = "NONE"
        /\ r.observed = "PENDING" => phase = "OPEN"
        /\ r.observed \in ClaimRequired => phase = "HELD"
        /\ r.observed \in {"PAUSED", "STOPPED", "FAILED"} => phase = r.observed
        /\ phase \in Phases
    BY <1>1 DEF ClaimRequired, Phases
  <1>3. TermsOf(r) = [desired |-> r.desired, phase |-> phase, fence |-> r.fence,
                      expired |-> r.expired]
    BY DEF TermsOf
  <1> HIDE DEF phase
  <1> QED BY <1>2, <1>3 DEF Terms, Rows

\* A write of one row changes one entry of the contract.
LEMMA TermsUpdate ==
    ASSUME row \in [Epochs -> Rows], NEW e \in Epochs, NEW t \in Rows,
           row' = [row EXCEPT ![e] = t]
    PROVE  /\ terms \in [Epochs -> Terms] /\ terms[e] = TermsOf(row[e])
           /\ terms' = [terms EXCEPT ![e] = TermsOf(t)]
           /\ TermsOf(row[e]) \in Terms /\ TermsOf(t) \in Terms
  <1>1. \A f \in Epochs : TermsOf(row[f]) \in Terms
    BY TermsFields
  <1>2. TermsOf(t) \in Terms
    BY TermsFields
  <1>3. terms' = [f \in Epochs |-> TermsOf(row'[f])]
    BY DEF terms
  <1> QED BY <1>1, <1>2, <1>3 DEF terms

\* The steps of the contract, as changes of one entry.
LEMMA ContractSteps ==
    ASSUME terms \in [Epochs -> Terms], NEW e \in Epochs, NEW u \in Terms,
           terms' = [terms EXCEPT ![e] = u],
           LET q == terms[e] IN
              \/ /\ q.phase \in {"OPEN", "PAUSED"} /\ q.desired = "RUNNING"
                 /\ u.phase = "HELD" /\ u.fence = q.fence + 1
                 /\ u.desired = q.desired /\ u.expired = q.expired
              \/ /\ q.phase = "HELD" /\ q.expired
                 /\ u.fence = q.fence + 1 /\ ~u.expired
                 /\ u.phase = q.phase /\ u.desired = q.desired
              \/ /\ q.phase = "HELD" /\ u.expired
                 /\ u.fence = q.fence /\ u.phase = q.phase /\ u.desired = q.desired
              \/ /\ q.phase \in {"OPEN", "HELD", "PAUSED"} /\ ~q.expired
                 /\ q.desired \in {"PAUSED", "STOPPED"} /\ u.phase = q.desired
                 /\ u.fence = q.fence /\ u.expired = q.expired /\ u.desired = q.desired
              \/ /\ q.phase \notin {"NONE", "STOPPED", "FAILED"} /\ ~q.expired
                 /\ u.phase = "FAILED"
                 /\ u.fence = q.fence /\ u.expired = q.expired /\ u.desired = q.desired
              \/ /\ q.phase \notin {"NONE", "STOPPED", "FAILED"} /\ q.desired # "STOPPED"
                 /\ u.phase = q.phase /\ u.fence = q.fence /\ u.expired = q.expired
                 /\ u.desired # q.desired
              \/ u = q
    PROVE  [Contract!Next]_terms
  <1> DEFINE q == terms[e]
  <1>0. /\ q \in Terms
        /\ q.desired \in DesiredState /\ u.desired \in DesiredState
        /\ q.expired \in BOOLEAN /\ u.expired \in BOOLEAN
    BY DEF Terms
  <1>1. CASE /\ q.phase \in {"OPEN", "PAUSED"} /\ q.desired = "RUNNING"
             /\ u.phase = "HELD" /\ u.fence = q.fence + 1
             /\ u.desired = q.desired /\ u.expired = q.expired
    <2>1. u = [q EXCEPT !.phase = "HELD", !.fence = @ + 1]
      BY <1>0, <1>1 DEF Terms
    <2>2. terms' = [terms EXCEPT ![e].phase = "HELD", ![e].fence = @ + 1]
      BY <2>1
    <2> QED BY <1>1, <2>2 DEF Contract!Next, Contract!Take
  <1>2. CASE /\ q.phase = "HELD" /\ q.expired
             /\ u.fence = q.fence + 1 /\ ~u.expired
             /\ u.phase = q.phase /\ u.desired = q.desired
    <2>1. u = [q EXCEPT !.fence = @ + 1, !.expired = FALSE]
      BY <1>0, <1>2 DEF Terms
    <2>2. terms' = [terms EXCEPT ![e].fence = @ + 1, ![e].expired = FALSE]
      BY <2>1
    <2> QED BY <1>0, <1>2, <2>2 DEF Contract!Next, Contract!TakeOver
  <1>3. CASE /\ q.phase = "HELD" /\ u.expired
             /\ u.fence = q.fence /\ u.phase = q.phase /\ u.desired = q.desired
    <2>1. u = [q EXCEPT !.expired = TRUE]
      BY <1>0, <1>3 DEF Terms
    <2>2. terms' = [terms EXCEPT ![e].expired = TRUE]
      BY <2>1
    <2> QED BY <1>0, <1>3, <2>2 DEF Contract!Next, Contract!LeaseEnds
  <1>4. CASE /\ q.phase \in {"OPEN", "HELD", "PAUSED"} /\ ~q.expired
             /\ q.desired \in {"PAUSED", "STOPPED"} /\ u.phase = q.desired
             /\ u.fence = q.fence /\ u.expired = q.expired /\ u.desired = q.desired
    <2>1. u = [q EXCEPT !.phase = q.desired]
      BY <1>0, <1>4 DEF Terms
    <2>2. terms' = [terms EXCEPT ![e].phase = terms[e].desired]
      BY <2>1
    <2> QED BY <1>0, <1>4, <2>2 DEF Contract!Next, Contract!Settle
  <1>5. CASE /\ q.phase \notin {"NONE", "STOPPED", "FAILED"} /\ ~q.expired
             /\ u.phase = "FAILED"
             /\ u.fence = q.fence /\ u.expired = q.expired /\ u.desired = q.desired
    <2>1. u = [q EXCEPT !.phase = "FAILED"]
      BY <1>0, <1>5 DEF Terms
    <2>2. terms' = [terms EXCEPT ![e].phase = "FAILED"]
      BY <2>1
    <2> QED BY <1>0, <1>5, <2>2 DEF Contract!Next, Contract!Fail, Contract!Live, Contract!Over
  <1>6. CASE /\ q.phase \notin {"NONE", "STOPPED", "FAILED"} /\ q.desired # "STOPPED"
             /\ u.phase = q.phase /\ u.fence = q.fence /\ u.expired = q.expired
             /\ u.desired # q.desired
    <2>1. u = [q EXCEPT !.desired = u.desired]
      BY <1>0, <1>6 DEF Terms
    <2>2. terms' = [terms EXCEPT ![e].desired = u.desired]
      BY <2>1
    <2> QED BY <1>0, <1>6, <2>2 DEF Contract!Next, Contract!Command, Contract!Live, Contract!Over, DesiredState
  <1>7. CASE u = q
    <2>1. terms' = terms
      BY <1>7
    <2> QED BY <2>1
  <1> QED BY <1>1, <1>2, <1>3, <1>4, <1>5, <1>6, <1>7

\* A commit takes, takes over, settles or fails; or the contract does not see it.
LEMMA CommitsContract == ASSUME IInv, NEW w \in Workers, Commits(w) PROVE [Contract!Next]_terms
  <1>1. PICK s, t : RowMove(w, s, t)
    BY DEF Commits
  <1> DEFINE e == wk[w].epoch
             r == row[e]
             q == TermsOf(r)
             u == TermsOf(t)
  <1>2. /\ t \in Rows /\ r \in Rows /\ WellFormed(r) /\ e \in Epochs
        /\ Transforms(r, w, t)
    BY <1>1, SessionType, TransformType DEF RowMove, R
  <1>3. row \in [Epochs -> Rows] /\ row' = [row EXCEPT ![e] = t]
    BY <1>1 DEF RowMove, Written, Update, IInv, TypeOK
  <1>4. /\ terms \in [Epochs -> Terms] /\ terms[e] = q
        /\ terms' = [terms EXCEPT ![e] = u]
        /\ q \in Terms /\ u \in Terms
    BY <1>2, <1>3, TermsUpdate
  <1>5. /\ q.desired = r.desired /\ q.fence = r.fence /\ q.expired = r.expired
        /\ r.observed = "ABSENT" => q.phase = "NONE"
        /\ r.observed = "PENDING" => q.phase = "OPEN"
        /\ r.observed \in ClaimRequired => q.phase = "HELD"
        /\ r.observed \in {"PAUSED", "STOPPED", "FAILED"} => q.phase = r.observed
    BY <1>2, TermsFields
  <1>6. /\ u.desired = t.desired /\ u.fence = t.fence /\ u.expired = t.expired
        /\ t.observed \in ClaimRequired => u.phase = "HELD"
        /\ t.observed \in {"PAUSED", "STOPPED", "FAILED"} => u.phase = t.observed
    BY <1>2, TermsFields
  <1>7. /\ "PAUSED" \in ObservedState /\ "STOPPED" \in ObservedState
        /\ "FAILED" \in ObservedState /\ "STARTING" \in ObservedState
        /\ "RUNNING" \in ObservedState /\ "STOPPING" \in ObservedState
    BY DEF ObservedState, ClaimRequired, TERMINAL
  <1>8. r.expired \in BOOLEAN /\ t.expired \in BOOLEAN
        /\ r.observed \in ObservedState \cup {"ABSENT"}
    BY <1>2 DEF Rows
  <1> HIDE DEF e, r, q, u
  <1>9. CASE MayClaim(r) /\ t = Claimed(r, w)
    <2>1. /\ t.desired = r.desired /\ t.observed = "STARTING"
          /\ t.fence = r.fence + 1 /\ t.expired = r.expired
      BY <1>2, <1>9, ClaimedFields
    <2>2. /\ q.phase \in {"OPEN", "PAUSED"} /\ q.desired = "RUNNING" /\ u.phase = "HELD"
          /\ u.fence = q.fence + 1 /\ u.desired = q.desired /\ u.expired = q.expired
      BY <1>5, <1>6, <1>9, <2>1 DEF MayClaim, ClaimRequired
    <2> QED BY <1>2, <1>4, <2>2, ContractSteps
  <1>10. CASE MayRecover(r) /\ t = Recovered(r, w)
    <2>1. /\ t.desired = r.desired /\ t.observed = "RECOVERING"
          /\ t.fence = r.fence + 1 /\ ~t.expired
      BY <1>2, <1>10, RecoveredFields
    <2>2. /\ q.phase = "HELD" /\ q.expired /\ u.phase = q.phase
          /\ u.fence = q.fence + 1 /\ u.desired = q.desired /\ ~u.expired
      BY <1>5, <1>6, <1>10, <2>1 DEF MayRecover, ClaimRequired
    <2> QED BY <1>2, <1>4, <2>2, ContractSteps
  <1>11. CASE /\ r.observed \notin TERMINAL \cup {"ABSENT"}
              /\ r.owner = NoOwner /\ r.desired # "RUNNING" /\ t = SettledUnclaimed(r)
    <2>1. /\ r.observed \in {"PENDING", "PAUSED"} /\ r.desired \in {"PAUSED", "STOPPED"}
          /\ ~r.expired
      BY <1>2, <1>11, UnclaimedGraph DEF WellFormed
    <2>2. /\ t.desired = r.desired /\ t.observed = r.desired
          /\ t.fence = r.fence /\ t.expired = r.expired
      <3>1. r.desired \in ObservedState
        BY <1>7, <2>1
      <3> QED BY <1>2, <1>11, <3>1, InStateFields DEF SettledUnclaimed
    <2>3. /\ q.phase \in {"OPEN", "HELD", "PAUSED"} /\ ~q.expired
          /\ q.desired \in {"PAUSED", "STOPPED"} /\ u.phase = q.desired
          /\ u.fence = q.fence /\ u.expired = q.expired /\ u.desired = q.desired
      BY <1>5, <1>6, <2>1, <2>2
    <2> QED BY <1>2, <1>4, <2>3, ContractSteps
  <1>12. CASE \/ MayStarting(r) /\ t = InState(r, "STARTING")
              \/ MayRunning(r) /\ t = InState(r, "RUNNING")
              \/ MayStopping(r) /\ t = InState(r, "STOPPING")
    <2>1. /\ t.desired = r.desired /\ t.observed \in ClaimRequired
          /\ t.fence = r.fence /\ t.expired = r.expired /\ r.observed \in ClaimRequired
      <3>1. PICK v \in {"STARTING", "RUNNING", "STOPPING"} :
               t = InState(r, v) /\ r.observed \in ClaimRequired
        BY <1>12 DEF MayStarting, MayRunning, MayStopping, ClaimRequired
      <3>2. v \in ObservedState /\ v \in ClaimRequired
        BY <1>7 DEF ClaimRequired
      <3> QED BY <1>2, <3>1, <3>2, InStateFields
    <2>2. u = q
      BY <2>1 DEF u, q, TermsOf, ClaimRequired
    <2> QED BY <1>2, <1>4, <2>2, ContractSteps
  <1>13. CASE /\ ~r.expired
              /\ \/ MayPause(r) /\ t = Released(r, "PAUSED")
                 \/ MayStop(r) /\ t = Released(r, "STOPPED")
    <2>1. PICK v \in {"PAUSED", "STOPPED"} :
             /\ t = Released(r, v) /\ r.desired = v /\ r.observed \in ClaimRequired
      BY <1>13 DEF MayPause, MayStop, ClaimRequired
    <2>2. /\ t.desired = r.desired /\ t.observed = v /\ t.fence = r.fence /\ ~t.expired
      <3>1. v \in ObservedState
        BY <1>7
      <3> QED BY <1>2, <2>1, <3>1, ReleasedFields
    <2>3. q.expired = u.expired
      BY <1>5, <1>6, <1>8, <1>13, <2>2
    <2>4. /\ q.phase \in {"OPEN", "HELD", "PAUSED"} /\ ~q.expired
          /\ q.desired \in {"PAUSED", "STOPPED"} /\ u.phase = q.desired
          /\ u.fence = q.fence /\ u.desired = q.desired
      BY <1>5, <1>6, <1>13, <2>1, <2>2
    <2> QED BY <1>2, <1>4, <2>3, <2>4, ContractSteps
  <1>14. CASE r.owner = w /\ ~r.expired /\ t = Released(r, "FAILED")
    <2>1. ~r.expired /\ r.observed \notin TERMINAL \cup {"ABSENT"}
      BY <1>2, <1>14, WorkersAssumption DEF WellFormed, ClaimRequired, TERMINAL
    <2>2. /\ t.desired = r.desired /\ t.observed = "FAILED" /\ t.fence = r.fence /\ ~t.expired
      <3>1. "FAILED" \in ObservedState
        BY <1>7
      <3> QED BY <1>2, <1>14, <3>1, ReleasedFields
    <2>3. q.expired = u.expired
      BY <1>5, <1>6, <1>8, <2>1, <2>2
    <2>4. /\ q.phase \notin {"NONE", "STOPPED", "FAILED"} /\ ~q.expired
          /\ u.phase = "FAILED" /\ u.fence = q.fence /\ u.desired = q.desired
      BY <1>5, <1>6, <1>8, <1>14, <2>1, <2>2 DEF ObservedState, TERMINAL, ClaimRequired
    <2> QED BY <1>2, <1>4, <2>3, <2>4, ContractSteps
  <1> QED
    BY <1>2, <1>9, <1>10, <1>11, <1>12, <1>13, <1>14 DEF Transforms

LEMMA StartContract == ASSUME IInv, NEW e \in Epochs, Start(e) PROVE [Contract!Next]_terms
  <1> DEFINE t == InState(row[e], "PENDING")
  <1>1. /\ row \in [Epochs -> Rows] /\ row[e].observed = "ABSENT"
        /\ row' = [row EXCEPT ![e] = t]
        /\ \A f \in Epochs : ~NonTerminal(f)
    BY DEF Start, InsertEpoch, InState, IInv, TypeOK
  <1>2. /\ t \in Rows /\ t.desired = row[e].desired /\ t.observed = "PENDING"
        /\ t.fence = row[e].fence /\ t.expired = row[e].expired
    BY <1>1, InStateFields DEF ObservedState
  <1> HIDE DEF t
  <1>3. /\ terms \in [Epochs -> Terms] /\ terms[e] = TermsOf(row[e])
        /\ terms' = [terms EXCEPT ![e] = TermsOf(t)]
    BY <1>1, <1>2, TermsUpdate
  <1>4. TermsOf(t) = [TermsOf(row[e]) EXCEPT !.phase = "OPEN"] /\ TermsOf(row[e]).phase = "NONE"
    <2>1. row[e] \in Rows /\ TermsOf(row[e]) \in Terms /\ TermsOf(t) \in Terms
      BY <1>1, <1>2, TermsFields
    <2>2. /\ TermsOf(row[e]).phase = "NONE" /\ TermsOf(t).phase = "OPEN"
          /\ TermsOf(t).desired = TermsOf(row[e]).desired
          /\ TermsOf(t).fence = TermsOf(row[e]).fence
          /\ TermsOf(t).expired = TermsOf(row[e]).expired
      BY <1>1, <1>2, <2>1, TermsFields
    <2> QED BY <2>1, <2>2 DEF Terms
  <1>5. terms' = [terms EXCEPT ![e].phase = "OPEN"]
    BY <1>3, <1>4
  <1>6. \A f \in Epochs : terms[f].phase \in {"NONE", "STOPPED", "FAILED"}
    <2> TAKE f \in Epochs
    <2>1. row[f] \in Rows /\ row[f].observed \in TERMINAL \cup {"ABSENT"}
      BY <1>1 DEF NonTerminal
    <2>2. terms[f] = TermsOf(row[f])
      BY DEF terms
    <2> QED BY <2>1, <2>2, TermsFields DEF TERMINAL
  <1>7. Contract!Start(e)
    BY <1>3, <1>4, <1>5, <1>6 DEF Contract!Start, Contract!Live, Contract!Over
  <1> QED BY <1>7 DEF Contract!Next

LEMMA CommandContract == ASSUME IInv, NEW e \in Epochs, Command(e) PROVE [Contract!Next]_terms
  <1>1. PICK d \in DesiredState : RequestCommand(e, d)
    BY DEF Command
  <1> DEFINE t == [row[e] EXCEPT !.desired = d]
  <1>2. /\ row \in [Epochs -> Rows] /\ row[e] \in Rows
        /\ row' = [row EXCEPT ![e] = t]
        /\ row[e].observed \notin TERMINAL \cup {"ABSENT"}
        /\ row[e].desired # "STOPPED" /\ d # row[e].desired
    BY <1>1 DEF RequestCommand, NonTerminal, IInv, TypeOK, Rows, DesiredState,
                ALLOWED_DESIRED_COMMANDS
  <1>3. /\ t \in Rows /\ t.observed = row[e].observed /\ t.desired = d
        /\ t.fence = row[e].fence /\ t.expired = row[e].expired
    BY <1>2 DEF Rows
  <1> HIDE DEF t
  <1>4. /\ terms \in [Epochs -> Terms] /\ terms[e] = TermsOf(row[e])
        /\ terms' = [terms EXCEPT ![e] = TermsOf(t)]
        /\ TermsOf(row[e]) \in Terms /\ TermsOf(t) \in Terms
    BY <1>2, <1>3, TermsUpdate
  <1>5. TermsOf(t).phase = TermsOf(row[e]).phase
    BY <1>3 DEF TermsOf
  <1>6. TermsOf(row[e]).phase \notin {"NONE", "STOPPED", "FAILED"}
    BY <1>2, TermsFields DEF Rows, ObservedState, TERMINAL, ClaimRequired
  <1>7. /\ TermsOf(t).fence = TermsOf(row[e]).fence
        /\ TermsOf(t).expired = TermsOf(row[e]).expired
        /\ TermsOf(t).desired # TermsOf(row[e]).desired
        /\ TermsOf(row[e]).desired # "STOPPED"
    BY <1>2, <1>3 DEF TermsOf
  <1> QED BY <1>4, <1>5, <1>6, <1>7, ContractSteps

LEMMA LeaseContract ==
    ASSUME IInv, NEW e \in Epochs, Lapse(e) \/ Expire(e)
    PROVE  [Contract!Next]_terms
  <1> DEFINE t == [row[e] EXCEPT !.expired = TRUE]
  <1>1. /\ row \in [Epochs -> Rows] /\ row[e] \in Rows /\ WellFormed(row[e])
        /\ row' = [row EXCEPT ![e] = t] /\ row[e].owner # NoOwner
    BY WorkersAssumption DEF Lapse, Expire, IInv, TypeOK
  <1>2. /\ t \in Rows /\ t.observed = row[e].observed /\ t.desired = row[e].desired
        /\ t.fence = row[e].fence /\ t.expired
    BY <1>1 DEF Rows
  <1> HIDE DEF t
  <1>3. /\ terms \in [Epochs -> Terms] /\ terms[e] = TermsOf(row[e])
        /\ terms' = [terms EXCEPT ![e] = TermsOf(t)] /\ TermsOf(t) \in Terms
    BY <1>1, <1>2, TermsUpdate
  <1>4. /\ TermsOf(t).phase = TermsOf(row[e]).phase /\ TermsOf(row[e]).phase = "HELD"
    BY <1>1, <1>2, TermsFields DEF WellFormed
  <1>5. /\ TermsOf(t).fence = TermsOf(row[e]).fence /\ TermsOf(t).expired
        /\ TermsOf(t).desired = TermsOf(row[e]).desired
    BY <1>2 DEF TermsOf
  <1> QED BY <1>3, <1>4, <1>5, ContractSteps

\* The end of a process is not seen: its claim stays until somebody takes over.
LEMMA CrashContract == ASSUME IInv, NEW w \in Workers, Crash(w) PROVE terms' = terms
  <1>1. \A e \in Epochs : TermsOf(row'[e]) = TermsOf(row[e])
    <2> TAKE e \in Epochs
    <2>1. row[e] \in Rows
          /\ row'[e] = IF row[e].owner = w THEN [row[e] EXCEPT !.owner = Gone] ELSE row[e]
      BY DEF Crash, IInv, TypeOK
    <2>2. /\ row'[e].observed = row[e].observed /\ row'[e].fence = row[e].fence
          /\ row'[e].expired = row[e].expired /\ row'[e].desired = row[e].desired
      BY <2>1 DEF Rows
    <2> QED BY <2>2 DEF TermsOf
  <1> QED BY <1>1 DEF terms

\* Every step of the paper runs is one of the contract, or none.
LEMMA StepContract == IInv /\ [Next]_vars => [Contract!Next]_terms
  <1> SUFFICES ASSUME IInv, [Next]_vars PROVE [Contract!Next]_terms
    OBVIOUS
  <1>1. CASE row' = row
    <2>1. terms' = terms
      BY <1>1 DEF terms
    <2> QED BY <2>1
  <1>2. CASE UNCHANGED vars
    BY <1>1, <1>2 DEF vars
  <1>3. ASSUME NEW e \in Epochs, Start(e) \/ Command(e) \/ Lapse(e) \/ Expire(e)
        PROVE  [Contract!Next]_terms
    BY <1>3, StartContract, CommandContract, LeaseContract
  <1>4. ASSUME NEW w \in Workers, Step(w) \/ Raises(w) PROVE [Contract!Next]_terms
    <2>1. Moves(w) => row' = row
      BY DEF Moves, SessionMove
    <2> QED BY <1>1, <1>4, <2>1, StepActs, CommitsContract DEF Acts
  <1>5. ASSUME NEW w \in Workers, Crash(w) PROVE [Contract!Next]_terms
    BY <1>5, CrashContract
  <1>6. CASE Revoke
    BY <1>1, <1>6 DEF Revoke
  <1> QED BY <1>2, <1>3, <1>4, <1>5, <1>6 DEF Next

LEMMA InitContract == Init => Contract!Init
  <1> SUFFICES ASSUME Init PROVE Contract!Init
    OBVIOUS
  <1>1. TermsOf(AbsentRow) = [desired |-> "RUNNING", phase |-> "NONE", fence |-> 0,
                              expired |-> FALSE]
    <2>1. AbsentRow \in Rows
      BY DEF AbsentRow, Rows, DesiredState
    <2>2. /\ TermsOf(AbsentRow) \in Terms
          /\ TermsOf(AbsentRow).desired = "RUNNING" /\ TermsOf(AbsentRow).phase = "NONE"
          /\ TermsOf(AbsentRow).fence = 0 /\ TermsOf(AbsentRow).expired = FALSE
      BY <2>1, TermsFields DEF AbsentRow
    <2> QED BY <2>2 DEF Terms
  <1>2. terms = [e \in Epochs |-> TermsOf(AbsentRow)]
    BY DEF Init, terms
  <1> QED BY <1>1, <1>2 DEF Contract!Init

\* The run epochs of a paper session implement the contract of fenced epochs:
\* one holder per fence, a lease taken over only after it ran out, nothing
\* settled that was not desired (the triggers of
\* operational_paper_session_run_epochs, the runs' repository).
THEOREM PaperRunsKeepTheContract == Spec => ImplementsContract
  <1>1. Spec => Contract!Spec
    BY InitContract, StepContract, Invariance, PTL DEF Spec, Contract!Spec
  <1> QED BY <1>1 DEF ImplementsContract

===============================================================================
