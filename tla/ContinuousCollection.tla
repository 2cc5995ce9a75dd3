------------------------- MODULE ContinuousCollection -------------------------
(***************************************************************************)
(* Keeping RAW datasets current: the planner, the executor of jobs, the      *)
(* adapter's pages and the quality check behind it, and the continuous       *)
(* collector that visits its targets in cycles, beside operators who         *)
(* backfill, repair gaps and resume jobs on the same directory.              *)
(*                                                                         *)
(* Candle n of a target with timeframe u opens at tick u * n.  The exchange  *)
(* serves every closed candle, the newest perhaps one candle late, except    *)
(* the ones it never had.  Storing a chunk is one step (its transaction is   *)
(* module MarketDataTransaction); pausing and cancelling jobs is in module   *)
(* MarketOperationWorker; how often the collector runs, and under whose      *)
(* epoch, in CollectorWorkers.                                               *)
(***************************************************************************)
EXTENDS Integers, Sequences, FiniteSets, SequencesExt, FiniteSetsExt

CONSTANTS
    None,
    Targets,     \* the timeframe of each target, in the order of their keys
    Holes,       \* the candles each target's exchange may never have had
    Bootstrap,   \* candles of a target that has none
    Overlap,     \* candles fetched again
    ChunkSize, MaxTotal, MaxChunks,    \* limits of the planner
    Page,        \* candles of a request
    Requests,    \* what operators ask for: [d, type, start, end]
    Actors,      \* processes: collectors and operators
    StartTime,   \* the first tick
    MaxTime,     \* bound: the last one
    MaxCycles,   \* bound: cycles of the collector
    MaxJobs,     \* bound: jobs created
    MaxFaults    \* bound: kills, failing steps and failing writes

ASSUME TargetsAssumption == Targets \in Seq(Nat \ {0}) /\ Targets # <<>>
ASSUME ActorsAssumption == None \notin Actors
ASSUME RequestsAssumption ==
    \A q \in Requests : /\ q.d \in DOMAIN Targets /\ q.type \in {"BACKFILL", "GAP_REPAIR"}
                        /\ q.start \in Nat /\ q.end \in Nat
ASSUME LimitsAssumption ==
    /\ Overlap \in Nat /\ Page \in Nat \ {0} /\ StartTime \in Nat
    /\ Bootstrap \in Nat \ {0} /\ ChunkSize \in Nat \ {0}
    /\ \A d \in DOMAIN Targets : Bootstrap * Targets[d] <= StartTime

Datasets == DOMAIN Targets
Idle == [pc |-> "idle", cycle |-> 0, results |-> <<>>, begun |-> 0, started |-> 0, job |-> 0]

VARIABLES
    now,
    hole,      \* candles the exchange never had
    stored,    \* candles of each dataset
    dlock,     \* holder of each dataset lock
    rlock,     \* holder of the collector lock
    jobs,      \* the job catalog
    receipts,  \* [job, chunk, whole] of every chunk stored by a job: did the
               \* exchange serve each of its candles?
    cycle,     \* the state file of the collector
    at,        \* what each process is doing
    faults

vars == <<now, hole, stored, dlock, rlock, jobs, receipts, cycle, at, faults>>

Init == /\ now = StartTime
        /\ hole \in {h \in [Datasets -> UNION {Holes[d] : d \in Datasets}] :
                      \A d \in Datasets : h[d] \in Holes[d]}
        /\ stored = [d \in Datasets |-> {}]
        /\ dlock = [d \in Datasets |-> None]
        /\ rlock = None
        /\ jobs = <<>>
        /\ receipts = {}
        /\ cycle = [index |-> 0, status |-> None, begun |-> 0, ended |-> 0, results |-> <<>>]
        /\ at = [a \in Actors |-> Idle]
        /\ faults = 0

-----------------------------------------------------------------------------
(* The planner: ranges are [start, end) in candles                           *)

LatestEnd(d, t) == t \div Targets[d]

Chunked(start, end) ==
    [i \in 1..((end - start + ChunkSize - 1) \div ChunkSize) |->
        [start |-> start + (i - 1) * ChunkSize, end |-> Min({end, start + i * ChunkSize})]]

\* incremental: from the overlap before the next expected candle.
IncrementalStart(d, latest) ==
    IF stored[d] = {} THEN latest - Bootstrap
    ELSE Max({Min(stored[d]), Max(stored[d]) + 1 - Overlap})

\* find_gap_ranges
GapRanges(d, start, end) ==
    LET missing == (start..(end - 1)) \ stored[d]
        first == {n \in missing : n - 1 \notin missing}
        after(n) == Min({m \in n..end : m \notin missing})
        order == CHOOSE s \in [1..Cardinality(first) -> first] :
                   \A i, j \in DOMAIN s : i < j => s[i] < s[j]
    IN  [i \in DOMAIN order |-> [start |-> order[i], end |-> after(order[i])]]

\* gaps: every gap is planned on its own, the chunks are numbered through.
RepairChunks(d, start, end) ==
    LET gaps == GapRanges(d, start, end)
    IN  FlattenSeq([i \in DOMAIN gaps |-> Chunked(gaps[i].start, gaps[i].end)])

MayPlan(d, chunks, end, t) ==
    /\ chunks # <<>> /\ end <= LatestEnd(d, t)
    /\ Len(chunks) <= MaxChunks
    /\ FoldLeft(LAMBDA n, k : n + k.end - k.start, 0, chunks) <= MaxTotal

\* _validate_incremental_plan: the chunks cover the range up to the latest end.
PlanAccepted(chunks, latest) ==
    /\ chunks # <<>> /\ Last(chunks).end = latest
    /\ \A i \in DOMAIN chunks :
         /\ chunks[i].end - chunks[i].start \in 1..ChunkSize
         /\ i > 1 => chunks[i].start = chunks[i - 1].end

NewJob(d, type, start, end, chunks) ==
    [d |-> d, type |-> type, start |-> start, end |-> end, chunks |-> chunks,
     next |-> 1, status |-> "PLANNED"]

-----------------------------------------------------------------------------
(* The exchange and the quality check                                        *)

Served(d, late) ==
    {n \in 0..(LatestEnd(d, now) - 1) : n < LatestEnd(d, now) - late /\ n \notin hole[d]}

\* (mutant) a full page is taken for the last one.
Fetched_OnePage(served, r) ==
    LET rows == {n \in r.start..(r.end - 1) : n \in served}
    IN  {n \in rows : Cardinality({m \in rows : m < n}) < Page}
\* fetch_candles: page by page, each from the candle after the last one received.
Fetched(served, r) ==
    LET rows(c) == {n \in c..(r.end - 1) : n \in served}
        page(c) == {n \in rows(c) : Cardinality({m \in rows(c) : m < n}) < Page}
        from[c \in r.start..r.end] ==
          IF Cardinality(page(c)) < Page THEN page(c) ELSE page(c) \cup from[Max(page(c)) + 1]
    IN  from[r.start]

\* validate: a candle missing between two is an error, at either end a warning.
ValidBatch(b) == b = {} \/ b = Min(b)..Max(b)

\* verify: the candles of a range are all there.
Complete(d, start, end) == start..(end - 1) \subseteq stored[d]

-----------------------------------------------------------------------------
(* Processes                                                                 *)

Go(a, step) == at' = [at EXCEPT ![a] = step]
JobOf(a) == jobs[at[a].job]
SetJob(j, job) == jobs' = [jobs EXCEPT ![j] = job]

\* ContinuousTargetResult
ResultOf(a, status) ==
    LET d == Len(at[a].results) + 1
    IN  [d |-> d, status |-> status, job |-> at[a].job, started |-> at[a].started,
         finished |-> now, latest |-> LatestEnd(d, at[a].started)]

\* (mutant) the job of a target is still there at the next one.
After_KeepsJob(a, status) ==
    IF at[a].cycle = 0 THEN Idle
    ELSE [at[a] EXCEPT !.pc = "target", !.started = now,
                       !.results = Append(@, ResultOf(a, status))]
\* A job or a target is over: a collector notes it, an operator is done.
After(a, status) ==
    IF at[a].cycle = 0 THEN Idle
    ELSE [at[a] EXCEPT !.pc = "target", !.job = 0, !.started = now,
                       !.results = Append(@, ResultOf(a, status))]

Abandoned(j) == jobs[j].status = "RUNNING" /\ dlock[jobs[j].d] = None

\* recover_abandoned
Recovered == [j \in DOMAIN jobs |-> IF Abandoned(j) THEN [jobs[j] EXCEPT !.status = "FAILED"]
                                    ELSE jobs[j]]

\* The collector starts: under its lock it recovers jobs and reads its state.
StartRunner(a) ==
    /\ at[a] = Idle /\ rlock = None /\ cycle.index < MaxCycles
    /\ rlock' = a
    /\ jobs' = Recovered
    /\ Go(a, [Idle EXCEPT !.pc = "target", !.cycle = cycle.index + 1,
                          !.begun = now, !.started = now])
    /\ UNCHANGED <<now, hole, stored, dlock, receipts, cycle, faults>>

\* _collect_target up to the job: current, refused by the planner, or planned.
PlanTarget(a) ==
    LET d == Len(at[a].results) + 1
        latest == LatestEnd(d, at[a].started)
        start == IncrementalStart(d, latest)
        chunks == Chunked(start, latest)
        current == stored[d] # {} /\ Max(stored[d]) + 1 >= latest
        planned == MayPlan(d, chunks, latest, at[a].started) /\ PlanAccepted(chunks, latest)
    IN  /\ at[a].pc = "target" /\ d \in Datasets /\ dlock[d] = None
        /\ ~current /\ planned => Len(jobs) < MaxJobs
        /\ jobs' = IF current \/ ~planned THEN jobs
                   ELSE Append(jobs, NewJob(d, "INCREMENTAL", start, latest, chunks))
        /\ Go(a, IF current THEN After(a, "NOOP") ELSE IF ~planned THEN After(a, "FAILED")
                 ELSE [at[a] EXCEPT !.pc = "lock", !.job = Len(jobs) + 1])
        /\ UNCHANGED <<now, hole, stored, dlock, rlock, receipts, cycle, faults>>

\* An operator plans a backfill or the repair of a range.
Manual(a, q) ==
    LET chunks == IF q.type = "BACKFILL" THEN Chunked(q.start, q.end)
                  ELSE RepairChunks(q.d, q.start, q.end)
    IN  /\ at[a] = Idle /\ MayPlan(q.d, chunks, q.end, now)
        /\ q.type = "GAP_REPAIR" => dlock[q.d] = None
        /\ Len(jobs) < MaxJobs
        /\ jobs' = Append(Recovered, NewJob(q.d, q.type, q.start, q.end, chunks))
        /\ Go(a, [Idle EXCEPT !.pc = "lock", !.job = Len(jobs) + 1])
        /\ UNCHANGED <<now, hole, stored, dlock, rlock, receipts, cycle, faults>>

Resume(a, j) ==
    /\ at[a] = Idle /\ jobs[j].status = "FAILED"
    /\ Go(a, [Idle EXCEPT !.pc = "lock", !.job = j])
    /\ UNCHANGED <<now, hole, stored, dlock, rlock, jobs, receipts, cycle, faults>>

\* The dataset lock is not obtained in time, or the instrument lookup fails.
Barred(a) ==
    LET d == IF at[a].pc = "lock" THEN JobOf(a).d ELSE Len(at[a].results) + 1
    IN  /\ at[a].pc \in {"target", "lock"} /\ d \in Datasets
        /\ dlock[d] = None => at[a].pc = "target" /\ faults < MaxFaults
        /\ faults' = IF dlock[d] = None THEN faults + 1 ELSE faults
        /\ Go(a, After(a, "FAILED"))
        /\ UNCHANGED <<now, hole, stored, dlock, rlock, jobs, receipts, cycle>>

\* _execute: the job of another process that ended meanwhile is not started.
BeginJob(a) ==
    /\ at[a].pc = "lock" /\ dlock[JobOf(a).d] = None
    /\ IF JobOf(a).status \in {"PLANNED", "FAILED"}
       THEN /\ dlock' = [dlock EXCEPT ![JobOf(a).d] = a]
            /\ SetJob(at[a].job, [JobOf(a) EXCEPT !.status = "RUNNING"])
            /\ Go(a, [at[a] EXCEPT !.pc = "chunk"])
       ELSE Go(a, After(a, "FAILED")) /\ UNCHANGED <<dlock, jobs>>
    /\ UNCHANGED <<now, hole, stored, rlock, receipts, cycle, faults>>

EndJob(a, status, result) ==
    /\ SetJob(at[a].job, [JobOf(a) EXCEPT !.status = status,
                                          !.next = IF status = "COMPLETED" THEN @ + 1 ELSE @])
    /\ dlock' = [dlock EXCEPT ![JobOf(a).d] = None]
    /\ Go(a, After(a, result))

Committed(j, i) == \E t \in receipts : t.job = j /\ t.chunk = i

\* One chunk, unless it is there with a receipt of this job. The receipt of a second
\* answer differs from the first, and is refused with its candles.
Ingest(a, late) ==
    LET d == JobOf(a).d
        r == JobOf(a).chunks[JobOf(a).next]
        committed == Committed(at[a].job, JobOf(a).next)
        confirmed == committed /\ Complete(d, r.start, r.end)
        batch == Fetched(Served(d, late), r)
        receipt == [job |-> at[a].job, chunk |-> JobOf(a).next,
                    whole |-> r.start..(r.end - 1) \subseteq batch]
    IN  /\ at[a].pc = "chunk"
        /\ IF ~confirmed /\ (committed \/ ~ValidBatch(batch))
           THEN EndJob(a, "FAILED", "FAILED") /\ UNCHANGED <<stored, receipts>>
           ELSE /\ stored' = IF confirmed THEN stored ELSE [stored EXCEPT ![d] = @ \cup batch]
                /\ receipts' = IF confirmed THEN receipts ELSE receipts \cup {receipt}
                /\ Go(a, [at[a] EXCEPT !.pc = "checkpoint"])
                /\ UNCHANGED <<dlock, jobs>>
        /\ UNCHANGED <<now, hole, rlock, cycle, faults>>

\* _verify_repair, before the checkpoint of the last chunk.
RepairStands(job) == Complete(job.d, job.start, job.end)

\* candles_fetched = candles_expected, summed over the receipts of j.
AllFetched(j) == \A t \in receipts : t.job = j => t.whole

\* (mutant) nobody compares what was fetched with what was expected.
MayComplete_Uncounted(j) == jobs[j].type = "GAP_REPAIR" => RepairStands(jobs[j])
\* What the last checkpoint of a job demands: of a repair the range, of a backfill or
\* an update that every candle was counted (_validate_record).
MayComplete(j) ==
    IF jobs[j].type = "GAP_REPAIR" THEN RepairStands(jobs[j]) ELSE AllFetched(j)

Checkpoint(a) ==
    LET job == JobOf(a)
        last == job.next = Len(job.chunks)
    IN  /\ at[a].pc = "checkpoint"
        /\ IF last
           THEN IF MayComplete(at[a].job) THEN EndJob(a, "COMPLETED", "UPDATED")
                ELSE EndJob(a, "FAILED", "FAILED")
           ELSE /\ SetJob(at[a].job, [job EXCEPT !.next = @ + 1])
                /\ Go(a, [at[a] EXCEPT !.pc = "chunk"])
                /\ UNCHANGED dlock
        /\ UNCHANGED <<now, hole, stored, rlock, receipts, cycle, faults>>

\* The exchange, the disk or the catalog fails.
StepFails(a) ==
    /\ at[a].pc \in {"chunk", "checkpoint"} /\ faults < MaxFaults
    /\ EndJob(a, "FAILED", "FAILED")
    /\ faults' = faults + 1
    /\ UNCHANGED <<now, hole, stored, rlock, receipts, cycle>>

\* The kernel drops the locks of a killed process.
Kill(a) ==
    /\ at[a] # Idle /\ faults < MaxFaults
    /\ Go(a, Idle)
    /\ dlock' = [d \in Datasets |-> IF dlock[d] = a THEN None ELSE dlock[d]]
    /\ rlock' = IF rlock = a THEN None ELSE rlock
    /\ faults' = faults + 1
    /\ UNCHANGED <<now, hole, stored, jobs, receipts, cycle>>

\* _aggregate_status
Aggregate(results) ==
    LET failed == Cardinality({i \in DOMAIN results : results[i].status = "FAILED"})
    IN  IF failed = 0 THEN "COMPLETED"
        ELSE IF failed = Len(results) THEN "FAILED" ELSE "PARTIALLY_FAILED"

\* The state of a cycle whose targets are all visited.
CycleOf(a) ==
    [index |-> at[a].cycle, status |-> Aggregate(at[a].results), begun |-> at[a].begun,
     ended |-> now, results |-> at[a].results]

\* What the constructor of a result and that of a state refuse.
ValidResult(r) ==
    /\ r.started <= r.finished /\ r.latest * Targets[r.d] <= r.finished
    /\ r.status = "UPDATED" => r.job # 0
    /\ r.status = "NOOP" => r.job = 0
ValidState(c) ==
    /\ c.begun <= c.ended /\ c.results # <<>>
    /\ \A i \in DOMAIN c.results :
         /\ ValidResult(c.results[i])
         /\ c.begun <= c.results[i].started /\ c.results[i].finished <= c.ended
         /\ i > 1 => c.results[i - 1].d < c.results[i].d
    /\ c.status = Aggregate(c.results)

\* write: indexes grow by one.
Accepted(c) == ValidState(c) /\ c.index = cycle.index + 1

\* The state is written, refused, or that fails, perhaps after it took effect.
Publish(a, written, fails) ==
    LET accepted == Accepted(CycleOf(a))
    IN  /\ at[a].pc = "target" /\ Len(at[a].results) = Len(Targets)
        /\ written => accepted
        /\ ~fails => written
        /\ fails /\ accepted => faults < MaxFaults
        /\ cycle' = IF written THEN CycleOf(a) ELSE cycle
        /\ IF fails \/ at[a].cycle = MaxCycles
           THEN Go(a, Idle) /\ rlock' = None
           ELSE /\ Go(a, [Idle EXCEPT !.pc = "target", !.cycle = at[a].cycle + 1,
                                      !.begun = now, !.started = now])
                /\ UNCHANGED rlock
        /\ faults' = IF fails /\ accepted THEN faults + 1 ELSE faults
        /\ UNCHANGED <<now, hole, stored, dlock, jobs, receipts>>

Tick == /\ now < MaxTime
        /\ now' = now + 1
        /\ UNCHANGED <<hole, stored, dlock, rlock, jobs, receipts, cycle, at, faults>>

Next ==
    \/ Tick
    \/ \E a \in Actors : StartRunner(a)
    \/ \E a \in Actors : PlanTarget(a)
    \/ \E a \in Actors : \E q \in Requests : Manual(a, q)
    \/ \E a \in Actors : \E j \in DOMAIN jobs : Resume(a, j)
    \/ \E a \in Actors : Barred(a)
    \/ \E a \in Actors : BeginJob(a)
    \/ \E a \in Actors, late \in 0..1 : Ingest(a, late)
    \/ \E a \in Actors : Checkpoint(a)
    \/ \E a \in Actors : StepFails(a)
    \/ \E a \in Actors, written, fails \in BOOLEAN : Publish(a, written, fails)
    \/ \E a \in Actors : Kill(a)

Spec == Init /\ [][Next]_vars

-----------------------------------------------------------------------------
(* Properties *)

\* The plans made while a dataset was empty, and any other of their length.
FirstPlans(d) == {j \in DOMAIN jobs : jobs[j].d = d /\ jobs[j].end - jobs[j].start = Bootstrap}

\* A dataset that only collectors filled lacks a candle between two only when the
\* exchange never had it, or when it was planned empty twice: the job of the first
\* plan, resumed after the second was stored, may end before the second starts, and
\* no later plan looks back. Nothing else leaves a gap, whatever chunks failed, were
\* killed, late or resumed.
GapsAreExplained ==
    \A d \in Datasets :
      /\ \A j \in DOMAIN jobs : jobs[j].d = d => jobs[j].type = "INCREMENTAL"
      /\ stored[d] # {}
      => \A n \in (Min(stored[d])..Max(stored[d])) \ (stored[d] \cup hole[d]) :
           \E i, j \in FirstPlans(d) : i < j /\ jobs[i].start <= n /\ n < jobs[j].start

\* What a cycle reports of a target holds: NOOP, that it has a candle no older than
\* the latest closed one; UPDATED, that it has every candle of the plan, whatever the
\* exchange served late or never, and whoever ran and resumed the job.
ReportsHold ==
    \A i \in DOMAIN cycle.results :
      LET r == cycle.results[i]
      IN  /\ r.status = "NOOP" => \E n \in stored[r.d] : n >= r.latest - 1
          /\ r.status = "UPDATED" =>
               jobs[r.job].start..(r.latest - 1) \subseteq stored[r.d]

\* A repair that COMPLETED left no gap in the range it was asked for
\* (docs/MARKET_DATA.md:83).
RepairedIsWhole ==
    \A j \in DOMAIN jobs :
      jobs[j].type = "GAP_REPAIR" /\ jobs[j].status = "COMPLETED" =>
        Complete(jobs[j].d, jobs[j].start, jobs[j].end)

\* What jobs and cycles report of the candles is so.
OutcomesHold == ReportsHold /\ RepairedIsWhole

\* No cycle is lost to its own validation: once every target was visited, whatever
\* failed in them, the state is one the store accepts and can read back.
CyclesAreAccepted ==
    \A a \in Actors :
      at[a].pc = "target" /\ Len(at[a].results) = Len(Targets) => Accepted(CycleOf(a))
=============================================================================
