---------------------------- MODULE PaperSessions ----------------------------
(***************************************************************************)
(* Paper sessions on the local disk: PaperTradingService over the candles   *)
(* of the RAW dataset, PaperTradingRepository, the store of timelines and   *)
(* their references, and the continuous runner. A cycle replays the whole   *)
(* prefix under the session lock and publishes, each in a write of its own, *)
(* the timeline, its reference, the state and the summary. Any process may  *)
(* be killed between two writes, and a write may fail after it took effect. *)
(*                                                                         *)
(* The RAW dataset is the environment: it grows, leaves gaps and is         *)
(* corrected (module MarketDataTransaction); loading it is atomic under the *)
(* dataset lock.                                                            *)
(***************************************************************************)
EXTENDS PaperDocuments, FiniteSets

CONSTANTS
    Sessions,        \* the sessions, in the order the runner takes them
    ConfigOf,        \* their configurations
    Actors,          \* processes: runner, command line, worker of a run epoch
    Corrupt,         \* the answer of a reader that refuses what it reads
    RawCandles,
    Horizon,         \* bound: candles of the RAW dataset
    MaxCorrections,  \* bound: candles corrected
    MaxCycles,       \* bound: cycles of the runner
    MaxReplays,      \* bound: replays
    MaxFaults        \* bound: kills and failed writes

Ids == ToSet(Sessions)

\* What is not there, and what is.
Orders == [side : Sides, created : Nat, status : {"OPEN", "FILLED", "CANCELLED", "REJECTED"}]
Fills == [order : Nat, candle : Nat, side : Sides, quantity : Nat, price : Int, notional : Int,
          fee : Int]
Portfolios == [cash : Int, base : Int, cost : Int, realized : Int, fees : Int, equity : Int,
               peak : Int]
States == [session : Ids, version : [0..(Horizon - 1) -> RawCandles \cup {None}],
           source : Seq(RawCandles), start : Int, from : Nat, end : Nat, processed : Nat,
           last : Int, orders : Seq(Orders), fills : Seq(Fills), portfolio : Portfolios,
           halted : BOOLEAN, regime : {None, "WARMUP", "CLASSIFIED"}, schema : 1..2,
           replayedAt : Nat \cup {None}]
Summaries == [checksum : States, end : Nat, last : Int, processed : Nat, orders : Nat,
              fills : Nat, portfolio : Portfolios, halted : BOOLEAN, replayedAt : Nat]

ASSUME SessionsAssumption ==
    /\ Sessions \in Seq(Ids) /\ Sessions # <<>>
    /\ \A i, j \in DOMAIN Sessions : Sessions[i] = Sessions[j] => i = j
ASSUME PaperConfigsAssumption ==
    \A i \in DOMAIN Sessions : \A c \in {ConfigOf[Sessions[i]]} :
      /\ ValidPaperConfig(c)
      /\ {c.start, c.window, c.maxCandles, c.warmup, c.capital} \subseteq Nat
      /\ c.unit \in Nat \ {0}
ASSUME CandlesAssumption == Horizon \in Nat /\ RawCandles \subseteq [open : Nat, close : Nat]
ASSUME NoneAssumption == /\ None \notin Actors \cup RawCandles \cup States
                         /\ Corrupt \notin Summaries \cup {None}

Nothing == [folder |-> "absent", state |-> None, summary |-> None,
            timelines |-> {}, refs |-> {}]
Idle == [pc |-> "idle", session |-> None, batch |-> None, state |-> None,
         noop |-> FALSE, results |-> None]

VARIABLES
    raw,         \* the RAW dataset by open time
    corrections,
    disk,        \* the directory of each session
    lock,        \* holder of each session lock
    at,          \* what each process is doing
    runnerLock,  \* holder of the lock of the runner
    cycle,       \* the persisted state of the runner
    clock,       \* ticks with every replay
    faults

sessionVars == <<raw, corrections, disk, lock, at, runnerLock, cycle, clock, faults>>
market == <<raw, corrections>>

SessionsInit ==
    /\ raw = [t \in 0..(Horizon - 1) |-> None]
    /\ corrections = 0
    /\ disk = [s \in Ids |-> Nothing]
    /\ lock = [s \in Ids |-> None]
    /\ at = [a \in Actors |-> Idle]
    /\ runnerLock = None
    /\ cycle = [index |-> 0, status |-> None, results |-> <<>>]
    /\ clock = 0
    /\ faults = 0

-----------------------------------------------------------------------------
(* The RAW dataset *)

Stored == {t \in DOMAIN raw : raw[t] # None}
Available == IF Stored = {} THEN 0 ELSE Max(Stored) + 1

\* A candle is collected; one candle may be missing before it for a while.
Collect(t, k) == /\ raw[t] = None /\ t <= Available + 1
                 /\ raw' = [raw EXCEPT ![t] = k]
                 /\ UNCHANGED <<corrections, disk, lock, at, runnerLock, cycle, clock, faults>>

\* A stored candle becomes another. No program does that: an ingestion refuses to
\* change a candle it has (storage.py). It stands for files of RAW replaced from
\* outside, and lets the properties say what they owe to RAW never changing.
Correct(t, k) == /\ raw[t] \notin {None, k} /\ corrections < MaxCorrections
                 /\ raw' = [raw EXCEPT ![t] = k]
                 /\ corrections' = corrections + 1
                 /\ UNCHANGED <<disk, lock, at, runnerLock, cycle, clock, faults>>

\* LocalRawPaperCandleSource.load: the candles from the context start to end,
\* None when they are too few, too many or have a gap.
Load(c, end) ==
    IF /\ c.start < end /\ end <= Available
       /\ end - ContextStart(c) <= c.maxCandles
       /\ ContextStart(c)..(end - 1) \subseteq Stored
    THEN [start |-> ContextStart(c), end |-> end, version |-> raw,
          candles |-> [i \in 1..(end - ContextStart(c)) |-> raw[ContextStart(c) + i - 1]]]
    ELSE None

-----------------------------------------------------------------------------
(* A process *)

Exists(s) == disk[s].folder = "ready"
Go(a, step) == at' = [at EXCEPT ![a] = step]
Unlocked(s) == lock' = [lock EXCEPT ![s] = None]

\* The run of a session is over: the runner notes the result, others are done.
ResultOf(a, s, status, st) ==
    [session |-> s, status |-> status, state |-> IF st = None THEN None ELSE StateId(st),
     last |-> IF st = None THEN None ELSE st.last]
After(a, s, status, st) ==
    IF at[a].results = None THEN Idle
    ELSE [Idle EXCEPT !.pc = "cycle", !.results = Append(at[a].results, ResultOf(a, s, status, st))]
Conclude(a, status, st) == /\ Go(a, After(a, at[a].session, status, st))
                           /\ Unlocked(at[a].session)

\* create: the directory, then the configuration in it.
CreateFolder(a, s) ==
    /\ at[a] = Idle /\ lock[s] = None /\ ~Exists(s)
    /\ disk' = [disk EXCEPT ![s].folder = "empty"]
    /\ lock' = [lock EXCEPT ![s] = a]
    /\ Go(a, [Idle EXCEPT !.pc = "config", !.session = s])
    /\ UNCHANGED <<market, clock, runnerLock, cycle, faults>>

\* run_once up to its first write: no batch fails it, the same candles over the
\* same range only publish the timeline again, anything else is replayed, and the
\* state of the replay is validated.
Replays(a, s) ==
    LET c == ConfigOf[s]
        b == Load(c, Available)
        old == disk[s].state
        same == old # None /\ b # None /\ old.end = b.end /\ old.source = b.candles
        r == Replay(c, b.candles)
        new == StateOf(s, c, b, r, clock)
        step(batch, st) == [at[a] EXCEPT !.pc = "timeline", !.session = s, !.batch = batch,
                                         !.state = st, !.noop = same]
    IN  /\ lock[s] = None
        /\ IF \/ ~Exists(s) \/ b = None \/ ~BatchFits(c, b)
              \/ ~same /\ ~(r.ok /\ StateFits(s, c, new))
           THEN Go(a, After(a, s, "FAILED", None)) /\ UNCHANGED <<lock, clock>>
           ELSE /\ Go(a, IF same THEN step(ForState(b, old), old)
                         ELSE step(b, new))
                /\ clock' = IF same THEN clock ELSE clock + 1
                /\ ~same => clock < MaxReplays
                /\ lock' = [lock EXCEPT ![s] = a]
        /\ UNCHANGED <<market, disk, runnerLock, cycle, faults>>

RunOnce(a, s) == at[a] = Idle /\ Exists(s) /\ Replays(a, s)

\* The session lock is not obtained in time.
LockTimeout(a) ==
    /\ at[a].pc = "cycle" /\ Len(at[a].results) < Len(Sessions)
    /\ LET s == Sessions[Len(at[a].results) + 1]
       IN  lock[s] # None /\ Go(a, After(a, s, "FAILED", None))
    /\ UNCHANGED <<market, clock, disk, lock, runnerLock, cycle, faults>>

-----------------------------------------------------------------------------
(* The writes of a run. Each is described by the disk it leaves.             *)

Timeline(a) == TimelineOf(ConfigOf[at[a].session], at[a].batch, at[a].state)

\* Whether the write would be refused, by what is on the disk already.
Refused(a) ==
    LET s == at[a].session
        d == disk[s]
    IN  CASE at[a].pc = "timeline" ->
               \/ ~MayBuildTimeline(s, ConfigOf[s], at[a].batch, at[a].state)
               \/ \E t \in d.timelines : TimelineId(t) = TimelineId(Timeline(a)) /\ t # Timeline(a)
          [] at[a].pc = "reference" ->
               \E t \in d.refs : t.checksum = Timeline(a).checksum /\ t # Timeline(a)
          [] at[a].pc = "state" ->
               \/ ~StateFits(s, ConfigOf[s], at[a].state)
               \/ /\ d.state # None
                  /\ StateId(d.state) # StateId(at[a].state)
                  /\ d.state.end >= at[a].state.end
          [] OTHER -> FALSE

\* What the write leaves: publish of the timeline store, _publish_reference,
\* publish_state, _publish_summary, and create's configuration.
Written(a) ==
    LET d == disk[at[a].session]
        st == IF at[a].pc = "state" /\ d.state # None /\ StateId(d.state) = StateId(at[a].state)
              THEN d.state ELSE at[a].state
    IN  CASE at[a].pc = "config" -> [d EXCEPT !.folder = "ready"]
          [] at[a].pc = "timeline" -> [d EXCEPT !.timelines = @ \cup {Timeline(a)}]
          [] at[a].pc = "reference" -> [d EXCEPT !.refs = @ \cup {Timeline(a)}]
          [] at[a].pc = "state" -> [d EXCEPT !.state = st]
          [] at[a].pc = "summary" -> [d EXCEPT !.summary = SummaryOf(d.state)]

Writing(a) == at[a].pc \in {"config", "timeline", "reference", "state", "summary"}
Following_StateFirst == [timeline |-> "state", state |-> "reference", reference |-> "summary"]
Following == [timeline |-> "reference", reference |-> "state", state |-> "summary"]
Ends(a) == at[a].pc \in {"config", "summary"} \/ (at[a].noop /\ at[a].pc = "reference")

Write(a) ==
    /\ Writing(a) /\ ~Refused(a)
    /\ disk' = [disk EXCEPT ![at[a].session] = Written(a)]
    /\ IF Ends(a) THEN Conclude(a, IF at[a].noop THEN "NOOP" ELSE "UPDATED", at[a].state)
       ELSE Go(a, [at[a] EXCEPT !.pc = Following[@]]) /\ UNCHANGED lock
    /\ UNCHANGED <<market, clock, runnerLock, cycle, faults>>

Refuse(a) ==
    /\ Writing(a) /\ Refused(a)
    /\ Conclude(a, "FAILED", None)
    /\ UNCHANGED <<market, clock, disk, runnerLock, cycle, faults>>

\* The write raises: before it, or in the fsync after the file was replaced.
WriteFails(a, done) ==
    /\ Writing(a) /\ ~Refused(a) /\ faults < MaxFaults
    /\ disk' = IF done THEN [disk EXCEPT ![at[a].session] = Written(a)] ELSE disk
    /\ Conclude(a, "FAILED", None)
    /\ faults' = faults + 1
    /\ UNCHANGED <<market, clock, runnerLock, cycle>>

\* The kernel drops the locks of a killed process.
Kill(a) ==
    /\ at[a] # Idle /\ faults < MaxFaults
    /\ Go(a, Idle)
    /\ lock' = [s \in Ids |-> IF lock[s] = a THEN None ELSE lock[s]]
    /\ runnerLock' = IF runnerLock = a THEN None ELSE runnerLock
    /\ faults' = faults + 1
    /\ UNCHANGED <<market, clock, disk, cycle>>

-----------------------------------------------------------------------------
(* Readers *)

\* load_state_summary under the session lock, without its migration.
SummaryAnswer(s) ==
    LET d == disk[s]
    IN  IF d.state = None THEN IF d.summary = None THEN None ELSE Corrupt
        ELSE IF d.summary = None THEN SummaryOf(d.state)
        ELSE IF SummaryFits(ConfigOf[s], d.summary) /\ d.summary.checksum = Checksum(d.state)
        THEN d.summary ELSE Corrupt

\* A listing writes the summary of a state that has none.
Migrate(s) ==
    /\ lock[s] = None /\ Exists(s)
    /\ disk[s].state # None /\ disk[s].summary = None
    /\ StateFits(s, ConfigOf[s], disk[s].state)
    /\ disk' = [disk EXCEPT ![s].summary = SummaryOf(disk[s].state)]
    /\ UNCHANGED <<market, clock, lock, at, runnerLock, cycle, faults>>

\* load_state_binding, PaperPersistedStateVerifier
Bound(s, st) == \E t \in disk[s].refs : /\ t.checksum = Checksum(st) /\ t \in disk[s].timelines
                                        /\ t.version = st.version /\ t.source = st.source

\* verify takes no session lock: the state, then the candles up to its end, then
\* the timeline; verify_settlement_evidence reads the state again at the end.
Verify(a, s) ==
    /\ at[a] = Idle /\ Exists(s) /\ disk[s].state # None
    /\ Go(a, [Idle EXCEPT !.pc = "verify", !.session = s, !.state = disk[s].state])
    /\ UNCHANGED <<market, clock, disk, lock, runnerLock, cycle, faults>>

Rebuilt_OwnVersion(s, b, st) == StateOf(s, ConfigOf[s], b, Replay(ConfigOf[s], b.candles),
                                        st.replayedAt)
\* _execute with the time and the dataset version of the state.
Rebuilt(s, b, st) ==
    StateOf(s, ConfigOf[s], ForState(b, st), Replay(ConfigOf[s], b.candles), st.replayedAt)

VerifyCandles(a) ==
    LET s == at[a].session
        st == at[a].state
        b == Load(ConfigOf[s], st.end)
        good == b # None /\ b.candles = st.source /\ Rebuilt(s, b, st) = st
    IN  /\ at[a].pc = "verify"
        /\ Go(a, [at[a] EXCEPT !.pc = IF good THEN "evidence" ELSE "refused",
                           !.batch = IF b = None THEN None ELSE ForState(b, st)])
        /\ UNCHANGED <<market, clock, disk, lock, runnerLock, cycle, faults>>

VerifyEvidence(a) ==
    LET s == at[a].session
        st == at[a].state
        good == /\ TimelineOf(ConfigOf[s], at[a].batch, st) \in disk[s].timelines
                /\ disk[s].state = st
                /\ Bound(s, st)
    IN  /\ at[a].pc = "evidence"
        /\ Go(a, [at[a] EXCEPT !.pc = IF good THEN "accepted" ELSE "outdated"])
        /\ UNCHANGED <<market, clock, disk, lock, runnerLock, cycle, faults>>

Answered(a) == /\ at[a].pc \in {"accepted", "refused", "outdated"}
               /\ Go(a, Idle)
               /\ UNCHANGED <<market, clock, disk, lock, runnerLock, cycle, faults>>

-----------------------------------------------------------------------------
(* The continuous runner *)

StartRunner(a) ==
    /\ at[a] = Idle /\ runnerLock = None /\ cycle.index < MaxCycles
    /\ runnerLock' = a
    /\ Go(a, [Idle EXCEPT !.pc = "cycle", !.results = <<>>])
    /\ UNCHANGED <<market, clock, disk, lock, cycle, faults>>

NextSession(a) ==
    /\ at[a].pc = "cycle" /\ Len(at[a].results) < Len(Sessions)
    /\ Replays(a, Sessions[Len(at[a].results) + 1])

\* _aggregate
Aggregate(results) ==
    LET failed == Cardinality({i \in DOMAIN results : results[i].status = "FAILED"})
    IN  IF failed = 0 THEN "COMPLETED"
        ELSE IF failed = Len(results) THEN "FAILED" ELSE "PARTIALLY_FAILED"

\* PaperRunnerState; every result has all of its fields or, failed, none.
ValidCycle(y) ==
    /\ y.index >= 1 /\ y.results # <<>> /\ Len(y.results) <= Len(Sessions)
    /\ \A i \in DOMAIN y.results :
         (y.results[i].status = "FAILED") <=> (y.results[i].state = None)
    /\ \A i, j \in DOMAIN y.results : y.results[i].session = y.results[j].session => i = j
    /\ y.status = Aggregate(y.results)

\* The cycle is over: its state is written, or that fails and the runner ends.
EndCycle(a, written, fails) ==
    /\ at[a].pc = "cycle" /\ Len(at[a].results) = Len(Sessions)
    /\ ~fails => written
    /\ fails => faults < MaxFaults
    /\ LET y == [index |-> cycle.index + 1, status |-> Aggregate(at[a].results),
                 results |-> at[a].results]
       IN  cycle' = IF written THEN y ELSE cycle
    /\ IF fails \/ cycle'.index = MaxCycles
       THEN Go(a, Idle) /\ runnerLock' = None
       ELSE Go(a, [Idle EXCEPT !.pc = "cycle", !.results = <<>>]) /\ UNCHANGED runnerLock
    /\ faults' = IF fails THEN faults + 1 ELSE faults
    /\ UNCHANGED <<market, clock, disk, lock>>

-----------------------------------------------------------------------------
(* Specification *)

SessionsNext ==
    \/ \E t \in DOMAIN raw, k \in RawCandles : Collect(t, k)
    \/ \E t \in DOMAIN raw, k \in RawCandles : Correct(t, k)
    \/ \E s \in Ids : Migrate(s)
    \/ \E a \in Actors, s \in Ids : CreateFolder(a, s)
    \/ \E a \in Actors, s \in Ids : RunOnce(a, s)
    \/ \E a \in Actors, s \in Ids : Verify(a, s)
    \/ \E a \in Actors : StartRunner(a)
    \/ \E a \in Actors : Write(a)
    \/ \E a \in Actors : Refuse(a)
    \/ \E a \in Actors : VerifyCandles(a)
    \/ \E a \in Actors : VerifyEvidence(a)
    \/ \E a \in Actors : Answered(a)
    \/ \E a \in Actors : NextSession(a)
    \/ \E a \in Actors : LockTimeout(a)
    \/ \E a \in Actors, written, fails \in BOOLEAN : EndCycle(a, written, fails)
    \/ \E a \in Actors, done \in BOOLEAN : WriteFails(a, done)
    \/ \E a \in Actors : Kill(a)

SessionsSpec == SessionsInit /\ [][SessionsNext]_sessionVars

-----------------------------------------------------------------------------
(* Properties *)

\* What is on the disk passes the checks of whoever reads it next: states and
\* summaries against the configuration, timelines, the state of the runner.
ReadersAcceptWriters ==
    /\ \A s \in Ids :
         /\ disk[s].state # None => StateFits(s, ConfigOf[s], disk[s].state)
         /\ disk[s].summary # None => SummaryFits(ConfigOf[s], disk[s].summary)
         /\ \A t \in disk[s].timelines : ValidTimeline(t)
    /\ cycle.index > 0 => ValidCycle(cycle)

\* Whatever is killed or fails, the state a reader finds has its timeline and the
\* reference to it (docs/PAPER_TRADING_PORTFOLIO_TIMELINE.md, section 7).
StatesAreBacked == \A s \in Ids : disk[s].state # None => Bound(s, disk[s].state)

\* A listing shows the portfolio of the state on the disk; it refuses a session
\* only after a kill or a failed write between the state and the summary.
SummariesAreCurrent ==
    \A s \in Ids : lock[s] = None =>
      LET answer == SummaryAnswer(s)
      IN  IF answer = Corrupt THEN faults > 0
          ELSE disk[s].state # None => answer = SummaryOf(disk[s].state)

\* verify answers for the candles: it accepts whatever was published over them,
\* whatever RAW became outside their range, and refuses only altered candles.
VerifyIsExact ==
    \A a \in Actors :
      /\ at[a].pc = "accepted" => at[a].batch.candles = at[a].state.source
      /\ at[a].pc = "refused" =>
           \/ at[a].batch = None
           \/ at[a].batch.candles # at[a].state.source
      /\ at[a].pc = "outdated" => disk[at[a].session].state # at[a].state

\* "Publication rejects regression or another result for the same range"
\* (docs/PAPER_TRADING.md:56); and unless the candles were corrected, what was
\* decided stands: fills stay and a settled order is the same in every later state.
PublishedHistoryStands ==
    [][\A s \in Ids :
         LET old == disk[s].state
             new == disk'[s].state
         IN  old # None /\ new # old =>
               /\ new # None /\ new.end > old.end
               /\ IsPrefix(old.source, new.source) =>
                    /\ IsPrefix(old.fills, new.fills)
                    /\ \A i \in DOMAIN old.orders :
                         old.orders[i].status # "OPEN" => new.orders[i] = old.orders[i]]_sessionVars

\* Whatever was killed before, publishing a timeline again is never refused, and a
\* state only when a correction left the range of the published one as it was.
OnlyCorrectionsRefuse ==
    \A a \in Actors :
      Writing(a) /\ Refused(a) =>
        /\ at[a].pc = "state" /\ corrections > 0
        /\ disk[at[a].session].state.source # at[a].state.source

\* Whoever reads a session, between whatever two writes, is served: valid
\* documents, a state with its timeline, a summary of that state or none.
SessionsAreWhole == ReadersAcceptWriters /\ StatesAreBacked /\ SummariesAreCurrent
=============================================================================
