------------------------ MODULE MarketDataTransaction ------------------------
(***************************************************************************)
(* MarketDataTransactionCoordinator: the PREPARED/COMMITTED journal that    *)
(* makes the Parquet partitions of a dataset and catalog.json change        *)
(* together, its rollback in the process that failed, and its recovery by   *)
(* whichever process comes next, at start-up or before it uses a dataset.   *)
(*                                                                         *)
(* A process may be killed between any two changes of the file system.      *)
(* The content of a partition is the set of chunks whose candles it holds   *)
(* ({} when there is no file), the version in the catalog the set of chunks *)
(* of the dataset.  Temporary files are not followed: only their own        *)
(* transaction ever reads them, and they are prepared with the journal.     *)
(***************************************************************************)
EXTENDS Integers, FiniteSets

CONSTANTS
    Datasets,
    Months,         \* partitions of a dataset, numbered
    Chunks,         \* chunks to ingest
    DatasetOf,      \* the dataset of a chunk
    MonthsOf,       \* the partitions a chunk has candles in
    Procs,          \* processes on this data directory
    MaxRuns,        \* bound: ingestion runs started per dataset
    MaxFaults,      \* bound: faults of a behaviour
    FailureCost,    \* bound: what an input/output failure counts; a crash counts 1
    None

ASSUME MonthsAssumption == Months \subseteq Nat /\ IsFiniteSet(Months)
ASSUME ChunksAssumption == /\ DatasetOf \in [Chunks -> Datasets]
                           /\ MonthsOf \in [Chunks -> SUBSET Months]
ASSUME ProcsAssumption == None \notin Procs \cup Datasets \cup Chunks
ASSUME BoundsAssumption == {MaxRuns, MaxFaults, FailureCost} \subseteq Nat

VARIABLES
    file,       \* file[d][m]: chunks in candles.parquet of month m
    backup,     \* backup[d][m]: the original, moved aside by a pending transaction
    catalog,    \* catalog.json
    saved,      \* saved[d]: catalog backup of the pending transaction of d
    journal,    \* journal[d]: the journal file of d
    dlock,      \* dlock[d]: holder of the dataset flock
    clock,      \* holder of the catalog flock
    proc,       \* proc[w]: where process w stands
    reported,   \* chunks whose ingestion returned successfully
    faults

vars == <<file, backup, catalog, saved, journal, dlock, clock, proc, reported, faults>>
disk == <<file, backup, catalog, saved, journal>>

-----------------------------------------------------------------------------
RunStates == {"ABSENT", "RUNNING", "COMPLETED", "FAILED"}
Catalogs == [data : [Datasets -> SUBSET Chunks],              \* datasets: version
             receipts : SUBSET Chunks,                        \* chunk receipts
             run : [Datasets -> [1..MaxRuns -> RunStates]]]   \* ingestion runs

\* _load of a missing catalog.json.
EmptyCatalog == [data |-> [d \in Datasets |-> {}], receipts |-> {},
                 run |-> [d \in Datasets |-> [n \in 1..MaxRuns |-> "ABSENT"]]]

Journals == [state : {"PREPARED", "COMMITTED"}, chunk : Chunks, run : 1..MaxRuns,
             months : SUBSET Months,    \* partitions the transaction replaces
             had : SUBSET Months,       \* those with had_original
             before : SUBSET Chunks]    \* dataset_before

\* None is neither a file's content nor a process.
ASSUME NoneAssumption == None \notin Journals /\ None \notin Catalogs

\* The executor's steps, and who called the recovery or the cleanup.
Points == {"idle", "recover", "undo", "restore", "clean", "dropBackup", "dropJournal",
           "ready", "fetch", "aside", "promote", "catalog", "commit",
           "rollback", "rollbackRestore", "failRun", "startup", "snapshot", "mark"}
Callers == {"none", "ingest", "startup", "rollback", "finalize"}

Processes == [pc : Points, why : Callers, ds : Datasets \cup {None},
              chunk : Chunks \cup {None}, run : 0..MaxRuns,
              todo : SUBSET Months,               \* partitions left in this loop
              pending : SUBSET Datasets,          \* datasets left to recover
              runs : SUBSET (Datasets \X (1..MaxRuns))]  \* RUNNING runs seen

Idle == [pc |-> "idle", why |-> "none", ds |-> None, chunk |-> None, run |-> 0,
         todo |-> {}, pending |-> {}, runs |-> {}]

At(w, pc) == proc[w].pc = pc
Go(w, pc) == proc' = [proc EXCEPT ![w].pc = pc]
GoTodo(w, pc, todo) == proc' = [proc EXCEPT ![w].pc = pc, ![w].todo = todo]
Ds(w) == proc[w].ds
Least(S) == CHOOSE m \in S : \A k \in S : m <= k
Greatest(S) == CHOOSE m \in S : \A k \in S : m >= k

Free(w, locks) == [d \in Datasets |-> IF locks[d] = w THEN None ELSE locks[d]]
FreeCatalog(w) == IF clock = w THEN None ELSE clock

\* Every lock of w is freed and it has nothing in hand.
Leave(w) == /\ proc' = [proc EXCEPT ![w] = Idle]
            /\ dlock' = Free(w, dlock)
            /\ clock' = FreeCatalog(w)

-----------------------------------------------------------------------------
(* Taking a dataset: acquire, then recover_dataset *)

\* An idle process is one between two commands; which of them started first,
\* and when it ran recover(), does not matter to those that follow.
Begin(w, c) ==
    /\ At(w, "idle")
    /\ dlock[DatasetOf[c]] = None
    /\ dlock' = [dlock EXCEPT ![DatasetOf[c]] = w]
    /\ proc' = [proc EXCEPT ![w] = [Idle EXCEPT !.pc = "recover", !.why = "ingest",
                                                !.ds = DatasetOf[c], !.chunk = c]]
    /\ UNCHANGED <<disk, clock, reported, faults>>

\* rollback_semantic: every key of the transaction has its previous or its
\* intended value ...
OwnsKeys(d, j) ==
    /\ catalog.data[d] \in {j.before, j.before \cup {j.chunk}}
    /\ catalog.run[d][j.run] \in {"RUNNING", "COMPLETED"}

\* (mutant) the whole catalog comes back from the backup of the transaction.
RevertedCatalog_FromBackup(d, j) == IF saved[d] # None THEN saved[d] ELSE catalog
\* ... and gets the previous one; other keys stay.
RevertedCatalog(d, j) ==
    [catalog EXCEPT !.data[d] = j.before, !.run[d][j.run] = "RUNNING",
                    !.receipts = @ \ {j.chunk}]

\* What recover_dataset returns to.
Recovered(w) ==
    IF proc[w].why = "ingest"
    THEN Go(w, "ready") /\ UNCHANGED dlock
    ELSE /\ proc' = [proc EXCEPT ![w].pc = "startup", ![w].ds = None, ![w].why = "none"]
         /\ dlock' = Free(w, dlock)

\* The catalog lease, and what the journal of the dataset asks for.
Recover(w) ==
    LET d == Ds(w)
        j == journal[d]
    IN  /\ At(w, "recover")
        /\ clock = None
        /\ \/ /\ j = None
              /\ Recovered(w)
              /\ UNCHANGED <<clock, disk>>
           \/ /\ j # None /\ j.state = "PREPARED" /\ OwnsKeys(d, j)
              /\ clock' = w
              /\ catalog' = RevertedCatalog(d, j)
              /\ GoTodo(w, "undo", j.months)
              /\ UNCHANGED <<file, backup, saved, journal, dlock>>
           \/ /\ j # None /\ j.state = "PREPARED" /\ ~OwnsKeys(d, j)
              /\ Leave(w)    \* "O catálogo divergiu da transação pendente."
              /\ UNCHANGED disk
           \/ /\ j # None /\ j.state = "COMMITTED"
              /\ clock' = w
              /\ GoTodo(w, "clean", j.months)
              /\ UNCHANGED <<disk, dlock>>
        /\ UNCHANGED <<reported, faults>>

\* _rollback_artifact of the last partition left: the original comes back, a
\* partition that had none disappears.
Undo(w) ==
    LET d == Ds(w)
        m == Greatest(proc[w].todo)
    IN  /\ At(w, "undo")
        /\ \/ /\ proc[w].todo = {}
              /\ Go(w, "dropBackup")
              /\ UNCHANGED file
           \/ /\ proc[w].todo # {} /\ backup[d][m] # {}
              /\ file' = [file EXCEPT ![d][m] = {}]
              /\ Go(w, "restore")
           \/ /\ proc[w].todo # {} /\ backup[d][m] = {}
              /\ file' = IF m \in journal[d].had THEN file ELSE [file EXCEPT ![d][m] = {}]
              /\ GoTodo(w, "undo", proc[w].todo \ {m})
        /\ UNCHANGED <<backup, catalog, saved, journal, dlock, clock, reported, faults>>

Restore(w) ==
    LET d == Ds(w)
        m == Greatest(proc[w].todo)
    IN  /\ At(w, "restore")
        /\ file' = [file EXCEPT ![d][m] = backup[d][m]]
        /\ backup' = [backup EXCEPT ![d][m] = {}]
        /\ GoTodo(w, "undo", proc[w].todo \ {m})
        /\ UNCHANGED <<catalog, saved, journal, dlock, clock, reported, faults>>

\* _cleanup_artifacts of a committed transaction: the backups go.
Clean(w) ==
    LET d == Ds(w)
        m == Least(proc[w].todo)
    IN  /\ At(w, "clean")
        /\ \/ /\ proc[w].todo = {}
              /\ Go(w, "dropBackup")
              /\ UNCHANGED backup
           \/ /\ proc[w].todo # {}
              /\ backup' = [backup EXCEPT ![d][m] = {}]
              /\ GoTodo(w, "clean", proc[w].todo \ {m})
        /\ UNCHANGED <<file, catalog, saved, journal, dlock, clock, reported, faults>>

DropBackup(w) ==
    /\ At(w, "dropBackup")
    /\ saved' = [saved EXCEPT ![Ds(w)] = None]
    /\ Go(w, "dropJournal")
    /\ UNCHANGED <<file, backup, catalog, journal, dlock, clock, reported, faults>>

\* execute has returned.
Report(w) == reported' = reported \cup {proc[w].chunk}

DropJournal(w) ==
    /\ At(w, "dropJournal")
    /\ journal' = [journal EXCEPT ![Ds(w)] = None]
    /\ \/ /\ proc[w].why \in {"ingest", "startup"}
          /\ clock' = None
          /\ Recovered(w)
          /\ UNCHANGED reported
       \/ /\ proc[w].why = "rollback"
          /\ clock' = None
          /\ Go(w, "failRun")
          /\ UNCHANGED <<dlock, reported>>
       \/ proc[w].why = "finalize" /\ Report(w) /\ Leave(w)
    /\ UNCHANGED <<file, backup, catalog, saved, faults>>

-----------------------------------------------------------------------------
(* One ingestion: _ingest and execute *)

\* A reader of the dataset (verify, inspect, planning) is done.
Read(w) ==
    /\ At(w, "ready")
    /\ Leave(w)
    /\ UNCHANGED <<disk, reported, faults>>

\* start_run.  A chunk with a receipt is not ingested again: the executor of
\* its job finds the receipt first.
StartRun(w) ==
    LET d == Ds(w)
        unused == {n \in 1..MaxRuns : catalog.run[d][n] = "ABSENT"}
    IN  /\ At(w, "ready")
        /\ proc[w].chunk \notin catalog.receipts
        /\ clock = None
        /\ unused # {}
        /\ catalog' = [catalog EXCEPT !.run[d][Least(unused)] = "RUNNING"]
        /\ proc' = [proc EXCEPT ![w].pc = "fetch", ![w].run = Least(unused)]
        /\ UNCHANGED <<file, backup, saved, journal, dlock, clock, reported, faults>>

\* The source fails, or what it sent or its run is not valid.
FetchFails(w) ==
    /\ At(w, "fetch")
    /\ Go(w, "failRun")
    /\ UNCHANGED <<disk, dlock, clock, reported, faults>>

\* (mutant) had_original is taken for granted.
NewJournal_AllHad(w) ==
    LET d == Ds(w)
        planned == {m \in MonthsOf[proc[w].chunk] : proc[w].chunk \notin file[d][m]}
    IN  [state |-> "PREPARED", chunk |-> proc[w].chunk, run |-> proc[w].run,
         months |-> planned, had |-> planned, before |-> catalog.data[d]]

\* plan_upsert, prepare_completion and the PREPARED journal.
NewJournal(w) ==
    LET d == Ds(w)
        planned == {m \in MonthsOf[proc[w].chunk] : proc[w].chunk \notin file[d][m]}
    IN  [state |-> "PREPARED", chunk |-> proc[w].chunk, run |-> proc[w].run,
         months |-> planned, had |-> {m \in planned : file[d][m] # {}},
         before |-> catalog.data[d]]

\* prepare_completion refuses a run that is not RUNNING (see FetchFails).
Prepare(w) ==
    /\ At(w, "fetch")
    /\ clock = None
    /\ catalog.run[Ds(w)][proc[w].run] = "RUNNING"
    /\ clock' = w
    /\ journal' = [journal EXCEPT ![Ds(w)] = NewJournal(w)]
    /\ GoTodo(w, "aside", NewJournal(w).months)
    /\ UNCHANGED <<file, backup, catalog, saved, dlock, reported, faults>>

\* promote_partition: the original is moved aside ...
Aside(w) ==
    LET d == Ds(w)
        m == Least(proc[w].todo)
    IN  /\ At(w, "aside")
        /\ \/ /\ proc[w].todo = {}
              /\ Go(w, "catalog")
              /\ UNCHANGED <<file, backup>>
           \/ /\ proc[w].todo # {}
              /\ backup' = [backup EXCEPT ![d][m] = file[d][m]]
              /\ file' = [file EXCEPT ![d][m] = {}]
              /\ Go(w, "promote")
        /\ UNCHANGED <<catalog, saved, journal, dlock, clock, reported, faults>>

\* ... and the prepared file takes its name.
Promote(w) ==
    LET d == Ds(w)
        m == Least(proc[w].todo)
    IN  /\ At(w, "promote")
        /\ file' = [file EXCEPT ![d][m] = backup[d][m] \cup {proc[w].chunk}]
        /\ GoTodo(w, "aside", proc[w].todo \ {m})
        /\ UNCHANGED <<backup, catalog, saved, journal, dlock, clock, reported, faults>>

\* The hard link and the replacement of catalog.json.
PromoteCatalog(w) ==
    LET d == Ds(w)
    IN  /\ At(w, "catalog")
        /\ saved' = [saved EXCEPT ![d] = catalog]
        /\ catalog' = [catalog EXCEPT !.data[d] = @ \cup {proc[w].chunk},
                                      !.run[d][proc[w].run] = "COMPLETED",
                                      !.receipts = @ \cup {proc[w].chunk}]
        /\ Go(w, "commit")
        /\ UNCHANGED <<file, backup, journal, dlock, clock, reported, faults>>

\* The COMMITTED journal, then _finalize.
Commit(w) ==
    LET d == Ds(w)
    IN  /\ At(w, "commit")
        /\ journal' = [journal EXCEPT ![d].state = "COMMITTED"]
        /\ proc' = [proc EXCEPT ![w].pc = "clean", ![w].why = "finalize",
                                ![w].todo = journal[d].months]
        /\ UNCHANGED <<file, backup, catalog, saved, dlock, clock, reported, faults>>

\* _rollback_full: catalog.json is unlinked, then its backup takes its place.
Rollback(w) ==
    /\ At(w, "rollback")
    /\ \/ /\ saved[Ds(w)] # None
          /\ catalog' = EmptyCatalog
          /\ Go(w, "rollbackRestore")
       \/ /\ saved[Ds(w)] = None
          /\ GoTodo(w, "undo", journal[Ds(w)].months)
          /\ UNCHANGED catalog
    /\ UNCHANGED <<file, backup, saved, journal, dlock, clock, reported, faults>>

RollbackRestore(w) ==
    /\ At(w, "rollbackRestore")
    /\ catalog' = saved[Ds(w)]
    /\ saved' = [saved EXCEPT ![Ds(w)] = None]
    /\ GoTodo(w, "undo", journal[Ds(w)].months)
    /\ UNCHANGED <<file, backup, journal, dlock, clock, reported, faults>>

\* fail_run, after the catalog lease was given back: a completed or unknown
\* run is refused, and the refusal ignored.
FailRun(w) ==
    LET d == Ds(w)
        n == proc[w].run
    IN  /\ At(w, "failRun")
        /\ clock = None
        /\ catalog' = IF catalog.run[d][n] \in {"COMPLETED", "ABSENT"} THEN catalog
                      ELSE [catalog EXCEPT !.run[d][n] = "FAILED"]
        /\ Leave(w)
        /\ UNCHANGED <<file, backup, saved, journal, reported, faults>>

-----------------------------------------------------------------------------
(* recover() at the start of a process *)

StartUp(w) ==
    /\ At(w, "idle")
    /\ proc' = [proc EXCEPT ![w].pc = "startup",
                            ![w].pending = {d \in Datasets : journal[d] # None}]
    /\ UNCHANGED <<disk, dlock, clock, reported, faults>>

\* The next dataset, or the process gives up on a lock it cannot get.
StartUpNext(w) ==
    /\ At(w, "startup")
    /\ \/ \E d \in proc[w].pending :
            /\ dlock[d] = None
            /\ dlock' = [dlock EXCEPT ![d] = w]
            /\ proc' = [proc EXCEPT ![w].pc = "recover", ![w].why = "startup",
                                    ![w].ds = d, ![w].pending = @ \ {d}]
            /\ UNCHANGED clock
       \/ (\E d \in proc[w].pending : dlock[d] # None) /\ Leave(w)
       \/ proc[w].pending = {} /\ Go(w, "snapshot") /\ UNCHANGED <<dlock, clock>>
    /\ UNCHANGED <<disk, reported, faults>>

\* mark_abandoned_runs_failed reads catalog.json without a lease ...
Snapshot(w) ==
    /\ At(w, "snapshot")
    /\ proc' = [proc EXCEPT ![w].pc = "mark",
                            ![w].runs = {x \in Datasets \X (1..MaxRuns) :
                                           catalog.run[x[1]][x[2]] = "RUNNING"}]
    /\ UNCHANGED <<disk, dlock, clock, reported, faults>>

\* A RUNNING run of a dataset nobody has locked.
IsAbandoned_Unlocked(d, n) == catalog.run[d][n] = "RUNNING"    \* (mutant)
IsAbandoned(d, n) == dlock[d] = None /\ catalog.run[d][n] = "RUNNING"

\* ... and fails what it saw and can still see, under both locks.
Mark(w) ==
    /\ At(w, "mark")
    /\ \/ \E x \in proc[w].runs :
            /\ clock = None
            /\ catalog' = IF IsAbandoned(x[1], x[2])
                          THEN [catalog EXCEPT !.run[x[1]][x[2]] = "FAILED"] ELSE catalog
            /\ proc' = [proc EXCEPT ![w].runs = @ \ {x}]
       \/ /\ proc[w].runs = {}
          /\ proc' = [proc EXCEPT ![w] = Idle]
          /\ UNCHANGED catalog
    /\ UNCHANGED <<file, backup, saved, journal, dlock, clock, reported, faults>>

-----------------------------------------------------------------------------
(* Faults *)

Crash(w) ==
    /\ ~At(w, "idle")
    /\ faults < MaxFaults
    /\ faults' = faults + 1
    /\ Leave(w)
    /\ UNCHANGED <<disk, reported>>

\* An input/output operation raises, before or after its effect reached the
\* directory: a full disk, an fsync that fails, a temporary journal that the
\* recovery of another process has swept away (_remove_incomplete_journal_writes
\* takes no lock).  promote_partition and promote restore what they replaced;
\* that restoration is one step here.
StorageFails(w) ==
    LET d == Ds(w)
        m == Least(proc[w].todo)
    IN  /\ faults + FailureCost <= MaxFaults
        /\ faults' = faults + FailureCost
        /\ \/ /\ At(w, "fetch")                   \* the PREPARED journal
              /\ clock = None
              /\ \/ UNCHANGED journal
                 \/ journal' = [journal EXCEPT ![d] = NewJournal(w)]
              /\ Go(w, "failRun")
              /\ UNCHANGED <<file, backup, dlock, clock, reported>>
           \/ /\ At(w, "promote")                 \* _replace_partition restores
              /\ file' = [file EXCEPT ![d][m] = backup[d][m]]
              /\ backup' = [backup EXCEPT ![d][m] = {}]
              /\ proc' = [proc EXCEPT ![w].pc = "rollback", ![w].why = "rollback"]
              /\ UNCHANGED <<journal, dlock, clock, reported>>
           \/ /\ At(w, "catalog")
              /\ proc' = [proc EXCEPT ![w].pc = "rollback", ![w].why = "rollback"]
              /\ UNCHANGED <<file, backup, journal, dlock, clock, reported>>
           \/ /\ At(w, "commit")                  \* the COMMITTED journal
              /\ \/ UNCHANGED journal
                 \/ journal' = [journal EXCEPT ![d].state = "COMMITTED"]
              /\ proc' = [proc EXCEPT ![w].pc = "rollback", ![w].why = "rollback"]
              /\ UNCHANGED <<file, backup, dlock, clock, reported>>
           \/ /\ proc[w].why = "rollback" /\ ~At(w, "failRun")
              /\ clock' = None
              /\ Go(w, "failRun")
              /\ UNCHANGED <<file, backup, journal, dlock, reported>>
           \/ /\ proc[w].why = "finalize"         \* cleanup is deferred
              /\ Report(w)
              /\ Leave(w)
              /\ UNCHANGED <<file, backup, journal>>
           \/ /\ proc[w].why \in {"ingest", "startup"}
              /\ proc[w].pc \in {"recover", "undo", "restore", "clean", "dropBackup", "dropJournal"}
              /\ Leave(w)
              /\ UNCHANGED <<file, backup, journal, reported>>
        /\ UNCHANGED <<catalog, saved>>

-----------------------------------------------------------------------------
Init ==
    /\ file = [d \in Datasets |-> [m \in Months |-> {}]]
    /\ backup = [d \in Datasets |-> [m \in Months |-> {}]]
    /\ catalog = EmptyCatalog
    /\ saved = [d \in Datasets |-> None]
    /\ journal = [d \in Datasets |-> None]
    /\ dlock = [d \in Datasets |-> None]
    /\ clock = None
    /\ proc = [w \in Procs |-> Idle]
    /\ reported = {}
    /\ faults = 0

Step(w) ==
    \/ Recover(w) \/ Undo(w) \/ Restore(w) \/ Clean(w) \/ DropBackup(w) \/ DropJournal(w)
    \/ Read(w) \/ StartRun(w) \/ FetchFails(w) \/ Prepare(w)
    \/ Aside(w) \/ Promote(w) \/ PromoteCatalog(w) \/ Commit(w)
    \/ Rollback(w) \/ RollbackRestore(w) \/ FailRun(w)
    \/ StartUpNext(w) \/ Snapshot(w) \/ Mark(w)

Next == \E w \in Procs : \/ Step(w) \/ StartUp(w) \/ Crash(w) \/ StorageFails(w)
                         \/ \E c \in Chunks : Begin(w, c)

Spec == Init /\ [][Next]_vars

-----------------------------------------------------------------------------
(* Properties *)

\* Every variable has its type.
TypeOK ==
    /\ file \in [Datasets -> [Months -> SUBSET Chunks]]
    /\ backup \in [Datasets -> [Months -> SUBSET Chunks]]
    /\ catalog \in Catalogs
    /\ saved \in [Datasets -> Catalogs \cup {None}]
    /\ journal \in [Datasets -> Journals \cup {None}]
    /\ dlock \in [Datasets -> Procs \cup {None}]
    /\ clock \in Procs \cup {None}
    /\ proc \in [Procs -> Processes]
    /\ reported \subseteq Chunks
    /\ faults \in 0..MaxFaults

\* A process that has a recovered dataset, while no catalog change is under way.
Reading(w, d) == At(w, "ready") /\ Ds(w) = d /\ clock = None

\* A recovered dataset is all or nothing, whatever was interrupted before: its
\* partitions hold the candles of exactly the chunks of its version, and the
\* catalog has exactly their receipts.
ReadersSeeOneVersion ==
    \A w \in Procs, d \in Datasets : Reading(w, d) =>
        /\ \A m \in Months : file[d][m] = {c \in catalog.data[d] : m \in MonthsOf[c]}
        /\ catalog.data[d] = {c \in catalog.receipts : DatasetOf[c] = d}

\* What execute returned for ("the successful fsync of COMMITTED is the result
\* boundary") is never lost: a recovered dataset has the receipt and the candles
\* of every ingestion that reported success.
ReportedIsKept ==
    \A w \in Procs, d \in Datasets : Reading(w, d) =>
        \A c \in reported : DatasetOf[c] = d =>
            c \in catalog.receipts /\ \A m \in MonthsOf[c] : c \in file[d][m]

\* The only copy of a partition or of the catalog is never one that no journal
\* names: recovery works from the journal, and would not find it.
BackupsAreCovered ==
    \A d \in Datasets :
        (saved[d] # None \/ \E m \in Months : backup[d][m] # {}) =>
            /\ journal[d] # None
            /\ \A m \in Months : backup[d][m] # {} => m \in journal[d].months

\* An executor between its first partition and the end of its cleanup is never
\* overtaken: the run that mark_abandoned_runs_failed finds RUNNING in another
\* process is not failed while its owner lives, so the commit leaves it COMPLETED.
CommittedRunCompletes ==
    \A w \in Procs :
        /\ proc[w].why = "finalize" => catalog.run[Ds(w)][proc[w].run] = "COMPLETED"
        /\ proc[w].pc \in {"fetch", "aside", "promote", "catalog"} /\ clock \in {w, None} =>
             catalog.run[Ds(w)][proc[w].run] = "RUNNING"

\* What every step of a transaction leaves for the next process to find: files
\* of known content, covered originals, and runs that only their owner ends.
JournalInv == TypeOK /\ BackupsAreCovered /\ CommittedRunCompletes
=============================================================================
