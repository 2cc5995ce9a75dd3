---------------------------- MODULE DerivedDatasets ----------------------------
(***************************************************************************)
(* Resampled datasets and their snapshots (market_data/derived.py and        *)
(* snapshots.py): one RAW dataset, the dataset derived from it under one     *)
(* policy, and the command-line processes that materialize, verify and       *)
(* snapshot it.                                                             *)
(*                                                                         *)
(* A cell is a span of one month that a plan can cover or not; its number    *)
(* says which content RAW has there, 0 that its groups are incomplete and    *)
(* are skipped (SKIP_INCOMPLETE; STRICT would refuse the run). A checksum is *)
(* the content itself. The temporary files hold what the journal's process   *)
(* is about to promote and are not modelled.                                *)
(*                                                                         *)
(* A process works under the RAW and the DERIVED lock together, so nobody    *)
(* sees its steps unless it ends between two of them; its journal, PREPARED   *)
(* or COMMITTED, then tells the next process what to do.                     *)
(***************************************************************************)
EXTENDS Naturals, Sequences, FiniteSets, FiniteSetsExt, SequencesExt, Functions

CONSTANTS
    Procs,          \* processes of the command line
    Months,         \* the months, numbered
    Halves,         \* cells of a month
    Ranges,         \* the data ranges plans ask for, as sets of cells
    None,           \* no file, no journal, no holder
    MaxEdits, MaxRuns, MaxFaults    \* bounds

ASSUME MonthsAssumption == Months \subseteq Nat \ {0} /\ Months # {} /\ IsFiniteSet(Months)
ASSUME RangesAssumption == Ranges \subseteq SUBSET (Months \X Halves)

VARIABLES
    raw,        \* raw[c]: what the RAW dataset has in cell c
    disk,       \* disk[t]: the partition of month t, or the manifest
    backup,     \* backup[t]: hard link to what t was before the transaction
    journal,    \* the transaction that is not finished, or None
    runs,       \* transactions begun
    lock,       \* who holds the two dataset locks
    call,       \* call[p]: what process p is doing
    snapshots,  \* the published snapshots: id and linked rows
    staging,    \* ids whose staging directory exists
    committed,  \* what was on disk when a transaction last succeeded
    torn,       \* a process ended while it undid a COMMITTED journal
    faults      \* processes that ended or steps that failed

vars == <<raw, disk, backup, journal, runs, lock, call, snapshots, staging,
          committed, torn, faults>>
files == <<disk, backup, journal>>
snaps == <<snapshots, staging>>
harm == <<torn, faults>>

Cells == Months \X Halves
ManifestFile == 0
Targets == Months \cup {ManifestFile}
manifest == disk[ManifestFile]

-----------------------------------------------------------------------------
(* The files *)

Contents == [Halves -> Nat] \cup {None}
Manifests == [src : [Cells -> Nat], sources : [Months -> Contents],
              parts : [Months -> Contents], state : {"COMPLETE", "STALE", "INVALID"}]
Journals == [id : Nat, state : {"PREPARED", "COMMITTED"}, arts : Seq(Targets),
             had : SUBSET Targets]

ASSUME NoneAssumption == None \notin Procs \cup [Halves -> Nat] \cup Manifests \cup Journals

-----------------------------------------------------------------------------
(* Plans and contents *)

Meets(m, R) == \E h \in Halves : <<m, h>> \in R
\* A RAW partition, whole: its file checksum.
SourceOf(m) == IF \A h \in Halves : raw[<<m, h>>] = 0 THEN None
               ELSE [h \in Halves |-> raw[<<m, h>>]]

Derived(m) == manifest # None /\ manifest.parts[m] # None
\* Rows of the range are built anew, the others of the partition are kept.
Merged(m, R) ==
    [h \in Halves |-> IF <<m, h>> \in R THEN raw[<<m, h>>]
                      ELSE IF Derived(m) THEN disk[m][h] ELSE 0]
Content(m, R) == IF \A h \in Halves : Merged(m, R)[h] = 0 THEN None ELSE Merged(m, R)
\* The months a commit for R writes or deletes.
Rewritten(R) ==
    {m \in Months : Meets(m, R) /\ (Derived(m) \/ \E h \in Halves : <<m, h>> \in R /\ raw[<<m, h>>] > 0)}

\* A partition that the manifest names is not there to be read.
Unreadable(R) == \E m \in Months : Meets(m, R) /\ Derived(m) /\ disk[m] = None

\* (mutant) every RAW partition is recorded, those outside the range too.
SourcesAfter_All(R) == [m \in Months |-> SourceOf(m)]
SourcesAfter(R) == [m \in Months |->
    IF Meets(m, R) THEN SourceOf(m) ELSE IF manifest # None THEN manifest.sources[m] ELSE None]
PartsAfter(R) == [m \in Months |->
    IF m \in Rewritten(R) THEN Content(m, R) ELSE IF manifest # None THEN manifest.parts[m] ELSE None]
\* raw stands for the source version the catalog has.
ManifestAfter(R) == [src |-> raw, sources |-> SourcesAfter(R), parts |-> PartsAfter(R),
                     state |-> "COMPLETE"]

\* The span of changed months, cut to the plan.
Changed(R) == {m \in Months : Meets(m, R) /\ SourceOf(m) # manifest.sources[m]}
Affected(R) == {c \in R : c[1] \in Min(Changed(R))..Max(Changed(R))}

\* What a verification finds.
Outcome(full) ==
    IF \/ manifest.src # raw
       \/ full /\ \E m \in Months : manifest.sources[m] # None /\ SourceOf(m) # manifest.sources[m]
    THEN "STALE"
    ELSE IF \E m \in Months : disk[m] # manifest.parts[m] THEN "INVALID" ELSE manifest.state

-----------------------------------------------------------------------------
(* Processes *)

Idle == [at |-> "IDLE"]
At(p, s) == call[p].at = s
Goto(p, r) == call' = [call EXCEPT ![p] = r]
\* The call returns or raises, and its locks are released.
Leave(p) == Goto(p, Idle) /\ lock' = None
Work(p, s) == [call[p] EXCEPT !.at = s]

\* recover() of a starting process, without a lock.
ReadJournal(p) ==
    /\ At(p, "IDLE")
    /\ Goto(p, [at |-> "FOUND", id |-> IF journal = None THEN 0 ELSE journal.id])
    /\ UNCHANGED <<raw, files, runs, lock, snaps, committed, harm>>

UndoOf(j) == Reverse(j.arts)
Resolve(p, r, next) ==
    Goto(p, [r EXCEPT !.at = IF journal.state = "PREPARED" THEN "UNDO" ELSE "CLEAN",
                      !.todo = IF journal.state = "PREPARED" THEN UndoOf(journal) ELSE journal.arts,
                      !.next = next])
Fresh == [at |-> "IDLE", op |-> "RECOVER", range |-> {}, src |-> <<>>, todo |-> <<>>,
          next |-> "READY", new |-> <<>>, result |-> "NONE"]
\* The locks are held now: the journal may be gone, or be another one's.
RecoverFound(p) ==
    /\ At(p, "FOUND") /\ lock = None
    /\ IF journal = None \/ journal.id # call[p].id
       THEN Goto(p, [Fresh EXCEPT !.at = "READY"]) /\ UNCHANGED lock
       ELSE Resolve(p, Fresh, "READY") /\ lock' = p
    /\ UNCHANGED <<raw, files, runs, snaps, committed, harm>>

Plan(p, R, op) ==
    /\ At(p, "READY") /\ lock = None
    /\ \E c \in Cells : raw[c] > 0
    /\ Goto(p, [Fresh EXCEPT !.at = "PLANNED", !.op = op, !.range = R, !.src = raw])
    /\ UNCHANGED <<raw, files, runs, lock, snaps, committed, harm>>

\* acquire_many, then recover_derived_dataset.
Enter(p) ==
    /\ At(p, "PLANNED") /\ lock = None
    /\ lock' = p
    /\ IF journal = None THEN Goto(p, Work(p, "OPEN")) ELSE Resolve(p, call[p], "OPEN")
    /\ UNCHANGED <<raw, files, runs, snaps, committed, harm>>

\* Another process holds a lock for longer than this one waits.
LockTimeout(p) ==
    /\ call[p].at \in {"FOUND", "PLANNED"} /\ lock # None
    /\ Goto(p, Idle)
    /\ UNCHANGED <<raw, files, runs, lock, snaps, committed, harm>>

-----------------------------------------------------------------------------
(* Recovery and rollback, artifact by artifact *)

\* (mutant) a partition without an original stays.
Undone_Kept(t) == disk[t]
Undone(t) == IF t \in journal.had THEN disk[t] ELSE None
Undo(p) ==
    /\ At(p, "UNDO") /\ call[p].todo # <<>>
    /\ LET t == Head(call[p].todo)
       IN IF backup[t] # None
          THEN \/ /\ disk[t] # None
                  /\ disk' = [disk EXCEPT ![t] = None]      \* unlink
                  /\ UNCHANGED <<backup, call>>
               \/ /\ disk[t] = None
                  /\ disk' = [disk EXCEPT ![t] = backup[t]] \* replace
                  /\ backup' = [backup EXCEPT ![t] = None]
                  /\ Goto(p, [call[p] EXCEPT !.todo = Tail(@)])
          ELSE /\ disk' = [disk EXCEPT ![t] = Undone(t)]
               /\ Goto(p, [call[p] EXCEPT !.todo = Tail(@)])
               /\ UNCHANGED backup
    /\ UNCHANGED <<raw, journal, runs, lock, snaps, committed, harm>>

Clean(p) ==
    /\ At(p, "CLEAN") /\ call[p].todo # <<>>
    /\ backup' = [backup EXCEPT ![Head(call[p].todo)] = None]
    /\ Goto(p, [call[p] EXCEPT !.todo = Tail(@)])
    /\ UNCHANGED <<raw, disk, journal, runs, lock, snaps, committed, harm>>

\* The journal is unlinked last.
JournalMayGo(p) == call[p].todo = <<>>
DropJournal(p) ==
    /\ call[p].at \in {"UNDO", "CLEAN"} /\ JournalMayGo(p)
    /\ journal' = None
    /\ \/ call[p].next = "READY" /\ Goto(p, [Fresh EXCEPT !.at = "READY"]) /\ lock' = None
       \/ call[p].next = "OPEN" /\ Goto(p, Work(p, "OPEN")) /\ UNCHANGED lock
       \/ call[p].next = "OVER" /\ Leave(p)
    /\ UNCHANGED <<raw, disk, backup, runs, snaps, committed, harm>>

-----------------------------------------------------------------------------
(* Materialization *)

\* Artifacts are promoted by month, the manifest last.
InOrder(S) ==
    CHOOSE s \in [1..Cardinality(S) -> S] : \A i, j \in DOMAIN s : i < j => s[i] < s[j]

Begin(p, R) ==
    /\ runs < MaxRuns
    /\ LET arts == InOrder(Rewritten(R)) \o <<ManifestFile>>
       IN /\ journal' = [id |-> runs + 1, state |-> "PREPARED", arts |-> arts,
                         had |-> {t \in Targets : disk[t] # None}]
          /\ Goto(p, [call[p] EXCEPT !.at = "PROMOTE", !.todo = arts, !.next = "OVER",
                      !.new = [t \in Targets |-> IF t = ManifestFile THEN ManifestAfter(R)
                                                 ELSE PartsAfter(R)[t]]])
    /\ runs' = runs + 1
    /\ UNCHANGED <<raw, disk, backup, lock, snaps, committed, harm>>

Refuse(p) == Leave(p) /\ UNCHANGED <<raw, files, runs, snaps, committed, harm>>

Materialize(p) ==
    /\ At(p, "OPEN") /\ call[p].op = "MATERIALIZE"
    /\ IF raw # call[p].src \/ Unreadable(call[p].range)
       THEN Refuse(p) ELSE Begin(p, call[p].range)
\* A dataset that is unchanged and verifies, its source not read again, needs
\* no work; otherwise the changed months are built anew, or everything.
Unchanged(R) == /\ manifest # None /\ Changed(R) = {}
                /\ manifest.state = "COMPLETE" /\ manifest.src = raw
UpToDate(R) == Unchanged(R) /\ Outcome(FALSE) = "COMPLETE"
Rebuilt(R) == IF manifest = None THEN R ELSE IF Changed(R) = {} THEN R ELSE Affected(R)
\* That verification, too, writes what it finds to the manifest.
FindInvalid(p) ==
    /\ At(p, "OPEN") /\ call[p].op = "INCREMENTAL" /\ raw = call[p].src
    /\ Unchanged(call[p].range) /\ Outcome(FALSE) = "INVALID"
    /\ disk' = [disk EXCEPT ![ManifestFile].state = "INVALID"]
    /\ UNCHANGED <<raw, backup, journal, runs, lock, call, snaps, committed, harm>>
MaterializeIncremental(p) ==
    /\ At(p, "OPEN") /\ call[p].op = "INCREMENTAL"
    /\ \/ /\ \/ raw # call[p].src
             \/ UpToDate(call[p].range)
             \/ Unreadable(Rebuilt(call[p].range))
          /\ Refuse(p)
       \/ /\ raw = call[p].src /\ ~Unchanged(call[p].range)
          /\ ~Unreadable(Rebuilt(call[p].range))
          /\ Begin(p, Rebuilt(call[p].range))

Link(p) ==
    /\ At(p, "PROMOTE") /\ call[p].todo # <<>>
    /\ LET t == Head(call[p].todo)
       IN /\ t \in journal.had /\ backup[t] = None
          /\ backup' = [backup EXCEPT ![t] = disk[t]]
    /\ UNCHANGED <<raw, disk, journal, runs, lock, call, snaps, committed, harm>>
Promote(p) ==
    /\ At(p, "PROMOTE") /\ call[p].todo # <<>>
    /\ LET t == Head(call[p].todo)
       IN /\ t \in journal.had => backup[t] # None
          /\ disk' = [disk EXCEPT ![t] = call[p].new[t]]
    /\ Goto(p, [call[p] EXCEPT !.todo = Tail(@)])
    /\ UNCHANGED <<raw, backup, journal, runs, lock, snaps, committed, harm>>
Seal(p) ==
    /\ At(p, "PROMOTE") /\ call[p].todo = <<>>
    /\ journal' = [journal EXCEPT !.state = "COMMITTED"]
    /\ committed' = disk
    /\ Goto(p, [call[p] EXCEPT !.at = "CLEAN", !.todo = journal.arts])
    /\ UNCHANGED <<raw, disk, backup, runs, lock, snaps, harm>>

-----------------------------------------------------------------------------
(* Verification and snapshots *)

\* What is found is written to the manifest, in place.
Verify(p) ==
    /\ At(p, "OPEN") /\ call[p].op \in {"VERIFY", "SNAPSHOT"}
    /\ \/ manifest = None /\ Refuse(p)
       \/ /\ manifest # None
          /\ disk' = [disk EXCEPT ![ManifestFile].state = Outcome(TRUE)]
          /\ Goto(p, [call[p] EXCEPT !.at = "VERIFIED", !.result = Outcome(TRUE)])
          /\ UNCHANGED <<raw, backup, journal, runs, lock, snaps, committed, harm>>

SnapshotId(p) == <<manifest.parts, call[p].range>>
\* Cells of the derived dataset; the range lies between its first and last.
Rows == {c \in Cells : disk[c[1]] # None /\ disk[c[1]][c[2]] > 0}
Covered(R) == \A c \in R : \E a, z \in Rows : a[1] <= c[1] /\ c[1] <= z[1]
MayCreate(p) == /\ call[p].op = "SNAPSHOT" /\ call[p].result = "COMPLETE"
                /\ Covered(call[p].range)
                /\ \A s \in snapshots : s.id # SnapshotId(p)
                /\ SnapshotId(p) \notin staging       \* FileExistsError
Return(p) == At(p, "VERIFIED") /\ ~MayCreate(p) /\ Refuse(p)
Stage(p) ==
    /\ At(p, "VERIFIED") /\ MayCreate(p)
    /\ staging' = staging \cup {SnapshotId(p)}
    /\ Goto(p, Work(p, "STAGED"))
    /\ UNCHANGED <<raw, files, runs, lock, snapshots, committed, harm>>
Publish(p) ==
    /\ At(p, "STAGED")
    /\ snapshots' = snapshots \cup {[id |-> SnapshotId(p), rows |->
          [m \in {n \in Months : Meets(n, call[p].range)} |-> disk[m]]]}
    /\ staging' = staging \ {SnapshotId(p)}
    /\ Leave(p)
    /\ UNCHANGED <<raw, files, runs, committed, harm>>

-----------------------------------------------------------------------------
(* RAW, and what goes wrong *)

\* A RAW transaction (MarketDataTransaction), under the RAW lock.
Ingest(c) ==
    /\ lock = None
    /\ SumFunctionOnSet(raw, Cells) < MaxEdits
    /\ raw' = [raw EXCEPT ![c] = @ + 1]
    /\ UNCHANGED <<files, runs, lock, call, snaps, committed, harm>>

Fault == faults < MaxFaults /\ faults' = faults + 1
\* A step of the transaction raises: its own process rolls back.
RollBack(p) == Goto(p, [call[p] EXCEPT !.at = "UNDO", !.todo = UndoOf(journal)])
StepFails(p) ==
    /\ At(p, "PROMOTE") /\ Fault
    /\ RollBack(p)
    /\ UNCHANGED <<raw, files, runs, lock, snaps, committed, torn>>
\* So does the write of COMMITTED, when its file is in place and its directory
\* cannot be synchronized: the files are undone under a journal that is COMMITTED.
SealFails(p) ==
    /\ At(p, "PROMOTE") /\ call[p].todo = <<>> /\ Fault
    /\ journal' = [journal EXCEPT !.state = "COMMITTED"]
    /\ RollBack(p)
    /\ UNCHANGED <<raw, disk, backup, runs, lock, snaps, committed, torn>>
StagingFails(p) ==
    /\ At(p, "STAGED") /\ Fault
    /\ staging' = staging \ {SnapshotId(p)}
    /\ Leave(p)
    /\ UNCHANGED <<raw, files, runs, snapshots, committed, torn>>
\* The process ends; or a cleanup or a recovery raises, which leaves as much.
Crash(p) ==
    /\ lock = p /\ Fault
    /\ Leave(p)
    /\ torn' = (torn \/ (At(p, "UNDO") /\ journal.state = "COMMITTED"))
    /\ UNCHANGED <<raw, files, runs, snaps, committed>>

Init == /\ raw = [c \in Cells |-> 0]
        /\ disk = [t \in Targets |-> None] /\ backup = [t \in Targets |-> None]
        /\ journal = None /\ runs = 0 /\ lock = None
        /\ call = [p \in Procs |-> Idle]
        /\ snapshots = {} /\ staging = {}
        /\ committed = [t \in Targets |-> None]
        /\ torn = FALSE /\ faults = 0

Step(p) ==
    \/ ReadJournal(p) \/ RecoverFound(p) \/ Enter(p) \/ LockTimeout(p)
    \/ \E R \in Ranges, op \in {"MATERIALIZE", "INCREMENTAL", "VERIFY", "SNAPSHOT"} : Plan(p, R, op)
    \/ Undo(p) \/ Clean(p) \/ DropJournal(p)
    \/ Materialize(p) \/ FindInvalid(p) \/ MaterializeIncremental(p)
    \/ Link(p) \/ Promote(p) \/ Seal(p)
    \/ Verify(p) \/ Return(p) \/ Stage(p) \/ Publish(p)
    \/ StepFails(p) \/ SealFails(p) \/ StagingFails(p) \/ Crash(p)

Next == (\E p \in Procs : Step(p)) \/ (\E c \in Cells : Ingest(c))

Spec == Init /\ [][Next]_vars

-----------------------------------------------------------------------------
(* Properties *)

TypeOK ==
    /\ raw \in [Cells -> Nat]
    /\ \A m \in Months : {disk[m], backup[m]} \subseteq Contents
    /\ {manifest, backup[ManifestFile]} \subseteq Manifests \cup {None}
    /\ journal \in Journals \cup {None}
    /\ lock \in Procs \cup {None}

\* Without a journal, partitions and manifest are those of the last committed
\* transaction, whatever failed, ended half-way or was recovered twice.
Same(a, b) == a = b \/ (a # None /\ b # None /\ [a EXCEPT !.state = b.state] = b)
RecoveredIsCommitted ==
    journal = None => /\ \A m \in Months : disk[m] = committed[m]
                      /\ Same(manifest, committed[ManifestFile])

\* A backup is an original nobody may lose: as long as there is one, a journal
\* tells what to do with it.
BackupsAreCovered == \A t \in Targets : backup[t] # None =>
                        journal # None /\ t \in ToSet(journal.arts)

\* No verification finds the dataset damaged.
NeverInvalid == manifest # None => manifest.state # "INVALID"

\* Between any two steps, of a transaction or of a recovery, nothing is lost. One
\* case is excepted: the write of COMMITTED failed after the file was in place,
\* and the process ended before it had undone everything. Then the recovery takes
\* the journal by its word, drops the backups that are left, and the dataset is
\* new in some months and old in others.
NothingIsLost == torn \/ (TypeOK /\ RecoveredIsCommitted /\ BackupsAreCovered /\ NeverInvalid)

\* A dataset that verification calls COMPLETE, and every snapshot made of it,
\* has no row that RAW has replaced since.
VerifiedIsCurrent ==
    \A p \in Procs : call[p].at \in {"VERIFIED", "STAGED"} /\ call[p].result = "COMPLETE" =>
        \A c \in Rows : disk[c[1]][c[2]] = raw[c]
===============================================================================
