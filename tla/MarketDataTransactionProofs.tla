---------------------- MODULE MarketDataTransactionProofs ----------------------
(***************************************************************************)
(* JournalInv, ReadersSeeOneVersion and ReportedIsKept for any datasets,   *)
(* partitions, chunks and processes, and any number of crashes and failed  *)
(* operations, as long as none of them strikes a process while it takes    *)
(* its own transaction back.                                               *)
(*                                                                         *)
(* All that concerns one dataset is put into one record, its View: a step  *)
(* changes the view of the dataset its process has locked, and of no other *)
(* one.                                                                    *)
(***************************************************************************)
EXTENDS MarketDataTransaction, FiniteSetTheorems, WellFoundedInduction, TLAPS

\* A crash or a failure finds no process between the two replacements of
\* catalog.json or elsewhere in _rollback_before_commit.
RollbackUndisturbed ==
    \A w \in Procs : Crash(w) \/ StorageFails(w) => proc[w].why # "rollback" \/ At(w, "failRun")

-----------------------------------------------------------------------------
(* What is known of a dataset *)

\* The chunks of S with candles in partition m.
In(S, m) == {c \in S : m \in MonthsOf[c]}
Of(S, d) == {c \in S : DatasetOf[c] = d}

\* catalog.json; between its two replacements, the backup that replaces it.
Restoring == clock # None /\ proc[clock].pc = "rollbackRestore"
Cat == IF Restoring THEN saved[proc[clock].ds] ELSE catalog

Holder(d) == IF dlock[d] = None THEN Idle ELSE proc[dlock[d]]
View(d) == [file |-> file[d], backup |-> backup[d], saved |-> saved[d] # None,
            j |-> journal[d], data |-> Cat.data[d], receipts |-> Of(Cat.receipts, d),
            run |-> Cat.run[d], reported |-> Of(reported, d), p |-> Holder(d)]

\* Nothing is pending: files and catalog are one version.
Whole(x) == /\ \A m \in Months : x.file[m] = In(x.data, m) /\ x.backup[m] = {}
            /\ ~x.saved
\* A journal of d says what its transaction does to the version before.
JournalFits(d, j) == /\ DatasetOf[j.chunk] = d /\ j.chunk \notin j.before
                     /\ j.months = MonthsOf[j.chunk]
                     /\ j.had = {m \in j.months : In(j.before, m) # {}}
\* A partition as it was, set aside, or replaced.
Original(x, m) == x.file[m] = In(x.j.before, m) /\ x.backup[m] = {}
Promoted(x, m) == /\ x.file[m] = In(x.j.before, m) \cup {x.j.chunk}
                  /\ x.backup[m] = In(x.j.before, m)
SetAside(x, m) == x.file[m] = {} /\ x.backup[m] = In(x.j.before, m)
Halfway(x, m) == Original(x, m) \/ SetAside(x, m) \/ Promoted(x, m)
\* The transaction is over: its journal counts, and its writer is not taking
\* it back.
Final(x) == x.j.state = "COMMITTED" /\ x.p.why # "rollback"
Settled(x) == /\ x.data = x.j.before \cup {x.j.chunk}
              /\ \A m \in x.j.months : x.file[m] = In(x.j.before, m) \cup {x.j.chunk}
Pending(x) == /\ x.data \in {x.j.before, x.j.before \cup {x.j.chunk}}
              /\ x.j.chunk \notin x.reported
              /\ \A m \in x.j.months : Halfway(x, m)

VersionOK(d, x) ==
    /\ x.receipts = x.data /\ x.reported \subseteq x.data
    /\ x.j = None => Whole(x)
    /\ x.j # None => /\ JournalFits(d, x.j)
                     /\ \A m \in Months \ x.j.months : Original(x, m)
                     /\ IF Final(x) THEN Settled(x) ELSE Pending(x)

\* What the holder of the lock relies on at each point.
Undone(x) == /\ x.j # None /\ ~Final(x) /\ x.data = x.j.before
             /\ x.p.todo \subseteq x.j.months
             /\ \A m \in x.j.months \ x.p.todo : Original(x, m)
Cleaned(x) == /\ x.j # None
              /\ \A m \in Months : x.file[m] = In(x.data, m) /\ x.backup[m] = {}
Mine(x) == /\ x.j # None /\ x.j.chunk = x.p.chunk /\ x.j.run = x.p.run
Working(x) == /\ Mine(x) /\ x.j.state = "PREPARED"
              /\ x.data = x.j.before /\ x.run[x.p.run] = "RUNNING" /\ ~x.saved
              /\ x.p.todo \subseteq x.j.months
              /\ \A m \in x.j.months \ x.p.todo : Promoted(x, m)

PointOK(x) ==
    LET p == x.p IN
    /\ p.pc = "undo" => Undone(x)
    /\ p.pc = "restore" => Undone(x) /\ p.todo # {} /\ x.backup[Greatest(p.todo)] # {}
    /\ p.pc = "clean" => /\ x.j # None /\ Final(x) /\ p.todo \subseteq x.j.months
                         /\ \A m \in x.j.months \ p.todo : x.backup[m] = {}
    /\ p.pc = "dropBackup" => Cleaned(x)
    /\ p.pc = "dropJournal" => Cleaned(x) /\ ~x.saved
    /\ p.pc = "ready" => x.j = None
    /\ p.pc = "fetch" => x.j = None /\ x.run[p.run] = "RUNNING" /\ p.chunk \notin x.data
    /\ p.pc = "aside" => Working(x) /\ \A m \in p.todo : Original(x, m)
    /\ p.pc = "promote" =>
         /\ Working(x) /\ p.todo # {}
         /\ SetAside(x, Least(p.todo))
         /\ \A m \in p.todo \ {Least(p.todo)} : Original(x, m)
    /\ p.pc = "catalog" => Working(x) /\ p.todo = {}
    /\ p.pc = "commit" => /\ Mine(x) /\ x.j.state = "PREPARED" /\ x.saved
                          /\ x.run[p.run] = "COMPLETED" /\ Settled(x)
    /\ p.pc = "rollback" => Mine(x) /\ (~x.saved => x.data = x.j.before)
    /\ p.pc = "rollbackRestore" => x.j # None /\ x.saved /\ x.data = x.j.before
    /\ p.why = "finalize" => /\ Mine(x) /\ x.j.state = "COMMITTED"
                             /\ x.run[p.run] = "COMPLETED"
    /\ p.why = "rollback" /\ p.pc = "failRun" => x.j = None

-----------------------------------------------------------------------------
(* Processes *)

Outside == {"idle", "startup", "snapshot", "mark"}
Leased == {"undo", "restore", "clean", "dropBackup", "dropJournal", "aside", "promote",
           "catalog", "commit", "rollback", "rollbackRestore"}
Running == {"fetch", "aside", "promote", "catalog", "commit", "rollback", "rollbackRestore",
            "failRun"}
CallersAt(pc) ==
    CASE pc \in Outside -> {"none"}
      [] pc = "recover" -> {"ingest", "startup"}
      [] pc \in {"undo", "restore"} -> {"ingest", "startup", "rollback"}
      [] pc = "clean" -> {"ingest", "startup", "finalize"}
      [] pc \in {"dropBackup", "dropJournal"} -> {"ingest", "startup", "rollback", "finalize"}
      [] pc \in {"rollback", "rollbackRestore"} -> {"rollback"}
      [] pc = "failRun" -> {"ingest", "rollback"}
      [] OTHER -> {"ingest"}
ProcOK(p) == /\ p.why \in CallersAt(p.pc)
             /\ p.ds = None <=> p.pc \in Outside
             /\ p.why \in {"ingest", "rollback", "finalize"} =>
                  p.chunk # None /\ DatasetOf[p.chunk] = p.ds
             /\ p.pc \in Running \/ p.why \in {"rollback", "finalize"} => p.run # 0

LocksOK == /\ \A w \in Procs, d \in Datasets : dlock[d] = w <=> proc[w].ds = d
           /\ \A w \in Procs : proc[w].pc \in Leased <=> clock = w

\* The backup of the transaction under way differs from the catalog in the
\* keys of the transaction only.
BackupOK(w) ==
    LET d == Ds(w)
        s == saved[d]
    IN  proc[w].pc \in {"commit", "rollback"} /\ s # None =>
          /\ s \in Catalogs
          /\ s.data = [catalog.data EXCEPT ![d] = journal[d].before]
          /\ s.receipts = catalog.receipts \ {proc[w].chunk}
          /\ \A e \in Datasets \ {d} : s.run[e] = catalog.run[e]

IInv == /\ TypeOK
        /\ \A w \in Procs : ProcOK(proc[w]) /\ BackupOK(w)
        /\ LocksOK
        /\ \A d \in Datasets : VersionOK(d, View(d)) /\ PointOK(View(d))

-----------------------------------------------------------------------------
(* The first and the last partition of a loop *)

\* A finite set of numbers has a least and a greatest element: of the parts
\* of it that lie above (below) an element, one is minimal.
LEMMA Extremes ==
    ASSUME NEW S \in SUBSET Nat, IsFiniteSet(S), S # {}
    PROVE  Least(S) \in S /\ Greatest(S) \in S
<1> DEFINE Above(m) == {k \in S : k >= m}
           Below(m) == {k \in S : k <= m}
           R == StrictSubsetOrdering(S)
           F == FiniteSubsetsOf(S)
<1>1. IsWellFoundedOn(R, F)
  BY FS_StrictSubsetOrderingWellFounded
<1>2. ASSUME NEW T \in SUBSET S
      PROVE  T \in F
  BY FS_Subset DEF FiniteSubsetsOf
<1>3. \E m \in S : \A k \in S : m >= k
  <2> DEFINE G == {Above(m) : m \in S}
  <2>1. G \subseteq F /\ G # {}
    BY <1>2
  <2>2. PICK x \in G : \A y \in G : ~(<<y, x>> \in R)
    BY <1>1, <2>1, WFMin, Zenon
  <2>3. PICK m \in S : x = Above(m)
    BY <2>2
  <2>4. ASSUME NEW k \in S, ~(m >= k)
        PROVE  FALSE
    <3>0. \A n \in S : n \in Int
      OBVIOUS
    <3>1. k \in Int /\ m \in Int
      BY <3>0
    <3>2. m \in Above(m) /\ m \notin Above(k)
      BY <2>4, <3>1
    <3>3. \A n \in S : n >= k => n >= m
      BY <2>4, <3>0, <3>1
    <3>4. Above(k) \subseteq Above(m)
      BY <3>3
    <3>5. <<Above(k), x>> \in R
      BY <3>2, <3>4, <2>3 DEF StrictSubsetOrdering
    <3> QED
      BY <3>5, <2>2
  <2> QED
    BY <2>4
<1>4. \E m \in S : \A k \in S : m <= k
  <2> DEFINE G == {Below(m) : m \in S}
  <2>1. G \subseteq F /\ G # {}
    BY <1>2
  <2>2. PICK x \in G : \A y \in G : ~(<<y, x>> \in R)
    BY <1>1, <2>1, WFMin, Zenon
  <2>3. PICK m \in S : x = Below(m)
    BY <2>2
  <2>4. ASSUME NEW k \in S, ~(m <= k)
        PROVE  FALSE
    <3>0. \A n \in S : n \in Int
      OBVIOUS
    <3>1. k \in Int /\ m \in Int
      BY <3>0
    <3>2. m \in Below(m) /\ m \notin Below(k)
      BY <2>4, <3>1
    <3>3. \A n \in S : n <= k => n <= m
      BY <2>4, <3>0, <3>1
    <3>4. Below(k) \subseteq Below(m)
      BY <3>3
    <3>5. <<Below(k), x>> \in R
      BY <3>2, <3>4, <2>3 DEF StrictSubsetOrdering
    <3> QED
      BY <3>5, <2>2
  <2> QED
    BY <2>4
<1> QED
  BY <1>3, <1>4 DEF Least, Greatest

LEMMA OfMonths ==
    ASSUME NEW S \in SUBSET Months, S # {}
    PROVE  Least(S) \in S /\ Greatest(S) \in S
  BY Extremes, MonthsAssumption, FS_Subset

LEMMA OfRuns ==
    ASSUME NEW S \in SUBSET (1..MaxRuns), S # {}
    PROVE  Least(S) \in S
<1>1. IsFiniteSet(1..MaxRuns) /\ 1..MaxRuns \in SUBSET Nat
  BY FS_Interval, BoundsAssumption
<1> QED
  BY <1>1, Extremes, FS_Subset

-----------------------------------------------------------------------------
(* The catalog and the views have their types *)

Views == [file : [Months -> SUBSET Chunks], backup : [Months -> SUBSET Chunks],
          saved : BOOLEAN, j : Journals \cup {None}, data : SUBSET Chunks,
          receipts : SUBSET Chunks, run : [1..MaxRuns -> RunStates],
          reported : SUBSET Chunks, p : Processes]

LEMMA IdleTyped == Idle \in Processes
  BY BoundsAssumption DEF Idle, Processes, Points, Callers

LEMMA CatTyped ==
    ASSUME IInv
    PROVE  Cat \in Catalogs
<1>1. CASE Restoring
  <2>1. clock \in Procs
    BY <1>1 DEF Restoring, IInv, TypeOK
  <2> DEFINE d == proc[clock].ds
  <2>2. d \in Datasets /\ clock \in Procs
    BY <1>1, <2>1 DEF Restoring, IInv, ProcOK, Outside, TypeOK, Processes
  <2>3. dlock[d] = clock
    BY <2>1, <2>2 DEF IInv, LocksOK
  <2>4. Holder(d) = proc[clock]
    BY <2>1, <2>3, ProcsAssumption DEF Holder
  <2>5. PointOK(View(d)) /\ View(d).p = proc[clock] /\ View(d).saved = (saved[d] # None)
    BY <2>2, <2>4 DEF IInv, View
  <2>6. saved[d] # None
    BY <1>1, <2>5 DEF PointOK, Restoring
  <2> QED
    BY <1>1, <2>2, <2>6 DEF IInv, TypeOK, Cat
<1>2. CASE ~Restoring
  BY <1>2 DEF Cat, IInv, TypeOK
<1> QED
  BY <1>1, <1>2

LEMMA HolderTyped ==
    ASSUME IInv, NEW d \in Datasets
    PROVE  Holder(d) \in Processes
  BY IdleTyped DEF IInv, TypeOK, Holder

LEMMA ViewTyped ==
    ASSUME IInv, NEW d \in Datasets
    PROVE  View(d) \in Views
<1>1. Cat.data[d] \in SUBSET Chunks /\ Cat.receipts \in SUBSET Chunks /\ Cat.run[d] \in [1..MaxRuns -> RunStates]
  BY CatTyped DEF Catalogs
<1>2. /\ file[d] \in [Months -> SUBSET Chunks] /\ backup[d] \in [Months -> SUBSET Chunks]
      /\ journal[d] \in Journals \cup {None} /\ reported \in SUBSET Chunks
  BY DEF IInv, TypeOK
<1>3. Holder(d) \in Processes
  BY HolderTyped
<1>4. Of(Cat.receipts, d) \in SUBSET Chunks /\ Of(reported, d) \in SUBSET Chunks
  BY <1>1, <1>2 DEF Of
<1>5. (saved[d] # None) \in BOOLEAN
  OBVIOUS
<1> QED
  BY <1>1, <1>2, <1>3, <1>4, <1>5 DEF View, Views

-----------------------------------------------------------------------------
(* How a view may change.  x is the view before a step, y the one after it. *)

SameDisk(x, y) == /\ y.file = x.file /\ y.backup = x.backup
                  /\ y.saved = x.saved /\ y.j = x.j
SameVersion(x, y) == y.data = x.data /\ y.receipts = x.receipts /\ y.reported = x.reported
\* The point of the process moves, and nothing else of it that a view looks at.
Moves(x, y, pc) == /\ y.p.pc = pc /\ y.p.why = x.p.why /\ y.p.chunk = x.p.chunk
                   /\ y.p.run = x.p.run
OK(d, x) == VersionOK(d, x) /\ PointOK(x)

\* A lock is taken, given back, or its holder is about to fail its run: what
\* the disk says of a dataset is enough for whoever comes next.
LEMMA Loose ==
    ASSUME NEW d \in Datasets, NEW x \in Views, NEW y, OK(d, x),
           SameDisk(x, y), SameVersion(x, y),
           x.p.why = "rollback" => x.j = None,
           y.p.pc \in {"idle", "recover", "failRun"}, y.p.why \notin {"finalize", "rollback"}
    PROVE  OK(d, y)
<1>1. x.j # None => (Final(y) <=> Final(x))
  BY DEF Final, SameDisk
<1>2. PointOK(y)
  BY DEF PointOK
<1>3. x.j = None => VersionOK(d, y)
  BY DEF OK, VersionOK, SameDisk, SameVersion, Whole
<1>4. x.j # None => VersionOK(d, y)
  BY <1>1 DEF OK, VersionOK, SameDisk, SameVersion, Original, Settled, Pending, Halfway,
              SetAside, Promoted
<1> QED
  BY <1>2, <1>3, <1>4 DEF OK

\* The dataset has no journal: it can be read.
LEMMA RecoverNothing ==
    ASSUME NEW d \in Datasets, NEW x \in Views, NEW y, OK(d, x), x.j = None,
           SameDisk(x, y), SameVersion(x, y), y.p.pc = "ready", y.p.why = "ingest"
    PROVE  OK(d, y)
<1>1. PointOK(y)
  BY DEF PointOK, SameDisk
<1>2. VersionOK(d, y)
  BY DEF OK, VersionOK, SameDisk, SameVersion, Whole
<1> QED
  BY <1>1, <1>2 DEF OK

\* rollback_semantic: the catalog has the version before the transaction.
LEMMA RecoverPrepared ==
    ASSUME NEW d \in Datasets, NEW x \in Views, NEW y, OK(d, x),
           x.j # None, x.j.state = "PREPARED",
           SameDisk(x, y), y.reported = x.reported,
           y.data = x.j.before, y.receipts = x.receipts \ {x.j.chunk},
           y.p.pc = "undo", y.p.why \in {"ingest", "startup"}, y.p.todo = x.j.months
    PROVE  OK(d, y)
<1>1. ~Final(x) /\ ~Final(y) /\ y.j = x.j
  BY DEF Final, SameDisk
<1>2. /\ JournalFits(d, x.j) /\ Pending(x) /\ x.receipts = x.data /\ x.reported \subseteq x.data
      /\ \A m \in Months \ x.j.months : Original(x, m)
  BY <1>1 DEF OK, VersionOK
<1>3. y.receipts = y.data /\ y.reported \subseteq y.data /\ x.j.chunk \notin y.reported
  BY <1>2 DEF Pending, JournalFits
<1>4. Pending(y)
  BY <1>1, <1>2, <1>3 DEF Pending, SameDisk, Halfway, SetAside, Promoted, Original
<1>5. \A m \in Months \ y.j.months : Original(y, m)
  BY <1>1, <1>2 DEF SameDisk, Original
<1>6. VersionOK(d, y)
  BY <1>1, <1>2, <1>3, <1>4, <1>5 DEF VersionOK
<1>7. Undone(y)
  BY <1>1 DEF Undone
<1>8. PointOK(y)
  BY <1>7 DEF PointOK
<1> QED
  BY <1>6, <1>8 DEF OK

\* A committed transaction is kept; its backups go.
LEMMA RecoverCommitted ==
    ASSUME NEW d \in Datasets, NEW x \in Views, NEW y, OK(d, x),
           x.j # None, x.j.state = "COMMITTED", x.p.why # "rollback",
           SameDisk(x, y), SameVersion(x, y),
           y.p.pc = "clean", y.p.why \in {"ingest", "startup"}, y.p.todo = x.j.months
    PROVE  OK(d, y)
<1>1. Final(x) /\ Final(y) /\ y.j = x.j
  BY DEF Final, SameDisk
<1>2. VersionOK(d, y)
  BY <1>1 DEF OK, VersionOK, SameDisk, SameVersion, Original, Settled
<1>3. PointOK(y)
  BY <1>1 DEF PointOK
<1> QED
  BY <1>2, <1>3 DEF OK

\* Facts every view with a pending transaction has.
LEMMA PendingFacts ==
    ASSUME NEW d \in Datasets, NEW x \in Views, OK(d, x), x.j # None, ~Final(x)
    PROVE  /\ JournalFits(d, x.j) /\ Pending(x)
           /\ x.receipts = x.data /\ x.reported \subseteq x.data
           /\ \A m \in Months \ x.j.months : Original(x, m)
           /\ x.j \in Journals /\ x.j.months \subseteq Months
  BY DEF OK, VersionOK, Views, Journals

\* What makes the version of a view with a pending transaction right.
LEMMA PendingOK ==
    ASSUME NEW d, NEW x, NEW y, x.j # None, ~Final(x), ~Final(y), VersionOK(d, x),
           y.j = x.j, SameVersion(x, y),
           \A m \in Months \ x.j.months : Original(y, m),
           \A m \in x.j.months : Halfway(y, m)
    PROVE  VersionOK(d, y)
<1>1. JournalFits(d, x.j) /\ Pending(x) /\ x.receipts = x.data /\ x.reported \subseteq x.data
  BY DEF VersionOK
<1>2. Pending(y)
  BY <1>1 DEF Pending, SameVersion
<1> QED
  BY <1>1, <1>2 DEF VersionOK, SameVersion

\* All partitions are as they were.
LEMMA UndoEnds ==
    ASSUME NEW d \in Datasets, NEW x \in Views, NEW y, OK(d, x), x.p.pc = "undo", x.p.todo = {},
           SameDisk(x, y), SameVersion(x, y), y.run = x.run,
           Moves(x, y, "dropBackup"), x.p.why # "finalize"
    PROVE  OK(d, y)
<1>1. Undone(x)
  BY DEF OK, PointOK
<1>2. x.j # None /\ ~Final(x) /\ ~Final(y) /\ y.j = x.j /\ x.data = x.j.before
  BY <1>1 DEF Undone, Final, Moves, SameDisk
<1>3. \A m \in Months : Original(x, m)
  BY <1>1, <1>2, PendingFacts DEF Undone
<1>4. \A m \in Months : Original(y, m) /\ Halfway(y, m)
  BY <1>2, <1>3 DEF Original, SameDisk, Halfway
<1>5. VersionOK(d, y)
  <2>1. x.j.months \subseteq Months
    BY <1>2, PendingFacts
  <2> QED
    BY <2>1, <1>2, <1>4, PendingOK DEF OK
<1>6. Cleaned(y)
  BY <1>2, <1>4 DEF Cleaned, Original, SameVersion
<1>7. PointOK(y)
  BY <1>6 DEF PointOK, Moves
<1> QED
  BY <1>5, <1>7 DEF OK

\* The promoted file of the partition is removed ...
LEMMA UndoRemoves ==
    ASSUME NEW d \in Datasets, NEW x \in Views, NEW y, OK(d, x), x.p.pc = "undo", x.p.todo # {},
           NEW m, m = Greatest(x.p.todo), x.backup[m] # {},
           y.file = [x.file EXCEPT ![m] = {}], y.backup = x.backup, y.saved = x.saved, y.j = x.j,
           SameVersion(x, y), Moves(x, y, "restore"), y.p.todo = x.p.todo, x.p.why # "finalize"
    PROVE  OK(d, y)
<1>1. Undone(x)
  BY DEF OK, PointOK
<1>2. x.j # None /\ ~Final(x) /\ ~Final(y) /\ x.data = x.j.before
  BY <1>1 DEF Undone, Final, Moves
<1>3. /\ Pending(x) /\ x.j.months \subseteq Months
      /\ \A k \in Months \ x.j.months : Original(x, k)
  BY <1>2, PendingFacts
<1>4. m \in x.p.todo /\ m \in x.j.months /\ m \in Months
  BY <1>1, <1>3, OfMonths DEF Undone
<1>5. SetAside(y, m)
  <2>1. Halfway(x, m)
    BY <1>3, <1>4 DEF Pending
  <2>2. x.backup[m] = In(x.j.before, m)
    BY <2>1 DEF Halfway, Original, SetAside, Promoted
  <2> QED
    BY <2>2, <1>4 DEF SetAside, Views
<1>6. \A k \in Months \ {m} : y.file[k] = x.file[k] /\ y.backup[k] = x.backup[k]
  BY DEF Views
<1>7. \A k \in Months \ x.j.months : Original(y, k)
  BY <1>3, <1>4, <1>6 DEF Original
<1>8. \A k \in x.j.months : Halfway(y, k)
  BY <1>3, <1>5, <1>6 DEF Halfway, Original, SetAside, Promoted, Pending
<1>9. VersionOK(d, y)
  BY <1>2, <1>7, <1>8, PendingOK DEF OK
<1>10. Undone(y)
  BY <1>1, <1>2, <1>3, <1>4, <1>6 DEF Undone, Original, SameVersion
<1>11. PointOK(y)
  BY <1>10 DEF PointOK, Moves
<1> QED
  BY <1>9, <1>11 DEF OK

\* ... or there is no original: a partition that had none disappears, one that
\* had one was not touched yet.
LEMMA UndoSkips ==
    ASSUME NEW d \in Datasets, NEW x \in Views, NEW y, OK(d, x), x.p.pc = "undo", x.p.todo # {},
           NEW m, m = Greatest(x.p.todo), x.backup[m] = {},
           y.file = IF m \in x.j.had THEN x.file ELSE [x.file EXCEPT ![m] = {}],
           y.backup = x.backup, y.saved = x.saved, y.j = x.j,
           SameVersion(x, y), Moves(x, y, "undo"), y.p.todo = x.p.todo \ {m}, x.p.why # "finalize"
    PROVE  OK(d, y)
<1>1. Undone(x)
  BY DEF OK, PointOK
<1>2. x.j # None /\ ~Final(x) /\ ~Final(y) /\ x.data = x.j.before
  BY <1>1 DEF Undone, Final, Moves
<1>3. /\ Pending(x) /\ x.j.months \subseteq Months /\ JournalFits(d, x.j)
      /\ \A k \in Months \ x.j.months : Original(x, k)
  BY <1>2, PendingFacts
<1>4. m \in x.p.todo /\ m \in x.j.months /\ m \in Months
  BY <1>1, <1>3, OfMonths DEF Undone
<1>5. Original(y, m)
  <2>1. Halfway(x, m)
    BY <1>3, <1>4 DEF Pending
  <2>2. CASE m \in x.j.had
    <3>1. In(x.j.before, m) # {}
      BY <2>2, <1>3 DEF JournalFits
    <3>2. Original(x, m)
      BY <3>1, <2>1 DEF Halfway, SetAside, Promoted
    <3> QED
      BY <2>2, <3>2 DEF Original
  <2>3. CASE m \notin x.j.had
    <3>1. In(x.j.before, m) = {}
      BY <2>3, <1>3, <1>4 DEF JournalFits
    <3> QED
      BY <2>3, <3>1, <1>4 DEF Original, Views
  <2> QED
    BY <2>2, <2>3
<1>6. \A k \in Months \ {m} : y.file[k] = x.file[k] /\ y.backup[k] = x.backup[k]
  BY DEF Views
<1>7. \A k \in Months \ x.j.months : Original(y, k)
  BY <1>3, <1>4, <1>6 DEF Original
<1>8. \A k \in x.j.months : Halfway(y, k)
  BY <1>3, <1>5, <1>6 DEF Halfway, Original, SetAside, Promoted, Pending
<1>9. VersionOK(d, y)
  BY <1>2, <1>7, <1>8, PendingOK DEF OK
<1>10. Undone(y)
  BY <1>1, <1>2, <1>3, <1>4, <1>5, <1>6 DEF Undone, Original, SameVersion
<1>11. PointOK(y)
  BY <1>10 DEF PointOK, Moves
<1> QED
  BY <1>9, <1>11 DEF OK

\* The original takes its name again.
LEMMA RestorePutsBack ==
    ASSUME NEW d \in Datasets, NEW x \in Views, NEW y, OK(d, x), x.p.pc = "restore",
           NEW m, m = Greatest(x.p.todo),
           y.file = [x.file EXCEPT ![m] = x.backup[m]], y.backup = [x.backup EXCEPT ![m] = {}],
           y.saved = x.saved, y.j = x.j,
           SameVersion(x, y), Moves(x, y, "undo"), y.p.todo = x.p.todo \ {m}, x.p.why # "finalize"
    PROVE  OK(d, y)
<1>1. Undone(x) /\ x.p.todo # {} /\ x.backup[m] # {}
  BY DEF OK, PointOK
<1>2. x.j # None /\ ~Final(x) /\ ~Final(y) /\ x.data = x.j.before
  BY <1>1 DEF Undone, Final, Moves
<1>3. /\ Pending(x) /\ x.j.months \subseteq Months
      /\ \A k \in Months \ x.j.months : Original(x, k)
  BY <1>2, PendingFacts
<1>4. m \in x.p.todo /\ m \in x.j.months /\ m \in Months
  BY <1>1, <1>3, OfMonths DEF Undone
<1>5. Original(y, m)
  <2>1. Halfway(x, m)
    BY <1>3, <1>4 DEF Pending
  <2>2. x.backup[m] = In(x.j.before, m)
    BY <2>1, <1>1 DEF Halfway, Original, SetAside, Promoted
  <2> QED
    BY <2>2, <1>4 DEF Original, Views
<1>6. \A k \in Months \ {m} : y.file[k] = x.file[k] /\ y.backup[k] = x.backup[k]
  BY DEF Views
<1>7. \A k \in Months \ x.j.months : Original(y, k)
  BY <1>3, <1>4, <1>6 DEF Original
<1>8. \A k \in x.j.months : Halfway(y, k)
  BY <1>3, <1>5, <1>6 DEF Halfway, Original, SetAside, Promoted, Pending
<1>9. VersionOK(d, y)
  BY <1>2, <1>7, <1>8, PendingOK DEF OK
<1>10. Undone(y)
  BY <1>1, <1>2, <1>3, <1>4, <1>5, <1>6 DEF Undone, Original, SameVersion
<1>11. PointOK(y)
  BY <1>10 DEF PointOK, Moves
<1> QED
  BY <1>9, <1>11 DEF OK

\* Facts every view with a committed transaction has.
LEMMA FinalFacts ==
    ASSUME NEW d \in Datasets, NEW x \in Views, OK(d, x), x.j # None, Final(x)
    PROVE  /\ JournalFits(d, x.j) /\ Settled(x)
           /\ x.receipts = x.data /\ x.reported \subseteq x.data
           /\ \A m \in Months \ x.j.months : Original(x, m)
           /\ x.j \in Journals /\ x.j.months \subseteq Months
           /\ \A m \in Months : x.file[m] = In(x.data, m)
<1>1. /\ JournalFits(d, x.j) /\ Settled(x)
      /\ x.receipts = x.data /\ x.reported \subseteq x.data
      /\ \A m \in Months \ x.j.months : Original(x, m)
      /\ x.j \in Journals /\ x.j.months \subseteq Months
  BY DEF OK, VersionOK, Views, Journals
<1>2. ASSUME NEW m \in Months
      PROVE  x.file[m] = In(x.data, m)
  <2>1. CASE m \in x.j.months
    <3>1. m \in MonthsOf[x.j.chunk]
      BY <2>1, <1>1 DEF JournalFits
    <3>2. In(x.data, m) = In(x.j.before, m) \cup {x.j.chunk}
      BY <3>1, <1>1 DEF Settled, In
    <3> QED
      BY <2>1, <3>2, <1>1 DEF Settled
  <2>2. CASE m \notin x.j.months
    <3>1. m \notin MonthsOf[x.j.chunk]
      BY <2>2, <1>1 DEF JournalFits
    <3>2. In(x.data, m) = In(x.j.before, m)
      BY <3>1, <1>1 DEF Settled, In
    <3> QED
      BY <2>2, <3>2, <1>1 DEF Original
  <2> QED
    BY <2>1, <2>2
<1> QED
  BY <1>1, <1>2

LEMMA CleanEnds ==
    ASSUME NEW d \in Datasets, NEW x \in Views, NEW y, OK(d, x), x.p.pc = "clean", x.p.todo = {},
           SameDisk(x, y), SameVersion(x, y), y.run = x.run, Moves(x, y, "dropBackup")
    PROVE  OK(d, y)
<1>1. x.j # None /\ Final(x) /\ \A m \in x.j.months : x.backup[m] = {}
  BY DEF OK, PointOK
<1>2. Final(y) /\ y.j = x.j
  BY <1>1 DEF Final, Moves, SameDisk
<1>3. VersionOK(d, y)
  BY <1>1, <1>2 DEF OK, VersionOK, SameDisk, SameVersion, Original, Settled
<1>4. Cleaned(y)
  <2>1. /\ \A m \in Months : x.file[m] = In(x.data, m)
        /\ \A m \in Months \ x.j.months : Original(x, m)
    BY <1>1, FinalFacts
  <2> QED
    BY <2>1, <1>1, <1>2 DEF Cleaned, Original, SameDisk, SameVersion
<1>5. PointOK(y)
  BY <1>1, <1>2, <1>4 DEF OK, PointOK, Moves, Mine, Final
<1> QED
  BY <1>3, <1>5 DEF OK

LEMMA CleanRemoves ==
    ASSUME NEW d \in Datasets, NEW x \in Views, NEW y, OK(d, x), x.p.pc = "clean", x.p.todo # {},
           NEW m, m = Least(x.p.todo),
           y.backup = [x.backup EXCEPT ![m] = {}], y.file = x.file, y.saved = x.saved, y.j = x.j,
           SameVersion(x, y), y.run = x.run, Moves(x, y, "clean"), y.p.todo = x.p.todo \ {m}
    PROVE  OK(d, y)
<1>1. /\ x.j # None /\ Final(x) /\ x.p.todo \subseteq x.j.months
      /\ \A k \in x.j.months \ x.p.todo : x.backup[k] = {}
  BY DEF OK, PointOK
<1>2. Final(y)
  BY <1>1 DEF Final, Moves
<1>3. /\ x.j.months \subseteq Months /\ JournalFits(d, x.j) /\ Settled(x)
      /\ x.receipts = x.data /\ x.reported \subseteq x.data
      /\ \A k \in Months \ x.j.months : Original(x, k)
  BY <1>1, FinalFacts
<1>4. m \in x.j.months /\ m \in x.p.todo
  BY <1>1, <1>3, OfMonths
<1>5. y.backup[m] = {} /\ \A k \in Months \ {m} : y.backup[k] = x.backup[k]
  BY <1>3, <1>4 DEF Views
<1>6. \A k \in Months \ x.j.months : Original(y, k)
  BY <1>3, <1>4, <1>5 DEF Original
<1>7. VersionOK(d, y)
  BY <1>1, <1>2, <1>3, <1>6 DEF VersionOK, SameVersion, Settled
<1>8. \A k \in y.j.months \ y.p.todo : y.backup[k] = {}
  BY <1>1, <1>3, <1>4, <1>5
<1>9. PointOK(y)
  BY <1>1, <1>2, <1>8 DEF OK, PointOK, Moves, Mine, Final
<1> QED
  BY <1>7, <1>9 DEF OK

\* The backup of the catalog goes, then the journal.
LEMMA BackupGoes ==
    ASSUME NEW d \in Datasets, NEW x \in Views, NEW y, OK(d, x), x.p.pc = "dropBackup",
           y.file = x.file, y.backup = x.backup, ~y.saved, y.j = x.j,
           SameVersion(x, y), y.run = x.run, Moves(x, y, "dropJournal")
    PROVE  OK(d, y)
<1>1. Cleaned(x)
  BY DEF OK, PointOK
<1>2. Final(x) <=> Final(y)
  BY DEF Final, Moves
<1>3. VersionOK(d, y)
  BY <1>1, <1>2 DEF OK, VersionOK, Cleaned, SameVersion, Original, Settled, Pending, Halfway,
                    SetAside, Promoted
<1>4. Cleaned(y)
  BY <1>1 DEF Cleaned, SameVersion
<1>5. PointOK(y)
  BY <1>4 DEF OK, PointOK, Moves, Mine
<1> QED
  BY <1>3, <1>5 DEF OK

\* What the finalizing executor reports is in the version it has committed.
LEMMA JournalGoes ==
    ASSUME NEW d \in Datasets, NEW x \in Views, NEW y, OK(d, x), x.p.pc = "dropJournal",
           y.file = x.file, y.backup = x.backup, y.saved = x.saved, y.j = None,
           y.data = x.data, y.receipts = x.receipts,
           \/ y.reported = x.reported
           \/ x.p.why = "finalize" /\ y.reported = x.reported \cup {x.p.chunk},
           \/ y.p.pc = "ready" /\ y.p.why = "ingest"
           \/ y.p.pc = "failRun" /\ y.p.why = "rollback"
           \/ y.p.pc = "idle" /\ y.p.why = "none"
    PROVE  OK(d, y)
<1>1. Cleaned(x) /\ ~x.saved
  BY DEF OK, PointOK
<1>2. Whole(y)
  BY <1>1 DEF Cleaned, Whole
<1>3. y.receipts = y.data /\ x.reported \subseteq x.data
  BY DEF OK, VersionOK
<1>4. x.p.why = "finalize" => x.p.chunk \in x.data
  <2>1. x.p.why = "finalize" => x.j # None /\ Final(x) /\ x.j.chunk = x.p.chunk
    BY DEF OK, PointOK, Mine, Final
  <2> QED
    BY <2>1, FinalFacts DEF Settled
<1>5. VersionOK(d, y)
  BY <1>2, <1>3, <1>4 DEF VersionOK
<1>6. PointOK(y)
  BY DEF PointOK
<1> QED
  BY <1>5, <1>6 DEF OK

\* The cleanup of a committed transaction is left to the next process.
LEMMA CleanupDeferred ==
    ASSUME NEW d \in Datasets, NEW x \in Views, NEW y, OK(d, x), x.p.why = "finalize",
           SameDisk(x, y), y.data = x.data, y.receipts = x.receipts,
           y.reported = x.reported \cup {x.p.chunk}, y.p.pc = "idle", y.p.why = "none"
    PROVE  OK(d, y)
<1>1. x.j # None /\ Final(x) /\ x.j.chunk = x.p.chunk /\ Final(y) /\ y.j = x.j
  BY DEF OK, PointOK, Mine, Final, SameDisk
<1>2. /\ JournalFits(d, x.j) /\ Settled(x) /\ x.receipts = x.data /\ x.reported \subseteq x.data
      /\ \A m \in Months \ x.j.months : Original(x, m)
  BY <1>1, FinalFacts
<1>3. y.reported \subseteq y.data
  BY <1>1, <1>2 DEF Settled
<1>4. VersionOK(d, y)
  BY <1>1, <1>2, <1>3 DEF VersionOK, SameDisk, Original, Settled
<1>5. PointOK(y)
  BY DEF PointOK
<1> QED
  BY <1>4, <1>5 DEF OK

\* A run of the reader's own, for a chunk without a receipt.
LEMMA RunStarts ==
    ASSUME NEW d \in Datasets, NEW x \in Views, NEW y, OK(d, x), x.p.pc = "ready",
           SameDisk(x, y), SameVersion(x, y), y.p.pc = "fetch", y.p.why = "ingest",
           y.run[y.p.run] = "RUNNING", y.p.chunk \notin x.receipts
    PROVE  OK(d, y)
<1>1. x.j = None /\ y.j = None
  BY DEF OK, PointOK, SameDisk
<1>2. VersionOK(d, y) /\ x.receipts = x.data
  BY <1>1 DEF OK, VersionOK, SameDisk, SameVersion, Whole
<1>3. PointOK(y)
  BY <1>1, <1>2 DEF PointOK, SameVersion
<1> QED
  BY <1>2, <1>3 DEF OK

\* The journal of the plan: all partitions of the chunk, as they are.
Planned(d, x) ==
    LET planned == {m \in MonthsOf[x.p.chunk] : x.p.chunk \notin x.file[m]}
    IN  [state |-> "PREPARED", chunk |-> x.p.chunk, run |-> x.p.run, months |-> planned,
         had |-> {m \in planned : x.file[m] # {}}, before |-> x.data]

LEMMA PlanFits ==
    ASSUME NEW d \in Datasets, NEW x \in Views, OK(d, x), x.p.pc = "fetch", x.p.run # 0,
           x.p.chunk # None, DatasetOf[x.p.chunk] = d
    PROVE  /\ JournalFits(d, Planned(d, x)) /\ Planned(d, x) \in Journals
           /\ \A m \in Months : x.file[m] = In(x.data, m) /\ x.backup[m] = {}
           /\ ~x.saved /\ x.j = None
<1> DEFINE c == x.p.chunk
           j == Planned(d, x)
<1>1. x.j = None /\ c \notin x.data /\ Whole(x)
  BY DEF OK, PointOK, VersionOK
<1>2. c \in Chunks /\ x.p.run \in 1..MaxRuns /\ MonthsOf[c] \subseteq Months
  BY ChunksAssumption, BoundsAssumption DEF Views, Processes
<1>3. \A m \in MonthsOf[c] : x.file[m] = In(x.data, m) /\ c \notin x.file[m]
  BY <1>1, <1>2 DEF Whole, In
<1>4. /\ j.state = "PREPARED" /\ j.chunk = c /\ j.run = x.p.run /\ j.before = x.data
      /\ j.months = MonthsOf[c] /\ j.had = {m \in j.months : x.file[m] # {}}
  BY <1>3 DEF Planned
<1>5. JournalFits(d, j)
  BY <1>1, <1>3, <1>4 DEF JournalFits
<1>6. j \in Journals
  <2>1. x.data \in SUBSET Chunks
    BY DEF Views
  <2>2. j = [state |-> j.state, chunk |-> j.chunk, run |-> j.run, months |-> j.months,
             had |-> j.had, before |-> j.before]
    BY DEF Planned
  <2> HIDE DEF j
  <2>3. j.had \subseteq Months /\ j.months \subseteq Months
    BY <1>2, <1>4
  <2> QED
    BY <1>2, <1>4, <2>1, <2>2, <2>3 DEF Journals
<1> QED
  BY <1>1, <1>5, <1>6 DEF Whole

\* The journal is written.  Its executor goes on, or a failure comes before its
\* answer.
LEMMA PlanWritten ==
    ASSUME NEW d \in Datasets, NEW x \in Views, NEW y, OK(d, x), x.p.pc = "fetch",
           x.p.why = "ingest", x.p.run # 0, x.p.chunk # None, DatasetOf[x.p.chunk] = d,
           y.file = x.file, y.backup = x.backup, y.saved = x.saved, y.j = Planned(d, x),
           SameVersion(x, y), y.run = x.run,
           \/ Moves(x, y, "failRun")
           \/ Moves(x, y, "aside") /\ y.p.todo = Planned(d, x).months
    PROVE  OK(d, y)
<1>1. /\ JournalFits(d, y.j) /\ y.j # None /\ ~x.saved /\ y.j.months \subseteq Months
      /\ \A m \in Months : x.file[m] = In(x.data, m) /\ x.backup[m] = {}
  BY PlanFits, NoneAssumption DEF Journals
<1>2. /\ y.j.state = "PREPARED" /\ y.j.before = x.data /\ y.j.chunk = x.p.chunk
      /\ y.j.run = x.p.run
  BY DEF Planned
<1>3. \A m \in Months : Original(y, m) /\ Halfway(y, m)
  BY <1>1, <1>2 DEF Original, Halfway
<1>4. y.p.chunk \notin x.data /\ x.run[x.p.run] = "RUNNING" /\ y.p.chunk = x.p.chunk
      /\ y.p.run = x.p.run /\ y.p.why = "ingest"
  BY DEF OK, PointOK, Moves
<1>5. x.receipts = x.data /\ x.reported \subseteq x.data
  BY DEF OK, VersionOK
<1>6. ~Final(y)
  BY <1>2 DEF Final
<1>7. Pending(y)
  BY <1>1, <1>2, <1>3, <1>4, <1>5 DEF Pending, SameVersion
<1>8. VersionOK(d, y)
  BY <1>1, <1>3, <1>5, <1>6, <1>7 DEF VersionOK, SameVersion
<1>9. CASE Moves(x, y, "failRun")
  <2>1. PointOK(y)
    BY <1>9, <1>4 DEF PointOK, Moves
  <2> QED
    BY <2>1, <1>8 DEF OK
<1>10. CASE Moves(x, y, "aside") /\ y.p.todo = Planned(d, x).months
  <2>1. Working(y)
    BY <1>10, <1>1, <1>2, <1>4 DEF Working, Mine, SameVersion
  <2>2. PointOK(y)
    BY <1>10, <1>1, <1>3, <1>4, <2>1 DEF PointOK, Moves
  <2> QED
    BY <2>2, <1>8 DEF OK
<1> QED
  BY <1>9, <1>10

\* A working executor: its plan is all it has to know of the version before.
LEMMA WorkingFacts ==
    ASSUME NEW d \in Datasets, NEW x \in Views, OK(d, x), Working(x)
    PROVE  /\ x.j # None /\ ~Final(x) /\ x.j.months \subseteq Months /\ x.p.todo \subseteq Months
           /\ \A m \in Months \ x.j.months : Original(x, m)
           /\ Pending(x)
<1>1. x.j # None /\ ~Final(x)
  BY DEF Working, Mine, Final
<1> QED
  BY <1>1, PendingFacts DEF Working

LEMMA AsideEnds ==
    ASSUME NEW d \in Datasets, NEW x \in Views, NEW y, OK(d, x), x.p.pc = "aside",
           x.p.why = "ingest", x.p.todo = {},
           SameDisk(x, y), SameVersion(x, y), y.run = x.run,
           Moves(x, y, "catalog"), y.p.todo = {}
    PROVE  OK(d, y)
<1>1. Working(x)
  BY DEF OK, PointOK
<1>2. x.j # None /\ ~Final(x) /\ ~Final(y) /\ y.j = x.j
  BY <1>1, WorkingFacts DEF Final, Moves, SameDisk
<1>3. /\ \A m \in Months \ x.j.months : Original(y, m)
      /\ \A m \in x.j.months : Halfway(y, m)
  BY <1>1, WorkingFacts DEF Pending, Halfway, Original, SetAside, Promoted, SameDisk
<1>4. VersionOK(d, y)
  BY <1>2, <1>3, PendingOK DEF OK
<1>5. Working(y)
  BY <1>1 DEF Working, Mine, Promoted, SameDisk, SameVersion, Moves
<1>6. PointOK(y)
  BY <1>5 DEF PointOK, Moves
<1> QED
  BY <1>4, <1>6 DEF OK

LEMMA AsideMoves ==
    ASSUME NEW d \in Datasets, NEW x \in Views, NEW y, OK(d, x), x.p.pc = "aside",
           x.p.why = "ingest", x.p.todo # {}, NEW m, m = Least(x.p.todo),
           y.backup = [x.backup EXCEPT ![m] = x.file[m]], y.file = [x.file EXCEPT ![m] = {}],
           y.saved = x.saved, y.j = x.j,
           SameVersion(x, y), y.run = x.run, Moves(x, y, "promote"), y.p.todo = x.p.todo
    PROVE  OK(d, y)
<1>1. Working(x) /\ \A k \in x.p.todo : Original(x, k)
  BY DEF OK, PointOK
<1>2. x.j # None /\ ~Final(x) /\ ~Final(y) /\ x.j.months \subseteq Months
  BY <1>1, WorkingFacts DEF Final, Moves
<1>3. m \in x.p.todo /\ m \in x.j.months /\ m \in Months
  BY <1>1, WorkingFacts, OfMonths DEF Working
<1>4. SetAside(y, m)
  BY <1>1, <1>3 DEF SetAside, Original, Views
<1>5. \A k \in Months \ {m} : y.file[k] = x.file[k] /\ y.backup[k] = x.backup[k]
  BY DEF Views
<1>6. /\ \A k \in Months \ x.j.months : Original(y, k)
      /\ \A k \in x.p.todo \ {m} : Original(y, k)
  BY <1>1, <1>2, <1>3, <1>5, WorkingFacts DEF Original
<1>7. \A k \in x.j.months \ x.p.todo : Promoted(y, k)
  BY <1>1, <1>2, <1>3, <1>5 DEF Working, Promoted
<1>8. \A k \in x.j.months : Halfway(y, k)
  BY <1>4, <1>6, <1>7 DEF Halfway
<1>9. VersionOK(d, y)
  BY <1>2, <1>6, <1>8, PendingOK DEF OK
<1>10. Working(y)
  BY <1>1, <1>7 DEF Working, Mine, SameVersion, Moves
<1>11. PointOK(y)
  BY <1>3, <1>4, <1>6, <1>10 DEF PointOK, Moves
<1> QED
  BY <1>9, <1>11 DEF OK

LEMMA PromoteMoves ==
    ASSUME NEW d \in Datasets, NEW x \in Views, NEW y, OK(d, x), x.p.pc = "promote",
           x.p.why = "ingest", NEW m, m = Least(x.p.todo),
           y.file = [x.file EXCEPT ![m] = x.backup[m] \cup {x.p.chunk}],
           y.backup = x.backup, y.saved = x.saved, y.j = x.j,
           SameVersion(x, y), y.run = x.run, Moves(x, y, "aside"), y.p.todo = x.p.todo \ {m}
    PROVE  OK(d, y)
<1>1. /\ Working(x) /\ x.p.todo # {} /\ SetAside(x, m)
      /\ \A k \in x.p.todo \ {m} : Original(x, k)
  BY DEF OK, PointOK
<1>2. x.j # None /\ ~Final(x) /\ ~Final(y) /\ x.j.months \subseteq Months
  BY <1>1, WorkingFacts DEF Final, Moves
<1>3. m \in x.p.todo /\ m \in x.j.months /\ m \in Months
  BY <1>1, WorkingFacts, OfMonths DEF Working
<1>4. Promoted(y, m)
  BY <1>1, <1>3 DEF SetAside, Promoted, Working, Mine, Views
<1>5. \A k \in Months \ {m} : y.file[k] = x.file[k] /\ y.backup[k] = x.backup[k]
  BY DEF Views
<1>6. /\ \A k \in Months \ x.j.months : Original(y, k)
      /\ \A k \in x.p.todo \ {m} : Original(y, k)
  BY <1>1, <1>2, <1>3, <1>5, WorkingFacts DEF Original
<1>7. \A k \in x.j.months \ y.p.todo : Promoted(y, k)
  BY <1>1, <1>2, <1>4, <1>5 DEF Working, Promoted
<1>8. \A k \in x.j.months : Halfway(y, k)
  BY <1>6, <1>7 DEF Halfway
<1>9. VersionOK(d, y)
  BY <1>2, <1>6, <1>8, PendingOK DEF OK
<1>10. Working(y)
  BY <1>1, <1>7 DEF Working, Mine, SameVersion, Moves
<1>11. PointOK(y)
  BY <1>6, <1>10 DEF PointOK, Moves
<1> QED
  BY <1>9, <1>11 DEF OK

\* promote_partition fails and puts the original back.
LEMMA PromoteFails ==
    ASSUME NEW d \in Datasets, NEW x \in Views, NEW y, OK(d, x), x.p.pc = "promote",
           NEW m, m = Least(x.p.todo),
           y.file = [x.file EXCEPT ![m] = x.backup[m]], y.backup = [x.backup EXCEPT ![m] = {}],
           y.saved = x.saved, y.j = x.j, SameVersion(x, y),
           y.p.pc = "rollback", y.p.why = "rollback", y.p.chunk = x.p.chunk, y.p.run = x.p.run
    PROVE  OK(d, y)
<1>1. /\ Working(x) /\ x.p.todo # {} /\ SetAside(x, m)
  BY DEF OK, PointOK
<1>2. x.j # None /\ ~Final(x) /\ ~Final(y) /\ x.j.months \subseteq Months
  BY <1>1, WorkingFacts DEF Final
<1>3. m \in x.j.months /\ m \in Months
  BY <1>1, WorkingFacts, OfMonths DEF Working
<1>4. Original(y, m)
  BY <1>1, <1>3 DEF SetAside, Original, Views
<1>5. \A k \in Months \ {m} : y.file[k] = x.file[k] /\ y.backup[k] = x.backup[k]
  BY DEF Views
<1>6. \A k \in Months \ x.j.months : Original(y, k)
  BY <1>1, <1>2, <1>3, <1>5, WorkingFacts DEF Original
<1>7. \A k \in x.j.months : Halfway(y, k)
  BY <1>1, <1>2, <1>4, <1>5, WorkingFacts DEF Pending, Halfway, Original, SetAside, Promoted
<1>8. VersionOK(d, y)
  BY <1>2, <1>6, <1>7, PendingOK DEF OK
<1>9. PointOK(y)
  BY <1>1, <1>2 DEF PointOK, Working, Mine, SameVersion
<1> QED
  BY <1>8, <1>9 DEF OK

\* The replacement of the catalog fails before it begins.
LEMMA CatalogFails ==
    ASSUME NEW d \in Datasets, NEW x \in Views, NEW y, OK(d, x), x.p.pc = "catalog",
           SameDisk(x, y), SameVersion(x, y),
           y.p.pc = "rollback", y.p.why = "rollback", y.p.chunk = x.p.chunk, y.p.run = x.p.run
    PROVE  OK(d, y)
<1>1. Working(x)
  BY DEF OK, PointOK
<1>2. x.j # None /\ ~Final(x) /\ ~Final(y) /\ y.j = x.j
  BY <1>1, WorkingFacts DEF Final, SameDisk
<1>3. /\ \A m \in Months \ x.j.months : Original(y, m)
      /\ \A m \in x.j.months : Halfway(y, m)
  BY <1>1, WorkingFacts DEF Pending, Halfway, Original, SetAside, Promoted, SameDisk
<1>4. VersionOK(d, y)
  BY <1>2, <1>3, PendingOK DEF OK
<1>5. PointOK(y)
  BY <1>1, <1>2 DEF PointOK, Working, Mine, SameVersion
<1> QED
  BY <1>4, <1>5 DEF OK

\* catalog.json has the new version, the journal not yet.
LEMMA CatalogReplaced ==
    ASSUME NEW d \in Datasets, NEW x \in Views, NEW y, OK(d, x), x.p.pc = "catalog",
           x.p.why = "ingest",
           y.file = x.file, y.backup = x.backup, y.saved, y.j = x.j, y.reported = x.reported,
           y.data = x.data \cup {x.p.chunk}, y.receipts = x.receipts \cup {x.p.chunk},
           y.run[x.p.run] = "COMPLETED", Moves(x, y, "commit")
    PROVE  OK(d, y)
<1>1. Working(x) /\ x.p.todo = {}
  BY DEF OK, PointOK
<1>2. x.j # None /\ ~Final(x) /\ ~Final(y) /\ x.j.chunk = x.p.chunk /\ x.data = x.j.before
  BY <1>1, WorkingFacts DEF Final, Moves, Working, Mine
<1>3. /\ JournalFits(d, x.j) /\ Pending(x) /\ x.receipts = x.data /\ x.reported \subseteq x.data
      /\ \A m \in Months \ x.j.months : Original(x, m)
  BY <1>2, PendingFacts
<1>4. \A m \in x.j.months : Promoted(x, m)
  BY <1>1 DEF Working
<1>5. Settled(y)
  BY <1>2, <1>4 DEF Settled, Promoted
<1>6. Pending(y)
  BY <1>2, <1>3 DEF Pending, Halfway, Original, SetAside, Promoted
<1>7. VersionOK(d, y)
  BY <1>2, <1>3, <1>6 DEF VersionOK, Original
<1>8. PointOK(y)
  BY <1>1, <1>5 DEF PointOK, Moves, Working, Mine
<1> QED
  BY <1>7, <1>8 DEF OK

\* The COMMITTED journal makes it final ...
LEMMA Committed ==
    ASSUME NEW d \in Datasets, NEW x \in Views, NEW y, OK(d, x), x.p.pc = "commit",
           y.file = x.file, y.backup = x.backup, y.saved = x.saved,
           y.j = [x.j EXCEPT !.state = "COMMITTED"], SameVersion(x, y), y.run = x.run,
           y.p.pc = "clean", y.p.why = "finalize", y.p.chunk = x.p.chunk, y.p.run = x.p.run,
           y.p.todo = x.j.months
    PROVE  OK(d, y)
<1>1. /\ Mine(x) /\ x.j.state = "PREPARED" /\ x.saved
      /\ x.run[x.p.run] = "COMPLETED" /\ Settled(x)
  BY DEF OK, PointOK
<1>2. x.j # None /\ ~Final(x)
  BY <1>1 DEF Mine, Final
<1>3. /\ JournalFits(d, x.j) /\ x.receipts = x.data /\ x.reported \subseteq x.data /\ x.j \in Journals
      /\ \A m \in Months \ x.j.months : Original(x, m)
  BY <1>2, PendingFacts
<1>4. /\ y.j \in Journals /\ y.j # None /\ y.j.state = "COMMITTED"
      /\ y.j.chunk = x.j.chunk /\ y.j.before = x.j.before /\ y.j.months = x.j.months
      /\ y.j.had = x.j.had /\ y.j.run = x.j.run
  BY <1>3, NoneAssumption DEF Journals
<1>5. Final(y)
  BY <1>4 DEF Final
<1>6. Settled(y)
  BY <1>1, <1>4 DEF Settled, SameVersion
<1>7. VersionOK(d, y)
  BY <1>3, <1>4, <1>5, <1>6 DEF VersionOK, JournalFits, SameVersion, Original
<1>8. PointOK(y)
  BY <1>1, <1>4, <1>5 DEF PointOK, Mine
<1> QED
  BY <1>7, <1>8 DEF OK

\* ... or fails, before or after it reached the directory, and is taken back.
LEMMA CommitFails ==
    ASSUME NEW d \in Datasets, NEW x \in Views, NEW y, OK(d, x), x.p.pc = "commit",
           y.file = x.file, y.backup = x.backup, y.saved = x.saved,
           y.j \in {x.j, [x.j EXCEPT !.state = "COMMITTED"]}, SameVersion(x, y),
           y.p.pc = "rollback", y.p.why = "rollback", y.p.chunk = x.p.chunk, y.p.run = x.p.run
    PROVE  OK(d, y)
<1>1. Mine(x) /\ x.j.state = "PREPARED" /\ x.saved
  BY DEF OK, PointOK
<1>2. x.j # None /\ ~Final(x)
  BY <1>1 DEF Mine, Final
<1>3. /\ JournalFits(d, x.j) /\ x.receipts = x.data /\ x.reported \subseteq x.data /\ x.j \in Journals
      /\ Pending(x) /\ \A m \in Months \ x.j.months : Original(x, m)
  BY <1>2, PendingFacts
<1>4. /\ y.j \in Journals /\ y.j # None
      /\ y.j.chunk = x.j.chunk /\ y.j.before = x.j.before /\ y.j.months = x.j.months
      /\ y.j.had = x.j.had /\ y.j.run = x.j.run
  BY <1>3, NoneAssumption DEF Journals
<1>5. ~Final(y)
  BY DEF Final
<1>6. Pending(y)
  BY <1>3, <1>4 DEF Pending, SameVersion, Halfway, Original, SetAside, Promoted
<1>7. VersionOK(d, y)
  BY <1>3, <1>4, <1>5, <1>6 DEF VersionOK, JournalFits, SameVersion, Original
<1>8. PointOK(y)
  BY <1>1, <1>4 DEF PointOK, Mine
<1> QED
  BY <1>7, <1>8 DEF OK

\* catalog.json is unlinked: the view is that of its backup from here on.
LEMMA CatalogUnlinked ==
    ASSUME NEW d \in Datasets, NEW x \in Views, NEW y, OK(d, x), x.p.pc = "rollback",
           x.p.why = "rollback", x.saved,
           SameDisk(x, y), y.reported = x.reported,
           y.data = x.j.before, y.receipts = x.receipts \ {x.p.chunk},
           Moves(x, y, "rollbackRestore")
    PROVE  OK(d, y)
<1>1. Mine(x)
  BY DEF OK, PointOK
<1>2. x.j # None /\ ~Final(x) /\ ~Final(y) /\ y.j = x.j /\ x.j.chunk = x.p.chunk
  BY <1>1 DEF Mine, Final, Moves, SameDisk
<1>3. /\ JournalFits(d, x.j) /\ Pending(x) /\ x.receipts = x.data /\ x.reported \subseteq x.data
      /\ \A m \in Months \ x.j.months : Original(x, m)
  BY <1>2, PendingFacts
<1>4. y.receipts = y.data /\ y.reported \subseteq y.data
  BY <1>2, <1>3 DEF Pending, JournalFits
<1>5. Pending(y)
  BY <1>2, <1>3 DEF Pending, SameDisk, Halfway, Original, SetAside, Promoted
<1>6. VersionOK(d, y)
  BY <1>2, <1>3, <1>4, <1>5 DEF VersionOK, SameDisk, Original
<1>7. PointOK(y)
  BY <1>2 DEF PointOK, Moves, SameDisk
<1> QED
  BY <1>6, <1>7 DEF OK

\* The version before is back in the catalog, or was never replaced.
LEMMA CatalogIsBack ==
    ASSUME NEW d \in Datasets, NEW x \in Views, NEW y, OK(d, x),
           \/ x.p.pc = "rollback" /\ ~x.saved
           \/ x.p.pc = "rollbackRestore",
           x.p.why = "rollback",
           y.file = x.file, y.backup = x.backup, ~y.saved, y.j = x.j, SameVersion(x, y),
           Moves(x, y, "undo"), y.p.todo = x.j.months
    PROVE  OK(d, y)
<1>1. x.j # None /\ x.data = x.j.before
  BY DEF OK, PointOK, Mine
<1>2. ~Final(x) /\ ~Final(y)
  BY DEF Final, Moves
<1>3. /\ \A m \in Months \ x.j.months : Original(y, m)
      /\ \A m \in x.j.months : Halfway(y, m)
  BY <1>1, <1>2, PendingFacts DEF Pending, Halfway, Original, SetAside, Promoted
<1>4. VersionOK(d, y)
  BY <1>1, <1>2, <1>3, PendingOK DEF OK
<1>5. Undone(y)
  BY <1>1, <1>2 DEF Undone, SameVersion
<1>6. PointOK(y)
  BY <1>5 DEF PointOK, Moves
<1> QED
  BY <1>4, <1>6 DEF OK

-----------------------------------------------------------------------------
(* What a step of one process may touch *)

\* The files of d only.
DiskOf(d) ==
    /\ file' \in [Datasets -> [Months -> SUBSET Chunks]]
    /\ backup' \in [Datasets -> [Months -> SUBSET Chunks]]
    /\ saved' \in [Datasets -> Catalogs \cup {None}]
    /\ journal' \in [Datasets -> Journals \cup {None}]
    /\ \A e \in Datasets \ {d} : /\ file'[e] = file[e] /\ backup'[e] = backup[e]
                                /\ saved'[e] = saved[e] /\ journal'[e] = journal[e]
\* The catalogs a and b differ in the keys of d only.
SameElsewhere(a, b, d) ==
    \A e \in Datasets \ {d} : /\ b.data[e] = a.data[e] /\ b.run[e] = a.run[e]
                           /\ Of(b.receipts, e) = Of(a.receipts, e)
ReportedOf(d) == /\ reported' \in SUBSET Chunks
                 /\ \A e \in Datasets \ {d} : Of(reported', e) = Of(reported, e)
\* Process w gets to q, with the lease of the catalog if q is a point below it.
Gets(w, q) == /\ proc' = [proc EXCEPT ![w] = q]
              /\ q \in Processes /\ ProcOK(q)
              /\ IF q.pc \in Leased THEN clock \in {None, w} /\ clock' = w
                                    ELSE clock' = FreeCatalog(w)
\* The lock of d: kept, given back, or taken; or w has no dataset and nobody has d.
Keeps(w, q, d) == dlock' = dlock /\ q.ds = d /\ proc[w].ds = d
Releases(w, q, d) == dlock' = Free(w, dlock) /\ q.ds = None /\ proc[w].ds = d
Takes(w, q, d) == /\ dlock[d] = None /\ dlock' = [dlock EXCEPT ![d] = w]
                  /\ q.ds = d /\ proc[w].ds = None
Passes(w, q, d) == /\ dlock[d] = None /\ dlock' = dlock
                   /\ q.ds = None /\ proc[w].ds = None
Locking(w, q, d) == Keeps(w, q, d) \/ Releases(w, q, d) \/ Takes(w, q, d) \/ Passes(w, q, d)

\* A dataset has one holder, who knows it.
LEMMA HeldBy ==
    ASSUME IInv, NEW w \in Procs, NEW d \in Datasets, proc[w].ds = d
    PROVE  /\ dlock[d] = w /\ Holder(d) = proc[w]
           /\ \A v \in Procs \ {w} : proc[v].ds # d
           /\ \A e \in Datasets \ {d} : dlock[e] # w
<1>1. dlock[d] = w /\ \A v \in Procs, e \in Datasets : dlock[e] = v <=> proc[v].ds = e
  BY DEF IInv, LocksOK
<1>2. w # None
  BY ProcsAssumption
<1> QED
  BY <1>1, <1>2 DEF Holder

LEMMA GetsFacts ==
    ASSUME IInv, NEW w \in Procs, NEW q, Gets(w, q)
    PROVE  /\ proc'[w] = q /\ \A v \in Procs \ {w} : proc'[v] = proc[v]
           /\ proc' \in [Procs -> Processes] /\ clock' \in Procs \cup {None}
           /\ clock \notin {None, w} => clock' = clock
           /\ clock \in {None, w} => clock' \in {None, w}
  BY DEF Gets, IInv, TypeOK, FreeCatalog

LEMMA LocksKept ==
    ASSUME IInv, NEW w \in Procs, NEW q, Gets(w, q), NEW d \in Datasets \cup {None},
           Locking(w, q, d), d = None => Keeps(w, q, d) \/ Releases(w, q, d)
    PROVE  /\ LocksOK' /\ dlock' \in [Datasets -> Procs \cup {None}]
           /\ \A e \in Datasets \ {d} : dlock'[e] = dlock[e]
<1>1. /\ proc'[w] = q /\ \A v \in Procs \ {w} : proc'[v] = proc[v]
  BY GetsFacts
<1>2. dlock \in [Datasets -> Procs \cup {None}] /\ w # None /\ None \notin Procs /\ None \notin Datasets
  BY ProcsAssumption DEF IInv, TypeOK
<1>3. \A v \in Procs, e \in Datasets : dlock[e] = v <=> proc[v].ds = e
  BY DEF IInv, LocksOK
<1>4. \A v \in Procs : proc'[v].pc \in Leased <=> clock' = v
  <2>1. \A v \in Procs : proc[v].pc \in Leased <=> clock = v
    BY DEF IInv, LocksOK
  <2> QED
    BY <1>1, <1>2, <2>1 DEF Gets, FreeCatalog
<1>5. /\ \A v \in Procs, e \in Datasets : dlock'[e] = v <=> proc'[v].ds = e
      /\ dlock' \in [Datasets -> Procs \cup {None}]
      /\ \A e \in Datasets \ {d} : dlock'[e] = dlock[e]
  <2>1. CASE Keeps(w, q, d)
    BY <1>1, <1>2, <1>3, <2>1 DEF Keeps
  <2>2. CASE Releases(w, q, d)
    BY <1>1, <1>2, <1>3, <2>2 DEF Releases, Free
  <2>3. CASE Takes(w, q, d) /\ d \in Datasets
    BY <1>1, <1>2, <1>3, <2>3 DEF Takes
  <2>4. CASE Passes(w, q, d)
    BY <1>1, <1>2, <1>3, <2>4 DEF Passes
  <2> QED
    BY <2>1, <2>2, <2>3, <2>4 DEF Locking
<1> QED
  BY <1>4, <1>5 DEF LocksOK

-----------------------------------------------------------------------------
(* The catalog before and after a step *)

\* While w or nobody has the lease, and w is not between the replacements.
LEMMA CatIsBefore ==
    ASSUME NEW w \in Procs, clock \in {None, w}, proc[w].pc # "rollbackRestore"
    PROVE  Cat = catalog
  BY DEF Cat, Restoring
LEMMA CatIsAfter ==
    ASSUME NEW w \in Procs, clock' \in {None, w}, proc'[w].pc # "rollbackRestore"
    PROVE  Cat' = catalog'
  BY DEF Cat, Restoring

LEMMA CatKept ==
    ASSUME IInv, NEW w \in Procs, NEW q, Gets(w, q), NEW d \in Datasets \cup {None},
           proc[w].ds \in {d, None}, d # None => dlock[d] \in {w, None},
           proc[w].pc # "rollbackRestore", q.pc # "rollbackRestore",
           UNCHANGED catalog, \A e \in Datasets \ {d} : saved'[e] = saved[e]
    PROVE  Cat' = Cat
<1>1. CASE clock \in {None, w}
  BY <1>1, GetsFacts, CatIsBefore, CatIsAfter
<1>2. CASE clock \notin {None, w}
  <2>1. clock' = clock /\ proc'[clock] = proc[clock] /\ clock \in Procs
    BY <1>2, GetsFacts DEF IInv, TypeOK
  <2>2. CASE Restoring
    <3>1. proc[clock].ds \in Datasets
      BY <2>1, <2>2 DEF Restoring, IInv, ProcOK, Outside, TypeOK, Processes
    <3>2. proc[clock].ds # d
      BY <3>1, <2>1, <1>2, HeldBy, ProcsAssumption
    <3>3. saved'[proc[clock].ds] = saved[proc[clock].ds]
      BY <3>1, <3>2
    <3> QED
      BY <2>1, <2>2, <3>3 DEF Cat, Restoring
  <2>3. CASE ~Restoring
    BY <2>1, <2>3 DEF Cat, Restoring
  <2> QED
    BY <2>2, <2>3
<1> QED
  BY <1>1, <1>2

-----------------------------------------------------------------------------
(* A step of one process keeps the invariant *)

LEMMA StepKeeps ==
    ASSUME IInv, NEW w \in Procs, NEW q, Gets(w, q), NEW d \in Datasets \cup {None},
           Locking(w, q, d), d = None => Keeps(w, q, d) \/ Releases(w, q, d),
           DiskOf(d), ReportedOf(d), SameElsewhere(Cat, Cat', d),
           catalog' \in Catalogs, clock \notin {None, w} => UNCHANGED catalog,
           faults' \in 0..MaxFaults,
           q.pc \in {"commit", "rollback"} => BackupOK(w)',
           d # None => OK(d, View(d)')
    PROVE  IInv'
<1>1. /\ proc'[w] = q /\ \A v \in Procs \ {w} : proc'[v] = proc[v]
      /\ proc' \in [Procs -> Processes] /\ clock' \in Procs \cup {None}
  BY GetsFacts
<1>2. /\ LocksOK' /\ dlock' \in [Datasets -> Procs \cup {None}]
      /\ \A e \in Datasets \ {d} : dlock'[e] = dlock[e]
  BY LocksKept
<1>3. TypeOK'
  BY <1>1, <1>2 DEF TypeOK, DiskOf, ReportedOf
<1>4. d # None => dlock[d] \in {w, None}
  BY HeldBy DEF Locking, Keeps, Releases, Takes, Passes
<1>5. ASSUME NEW e \in Datasets \ {d}
      PROVE  View(e)' = View(e)
  <2>1. dlock[e] # w
    BY <1>5, ProcsAssumption DEF IInv, LocksOK, Locking, Keeps, Releases, Takes, Passes
  <2>2. dlock[e] # None => dlock[e] \in Procs \ {w}
    BY <2>1 DEF IInv, TypeOK
  <2>3. Holder(e)' = Holder(e)
    BY <1>1, <1>2, <2>2 DEF Holder
  <2>4. /\ file'[e] = file[e] /\ backup'[e] = backup[e]
        /\ saved'[e] = saved[e] /\ journal'[e] = journal[e]
    BY DEF DiskOf
  <2>5. /\ Cat'.data[e] = Cat.data[e] /\ Cat'.run[e] = Cat.run[e]
        /\ Of(Cat'.receipts, e) = Of(Cat.receipts, e) /\ Of(reported', e) = Of(reported, e)
    BY DEF SameElsewhere, ReportedOf
  <2> QED
    BY <2>3, <2>4, <2>5 DEF View, Of
<1>6. \A e \in Datasets : VersionOK(e, View(e)') /\ PointOK(View(e)')
  <2> SUFFICES ASSUME NEW e \in Datasets
               PROVE  VersionOK(e, View(e)') /\ PointOK(View(e)')
    OBVIOUS
  <2>1. CASE e = d
    BY <2>1, ProcsAssumption DEF OK
  <2>2. CASE e # d
    <3>1. View(e)' = View(e)
      BY <2>2, <1>5
    <3>2. VersionOK(e, View(e)) /\ PointOK(View(e))
      BY DEF IInv
    <3> QED
      BY <3>1, <3>2
  <2> QED
    BY <2>1, <2>2
<1>7. ASSUME NEW v \in Procs
      PROVE  ProcOK(proc'[v]) /\ BackupOK(v)'
  <2>1. CASE v = w
    BY <2>1, <1>1 DEF Gets, BackupOK
  <2>2. CASE v # w
    <3>1. ProcOK(proc'[v]) /\ BackupOK(v) /\ proc'[v] = proc[v]
      BY <2>2, <1>1 DEF IInv
    <3>2. CASE proc[v].pc \notin {"commit", "rollback"}
      BY <3>1, <3>2 DEF BackupOK
    <3>3. CASE proc[v].pc \in {"commit", "rollback"}
      <4>1. clock = v /\ v # None
        BY <3>3, ProcsAssumption DEF IInv, LocksOK, Leased
      <4>2. catalog' = catalog
        BY <4>1, <2>2
      <4>3. proc[v].ds \in Datasets /\ proc[v].ds # d
        <5>1. proc[v].ds \in Datasets
          BY <3>3 DEF IInv, ProcOK, Outside, TypeOK, Processes
        <5> QED
          BY <5>1, <1>4, <2>2, HeldBy, ProcsAssumption
      <4>4. saved'[proc[v].ds] = saved[proc[v].ds] /\ journal'[proc[v].ds] = journal[proc[v].ds]
        BY <4>3 DEF DiskOf
      <4> QED
        BY <3>1, <4>2, <4>4 DEF BackupOK, Ds
    <3> QED
      BY <3>1, <3>2, <3>3
  <2> QED
    BY <2>1, <2>2
<1> QED
  BY <1>2, <1>3, <1>6, <1>7 DEF IInv

\* What a process sees of the dataset it holds, and what it leaves.
LEMMA ViewBefore ==
    ASSUME IInv, NEW d \in Datasets
    PROVE  /\ View(d) \in Views /\ OK(d, View(d))
           /\ View(d).file = file[d] /\ View(d).backup = backup[d] /\ View(d).j = journal[d]
           /\ View(d).saved = (saved[d] # None)
           /\ View(d).data = Cat.data[d] /\ View(d).receipts = Of(Cat.receipts, d)
           /\ View(d).run = Cat.run[d] /\ View(d).reported = Of(reported, d)
           /\ View(d).p = Holder(d)
           /\ \A w \in Procs : proc[w].ds = d => View(d).p = proc[w]
           /\ dlock[d] = None => View(d).p = Idle
<1>1. View(d) \in Views /\ OK(d, View(d))
  BY ViewTyped DEF IInv, OK
<1>2. /\ View(d).file = file[d] /\ View(d).backup = backup[d] /\ View(d).j = journal[d]
      /\ View(d).saved = (saved[d] # None)
      /\ View(d).data = Cat.data[d] /\ View(d).receipts = Of(Cat.receipts, d)
      /\ View(d).run = Cat.run[d] /\ View(d).reported = Of(reported, d)
      /\ View(d).p = Holder(d)
  BY DEF View
<1>3. \A w \in Procs : proc[w].ds = d => View(d).p = proc[w]
  BY <1>2, HeldBy
<1>4. dlock[d] = None => View(d).p = Idle
  BY <1>2 DEF Holder
<1> QED
  BY <1>1, <1>2, <1>3, <1>4

LEMMA ViewAfter ==
    ASSUME IInv, NEW w \in Procs, NEW q, Gets(w, q), NEW d \in Datasets, Locking(w, q, d)
    PROVE  /\ View(d)'.file = file'[d] /\ View(d)'.backup = backup'[d] /\ View(d)'.j = journal'[d]
           /\ View(d)'.saved = (saved'[d] # None)
           /\ View(d)'.data = Cat'.data[d] /\ View(d)'.receipts = Of(Cat'.receipts, d)
           /\ View(d)'.run = Cat'.run[d] /\ View(d)'.reported = Of(reported', d)
           /\ q.ds = d => View(d)'.p = q
           /\ q.ds = None => View(d)'.p = Idle
<1>1. /\ View(d)'.file = file'[d] /\ View(d)'.backup = backup'[d] /\ View(d)'.j = journal'[d]
      /\ View(d)'.saved = (saved'[d] # None)
      /\ View(d)'.data = Cat'.data[d] /\ View(d)'.receipts = Of(Cat'.receipts, d)
      /\ View(d)'.run = Cat'.run[d] /\ View(d)'.reported = Of(reported', d)
      /\ View(d)'.p = Holder(d)'
  BY DEF View, Of
<1>2. proc'[w] = q /\ w # None /\ d # None
  BY GetsFacts, ProcsAssumption
<1>3. ASSUME q.ds = d PROVE dlock'[d] = w
  BY <1>2, <1>3, HeldBy DEF Locking, Keeps, Releases, Takes, Passes, IInv, TypeOK
<1>4. ASSUME q.ds = None PROVE dlock'[d] = None
  BY <1>2, <1>4, HeldBy DEF Locking, Keeps, Releases, Takes, Passes, Free
<1> QED
  BY <1>1, <1>2, <1>3, <1>4 DEF Holder

\* A step that leaves the catalog alone.
Quiet(w, q, d) == /\ Gets(w, q) /\ Locking(w, q, d) /\ DiskOf(d) /\ UNCHANGED catalog
                  /\ proc[w].pc # "rollbackRestore" /\ q.pc # "rollbackRestore"
LEMMA QuietView ==
    ASSUME IInv, NEW w \in Procs, NEW q, NEW d \in Datasets, Quiet(w, q, d)
    PROVE  /\ View(d)'.data = View(d).data /\ View(d)'.receipts = View(d).receipts
           /\ View(d)'.run = View(d).run
           /\ Cat' = Cat
<1>1. proc[w].ds \in {d, None} /\ (d # None => dlock[d] \in {w, None})
  BY HeldBy DEF Quiet, Locking, Keeps, Releases, Takes, Passes
<1>2. Cat' = Cat
  BY <1>1, CatKept DEF Quiet, DiskOf
<1>3. /\ View(d)'.data = Cat'.data[d] /\ View(d)'.receipts = Of(Cat'.receipts, d)
      /\ View(d)'.run = Cat'.run[d]
  BY ViewAfter DEF Quiet
<1> QED
  BY <1>2, <1>3, ViewBefore DEF Of

LEMMA QuietKeeps ==
    ASSUME IInv, NEW w \in Procs, NEW q, NEW d \in Datasets, Quiet(w, q, d), ReportedOf(d),
           faults' \in 0..MaxFaults, q.pc \in {"commit", "rollback"} => BackupOK(w)',
           OK(d, View(d)')
    PROVE  IInv'
<1>1. Cat' = Cat
  BY QuietView
<1>2. SameElsewhere(Cat, Cat', d)
  BY <1>1 DEF SameElsewhere, Of
<1>3. catalog' \in Catalogs /\ d # None
  BY ProcsAssumption DEF Quiet, IInv, TypeOK
<1> QED
  BY <1>2, <1>3, StepKeeps DEF Quiet

LEMMA DiskAsItIs ==
    ASSUME IInv, UNCHANGED <<file, backup, saved, journal>>, NEW d
    PROVE  DiskOf(d)
  BY DEF IInv, TypeOK, DiskOf
LEMMA ReportedAsItIs ==
    ASSUME IInv, UNCHANGED reported, NEW d
    PROVE  ReportedOf(d)
  BY DEF IInv, TypeOK, ReportedOf

\* The record of a process that has a dataset in hand.
LEMMA InHand ==
    ASSUME IInv, NEW w \in Procs, proc[w].pc \notin Outside
    PROVE  /\ proc[w] \in Processes /\ ProcOK(proc[w])
           /\ proc[w].ds \in Datasets /\ Ds(w) = proc[w].ds
           /\ proc[w].pc \in Leased <=> clock = w
           /\ proc[w].todo \subseteq Months
  BY DEF IInv, TypeOK, ProcOK, LocksOK, Processes, Ds

\* A step to a point that is neither an end nor a beginning.
LEMMA GoStays ==
    ASSUME IInv, NEW w \in Procs, proc[w].pc \notin Outside,
           NEW pc \in Points, pc \notin Outside, NEW S \in SUBSET Months,
           Go(w, pc) \/ GoTodo(w, pc, S), UNCHANGED dlock,
           proc[w].why \in CallersAt(pc), pc \in Running => proc[w].run # 0,
           IF pc \in Leased THEN clock \in {None, w} /\ clock' = w ELSE clock' = FreeCatalog(w)
    PROVE  /\ Gets(w, proc'[w]) /\ Keeps(w, proc'[w], Ds(w)) /\ Locking(w, proc'[w], Ds(w))
           /\ proc'[w].pc = pc /\ proc'[w].why = proc[w].why /\ proc'[w].ds = proc[w].ds
           /\ proc'[w].chunk = proc[w].chunk /\ proc'[w].run = proc[w].run
           /\ Go(w, pc) => proc'[w].todo = proc[w].todo
           /\ GoTodo(w, pc, S) => proc'[w].todo = S
<1> DEFINE p == proc[w]
           q == proc'[w]
<1>1. p \in Processes /\ ProcOK(p) /\ p.ds \in Datasets /\ Ds(w) = p.ds
  BY InHand
<1>2. /\ q \in Processes /\ q.pc = pc /\ q.why = p.why /\ q.ds = p.ds /\ q.chunk = p.chunk
      /\ q.run = p.run /\ proc' = [proc EXCEPT ![w] = q]
      /\ Go(w, pc) => q.todo = p.todo
      /\ GoTodo(w, pc, S) => q.todo = S
  <2>1. CASE Go(w, pc)
    <3>1. q = [p EXCEPT !.pc = pc] /\ proc' = [proc EXCEPT ![w] = q]
      BY <2>1 DEF Go, IInv, TypeOK
    <3>2. q.todo = p.todo
      BY <3>1, <1>1 DEF Processes
    <3>3. ASSUME GoTodo(w, pc, S) PROVE q.todo = S
      <4>1. q = [p EXCEPT !.pc = pc, !.todo = S]
        BY <3>3 DEF GoTodo, IInv, TypeOK
      <4> QED
        BY <4>1, <1>1 DEF Processes
    <3>4. /\ q \in Processes /\ q.pc = pc /\ q.why = p.why /\ q.ds = p.ds /\ q.chunk = p.chunk
          /\ q.run = p.run
      BY <3>1, <1>1 DEF Processes
    <3> QED
      BY <3>1, <3>2, <3>3, <3>4
  <2>2. CASE GoTodo(w, pc, S)
    <3>1. q = [p EXCEPT !.pc = pc, !.todo = S] /\ proc' = [proc EXCEPT ![w] = q]
      BY <2>2 DEF GoTodo, IInv, TypeOK
    <3>2. q.todo = S
      BY <3>1, <1>1 DEF Processes
    <3>3. ASSUME Go(w, pc) PROVE q.todo = p.todo
      <4>1. q = [p EXCEPT !.pc = pc]
        BY <3>3 DEF Go, IInv, TypeOK
      <4> QED
        BY <4>1, <1>1 DEF Processes
    <3>4. /\ q \in Processes /\ q.pc = pc /\ q.why = p.why /\ q.ds = p.ds /\ q.chunk = p.chunk
          /\ q.run = p.run
      BY <3>1, <1>1 DEF Processes
    <3> QED
      BY <3>1, <3>2, <3>3, <3>4
  <2> QED
    BY <2>1, <2>2
<1>3. ProcOK(q)
  <2>1. q.ds # None
    BY <1>1, <1>2, ProcsAssumption
  <2>2. q.pc \in Running \/ q.why \in {"rollback", "finalize"} => q.run # 0
    BY <1>1, <1>2 DEF ProcOK
  <2> QED
    BY <1>1, <1>2, <2>1, <2>2 DEF ProcOK
<1>4. Gets(w, q)
  BY <1>2, <1>3 DEF Gets
<1>5. Keeps(w, q, Ds(w))
  BY <1>1, <1>2 DEF Keeps
<1> QED
  BY <1>2, <1>4, <1>5 DEF Locking

\* The view after a quiet step of a process that holds d and keeps it.
LEMMA StayView ==
    ASSUME IInv, NEW w \in Procs, NEW q, NEW d \in Datasets, Quiet(w, q, d),
           proc[w].ds = d, q.ds = d, UNCHANGED reported
    PROVE  /\ View(d) \in Views /\ OK(d, View(d)) /\ View(d).p = proc[w]
           /\ View(d)'.file = file'[d] /\ View(d)'.backup = backup'[d]
           /\ View(d)'.saved = (saved'[d] # None) /\ View(d)'.j = journal'[d]
           /\ View(d).file = file[d] /\ View(d).backup = backup[d]
           /\ View(d).saved = (saved[d] # None) /\ View(d).j = journal[d]
           /\ SameVersion(View(d), View(d)') /\ View(d)'.run = View(d).run /\ View(d)'.p = q
<1>1. /\ View(d)'.data = View(d).data /\ View(d)'.receipts = View(d).receipts
      /\ View(d)'.run = View(d).run
  BY QuietView
<1>2. Gets(w, q) /\ Locking(w, q, d)
  BY DEF Quiet
<1>3. /\ View(d)'.file = file'[d] /\ View(d)'.backup = backup'[d]
      /\ View(d)'.saved = (saved'[d] # None) /\ View(d)'.j = journal'[d]
      /\ View(d)'.reported = Of(reported', d) /\ View(d)'.p = q
  BY <1>2, ViewAfter
<1> QED
  BY <1>1, <1>3, ViewBefore DEF SameVersion

\* One partition of one dataset gets another content.
LEMMA PartitionSet ==
    ASSUME NEW f \in [Datasets -> [Months -> SUBSET Chunks]], NEW d \in Datasets, NEW m,
           NEW v \in SUBSET Chunks, NEW g, g = [f EXCEPT ![d][m] = v]
    PROVE  /\ g \in [Datasets -> [Months -> SUBSET Chunks]] /\ g[d] = [f[d] EXCEPT ![m] = v]
           /\ \A e \in Datasets \ {d} : g[e] = f[e]
  OBVIOUS

LEMMA DiskTyped ==
    ASSUME IInv
    PROVE  /\ file \in [Datasets -> [Months -> SUBSET Chunks]]
           /\ backup \in [Datasets -> [Months -> SUBSET Chunks]]
           /\ saved \in [Datasets -> Catalogs \cup {None}]
           /\ journal \in [Datasets -> Journals \cup {None}]
           /\ catalog \in Catalogs /\ reported \in SUBSET Chunks /\ faults \in 0..MaxFaults
           /\ dlock \in [Datasets -> Procs \cup {None}]
  BY DEF IInv, TypeOK

-----------------------------------------------------------------------------
(* Recovery, rollback and cleanup *)

\* A step of w, which has d and the lease of the catalog, to q or point pc.
Held(w, d) == /\ proc[w].ds = d /\ proc[w].pc \in Leased \ {"rollbackRestore"}
              /\ UNCHANGED <<catalog, dlock, clock, reported>> /\ DiskOf(d)
              /\ UNCHANGED faults \/ faults' \in 0..MaxFaults
Leads(w, pc) == /\ pc \in Leased \ {"rollbackRestore"} /\ proc[w].why \in CallersAt(pc)
                /\ pc \in Running => proc[w].run # 0
\* The views of d that the step goes between.
Seen(w, q, d) ==
    /\ View(d) \in Views /\ OK(d, View(d)) /\ View(d).p = proc[w]
    /\ View(d)'.file = file'[d] /\ View(d)'.backup = backup'[d]
    /\ View(d)'.saved = (saved'[d] # None) /\ View(d)'.j = journal'[d]
    /\ View(d).file = file[d] /\ View(d).backup = backup[d]
    /\ View(d).saved = (saved[d] # None) /\ View(d).j = journal[d]
    /\ SameVersion(View(d), View(d)') /\ View(d)'.run = View(d).run /\ View(d)'.p = q

LEMMA HeldStep ==
    ASSUME IInv, NEW w \in Procs, NEW d \in Datasets, Held(w, d),
           NEW q \in Processes, proc' = [proc EXCEPT ![w] = q], ProcOK(q), q.ds = d,
           q.pc \in Leased, q.pc # "rollbackRestore"
    PROVE  Quiet(w, q, d) /\ Seen(w, q, d)
<1>1. clock = w
  BY DEF IInv, LocksOK, Held
<1>2. Gets(w, q)
  BY <1>1 DEF Gets, Held
<1>3. Quiet(w, q, d)
  BY <1>2 DEF Quiet, Locking, Keeps, Held
<1> QED
  BY <1>3, StayView DEF Held, Seen

LEMMA HeldKeeps ==
    ASSUME IInv, NEW w \in Procs, NEW d \in Datasets, Held(w, d), NEW q, Quiet(w, q, d),
           q.pc \in {"commit", "rollback"} => BackupOK(w)', OK(d, View(d)')
    PROVE  IInv'
<1>1. ReportedOf(d) /\ faults' \in 0..MaxFaults
  BY ReportedAsItIs, DiskTyped DEF Held
<1> QED
  BY <1>1, QuietKeeps

\* Nothing but the point and the partitions left change in w.
LEMMA GoFacts ==
    ASSUME IInv, NEW w \in Procs, NEW pc \in Points, NEW S \in SUBSET Months,
           Go(w, pc) \/ GoTodo(w, pc, S)
    PROVE  /\ proc' = [proc EXCEPT ![w] = proc'[w]] /\ proc'[w] \in Processes
           /\ proc'[w].pc = pc /\ proc'[w].why = proc[w].why /\ proc'[w].ds = proc[w].ds
           /\ proc'[w].chunk = proc[w].chunk /\ proc'[w].run = proc[w].run
           /\ proc'[w].todo = proc[w].todo \/ proc'[w].todo = S
           /\ Go(w, pc) => proc'[w].todo = proc[w].todo
           /\ GoTodo(w, pc, S) => proc'[w].todo = S
<1> DEFINE p == proc[w]
           q == proc'[w]
<1>1. p \in Processes
  BY DEF IInv, TypeOK
<1>2. Go(w, pc) => q = [p EXCEPT !.pc = pc] /\ proc' = [proc EXCEPT ![w] = q]
  BY DEF Go, IInv, TypeOK
<1>3. GoTodo(w, pc, S) => q = [p EXCEPT !.pc = pc, !.todo = S] /\ proc' = [proc EXCEPT ![w] = q]
  BY DEF GoTodo, IInv, TypeOK
<1> HIDE DEF p, q
<1>4. ASSUME Go(w, pc)
      PROVE  /\ q \in Processes /\ q.pc = pc /\ q.why = p.why /\ q.ds = p.ds /\ q.chunk = p.chunk
             /\ q.run = p.run /\ q.todo = p.todo
  BY <1>1, <1>2, <1>4 DEF Processes
<1>5. ASSUME GoTodo(w, pc, S)
      PROVE  /\ q \in Processes /\ q.pc = pc /\ q.why = p.why /\ q.ds = p.ds /\ q.chunk = p.chunk
             /\ q.run = p.run /\ q.todo = S
  BY <1>1, <1>3, <1>5 DEF Processes
<1> QED
  BY <1>2, <1>3, <1>4, <1>5 DEF p, q

LEMMA HeldMoves ==
    ASSUME IInv, NEW w \in Procs, NEW d \in Datasets, Held(w, d), NEW pc, Leads(w, pc),
           NEW S \in SUBSET Months, Go(w, pc) \/ GoTodo(w, pc, S)
    PROVE  /\ Quiet(w, proc'[w], d) /\ Seen(w, proc'[w], d) /\ proc'[w].pc = pc
           /\ Moves(View(d), View(d)', pc)
           /\ Go(w, pc) => proc'[w].todo = proc[w].todo
           /\ GoTodo(w, pc, S) => proc'[w].todo = S
<1> DEFINE q == proc'[w]
<1>0. pc \in Points /\ pc \in Leased /\ pc # "rollbackRestore" /\ pc \notin Outside
  BY DEF Leads, Leased, Points, Outside
<1>1. /\ proc' = [proc EXCEPT ![w] = q] /\ q \in Processes
      /\ q.pc = pc /\ q.why = proc[w].why /\ q.ds = d /\ q.chunk = proc[w].chunk
      /\ q.run = proc[w].run
      /\ Go(w, pc) => q.todo = proc[w].todo
      /\ GoTodo(w, pc, S) => q.todo = S
  BY <1>0, GoFacts DEF Held
<1>2. ProcOK(q)
  <2>1. ProcOK(proc[w]) /\ d # None
    BY ProcsAssumption DEF IInv
  <2>2. q.pc \in Running \/ q.why \in {"rollback", "finalize"} => q.run # 0
    BY <2>1, <1>1 DEF ProcOK, Leads
  <2>3. q.why \in {"ingest", "rollback", "finalize"} => q.chunk # None /\ DatasetOf[q.chunk] = q.ds
    BY <2>1, <1>1 DEF ProcOK, Held
  <2> QED
    BY <1>0, <1>1, <2>1, <2>2, <2>3 DEF ProcOK, Leads
<1> HIDE DEF q
<1>3. Quiet(w, q, d) /\ Seen(w, q, d)
  BY <1>0, <1>1, <1>2, HeldStep
<1>4. Moves(View(d), View(d)', pc)
  BY <1>1, <1>3 DEF Moves, Seen
<1> QED
  BY <1>1, <1>3, <1>4 DEF q

LEMMA UndoKeeps ==
    ASSUME IInv, NEW w \in Procs, Undo(w), NEW d \in Datasets, proc[w].ds = d
    PROVE  IInv'
<1> DEFINE m == Greatest(proc[w].todo)
<1>1. /\ proc[w].pc = "undo" /\ Ds(w) = d
      /\ UNCHANGED <<backup, catalog, saved, journal, dlock, clock, reported, faults>>
  BY DEF Undo, At, Ds
<1>2. proc[w].todo \subseteq Months /\ proc[w].pc \in Leased \ {"rollbackRestore"}
  BY <1>1, InHand DEF Outside, Leased
<1>3. proc[w].why \in {"ingest", "startup", "rollback"}
  BY <1>1 DEF IInv, ProcOK, CallersAt, Outside
<1>4. \A pc \in {"undo", "restore", "dropBackup"} :
        Leads(w, pc) /\ pc \notin {"commit", "rollback"}
  BY <1>3 DEF Leads, Leased, Running, CallersAt, Outside
<1>5. CASE proc[w].todo = {} /\ Go(w, "dropBackup") /\ UNCHANGED file
  <2>1. Held(w, d) /\ Leads(w, "dropBackup") /\ {} \in SUBSET Months
    BY <1>1, <1>2, <1>4, <1>5, DiskAsItIs DEF Held
  <2>2. /\ Quiet(w, proc'[w], d) /\ Seen(w, proc'[w], d) /\ proc'[w].pc = "dropBackup"
        /\ Moves(View(d), View(d)', "dropBackup")
    BY <1>5, <2>1, HeldMoves
  <2>3. OK(d, View(d)')
    BY <1>1, <1>3, <1>5, <2>2, UndoEnds DEF Seen, SameDisk
  <2> QED
    BY <2>1, <2>2, <2>3, HeldKeeps
<1>6. CASE /\ proc[w].todo # {} /\ backup[d][m] # {}
           /\ file' = [file EXCEPT ![d][m] = {}]
           /\ Go(w, "restore")
  <2>1. DiskOf(d) /\ file'[d] = [file[d] EXCEPT ![m] = {}]
    BY <1>1, <1>6, DiskTyped, PartitionSet DEF DiskOf
  <2>2. Held(w, d) /\ Leads(w, "restore") /\ {} \in SUBSET Months
    BY <1>1, <1>2, <1>4, <2>1 DEF Held
  <2>3. /\ Quiet(w, proc'[w], d) /\ Seen(w, proc'[w], d) /\ proc'[w].pc = "restore"
        /\ Moves(View(d), View(d)', "restore") /\ proc'[w].todo = proc[w].todo
    BY <1>6, <2>2, HeldMoves
  <2>4. OK(d, View(d)')
    BY <1>1, <1>3, <1>6, <2>1, <2>3, UndoRemoves DEF Seen
  <2> QED
    BY <2>2, <2>3, <2>4, HeldKeeps
<1>7. CASE /\ proc[w].todo # {} /\ backup[d][m] = {}
           /\ file' = IF m \in journal[d].had THEN file ELSE [file EXCEPT ![d][m] = {}]
           /\ GoTodo(w, "undo", proc[w].todo \ {m})
  <2>1. /\ DiskOf(d)
        /\ file'[d] = IF m \in journal[d].had THEN file[d] ELSE [file[d] EXCEPT ![m] = {}]
    BY <1>1, <1>7, DiskTyped, PartitionSet DEF DiskOf
  <2>2. Held(w, d) /\ Leads(w, "undo") /\ proc[w].todo \ {m} \in SUBSET Months
    BY <1>1, <1>2, <1>4, <2>1 DEF Held
  <2>3. /\ Quiet(w, proc'[w], d) /\ Seen(w, proc'[w], d) /\ proc'[w].pc = "undo"
        /\ Moves(View(d), View(d)', "undo") /\ proc'[w].todo = proc[w].todo \ {m}
    BY <1>7, <2>2, HeldMoves
  <2>4. OK(d, View(d)')
    BY <1>1, <1>3, <1>7, <2>1, <2>3, UndoSkips DEF Seen
  <2> QED
    BY <2>2, <2>3, <2>4, HeldKeeps
<1> QED
  BY <1>1, <1>5, <1>6, <1>7 DEF Undo

LEMMA RestoreKeeps ==
    ASSUME IInv, NEW w \in Procs, Restore(w), NEW d \in Datasets, proc[w].ds = d
    PROVE  IInv'
<1> DEFINE m == Greatest(proc[w].todo)
<1>1. /\ proc[w].pc = "restore" /\ Ds(w) = d
      /\ UNCHANGED <<catalog, saved, journal, dlock, clock, reported, faults>>
      /\ file' = [file EXCEPT ![d][m] = backup[d][m]]
      /\ backup' = [backup EXCEPT ![d][m] = {}]
      /\ GoTodo(w, "undo", proc[w].todo \ {m})
  BY DEF Restore, At, Ds
<1>2. proc[w].todo \ {m} \in SUBSET Months /\ proc[w].pc \in Leased \ {"rollbackRestore"}
  BY <1>1, InHand DEF Outside, Leased
<1>3. proc[w].why \in {"ingest", "startup", "rollback"}
  BY <1>1 DEF IInv, ProcOK, CallersAt, Outside
<1>4. Leads(w, "undo")
  BY <1>3 DEF Leads, Leased, Running, CallersAt, Outside
<1>5. backup[d][m] \in SUBSET Chunks
  <2>1. OK(d, View(d)) /\ View(d) \in Views /\ View(d).backup = backup[d] /\ View(d).p = proc[w]
    BY ViewBefore
  <2>2. proc[w].todo # {}
    BY <1>1, <2>1 DEF OK, PointOK
  <2>3. m \in Months
    BY <1>1, <2>2, InHand, OfMonths DEF Outside
  <2> QED
    BY <2>1, <2>3 DEF Views
<1>6. /\ DiskOf(d) /\ file'[d] = [file[d] EXCEPT ![m] = backup[d][m]]
      /\ backup'[d] = [backup[d] EXCEPT ![m] = {}]
  BY <1>1, <1>5, DiskTyped, PartitionSet DEF DiskOf
<1>7. Held(w, d)
  BY <1>1, <1>2, <1>6 DEF Held
<1>8. /\ Quiet(w, proc'[w], d) /\ Seen(w, proc'[w], d) /\ proc'[w].pc = "undo"
      /\ Moves(View(d), View(d)', "undo") /\ proc'[w].todo = proc[w].todo \ {m}
  BY <1>1, <1>2, <1>4, <1>7, HeldMoves
<1>9. OK(d, View(d)')
  BY <1>1, <1>3, <1>6, <1>8, RestorePutsBack DEF Seen
<1> QED
  BY <1>7, <1>8, <1>9, HeldKeeps

LEMMA CleanKeeps ==
    ASSUME IInv, NEW w \in Procs, Clean(w), NEW d \in Datasets, proc[w].ds = d
    PROVE  IInv'
<1> DEFINE m == Least(proc[w].todo)
<1>1. /\ proc[w].pc = "clean" /\ Ds(w) = d
      /\ UNCHANGED <<file, catalog, saved, journal, dlock, clock, reported, faults>>
  BY DEF Clean, At, Ds
<1>2. proc[w].todo \subseteq Months /\ proc[w].pc \in Leased \ {"rollbackRestore"}
  BY <1>1, InHand DEF Outside, Leased
<1>3. proc[w].why \in {"ingest", "startup", "finalize"}
  BY <1>1 DEF IInv, ProcOK, CallersAt, Outside
<1>4. Leads(w, "clean") /\ Leads(w, "dropBackup")
  BY <1>3 DEF Leads, Leased, Running, CallersAt, Outside
<1>5. CASE proc[w].todo = {} /\ Go(w, "dropBackup") /\ UNCHANGED backup
  <2>1. Held(w, d) /\ {} \in SUBSET Months
    BY <1>1, <1>2, <1>5, DiskAsItIs DEF Held
  <2>2. /\ Quiet(w, proc'[w], d) /\ Seen(w, proc'[w], d) /\ proc'[w].pc = "dropBackup"
        /\ Moves(View(d), View(d)', "dropBackup")
    BY <1>4, <1>5, <2>1, HeldMoves
  <2>3. OK(d, View(d)')
    BY <1>1, <1>5, <2>2, CleanEnds DEF Seen, SameDisk
  <2> QED
    BY <2>1, <2>2, <2>3, HeldKeeps
<1>6. CASE /\ proc[w].todo # {}
           /\ backup' = [backup EXCEPT ![d][m] = {}]
           /\ GoTodo(w, "clean", proc[w].todo \ {m})
  <2>1. DiskOf(d) /\ backup'[d] = [backup[d] EXCEPT ![m] = {}]
    BY <1>1, <1>6, DiskTyped, PartitionSet DEF DiskOf
  <2>2. Held(w, d) /\ proc[w].todo \ {m} \in SUBSET Months
    BY <1>1, <1>2, <2>1 DEF Held
  <2>3. /\ Quiet(w, proc'[w], d) /\ Seen(w, proc'[w], d) /\ proc'[w].pc = "clean"
        /\ Moves(View(d), View(d)', "clean") /\ proc'[w].todo = proc[w].todo \ {m}
    BY <1>4, <1>6, <2>2, HeldMoves
  <2>4. OK(d, View(d)')
    BY <1>1, <1>6, <2>1, <2>3, CleanRemoves DEF Seen
  <2> QED
    BY <2>2, <2>3, <2>4, HeldKeeps
<1> QED
  BY <1>1, <1>5, <1>6 DEF Clean

LEMMA DropBackupKeeps ==
    ASSUME IInv, NEW w \in Procs, DropBackup(w), NEW d \in Datasets, proc[w].ds = d
    PROVE  IInv'
<1>1. /\ proc[w].pc = "dropBackup" /\ Ds(w) = d
      /\ UNCHANGED <<file, backup, catalog, journal, dlock, clock, reported, faults>>
      /\ saved' = [saved EXCEPT ![d] = None] /\ Go(w, "dropJournal")
  BY DEF DropBackup, At, Ds
<1>2. /\ proc[w].pc \in Leased \ {"rollbackRestore"}
      /\ proc[w].why \in {"ingest", "startup", "rollback", "finalize"}
  BY <1>1 DEF IInv, ProcOK, CallersAt, Outside, Leased
<1>3. Leads(w, "dropJournal") /\ {} \in SUBSET Months
  BY <1>2 DEF Leads, Leased, Running, CallersAt, Outside
<1>4. DiskOf(d) /\ saved'[d] = None
  BY <1>1, DiskTyped DEF DiskOf
<1>5. Held(w, d)
  BY <1>1, <1>2, <1>4 DEF Held
<1>6. /\ Quiet(w, proc'[w], d) /\ Seen(w, proc'[w], d) /\ proc'[w].pc = "dropJournal"
      /\ Moves(View(d), View(d)', "dropJournal")
  BY <1>1, <1>3, <1>5, HeldMoves
<1>7. OK(d, View(d)')
  BY <1>1, <1>4, <1>6, BackupGoes DEF Seen
<1> QED
  BY <1>5, <1>6, <1>7, HeldKeeps

-----------------------------------------------------------------------------
(* One ingestion under the lease *)

LEMMA AsideKeeps ==
    ASSUME IInv, NEW w \in Procs, Aside(w), NEW d \in Datasets, proc[w].ds = d
    PROVE  IInv'
<1> DEFINE m == Least(proc[w].todo)
<1>1. /\ proc[w].pc = "aside" /\ Ds(w) = d
      /\ UNCHANGED <<catalog, saved, journal, dlock, clock, reported, faults>>
  BY DEF Aside, At, Ds
<1>2. proc[w].todo \subseteq Months /\ proc[w].pc \in Leased \ {"rollbackRestore"}
  BY <1>1, InHand DEF Outside, Leased
<1>3. proc[w].why = "ingest" /\ proc[w].run # 0
  BY <1>1 DEF IInv, ProcOK, CallersAt, Outside, Running
<1>4. Leads(w, "catalog") /\ Leads(w, "promote")
  BY <1>3 DEF Leads, Leased, CallersAt, Outside
<1>5. CASE proc[w].todo = {} /\ Go(w, "catalog") /\ UNCHANGED <<file, backup>>
  <2>1. Held(w, d) /\ {} \in SUBSET Months
    BY <1>1, <1>2, <1>5, DiskAsItIs DEF Held
  <2>2. /\ Quiet(w, proc'[w], d) /\ Seen(w, proc'[w], d) /\ proc'[w].pc = "catalog"
        /\ Moves(View(d), View(d)', "catalog") /\ proc'[w].todo = {}
    BY <1>4, <1>5, <2>1, HeldMoves
  <2>3. OK(d, View(d)')
    BY <1>1, <1>3, <1>5, <2>2, AsideEnds DEF Seen, SameDisk
  <2> QED
    BY <2>1, <2>2, <2>3, HeldKeeps
<1>6. CASE /\ proc[w].todo # {}
           /\ backup' = [backup EXCEPT ![d][m] = file[d][m]]
           /\ file' = [file EXCEPT ![d][m] = {}]
           /\ Go(w, "promote")
  <2>0. m \in Months
    BY <1>2, <1>6, OfMonths
  <2>1. /\ DiskOf(d) /\ backup'[d] = [backup[d] EXCEPT ![m] = file[d][m]]
        /\ file'[d] = [file[d] EXCEPT ![m] = {}]
    BY <1>1, <1>6, <2>0, DiskTyped, PartitionSet DEF DiskOf
  <2>2. Held(w, d) /\ {} \in SUBSET Months
    BY <1>1, <1>2, <2>1 DEF Held
  <2>3. /\ Quiet(w, proc'[w], d) /\ Seen(w, proc'[w], d) /\ proc'[w].pc = "promote"
        /\ Moves(View(d), View(d)', "promote") /\ proc'[w].todo = proc[w].todo
    BY <1>4, <1>6, <2>2, HeldMoves
  <2>4. OK(d, View(d)')
    BY <1>1, <1>3, <1>6, <2>1, <2>3, AsideMoves DEF Seen
  <2> QED
    BY <2>2, <2>3, <2>4, HeldKeeps
<1> QED
  BY <1>1, <1>5, <1>6 DEF Aside

LEMMA PromoteKeeps ==
    ASSUME IInv, NEW w \in Procs, Promote(w), NEW d \in Datasets, proc[w].ds = d
    PROVE  IInv'
<1> DEFINE m == Least(proc[w].todo)
<1>1. /\ proc[w].pc = "promote" /\ Ds(w) = d
      /\ UNCHANGED <<backup, catalog, saved, journal, dlock, clock, reported, faults>>
      /\ file' = [file EXCEPT ![d][m] = backup[d][m] \cup {proc[w].chunk}]
      /\ GoTodo(w, "aside", proc[w].todo \ {m})
  BY DEF Promote, At, Ds
<1>2. proc[w].todo \ {m} \in SUBSET Months /\ proc[w].pc \in Leased \ {"rollbackRestore"}
  BY <1>1, InHand DEF Outside, Leased
<1>3. /\ proc[w].why = "ingest" /\ proc[w].run # 0 /\ proc[w].chunk # None
      /\ proc[w].todo \subseteq Months /\ proc[w] \in Processes
  BY <1>1, InHand DEF ProcOK, CallersAt, Outside, Running
<1>4. Leads(w, "aside")
  BY <1>3 DEF Leads, Leased, CallersAt, Outside
<1>5. backup[d][m] \cup {proc[w].chunk} \in SUBSET Chunks
  <2>1. OK(d, View(d)) /\ View(d) \in Views /\ View(d).backup = backup[d] /\ View(d).p = proc[w]
    BY ViewBefore
  <2>2. proc[w].todo # {}
    BY <1>1, <2>1 DEF OK, PointOK
  <2>3. m \in Months
    BY <1>3, <2>2, OfMonths
  <2> QED
    BY <1>3, <2>1, <2>3 DEF Views, Processes
<1>6. DiskOf(d) /\ file'[d] = [file[d] EXCEPT ![m] = backup[d][m] \cup {proc[w].chunk}]
  BY <1>1, <1>5, DiskTyped, PartitionSet DEF DiskOf
<1>7. Held(w, d)
  BY <1>1, <1>2, <1>6 DEF Held
<1>8. /\ Quiet(w, proc'[w], d) /\ Seen(w, proc'[w], d) /\ proc'[w].pc = "aside"
      /\ Moves(View(d), View(d)', "aside") /\ proc'[w].todo = proc[w].todo \ {m}
  BY <1>1, <1>2, <1>4, <1>7, HeldMoves
<1>9. OK(d, View(d)')
  BY <1>1, <1>3, <1>6, <1>8, PromoteMoves DEF Seen
<1> QED
  BY <1>7, <1>8, <1>9, HeldKeeps

LEMMA CommitKeeps ==
    ASSUME IInv, NEW w \in Procs, Commit(w), NEW d \in Datasets, proc[w].ds = d
    PROVE  IInv'
<1> DEFINE q == proc'[w]
<1>1. /\ proc[w].pc = "commit" /\ Ds(w) = d
      /\ UNCHANGED <<file, backup, catalog, saved, dlock, clock, reported, faults>>
      /\ journal' = [journal EXCEPT ![d].state = "COMMITTED"]
      /\ proc' = [proc EXCEPT ![w].pc = "clean", ![w].why = "finalize",
                              ![w].todo = journal[d].months]
  BY DEF Commit, At, Ds
<1>2. /\ proc[w].why = "ingest" /\ proc[w].run # 0 /\ proc[w].chunk # None
      /\ proc[w] \in Processes /\ ProcOK(proc[w]) /\ proc[w].pc \in Leased \ {"rollbackRestore"}
  BY <1>1, InHand DEF ProcOK, CallersAt, Outside, Running, Leased
<1>3. journal[d] \in Journals
  <2>1. OK(d, View(d)) /\ View(d).j = journal[d] /\ View(d).p = proc[w]
    BY ViewBefore
  <2>2. journal[d] # None
    BY <1>1, <2>1 DEF OK, PointOK, Mine
  <2> QED
    BY <2>2, DiskTyped
<1>4. /\ journal'[d] = [journal[d] EXCEPT !.state = "COMMITTED"] /\ journal'[d] \in Journals
      /\ journal' \in [Datasets -> Journals \cup {None}]
      /\ \A e \in Datasets \ {d} : journal'[e] = journal[e]
  BY <1>1, <1>3, DiskTyped DEF Journals
<1>5. DiskOf(d) /\ Held(w, d)
  BY <1>1, <1>2, <1>4, DiskTyped DEF DiskOf, Held
<1>6. /\ q \in Processes /\ q.pc = "clean" /\ q.why = "finalize" /\ q.todo = journal[d].months
      /\ q.ds = d /\ q.chunk = proc[w].chunk /\ q.run = proc[w].run
      /\ proc' = [proc EXCEPT ![w] = q]
  <2>1. /\ q = [proc[w] EXCEPT !.pc = "clean", !.why = "finalize", !.todo = journal[d].months]
        /\ proc' = [proc EXCEPT ![w] = q]
    BY <1>1 DEF IInv, TypeOK
  <2> HIDE DEF q
  <2>2. journal[d].months \in SUBSET Months
    BY <1>3 DEF Journals
  <2> QED
    BY <1>2, <2>1, <2>2 DEF Processes, Points, Callers
<1> HIDE DEF q
<1>7. ProcOK(q) /\ q.pc \in Leased /\ q.pc # "rollbackRestore"
  BY <1>2, <1>6, ProcsAssumption DEF ProcOK, CallersAt, Outside, Running, Leased
<1>8. Quiet(w, q, d) /\ Seen(w, q, d)
  BY <1>5, <1>6, <1>7, HeldStep
<1>9. OK(d, View(d)')
  BY <1>1, <1>4, <1>6, <1>8, Committed DEF Seen
<1> QED
  BY <1>5, <1>6, <1>8, <1>9, HeldKeeps

\* The executor has the error of an operation before the commit.
LEMMA ExecutorFails ==
    ASSUME IInv, NEW w \in Procs, NEW d \in Datasets, Held(w, d),
           proc[w].pc \in {"promote", "catalog", "commit"},
           proc' = [proc EXCEPT ![w].pc = "rollback", ![w].why = "rollback"]
    PROVE  /\ Quiet(w, proc'[w], d) /\ Seen(w, proc'[w], d)
           /\ proc'[w].pc = "rollback" /\ proc'[w].why = "rollback" /\ proc'[w].ds = d
           /\ proc'[w].chunk = proc[w].chunk /\ proc'[w].run = proc[w].run
<1> DEFINE q == proc'[w]
<1>1. /\ proc[w].why = "ingest" /\ proc[w].run # 0 /\ proc[w].chunk # None
      /\ proc[w] \in Processes /\ ProcOK(proc[w])
  BY InHand DEF ProcOK, CallersAt, Outside, Running
<1>2. /\ q \in Processes /\ q.pc = "rollback" /\ q.why = "rollback"
      /\ q.ds = d /\ q.chunk = proc[w].chunk /\ q.run = proc[w].run
      /\ proc' = [proc EXCEPT ![w] = q]
  <2>1. /\ q = [proc[w] EXCEPT !.pc = "rollback", !.why = "rollback"]
        /\ proc' = [proc EXCEPT ![w] = q]
    BY DEF IInv, TypeOK
  <2> HIDE DEF q
  <2> QED
    BY <1>1, <2>1 DEF Processes, Points, Callers, Held
<1> HIDE DEF q
<1>3. ProcOK(q) /\ q.pc \in Leased /\ q.pc # "rollbackRestore"
  BY <1>1, <1>2, ProcsAssumption DEF ProcOK, CallersAt, Outside, Running, Leased, Held
<1>4. Quiet(w, q, d) /\ Seen(w, q, d)
  BY <1>2, <1>3, HeldStep
<1> QED
  BY <1>2, <1>4 DEF q

LEMMA PromoteFailsKeeps ==
    ASSUME IInv, NEW w \in Procs, At(w, "promote"), NEW d \in Datasets, proc[w].ds = d,
           NEW m, m = Least(proc[w].todo),
           file' = [file EXCEPT ![d][m] = backup[d][m]], backup' = [backup EXCEPT ![d][m] = {}],
           proc' = [proc EXCEPT ![w].pc = "rollback", ![w].why = "rollback"],
           UNCHANGED <<catalog, saved, journal, dlock, clock, reported>>, faults' \in 0..MaxFaults
    PROVE  IInv'
<1>1. proc[w].pc = "promote" /\ proc[w].pc \in Leased \ {"rollbackRestore"}
  BY DEF At, Leased
<1>2. OK(d, View(d)) /\ View(d) \in Views /\ View(d).backup = backup[d] /\ View(d).p = proc[w]
      /\ View(d).saved = (saved[d] # None)
  BY ViewBefore
<1>3. proc[w].todo # {} /\ saved[d] = None
  BY <1>1, <1>2 DEF OK, PointOK, Working
<1>4. m \in Months
  BY <1>1, <1>3, InHand, OfMonths DEF Outside
<1>5. backup[d][m] \in SUBSET Chunks
  BY <1>2, <1>4 DEF Views
<1>6. /\ DiskOf(d) /\ file'[d] = [file[d] EXCEPT ![m] = backup[d][m]]
      /\ backup'[d] = [backup[d] EXCEPT ![m] = {}]
  <2>1. /\ file' \in [Datasets -> [Months -> SUBSET Chunks]]
        /\ file'[d] = [file[d] EXCEPT ![m] = backup[d][m]]
        /\ \A e \in Datasets \ {d} : file'[e] = file[e]
    BY <1>5, DiskTyped, PartitionSet
  <2>2. /\ backup' \in [Datasets -> [Months -> SUBSET Chunks]]
        /\ backup'[d] = [backup[d] EXCEPT ![m] = {}]
        /\ \A e \in Datasets \ {d} : backup'[e] = backup[e]
    BY DiskTyped, PartitionSet
  <2> QED
    BY <2>1, <2>2, DiskTyped DEF DiskOf
<1>7. Held(w, d)
  BY <1>1, <1>6 DEF Held
<1>8. /\ Quiet(w, proc'[w], d) /\ Seen(w, proc'[w], d)
      /\ proc'[w].pc = "rollback" /\ proc'[w].why = "rollback" /\ proc'[w].ds = d
      /\ proc'[w].chunk = proc[w].chunk /\ proc'[w].run = proc[w].run
  BY <1>1, <1>7, ExecutorFails
<1>9. OK(d, View(d)')
  <2>1. /\ View(d)'.file = [View(d).file EXCEPT ![m] = View(d).backup[m]]
        /\ View(d)'.backup = [View(d).backup EXCEPT ![m] = {}]
        /\ View(d)'.saved = View(d).saved /\ View(d)'.j = View(d).j
    BY <1>6, <1>8 DEF Seen
  <2>2. /\ View(d) \in Views /\ OK(d, View(d)) /\ SameVersion(View(d), View(d)')
        /\ View(d).p.pc = "promote" /\ m = Least(View(d).p.todo)
        /\ View(d)'.p.pc = "rollback" /\ View(d)'.p.why = "rollback"
        /\ View(d)'.p.chunk = View(d).p.chunk /\ View(d)'.p.run = View(d).p.run
    BY <1>1, <1>8 DEF Seen
  <2> QED
    BY <2>1, <2>2, PromoteFails
<1>10. BackupOK(w)'
  BY <1>3, <1>8 DEF BackupOK, Ds
<1> QED
  BY <1>7, <1>8, <1>9, <1>10, HeldKeeps

LEMMA CatalogFailsKeeps ==
    ASSUME IInv, NEW w \in Procs, At(w, "catalog"), NEW d \in Datasets, proc[w].ds = d,
           proc' = [proc EXCEPT ![w].pc = "rollback", ![w].why = "rollback"],
           UNCHANGED <<file, backup, catalog, saved, journal, dlock, clock, reported>>,
           faults' \in 0..MaxFaults
    PROVE  IInv'
<1>1. proc[w].pc = "catalog" /\ proc[w].pc \in Leased \ {"rollbackRestore"}
  BY DEF At, Leased
<1>2. OK(d, View(d)) /\ View(d).p = proc[w] /\ View(d).saved = (saved[d] # None)
  BY ViewBefore
<1>3. saved[d] = None
  BY <1>1, <1>2 DEF OK, PointOK, Working
<1>4. Held(w, d)
  BY <1>1, DiskAsItIs DEF Held
<1>5. /\ Quiet(w, proc'[w], d) /\ Seen(w, proc'[w], d)
      /\ proc'[w].pc = "rollback" /\ proc'[w].why = "rollback" /\ proc'[w].ds = d
      /\ proc'[w].chunk = proc[w].chunk /\ proc'[w].run = proc[w].run
  BY <1>1, <1>4, ExecutorFails
<1>6. OK(d, View(d)')
  BY <1>1, <1>5, CatalogFails DEF Seen, SameDisk
<1>7. BackupOK(w)'
  BY <1>3, <1>5 DEF BackupOK, Ds
<1> QED
  BY <1>4, <1>5, <1>6, <1>7, HeldKeeps

LEMMA CommitFailsKeeps ==
    ASSUME IInv, NEW w \in Procs, At(w, "commit"), NEW d \in Datasets, proc[w].ds = d,
           \/ UNCHANGED journal
           \/ journal' = [journal EXCEPT ![d].state = "COMMITTED"],
           proc' = [proc EXCEPT ![w].pc = "rollback", ![w].why = "rollback"],
           UNCHANGED <<file, backup, catalog, saved, dlock, clock, reported>>,
           faults' \in 0..MaxFaults
    PROVE  IInv'
<1>1. proc[w].pc = "commit" /\ proc[w].pc \in Leased \ {"rollbackRestore"}
  BY DEF At, Leased
<1>2. journal[d] \in Journals
  <2>1. OK(d, View(d)) /\ View(d).j = journal[d] /\ View(d).p = proc[w]
    BY ViewBefore
  <2>2. journal[d] # None
    BY <1>1, <2>1 DEF OK, PointOK, Mine
  <2> QED
    BY <2>2, DiskTyped
<1>3. /\ journal'[d] \in {journal[d], [journal[d] EXCEPT !.state = "COMMITTED"]}
      /\ journal' \in [Datasets -> Journals \cup {None}] /\ journal'[d].before = journal[d].before
      /\ \A e \in Datasets \ {d} : journal'[e] = journal[e]
  <2>1. CASE UNCHANGED journal
    BY <2>1, DiskTyped
  <2>2. CASE journal' = [journal EXCEPT ![d].state = "COMMITTED"]
    <3>1. journal'[d] = [journal[d] EXCEPT !.state = "COMMITTED"]
      BY <2>2, DiskTyped
    <3>2. journal'[d] \in Journals /\ journal'[d].before = journal[d].before
      BY <3>1, <1>2 DEF Journals
    <3> QED
      BY <2>2, <3>1, <3>2, DiskTyped
  <2> QED
    BY <2>1, <2>2
<1>4. DiskOf(d) /\ Held(w, d)
  BY <1>1, <1>3, DiskTyped DEF DiskOf, Held
<1>5. /\ Quiet(w, proc'[w], d) /\ Seen(w, proc'[w], d)
      /\ proc'[w].pc = "rollback" /\ proc'[w].why = "rollback" /\ proc'[w].ds = d
      /\ proc'[w].chunk = proc[w].chunk /\ proc'[w].run = proc[w].run
  BY <1>1, <1>4, ExecutorFails
<1>6. OK(d, View(d)')
  <2>1. /\ View(d)'.file = View(d).file /\ View(d)'.backup = View(d).backup
        /\ View(d)'.saved = View(d).saved
        /\ View(d)'.j \in {View(d).j, [View(d).j EXCEPT !.state = "COMMITTED"]}
    BY <1>3, <1>5 DEF Seen
  <2>2. /\ View(d) \in Views /\ OK(d, View(d)) /\ SameVersion(View(d), View(d)')
        /\ View(d).p.pc = "commit"
        /\ View(d)'.p.pc = "rollback" /\ View(d)'.p.why = "rollback"
        /\ View(d)'.p.chunk = View(d).p.chunk /\ View(d)'.p.run = View(d).p.run
    BY <1>1, <1>5 DEF Seen
  <2> QED
    BY <2>1, <2>2, CommitFails
<1>7. BackupOK(w)'
  <2>1. saved[d] # None =>
          /\ saved[d] \in Catalogs
          /\ saved[d].data = [catalog.data EXCEPT ![d] = journal[d].before]
          /\ saved[d].receipts = catalog.receipts \ {proc[w].chunk}
          /\ \A e \in Datasets \ {d} : saved[d].run[e] = catalog.run[e]
    BY <1>1 DEF IInv, BackupOK, Ds
  <2>2. saved' = saved /\ catalog' = catalog
    OBVIOUS
  <2>3. Ds(w)' = d /\ journal'[d].before = journal[d].before /\ proc'[w].chunk = proc[w].chunk
    BY <1>3, <1>5 DEF Ds
  <2> QED
    BY <2>1, <2>2, <2>3 DEF BackupOK
<1> QED
  BY <1>4, <1>5, <1>6, <1>7, HeldKeeps

-----------------------------------------------------------------------------
(* The replacements of catalog.json *)

\* Other keys stay.
KeysSet(a, d, D, n, s, R) == [a EXCEPT !.data[d] = D, !.run[d][n] = s, !.receipts = R]
KeysAre(a, b, d, D, n, s, R) ==
    /\ b \in Catalogs /\ b.data = [a.data EXCEPT ![d] = D] /\ b.data[d] = D
    /\ b.receipts = R /\ b.run[d][n] = s
    /\ \A e \in Datasets \ {d} : b.data[e] = a.data[e] /\ b.run[e] = a.run[e]
LEMMA CatalogSet ==
    ASSUME NEW a \in Catalogs, NEW d \in Datasets, NEW D \in SUBSET Chunks, NEW R \in SUBSET Chunks,
           NEW n \in 1..MaxRuns, NEW s \in RunStates, NEW b, b = KeysSet(a, d, D, n, s, R)
    PROVE  KeysAre(a, b, d, D, n, s, R)
<1>1. /\ a.data \in [Datasets -> SUBSET Chunks] /\ a.run \in [Datasets -> [1..MaxRuns -> RunStates]]
      /\ a.receipts \in SUBSET Chunks
      /\ a = [data |-> a.data, receipts |-> a.receipts, run |-> a.run]
  BY DEF Catalogs
<1>2. /\ b.data = [a.data EXCEPT ![d] = D] /\ b.receipts = R
      /\ b.run = [a.run EXCEPT ![d][n] = s]
      /\ b = [data |-> b.data, receipts |-> b.receipts, run |-> b.run]
  BY <1>1 DEF KeysSet
<1>3. b.data \in [Datasets -> SUBSET Chunks] /\ b.data[d] = D
  BY <1>1, <1>2
<1>4. /\ b.run[d] = [a.run[d] EXCEPT ![n] = s] /\ b.run[d][n] = s
      /\ b.run[d] \in [1..MaxRuns -> RunStates]
  <2>1. a.run[d] \in [1..MaxRuns -> RunStates]
    BY <1>1
  <2>2. b.run[d] = [a.run[d] EXCEPT ![n] = s]
    BY <1>1, <1>2
  <2> QED
    BY <2>1, <2>2
<1>5. /\ b.run \in [Datasets -> [1..MaxRuns -> RunStates]]
      /\ \A e \in Datasets \ {d} : b.data[e] = a.data[e] /\ b.run[e] = a.run[e]
  <2>1. b.run = [a.run EXCEPT ![d] = b.run[d]]
    BY <1>1, <1>2, <1>4
  <2> QED
    BY <1>1, <1>2, <1>4, <2>1
<1>6. b \in Catalogs
  BY <1>2, <1>3, <1>5 DEF Catalogs
<1> QED
  BY <1>2, <1>3, <1>4, <1>5, <1>6 DEF KeysAre

LEMMA EmptyTyped == EmptyCatalog \in Catalogs
  BY DEF EmptyCatalog, Catalogs, RunStates

LEMMA PromoteCatalogKeeps ==
    ASSUME IInv, NEW w \in Procs, PromoteCatalog(w), NEW d \in Datasets, proc[w].ds = d
    PROVE  IInv'
<1> DEFINE q == proc'[w]
           c == proc[w].chunk
           n == proc[w].run
<1>1. /\ proc[w].pc = "catalog" /\ Ds(w) = d
      /\ saved' = [saved EXCEPT ![d] = catalog]
      /\ catalog' = [catalog EXCEPT !.data[d] = @ \cup {c}, !.run[d][n] = "COMPLETED",
                                    !.receipts = @ \cup {c}]
      /\ Go(w, "commit")
      /\ UNCHANGED <<file, backup, journal, dlock, clock, reported, faults>>
  BY DEF PromoteCatalog, At, Ds
<1>2. /\ proc[w] \in Processes /\ ProcOK(proc[w]) /\ clock = w
      /\ proc[w].pc \in Leased /\ proc[w].pc \notin Outside
  BY <1>1, InHand DEF Outside, Leased
<1>3. proc[w].why = "ingest" /\ n \in 1..MaxRuns /\ c \in Chunks /\ DatasetOf[c] = d
  <2>1. proc[w].why = "ingest" /\ n # 0 /\ c # None /\ DatasetOf[c] = d
    BY <1>1, <1>2 DEF ProcOK, CallersAt, Outside, Running
  <2> QED
    BY <1>2, <2>1, BoundsAssumption DEF Processes
<1>4. /\ catalog.data[d] \cup {c} \in SUBSET Chunks /\ catalog.receipts \cup {c} \in SUBSET Chunks
      /\ catalog \in Catalogs
  BY <1>3, DiskTyped DEF Catalogs
<1>5. /\ catalog' \in Catalogs /\ catalog'.data = [catalog.data EXCEPT ![d] = catalog.data[d] \cup {c}]
      /\ catalog'.data[d] = catalog.data[d] \cup {c}
      /\ catalog'.receipts = catalog.receipts \cup {c} /\ catalog'.run[d][n] = "COMPLETED"
      /\ \A e \in Datasets \ {d} : catalog'.data[e] = catalog.data[e] /\ catalog'.run[e] = catalog.run[e]
  <2> DEFINE D == catalog.data[d] \cup {c}
             R == catalog.receipts \cup {c}
  <2>1. catalog' = KeysSet(catalog, d, D, n, "COMPLETED", R)
    BY <1>1 DEF KeysSet
  <2>2. "COMPLETED" \in RunStates
    BY DEF RunStates
  <2>3. D \in SUBSET Chunks /\ R \in SUBSET Chunks
    BY <1>4
  <2> HIDE DEF D, R
  <2>4. KeysAre(catalog, catalog', d, D, n, "COMPLETED", R)
    BY <1>3, <1>4, <2>1, <2>2, <2>3, CatalogSet
  <2> QED
    BY <2>4 DEF D, R, KeysAre
<1>6. DiskOf(d) /\ saved'[d] = catalog /\ catalog # None
  BY <1>1, <1>4, DiskTyped, NoneAssumption DEF DiskOf
<1>7. Cat = catalog
  BY <1>1, <1>2, CatIsBefore
<1>8. /\ Gets(w, q) /\ Keeps(w, q, d) /\ Locking(w, q, d)
      /\ q.pc = "commit" /\ q.why = proc[w].why /\ q.ds = d
      /\ q.chunk = proc[w].chunk /\ q.run = proc[w].run
  <2>1. /\ "commit" \in Points /\ "commit" \notin Outside /\ "commit" \in Leased
        /\ {} \in SUBSET Months
        /\ proc[w].why \in CallersAt("commit") /\ n # 0
    BY <1>3, BoundsAssumption DEF Points, Outside, Leased, CallersAt
  <2> QED
    BY <1>1, <1>2, <2>1, GoStays
<1>9. Cat' = catalog'
  BY <1>1, <1>2, <1>8, CatIsAfter
<1>10. SameElsewhere(Cat, Cat', d)
  <2>1. \A e \in Datasets \ {d} : Of(catalog.receipts \cup {c}, e) = Of(catalog.receipts, e)
    BY <1>3 DEF Of
  <2>2. \A e \in Datasets \ {d} : Of(catalog'.receipts, e) = Of(catalog.receipts, e)
    BY <1>5, <2>1
  <2> QED
    BY <1>5, <1>7, <1>9, <2>2 DEF SameElsewhere
<1>11. /\ View(d) \in Views /\ OK(d, View(d)) /\ View(d).p = proc[w]
       /\ View(d).file = file[d] /\ View(d).backup = backup[d] /\ View(d).j = journal[d]
       /\ View(d).saved = (saved[d] # None) /\ View(d).reported = Of(reported, d)
       /\ View(d).data = catalog.data[d] /\ View(d).receipts = Of(catalog.receipts, d)
  BY <1>7, ViewBefore
<1>12. /\ View(d)'.file = file'[d] /\ View(d)'.backup = backup'[d] /\ View(d)'.j = journal'[d]
       /\ View(d)'.saved = (saved'[d] # None) /\ View(d)'.reported = Of(reported', d)
       /\ View(d)'.data = catalog'.data[d] /\ View(d)'.receipts = Of(catalog'.receipts, d)
       /\ View(d)'.run = catalog'.run[d] /\ View(d)'.p = q
  BY <1>8, <1>9, ViewAfter
<1>13. OK(d, View(d)')
  <2>1. /\ View(d)'.file = View(d).file /\ View(d)'.backup = View(d).backup
        /\ View(d)'.saved /\ View(d)'.j = View(d).j /\ View(d)'.reported = View(d).reported
        /\ View(d)'.data = View(d).data \cup {c} /\ View(d)'.receipts = View(d).receipts \cup {c}
        /\ View(d)'.run[n] = "COMPLETED"
    <3>1. Of(catalog'.receipts, d) = Of(catalog.receipts, d) \cup {c}
      BY <1>3, <1>5 DEF Of
    <3>2. Of(reported', d) = Of(reported, d)
      BY <1>1
    <3> QED
      BY <1>1, <1>5, <1>6, <1>11, <1>12, <3>1, <3>2
  <2>2. Moves(View(d), View(d)', "commit")
    BY <1>8, <1>11, <1>12 DEF Moves
  <2> QED
    BY <1>1, <1>3, <1>11, <2>1, <2>2, CatalogReplaced
<1>14. BackupOK(w)'
  <2>1. View(d).data = View(d).j.before /\ View(d).receipts = View(d).data
        /\ c \notin View(d).data
    <3>1. Working(View(d))
      BY <1>1, <1>11 DEF OK, PointOK
    <3>2. JournalFits(d, View(d).j) /\ View(d).receipts = View(d).data
      BY <1>11, <3>1, WorkingFacts, PendingFacts
    <3> QED
      BY <1>11, <3>1, <3>2 DEF Working, Mine, JournalFits
  <2>2. catalog.data[d] = journal[d].before /\ c \notin catalog.receipts
    BY <1>3, <1>11, <2>1 DEF Of
  <2>3. catalog.data = [catalog'.data EXCEPT ![d] = journal[d].before]
    BY <1>4, <1>5, <2>2 DEF Catalogs
  <2>4. catalog.receipts = catalog'.receipts \ {c}
    BY <1>5, <2>2
  <2>5. Ds(w)' = d /\ proc'[w].chunk = c /\ journal'[d].before = journal[d].before
    BY <1>1, <1>8 DEF Ds
  <2> QED
    BY <1>4, <1>5, <1>6, <2>3, <2>4, <2>5 DEF BackupOK
<1>15. ReportedOf(d) /\ faults' \in 0..MaxFaults
  BY <1>1, ReportedAsItIs, DiskTyped
<1> QED
  BY <1>2, <1>5, <1>6, <1>8, <1>10, <1>13, <1>14, <1>15, StepKeeps, ProcsAssumption

LEMMA RollbackKeeps ==
    ASSUME IInv, NEW w \in Procs, Rollback(w), NEW d \in Datasets, proc[w].ds = d
    PROVE  IInv'
<1> DEFINE q == proc'[w]
           c == proc[w].chunk
<1>1. /\ proc[w].pc = "rollback" /\ Ds(w) = d
      /\ UNCHANGED <<file, backup, saved, journal, dlock, clock, reported, faults>>
  BY DEF Rollback, At, Ds
<1>2. /\ proc[w] \in Processes /\ ProcOK(proc[w]) /\ clock = w
      /\ proc[w].pc \in Leased /\ proc[w].pc \notin Outside
  BY <1>1, InHand DEF Outside, Leased
<1>3. proc[w].why = "rollback" /\ proc[w].run # 0 /\ DatasetOf[c] = d
  BY <1>1, <1>2 DEF ProcOK, CallersAt, Outside, Running
<1>4. /\ View(d) \in Views /\ OK(d, View(d)) /\ View(d).p = proc[w]
      /\ View(d).file = file[d] /\ View(d).backup = backup[d] /\ View(d).j = journal[d]
      /\ View(d).saved = (saved[d] # None) /\ View(d).reported = Of(reported, d)
      /\ View(d).data = Cat.data[d] /\ View(d).receipts = Of(Cat.receipts, d)
  BY ViewBefore
<1>5. Cat = catalog
  BY <1>1, <1>2, CatIsBefore
<1>6. CASE saved[d] # None /\ catalog' = EmptyCatalog /\ Go(w, "rollbackRestore")
  <2>1. /\ saved[d] \in Catalogs /\ saved[d].data = [catalog.data EXCEPT ![d] = journal[d].before]
        /\ saved[d].receipts = catalog.receipts \ {c}
        /\ \A e \in Datasets \ {d} : saved[d].run[e] = catalog.run[e]
    BY <1>1, <1>6 DEF IInv, BackupOK, Ds
  <2>2. /\ Gets(w, q) /\ Keeps(w, q, d) /\ Locking(w, q, d)
        /\ q.pc = "rollbackRestore" /\ q.why = proc[w].why /\ q.ds = d
        /\ q.chunk = proc[w].chunk /\ q.run = proc[w].run
    <3>1. /\ "rollbackRestore" \in Points /\ "rollbackRestore" \notin Outside
          /\ "rollbackRestore" \in Leased /\ {} \in SUBSET Months
          /\ proc[w].why \in CallersAt("rollbackRestore")
      BY <1>3 DEF Points, Outside, Leased, CallersAt
    <3> QED
      BY <1>1, <1>2, <1>3, <1>6, <3>1, GoStays
  <2>3. Cat' = saved[d]
    <3>1. clock' = w /\ proc'[w].pc = "rollbackRestore" /\ proc'[w].ds = d /\ w # None
      BY <1>1, <1>2, <2>2, ProcsAssumption
    <3> QED
      BY <1>1, <3>1 DEF Cat, Restoring
  <2>4. \A e \in Datasets \ {d} : Of(saved[d].receipts, e) = Of(catalog.receipts, e)
    BY <1>3, <2>1 DEF Of
  <2>5. SameElsewhere(Cat, Cat', d)
    <3>1. \A e \in Datasets \ {d} : saved[d].data[e] = catalog.data[e]
      BY <2>1, DiskTyped DEF Catalogs
    <3> QED
      BY <1>5, <2>1, <2>3, <2>4, <3>1 DEF SameElsewhere
  <2>6. /\ View(d)'.file = file'[d] /\ View(d)'.backup = backup'[d] /\ View(d)'.j = journal'[d]
        /\ View(d)'.saved = (saved'[d] # None) /\ View(d)'.reported = Of(reported', d)
        /\ View(d)'.data = Cat'.data[d] /\ View(d)'.receipts = Of(Cat'.receipts, d)
        /\ View(d)'.p = q
    BY <2>2, ViewAfter
  <2>7. OK(d, View(d)')
    <3>1. saved[d].data[d] = journal[d].before
      BY <2>1, DiskTyped DEF Catalogs
    <3>2. Of(saved[d].receipts, d) = Of(catalog.receipts, d) \ {c}
      BY <2>1 DEF Of
    <3>3. Of(reported', d) = Of(reported, d)
      BY <1>1
    <3>4. /\ SameDisk(View(d), View(d)') /\ View(d)'.reported = View(d).reported
          /\ View(d)'.data = View(d).j.before /\ View(d)'.receipts = View(d).receipts \ {c}
      BY <1>1, <1>4, <1>5, <2>3, <2>6, <3>1, <3>2, <3>3 DEF SameDisk
    <3>5. Moves(View(d), View(d)', "rollbackRestore")
      BY <1>4, <2>2, <2>6 DEF Moves
    <3> QED
      BY <1>1, <1>3, <1>4, <1>6, <3>4, <3>5, CatalogUnlinked
  <2>8. DiskOf(d) /\ ReportedOf(d) /\ faults' \in 0..MaxFaults /\ catalog' \in Catalogs
    BY <1>1, <1>6, DiskAsItIs, ReportedAsItIs, DiskTyped, EmptyTyped
  <2> QED
    BY <1>2, <2>2, <2>5, <2>7, <2>8, StepKeeps, ProcsAssumption
<1>7. CASE saved[d] = None /\ GoTodo(w, "undo", journal[d].months) /\ UNCHANGED catalog
  <2>1. journal[d].months \in SUBSET Months
    <3>1. journal[d] # None
      BY <1>1, <1>4 DEF OK, PointOK, Mine
    <3> QED
      BY <3>1, DiskTyped DEF Journals
  <2>2. Held(w, d) /\ Leads(w, "undo")
    BY <1>1, <1>2, <1>3, <1>7, DiskAsItIs DEF Held, Leads, Leased, CallersAt, Outside, Running
  <2>3. /\ Quiet(w, q, d) /\ Seen(w, q, d) /\ q.pc = "undo"
        /\ Moves(View(d), View(d)', "undo") /\ q.todo = journal[d].months
    BY <1>7, <2>1, <2>2, HeldMoves
  <2>4. OK(d, View(d)')
    BY <1>1, <1>3, <1>7, <2>3, CatalogIsBack DEF Seen
  <2> QED
    BY <2>2, <2>3, <2>4, HeldKeeps
<1> QED
  BY <1>1, <1>6, <1>7 DEF Rollback

LEMMA RollbackRestoreKeeps ==
    ASSUME IInv, NEW w \in Procs, RollbackRestore(w), NEW d \in Datasets, proc[w].ds = d
    PROVE  IInv'
<1> DEFINE q == proc'[w]
<1>1. /\ proc[w].pc = "rollbackRestore" /\ Ds(w) = d
      /\ catalog' = saved[d] /\ saved' = [saved EXCEPT ![d] = None]
      /\ GoTodo(w, "undo", journal[d].months)
      /\ UNCHANGED <<file, backup, journal, dlock, clock, reported, faults>>
  BY DEF RollbackRestore, At, Ds
<1>2. /\ proc[w] \in Processes /\ ProcOK(proc[w]) /\ clock = w
      /\ proc[w].pc \in Leased /\ proc[w].pc \notin Outside
  BY <1>1, InHand DEF Outside, Leased
<1>3. proc[w].why = "rollback" /\ proc[w].run # 0
  BY <1>1, <1>2 DEF ProcOK, CallersAt, Outside, Running
<1>4. /\ View(d) \in Views /\ OK(d, View(d)) /\ View(d).p = proc[w]
      /\ View(d).file = file[d] /\ View(d).backup = backup[d] /\ View(d).j = journal[d]
      /\ View(d).saved = (saved[d] # None) /\ View(d).reported = Of(reported, d)
      /\ View(d).data = Cat.data[d] /\ View(d).receipts = Of(Cat.receipts, d)
  BY ViewBefore
<1>5. saved[d] # None /\ journal[d] # None
  BY <1>1, <1>4 DEF OK, PointOK
<1>6. saved[d] \in Catalogs /\ journal[d].months \in SUBSET Months
  BY <1>5, DiskTyped DEF Journals
<1>7. Cat = saved[d]
  BY <1>1, <1>2, ProcsAssumption DEF Cat, Restoring
<1>8. /\ Gets(w, q) /\ Keeps(w, q, d) /\ Locking(w, q, d)
      /\ q.pc = "undo" /\ q.why = proc[w].why /\ q.ds = d
      /\ q.chunk = proc[w].chunk /\ q.run = proc[w].run /\ q.todo = journal[d].months
  <2>1. /\ "undo" \in Points /\ "undo" \notin Outside /\ "undo" \in Leased
        /\ proc[w].why \in CallersAt("undo")
    BY <1>3 DEF Points, Outside, Leased, CallersAt
  <2> QED
    BY <1>1, <1>2, <1>3, <1>6, <2>1, GoStays
<1>9. Cat' = catalog' /\ Cat' = Cat
  BY <1>1, <1>2, <1>7, <1>8, CatIsAfter
<1>10. SameElsewhere(Cat, Cat', d)
  BY <1>9 DEF SameElsewhere
<1>11. DiskOf(d) /\ ReportedOf(d) /\ faults' \in 0..MaxFaults /\ catalog' \in Catalogs /\ saved'[d] = None
  BY <1>1, <1>6, ReportedAsItIs, DiskTyped DEF DiskOf
<1>12. OK(d, View(d)')
  <2>1. /\ View(d)'.file = file'[d] /\ View(d)'.backup = backup'[d] /\ View(d)'.j = journal'[d]
        /\ View(d)'.saved = (saved'[d] # None) /\ View(d)'.reported = Of(reported', d)
        /\ View(d)'.data = Cat'.data[d] /\ View(d)'.receipts = Of(Cat'.receipts, d)
        /\ View(d)'.p = q
    BY <1>8, ViewAfter
  <2>2. Of(reported', d) = Of(reported, d)
    BY <1>1
  <2>3. /\ SameVersion(View(d), View(d)') /\ View(d)'.file = View(d).file
        /\ View(d)'.backup = View(d).backup /\ ~View(d)'.saved /\ View(d)'.j = View(d).j
    BY <1>1, <1>4, <1>9, <1>11, <2>1, <2>2 DEF SameVersion
  <2>4. Moves(View(d), View(d)', "undo") /\ View(d)'.p.todo = View(d).j.months
    BY <1>4, <1>8, <2>1 DEF Moves
  <2> QED
    BY <1>1, <1>3, <1>4, <2>3, <2>4, CatalogIsBack
<1> QED
  BY <1>2, <1>8, <1>10, <1>11, <1>12, StepKeeps, ProcsAssumption

-----------------------------------------------------------------------------
(* Locks taken and given back *)

LEMMA IdleOK == Idle \in Processes /\ ProcOK(Idle) /\ Idle.ds = None /\ Idle.pc = "idle"
                /\ Idle.why = "none" /\ Idle.pc \notin Leased
  BY IdleTyped DEF Idle, ProcOK, CallersAt, Outside, Running, Leased

LEMMA LeaveGets ==
    ASSUME IInv, NEW w \in Procs, Leave(w)
    PROVE  Gets(w, Idle) /\ Releases(w, Idle, proc[w].ds) /\ Locking(w, Idle, proc[w].ds)
  BY IdleOK DEF Leave, Gets, Releases, Locking

\* Nothing but the locks and the process: who comes next finds what is left.
LEMMA LooseStep ==
    ASSUME IInv, NEW w \in Procs, NEW q, Gets(w, q), NEW d \in Datasets, Locking(w, q, d),
           UNCHANGED <<file, backup, catalog, saved, journal, reported>>, faults' \in 0..MaxFaults,
           proc[w].pc # "rollbackRestore",
           proc[w].ds = d /\ proc[w].why = "rollback" => journal[d] = None,
           q.ds = d => q.pc \in {"recover", "failRun"} /\ q.why \in {"ingest", "startup"},
           q.pc \notin {"commit", "rollback", "rollbackRestore"}
    PROVE  IInv'
<1>1. DiskOf(d) /\ ReportedOf(d)
  BY DiskAsItIs, ReportedAsItIs
<1>2. Quiet(w, q, d)
  BY <1>1 DEF Quiet
<1>3. /\ View(d) \in Views /\ OK(d, View(d))
      /\ View(d).file = file[d] /\ View(d).backup = backup[d] /\ View(d).j = journal[d]
      /\ View(d).saved = (saved[d] # None) /\ View(d).reported = Of(reported, d)
      /\ proc[w].ds = d => View(d).p = proc[w]
      /\ dlock[d] = None => View(d).p = Idle
  BY ViewBefore
<1>4. /\ View(d)'.file = file'[d] /\ View(d)'.backup = backup'[d] /\ View(d)'.j = journal'[d]
      /\ View(d)'.saved = (saved'[d] # None) /\ View(d)'.reported = Of(reported', d)
      /\ q.ds = d => View(d)'.p = q
      /\ q.ds = None => View(d)'.p = Idle
  BY ViewAfter
<1>5. View(d)'.data = View(d).data /\ View(d)'.receipts = View(d).receipts
  BY <1>2, QuietView
<1>6. SameDisk(View(d), View(d)') /\ SameVersion(View(d), View(d)')
  <2>1. Of(reported', d) = Of(reported, d)
    OBVIOUS
  <2> QED
    BY <1>3, <1>4, <1>5, <2>1 DEF SameDisk, SameVersion
<1>7. View(d).p.why = "rollback" => View(d).j = None
  BY <1>3, IdleOK DEF Locking, Keeps, Releases, Takes, Passes
<1>8. View(d)'.p.pc \in {"idle", "recover", "failRun"} /\ View(d)'.p.why \notin {"finalize", "rollback"}
  BY <1>4, IdleOK DEF Locking, Keeps, Releases, Takes, Passes
<1>9. OK(d, View(d)')
  BY <1>3, <1>6, <1>7, <1>8, Loose
<1> QED
  BY <1>1, <1>2, <1>9, QuietKeeps

\* A step of a process without a dataset.
LEMMA ApartStep ==
    ASSUME IInv, NEW w \in Procs, NEW q, Gets(w, q), proc[w].ds = None, q.ds = None,
           UNCHANGED dlock \/ dlock' = Free(w, dlock),
           UNCHANGED <<file, backup, catalog, saved, journal, reported>>, faults' \in 0..MaxFaults
    PROVE  IInv'
<1>1. Keeps(w, q, None) \/ Releases(w, q, None)
  BY DEF Keeps, Releases
<1>2. q.pc \in Outside /\ proc[w].pc \in Outside
  BY DEF Gets, ProcOK, IInv
<1>3. DiskOf(None) /\ ReportedOf(None)
  BY DiskAsItIs, ReportedAsItIs
<1>4. Cat' = Cat
  BY <1>2, <1>3, CatKept DEF DiskOf, Outside
<1>5. SameElsewhere(Cat, Cat', None)
  BY <1>4 DEF SameElsewhere
<1>6. q.pc \notin {"commit", "rollback"} /\ catalog' \in Catalogs
  BY <1>2, DiskTyped DEF Outside
<1> QED
  BY <1>1, <1>3, <1>5, <1>6, StepKeeps DEF Locking

LEMMA ReadKeeps ==
    ASSUME IInv, NEW w \in Procs, Read(w), NEW d \in Datasets, proc[w].ds = d
    PROVE  IInv'
<1>1. Gets(w, Idle) /\ Locking(w, Idle, d)
  BY LeaveGets DEF Read
<1>2. proc[w].pc = "ready" /\ UNCHANGED <<file, backup, catalog, saved, journal, reported, faults>>
  BY DEF Read, At, disk
<1>3. proc[w].why = "ingest" /\ d # None
  BY <1>2, ProcsAssumption DEF IInv, ProcOK, CallersAt, Outside
<1> QED
  BY <1>1, <1>2, <1>3, IdleOK, DiskTyped, LooseStep

LEMMA FetchFailsKeeps ==
    ASSUME IInv, NEW w \in Procs, At(w, "fetch"), Go(w, "failRun"), NEW d \in Datasets,
           proc[w].ds = d, UNCHANGED <<file, backup, catalog, saved, journal, dlock, clock, reported>>,
           faults' \in 0..MaxFaults
    PROVE  IInv'
<1>1. /\ proc[w].pc = "fetch" /\ proc[w].pc \notin Outside /\ ProcOK(proc[w]) /\ clock # w
  BY InHand DEF At, Outside, Leased
<1>2. proc[w].why = "ingest" /\ proc[w].run # 0
  BY <1>1 DEF ProcOK, CallersAt, Outside, Running
<1>3. /\ "failRun" \in Points /\ "failRun" \notin Outside /\ "failRun" \notin Leased
      /\ {} \in SUBSET Months /\ proc[w].why \in CallersAt("failRun")
      /\ clock' = FreeCatalog(w)
  BY <1>1, <1>2 DEF Points, Outside, Leased, CallersAt, FreeCatalog
<1>4. /\ Gets(w, proc'[w]) /\ Locking(w, proc'[w], Ds(w)) /\ proc'[w].pc = "failRun"
      /\ proc'[w].why = proc[w].why
  BY <1>1, <1>2, <1>3, GoStays
<1> QED
  BY <1>1, <1>2, <1>4, LooseStep DEF Ds

LEMMA BeginKeeps ==
    ASSUME IInv, NEW w \in Procs, NEW c \in Chunks, Begin(w, c)
    PROVE  IInv'
<1> DEFINE d == DatasetOf[c]
           q == [Idle EXCEPT !.pc = "recover", !.why = "ingest", !.ds = DatasetOf[c], !.chunk = c]
<1>1. /\ proc[w].pc = "idle" /\ dlock[DatasetOf[c]] = None /\ dlock' = [dlock EXCEPT ![DatasetOf[c]] = w]
      /\ proc' = [proc EXCEPT ![w] = q]
      /\ UNCHANGED <<file, backup, catalog, saved, journal, clock, reported, faults>>
  BY DEF Begin, At, disk
<1>2. DatasetOf[c] \in Datasets /\ c # None
  BY ChunksAssumption, ProcsAssumption
<1>3. proc[w].ds = None /\ clock # w
  BY <1>1 DEF IInv, ProcOK, Outside, LocksOK, Leased
<1>4. /\ q \in Processes /\ q.pc = "recover" /\ q.why = "ingest" /\ q.ds = DatasetOf[c] /\ q.chunk = c
  BY <1>2, IdleTyped DEF Processes, Idle, Points, Callers
<1> HIDE DEF q
<1>5. ProcOK(q)
  BY <1>2, <1>4, ProcsAssumption DEF ProcOK, CallersAt, Outside, Running
<1>6. clock' = FreeCatalog(w) /\ q.pc \notin Leased
  BY <1>1, <1>3, <1>4 DEF FreeCatalog, Leased
<1>7. Gets(w, q)
  BY <1>1, <1>4, <1>5, <1>6 DEF Gets
<1>8. Locking(w, q, DatasetOf[c])
  BY <1>1, <1>3, <1>4 DEF Locking, Takes
<1>9. proc[w].ds # DatasetOf[c] /\ faults' \in 0..MaxFaults
  BY <1>1, <1>2, <1>3, ProcsAssumption, DiskTyped
<1> QED
  BY <1>1, <1>2, <1>4, <1>7, <1>8, <1>9, LooseStep

\* At a start: the next dataset with a journal, if its lock is free.
LEMMA StartUpKeeps ==
    ASSUME IInv, NEW w \in Procs, StartUp(w)
    PROVE  IInv'
<1> DEFINE todo == {d \in Datasets : journal[d] # None}
           q == [proc[w] EXCEPT !.pc = "startup", !.pending = todo]
<1>1. /\ proc[w].pc = "idle" /\ proc' = [proc EXCEPT ![w] = q]
      /\ UNCHANGED <<file, backup, catalog, saved, journal, dlock, clock, reported, faults>>
  BY DEF StartUp, At, disk, IInv, TypeOK
<1>2. proc[w] \in Processes /\ ProcOK(proc[w])
  BY DEF IInv, TypeOK
<1>3. proc[w].ds = None /\ clock # w /\ proc[w].why = "none"
  BY <1>1, <1>2 DEF ProcOK, CallersAt, Outside, IInv, LocksOK, Leased
<1>4. /\ q \in Processes /\ q.pc = "startup" /\ q.why = proc[w].why /\ q.ds = proc[w].ds
  <2>1. todo \in SUBSET Datasets
    OBVIOUS
  <2> HIDE DEF todo
  <2> QED
    BY <1>2, <2>1 DEF Processes, Points
<1> HIDE DEF q
<1>5. ProcOK(q)
  BY <1>3, <1>4 DEF ProcOK, CallersAt, Outside, Running
<1>6. Gets(w, q)
  BY <1>1, <1>3, <1>4, <1>5 DEF Gets, FreeCatalog, Leased
<1> QED
  BY <1>1, <1>3, <1>4, <1>6, DiskTyped, ApartStep

TakesNext(w, d) ==
    /\ dlock[d] = None
    /\ dlock' = [dlock EXCEPT ![d] = w]
    /\ proc' = [proc EXCEPT ![w].pc = "recover", ![w].why = "startup",
                            ![w].ds = d, ![w].pending = @ \ {d}]
    /\ UNCHANGED clock
LEMMA StartUpNextKeeps ==
    ASSUME IInv, NEW w \in Procs, StartUpNext(w)
    PROVE  IInv'
<1>0. /\ At(w, "startup") /\ UNCHANGED <<disk, reported, faults>>
      /\ \/ \E d \in proc[w].pending : TakesNext(w, d)
         \/ Leave(w)
         \/ Go(w, "snapshot") /\ UNCHANGED <<dlock, clock>>
  BY Zenon DEF StartUpNext, TakesNext
<1>1. /\ proc[w].pc = "startup"
      /\ UNCHANGED <<file, backup, catalog, saved, journal, reported, faults>>
  BY <1>0 DEF At, disk
<1>2. proc[w] \in Processes /\ ProcOK(proc[w])
  BY DEF IInv, TypeOK
<1>3. proc[w].ds = None /\ clock # w /\ proc[w].why = "none"
  BY <1>1, <1>2 DEF ProcOK, CallersAt, Outside, IInv, LocksOK, Leased
<1>4. ASSUME NEW d \in proc[w].pending, TakesNext(w, d)
      PROVE  IInv'
  <2> DEFINE q == [proc[w] EXCEPT !.pc = "recover", !.why = "startup", !.ds = d,
                                  !.pending = @ \ {d}]
  <2>1. d \in Datasets /\ d # None /\ proc' = [proc EXCEPT ![w] = q]
    BY <1>2, <1>4, ProcsAssumption DEF Processes, IInv, TypeOK, TakesNext
  <2>2. q \in Processes /\ q.pc = "recover" /\ q.why = "startup" /\ q.ds = d
    BY <1>2, <2>1 DEF Processes, Points, Callers
  <2> HIDE DEF q
  <2>3. ProcOK(q)
    BY <2>1, <2>2 DEF ProcOK, CallersAt, Outside, Running
  <2>4. Gets(w, q)
    BY <1>3, <1>4, <2>1, <2>2, <2>3 DEF Gets, FreeCatalog, Leased, TakesNext
  <2>5. Locking(w, q, d)
    BY <1>3, <1>4, <2>2 DEF Locking, Takes, TakesNext
  <2> QED
    BY <1>1, <1>3, <2>1, <2>2, <2>4, <2>5, DiskTyped, LooseStep
<1>5. CASE Leave(w)
  <2>1. Gets(w, Idle) /\ dlock' = Free(w, dlock)
    BY <1>5, LeaveGets DEF Leave
  <2> QED
    BY <1>1, <1>3, <2>1, IdleOK, DiskTyped, ApartStep
<1>6. CASE Go(w, "snapshot") /\ UNCHANGED <<dlock, clock>>
  <2> DEFINE q == [proc[w] EXCEPT !.pc = "snapshot"]
  <2>1. proc' = [proc EXCEPT ![w] = q]
    BY <1>6 DEF Go, IInv, TypeOK
  <2>2. q \in Processes /\ q.pc = "snapshot" /\ q.why = proc[w].why /\ q.ds = proc[w].ds
    BY <1>2 DEF Processes, Points
  <2> HIDE DEF q
  <2>3. ProcOK(q)
    BY <1>3, <2>2 DEF ProcOK, CallersAt, Outside, Running
  <2>4. Gets(w, q)
    BY <1>3, <1>6, <2>1, <2>2, <2>3 DEF Gets, FreeCatalog, Leased
  <2> QED
    BY <1>1, <1>3, <1>6, <2>2, <2>4, DiskTyped, ApartStep
<1> QED
  BY <1>0, <1>4, <1>5, <1>6

LEMMA SnapshotKeeps ==
    ASSUME IInv, NEW w \in Procs, Snapshot(w)
    PROVE  IInv'
<1> DEFINE seen == {x \in Datasets \X (1..MaxRuns) : catalog.run[x[1]][x[2]] = "RUNNING"}
           q == [proc[w] EXCEPT !.pc = "mark", !.runs = seen]
<1>1. /\ proc[w].pc = "snapshot" /\ proc' = [proc EXCEPT ![w] = q]
      /\ UNCHANGED <<file, backup, catalog, saved, journal, dlock, clock, reported, faults>>
  BY DEF Snapshot, At, disk, IInv, TypeOK
<1>2. proc[w] \in Processes /\ ProcOK(proc[w])
  BY DEF IInv, TypeOK
<1>3. proc[w].ds = None /\ clock # w /\ proc[w].why = "none"
  BY <1>1, <1>2 DEF ProcOK, CallersAt, Outside, IInv, LocksOK, Leased
<1>4. /\ q \in Processes /\ q.pc = "mark" /\ q.why = proc[w].why /\ q.ds = proc[w].ds
  <2>1. seen \in SUBSET (Datasets \X (1..MaxRuns))
    OBVIOUS
  <2> HIDE DEF seen
  <2> QED
    BY <1>2, <2>1 DEF Processes, Points
<1> HIDE DEF q
<1>5. ProcOK(q)
  BY <1>3, <1>4 DEF ProcOK, CallersAt, Outside, Running
<1>6. Gets(w, q)
  BY <1>1, <1>3, <1>4, <1>5 DEF Gets, FreeCatalog, Leased
<1> QED
  BY <1>1, <1>3, <1>4, <1>6, DiskTyped, ApartStep

-----------------------------------------------------------------------------
(* recover_dataset, and the end of a recovery *)

\* The start-up goes on to the next dataset.
GoesOn(w) == /\ proc' = [proc EXCEPT ![w].pc = "startup", ![w].ds = None, ![w].why = "none"]
             /\ dlock' = Free(w, dlock)
LEMMA GivesBack ==
    ASSUME IInv, NEW w \in Procs, NEW d \in Datasets, proc[w].ds = d,
           clock' = FreeCatalog(w), GoesOn(w)
    PROVE  /\ Gets(w, proc'[w]) /\ Locking(w, proc'[w], d)
           /\ proc'[w].pc = "startup" /\ proc'[w].why = "none" /\ proc'[w].ds = None
<1> DEFINE q == [proc[w] EXCEPT !.pc = "startup", !.ds = None, !.why = "none"]
<1>1. proc' = [proc EXCEPT ![w] = q] /\ proc'[w] = q /\ proc[w] \in Processes
  BY DEF IInv, TypeOK, GoesOn
<1>2. q \in Processes /\ q.pc = "startup" /\ q.why = "none" /\ q.ds = None
  BY <1>1 DEF Processes, Points, Callers
<1> HIDE DEF q
<1>3. ProcOK(q) /\ q.pc \notin Leased
  BY <1>2 DEF ProcOK, CallersAt, Outside, Running, Leased
<1>4. Gets(w, q) /\ Releases(w, q, d)
  BY <1>1, <1>2, <1>3 DEF Gets, Releases, GoesOn
<1> QED
  BY <1>1, <1>2, <1>4 DEF Locking

LEMMA RecoverNothingKeeps ==
    ASSUME IInv, NEW w \in Procs, At(w, "recover"), NEW d \in Datasets, proc[w].ds = d,
           clock = None, journal[d] = None, Recovered(w),
           UNCHANGED <<file, backup, catalog, saved, journal, clock, reported, faults>>
    PROVE  IInv'
<1>1. proc[w].pc = "recover" /\ ProcOK(proc[w]) /\ proc[w].pc \notin Outside
  BY InHand DEF At, Outside
<1>2. proc[w].why \in {"ingest", "startup"} /\ w # None /\ clock' = FreeCatalog(w)
  BY <1>1, ProcsAssumption DEF ProcOK, CallersAt, Outside, FreeCatalog
<1>3. DiskOf(d) /\ ReportedOf(d) /\ faults' \in 0..MaxFaults
  BY DiskAsItIs, ReportedAsItIs, DiskTyped
<1>4. CASE proc[w].why = "ingest" /\ Go(w, "ready") /\ UNCHANGED dlock
  <2>1. /\ "ready" \in Points /\ "ready" \notin Outside /\ "ready" \notin Leased
        /\ "ready" \notin Running /\ {} \in SUBSET Months /\ proc[w].why \in CallersAt("ready")
    BY <1>4 DEF Points, Outside, Leased, Running, CallersAt
  <2>2. /\ Gets(w, proc'[w]) /\ Locking(w, proc'[w], d) /\ proc'[w].pc = "ready"
        /\ proc'[w].why = "ingest" /\ proc'[w].ds = d
    BY <1>1, <1>2, <1>4, <2>1, GoStays DEF Ds
  <2>3. Quiet(w, proc'[w], d)
    BY <1>1, <1>3, <2>2 DEF Quiet
  <2>4. /\ View(d) \in Views /\ OK(d, View(d)) /\ View(d).j = None
        /\ SameDisk(View(d), View(d)') /\ SameVersion(View(d), View(d)') /\ View(d)'.p = proc'[w]
    BY <2>2, <2>3, StayView DEF SameDisk
  <2>5. OK(d, View(d)')
    BY <2>2, <2>4, RecoverNothing
  <2> QED
    BY <1>3, <2>2, <2>3, <2>5, QuietKeeps
<1>5. CASE proc[w].why = "startup" /\ GoesOn(w)
  <2>1. /\ Gets(w, proc'[w]) /\ Locking(w, proc'[w], d)
        /\ proc'[w].pc = "startup" /\ proc'[w].why = "none" /\ proc'[w].ds = None
    BY <1>2, <1>5, GivesBack
  <2> QED
    BY <1>1, <1>3, <1>5, <2>1, LooseStep, ProcsAssumption
<1> QED
  BY <1>2, <1>4, <1>5 DEF Recovered, GoesOn

LEMMA RecoverPreparedKeeps ==
    ASSUME IInv, NEW w \in Procs, At(w, "recover"), NEW d \in Datasets, proc[w].ds = d,
           clock = None, NEW j, j = journal[d], j # None, j.state = "PREPARED",
           clock' = w, catalog' = RevertedCatalog(d, j), GoTodo(w, "undo", j.months),
           UNCHANGED <<file, backup, saved, journal, dlock, reported, faults>>
    PROVE  IInv'
<1> DEFINE q == proc'[w]
<1>1. proc[w].pc = "recover" /\ ProcOK(proc[w]) /\ proc[w].pc \notin Outside
  BY InHand DEF At, Outside
<1>2. proc[w].why \in {"ingest", "startup"} /\ w # None
  BY <1>1, ProcsAssumption DEF ProcOK, CallersAt, Outside
<1>3. j \in Journals /\ j.months \in SUBSET Months /\ j.run \in 1..MaxRuns /\ j.chunk \in Chunks
      /\ j.before \in SUBSET Chunks
  BY DiskTyped DEF Journals
<1>4. /\ View(d) \in Views /\ OK(d, View(d)) /\ View(d).p = proc[w]
      /\ View(d).file = file[d] /\ View(d).backup = backup[d] /\ View(d).j = journal[d]
      /\ View(d).saved = (saved[d] # None) /\ View(d).reported = Of(reported, d)
      /\ View(d).data = Cat.data[d] /\ View(d).receipts = Of(Cat.receipts, d)
  BY ViewBefore
<1>5. DatasetOf[j.chunk] = d
  BY <1>4 DEF OK, VersionOK, JournalFits
<1>6. KeysAre(catalog, catalog', d, j.before, j.run, "RUNNING", catalog.receipts \ {j.chunk})
  <2>1. catalog' = KeysSet(catalog, d, j.before, j.run, "RUNNING", catalog.receipts \ {j.chunk})
    BY DEF RevertedCatalog, KeysSet
  <2>2. catalog \in Catalogs /\ catalog.receipts \ {j.chunk} \in SUBSET Chunks /\ "RUNNING" \in RunStates
    BY DiskTyped DEF Catalogs, RunStates
  <2> QED
    BY <1>3, <2>1, <2>2, CatalogSet
<1>7. /\ Gets(w, q) /\ Keeps(w, q, d) /\ Locking(w, q, d) /\ q.pc = "undo"
      /\ q.why = proc[w].why /\ q.ds = d /\ q.todo = j.months
  <2>1. /\ "undo" \in Points /\ "undo" \notin Outside /\ "undo" \in Leased /\ "undo" \notin Running
        /\ proc[w].why \in CallersAt("undo")
    BY <1>2 DEF Points, Outside, Leased, Running, CallersAt
  <2> QED
    BY <1>1, <1>3, <2>1, GoStays DEF Ds
<1>8. Cat = catalog /\ Cat' = catalog'
  BY <1>1, <1>7, CatIsBefore, CatIsAfter
<1>9. SameElsewhere(Cat, Cat', d)
  <2>1. \A e \in Datasets \ {d} : Of(catalog'.receipts, e) = Of(catalog.receipts, e)
    BY <1>5, <1>6 DEF Of, KeysAre
  <2> QED
    BY <1>6, <1>8, <2>1 DEF SameElsewhere, KeysAre
<1>10. OK(d, View(d)')
  <2>1. /\ View(d)'.file = file'[d] /\ View(d)'.backup = backup'[d] /\ View(d)'.j = journal'[d]
        /\ View(d)'.saved = (saved'[d] # None) /\ View(d)'.reported = Of(reported', d)
        /\ View(d)'.data = Cat'.data[d] /\ View(d)'.receipts = Of(Cat'.receipts, d)
        /\ View(d)'.p = q
    BY <1>7, ViewAfter
  <2>2. Of(catalog'.receipts, d) = Of(catalog.receipts, d) \ {j.chunk} /\ catalog'.data[d] = j.before
    BY <1>6 DEF Of, KeysAre
  <2>3. Of(reported', d) = Of(reported, d)
    OBVIOUS
  <2>4. /\ SameDisk(View(d), View(d)') /\ View(d)'.reported = View(d).reported
        /\ View(d)'.data = View(d).j.before
        /\ View(d)'.receipts = View(d).receipts \ {View(d).j.chunk}
    BY <1>4, <1>8, <2>1, <2>2, <2>3 DEF SameDisk
  <2> QED
    BY <1>2, <1>4, <1>7, <2>1, <2>4, RecoverPrepared
<1>11. DiskOf(d) /\ ReportedOf(d) /\ faults' \in 0..MaxFaults /\ catalog' \in Catalogs
  BY <1>6, DiskAsItIs, ReportedAsItIs, DiskTyped DEF KeysAre
<1> QED
  BY <1>2, <1>7, <1>9, <1>10, <1>11, StepKeeps, ProcsAssumption

LEMMA RecoverCommittedKeeps ==
    ASSUME IInv, NEW w \in Procs, At(w, "recover"), NEW d \in Datasets, proc[w].ds = d,
           clock = None, NEW j, j = journal[d], j # None, j.state = "COMMITTED",
           clock' = w, GoTodo(w, "clean", j.months),
           UNCHANGED <<file, backup, catalog, saved, journal, dlock, reported, faults>>
    PROVE  IInv'
<1> DEFINE q == proc'[w]
<1>1. proc[w].pc = "recover" /\ ProcOK(proc[w]) /\ proc[w].pc \notin Outside
  BY InHand DEF At, Outside
<1>2. proc[w].why \in {"ingest", "startup"}
  BY <1>1 DEF ProcOK, CallersAt, Outside
<1>3. j.months \in SUBSET Months
  BY DiskTyped DEF Journals
<1>4. /\ Gets(w, q) /\ Keeps(w, q, d) /\ Locking(w, q, d) /\ q.pc = "clean"
      /\ q.why = proc[w].why /\ q.ds = d /\ q.todo = j.months
  <2>1. /\ "clean" \in Points /\ "clean" \notin Outside /\ "clean" \in Leased /\ "clean" \notin Running
        /\ proc[w].why \in CallersAt("clean")
    BY <1>2 DEF Points, Outside, Leased, Running, CallersAt
  <2> QED
    BY <1>1, <1>3, <2>1, GoStays DEF Ds
<1>5. DiskOf(d) /\ ReportedOf(d) /\ faults' \in 0..MaxFaults
  BY DiskAsItIs, ReportedAsItIs, DiskTyped
<1>6. Quiet(w, q, d)
  BY <1>1, <1>4, <1>5 DEF Quiet
<1>7. /\ View(d) \in Views /\ OK(d, View(d)) /\ View(d).p = proc[w] /\ View(d).j = j
      /\ SameDisk(View(d), View(d)') /\ SameVersion(View(d), View(d)') /\ View(d)'.p = q
  BY <1>4, <1>6, StayView DEF SameDisk
<1>8. OK(d, View(d)')
  BY <1>2, <1>4, <1>7, RecoverCommitted
<1> QED
  BY <1>4, <1>5, <1>6, <1>8, QuietKeeps

LEMMA RecoverKeeps ==
    ASSUME IInv, NEW w \in Procs, Recover(w), NEW d \in Datasets, proc[w].ds = d
    PROVE  IInv'
<1> DEFINE j == journal[d]
<1>1. /\ At(w, "recover") /\ Ds(w) = d /\ clock = None /\ UNCHANGED <<reported, faults>>
      /\ \/ j = None /\ Recovered(w) /\ UNCHANGED <<clock, disk>>
         \/ /\ j # None /\ j.state = "PREPARED"
            /\ clock' = w
            /\ catalog' = RevertedCatalog(d, j)
            /\ GoTodo(w, "undo", j.months)
            /\ UNCHANGED <<file, backup, saved, journal, dlock>>
         \/ j # None /\ Leave(w) /\ UNCHANGED disk
         \/ /\ j # None /\ j.state = "COMMITTED"
            /\ clock' = w
            /\ GoTodo(w, "clean", j.months)
            /\ UNCHANGED <<disk, dlock>>
  BY DEF Recover, Ds
<1>2. CASE j = None /\ Recovered(w) /\ UNCHANGED <<clock, disk>>
  BY <1>1, <1>2, RecoverNothingKeeps DEF disk
<1>3. CASE /\ j # None /\ j.state = "PREPARED"
           /\ clock' = w
           /\ catalog' = RevertedCatalog(d, j)
           /\ GoTodo(w, "undo", j.months)
           /\ UNCHANGED <<file, backup, saved, journal, dlock>>
  BY <1>1, <1>3, RecoverPreparedKeeps
<1>4. CASE j # None /\ Leave(w) /\ UNCHANGED disk
  <2>1. Gets(w, Idle) /\ Locking(w, Idle, d)
    BY <1>4, LeaveGets
  <2>2. proc[w].pc = "recover" /\ proc[w].why # "rollback" /\ d # None
    BY <1>1, ProcsAssumption DEF At, IInv, ProcOK, CallersAt, Outside
  <2> QED
    BY <1>1, <1>4, <2>1, <2>2, IdleOK, DiskTyped, LooseStep DEF disk
<1>5. CASE /\ j # None /\ j.state = "COMMITTED"
           /\ clock' = w
           /\ GoTodo(w, "clean", j.months)
           /\ UNCHANGED <<disk, dlock>>
  BY <1>1, <1>5, RecoverCommittedKeeps DEF disk
<1> QED
  BY <1>1, <1>2, <1>3, <1>4, <1>5

\* The journal goes from x to y: what is common to all callers.
LEMMA JournalDropped ==
    ASSUME IInv, NEW w \in Procs, At(w, "dropJournal"), NEW d \in Datasets, proc[w].ds = d,
           journal' = [journal EXCEPT ![d] = None],
           NEW q, Gets(w, q), Locking(w, q, d),
           UNCHANGED <<file, backup, catalog, saved, faults>>,
           \/ UNCHANGED reported
           \/ proc[w].why = "finalize" /\ reported' = reported \cup {proc[w].chunk},
           \/ q.ds = d /\ q.pc = "ready" /\ q.why = "ingest"
           \/ q.ds = d /\ q.pc = "failRun" /\ q.why = "rollback"
           \/ q.ds = None /\ q.pc \notin {"commit", "rollback", "rollbackRestore"}
    PROVE  IInv'
<1>1. proc[w].pc = "dropJournal" /\ ProcOK(proc[w]) /\ proc[w] \in Processes
  BY InHand DEF At, Outside
<1>2. DiskOf(d) /\ journal'[d] = None /\ faults' \in 0..MaxFaults
  BY DiskTyped DEF DiskOf
<1>3. ReportedOf(d)
  <2>1. CASE UNCHANGED reported
    BY <2>1, ReportedAsItIs
  <2>2. CASE proc[w].why = "finalize" /\ reported' = reported \cup {proc[w].chunk}
    <3>1. proc[w].chunk \in Chunks /\ DatasetOf[proc[w].chunk] = d
      BY <1>1, <2>2 DEF ProcOK, Processes
    <3> QED
      BY <2>2, <3>1, DiskTyped DEF ReportedOf, Of
  <2> QED
    BY <2>1, <2>2
<1>4. Quiet(w, q, d)
  BY <1>1, <1>2 DEF Quiet
<1>5. /\ View(d) \in Views /\ OK(d, View(d)) /\ View(d).p = proc[w]
      /\ View(d).file = file[d] /\ View(d).backup = backup[d]
      /\ View(d).saved = (saved[d] # None) /\ View(d).reported = Of(reported, d)
  BY ViewBefore
<1>6. /\ View(d)'.file = file'[d] /\ View(d)'.backup = backup'[d] /\ View(d)'.j = journal'[d]
      /\ View(d)'.saved = (saved'[d] # None) /\ View(d)'.reported = Of(reported', d)
      /\ q.ds = d => View(d)'.p = q
      /\ q.ds = None => View(d)'.p = Idle
  BY ViewAfter
<1>7. View(d)'.data = View(d).data /\ View(d)'.receipts = View(d).receipts
  BY <1>4, QuietView
<1>8. \/ View(d)'.reported = View(d).reported
      \/ /\ View(d).p.why = "finalize"
         /\ View(d)'.reported = View(d).reported \cup {View(d).p.chunk}
  <2>1. CASE UNCHANGED reported
    <3>1. Of(reported', d) = Of(reported, d)
      BY <2>1
    <3> QED
      BY <1>5, <1>6, <3>1
  <2>2. CASE proc[w].why = "finalize" /\ reported' = reported \cup {proc[w].chunk}
    <3>1. DatasetOf[proc[w].chunk] = d
      BY <1>1, <2>2 DEF ProcOK
    <3>2. Of(reported', d) = Of(reported, d) \cup {proc[w].chunk}
      BY <2>2, <3>1 DEF Of
    <3> QED
      BY <2>2, <1>5, <1>6, <3>2
  <2> QED
    BY <2>1, <2>2
<1>9. \/ View(d)'.p.pc = "ready" /\ View(d)'.p.why = "ingest"
      \/ View(d)'.p.pc = "failRun" /\ View(d)'.p.why = "rollback"
      \/ View(d)'.p.pc = "idle" /\ View(d)'.p.why = "none"
  BY <1>6, IdleOK
<1>10. OK(d, View(d)')
  <2>1. /\ View(d)'.file = View(d).file /\ View(d)'.backup = View(d).backup
        /\ View(d)'.saved = View(d).saved /\ View(d)'.j = None
    BY <1>2, <1>5, <1>6
  <2> QED
    BY <1>1, <1>5, <1>7, <1>8, <1>9, <2>1, JournalGoes
<1>11. q.pc \notin {"commit", "rollback"}
  OBVIOUS
<1> QED
  BY <1>2, <1>3, <1>4, <1>10, <1>11, QuietKeeps

LEMMA DropJournalKeeps ==
    ASSUME IInv, NEW w \in Procs, DropJournal(w), NEW d \in Datasets, proc[w].ds = d
    PROVE  IInv'
<1> DEFINE q == proc'[w]
<1>1. /\ At(w, "dropJournal") /\ journal' = [journal EXCEPT ![d] = None]
      /\ UNCHANGED <<file, backup, catalog, saved, faults>>
      /\ proc[w].pc \notin Outside /\ ProcOK(proc[w]) /\ clock = w /\ w # None /\ d # None
  BY InHand, ProcsAssumption DEF DropJournal, At, Ds, Outside, Leased
<1>2. CASE clock' = None /\ proc[w].why = "ingest" /\ Go(w, "ready") /\ UNCHANGED <<dlock, reported>>
  <2>1. /\ "ready" \in Points /\ "ready" \notin Outside /\ "ready" \notin Leased
        /\ "ready" \notin Running /\ {} \in SUBSET Months /\ proc[w].why \in CallersAt("ready")
        /\ clock' = FreeCatalog(w)
    BY <1>1, <1>2 DEF Points, Outside, Leased, Running, CallersAt, FreeCatalog
  <2>2. /\ Gets(w, q) /\ Locking(w, q, d) /\ q.pc = "ready" /\ q.why = "ingest" /\ q.ds = d
    BY <1>1, <1>2, <2>1, GoStays DEF Ds
  <2> QED
    BY <1>1, <1>2, <2>2, JournalDropped
<1>3. CASE clock' = None /\ proc[w].why = "startup" /\ GoesOn(w) /\ UNCHANGED reported
  <2>1. clock' = FreeCatalog(w)
    BY <1>1, <1>3 DEF FreeCatalog
  <2>2. /\ Gets(w, q) /\ Locking(w, q, d) /\ q.pc = "startup" /\ q.ds = None
    BY <1>3, <2>1, GivesBack
  <2> QED
    BY <1>1, <1>3, <2>2, JournalDropped
<1>4. CASE /\ clock' = None /\ proc[w].why = "rollback" /\ Go(w, "failRun")
           /\ UNCHANGED <<dlock, reported>>
  <2>1. /\ "failRun" \in Points /\ "failRun" \notin Outside /\ "failRun" \notin Leased
        /\ {} \in SUBSET Months /\ proc[w].why \in CallersAt("failRun") /\ proc[w].run # 0
        /\ clock' = FreeCatalog(w)
    BY <1>1, <1>4 DEF Points, Outside, Leased, CallersAt, FreeCatalog, ProcOK
  <2>2. /\ Gets(w, q) /\ Locking(w, q, d) /\ q.pc = "failRun" /\ q.why = "rollback" /\ q.ds = d
    BY <1>1, <1>4, <2>1, GoStays DEF Ds
  <2> QED
    BY <1>1, <1>4, <2>2, JournalDropped
<1>5. CASE proc[w].why = "finalize" /\ Report(w) /\ Leave(w)
  <2>1. Gets(w, Idle) /\ Locking(w, Idle, d)
    BY <1>5, LeaveGets
  <2> QED
    BY <1>1, <1>5, <2>1, IdleOK, JournalDropped DEF Report
<1> QED
  BY <1>1, <1>2, <1>3, <1>4, <1>5 DEF DropJournal, Recovered, GoesOn

-----------------------------------------------------------------------------
(* The beginning and the end of a run *)

\* Only the state of one run changes.
LEMMA RunSet ==
    ASSUME NEW a \in Catalogs, NEW d \in Datasets, NEW n \in 1..MaxRuns, NEW s \in RunStates,
           NEW b, b = [a EXCEPT !.run[d][n] = s]
    PROVE  KeysAre(a, b, d, a.data[d], n, s, a.receipts)
<1>1. /\ a.data \in [Datasets -> SUBSET Chunks] /\ a.run \in [Datasets -> [1..MaxRuns -> RunStates]]
      /\ a.receipts \in SUBSET Chunks
      /\ a = [data |-> a.data, receipts |-> a.receipts, run |-> a.run]
  BY DEF Catalogs
<1>2. /\ b.data = a.data /\ b.receipts = a.receipts /\ b.run = [a.run EXCEPT ![d][n] = s]
      /\ b = [data |-> b.data, receipts |-> b.receipts, run |-> b.run]
  BY <1>1
<1>3. a.run[d] \in [1..MaxRuns -> RunStates]
  BY <1>1
<1>4. b.run[d] = [a.run[d] EXCEPT ![n] = s]
  BY <1>1, <1>2
<1>5. b.run[d][n] = s /\ b.run[d] \in [1..MaxRuns -> RunStates]
  <2> DEFINE f == a.run[d]
  <2>1. f \in [1..MaxRuns -> RunStates] /\ b.run[d] = [f EXCEPT ![n] = s]
    BY <1>3, <1>4
  <2> HIDE DEF f
  <2> QED
    BY <2>1
<1>6. b.run = [a.run EXCEPT ![d] = b.run[d]]
  BY <1>1, <1>2, <1>4
<1>7. /\ b.run \in [Datasets -> [1..MaxRuns -> RunStates]]
      /\ \A e \in Datasets \ {d} : b.run[e] = a.run[e]
  BY <1>1, <1>5, <1>6
<1>8. b \in Catalogs /\ b.data = [a.data EXCEPT ![d] = a.data[d]]
  BY <1>1, <1>2, <1>7 DEF Catalogs
<1> QED
  BY <1>2, <1>5, <1>7, <1>8 DEF KeysAre

\* Run n of d gets to state s, under the lease of the catalog.
LEMMA RunStep ==
    ASSUME IInv, NEW w \in Procs, NEW q, Gets(w, q), NEW d \in Datasets, Locking(w, q, d),
           clock = None, q.pc \notin Leased, proc[w].pc \notin Leased,
           NEW n \in 1..MaxRuns, NEW s \in RunStates, catalog' = [catalog EXCEPT !.run[d][n] = s],
           UNCHANGED <<file, backup, saved, journal, reported, faults>>
    PROVE  /\ View(d) \in Views /\ OK(d, View(d))
           /\ SameDisk(View(d), View(d)') /\ SameVersion(View(d), View(d)')
           /\ View(d)'.run[n] = s /\ View(d).receipts = Of(catalog.receipts, d)
           /\ proc[w].ds = d => View(d).p = proc[w]
           /\ dlock[d] = None => View(d).p = Idle
           /\ q.ds = d => View(d)'.p = q
           /\ q.ds = None => View(d)'.p = Idle
           /\ View(d).j = journal[d]
           /\ OK(d, View(d)') => IInv'
<1>1. KeysAre(catalog, catalog', d, catalog.data[d], n, s, catalog.receipts)
  BY RunSet, DiskTyped
<1>2. clock' \in {None, w} /\ proc'[w] = q
  BY GetsFacts
<1>3. Cat = catalog /\ Cat' = catalog'
  BY <1>2, CatIsBefore, CatIsAfter DEF Leased
<1>4. /\ catalog'.data = catalog.data /\ catalog'.receipts = catalog.receipts
      /\ catalog'.run[d][n] = s /\ catalog' \in Catalogs
      /\ \A e \in Datasets \ {d} : catalog'.run[e] = catalog.run[e]
  BY <1>1, DiskTyped DEF KeysAre, Catalogs
<1>5. SameElsewhere(Cat, Cat', d)
  BY <1>3, <1>4 DEF SameElsewhere
<1>6. /\ View(d) \in Views /\ OK(d, View(d))
      /\ View(d).file = file[d] /\ View(d).backup = backup[d] /\ View(d).j = journal[d]
      /\ View(d).saved = (saved[d] # None) /\ View(d).reported = Of(reported, d)
      /\ View(d).data = Cat.data[d] /\ View(d).receipts = Of(Cat.receipts, d)
      /\ proc[w].ds = d => View(d).p = proc[w]
      /\ dlock[d] = None => View(d).p = Idle
  BY ViewBefore
<1>7. /\ View(d)'.file = file'[d] /\ View(d)'.backup = backup'[d] /\ View(d)'.j = journal'[d]
      /\ View(d)'.saved = (saved'[d] # None) /\ View(d)'.reported = Of(reported', d)
      /\ View(d)'.data = Cat'.data[d] /\ View(d)'.receipts = Of(Cat'.receipts, d)
      /\ View(d)'.run = Cat'.run[d]
      /\ q.ds = d => View(d)'.p = q
      /\ q.ds = None => View(d)'.p = Idle
  BY ViewAfter
<1>8. SameDisk(View(d), View(d)') /\ SameVersion(View(d), View(d)')
  <2>1. Of(reported', d) = Of(reported, d) /\ Of(catalog'.receipts, d) = Of(catalog.receipts, d)
    BY <1>4
  <2> QED
    BY <1>3, <1>4, <1>6, <1>7, <2>1 DEF SameDisk, SameVersion
<1>9. ASSUME OK(d, View(d)') PROVE IInv'
  <2>1. DiskOf(d) /\ ReportedOf(d) /\ faults' \in 0..MaxFaults
    BY DiskAsItIs, ReportedAsItIs, DiskTyped
  <2>2. q.pc \notin {"commit", "rollback"} /\ d # None
    BY ProcsAssumption DEF Leased
  <2> QED
    BY <1>4, <1>5, <1>9, <2>1, <2>2, StepKeeps
<1> QED
  BY <1>3, <1>4, <1>6, <1>7, <1>8, <1>9

LEMMA StartRunKeeps ==
    ASSUME IInv, NEW w \in Procs, StartRun(w), NEW d \in Datasets, proc[w].ds = d
    PROVE  IInv'
<1> DEFINE unused == {n \in 1..MaxRuns : catalog.run[d][n] = "ABSENT"}
           n == Least(unused)
           q == [proc[w] EXCEPT !.pc = "fetch", !.run = n]
<1>1. /\ proc[w].pc = "ready" /\ proc[w].chunk \notin catalog.receipts /\ clock = None
      /\ unused # {}
      /\ catalog' = [catalog EXCEPT !.run[d][n] = "RUNNING"]
      /\ proc' = [proc EXCEPT ![w] = q]
      /\ UNCHANGED <<file, backup, saved, journal, dlock, clock, reported, faults>>
  BY DEF StartRun, At, Ds, IInv, TypeOK
<1>2. n \in 1..MaxRuns
  BY <1>1, OfRuns
<1>3. proc[w] \in Processes /\ ProcOK(proc[w]) /\ proc[w].why = "ingest" /\ w # None
  BY <1>1, ProcsAssumption DEF IInv, TypeOK, ProcOK, CallersAt, Outside
<1> HIDE DEF n
<1>4. /\ q \in Processes /\ q.pc = "fetch" /\ q.why = "ingest" /\ q.ds = d /\ q.run = n
      /\ q.chunk = proc[w].chunk
  <2>1. n \in 0..MaxRuns /\ n # 0
    BY <1>2, BoundsAssumption
  <2> QED
    BY <1>3, <2>1 DEF Processes, Points
<1> HIDE DEF q
<1>5. ProcOK(q)
  <2>1. n # 0 /\ d # None
    BY <1>2, BoundsAssumption, ProcsAssumption
  <2> QED
    BY <1>3, <1>4, <2>1 DEF ProcOK, CallersAt, Outside
<1>6. Gets(w, q) /\ Locking(w, q, d) /\ q.pc \notin Leased /\ proc[w].pc \notin Leased
  BY <1>1, <1>3, <1>4, <1>5 DEF Gets, Locking, Keeps, FreeCatalog, Leased
<1>7. "RUNNING" \in RunStates
  BY DEF RunStates
<1>8. /\ View(d) \in Views /\ OK(d, View(d))
      /\ SameDisk(View(d), View(d)') /\ SameVersion(View(d), View(d)')
      /\ View(d)'.run[n] = "RUNNING" /\ View(d).receipts = Of(catalog.receipts, d)
      /\ View(d).p = proc[w] /\ View(d)'.p = q
      /\ OK(d, View(d)') => IInv'
  BY <1>1, <1>2, <1>4, <1>6, <1>7, RunStep
<1>9. proc[w].chunk \notin View(d).receipts
  BY <1>1, <1>8 DEF Of
<1> QED
  BY <1>1, <1>4, <1>8, <1>9, RunStarts

LEMMA FailRunKeeps ==
    ASSUME IInv, NEW w \in Procs, FailRun(w), NEW d \in Datasets, proc[w].ds = d
    PROVE  IInv'
<1> DEFINE n == proc[w].run
<1>1. /\ proc[w].pc = "failRun" /\ clock = None /\ Leave(w)
      /\ catalog' = catalog \/ catalog' = [catalog EXCEPT !.run[d][n] = "FAILED"]
      /\ UNCHANGED <<file, backup, saved, journal, reported, faults>>
  BY DEF FailRun, At, Ds
<1>2. Gets(w, Idle) /\ Locking(w, Idle, d)
  BY <1>1, LeaveGets
<1>3. /\ proc[w] \in Processes /\ ProcOK(proc[w]) /\ n # 0 /\ d # None
  BY <1>1, ProcsAssumption DEF IInv, TypeOK, ProcOK, Running
<1>4. n \in 1..MaxRuns /\ "FAILED" \in RunStates
  BY <1>3, BoundsAssumption DEF Processes, RunStates
<1>5. proc[w].why = "rollback" => journal[d] = None
  <2>1. OK(d, View(d)) /\ View(d).p = proc[w] /\ View(d).j = journal[d]
    BY ViewBefore
  <2> QED
    BY <1>1, <2>1 DEF OK, PointOK
<1>6. CASE catalog' = catalog
  BY <1>1, <1>2, <1>3, <1>5, <1>6, IdleOK, DiskTyped, LooseStep
<1>7. CASE catalog' = [catalog EXCEPT !.run[d][n] = "FAILED"]
  <2>1. Idle.pc \notin Leased /\ proc[w].pc \notin Leased
    BY <1>1, IdleOK DEF Leased
  <2> HIDE DEF n
  <2>2. /\ View(d) \in Views /\ OK(d, View(d))
        /\ SameDisk(View(d), View(d)') /\ SameVersion(View(d), View(d)')
        /\ View(d).p = proc[w] /\ View(d)'.p = Idle /\ View(d).j = journal[d]
        /\ OK(d, View(d)') => IInv'
    BY <1>1, <1>2, <1>4, <1>7, <2>1, IdleOK, RunStep
  <2> QED
    BY <1>5, <2>2, IdleOK, Loose
<1> QED
  BY <1>1, <1>6, <1>7

LEMMA MarkKeeps ==
    ASSUME IInv, NEW w \in Procs, Mark(w)
    PROVE  IInv'
<1>1. /\ proc[w].pc = "mark"
      /\ UNCHANGED <<file, backup, saved, journal, dlock, clock, reported, faults>>
  BY DEF Mark, At
<1>2. proc[w] \in Processes /\ ProcOK(proc[w])
  BY DEF IInv, TypeOK
<1>3. proc[w].ds = None /\ clock # w /\ proc[w].why = "none" /\ w # None
  BY <1>1, <1>2, ProcsAssumption DEF ProcOK, CallersAt, Outside, IInv, LocksOK, Leased
<1>4. ASSUME NEW x \in proc[w].runs, clock = None, proc' = [proc EXCEPT ![w].runs = @ \ {x}],
             catalog' = IF IsAbandoned(x[1], x[2])
                        THEN [catalog EXCEPT !.run[x[1]][x[2]] = "FAILED"] ELSE catalog
      PROVE  IInv'
  <2> DEFINE q == [proc[w] EXCEPT !.runs = @ \ {x}]
  <2>1. x[1] \in Datasets /\ x[2] \in 1..MaxRuns /\ proc' = [proc EXCEPT ![w] = q]
    BY <1>2, <1>4 DEF Processes, IInv, TypeOK
  <2>2. q \in Processes /\ q.pc = "mark" /\ q.why = proc[w].why /\ q.ds = proc[w].ds
    BY <1>1, <1>2 DEF Processes
  <2> HIDE DEF q
  <2>3. ProcOK(q)
    BY <1>3, <2>2 DEF ProcOK, CallersAt, Outside, Running
  <2>4. Gets(w, q) /\ q.pc \notin Leased /\ proc[w].pc \notin Leased
    BY <1>1, <1>3, <1>4, <2>1, <2>2, <2>3 DEF Gets, FreeCatalog, Leased
  <2>5. CASE catalog' = catalog
    BY <1>1, <1>3, <2>2, <2>4, <2>5, DiskTyped, ApartStep
  <2>6. CASE IsAbandoned(x[1], x[2]) /\ catalog' = [catalog EXCEPT !.run[x[1]][x[2]] = "FAILED"]
    <3>1. dlock[x[1]] = None /\ "FAILED" \in RunStates
      BY <2>6 DEF IsAbandoned, RunStates
    <3>2. Locking(w, q, x[1]) /\ q.ds = None
      BY <1>1, <1>3, <2>2, <3>1 DEF Locking, Passes
    <3>3. /\ View(x[1]) \in Views /\ OK(x[1], View(x[1]))
          /\ SameDisk(View(x[1]), View(x[1])') /\ SameVersion(View(x[1]), View(x[1])')
          /\ View(x[1]).p = Idle /\ View(x[1])'.p = Idle
          /\ OK(x[1], View(x[1])') => IInv'
      BY <1>1, <1>4, <2>1, <2>4, <2>6, <3>1, <3>2, RunStep
    <3> QED
      BY <2>1, <3>3, IdleOK, Loose
  <2> QED
    BY <1>4, <2>5, <2>6
<1>5. CASE proc' = [proc EXCEPT ![w] = Idle] /\ UNCHANGED catalog
  <2>1. Gets(w, Idle)
    BY <1>1, <1>3, <1>5, IdleOK DEF Gets, FreeCatalog
  <2> QED
    BY <1>1, <1>3, <1>5, <2>1, IdleOK, DiskTyped, ApartStep
<1> QED
  BY <1>4, <1>5, Zenon DEF Mark

-----------------------------------------------------------------------------
(* The PREPARED journal *)

LEMMA PlanIs ==
    ASSUME IInv, NEW w \in Procs, NEW d \in Datasets, proc[w].ds = d, proc[w].pc = "fetch",
           clock = None
    PROVE  NewJournal(w) = Planned(d, View(d))
<1>1. Cat = catalog
  BY CatIsBefore
<1>2. View(d).p = proc[w] /\ View(d).file = file[d] /\ View(d).data = catalog.data[d]
  BY <1>1, ViewBefore
<1> QED
  BY <1>2 DEF NewJournal, Planned, Ds

\* It is written, and its executor goes to pc.
LEMMA JournalWritten ==
    ASSUME IInv, NEW w \in Procs, At(w, "fetch"), NEW d \in Datasets, proc[w].ds = d,
           clock = None, journal' = [journal EXCEPT ![d] = NewJournal(w)],
           UNCHANGED <<file, backup, catalog, saved, dlock, reported>>, faults' \in 0..MaxFaults,
           \/ Go(w, "failRun") /\ UNCHANGED clock
           \/ GoTodo(w, "aside", NewJournal(w).months) /\ clock' = w
    PROVE  IInv'
<1> DEFINE q == proc'[w]
           j == Planned(d, View(d))
<1>1. /\ proc[w].pc = "fetch" /\ proc[w].pc \notin Outside /\ ProcOK(proc[w]) /\ w # None
      /\ proc[w] \in Processes
  BY InHand, ProcsAssumption DEF At, Outside
<1>2. /\ proc[w].why = "ingest" /\ proc[w].run # 0 /\ proc[w].chunk # None
      /\ DatasetOf[proc[w].chunk] = d
  BY <1>1 DEF ProcOK, CallersAt, Outside, Running
<1>3. NewJournal(w) = j
  BY <1>1, PlanIs
<1>4. /\ View(d) \in Views /\ OK(d, View(d)) /\ View(d).p = proc[w]
  BY ViewBefore
<1>5. j \in Journals
  BY <1>1, <1>2, <1>4, PlanFits
<1>6. j.months \in SUBSET Months
  BY <1>5 DEF Journals
<1>7. DiskOf(d) /\ journal'[d] = j
  BY <1>3, <1>5, DiskTyped DEF DiskOf
<1> HIDE DEF j
<1>8. /\ Gets(w, q) /\ Keeps(w, q, d) /\ Locking(w, q, d) /\ q.pc \in {"failRun", "aside"}
      /\ q.ds = d /\ q.why = proc[w].why /\ q.chunk = proc[w].chunk /\ q.run = proc[w].run
      /\ q.pc = "aside" => q.todo = j.months
  <2>1. CASE Go(w, "failRun") /\ UNCHANGED clock
    <3>1. /\ "failRun" \in Points /\ "failRun" \notin Outside /\ "failRun" \notin Leased
          /\ proc[w].why \in CallersAt("failRun") /\ clock' = FreeCatalog(w)
      BY <1>1, <1>2, <2>1 DEF Points, Outside, Leased, CallersAt, FreeCatalog
    <3>2. /\ Gets(w, q) /\ Keeps(w, q, d) /\ Locking(w, q, d) /\ q.pc = "failRun"
          /\ q.ds = d /\ q.why = proc[w].why /\ q.chunk = proc[w].chunk /\ q.run = proc[w].run
      BY <1>1, <1>2, <1>6, <2>1, <3>1, GoStays DEF Ds
    <3> QED
      BY <3>2
  <2>2. CASE GoTodo(w, "aside", NewJournal(w).months) /\ clock' = w
    <3>1. /\ "aside" \in Points /\ "aside" \notin Outside /\ "aside" \in Leased
          /\ proc[w].why \in CallersAt("aside")
      BY <1>2 DEF Points, Outside, Leased, CallersAt
    <3>2. GoTodo(w, "aside", j.months)
      BY <1>3, <2>2
    <3>3. /\ Gets(w, q) /\ Keeps(w, q, d) /\ Locking(w, q, d) /\ q.pc = "aside"
          /\ q.ds = d /\ q.why = proc[w].why /\ q.chunk = proc[w].chunk /\ q.run = proc[w].run
          /\ q.todo = j.months
      BY <1>1, <1>2, <1>6, <2>2, <3>1, <3>2, GoStays DEF Ds
    <3> QED
      BY <3>3
  <2> QED
    BY <2>1, <2>2
<1>9. Quiet(w, q, d)
  BY <1>1, <1>7, <1>8 DEF Quiet
<1>10. /\ View(d)'.file = file'[d] /\ View(d)'.backup = backup'[d]
       /\ View(d)'.saved = (saved'[d] # None) /\ View(d)'.j = journal'[d]
       /\ View(d).file = file[d] /\ View(d).backup = backup[d]
       /\ View(d).saved = (saved[d] # None)
       /\ SameVersion(View(d), View(d)') /\ View(d)'.run = View(d).run /\ View(d)'.p = q
  BY <1>8, <1>9, StayView
<1>11. OK(d, View(d)')
  <2>1. /\ View(d)'.file = View(d).file /\ View(d)'.backup = View(d).backup
        /\ View(d)'.saved = View(d).saved /\ View(d)'.j = Planned(d, View(d))
    BY <1>7, <1>10 DEF j
  <2>2. \/ Moves(View(d), View(d)', "failRun")
        \/ Moves(View(d), View(d)', "aside") /\ View(d)'.p.todo = Planned(d, View(d)).months
    BY <1>4, <1>8, <1>10 DEF Moves, j
  <2> QED
    BY <1>1, <1>2, <1>4, <1>10, <2>1, <2>2, PlanWritten
<1> QED
  BY <1>7, <1>8, <1>9, <1>11, QuietKeeps, ReportedAsItIs

LEMMA PrepareKeeps ==
    ASSUME IInv, NEW w \in Procs, Prepare(w), NEW d \in Datasets, proc[w].ds = d
    PROVE  IInv'
<1>1. /\ At(w, "fetch") /\ clock = None /\ clock' = w
      /\ journal' = [journal EXCEPT ![d] = NewJournal(w)]
      /\ GoTodo(w, "aside", NewJournal(w).months)
      /\ UNCHANGED <<file, backup, catalog, saved, dlock, reported, faults>>
  BY DEF Prepare, Ds
<1> QED
  BY <1>1, DiskTyped, JournalWritten

-----------------------------------------------------------------------------
(* Crashes and failed operations *)

LEMMA CrashKeeps ==
    ASSUME IInv, NEW w \in Procs, Crash(w), RollbackUndisturbed
    PROVE  IInv'
<1>1. /\ Leave(w) /\ faults' = faults + 1 /\ faults < MaxFaults
      /\ UNCHANGED <<file, backup, catalog, saved, journal, reported>>
      /\ proc[w].why # "rollback" \/ proc[w].pc = "failRun"
  BY DEF Crash, disk, RollbackUndisturbed, At
<1>2. faults' \in 0..MaxFaults
  BY <1>1, DiskTyped, BoundsAssumption
<1>3. Gets(w, Idle) /\ Locking(w, Idle, proc[w].ds) /\ dlock' = Free(w, dlock)
  BY <1>1, LeaveGets DEF Leave
<1>4. CASE proc[w].ds = None
  BY <1>1, <1>2, <1>3, <1>4, IdleOK, ApartStep
<1>5. CASE proc[w].ds # None
  <2> DEFINE d == proc[w].ds
  <2>1. d \in Datasets /\ d # None
    BY <1>5 DEF IInv, TypeOK, Processes
  <2>2. proc[w].pc # "rollbackRestore"
    BY <1>1 DEF IInv, ProcOK, CallersAt, Outside
  <2>3. proc[w].why = "rollback" => journal[d] = None
    <3>1. OK(d, View(d)) /\ View(d).p = proc[w] /\ View(d).j = journal[d]
      BY <2>1, ViewBefore
    <3> QED
      BY <1>1, <3>1 DEF OK, PointOK
  <2> HIDE DEF d
  <2>4. Locking(w, Idle, d)
    BY <1>3 DEF d
  <2> QED
    BY <1>1, <1>2, <1>3, <2>1, <2>2, <2>3, <2>4, IdleOK, LooseStep
<1> QED
  BY <1>4, <1>5

LEMMA DeferredKeeps ==
    ASSUME IInv, NEW w \in Procs, proc[w].why = "finalize", Report(w), Leave(w),
           UNCHANGED <<file, backup, catalog, saved, journal>>, faults' \in 0..MaxFaults,
           NEW d \in Datasets, proc[w].ds = d
    PROVE  IInv'
<1>1. /\ proc[w].pc \notin Outside /\ proc[w].pc # "rollbackRestore" /\ d # None
      /\ ProcOK(proc[w]) /\ proc[w] \in Processes
  BY ProcsAssumption DEF IInv, TypeOK, ProcOK, CallersAt, Outside
<1>2. proc[w].chunk \in Chunks /\ DatasetOf[proc[w].chunk] = d
  BY <1>1 DEF ProcOK, Processes
<1>3. reported' = reported \cup {proc[w].chunk}
  BY DEF Report
<1>4. ReportedOf(d) /\ DiskOf(d)
  BY <1>2, <1>3, DiskTyped, DiskAsItIs DEF ReportedOf, Of
<1>5. Gets(w, Idle) /\ Locking(w, Idle, d)
  BY LeaveGets
<1>6. Quiet(w, Idle, d)
  BY <1>1, <1>4, <1>5, IdleOK DEF Quiet
<1>7. /\ View(d) \in Views /\ OK(d, View(d)) /\ View(d).p = proc[w]
      /\ View(d).file = file[d] /\ View(d).backup = backup[d] /\ View(d).j = journal[d]
      /\ View(d).saved = (saved[d] # None) /\ View(d).reported = Of(reported, d)
  BY ViewBefore
<1>8. /\ View(d)'.file = file'[d] /\ View(d)'.backup = backup'[d] /\ View(d)'.j = journal'[d]
      /\ View(d)'.saved = (saved'[d] # None) /\ View(d)'.reported = Of(reported', d)
      /\ View(d)'.p = Idle
  BY <1>5, IdleOK, ViewAfter
<1>9. View(d)'.data = View(d).data /\ View(d)'.receipts = View(d).receipts
  BY <1>6, QuietView
<1>10. OK(d, View(d)')
  <2>1. Of(reported', d) = Of(reported, d) \cup {proc[w].chunk}
    BY <1>2, <1>3 DEF Of
  <2>2. SameDisk(View(d), View(d)') /\ View(d)'.reported = View(d).reported \cup {View(d).p.chunk}
    BY <1>7, <1>8, <2>1 DEF SameDisk
  <2> QED
    BY <1>7, <1>8, <1>9, <2>2, IdleOK, CleanupDeferred
<1> QED
  BY <1>4, <1>6, <1>10, IdleOK, QuietKeeps

LEMMA StorageFailsKeeps ==
    ASSUME IInv, NEW w \in Procs, StorageFails(w), RollbackUndisturbed
    PROVE  IInv'
<1> DEFINE d == proc[w].ds
           m == Least(proc[w].todo)
           Rolls == proc' = [proc EXCEPT ![w].pc = "rollback", ![w].why = "rollback"]
<1>1. /\ faults' \in 0..MaxFaults /\ UNCHANGED <<catalog, saved>>
      /\ proc[w].why # "rollback" \/ At(w, "failRun")
  <2>1. /\ faults + FailureCost <= MaxFaults /\ faults' = faults + FailureCost
        /\ UNCHANGED <<catalog, saved>>
    BY Zenon DEF StorageFails
  <2>2. proc[w].why # "rollback" \/ At(w, "failRun")
    BY Zenon DEF RollbackUndisturbed
  <2> QED
    BY <2>1, <2>2, DiskTyped, BoundsAssumption
<1>2. \/ /\ At(w, "fetch") /\ clock = None
         /\ UNCHANGED journal \/ journal' = [journal EXCEPT ![d] = NewJournal(w)]
         /\ Go(w, "failRun") /\ UNCHANGED <<file, backup, dlock, clock, reported>>
      \/ /\ At(w, "promote") /\ Rolls
         /\ file' = [file EXCEPT ![d][m] = backup[d][m]]
         /\ backup' = [backup EXCEPT ![d][m] = {}]
         /\ UNCHANGED <<journal, dlock, clock, reported>>
      \/ /\ At(w, "catalog") /\ Rolls /\ UNCHANGED <<file, backup, journal, dlock, clock, reported>>
      \/ /\ At(w, "commit") /\ Rolls
         /\ UNCHANGED journal \/ journal' = [journal EXCEPT ![d].state = "COMMITTED"]
         /\ UNCHANGED <<file, backup, dlock, clock, reported>>
      \/ /\ proc[w].why = "finalize" /\ Report(w) /\ Leave(w)
         /\ UNCHANGED <<file, backup, journal>>
      \/ /\ proc[w].why \in {"ingest", "startup"} /\ proc[w].pc # "rollbackRestore"
         /\ Leave(w) /\ UNCHANGED <<file, backup, journal, reported>>
  BY <1>1 DEF StorageFails, Ds
<1> HIDE DEF Rolls
<1>3. d \in Datasets
  BY <1>2 DEF At, IInv, TypeOK, ProcOK, CallersAt, Outside, Processes
<1>4. CASE /\ At(w, "fetch") /\ clock = None
           /\ UNCHANGED journal \/ journal' = [journal EXCEPT ![d] = NewJournal(w)]
           /\ Go(w, "failRun") /\ UNCHANGED <<file, backup, dlock, clock, reported>>
  BY <1>1, <1>3, <1>4, FetchFailsKeeps, JournalWritten
<1>5. CASE /\ At(w, "promote") /\ Rolls
           /\ file' = [file EXCEPT ![d][m] = backup[d][m]]
           /\ backup' = [backup EXCEPT ![d][m] = {}]
           /\ UNCHANGED <<journal, dlock, clock, reported>>
  BY <1>1, <1>3, <1>5, PromoteFailsKeeps DEF Rolls
<1>6. CASE /\ At(w, "catalog") /\ Rolls /\ UNCHANGED <<file, backup, journal, dlock, clock, reported>>
  BY <1>1, <1>3, <1>6, CatalogFailsKeeps DEF Rolls
<1>7. CASE /\ At(w, "commit") /\ Rolls
           /\ UNCHANGED journal \/ journal' = [journal EXCEPT ![d].state = "COMMITTED"]
           /\ UNCHANGED <<file, backup, dlock, clock, reported>>
  BY <1>1, <1>3, <1>7, CommitFailsKeeps DEF Rolls
<1>8. CASE /\ proc[w].why = "finalize" /\ Report(w) /\ Leave(w)
           /\ UNCHANGED <<file, backup, journal>>
  BY <1>1, <1>3, <1>8, DeferredKeeps
<1>9. CASE /\ proc[w].why \in {"ingest", "startup"} /\ proc[w].pc # "rollbackRestore"
           /\ Leave(w) /\ UNCHANGED <<file, backup, journal, reported>>
  <2>1. Gets(w, Idle) /\ Locking(w, Idle, d) /\ d # None
    BY <1>3, <1>9, LeaveGets, ProcsAssumption
  <2> QED
    BY <1>1, <1>3, <1>9, <2>1, IdleOK, LooseStep
<1> QED
  BY <1>2, <1>4, <1>5, <1>6, <1>7, <1>8, <1>9

-----------------------------------------------------------------------------
(* The invariant holds *)

LEMMA InitOK ==
    ASSUME Init
    PROVE  IInv
<1>1. proc = [w \in Procs |-> Idle] /\ \A w \in Procs : proc[w] = Idle
  BY DEF Init
<1>2. /\ file = [d \in Datasets |-> [m \in Months |-> {}]] /\ backup = file
      /\ catalog = EmptyCatalog /\ saved = [d \in Datasets |-> None]
      /\ journal = [d \in Datasets |-> None] /\ dlock = [d \in Datasets |-> None]
      /\ clock = None /\ reported = {} /\ faults = 0
  BY DEF Init
<1>3. TypeOK
  BY <1>1, <1>2, IdleOK, EmptyTyped, BoundsAssumption DEF TypeOK
<1>4. \A w \in Procs : ProcOK(proc[w]) /\ BackupOK(w)
  BY <1>1, IdleOK DEF BackupOK
<1>5. LocksOK
  BY <1>1, <1>2, IdleOK, ProcsAssumption DEF LocksOK
<1>6. ASSUME NEW d \in Datasets
      PROVE  VersionOK(d, View(d)) /\ PointOK(View(d))
  <2>1. Cat = EmptyCatalog
    BY <1>2 DEF Cat, Restoring
  <2>2. Cat.data[d] = {} /\ Cat.receipts = {}
    BY <2>1 DEF EmptyCatalog
  <2>3. /\ View(d).j = None /\ ~View(d).saved /\ View(d).data = {} /\ View(d).receipts = {}
        /\ View(d).reported = {} /\ View(d).p = Idle
        /\ \A m \in Months : View(d).file[m] = {} /\ View(d).backup[m] = {}
    BY <1>2, <2>2 DEF View, Of, Holder
  <2>4. VersionOK(d, View(d))
    BY <2>3 DEF VersionOK, Whole, In
  <2>5. PointOK(View(d))
    BY <2>3 DEF PointOK, Idle
  <2> QED
    BY <2>4, <2>5
<1> QED
  BY <1>3, <1>4, <1>5, <1>6 DEF IInv

LEMMA StepOK ==
    ASSUME IInv, NEW w \in Procs, Step(w)
    PROVE  IInv'
<1>1. ASSUME proc[w].pc \notin Outside
      PROVE  proc[w].ds \in Datasets
  BY <1>1, InHand
<1>2. CASE Recover(w)
  <2>1. proc[w].pc \notin Outside
    BY <1>2 DEF Recover, At, Outside
  <2> QED
    BY <1>1, <1>2, <2>1, RecoverKeeps
<1>3. CASE Undo(w)
  <2>1. proc[w].pc \notin Outside
    BY <1>3 DEF Undo, At, Outside
  <2> QED
    BY <1>1, <1>3, <2>1, UndoKeeps
<1>4. CASE Restore(w)
  <2>1. proc[w].pc \notin Outside
    BY <1>4 DEF Restore, At, Outside
  <2> QED
    BY <1>1, <1>4, <2>1, RestoreKeeps
<1>5. CASE Clean(w)
  <2>1. proc[w].pc \notin Outside
    BY <1>5 DEF Clean, At, Outside
  <2> QED
    BY <1>1, <1>5, <2>1, CleanKeeps
<1>6. CASE DropBackup(w)
  <2>1. proc[w].pc \notin Outside
    BY <1>6 DEF DropBackup, At, Outside
  <2> QED
    BY <1>1, <1>6, <2>1, DropBackupKeeps
<1>7. CASE DropJournal(w)
  <2>1. proc[w].pc \notin Outside
    BY <1>7 DEF DropJournal, At, Outside
  <2> QED
    BY <1>1, <1>7, <2>1, DropJournalKeeps
<1>8. CASE Read(w)
  <2>1. proc[w].pc \notin Outside
    BY <1>8 DEF Read, At, Outside
  <2> QED
    BY <1>1, <1>8, <2>1, ReadKeeps
<1>9. CASE StartRun(w)
  <2>1. proc[w].pc \notin Outside
    BY <1>9 DEF StartRun, At, Outside
  <2> QED
    BY <1>1, <1>9, <2>1, StartRunKeeps
<1>10. CASE FetchFails(w)
  <2>1. proc[w].pc \notin Outside
    BY <1>10 DEF FetchFails, At, Outside
  <2> QED
    BY <1>1, <1>10, <2>1, FetchFailsKeeps, DiskTyped DEF FetchFails, disk
<1>11. CASE Prepare(w)
  <2>1. proc[w].pc \notin Outside
    BY <1>11 DEF Prepare, At, Outside
  <2> QED
    BY <1>1, <1>11, <2>1, PrepareKeeps
<1>12. CASE Aside(w)
  <2>1. proc[w].pc \notin Outside
    BY <1>12 DEF Aside, At, Outside
  <2> QED
    BY <1>1, <1>12, <2>1, AsideKeeps
<1>13. CASE Promote(w)
  <2>1. proc[w].pc \notin Outside
    BY <1>13 DEF Promote, At, Outside
  <2> QED
    BY <1>1, <1>13, <2>1, PromoteKeeps
<1>14. CASE PromoteCatalog(w)
  <2>1. proc[w].pc \notin Outside
    BY <1>14 DEF PromoteCatalog, At, Outside
  <2> QED
    BY <1>1, <1>14, <2>1, PromoteCatalogKeeps
<1>15. CASE Commit(w)
  <2>1. proc[w].pc \notin Outside
    BY <1>15 DEF Commit, At, Outside
  <2> QED
    BY <1>1, <1>15, <2>1, CommitKeeps
<1>16. CASE Rollback(w)
  <2>1. proc[w].pc \notin Outside
    BY <1>16 DEF Rollback, At, Outside
  <2> QED
    BY <1>1, <1>16, <2>1, RollbackKeeps
<1>17. CASE RollbackRestore(w)
  <2>1. proc[w].pc \notin Outside
    BY <1>17 DEF RollbackRestore, At, Outside
  <2> QED
    BY <1>1, <1>17, <2>1, RollbackRestoreKeeps
<1>18. CASE FailRun(w)
  <2>1. proc[w].pc \notin Outside
    BY <1>18 DEF FailRun, At, Outside
  <2> QED
    BY <1>1, <1>18, <2>1, FailRunKeeps
<1> QED
  BY <1>2, <1>3, <1>4, <1>5, <1>6, <1>7, <1>8, <1>9, <1>10, <1>11, <1>12, <1>13, <1>14, <1>15,
     <1>16, <1>17, <1>18, StartUpNextKeeps, SnapshotKeeps, MarkKeeps DEF Step

LEMMA StutterOK ==
    ASSUME IInv, UNCHANGED vars
    PROVE  IInv'
<1>1. UNCHANGED <<file, backup, catalog, saved, journal, dlock, clock, proc, reported, faults>>
  BY DEF vars
<1>2. \A d \in Datasets : View(d)' = View(d)
  BY <1>1 DEF View, Holder, Cat, Restoring, Of
<1>3. \A w \in Procs : BackupOK(w)' = BackupOK(w)
  BY <1>1 DEF BackupOK, Ds
<1>4. TypeOK' /\ LocksOK'
  BY <1>1 DEF IInv, TypeOK, LocksOK
<1> QED
  BY <1>1, <1>2, <1>3, <1>4 DEF IInv

LEMMA NextOK ==
    ASSUME IInv, Next, RollbackUndisturbed
    PROVE  IInv'
  BY StepOK, StartUpKeeps, CrashKeeps, StorageFailsKeeps, BeginKeeps DEF Next

-----------------------------------------------------------------------------
(* What it says of the properties *)

LEMMA Covered ==
    ASSUME IInv
    PROVE  BackupsAreCovered
<1> SUFFICES ASSUME NEW d \in Datasets
             PROVE  /\ (saved[d] # None \/ \E m \in Months : backup[d][m] # {}) => journal[d] # None
                    /\ journal[d] # None =>
                         \A m \in Months : backup[d][m] # {} => m \in journal[d].months
  BY DEF BackupsAreCovered
<1>1. /\ VersionOK(d, View(d)) /\ View(d).j = journal[d] /\ View(d).backup = backup[d]
      /\ View(d).saved = (saved[d] # None)
  BY ViewBefore DEF OK
<1> QED
  BY <1>1 DEF VersionOK, Whole, Original

LEMMA Completes ==
    ASSUME IInv
    PROVE  CommittedRunCompletes
<1> SUFFICES ASSUME NEW w \in Procs
             PROVE  /\ proc[w].why = "finalize" => catalog.run[Ds(w)][proc[w].run] = "COMPLETED"
                    /\ proc[w].pc \in {"fetch", "aside", "promote", "catalog"} /\ clock \in {w, None} =>
                         catalog.run[Ds(w)][proc[w].run] = "RUNNING"
  BY DEF CommittedRunCompletes
<1>1. ASSUME proc[w].pc \notin Outside, proc[w].pc # "rollbackRestore", clock \in {w, None}
      PROVE  /\ PointOK(View(Ds(w))) /\ View(Ds(w)).p = proc[w]
             /\ View(Ds(w)).run = catalog.run[Ds(w)]
  BY <1>1, InHand, ViewBefore, CatIsBefore DEF OK
<1>2. proc[w].why = "finalize" =>
        proc[w].pc \notin Outside /\ proc[w].pc # "rollbackRestore" /\ clock = w
  BY DEF IInv, ProcOK, CallersAt, Outside, LocksOK, Leased
<1>3. proc[w].pc \in {"fetch", "aside", "promote", "catalog"} =>
        proc[w].pc \notin Outside /\ proc[w].pc # "rollbackRestore"
  BY DEF Outside
<1>4. proc[w].why = "finalize" => catalog.run[Ds(w)][proc[w].run] = "COMPLETED"
  BY <1>1, <1>2 DEF PointOK
<1>5. proc[w].pc \in {"fetch", "aside", "promote", "catalog"} /\ clock \in {w, None} =>
        catalog.run[Ds(w)][proc[w].run] = "RUNNING"
  BY <1>1, <1>3 DEF PointOK, Working
<1> QED
  BY <1>4, <1>5

\* The view of a reader.
LEMMA ReaderSees ==
    ASSUME IInv, NEW w \in Procs, NEW d \in Datasets, Reading(w, d)
    PROVE  /\ \A m \in Months : file[d][m] = In(catalog.data[d], m)
           /\ catalog.data[d] = Of(catalog.receipts, d) /\ Of(reported, d) \subseteq catalog.data[d]
<1>1. proc[w].pc = "ready" /\ proc[w].ds = d /\ clock = None
  BY DEF Reading, At, Ds
<1>2. Cat = catalog
  BY <1>1, CatIsBefore
<1>3. /\ OK(d, View(d)) /\ View(d).p = proc[w] /\ View(d).file = file[d] /\ View(d).j = journal[d]
      /\ View(d).data = catalog.data[d] /\ View(d).receipts = Of(catalog.receipts, d)
      /\ View(d).reported = Of(reported, d)
  BY <1>1, <1>2, ViewBefore
<1>4. View(d).j = None
  BY <1>1, <1>3 DEF OK, PointOK
<1> QED
  BY <1>3, <1>4 DEF OK, VersionOK, Whole

LEMMA OneVersion ==
    ASSUME IInv
    PROVE  ReadersSeeOneVersion
  BY ReaderSees DEF ReadersSeeOneVersion, In, Of

LEMMA Kept ==
    ASSUME IInv
    PROVE  ReportedIsKept
<1> SUFFICES ASSUME NEW w \in Procs, NEW d \in Datasets, Reading(w, d),
                    NEW c \in reported, DatasetOf[c] = d
             PROVE  c \in catalog.receipts /\ \A m \in MonthsOf[c] : c \in file[d][m]
  BY DEF ReportedIsKept
<1>1. c \in Chunks /\ MonthsOf[c] \subseteq Months
  BY DiskTyped, ChunksAssumption
<1>2. c \in catalog.data[d] /\ c \in catalog.receipts
  BY ReaderSees DEF Of
<1>3. \A m \in MonthsOf[c] : c \in file[d][m]
  BY <1>1, <1>2, ReaderSees DEF In
<1> QED
  BY <1>2, <1>3

-----------------------------------------------------------------------------
(* The theorems *)

LEMMA Invariance == Spec /\ [][RollbackUndisturbed]_vars => []IInv
<1>1. IInv /\ [Next]_vars /\ [RollbackUndisturbed]_vars => IInv'
  BY NextOK, StutterOK
<1> QED
  BY <1>1, InitOK, PTL DEF Spec

\* As long as no fault strikes a rollback, what every step of a transaction
\* leaves is what recover_dataset relies on: an original moved aside and the
\* backup of catalog.json are named by the journal of their dataset, and the run
\* of an executor is RUNNING until its catalog is promoted and COMPLETED once
\* its journal is COMMITTED.
THEOREM JournalAlwaysHolds == Spec /\ [][RollbackUndisturbed]_vars => []JournalInv
<1>1. IInv => JournalInv
  BY Covered, Completes DEF JournalInv, IInv
<1> QED
  BY <1>1, Invariance, PTL

\* As long as no fault strikes a rollback, whoever has recovered a dataset finds
\* in its partitions the candles of exactly the chunks of its version, and in
\* the catalog exactly their receipts, whatever was interrupted before.
THEOREM ReadersAlwaysSeeOneVersion ==
    Spec /\ [][RollbackUndisturbed]_vars => []ReadersSeeOneVersion
  BY OneVersion, Invariance, PTL

\* As long as no fault strikes a rollback, what execute returned for is never
\* lost: every recovered dataset has the receipts and the candles of the
\* ingestions that reported success.
THEOREM ReportedAlwaysKept == Spec /\ [][RollbackUndisturbed]_vars => []ReportedIsKept
  BY Kept, Invariance, PTL

-----------------------------------------------------------------------------
(* One failed operation, or any number of crashes *)

\* A process takes its transaction back after a failure only, and this failure
\* was the last fault.
LastFault == \A w \in Procs : proc[w].why = "rollback" => faults >= MaxFaults

\* Only a failed operation starts a rollback.
LEMMA OnlyFailuresRollBack ==
    ASSUME TypeOK, NEW w \in Procs, NEW v \in Procs,
           \/ Step(w) \/ StartUp(w) \/ Crash(w) \/ \E c \in Chunks : Begin(w, c)
           \/ StorageFails(w) /\ v # w
    PROVE  proc'[v].why = "rollback" => proc[v].why = "rollback"
<1>1. proc \in [Procs -> Processes] /\ Idle.why = "none"
  BY DEF TypeOK, Idle
<1>2. \A pc : Go(w, pc) => proc'[v].why = proc[v].why
  BY <1>1 DEF Go, Processes
<1>3. \A pc, todo : GoTodo(w, pc, todo) => proc'[v].why = proc[v].why
  BY <1>1 DEF GoTodo, Processes
<1>4. Leave(w) => proc'[v].why \in {"none", proc[v].why}
  BY <1>1 DEF Leave
<1>5. Recovered(w) => proc'[v].why \in {"none", proc[v].why}
  BY <1>1, <1>2 DEF Recovered, Processes
<1>6. CASE Recover(w)
  BY <1>3, <1>4, <1>5, <1>6 DEF Recover
<1>7. CASE Undo(w) \/ Restore(w) \/ Clean(w) \/ DropBackup(w)
  BY <1>2, <1>3, <1>7 DEF Undo, Restore, Clean, DropBackup
<1>8. CASE DropJournal(w)
  BY <1>2, <1>4, <1>5, <1>8 DEF DropJournal
<1>9. CASE Read(w) \/ FetchFails(w) \/ FailRun(w) \/ Crash(w)
  BY <1>2, <1>4, <1>9 DEF Read, FetchFails, FailRun, Crash
<1>10. CASE StartRun(w) \/ Snapshot(w) \/ StartUp(w)
  BY <1>1, <1>10 DEF StartRun, Snapshot, StartUp, Processes
<1>11. CASE Prepare(w) \/ Aside(w) \/ Promote(w) \/ PromoteCatalog(w)
  BY <1>2, <1>3, <1>11 DEF Prepare, Aside, Promote, PromoteCatalog
<1>12. CASE Commit(w)
  BY <1>1, <1>12 DEF Commit, Processes
<1>13. CASE Rollback(w) \/ RollbackRestore(w)
  BY <1>2, <1>3, <1>13 DEF Rollback, RollbackRestore
<1>14. CASE StartUpNext(w)
  <2>1. CASE Leave(w) \/ Go(w, "snapshot")
    BY <1>2, <1>4, <2>1
  <2>2. CASE \E e \in proc[w].pending :
               proc' = [proc EXCEPT ![w].pc = "recover", ![w].why = "startup",
                                    ![w].ds = e, ![w].pending = @ \ {e}]
    BY <1>1, <2>2 DEF Processes
  <2> QED
    BY <1>14, <2>1, <2>2, Zenon DEF StartUpNext
<1>15. CASE Mark(w)
  <2>1. CASE proc' = [proc EXCEPT ![w] = Idle]
    BY <1>1, <2>1
  <2>2. CASE \E x \in proc[w].runs : proc' = [proc EXCEPT ![w].runs = @ \ {x}]
    BY <1>1, <2>2 DEF Processes
  <2> QED
    BY <1>15, <2>1, <2>2, Zenon DEF Mark
<1>16. ASSUME NEW c \in Chunks, Begin(w, c)
       PROVE  proc'[v].why = "rollback" => proc[v].why = "rollback"
  <2> DEFINE q == [Idle EXCEPT !.pc = "recover", !.why = "ingest",
                               !.ds = DatasetOf[c], !.chunk = c]
  <2>1. proc' = [proc EXCEPT ![w] = q]
    BY <1>16, Zenon DEF Begin
  <2>2. q.why = "ingest"
    BY DEF Idle
  <2> HIDE DEF q
  <2> QED
    BY <1>1, <2>1, <2>2
<1>17. CASE StorageFails(w) /\ v # w
  <2>1. proc' = [proc EXCEPT ![w] = proc'[w]]
    BY <1>1, <1>17 DEF StorageFails, Go, Leave
  <2> QED
    BY <1>1, <1>17, <2>1
<1> QED
  BY <1>6, <1>7, <1>8, <1>9, <1>10, <1>11, <1>12, <1>13, <1>14, <1>15, <1>16, <1>17 DEF Step

LEMMA FaultsGrow ==
    ASSUME TypeOK, Next
    PROVE  faults' \in Nat /\ faults' >= faults
<1>1. faults \in Nat /\ FailureCost \in Nat
  BY BoundsAssumption DEF TypeOK
<1>2. PICK w \in Procs : \/ Step(w) \/ StartUp(w) \/ Crash(w) \/ StorageFails(w)
                        \/ \E c \in Chunks : Begin(w, c)
  BY DEF Next
<1>3. Step(w) => faults' = faults
  <2>1. Recover(w) \/ Undo(w) \/ Restore(w) \/ Clean(w) \/ DropBackup(w) \/ DropJournal(w)
          => faults' = faults
    BY Zenon DEF Recover, Undo, Restore, Clean, DropBackup, DropJournal
  <2>2. Read(w) \/ StartRun(w) \/ FetchFails(w) \/ Prepare(w) \/ Aside(w) \/ Promote(w)
          => faults' = faults
    BY Zenon DEF Read, StartRun, FetchFails, Prepare, Aside, Promote
  <2>3. PromoteCatalog(w) \/ Commit(w) \/ Rollback(w) \/ RollbackRestore(w) \/ FailRun(w)
          => faults' = faults
    BY Zenon DEF PromoteCatalog, Commit, Rollback, RollbackRestore, FailRun
  <2>4. StartUpNext(w) \/ Snapshot(w) \/ Mark(w) => faults' = faults
    BY Zenon DEF StartUpNext, Snapshot, Mark
  <2> QED
    BY <2>1, <2>2, <2>3, <2>4 DEF Step
<1>4. StartUp(w) \/ (\E c \in Chunks : Begin(w, c)) => faults' = faults
  BY Zenon DEF StartUp, Begin
<1>5. Crash(w) => faults' = faults + 1
  BY DEF Crash
<1>6. StorageFails(w) => faults' = faults + FailureCost
  BY Zenon DEF StorageFails
<1> QED
  BY <1>1, <1>2, <1>3, <1>4, <1>5, <1>6

LEMMA LastFaultKept ==
    ASSUME TypeOK, LastFault, Next, FailureCost >= MaxFaults
    PROVE  LastFault'
<1> SUFFICES ASSUME NEW v \in Procs, proc'[v].why = "rollback"
             PROVE  faults' >= MaxFaults
  BY DEF LastFault
<1>1. faults \in Nat /\ FailureCost \in Nat /\ MaxFaults \in Nat
  BY BoundsAssumption DEF TypeOK
<1>2. CASE StorageFails(v)
  <2>1. faults + FailureCost <= MaxFaults /\ faults' = faults + FailureCost
    BY <1>2, Zenon DEF StorageFails
  <2> QED
    BY <1>1, <2>1
<1>3. CASE ~StorageFails(v)
  <2>1. PICK w \in Procs : \/ Step(w) \/ StartUp(w) \/ Crash(w) \/ StorageFails(w)
                          \/ \E c \in Chunks : Begin(w, c)
    BY DEF Next
  <2>2. proc[v].why = "rollback"
    BY <1>3, <2>1, OnlyFailuresRollBack
  <2>3. faults >= MaxFaults /\ faults' \in Nat /\ faults' >= faults
    BY <2>2, FaultsGrow DEF LastFault
  <2> QED
    BY <1>1, <2>3
<1> QED
  BY <1>2, <1>3

LEMMA LastIsUndisturbed ==
    ASSUME TypeOK, LastFault, FailureCost > 0
    PROVE  RollbackUndisturbed
<1> SUFFICES ASSUME NEW w \in Procs, Crash(w) \/ StorageFails(w), proc[w].why = "rollback"
             PROVE  FALSE
  BY DEF RollbackUndisturbed
<1>1. faults \in Nat /\ FailureCost \in Nat /\ MaxFaults \in Nat /\ faults >= MaxFaults
  BY BoundsAssumption DEF TypeOK, LastFault
<1>2. Crash(w) => faults < MaxFaults
  BY DEF Crash
<1>3. StorageFails(w) => faults + FailureCost <= MaxFaults
  BY Zenon DEF StorageFails
<1> QED
  BY <1>1, <1>2, <1>3

\* What the fault bound of the run means: when a failed operation uses up all the
\* faults, no fault strikes a rollback, so the journal holds, a recovered
\* dataset is one version and what execute returned for is kept, after any
\* number of crashes or one failed operation.
THEOREM OneFailureIsHarmless ==
    ASSUME FailureCost > 0, FailureCost >= MaxFaults
    PROVE  Spec => [](JournalInv /\ ReadersSeeOneVersion /\ ReportedIsKept)
<1>1. Init => IInv /\ LastFault
  <2>1. Init => \A w \in Procs : proc[w].why = "none"
    BY DEF Init, Idle
  <2> QED
    BY <2>1, InitOK DEF LastFault
<1>2. IInv /\ LastFault /\ [Next]_vars => IInv' /\ LastFault'
  <2>1. IInv => TypeOK
    BY DEF IInv
  <2>2. UNCHANGED vars /\ LastFault => LastFault'
    BY DEF vars, LastFault
  <2> QED
    BY <2>1, <2>2, NextOK, StutterOK, LastFaultKept, LastIsUndisturbed
<1>3. IInv => JournalInv /\ ReadersSeeOneVersion /\ ReportedIsKept
  BY Covered, Completes, OneVersion, Kept DEF JournalInv, IInv
<1> QED
  BY <1>1, <1>2, <1>3, PTL DEF Spec

===============================================================================
