------------------------- MODULE DerivedDatasetsProofs -------------------------
(***************************************************************************)
(* What DerivedDatasets keeps, for any months, plans, processes and bounds.*)
(*                                                                         *)
(* A journal says how to find the last committed files again: an original  *)
(* is the backup where there is one, and else what is on disk, if anything *)
(* was.  No step of a transaction or of its recovery, interrupted wherever *)
(* it may be, changes the originals (JournalOK), and a process that has the*)
(* locks knows how far it came (CallOK), until the dataset is torn.  That a*)
(* COMPLETE dataset is current needs plans of whole months, and holds of a *)
(* torn one, too (Informed).                                               *)
(***************************************************************************)
EXTENDS DerivedDatasets, FiniteSetTheorems, SequenceTheorems, TLAPS

-----------------------------------------------------------------------------
(* The invariant *)

\* The manifests that no verification has found INVALID.
Undamaged == [src : [Cells -> Nat], sources : [Months -> Contents],
              parts : [Months -> Contents], state : {"COMPLETE", "STALE"}]

Disks == {d \in [Targets -> Contents \cup Undamaged \cup {None}] :
            /\ \A m \in Months : d[m] \in Contents
            /\ d[ManifestFile] \in Undamaged \cup {None}}

\* The manifest describes the partitions.
Complete(d) ==
    \A m \in Months : d[m] = IF d[ManifestFile] = None THEN None ELSE d[ManifestFile].parts[m]

\* The files are those of the last committed transaction; a verification may
\* have changed the state in the manifest since.
Agrees(d) == /\ \A m \in Months : d[m] = committed[m]
             /\ Same(d[ManifestFile], committed[ManifestFile])

\* What was there when the transaction of the journal began.
Originals == [t \in Targets |-> IF backup[t] # None THEN backup[t]
                                ELSE IF t \in journal.had THEN disk[t] ELSE None]

Artifacts == ToSet(journal.arts)
\* Nothing is left to undo of t.
Undoes(t) == backup[t] = None /\ (t \notin journal.had => disk[t] = None)

PreparedOK == /\ Agrees(Originals)
              /\ \A t \in Targets : backup[t] # None => t \in journal.had
              /\ \A t \in Targets \ Artifacts : Undoes(t)
CommittedOK == /\ Agrees(disk)
               /\ \A t \in Targets \ Artifacts : backup[t] = None
\* What a COMMITTED journal says is so. It is not while the process whose write
\* of it failed undoes the files.
Settled == journal # None /\ journal.state = "COMMITTED" => CommittedOK
JournalOK ==
    /\ journal = None => Agrees(disk) /\ \A t \in Targets : backup[t] = None
    /\ journal # None /\ journal.state = "PREPARED" => PreparedOK
    /\ lock = None => Settled

FreePoints == {"IDLE", "FOUND", "READY", "PLANNED"}
FilePoints == {"UNDO", "CLEAN", "PROMOTE"}
QuietPoints == {"OPEN", "VERIFIED", "STAGED"}
\* What is still to be done, of the artifacts of the journal.
Todo(p) == ToSet(call[p].todo)

\* The plan, where the process still needs it.
HasPlan(p) == \/ call[p].at \in {"PLANNED", "OPEN"}
              \/ call[p].at \in {"UNDO", "CLEAN"} /\ call[p].next = "OPEN"
\* The files a transaction is about to promote are a dataset, and what is not
\* to be promoted any more is there.
NewOK(n, todo) == /\ n \in Disks /\ n[ManifestFile] # None /\ Complete(n)
                  /\ \A t \in Targets \ todo : disk[t] = n[t]

\* A process that has planned, or that recovers, has all of its state.
IsCall(r) == DOMAIN r = DOMAIN Fresh

CallOK(p) ==
    /\ call[p].at \notin {"IDLE", "FOUND"} => IsCall(call[p])
    /\ call[p].at \in FreePoints \cup FilePoints \cup QuietPoints
    /\ call[p].at \in FilePoints \cup QuietPoints <=> lock = p
    /\ HasPlan(p) => call[p].range \in Ranges
    /\ call[p].at \in FilePoints =>
         journal # None /\ call[p].todo \in Seq(Targets) /\ Todo(p) \subseteq Artifacts
    /\ call[p].at = "PROMOTE" => journal.state = "PREPARED"
    /\ call[p].at = "UNDO" => PreparedOK
    /\ call[p].at = "CLEAN" => journal.state = "COMMITTED" /\ CommittedOK
    /\ call[p].at = "UNDO" => \A t \in Artifacts \ Todo(p) : Undoes(t)
    /\ call[p].at = "CLEAN" => \A t \in Artifacts \ Todo(p) : backup[t] = None
    /\ call[p].at = "PROMOTE" => NewOK(call[p].new, Todo(p)) /\ call[p].next = "OVER"
    /\ call[p].at \in QuietPoints => journal = None

DataOK == /\ raw \in [Cells -> Nat]
          /\ disk \in Disks /\ backup \in Disks /\ committed \in Disks
          /\ Complete(committed)
          /\ journal \in Journals \cup {None}
          /\ runs \in Nat
          /\ lock \in Procs \cup {None}
          /\ call = [p \in Procs |-> call[p]]

IInv == DataOK /\ JournalOK /\ \A p \in Procs : CallOK(p)

-----------------------------------------------------------------------------
(* Sequences *)

\* The elements of a sequence: backwards, without the first, with one more.
LEMMA ReverseElements ==
    ASSUME NEW S, NEW s \in Seq(S)
    PROVE  Reverse(s) \in Seq(S) /\ ToSet(Reverse(s)) = ToSet(s)
<1>1. Len(s) \in Nat /\ s \in [1..Len(s) -> S] /\ DOMAIN s = 1..Len(s)
  BY LenProperties, ElementOfSeq
<1>2. Reverse(s) \in [1..Len(s) -> S] /\ DOMAIN Reverse(s) = 1..Len(s)
  BY <1>1 DEF Reverse
<1>3. Reverse(s) \in Seq(S)
  BY <1>1, <1>2, IsASeq DEF Reverse
<1>4. ASSUME NEW x \in ToSet(s) PROVE x \in ToSet(Reverse(s))
  <2>1. PICK i \in 1..Len(s) : s[i] = x
    BY <1>1, <1>4 DEF ToSet
  <2>2. /\ Len(s) - i + 1 \in 1..Len(s)
        /\ Len(s) - (Len(s) - i + 1) + 1 = i
    BY <1>1
  <2>3. Reverse(s)[Len(s) - i + 1] = x
    BY <1>1, <2>1, <2>2 DEF Reverse
  <2> QED BY <1>2, <2>2, <2>3 DEF ToSet
<1>5. ASSUME NEW x \in ToSet(Reverse(s)) PROVE x \in ToSet(s)
  <2>1. PICK i \in 1..Len(s) : Reverse(s)[i] = x
    BY <1>2, <1>5 DEF ToSet
  <2>2. Len(s) - i + 1 \in 1..Len(s)
    BY <1>1
  <2>3. s[Len(s) - i + 1] = x
    BY <1>1, <2>1 DEF Reverse
  <2> QED BY <1>1, <2>2, <2>3 DEF ToSet
<1> QED BY <1>3, <1>4, <1>5

LEMMA TailElements ==
    ASSUME NEW S, NEW s \in Seq(S), s # <<>>
    PROVE  /\ Head(s) \in S /\ Head(s) \in ToSet(s) /\ Tail(s) \in Seq(S)
           /\ ToSet(Tail(s)) \subseteq ToSet(s)
           /\ ToSet(s) = ToSet(Tail(s)) \cup {Head(s)}
<1>1. /\ Len(s) \in Nat /\ Len(s) > 0 /\ DOMAIN s = 1..Len(s)
      /\ Head(s) \in S /\ Tail(s) \in Seq(S) /\ Len(Tail(s)) = Len(s) - 1
      /\ DOMAIN Tail(s) = 1..Len(Tail(s)) /\ Head(s) = s[1]
      /\ \A i \in 1..Len(Tail(s)) : Tail(s)[i] = s[i + 1]
  BY HeadTailProperties, LenProperties, EmptySeq
<1>2. ASSUME NEW x \in ToSet(Tail(s)) PROVE x \in ToSet(s)
  <2>1. PICK i \in 1..Len(Tail(s)) : Tail(s)[i] = x
    BY <1>1, <1>2 DEF ToSet
  <2>2. i + 1 \in 1..Len(s) /\ s[i + 1] = x
    BY <1>1, <2>1
  <2> QED BY <1>1, <2>2 DEF ToSet
<1>3. ASSUME NEW x \in ToSet(s) PROVE x \in ToSet(Tail(s)) \cup {Head(s)}
  <2>1. PICK i \in 1..Len(s) : s[i] = x
    BY <1>1, <1>3 DEF ToSet
  <2>2. CASE i = 1
    BY <1>1, <2>1, <2>2
  <2>3. CASE i # 1
    <3>1. i - 1 \in 1..Len(Tail(s)) /\ Tail(s)[i - 1] = x
      BY <1>1, <2>1, <2>3
    <3> QED BY <1>1, <3>1 DEF ToSet
  <2> QED BY <2>2, <2>3
<1>4. Head(s) \in ToSet(s)
  <2>1. 1 \in DOMAIN s
    BY <1>1
  <2> QED BY <1>1, <2>1 DEF ToSet
<1> QED BY <1>1, <1>2, <1>3, <1>4

LEMMA ElementsIn ==
    ASSUME NEW S, NEW s \in Seq(S)
    PROVE  ToSet(s) \subseteq S
BY LenProperties, ElementOfSeq DEF ToSet

LEMMA EmptyElements == ToSet(<<>>) = {}
BY DEF ToSet

LEMMA LastElements ==
    ASSUME NEW S, NEW s \in Seq(S), NEW e \in S
    PROVE  s \o <<e>> \in Seq(S) /\ ToSet(s \o <<e>>) = ToSet(s) \cup {e}
<1>1. <<e>> \in Seq(S) /\ Len(<<e>>) = 1 /\ <<e>>[1] = e
  OBVIOUS
<1>2. Len(s) \in Nat /\ DOMAIN s = 1..Len(s)
  BY LenProperties
<1>3. /\ s \o <<e>> \in Seq(S) /\ Len(s \o <<e>>) = Len(s) + 1
      /\ \A i \in 1..Len(s) : (s \o <<e>>)[i] = s[i]
      /\ (s \o <<e>>)[Len(s) + 1] = e
      /\ DOMAIN (s \o <<e>>) = 1..(Len(s) + 1)
  BY <1>1, <1>2
<1> DEFINE z == s \o <<e>>
<1>4. ASSUME NEW x \in ToSet(z) PROVE x \in ToSet(s) \cup {e}
  <2>1. PICK i \in 1..(Len(s) + 1) : z[i] = x
    BY <1>3, <1>4 DEF ToSet
  <2>2. CASE i = Len(s) + 1
    BY <1>3, <2>1, <2>2
  <2>3. CASE i # Len(s) + 1
    <3>1. i \in 1..Len(s) /\ s[i] = x
      BY <1>2, <1>3, <2>1, <2>3
    <3> QED BY <1>2, <3>1 DEF ToSet
  <2> QED BY <2>2, <2>3
<1>5. ASSUME NEW x \in ToSet(s) PROVE x \in ToSet(z)
  <2>1. PICK i \in 1..Len(s) : s[i] = x
    BY <1>2, <1>5 DEF ToSet
  <2>2. i \in DOMAIN z /\ z[i] = x
    BY <1>2, <1>3, <2>1
  <2> QED BY <2>2 DEF ToSet
<1>6. e \in ToSet(z)
  <2>1. Len(s) + 1 \in DOMAIN z /\ z[Len(s) + 1] = e
    BY <1>2, <1>3
  <2> QED BY <2>1 DEF ToSet
<1> QED BY <1>3, <1>4, <1>5, <1>6

\* The number of elements up to m is the place of m in the order.
LEMMA OrderExists ==
    ASSUME NEW S \in SUBSET Nat, IsFiniteSet(S)
    PROVE  \E s \in [1..Cardinality(S) -> S] : \A i, j \in DOMAIN s : i < j => s[i] < s[j]
<1> DEFINE n == Cardinality(S)
           Below(m) == {k \in S : k <= m}
           rank == [m \in S |-> Cardinality(Below(m))]
<1>1. n \in Nat
  BY FS_CardinalityType
<1>2. \A m \in S : /\ IsFiniteSet(Below(m)) /\ Cardinality(Below(m)) \in Nat
                   /\ Cardinality(Below(m)) <= n /\ Cardinality(Below(m)) # 0
  <2> TAKE m \in S
  <2>1. Below(m) \in SUBSET S /\ m \in Below(m)
    OBVIOUS
  <2>2. IsFiniteSet(Below(m)) /\ Cardinality(Below(m)) <= n
    BY <2>1, FS_Subset
  <2> QED BY <2>1, <2>2, FS_EmptySet, FS_CardinalityType
<1>3. rank \in [S -> 1..n]
  BY <1>1, <1>2
<1>4. ASSUME NEW a \in S, NEW b \in S, a < b PROVE rank[a] < rank[b]
  <2>1. Below(a) \in SUBSET Below(b) /\ b \in Below(b) /\ b \notin Below(a)
    <3>1. a \in Nat /\ b \in Nat /\ \A k \in S : k \in Nat
      OBVIOUS
    <3>2. \A k \in S : k <= a => k <= b
      BY <1>4, <3>1
    <3>3. b <= b /\ ~(b <= a)
      BY <1>4, <3>1
    <3> QED BY <3>2, <3>3
  <2>2. /\ Cardinality(Below(a)) <= Cardinality(Below(b))
        /\ Cardinality(Below(a)) # Cardinality(Below(b))
    BY <1>2, <2>1, FS_Subset
  <2> QED BY <1>2, <2>2
<1>5. rank \in Injection(S, 1..n)
  <2>1. ASSUME NEW a \in S, NEW b \in S, a # b PROVE rank[a] # rank[b]
    <3>1. CASE a < b
      BY <1>3, <1>4, <3>1
    <3>2. CASE b < a
      BY <1>3, <1>4, <3>2
    <3> QED BY <2>1, <3>1, <3>2
  <2> QED BY <1>3, <2>1 DEF Injection, IsInjective
<1>6. IsFiniteSet(1..n) /\ Cardinality(1..n) = n
  BY <1>1, FS_Interval
<1>7. rank \in Surjection(S, 1..n)
  BY <1>5, <1>6, FS_Injection
<1>8. \A i \in 1..n : \E m \in S : rank[m] = i
  BY <1>7 DEF Surjection
<1> DEFINE s == [i \in 1..n |-> CHOOSE m \in S : rank[m] = i]
<1>9. \A i \in 1..n : s[i] \in S /\ rank[s[i]] = i
  BY <1>8
<1>10. s \in [1..n -> S] /\ DOMAIN s = 1..n
  BY <1>9
<1>11. ASSUME NEW i \in 1..n, NEW j \in 1..n, i < j PROVE s[i] < s[j]
  <2>1. s[i] \in S /\ s[j] \in S /\ rank[s[i]] = i /\ rank[s[j]] = j
    BY <1>9
  <2>2. s[i] # s[j]
    <3>1. i # j
      BY <1>1, <1>11
    <3> HIDE DEF s, rank
    <3> QED BY <2>1, <3>1
  <2>3. ASSUME s[j] < s[i] PROVE FALSE
    <3>1. j < i
      BY <1>4, <2>1, <2>3
    <3> QED BY <1>1, <1>11, <3>1
  <2>4. s[i] \in Nat /\ s[j] \in Nat
    BY <2>1
  <2> HIDE DEF s
  <2> QED BY <2>2, <2>3, <2>4
<1> QED BY <1>10, <1>11

LEMMA InOrderElements ==
    ASSUME NEW S \in SUBSET Nat, IsFiniteSet(S)
    PROVE  InOrder(S) \in Seq(S) /\ ToSet(InOrder(S)) = S
<1> DEFINE n == Cardinality(S)
<1>1. PICK s : s = InOrder(S)
  OBVIOUS
<1>2. s \in [1..n -> S] /\ \A i, j \in DOMAIN s : i < j => s[i] < s[j]
  BY <1>1, OrderExists DEF InOrder
<1>3. n \in Nat
  BY FS_CardinalityType
<1>4. IsFiniteSet(1..n) /\ Cardinality(1..n) = n
  BY <1>3, FS_Interval
<1>5. DOMAIN s = 1..n /\ \A i \in 1..n : s[i] \in Nat
  BY <1>2
<1>6. s \in Injection(1..n, S)
  <2>1. ASSUME NEW i \in 1..n, NEW j \in 1..n, i # j PROVE s[i] # s[j]
    <3>1. i < j \/ j < i
      BY <2>1
    <3> QED BY <1>2, <1>5, <3>1
  <2> QED BY <1>2, <2>1 DEF Injection, IsInjective
<1>7. s \in Surjection(1..n, S)
  BY <1>4, <1>6, FS_Injection
<1>8. \A m \in S : \E i \in 1..n : s[i] = m
  BY <1>7 DEF Surjection
<1>9. ToSet(s) = S
  BY <1>2, <1>5, <1>8 DEF ToSet
<1>10. s \in Seq(S)
  BY <1>2, <1>3, SeqDef
<1> QED BY <1>1, <1>9, <1>10

-----------------------------------------------------------------------------
(* The state *)

LEMMA ZeroIsNoMonth == ManifestFile \notin Months /\ ManifestFile \in Targets /\ Months \subseteq Targets
BY MonthsAssumption DEF ManifestFile, Targets

LEMMA NoneIsNothing ==
    /\ None \notin Procs /\ None \notin Undamaged /\ None \notin Journals
    /\ None \in Contents
BY NoneAssumption DEF Contents, Manifests, Undamaged

\* Undamaged that differ in their state only tell the same of the partitions.
LEMMA SameManifest ==
    ASSUME NEW a \in Undamaged \cup {None}, NEW b \in Undamaged \cup {None}, Same(a, b)
    PROVE  /\ a = None <=> b = None
           /\ a # None => a \in Undamaged /\ b \in Undamaged
           /\ a # None => a.parts = b.parts /\ a.sources = b.sources
<1>1. CASE a = b
  BY <1>1
<1>2. CASE a # None /\ b # None /\ [a EXCEPT !.state = b.state] = b
  <2>1. a \in Undamaged /\ b \in Undamaged
    BY <1>2
  <2>2. [a EXCEPT !.state = b.state].parts = a.parts
        /\ [a EXCEPT !.state = b.state].sources = a.sources
    BY <2>1 DEF Undamaged
  <2> QED BY <1>2, <2>1, <2>2
<1> QED BY <1>1, <1>2 DEF Same

LEMMA DiskFields ==
    ASSUME NEW d \in Disks
    PROVE  /\ DOMAIN d = Targets
           /\ \A m \in Months : d[m] \in Contents
           /\ d[ManifestFile] \in Undamaged \cup {None}
BY DEF Disks

\* A file of the right kind is put in its place.
Put(d, t, f) == [d EXCEPT ![t] = f]

LEMMA DiskPut ==
    ASSUME NEW d \in Disks, NEW t \in Targets, NEW f, NEW e, e = Put(d, t, f),
           t \in Months => f \in Contents,
           t = ManifestFile => f \in Undamaged \cup {None}
    PROVE  /\ e \in Disks /\ e[t] = f
           /\ \A u \in Targets : u # t => e[u] = d[u]
<1>1. f \in Contents \cup Undamaged \cup {None}
  BY ZeroIsNoMonth DEF Targets
<1>2. d \in [Targets -> Contents \cup Undamaged \cup {None}]
  BY DEF Disks
<1>3. e \in [Targets -> Contents \cup Undamaged \cup {None}]
  BY <1>1, <1>2 DEF Put
<1>4. /\ e[t] = f
      /\ \A u \in Targets : u # t => e[u] = d[u]
  BY <1>2 DEF Put
<1>5. \A m \in Months : e[m] \in Contents
  BY <1>4, DiskFields, ZeroIsNoMonth
<1>6. e[ManifestFile] \in Undamaged \cup {None}
  BY <1>4, DiskFields, ZeroIsNoMonth
<1> QED BY <1>3, <1>4, <1>5, <1>6 DEF Disks

\* What agrees with the last committed files is as complete as they are.
LEMMA AgreedIsComplete ==
    ASSUME NEW d \in Disks, DataOK, Agrees(d)
    PROVE  Complete(d)
<1>1. committed \in Disks /\ Complete(committed)
  BY DEF DataOK
<1>2. /\ d[ManifestFile] \in Undamaged \cup {None}
      /\ committed[ManifestFile] \in Undamaged \cup {None}
      /\ Same(d[ManifestFile], committed[ManifestFile])
      /\ \A m \in Months : d[m] = committed[m]
  BY <1>1, DiskFields DEF Agrees
<1>3. /\ d[ManifestFile] = None <=> committed[ManifestFile] = None
      /\ d[ManifestFile] # None =>
           /\ d[ManifestFile].parts = committed[ManifestFile].parts
           /\ d[ManifestFile].sources = committed[ManifestFile].sources
  BY <1>2, SameManifest
<1> QED BY <1>1, <1>2, <1>3 DEF Complete

LEMMA JournalFields ==
    ASSUME NEW j \in Journals
    PROVE  /\ j # None /\ j.id \in Nat /\ j.state \in {"PREPARED", "COMMITTED"}
           /\ j.arts \in Seq(Targets) /\ j.had \subseteq Targets
           /\ UndoOf(j) \in Seq(Targets) /\ ToSet(UndoOf(j)) = ToSet(j.arts)
<1>1. j.id \in Nat /\ j.state \in {"PREPARED", "COMMITTED"} /\ j.arts \in Seq(Targets)
      /\ j.had \subseteq Targets
  BY DEF Journals
<1> QED BY <1>1, NoneIsNothing, ReverseElements DEF UndoOf

-----------------------------------------------------------------------------
(* The other processes *)

\* They stay where they are, and either nothing changes or they have no lock.
Alone(p) == \A x \in Procs \ {p} :
    /\ call'[x] = call[x]
    /\ \/ UNCHANGED <<raw, disk, backup, journal, lock, committed>>
       \/ lock # x /\ lock' # x
\* What a step of p leaves.
Keeps(p) == DataOK' /\ JournalOK' /\ CallOK(p)' /\ Alone(p)

\* What the files say is what they said.
LEMMA FilesSay ==
    ASSUME UNCHANGED <<disk, backup, journal, committed>>
    PROVE  /\ PreparedOK => PreparedOK'
           /\ CommittedOK => CommittedOK'
           /\ Settled => Settled'
BY DEF PreparedOK, CommittedOK, Settled, Agrees, Originals, Artifacts, Undoes

LEMMA OthersStay ==
    ASSUME NEW p \in Procs, NEW x \in Procs \ {p}, CallOK(x), Alone(p)
    PROVE  CallOK(x)'
<1>1. call'[x] = call[x]
  BY DEF Alone
<1>2. CASE UNCHANGED <<raw, disk, backup, journal, lock, committed>>
  BY <1>1, <1>2, FilesSay DEF CallOK, HasPlan, Todo, Artifacts, Undoes, NewOK
<1>3. CASE lock # x /\ lock' # x
  <2>1. /\ call[x].at \in FreePoints /\ call[x].at \notin FilePoints \cup QuietPoints
        /\ HasPlan(x) => call[x].range \in Ranges
        /\ call[x].at \notin {"IDLE", "FOUND"} => IsCall(call[x])
    BY <1>3 DEF CallOK
  <2>2. HasPlan(x)' <=> HasPlan(x)
    BY <1>1 DEF HasPlan
  <2>3. call[x].at \notin {"UNDO", "CLEAN", "PROMOTE", "OPEN", "VERIFIED", "STAGED"}
    BY <2>1 DEF FilePoints, QuietPoints
  <2> QED BY <1>1, <1>3, <2>1, <2>2, <2>3 DEF CallOK
<1> QED BY <1>2, <1>3 DEF Alone

LEMMA Solo ==
    ASSUME NEW p \in Procs, NEW r, DataOK, Goto(p, r)
    PROVE  /\ call'[p] = r /\ call' = [x \in Procs |-> call'[x]]
           /\ \A x \in Procs \ {p} : call'[x] = call[x]
           /\ UNCHANGED <<raw, disk, backup, journal, lock, committed>> => Alone(p)
           /\ lock \in {p, None} /\ lock' \in {p, None} => Alone(p)
<1>1. call = [x \in Procs |-> call[x]] /\ call' = [call EXCEPT ![p] = r]
  BY DEF DataOK, Goto
<1>2. DOMAIN call = Procs
  BY <1>1
<1>3. call'[p] = r /\ \A x \in Procs \ {p} : call'[x] = call[x]
  BY <1>1, <1>2
<1>4. call' = [x \in Procs |-> call'[x]]
  BY <1>1, <1>2
<1> QED BY <1>3, <1>4, NoneIsNothing DEF Alone

\* Only call and lock change.
LEMMA FilesStay ==
    ASSUME DataOK, JournalOK, UNCHANGED <<raw, files, runs, committed>>,
           lock' \in Procs \cup {None}, call' = [x \in Procs |-> call'[x]],
           lock' = None => lock = None \/ Settled
    PROVE  DataOK' /\ JournalOK'
<1>1. UNCHANGED <<raw, disk, backup, journal, runs, committed>>
  BY DEF files
<1>2. DataOK'
  BY <1>1 DEF DataOK, Complete
<1>3. /\ PreparedOK => PreparedOK'
      /\ Settled => Settled'
  BY <1>1, FilesSay
<1>4. Agrees(disk) => Agrees(disk)'
  BY <1>1 DEF Agrees
<1>5. JournalOK'
  BY <1>1, <1>3, <1>4 DEF JournalOK
<1> QED BY <1>2, <1>5

\* A process without the locks.
LEMMA FreeCall ==
    ASSUME NEW p \in Procs, call'[p].at \in FreePoints, lock' # p,
           call'[p].at \notin {"IDLE", "FOUND"} => IsCall(call'[p]),
           call'[p].at = "PLANNED" => call'[p].range \in Ranges
    PROVE  CallOK(p)'
<1>1. call'[p].at \notin {"UNDO", "CLEAN", "PROMOTE", "OPEN", "VERIFIED", "STAGED"}
  BY DEF FreePoints
<1>2. call'[p].at \notin FilePoints \cup QuietPoints
  BY <1>1 DEF FilePoints, QuietPoints
<1>3. HasPlan(p)' => call'[p].range \in Ranges
  BY <1>1 DEF HasPlan
<1> QED BY <1>1, <1>2, <1>3 DEF CallOK

\* The call returns, and its locks are released.
LEMMA LeaveKeeps ==
    ASSUME NEW p \in Procs, DataOK, JournalOK, lock = p, Leave(p), Settled,
           UNCHANGED <<raw, files, runs, committed>>
    PROVE  Keeps(p)
<1>1. Goto(p, Idle) /\ lock' = None
  BY DEF Leave
<1>2. /\ call'[p] = Idle /\ call' = [x \in Procs |-> call'[x]] /\ Alone(p)
  BY <1>1, Solo
<1>3. DataOK' /\ JournalOK'
  BY <1>1, <1>2, FilesStay
<1>4. call'[p].at = "IDLE"
  BY <1>2 DEF Idle
<1>5. CallOK(p)'
  BY <1>1, <1>4, FreeCall, NoneIsNothing DEF FreePoints
<1> QED BY <1>2, <1>3, <1>5 DEF Keeps

-----------------------------------------------------------------------------
(* Starting, planning and taking the locks *)

LEMMA ReadJournalKeeps ==
    ASSUME NEW p \in Procs, DataOK, JournalOK, CallOK(p), ReadJournal(p)
    PROVE  Keeps(p)
<1>1. /\ call[p].at = "IDLE" /\ UNCHANGED <<raw, files, runs, lock, committed>>
      /\ Goto(p, [at |-> "FOUND", id |-> IF journal = None THEN 0 ELSE journal.id])
  BY DEF ReadJournal, At
<1>2. UNCHANGED <<raw, disk, backup, journal, lock, committed>>
  BY <1>1 DEF files
<1>3. /\ call'[p] = [at |-> "FOUND", id |-> IF journal = None THEN 0 ELSE journal.id]
      /\ call' = [x \in Procs |-> call'[x]] /\ Alone(p)
  BY <1>1, <1>2, Solo
<1>4. lock' \in Procs \cup {None}
  BY <1>1 DEF DataOK
<1>5. DataOK' /\ JournalOK'
  BY <1>1, <1>3, <1>4, FilesStay
<1>6. call'[p].at = "FOUND"
  BY <1>3
<1>7. lock' # p
  BY <1>1 DEF CallOK, FilePoints, QuietPoints
<1>8. CallOK(p)'
  BY <1>6, <1>7, FreeCall DEF FreePoints
<1> QED BY <1>3, <1>5, <1>8 DEF Keeps

LEMMA LockTimeoutKeeps ==
    ASSUME NEW p \in Procs, DataOK, JournalOK, CallOK(p), LockTimeout(p)
    PROVE  Keeps(p)
<1>1. /\ call[p].at \in {"FOUND", "PLANNED"} /\ UNCHANGED <<raw, files, runs, lock, committed>>
      /\ Goto(p, Idle)
  BY DEF LockTimeout
<1>2. UNCHANGED <<raw, disk, backup, journal, lock, committed>>
  BY <1>1 DEF files
<1>3. call'[p] = Idle /\ call' = [x \in Procs |-> call'[x]] /\ Alone(p)
  BY <1>1, <1>2, Solo
<1>4. lock' \in Procs \cup {None}
  BY <1>1 DEF DataOK
<1>5. DataOK' /\ JournalOK'
  BY <1>1, <1>3, <1>4, FilesStay
<1>6. call'[p].at = "IDLE"
  BY <1>3 DEF Idle
<1>7. lock' # p
  BY <1>1 DEF CallOK, FilePoints, QuietPoints
<1>8. CallOK(p)'
  BY <1>6, <1>7, FreeCall DEF FreePoints
<1> QED BY <1>3, <1>5, <1>8 DEF Keeps

LEMMA PlanKeeps ==
    ASSUME NEW p \in Procs, NEW R \in Ranges, NEW op, DataOK, JournalOK, Plan(p, R, op)
    PROVE  Keeps(p)
<1> DEFINE c == [Fresh EXCEPT !.at = "PLANNED", !.op = op, !.range = R, !.src = raw]
<1>1. lock = None /\ Goto(p, c) /\ UNCHANGED <<raw, files, runs, lock, committed>>
  BY DEF Plan
<1>2. IsCall(c) /\ c.at = "PLANNED" /\ c.range = R
  BY DEF IsCall, Fresh
<1> HIDE DEF c
<1>3. UNCHANGED <<raw, disk, backup, journal, lock, committed>>
  BY <1>1 DEF files
<1>4. call'[p] = c /\ call' = [x \in Procs |-> call'[x]] /\ Alone(p)
  BY <1>1, <1>3, Solo
<1>5. DataOK' /\ JournalOK'
  BY <1>1, <1>4, FilesStay
<1>6. CallOK(p)'
  BY <1>1, <1>2, <1>4, FreeCall, NoneIsNothing DEF FreePoints
<1> QED BY <1>4, <1>5, <1>6 DEF Keeps

\* A process that takes the locks beside a journal has all of it to undo or to
\* clean.
LEMMA ResolveKeeps ==
    ASSUME NEW p \in Procs, NEW r, NEW next, DataOK, JournalOK, IsCall(r), journal # None,
           next = "OPEN" => r.range \in Ranges,
           lock = None, lock' = p, Resolve(p, r, next), UNCHANGED <<raw, files, runs, committed>>
    PROVE  Keeps(p)
<1> DEFINE a == IF journal.state = "PREPARED" THEN "UNDO" ELSE "CLEAN"
           b == IF journal.state = "PREPARED" THEN UndoOf(journal) ELSE journal.arts
           c == [r EXCEPT !.at = a, !.todo = b, !.next = next]
<1>1. Goto(p, c)
  BY DEF Resolve
<1>2. /\ journal \in Journals
      /\ journal.state \in {"PREPARED", "COMMITTED"}
      /\ b \in Seq(Targets) /\ ToSet(b) = Artifacts
  BY JournalFields DEF DataOK, Artifacts
<1>3. a \in {"UNDO", "CLEAN"} /\ (a = "UNDO" <=> journal.state = "PREPARED")
  OBVIOUS
<1> HIDE DEF a, b
<1>4. IsCall(c) /\ c.at = a /\ c.todo = b /\ c.next = next /\ c.range = r.range
  BY DEF IsCall, Fresh
<1> HIDE DEF c
<1>5. call'[p] = c /\ call' = [x \in Procs |-> call'[x]] /\ Alone(p)
  BY <1>1, Solo
<1>6. DataOK' /\ JournalOK'
  BY <1>5, FilesStay, NoneIsNothing
<1>7. journal' = journal /\ Artifacts' = Artifacts /\ Todo(p)' = Artifacts
  BY <1>2, <1>4, <1>5 DEF files, Artifacts, Todo
<1>8. HasPlan(p)' => call'[p].range \in Ranges
  BY <1>3, <1>4, <1>5 DEF HasPlan
<1>9. call'[p].at = a /\ call'[p].at \in FilePoints /\ call'[p].at \notin QuietPoints \cup FreePoints
      /\ call'[p].at # "PROMOTE" /\ call'[p].at \notin {"VERIFIED", "STAGED"}
  BY <1>3, <1>4, <1>5 DEF FilePoints, QuietPoints, FreePoints
<1>10. /\ call'[p].at = "UNDO" => PreparedOK'
       /\ call'[p].at = "CLEAN" => journal'.state = "COMMITTED" /\ CommittedOK'
  <2>1. /\ a = "UNDO" => PreparedOK
        /\ a = "CLEAN" => journal.state = "COMMITTED" /\ CommittedOK
    BY <1>2, <1>3 DEF JournalOK, Settled
  <2> QED BY <1>7, <1>9, <2>1, FilesSay DEF files
<1>11. call'[p].todo \in Seq(Targets) /\ IsCall(call'[p])
  BY <1>2, <1>4, <1>5
<1>12. CallOK(p)'
  BY <1>7, <1>8, <1>9, <1>10, <1>11 DEF CallOK
<1> QED BY <1>5, <1>6, <1>12 DEF Keeps

LEMMA FreshIsCall ==
    /\ IsCall(Fresh)
    /\ IsCall([Fresh EXCEPT !.at = "READY"]) /\ [Fresh EXCEPT !.at = "READY"].at = "READY"
BY DEF IsCall, Fresh

LEMMA RecoverFoundKeeps ==
    ASSUME NEW p \in Procs, DataOK, JournalOK, CallOK(p), RecoverFound(p)
    PROVE  Keeps(p)
<1>1. lock = None /\ UNCHANGED <<raw, files, runs, committed>>
  BY DEF RecoverFound
<1>2. CASE Goto(p, [Fresh EXCEPT !.at = "READY"]) /\ UNCHANGED lock
  <2>1. /\ call'[p] = [Fresh EXCEPT !.at = "READY"] /\ call' = [x \in Procs |-> call'[x]]
        /\ Alone(p)
    BY <1>1, <1>2, Solo
  <2>2. DataOK' /\ JournalOK'
    BY <1>1, <1>2, <2>1, FilesStay
  <2>3. call'[p].at = "READY" /\ IsCall(call'[p])
    BY <2>1, FreshIsCall
  <2>4. CallOK(p)'
    BY <1>1, <1>2, <2>3, FreeCall, NoneIsNothing DEF FreePoints
  <2> QED BY <2>1, <2>2, <2>4 DEF Keeps
<1>3. CASE journal # None /\ Resolve(p, Fresh, "READY") /\ lock' = p
  BY <1>1, <1>3, ResolveKeeps, FreshIsCall
<1> QED BY <1>2, <1>3 DEF RecoverFound

LEMMA EnterKeeps ==
    ASSUME NEW p \in Procs, DataOK, JournalOK, CallOK(p), Enter(p)
    PROVE  Keeps(p)
<1>1. /\ call[p].at = "PLANNED" /\ lock = None /\ lock' = p
      /\ UNCHANGED <<raw, files, runs, committed>>
  BY DEF Enter, At
<1>2. IsCall(call[p]) /\ call[p].range \in Ranges
  BY <1>1 DEF CallOK, HasPlan
<1>3. CASE journal = None /\ Goto(p, Work(p, "OPEN"))
  <2>1. /\ call'[p] = Work(p, "OPEN") /\ call' = [x \in Procs |-> call'[x]] /\ Alone(p)
    BY <1>1, <1>3, Solo
  <2>2. DataOK' /\ JournalOK'
    BY <1>1, <2>1, FilesStay, NoneIsNothing
  <2>3. call'[p].at = "OPEN" /\ IsCall(call'[p]) /\ call'[p].range \in Ranges
    BY <1>2, <2>1 DEF Work, IsCall, Fresh
  <2>4. call'[p].at \in QuietPoints /\ call'[p].at \notin FilePoints
    BY <2>3 DEF QuietPoints, FilePoints
  <2>5. journal' = None
    BY <1>1, <1>3 DEF files
  <2>6. CallOK(p)'
    BY <1>1, <2>3, <2>4, <2>5 DEF CallOK
  <2> QED BY <2>1, <2>2, <2>6 DEF Keeps
<1>4. CASE journal # None /\ Resolve(p, call[p], "OPEN")
  BY <1>1, <1>2, <1>4, ResolveKeeps
<1> QED BY <1>3, <1>4 DEF Enter

-----------------------------------------------------------------------------
(* Recovery and rollback *)

\* Where a process is inside the files: at the next artifact of its journal.
LEMMA AtFile ==
    ASSUME NEW p \in Procs, DataOK, CallOK(p), call[p].at \in FilePoints
    PROVE  /\ lock = p /\ journal \in Journals /\ IsCall(call[p])
           /\ call[p].todo \in Seq(Targets) /\ Todo(p) \subseteq Artifacts
           /\ call[p].todo # <<>> =>
                /\ Head(call[p].todo) \in Targets /\ Head(call[p].todo) \in Artifacts
                /\ Tail(call[p].todo) \in Seq(Targets)
                /\ ToSet(Tail(call[p].todo)) \subseteq Artifacts
                /\ Todo(p) = ToSet(Tail(call[p].todo)) \cup {Head(call[p].todo)}
<1>1. call[p].at \notin {"IDLE", "FOUND"}
  BY DEF FilePoints
<1>2. /\ lock = p /\ journal # None /\ IsCall(call[p])
      /\ call[p].todo \in Seq(Targets) /\ Todo(p) \subseteq Artifacts
  BY <1>1 DEF CallOK
<1>3. journal \in Journals
  BY <1>2 DEF DataOK
<1> QED BY <1>2, <1>3, TailElements DEF Todo

\* One file is put back; the originals are what they were.
LEMMA UndoKeeps ==
    ASSUME NEW p \in Procs, DataOK, JournalOK, CallOK(p), Undo(p)
    PROVE  Keeps(p)
<1>0. PICK t : t = Head(call[p].todo)
  OBVIOUS
<1>1. /\ call[p].at = "UNDO" /\ call[p].todo # <<>>
      /\ UNCHANGED <<raw, journal, runs, lock, committed>>
  BY DEF Undo, At
<1>2. /\ lock = p /\ journal \in Journals /\ IsCall(call[p])
      /\ call[p].todo \in Seq(Targets) /\ Todo(p) \subseteq Artifacts
      /\ t \in Targets /\ t \in Artifacts
      /\ Tail(call[p].todo) \in Seq(Targets)
      /\ ToSet(Tail(call[p].todo)) \subseteq Artifacts
      /\ Todo(p) = ToSet(Tail(call[p].todo)) \cup {t}
  BY <1>0, <1>1, AtFile DEF FilePoints
<1>3. PreparedOK /\ journal # None
  BY <1>1, <1>2 DEF CallOK, FilePoints
<1>4. \A u \in Artifacts \ Todo(p) : Undoes(u)
  BY <1>1 DEF CallOK
<1>5. disk \in Disks /\ backup \in Disks /\ call = [x \in Procs |-> call[x]]
  BY DEF DataOK
<1>6. HasPlan(p) => call[p].range \in Ranges
  BY DEF CallOK
<1>7. Artifacts' = Artifacts /\ Artifacts \subseteq Targets
  BY <1>1, <1>2, ElementsIn, JournalFields DEF Artifacts
\* The end of the argument, for a step that goes on to the next artifact or not.
<1>8. ASSUME disk' \in Disks, backup' \in Disks, Originals' = Originals,
             \A u \in Targets : backup'[u] # None => u \in journal.had,
             \A u \in Targets \ {t} : disk'[u] = disk[u] /\ backup'[u] = backup[u],
             \/ UNCHANGED call
             \/ Goto(p, [call[p] EXCEPT !.todo = Tail(@)]) /\ Undoes(t)'
      PROVE  Keeps(p)
  <2>1. /\ call' = [x \in Procs |-> call'[x]] /\ Alone(p)
        /\ IsCall(call'[p]) /\ call'[p].at = "UNDO" /\ call'[p].next = call[p].next
        /\ call'[p].range = call[p].range
        /\ \/ call'[p].todo = call[p].todo
           \/ call'[p].todo = Tail(call[p].todo) /\ Undoes(t)'
    <3>1. CASE UNCHANGED call
      BY <1>1, <1>2, <1>5, <3>1, NoneIsNothing DEF Alone
    <3>2. CASE Goto(p, [call[p] EXCEPT !.todo = Tail(@)]) /\ Undoes(t)'
      <4>1. /\ call'[p] = [call[p] EXCEPT !.todo = Tail(call[p].todo)]
            /\ call' = [x \in Procs |-> call'[x]] /\ Alone(p)
        BY <1>1, <1>2, <3>2, Solo
      <4> QED BY <1>1, <1>2, <3>2, <4>1 DEF IsCall, Fresh
    <3> QED BY <1>8, <3>1, <3>2
  <2>2. \A u \in Targets \ {t} : Undoes(u) => Undoes(u)'
    BY <1>1, <1>8 DEF Undoes
  <2>3. PreparedOK'
    <3>1. Agrees(Originals)'
      BY <1>1, <1>3, <1>8 DEF PreparedOK, Agrees
    <3>2. \A u \in Targets \ Artifacts : Undoes(u)'
      BY <1>2, <1>3, <2>2 DEF PreparedOK
    <3> QED BY <1>1, <1>7, <1>8, <3>1, <3>2 DEF PreparedOK
  <2>4. JournalOK'
    BY <1>1, <1>2, <1>3, <2>3, NoneIsNothing DEF JournalOK
  <2>5. DataOK'
    BY <1>1, <1>8, <2>1 DEF DataOK, Complete
  <2>6. call'[p].todo \in Seq(Targets) /\ Todo(p)' \subseteq Artifacts
    BY <1>2, <2>1 DEF Todo
  <2>7. \A u \in Artifacts \ Todo(p)' : Undoes(u)'
    <3>1. CASE call'[p].todo = call[p].todo
      <4>1. Todo(p)' = Todo(p)
        BY <3>1 DEF Todo
      <4> QED BY <1>2, <1>4, <1>7, <2>2, <4>1
    <3>2. CASE call'[p].todo = Tail(call[p].todo) /\ Undoes(t)'
      <4>1. Todo(p) = Todo(p)' \cup {t}
        BY <1>2, <3>2 DEF Todo
      <4>2. \A u \in Artifacts \ Todo(p)' : u = t \/ Undoes(u)'
        BY <1>4, <1>7, <2>2, <4>1
      <4> QED BY <3>2, <4>2
    <3> QED BY <2>1, <3>1, <3>2
  <2>8. call'[p].at \in FilePoints /\ call'[p].at \notin FreePoints \cup QuietPoints
    BY <2>1 DEF FilePoints, FreePoints, QuietPoints
  <2>9. HasPlan(p)' => HasPlan(p)
    BY <1>1, <2>1 DEF HasPlan
  <2>10. CallOK(p)'
    BY <1>1, <1>2, <1>3, <1>6, <1>7, <2>1, <2>3, <2>6, <2>7, <2>8, <2>9 DEF CallOK
  <2> QED BY <2>1, <2>4, <2>5, <2>10 DEF Keeps
<1>9. \A u \in Targets : backup[u] # None => u \in journal.had
  BY <1>3 DEF PreparedOK
<1>10. CASE backup[t] # None /\ disk' = [disk EXCEPT ![t] = None] /\ UNCHANGED <<backup, call>>
  <2>1. /\ disk' \in Disks /\ disk'[t] = None
        /\ \A u \in Targets : u # t => disk'[u] = disk[u]
    <3>1. disk' = Put(disk, t, None)
      BY <1>10 DEF Put
    <3> QED BY <1>2, <1>5, <3>1, DiskPut, NoneIsNothing
  <2>2. Originals' = Originals
    BY <1>1, <1>10, <2>1 DEF Originals
  <2> QED BY <1>5, <1>8, <1>9, <1>10, <2>1, <2>2
<1>11. CASE /\ backup[t] # None /\ disk[t] = None
            /\ disk' = [disk EXCEPT ![t] = backup[t]]
            /\ backup' = [backup EXCEPT ![t] = None]
            /\ Goto(p, [call[p] EXCEPT !.todo = Tail(@)])
  <2>1. /\ t \in Months => backup[t] \in Contents
        /\ t = ManifestFile => backup[t] \in Undamaged \cup {None}
    BY <1>5, DiskFields
  <2>2. /\ disk' \in Disks /\ disk'[t] = backup[t]
        /\ \A u \in Targets : u # t => disk'[u] = disk[u]
    <3>1. disk' = Put(disk, t, backup[t])
      BY <1>11 DEF Put
    <3> QED BY <1>2, <1>5, <2>1, <3>1, DiskPut
  <2>3. /\ backup' \in Disks /\ backup'[t] = None
        /\ \A u \in Targets : u # t => backup'[u] = backup[u]
    <3>1. backup' = Put(backup, t, None)
      BY <1>11 DEF Put
    <3> QED BY <1>2, <1>5, <3>1, DiskPut, NoneIsNothing
  <2>4. Originals' = Originals
    BY <1>1, <1>9, <1>11, <2>2, <2>3 DEF Originals
  <2>5. Undoes(t)'
    BY <1>1, <1>2, <1>9, <1>11, <2>3 DEF Undoes
  <2> QED BY <1>8, <1>9, <1>11, <2>2, <2>3, <2>4, <2>5
<1>12. CASE /\ backup[t] = None
            /\ disk' = [disk EXCEPT ![t] = Undone(t)]
            /\ Goto(p, [call[p] EXCEPT !.todo = Tail(@)])
            /\ UNCHANGED backup
  <2>1. /\ t \in Months => Undone(t) \in Contents
        /\ t = ManifestFile => Undone(t) \in Undamaged \cup {None}
    BY <1>5, DiskFields, NoneIsNothing DEF Undone
  <2>2. /\ disk' \in Disks /\ disk'[t] = Undone(t)
        /\ \A u \in Targets : u # t => disk'[u] = disk[u]
    <3>1. disk' = Put(disk, t, Undone(t))
      BY <1>12 DEF Put
    <3> QED BY <1>2, <1>5, <2>1, <3>1, DiskPut
  <2>3. Originals' = Originals
    BY <1>1, <1>12, <2>2 DEF Originals, Undone
  <2>4. Undoes(t)'
    BY <1>1, <1>12, <2>2 DEF Undoes, Undone
  <2> QED BY <1>5, <1>8, <1>9, <1>12, <2>2, <2>3, <2>4
<1> QED BY <1>0, <1>10, <1>11, <1>12 DEF Undo

LEMMA CleanKeeps ==
    ASSUME NEW p \in Procs, DataOK, JournalOK, CallOK(p), Clean(p)
    PROVE  Keeps(p)
<1>0. PICK t : t = Head(call[p].todo)
  OBVIOUS
<1>1. /\ call[p].at = "CLEAN" /\ call[p].todo # <<>>
      /\ backup' = Put(backup, t, None)
      /\ Goto(p, [call[p] EXCEPT !.todo = Tail(call[p].todo)])
      /\ UNCHANGED <<raw, disk, journal, runs, lock, committed>>
  BY <1>0 DEF Clean, At, Put
<1>2. /\ lock = p /\ journal \in Journals /\ IsCall(call[p])
      /\ Artifacts \subseteq Targets /\ t \in Targets /\ t \in Artifacts
      /\ Tail(call[p].todo) \in Seq(Targets)
      /\ ToSet(Tail(call[p].todo)) \subseteq Artifacts
      /\ Todo(p) = ToSet(Tail(call[p].todo)) \cup {t}
  BY <1>0, <1>1, AtFile, ElementsIn, JournalFields DEF FilePoints, Artifacts
<1>3. CommittedOK /\ journal.state = "COMMITTED" /\ journal # None
  BY <1>1, <1>2 DEF CallOK, FilePoints
<1>4. backup \in Disks /\ disk \in Disks
  BY DEF DataOK
<1>5. /\ backup' \in Disks /\ backup'[t] = None
      /\ \A u \in Targets : u # t => backup'[u] = backup[u]
  BY <1>1, <1>2, <1>4, DiskPut, NoneIsNothing
<1>6. /\ call'[p] = [call[p] EXCEPT !.todo = Tail(call[p].todo)]
      /\ call' = [x \in Procs |-> call'[x]] /\ Alone(p)
  BY <1>1, <1>2, Solo
<1>7. /\ IsCall(call'[p]) /\ call'[p].at = "CLEAN" /\ call'[p].next = call[p].next
      /\ call'[p].range = call[p].range /\ call'[p].todo = Tail(call[p].todo)
  BY <1>1, <1>2, <1>6 DEF IsCall, Fresh
<1>8. CommittedOK'
  <2>1. Agrees(disk)'
    BY <1>1, <1>3 DEF CommittedOK, Agrees
  <2>2. \A u \in Targets \ Artifacts : backup'[u] = None
    BY <1>2, <1>3, <1>5 DEF CommittedOK
  <2> QED BY <1>1, <2>1, <2>2 DEF CommittedOK, Artifacts
<1>9. JournalOK'
  BY <1>1, <1>2, <1>3, <1>8, NoneIsNothing DEF JournalOK
<1>10. DataOK'
  BY <1>1, <1>5, <1>6 DEF DataOK, Complete
<1>11. Artifacts' = Artifacts /\ Todo(p)' = ToSet(Tail(call[p].todo))
  BY <1>1, <1>7 DEF Artifacts, Todo
<1>12. \A u \in Artifacts \ Todo(p)' : backup'[u] = None
  <2>1. \A u \in Artifacts \ Todo(p) : backup[u] = None
    BY <1>1 DEF CallOK
  <2>2. Todo(p) = Todo(p)' \cup {t}
    BY <1>2, <1>11
  <2> QED BY <1>2, <1>5, <2>1, <2>2
<1>13. call'[p].at \in FilePoints /\ call'[p].at \notin FreePoints \cup QuietPoints
  BY <1>7 DEF FilePoints, FreePoints, QuietPoints
<1>14. HasPlan(p)' => call'[p].range \in Ranges
  BY <1>1, <1>7 DEF HasPlan, CallOK
<1>15. CallOK(p)'
  BY <1>1, <1>2, <1>3, <1>7, <1>8, <1>11, <1>12, <1>13, <1>14 DEF CallOK
<1> QED BY <1>6, <1>9, <1>10, <1>15 DEF Keeps

\* Every artifact is put back or kept, so that the journal may go.
LEMMA DropJournalKeeps ==
    ASSUME NEW p \in Procs, DataOK, JournalOK, CallOK(p), DropJournal(p)
    PROVE  Keeps(p)
<1>1. /\ call[p].at \in {"UNDO", "CLEAN"} /\ call[p].todo = <<>> /\ journal' = None
      /\ UNCHANGED <<raw, disk, backup, runs, committed>>
  BY DEF DropJournal, JournalMayGo
<1>2. lock = p /\ journal \in Journals /\ journal # None /\ IsCall(call[p])
  BY <1>1, AtFile, NoneIsNothing DEF FilePoints
<1>3. Todo(p) = {}
  BY <1>1, EmptyElements DEF Todo
<1>4. disk \in Disks
  BY DEF DataOK
<1>5. Agrees(disk) /\ \A t \in Targets : backup[t] = None
  <2>1. CASE call[p].at = "UNDO"
    <3>1. PreparedOK
      BY <2>1 DEF CallOK
    <3>2. \A t \in Artifacts : Undoes(t)
      BY <1>3, <2>1 DEF CallOK
    <3>3. \A t \in Targets : Undoes(t)
      BY <3>1, <3>2 DEF PreparedOK
    <3>4. \A t \in Targets : Originals[t] = disk[t]
      BY <3>3 DEF Originals, Undoes
    <3>5. Agrees(disk)
      BY <3>1, <3>4, ZeroIsNoMonth DEF PreparedOK, Agrees
    <3> QED BY <3>3, <3>5 DEF Undoes
  <2>2. CASE call[p].at = "CLEAN"
    <3>1. CommittedOK
      BY <2>2 DEF CallOK
    <3>2. \A t \in Artifacts : backup[t] = None
      BY <1>3, <2>2 DEF CallOK
    <3> QED BY <3>1, <3>2 DEF CommittedOK
  <2> QED BY <1>1, <2>1, <2>2
<1>6. JournalOK'
  <2>1. Agrees(disk)'
    BY <1>1, <1>5 DEF Agrees
  <2> QED BY <1>1, <1>5, <2>1 DEF JournalOK, Settled
<1>7. ASSUME lock' \in {p, None}, call' = [x \in Procs |-> call'[x]] PROVE DataOK'
  BY <1>1, <1>7 DEF DataOK, Complete
<1>8. CASE Goto(p, [Fresh EXCEPT !.at = "READY"]) /\ lock' = None
  <2>1. /\ call'[p] = [Fresh EXCEPT !.at = "READY"] /\ call' = [x \in Procs |-> call'[x]]
        /\ Alone(p)
    BY <1>2, <1>8, Solo
  <2>2. call'[p].at = "READY" /\ IsCall(call'[p])
    BY <2>1, FreshIsCall
  <2>3. CallOK(p)'
    BY <1>8, <2>2, FreeCall, NoneIsNothing DEF FreePoints
  <2> QED BY <1>6, <1>7, <1>8, <2>1, <2>3 DEF Keeps
<1>9. CASE call[p].next = "OPEN" /\ Goto(p, Work(p, "OPEN")) /\ UNCHANGED lock
  <2>1. /\ call'[p] = Work(p, "OPEN") /\ call' = [x \in Procs |-> call'[x]] /\ Alone(p)
    BY <1>2, <1>9, Solo
  <2>2. call[p].range \in Ranges
    BY <1>1, <1>9 DEF CallOK, HasPlan
  <2>3. call'[p].at = "OPEN" /\ IsCall(call'[p]) /\ call'[p].range \in Ranges
    BY <1>2, <2>1, <2>2 DEF Work, IsCall, Fresh
  <2>4. call'[p].at \in QuietPoints /\ call'[p].at \notin FilePoints
    BY <2>3 DEF QuietPoints, FilePoints
  <2>5. CallOK(p)'
    BY <1>1, <1>2, <1>9, <2>3, <2>4 DEF CallOK
  <2> QED BY <1>2, <1>6, <1>7, <1>9, <2>1, <2>5 DEF Keeps
<1>10. CASE Leave(p)
  <2>1. Goto(p, Idle) /\ lock' = None
    BY <1>10 DEF Leave
  <2>2. call'[p] = Idle /\ call' = [x \in Procs |-> call'[x]] /\ Alone(p)
    BY <1>2, <2>1, Solo
  <2>3. call'[p].at = "IDLE"
    BY <2>2 DEF Idle
  <2>4. CallOK(p)'
    BY <2>1, <2>3, FreeCall, NoneIsNothing DEF FreePoints
  <2> QED BY <1>6, <1>7, <2>1, <2>2, <2>4 DEF Keeps
<1> QED BY <1>8, <1>9, <1>10 DEF DropJournal

-----------------------------------------------------------------------------
(* Materialization *)

\* A process that has entered.
LEMMA AtOpen ==
    ASSUME NEW p \in Procs, DataOK, JournalOK, CallOK(p), call[p].at \in QuietPoints
    PROVE  /\ lock = p /\ journal = None /\ IsCall(call[p])
           /\ disk \in Disks /\ Agrees(disk) /\ Complete(disk)
           /\ \A t \in Targets : backup[t] = None
           /\ call[p].at = "OPEN" => call[p].range \in Ranges
<1>1. call[p].at \notin {"IDLE", "FOUND"}
  BY DEF QuietPoints
<1>2. lock = p /\ journal = None /\ IsCall(call[p])
  BY <1>1 DEF CallOK
<1>3. Agrees(disk) /\ \A t \in Targets : backup[t] = None
  BY <1>2 DEF JournalOK
<1>4. disk \in Disks
  BY DEF DataOK
<1>5. Complete(disk)
  BY <1>3, <1>4, AgreedIsComplete
<1>6. call[p].at = "OPEN" => call[p].range \in Ranges
  BY DEF CallOK, HasPlan
<1> QED BY <1>2, <1>3, <1>4, <1>5, <1>6

\* What the commit for R writes is a dataset, and beyond the months it writes
\* or deletes it is the present one.
LEMMA MergedRows ==
    ASSUME NEW R, NEW m \in Months, disk \in Disks, Complete(disk), raw \in [Cells -> Nat]
    PROVE  Merged(m, R) \in [Halves -> Nat] /\ Content(m, R) \in Contents
<1>1. ASSUME NEW h \in Halves PROVE raw[<<m, h>>] \in Nat
  BY DEF Cells
<1>2. ASSUME NEW h \in Halves, Derived(m) PROVE disk[m][h] \in Nat
  <2>1. disk[m] \in Contents /\ disk[m] # None
    BY <1>2, DiskFields DEF Complete, Derived, manifest
  <2> QED BY <2>1 DEF Contents
<1>3. Merged(m, R) \in [Halves -> Nat]
  BY <1>1, <1>2 DEF Merged
<1> QED BY <1>3 DEF Content, Contents

LEMMA SourceRows ==
    ASSUME NEW m \in Months, raw \in [Cells -> Nat]
    PROVE  SourceOf(m) \in Contents
<1>1. ASSUME NEW h \in Halves PROVE raw[<<m, h>>] \in Nat
  BY DEF Cells
<1> QED BY <1>1 DEF SourceOf, Contents

LEMMA ManifestRows ==
    ASSUME disk \in Disks, manifest # None, NEW m \in Months
    PROVE  manifest.parts[m] \in Contents /\ manifest.sources[m] \in Contents
<1>1. manifest \in Undamaged
  BY DiskFields DEF manifest
<1> QED BY <1>1 DEF Undamaged

NewFiles(R) == [t \in Targets |-> IF t = ManifestFile THEN ManifestAfter(R) ELSE PartsAfter(R)[t]]

\* In a month of the range that is not written there is nothing to derive.
LEMMA UnwrittenIsEmpty ==
    ASSUME NEW R, NEW m \in Months, raw \in [Cells -> Nat],
           \A h \in Halves : <<m, h>> \in R, Meets(m, R), m \notin Rewritten(R)
    PROVE  ~Derived(m) /\ SourceOf(m) = None
<1>1. ~Derived(m) /\ \A h \in Halves : ~(raw[<<m, h>>] > 0)
  BY DEF Rewritten
<1>2. \A h \in Halves : raw[<<m, h>>] \in Nat
  BY DEF Cells
<1>3. \A h \in Halves : raw[<<m, h>>] = 0
  BY <1>1, <1>2
<1> QED BY <1>1, <1>3 DEF SourceOf

\* A month all of whose rows are built anew has the content of its source.
LEMMA WholeContent ==
    ASSUME NEW R, NEW m \in Months, \A h \in Halves : <<m, h>> \in R
    PROVE  Content(m, R) = SourceOf(m)
<1>1. Merged(m, R) = [h \in Halves |-> raw[<<m, h>>]]
  BY DEF Merged
<1>2. \A h \in Halves : Merged(m, R)[h] = raw[<<m, h>>]
  BY <1>1
<1> QED BY <1>1, <1>2 DEF Content, SourceOf

LEMMA NewFilesAreComplete ==
    ASSUME NEW R, disk \in Disks, Complete(disk), raw \in [Cells -> Nat]
    PROVE  /\ NewFiles(R) \in Disks /\ NewFiles(R)[ManifestFile] # None
           /\ Complete(NewFiles(R))
           /\ \A m \in Months \ Rewritten(R) : disk[m] = NewFiles(R)[m]
<1> DEFINE n == NewFiles(R)
<1>1. \A m \in Months : SourcesAfter(R)[m] \in Contents /\ PartsAfter(R)[m] \in Contents
  <2> TAKE m \in Months
  <2>1. SourceOf(m) \in Contents /\ Content(m, R) \in Contents /\ None \in Contents
    BY MergedRows, SourceRows, NoneIsNothing
  <2>2. manifest # None => manifest.parts[m] \in Contents /\ manifest.sources[m] \in Contents
    BY ManifestRows
  <2> QED BY <2>1, <2>2 DEF SourcesAfter, PartsAfter
<1>2. SourcesAfter(R) \in [Months -> Contents] /\ PartsAfter(R) \in [Months -> Contents]
  BY <1>1 DEF SourcesAfter, PartsAfter
<1>3. ManifestAfter(R) \in Undamaged
  BY <1>2 DEF ManifestAfter, Undamaged
<1>4. n[ManifestFile] = ManifestAfter(R) /\ \A m \in Months : n[m] = PartsAfter(R)[m]
  BY ZeroIsNoMonth DEF NewFiles
<1>5. n \in [Targets -> Contents \cup Undamaged \cup {None}]
  <2>1. \A t \in Targets : (IF t = ManifestFile THEN ManifestAfter(R) ELSE PartsAfter(R)[t])
                             \in Contents \cup Undamaged \cup {None}
    BY <1>1, <1>3 DEF Targets
  <2> QED BY <2>1 DEF NewFiles
<1>6. n \in Disks
  BY <1>1, <1>3, <1>4, <1>5 DEF Disks
<1>7. n[ManifestFile] # None
  BY <1>3, <1>4, NoneIsNothing
<1>8. n[ManifestFile].parts = PartsAfter(R)
  BY <1>4 DEF ManifestAfter
<1>9. Complete(n)
  BY <1>4, <1>7, <1>8 DEF Complete
<1>10. \A m \in Months \ Rewritten(R) : disk[m] = n[m]
  BY <1>4 DEF PartsAfter, Complete, manifest
<1> QED BY <1>6, <1>7, <1>9, <1>10

LEMMA BeginKeeps ==
    ASSUME NEW p \in Procs, NEW R, DataOK, JournalOK, CallOK(p), call[p].at = "OPEN",
           Begin(p, R)
    PROVE  Keeps(p)
<1> DEFINE arts == InOrder(Rewritten(R)) \o <<ManifestFile>>
           had == {t \in Targets : disk[t] # None}
<1>1. /\ lock = p /\ journal = None /\ IsCall(call[p])
      /\ disk \in Disks /\ Agrees(disk) /\ Complete(disk)
      /\ \A t \in Targets : backup[t] = None
  BY AtOpen DEF QuietPoints
<1>2. /\ journal' = [id |-> runs + 1, state |-> "PREPARED", arts |-> arts, had |-> had]
      /\ Goto(p, [call[p] EXCEPT !.at = "PROMOTE", !.todo = arts, !.next = "OVER",
                  !.new = NewFiles(R)])
      /\ runs' = runs + 1 /\ UNCHANGED <<raw, disk, backup, lock, committed>>
  BY DEF Begin, NewFiles
<1>3. arts \in Seq(Targets) /\ ToSet(arts) = Rewritten(R) \cup {ManifestFile}
  <2>1. Rewritten(R) \in SUBSET Months
    BY DEF Rewritten
  <2>2. Rewritten(R) \in SUBSET Nat /\ IsFiniteSet(Rewritten(R))
    BY <2>1, MonthsAssumption, FS_Subset
  <2>3. InOrder(Rewritten(R)) \in Seq(Rewritten(R)) /\ ToSet(InOrder(Rewritten(R))) = Rewritten(R)
    BY <2>2, InOrderElements
  <2>4. Rewritten(R) \subseteq Targets /\ ManifestFile \in Targets
    BY <2>1, ZeroIsNoMonth
  <2>5. InOrder(Rewritten(R)) \in Seq(Targets)
    BY <2>3, <2>4, SeqMonotonic
  <2> QED BY <2>3, <2>4, <2>5, LastElements
<1> HIDE DEF arts
<1>4. had \in SUBSET Targets
  OBVIOUS
<1>5. journal' \in Journals /\ runs' \in Nat
  <2>1. runs + 1 \in Nat
    BY DEF DataOK
  <2> HIDE DEF had
  <2> QED BY <1>2, <1>3, <1>4, <2>1 DEF Journals
<1>6. journal' # None /\ journal'.state = "PREPARED" /\ journal'.arts = arts /\ journal'.had = had
  BY <1>2, <1>5, NoneIsNothing
<1>7. Artifacts' = Rewritten(R) \cup {ManifestFile}
  BY <1>3, <1>6 DEF Artifacts
<1>8. /\ call'[p] = [call[p] EXCEPT !.at = "PROMOTE", !.todo = arts, !.next = "OVER",
                     !.new = NewFiles(R)]
      /\ call' = [x \in Procs |-> call'[x]] /\ Alone(p)
  BY <1>1, <1>2, Solo
<1>9. /\ IsCall(call'[p]) /\ call'[p].at = "PROMOTE" /\ call'[p].todo = arts
      /\ call'[p].next = "OVER" /\ call'[p].new = NewFiles(R)
  BY <1>1, <1>8 DEF IsCall, Fresh
<1>10. PreparedOK'
  <2>1. \A t \in Targets : Originals'[t] = disk[t]
    BY <1>1, <1>2, <1>6 DEF Originals
  <2>2. Agrees(Originals)'
    BY <1>1, <1>2, <2>1, ZeroIsNoMonth DEF Agrees
  <2>3. \A t \in Targets : Undoes(t)'
    BY <1>1, <1>2, <1>6 DEF Undoes
  <2>4. \A t \in Targets : backup'[t] = None
    BY <1>1, <1>2
  <2> QED BY <2>2, <2>3, <2>4 DEF PreparedOK
<1>11. JournalOK'
  BY <1>6, <1>10 DEF JournalOK, Settled
<1>12. DataOK'
  BY <1>2, <1>5, <1>8 DEF DataOK, Complete
<1>13. NewOK(call[p].new, Todo(p))'
  <2>1. raw \in [Cells -> Nat]
    BY DEF DataOK
  <2>2. /\ NewFiles(R) \in Disks /\ NewFiles(R)[ManifestFile] # None
        /\ Complete(NewFiles(R))
        /\ \A m \in Months \ Rewritten(R) : disk[m] = NewFiles(R)[m]
    BY <1>1, <2>1, NewFilesAreComplete
  <2>3. Todo(p)' = Rewritten(R) \cup {ManifestFile}
    BY <1>3, <1>9 DEF Todo
  <2>4. \A t \in Targets \ Todo(p)' : t \in Months \ Rewritten(R)
    BY <2>3 DEF Targets
  <2>5. \A t \in Targets \ Todo(p)' : disk'[t] = NewFiles(R)[t]
    BY <1>2, <2>2, <2>4
  <2>6. PICK n : n = NewFiles(R)
    OBVIOUS
  <2>7. NewOK(n, Todo(p))'
    BY <2>2, <2>5, <2>6 DEF NewOK, Complete
  <2> QED BY <1>9, <2>6, <2>7
<1>14. call'[p].at \in FilePoints /\ call'[p].at \notin FreePoints \cup QuietPoints
  BY <1>9 DEF FilePoints, FreePoints, QuietPoints
<1>15. ~HasPlan(p)'
  BY <1>9 DEF HasPlan
<1>16. Todo(p)' \subseteq Artifacts'
  BY <1>3, <1>7, <1>9 DEF Todo
<1>17. CallOK(p)'
  BY <1>1, <1>2, <1>3, <1>6, <1>9, <1>13, <1>14, <1>15, <1>16 DEF CallOK
<1> QED BY <1>8, <1>11, <1>12, <1>17 DEF Keeps

\* The call is refused, or returns.
LEMMA RefuseKeeps ==
    ASSUME NEW p \in Procs, DataOK, JournalOK, CallOK(p), call[p].at \in QuietPoints, Refuse(p)
    PROVE  Keeps(p)
BY AtOpen, LeaveKeeps DEF Refuse, Settled

LEMMA MaterializeKeeps ==
    ASSUME NEW p \in Procs, DataOK, JournalOK, CallOK(p), Materialize(p)
    PROVE  Keeps(p)
<1>1. call[p].at = "OPEN" /\ (Refuse(p) \/ Begin(p, call[p].range))
  BY DEF Materialize, At
<1> QED BY <1>1, BeginKeeps, RefuseKeeps DEF QuietPoints

LEMMA MaterializeIncrementalKeeps ==
    ASSUME NEW p \in Procs, DataOK, JournalOK, CallOK(p), MaterializeIncremental(p)
    PROVE  Keeps(p)
<1>1. call[p].at = "OPEN" /\ (Refuse(p) \/ Begin(p, Rebuilt(call[p].range)))
  BY DEF MaterializeIncremental, At
<1> QED BY <1>1, BeginKeeps, RefuseKeeps DEF QuietPoints

\* No transaction leaves anything for the verification before it to find.
LEMMA NothingIsFound ==
    ASSUME NEW p \in Procs, DataOK, JournalOK, CallOK(p)
    PROVE  ~FindInvalid(p)
<1> SUFFICES ASSUME FindInvalid(p) PROVE FALSE
  OBVIOUS
<1>1. /\ call[p].at = "OPEN" /\ Unchanged(call[p].range)
      /\ Outcome(FALSE) = "INVALID"
  BY DEF FindInvalid, At
<1>2. Complete(disk) /\ manifest # None
  BY <1>1, AtOpen DEF QuietPoints, Unchanged
<1>3. \A m \in Months : disk[m] = manifest.parts[m]
  BY <1>2 DEF Complete, manifest
<1>4. manifest.src = raw /\ manifest.state = "COMPLETE"
  BY <1>1 DEF Unchanged
<1> QED BY <1>1, <1>3, <1>4 DEF Outcome

LEMMA AtPromote ==
    ASSUME NEW p \in Procs, DataOK, JournalOK, CallOK(p), call[p].at = "PROMOTE"
    PROVE  /\ lock = p /\ journal \in Journals /\ journal # None /\ journal.state = "PREPARED"
           /\ IsCall(call[p]) /\ PreparedOK /\ NewOK(call[p].new, Todo(p))
           /\ call[p].next = "OVER" /\ call[p].todo \in Seq(Targets)
           /\ Todo(p) \subseteq Artifacts /\ Artifacts \subseteq Targets
<1>1. lock = p /\ journal \in Journals /\ IsCall(call[p]) /\ call[p].todo \in Seq(Targets)
      /\ Todo(p) \subseteq Artifacts
  BY AtFile DEF FilePoints
<1>2. journal # None /\ journal.state = "PREPARED"
  BY <1>1, NoneIsNothing DEF CallOK
<1>3. PreparedOK
  BY <1>2 DEF JournalOK
<1>4. NewOK(call[p].new, Todo(p)) /\ call[p].next = "OVER"
  BY DEF CallOK
<1>5. Artifacts \subseteq Targets
  BY <1>1, JournalFields, ElementsIn DEF Artifacts
<1> QED BY <1>1, <1>2, <1>3, <1>4, <1>5

LEMMA LinkKeeps ==
    ASSUME NEW p \in Procs, DataOK, JournalOK, CallOK(p), Link(p)
    PROVE  Keeps(p)
<1>0. PICK t : t = Head(call[p].todo)
  OBVIOUS
<1>1. /\ call[p].at = "PROMOTE" /\ call[p].todo # <<>> /\ t \in journal.had /\ backup[t] = None
      /\ backup' = Put(backup, t, disk[t])
      /\ UNCHANGED <<raw, disk, journal, runs, lock, call, committed>>
  BY <1>0 DEF Link, At, Put
<1>2. /\ lock = p /\ journal \in Journals /\ journal # None /\ journal.state = "PREPARED"
      /\ IsCall(call[p]) /\ PreparedOK /\ NewOK(call[p].new, Todo(p))
      /\ call[p].next = "OVER" /\ call[p].todo \in Seq(Targets)
      /\ Todo(p) \subseteq Artifacts /\ Artifacts \subseteq Targets
  BY <1>1, AtPromote
<1>3. t \in Artifacts /\ t \in Targets
  BY <1>0, <1>1, AtFile DEF FilePoints
<1>4. backup \in Disks /\ disk \in Disks /\ call = [x \in Procs |-> call[x]]
  BY DEF DataOK
<1>5. /\ t \in Months => disk[t] \in Contents
      /\ t = ManifestFile => disk[t] \in Undamaged \cup {None}
  BY <1>4, DiskFields
<1>6. /\ backup' \in Disks /\ backup'[t] = disk[t]
      /\ \A u \in Targets : u # t => backup'[u] = backup[u]
  BY <1>1, <1>3, <1>4, <1>5, DiskPut
<1>7. Artifacts' = Artifacts /\ Todo(p)' = Todo(p)
  BY <1>1 DEF Artifacts, Todo
<1>8. PreparedOK'
  <2>1. \A u \in Targets : Originals'[u] = Originals[u]
    BY <1>1, <1>6 DEF Originals
  <2>2. Originals' = Originals
    BY <2>1 DEF Originals
  <2>3. Agrees(Originals)'
    BY <1>1, <1>2, <2>2 DEF PreparedOK, Agrees
  <2>4. \A u \in Targets : backup'[u] # None => u \in journal.had
    BY <1>1, <1>2, <1>6 DEF PreparedOK
  <2>5. \A u \in Targets \ Artifacts : Undoes(u)'
    BY <1>1, <1>2, <1>3, <1>6 DEF PreparedOK, Undoes
  <2> QED BY <1>1, <1>7, <2>3, <2>4, <2>5 DEF PreparedOK
<1>9. JournalOK'
  BY <1>1, <1>2, <1>8 DEF JournalOK, Settled
<1>10. DataOK'
  BY <1>1, <1>6 DEF DataOK, Complete
<1>11. NewOK(call[p].new, Todo(p))'
  BY <1>1, <1>2, <1>7 DEF NewOK, Complete
<1>12. call[p].at \in FilePoints /\ call[p].at \notin FreePoints \cup QuietPoints
  BY <1>1 DEF FilePoints, FreePoints, QuietPoints
<1>13. ~HasPlan(p)'
  BY <1>1 DEF HasPlan
<1>14. CallOK(p)'
  BY <1>1, <1>2, <1>7, <1>11, <1>12, <1>13 DEF CallOK
<1>15. Alone(p)
  BY <1>1, <1>2, NoneIsNothing DEF Alone
<1> QED BY <1>9, <1>10, <1>14, <1>15 DEF Keeps

LEMMA PromoteKeeps ==
    ASSUME NEW p \in Procs, DataOK, JournalOK, CallOK(p), Promote(p)
    PROVE  Keeps(p)
<1>0. PICK t, n : t = Head(call[p].todo) /\ n = call[p].new
  OBVIOUS
<1>1. /\ call[p].at = "PROMOTE" /\ call[p].todo # <<>>
      /\ t \in journal.had => backup[t] # None
      /\ disk' = Put(disk, t, n[t])
      /\ Goto(p, [call[p] EXCEPT !.todo = Tail(call[p].todo)])
      /\ UNCHANGED <<raw, backup, journal, runs, lock, committed>>
  BY <1>0 DEF Promote, At, Put
<1>2. /\ lock = p /\ journal \in Journals /\ journal # None /\ journal.state = "PREPARED"
      /\ IsCall(call[p]) /\ PreparedOK /\ NewOK(n, Todo(p))
      /\ call[p].next = "OVER" /\ Todo(p) \subseteq Artifacts /\ Artifacts \subseteq Targets
  BY <1>0, <1>1, AtPromote
<1>3. /\ t \in Artifacts /\ t \in Targets /\ Tail(call[p].todo) \in Seq(Targets)
      /\ ToSet(Tail(call[p].todo)) \subseteq Artifacts
      /\ Todo(p) = ToSet(Tail(call[p].todo)) \cup {t}
  BY <1>0, <1>1, AtFile DEF FilePoints
<1>4. disk \in Disks /\ n \in Disks
  BY <1>2 DEF DataOK, NewOK
<1>5. /\ t \in Months => n[t] \in Contents
      /\ t = ManifestFile => n[t] \in Undamaged \cup {None}
  BY <1>4, DiskFields
<1>6. /\ disk' \in Disks /\ disk'[t] = n[t]
      /\ \A u \in Targets : u # t => disk'[u] = disk[u]
  BY <1>1, <1>3, <1>4, <1>5, DiskPut
<1>7. /\ call'[p] = [call[p] EXCEPT !.todo = Tail(call[p].todo)]
      /\ call' = [x \in Procs |-> call'[x]] /\ Alone(p)
  BY <1>1, <1>2, Solo DEF DataOK
<1>8. /\ IsCall(call'[p]) /\ call'[p].at = "PROMOTE" /\ call'[p].next = "OVER"
      /\ call'[p].new = n /\ call'[p].todo = Tail(call[p].todo)
  BY <1>0, <1>1, <1>2, <1>7 DEF IsCall, Fresh
<1>9. Artifacts' = Artifacts /\ Todo(p)' = ToSet(Tail(call[p].todo))
  BY <1>1, <1>8 DEF Artifacts, Todo
<1>10. PreparedOK'
  <2>1. \A u \in Targets : Originals'[u] = Originals[u]
    BY <1>1, <1>2, <1>6 DEF Originals, PreparedOK
  <2>2. Originals' = Originals
    BY <2>1 DEF Originals
  <2>3. Agrees(Originals)'
    BY <1>1, <1>2, <2>2 DEF PreparedOK, Agrees
  <2>4. \A u \in Targets \ Artifacts : Undoes(u)'
    BY <1>1, <1>2, <1>3, <1>6 DEF PreparedOK, Undoes
  <2> QED BY <1>1, <1>2, <1>9, <2>3, <2>4 DEF PreparedOK
<1>11. JournalOK'
  BY <1>1, <1>2, <1>10 DEF JournalOK, Settled
<1>12. DataOK'
  BY <1>1, <1>6, <1>7 DEF DataOK, Complete
<1>13. NewOK(call[p].new, Todo(p))'
  <2>1. \A u \in Targets \ Todo(p)' : disk'[u] = n[u]
    BY <1>2, <1>3, <1>6, <1>9 DEF NewOK
  <2>2. NewOK(n, Todo(p))'
    BY <1>2, <2>1 DEF NewOK, Complete
  <2> QED BY <1>8, <2>2
<1>14. call'[p].at \in FilePoints /\ call'[p].at \notin FreePoints \cup QuietPoints
  BY <1>8 DEF FilePoints, FreePoints, QuietPoints
<1>15. ~HasPlan(p)'
  BY <1>8 DEF HasPlan
<1>16. CallOK(p)'
  BY <1>1, <1>2, <1>3, <1>8, <1>9, <1>13, <1>14, <1>15 DEF CallOK
<1> QED BY <1>7, <1>11, <1>12, <1>16 DEF Keeps

\* All is promoted: what is on disk is what was to be there.
LEMMA SealKeeps ==
    ASSUME NEW p \in Procs, DataOK, JournalOK, CallOK(p), Seal(p)
    PROVE  Keeps(p)
<1>1. /\ call[p].at = "PROMOTE" /\ call[p].todo = <<>>
      /\ journal' = [journal EXCEPT !.state = "COMMITTED"] /\ committed' = disk
      /\ Goto(p, [call[p] EXCEPT !.at = "CLEAN", !.todo = journal.arts])
      /\ UNCHANGED <<raw, disk, backup, runs, lock>>
  BY DEF Seal, At
<1>2. /\ lock = p /\ journal \in Journals /\ journal # None
      /\ IsCall(call[p]) /\ PreparedOK /\ NewOK(call[p].new, Todo(p))
      /\ call[p].next = "OVER" /\ Artifacts \subseteq Targets
  BY <1>1, AtPromote
<1>3. Todo(p) = {}
  BY <1>1, EmptyElements DEF Todo
<1>4. disk \in Disks /\ call[p].new \in Disks
  BY <1>2 DEF DataOK, NewOK
<1>5. \A t \in Targets : disk[t] = call[p].new[t]
  BY <1>2, <1>3 DEF NewOK
<1>6. Complete(disk)
  <2>1. PICK n : n = call[p].new
    OBVIOUS
  <2>2. Complete(n) /\ \A t \in Targets : disk[t] = n[t]
    BY <1>2, <1>5, <2>1 DEF NewOK
  <2> QED BY <2>2, ZeroIsNoMonth DEF Complete
<1>7. /\ journal' \in Journals /\ journal' # None /\ journal'.state = "COMMITTED"
      /\ journal'.arts = journal.arts
  BY <1>1, <1>2, NoneIsNothing DEF Journals
<1>8. Artifacts' = Artifacts
  BY <1>7 DEF Artifacts
<1>9. /\ call'[p] = [call[p] EXCEPT !.at = "CLEAN", !.todo = journal.arts]
      /\ call' = [x \in Procs |-> call'[x]] /\ Alone(p)
  BY <1>1, <1>2, Solo
<1>10. /\ IsCall(call'[p]) /\ call'[p].at = "CLEAN" /\ call'[p].next = "OVER"
       /\ call'[p].todo = journal.arts
  BY <1>2, <1>9 DEF IsCall, Fresh
<1>11. CommittedOK'
  <2>1. Agrees(disk)'
    BY <1>1 DEF Agrees, Same
  <2>2. \A t \in Targets \ Artifacts : backup[t] = None
    BY <1>2 DEF PreparedOK, Undoes
  <2> QED BY <1>1, <1>8, <2>1, <2>2 DEF CommittedOK
<1>12. JournalOK'
  BY <1>7, <1>11 DEF JournalOK, Settled
<1>13. Complete(committed)'
  BY <1>1, <1>6 DEF Complete
<1>14. DataOK'
  BY <1>1, <1>4, <1>7, <1>9, <1>13 DEF DataOK
<1>15. Todo(p)' = Artifacts
  BY <1>10 DEF Todo, Artifacts
<1>16. call'[p].at \in FilePoints /\ call'[p].at \notin FreePoints \cup QuietPoints
  BY <1>10 DEF FilePoints, FreePoints, QuietPoints
<1>17. ~HasPlan(p)'
  BY <1>10 DEF HasPlan
<1>18. call'[p].todo \in Seq(Targets)
  BY <1>2, <1>10, JournalFields
<1>19. CallOK(p)'
  BY <1>1, <1>2, <1>7, <1>8, <1>10, <1>11, <1>15, <1>16, <1>17, <1>18 DEF CallOK
<1> QED BY <1>9, <1>12, <1>14, <1>19 DEF Keeps

\* A step of the transaction raises, the write of COMMITTED perhaps after the
\* file is in place: all of it is undone.
LEMMA StepFailsKeeps ==
    ASSUME NEW p \in Procs, DataOK, JournalOK, CallOK(p), StepFails(p) \/ SealFails(p)
    PROVE  Keeps(p)
<1>1. /\ call[p].at = "PROMOTE"
      /\ Goto(p, [call[p] EXCEPT !.at = "UNDO", !.todo = UndoOf(journal)])
      /\ UNCHANGED <<raw, disk, backup, runs, lock, committed>>
      /\ journal' = journal \/ journal' = [journal EXCEPT !.state = "COMMITTED"]
  BY DEF StepFails, SealFails, RollBack, At, files
<1>2. /\ lock = p /\ journal \in Journals /\ journal # None /\ journal.state = "PREPARED"
      /\ IsCall(call[p]) /\ call[p].next = "OVER" /\ PreparedOK
  BY <1>1, AtPromote
<1>3. /\ call'[p] = [call[p] EXCEPT !.at = "UNDO", !.todo = UndoOf(journal)]
      /\ call' = [x \in Procs |-> call'[x]] /\ Alone(p)
  BY <1>1, <1>2, Solo
<1>4. /\ IsCall(call'[p]) /\ call'[p].at = "UNDO" /\ call'[p].next = "OVER"
      /\ call'[p].todo = UndoOf(journal)
  BY <1>2, <1>3 DEF IsCall, Fresh
<1>5. /\ journal' \in Journals /\ journal' # None
      /\ journal'.arts = journal.arts /\ journal'.had = journal.had
  <2>1. CASE journal' = journal
    BY <1>2, <2>1
  <2>2. CASE journal' = [journal EXCEPT !.state = "COMMITTED"]
    BY <1>2, <2>2, NoneIsNothing DEF Journals
  <2> QED BY <1>1, <2>1, <2>2
<1>6. Artifacts' = Artifacts
  BY <1>5 DEF Artifacts
<1>7. PreparedOK'
  <2>1. \A t \in Targets : Originals'[t] = Originals[t]
    BY <1>1, <1>5 DEF Originals
  <2>2. Originals' = Originals
    BY <2>1 DEF Originals
  <2>3. Agrees(Originals)'
    BY <1>1, <1>2, <2>2 DEF PreparedOK, Agrees
  <2>4. \A t \in Targets \ Artifacts : Undoes(t)'
    BY <1>1, <1>2, <1>5 DEF PreparedOK, Undoes
  <2> QED BY <1>1, <1>2, <1>5, <1>6, <2>3, <2>4 DEF PreparedOK
<1>8. JournalOK'
  BY <1>1, <1>2, <1>5, <1>7, NoneIsNothing DEF JournalOK
<1>9. DataOK'
  BY <1>1, <1>3, <1>5 DEF DataOK, Complete
<1>10. call'[p].todo \in Seq(Targets) /\ Todo(p)' = Artifacts
  BY <1>2, <1>4, JournalFields DEF Todo, Artifacts
<1>11. call'[p].at \in FilePoints /\ call'[p].at \notin FreePoints \cup QuietPoints
  BY <1>4 DEF FilePoints, FreePoints, QuietPoints
<1>12. ~HasPlan(p)'
  BY <1>4 DEF HasPlan
<1>13. CallOK(p)'
  BY <1>1, <1>2, <1>4, <1>5, <1>6, <1>7, <1>10, <1>11, <1>12 DEF CallOK
<1> QED BY <1>3, <1>8, <1>9, <1>13 DEF Keeps

-----------------------------------------------------------------------------
(* Verification and snapshots *)

\* No transaction leaves anything for a verification to find INVALID.
LEMMA WhatIsFound ==
    ASSUME DataOK, Complete(disk), manifest # None
    PROVE  Outcome(TRUE) \in {"COMPLETE", "STALE"}
<1>1. manifest \in Undamaged
  BY DiskFields DEF DataOK, manifest
<1>2. manifest.state \in {"COMPLETE", "STALE"}
  BY <1>1 DEF Undamaged
<1>3. \A m \in Months : disk[m] = manifest.parts[m]
  BY DEF Complete, manifest
<1> QED BY <1>2, <1>3 DEF Outcome

\* The state in the manifest changes nothing else.
WithState(a, s) == [a EXCEPT !.state = s]

LEMMA StateOnly ==
    ASSUME NEW a \in Undamaged, NEW s \in {"COMPLETE", "STALE"}, NEW b, b = WithState(a, s)
    PROVE  /\ b \in Undamaged /\ b.parts = a.parts /\ b.sources = a.sources
           /\ \A z \in Undamaged : Same(a, z) => Same(b, z)
<1>1. PICK src \in [Cells -> Nat], sources \in [Months -> Contents],
           parts \in [Months -> Contents], state \in {"COMPLETE", "STALE"} :
        a = [src |-> src, sources |-> sources, parts |-> parts, state |-> state]
  BY DEF Undamaged
<1>2. b = [src |-> src, sources |-> sources, parts |-> parts, state |-> s]
  BY <1>1 DEF WithState
<1>3. b \in Undamaged
  BY <1>2 DEF Undamaged
<1>4. ASSUME NEW z \in Undamaged, Same(a, z) PROVE Same(b, z)
  <2>1. PICK zsrc \in [Cells -> Nat], zsources \in [Months -> Contents],
             zparts \in [Months -> Contents], zstate \in {"COMPLETE", "STALE"} :
          z = [src |-> zsrc, sources |-> zsources, parts |-> zparts, state |-> zstate]
    BY DEF Undamaged
  <2>2. [a EXCEPT !.state = z.state] = z
    BY <1>1, <1>4, <2>1 DEF Same
  <2>3. [b EXCEPT !.state = z.state] = [a EXCEPT !.state = z.state]
    BY <1>1, <1>2
  <2> QED BY <1>3, <2>2, <2>3, NoneIsNothing DEF Same
<1> QED BY <1>1, <1>2, <1>3, <1>4

LEMMA VerifyKeeps ==
    ASSUME NEW p \in Procs, DataOK, JournalOK, CallOK(p), Verify(p)
    PROVE  Keeps(p)
<1>1. call[p].at = "OPEN"
  BY DEF Verify, At
<1>2. CASE Refuse(p)
  BY <1>1, <1>2, RefuseKeeps DEF QuietPoints
<1>3. CASE /\ manifest # None
           /\ disk' = [disk EXCEPT ![ManifestFile].state = Outcome(TRUE)]
           /\ Goto(p, [call[p] EXCEPT !.at = "VERIFIED", !.result = Outcome(TRUE)])
           /\ UNCHANGED <<raw, backup, journal, runs, lock, snaps, committed, harm>>
  <2>0. PICK o, a, b : o = Outcome(TRUE) /\ a = manifest /\ b = [a EXCEPT !.state = o]
    OBVIOUS
  <2>1. /\ lock = p /\ journal = None /\ IsCall(call[p])
        /\ disk \in Disks /\ Agrees(disk) /\ Complete(disk)
        /\ \A t \in Targets : backup[t] = None
        /\ call[p].range \in Ranges
    BY <1>1, AtOpen DEF QuietPoints
  <2>2. a \in Undamaged /\ a = disk[ManifestFile]
    BY <1>3, <2>0, <2>1, DiskFields DEF manifest
  <2>3. o \in {"COMPLETE", "STALE"}
    BY <1>3, <2>0, <2>1, WhatIsFound
  <2>4. /\ b \in Undamaged /\ b.parts = a.parts /\ b.sources = a.sources
        /\ \A z \in Undamaged : Same(a, z) => Same(b, z)
    <3>1. b = WithState(a, o)
      BY <2>0 DEF WithState
    <3> QED BY <2>2, <2>3, <3>1, StateOnly
  <2>5. disk' = Put(disk, ManifestFile, b)
    BY <1>3, <2>0, <2>2 DEF Put
  <2>6. /\ disk' \in Disks /\ disk'[ManifestFile] = b
        /\ \A u \in Targets : u # ManifestFile => disk'[u] = disk[u]
    BY <2>1, <2>4, <2>5, DiskPut, ZeroIsNoMonth
  <2>7. \A m \in Months : disk'[m] = disk[m]
    BY <2>6, ZeroIsNoMonth
  <2>8. /\ call'[p] = [call[p] EXCEPT !.at = "VERIFIED", !.result = o]
        /\ call' = [x \in Procs |-> call'[x]] /\ Alone(p)
    BY <1>3, <2>0, <2>1, Solo
  <2>9. IsCall(call'[p]) /\ call'[p].at = "VERIFIED" /\ call'[p].result = o
    BY <2>1, <2>8 DEF IsCall, Fresh
  <2>10. Agrees(disk)'
    <3>1. /\ Same(a, committed[ManifestFile])
          /\ committed[ManifestFile] \in Undamaged \cup {None}
      BY <2>1, <2>2, DiskFields DEF Agrees, DataOK
    <3>2. a # None
      BY <2>2, NoneIsNothing
    <3>3. committed[ManifestFile] \in Undamaged
      BY <2>2, <3>1, <3>2, SameManifest
    <3>4. Same(b, committed[ManifestFile])
      BY <2>4, <3>1, <3>3
    <3> QED BY <1>3, <2>1, <2>6, <2>7, <3>4 DEF Agrees
  <2>11. JournalOK'
    BY <1>3, <2>1, <2>10, NoneIsNothing DEF JournalOK, Settled
  <2>12. DataOK'
    BY <1>3, <2>6, <2>8 DEF DataOK, Complete
  <2>13. call'[p].at \in QuietPoints /\ call'[p].at \notin FilePoints
    BY <2>9 DEF QuietPoints, FilePoints
  <2>14. ~HasPlan(p)'
    BY <2>9 DEF HasPlan
  <2>15. journal' = None /\ lock' = p
    BY <1>3, <2>1
  <2>16. CallOK(p)'
    BY <2>9, <2>13, <2>14, <2>15 DEF CallOK
  <2> QED BY <2>8, <2>11, <2>12, <2>16 DEF Keeps
<1> QED BY <1>2, <1>3 DEF Verify

LEMMA ReturnKeeps ==
    ASSUME NEW p \in Procs, DataOK, JournalOK, CallOK(p), Return(p)
    PROVE  Keeps(p)
BY RefuseKeeps DEF Return, At, QuietPoints

LEMMA StageKeeps ==
    ASSUME NEW p \in Procs, DataOK, JournalOK, CallOK(p), Stage(p)
    PROVE  Keeps(p)
<1>1. /\ call[p].at = "VERIFIED" /\ Goto(p, Work(p, "STAGED"))
      /\ UNCHANGED <<raw, files, runs, lock, committed>>
  BY DEF Stage, At
<1>2. lock = p /\ journal = None /\ IsCall(call[p])
  BY <1>1, AtOpen DEF QuietPoints
<1>3. call'[p] = Work(p, "STAGED") /\ call' = [x \in Procs |-> call'[x]] /\ Alone(p)
  BY <1>1, <1>2, Solo
<1>4. IsCall(call'[p]) /\ call'[p].at = "STAGED"
  BY <1>2, <1>3 DEF Work, IsCall, Fresh
<1>5. DataOK' /\ JournalOK'
  BY <1>1, <1>2, <1>3, FilesStay
<1>6. journal' = journal /\ lock' = lock
  BY <1>1 DEF files
<1>7. call'[p].at \in QuietPoints /\ call'[p].at \notin FilePoints
  BY <1>4 DEF QuietPoints, FilePoints
<1>8. ~HasPlan(p)'
  BY <1>4 DEF HasPlan
<1>9. CallOK(p)'
  BY <1>2, <1>4, <1>6, <1>7, <1>8 DEF CallOK
<1> QED BY <1>3, <1>5, <1>9 DEF Keeps

LEMMA PublishKeeps ==
    ASSUME NEW p \in Procs, DataOK, JournalOK, CallOK(p), Publish(p) \/ StagingFails(p)
    PROVE  Keeps(p)
<1>1. call[p].at = "STAGED" /\ Leave(p) /\ UNCHANGED <<raw, files, runs, committed>>
  BY DEF Publish, StagingFails, At
<1>2. lock = p
  BY <1>1, AtOpen DEF QuietPoints
<1>3. journal = None
  BY <1>1, AtOpen DEF QuietPoints
<1> QED BY <1>1, <1>2, <1>3, LeaveKeeps DEF Settled

-----------------------------------------------------------------------------
(* Every step *)

LEMMA CrashKeeps ==
    ASSUME NEW p \in Procs, DataOK, JournalOK, CallOK(p), Crash(p), ~torn'
    PROVE  Keeps(p)
<1>1. /\ lock = p /\ Leave(p) /\ UNCHANGED <<raw, files, runs, committed>>
      /\ ~(call[p].at = "UNDO" /\ journal.state = "COMMITTED")
  BY DEF Crash, At
<1>2. Settled
  <2>1. call[p].at \in {"UNDO", "CLEAN", "PROMOTE", "OPEN", "VERIFIED", "STAGED"}
    BY <1>1 DEF CallOK, FilePoints, QuietPoints
  <2>2. CASE call[p].at \in QuietPoints
    BY <2>2, AtOpen DEF Settled
  <2>3. CASE call[p].at \in {"UNDO", "CLEAN", "PROMOTE"}
    BY <1>1, <2>3 DEF CallOK, Settled
  <2> QED BY <2>1, <2>2, <2>3 DEF QuietPoints
<1> QED BY <1>1, <1>2, LeaveKeeps

LEMMA StepKeeps ==
    ASSUME NEW p \in Procs, DataOK, JournalOK, CallOK(p), Step(p), ~torn'
    PROVE  Keeps(p)
<1>1. CASE ReadJournal(p) \/ RecoverFound(p) \/ Enter(p) \/ LockTimeout(p)
  BY <1>1, ReadJournalKeeps, RecoverFoundKeeps, EnterKeeps, LockTimeoutKeeps
<1>2. CASE \E R \in Ranges, op \in {"MATERIALIZE", "INCREMENTAL", "VERIFY", "SNAPSHOT"} :
             Plan(p, R, op)
  BY <1>2, PlanKeeps
<1>3. CASE Undo(p) \/ Clean(p) \/ DropJournal(p)
  BY <1>3, UndoKeeps, CleanKeeps, DropJournalKeeps
<1>4. CASE Materialize(p) \/ FindInvalid(p) \/ MaterializeIncremental(p)
  BY <1>4, MaterializeKeeps, NothingIsFound, MaterializeIncrementalKeeps
<1>5. CASE Link(p) \/ Promote(p) \/ Seal(p)
  BY <1>5, LinkKeeps, PromoteKeeps, SealKeeps
<1>6. CASE Verify(p) \/ Return(p) \/ Stage(p) \/ Publish(p)
  BY <1>6, VerifyKeeps, ReturnKeeps, StageKeeps, PublishKeeps
<1>7. CASE StepFails(p) \/ SealFails(p) \/ StagingFails(p) \/ Crash(p)
  BY <1>7, StepFailsKeeps, PublishKeeps, CrashKeeps
<1> QED BY <1>1, <1>2, <1>3, <1>4, <1>5, <1>6, <1>7 DEF Step

\* RAW changes while nobody has the locks.
LEMMA IngestKeeps ==
    ASSUME IInv, NEW c \in Cells, Ingest(c)
    PROVE  IInv'
<1>1. /\ lock = None /\ raw' = [raw EXCEPT ![c] = @ + 1]
      /\ UNCHANGED <<disk, backup, journal, runs, lock, call, committed>>
  BY DEF Ingest, files
<1>2. DataOK /\ JournalOK /\ \A x \in Procs : CallOK(x)
  BY DEF IInv
<1>3. raw' \in [Cells -> Nat]
  BY <1>1, <1>2 DEF DataOK
<1>4. DataOK'
  BY <1>1, <1>2, <1>3 DEF DataOK, Complete
<1>5. JournalOK'
  BY <1>1, <1>2, FilesSay DEF JournalOK, Agrees
<1>6. ASSUME NEW x \in Procs PROVE CallOK(x)'
  <2>1. lock # x /\ lock' # x /\ call'[x] = call[x]
    BY <1>1, NoneIsNothing
  <2>2. call[x].at \in FreePoints /\ (call[x].at \notin {"IDLE", "FOUND"} => IsCall(call[x]))
        /\ (call[x].at = "PLANNED" => call[x].range \in Ranges)
    BY <1>2, <2>1 DEF CallOK, HasPlan
  <2> QED BY <2>1, <2>2, FreeCall
<1> QED BY <1>4, <1>5, <1>6 DEF IInv

\* What is torn stays so.
LEMMA TornStays == torn /\ [Next]_vars => torn'
<1> SUFFICES ASSUME torn, [Next]_vars PROVE torn'
  OBVIOUS
<1>1. CASE UNCHANGED vars
  BY <1>1 DEF vars
<1>2. CASE \E c \in Cells : Ingest(c)
  BY <1>2 DEF Ingest, harm
<1>3. ASSUME NEW p \in Procs, Step(p) PROVE torn'
  <2>1. CASE ReadJournal(p) \/ RecoverFound(p) \/ Enter(p) \/ LockTimeout(p)
    BY <2>1 DEF ReadJournal, RecoverFound, Enter, LockTimeout, harm
  <2>2. CASE \E R \in Ranges, op \in {"MATERIALIZE", "INCREMENTAL", "VERIFY", "SNAPSHOT"} :
               Plan(p, R, op)
    BY <2>2 DEF Plan, harm
  <2>3. CASE Undo(p) \/ Clean(p) \/ DropJournal(p)
    BY <2>3 DEF Undo, Clean, DropJournal, harm
  <2>4. CASE Materialize(p) \/ FindInvalid(p) \/ MaterializeIncremental(p)
    BY <2>4 DEF Materialize, FindInvalid, MaterializeIncremental, Refuse, Begin, harm
  <2>5. CASE Link(p) \/ Promote(p) \/ Seal(p)
    BY <2>5 DEF Link, Promote, Seal, harm
  <2>6. CASE Verify(p) \/ Return(p) \/ Stage(p) \/ Publish(p)
    BY <2>6 DEF Verify, Return, Refuse, Stage, Publish, harm
  <2>7. CASE StepFails(p) \/ SealFails(p) \/ StagingFails(p) \/ Crash(p)
    BY <2>7 DEF StepFails, SealFails, StagingFails, Crash
  <2> QED BY <1>3, <2>1, <2>2, <2>3, <2>4, <2>5, <2>6, <2>7 DEF Step
<1> QED BY <1>1, <1>2, <1>3 DEF Next

LEMMA NextKeeps == (torn \/ IInv) /\ [Next]_vars => torn' \/ IInv'
<1> SUFFICES ASSUME IInv, ~torn', [Next]_vars PROVE IInv'
  BY TornStays
<1>1. DataOK /\ JournalOK /\ \A x \in Procs : CallOK(x)
  BY DEF IInv
<1>2. CASE UNCHANGED vars
  <2>1. UNCHANGED <<raw, disk, backup, journal, runs, lock, call, committed>>
    BY <1>2 DEF vars
  <2>2. DataOK'
    BY <1>1, <2>1 DEF DataOK, Complete
  <2>3. JournalOK'
    BY <1>1, <2>1, FilesSay DEF JournalOK, Agrees
  <2>4. ASSUME NEW x \in Procs PROVE CallOK(x)'
    BY <1>1, <2>1, FilesSay
       DEF CallOK, HasPlan, Todo, Artifacts, Undoes, NewOK, Complete
  <2> QED BY <2>2, <2>3, <2>4 DEF IInv
<1>3. CASE \E c \in Cells : Ingest(c)
  BY <1>3, IngestKeeps
<1>4. ASSUME NEW p \in Procs, Step(p) PROVE IInv'
  <2>1. Keeps(p)
    BY <1>1, <1>4, StepKeeps
  <2>2. ASSUME NEW x \in Procs PROVE CallOK(x)'
    BY <1>1, <2>1, OthersStay DEF Keeps
  <2> QED BY <2>1, <2>2 DEF IInv, Keeps
<1> QED BY <1>2, <1>3, <1>4 DEF Next

LEMMA InitHolds == Init => IInv
<1> SUFFICES ASSUME Init PROVE IInv
  OBVIOUS
<1>1. /\ raw = [c \in Cells |-> 0] /\ disk = [t \in Targets |-> None]
      /\ backup = [t \in Targets |-> None] /\ committed = [t \in Targets |-> None]
      /\ journal = None /\ runs = 0 /\ lock = None /\ call = [p \in Procs |-> Idle]
  BY DEF Init
<1>2. [t \in Targets |-> None] \in Disks
  BY ZeroIsNoMonth, NoneIsNothing DEF Disks
<1>3. committed[ManifestFile] = None /\ \A m \in Months : committed[m] = None
  BY <1>1, ZeroIsNoMonth
<1>4. Complete(committed)
  BY <1>3 DEF Complete
<1>5. call = [p \in Procs |-> call[p]]
  BY <1>1
<1>6. raw \in [Cells -> Nat]
  BY <1>1
<1>7. DataOK
  BY <1>1, <1>2, <1>4, <1>5, <1>6 DEF DataOK
<1>8. Agrees(disk)
  BY <1>1 DEF Agrees, Same
<1>9. JournalOK
  BY <1>1, <1>8 DEF JournalOK, Settled
<1>10. ASSUME NEW p \in Procs PROVE CallOK(p)
  <2>1. call[p].at = "IDLE" /\ lock # p
    BY <1>1, NoneIsNothing DEF Idle
  <2> QED BY <2>1 DEF CallOK, FreePoints, FilePoints, QuietPoints, HasPlan
<1> QED BY <1>7, <1>9, <1>10 DEF IInv

LEMMA InvariantHolds == Spec => [](torn \/ IInv)
BY InitHolds, NextKeeps, PTL DEF Spec

\* Whatever ends half-way, fails or is recovered by somebody else: the dataset is
\* that of the last committed transaction as soon as no journal is there, and the
\* originals that a transaction put aside are named by its journal (the promotion,
\* _rollback_artifacts and _recover_path_locked of derived.py). It is lost only
\* when the write of COMMITTED fails after its file is in place and the process
\* ends before it has undone the files.
THEOREM NothingIsEverLost == Spec => []NothingIsLost
<1>1. IInv => NothingIsLost
  <2> SUFFICES ASSUME IInv PROVE NothingIsLost
    OBVIOUS
  <2>1. DataOK /\ JournalOK
    BY DEF IInv
  <2>2. TypeOK /\ NeverInvalid
    <3>1. Undamaged \subseteq Manifests /\ \A m \in Undamaged : m.state # "INVALID"
      BY DEF Undamaged, Manifests
    <3> QED BY <2>1, <3>1, DiskFields DEF DataOK, TypeOK, NeverInvalid, manifest
  <2>3. RecoveredIsCommitted
    BY <2>1 DEF JournalOK, Agrees, RecoveredIsCommitted, manifest
  <2>4. BackupsAreCovered
    <3> SUFFICES ASSUME NEW t \in Targets, backup[t] # None
                 PROVE  journal # None /\ t \in Artifacts
      BY DEF BackupsAreCovered, Artifacts
    <3>1. journal # None
      BY <2>1 DEF JournalOK
    <3>2. journal.state \in {"PREPARED", "COMMITTED"}
      BY <2>1, <3>1, JournalFields DEF DataOK
    <3>3. PreparedOK \/ CommittedOK
      <4>1. CASE lock = None
        BY <2>1, <3>1, <3>2, <4>1 DEF JournalOK, Settled
      <4>2. ASSUME NEW p \in Procs, lock = p PROVE PreparedOK \/ CommittedOK
        <5>1. CallOK(p)
          BY DEF IInv
        <5>2. call[p].at \in {"UNDO", "CLEAN", "PROMOTE"}
          BY <3>1, <4>2, <5>1 DEF CallOK, FilePoints
        <5> QED BY <2>1, <3>1, <5>1, <5>2 DEF CallOK, JournalOK
      <4> QED BY <2>1, <4>1, <4>2 DEF DataOK
    <3> QED BY <3>1, <3>3 DEF PreparedOK, CommittedOK, Undoes
  <2> QED BY <2>2, <2>3, <2>4 DEF NothingIsLost
<1>2. torn => NothingIsLost
  BY DEF NothingIsLost
<1> QED BY <1>1, <1>2, InvariantHolds, PTL

-----------------------------------------------------------------------------
(* What is verified, also when the dataset is torn *)

\* Whatever the partitions are, the manifest tells the sources of what it names.
IsManifest(f) == DOMAIN f = {"src", "sources", "parts", "state"}
Tells(f) == f # None => IsManifest(f) /\ f.sources = f.parts

\* What a verified dataset has in its rows is what RAW has there.
Current == \A c \in Rows : disk[c[1]][c[2]] = raw[c]

LockPoints == {"UNDO", "CLEAN", "PROMOTE", "OPEN", "VERIFIED", "STAGED"}
FilesTell == /\ raw \in [Cells -> Nat]
             /\ DOMAIN disk = Targets /\ DOMAIN backup = Targets
             /\ Tells(disk[ManifestFile]) /\ Tells(backup[ManifestFile])
             /\ call = [p \in Procs |-> call[p]]
\* Of a process: only who holds the locks is beyond them.
Knows(p) ==
    /\ call[p].at \notin {"IDLE", "FOUND"} => IsCall(call[p])
    /\ call[p].at \in LockPoints => lock = p
    /\ HasPlan(p) => call[p].range \in Ranges
    /\ call[p].at = "PROMOTE" => Tells(call[p].new[ManifestFile]) /\ call[p].next = "OVER"
    /\ call[p].at \in {"VERIFIED", "STAGED"} /\ call[p].result = "COMPLETE" => Current

Informed == FilesTell /\ \A p \in Procs : Knows(p)

\* What a step of p leaves; the others do not hold the locks, or see no change.
Tidy(p) == /\ FilesTell' /\ Knows(p)'
           /\ \A x \in Procs \ {p} : /\ call'[x] = call[x]
                                     /\ \/ UNCHANGED <<raw, disk, lock>>
                                        \/ lock # x

LEMMA OthersKnow ==
    ASSUME NEW p \in Procs, NEW x \in Procs \ {p}, Knows(x), Tidy(p)
    PROVE  Knows(x)'
<1>1. call'[x] = call[x] /\ (HasPlan(x)' <=> HasPlan(x))
  BY DEF Tidy, HasPlan
<1>2. CASE UNCHANGED <<raw, disk, lock>>
  BY <1>1, <1>2 DEF Knows, Current, Rows
<1>3. CASE lock # x
  <2>1. call[x].at \notin LockPoints
    BY <1>3 DEF Knows
  <2>2. call[x].at \notin {"PROMOTE", "VERIFIED", "STAGED"}
    BY <2>1 DEF LockPoints
  <2> QED BY <1>1, <2>1, <2>2 DEF Knows
<1> QED BY <1>2, <1>3 DEF Tidy

\* The process goes on with r.
LEMMA MovesOn ==
    ASSUME NEW p \in Procs, NEW r, FilesTell, Goto(p, r)
    PROVE  /\ call'[p] = r /\ call' = [x \in Procs |-> call'[x]]
           /\ \A x \in Procs \ {p} : call'[x] = call[x]
<1>1. call = [x \in Procs |-> call[x]] /\ call' = [call EXCEPT ![p] = r]
  BY DEF FilesTell, Goto
<1>2. DOMAIN call = Procs
  BY <1>1
<1> QED BY <1>1, <1>2

\* Nothing of the files changes, and the process is beyond the locks with them only.
LEMMA MoveIsTidy ==
    ASSUME NEW p \in Procs, NEW r, FilesTell, Goto(p, r), UNCHANGED <<raw, disk, backup>>,
           lock \in {p, None} \/ UNCHANGED lock,
           r.at \notin {"IDLE", "FOUND"} => IsCall(r),
           r.at \in LockPoints => lock' = p,
           r.at \in {"PLANNED", "OPEN"} => r.range \in Ranges,
           r.at \in {"UNDO", "CLEAN"} /\ r.next = "OPEN" => r.range \in Ranges,
           r.at = "PROMOTE" => Tells(r.new[ManifestFile]) /\ r.next = "OVER",
           r.at \in {"VERIFIED", "STAGED"} /\ r.result = "COMPLETE" => Current
    PROVE  Tidy(p)
<1>1. /\ call'[p] = r /\ call' = [x \in Procs |-> call'[x]]
      /\ \A x \in Procs \ {p} : call'[x] = call[x]
  BY MovesOn
<1>2. FilesTell'
  BY <1>1 DEF FilesTell
<1>3. Current' <=> Current
  BY DEF Current, Rows
<1>4. Knows(p)'
  BY <1>1, <1>3 DEF Knows, HasPlan
<1> QED BY <1>1, <1>2, <1>4, NoneIsNothing DEF Tidy

LEMMA IdleIsTidy ==
    ASSUME NEW p \in Procs, FilesTell, Goto(p, Idle), UNCHANGED <<raw, disk, backup>>,
           lock \in {p, None} \/ UNCHANGED lock
    PROVE  Tidy(p)
<1>1. Idle.at = "IDLE"
  BY DEF Idle
<1> QED BY <1>1, MoveIsTidy DEF LockPoints

LEMMA LeaveIsTidy ==
    ASSUME NEW p \in Procs, FilesTell, Leave(p), UNCHANGED <<raw, disk, backup>>, lock = p
    PROVE  Tidy(p)
BY IdleIsTidy DEF Leave

\* The process stays at its work: the files change, and the manifest still tells.
LEMMA WorkIsTidy ==
    ASSUME NEW p \in Procs, FilesTell, Knows(p), lock = p, UNCHANGED <<raw, lock>>,
           call[p].at \in {"UNDO", "CLEAN", "PROMOTE", "OPEN"},
           \/ UNCHANGED call
           \/ Goto(p, [call[p] EXCEPT !.todo = Tail(@)]),
           DOMAIN disk' = Targets, DOMAIN backup' = Targets,
           Tells(disk'[ManifestFile]), Tells(backup'[ManifestFile])
    PROVE  Tidy(p)
<1>1. IsCall(call[p])
  BY DEF Knows
<1>2. /\ call' = [x \in Procs |-> call'[x]]
      /\ \A x \in Procs \ {p} : call'[x] = call[x]
      /\ IsCall(call'[p]) /\ call'[p].at = call[p].at /\ call'[p].next = call[p].next
      /\ call'[p].range = call[p].range /\ call'[p].new = call[p].new
  <2>1. CASE UNCHANGED call
    BY <1>1, <2>1 DEF FilesTell
  <2>2. CASE Goto(p, [call[p] EXCEPT !.todo = Tail(@)])
    <3>1. /\ call'[p] = [call[p] EXCEPT !.todo = Tail(@)]
          /\ call' = [x \in Procs |-> call'[x]]
          /\ \A x \in Procs \ {p} : call'[x] = call[x]
      BY <2>2, MovesOn
    <3> QED BY <1>1, <3>1 DEF IsCall, Fresh
  <2> QED BY <2>1, <2>2
<1>3. FilesTell'
  BY <1>2 DEF FilesTell
<1>4. call[p].at \notin {"VERIFIED", "STAGED"}
  OBVIOUS
<1>5. HasPlan(p)' <=> HasPlan(p)
  BY <1>2 DEF HasPlan
<1>6. Knows(p)'
  BY <1>2, <1>4, <1>5 DEF Knows
<1> QED BY <1>2, <1>3, <1>6 DEF Tidy

\* One file changes.
LEMMA TellsPut ==
    ASSUME NEW d, NEW t, NEW f, DOMAIN d = Targets, Tells(d[ManifestFile]),
           t = ManifestFile => Tells(f)
    PROVE  /\ DOMAIN [d EXCEPT ![t] = f] = Targets
           /\ Tells([d EXCEPT ![t] = f][ManifestFile])
<1>1. [d EXCEPT ![t] = f][ManifestFile] = IF t = ManifestFile THEN f ELSE d[ManifestFile]
  BY ZeroIsNoMonth
<1> QED BY <1>1

LEMMA NoneTells == Tells(None)
BY DEF Tells

LEMMA StartsTidy ==
    ASSUME NEW p \in Procs, FilesTell, Knows(p),
           ReadJournal(p) \/ RecoverFound(p) \/ Enter(p) \/ LockTimeout(p)
    PROVE  Tidy(p)
<1>1. CASE ReadJournal(p)
  <2>1. PICK r : r = [at |-> "FOUND", id |-> IF journal = None THEN 0 ELSE journal.id]
    OBVIOUS
  <2>2. Goto(p, r) /\ UNCHANGED <<raw, disk, backup, lock>>
    BY <1>1, <2>1 DEF ReadJournal, files
  <2>3. r.at = "FOUND"
    BY <2>1
  <2> QED BY <2>2, <2>3, MoveIsTidy DEF LockPoints
<1>2. CASE LockTimeout(p)
  BY <1>2, IdleIsTidy DEF LockTimeout, files
<1> DEFINE res(r, next) == [r EXCEPT !.at = IF journal.state = "PREPARED" THEN "UNDO" ELSE "CLEAN",
                             !.todo = IF journal.state = "PREPARED" THEN UndoOf(journal)
                                      ELSE journal.arts,
                             !.next = next]
<1>3. ASSUME NEW r, NEW next, IsCall(r), next = "OPEN" => r.range \in Ranges,
             Resolve(p, r, next), lock = None, lock' = p, UNCHANGED <<raw, disk, backup>>
      PROVE  Tidy(p)
  <2>1. PICK c : c = res(r, next)
    OBVIOUS
  <2>2. Goto(p, c)
    BY <1>3, <2>1 DEF Resolve
  <2>3. /\ IsCall(c) /\ c.at \in {"UNDO", "CLEAN"} /\ c.next = next /\ c.range = r.range
    BY <1>3, <2>1 DEF IsCall, Fresh
  <2>4. c.at \notin {"PLANNED", "OPEN", "PROMOTE", "VERIFIED", "STAGED"}
    BY <2>3
  <2> QED BY <1>3, <2>2, <2>3, <2>4, MoveIsTidy
<1>4. CASE RecoverFound(p)
  <2>1. lock = None /\ UNCHANGED <<raw, disk, backup>>
    BY <1>4 DEF RecoverFound, files
  <2>2. CASE Goto(p, [Fresh EXCEPT !.at = "READY"])
    <3>1. PICK c : c = [Fresh EXCEPT !.at = "READY"]
      OBVIOUS
    <3>2. IsCall(c) /\ c.at = "READY"
      BY <3>1, FreshIsCall
    <3> QED BY <2>1, <2>2, <3>1, <3>2, MoveIsTidy DEF LockPoints
  <2>3. CASE Resolve(p, Fresh, "READY") /\ lock' = p
    BY <1>3, <2>1, <2>3, FreshIsCall
  <2> QED BY <1>4, <2>2, <2>3 DEF RecoverFound
<1>5. CASE Enter(p)
  <2>1. /\ call[p].at = "PLANNED" /\ lock = None /\ lock' = p /\ UNCHANGED <<raw, disk, backup>>
        /\ IsCall(call[p]) /\ call[p].range \in Ranges
    BY <1>5 DEF Enter, At, files, Knows, HasPlan
  <2>2. CASE Goto(p, Work(p, "OPEN"))
    <3>1. PICK c : c = Work(p, "OPEN")
      OBVIOUS
    <3>2. IsCall(c) /\ c.at = "OPEN" /\ c.range \in Ranges
      BY <2>1, <3>1 DEF Work, IsCall, Fresh
    <3> QED BY <2>1, <2>2, <3>1, <3>2, MoveIsTidy
  <2>3. CASE Resolve(p, call[p], "OPEN")
    BY <1>3, <2>1, <2>3
  <2> QED BY <1>5, <2>2, <2>3 DEF Enter
<1> QED BY <1>1, <1>2, <1>4, <1>5

LEMMA PlanIsTidy ==
    ASSUME NEW p \in Procs, NEW R \in Ranges, NEW op, FilesTell, Plan(p, R, op)
    PROVE  Tidy(p)
<1>1. PICK c : c = [Fresh EXCEPT !.at = "PLANNED", !.op = op, !.range = R, !.src = raw]
  OBVIOUS
<1>2. IsCall(c) /\ c.at = "PLANNED" /\ c.range = R
  BY <1>1 DEF IsCall, Fresh
<1>3. Goto(p, c) /\ UNCHANGED <<raw, disk, backup, lock>>
  BY <1>1 DEF Plan, files
<1> QED BY <1>2, <1>3, MoveIsTidy DEF LockPoints

LEMMA RecoveryIsTidy ==
    ASSUME NEW p \in Procs, FilesTell, Knows(p), Undo(p) \/ Clean(p) \/ DropJournal(p)
    PROVE  Tidy(p)
<1>1. /\ call[p].at \in {"UNDO", "CLEAN"} /\ lock = p /\ IsCall(call[p])
      /\ DOMAIN disk = Targets /\ DOMAIN backup = Targets
      /\ Tells(disk[ManifestFile]) /\ Tells(backup[ManifestFile])
  BY DEF Undo, Clean, DropJournal, At, Knows, LockPoints, FilesTell
<1>2. PICK t : t = Head(call[p].todo)
  OBVIOUS
<1>3. CASE Undo(p)
  <2>1. UNCHANGED <<raw, lock>>
    BY <1>3 DEF Undo
  <2>2. CASE disk' = [disk EXCEPT ![t] = None] /\ UNCHANGED <<backup, call>>
    <3>1. DOMAIN disk' = Targets /\ Tells(disk'[ManifestFile])
      BY <1>1, <2>2, TellsPut, NoneTells
    <3> QED BY <1>1, <2>1, <2>2, <3>1, WorkIsTidy
  <2>3. CASE /\ disk' = [disk EXCEPT ![t] = backup[t]]
             /\ backup' = [backup EXCEPT ![t] = None]
             /\ Goto(p, [call[p] EXCEPT !.todo = Tail(@)])
    <3>1. PICK f : f = backup[t]
      OBVIOUS
    <3>2. t = ManifestFile => Tells(f)
      BY <1>1, <3>1
    <3>3. DOMAIN disk' = Targets /\ Tells(disk'[ManifestFile])
      BY <1>1, <2>3, <3>1, <3>2, TellsPut
    <3>4. DOMAIN backup' = Targets /\ Tells(backup'[ManifestFile])
      BY <1>1, <2>3, TellsPut, NoneTells
    <3> QED BY <1>1, <2>1, <2>3, <3>3, <3>4, WorkIsTidy
  <2>4. CASE /\ disk' = [disk EXCEPT ![t] = Undone(t)]
             /\ Goto(p, [call[p] EXCEPT !.todo = Tail(@)]) /\ UNCHANGED backup
    <3>1. PICK f : f = Undone(t)
      OBVIOUS
    <3>2. t = ManifestFile => Tells(f)
      BY <1>1, <3>1, NoneTells DEF Undone
    <3>3. DOMAIN disk' = Targets /\ Tells(disk'[ManifestFile])
      BY <1>1, <2>4, <3>1, <3>2, TellsPut
    <3> QED BY <1>1, <2>1, <2>4, <3>3, WorkIsTidy
  <2> QED BY <1>2, <1>3, <2>2, <2>3, <2>4 DEF Undo
<1>4. CASE Clean(p)
  <2>1. /\ backup' = [backup EXCEPT ![t] = None] /\ UNCHANGED <<raw, disk, lock>>
        /\ Goto(p, [call[p] EXCEPT !.todo = Tail(@)])
    BY <1>2, <1>4 DEF Clean
  <2>2. DOMAIN backup' = Targets /\ Tells(backup'[ManifestFile])
    BY <1>1, <2>1, TellsPut, NoneTells
  <2> QED BY <1>1, <2>1, <2>2, WorkIsTidy
<1>5. CASE DropJournal(p)
  <2>1. UNCHANGED <<raw, disk, backup>>
    BY <1>5 DEF DropJournal
  <2>2. CASE Goto(p, [Fresh EXCEPT !.at = "READY"])
    <3>1. PICK c : c = [Fresh EXCEPT !.at = "READY"]
      OBVIOUS
    <3>2. IsCall(c) /\ c.at = "READY"
      BY <3>1, FreshIsCall
    <3> QED BY <1>1, <2>1, <2>2, <3>1, <3>2, MoveIsTidy DEF LockPoints
  <2>3. CASE call[p].next = "OPEN" /\ Goto(p, Work(p, "OPEN")) /\ UNCHANGED lock
    <3>1. PICK c : c = Work(p, "OPEN")
      OBVIOUS
    <3>2. call[p].range \in Ranges
      BY <1>1, <2>3 DEF Knows, HasPlan
    <3>3. IsCall(c) /\ c.at = "OPEN" /\ c.range \in Ranges
      BY <1>1, <3>1, <3>2 DEF Work, IsCall, Fresh
    <3> QED BY <1>1, <2>1, <2>3, <3>1, <3>3, MoveIsTidy
  <2>4. CASE Leave(p)
    BY <1>1, <2>1, <2>4, LeaveIsTidy
  <2> QED BY <1>5, <2>2, <2>3, <2>4 DEF DropJournal
<1> QED BY <1>3, <1>4, <1>5

\* Plans are made of whole months.
WholeMonthsOnly == \A R \in Ranges, m \in Months, h \in Halves : Meets(m, R) => <<m, h>> \in R

\* What a run may be about: cells, and whole months if plans are.
IsRange(R) == /\ R \subseteq Cells
              /\ WholeMonthsOnly => \A m \in Months, h \in Halves : Meets(m, R) => <<m, h>> \in R

LEMMA RangesAreRanges == ASSUME NEW R \in Ranges PROVE IsRange(R)
BY RangesAssumption DEF IsRange, WholeMonthsOnly, Cells

LEMMA AffectedIsRange ==
    ASSUME NEW R \in Ranges
    PROVE  IsRange(Affected(R))
<1>1. R \subseteq Cells
  BY RangesAssumption DEF Cells
<1>2. PICK span : span = Min(Changed(R))..Max(Changed(R))
  OBVIOUS
<1>3. Affected(R) = {c \in R : c[1] \in span}
  BY <1>2 DEF Affected
<1>4. ASSUME WholeMonthsOnly, NEW m \in Months, NEW h \in Halves, Meets(m, Affected(R))
      PROVE  <<m, h>> \in Affected(R)
  <2>1. PICK k \in Halves : <<m, k>> \in Affected(R)
    BY <1>4 DEF Meets
  <2>2. <<m, k>> \in R /\ m \in span
    BY <1>3, <2>1
  <2>3. <<m, h>> \in R
    BY <1>4, <2>2 DEF WholeMonthsOnly, Meets
  <2> QED BY <1>3, <2>2, <2>3
<1> QED BY <1>1, <1>3, <1>4 DEF IsRange

LEMMA RebuiltIsRange ==
    ASSUME NEW R \in Ranges
    PROVE  IsRange(Rebuilt(R))
BY RangesAreRanges, AffectedIsRange DEF Rebuilt

\* What a commit of whole months records as the source of a month is its content.
LEMMA NewManifestTells ==
    ASSUME NEW R, IsRange(R), WholeMonthsOnly, FilesTell
    PROVE  Tells(ManifestAfter(R))
<1>1. raw \in [Cells -> Nat]
  BY DEF FilesTell
<1>2. ASSUME NEW m \in Months PROVE SourcesAfter(R)[m] = PartsAfter(R)[m]
  <2>1. manifest # None => manifest.sources = manifest.parts
    BY DEF FilesTell, Tells, manifest
  <2>2. CASE Meets(m, R)
    <3>1. \A h \in Halves : <<m, h>> \in R
      BY <2>2 DEF IsRange
    <3>2. SourcesAfter(R)[m] = SourceOf(m)
      BY <2>2 DEF SourcesAfter
    <3>3. CASE m \in Rewritten(R)
      BY <3>1, <3>2, <3>3, WholeContent DEF PartsAfter
    <3>4. CASE m \notin Rewritten(R)
      <4>1. ~Derived(m) /\ SourceOf(m) = None
        BY <1>1, <2>2, <3>1, <3>4, UnwrittenIsEmpty
      <4>2. PartsAfter(R)[m] = None
        BY <3>4, <4>1 DEF PartsAfter, Derived
      <4> QED BY <3>2, <4>1, <4>2
    <3> QED BY <3>3, <3>4
  <2>3. CASE ~Meets(m, R)
    <3>1. m \notin Rewritten(R)
      BY <2>3 DEF Rewritten
    <3> QED BY <2>1, <2>3, <3>1 DEF SourcesAfter, PartsAfter
  <2> QED BY <2>2, <2>3
<1>3. SourcesAfter(R) = PartsAfter(R)
  <2>1. SourcesAfter(R) = [m \in Months |-> SourcesAfter(R)[m]]
    BY DEF SourcesAfter
  <2>2. PartsAfter(R) = [m \in Months |-> PartsAfter(R)[m]]
    BY DEF PartsAfter
  <2>3. PICK a, b : a = SourcesAfter(R) /\ b = PartsAfter(R)
    OBVIOUS
  <2> QED BY <1>2, <2>1, <2>2
<1> QED BY <1>3 DEF ManifestAfter, Tells, IsManifest

LEMMA BeginIsTidy ==
    ASSUME NEW p \in Procs, NEW R, IsRange(R), WholeMonthsOnly, FilesTell, Knows(p),
           call[p].at = "OPEN", Begin(p, R)
    PROVE  Tidy(p)
<1>1. PICK arts, new : /\ arts = InOrder(Rewritten(R)) \o <<ManifestFile>>
                       /\ new = NewFiles(R)
  OBVIOUS
<1>2. PICK c : c = [call[p] EXCEPT !.at = "PROMOTE", !.todo = arts, !.next = "OVER", !.new = new]
  OBVIOUS
<1>3. Goto(p, c) /\ UNCHANGED <<raw, disk, backup, lock>>
  BY <1>1, <1>2 DEF Begin, NewFiles
<1>4. IsCall(call[p]) /\ lock = p
  BY DEF Knows, LockPoints
<1>5. IsCall(c) /\ c.at = "PROMOTE" /\ c.new = new /\ c.next = "OVER"
  BY <1>2, <1>4 DEF IsCall, Fresh
<1>6. Tells(new[ManifestFile])
  BY <1>1, NewManifestTells, ZeroIsNoMonth DEF NewFiles
<1> QED BY <1>3, <1>4, <1>5, <1>6, MoveIsTidy

\* The state in the manifest changes, and nothing that it tells.
LEMMA StateTells ==
    ASSUME NEW s, FilesTell, manifest # None,
           disk' = [disk EXCEPT ![ManifestFile].state = s]
    PROVE  /\ DOMAIN disk' = Targets /\ Tells(disk'[ManifestFile])
           /\ \A m \in Months : disk'[m] = disk[m]
<1>1. PICK f, g : f = disk[ManifestFile] /\ g = [f EXCEPT !.state = s]
  OBVIOUS
<1>2. disk' = [disk EXCEPT ![ManifestFile] = g]
  BY <1>1
<1>3. Tells(f) /\ f # None
  BY <1>1 DEF FilesTell, manifest
<1>4. Tells(g)
  BY <1>1, <1>3 DEF Tells, IsManifest
<1>5. DOMAIN disk = Targets /\ Tells(disk[ManifestFile])
  BY DEF FilesTell
<1> QED BY <1>2, <1>4, <1>5, TellsPut, ZeroIsNoMonth

LEMMA MaterializationIsTidy ==
    ASSUME NEW p \in Procs, WholeMonthsOnly, FilesTell, Knows(p),
           Materialize(p) \/ FindInvalid(p) \/ MaterializeIncremental(p)
    PROVE  Tidy(p)
<1>1. call[p].at = "OPEN"
  BY DEF Materialize, FindInvalid, MaterializeIncremental, At
<1>2. lock = p /\ call[p].range \in Ranges
  BY <1>1 DEF Knows, LockPoints, HasPlan
<1>3. CASE Refuse(p)
  BY <1>2, <1>3, LeaveIsTidy DEF Refuse, files
<1>4. CASE FindInvalid(p)
  <2>1. /\ manifest # None /\ disk' = [disk EXCEPT ![ManifestFile].state = "INVALID"]
        /\ UNCHANGED <<raw, backup, lock, call>>
    BY <1>4 DEF FindInvalid, Unchanged
  <2>2. DOMAIN disk' = Targets /\ Tells(disk'[ManifestFile])
    BY <2>1, StateTells
  <2>3. DOMAIN backup' = Targets /\ Tells(backup'[ManifestFile])
    BY <2>1 DEF FilesTell
  <2> QED BY <1>1, <1>2, <2>1, <2>2, <2>3, WorkIsTidy
<1>5. CASE Begin(p, call[p].range)
  BY <1>1, <1>2, <1>5, RangesAreRanges, BeginIsTidy
<1>6. CASE Begin(p, Rebuilt(call[p].range))
  BY <1>1, <1>2, <1>6, RebuiltIsRange, BeginIsTidy
<1> QED BY <1>3, <1>4, <1>5, <1>6 DEF Materialize, MaterializeIncremental

LEMMA PromotionIsTidy ==
    ASSUME NEW p \in Procs, FilesTell, Knows(p), Link(p) \/ Promote(p) \/ Seal(p)
    PROVE  Tidy(p)
<1>1. /\ call[p].at = "PROMOTE" /\ lock = p /\ IsCall(call[p])
      /\ Tells(call[p].new[ManifestFile]) /\ call[p].next = "OVER"
      /\ DOMAIN disk = Targets /\ DOMAIN backup = Targets
      /\ Tells(disk[ManifestFile]) /\ Tells(backup[ManifestFile])
  BY DEF Link, Promote, Seal, At, Knows, LockPoints, FilesTell
<1>2. CASE Link(p)
  <2>1. PICK t, f : t = Head(call[p].todo) /\ f = disk[t]
    OBVIOUS
  <2>2. backup' = [backup EXCEPT ![t] = f] /\ UNCHANGED <<raw, disk, lock, call>>
    BY <1>2, <2>1 DEF Link
  <2>3. t = ManifestFile => Tells(f)
    BY <1>1, <2>1
  <2>4. DOMAIN backup' = Targets /\ Tells(backup'[ManifestFile])
    BY <1>1, <2>2, <2>3, TellsPut
  <2> QED BY <1>1, <2>2, <2>4, WorkIsTidy
<1>3. CASE Promote(p)
  <2>1. PICK t, f : t = Head(call[p].todo) /\ f = call[p].new[t]
    OBVIOUS
  <2>2. /\ disk' = [disk EXCEPT ![t] = f] /\ UNCHANGED <<raw, backup, lock>>
        /\ Goto(p, [call[p] EXCEPT !.todo = Tail(@)])
    BY <1>3, <2>1 DEF Promote
  <2>3. t = ManifestFile => Tells(f)
    BY <1>1, <2>1
  <2>4. DOMAIN disk' = Targets /\ Tells(disk'[ManifestFile])
    BY <1>1, <2>2, <2>3, TellsPut
  <2> QED BY <1>1, <2>2, <2>4, WorkIsTidy
<1>4. CASE Seal(p)
  <2>1. PICK c : c = [call[p] EXCEPT !.at = "CLEAN", !.todo = journal.arts]
    OBVIOUS
  <2>2. Goto(p, c) /\ UNCHANGED <<raw, disk, backup, lock>>
    BY <1>4, <2>1 DEF Seal
  <2>3. IsCall(c) /\ c.at = "CLEAN" /\ c.next = "OVER"
    BY <1>1, <2>1 DEF IsCall, Fresh
  <2> QED BY <1>1, <2>2, <2>3, MoveIsTidy
<1> QED BY <1>2, <1>3, <1>4

\* A verification looks at everything: RAW has what the manifest tells.
LEMMA VerifiedCurrent ==
    ASSUME NEW p \in Procs, FilesTell, manifest # None, Outcome(TRUE) = "COMPLETE",
           \A m \in Months : disk'[m] = disk[m], raw' = raw
    PROVE  Current'
<1>1. /\ \A m \in Months : manifest.sources[m] # None => SourceOf(m) = manifest.sources[m]
      /\ \A m \in Months : disk[m] = manifest.parts[m]
  BY DEF Outcome
<1>2. manifest.sources = manifest.parts
  BY DEF FilesTell, Tells, manifest
<1> SUFFICES ASSUME NEW c \in Rows' PROVE disk'[c[1]][c[2]] = raw'[c]
  BY DEF Current
<1>3. PICK m \in Months, h \in Halves : c = <<m, h>>
  BY DEF Rows, Cells
<1>4. disk[m] # None
  BY <1>3 DEF Rows
<1>5. SourceOf(m) = disk[m]
  BY <1>1, <1>2, <1>4
<1>6. SourceOf(m) = [k \in Halves |-> raw[<<m, k>>]]
  BY <1>4, <1>5 DEF SourceOf
<1>7. disk[m][h] = raw[<<m, h>>]
  BY <1>5, <1>6
<1>8. disk'[m][h] = raw'[<<m, h>>]
  BY <1>7
<1> QED BY <1>3, <1>8

LEMMA VerificationIsTidy ==
    ASSUME NEW p \in Procs, FilesTell, Knows(p),
           Verify(p) \/ Return(p) \/ Stage(p) \/ Publish(p)
    PROVE  Tidy(p)
<1>1. call[p].at \in {"OPEN", "VERIFIED", "STAGED"}
  BY DEF Verify, Return, Stage, Publish, At
<1>2. lock = p /\ IsCall(call[p])
  BY <1>1 DEF Knows, LockPoints
<1>3. CASE Refuse(p)
  BY <1>2, <1>3, LeaveIsTidy DEF Refuse, files
<1>4. CASE /\ manifest # None
           /\ disk' = [disk EXCEPT ![ManifestFile].state = Outcome(TRUE)]
           /\ Goto(p, [call[p] EXCEPT !.at = "VERIFIED", !.result = Outcome(TRUE)])
           /\ UNCHANGED <<raw, backup, journal, runs, lock, snaps, committed, harm>>
  <2>1. PICK o : o = Outcome(TRUE)
    OBVIOUS
  <2>2. PICK c : c = [call[p] EXCEPT !.at = "VERIFIED", !.result = o]
    OBVIOUS
  <2>3. IsCall(c) /\ c.at = "VERIFIED" /\ c.result = o
    BY <1>2, <2>2 DEF IsCall, Fresh
  <2>4. /\ DOMAIN disk' = Targets /\ Tells(disk'[ManifestFile])
        /\ \A m \in Months : disk'[m] = disk[m]
    BY <1>4, StateTells
  <2>5. /\ call'[p] = c /\ call' = [x \in Procs |-> call'[x]]
        /\ \A x \in Procs \ {p} : call'[x] = call[x]
    BY <1>4, <2>1, <2>2, MovesOn
  <2>6. FilesTell'
    BY <1>4, <2>4, <2>5 DEF FilesTell
  <2>7. o = "COMPLETE" => Current'
    BY <1>4, <2>1, <2>4, VerifiedCurrent
  <2>8. ~HasPlan(p)' /\ lock' = p
    BY <1>2, <1>4, <2>3, <2>5 DEF HasPlan
  <2>9. Knows(p)'
    BY <2>3, <2>5, <2>7, <2>8 DEF Knows
  <2> QED BY <1>2, <2>5, <2>6, <2>9 DEF Tidy
<1>5. CASE Stage(p)
  <2>1. PICK c : c = Work(p, "STAGED")
    OBVIOUS
  <2>2. /\ Goto(p, c) /\ UNCHANGED <<raw, disk, backup, lock>> /\ call[p].at = "VERIFIED"
    BY <1>5, <2>1 DEF Stage, At, files
  <2>3. IsCall(c) /\ c.at = "STAGED" /\ c.result = call[p].result
    BY <1>2, <2>1 DEF Work, IsCall, Fresh
  <2>4. c.result = "COMPLETE" => Current
    BY <2>2, <2>3 DEF Knows
  <2> QED BY <1>2, <2>2, <2>3, <2>4, MoveIsTidy
<1>6. CASE Publish(p)
  BY <1>2, <1>6, LeaveIsTidy DEF Publish, files
<1> QED BY <1>3, <1>4, <1>5, <1>6 DEF Verify, Return

LEMMA FailureIsTidy ==
    ASSUME NEW p \in Procs, FilesTell, Knows(p),
           StepFails(p) \/ SealFails(p) \/ StagingFails(p) \/ Crash(p)
    PROVE  Tidy(p)
<1>1. UNCHANGED <<raw, disk, backup>>
  BY DEF StepFails, SealFails, StagingFails, Crash, files
<1>2. CASE Leave(p)
  <2>1. lock = p
    BY DEF Knows, LockPoints, StepFails, SealFails, StagingFails, Crash, At
  <2> QED BY <1>1, <1>2, <2>1, LeaveIsTidy
<1>3. CASE call[p].at = "PROMOTE" /\ RollBack(p) /\ UNCHANGED lock
  <2>1. PICK c : c = [call[p] EXCEPT !.at = "UNDO", !.todo = UndoOf(journal)]
    OBVIOUS
  <2>2. lock = p /\ IsCall(call[p]) /\ call[p].next = "OVER"
    BY <1>3 DEF Knows, LockPoints
  <2>3. IsCall(c) /\ c.at = "UNDO" /\ c.next = "OVER"
    BY <2>1, <2>2 DEF IsCall, Fresh
  <2> QED BY <1>1, <1>3, <2>1, <2>2, <2>3, MoveIsTidy DEF RollBack
<1> QED BY <1>2, <1>3 DEF StepFails, SealFails, StagingFails, Crash, At

LEMMA StepIsTidy ==
    ASSUME WholeMonthsOnly, NEW p \in Procs, FilesTell, Knows(p), Step(p)
    PROVE  Tidy(p)
<1>1. CASE ReadJournal(p) \/ RecoverFound(p) \/ Enter(p) \/ LockTimeout(p)
  BY <1>1, StartsTidy
<1>2. CASE \E R \in Ranges, op \in {"MATERIALIZE", "INCREMENTAL", "VERIFY", "SNAPSHOT"} :
             Plan(p, R, op)
  BY <1>2, PlanIsTidy
<1>3. CASE Undo(p) \/ Clean(p) \/ DropJournal(p)
  BY <1>3, RecoveryIsTidy
<1>4. CASE Materialize(p) \/ FindInvalid(p) \/ MaterializeIncremental(p)
  BY <1>4, MaterializationIsTidy
<1>5. CASE Link(p) \/ Promote(p) \/ Seal(p)
  BY <1>5, PromotionIsTidy
<1>6. CASE Verify(p) \/ Return(p) \/ Stage(p) \/ Publish(p)
  BY <1>6, VerificationIsTidy
<1>7. CASE StepFails(p) \/ SealFails(p) \/ StagingFails(p) \/ Crash(p)
  BY <1>7, FailureIsTidy
<1> QED BY <1>1, <1>2, <1>3, <1>4, <1>5, <1>6, <1>7 DEF Step

LEMMA InformedStays == WholeMonthsOnly /\ Informed /\ [Next]_vars => Informed'
<1> SUFFICES ASSUME WholeMonthsOnly, Informed, [Next]_vars PROVE Informed'
  OBVIOUS
<1>1. FilesTell /\ \A x \in Procs : Knows(x)
  BY DEF Informed
<1>2. CASE UNCHANGED vars
  <2>1. UNCHANGED <<raw, disk, backup, lock, call>>
    BY <1>2 DEF vars
  <2>2. FilesTell'
    BY <1>1, <2>1 DEF FilesTell
  <2>3. ASSUME NEW x \in Procs PROVE Knows(x)'
    BY <1>1, <2>1 DEF Knows, HasPlan, Current, Rows
  <2> QED BY <2>2, <2>3 DEF Informed
<1>3. ASSUME NEW c \in Cells, Ingest(c) PROVE Informed'
  <2>1. /\ lock = None /\ raw' = [raw EXCEPT ![c] = @ + 1]
        /\ UNCHANGED <<disk, backup, lock, call>>
    BY <1>3 DEF Ingest, files
  <2>2. raw' \in [Cells -> Nat]
    BY <1>1, <2>1 DEF FilesTell
  <2>3. FilesTell'
    BY <1>1, <2>1, <2>2 DEF FilesTell
  <2>4. ASSUME NEW x \in Procs PROVE Knows(x)'
    <3>1. call[x].at \notin LockPoints
      BY <1>1, <2>1, NoneIsNothing DEF Knows
    <3>2. call[x].at \notin {"VERIFIED", "STAGED"}
      BY <3>1 DEF LockPoints
    <3> QED BY <1>1, <2>1, <3>1, <3>2 DEF Knows, HasPlan
  <2> QED BY <2>3, <2>4 DEF Informed
<1>4. ASSUME NEW p \in Procs, Step(p) PROVE Informed'
  <2>1. Tidy(p)
    BY <1>1, <1>4, StepIsTidy
  <2>2. ASSUME NEW x \in Procs PROVE Knows(x)'
    BY <1>1, <2>1, OthersKnow DEF Tidy
  <2> QED BY <2>1, <2>2 DEF Informed, Tidy
<1> QED BY <1>2, <1>3, <1>4 DEF Next

LEMMA InformedAtFirst == Init => Informed
<1> SUFFICES ASSUME Init PROVE Informed
  OBVIOUS
<1>1. FilesTell
  BY NoneTells, ZeroIsNoMonth DEF Init, FilesTell
<1>2. ASSUME NEW p \in Procs PROVE Knows(p)
  <2>1. call[p].at = "IDLE"
    BY DEF Init, Idle
  <2> QED BY <2>1 DEF Knows, LockPoints, HasPlan
<1> QED BY <1>1, <1>2 DEF Informed

\* With plans of whole months, a dataset that verification calls COMPLETE, and a
\* snapshot being made of it, has no row that RAW has replaced since, torn or not:
\* what is recorded as the source of a partition is what it was made from, and a
\* verification compares the partitions, too (verify and materialize_incremental
\* of derived.py).
THEOREM VerifiedAlwaysCurrent ==
    ASSUME WholeMonthsOnly
    PROVE  Spec => []VerifiedIsCurrent
<1>1. Informed /\ [Next]_vars => Informed'
  BY InformedStays
<1>2. Informed => VerifiedIsCurrent
  BY DEF Informed, Knows, VerifiedIsCurrent, Current
<1> QED BY <1>1, <1>2, InformedAtFirst, PTL DEF Spec
=============================================================================
