----------------------- MODULE ContinuousCollectionProofs -----------------------
(***************************************************************************)
(* What ContinuousCollection keeps, for any targets, holes, limits,         *)
(* requests, processes and bounds.                                          *)
(*                                                                         *)
(* A job of a collector is a chain of chunks, and what it has passed is     *)
(* stored but for what the exchange never had (Covered). Where its chain    *)
(* begins is what the order of the plans decides: at or before the candle   *)
(* after the last one stored, unless it was planned while the dataset was   *)
(* empty. Gaps can only come from several such plans, and they are in the   *)
(* order of their starts. None of it depends on how a process ended.        *)
(***************************************************************************)
EXTENDS ContinuousCollection, FiniteSetTheorems, WellFoundedInduction, TLAPS

-----------------------------------------------------------------------------
(* Types *)

Spans == {k \in [start : Int, end : Int] : k.start < k.end}
JobTypes == {"INCREMENTAL", "BACKFILL", "GAP_REPAIR"}
JobStatuses == {"PLANNED", "RUNNING", "FAILED", "COMPLETED"}
AllJobs == [d : Datasets, type : JobTypes, start : Int, end : Int, chunks : Seq(Spans),
            next : Nat \ {0}, status : JobStatuses]
AllResults == [d : Nat, status : {"NOOP", "UPDATED", "FAILED"}, job : Nat, started : Nat,
               finished : Nat, latest : Int]
Points == {"idle", "target", "lock", "chunk", "checkpoint"}
Places == [pc : Points, cycle : Nat, results : Seq(AllResults), begun : Nat, started : Nat,
           job : Nat]

TypeOK ==
    /\ now \in Nat /\ StartTime <= now
    /\ stored \in [Datasets -> SUBSET Nat]
    /\ \A d \in Datasets : IsFiniteSet(stored[d])
    /\ dlock \in [Datasets -> Actors \cup {None}]
    /\ rlock \in Actors \cup {None}
    /\ jobs \in Seq(AllJobs)
    /\ cycle.index \in Nat /\ cycle.results \in Seq(AllResults)
    /\ at \in [Actors -> Places]

-----------------------------------------------------------------------------
(* Jobs *)

\* The chunks follow one another from the start to the end of the job.
Chained(job) ==
    /\ job.chunks # <<>>
    /\ job.chunks[1].start = job.start
    /\ job.chunks[Len(job.chunks)].end = job.end
    /\ \A i \in DOMAIN job.chunks :
         /\ job.start <= job.chunks[i].start /\ job.chunks[i].end <= job.end
         /\ i < Len(job.chunks) => job.chunks[i].end < job.end
         /\ i > 1 => job.chunks[i].start = job.chunks[i - 1].end

\* Where the chunks that were passed end.
Done(job) == IF job.next = 1 THEN job.start ELSE job.chunks[job.next - 1].end

\* Every candle from m up to n was fetched: it is there, or it is a hole, or the
\* last of job j, which may have come late; all are there if its receipts say so.
Fetches(j, m, n) ==
    /\ \A k \in m..(n - 1) : \/ k \in stored[jobs[j].d] \cup hole[jobs[j].d]
                            \/ k = jobs[j].end - 1
    /\ AllFetched(j) => m..(n - 1) \subseteq stored[jobs[j].d]

Covered(j) == Fetches(j, jobs[j].start, Done(jobs[j]))

JobOK(j) ==
    /\ jobs[j].next <= Len(jobs[j].chunks) + 1
    /\ jobs[j].status = "COMPLETED" <=> jobs[j].next = Len(jobs[j].chunks) + 1
    /\ jobs[j].type = "INCREMENTAL" =>
         /\ Chained(jobs[j]) /\ Covered(j) /\ 0 <= jobs[j].start
         /\ jobs[j].end <= LatestEnd(jobs[j].d, now)
    /\ jobs[j].type = "GAP_REPAIR" /\ jobs[j].status = "COMPLETED" =>
         Complete(jobs[j].d, jobs[j].start, jobs[j].end)

JobsOK == \A j \in DOMAIN jobs : JobOK(j)

-----------------------------------------------------------------------------
(* Processes *)

\* What a result reports holds.
Holds(r) ==
    /\ r.d \in Datasets
    /\ r.status = "NOOP" => \E n \in stored[r.d] : n >= r.latest - 1
    /\ r.status = "UPDATED" =>
         /\ r.job \in DOMAIN jobs
         /\ jobs[r.job].start..(r.latest - 1) \subseteq stored[r.d]

Executing(a) == at[a].pc \in {"lock", "chunk", "checkpoint"}
Working(a) == at[a].pc \in {"chunk", "checkpoint"}

RunnerOK(a) ==
    /\ rlock = a /\ at[a].cycle = cycle.index + 1
    /\ at[a].begun <= at[a].started /\ StartTime <= at[a].started /\ at[a].started <= now
    /\ Len(at[a].results) <= Len(Targets)
    /\ \A i \in DOMAIN at[a].results :
         LET r == at[a].results[i]
         IN  /\ r.d = i /\ ValidResult(r) /\ Holds(r)
             /\ at[a].begun <= r.started /\ r.finished <= now
    /\ Executing(a) => /\ JobOf(a).d = Len(at[a].results) + 1
                       /\ JobOf(a).type = "INCREMENTAL"
                       /\ JobOf(a).end = LatestEnd(JobOf(a).d, at[a].started)
    /\ \A j \in DOMAIN jobs :
         jobs[j].type = "INCREMENTAL" => jobs[j].end <= LatestEnd(jobs[j].d, at[a].started)

ActorOK(a) ==
    /\ at[a].pc = "idle" => at[a] = Idle
    /\ at[a].pc = "target" => at[a].job = 0 /\ at[a].cycle # 0
    /\ Executing(a) => at[a].job \in DOMAIN jobs
    /\ Working(a) => JobOf(a).status = "RUNNING" /\ dlock[JobOf(a).d] = a
    /\ at[a].pc = "checkpoint" /\ JobOf(a).type = "INCREMENTAL" =>
         LET r == JobOf(a).chunks[JobOf(a).next]
         IN  Fetches(at[a].job, r.start, r.end)
    /\ at[a].cycle # 0 => RunnerOK(a)

ActorsOK == \A a \in Actors : ActorOK(a)

ReportsOK == \A i \in DOMAIN cycle.results : Holds(cycle.results[i])

-----------------------------------------------------------------------------
(* Gaps *)

Collected(d) == \A j \in DOMAIN jobs : jobs[j].d = d => jobs[j].type = "INCREMENTAL"

\* The first candle of d is the first one some first plan could get.
Origin(d) ==
    \E j \in FirstPlans(d) : /\ jobs[j].start <= Min(stored[d])
                             /\ jobs[j].start..(Min(stored[d]) - 1) \subseteq hole[d]

\* A plan made of what is stored begins within it, or right after it.
Reaches(d, j) == /\ stored[d] # {}
                 /\ Min(stored[d]) <= jobs[j].start /\ jobs[j].start <= Max(stored[d]) + 1

Explained(d, n) == \E i, j \in FirstPlans(d) : i < j /\ jobs[i].start <= n /\ n < jobs[j].start

GapOK(d) ==
    Collected(d) =>
      /\ \A i, j \in FirstPlans(d) : i < j => jobs[i].start <= jobs[j].start
      /\ \A j \in DOMAIN jobs : jobs[j].d = d => j \in FirstPlans(d) \/ Reaches(d, j)
      /\ stored[d] # {} =>
           /\ Origin(d)
           /\ \A n \in (Min(stored[d])..Max(stored[d])) \ (stored[d] \cup hole[d]) : Explained(d, n)

GapsOK == \A d \in Datasets : GapOK(d)

IInv == TypeOK /\ JobsOK /\ ActorsOK /\ ReportsOK /\ GapsOK

-----------------------------------------------------------------------------
(* Numbers *)

LEMMA DivBounds ==
    ASSUME NEW t \in Int, NEW u \in Nat \ {0}
    PROVE  t \div u \in Int /\ (t \div u) * u <= t /\ t < (t \div u) * u + u
  OBVIOUS

LEMMA DivGrows ==
    ASSUME NEW s \in Int, NEW t \in Int, s <= t, NEW u \in Nat \ {0}
    PROVE  s \div u <= t \div u
<1> DEFINE a == s \div u
           b == t \div u
<1>1. a \in Int /\ b \in Int /\ a * u <= s /\ t < b * u + u
  BY DivBounds
<1> HIDE DEF a, b
<1>2. ASSUME b + 1 <= a PROVE FALSE
  <2>1. (b + 1) * u <= a * u
    BY <1>1, <1>2
  <2>2. (b + 1) * u = b * u + u
    BY <1>1
  <2> QED BY <1>1, <2>1, <2>2
<1> QED BY <1>1, <1>2 DEF a, b

\* The i-th chunk of a range begins before the range ends.
LEMMA ChunkFits ==
    ASSUME NEW s \in Int, NEW e \in Int, NEW c \in Nat \ {0},
           NEW i \in 1..((e - s + c - 1) \div c)
    PROVE  (i - 1) * c \in Nat /\ s + (i - 1) * c < e /\ s + (i - 1) * c < s + i * c
<1> DEFINE k == (e - s + c - 1) \div c
<1>1. k \in Int /\ k * c <= e - s + c - 1
  BY DivBounds
<1> HIDE DEF k
<1>2. i \in Int /\ 1 <= i /\ i <= k
  BY <1>1 DEF k
<1>3. i * c <= k * c
  BY <1>1, <1>2
<1>4. (i - 1) * c = i * c - c
  BY <1>2
<1>5. i * c \in Int /\ c <= i * c
  BY <1>2
<1> QED BY <1>1, <1>3, <1>4, <1>5

\* A finite set of numbers has a first and a last one.
LEMMA Extremes ==
    ASSUME NEW S \in SUBSET Int, S # {}, IsFiniteSet(S)
    PROVE  /\ Min(S) \in S /\ \A k \in S : Min(S) <= k
           /\ Max(S) \in S /\ \A k \in S : k <= Max(S)
<1> DEFINE Above(m) == {k \in S : k >= m}
           Below(m) == {k \in S : k <= m}
           R == StrictSubsetOrdering(S)
           F == FiniteSubsetsOf(S)
<1>1. IsWellFoundedOn(R, F)
  BY FS_StrictSubsetOrderingWellFounded
<1>2. ASSUME NEW T \in SUBSET S
      PROVE  T \in F
  BY FS_Subset DEF FiniteSubsetsOf
<1>0. \A n \in S : n \in Int
  OBVIOUS
<1>3. \E m \in S : \A k \in S : m >= k
  <2> DEFINE G == {Above(m) : m \in S}
  <2>1. G \subseteq F /\ G # {}
    BY <1>2
  <2>2. PICK x \in G : \A y \in G : ~(<<y, x>> \in R)
    BY <1>1, <2>1, WFMin, Zenon
  <2>3. PICK m \in S : x = Above(m)
    BY <2>2
  <2>4. ASSUME NEW k \in S, ~(m >= k) PROVE FALSE
    <3>1. m \in Above(m) /\ m \notin Above(k)
      BY <1>0, <2>4
    <3>2. Above(k) \subseteq Above(m)
      <4>1. \A n \in S : n >= k => n >= m
        BY <1>0, <2>4
      <4> QED BY <4>1
    <3>3. <<Above(k), x>> \in R
      BY <3>1, <3>2, <2>3 DEF StrictSubsetOrdering
    <3> QED BY <3>3, <2>2
  <2> QED BY <2>4
<1>4. \E m \in S : \A k \in S : m <= k
  <2> DEFINE G == {Below(m) : m \in S}
  <2>1. G \subseteq F /\ G # {}
    BY <1>2
  <2>2. PICK x \in G : \A y \in G : ~(<<y, x>> \in R)
    BY <1>1, <2>1, WFMin, Zenon
  <2>3. PICK m \in S : x = Below(m)
    BY <2>2
  <2>4. ASSUME NEW k \in S, ~(m <= k) PROVE FALSE
    <3>1. m \in Below(m) /\ m \notin Below(k)
      BY <1>0, <2>4
    <3>2. Below(k) \subseteq Below(m)
      <4>1. \A n \in S : n <= k => n <= m
        BY <1>0, <2>4
      <4> QED BY <4>1
    <3>3. <<Below(k), x>> \in R
      BY <3>1, <3>2, <2>3 DEF StrictSubsetOrdering
    <3> QED BY <3>3, <2>2
  <2> QED BY <2>4
<1>5. Max(S) \in S /\ \A k \in S : Max(S) >= k
  BY <1>3, Zenon DEF Max
<1>6. Min(S) \in S /\ \A k \in S : Min(S) <= k
  BY <1>4, Zenon DEF Min
<1> QED BY <1>0, <1>5, <1>6

\* The number of elements up to m is the place of m in the order.
LEMMA OrderExists ==
    ASSUME NEW S \in SUBSET Int, IsFiniteSet(S)
    PROVE  /\ Cardinality(S) \in Nat
           /\ \E s \in [1..Cardinality(S) -> S] : \A i, j \in DOMAIN s : i < j => s[i] < s[j]
<1> DEFINE n == Cardinality(S)
           Below(m) == {k \in S : k <= m}
           rank == [m \in S |-> Cardinality(Below(m))]
<1>1. n \in Nat /\ \A k \in S : k \in Int
  BY FS_CardinalityType
<1>2. \A m \in S : /\ IsFiniteSet(Below(m)) /\ Cardinality(Below(m)) \in Nat
                   /\ Cardinality(Below(m)) <= n /\ Cardinality(Below(m)) # 0
  <2> TAKE m \in S
  <2>1. Below(m) \in SUBSET S /\ m \in Below(m)
    BY <1>1
  <2>2. IsFiniteSet(Below(m)) /\ Cardinality(Below(m)) <= n
    BY <2>1, FS_Subset
  <2> QED BY <2>1, <2>2, FS_EmptySet, FS_CardinalityType
<1>3. rank \in [S -> 1..n]
  BY <1>1, <1>2
<1>4. ASSUME NEW a \in S, NEW b \in S, a < b PROVE rank[a] < rank[b]
  <2>1. Below(a) \in SUBSET Below(b) /\ b \in Below(b) /\ b \notin Below(a)
    <3>1. \A k \in S : k <= a => k <= b
      BY <1>1, <1>4
    <3>2. b <= b /\ ~(b <= a)
      BY <1>1, <1>4
    <3> QED BY <3>1, <3>2
  <2>2. /\ Cardinality(Below(a)) <= Cardinality(Below(b))
        /\ Cardinality(Below(a)) # Cardinality(Below(b))
    BY <1>2, <2>1, FS_Subset
  <2> QED BY <1>2, <2>2
<1>5. rank \in Injection(S, 1..n)
  <2>1. ASSUME NEW a \in S, NEW b \in S, a # b PROVE rank[a] # rank[b]
    <3>1. CASE a < b
      BY <1>3, <1>4, <3>1
    <3>2. CASE b < a
      BY <1>3, <1>4, <3>2
    <3> QED BY <1>1, <2>1, <3>1, <3>2
  <2> QED BY <1>3, <2>1 DEF Injection, IsInjective
<1>6. IsFiniteSet(1..n) /\ Cardinality(1..n) = n
  BY <1>1, FS_Interval
<1>7. rank \in Surjection(S, 1..n)
  BY <1>5, <1>6, FS_Injection
<1>8. \A i \in 1..n : \E m \in S : rank[m] = i
  BY <1>7 DEF Surjection
<1> DEFINE s == [i \in 1..n |-> CHOOSE m \in S : rank[m] = i]
<1>9. \A i \in 1..n : s[i] \in S /\ rank[s[i]] = i
  BY <1>8
<1>10. s \in [1..n -> S] /\ DOMAIN s = 1..n
  BY <1>9
<1>11. ASSUME NEW i \in 1..n, NEW j \in 1..n, i < j PROVE s[i] < s[j]
  <2>1. s[i] \in S /\ s[j] \in S /\ rank[s[i]] = i /\ rank[s[j]] = j
    BY <1>9
  <2>2. s[i] # s[j]
    <3>1. i # j
      BY <1>1, <1>11
    <3> HIDE DEF s, rank
    <3> QED BY <2>1, <3>1
  <2>3. ASSUME s[j] < s[i] PROVE FALSE
    <3>1. j < i
      BY <1>4, <2>1, <2>3
    <3> QED BY <1>1, <1>11, <3>1
  <2>4. s[i] \in Int /\ s[j] \in Int
    BY <1>1, <2>1
  <2> HIDE DEF s
  <2> QED BY <2>2, <2>3, <2>4
<1> QED BY <1>1, <1>10, <1>11

-----------------------------------------------------------------------------
(* The pages of a request *)

\* Page by page, a request gets every candle of its range that is served.
LEMMA FetchedIs ==
    ASSUME NEW served, NEW r \in Spans
    PROVE  Fetched(served, r) = {n \in r.start..(r.end - 1) : n \in served}
<1> DEFINE I == r.start..r.end
           rows(c) == {n \in c..(r.end - 1) : n \in served}
           page(c) == {n \in rows(c) : Cardinality({m \in rows(c) : m < n}) < Page}
           Step(f, c) == IF Cardinality(page(c)) < Page THEN page(c)
                         ELSE page(c) \cup f[Max(page(c)) + 1]
           Pages(f) == f = [c \in I |-> Step(f, c)]
           g == [c \in I |-> rows(c)]
<1>1. /\ r.start \in Int /\ r.end \in Int /\ r.start < r.end /\ Page \in Nat \ {0}
  BY LimitsAssumption DEF Spans
<1>2. ASSUME NEW c \in I
      PROVE  /\ IsFiniteSet(rows(c)) /\ rows(c) \in SUBSET Int
             /\ IsFiniteSet(page(c)) /\ page(c) \in SUBSET rows(c)
             /\ Cardinality(page(c)) < Page => page(c) = rows(c)
             /\ ~(Cardinality(page(c)) < Page) =>
                  /\ Max(page(c)) + 1 \in I /\ Max(page(c)) + 1 > c
                  /\ rows(c) = page(c) \cup rows(Max(page(c)) + 1)
  <2>1. IsFiniteSet(c..(r.end - 1)) /\ c \in Int
    BY <1>1, FS_Interval
  <2>2. IsFiniteSet(rows(c)) /\ rows(c) \in SUBSET Int
    <3>1. rows(c) \in SUBSET (c..(r.end - 1))
      OBVIOUS
    <3>2. c..(r.end - 1) \in SUBSET Int
      BY <1>1, <2>1
    <3> HIDE DEF rows
    <3> QED BY <2>1, <3>1, <3>2, FS_Subset
  <2>3. IsFiniteSet(page(c)) /\ page(c) \in SUBSET rows(c)
    <3>1. page(c) \in SUBSET rows(c)
      OBVIOUS
    <3> HIDE DEF rows, page
    <3> QED BY <2>2, <3>1, FS_Subset
  <2>4. ASSUME NEW n, Cardinality(page(c)) < Page, n \in rows(c), n \notin page(c) PROVE FALSE
    <3> DEFINE Left == rows(c) \ page(c)
    <3>1. Left \in SUBSET rows(c) /\ Left \in SUBSET Int /\ Left # {}
      BY <2>2, <2>4
    <3>2. IsFiniteSet(Left)
      BY <2>2, <3>1, FS_Subset
    <3>3. Min(Left) \in Left /\ \A k \in Left : Min(Left) <= k
      <4> HIDE DEF Left
      <4> QED BY <3>1, <3>2, Extremes
    <3> DEFINE m == Min(Left)
               Before == {k \in rows(c) : k < m}
    <3>4. m \in rows(c) /\ m \notin page(c) /\ ~(Cardinality(Before) < Page)
      BY <3>3
    <3>5. Before \in SUBSET page(c)
      <4>1. \A k \in rows(c) : k < m => k \notin Left
        <5>1. \A k \in Left : m <= k /\ k \in Int
          BY <3>1, <3>3
        <5>2. m \in Int
          BY <3>1, <3>3
        <5> HIDE DEF rows, page, Left, m
        <5> QED BY <5>1, <5>2
      <4> QED BY <4>1
    <3>6. Cardinality(Before) <= Cardinality(page(c)) /\ Cardinality(Before) \in Nat
          /\ Cardinality(page(c)) \in Nat
      <4> HIDE DEF rows, page, Before
      <4> QED BY <2>3, <3>5, FS_Subset, FS_CardinalityType
    <3> HIDE DEF rows, page, Before
    <3> QED BY <1>1, <2>4, <3>4, <3>6
  <2>5. ASSUME ~(Cardinality(page(c)) < Page)
        PROVE  /\ Max(page(c)) + 1 \in I /\ Max(page(c)) + 1 > c
               /\ rows(c) = page(c) \cup rows(Max(page(c)) + 1)
    <3> DEFINE p == Max(page(c))
    <3>1. page(c) # {} /\ page(c) \in SUBSET Int
      <4> HIDE DEF rows, page
      <4> QED BY <1>1, <2>2, <2>3, <2>5, FS_EmptySet
    <3>2. p \in page(c) /\ \A k \in page(c) : k <= p
      <4> HIDE DEF rows, page
      <4> QED BY <2>3, <3>1, Extremes
    <3>3. p \in rows(c) /\ p \in Int /\ c <= p /\ p <= r.end - 1
          /\ Cardinality({m \in rows(c) : m < p}) < Page
      BY <1>1, <2>1, <3>2
    <3>4. p + 1 \in I /\ p + 1 > c
      BY <1>1, <2>1, <3>3
    <3>5. ASSUME NEW n \in rows(c), n <= p PROVE n \in page(c)
      <4> DEFINE N == {m \in rows(c) : m < n}
                 P == {m \in rows(c) : m < p}
      <4>1. N \in SUBSET P /\ P \in SUBSET rows(c)
        <5>1. \A x \in rows(c) : x \in Int
          BY <2>2
        <5>2. n \in Int /\ \A x \in rows(c) : x < n => x < p
          <6> HIDE DEF rows, p
          <6> QED BY <3>3, <3>5, <5>1
        <5> HIDE DEF rows, p
        <5> QED BY <5>2
      <4>2. IsFiniteSet(P) /\ IsFiniteSet(N)
        <5> HIDE DEF N, P, rows
        <5> QED BY <2>2, <4>1, FS_Subset
      <4>3. Cardinality(N) <= Cardinality(P) /\ Cardinality(N) \in Nat /\ Cardinality(P) \in Nat
        <5> HIDE DEF N, P, rows
        <5> QED BY <4>1, <4>2, FS_Subset, FS_CardinalityType
      <4>4. Cardinality(N) < Page
        <5> HIDE DEF N
        <5> QED BY <1>1, <3>3, <4>3
      <4> QED BY <4>4
    <3>6. \A n \in Int : n \in rows(c) <=> n \in page(c) \/ n \in rows(p + 1)
      <4> TAKE n \in Int
      <4>1. n \in rows(p + 1) <=> n >= p + 1 /\ n <= r.end - 1 /\ n \in served
        BY <1>1, <3>3
      <4>2. n \in rows(c) <=> n >= c /\ n <= r.end - 1 /\ n \in served
        BY <1>1, <2>1
      <4>3. n \in page(c) => n \in rows(c)
        BY <2>3
      <4> HIDE DEF rows, page, p
      <4> QED BY <2>1, <3>3, <3>5, <4>1, <4>2, <4>3
    <3>7. rows(p + 1) \in SUBSET Int
      BY <1>1, <3>3
    <3> HIDE DEF rows, page, p
    <3> QED BY <2>2, <2>3, <3>1, <3>4, <3>6, <3>7 DEF p
  <2> HIDE DEF rows, page
  <2>6. Cardinality(page(c)) < Page => page(c) = rows(c)
    BY <2>3, <2>4
  <2> QED BY <2>2, <2>3, <2>5, <2>6
<1>3. Pages(g)
  <2>1. ASSUME NEW c \in I PROVE rows(c) = Step(g, c)
    <3> HIDE DEF page, I
    <3>1. Max(page(c)) + 1 \in I => g[Max(page(c)) + 1] = rows(Max(page(c)) + 1)
      OBVIOUS
    <3> HIDE DEF rows, g
    <3> QED BY <1>2, <3>1
  <2> HIDE DEF rows, page, Step, I
  <2> QED BY <2>1
<1>4. ASSUME NEW f, Pages(f), NEW c \in I PROVE f[c] = rows(c)
  <2> DEFINE Bad == {k \in I : f[k] # rows(k)}
  <2>1. SUFFICES ASSUME Bad # {} PROVE FALSE
    BY <1>4
  <2>2. Bad \in SUBSET Int /\ IsFiniteSet(Bad)
    <3>1. Bad \in SUBSET I /\ I \in SUBSET Int /\ IsFiniteSet(I)
      BY <1>1, FS_Interval
    <3> HIDE DEF Bad, I
    <3> QED BY <3>1, FS_Subset
  <2>3. Max(Bad) \in Bad /\ \A k \in Bad : k <= Max(Bad)
    <3> HIDE DEF Bad
    <3> QED BY <2>1, <2>2, Extremes
  <2> DEFINE k == Max(Bad)
  <2>4. k \in I /\ f[k] # rows(k) /\ k \in Int
    BY <2>2, <2>3
  <2>5. f[k] = Step(f, k)
    <3> HIDE DEF Step, I, k
    <3> QED BY <1>4, <2>4
  <2>6. ~(Cardinality(page(k)) < Page) => f[Max(page(k)) + 1] = rows(Max(page(k)) + 1)
    <3>1. SUFFICES ASSUME ~(Cardinality(page(k)) < Page)
                   PROVE  Max(page(k)) + 1 \in I /\ Max(page(k)) + 1 \notin Bad
      <4> HIDE DEF rows, page, I
      <4> QED BY Zenon
    <3>2. Max(page(k)) + 1 \in I /\ Max(page(k)) + 1 > k
      <4> HIDE DEF rows, page, I, k
      <4> QED BY <1>2, <2>4, <3>1
    <3>3. Max(page(k)) + 1 \in Int
      BY <1>1, <3>2
    <3> HIDE DEF Bad, page, I
    <3> QED BY <2>3, <2>4, <3>2, <3>3
  <2> HIDE DEF rows, page, I, k, Bad
  <2> QED BY <1>2, <2>4, <2>5, <2>6
<1> DEFINE from == CHOOSE f : Pages(f)
<1>5. Pages(from)
  <2> HIDE DEF Pages, g
  <2> QED BY <1>3, Zenon
<1>6. r.start \in I
  BY <1>1
<1>7. Fetched(served, r) = from[r.start]
  BY Zenon DEF Fetched
<1>8. from[r.start] = rows(r.start)
  <2> HIDE DEF from, Pages, rows, I
  <2> QED BY <1>4, <1>5, <1>6
<1> QED BY <1>7, <1>8

-----------------------------------------------------------------------------
(* Chunks *)

LEMMA MinOfTwo ==
    ASSUME NEW a \in Int, NEW b \in Int
    PROVE  Min({a, b}) = IF a <= b THEN a ELSE b
<1>1. {a, b} \in SUBSET Int /\ {a, b} # {} /\ IsFiniteSet({a, b})
  <2>1. IsFiniteSet({a}) /\ IsFiniteSet({b})
    BY FS_Singleton
  <2>2. {a, b} = {a} \cup {b}
    OBVIOUS
  <2> QED BY <2>1, <2>2, FS_Union
<1>2. Min({a, b}) \in {a, b} /\ \A k \in {a, b} : Min({a, b}) <= k
  BY <1>1, Extremes, Zenon
<1> QED BY <1>2

LEMMA MaxOfTwo ==
    ASSUME NEW a \in Int, NEW b \in Int
    PROVE  Max({a, b}) = IF a <= b THEN b ELSE a
<1>1. {a, b} \in SUBSET Int /\ {a, b} # {} /\ IsFiniteSet({a, b})
  <2>1. IsFiniteSet({a}) /\ IsFiniteSet({b})
    BY FS_Singleton
  <2>2. {a, b} = {a} \cup {b}
    OBVIOUS
  <2> QED BY <2>1, <2>2, FS_Union
<1>2. Max({a, b}) \in {a, b} /\ \A k \in {a, b} : k <= Max({a, b})
  BY <1>1, Extremes, Zenon
<1> QED BY <1>2

\* What the planner cuts a range into lies in the range, and begins with it.
LEMMA ChunkedIs ==
    ASSUME NEW s \in Int, NEW e \in Int
    PROVE  /\ Chunked(s, e) \in Seq(Spans)
           /\ \A i \in DOMAIN Chunked(s, e) :
                s <= Chunked(s, e)[i].start /\ Chunked(s, e)[i].end <= e
           /\ Chunked(s, e) # <<>> => Chunked(s, e)[1].start = s
<1> DEFINE k == (e - s + ChunkSize - 1) \div ChunkSize
           cut(i) == [start |-> s + (i - 1) * ChunkSize, end |-> Min({e, s + i * ChunkSize})]
           f == [i \in 1..k |-> cut(i)]
<1>1. ChunkSize \in Nat \ {0} /\ k \in Int
  BY DivBounds, LimitsAssumption
<1>2. ASSUME NEW i \in 1..k
      PROVE  cut(i) \in Spans /\ s <= cut(i).start /\ cut(i).end <= e
  <2>1. /\ (i - 1) * ChunkSize \in Nat /\ s + (i - 1) * ChunkSize < e
        /\ s + (i - 1) * ChunkSize < s + i * ChunkSize
    BY <1>1, ChunkFits
  <2>2. s + i * ChunkSize \in Int
    BY <1>1
  <2> DEFINE b == s + i * ChunkSize
             a == s + (i - 1) * ChunkSize
  <2>3. a \in Int /\ s <= a /\ a < e /\ a < b /\ b \in Int
    BY <2>1, <2>2
  <2> HIDE DEF a, b
  <2>4. Min({e, b}) \in Int /\ a < Min({e, b}) /\ Min({e, b}) <= e
    BY <2>3, MinOfTwo
  <2>5. cut(i) = [start |-> a, end |-> Min({e, b})]
    BY DEF a, b
  <2> HIDE DEF cut
  <2> QED BY <2>3, <2>4, <2>5 DEF Spans
<1>3. cut(1).start = s
  BY <1>1
<1>4. Chunked(s, e) = f
  BY DEF Chunked
<1> HIDE DEF cut, k
<1>5. f \in Seq(Spans) /\ DOMAIN f = 1..k
  <2>1. CASE k >= 0
    BY <1>1, <1>2, <2>1
  <2>2. CASE ~(k >= 0)
    <3>1. 1..k = {} /\ f = <<>> /\ DOMAIN f = 1..k
      BY <1>1, <2>2
    <3>2. <<>> \in Seq(Spans)
      OBVIOUS
    <3> HIDE DEF f
    <3> QED BY <3>1, <3>2
  <2> QED BY <2>1, <2>2
<1>6. f # <<>> => 1 \in 1..k
  <2>1. CASE k >= 1
    BY <1>1, <2>1
  <2>2. CASE ~(k >= 1)
    <3>1. 1..k = {} /\ f = <<>>
      BY <1>1, <2>2
    <3> QED BY <3>1
  <2> QED BY <2>1, <2>2
<1>7. /\ \A i \in DOMAIN f : s <= f[i].start /\ f[i].end <= e
      /\ f # <<>> => f[1].start = s
  BY <1>2, <1>3, <1>5, <1>6
<1> HIDE DEF f
<1> QED BY <1>4, <1>5, <1>7

\* The sequence of all elements of sequences over a set is one over that set.
LEMMA Flattened ==
    ASSUME NEW T, NEW ss \in Seq(Seq(T))
    PROVE  FlattenSeq(ss) \in Seq(T)
<1>1. CASE Len(ss) = 0
  BY <1>1 DEF FlattenSeq
<1>2. CASE Len(ss) # 0
  <2> DEFINE n == Len(ss)
             I == 1..n
             Joins(f) == f = [i \in I |-> IF i = 1 THEN ss[i] ELSE f[i - 1] \o ss[i]]
             Until(m) == 1..m
             Part(f, m) == /\ DOMAIN f = I
                           /\ \A i \in Until(m) : f[i] = IF i = 1 THEN ss[i] ELSE f[i - 1] \o ss[i]
  <2>1. n \in Nat \ {0} /\ \A i \in I : ss[i] \in Seq(T)
    BY <1>2
  <2>2. \E f : Part(f, n)
    <3> DEFINE Bad == {m \in I : ~ \E f : Part(f, m)}
    <3>1. SUFFICES ASSUME Bad # {} PROVE FALSE
      <4>1. n \in I
        BY <2>1
      <4> HIDE DEF I, Part, n
      <4> QED BY <4>1
    <3>2. Bad \in SUBSET Int /\ IsFiniteSet(Bad)
      <4>1. Bad \in SUBSET I /\ I \in SUBSET Int /\ IsFiniteSet(I)
        BY <2>1, FS_Interval
      <4> HIDE DEF Bad, I
      <4> QED BY <4>1, FS_Subset
    <3>3. Min(Bad) \in Bad /\ \A m \in Bad : Min(Bad) <= m
      <4> HIDE DEF Bad
      <4> QED BY <3>1, <3>2, Extremes
    <3> DEFINE m == Min(Bad)
    <3>4. m \in I /\ m \in Int /\ ~ \E f : Part(f, m)
      BY <3>2, <3>3
    <3> HIDE DEF m
    <3>5. CASE m = 1
      <4> DEFINE f == [i \in I |-> ss[1]]
      <4>1. Part(f, 1)
        BY <2>1
      <4> QED BY <3>4, <3>5, <4>1
    <3>6. CASE m # 1
      <4>1. m - 1 \in I /\ m - 1 \notin Bad
        <5>1. m - 1 \in I /\ ~(m <= m - 1)
          BY <2>1, <3>4, <3>6
        <5> HIDE DEF Bad
        <5> QED BY <3>3, <5>1 DEF m
      <4>2. PICK g : Part(g, m - 1)
        BY <4>1
      <4> DEFINE f == [i \in I |-> IF i = m THEN g[m - 1] \o ss[m] ELSE g[i]]
      <4>3. ASSUME NEW i \in 1..m
            PROVE  f[i] = IF i = 1 THEN ss[i] ELSE f[i - 1] \o ss[i]
        <5>1. i \in I /\ i \in Int /\ (i # 1 => i - 1 \in I /\ i - 1 # m)
          <6>1. m \in Int /\ m <= n /\ n \in Int
            BY <2>1, <3>4
          <6>2. i \in Int /\ 1 <= i /\ i <= m
            BY <4>3, <6>1
          <6> HIDE DEF n
          <6> QED BY <6>1, <6>2
        <5>2. CASE i = m
          <6>1. f[i] = g[m - 1] \o ss[m] /\ f[i - 1] = g[m - 1]
            BY <3>6, <5>1, <5>2
          <6> HIDE DEF f
          <6> QED BY <3>6, <5>2, <6>1
        <5>3. CASE i # m
          <6>1. i \in 1..(m - 1)
            BY <3>4, <4>3, <5>3
          <6>2. g[i] = IF i = 1 THEN ss[i] ELSE g[i - 1] \o ss[i]
            BY <4>2, <6>1
          <6>3. f[i] = g[i] /\ (i # 1 => f[i - 1] = g[i - 1])
            BY <5>1, <5>3
          <6> HIDE DEF f
          <6> QED BY <6>2, <6>3
        <5> QED BY <5>2, <5>3
      <4>4. Part(f, m)
        <5>1. DOMAIN f = I
          OBVIOUS
        <5> HIDE DEF f, I
        <5> QED BY <4>3, <5>1
      <4> QED BY <3>4, <4>4
    <3> QED BY <3>5, <3>6
  <2>3. PICK g : Part(g, n)
    BY <2>2
  <2>4. Joins([i \in I |-> g[i]])
    <3> DEFINE h == [i \in I |-> g[i]]
    <3>1. ASSUME NEW i \in I PROVE h[i] = IF i = 1 THEN ss[i] ELSE h[i - 1] \o ss[i]
      <4>1. i # 1 => i - 1 \in I
        BY <2>1
      <4>2. h[i] = g[i] /\ (i # 1 => h[i - 1] = g[i - 1])
        BY <4>1
      <4>3. g[i] = IF i = 1 THEN ss[i] ELSE g[i - 1] \o ss[i]
        BY <2>3
      <4> HIDE DEF h
      <4> QED BY <4>2, <4>3
    <3>2. h = [i \in I |-> IF i = 1 THEN ss[i] ELSE h[i - 1] \o ss[i]]
      BY <3>1
    <3> QED BY <3>2
  <2> DEFINE flatten == CHOOSE f : Joins(f)
  <2>5. Joins(flatten)
    <3> HIDE DEF Joins
    <3> QED BY <2>4, Zenon
  <2>6. FlattenSeq(ss) = flatten[n]
    BY <1>2, Zenon DEF FlattenSeq
  <2>7. \A i \in I : flatten[i] = IF i = 1 THEN ss[i] ELSE flatten[i - 1] \o ss[i]
    <3> HIDE DEF flatten
    <3> QED BY <2>5
  <2> HIDE DEF flatten, Joins, Part
  <2> DEFINE Bad == {i \in I : flatten[i] \notin Seq(T)}
  <2>8. SUFFICES ASSUME Bad # {} PROVE FALSE
    <3>1. n \in I
      BY <2>1
    <3> HIDE DEF I, n
    <3> QED BY <2>6, <3>1
  <2>9. Bad \in SUBSET Int /\ IsFiniteSet(Bad)
    <3>1. Bad \in SUBSET I /\ I \in SUBSET Int /\ IsFiniteSet(I)
      BY <2>1, FS_Interval
    <3> HIDE DEF Bad, I
    <3> QED BY <3>1, FS_Subset
  <2>10. Min(Bad) \in Bad /\ \A m \in Bad : Min(Bad) <= m
    <3> HIDE DEF Bad
    <3> QED BY <2>8, <2>9, Extremes
  <2> DEFINE m == Min(Bad)
  <2>11. m \in I /\ m \in Int /\ flatten[m] \notin Seq(T)
    BY <2>9, <2>10
  <2> HIDE DEF m
  <2>12. m # 1
    BY <2>1, <2>7, <2>11
  <2>13. m - 1 \in I /\ m - 1 \notin Bad
    <3>1. m - 1 \in I /\ ~(m <= m - 1)
      BY <2>1, <2>11, <2>12
    <3> HIDE DEF Bad
    <3> QED BY <2>10, <3>1 DEF m
  <2>14. flatten[m - 1] \in Seq(T)
    BY <2>13
  <2>15. flatten[m] = flatten[m - 1] \o ss[m]
    BY <2>7, <2>11, <2>12
  <2>16. ss[m] \in Seq(T)
    BY <2>1, <2>11
  <2>17. flatten[m - 1] \o ss[m] \in Seq(T)
    BY <2>14, <2>16
  <2> QED BY <2>11, <2>15, <2>17
<1> QED BY <1>1, <1>2

-----------------------------------------------------------------------------
(* The planner *)

LEMMA DatasetsAre ==
    /\ Datasets = 1..Len(Targets) /\ Len(Targets) \in Nat \ {0}
    /\ \A d \in Datasets : d \in Nat \ {0} /\ Targets[d] \in Nat \ {0}
  BY TargetsAssumption DEF Datasets

LEMMA GapRangesAre ==
    ASSUME TypeOK, NEW d \in Datasets, NEW s \in Int, NEW e \in Int
    PROVE  GapRanges(d, s, e) \in Seq([start : Int, end : Int])
<1> DEFINE missing == (s..(e - 1)) \ stored[d]
           first == {n \in missing : n - 1 \notin missing}
           after(n) == Min({m \in n..e : m \notin missing})
           Ordered(f) == \A i, j \in DOMAIN f : i < j => f[i] < f[j]
           order == CHOOSE f \in [1..Cardinality(first) -> first] : Ordered(f)
<1>1. first \in SUBSET Int /\ IsFiniteSet(first)
  <2>1. first \in SUBSET (s..(e - 1)) /\ IsFiniteSet(s..(e - 1)) /\ s..(e - 1) \in SUBSET Int
    BY FS_Interval
  <2> HIDE DEF first
  <2> QED BY <2>1, FS_Subset
<1>2. Cardinality(first) \in Nat /\ order \in [1..Cardinality(first) -> first]
  <2> HIDE DEF first
  <2>1. Cardinality(first) \in Nat /\ \E f \in [1..Cardinality(first) -> first] : Ordered(f)
    BY <1>1, OrderExists, Zenon
  <2> QED BY <2>1
<1>3. \A n \in first : n \in Int /\ n <= e /\ e \notin missing
  OBVIOUS
<1>4. ASSUME NEW n \in first PROVE after(n) \in Int
  <2> DEFINE Ends == {m \in n..e : m \notin missing}
  <2>1. n \in Int /\ e \in Ends
    BY <1>3
  <2>2. Ends \in SUBSET Int /\ IsFiniteSet(Ends)
    <3>1. Ends \in SUBSET (n..e) /\ n..e \in SUBSET Int /\ IsFiniteSet(n..e)
      BY <2>1, FS_Interval
    <3> HIDE DEF Ends
    <3> QED BY <3>1, FS_Subset
  <2>3. Min(Ends) \in Ends
    <3> HIDE DEF Ends
    <3> QED BY <2>1, <2>2, Extremes
  <2> QED BY <2>2, <2>3
<1>5. GapRanges(d, s, e) = [i \in DOMAIN order |-> [start |-> order[i], end |-> after(order[i])]]
  BY DEF GapRanges
<1> HIDE DEF order, after, first
<1>6. \A i \in DOMAIN order : order[i] \in Int /\ after(order[i]) \in Int
  BY <1>1, <1>2, <1>4
<1> DEFINE N == Cardinality(first)
           g == [i \in 1..N |-> [start |-> order[i], end |-> after(order[i])]]
<1>7. N \in Nat /\ DOMAIN order = 1..N
  BY <1>2
<1>8. GapRanges(d, s, e) = g
  BY <1>5, <1>7
<1> HIDE DEF N
<1>9. \A i \in 1..N : [start |-> order[i], end |-> after(order[i])] \in [start : Int, end : Int]
  BY <1>6, <1>7
<1>10. g \in Seq([start : Int, end : Int])
  BY <1>7, <1>9
<1> QED BY <1>8, <1>10

LEMMA RepairChunksAre ==
    ASSUME TypeOK, NEW d \in Datasets, NEW s \in Int, NEW e \in Int
    PROVE  RepairChunks(d, s, e) \in Seq(Spans)
<1> DEFINE gaps == GapRanges(d, s, e)
           cuts == [i \in DOMAIN gaps |-> Chunked(gaps[i].start, gaps[i].end)]
<1>1. gaps \in Seq([start : Int, end : Int])
  BY GapRangesAre
<1> HIDE DEF gaps
<1>2. \A i \in DOMAIN gaps : gaps[i].start \in Int /\ gaps[i].end \in Int
  <2> DEFINE Ranges == [start : Int, end : Int]
  <2>1. gaps \in Seq(Ranges)
    BY <1>1
  <2>2. \A i \in DOMAIN gaps : gaps[i] \in Ranges
    <3> HIDE DEF Ranges
    <3> QED BY <2>1
  <2> QED BY <2>2
<1>3. \A i \in DOMAIN gaps : Chunked(gaps[i].start, gaps[i].end) \in Seq(Spans)
  BY <1>2, ChunkedIs
<1>4. cuts \in Seq(Seq(Spans))
  BY <1>1, <1>3
<1>5. FlattenSeq(cuts) \in Seq(Spans)
  <2> HIDE DEF cuts
  <2> QED BY <1>4, Flattened
<1> QED BY <1>5 DEF RepairChunks, gaps

\* Where an incremental plan begins.
LEMMA IncrementalStartIs ==
    ASSUME TypeOK, NEW d \in Datasets, NEW latest \in Int
    PROVE  /\ stored[d] = {} => IncrementalStart(d, latest) = latest - Bootstrap
           /\ stored[d] # {} => /\ Min(stored[d]) \in Nat /\ Max(stored[d]) \in Nat
                                /\ Min(stored[d]) <= IncrementalStart(d, latest)
                                /\ IncrementalStart(d, latest) <= Max(stored[d]) + 1
           /\ IncrementalStart(d, latest) \in Int
<1>1. Bootstrap \in Nat \ {0} /\ Overlap \in Nat
  BY LimitsAssumption
<1>2. CASE stored[d] = {}
  BY <1>1, <1>2 DEF IncrementalStart
<1>3. CASE stored[d] # {}
  <2> DEFINE a == Min(stored[d])
             z == Max(stored[d])
  <2>1. a \in Nat /\ z \in Nat /\ a <= z
    <3>1. stored[d] \in SUBSET Int /\ stored[d] \in SUBSET Nat /\ IsFiniteSet(stored[d])
      BY DEF TypeOK
    <3>2. a \in stored[d] /\ z \in stored[d] /\ \A k \in stored[d] : a <= k
      BY <1>3, <3>1, Extremes
    <3> HIDE DEF a, z
    <3> QED BY <3>1, <3>2
  <2>2. IncrementalStart(d, latest) = Max({a, z + 1 - Overlap})
    BY <1>3 DEF IncrementalStart
  <2> HIDE DEF a, z
  <2>3. Max({a, z + 1 - Overlap}) = IF a <= z + 1 - Overlap THEN z + 1 - Overlap ELSE a
    BY <1>1, <2>1, MaxOfTwo
  <2>4. /\ IncrementalStart(d, latest) \in Int /\ a <= IncrementalStart(d, latest)
        /\ IncrementalStart(d, latest) <= z + 1
    BY <1>1, <2>1, <2>2, <2>3
  <2> QED BY <1>3, <2>1, <2>4 DEF a, z
<1> QED BY <1>2, <1>3

\* What the collector accepts of the planner is a chain.
LEMMA AcceptedChains ==
    ASSUME NEW d \in Datasets, NEW s \in Int, NEW e \in Int, PlanAccepted(Chunked(s, e), e)
    PROVE  Chained(NewJob(d, "INCREMENTAL", s, e, Chunked(s, e)))
<1> DEFINE c == Chunked(s, e)
           job == NewJob(d, "INCREMENTAL", s, e, c)
<1>1. /\ c \in Seq(Spans) /\ c # <<>>
      /\ \A i \in DOMAIN c : s <= c[i].start /\ c[i].end <= e
      /\ c[1].start = s
  BY ChunkedIs DEF PlanAccepted
<1>2. c[Len(c)].end = e /\ \A i \in DOMAIN c : i > 1 => c[i].start = c[i - 1].end
  BY DEF PlanAccepted, Last
<1> HIDE DEF c
<1>3. ASSUME NEW i \in DOMAIN c, i < Len(c) PROVE c[i].end < e
  <2>1. i + 1 \in DOMAIN c /\ i + 1 > 1 /\ (i + 1) - 1 = i /\ i \in Int
    BY <1>1, <1>3
  <2>2. c[i + 1].start = c[i].end /\ c[i + 1].end <= e
    BY <1>1, <1>2, <2>1
  <2>3. c[i + 1] \in Spans
    BY <1>1, <2>1
  <2> QED BY <2>2, <2>3 DEF Spans
<1>4. job.chunks = c /\ job.start = s /\ job.end = e
  BY DEF NewJob
<1> HIDE DEF job
<1>5. Chained(job)
  BY <1>1, <1>2, <1>3, <1>4 DEF Chained
<1> QED BY <1>5 DEF job, c

-----------------------------------------------------------------------------
(* What a step leaves as it is *)

\* Candles, receipts and jobs are only added, and the plans of jobs stand.
Keeps ==
    /\ hole' = hole /\ now <= now' /\ receipts \subseteq receipts'
    /\ \A d \in Datasets : stored[d] \subseteq stored'[d]
    /\ DOMAIN jobs \subseteq DOMAIN jobs'
    /\ \A j \in DOMAIN jobs :
         /\ jobs'[j].d = jobs[j].d /\ jobs'[j].type = jobs[j].type
         /\ jobs'[j].start = jobs[j].start /\ jobs'[j].end = jobs[j].end
         /\ jobs'[j].chunks = jobs[j].chunks

LEMMA JobTypeOK ==
    ASSUME TypeOK, NEW j \in DOMAIN jobs
    PROVE  /\ jobs[j] \in AllJobs /\ jobs[j].d \in Datasets /\ j \in Nat \ {0}
           /\ jobs[j].chunks \in Seq(Spans) /\ jobs[j].next \in Nat \ {0}
           /\ jobs[j].start \in Int /\ jobs[j].end \in Int
           /\ jobs[j].type \in JobTypes /\ jobs[j].status \in JobStatuses
<1>1. jobs \in Seq(AllJobs)
  BY DEF TypeOK
<1>2. jobs[j] \in AllJobs /\ j \in Nat \ {0}
  BY <1>1
<1> QED BY <1>2 DEF AllJobs

LEMMA FetchesKeeps ==
    ASSUME TypeOK, Keeps, NEW j \in DOMAIN jobs, NEW m, NEW n, Fetches(j, m, n)
    PROVE  /\ \A k \in m..(n - 1) : k \in stored'[jobs[j].d] \cup hole[jobs[j].d] \/ k = jobs[j].end - 1
           /\ AllFetched(j)' => m..(n - 1) \subseteq stored'[jobs[j].d]
<1>1. jobs[j].d \in Datasets
  BY JobTypeOK
<1>2. stored[jobs[j].d] \subseteq stored'[jobs[j].d]
  BY <1>1 DEF Keeps
<1>3. AllFetched(j)' => AllFetched(j)
  BY DEF Keeps, AllFetched
<1> QED BY <1>2, <1>3 DEF Fetches

LEMMA EndKeeps ==
    ASSUME TypeOK, TypeOK', Keeps, NEW d \in Datasets
    PROVE  LatestEnd(d, now) \in Int /\ LatestEnd(d, now') \in Int
           /\ LatestEnd(d, now) <= LatestEnd(d, now')
<1>1. now \in Nat /\ now' \in Nat /\ now <= now' /\ Targets[d] \in Nat \ {0}
  BY DatasetsAre DEF TypeOK, Keeps
<1>2. now \div Targets[d] \in Int /\ now' \div Targets[d] \in Int
  BY <1>1, DivBounds
<1>3. now \div Targets[d] <= now' \div Targets[d]
  BY <1>1, DivGrows
<1> QED BY <1>2, <1>3 DEF LatestEnd

LEMMA JobKeeps ==
    ASSUME TypeOK, TypeOK', Keeps, NEW j \in DOMAIN jobs, JobOK(j),
           jobs'[j].next = jobs[j].next,
           jobs'[j].status = "COMPLETED" <=> jobs[j].status = "COMPLETED"
    PROVE  JobOK(j)'
<1>1. /\ jobs'[j].d = jobs[j].d /\ jobs'[j].type = jobs[j].type
      /\ jobs'[j].start = jobs[j].start /\ jobs'[j].end = jobs[j].end
      /\ jobs'[j].chunks = jobs[j].chunks /\ hole' = hole
  BY DEF Keeps
<1>2. jobs[j].d \in Datasets /\ jobs[j].end \in Int
  BY JobTypeOK
<1>3. stored[jobs[j].d] \subseteq stored'[jobs[j].d]
  BY <1>2 DEF Keeps
<1>4. (jobs[j].next <= Len(jobs[j].chunks) + 1)'
  BY <1>1 DEF JobOK
<1>5. (jobs[j].status = "COMPLETED" <=> jobs[j].next = Len(jobs[j].chunks) + 1)'
  BY <1>1 DEF JobOK
<1>6. ASSUME jobs[j].type = "INCREMENTAL"
      PROVE  (/\ Chained(jobs[j]) /\ Covered(j) /\ 0 <= jobs[j].start
              /\ jobs[j].end <= LatestEnd(jobs[j].d, now))'
  <2>1. /\ Chained(jobs[j]) /\ Covered(j) /\ 0 <= jobs[j].start
        /\ jobs[j].end <= LatestEnd(jobs[j].d, now)
    BY <1>6 DEF JobOK
  <2>2. Chained(jobs[j])'
    BY <1>1, <2>1 DEF Chained
  <2>3. Done(jobs[j])' = Done(jobs[j])
    BY <1>1 DEF Done
  <2>4. Covered(j)'
    <3>1. Fetches(j, jobs[j].start, Done(jobs[j]))
      BY <2>1 DEF Covered
    <3>2. /\ \A k \in jobs[j].start..(Done(jobs[j]) - 1) :
                k \in stored'[jobs[j].d] \cup hole[jobs[j].d] \/ k = jobs[j].end - 1
          /\ AllFetched(j)' => jobs[j].start..(Done(jobs[j]) - 1) \subseteq stored'[jobs[j].d]
      BY <3>1, FetchesKeeps
    <3> QED BY <1>1, <2>3, <3>2 DEF Covered, Fetches
  <2>5. (jobs[j].end <= LatestEnd(jobs[j].d, now))'
    <3>1. LatestEnd(jobs[j].d, now) \in Int /\ LatestEnd(jobs[j].d, now') \in Int
          /\ LatestEnd(jobs[j].d, now) <= LatestEnd(jobs[j].d, now')
      BY <1>2, EndKeeps
    <3>2. LatestEnd(jobs[j].d, now)' = LatestEnd(jobs[j].d, now')
      BY <1>1 DEF LatestEnd
    <3> QED BY <1>1, <1>2, <2>1, <3>1, <3>2
  <2> QED BY <1>1, <2>1, <2>2, <2>4, <2>5
<1>7. (jobs[j].type = "GAP_REPAIR" /\ jobs[j].status = "COMPLETED" =>
         Complete(jobs[j].d, jobs[j].start, jobs[j].end))'
  BY <1>1, <1>3 DEF JobOK, Complete
<1> QED BY <1>1, <1>4, <1>5, <1>6, <1>7 DEF JobOK

\* What a result reports stays so.
LEMMA HoldsKeeps ==
    ASSUME TypeOK, Keeps, NEW r, Holds(r)
    PROVE  /\ r.d \in Datasets
           /\ r.status = "NOOP" => \E n \in stored'[r.d] : n >= r.latest - 1
           /\ r.status = "UPDATED" =>
                /\ r.job \in DOMAIN jobs'
                /\ jobs'[r.job].start..(r.latest - 1) \subseteq stored'[r.d]
<1>1. r.d \in Datasets /\ stored[r.d] \subseteq stored'[r.d] /\ hole' = hole
  BY DEF Holds, Keeps
<1>2. r.status = "UPDATED" => r.job \in DOMAIN jobs /\ jobs'[r.job].start = jobs[r.job].start
  BY DEF Holds, Keeps
<1>3. DOMAIN jobs \subseteq DOMAIN jobs'
  BY DEF Keeps
<1> QED BY <1>1, <1>2, <1>3 DEF Holds

LEMMA ReportsKeep ==
    ASSUME TypeOK, Keeps, ReportsOK, cycle' = cycle
    PROVE  ReportsOK'
<1>1. ASSUME NEW i \in DOMAIN cycle'.results PROVE Holds(cycle.results[i])'
  <2>1. cycle'.results[i] = cycle.results[i] /\ Holds(cycle.results[i])
    BY <1>1 DEF ReportsOK
  <2> DEFINE r == cycle.results[i]
  <2>2. /\ r.d \in Datasets
        /\ r.status = "NOOP" => \E n \in stored'[r.d] : n >= r.latest - 1
        /\ r.status = "UPDATED" =>
             /\ r.job \in DOMAIN jobs'
             /\ jobs'[r.job].start..(r.latest - 1) \subseteq stored'[r.d]
    <3> HIDE DEF r
    <3> QED BY <2>1, HoldsKeeps DEF r
  <2> QED BY <2>1, <2>2 DEF Holds
<1> QED BY <1>1 DEF ReportsOK

\* A collector that goes on with a target keeps what it has collected.
LEMMA RunnerMoves ==
    ASSUME TypeOK, TypeOK', Keeps, NEW a \in Actors, RunnerOK(a),
           at'[a].cycle = at[a].cycle, at'[a].begun = at[a].begun,
           at'[a].started = at[a].started, at'[a].results = at[a].results,
           rlock' = rlock, cycle'.index = cycle.index,
           Executing(a)' =>
             LET j == at'[a].job
             IN  /\ jobs'[j].d = Len(at[a].results) + 1 /\ jobs'[j].type = "INCREMENTAL"
                 /\ jobs'[j].end = LatestEnd(jobs'[j].d, at[a].started),
           \A j \in DOMAIN jobs' \ DOMAIN jobs :
             jobs'[j].type = "INCREMENTAL" => jobs'[j].end <= LatestEnd(jobs'[j].d, at[a].started)
    PROVE  RunnerOK(a)'
<1>1. now <= now' /\ now \in Nat /\ now' \in Nat
  BY DEF Keeps, TypeOK
<1>2. at[a].started \in Nat /\ at[a].begun \in Nat
  BY DEF TypeOK, Places
<1>3. (/\ rlock = a /\ at[a].cycle = cycle.index + 1
       /\ at[a].begun <= at[a].started /\ StartTime <= at[a].started /\ at[a].started <= now
       /\ Len(at[a].results) <= Len(Targets))'
  BY <1>1, <1>2 DEF RunnerOK
<1>4. ASSUME NEW i \in DOMAIN at'[a].results
      PROVE  (LET r == at[a].results[i]
              IN  /\ r.d = i /\ ValidResult(r) /\ Holds(r)
                  /\ at[a].begun <= r.started /\ r.finished <= now)'
  <2> DEFINE r == at[a].results[i]
  <2>1. /\ r.d = i /\ ValidResult(r) /\ Holds(r)
        /\ at[a].begun <= r.started /\ r.finished <= now
    BY <1>4 DEF RunnerOK
  <2>2. r \in AllResults
    BY <1>4 DEF TypeOK, Places
  <2>3. r.finished <= now'
    BY <1>1, <2>1, <2>2 DEF AllResults
  <2>4. /\ r.d \in Datasets
        /\ r.status = "NOOP" => \E n \in stored'[r.d] : n >= r.latest - 1
        /\ r.status = "UPDATED" =>
             /\ r.job \in DOMAIN jobs'
             /\ jobs'[r.job].start..(r.latest - 1) \subseteq stored'[r.d]
    <3> HIDE DEF r
    <3> QED BY <2>1, HoldsKeeps
  <2>5. Holds(at[a].results[i])'
    BY <2>4 DEF Holds
  <2>6. ValidResult(at[a].results[i])'
    BY <2>1 DEF ValidResult
  <2> QED BY <2>1, <2>3, <2>5, <2>6
<1>5. (Executing(a) => /\ JobOf(a).d = Len(at[a].results) + 1
                       /\ JobOf(a).type = "INCREMENTAL"
                       /\ JobOf(a).end = LatestEnd(JobOf(a).d, at[a].started))'
  BY DEF JobOf, LatestEnd
<1>6. ASSUME NEW j \in DOMAIN jobs', jobs'[j].type = "INCREMENTAL"
      PROVE  jobs'[j].end <= LatestEnd(jobs'[j].d, at[a].started)
  <2>1. CASE j \in DOMAIN jobs
    <3>1. /\ jobs'[j].d = jobs[j].d /\ jobs'[j].end = jobs[j].end
          /\ jobs[j].end <= LatestEnd(jobs[j].d, at[a].started)
      BY <1>6, <2>1 DEF Keeps, RunnerOK
    <3> QED BY <3>1
  <2> QED BY <1>6, <2>1
<1>7. (\A j \in DOMAIN jobs :
         jobs[j].type = "INCREMENTAL" => jobs[j].end <= LatestEnd(jobs[j].d, at[a].started))'
  BY <1>6 DEF LatestEnd
<1> HIDE DEF Executing
<1> QED BY <1>3, <1>4, <1>5, <1>7 DEF RunnerOK

\* A process that does not move, and whose job and locks are left alone, stays as it was.
LEMMA ActorKeeps ==
    ASSUME TypeOK, TypeOK', Keeps, NEW b \in Actors, ActorOK(b), at'[b] = at[b],
           at[b].cycle # 0 =>
             /\ rlock' = rlock /\ cycle'.index = cycle.index
             /\ \A j \in DOMAIN jobs' \ DOMAIN jobs : jobs'[j].type # "INCREMENTAL",
           Working(b) =>
             /\ jobs'[at[b].job].status = jobs[at[b].job].status
             /\ jobs'[at[b].job].next = jobs[at[b].job].next
             /\ dlock'[jobs[at[b].job].d] = b
    PROVE  ActorOK(b)'
<1>1. Executing(b) =>
        LET j == at[b].job
        IN  /\ j \in DOMAIN jobs /\ j \in DOMAIN jobs'
            /\ jobs'[j].d = jobs[j].d /\ jobs'[j].type = jobs[j].type
            /\ jobs'[j].start = jobs[j].start /\ jobs'[j].end = jobs[j].end
            /\ jobs'[j].chunks = jobs[j].chunks
  BY DEF ActorOK, Keeps
<1>2. hole' = hole /\ now <= now' /\ now \in Nat /\ now' \in Nat
  BY DEF Keeps, TypeOK
<1>3. (at[b].pc = "idle" => at[b] = Idle)'
  BY DEF ActorOK, Idle
<1>4. (at[b].pc = "target" => at[b].job = 0 /\ at[b].cycle # 0)'
  BY DEF ActorOK
<1>5. (Executing(b) => at[b].job \in DOMAIN jobs)'
  BY <1>1 DEF Executing
<1>6. (Working(b) => JobOf(b).status = "RUNNING" /\ dlock[JobOf(b).d] = b)'
  <2>1. SUFFICES ASSUME Working(b)
                 PROVE  jobs'[at[b].job].status = "RUNNING" /\ dlock'[jobs'[at[b].job].d] = b
    BY DEF Working, JobOf
  <2>2. jobs[at[b].job].status = "RUNNING" /\ jobs'[at[b].job].d = jobs[at[b].job].d
    BY <1>1, <2>1 DEF ActorOK, Working, Executing, JobOf
  <2> QED BY <2>1, <2>2
<1>7. (at[b].pc = "checkpoint" /\ JobOf(b).type = "INCREMENTAL" =>
         LET r == JobOf(b).chunks[JobOf(b).next]
         IN  Fetches(at[b].job, r.start, r.end))'
  <2>0. PICK j : j = at[b].job
    OBVIOUS
  <2> DEFINE r == jobs[j].chunks[jobs[j].next]
  <2>1. SUFFICES ASSUME at[b].pc = "checkpoint", jobs'[j].type = "INCREMENTAL"
                 PROVE  LET q == jobs'[j].chunks[jobs'[j].next]
                        IN  /\ \A k \in q.start..(q.end - 1) :
                                 k \in stored'[jobs'[j].d] \cup hole'[jobs'[j].d] \/ k = jobs'[j].end - 1
                            /\ AllFetched(j)' => q.start..(q.end - 1) \subseteq stored'[jobs'[j].d]
    BY <2>0 DEF JobOf, Fetches
  <2>2. /\ j \in DOMAIN jobs /\ jobs'[j].d = jobs[j].d /\ jobs'[j].type = jobs[j].type
        /\ jobs'[j].end = jobs[j].end /\ jobs'[j].chunks = jobs[j].chunks
        /\ jobs'[j].next = jobs[j].next
    BY <1>1, <2>0, <2>1 DEF Executing, Working
  <2>3. Fetches(j, r.start, r.end)
    BY <2>0, <2>1, <2>2 DEF ActorOK, JobOf
  <2>4. /\ \A k \in r.start..(r.end - 1) :
             k \in stored'[jobs[j].d] \cup hole[jobs[j].d] \/ k = jobs[j].end - 1
        /\ AllFetched(j)' => r.start..(r.end - 1) \subseteq stored'[jobs[j].d]
    <3> HIDE DEF r
    <3> QED BY <2>2, <2>3, FetchesKeeps
  <2> QED BY <1>2, <2>2, <2>4
<1>8. (at[b].cycle # 0 => RunnerOK(b))'
  <2>1. SUFFICES ASSUME at[b].cycle # 0 PROVE RunnerOK(b)'
    OBVIOUS
  <2>2. RunnerOK(b) /\ rlock' = rlock /\ cycle'.index = cycle.index
        /\ \A j \in DOMAIN jobs' \ DOMAIN jobs : jobs'[j].type # "INCREMENTAL"
    BY <2>1 DEF ActorOK
  <2>3. Executing(b)' =>
          LET j == at'[b].job
          IN  /\ jobs'[j].d = Len(at[b].results) + 1 /\ jobs'[j].type = "INCREMENTAL"
              /\ jobs'[j].end = LatestEnd(jobs'[j].d, at[b].started)
    BY <1>1, <2>2 DEF RunnerOK, Executing, JobOf
  <2> QED BY <2>2, <2>3, RunnerMoves
<1> QED BY <1>3, <1>4, <1>5, <1>6, <1>7, <1>8 DEF ActorOK

\* The gaps of a dataset that got no candle and no plan of a collector.
LEMMA GapKeeps ==
    ASSUME TypeOK, Keeps, NEW d \in Datasets, GapOK(d), stored'[d] = stored[d],
           \A j \in DOMAIN jobs' \ DOMAIN jobs : jobs'[j].d = d => jobs'[j].type # "INCREMENTAL"
    PROVE  GapOK(d)'
<1>1. SUFFICES ASSUME Collected(d)'
               PROVE  (/\ \A i, j \in FirstPlans(d) : i < j => jobs[i].start <= jobs[j].start
                       /\ \A j \in DOMAIN jobs : jobs[j].d = d => j \in FirstPlans(d) \/ Reaches(d, j)
                       /\ stored[d] # {} =>
                            /\ Origin(d)
                            /\ \A n \in (Min(stored[d])..Max(stored[d])) \ (stored[d] \cup hole[d]) :
                                 Explained(d, n))'
  BY DEF GapOK
<1>2. \A j \in DOMAIN jobs : /\ j \in DOMAIN jobs' /\ jobs'[j].d = jobs[j].d
                             /\ jobs'[j].start = jobs[j].start /\ jobs'[j].end = jobs[j].end
                             /\ jobs'[j].type = jobs[j].type
  BY DEF Keeps
<1>3. \A j \in DOMAIN jobs' : jobs'[j].d = d => j \in DOMAIN jobs
  BY <1>1 DEF Collected
<1>4. Collected(d)
  BY <1>1, <1>2 DEF Collected
<1>5. FirstPlans(d)' = FirstPlans(d)
  BY <1>2, <1>3 DEF FirstPlans
<1>6. \A j \in FirstPlans(d) : j \in DOMAIN jobs
  BY DEF FirstPlans
<1>7. hole' = hole
  BY DEF Keeps
<1>8. /\ \A i, j \in FirstPlans(d) : i < j => jobs[i].start <= jobs[j].start
      /\ \A j \in DOMAIN jobs : jobs[j].d = d => j \in FirstPlans(d) \/ Reaches(d, j)
      /\ stored[d] # {} =>
           /\ Origin(d)
           /\ \A n \in (Min(stored[d])..Max(stored[d])) \ (stored[d] \cup hole[d]) : Explained(d, n)
  BY <1>4 DEF GapOK
<1>9. (\A i, j \in FirstPlans(d) : i < j => jobs[i].start <= jobs[j].start)'
  BY <1>2, <1>5, <1>6, <1>8
<1>10. (\A j \in DOMAIN jobs : jobs[j].d = d => j \in FirstPlans(d) \/ Reaches(d, j))'
  <2>1. \A j \in DOMAIN jobs : Reaches(d, j) => Reaches(d, j)'
    BY <1>2 DEF Reaches
  <2> QED BY <1>2, <1>3, <1>5, <1>8, <2>1
<1>11. ASSUME stored'[d] # {} PROVE Origin(d)'
  BY <1>2, <1>5, <1>6, <1>7, <1>8, <1>11 DEF Origin
<1>12. ASSUME stored'[d] # {}, NEW n \in (Min(stored'[d])..Max(stored'[d])) \ (stored'[d] \cup hole'[d])
       PROVE  Explained(d, n)'
  <2>1. Explained(d, n)
    BY <1>7, <1>8, <1>12
  <2> QED BY <1>2, <1>5, <1>6, <2>1 DEF Explained
<1> QED BY <1>9, <1>10, <1>11, <1>12

LEMMA ActorTypeOK ==
    ASSUME TypeOK, NEW a \in Actors
    PROVE  /\ at[a] \in Places /\ at[a].pc \in Points /\ at[a].cycle \in Nat
           /\ at[a].results \in Seq(AllResults) /\ at[a].begun \in Nat
           /\ at[a].started \in Nat /\ at[a].job \in Nat /\ now \in Nat
  BY DEF TypeOK, Places

LEMMA IdleTypeOK == Idle \in Places
  BY DEF Idle, Places, Points

LEMMA LatestIs ==
    ASSUME NEW d \in Datasets, NEW t \in Nat
    PROVE  LatestEnd(d, t) \in Int /\ LatestEnd(d, t) * Targets[d] <= t
<1> DEFINE u == Targets[d]
<1>1. u \in Nat \ {0} /\ t \in Int
  BY DatasetsAre
<1> HIDE DEF u
<1>2. t \div u \in Int /\ (t \div u) * u <= t
  BY <1>1, DivBounds
<1> QED BY <1>2 DEF LatestEnd, u

LEMMA ResultTypeOK ==
    ASSUME TypeOK, NEW a \in Actors, NEW status \in {"NOOP", "UPDATED", "FAILED"},
           Len(at[a].results) + 1 \in Datasets
    PROVE  ResultOf(a, status) \in AllResults
<1> DEFINE d == Len(at[a].results) + 1
<1>1. d \in Nat /\ LatestEnd(d, at[a].started) \in Int
  BY ActorTypeOK, DatasetsAre, LatestIs
<1>2. at[a].job \in Nat /\ at[a].started \in Nat /\ now \in Nat
  BY ActorTypeOK
<1> HIDE DEF d
<1> QED BY <1>1, <1>2 DEF ResultOf, AllResults, d

LEMMA AfterTypeOK ==
    ASSUME TypeOK, NEW a \in Actors, NEW status \in {"NOOP", "UPDATED", "FAILED"},
           at[a].cycle # 0 => Len(at[a].results) + 1 \in Datasets
    PROVE  After(a, status) \in Places
<1>1. CASE at[a].cycle = 0
  BY <1>1, IdleTypeOK DEF After
<1>2. CASE at[a].cycle # 0
  <2>1. ResultOf(a, status) \in AllResults
    BY <1>2, ResultTypeOK
  <2>2. Append(at[a].results, ResultOf(a, status)) \in Seq(AllResults)
    BY <2>1, ActorTypeOK
  <2>3. at[a] \in Places /\ now \in Nat /\ "target" \in Points
    BY ActorTypeOK DEF Points
  <2> QED BY <1>2, <2>2, <2>3 DEF After, Places
<1> QED BY <1>1, <1>2

\* A process whose job or target is over.
LEMMA AfterKeeps ==
    ASSUME TypeOK, TypeOK', Keeps, JobsOK', NEW a \in Actors, ActorOK(a),
           NEW status \in {"NOOP", "UPDATED", "FAILED"}, at'[a] = After(a, status),
           at[a].cycle # 0 =>
             LET d == Len(at[a].results) + 1
             IN  /\ d \in Datasets /\ now' = now /\ rlock' = rlock /\ cycle'.index = cycle.index
                 /\ status = "NOOP" =>
                      at[a].job = 0 /\ \E n \in stored'[d] : n >= LatestEnd(d, at[a].started) - 1
                 /\ status = "UPDATED" =>
                      /\ at[a].job \in DOMAIN jobs'
                      /\ jobs'[at[a].job].start..(LatestEnd(d, at[a].started) - 1)
                           \subseteq stored'[d]
    PROVE  ActorOK(a)'
<1>1. CASE at[a].cycle = 0
  <2>1. at'[a] = Idle /\ Idle.pc = "idle" /\ Idle.cycle = 0
    BY <1>1 DEF After, Idle
  <2>2. Idle' = Idle
    BY DEF Idle
  <2> QED BY <2>1, <2>2 DEF ActorOK, Executing, Working
<1>2. CASE at[a].cycle # 0
  <2> DEFINE d == Len(at[a].results) + 1
             e == LatestEnd(d, at[a].started)
             q == ResultOf(a, status)
  <2>1. /\ d \in Datasets /\ now' = now /\ rlock' = rlock /\ cycle'.index = cycle.index
        /\ status = "NOOP" => at[a].job = 0 /\ \E n \in stored'[d] : n >= e - 1
        /\ status = "UPDATED" =>
             /\ at[a].job \in DOMAIN jobs'
             /\ jobs'[at[a].job].start..(e - 1) \subseteq stored'[d]
    BY <1>2
  <2>2. q \in AllResults
    BY <2>1, ResultTypeOK
  <2>3. at[a].results \in Seq(AllResults) /\ now \in Nat /\ at[a].started \in Nat
        /\ at[a].job \in Nat /\ at[a] \in Places /\ at[a].begun \in Nat
    BY ActorTypeOK
  <2>4. e \in Int /\ e * Targets[d] <= at[a].started
    BY <2>1, <2>3, LatestIs
  <2>5. RunnerOK(a)
    BY <1>2 DEF ActorOK
  <2>6. /\ q.d = d /\ q.status = status /\ q.job = at[a].job /\ q.started = at[a].started
        /\ q.finished = now /\ q.latest = e
    BY DEF ResultOf
  <2>7. /\ at'[a].pc = "target" /\ at'[a].job = 0 /\ at'[a].cycle = at[a].cycle
        /\ at'[a].begun = at[a].begun /\ at'[a].started = now
        /\ at'[a].results = Append(at[a].results, q)
    BY <1>2, <2>3 DEF After, Places
  <2> HIDE DEF e, q
  <2>8. /\ q.started <= q.finished /\ q.latest * Targets[q.d] <= q.finished
        /\ q.status = "UPDATED" => q.job # 0
        /\ q.status = "NOOP" => q.job = 0
    <3>1. at[a].started <= now
      BY <2>5 DEF RunnerOK
    <3>2. Targets[d] \in Nat \ {0}
      BY <2>1, DatasetsAre
    <3>3. status = "UPDATED" => at[a].job # 0
      <4>1. jobs' \in Seq(AllJobs)
        BY DEF TypeOK
      <4>2. 0 \notin DOMAIN jobs'
        BY <4>1
      <4> QED BY <2>1, <4>2
    <3>4. e * Targets[d] \in Int
      BY <2>4, <3>2
    <3> HIDE DEF d
    <3> QED BY <2>1, <2>3, <2>4, <2>6, <3>1, <3>3, <3>4
  <2>9. /\ q.d \in Datasets
        /\ q.status = "NOOP" => \E n \in stored'[q.d] : n >= q.latest - 1
        /\ q.status = "UPDATED" =>
             /\ q.job \in DOMAIN jobs'
             /\ jobs'[q.job].start..(q.latest - 1) \subseteq stored'[q.d]
    BY <2>1, <2>6
  <2>10. ASSUME NEW i \in DOMAIN at'[a].results
         PROVE  (LET r == at[a].results[i]
                 IN  /\ r.d = i /\ ValidResult(r) /\ Holds(r)
                     /\ at[a].begun <= r.started /\ r.finished <= now)'
    <3>1. CASE i \in DOMAIN at[a].results
      <4> DEFINE r == at[a].results[i]
      <4>1. /\ r.d = i /\ ValidResult(r) /\ Holds(r)
            /\ at[a].begun <= r.started /\ r.finished <= now
        BY <2>5, <3>1 DEF RunnerOK
      <4>2. at'[a].results[i] = r
        BY <2>2, <2>3, <2>7, <3>1
      <4>3. /\ r.d \in Datasets
            /\ r.status = "NOOP" => \E n \in stored'[r.d] : n >= r.latest - 1
            /\ r.status = "UPDATED" =>
                 /\ r.job \in DOMAIN jobs'
                 /\ jobs'[r.job].start..(r.latest - 1) \subseteq stored'[r.d]
        <5> HIDE DEF r
        <5> QED BY <4>1, HoldsKeeps
      <4> HIDE DEF r
      <4>4. Holds(at[a].results[i])'
        BY <4>2, <4>3 DEF Holds
      <4>5. ValidResult(at[a].results[i])'
        BY <4>1, <4>2 DEF ValidResult
      <4> QED BY <2>1, <2>7, <4>1, <4>2, <4>4, <4>5
    <3>2. CASE i \notin DOMAIN at[a].results
      <4>1. i = d /\ at'[a].results[i] = q
        BY <2>2, <2>3, <2>7, <2>10, <3>2
      <4>2. Holds(at[a].results[i])'
        BY <2>9, <4>1 DEF Holds
      <4>3. ValidResult(at[a].results[i])'
        BY <2>8, <4>1 DEF ValidResult
      <4>4. at'[a].begun <= q.started /\ q.finished <= now'
        BY <2>1, <2>3, <2>5, <2>6, <2>7 DEF RunnerOK
      <4> HIDE DEF d
      <4> QED BY <2>6, <4>1, <4>2, <4>3, <4>4
    <3> QED BY <3>1, <3>2
  <2>11. (/\ rlock = a /\ at[a].cycle = cycle.index + 1
          /\ at[a].begun <= at[a].started /\ StartTime <= at[a].started /\ at[a].started <= now
          /\ Len(at[a].results) <= Len(Targets))'
    <3>1. Len(at'[a].results) = d /\ d <= Len(Targets)
      BY <2>1, <2>2, <2>3, <2>7, DatasetsAre
    <3>2. StartTime \in Nat /\ StartTime <= now
      BY LimitsAssumption DEF TypeOK
    <3>3. /\ rlock = a /\ at[a].cycle = cycle.index + 1
          /\ at[a].begun <= at[a].started /\ at[a].started <= now
      BY <2>5 DEF RunnerOK
    <3> HIDE DEF d
    <3> QED BY <2>1, <2>3, <2>7, <3>1, <3>2, <3>3
  <2>12. (\A j \in DOMAIN jobs :
            jobs[j].type = "INCREMENTAL" => jobs[j].end <= LatestEnd(jobs[j].d, at[a].started))'
    <3>1. \A j \in DOMAIN jobs' : jobs'[j].type = "INCREMENTAL" =>
            jobs'[j].end <= LatestEnd(jobs'[j].d, now')
      BY DEF JobsOK, JobOK, LatestEnd
    <3> QED BY <2>1, <2>7, <3>1 DEF LatestEnd
  <2>13. ~Executing(a)' /\ ~Working(a)'
    BY <2>7 DEF Executing, Working
  <2>14. RunnerOK(a)'
    BY <2>10, <2>11, <2>12, <2>13 DEF RunnerOK
  <2> QED BY <1>2, <2>7, <2>13, <2>14 DEF ActorOK
<1> QED BY <1>1, <1>2

\* Steps that store no candle and plan nothing for a collector leave no gap.
LEMMA GapsKeep ==
    ASSUME TypeOK, Keeps, GapsOK, stored' = stored,
           \A j \in DOMAIN jobs' \ DOMAIN jobs : jobs'[j].type # "INCREMENTAL"
    PROVE  GapsOK'
<1>1. ASSUME NEW d \in Datasets PROVE GapOK(d)'
  BY <1>1, GapKeeps DEF GapsOK
<1> QED BY <1>1 DEF GapsOK

-----------------------------------------------------------------------------
(* The steps *)

LEMMA InitOK == Init => IInv
<1> SUFFICES ASSUME Init PROVE IInv
  OBVIOUS
<1>1. jobs = <<>> /\ DOMAIN jobs = {}
  BY DEF Init
<1>2. TypeOK
  <2>1. now \in Nat /\ StartTime <= now
    BY LimitsAssumption DEF Init
  <2>2. \A d \in Datasets : stored[d] = {} /\ IsFiniteSet(stored[d])
    BY FS_EmptySet DEF Init
  <2>3. at \in [Actors -> Places]
    BY IdleTypeOK DEF Init
  <2>4. jobs \in Seq(AllJobs) /\ cycle.index \in Nat /\ cycle.results \in Seq(AllResults)
    BY DEF Init
  <2>5. /\ stored \in [Datasets -> SUBSET Nat]
        /\ dlock \in [Datasets -> Actors \cup {None}] /\ rlock \in Actors \cup {None}
    BY DEF Init
  <2> QED BY <2>1, <2>2, <2>3, <2>4, <2>5 DEF TypeOK
<1>3. JobsOK
  BY <1>1 DEF JobsOK
<1>4. \A a \in Actors : at[a] = Idle
  BY DEF Init
<1>5. ActorsOK
  BY <1>4 DEF ActorsOK, ActorOK, Idle, Executing, Working
<1>6. ReportsOK
  BY DEF Init, ReportsOK
<1>7. GapsOK
  <2>1. \A d \in Datasets : FirstPlans(d) = {} /\ stored[d] = {}
    BY <1>1 DEF FirstPlans, Init
  <2> QED BY <1>1, <2>1 DEF GapsOK, GapOK
<1> QED BY <1>2, <1>3, <1>5, <1>6, <1>7 DEF IInv

LEMMA TickKeeps == ASSUME IInv, Tick PROVE IInv'
<1>1. /\ now' = now + 1 /\ hole' = hole /\ stored' = stored /\ dlock' = dlock /\ rlock' = rlock
      /\ jobs' = jobs /\ receipts' = receipts /\ cycle' = cycle /\ at' = at /\ faults' = faults
  BY DEF Tick
<1>2. TypeOK /\ JobsOK /\ ActorsOK /\ ReportsOK /\ GapsOK
  BY DEF IInv
<1>3. TypeOK'
  <2>1. now' \in Nat /\ StartTime <= now'
    BY <1>1, <1>2, LimitsAssumption DEF TypeOK
  <2> QED BY <1>1, <1>2, <2>1 DEF TypeOK
<1>4. Keeps
  <2>1. now <= now'
    BY <1>1, <1>2 DEF TypeOK
  <2> QED BY <1>1, <2>1 DEF Keeps
<1>5. JobsOK'
  <2>1. ASSUME NEW j \in DOMAIN jobs PROVE JobOK(j)'
    BY <1>1, <1>2, <1>3, <1>4, <2>1, JobKeeps DEF JobsOK
  <2> QED BY <1>1, <2>1 DEF JobsOK
<1>6. ActorsOK'
  <2>1. ASSUME NEW b \in Actors PROVE ActorOK(b)'
    <3>1. ActorOK(b) /\ (Working(b) => dlock[jobs[at[b].job].d] = b)
      BY <1>2 DEF ActorsOK, ActorOK, JobOf
    <3> QED BY <1>1, <1>2, <1>3, <1>4, <3>1, ActorKeeps
  <2> QED BY <2>1 DEF ActorsOK
<1>7. ReportsOK'
  BY <1>1, <1>2, <1>4, ReportsKeep
<1>8. GapsOK'
  BY <1>1, <1>2, <1>4, GapsKeep
<1> QED BY <1>3, <1>5, <1>6, <1>7, <1>8 DEF IInv

LEMMA RecoveredIs ==
    ASSUME TypeOK
    PROVE  /\ Recovered \in Seq(AllJobs) /\ DOMAIN Recovered = DOMAIN jobs
           /\ Len(Recovered) = Len(jobs)
           /\ \A j \in DOMAIN jobs :
                /\ Recovered[j].d = jobs[j].d /\ Recovered[j].type = jobs[j].type
                /\ Recovered[j].start = jobs[j].start /\ Recovered[j].end = jobs[j].end
                /\ Recovered[j].chunks = jobs[j].chunks /\ Recovered[j].next = jobs[j].next
                /\ Recovered[j].status = "COMPLETED" <=> jobs[j].status = "COMPLETED"
                /\ dlock[jobs[j].d] # None => Recovered[j].status = jobs[j].status
<1>1. jobs \in Seq(AllJobs) /\ DOMAIN Recovered = DOMAIN jobs
  BY DEF TypeOK, Recovered
<1>2. ASSUME NEW j \in DOMAIN jobs
      PROVE  /\ Recovered[j] \in AllJobs
             /\ Recovered[j].d = jobs[j].d /\ Recovered[j].type = jobs[j].type
             /\ Recovered[j].start = jobs[j].start /\ Recovered[j].end = jobs[j].end
             /\ Recovered[j].chunks = jobs[j].chunks /\ Recovered[j].next = jobs[j].next
             /\ Recovered[j].status = "COMPLETED" <=> jobs[j].status = "COMPLETED"
             /\ dlock[jobs[j].d] # None => Recovered[j].status = jobs[j].status
  <2>1. jobs[j] \in AllJobs
    BY JobTypeOK
  <2>2. CASE Abandoned(j)
    <3>1. Recovered[j] = [jobs[j] EXCEPT !.status = "FAILED"]
      BY <2>2 DEF Recovered
    <3>2. jobs[j].status = "RUNNING" /\ dlock[jobs[j].d] = None
      BY <2>2 DEF Abandoned
    <3> QED BY <2>1, <3>1, <3>2 DEF AllJobs, JobStatuses
  <2>3. CASE ~Abandoned(j)
    <3>1. Recovered[j] = jobs[j]
      BY <2>3 DEF Recovered
    <3> QED BY <2>1, <3>1
  <2> QED BY <2>2, <2>3
<1>3. Recovered \in Seq(AllJobs) /\ Len(Recovered) = Len(jobs)
  <2>1. Recovered \in [1..Len(jobs) -> AllJobs] /\ Len(jobs) \in Nat
    <3>1. Recovered = [j \in DOMAIN jobs |-> Recovered[j]]
      BY DEF Recovered
    <3> HIDE DEF Recovered
    <3> QED BY <1>1, <1>2, <3>1
  <2> HIDE DEF Recovered
  <2> QED BY <2>1
<1> QED BY <1>1, <1>2, <1>3

\* A collector that begins a cycle.
LEMMA FreshRunner ==
    ASSUME TypeOK', JobsOK', NEW a \in Actors, at'[a].pc = "target", at'[a].job = 0,
           at'[a].cycle = cycle'.index + 1, at'[a].results = <<>>,
           at'[a].begun = now', at'[a].started = now', rlock' = a
    PROVE  ActorOK(a)'
<1>1. (\A j \in DOMAIN jobs :
         jobs[j].type = "INCREMENTAL" => jobs[j].end <= LatestEnd(jobs[j].d, at[a].started))'
  <2>1. \A j \in DOMAIN jobs' : jobs'[j].type = "INCREMENTAL" =>
          jobs'[j].end <= LatestEnd(jobs'[j].d, now')
    BY DEF JobsOK, JobOK, LatestEnd
  <2> QED BY <2>1 DEF LatestEnd
<1>2. (/\ rlock = a /\ at[a].cycle = cycle.index + 1
       /\ at[a].begun <= at[a].started /\ StartTime <= at[a].started /\ at[a].started <= now
       /\ Len(at[a].results) <= Len(Targets))'
  BY DatasetsAre DEF TypeOK
<1>3. DOMAIN at'[a].results = {} /\ ~Executing(a)' /\ ~Working(a)'
  BY DEF Executing, Working
<1>4. RunnerOK(a)'
  BY <1>1, <1>2, <1>3 DEF RunnerOK
<1>5. at'[a].cycle # 0
  BY DEF TypeOK
<1> QED BY <1>3, <1>4, <1>5 DEF ActorOK

LEMMA StartRunnerKeeps == ASSUME IInv, NEW a \in Actors, StartRunner(a) PROVE IInv'
<1> DEFINE me == [Idle EXCEPT !.pc = "target", !.cycle = cycle.index + 1,
                              !.begun = now, !.started = now]
<1>1. /\ at[a] = Idle /\ rlock = None /\ rlock' = a /\ jobs' = Recovered
      /\ at' = [at EXCEPT ![a] = me] /\ now' = now /\ hole' = hole /\ stored' = stored
      /\ dlock' = dlock /\ receipts' = receipts /\ cycle' = cycle /\ faults' = faults
  BY DEF StartRunner, Go
<1>2. TypeOK /\ JobsOK /\ ActorsOK /\ ReportsOK /\ GapsOK
  BY DEF IInv
<1>3. /\ me.pc = "target" /\ me.cycle = cycle.index + 1 /\ me.begun = now /\ me.started = now
      /\ me.results = <<>> /\ me.job = 0 /\ me \in Places /\ cycle.index \in Nat /\ now \in Nat
  <2>1. cycle.index \in Nat /\ now \in Nat
    BY <1>2 DEF TypeOK
  <2>2. me \in Places
    <3>1. "target" \in Points /\ cycle.index + 1 \in Nat /\ now \in Nat
      BY <2>1 DEF Points
    <3> QED BY <3>1, IdleTypeOK DEF Places
  <2> QED BY <2>1, <2>2 DEF Idle
<1> HIDE DEF me
<1>4. /\ at'[a] = me /\ at' \in [Actors -> Places]
      /\ \A b \in Actors : b # a => at'[b] = at[b]
  BY <1>1, <1>2, <1>3 DEF TypeOK
<1>5. TypeOK'
  BY <1>1, <1>2, <1>4, RecoveredIs DEF TypeOK
<1>6. Keeps
  BY <1>1, <1>2, <1>3, RecoveredIs DEF Keeps
<1>7. JobsOK'
  <2>1. ASSUME NEW j \in DOMAIN jobs PROVE JobOK(j)'
    BY <1>1, <1>2, <1>5, <1>6, <2>1, JobKeeps, RecoveredIs DEF JobsOK
  <2> QED BY <1>1, <1>2, <2>1, RecoveredIs DEF JobsOK
<1>8. ActorOK(a)'
  BY <1>1, <1>3, <1>4, <1>5, <1>7, FreshRunner
<1>9. ActorsOK'
  <2>1. ASSUME NEW b \in Actors, b # a PROVE ActorOK(b)'
    <3>1. ActorOK(b) /\ at'[b] = at[b]
      BY <1>2, <1>4, <2>1 DEF ActorsOK
    <3>2. at[b].cycle = 0
      BY <1>1, <3>1, ActorsAssumption DEF ActorOK, RunnerOK
    <3>3. Working(b) => /\ at[b].job \in DOMAIN jobs /\ dlock[jobs[at[b].job].d] = b
                        /\ jobs'[at[b].job].status = jobs[at[b].job].status
                        /\ jobs'[at[b].job].next = jobs[at[b].job].next
      BY <1>1, <1>2, <3>1, RecoveredIs, ActorsAssumption DEF ActorOK, Working, Executing, JobOf
    <3> QED BY <1>1, <1>2, <1>5, <1>6, <3>1, <3>2, <3>3, ActorKeeps
  <2> QED BY <1>8, <2>1 DEF ActorsOK
<1>10. ReportsOK'
  BY <1>1, <1>2, <1>6, ReportsKeep
<1>11. GapsOK'
  BY <1>1, <1>2, <1>6, GapsKeep, RecoveredIs
<1> QED BY <1>5, <1>7, <1>9, <1>10, <1>11 DEF IInv

LEMMA ResumeKeeps ==
    ASSUME IInv, NEW a \in Actors, NEW j \in DOMAIN jobs, Resume(a, j) PROVE IInv'
<1> DEFINE me == [Idle EXCEPT !.pc = "lock", !.job = j]
<1>1. /\ at[a] = Idle /\ at' = [at EXCEPT ![a] = me] /\ now' = now /\ hole' = hole
      /\ stored' = stored /\ dlock' = dlock /\ rlock' = rlock /\ jobs' = jobs
      /\ receipts' = receipts /\ cycle' = cycle /\ faults' = faults
  BY DEF Resume, Go
<1>2. TypeOK /\ JobsOK /\ ActorsOK /\ ReportsOK /\ GapsOK
  BY DEF IInv
<1>3. me.pc = "lock" /\ me.cycle = 0 /\ me.job = j /\ me \in Places
  <2>1. j \in Nat
    BY <1>2, JobTypeOK
  <2>2. me \in Places
    BY <2>1, IdleTypeOK DEF Places, Points
  <2> QED BY <2>2 DEF Idle
<1> HIDE DEF me
<1>4. /\ at'[a] = me /\ at' \in [Actors -> Places]
      /\ \A b \in Actors : b # a => at'[b] = at[b]
  BY <1>1, <1>2, <1>3 DEF TypeOK
<1>5. TypeOK'
  BY <1>1, <1>2, <1>4 DEF TypeOK
<1>6. Keeps
  BY <1>1, <1>2 DEF Keeps, TypeOK
<1>7. JobsOK'
  <2>1. ASSUME NEW i \in DOMAIN jobs PROVE JobOK(i)'
    BY <1>1, <1>2, <1>5, <1>6, <2>1, JobKeeps DEF JobsOK
  <2> QED BY <1>1, <2>1 DEF JobsOK
<1>8. ActorOK(a)'
  BY <1>1, <1>3, <1>4 DEF ActorOK, Executing, Working
<1>9. ActorsOK'
  <2>1. ASSUME NEW b \in Actors, b # a PROVE ActorOK(b)'
    <3>1. ActorOK(b) /\ at'[b] = at[b] /\ (Working(b) => dlock[jobs[at[b].job].d] = b)
      BY <1>2, <1>4, <2>1 DEF ActorsOK, ActorOK, JobOf
    <3> QED BY <1>1, <1>2, <1>5, <1>6, <3>1, ActorKeeps
  <2> QED BY <1>8, <2>1 DEF ActorsOK
<1>10. ReportsOK'
  BY <1>1, <1>2, <1>6, ReportsKeep
<1>11. GapsOK'
  BY <1>1, <1>2, <1>6, GapsKeep
<1> QED BY <1>5, <1>7, <1>9, <1>10, <1>11 DEF IInv

\* A target that fails before its job runs, or needs none.
LEMMA SkipKeeps ==
    ASSUME IInv, NEW a \in Actors, NEW status \in {"NOOP", "FAILED"},
           at' = [at EXCEPT ![a] = After(a, status)],
           at[a].cycle # 0 =>
             LET d == Len(at[a].results) + 1
             IN  /\ d \in Datasets
                 /\ status = "NOOP" =>
                      at[a].job = 0 /\ \E n \in stored[d] : n >= LatestEnd(d, at[a].started) - 1,
           now' = now, hole' = hole, stored' = stored, dlock' = dlock, rlock' = rlock,
           jobs' = jobs, receipts' = receipts, cycle' = cycle
    PROVE  IInv'
<1>1. TypeOK /\ JobsOK /\ ActorsOK /\ ReportsOK /\ GapsOK
  BY DEF IInv
<1>2. ActorOK(a)
  BY <1>1 DEF ActorsOK
<1>3. /\ at'[a] = After(a, status) /\ at' \in [Actors -> Places]
      /\ \A b \in Actors : b # a => at'[b] = at[b]
  <2>1. After(a, status) \in Places
    BY <1>1, AfterTypeOK
  <2> QED BY <1>1, <2>1 DEF TypeOK
<1>4. TypeOK'
  BY <1>1, <1>3 DEF TypeOK
<1>5. Keeps
  BY <1>1 DEF Keeps, TypeOK
<1>6. JobsOK'
  <2>1. ASSUME NEW i \in DOMAIN jobs PROVE JobOK(i)'
    BY <1>1, <1>4, <1>5, <2>1, JobKeeps DEF JobsOK
  <2> QED BY <2>1 DEF JobsOK
<1>7. ActorOK(a)'
  BY <1>1, <1>2, <1>3, <1>4, <1>5, <1>6, AfterKeeps
<1>8. ActorsOK'
  <2>1. ASSUME NEW b \in Actors, b # a PROVE ActorOK(b)'
    <3>1. ActorOK(b) /\ at'[b] = at[b] /\ (Working(b) => dlock[jobs[at[b].job].d] = b)
      BY <1>1, <1>3, <2>1 DEF ActorsOK, ActorOK, JobOf
    <3> QED BY <1>1, <1>4, <1>5, <3>1, ActorKeeps
  <2> QED BY <1>7, <2>1 DEF ActorsOK
<1>9. ReportsOK'
  BY <1>1, <1>5, ReportsKeep
<1>10. GapsOK'
  BY <1>1, <1>5, GapsKeep
<1> QED BY <1>4, <1>6, <1>8, <1>9, <1>10 DEF IInv

LEMMA BarredKeeps == ASSUME IInv, NEW a \in Actors, Barred(a) PROVE IInv'
<1>1. /\ at[a].pc \in {"target", "lock"} /\ at' = [at EXCEPT ![a] = After(a, "FAILED")]
      /\ now' = now /\ hole' = hole /\ stored' = stored /\ dlock' = dlock /\ rlock' = rlock
      /\ jobs' = jobs /\ receipts' = receipts /\ cycle' = cycle
      /\ (IF at[a].pc = "lock" THEN JobOf(a).d ELSE Len(at[a].results) + 1) \in Datasets
  BY DEF Barred, Go
<1>2. ActorOK(a)
  BY DEF IInv, ActorsOK
<1>3. at[a].cycle # 0 => Len(at[a].results) + 1 \in Datasets
  BY <1>1, <1>2 DEF ActorOK, RunnerOK, Executing
<1>4. PICK status \in {"NOOP", "FAILED"} : status = "FAILED"
  OBVIOUS
<1> QED BY <1>1, <1>3, <1>4, SkipKeeps

\* A process at work has its own dataset.
LEMMA WorkersApart ==
    ASSUME ActorsOK, NEW a \in Actors, NEW b \in Actors, a # b, Working(b),
           dlock[JobOf(a).d] \in {None, a}
    PROVE  at[b].job # at[a].job /\ jobs[at[b].job].d # JobOf(a).d /\ dlock[jobs[at[b].job].d] = b
<1>1. dlock[JobOf(b).d] = b /\ b # None
  BY ActorsAssumption DEF ActorsOK, ActorOK
<1>2. JobOf(b).d # JobOf(a).d
  BY <1>1
<1> QED BY <1>1, <1>2 DEF JobOf

\* A process changes its job, and moves: everything else stays.
LEMMA JobMoves ==
    ASSUME IInv, NEW a \in Actors, Executing(a), dlock[JobOf(a).d] \in {None, a},
           NEW j, j = at[a].job, NEW job, jobs' = [jobs EXCEPT ![j] = job],
           job \in AllJobs, job.d = JobOf(a).d, job.type = JobOf(a).type,
           job.start = JobOf(a).start, job.end = JobOf(a).end, job.chunks = JobOf(a).chunks,
           TypeOK' /\ Keeps => JobOK(j)',
           NEW owner \in {None, a}, dlock' = [dlock EXCEPT ![JobOf(a).d] = owner],
           NEW place \in Places, at' = [at EXCEPT ![a] = place],
           TypeOK' /\ Keeps /\ JobsOK' => ActorOK(a)',
           now' = now, hole' = hole, stored' = stored, rlock' = rlock,
           receipts' = receipts, cycle' = cycle
    PROVE  IInv'
<1>1. TypeOK /\ JobsOK /\ ActorsOK /\ ReportsOK /\ GapsOK
  BY DEF IInv
<1>2. j \in DOMAIN jobs /\ JobOf(a) = jobs[j] /\ jobs[j].d \in Datasets
  <2>1. j \in DOMAIN jobs
    BY <1>1 DEF ActorsOK, ActorOK
  <2> QED BY <1>1, <2>1, JobTypeOK DEF JobOf
<1>3. /\ jobs' \in Seq(AllJobs) /\ DOMAIN jobs' = DOMAIN jobs /\ jobs'[j] = job
      /\ \A i \in DOMAIN jobs : i # j => jobs'[i] = jobs[i]
  BY <1>1, <1>2 DEF TypeOK
<1>4. /\ dlock' \in [Datasets -> Actors \cup {None}]
      /\ \A d \in Datasets : d # jobs[j].d => dlock'[d] = dlock[d]
  BY <1>1, <1>2 DEF TypeOK
<1>5. /\ at' \in [Actors -> Places] /\ at'[a] = place
      /\ \A b \in Actors : b # a => at'[b] = at[b]
  BY <1>1 DEF TypeOK
<1>6. TypeOK'
  BY <1>1, <1>3, <1>4, <1>5 DEF TypeOK
<1>7. Keeps
  BY <1>1, <1>2, <1>3 DEF Keeps, TypeOK
<1>8. JobsOK'
  <2>1. ASSUME NEW i \in DOMAIN jobs, i # j PROVE JobOK(i)'
    BY <1>1, <1>3, <1>6, <1>7, <2>1, JobKeeps DEF JobsOK
  <2> QED BY <1>3, <1>6, <1>7, <2>1 DEF JobsOK
<1>9. ActorOK(a)'
  BY <1>6, <1>7, <1>8
<1>10. ActorsOK'
  <2>1. ASSUME NEW b \in Actors, b # a PROVE ActorOK(b)'
    <3>1. ActorOK(b) /\ at'[b] = at[b]
      BY <1>1, <1>5, <2>1 DEF ActorsOK
    <3>2. Working(b) => /\ at[b].job \in DOMAIN jobs /\ at[b].job # j
                        /\ jobs[at[b].job].d # jobs[j].d /\ dlock[jobs[at[b].job].d] = b
      BY <1>1, <1>2, <2>1, <3>1, WorkersApart DEF ActorOK, Working, Executing
    <3>3. Working(b) => /\ jobs'[at[b].job] = jobs[at[b].job]
                        /\ dlock'[jobs[at[b].job].d] = b
      <4>1. Working(b) => jobs[at[b].job].d \in Datasets
        BY <1>1, <3>2, JobTypeOK
      <4> QED BY <1>3, <1>4, <3>2, <4>1
    <3> QED BY <1>1, <1>3, <1>6, <1>7, <3>1, <3>3, ActorKeeps
  <2> QED BY <1>9, <2>1 DEF ActorsOK
<1>11. ReportsOK'
  BY <1>1, <1>7, ReportsKeep
<1>12. GapsOK'
  BY <1>1, <1>3, <1>7, GapsKeep
<1> QED BY <1>6, <1>8, <1>10, <1>11, <1>12 DEF IInv

\* The dataset of an executing collector is the next of its targets.
LEMMA RunnersTarget ==
    ASSUME TypeOK, NEW a \in Actors, ActorOK(a), Executing(a)
    PROVE  at[a].cycle # 0 => Len(at[a].results) + 1 \in Datasets
<1>1. at[a].job \in DOMAIN jobs /\ JobOf(a).d \in Datasets
  BY JobTypeOK DEF ActorOK, JobOf
<1> QED BY <1>1 DEF ActorOK, RunnerOK

LEMMA BeginJobKeeps == ASSUME IInv, NEW a \in Actors, BeginJob(a) PROVE IInv'
<1>1. TypeOK /\ JobsOK /\ ActorsOK /\ ReportsOK /\ GapsOK
  BY DEF IInv
<1>2. /\ at[a].pc = "lock" /\ dlock[JobOf(a).d] = None /\ now' = now /\ hole' = hole
      /\ stored' = stored /\ rlock' = rlock /\ receipts' = receipts /\ cycle' = cycle
  BY DEF BeginJob
<1>3. Executing(a) /\ ActorOK(a)
  BY <1>1, <1>2 DEF Executing, ActorsOK
<1>0. PICK j : j = at[a].job
  OBVIOUS
<1>4. j \in DOMAIN jobs /\ JobOf(a) = jobs[j] /\ jobs[j] \in AllJobs /\ JobOK(j)
  BY <1>0, <1>1, <1>3, JobTypeOK DEF ActorOK, JobOf, JobsOK
<1>5. CASE JobOf(a).status \in {"PLANNED", "FAILED"}
  <2> DEFINE job == [JobOf(a) EXCEPT !.status = "RUNNING"]
             place == [at[a] EXCEPT !.pc = "chunk"]
  <2>1. /\ dlock' = [dlock EXCEPT ![JobOf(a).d] = a]
        /\ jobs' = [jobs EXCEPT ![j] = job] /\ at' = [at EXCEPT ![a] = place]
    BY <1>0, <1>2, <1>5 DEF BeginJob, SetJob, Go
  <2>2. /\ job \in AllJobs /\ job.d = JobOf(a).d /\ job.type = JobOf(a).type
        /\ job.start = JobOf(a).start /\ job.end = JobOf(a).end /\ job.chunks = JobOf(a).chunks
        /\ job.next = JobOf(a).next /\ job.status = "RUNNING"
    BY <1>4 DEF AllJobs, JobStatuses
  <2>3. /\ place \in Places /\ place.pc = "chunk" /\ place.job = j /\ place.cycle = at[a].cycle
        /\ place.begun = at[a].begun /\ place.started = at[a].started
        /\ place.results = at[a].results
    BY <1>0, <1>1, ActorTypeOK DEF Places, Points
  <2> HIDE DEF job, place
  <2>4. jobs'[j] = job /\ at'[a] = place /\ DOMAIN jobs' = DOMAIN jobs /\ dlock'[jobs[j].d] = a
    <3>1. jobs[j].d \in Datasets
      BY <1>1, <1>4, JobTypeOK
    <3> QED BY <1>1, <1>4, <2>1, <3>1 DEF TypeOK
  <2>5. ASSUME TypeOK', Keeps PROVE ActorOK(a)'
    <3>1. Executing(a)' => /\ jobs'[at'[a].job].d = JobOf(a).d
                           /\ jobs'[at'[a].job].type = JobOf(a).type
                           /\ jobs'[at'[a].job].end = JobOf(a).end
      BY <2>2, <2>3, <2>4
    <3>2. at[a].cycle # 0 => RunnerOK(a)'
      <4>1. SUFFICES ASSUME at[a].cycle # 0 PROVE RunnerOK(a)'
        OBVIOUS
      <4>2. /\ RunnerOK(a) /\ JobOf(a).d = Len(at[a].results) + 1
            /\ JobOf(a).type = "INCREMENTAL"
            /\ JobOf(a).end = LatestEnd(JobOf(a).d, at[a].started)
        BY <1>3, <4>1 DEF ActorOK, RunnerOK
      <4> QED BY <1>1, <1>2, <2>3, <2>4, <2>5, <3>1, <4>2, RunnerMoves
    <3>3. /\ at'[a].pc = "chunk" /\ at'[a].job \in DOMAIN jobs' /\ at'[a].cycle = at[a].cycle
          /\ jobs'[at'[a].job].status = "RUNNING" /\ dlock'[jobs'[at'[a].job].d] = a
      BY <1>4, <2>2, <2>3, <2>4
    <3> QED BY <3>2, <3>3 DEF ActorOK, Executing, Working, JobOf
  <2>6. ASSUME Keeps, TypeOK' PROVE JobOK(j)'
    <3>1. jobs'[j].next = jobs[j].next /\ jobs'[j].status # "COMPLETED" /\ jobs[j].status # "COMPLETED"
      BY <1>4, <1>5, <2>2, <2>4
    <3> QED BY <1>1, <1>4, <2>6, <3>1, JobKeeps
  <2> QED BY <1>0, <1>2, <1>3, <1>4, <2>1, <2>2, <2>3, <2>5, <2>6, JobMoves
<1>6. CASE JobOf(a).status \notin {"PLANNED", "FAILED"}
  <2>1. at' = [at EXCEPT ![a] = After(a, "FAILED")] /\ dlock' = dlock /\ jobs' = jobs
    BY <1>2, <1>6 DEF BeginJob, Go
  <2>2. PICK status \in {"NOOP", "FAILED"} : status = "FAILED"
    OBVIOUS
  <2>3. at[a].cycle # 0 => Len(at[a].results) + 1 \in Datasets
    BY <1>1, <1>3, RunnersTarget
  <2> QED BY <1>2, <2>1, <2>2, <2>3, SkipKeeps
<1> QED BY <1>5, <1>6

\* With its next chunk, a job has fetched from its start to the end of that chunk.
LEMMA CoversOn ==
    ASSUME TypeOK, NEW j \in DOMAIN jobs, JobOK(j), jobs[j].type = "INCREMENTAL",
           jobs[j].next <= Len(jobs[j].chunks), NEW c, c = jobs[j].chunks[jobs[j].next],
           Fetches(j, c.start, c.end)
    PROVE  /\ jobs[j].start <= c.start /\ c.start = Done(jobs[j])
           /\ c.start \in Int /\ c.end \in Int
           /\ Fetches(j, jobs[j].start, c.end)
<1>1. /\ jobs[j].chunks \in Seq(Spans) /\ jobs[j].next \in Nat \ {0} /\ jobs[j].start \in Int
  BY JobTypeOK
<1>2. jobs[j].next \in DOMAIN jobs[j].chunks
  BY <1>1
<1>3. c \in Spans
  BY <1>1, <1>2
<1>4. c.start \in Int /\ c.end \in Int
  BY <1>3 DEF Spans
<1>5. Chained(jobs[j]) /\ Covered(j)
  BY DEF JobOK
<1>6. c.start = Done(jobs[j]) /\ jobs[j].start <= c.start
  BY <1>1, <1>2, <1>5 DEF Chained, Done
<1>7. ASSUME NEW k \in jobs[j].start..(c.end - 1)
      PROVE  k \in stored[jobs[j].d] \cup hole[jobs[j].d] \/ k = jobs[j].end - 1
  <2>1. CASE k <= c.start - 1
    <3>1. k \in jobs[j].start..(Done(jobs[j]) - 1)
      BY <1>1, <1>4, <1>6, <1>7, <2>1
    <3> QED BY <1>5, <3>1 DEF Covered, Fetches
  <2>2. CASE ~(k <= c.start - 1)
    <3>1. k \in c.start..(c.end - 1)
      BY <1>1, <1>4, <1>7, <2>2
    <3> QED BY <3>1 DEF Fetches
  <2> QED BY <2>1, <2>2
<1>8. ASSUME AllFetched(j), NEW k \in jobs[j].start..(c.end - 1)
      PROVE  k \in stored[jobs[j].d]
  <2>1. CASE k <= c.start - 1
    <3>1. k \in jobs[j].start..(Done(jobs[j]) - 1)
      BY <1>1, <1>4, <1>6, <1>8, <2>1
    <3> QED BY <1>5, <1>8, <3>1 DEF Covered, Fetches
  <2>2. CASE ~(k <= c.start - 1)
    <3>1. k \in c.start..(c.end - 1)
      BY <1>1, <1>4, <1>8, <2>2
    <3> QED BY <1>8, <3>1 DEF Fetches
  <2> QED BY <2>1, <2>2
<1>9. AllFetched(j) => jobs[j].start..(c.end - 1) \subseteq stored[jobs[j].d]
  BY <1>8
<1> QED BY <1>4, <1>6, <1>7, <1>9 DEF Fetches

\* A chunk is passed: the next one, or the job is done.
LEMMA PassedJobOK ==
    ASSUME TypeOK, TypeOK', Keeps, NEW j \in DOMAIN jobs, JobOK(j),
           jobs[j].next <= Len(jobs[j].chunks),
           jobs[j].type = "INCREMENTAL" =>
             LET c == jobs[j].chunks[jobs[j].next] IN Fetches(j, c.start, c.end),
           jobs'[j].next = jobs[j].next + 1,
           jobs'[j].status = "COMPLETED" <=> jobs[j].next = Len(jobs[j].chunks),
           jobs'[j].type = "GAP_REPAIR" /\ jobs'[j].status = "COMPLETED" => RepairStands(jobs[j])
    PROVE  JobOK(j)'
<1>1. /\ jobs'[j].d = jobs[j].d /\ jobs'[j].type = jobs[j].type
      /\ jobs'[j].start = jobs[j].start /\ jobs'[j].end = jobs[j].end
      /\ jobs'[j].chunks = jobs[j].chunks /\ hole' = hole
  BY DEF Keeps
<1>2. /\ jobs[j].d \in Datasets /\ jobs[j].end \in Int /\ jobs[j].next \in Nat \ {0}
      /\ jobs[j].chunks \in Seq(Spans)
  BY JobTypeOK
<1>3. stored[jobs[j].d] \subseteq stored'[jobs[j].d]
  BY <1>2 DEF Keeps
<1>4. (/\ jobs[j].next <= Len(jobs[j].chunks) + 1
       /\ jobs[j].status = "COMPLETED" <=> jobs[j].next = Len(jobs[j].chunks) + 1)'
  BY <1>1, <1>2
<1>5. ASSUME jobs[j].type = "INCREMENTAL"
      PROVE  (/\ Chained(jobs[j]) /\ Covered(j) /\ 0 <= jobs[j].start
              /\ jobs[j].end <= LatestEnd(jobs[j].d, now))'
  <2>1. Chained(jobs[j]) /\ 0 <= jobs[j].start /\ jobs[j].end <= LatestEnd(jobs[j].d, now)
    BY <1>5 DEF JobOK
  <2>2. Chained(jobs[j])'
    BY <1>1, <2>1 DEF Chained
  <2>3. PICK c : c = jobs[j].chunks[jobs[j].next]
    OBVIOUS
  <2>4. Fetches(j, jobs[j].start, c.end)
    BY <1>5, <2>3, CoversOn
  <2>5. Done(jobs[j])' = c.end
    BY <1>1, <1>2, <2>3 DEF Done
  <2>6. Covered(j)'
    <3>1. /\ \A k \in jobs[j].start..(c.end - 1) :
                k \in stored'[jobs[j].d] \cup hole[jobs[j].d] \/ k = jobs[j].end - 1
          /\ AllFetched(j)' => jobs[j].start..(c.end - 1) \subseteq stored'[jobs[j].d]
      BY <2>4, FetchesKeeps
    <3> QED BY <1>1, <2>5, <3>1 DEF Covered, Fetches
  <2>7. (jobs[j].end <= LatestEnd(jobs[j].d, now))'
    <3>1. LatestEnd(jobs[j].d, now) \in Int /\ LatestEnd(jobs[j].d, now') \in Int
          /\ LatestEnd(jobs[j].d, now) <= LatestEnd(jobs[j].d, now')
      BY <1>2, EndKeeps
    <3>2. LatestEnd(jobs[j].d, now)' = LatestEnd(jobs[j].d, now')
      BY <1>1 DEF LatestEnd
    <3> QED BY <1>1, <1>2, <2>1, <3>1, <3>2
  <2> QED BY <1>1, <2>1, <2>2, <2>6, <2>7
<1>6. (jobs[j].type = "GAP_REPAIR" /\ jobs[j].status = "COMPLETED" =>
         Complete(jobs[j].d, jobs[j].start, jobs[j].end))'
  BY <1>1, <1>3 DEF RepairStands, Complete
<1> QED BY <1>1, <1>4, <1>5, <1>6 DEF JobOK

\* What a process at work has in hand.
LEMMA WorkIs ==
    ASSUME IInv, NEW a \in Actors, Working(a), NEW j, j = at[a].job
    PROVE  /\ TypeOK /\ JobsOK /\ ActorsOK /\ ReportsOK /\ GapsOK
           /\ Executing(a) /\ ActorOK(a) /\ j \in DOMAIN jobs /\ JobOf(a) = jobs[j]
           /\ jobs[j] \in AllJobs /\ JobOK(j) /\ jobs[j].status = "RUNNING"
           /\ jobs[j].d \in Datasets /\ dlock[jobs[j].d] = a
           /\ jobs[j].next \in DOMAIN jobs[j].chunks /\ jobs[j].next <= Len(jobs[j].chunks)
           /\ jobs[j].next \in Nat \ {0}
           /\ jobs[j].chunks[jobs[j].next] \in Spans
           /\ at[a].cycle # 0 => /\ RunnerOK(a) /\ jobs[j].d = Len(at[a].results) + 1
                                 /\ jobs[j].type = "INCREMENTAL"
                                 /\ jobs[j].end = LatestEnd(jobs[j].d, at[a].started)
<1>1. TypeOK /\ JobsOK /\ ActorsOK /\ ReportsOK /\ GapsOK
  BY DEF IInv
<1>2. Executing(a) /\ ActorOK(a)
  BY <1>1 DEF Executing, Working, ActorsOK
<1>3. j \in DOMAIN jobs /\ JobOf(a) = jobs[j] /\ jobs[j].status = "RUNNING" /\ dlock[jobs[j].d] = a
  BY <1>2 DEF ActorOK, JobOf
<1>4. /\ jobs[j] \in AllJobs /\ JobOK(j) /\ jobs[j].d \in Datasets
      /\ jobs[j].next \in Nat \ {0} /\ jobs[j].chunks \in Seq(Spans)
  BY <1>1, <1>3, JobTypeOK DEF JobsOK
<1>5. jobs[j].next <= Len(jobs[j].chunks)
  BY <1>3, <1>4 DEF JobOK
<1>6. jobs[j].next \in DOMAIN jobs[j].chunks
  BY <1>4, <1>5
<1>7. jobs[j].chunks[jobs[j].next] \in Spans
  BY <1>4, <1>6
<1>8. at[a].cycle # 0 => /\ RunnerOK(a) /\ jobs[j].d = Len(at[a].results) + 1
                         /\ jobs[j].type = "INCREMENTAL"
                         /\ jobs[j].end = LatestEnd(jobs[j].d, at[a].started)
  BY <1>2, <1>3 DEF ActorOK, RunnerOK
<1> QED BY <1>1, <1>2, <1>3, <1>4, <1>5, <1>6, <1>7, <1>8

LEMMA EndJobKeeps ==
    ASSUME IInv, NEW a \in Actors, Working(a), NEW status \in {"FAILED", "COMPLETED"},
           EndJob(a, status, IF status = "COMPLETED" THEN "UPDATED" ELSE "FAILED"),
           status = "COMPLETED" =>
             /\ at[a].pc = "checkpoint" /\ JobOf(a).next = Len(JobOf(a).chunks)
             /\ MayComplete(at[a].job),
           now' = now, hole' = hole, stored' = stored, rlock' = rlock,
           receipts' = receipts, cycle' = cycle
    PROVE  IInv'
<1>0. PICK j : j = at[a].job
  OBVIOUS
<1> DEFINE result == IF status = "COMPLETED" THEN "UPDATED" ELSE "FAILED"
           job == [jobs[j] EXCEPT !.status = status,
                                  !.next = IF status = "COMPLETED" THEN @ + 1 ELSE @]
<1>1. /\ TypeOK /\ JobsOK /\ ActorsOK /\ ReportsOK /\ GapsOK
      /\ Executing(a) /\ ActorOK(a) /\ j \in DOMAIN jobs /\ JobOf(a) = jobs[j]
      /\ jobs[j] \in AllJobs /\ JobOK(j) /\ jobs[j].status = "RUNNING"
      /\ jobs[j].d \in Datasets /\ dlock[jobs[j].d] = a
      /\ jobs[j].next \in DOMAIN jobs[j].chunks /\ jobs[j].next <= Len(jobs[j].chunks)
      /\ jobs[j].next \in Nat \ {0}
  BY <1>0, WorkIs
<1>2. at[a].cycle # 0 => /\ RunnerOK(a) /\ jobs[j].d = Len(at[a].results) + 1
                         /\ jobs[j].type = "INCREMENTAL"
                         /\ jobs[j].end = LatestEnd(jobs[j].d, at[a].started)
  BY <1>0, WorkIs
<1>3. /\ jobs' = [jobs EXCEPT ![j] = job] /\ dlock' = [dlock EXCEPT ![jobs[j].d] = None]
      /\ at' = [at EXCEPT ![a] = After(a, result)]
  BY <1>0, <1>1 DEF EndJob, SetJob, Go
<1>4. /\ job \in AllJobs /\ job.d = jobs[j].d /\ job.type = jobs[j].type
      /\ job.start = jobs[j].start /\ job.end = jobs[j].end /\ job.chunks = jobs[j].chunks
      /\ job.status = status
      /\ job.next = IF status = "COMPLETED" THEN jobs[j].next + 1 ELSE jobs[j].next
  <2> DEFINE n == IF status = "COMPLETED" THEN jobs[j].next + 1 ELSE jobs[j].next
  <2>1. n \in Nat \ {0} /\ status \in JobStatuses
    BY <1>1 DEF JobStatuses
  <2>2. job = [jobs[j] EXCEPT !.status = status, !.next = n]
    BY <1>1 DEF AllJobs
  <2> HIDE DEF job, n
  <2>3. job \in AllJobs
    BY <1>1, <2>1, <2>2 DEF AllJobs
  <2>4. /\ job.d = jobs[j].d /\ job.type = jobs[j].type
        /\ job.start = jobs[j].start /\ job.end = jobs[j].end /\ job.chunks = jobs[j].chunks
        /\ job.status = status /\ job.next = n
    BY <1>1, <2>2 DEF AllJobs
  <2> QED BY <2>3, <2>4 DEF n
<1>5. result \in {"NOOP", "UPDATED", "FAILED"} /\ (result = "UPDATED" <=> status = "COMPLETED")
      /\ result # "NOOP"
  OBVIOUS
<1> HIDE DEF job, result
<1>6. After(a, result) \in Places
  <2>1. at[a].cycle # 0 => Len(at[a].results) + 1 \in Datasets
    BY <1>1, <1>2
  <2> QED BY <1>1, <1>5, <2>1, AfterTypeOK
<1>7. jobs'[j] = job /\ at'[a] = After(a, result) /\ DOMAIN jobs' = DOMAIN jobs
  BY <1>1, <1>3 DEF TypeOK
<1>8. status = "COMPLETED" /\ jobs[j].type = "INCREMENTAL" =>
        LET c == jobs[j].chunks[jobs[j].next] IN Fetches(j, c.start, c.end)
  BY <1>0, <1>1 DEF ActorOK
<1>9. ASSUME TypeOK', Keeps PROVE JobOK(j)'
  <2>1. CASE status = "COMPLETED"
    <3>1. /\ jobs'[j].next = jobs[j].next + 1 /\ jobs[j].next = Len(jobs[j].chunks)
          /\ jobs'[j].status = "COMPLETED"
          /\ jobs'[j].type = "GAP_REPAIR" => RepairStands(jobs[j])
      BY <1>0, <1>1, <1>4, <1>7, <2>1 DEF MayComplete
    <3> QED BY <1>1, <1>8, <1>9, <2>1, <3>1, PassedJobOK
  <2>2. CASE status # "COMPLETED"
    <3>1. jobs'[j].next = jobs[j].next /\ jobs'[j].status # "COMPLETED" /\ jobs[j].status # "COMPLETED"
      BY <1>1, <1>4, <1>7, <2>2
    <3> QED BY <1>1, <1>9, <3>1, JobKeeps
  <2> QED BY <2>1, <2>2
<1>10. ASSUME TypeOK', Keeps, JobsOK' PROVE ActorOK(a)'
  <2>1. ASSUME at[a].cycle # 0, status = "COMPLETED"
        PROVE  jobs'[j].start..(jobs[j].end - 1) \subseteq stored'[jobs[j].d]
    <3>1. PICK c : c = jobs[j].chunks[jobs[j].next]
      OBVIOUS
    <3>2. Fetches(j, jobs[j].start, c.end)
      BY <1>1, <1>2, <1>8, <2>1, <3>1, CoversOn
    <3>3. c.end = jobs[j].end
      BY <1>1, <1>2, <2>1, <3>1 DEF JobOK, Chained
    <3>4. AllFetched(j)
      BY <1>0, <1>2, <2>1 DEF MayComplete
    <3>5. jobs'[j].start = jobs[j].start
      BY <1>4, <1>7
    <3> QED BY <3>2, <3>3, <3>4, <3>5 DEF Fetches
  <2>2. at[a].cycle # 0 =>
          LET d == Len(at[a].results) + 1
          IN  /\ d \in Datasets /\ now' = now /\ rlock' = rlock /\ cycle'.index = cycle.index
              /\ result = "NOOP" =>
                   at[a].job = 0 /\ \E n \in stored'[d] : n >= LatestEnd(d, at[a].started) - 1
              /\ result = "UPDATED" =>
                   /\ at[a].job \in DOMAIN jobs'
                   /\ jobs'[at[a].job].start..(LatestEnd(d, at[a].started) - 1)
                        \subseteq stored'[d]
    BY <1>0, <1>1, <1>2, <1>5, <1>7, <2>1
  <2> QED BY <1>1, <1>5, <1>7, <1>10, <2>2, AfterKeeps
<1>11. /\ dlock[JobOf(a).d] \in {None, a} /\ dlock' = [dlock EXCEPT ![JobOf(a).d] = None]
       /\ job.d = JobOf(a).d /\ job.type = JobOf(a).type /\ job.start = JobOf(a).start
       /\ job.end = JobOf(a).end /\ job.chunks = JobOf(a).chunks /\ Executing(a)
  BY <1>1, <1>3, <1>4
<1>12. PICK place \in Places : at' = [at EXCEPT ![a] = place]
  BY <1>3, <1>6
<1>13. PICK owner \in {None, a} : dlock' = [dlock EXCEPT ![JobOf(a).d] = owner]
  BY <1>11
<1>14. jobs' = [jobs EXCEPT ![j] = job] /\ job \in AllJobs
  BY <1>3, <1>4
<1>15. TypeOK' /\ Keeps => JobOK(j)'
  BY <1>9
<1>16. TypeOK' /\ Keeps /\ JobsOK' => ActorOK(a)'
  BY <1>10
<1> QED BY <1>0, <1>11, <1>12, <1>13, <1>14, <1>15, <1>16, JobMoves

LEMMA StepFailsKeeps == ASSUME IInv, NEW a \in Actors, StepFails(a) PROVE IInv'
<1>1. /\ Working(a) /\ EndJob(a, "FAILED", "FAILED") /\ now' = now /\ hole' = hole
      /\ stored' = stored /\ rlock' = rlock /\ receipts' = receipts /\ cycle' = cycle
  BY DEF StepFails, Working
<1>2. PICK status \in {"FAILED", "COMPLETED"} : status = "FAILED"
  OBVIOUS
<1>3. EndJob(a, status, IF status = "COMPLETED" THEN "UPDATED" ELSE "FAILED")
  BY <1>1, <1>2
<1>4. status # "COMPLETED"
  BY <1>2
<1> QED BY <1>1, <1>3, <1>4, EndJobKeeps

LEMMA CheckpointKeeps == ASSUME IInv, NEW a \in Actors, Checkpoint(a) PROVE IInv'
<1>0. PICK j : j = at[a].job
  OBVIOUS
<1> DEFINE last == jobs[j].next = Len(jobs[j].chunks)
<1>1. /\ at[a].pc = "checkpoint" /\ Working(a) /\ now' = now /\ hole' = hole
      /\ stored' = stored /\ rlock' = rlock /\ receipts' = receipts /\ cycle' = cycle
  BY DEF Checkpoint, Working
<1>2. /\ TypeOK /\ JobsOK /\ ActorsOK /\ ReportsOK /\ GapsOK
      /\ Executing(a) /\ ActorOK(a) /\ j \in DOMAIN jobs /\ JobOf(a) = jobs[j]
      /\ jobs[j] \in AllJobs /\ JobOK(j) /\ jobs[j].status = "RUNNING"
      /\ jobs[j].d \in Datasets /\ dlock[jobs[j].d] = a
      /\ jobs[j].next \in DOMAIN jobs[j].chunks /\ jobs[j].next <= Len(jobs[j].chunks)
      /\ jobs[j].next \in Nat \ {0}
  BY <1>0, <1>1, WorkIs
<1>3. CASE last /\ ~MayComplete(j)
  <2>1. EndJob(a, "FAILED", "FAILED")
    BY <1>0, <1>2, <1>3 DEF Checkpoint
  <2>2. PICK status \in {"FAILED", "COMPLETED"} : status = "FAILED"
    OBVIOUS
  <2>3. EndJob(a, status, IF status = "COMPLETED" THEN "UPDATED" ELSE "FAILED")
    BY <2>1, <2>2
  <2>4. status # "COMPLETED"
    BY <2>2
  <2> QED BY <1>1, <2>3, <2>4, EndJobKeeps
<1>4. CASE last /\ MayComplete(j)
  <2>1. EndJob(a, "COMPLETED", "UPDATED")
    BY <1>0, <1>2, <1>4 DEF Checkpoint
  <2>2. PICK status \in {"FAILED", "COMPLETED"} : status = "COMPLETED"
    OBVIOUS
  <2>3. EndJob(a, status, IF status = "COMPLETED" THEN "UPDATED" ELSE "FAILED")
    BY <2>1, <2>2
  <2>4. JobOf(a).next = Len(JobOf(a).chunks) /\ MayComplete(at[a].job)
    BY <1>0, <1>2, <1>4
  <2> QED BY <1>1, <2>3, <2>4, EndJobKeeps
<1>5. CASE ~last
  <2> DEFINE job == [jobs[j] EXCEPT !.next = @ + 1]
             place == [at[a] EXCEPT !.pc = "chunk"]
  <2>1. /\ jobs' = [jobs EXCEPT ![j] = job] /\ at' = [at EXCEPT ![a] = place] /\ dlock' = dlock
    BY <1>0, <1>2, <1>5 DEF Checkpoint, SetJob, Go
  <2>2. /\ job \in AllJobs /\ job.d = jobs[j].d /\ job.type = jobs[j].type
        /\ job.start = jobs[j].start /\ job.end = jobs[j].end /\ job.chunks = jobs[j].chunks
        /\ job.next = jobs[j].next + 1 /\ job.status = "RUNNING"
    BY <1>2 DEF AllJobs
  <2>3. /\ place \in Places /\ place.pc = "chunk" /\ place.job = j /\ place.cycle = at[a].cycle
        /\ place.begun = at[a].begun /\ place.started = at[a].started
        /\ place.results = at[a].results
    BY <1>0, <1>2, ActorTypeOK DEF Places, Points
  <2> HIDE DEF job, place
  <2>4. jobs'[j] = job /\ at'[a] = place /\ DOMAIN jobs' = DOMAIN jobs /\ dlock'[jobs[j].d] = a
    BY <1>2, <2>1 DEF TypeOK
  <2>5. ASSUME TypeOK', Keeps PROVE ActorOK(a)'
    <3>1. Executing(a)' => /\ jobs'[at'[a].job].d = jobs[j].d
                           /\ jobs'[at'[a].job].type = jobs[j].type
                           /\ jobs'[at'[a].job].end = jobs[j].end
      BY <2>2, <2>3, <2>4
    <3>2. at[a].cycle # 0 => RunnerOK(a)'
      <4>1. SUFFICES ASSUME at[a].cycle # 0 PROVE RunnerOK(a)'
        OBVIOUS
      <4>2. /\ RunnerOK(a) /\ jobs[j].d = Len(at[a].results) + 1
            /\ jobs[j].type = "INCREMENTAL"
            /\ jobs[j].end = LatestEnd(jobs[j].d, at[a].started)
        BY <1>2, <4>1 DEF ActorOK, RunnerOK
      <4> QED BY <1>1, <1>2, <2>3, <2>4, <2>5, <3>1, <4>2, RunnerMoves
    <3>3. /\ at'[a].pc = "chunk" /\ at'[a].job \in DOMAIN jobs' /\ at'[a].cycle = at[a].cycle
          /\ jobs'[at'[a].job].status = "RUNNING" /\ dlock'[jobs'[at'[a].job].d] = a
      BY <1>2, <2>2, <2>3, <2>4
    <3> QED BY <3>2, <3>3 DEF ActorOK, Executing, Working, JobOf
  <2>6. ASSUME Keeps, TypeOK' PROVE JobOK(j)'
    <3>1. jobs'[j].next = jobs[j].next + 1 /\ jobs'[j].status # "COMPLETED" /\ ~last
      BY <1>5, <2>2, <2>4
    <3>2. jobs[j].type = "INCREMENTAL" =>
            LET c == jobs[j].chunks[jobs[j].next] IN Fetches(j, c.start, c.end)
      BY <1>0, <1>1, <1>2 DEF ActorOK
    <3> QED BY <1>2, <2>6, <3>1, <3>2, PassedJobOK
  <2>7. PICK owner \in {None, a} : owner = a
    OBVIOUS
  <2>8. dlock' = [dlock EXCEPT ![JobOf(a).d] = owner]
    BY <1>2, <2>1, <2>7 DEF TypeOK
  <2>9. /\ dlock[JobOf(a).d] \in {None, a} /\ job.d = JobOf(a).d /\ job.type = JobOf(a).type
        /\ job.start = JobOf(a).start /\ job.end = JobOf(a).end /\ job.chunks = JobOf(a).chunks
        /\ Executing(a)
    BY <1>2, <2>2
  <2> QED BY <1>0, <1>1, <2>1, <2>2, <2>3, <2>5, <2>6, <2>8, <2>9, JobMoves
<1> QED BY <1>3, <1>4, <1>5

-----------------------------------------------------------------------------
(* A chunk is stored *)

\* What a chunk gets: what is served of its range.
LEMMA BatchIs ==
    ASSUME TypeOK, NEW d \in Datasets, NEW late \in 0..1, NEW c \in Spans,
           NEW batch, batch = Fetched(Served(d, late), c)
    PROVE  /\ batch \in SUBSET Nat /\ IsFiniteSet(batch)
           /\ batch \in SUBSET (c.start..(c.end - 1))
           /\ \A k \in c.start..(c.end - 1) :
                0 <= k /\ k < LatestEnd(d, now) => k \in batch \cup hole[d] \/ k = LatestEnd(d, now) - 1
<1>1. batch = {n \in c.start..(c.end - 1) : n \in Served(d, late)}
  BY FetchedIs
<1>2. c.start \in Int /\ c.end \in Int
  BY DEF Spans
<1>3. batch \in SUBSET (c.start..(c.end - 1))
  BY <1>1
<1>4. IsFiniteSet(batch)
  <2> DEFINE lo == c.start
             hi == c.end - 1
  <2>1. lo \in Int /\ hi \in Int /\ batch \in SUBSET (lo..hi)
    BY <1>2, <1>3
  <2> HIDE DEF lo, hi
  <2> QED BY <2>1, FS_Interval, FS_Subset
<1>5. LatestEnd(d, now) \in Int
  BY LatestIs DEF TypeOK
<1>6. Served(d, late) \in SUBSET Nat
  BY <1>5 DEF Served
<1>7. ASSUME NEW k \in c.start..(c.end - 1), 0 <= k, k < LatestEnd(d, now), k \notin batch,
             k \notin hole[d]
      PROVE  k = LatestEnd(d, now) - 1
  <2>1. k \notin Served(d, late)
    BY <1>1, <1>7
  <2>2. k \in Int /\ k \in 0..(LatestEnd(d, now) - 1)
    BY <1>2, <1>5, <1>7
  <2>3. ~(k < LatestEnd(d, now) - late)
    BY <1>7, <2>1, <2>2 DEF Served
  <2> QED BY <1>5, <1>7, <2>2, <2>3
<1> QED BY <1>1, <1>3, <1>4, <1>6, <1>7

\* The gaps of a dataset whose job stores a chunk.
LEMMA GapStores ==
    ASSUME TypeOK, TypeOK', Keeps, NEW d \in Datasets, GapOK(d), jobs' = jobs,
           NEW j \in DOMAIN jobs, jobs[j].d = d, JobOK(j),
           jobs[j].next \in DOMAIN jobs[j].chunks, NEW c, c = jobs[j].chunks[jobs[j].next],
           NEW batch \in SUBSET (c.start..(c.end - 1)), IsFiniteSet(batch), ValidBatch(batch),
           stored'[d] = stored[d] \cup batch,
           jobs[j].type = "INCREMENTAL" =>
             \A k \in c.start..(c.end - 1) : k \in stored'[d] \cup hole[d] \/ k = jobs[j].end - 1
    PROVE  GapOK(d)'
<1>1. CASE batch = {}
  BY <1>1, GapKeeps
<1>2. CASE batch # {} /\ ~Collected(d)
  BY <1>2 DEF GapOK, Collected
<1>3. CASE batch # {} /\ Collected(d)
  <2> DEFINE S == stored[d]
             T == stored'[d]
             s == jobs[j].start
             b == Min(batch)
             e == Max(batch)
  <2>1. /\ S \in SUBSET Int /\ T \in SUBSET Int /\ IsFiniteSet(S) /\ IsFiniteSet(T) /\ T # {}
        /\ T = S \cup batch
    <3>1. S \in SUBSET Nat /\ IsFiniteSet(S)
      BY DEF TypeOK
    <3>2. T \in SUBSET Nat /\ IsFiniteSet(T)
      BY DEF TypeOK
    <3>3. T = S \cup batch /\ T # {}
      BY <1>3
    <3> HIDE DEF S, T
    <3> QED BY <3>1, <3>2, <3>3
  <2>2. /\ jobs[j].type = "INCREMENTAL" /\ Chained(jobs[j]) /\ Covered(j)
        /\ s \in Int /\ jobs[j].end \in Int /\ jobs[j].chunks \in Seq(Spans) /\ jobs[j].next \in Nat \ {0}
    BY <1>3, JobTypeOK DEF JobOK, Collected
  <2>3. c \in Spans /\ c.start \in Int /\ c.end \in Int
    BY <2>2 DEF Spans
  <2>4. c.start = Done(jobs[j]) /\ s <= c.start /\ c.end <= jobs[j].end
    BY <2>2 DEF Chained, Done
  <2>5. /\ b \in batch /\ e \in batch /\ batch = b..e /\ b \in Int /\ e \in Int
        /\ c.start <= b /\ e <= c.end - 1 /\ b <= e
    <3>1. batch \in SUBSET Int
      BY <2>3
    <3>2. b \in batch /\ e \in batch /\ b <= e
      BY <1>3, <3>1, Extremes
    <3>3. batch = b..e
      BY <1>3 DEF ValidBatch
    <3> HIDE DEF b, e
    <3> QED BY <2>3, <3>1, <3>2, <3>3
  <2> HIDE DEF b, e
  <2>6. ASSUME NEW k \in s..(c.end - 1)
        PROVE  k \in T \cup hole[d] \/ k = jobs[j].end - 1
    <3>1. CASE k <= c.start - 1
      <4>1. k \in s..(Done(jobs[j]) - 1)
        BY <2>2, <2>3, <2>4, <2>6, <3>1
      <4>2. k \in S \cup hole[d] \/ k = jobs[j].end - 1
        BY <2>2, <4>1 DEF Covered, Fetches
      <4> QED BY <2>1, <4>2
    <3>2. CASE ~(k <= c.start - 1)
      <4>1. k \in c.start..(c.end - 1)
        BY <2>2, <2>3, <2>6, <3>2
      <4> QED BY <2>2, <4>1
    <3> QED BY <3>1, <3>2
  <2>7. ASSUME NEW k \in Int, s <= k, k < b PROVE k \in S \cup hole[d]
    <3>1. k \in s..(c.end - 1) /\ k # jobs[j].end - 1 /\ k \notin batch
      BY <2>2, <2>3, <2>4, <2>5, <2>7
    <3> QED BY <2>1, <2>6, <3>1
  <2>8. /\ \A i, k \in FirstPlans(d) : i < k => jobs[i].start <= jobs[k].start
        /\ \A i \in DOMAIN jobs : jobs[i].d = d => i \in FirstPlans(d) \/ Reaches(d, i)
        /\ S # {} =>
             /\ Origin(d)
             /\ \A n \in (Min(S)..Max(S)) \ (S \cup hole[d]) : Explained(d, n)
    BY <1>3 DEF GapOK
  <2>9. \A i \in FirstPlans(d) : i \in DOMAIN jobs /\ i \in Nat /\ jobs[i].start \in Int
    BY JobTypeOK DEF FirstPlans
  <2>10. j \in FirstPlans(d) \/ Reaches(d, j)
    BY <2>8
  <2> DEFINE lo == Min(T)
             hi == Max(T)
  <2>11. lo \in T /\ hi \in T /\ lo \in Int /\ hi \in Int /\ \A k \in T : lo <= k /\ k <= hi
    <3>1. lo \in T /\ hi \in T /\ \A k \in T : lo <= k /\ k <= hi
      <4> HIDE DEF T
      <4> QED BY <2>1, Extremes
    <3> HIDE DEF T, lo, hi
    <3> QED BY <2>1, <3>1
  <2> HIDE DEF S, T, lo, hi, s
  <2>12. /\ \E i \in FirstPlans(d) : jobs[i].start <= lo /\ jobs[i].start..(lo - 1) \subseteq hole[d]
         /\ \A n \in (lo..hi) \ (T \cup hole[d]) : Explained(d, n)
    <3>1. CASE S = {}
      <4>1. lo = b /\ hi = e /\ T = b..e
        BY <2>1, <2>5, <2>11, <3>1
      <4>2. j \in FirstPlans(d)
        BY <2>10, <3>1 DEF Reaches, S
      <4>3. s <= lo /\ s..(lo - 1) \subseteq hole[d]
        BY <2>2, <2>3, <2>4, <2>5, <2>7, <3>1, <4>1
      <4>4. (lo..hi) \ (T \cup hole[d]) = {}
        BY <4>1
      <4> QED BY <4>2, <4>3, <4>4 DEF s
    <3>2. CASE S # {}
      <4> DEFINE m == Min(S)
                 x == Max(S)
      <4>1. m \in S /\ x \in S /\ m \in Int /\ x \in Int /\ m <= x
            /\ \A k \in S : m <= k /\ k <= x
        BY <2>1, <3>2, Extremes
      <4>2. PICK i \in FirstPlans(d) : /\ jobs[i].start <= m
                                       /\ jobs[i].start..(m - 1) \subseteq hole[d]
        BY <2>8, <3>2 DEF Origin, S
      <4>3. jobs[i].start \in Int /\ i \in Nat /\ j \in Nat
        BY <2>9, JobTypeOK
      <4>4. Reaches(d, j) => m <= s /\ s <= x + 1
        BY DEF Reaches, S, s
      <4> HIDE DEF m, x
      <4>5. ASSUME b < m
            PROVE  /\ j \in FirstPlans(d) /\ s <= b /\ lo = b
                   /\ s..(b - 1) \subseteq hole[d]
        <5>1. s <= b
          BY <2>2, <2>3, <2>4, <2>5
        <5>2. j \in FirstPlans(d)
          BY <2>2, <2>5, <2>10, <4>1, <4>4, <4>5, <5>1
        <5>3. lo = b
          <6>1. lo <= b
            BY <2>1, <2>5, <2>11
          <6>2. lo \in S \/ lo \in batch
            BY <2>1, <2>11
          <6>3. b <= lo
            BY <2>5, <2>11, <4>1, <4>5, <6>2
          <6> QED BY <2>5, <2>11, <6>1, <6>3
        <5>4. ASSUME NEW k \in s..(b - 1) PROVE k \in hole[d]
          <6>1. k \in Int /\ s <= k /\ k < b /\ k < m
            BY <2>2, <2>5, <4>1, <4>5, <5>4
          <6>2. k \notin S
            BY <4>1, <6>1
          <6> QED BY <2>7, <6>1, <6>2
        <5> QED BY <5>1, <5>2, <5>3, <5>4
      <4>6. ASSUME ~(b < m) PROVE lo = m
        <5>1. lo <= m
          BY <2>1, <2>11, <4>1
        <5>2. lo \in S \/ lo \in batch
          BY <2>1, <2>11
        <5>3. m <= lo
          BY <2>5, <2>11, <4>1, <4>6, <5>2
        <5> QED BY <2>11, <4>1, <5>1, <5>3
      <4>7. \E k \in FirstPlans(d) : jobs[k].start <= lo /\ jobs[k].start..(lo - 1) \subseteq hole[d]
        <5>1. CASE b < m
          BY <4>5, <5>1 DEF s
        <5>2. CASE ~(b < m)
          BY <4>2, <4>6, <5>2
        <5> QED BY <5>1, <5>2
      <4>8. ASSUME NEW n \in (lo..hi) \ (T \cup hole[d]) PROVE Explained(d, n)
        <5>1. n \in Int /\ lo <= n /\ n <= hi /\ n \notin S /\ n \notin batch /\ n \notin hole[d]
          BY <2>1, <2>11, <4>8
        <5>2. CASE m <= n /\ n <= x
          <6>1. n \in (m..x) \ (S \cup hole[d])
            BY <4>1, <5>1, <5>2
          <6> QED BY <2>8, <3>2, <6>1 DEF m, x
        <5>3. CASE n > x
          <6>1. n < b
            <7>1. hi \in batch
              BY <2>1, <2>11, <4>1, <5>1, <5>3
            <7> QED BY <2>5, <2>11, <5>1, <7>1
          <6>2. n < s
            BY <2>2, <2>7, <5>1, <6>1
          <6>3. j \in FirstPlans(d)
            BY <2>2, <2>10, <4>1, <4>4, <5>1, <5>3, <6>2
          <6>4. i < j
            <7>1. ~(jobs[j].start <= jobs[i].start)
              BY <2>2, <4>1, <4>2, <4>3, <5>1, <5>3, <6>2 DEF s
            <7>2. ~(j < i) /\ j # i
              BY <2>2, <2>8, <4>2, <4>3, <6>3, <7>1 DEF s
            <7> QED BY <4>3, <7>2
          <6>5. jobs[i].start <= n
            BY <4>1, <4>2, <4>3, <5>1, <5>3
          <6> QED BY <4>2, <6>2, <6>3, <6>4, <6>5 DEF Explained, s
        <5>4. CASE n < m
          <6>1. b < m
            BY <2>5, <4>1, <4>6, <5>1, <5>4
          <6>2. j \in FirstPlans(d) /\ s <= b /\ lo = b
            BY <4>5, <6>1
          <6>3. n < jobs[i].start
            <7>1. n \notin jobs[i].start..(m - 1)
              BY <4>2, <5>1
            <7> QED BY <4>1, <4>3, <5>1, <5>4, <7>1
          <6>4. s <= n
            BY <2>2, <2>5, <5>1, <6>2
          <6>5. j < i
            <7>1. ~(jobs[i].start <= jobs[j].start)
              BY <2>2, <4>3, <5>1, <6>3, <6>4 DEF s
            <7>2. ~(i < j) /\ j # i
              BY <2>2, <2>8, <4>2, <4>3, <6>2, <7>1 DEF s
            <7> QED BY <4>3, <7>2
          <6> QED BY <4>2, <6>2, <6>3, <6>4, <6>5 DEF Explained, s
        <5> QED BY <4>1, <5>1, <5>2, <5>3, <5>4
      <4> QED BY <4>7, <4>8
    <3> QED BY <3>1, <3>2
  <2>13. FirstPlans(d)' = FirstPlans(d) /\ hole' = hole
    BY DEF FirstPlans, Keeps
  <2>14. Origin(d)'
    BY <2>12, <2>13 DEF Origin, lo, T
  <2>15. ASSUME NEW n \in (Min(stored'[d])..Max(stored'[d])) \ (stored'[d] \cup hole'[d])
         PROVE  Explained(d, n)'
    <3>1. Explained(d, n)
      BY <2>12, <2>13, <2>15 DEF lo, hi, T
    <3> QED BY <2>13, <3>1 DEF Explained
  <2>16. \A i \in DOMAIN jobs : Reaches(d, i) => Reaches(d, i)'
    <3> SUFFICES ASSUME NEW i \in DOMAIN jobs, Reaches(d, i) PROVE Reaches(d, i)'
      OBVIOUS
    <3>1. S # {} /\ Min(S) <= jobs[i].start /\ jobs[i].start <= Max(S) + 1 /\ jobs[i].start \in Int
      BY JobTypeOK DEF Reaches, S
    <3>2. Min(S) \in S /\ Max(S) \in S /\ Min(S) \in Int /\ Max(S) \in Int
      BY <2>1, <3>1, Extremes
    <3>3. lo <= Min(S) /\ Max(S) <= hi
      BY <2>1, <2>11, <3>2
    <3>4. lo <= jobs[i].start /\ jobs[i].start <= hi + 1
      BY <2>11, <3>1, <3>2, <3>3
    <3> QED BY <2>1, <3>4 DEF Reaches, lo, hi, T
  <2>17. (\A i \in DOMAIN jobs : jobs[i].d = d => i \in FirstPlans(d) \/ Reaches(d, i))'
    BY <2>8, <2>13, <2>16
  <2>18. (\A i, k \in FirstPlans(d) : i < k => jobs[i].start <= jobs[k].start)'
    BY <2>8, <2>13
  <2> QED BY <2>14, <2>15, <2>17, <2>18 DEF GapOK
<1> QED BY <1>1, <1>2, <1>3

LEMMA IngestKeeps ==
    ASSUME IInv, NEW a \in Actors, NEW late \in 0..1, Ingest(a, late) PROVE IInv'
<1>0. PICK j : j = at[a].job
  OBVIOUS
<1>1. PICK c : c = jobs[j].chunks[jobs[j].next]
  OBVIOUS
<1>2. PICK d : d = jobs[j].d
  OBVIOUS
<1>3. PICK batch : batch = Fetched(Served(d, late), c)
  OBVIOUS
<1>4. /\ at[a].pc = "chunk" /\ Working(a) /\ now' = now /\ hole' = hole /\ rlock' = rlock
      /\ cycle' = cycle
  BY DEF Ingest, Working
<1>5. /\ TypeOK /\ JobsOK /\ ActorsOK /\ ReportsOK /\ GapsOK
      /\ Executing(a) /\ ActorOK(a) /\ j \in DOMAIN jobs /\ JobOf(a) = jobs[j]
      /\ jobs[j] \in AllJobs /\ JobOK(j) /\ jobs[j].status = "RUNNING"
      /\ d \in Datasets /\ dlock[d] = a
      /\ jobs[j].next \in DOMAIN jobs[j].chunks /\ jobs[j].next <= Len(jobs[j].chunks)
      /\ jobs[j].next \in Nat \ {0} /\ c \in Spans
      /\ at[a].cycle # 0 => RunnerOK(a)
  BY <1>0, <1>1, <1>2, <1>4, WorkIs
<1> DEFINE committed == Committed(j, jobs[j].next)
           confirmed == committed /\ Complete(d, c.start, c.end)
           receipt == [job |-> j, chunk |-> jobs[j].next, whole |-> c.start..(c.end - 1) \subseteq batch]
<1>6. CASE ~confirmed /\ (committed \/ ~ValidBatch(batch))
  <2>1. EndJob(a, "FAILED", "FAILED") /\ stored' = stored /\ receipts' = receipts
    BY <1>0, <1>1, <1>2, <1>3, <1>5, <1>6 DEF Ingest
  <2>2. PICK status \in {"FAILED", "COMPLETED"} : status = "FAILED"
    OBVIOUS
  <2>3. EndJob(a, status, IF status = "COMPLETED" THEN "UPDATED" ELSE "FAILED")
    BY <2>1, <2>2
  <2>4. status # "COMPLETED"
    BY <2>2
  <2> QED BY <1>4, <2>1, <2>3, <2>4, EndJobKeeps
<1>7. CASE ~(~confirmed /\ (committed \/ ~ValidBatch(batch)))
  <2> DEFINE place == [at[a] EXCEPT !.pc = "checkpoint"]
  <2>1. /\ stored' = IF confirmed THEN stored ELSE [stored EXCEPT ![d] = @ \cup batch]
        /\ receipts' = IF confirmed THEN receipts ELSE receipts \cup {receipt}
        /\ at' = [at EXCEPT ![a] = place] /\ dlock' = dlock /\ jobs' = jobs
    BY <1>0, <1>1, <1>2, <1>3, <1>5, <1>7 DEF Ingest, Go
  <2>2. /\ place \in Places /\ place.pc = "checkpoint" /\ place.job = j /\ place.cycle = at[a].cycle
        /\ place.begun = at[a].begun /\ place.started = at[a].started
        /\ place.results = at[a].results
    BY <1>0, <1>5, ActorTypeOK DEF Places, Points
  <2>3. /\ batch \in SUBSET Nat /\ IsFiniteSet(batch)
        /\ batch \in SUBSET (c.start..(c.end - 1))
        /\ \A k \in c.start..(c.end - 1) :
             0 <= k /\ k < LatestEnd(d, now) => k \in batch \cup hole[d] \/ k = LatestEnd(d, now) - 1
    BY <1>3, <1>5, BatchIs
  <2>0. /\ receipt.job = j
        /\ receipt.whole => c.start..(c.end - 1) \subseteq batch
    OBVIOUS
  <2> HIDE DEF place, confirmed, committed, receipt
  <2>4. PICK B : /\ B = IF confirmed THEN {} ELSE batch
                 /\ B \in SUBSET Nat /\ IsFiniteSet(B) /\ B \in SUBSET (c.start..(c.end - 1))
                 /\ ValidBatch(B)
    <3>1. ValidBatch({}) /\ IsFiniteSet({})
      BY FS_EmptySet DEF ValidBatch
    <3> QED BY <1>7, <2>3, <3>1
  <2>5. /\ stored'[d] = stored[d] \cup B /\ stored' \in [Datasets -> SUBSET Nat]
        /\ \A x \in Datasets : x # d => stored'[x] = stored[x]
        /\ \A x \in Datasets : IsFiniteSet(stored'[x])
    <3>1. stored \in [Datasets -> SUBSET Nat] /\ \A x \in Datasets : IsFiniteSet(stored[x])
      BY <1>5 DEF TypeOK
    <3>2. /\ stored'[d] = stored[d] \cup B /\ stored' \in [Datasets -> SUBSET Nat]
          /\ \A x \in Datasets : x # d => stored'[x] = stored[x]
      BY <1>5, <2>1, <2>4, <3>1
    <3>3. IsFiniteSet(stored'[d])
      <4>1. IsFiniteSet(stored[d])
        BY <1>5, <3>1
      <4>2. stored'[d] = stored[d] \cup B /\ IsFiniteSet(B)
        BY <2>4, <3>2
      <4>3. IsFiniteSet(stored[d] \cup B)
        BY <4>1, <4>2, FS_Union
      <4> QED BY <4>2, <4>3
    <3> QED BY <3>1, <3>2, <3>3
  <2>6. /\ at'[a] = place /\ at' \in [Actors -> Places]
        /\ \A b \in Actors : b # a => at'[b] = at[b]
    BY <1>5, <2>1, <2>2 DEF TypeOK
  <2>7. TypeOK'
    BY <1>4, <1>5, <2>1, <2>5, <2>6 DEF TypeOK
  <2>8. Keeps
    <3>1. \A x \in Datasets : stored[x] \subseteq stored'[x]
      BY <2>5
    <3> QED BY <1>4, <1>5, <2>1, <3>1 DEF Keeps, TypeOK
  <2>9. JobsOK'
    <3>1. ASSUME NEW i \in DOMAIN jobs PROVE JobOK(i)'
      BY <1>5, <2>1, <2>7, <2>8, <3>1, JobKeeps DEF JobsOK
    <3> QED BY <2>1, <3>1 DEF JobsOK
  <2>10. jobs[j].type = "INCREMENTAL" =>
           \A k \in c.start..(c.end - 1) : k \in stored'[d] \cup hole[d] \/ k = jobs[j].end - 1
    <3> SUFFICES ASSUME jobs[j].type = "INCREMENTAL", NEW k \in c.start..(c.end - 1)
                 PROVE  k \in stored'[d] \cup hole[d] \/ k = jobs[j].end - 1
      OBVIOUS
    <3>1. CASE confirmed
      BY <2>5, <3>1 DEF confirmed, Complete
    <3>2. CASE ~confirmed
      <4>1. /\ jobs[j].start <= c.start /\ 0 <= jobs[j].start /\ c.end <= jobs[j].end
            /\ jobs[j].end <= LatestEnd(d, now)
        BY <1>1, <1>2, <1>5 DEF JobOK, Chained
      <4>2. /\ jobs[j].start \in Int /\ jobs[j].end \in Int /\ c.start \in Int /\ c.end \in Int
            /\ LatestEnd(d, now) \in Int
        BY <1>5, JobTypeOK, LatestIs DEF Spans, TypeOK
      <4>3. k \in Int /\ c.start <= k /\ k <= c.end - 1
        BY <4>2
      <4>4. 0 <= k /\ k < LatestEnd(d, now) /\ (k = LatestEnd(d, now) - 1 => k = jobs[j].end - 1)
        BY <4>1, <4>2, <4>3
      <4> QED BY <2>3, <2>4, <2>5, <3>2, <4>4
    <3> QED BY <3>1, <3>2
  <2>11. ASSUME AllFetched(j)' PROVE c.start..(c.end - 1) \subseteq stored'[d]
    <3>1. CASE confirmed
      BY <2>5, <3>1 DEF confirmed, Complete
    <3>2. CASE ~confirmed
      <4>1. receipt.whole
        BY <2>0, <2>1, <2>11, <3>2 DEF AllFetched
      <4> QED BY <2>0, <2>4, <2>5, <3>2, <4>1
    <3> QED BY <3>1, <3>2
  <2>12. ActorOK(a)'
    <3>1. at[a].cycle # 0 => RunnerOK(a)'
      <4>1. SUFFICES ASSUME at[a].cycle # 0 PROVE RunnerOK(a)'
        OBVIOUS
      <4>2. /\ RunnerOK(a) /\ jobs[j].d = Len(at[a].results) + 1
            /\ jobs[j].type = "INCREMENTAL"
            /\ jobs[j].end = LatestEnd(jobs[j].d, at[a].started)
        BY <1>5, <4>1 DEF ActorOK, RunnerOK
      <4> QED BY <1>4, <1>5, <2>1, <2>2, <2>6, <2>7, <2>8, <4>2, RunnerMoves
    <3>2. /\ at'[a].pc = "checkpoint" /\ at'[a].job = j /\ at'[a].cycle = at[a].cycle
          /\ j \in DOMAIN jobs' /\ jobs'[j].status = "RUNNING" /\ dlock'[jobs'[j].d] = a
      BY <1>2, <1>5, <2>1, <2>2, <2>6
    <3>3. (at[a].pc = "checkpoint" /\ JobOf(a).type = "INCREMENTAL" =>
             LET r == JobOf(a).chunks[JobOf(a).next]
             IN  Fetches(at[a].job, r.start, r.end))'
      BY <1>1, <1>2, <1>4, <2>1, <2>10, <2>11, <3>2 DEF JobOf, Fetches
    <3> QED BY <3>1, <3>2, <3>3 DEF ActorOK, Executing, Working, JobOf
  <2>13. ActorsOK'
    <3>1. ASSUME NEW b \in Actors, b # a PROVE ActorOK(b)'
      <4>1. ActorOK(b) /\ at'[b] = at[b] /\ (Working(b) => dlock[jobs[at[b].job].d] = b)
        BY <1>5, <2>6, <3>1 DEF ActorsOK, ActorOK, JobOf
      <4> QED BY <1>4, <1>5, <2>1, <2>7, <2>8, <4>1, ActorKeeps
    <3> QED BY <2>12, <3>1 DEF ActorsOK
  <2>14. ReportsOK'
    BY <1>4, <1>5, <2>8, ReportsKeep
  <2>15. GapsOK'
    <3>1. GapOK(d)'
      BY <1>1, <1>2, <1>5, <2>1, <2>4, <2>5, <2>7, <2>8, <2>10, GapStores DEF GapsOK
    <3>2. ASSUME NEW x \in Datasets, x # d PROVE GapOK(x)'
      BY <1>5, <2>1, <2>5, <2>8, <3>2, GapKeeps DEF GapsOK
    <3> QED BY <3>1, <3>2 DEF GapsOK
  <2> QED BY <2>7, <2>9, <2>13, <2>14, <2>15 DEF IInv
<1> QED BY <1>6, <1>7

-----------------------------------------------------------------------------
(* A process ends, a cycle ends *)

LEMMA KillKeeps == ASSUME IInv, NEW a \in Actors, Kill(a) PROVE IInv'
<1>1. /\ at' = [at EXCEPT ![a] = Idle] /\ now' = now /\ hole' = hole /\ stored' = stored
      /\ dlock' = [d \in Datasets |-> IF dlock[d] = a THEN None ELSE dlock[d]]
      /\ rlock' = (IF rlock = a THEN None ELSE rlock) /\ jobs' = jobs /\ cycle' = cycle
      /\ receipts' = receipts
  BY DEF Kill, Go
<1>2. TypeOK /\ JobsOK /\ ActorsOK /\ ReportsOK /\ GapsOK
  BY DEF IInv
<1>3. /\ at'[a] = Idle /\ at' \in [Actors -> Places]
      /\ \A b \in Actors : b # a => at'[b] = at[b]
  BY <1>1, <1>2, IdleTypeOK DEF TypeOK
<1>4. TypeOK'
  BY <1>1, <1>2, <1>3 DEF TypeOK
<1>5. Keeps
  BY <1>1, <1>2 DEF Keeps, TypeOK
<1>6. JobsOK'
  <2>1. ASSUME NEW i \in DOMAIN jobs PROVE JobOK(i)'
    BY <1>1, <1>2, <1>4, <1>5, <2>1, JobKeeps DEF JobsOK
  <2> QED BY <1>1, <2>1 DEF JobsOK
<1>7. ActorOK(a)'
  BY <1>3 DEF ActorOK, Idle, Executing, Working
<1>8. ASSUME NEW b \in Actors, b # a PROVE ActorOK(b)'
  <2>1. ActorOK(b) /\ at'[b] = at[b]
    BY <1>2, <1>3, <1>8 DEF ActorsOK
  <2>2. at[b].cycle # 0 => rlock' = rlock
    BY <1>1, <1>8, <2>1 DEF ActorOK, RunnerOK
  <2>3. Working(b) => dlock'[jobs[at[b].job].d] = b
    <3>1. Working(b) => at[b].job \in DOMAIN jobs /\ dlock[jobs[at[b].job].d] = b
      BY <2>1 DEF ActorOK, Working, Executing, JobOf
    <3>2. Working(b) => jobs[at[b].job].d \in Datasets
      BY <1>2, <3>1, JobTypeOK
    <3> QED BY <1>1, <1>8, <3>1, <3>2
  <2> QED BY <1>1, <1>2, <1>4, <1>5, <2>1, <2>2, <2>3, ActorKeeps
<1>9. ReportsOK'
  BY <1>1, <1>2, <1>5, ReportsKeep
<1>10. GapsOK'
  BY <1>1, <1>2, <1>5, GapsKeep
<1> QED BY <1>4, <1>6, <1>7, <1>8, <1>9, <1>10 DEF IInv, ActorsOK

LEMMA PublishKeeps ==
    ASSUME IInv, NEW a \in Actors, NEW written \in BOOLEAN, NEW fails \in BOOLEAN,
           Publish(a, written, fails)
    PROVE  IInv'
<1> DEFINE goes == ~(fails \/ at[a].cycle = MaxCycles)
           me == [Idle EXCEPT !.pc = "target", !.cycle = at[a].cycle + 1,
                              !.begun = now, !.started = now]
           place == IF goes THEN me ELSE Idle
<1>1. /\ at[a].pc = "target" /\ (goes => written) /\ at' = [at EXCEPT ![a] = place]
      /\ cycle' = (IF written THEN CycleOf(a) ELSE cycle)
      /\ rlock' = (IF goes THEN rlock ELSE None)
      /\ now' = now /\ hole' = hole /\ stored' = stored /\ dlock' = dlock /\ jobs' = jobs
      /\ receipts' = receipts
  BY DEF Publish, Go
<1>2. TypeOK /\ JobsOK /\ ActorsOK /\ ReportsOK /\ GapsOK
  BY DEF IInv
<1>3. RunnerOK(a)
  BY <1>1, <1>2 DEF ActorsOK, ActorOK
<1>4. at[a].cycle \in Nat /\ now \in Nat /\ at[a].results \in Seq(AllResults)
  BY <1>2, ActorTypeOK
<1>5. /\ me.pc = "target" /\ me.cycle = at[a].cycle + 1 /\ me.begun = now /\ me.started = now
      /\ me.results = <<>> /\ me.job = 0 /\ me \in Places
  <2>1. me \in Places
    <3>1. "target" \in Points /\ at[a].cycle + 1 \in Nat /\ now \in Nat
      BY <1>4 DEF Points
    <3> QED BY <3>1, IdleTypeOK DEF Places
  <2> QED BY <1>4, <2>1 DEF Idle
<1> HIDE DEF me, goes
<1>6. place \in Places
  BY <1>5, IdleTypeOK
<1>7. /\ at'[a] = place /\ at' \in [Actors -> Places]
      /\ \A b \in Actors : b # a => at'[b] = at[b]
  BY <1>1, <1>2, <1>6 DEF TypeOK
<1>8. cycle'.index \in Nat /\ cycle'.results \in Seq(AllResults)
  BY <1>1, <1>2, <1>4 DEF CycleOf, TypeOK
<1>9. TypeOK'
  BY <1>1, <1>2, <1>7, <1>8 DEF TypeOK
<1>10. Keeps
  BY <1>1, <1>2 DEF Keeps, TypeOK
<1>11. JobsOK'
  <2>1. ASSUME NEW i \in DOMAIN jobs PROVE JobOK(i)'
    BY <1>1, <1>2, <1>9, <1>10, <2>1, JobKeeps DEF JobsOK
  <2> QED BY <1>1, <2>1 DEF JobsOK
<1>12. ActorOK(a)'
  <2>1. CASE goes
    <3>1. cycle'.index = at[a].cycle /\ rlock' = a
      BY <1>1, <1>3, <2>1 DEF CycleOf, RunnerOK
    <3> QED BY <1>1, <1>5, <1>7, <1>9, <1>11, <2>1, <3>1, FreshRunner
  <2>2. CASE ~goes
    BY <1>7, <2>2 DEF ActorOK, Idle, Executing, Working
  <2> QED BY <2>1, <2>2
<1>13. ASSUME NEW b \in Actors, b # a PROVE ActorOK(b)'
  <2>1. ActorOK(b) /\ at'[b] = at[b] /\ (Working(b) => dlock[jobs[at[b].job].d] = b)
    BY <1>2, <1>7, <1>13 DEF ActorsOK, ActorOK, JobOf
  <2>2. at[b].cycle = 0
    BY <1>3, <1>13, <2>1 DEF ActorOK, RunnerOK
  <2> QED BY <1>1, <1>2, <1>9, <1>10, <2>1, <2>2, ActorKeeps
<1>14. ReportsOK'
  <2>1. CASE ~written
    BY <1>1, <1>2, <1>10, <2>1, ReportsKeep
  <2>2. CASE written
    <3>1. cycle'.results = at[a].results
      BY <1>1, <2>2 DEF CycleOf
    <3>2. ASSUME NEW i \in DOMAIN cycle'.results PROVE Holds(cycle.results[i])'
      <4>1. PICK r : r = at[a].results[i]
        OBVIOUS
      <4>2. Holds(r) /\ cycle'.results[i] = r
        BY <1>3, <3>1, <3>2, <4>1 DEF RunnerOK
      <4>3. /\ r.d \in Datasets
            /\ r.status = "NOOP" => \E n \in stored'[r.d] : n >= r.latest - 1
            /\ r.status = "UPDATED" =>
                 /\ r.job \in DOMAIN jobs'
                 /\ jobs'[r.job].start..(r.latest - 1) \subseteq stored'[r.d]
        BY <1>2, <1>10, <4>2, HoldsKeeps
      <4> QED BY <4>2, <4>3 DEF Holds
    <3> QED BY <3>2 DEF ReportsOK
  <2> QED BY <2>1, <2>2
<1>15. GapsOK'
  BY <1>1, <1>2, <1>10, GapsKeep
<1> QED BY <1>9, <1>11, <1>12, <1>13, <1>14, <1>15 DEF IInv, ActorsOK

-----------------------------------------------------------------------------
(* A plan is made *)

LEMMA DivLeast ==
    ASSUME NEW t \in Int, NEW b \in Int, NEW u \in Nat \ {0}, b * u <= t
    PROVE  b <= t \div u
<1> DEFINE q == t \div u
<1>1. q \in Int /\ t < q * u + u
  BY DivBounds
<1> HIDE DEF q
<1>2. ASSUME q + 1 <= b PROVE FALSE
  <2>1. (q + 1) * u <= b * u
    BY <1>1, <1>2
  <2>2. (q + 1) * u = q * u + u
    BY <1>1
  <2> QED BY <1>1, <2>1, <2>2
<1> QED BY <1>1, <1>2 DEF q

\* The catalog with one more job.
LEMMA AppendedIs ==
    ASSUME TypeOK, NEW old \in Seq(AllJobs), Len(old) = Len(jobs), NEW job \in AllJobs,
           NEW n, n = Len(jobs) + 1, jobs' = Append(old, job)
    PROVE  /\ jobs' \in Seq(AllJobs) /\ DOMAIN jobs' = DOMAIN jobs \cup {n}
           /\ n \in Nat \ {0} /\ n \notin DOMAIN jobs /\ jobs'[n] = job
           /\ \A i \in DOMAIN jobs : jobs'[i] = old[i]
<1>1. jobs \in Seq(AllJobs) /\ DOMAIN old = DOMAIN jobs
  BY DEF TypeOK
<1> QED BY <1>1

\* A collector plans: its range begins after the one of any first plan before it.
LEMMA GapPlans ==
    ASSUME TypeOK, Keeps, NEW d \in Datasets, GapOK(d), stored'[d] = stored[d],
           NEW n \in Nat, DOMAIN jobs' = DOMAIN jobs \cup {n}, n \notin DOMAIN jobs,
           \A i \in DOMAIN jobs : i < n,
           jobs'[n].d = d, jobs'[n].start \in Int, jobs'[n].end \in Int,
           \A i \in DOMAIN jobs : jobs[i].type = "INCREMENTAL" /\ jobs[i].d = d =>
             jobs[i].end <= jobs'[n].end,
           \/ jobs'[n].end - jobs'[n].start = Bootstrap
           \/ /\ stored[d] # {} /\ Min(stored[d]) <= jobs'[n].start
              /\ jobs'[n].start <= Max(stored[d]) + 1
    PROVE  GapOK(d)'
<1>1. \A i \in DOMAIN jobs : /\ i \in DOMAIN jobs' /\ jobs'[i].d = jobs[i].d
                             /\ jobs'[i].start = jobs[i].start /\ jobs'[i].end = jobs[i].end
                             /\ jobs'[i].type = jobs[i].type
                             /\ jobs[i].start \in Int /\ jobs[i].end \in Int /\ i \in Nat
  BY JobTypeOK DEF Keeps
<1>2. SUFFICES ASSUME Collected(d)'
               PROVE  (/\ \A i, j \in FirstPlans(d) : i < j => jobs[i].start <= jobs[j].start
                       /\ \A j \in DOMAIN jobs : jobs[j].d = d => j \in FirstPlans(d) \/ Reaches(d, j)
                       /\ stored[d] # {} =>
                            /\ Origin(d)
                            /\ \A k \in (Min(stored[d])..Max(stored[d])) \ (stored[d] \cup hole[d]) :
                                 Explained(d, k))'
  BY DEF GapOK
<1>3. Collected(d)
  BY <1>1, <1>2 DEF Collected
<1>4. hole' = hole /\ Bootstrap \in Nat
  BY LimitsAssumption DEF Keeps
<1>5. /\ \A i, j \in FirstPlans(d) : i < j => jobs[i].start <= jobs[j].start
      /\ \A j \in DOMAIN jobs : jobs[j].d = d => j \in FirstPlans(d) \/ Reaches(d, j)
      /\ stored[d] # {} =>
           /\ Origin(d)
           /\ \A k \in (Min(stored[d])..Max(stored[d])) \ (stored[d] \cup hole[d]) : Explained(d, k)
  BY <1>3 DEF GapOK
<1>6. /\ \A i \in FirstPlans(d) : i \in DOMAIN jobs /\ i \in FirstPlans(d)'
      /\ \A i \in FirstPlans(d)' : i \in FirstPlans(d) \/ i = n
      /\ n \in FirstPlans(d)' => jobs'[n].end - jobs'[n].start = Bootstrap
  BY <1>1 DEF FirstPlans
<1>7. ASSUME NEW i \in FirstPlans(d)', NEW j \in FirstPlans(d)', i < j
      PROVE  jobs'[i].start <= jobs'[j].start
  <2>1. CASE j \in FirstPlans(d)
    <3>1. i # n
      BY <1>1, <1>6, <1>7, <2>1
    <3> QED BY <1>1, <1>5, <1>6, <1>7, <2>1, <3>1
  <2>2. CASE j = n
    <3>0. ~(n < n)
      OBVIOUS
    <3>1. i \in FirstPlans(d) /\ i \in DOMAIN jobs
      <4>1. i # n
        BY <1>7, <2>2, <3>0
      <4>2. i \in FirstPlans(d)
        BY <1>6, <1>7, <4>1
      <4> QED BY <1>6, <4>2
    <3>2. /\ jobs[i].end - jobs[i].start = Bootstrap /\ jobs[i].d = d
          /\ jobs[i].type = "INCREMENTAL"
      BY <1>3, <3>1 DEF FirstPlans, Collected
    <3>3. jobs'[n].end - jobs'[n].start = Bootstrap
      BY <1>6, <1>7, <2>2
    <3>4. jobs[i].end <= jobs'[n].end
      BY <3>1, <3>2
    <3> QED BY <1>1, <1>4, <2>2, <3>1, <3>2, <3>3, <3>4
  <2> QED BY <1>6, <1>7, <2>1, <2>2
<1>8. (\A i, j \in FirstPlans(d) : i < j => jobs[i].start <= jobs[j].start)'
  BY <1>7
<1>9. (\A j \in DOMAIN jobs : jobs[j].d = d => j \in FirstPlans(d) \/ Reaches(d, j))'
  <2>1. ASSUME NEW j \in DOMAIN jobs', jobs'[j].d = d PROVE (j \in FirstPlans(d) \/ Reaches(d, j))'
    <3>1. CASE j = n
      BY <3>1, <2>1 DEF FirstPlans, Reaches
    <3>2. CASE j # n
      <4>1. j \in FirstPlans(d) \/ Reaches(d, j)
        BY <1>1, <1>5, <2>1, <3>2
      <4> QED BY <1>1, <1>6, <2>1, <3>2, <4>1 DEF Reaches
    <3> QED BY <3>1, <3>2
  <2> QED BY <2>1
<1>10. ASSUME stored'[d] # {} PROVE Origin(d)'
  <2>1. PICK j \in FirstPlans(d) : /\ jobs[j].start <= Min(stored[d])
                                   /\ jobs[j].start..(Min(stored[d]) - 1) \subseteq hole[d]
    BY <1>5, <1>10 DEF Origin
  <2>2. j \in FirstPlans(d)' /\ jobs'[j].start = jobs[j].start
    BY <1>1, <1>6, <2>1
  <2> QED BY <1>4, <2>1, <2>2 DEF Origin
<1>11. ASSUME stored'[d] # {}, NEW k \in (Min(stored'[d])..Max(stored'[d])) \ (stored'[d] \cup hole'[d])
       PROVE  Explained(d, k)'
  <2>1. Explained(d, k)
    BY <1>4, <1>5, <1>11
  <2>2. PICK i \in FirstPlans(d), j \in FirstPlans(d) : i < j /\ jobs[i].start <= k /\ k < jobs[j].start
    BY <2>1 DEF Explained
  <2> QED BY <1>1, <1>6, <2>2 DEF Explained
<1> QED BY <1>8, <1>9, <1>10, <1>11

\* A first plan begins at a candle.
LEMMA FirstPlanStarts ==
    ASSUME NEW d \in Datasets, NEW t \in Nat, StartTime <= t
    PROVE  0 <= LatestEnd(d, t) - Bootstrap
<1> DEFINE u == Targets[d]
<1>1. u \in Nat \ {0} /\ Bootstrap \in Nat /\ StartTime \in Nat /\ Bootstrap * u <= StartTime
  BY DatasetsAre, LimitsAssumption DEF Datasets
<1>2. LatestEnd(d, t) = t \div u
  BY DEF LatestEnd
<1> HIDE DEF u
<1>3. Bootstrap * u <= t /\ Bootstrap \in Int /\ t \in Int
  <2>1. Bootstrap * u \in Int
    BY <1>1
  <2> QED BY <1>1, <2>1
<1>4. Bootstrap <= t \div u /\ t \div u \in Int
  BY <1>1, <1>3, DivLeast, DivBounds
<1> QED BY <1>1, <1>2, <1>4

LEMMA PlanTargetKeeps == ASSUME IInv, NEW a \in Actors, PlanTarget(a) PROVE IInv'
<1>1. PICK d : d = Len(at[a].results) + 1
  OBVIOUS
<1>2. PICK latest : latest = LatestEnd(d, at[a].started)
  OBVIOUS
<1>3. PICK start : start = IncrementalStart(d, latest)
  OBVIOUS
<1>4. PICK chunks : chunks = Chunked(start, latest)
  OBVIOUS
<1> DEFINE current == stored[d] # {} /\ Max(stored[d]) + 1 >= latest
           planned == MayPlan(d, chunks, latest, at[a].started) /\ PlanAccepted(chunks, latest)
<1>5. /\ at[a].pc = "target" /\ d \in Datasets /\ now' = now /\ hole' = hole
      /\ stored' = stored /\ dlock' = dlock /\ rlock' = rlock /\ cycle' = cycle
      /\ receipts' = receipts
  BY <1>1 DEF PlanTarget
<1>6. TypeOK /\ JobsOK /\ ActorsOK /\ ReportsOK /\ GapsOK /\ ActorOK(a)
  BY DEF IInv, ActorsOK
<1>7. RunnerOK(a) /\ at[a].job = 0 /\ at[a].cycle # 0
  BY <1>5, <1>6 DEF ActorOK
<1>8. /\ at[a] \in Places /\ at[a].started \in Nat /\ latest \in Int /\ start \in Int
      /\ now \in Nat
  <2>1. at[a] \in Places /\ at[a].started \in Nat /\ now \in Nat
    BY <1>6, ActorTypeOK
  <2>2. latest \in Int
    BY <1>2, <1>5, <2>1, LatestIs
  <2> QED BY <1>3, <1>5, <1>6, <2>1, <2>2, IncrementalStartIs
<1>9. /\ jobs' = IF current \/ ~planned THEN jobs
                 ELSE Append(jobs, NewJob(d, "INCREMENTAL", start, latest, chunks))
      /\ at' = [at EXCEPT ![a] = IF current THEN After(a, "NOOP")
                                 ELSE IF ~planned THEN After(a, "FAILED")
                                 ELSE [at[a] EXCEPT !.pc = "lock", !.job = Len(jobs) + 1]]
  BY <1>1, <1>2, <1>3, <1>4 DEF PlanTarget, Go
<1>10. CASE current
  <2>1. \E n \in stored[d] : n >= latest - 1
    <3>1. stored[d] \in SUBSET Int /\ IsFiniteSet(stored[d]) /\ stored[d] # {}
      BY <1>5, <1>6, <1>10 DEF TypeOK
    <3>2. Max(stored[d]) \in stored[d]
      BY <3>1, Extremes
    <3> QED BY <1>8, <1>10, <3>1, <3>2
  <2>2. PICK status \in {"NOOP", "FAILED"} : status = "NOOP"
    OBVIOUS
  <2>3. at' = [at EXCEPT ![a] = After(a, status)] /\ jobs' = jobs
    BY <1>9, <1>10, <2>2
  <2> QED BY <1>1, <1>2, <1>5, <1>7, <2>1, <2>3, SkipKeeps
<1>11. CASE ~current /\ ~planned
  <2>1. PICK status \in {"NOOP", "FAILED"} : status = "FAILED"
    OBVIOUS
  <2>2. at' = [at EXCEPT ![a] = After(a, status)] /\ jobs' = jobs
    BY <1>9, <1>11, <2>1
  <2> QED BY <1>1, <1>5, <2>1, <2>2, SkipKeeps
<1>12. CASE ~current /\ planned
  <2>1. PICK n : n = Len(jobs) + 1
    OBVIOUS
  <2>2. PICK job : job = NewJob(d, "INCREMENTAL", start, latest, chunks)
    OBVIOUS
  <2> DEFINE place == [at[a] EXCEPT !.pc = "lock", !.job = n]
  <2>3. jobs' = Append(jobs, job) /\ at' = [at EXCEPT ![a] = place]
    BY <1>9, <1>12, <2>1, <2>2
  <2>4. /\ chunks \in Seq(Spans) /\ chunks # <<>> /\ PlanAccepted(Chunked(start, latest), latest)
    BY <1>4, <1>8, <1>12, ChunkedIs DEF PlanAccepted
  <2>5. /\ job \in AllJobs /\ job.d = d /\ job.type = "INCREMENTAL" /\ job.start = start
        /\ job.end = latest /\ job.chunks = chunks /\ job.next = 1 /\ job.status = "PLANNED"
    BY <1>5, <1>8, <2>2, <2>4 DEF NewJob, AllJobs, JobTypes, JobStatuses
  <2>6. Chained(job)
    BY <1>4, <1>5, <1>8, <2>2, <2>4, AcceptedChains
  <2>7. /\ jobs' \in Seq(AllJobs) /\ DOMAIN jobs' = DOMAIN jobs \cup {n}
        /\ n \in Nat \ {0} /\ n \notin DOMAIN jobs /\ jobs'[n] = job
        /\ \A i \in DOMAIN jobs : jobs'[i] = jobs[i]
    BY <1>6, <2>1, <2>3, <2>5, AppendedIs DEF TypeOK
  <2>8. /\ place \in Places /\ place.pc = "lock" /\ place.job = n /\ place.cycle = at[a].cycle
        /\ place.begun = at[a].begun /\ place.started = at[a].started
        /\ place.results = at[a].results
    BY <1>8, <2>7 DEF Places, Points
  <2> HIDE DEF place
  <2>9. /\ at'[a] = place /\ at' \in [Actors -> Places]
        /\ \A b \in Actors : b # a => at'[b] = at[b]
    BY <1>6, <2>3, <2>8 DEF TypeOK
  <2>10. TypeOK'
    BY <1>5, <1>6, <2>7, <2>9 DEF TypeOK
  <2>11. Keeps
    BY <1>5, <1>6, <2>7 DEF Keeps, TypeOK
  <2>12. /\ 0 <= start /\ latest <= LatestEnd(d, now')
         /\ \/ latest - start = Bootstrap
            \/ /\ stored[d] # {} /\ Min(stored[d]) <= start /\ start <= Max(stored[d]) + 1
    <3>1. StartTime <= at[a].started /\ at[a].started <= now
      BY <1>7 DEF RunnerOK
    <3>2. latest <= LatestEnd(d, now')
      <4> DEFINE u == Targets[d]
      <4>1. u \in Nat \ {0} /\ at[a].started \in Int /\ now \in Int
        BY <1>5, <1>8, DatasetsAre
      <4> HIDE DEF u
      <4>2. at[a].started \div u <= now \div u
        BY <3>1, <4>1, DivGrows
      <4> QED BY <1>2, <1>5, <4>2 DEF LatestEnd, u
    <3>3. CASE stored[d] = {}
      <4>1. start = latest - Bootstrap /\ 0 <= latest - Bootstrap
        BY <1>2, <1>3, <1>5, <1>6, <1>8, <3>1, <3>3, IncrementalStartIs, FirstPlanStarts
      <4>2. Bootstrap \in Nat
        BY LimitsAssumption
      <4> QED BY <1>8, <3>2, <4>1, <4>2
    <3>4. CASE stored[d] # {}
      <4>1. Min(stored[d]) \in Nat /\ Min(stored[d]) <= start /\ start <= Max(stored[d]) + 1
        BY <1>3, <1>5, <1>6, <1>8, <3>4, IncrementalStartIs
      <4> QED BY <1>8, <3>2, <3>4, <4>1
    <3> QED BY <3>3, <3>4
  <2>13. JobsOK'
    <3>1. ASSUME NEW i \in DOMAIN jobs PROVE JobOK(i)'
      BY <1>6, <2>7, <2>10, <2>11, <3>1, JobKeeps DEF JobsOK
    <3>2. JobOK(n)'
      <4>1. Chained(jobs[n])'
        BY <2>6, <2>7 DEF Chained
      <4>2. Covered(n)'
        <5>1. start..(start - 1) = {}
          BY <1>8
        <5> QED BY <2>5, <2>7, <5>1 DEF Covered, Done, Fetches
      <4>3. (/\ jobs[n].next <= Len(jobs[n].chunks) + 1
             /\ jobs[n].status = "COMPLETED" <=> jobs[n].next = Len(jobs[n].chunks) + 1)'
        <5>1. Len(chunks) \in Nat /\ Len(chunks) # 0
          BY <2>4
        <5> QED BY <2>5, <2>7, <5>1
      <4>4. (0 <= jobs[n].start /\ jobs[n].end <= LatestEnd(jobs[n].d, now))'
        BY <2>5, <2>7, <2>12 DEF LatestEnd
      <4> QED BY <2>5, <2>7, <4>1, <4>2, <4>3, <4>4 DEF JobOK
    <3> QED BY <2>7, <3>1, <3>2 DEF JobsOK
  <2>14. ActorOK(a)'
    <3>1. Executing(a)' =>
            LET i == at'[a].job
            IN  /\ jobs'[i].d = Len(at[a].results) + 1 /\ jobs'[i].type = "INCREMENTAL"
                /\ jobs'[i].end = LatestEnd(jobs'[i].d, at[a].started)
      BY <1>1, <1>2, <2>5, <2>7, <2>8, <2>9
    <3>2. \A i \in DOMAIN jobs' \ DOMAIN jobs : jobs'[i].type = "INCREMENTAL" =>
            jobs'[i].end <= LatestEnd(jobs'[i].d, at[a].started)
      <4>1. \A i \in DOMAIN jobs' \ DOMAIN jobs : i = n
        BY <2>7
      <4>2. jobs'[n].end = LatestEnd(jobs'[n].d, at[a].started) /\ jobs'[n].end \in Int
        BY <1>2, <1>8, <2>5, <2>7
      <4> QED BY <4>1, <4>2
    <3>3. RunnerOK(a)'
      BY <1>5, <1>6, <1>7, <2>8, <2>9, <2>10, <2>11, <3>1, <3>2, RunnerMoves
    <3>4. at'[a].pc = "lock" /\ at'[a].job \in DOMAIN jobs'
      BY <2>7, <2>8, <2>9
    <3> QED BY <3>3, <3>4 DEF ActorOK, Executing, Working
  <2>15. ASSUME NEW b \in Actors, b # a PROVE ActorOK(b)'
    <3>1. /\ ActorOK(b) /\ at'[b] = at[b]
          /\ Working(b) => at[b].job \in DOMAIN jobs /\ dlock[jobs[at[b].job].d] = b
      BY <1>6, <2>9, <2>15 DEF ActorsOK, ActorOK, JobOf, Working, Executing
    <3>2. at[b].cycle = 0
      BY <1>7, <2>15, <3>1 DEF ActorOK, RunnerOK
    <3> QED BY <1>5, <1>6, <2>7, <2>10, <2>11, <3>1, <3>2, ActorKeeps
  <2>16. ReportsOK'
    BY <1>5, <1>6, <2>11, ReportsKeep
  <2>17. GapsOK'
    <3>1. GapOK(d)'
      <4>1. GapOK(d) /\ stored'[d] = stored[d] /\ n \in Nat /\ \A i \in DOMAIN jobs : i < n
        <5>1. \A i \in DOMAIN jobs : i \in 1..Len(jobs) /\ Len(jobs) \in Nat
          BY <1>6 DEF TypeOK
        <5> QED BY <1>5, <1>6, <2>1, <2>7, <5>1 DEF GapsOK
      <4>2. \A i \in DOMAIN jobs : jobs[i].type = "INCREMENTAL" /\ jobs[i].d = d =>
              jobs[i].end <= jobs'[n].end
        BY <1>2, <1>7, <2>5, <2>7 DEF RunnerOK
      <4>3. jobs'[n].d = d /\ jobs'[n].start = start /\ jobs'[n].end = latest
        BY <2>5, <2>7
      <4> QED BY <1>5, <1>6, <1>8, <2>7, <2>11, <2>12, <4>1, <4>2, <4>3, GapPlans
    <3>2. ASSUME NEW x \in Datasets, x # d PROVE GapOK(x)'
      <4>1. \A i \in DOMAIN jobs' \ DOMAIN jobs : jobs'[i].d # x
        BY <2>5, <2>7, <3>2
      <4> QED BY <1>5, <1>6, <2>11, <4>1, GapKeeps DEF GapsOK
    <3> QED BY <3>1, <3>2 DEF GapsOK
  <2> QED BY <2>10, <2>13, <2>14, <2>15, <2>16, <2>17 DEF IInv, ActorsOK
<1> QED BY <1>10, <1>11, <1>12

LEMMA ManualKeeps ==
    ASSUME IInv, NEW a \in Actors, NEW q \in Requests, Manual(a, q) PROVE IInv'
<1>1. PICK chunks : chunks = IF q.type = "BACKFILL" THEN Chunked(q.start, q.end)
                             ELSE RepairChunks(q.d, q.start, q.end)
  OBVIOUS
<1>2. PICK n : n = Len(jobs) + 1
  OBVIOUS
<1>3. PICK job : job = NewJob(q.d, q.type, q.start, q.end, chunks)
  OBVIOUS
<1> DEFINE place == [Idle EXCEPT !.pc = "lock", !.job = n]
<1>4. /\ at[a] = Idle /\ chunks # <<>> /\ jobs' = Append(Recovered, job)
      /\ at' = [at EXCEPT ![a] = place] /\ now' = now /\ hole' = hole /\ stored' = stored
      /\ dlock' = dlock /\ rlock' = rlock /\ receipts' = receipts /\ cycle' = cycle
  <2>1. /\ at[a] = Idle /\ now' = now /\ hole' = hole /\ stored' = stored
        /\ dlock' = dlock /\ rlock' = rlock /\ receipts' = receipts /\ cycle' = cycle
    BY DEF Manual
  <2>2. chunks # <<>>
    <3>1. MayPlan(q.d, chunks, q.end, now)
      BY <1>1 DEF Manual
    <3> QED BY <3>1 DEF MayPlan
  <2>3. jobs' = Append(Recovered, job)
    BY <1>1, <1>3 DEF Manual
  <2>4. at' = [at EXCEPT ![a] = place]
    BY <1>2 DEF Manual, Go
  <2> QED BY <2>1, <2>2, <2>3, <2>4
<1>5. TypeOK /\ JobsOK /\ ActorsOK /\ ReportsOK /\ GapsOK
  BY DEF IInv
<1>6. /\ q.d \in Datasets /\ q.type \in {"BACKFILL", "GAP_REPAIR"}
      /\ q.start \in Int /\ q.end \in Int
  BY RequestsAssumption DEF Datasets
<1>7. chunks \in Seq(Spans)
  BY <1>1, <1>5, <1>6, ChunkedIs, RepairChunksAre
<1>8. /\ job \in AllJobs /\ job.type = q.type /\ job.chunks = chunks /\ job.next = 1
      /\ job.status = "PLANNED"
  BY <1>3, <1>6, <1>7 DEF NewJob, AllJobs, JobTypes, JobStatuses
<1>9. /\ jobs' \in Seq(AllJobs) /\ DOMAIN jobs' = DOMAIN jobs \cup {n}
      /\ n \in Nat \ {0} /\ n \notin DOMAIN jobs /\ jobs'[n] = job
      /\ \A i \in DOMAIN jobs : jobs'[i] = Recovered[i]
  <2>1. Recovered \in Seq(AllJobs) /\ Len(Recovered) = Len(jobs)
    BY <1>5, RecoveredIs
  <2> QED BY <1>2, <1>4, <1>5, <1>8, <2>1, AppendedIs
<1>10. \A j \in DOMAIN jobs :
         /\ jobs'[j].d = jobs[j].d /\ jobs'[j].type = jobs[j].type
         /\ jobs'[j].start = jobs[j].start /\ jobs'[j].end = jobs[j].end
         /\ jobs'[j].chunks = jobs[j].chunks /\ jobs'[j].next = jobs[j].next
         /\ jobs'[j].status = "COMPLETED" <=> jobs[j].status = "COMPLETED"
         /\ dlock[jobs[j].d] # None => jobs'[j].status = jobs[j].status
  BY <1>5, <1>9, RecoveredIs
<1>11. place \in Places /\ place.pc = "lock" /\ place.job = n /\ place.cycle = 0
  <2>1. place \in Places
    <3>1. "lock" \in Points /\ n \in Nat
      BY <1>9 DEF Points
    <3> QED BY <3>1, IdleTypeOK DEF Places
  <2> QED BY <2>1 DEF Idle
<1> HIDE DEF place
<1>12. /\ at'[a] = place /\ at' \in [Actors -> Places]
       /\ \A b \in Actors : b # a => at'[b] = at[b]
  BY <1>4, <1>5, <1>11 DEF TypeOK
<1>13. TypeOK'
  BY <1>4, <1>5, <1>9, <1>12 DEF TypeOK
<1>14. Keeps
  BY <1>4, <1>5, <1>9, <1>10 DEF Keeps, TypeOK
<1>15. JobsOK'
  <2>1. ASSUME NEW i \in DOMAIN jobs PROVE JobOK(i)'
    BY <1>5, <1>10, <1>13, <1>14, <2>1, JobKeeps DEF JobsOK
  <2>2. JobOK(n)'
    <3>1. Len(chunks) \in Nat /\ Len(chunks) # 0
      BY <1>4, <1>7
    <3>2. (/\ jobs[n].next <= Len(jobs[n].chunks) + 1
           /\ jobs[n].status = "COMPLETED" <=> jobs[n].next = Len(jobs[n].chunks) + 1)'
      BY <1>8, <1>9, <3>1
    <3>3. jobs'[n].type # "INCREMENTAL" /\ jobs'[n].status # "COMPLETED"
      BY <1>6, <1>8, <1>9
    <3> QED BY <3>2, <3>3 DEF JobOK
  <2> QED BY <1>9, <2>1, <2>2 DEF JobsOK
<1>16. \A j \in DOMAIN jobs' \ DOMAIN jobs : jobs'[j].type # "INCREMENTAL"
  BY <1>6, <1>8, <1>9
<1>17. ActorOK(a)'
  BY <1>9, <1>11, <1>12 DEF ActorOK, Executing, Working
<1>18. ASSUME NEW b \in Actors, b # a PROVE ActorOK(b)'
  <2>1. /\ ActorOK(b) /\ at'[b] = at[b]
        /\ Working(b) => at[b].job \in DOMAIN jobs /\ dlock[jobs[at[b].job].d] = b
    BY <1>5, <1>12, <1>18 DEF ActorsOK, ActorOK, JobOf, Working, Executing
  <2>2. Working(b) => /\ jobs'[at[b].job].status = jobs[at[b].job].status
                      /\ jobs'[at[b].job].next = jobs[at[b].job].next
                      /\ dlock'[jobs[at[b].job].d] = b
    BY <1>4, <1>10, <2>1, ActorsAssumption
  <2> QED BY <1>4, <1>5, <1>13, <1>14, <1>16, <2>1, <2>2, ActorKeeps
<1>19. ReportsOK'
  BY <1>4, <1>5, <1>14, ReportsKeep
<1>20. GapsOK'
  BY <1>4, <1>5, <1>14, <1>16, GapsKeep
<1> QED BY <1>13, <1>15, <1>17, <1>18, <1>19, <1>20 DEF IInv, ActorsOK

-----------------------------------------------------------------------------
(* Theorems *)

LEMMA NextKeeps == ASSUME IInv, [Next]_vars PROVE IInv'
<1>1. CASE Tick
  BY <1>1, TickKeeps
<1>2. ASSUME NEW a \in Actors, StartRunner(a) PROVE IInv'
  BY <1>2, StartRunnerKeeps
<1>3. ASSUME NEW a \in Actors, PlanTarget(a) PROVE IInv'
  BY <1>3, PlanTargetKeeps
<1>4. ASSUME NEW a \in Actors, NEW q \in Requests, Manual(a, q) PROVE IInv'
  BY <1>4, ManualKeeps
<1>5. ASSUME NEW a \in Actors, NEW j \in DOMAIN jobs, Resume(a, j) PROVE IInv'
  BY <1>5, ResumeKeeps
<1>6. ASSUME NEW a \in Actors, Barred(a) PROVE IInv'
  BY <1>6, BarredKeeps
<1>7. ASSUME NEW a \in Actors, BeginJob(a) PROVE IInv'
  BY <1>7, BeginJobKeeps
<1>8. ASSUME NEW a \in Actors, NEW late \in 0..1, Ingest(a, late) PROVE IInv'
  BY <1>8, IngestKeeps
<1>9. ASSUME NEW a \in Actors, Checkpoint(a) PROVE IInv'
  BY <1>9, CheckpointKeeps
<1>10. ASSUME NEW a \in Actors, StepFails(a) PROVE IInv'
  BY <1>10, StepFailsKeeps
<1>11. ASSUME NEW a \in Actors, NEW written \in BOOLEAN, NEW fails \in BOOLEAN,
              Publish(a, written, fails)
       PROVE  IInv'
  BY <1>11, PublishKeeps
<1>12. ASSUME NEW a \in Actors, Kill(a) PROVE IInv'
  BY <1>12, KillKeeps
<1>13. CASE UNCHANGED vars
  <2>1. /\ now' = now /\ hole' = hole /\ stored' = stored /\ dlock' = dlock /\ rlock' = rlock
        /\ jobs' = jobs /\ receipts' = receipts /\ cycle' = cycle /\ at' = at
    BY <1>13 DEF vars
  <2>2. TypeOK /\ JobsOK /\ ActorsOK /\ ReportsOK /\ GapsOK
    BY DEF IInv
  <2>3. TypeOK'
    BY <2>1, <2>2 DEF TypeOK
  <2>4. Keeps
    BY <2>1, <2>2 DEF Keeps, TypeOK
  <2>5. JobsOK'
    <3>1. ASSUME NEW j \in DOMAIN jobs PROVE JobOK(j)'
      BY <2>1, <2>2, <2>3, <2>4, <3>1, JobKeeps DEF JobsOK
    <3> QED BY <2>1, <3>1 DEF JobsOK
  <2>6. ASSUME NEW b \in Actors PROVE ActorOK(b)'
    <3>1. ActorOK(b) /\ (Working(b) => dlock[jobs[at[b].job].d] = b)
      BY <2>2 DEF ActorsOK, ActorOK, JobOf
    <3> QED BY <2>1, <2>2, <2>3, <2>4, <3>1, ActorKeeps
  <2>7. ReportsOK' /\ GapsOK'
    BY <2>1, <2>2, <2>4, ReportsKeep, GapsKeep
  <2> QED BY <2>3, <2>5, <2>6, <2>7 DEF IInv, ActorsOK
<1> QED BY <1>1, <1>2, <1>3, <1>4, <1>5, <1>6, <1>7, <1>8, <1>9, <1>10, <1>11, <1>12, <1>13 DEF Next

LEMMA Invariance == Spec => []IInv
<1>1. Init => IInv
  BY InitOK
<1>2. IInv /\ [Next]_vars => IInv'
  BY NextKeeps
<1> QED BY <1>1, <1>2, PTL DEF Spec

\* Whatever chunks failed, were killed, late or resumed, and whatever the collectors and
\* the operators that ran them were doing meanwhile, a gap of a dataset that only
\* collectors planned is a hole of the exchange, or lies between two plans made while
\* the dataset was empty (incremental, planning.py).
THEOREM NoGapsUnexplained == Spec => []GapsAreExplained
<1>1. IInv => GapsAreExplained
  BY DEF IInv, GapsOK, GapOK, Collected, Explained, GapsAreExplained
<1> QED BY <1>1, Invariance, PTL

\* A cycle's NOOP and UPDATED results hold from then on, and so does the claim of a
\* completed repair (_collect_target, _verify_repair).
THEOREM OutcomesAlwaysHold == Spec => []OutcomesHold
<1>1. IInv => OutcomesHold
  <2> SUFFICES ASSUME IInv PROVE OutcomesHold
    OBVIOUS
  <2>1. ReportsHold
    BY DEF IInv, ReportsOK, Holds, ReportsHold
  <2>2. RepairedIsWhole
    BY DEF IInv, JobsOK, JobOK, RepairedIsWhole
  <2> QED BY <2>1, <2>2 DEF OutcomesHold
<1> QED BY <1>1, Invariance, PTL

\* The state of a finished cycle is one that its own validation, and the store's,
\* accept, whatever became of its targets (ContinuousCollectorState, write).
THEOREM CyclesAlwaysAccepted == Spec => []CyclesAreAccepted
<1>1. IInv => CyclesAreAccepted
  <2> SUFFICES ASSUME IInv, NEW a \in Actors, at[a].pc = "target",
                      Len(at[a].results) = Len(Targets)
               PROVE  Accepted(CycleOf(a))
    BY DEF CyclesAreAccepted
  <2>1. TypeOK /\ RunnerOK(a)
    BY DEF IInv, ActorsOK, ActorOK
  <2>2. PICK c : c = CycleOf(a)
    OBVIOUS
  <2>3. /\ c.index = at[a].cycle /\ c.status = Aggregate(at[a].results) /\ c.begun = at[a].begun
        /\ c.ended = now /\ c.results = at[a].results
    BY <2>2 DEF CycleOf
  <2>4. at[a].begun \in Nat /\ at[a].started \in Nat /\ now \in Nat
        /\ at[a].results \in Seq(AllResults)
    BY <2>1, ActorTypeOK
  <2>5. c.index = cycle.index + 1 /\ c.begun <= c.ended
    BY <2>1, <2>3, <2>4 DEF RunnerOK
  <2>6. c.results # <<>>
    BY <2>3, <2>4, DatasetsAre
  <2>7. ASSUME NEW i \in DOMAIN c.results
        PROVE  /\ ValidResult(c.results[i])
               /\ c.begun <= c.results[i].started /\ c.results[i].finished <= c.ended
               /\ i > 1 => c.results[i - 1].d < c.results[i].d
    <3>1. /\ ValidResult(c.results[i]) /\ c.results[i].d = i
          /\ c.begun <= c.results[i].started /\ c.results[i].finished <= c.ended
      BY <2>1, <2>3, <2>7 DEF RunnerOK
    <3>2. i \in Nat /\ (i > 1 => i - 1 \in DOMAIN c.results)
      BY <2>3, <2>4, <2>7
    <3>3. i > 1 => c.results[i - 1].d = i - 1
      BY <2>1, <2>3, <3>2 DEF RunnerOK
    <3> QED BY <3>1, <3>2, <3>3
  <2>8. ValidState(c)
    BY <2>3, <2>5, <2>6, <2>7 DEF ValidState
  <2> QED BY <2>2, <2>5, <2>8 DEF Accepted
<1> QED BY <1>1, Invariance, PTL

=============================================================================
