--------------------------- MODULE ResearchPlanning ---------------------------
(***************************************************************************)
(* What a piece of research is before anything runs: a finite parameter     *)
(* search space, a three-way segmentation of a snapshot, the runs of an     *)
(* experiment and the folds of a walk-forward plan. Each contract has the   *)
(* operator that creates it, the conditions under which the creation is     *)
(* refused, and the validator that every later reader applies.              *)
(*                                                                         *)
(* Time is counted in candles of the snapshot. An identifier or a checksum  *)
(* is a digest of the content, so contracts are compared by content.        *)
(***************************************************************************)
EXTENDS Integers, Sequences, FiniteSets, SequencesExt

CONSTANTS
    Descriptor,     \* the strategy's parameters in canonical order: [name, default]
    Lifecycle,      \* the lifecycle version of its plugin
    RefusedByFactory,   \* the parameter tuples its factory refuses
    MostCombinations, MostSpecs, MostFolds, MostCandles     \* absolute limits

Rules == INSTANCE BacktestRules

Names == [i \in DOMAIN Descriptor |-> Descriptor[i].name]
Product(s) == FoldSeq(LAMBDA n, acc : n * acc, 1, s)

-----------------------------------------------------------------------------
(* Parameter search *)

\* canonical_scalar_key: numbers are ordered as text, "10" before "2".
\* For two digits: the text, padded with a character below every digit.
TextKey(n) == IF n < 10 THEN 11 * n ELSE 11 * (n \div 10) + 1 + (n % 10)

\* A mapping by name as the descriptor orders it.
InOrder(raw) == SelectSeq(Names, LAMBDA n : n \in DOMAIN raw)
Fixed(raw) == [i \in DOMAIN InOrder(raw) |->
                 [name |-> InOrder(raw)[i], value |-> raw[InOrder(raw)[i]]]]
Searched(raw) == [i \in DOMAIN InOrder(raw) |->
                    [name |-> InOrder(raw)[i],
                     values |-> SortSeq(raw[InOrder(raw)[i]],
                                        LAMBDA a, b : TextKey(a) < TextKey(b))]]

Counts(dims) == [i \in DOMAIN dims |-> Len(dims[i].values)]
Space(raw) == [fixed |-> Fixed(raw.fixed), search |-> Searched(raw.search),
               cardinality |-> Product(Counts(Searched(raw.search))), limit |-> raw.limit]

\* itertools.product: the last dimension turns fastest.
Digit(dims, d, i) ==
    dims[d].values[1 + ((i \div Product(SubSeq(Counts(dims), d + 1, Len(dims)))) % Len(dims[d].values))]
ValueOf(space, i, name) ==
    IF \E d \in DOMAIN space.search : space.search[d].name = name
    THEN Digit(space.search, CHOOSE d \in DOMAIN space.search : space.search[d].name = name, i)
    ELSE (CHOOSE f \in Range(space.fixed) : f.name = name).value
Given(space) == {f.name : f \in Range(space.fixed) \cup Range(space.search)}
Combination(space, i) ==
    [index |-> i,
     parameters |-> [k \in DOMAIN Descriptor |->
                       IF Names[k] \in Given(space) THEN ValueOf(space, i, Names[k])
                       ELSE Descriptor[k].default]]
Expansion(space) == [i \in 1..space.cardinality |-> Combination(space, i - 1)]

\* One refused combination refuses the whole space.
FactoryAccepts(space) ==
    \A i \in 0..(space.cardinality - 1) : Combination(space, i).parameters \notin RefusedByFactory

WithinLimit(dims, limit) == limit \in 1..MostCombinations /\ Product(Counts(dims)) <= limit

MayCreateSpace(raw) ==
    /\ DOMAIN raw.search # {}
    /\ DOMAIN raw.search \cup DOMAIN raw.fixed \subseteq Range(Names)
    /\ DOMAIN raw.search \cap DOMAIN raw.fixed = {}
    /\ \A n \in DOMAIN raw.search : raw.search[n] # <<>> /\ IsInjective(raw.search[n])
    /\ WithinLimit(Searched(raw.search), raw.limit)
    /\ FactoryAccepts(Space(raw))

ValidDimension(d) ==
    /\ d.values # <<>>
    /\ \A i, j \in DOMAIN d.values : i < j => TextKey(d.values[i]) < TextKey(d.values[j])
CanonicalNames(items) ==
    \A i, j \in DOMAIN items : i < j =>
        \E k, l \in DOMAIN Names : k < l /\ Names[k] = items[i].name /\ Names[l] = items[j].name
ValidSpace(s) ==
    /\ s.search # <<>>
    /\ \A d \in Range(s.search) : ValidDimension(d)
    /\ CanonicalNames(s.fixed) /\ CanonicalNames(s.search)
    /\ {f.name : f \in Range(s.fixed)} \cap {f.name : f \in Range(s.search)} = {}
    /\ WithinLimit(s.search, s.limit) /\ s.cardinality = Product(Counts(s.search))
ValidCombination(c, s) == ValidSpace(s) /\ c.index \in 0..(s.cardinality - 1)
ValidExpansion(cs, s) == /\ Len(cs) = s.cardinality
                         /\ \A i \in DOMAIN cs : ValidCombination(cs[i], s) /\ cs[i].index = i - 1

\* from_document: created anew from what was read, a space must come out equal.
RawOf(s) ==
    LET by(items, value(_)) == [n \in {f.name : f \in Range(items)} |->
                                  value(CHOOSE f \in Range(items) : f.name = n)]
    IN  [fixed |-> by(s.fixed, LAMBDA f : f.value),
         search |-> by(s.search, LAMBDA f : f.values), limit |-> s.limit]
SpaceIsCanonical(s) == MayCreateSpace(RawOf(s)) /\ Space(RawOf(s)) = s

-----------------------------------------------------------------------------
(* Temporal segmentation *)

Roles == <<"TRAIN", "VALIDATION", "TEST">>
CandlesOf(range) == range.end - range.start
ValidCoverage(range) == CandlesOf(range) \in 1..MostCandles

\* Slot counts stand for candles only if the dataset has no gap.
MayReference(snapshot) == snapshot.strict /\ snapshot.complete /\ ValidCoverage(snapshot.range)
CountsOf(w) == <<w.train, w.validation, w.test>>
ValidCounts(w) == /\ \A n \in Range(CountsOf(w)) : n \in 1..MostCandles
                  /\ w.warmup \in 0..MostCandles

Segment(from, w, i) ==
    LET start == from + FoldSeq(+, 0, SubSeq(CountsOf(w), 1, i - 1))
    IN  [role |-> Roles[i], index |-> i - 1, warmup |-> w.warmup,
         range |-> [start |-> start, end |-> start + CountsOf(w)[i]],
         contextStart |-> start - w.warmup]
ContextOf(s) == [start |-> s.contextStart, end |-> s.range.end]
TemporalPlan(snapshot, selected, w) ==
    [snapshot |-> snapshot, selected |-> selected, window |-> w,
     segments |-> [i \in 1..3 |-> Segment(selected.start, w, i)]]

Inside(a, b) == b.start <= a.start /\ a.end <= b.end
MaySegment(snapshot, selected, w) ==
    /\ MayReference(snapshot) /\ ValidCoverage(selected) /\ ValidCounts(w)
    /\ Inside(selected, snapshot.range)
    /\ FoldSeq(+, 0, CountsOf(w)) = CandlesOf(selected)
    /\ selected.start - w.warmup >= snapshot.range.start

ValidSegment(s) == /\ s.index \in 0..2 /\ s.role = Roles[s.index + 1]
                   /\ ValidCoverage(s.range) /\ s.warmup >= 0
                   /\ s.contextStart = s.range.start - s.warmup
ValidTemporalPlan(p) ==
    /\ ValidCoverage(p.selected) /\ ValidCounts(p.window) /\ p.snapshot.strict
    /\ Inside(p.selected, p.snapshot.range)
    /\ Len(p.segments) = 3
    /\ \A i \in 1..3 :
         LET s == p.segments[i]
         IN  /\ ValidSegment(s) /\ s.index = i - 1 /\ s.warmup = p.window.warmup
             /\ CandlesOf(s.range) = CountsOf(p.window)[i]
             /\ s.range.start = IF i = 1 THEN p.selected.start ELSE p.segments[i - 1].range.end
             /\ s.contextStart >= p.snapshot.range.start
    /\ p.segments[3].range.end = p.selected.end

-----------------------------------------------------------------------------
(* Experiment: every combination in every segment *)

Purpose == [TRAIN |-> "TRAINING", VALIDATION |-> "MODEL_SELECTION", TEST |-> "FINAL_HOLDOUT"]

ValidSettings(c) == /\ Rules!ValidConfig(c)
                    /\ c.history \in 1..c.maxCandles /\ c.maxOrders <= c.maxTotal
ConfigFits(c, s) == /\ s.warmup > 0 => Lifecycle = 2
                    /\ CandlesOf(ContextOf(s)) <= c.maxCandles /\ s.warmup <= c.history
\* for_segment: the run's identity does not name its purpose.
RunConfig(s, parameters) == [context |-> ContextOf(s), evaluation |-> s.range,
                             parameters |-> parameters]

RunSpec(temporal, combinations, g) ==
    LET c == combinations[1 + (g \div 3)]  s == temporal.segments[1 + (g % 3)]
    IN  [global |-> g, combination |-> c, segment |-> s, purpose |-> Purpose[s.role],
         eligible |-> Purpose[s.role] = "MODEL_SELECTION",
         run |-> RunConfig(s, c.parameters)]
ExperimentPlan(temporal, space, settings, limit) ==
    [temporal |-> temporal, space |-> space, settings |-> settings, limit |-> limit,
     combinations |-> Expansion(space), cardinality |-> 3 * space.cardinality,
     specs |-> [g \in 1..(3 * space.cardinality) |->
                  RunSpec(temporal, Expansion(space), g - 1)]]

SpecsFit(n, limit) == limit \in 1..MostSpecs /\ n \in 1..MostCombinations /\ n <= limit \div 3
MayPlanExperiment(temporal, space, settings, limit) ==
    /\ ValidTemporalPlan(temporal) /\ ValidSpace(space) /\ ValidSettings(settings)
    /\ temporal.window.warmup > 0 => Lifecycle = 2
    /\ SpecsFit(space.cardinality, limit)
    /\ FactoryAccepts(space)
    /\ \A i \in 1..3 : ConfigFits(settings, temporal.segments[i])

ValidRunSpec(x) ==
    /\ x.global >= 0 /\ ValidSegment(x.segment)
    /\ x.purpose = Purpose[x.segment.role]
    /\ x.eligible = (x.segment.role = "VALIDATION")
    /\ x.run = RunConfig(x.segment, x.combination.parameters)
ValidExperimentPlan(p) ==
    /\ ValidTemporalPlan(p.temporal) /\ ValidSpace(p.space) /\ ValidSettings(p.settings)
    /\ SpecsFit(p.space.cardinality, p.limit)
    /\ p.cardinality = 3 * p.space.cardinality /\ Len(p.specs) = p.cardinality
    /\ ValidExpansion(p.combinations, p.space)
    /\ \A g \in DOMAIN p.specs :
         LET x == p.specs[g]
         IN  /\ ValidRunSpec(x) /\ x.global = g - 1
             /\ x.combination = p.combinations[1 + (x.global \div 3)]
             /\ x.segment = p.temporal.segments[1 + (x.global % 3)]
             /\ ConfigFits(p.settings, x.segment)

-----------------------------------------------------------------------------
(* Walk-forward: the window rolls by the length of its TEST segment *)

WindowCandles(w) == w.train + w.validation + w.test
\* A plausible bug: the window the candles end with is not counted.
FoldCount_Mut(snapshot, w) == (CandlesOf(snapshot.range) - w.warmup - WindowCandles(w)) \div w.test
FoldCount(snapshot, w) ==
    LET usable == CandlesOf(snapshot.range) - w.warmup
    IN  IF usable < WindowCandles(w) THEN 0 ELSE 1 + (usable - WindowCandles(w)) \div w.test
Trailing(snapshot, w) ==
    CandlesOf(snapshot.range) - w.warmup
      - (WindowCandles(w) + (FoldCount(snapshot, w) - 1) * w.test)
FoldRange(snapshot, w, k) ==
    LET start == snapshot.range.start + w.warmup + k * w.test
    IN  [start |-> start, end |-> start + WindowCandles(w)]

ValidWindow(w) == ValidCounts(w) /\ w.maxFolds \in 2..MostFolds

FoldPlan(q, k) ==
    LET temporal == TemporalPlan(q.snapshot, FoldRange(q.snapshot, q.window, k), q.window)
    IN  [index |-> k, temporal |-> temporal,
         experiment |-> ExperimentPlan(temporal, Space(q.space), q.settings,
                                       3 * Space(q.space).cardinality)]
WalkForwardPlan(q) ==
    [snapshot |-> q.snapshot, window |-> q.window, direction |-> q.direction,
     space |-> Space(q.space), settings |-> q.settings, limit |-> q.limit,
     foldCount |-> FoldCount(q.snapshot, q.window), trailing |-> Trailing(q.snapshot, q.window),
     folds |-> [k \in 1..FoldCount(q.snapshot, q.window) |-> FoldPlan(q, k - 1)]]

MayPlan(q) ==
    /\ ValidWindow(q.window) /\ MayCreateSpace(q.space) /\ q.limit \in 1..MostSpecs
    /\ FoldCount(q.snapshot, q.window) \in 2..q.window.maxFolds
    /\ FoldCount(q.snapshot, q.window) * 3 * Space(q.space).cardinality <= q.limit
    /\ \A k \in 0..(FoldCount(q.snapshot, q.window) - 1) :
         LET range == FoldRange(q.snapshot, q.window, k)
         IN  /\ MaySegment(q.snapshot, range, q.window)
             /\ MayPlanExperiment(TemporalPlan(q.snapshot, range, q.window), Space(q.space),
                                  q.settings, 3 * Space(q.space).cardinality)

ValidFoldPlan(f) == ValidTemporalPlan(f.temporal) /\ ValidExperimentPlan(f.experiment)
                    /\ f.experiment.temporal = f.temporal
ValidWalkForwardPlan(p) ==
    /\ ValidWindow(p.window) /\ ValidSpace(p.space) /\ ValidSettings(p.settings)
    /\ Len(p.folds) \in 2..p.window.maxFolds
    /\ p.foldCount = FoldCount(p.snapshot, p.window) /\ Len(p.folds) = p.foldCount
    /\ p.trailing = Trailing(p.snapshot, p.window) /\ p.trailing >= 0
    /\ \A k \in DOMAIN p.folds :
         LET f == p.folds[k]
         IN  /\ ValidFoldPlan(f) /\ f.index = k - 1
             /\ f.experiment.space = p.space /\ f.experiment.settings = p.settings
             /\ f.temporal.window = p.window
             /\ f.temporal.selected = FoldRange(p.snapshot, p.window, k - 1)
             /\ k > 1 => f.temporal.segments[3].range.start
                           = p.folds[k - 1].temporal.segments[3].range.end
    /\ p.folds[Len(p.folds)].temporal.selected.end + p.trailing = p.snapshot.range.end
    /\ Len(p.folds) * 3 * p.space.cardinality <= p.limit
=============================================================================
