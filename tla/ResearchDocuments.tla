--------------------------- MODULE ResearchDocuments ---------------------------
(***************************************************************************)
(* The documents of an execution as they are written and as they are read.  *)
(* A writer derives indexes, counts and states from what happened; a reader *)
(* builds the same objects from the file, and their constructors check      *)
(* every relation again before the document may be used.                    *)
(***************************************************************************)
EXTENDS ResearchPlanning, StabilityRules

Successful(r) == r \in {"COMPLETED", "REUSED"}
CountOf(items, Test(_)) == Cardinality({i \in DOMAIN items : Test(items[i])})
Aggregate(failed, total) ==
    IF failed = 0 THEN "COMPLETED" ELSE IF failed = total THEN "FAILED" ELSE "PARTIALLY_FAILED"

-----------------------------------------------------------------------------
(* Plans. A run is stored by the positions of its combination and segment.  *)
(* What the folds of a plan share is read from the first of them.           *)

StoredSegment(s) == [role |-> s.role, index |-> s.index, evaluation |-> s.range,
                     context |-> ContextOf(s), warmup |-> s.warmup]
ReadSegment(d) == [role |-> d.role, index |-> d.index, range |-> d.evaluation,
                   contextStart |-> d.context.start, warmup |-> d.warmup]
StoredTemporal(p) == [p EXCEPT !.segments = [i \in DOMAIN @ |-> StoredSegment(@[i])]]
ReadTemporal(d) == [d EXCEPT !.segments = [i \in DOMAIN @ |-> ReadSegment(@[i])]]
ContextsEnd(d) == \A s \in Range(d.segments) : s.context.end = s.evaluation.end

StoredSpec(x) == [global |-> x.global, combination |-> x.combination.index,
                  segment |-> x.segment.index, purpose |-> x.purpose, eligible |-> x.eligible]
ReadSpec(d, combinations, temporal) ==
    LET c == combinations[d.combination + 1]  s == temporal.segments[d.segment + 1]
    IN  [global |-> d.global, combination |-> c, segment |-> s, purpose |-> d.purpose,
         eligible |-> d.eligible, run |-> RunConfig(s, c.parameters)]
StoredExperiment(p) == [p EXCEPT !.temporal = StoredTemporal(@),
                                 !.specs = [g \in DOMAIN @ |-> StoredSpec(@[g])]]
ReadExperiment(d) ==
    LET temporal == ReadTemporal(d.temporal)
    IN  [d EXCEPT !.temporal = temporal,
                  !.specs = [g \in DOMAIN @ |-> ReadSpec(@[g], d.combinations, temporal)]]

StoredFold(f) == [index |-> f.index, temporal |-> StoredTemporal(f.temporal),
                  experiment |-> StoredExperiment(f.experiment)]
ReadFold(d) == [index |-> d.index, temporal |-> ReadTemporal(d.temporal),
                experiment |-> ReadExperiment(d.experiment)]
StoredPlan(p) == [p EXCEPT !.folds = [k \in DOMAIN @ |-> StoredFold(@[k])]]
ReadPlan(d) ==
    LET folds == [k \in DOMAIN d.folds |-> ReadFold(d.folds[k])]
        first == folds[1].experiment
    IN  [d EXCEPT !.folds = folds, !.snapshot = first.temporal.snapshot,
                  !.space = first.space, !.settings = first.settings]
PlanIsReadable(p) ==
    /\ \A f \in Range(StoredPlan(p).folds) : ContextsEnd(f.temporal)
    /\ ReadPlan(StoredPlan(p)) = p
    /\ ValidWalkForwardPlan(p) /\ SpaceIsCanonical(p.space)

-----------------------------------------------------------------------------
(* The execution of an experiment *)

RunRecord(x, status) ==
    [global |-> x.global, combination |-> x.combination.index, segment |-> x.segment.index,
     purpose |-> x.purpose, status |-> IF Successful(status) THEN status ELSE "FAILED",
     run |-> IF Successful(status) THEN x.run ELSE None,
     error |-> IF Successful(status) THEN None ELSE status,
     verified |-> Successful(status), reused |-> status = "REUSED"]
\* A plausible bug: a reused run is counted as completed as well.
ExperimentManifest_Mut(plan, records) ==
    LET failed == CountOf(records, LAMBDA r : ~Successful(r))
    IN  [records |-> [g \in DOMAIN records |-> RunRecord(plan.specs[g], records[g])],
         total |-> Len(records), failed |-> failed,
         completed |-> CountOf(records, LAMBDA r : Successful(r)),
         reused |-> CountOf(records, LAMBDA r : r = "REUSED"),
         status |-> Aggregate(failed, Len(records))]
ExperimentManifest(plan, records) ==
    LET failed == CountOf(records, LAMBDA r : ~Successful(r))
    IN  [records |-> [g \in DOMAIN records |-> RunRecord(plan.specs[g], records[g])],
         total |-> Len(records), failed |-> failed,
         completed |-> CountOf(records, LAMBDA r : r = "COMPLETED"),
         reused |-> CountOf(records, LAMBDA r : r = "REUSED"),
         status |-> Aggregate(failed, Len(records))]

ValidRecord(r) ==
    /\ r.segment \in 0..2 /\ r.global = 3 * r.combination + r.segment
    /\ r.purpose = Purpose[Roles[r.segment + 1]]
    /\ IF Successful(r.status)
       THEN r.run # None /\ r.error = None /\ r.verified /\ r.reused = (r.status = "REUSED")
       ELSE /\ r.status = "FAILED"
            /\ r.run = None /\ r.error # None /\ ~r.reused /\ ~r.verified
ValidRecords(rs) ==
    /\ rs # <<>> /\ Len(rs) % 3 = 0
    /\ \A g \in DOMAIN rs : /\ ValidRecord(rs[g]) /\ rs[g].global = g - 1
                            /\ rs[g].combination = (g - 1) \div 3
ValidExperimentManifest(m) ==
    /\ ValidRecords(m.records) /\ m.total = Len(m.records)
    /\ m.completed = CountOf(m.records, LAMBDA r : r.status = "COMPLETED")
    /\ m.reused = CountOf(m.records, LAMBDA r : r.status = "REUSED")
    /\ m.failed = CountOf(m.records, LAMBDA r : r.status = "FAILED")
    /\ m.completed + m.reused + m.failed = m.total /\ m.status = Aggregate(m.failed, m.total)
ManifestFitsPlan(m, plan) ==
    /\ ValidExperimentManifest(m) /\ ValidExperimentPlan(plan)
    /\ m.total = plan.cardinality /\ Len(m.records) = Len(plan.specs)
    /\ \A g \in DOMAIN m.records :
         LET r == m.records[g]  x == plan.specs[g]
         IN  /\ r.global = x.global /\ r.purpose = x.purpose
             /\ r.combination = x.combination.index /\ r.segment = x.segment.index
             /\ Successful(r.status) => r.run = x.run

-----------------------------------------------------------------------------
(* The folds of a walk-forward execution *)

Eligible(evidence) == {c \in DOMAIN evidence : evidence[c].score # None}
Better(a, b, direction) == IF direction = "MAXIMIZE" THEN a > b ELSE a < b
Winner(evidence, direction) ==
    LET best == {c \in Eligible(evidence) : \A d \in Eligible(evidence) :
                   ~Better(evidence[d].score, evidence[c].score, direction)}
    IN  CHOOSE c \in best : \A d \in best : c <= d

FailedFold(status, failure, records, evidence) ==
    [status |-> status, failure |-> failure, records |-> records, evidence |-> evidence,
     winner |-> None, parameters |-> None, score |-> None, holdout |-> None]

\* An eligible candidate has both references; no candidate names its TEST run.
ValidCandidate(c) ==
    /\ {c.train, c.validation} \subseteq {"verified", "not_verified", "verification_failed"}
    /\ c.score # None => c.train = "verified" /\ c.validation = "verified"
ValidEvidence(e) ==
    /\ DOMAIN e = 0..(Cardinality(DOMAIN e) - 1) /\ DOMAIN e # {}
    /\ \A c \in DOMAIN e : ValidCandidate(e[c])
DecisionFits(f, direction) ==
    /\ Eligible(f.evidence) # {}
    /\ f.winner = Winner(f.evidence, direction) /\ f.score = f.evidence[f.winner].score
ValidFoldResult(f, direction) ==
    /\ f.evidence # None => ValidEvidence(f.evidence)
    /\ f.winner # None => f.evidence # None /\ DecisionFits(f, direction)
    /\ f.status # "FAILED_EXECUTION" => f.records # None
    /\ CASE f.status = "COMPLETED" -> f.winner # None /\ f.failure = None
         [] f.status = "FAILED_HOLDOUT" -> f.winner # None /\ f.failure # None /\ f.holdout = None
         [] f.status = "FAILED_NO_ELIGIBLE_CANDIDATE" ->
              /\ f.evidence # None /\ f.failure # None /\ f.winner = None /\ f.holdout = None
              /\ Eligible(f.evidence) = {}
         [] f.status = "FAILED_EXECUTION" ->
              /\ {f.records, f.evidence, f.winner, f.holdout} = {None} /\ f.failure # None

WalkForwardManifest(folds) ==
    LET completed == CountOf(folds, LAMBDA f : f.status = "COMPLETED")
    IN  [folds |-> folds, count |-> Len(folds), completed |-> completed,
         failed |-> Len(folds) - completed, status |-> Aggregate(Len(folds) - completed, Len(folds))]
ValidWalkForwardManifest(m, direction) ==
    /\ Len(m.folds) >= 2 /\ m.count = Len(m.folds)
    /\ \A k \in DOMAIN m.folds : ValidFoldResult(m.folds[k], direction)
    /\ m.completed = CountOf(m.folds, LAMBDA f : f.status = "COMPLETED")
    /\ m.failed = m.count - m.completed /\ m.status = Aggregate(m.failed, m.count)
=============================================================================
