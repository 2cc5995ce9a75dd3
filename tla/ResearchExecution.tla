-------------------------- MODULE ResearchExecution --------------------------
(***************************************************************************)
(* Executing a walk-forward plan and reporting on it. Two callers share one *)
(* directory: artifacts of backtests that any plan may reuse, and three     *)
(* kinds of immutable documents (the execution of an experiment, of a       *)
(* walk-forward plan, and a stability report), each published by staging,   *)
(* renaming and reading back under a lock.                                  *)
(*                                                                         *)
(* A document's identity is a digest of its content: a target that exists   *)
(* was written for the same document, unless it is spoiled on disk.         *)
(***************************************************************************)
EXTENDS ResearchDocuments

CONSTANTS
    Callers,
    Requests,       \* planning requests by name
    Policies,       \* stability policies
    Broken,         \* the outcome of a run whose strategy or engine fails
    Outcomes,       \* what a run may score, None without the metric
    Usual,          \* the score of every run but a few
    Budgets         \* bounds: the plans executed, how many runs are unusual,
                    \* executions, analyses, kills, faults and damages, and
                    \* whether callers overlap

\* 1000 in both (walk_forward_domain.py, stability_domain.py).
ASSUME FoldsAssumption == MostFolds \in Nat /\ MostStabilityFolds \in Nat
                          /\ MostFolds <= MostStabilityFolds
ASSUME OutcomesAssumption == Outcomes \subseteq Int \cup {None, Broken} /\ Usual \in Int
ASSUME BudgetsAssumption ==
    Budgets \subseteq [overlap : BOOLEAN, plans : SUBSET DOMAIN Requests,
                      executions : Nat, odd : Nat, kills : Nat, faults : Nat,
                      damage : Nat, analyses : Nat]
\* What a run came to, what a selection found of it and why a fold may fail.
RunStatuses == {"COMPLETED", "REUSED", "verification", "engine"}
Findings == {"verified", "not_verified", "verification_failed"}
Reasons == {"verification", "publication", "no_candidate", "record"}
Candidate == [train : Findings, validation : Findings, score : Int \cup {None}]
\* A field that is None has no value.
ASSUME NoneAssumption ==
    /\ None \notin Int /\ None \notin BOOLEAN /\ None \notin RunStatuses \cup Reasons
    /\ MostCombinations \in Nat
    /\ \A n \in 1..MostCombinations : None \notin [1..(3 * n) -> RunStatuses]
                                     /\ None \notin [0..(n - 1) -> Candidate]
    /\ \A q \in DOMAIN Requests : MayPlan(Requests[q]) =>
         \A p \in {WalkForwardPlan(Requests[q])} : \A k \in DOMAIN p.folds :
           \A x \in Range(p.folds[k].experiment.specs) :
             None \notin {x.run, x.combination.parameters}

VARIABLES
    plans,      \* the plans to be executed, by their requests; they never change
    scores,     \* run -> its outcome, once it has run: the engine is deterministic
    artifacts,  \* the runs published as artifacts
    damaged,    \* those whose files do not match their checksums
    published,  \* the documents at their target paths
    spoiled,    \* those that cannot be read
    caller,     \* caller -> where it is and what it has gathered
    budget      \* how much of each bound is left

researchVars == <<plans, scores, artifacts, damaged, published, spoiled, caller, budget>>

PlanOf(q) == plans[q]
FoldOf(q, k) == PlanOf(q).folds[k]
Specs(q, k) == FoldOf(q, k).experiment.specs
SpecOf(q, k, c, role) == Specs(q, k)[3 * c + CHOOSE i \in 1..3 : Roles[i] = role]
Candidates(q) == 0..(PlanOf(q).space.cardinality - 1)

IdleCaller == [at |-> "idle", plan |-> None, records |-> <<>>, results |-> <<>>, doc |-> None]

-----------------------------------------------------------------------------
(* Records: what one planned run came to *)

RecordOf(records, c, role) == records[3 * c + CHOOSE i \in 1..3 : Roles[i] = role]
\* verify_published_execution_manifest
RecordsHold(q, k, records, ok) ==
    \A g \in DOMAIN records : Successful(records[g]) => Specs(q, k)[g].run \in ok

-----------------------------------------------------------------------------
(* Selection: TRAIN and VALIDATION only *)

Reference(q, k, records, c, role, ok) ==
    IF ~Successful(RecordOf(records, c, role)) THEN "not_verified"
    ELSE IF SpecOf(q, k, c, role).run \notin ok THEN "verification_failed"
    ELSE "verified"
Evidence(q, k, records, ok) ==
    [c \in Candidates(q) |->
       LET train == Reference(q, k, records, c, "TRAIN", ok)
           validation == Reference(q, k, records, c, "VALIDATION", ok)
       IN  [train |-> train, validation |-> validation,
            score |-> IF train = "verified" /\ validation = "verified"
                      THEN scores[SpecOf(q, k, c, "VALIDATION").run] ELSE None]]

\* The winner's own TEST run, or the reason there is none: no runner-up.
Holdout(q, k, records, c, ok) ==
    IF ~Successful(RecordOf(records, c, "TEST")) THEN "record"
    ELSE IF SpecOf(q, k, c, "TEST").run \notin ok THEN "verification" ELSE "held"

FoldResult(q, k, records, ok) ==
    LET e == Evidence(q, k, records, ok)
        w == Winner(e, PlanOf(q).direction)
        h == Holdout(q, k, records, w, ok)
    IN  IF Eligible(e) = {} THEN FailedFold("FAILED_NO_ELIGIBLE_CANDIDATE", "no_candidate", records, e)
        ELSE [status |-> IF h = "held" THEN "COMPLETED" ELSE "FAILED_HOLDOUT",
              failure |-> IF h = "held" THEN None ELSE h,
              records |-> records, evidence |-> e, winner |-> w,
              parameters |-> SpecOf(q, k, w, "TEST").combination.parameters,
              score |-> e[w].score,
              holdout |-> IF h = "held" THEN scores[SpecOf(q, k, w, "TEST").run] ELSE None]

\* validate_walk_forward_execution_manifest_against_plan: a fold that has no
\* execution is taken as it is, any other one must come out the same again.
Reproduced(q, results, ok) ==
    \A k \in DOMAIN results :
        results[k].status # "FAILED_EXECUTION" => results[k] = FoldResult(q, k, results[k].records, ok)

-----------------------------------------------------------------------------
(* Documents *)

ExperimentDoc(q, k, records) == [kind |-> "experiment", plan |-> q, fold |-> k, records |-> records]
WalkDoc(q, results) == [kind |-> "walk", plan |-> q, folds |-> results]
ReportDoc(d, policy) ==
    [kind |-> "report", plan |-> d.plan,
     report |-> Report(d, policy, Observations(d.folds, policy.direction))]

\* What the lock of a document is named by.
LockOf(d) == CASE d.kind = "experiment" -> <<d.kind, d.plan, d.fold>>
               [] d.kind = "walk" -> <<d.kind, d.plan>>
               [] d.kind = "report" -> <<d.kind, d.report.source>>
\* What the constructors of a document accept, given the plan it names.
Readable(d) ==
    CASE d.kind = "experiment" ->
           ManifestFitsPlan(ExperimentManifest(FoldOf(d.plan, d.fold).experiment, d.records),
                            FoldOf(d.plan, d.fold).experiment)
      [] d.kind = "walk" ->
           ValidWalkForwardManifest(WalkForwardManifest(d.folds), PlanOf(d.plan).direction)
      [] d.kind = "report" -> ValidReport(d.report)
Holders(key) == {c \in Callers : caller[c].at \in {"staging", "renamed"}
                                  /\ LockOf(caller[c].doc) = key}

\* A plausible bug: the folds are not selected again before publication.
Meaningful_Mut(d, ok) == TRUE
\* _validate_semantics; an experiment's document is only compared.
Meaningful(d, ok) ==
    CASE d.kind = "experiment" -> TRUE
      [] d.kind = "walk" -> Reproduced(d.plan, d.folds, ok)
      [] d.kind = "report" -> Reproduced(d.plan, d.report.source.folds, ok)

-----------------------------------------------------------------------------
(* Verification reads every file of a run. It may fail once in a while for  *)
(* reasons of its own: another process holds the run's lock too long.       *)

Misses == {{}} \cup IF budget.faults > 0 THEN {{r} : r \in artifacts} ELSE {}
Ok(miss) == artifacts \ (damaged \cup miss)
Spend(field, n) == budget' = [budget EXCEPT ![field] = @ - n]
Becomes(c, to) == caller' = [caller EXCEPT ![c] = to]

ResearchInit == /\ scores = <<>>
        /\ artifacts = {} /\ damaged = {} /\ published = {} /\ spoiled = {}
        /\ caller = [c \in Callers |-> IdleCaller]
        /\ budget \in Budgets
        /\ plans = [q \in budget.plans |-> WalkForwardPlan(Requests[q])]

MayStart(c, what) == /\ caller[c].at = "idle" /\ budget[what] > 0
                     /\ budget.overlap \/ \A d \in Callers : caller[d].at = "idle"

\* WalkForwardPlanningService.create
Plan(c, q) ==
    /\ MayStart(c, "executions")
    /\ MayPlan(Requests[q])
    /\ Becomes(c, [IdleCaller EXCEPT !.at = "planned", !.plan = q])
    /\ Spend("executions", 1)
    /\ UNCHANGED <<plans, scores, artifacts, damaged, published, spoiled>>

\* WalkForwardExecutionService.execute: the whole plan is validated first.
Begin(c) ==
    /\ caller[c].at = "planned" /\ caller[c].plan \in budget.plans
    /\ ValidWalkForwardPlan(PlanOf(caller[c].plan))
    /\ Becomes(c, [caller[c] EXCEPT !.at = "specs"])
    /\ UNCHANGED <<plans, scores, artifacts, damaged, published, spoiled, budget>>

NextRun(c) == Specs(caller[c].plan, Len(caller[c].results) + 1)[Len(caller[c].records) + 1].run
MoreSpecs(c) == /\ caller[c].at \in {"specs", "ran"}
                /\ Len(caller[c].records) < Len(Specs(caller[c].plan, Len(caller[c].results) + 1))
Recorded(c, r) == Becomes(c, [caller[c] EXCEPT !.at = "specs", !.records = Append(@, r)])

\* _execute_spec: an artifact that exists is verified and reused.
ReuseRun(c, miss) ==
    /\ caller[c].at = "specs" /\ MoreSpecs(c) /\ NextRun(c) \in artifacts
    /\ Recorded(c, IF NextRun(c) \in Ok(miss) THEN "REUSED" ELSE "verification")
    /\ Spend("faults", Cardinality(miss))
    /\ UNCHANGED <<plans, scores, artifacts, damaged, published, spoiled>>

OutcomesOf(r) ==
    IF r \in DOMAIN scores THEN {scores[r]}
    ELSE IF Cardinality({s \in DOMAIN scores : scores[s] # Usual}) < budget.odd THEN Outcomes
    ELSE {Usual}
Run(c) ==
    /\ caller[c].at = "specs" /\ MoreSpecs(c) /\ NextRun(c) \notin artifacts
    /\ \E x \in OutcomesOf(NextRun(c)) :
         /\ scores' = [r \in {NextRun(c)} \cup DOMAIN scores |-> IF r = NextRun(c) THEN x ELSE scores[r]]
         /\ IF x = Broken THEN Recorded(c, "engine")
            ELSE Becomes(c, [caller[c] EXCEPT !.at = "ran"])
    /\ UNCHANGED <<plans, artifacts, damaged, published, spoiled, budget>>

\* BacktestArtifactStore.publish, then the verification: another caller may
\* have published the same run meanwhile.
PublishRun(c, miss) ==
    /\ caller[c].at = "ran"
    /\ artifacts' = artifacts \cup {NextRun(c)}
    /\ Recorded(c, IF NextRun(c) \in damaged \cup miss THEN "verification" ELSE "COMPLETED")
    /\ Spend("faults", Cardinality(miss))
    /\ UNCHANGED <<plans, scores, damaged, published, spoiled>>

FoldDone(c, result) ==
    LET results == Append(caller[c].results, result)
    IN  Becomes(c, [caller[c] EXCEPT !.results = results, !.records = <<>>, !.doc = None,
                   !.at = IF Len(results) = PlanOf(caller[c].plan).foldCount THEN "folds" ELSE "specs"])

\* All specs have a record: every successful one is verified once more.
FinishExperiment(c, miss) ==
    LET q == caller[c].plan  k == Len(caller[c].results) + 1  records == caller[c].records
    IN  /\ caller[c].at = "specs" /\ ~MoreSpecs(c)
        /\ IF RecordsHold(q, k, records, Ok(miss))
           THEN Becomes(c, [caller[c] EXCEPT !.at = "publish", !.doc = ExperimentDoc(q, k, records)])
           ELSE FoldDone(c, FailedFold("FAILED_EXECUTION", "verification", None, None))
        /\ Spend("faults", Cardinality(miss))
        /\ UNCHANGED <<plans, scores, artifacts, damaged, published, spoiled>>

\* build_fold_selection_evidence, select and _resolve_holdout
Select(c, miss) ==
    /\ caller[c].at = "select"
    /\ FoldDone(c, FoldResult(caller[c].plan, Len(caller[c].results) + 1, caller[c].records, Ok(miss)))
    /\ Spend("faults", Cardinality(miss))
    /\ UNCHANGED <<plans, scores, artifacts, damaged, published, spoiled>>

\* _build_execution_manifest and the first semantic validation
BuildManifest(c, miss) ==
    LET d == WalkDoc(caller[c].plan, caller[c].results)
    IN  /\ caller[c].at = "folds"
        /\ Becomes(c, IF Meaningful(d, Ok(miss)) THEN [IdleCaller EXCEPT !.at = "publish", !.doc = d]
                      ELSE IdleCaller)
        /\ Spend("faults", Cardinality(miss))
        /\ UNCHANGED <<plans, scores, artifacts, damaged, published, spoiled>>

\* StabilityAnalysisService.analyze on a document read from its repository
MayAnalyze(d, policy, ok) ==
    /\ d.kind = "walk" /\ d \notin spoiled
    /\ ValidPolicy(policy)
    /\ PolicyFitsPlan(policy, PlanOf(d.plan).direction, PlanOf(d.plan).foldCount)
    /\ Reproduced(d.plan, d.folds, ok) /\ MayReport(d.folds)
Analyze(c, d, policy) ==
    /\ MayStart(c, "analyses")
    /\ MayAnalyze(d, policy, Ok({}))
    /\ Becomes(c, [IdleCaller EXCEPT !.at = "publish", !.doc = ReportDoc(d, policy)])
    /\ Spend("analyses", 1)
    /\ UNCHANGED <<plans, scores, artifacts, damaged, published, spoiled>>

-----------------------------------------------------------------------------
(* The three repositories' publish() *)

Done(c) == IF caller[c].doc.kind = "experiment"
           THEN Becomes(c, [caller[c] EXCEPT !.at = "select", !.doc = None])
           ELSE Becomes(c, IdleCaller)
\* An experiment that is not published fails its fold; any other error is raised.
Failed(c) == IF caller[c].doc.kind = "experiment"
             THEN FoldDone(c, FailedFold("FAILED_EXECUTION", "publication", None, None))
             ELSE Becomes(c, IdleCaller)

LockIsBusy(c) ==
    /\ caller[c].at = "publish" /\ Holders(LockOf(caller[c].doc)) # {}
    /\ Failed(c)
    /\ UNCHANGED <<plans, scores, artifacts, damaged, published, spoiled, budget>>

TargetHolds(d, ok) == d \notin spoiled /\ Readable(d) /\ Meaningful(d, ok)

\* The target exists: reused if it holds. If it does not, the documents of a
\* walk-forward and of a report are removed and written again.
Enter(c, miss) ==
    LET d == caller[c].doc
    IN  /\ caller[c].at = "publish" /\ Holders(LockOf(d)) = {}
        /\ IF d \notin published THEN
                Becomes(c, [caller[c] EXCEPT !.at = "staging"]) /\ UNCHANGED <<published, spoiled>>
           ELSE IF TargetHolds(d, Ok(miss)) THEN Done(c) /\ UNCHANGED <<published, spoiled>>
           ELSE IF d.kind = "experiment" THEN Failed(c) /\ UNCHANGED <<published, spoiled>>
           ELSE /\ published' = published \ {d} /\ spoiled' = spoiled \ {d}
                /\ Becomes(c, [caller[c] EXCEPT !.at = "staging"])
        /\ Spend("faults", Cardinality(miss))
        /\ UNCHANGED <<plans, scores, artifacts, damaged>>

\* PREPARED and COMMITTED are read back from the staging directory.
Rename(c, miss) ==
    LET d == caller[c].doc
    IN  /\ caller[c].at = "staging"
        /\ IF Readable(d) /\ Meaningful(d, Ok(miss))
           THEN published' = published \cup {d} /\ Becomes(c, [caller[c] EXCEPT !.at = "renamed"])
           ELSE Failed(c) /\ UNCHANGED published
        /\ Spend("faults", Cardinality(miss))
        /\ UNCHANGED <<plans, scores, artifacts, damaged, spoiled>>

\* The target is read back; if that fails it is taken away again.
Confirm(c, miss) ==
    LET d == caller[c].doc
    IN  /\ caller[c].at = "renamed"
        /\ IF TargetHolds(d, Ok(miss)) THEN Done(c) /\ UNCHANGED <<published, spoiled>>
           ELSE Failed(c) /\ published' = published \ {d} /\ spoiled' = spoiled \ {d}
        /\ Spend("faults", Cardinality(miss))
        /\ UNCHANGED <<plans, scores, artifacts, damaged>>

-----------------------------------------------------------------------------
(* The environment *)

\* A process ends: its locks with it; what it staged is never a target.
Kill(c) ==
    /\ caller[c].at # "idle" /\ budget.kills > 0
    /\ Becomes(c, IdleCaller) /\ Spend("kills", 1)
    /\ UNCHANGED <<plans, scores, artifacts, damaged, published, spoiled>>

DamageRun(r) == /\ budget.damage > 0 /\ r \in artifacts
                /\ damaged' = damaged \cup {r} /\ Spend("damage", 1)
                /\ UNCHANGED <<plans, scores, artifacts, published, spoiled, caller>>
SpoilDocument(d) == /\ budget.damage > 0 /\ d \in published
                    /\ spoiled' = spoiled \cup {d} /\ Spend("damage", 1)
                    /\ UNCHANGED <<plans, scores, artifacts, damaged, published, caller>>

\* Plans that nothing executes are drawn up first of all.
Drafts == IF scores = <<>> /\ \A c \in Callers : caller[c].at = "idle" THEN DOMAIN Requests
          ELSE budget.plans

ResearchNext ==
    \/ \E c \in Callers :
         \/ \E q \in Drafts : Plan(c, q)
         \/ Begin(c) \/ Run(c) \/ LockIsBusy(c) \/ Kill(c)
         \/ \E miss \in Misses :
              \/ ReuseRun(c, miss) \/ PublishRun(c, miss) \/ FinishExperiment(c, miss)
              \/ Select(c, miss) \/ BuildManifest(c, miss)
              \/ Enter(c, miss) \/ Rename(c, miss) \/ Confirm(c, miss)
         \/ \E d \in published, policy \in Policies : Analyze(c, d, policy)
    \/ \E r \in artifacts : DamageRun(r)
    \/ \E d \in published : SpoilDocument(d)

ResearchSpec == ResearchInit /\ [][ResearchNext]_researchVars

-----------------------------------------------------------------------------
(* Properties *)

\* The combinations of a space come in the textual order of their parameters,
\* no two with the same.
BeforeInText(p, r) == \E i \in DOMAIN p : /\ TextKey(p[i]) < TextKey(r[i])
                                          /\ \A j \in 1..(i - 1) : p[j] = r[j]
InTextOrder(combinations) ==
    \A i, j \in DOMAIN combinations :
        i < j => BeforeInText(combinations[i].parameters, combinations[j].parameters)

\* A plan that was created is accepted by every later validator, and what is
\* read of its document is the same plan; its combinations are in order. Each
\* candle from the first TEST segment on is in the TEST segment of one fold, but
\* for fewer than another segment. No run reads before the snapshot, and what a
\* fold is selected on ends before its TEST segment starts.
PlansAreSound ==
    \A c \in Callers : caller[c].at = "planned" =>
      \A p \in {WalkForwardPlan(Requests[caller[c].plan])} :
        LET tests == [k \in DOMAIN p.folds |-> p.folds[k].temporal.segments[3].range]
        IN  /\ PlanIsReadable(p)
            /\ InTextOrder(Expansion(p.space))
            /\ \A t \in tests[1].start..(p.snapshot.range.end - p.window.test) :
                 \E k \in DOMAIN tests : /\ t \in tests[k].start..(tests[k].end - 1)
                                         /\ \A l \in DOMAIN tests \ {k} :
                                              t \notin tests[l].start..(tests[l].end - 1)
            /\ \A k \in DOMAIN p.folds : \A x \in Range(p.folds[k].experiment.specs) :
                 /\ x.run.context.start >= p.snapshot.range.start
                 /\ x.run.evaluation.end <= p.snapshot.range.end
                 /\ x.purpose # "FINAL_HOLDOUT" => x.run.evaluation.end <= tests[k].start

\* What a writer makes of an execution is accepted by every constructor that
\* reads it back: no work is lost because one refuses what another wrote.
WritersMeetReaders ==
    \A c \in Callers : caller[c].at = "publish" => Readable(caller[c].doc)

\* What a published walk-forward says of its folds comes out the same when it is
\* selected again from the artifacts, even if two verifications failed while it
\* was made; unless an artifact it used was damaged. Three that fail in the same
\* way, at the selection and twice before publication, are believed: README, section 5.
StoredIsReproducible ==
    \A d \in published : d.kind = "walk" =>
        \/ Reproduced(d.plan, d.folds, artifacts \ damaged)
        \/ \E k \in DOMAIN d.folds : \E x \in Range(Specs(d.plan, k)) : x.run \in damaged

\* The holdout of a completed fold is the TEST outcome of the candidate whose
\* VALIDATION outcome no candidate with intact artifacts improves on; of equal
\* ones, the first.
HoldoutOfBest ==
    \A d \in published : d.kind = "walk" =>
        \A k \in DOMAIN d.folds :
            LET f == d.folds[k]
                outcome(c, role) == scores[SpecOf(d.plan, k, c, role).run]
            IN  f.status = "COMPLETED" =>
                /\ f.score = outcome(f.winner, "VALIDATION") /\ f.holdout = outcome(f.winner, "TEST")
                /\ \A c \in Candidates(d.plan) \ {f.winner} :
                     \/ ~Successful(RecordOf(f.records, c, "TRAIN"))
                     \/ ~Successful(RecordOf(f.records, c, "VALIDATION"))
                     \/ {SpecOf(d.plan, k, c, r).run : r \in {"TRAIN", "VALIDATION"}} \cap damaged # {}
                     \/ outcome(c, "VALIDATION") = None
                     \/ Better(f.score, outcome(c, "VALIDATION"), PlanOf(d.plan).direction)
                     \/ outcome(c, "VALIDATION") = f.score /\ f.winner < c

\* A report that PASSED vouches for every fold: enough of them were completed,
\* none lost more than the worst allowed, half of them no more than the median
\* allowed, and the parameters changed no more often than allowed.
AssessmentHolds ==
    \A d \in published : d.kind = "report" /\ d.report.assessments.assessment = "PASSED" =>
        LET p == d.report.policy
            folds == d.report.source.folds
            done == {k \in DOMAIN folds : folds[k].status = "COMPLETED"}
            loss(k) == IF p.direction = "MAXIMIZE" THEN folds[k].score - folds[k].holdout
                       ELSE folds[k].holdout - folds[k].score
            after(k) == {l \in done : l > k /\ \A m \in done : m > k => l <= m}
        IN  /\ Cardinality(done) >= p.minFolds
            /\ 100 * Cardinality(done) >= p.minCompletion * Len(folds)
            /\ \A k \in done : loss(k) <= p.maxWorst
            /\ 2 * FoldSet(LAMBDA k, acc : acc + loss(k), 0, done) <= 2 * Cardinality(done) * p.maxMedian
               \/ Cardinality(done) > 2
            /\ 100 * Cardinality({k \in done : loss(k) <= 0}) >= p.minNotWorse * Cardinality(done)
            /\ 100 * Cardinality({k \in done : \E l \in after(k) :
                                      folds[k].parameters # folds[l].parameters})
                 <= p.maxTurnover * (Cardinality(done) - 1)

\* What is published of a walk-forward is so: it comes out again, and its
\* holdouts belong to the best candidates.
PublishedIsSound == StoredIsReproducible /\ HoldoutOfBest

\* What is computed before and after the executions: the plans that are drawn
\* up, and what a report makes of the folds.
PlansAndReportsAreSound == PlansAreSound /\ AssessmentHolds
=============================================================================
