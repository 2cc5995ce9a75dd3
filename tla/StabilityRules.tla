---------------------------- MODULE StabilityRules ----------------------------
(***************************************************************************)
(* The report on a walk-forward execution: how much each completed fold     *)
(* lost from its VALIDATION score to its TEST score, how often the chosen   *)
(* parameters changed, and what six controls make of it. Scores are even,   *)
(* so that the mean of two is whole; thresholds of ratios are per cent.     *)
(***************************************************************************)
EXTENDS Integers, Sequences, FiniteSets, SequencesExt

CONSTANTS
    MostStabilityFolds,
    None    \* a field that a failed fold, or the first fold, leaves empty

ValidPolicy(p) ==
    /\ p.direction \in {"MAXIMIZE", "MINIMIZE"}
    /\ p.minFolds \in 2..MostStabilityFolds
    /\ {p.minCompletion, p.minNotWorse, p.maxTurnover} \subseteq 0..100
    /\ p.maxMedian >= 0 /\ p.maxWorst >= 0

\* _validate_source_links: the report must judge by what the selection used.
PolicyFitsPlan(p, direction, foldCount) == p.direction = direction /\ p.minFolds <= foldCount

-----------------------------------------------------------------------------
(* One fold *)

Degradation(validation, test, direction) ==
    IF direction = "MAXIMIZE" THEN validation - test ELSE test - validation
NotWorse(validation, test, direction) ==
    IF direction = "MAXIMIZE" THEN test >= validation ELSE test <= validation

FailedObservation(status) ==
    [status |-> status, parameters |-> None, validation |-> None, test |-> None,
     degradation |-> None, notWorse |-> None, changed |-> None]

\* previous: the parameters of the completed fold before, <<>> if there is none.
CompletedObservation(fold, previous, direction) ==
    [status |-> "COMPLETED", parameters |-> fold.parameters,
     validation |-> fold.score, test |-> fold.holdout,
     degradation |-> Degradation(fold.score, fold.holdout, direction),
     notWorse |-> NotWorse(fold.score, fold.holdout, direction),
     changed |-> IF previous = <<>> THEN None ELSE fold.parameters # previous]

\* Those completed of the first n, folds or observations.
CompletedTo(items, n) ==
    LET done[i \in 0..n] == IF i = 0 THEN <<>>
                            ELSE IF items[i].status = "COMPLETED" THEN Append(done[i - 1], items[i])
                            ELSE done[i - 1]
    IN  done[n]
CompletedBefore(folds, k) == CompletedTo(folds, k - 1)
PreviousParameters(folds, k) ==
    IF CompletedBefore(folds, k) = <<>> THEN <<>> ELSE Last(CompletedBefore(folds, k)).parameters
Observations(folds, direction) ==
    [k \in DOMAIN folds |->
        IF folds[k].status = "COMPLETED"
        THEN CompletedObservation(folds[k], PreviousParameters(folds, k), direction)
        ELSE FailedObservation(folds[k].status)]

ValidObservation(o) ==
    LET values == <<o.parameters, o.validation, o.test, o.degradation, o.notWorse>>
    IN  IF o.status = "COMPLETED" THEN \A i \in DOMAIN values : values[i] # None
        ELSE o.changed = None /\ \A i \in DOMAIN values : values[i] = None

-----------------------------------------------------------------------------
(* All folds together *)

Distribution(values) ==
    LET s == SortSeq(values, <)  m == Len(s) \div 2
    IN  IF s = <<>> THEN None
        ELSE [count |-> Len(s), minimum |-> s[1], maximum |-> s[Len(s)],
              median |-> IF Len(s) % 2 = 1 THEN s[m + 1] ELSE (s[m] + s[m + 1]) \div 2]

\* An empty denominator counts as one.
Ratio(n, d) == [num |-> n, den |-> IF d < 1 THEN 1 ELSE d]
AtLeast(r, pct) == 100 * r.num >= pct * r.den
AtMost(r, pct) == 100 * r.num <= pct * r.den

Completed(obs) == CompletedTo(obs, Len(obs))
Count(obs, Test(_)) == Len(SelectSeq(obs, Test))
Column(obs, Field(_)) == [i \in DOMAIN Completed(obs) |-> Field(Completed(obs)[i])]
CompletionRatio(obs) == Ratio(Len(Completed(obs)), Len(obs))
NotWorseRatio(obs) ==
    Ratio(Count(Completed(obs), LAMBDA o : o.notWorse = TRUE), Len(Completed(obs)))
TurnoverRatio(obs) ==
    Ratio(Count(Completed(obs), LAMBDA o : o.changed = TRUE), Len(Completed(obs)) - 1)
Degradations(obs) == Distribution(Column(obs, LAMBDA o : o.degradation))

Controls(p, obs) ==
    LET d == Degradations(obs)  n == Len(Completed(obs))
    IN  [enoughFolds |-> n >= p.minFolds,
         completion |-> AtLeast(CompletionRatio(obs), p.minCompletion),
         notWorse |-> n > 0 /\ AtLeast(NotWorseRatio(obs), p.minNotWorse),
         median |-> d # None /\ d.median <= p.maxMedian,
         worst |-> d # None /\ d.maximum <= p.maxWorst,
         turnover |-> AtMost(TurnoverRatio(obs), p.maxTurnover)]

Assessments(p, c, n) ==
    IF n < p.minFolds
    THEN [overfitting |-> "INSUFFICIENT_DATA", parameters |-> "INSUFFICIENT_DATA",
          assessment |-> "INSUFFICIENT_DATA"]
    ELSE [overfitting |-> IF c.notWorse /\ c.median /\ c.worst THEN "NO_SIGNAL"
                          ELSE "POSSIBLE_OVERFITTING",
          parameters |-> IF c.completion /\ c.turnover THEN "STABLE" ELSE "UNSTABLE",
          assessment |-> IF \A k \in DOMAIN c : c[k] THEN "PASSED" ELSE "FAILED"]

Report(source, p, obs) ==
    [source |-> source, policy |-> p, observations |-> obs, foldCount |-> Len(obs),
     completed |-> Len(Completed(obs)), completion |-> CompletionRatio(obs),
     notWorse |-> NotWorseRatio(obs), turnover |-> TurnoverRatio(obs),
     validation |-> Distribution(Column(obs, LAMBDA o : o.validation)),
     test |-> Distribution(Column(obs, LAMBDA o : o.test)), degradation |-> Degradations(obs),
     controls |-> Controls(p, obs),
     assessments |-> Assessments(p, Controls(p, obs), Len(Completed(obs)))]

\* A completed fold whose TEST metric is absent has no degradation: no report.
MayReport(folds) == \A k \in DOMAIN folds : folds[k].status = "COMPLETED" => folds[k].holdout # None

\* validate_stability_report: everything is derived again from the observations.
ValidReport(r) ==
    LET c == Completed(r.observations)
    IN  /\ ValidPolicy(r.policy) /\ Len(r.observations) \in 2..MostStabilityFolds
        /\ \A k \in DOMAIN r.observations : ValidObservation(r.observations[k])
        /\ r.foldCount = Len(r.observations) /\ r.completed = Len(c)
        /\ \A i \in DOMAIN c :
             /\ c[i].degradation = Degradation(c[i].validation, c[i].test, r.policy.direction)
             /\ c[i].notWorse = NotWorse(c[i].validation, c[i].test, r.policy.direction)
             /\ c[i].changed = IF i = 1 THEN None ELSE c[i].parameters # c[i - 1].parameters
        /\ r = Report(r.source, r.policy, r.observations)
=============================================================================
