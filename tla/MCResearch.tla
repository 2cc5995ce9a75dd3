----------------------------- MODULE MCResearch -----------------------------
(* Instances of ResearchExecution for TLC: plans over a grid of snapshots,     *)
(* windows and search spaces; one of them, of two folds and two combinations,  *)
(* is executed, and one of a single combination. "2" comes after "10" as text.                                  *)
EXTENDS ResearchExecution

MCDescriptor == <<[name |-> "fast", default |-> 5], [name |-> "slow", default |-> 1]>>
MCRefused == {<<3, 1>>, <<2, 7>>}

Costs == [makerFee |-> 0, takerFee |-> 0, slippage |-> 0,
          sizing |-> [kind |-> "explicit_quantity", value |-> 0, reserve |-> 0],
          step |-> 1, minQuantity |-> 1, tick |-> 1, minNotional |-> 0, maxNotional |-> 100,
          maxPosition |-> 100, maxOpen |-> 1, maxTotal |-> 2, reserve |-> 0, haltPct |-> 50,
          stopPct |-> 0, capital |-> 100, maxOrders |-> 2, maxEvents |-> 10]
Settings(history, candles) == [history |-> history, maxCandles |-> candles] @@ Costs

Snapshot(n, strict, complete) ==
    [range |-> [start |-> 2, end |-> 2 + n], strict |-> strict, complete |-> complete]
Snapshots == [n \in 1..5 |-> Snapshot(n + 2, TRUE, TRUE)]
               \o <<Snapshot(8, TRUE, TRUE), Snapshot(6, FALSE, TRUE), Snapshot(6, TRUE, FALSE)>>

Window(train, validation, test, warmup) ==
    [train |-> train, validation |-> validation, test |-> test, warmup |-> warmup, maxFolds |-> 4]
Windows == <<Window(1, 1, 1, 1), Window(2, 1, 1, 0), Window(1, 1, 2, 1), Window(1, 2, 1, 2),
             Window(1, 1, 0, 0)>>

Space0 == [fixed |-> <<>>, search |-> [fast |-> <<2, 10>>], limit |-> 4]
Spaces == <<Space0,
            [Space0 EXCEPT !.search = [slow |-> <<1, 7>>, fast |-> <<10, 3, 2>>], !.limit = 8],
            [Space0 EXCEPT !.search = [slow |-> <<20, 1>>, fast |-> <<20, 11, 1>>], !.limit = 6],
            [Space0 EXCEPT !.search = [slow |-> <<4, 4>>]],
            [Space0 EXCEPT !.fixed = [fast |-> 7], !.search = [slow |-> <<30, 4>>]],
            [Space0 EXCEPT !.fixed = [fast |-> 7]],
            [Space0 EXCEPT !.search = [fast |-> <<1, 2, 4, 5, 6>>]],
            [Space0 EXCEPT !.search = [fast |-> <<2>>]]>>

MCRequests ==
    [t \in (DOMAIN Snapshots) \X (DOMAIN Windows) \X (DOMAIN Spaces) |->
       [snapshot |-> Snapshots[t[1]], window |-> Windows[t[2]], space |-> Spaces[t[3]],
        settings |-> Settings(IF t[2] = 4 THEN 1 ELSE 2, 3 + t[2]), direction |-> "MAXIMIZE",
        limit |-> 24]]
CallerSymmetry == Permutations(Callers)

MCOutcomes == {6, None, Broken}

\* One research repeated, with a kill and two failing verifications; one analysed,
\* with a damaged file; two callers at once, with a single combination.
Repeated == [overlap |-> FALSE, plans |-> {<<3, 1, 1>>}, executions |-> 2, odd |-> 1, kills |-> 1,
             faults |-> 2, damage |-> 0, analyses |-> 0]
Analysed == [Repeated EXCEPT !.executions = 1, !.odd = 2, !.kills = 0, !.faults = 0, !.damage = 1, !.analyses = 1]
Together == [overlap |-> TRUE, plans |-> {<<3, 1, 8>>}, executions |-> 2, odd |-> 0, kills |-> 1,
             faults |-> 0, damage |-> 0, analyses |-> 1]
MCBudgets == {Repeated, Analysed, Together}

Policy(worst, turnover) ==
    [direction |-> "MAXIMIZE", minFolds |-> 2, minCompletion |-> 50, minNotWorse |-> 50,
     maxTurnover |-> turnover, maxMedian |-> 1, maxWorst |-> worst]
MCPolicies == {Policy(2, 0), Policy(0, 100)}
=============================================================================
