------------------------- MODULE BacktestVerification -------------------------
(***************************************************************************)
(* What is recomputed from the record of a run without running the strategy *)
(* again: the independent verification of a published backtest, and the     *)
(* trade journal and period metrics of a paper session.                     *)
(*                                                                         *)
(* A record r holds orders, fills, ledger, equity and the final portfolio.  *)
(* Times are 2n at the open of candle n and 2n + 1 at its close.            *)
(***************************************************************************)
EXTENDS BacktestRules, SequencesExt

OpenTime(n) == 2 * n
CloseTime(n) == 2 * n + 1
Never == -1             \* an order that has not ended

-----------------------------------------------------------------------------
(* BacktestResultVerifier *)

\* _verify_evaluation_boundaries: everything happened in the candles evaluated.
WithinEvaluation(r) ==
    LET n == Len(r.equity)
        times == 0..OpenTime(n)
    IN  /\ n >= 1
        /\ \A i \in DOMAIN r.orders :
             LET o == r.orders[i]
             IN  /\ o.at \in times
                 /\ o.created \in -1..(n - 1)
                 /\ o.eligible \in 0..n
                 /\ o.created = -1 => o.at = 0
                 /\ o.ended # Never => o.ended \in o.at..OpenTime(n)
        /\ \A i \in DOMAIN r.fills : /\ r.fills[i].at \in times
                                     /\ r.fills[i].candle \in 0..(n - 1)
        /\ r.ledger # <<>>
        /\ LET e == Head(r.ledger)
           IN  e.type = "INITIAL_CAPITAL" /\ e.at = 0 /\ e.candle = -1
        /\ \A i \in 2..Len(r.ledger) : /\ r.ledger[i].at \in times
                                       /\ r.ledger[i].candle \in 0..(n - 1)
        /\ \A i \in 1..n : r.equity[i].candle = i - 1

\* _verify_sequences: a fill is its order's, after it became eligible; a FILLED
\* order has one fill and no other order has any.
FillsMatchOrders(r) ==
    /\ \A i \in DOMAIN r.fills :
         LET f == r.fills[i]
             o == r.orders[f.order]
         IN  /\ f.order \in DOMAIN r.orders
             /\ f.side = o.side
             /\ f.quantity = o.quantity
             /\ f.candle >= o.eligible
             /\ o.ended = f.at
    /\ \A i \in DOMAIN r.orders :
         Cardinality({k \in DOMAIN r.fills : r.fills[k].order = i})
             = IF r.orders[i].status = "FILLED" THEN 1 ELSE 0

\* verify_ledger: the balances add up and are never negative.
BalancesAddUp(l) ==
    \A i \in DOMAIN l :
       LET before == IF i = 1 THEN [quote |-> 0, base |-> 0]
                     ELSE [quote |-> l[i - 1].quote, base |-> l[i - 1].base]
       IN  /\ l[i].quote = before.quote + l[i].dquote
           /\ l[i].base = before.base + l[i].dbase
           /\ l[i].quote >= 0 /\ l[i].base >= 0

\* The fills of candle n applied to p in order; a fill the portfolio refuses
\* raises, and leaves a portfolio nothing is equal to.
Replayed(p, fills, n) ==
    LET after[i \in 0..Len(fills)] ==
          IF i = 0 THEN p
          ELSE IF fills[i].candle = n THEN Applied(after[i - 1], fills[i])
          ELSE after[i - 1]
    IN  after[Len(fills)]
ReplayedTo(fills, equity, capital, n) ==
    LET after[i \in 0..n] ==
          IF i = 0 THEN Flat(capital)
          ELSE Marked(Replayed(after[i - 1], fills, equity[i].candle), equity[i].close)
    IN  after[n]

\* The equity curve and the final portfolio are reconstructible from the fills:
\* those of a candle come first, then its close is marked.
CurveIsReplayed(r, capital) ==
    /\ \A n \in DOMAIN r.equity :
         LET p == ReplayedTo(r.fills, r.equity, capital, n)
         IN  <<p.cash, p.base, p.equity, p.peak>>
               = <<r.equity[n].cash, r.equity[n].base, r.equity[n].equity,
                   r.equity[n].peak>>
    /\ ReplayedTo(r.fills, r.equity, capital, Len(r.equity)) = r.final

VerifierAccepts(r, capital) ==
    /\ WithinEvaluation(r)
    /\ FillsMatchOrders(r)
    /\ BalancesAddUp(r.ledger)
    /\ Last(r.ledger).quote = r.final.cash /\ Last(r.ledger).base = r.final.base
    /\ CurveIsReplayed(r, capital)

-----------------------------------------------------------------------------
(* PaperTradeJournal: the fills by time, candle and order, not as they ran *)

Executions(fills) ==
    SortSeq(fills, LAMBDA f, g : \/ f.at < g.at
                                 \/ f.at = g.at /\ f.order < g.order)

\* build_paper_trade_journal rebuilds the portfolio from the executions;
\* _verify_accounting compares everything but the marks.
Account(p) == <<p.cash, p.base, p.cost, p.realized, p.fees>>
JournalAccepts(r, capital) ==
    Account(FoldLeft(Applied, Flat(capital), Executions(r.fills))) = Account(r.final)

-----------------------------------------------------------------------------
(* What each exit realized: derive_closed_trades for the metrics of a run,    *)
(* _journal_realizations for the period metrics of a session                  *)

\* The fraction sold is rounded first, then notional and fees are released
\* apart; bars counts candles since the position was opened.
ClosedTrades(fills, precision) ==
    LET Step(s, f) ==
          IF f.side = "BUY"
          THEN [s EXCEPT !.quantity = @ + f.quantity, !.notional = @ + f.notional,
                         !.fees = @ + f.fee,
                         !.since = IF s.quantity = 0 THEN f.candle ELSE @]
          ELSE LET fraction == (f.quantity * precision) \div s.quantity
                   notional == Share(s.notional, fraction, precision)
                   fees == Share(s.fees, fraction, precision)
                   closed == f.quantity = s.quantity
               IN  [quantity |-> s.quantity - f.quantity,
                    notional |-> IF closed THEN 0 ELSE s.notional - notional,
                    fees |-> IF closed THEN 0 ELSE s.fees - fees,
                    since |-> s.since,
                    trades |-> Append(s.trades,
                                 [net |-> f.notional - f.fee - notional - fees,
                                  bars |-> f.candle - s.since])]
    IN  FoldLeft(Step, [quantity |-> 0, notional |-> 0, fees |-> 0, since |-> 0,
                        trades |-> <<>>], fills).trades

Total(nets) == FoldLeft(LAMBDA a, n : a + n, 0, nets)
Nets(trades, sign) == SelectSeq([i \in DOMAIN trades |-> trades[i].net],
                                LAMBDA n : n * sign > 0)

\* calculate_metrics; the annualized ratios are left out.
Metrics(r, capital, precision) ==
    LET trades == ClosedTrades(r.fills, precision)
        Count(status) == Cardinality({i \in DOMAIN r.orders : r.orders[i].status = status})
    IN  [netProfit |-> r.final.equity - capital,
         grossProfit |-> Total(Nets(trades, 1)),
         grossLoss |-> -Total(Nets(trades, -1)),
         winners |-> Len(Nets(trades, 1)), losers |-> Len(Nets(trades, -1)),
         drawdown |-> Max({r.equity[n].peak - r.equity[n].equity : n \in DOMAIN r.equity}),
         filled |-> Count("FILLED"), open |-> Count("OPEN"),
         ended |-> Count("REJECTED") + Count("CANCELLED") + Count("EXPIRED")]

Realizations(fills, precision) ==
    LET trades == ClosedTrades(fills, precision)
    IN  Total([i \in DOMAIN trades |-> trades[i].net])

\* build_series compares the sum with what the journal realized.
PeriodAccepts(r, precision) ==
    Realizations(Executions(r.fills), precision) = r.final.realized
=============================================================================
