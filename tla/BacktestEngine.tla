---------------------------- MODULE BacktestEngine ----------------------------
(***************************************************************************)
(* DeterministicBacktestEngine.run: one strategy over the candles of a      *)
(* snapshot, candle by candle. In a candle the open orders are tried one by *)
(* one, the protective stop first; each fill rebuilds the stop and asks the *)
(* strategy again; then the close is marked, a drawdown may halt the run    *)
(* and the strategy sees the candle. The engine of paper sessions is the    *)
(* same, without terminal cancellation and force close.                     *)
(*                                                                         *)
(* The market and the strategy are the environment: any candle of Candles,  *)
(* any batch of intents of Batches. Warmup candles produce no intents and   *)
(* are left out; so are market regimes, which only the strategy reads.      *)
(***************************************************************************)
EXTENDS BacktestVerification

CONSTANTS
    Configs,        \* the configurations run
    Candles,        \* [open, high, low, close]
    Batches,        \* the sequences of intents a strategy may return
    MaxCandles,     \* bound: candles of a run
    CandlesPerDay,  \* for orders that expire with the day
    Precision       \* digits a division keeps, as a power of the base

ASSUME ConfigsAssumption ==
    \A c \in Configs :
      /\ ValidConfig(c)
      /\ {c.capital, c.reserve, c.step, c.tick, c.sizing.value, c.sizing.reserve} \subseteq Nat

\* What a strategy may ask for: OrderIntent.
Intents == {i \in [side : {"BUY", "SELL"}, kind : {"MARKET", "LIMIT", "STOP_MARKET"},
                   quantity : Nat, tif : {"GTC", "IOC", "DAY"}, price : Nat] : ValidIntent(i)}
ASSUME BatchesAssumption == Batches \subseteq Seq(Intents)
ASSUME PricesAssumption ==
    Candles \subseteq [open : Nat \ {0}, high : Nat, low : Nat, close : Nat \ {0}]
ASSUME BoundsAssumption == MaxCandles \in Nat /\ CandlesPerDay \in Nat \ {0}

VARIABLES
    config,     \* the configuration of the run
    phase,      \* what the engine does next
    index,      \* candles_processed
    candle,     \* the current candle
    queue,      \* the positions of the eligible orders still to try in it
    portfolio,
    orders,
    fills,
    ledger,
    equity,     \* the equity curve
    halted      \* risk_halt

vars == <<config, phase, index, candle, queue, portfolio, orders, fills, ledger,
          equity, halted>>

Open == {i \in DOMAIN orders : orders[i].status = "OPEN"}
OpenIn(os) == {i \in DOMAIN os : os[i].status = "OPEN"}
Day(time) == time \div (2 * CandlesPerDay)

-----------------------------------------------------------------------------
(* Ledger *)

\* BacktestLedger.append
Entry(l, type, dquote, dbase, realized, at, n) ==
    LET quote == IF l = <<>> THEN 0 ELSE Last(l).quote
        base == IF l = <<>> THEN 0 ELSE Last(l).base
    IN  Append(l, [type |-> type, dquote |-> dquote, dbase |-> dbase,
                   realized |-> realized, at |-> at, candle |-> n,
                   quote |-> quote + dquote, base |-> base + dbase])

\* record_fill: gross, then the fee, then the PnL when there is one.
FillEntries(l, f, realized) ==
    LET sign == IF f.side = "BUY" THEN 1 ELSE -1
        gross == Entry(l, f.side, -sign * f.notional, sign * f.quantity, 0, f.at, f.candle)
        paid == IF f.fee = 0 THEN gross
                ELSE Entry(gross, "FEE", -f.fee, 0, 0, f.at, f.candle)
    IN  IF realized = 0 THEN paid
        ELSE Entry(paid, "REALIZED_PNL", 0, 0, realized, f.at, f.candle)

MarkEntry(l, type, at, n) == Entry(l, type, 0, 0, 0, at, n)

-----------------------------------------------------------------------------
(* Orders. A result [orders, ok] has ok FALSE when a safe limit was exceeded *)

NewOrder(i, at, created, status, stop) ==
    [side |-> i.side, kind |-> i.kind, quantity |-> i.quantity, tif |-> i.tif,
     price |-> i.price, stop |-> stop, at |-> at, created |-> created,
     eligible |-> created + 1, status |-> status,
     ended |-> IF status = "OPEN" THEN Never ELSE at]

Ended(os, S, status, at) ==
    [i \in DOMAIN os |-> IF i \in S THEN [os[i] EXCEPT !.status = status, !.ended = at]
                         ELSE os[i]]

\* _submit_intents: size, then risk; a refused intent is a REJECTED order.
Submit(r, intent, p, reference, at, created, halt) ==
    LET quantity == Sized(config, intent, p, reference)
        sized == [intent EXCEPT !.quantity = IF quantity > 0 THEN quantity ELSE @]
        accepted == quantity > 0
                    /\ Admitted(config, sized, p, reference,
                                Cardinality(OpenIn(r.orders)), Len(r.orders), halt)
    IN  IF ~r.ok \/ Len(r.orders) >= config.maxOrders
        THEN [r EXCEPT !.ok = FALSE]
        ELSE [r EXCEPT !.orders =
                Append(@, NewOrder(sized, at, created,
                                   IF accepted THEN "OPEN" ELSE "REJECTED", FALSE))]
Submitted(result, batch, p, reference, at, created, halt) ==
    LET after[n \in 0..Len(batch)] ==
          IF n = 0 THEN result
          ELSE Submit(after[n - 1], batch[n], p, reference, at, created, halt)
    IN  after[Len(batch)]

Protected_Kept(os, p, at, created) ==
    LET stop == [side |-> "SELL", kind |-> "STOP_MARKET", quantity |-> p.base,
                 tif |-> "GTC", price |-> StopPrice(config, p)]
    IN  IF config.stopPct = 0 \/ p.base = 0 \/ Len(os) >= config.maxOrders
        THEN [orders |-> os, ok |-> TRUE]
        ELSE [orders |-> Append(os, NewOrder(stop, at, created, "OPEN", TRUE)),
              ok |-> TRUE]

\* _reconcile_stop_loss: cancel the stop, place one for the whole position.
Protected(os, p, at, created) ==
    LET cleared == Ended(os, {i \in OpenIn(os) : os[i].stop}, "CANCELLED", at)
        stop == [side |-> "SELL", kind |-> "STOP_MARKET", quantity |-> p.base,
                 tif |-> "GTC", price |-> StopPrice(config, p)]
    IN  IF config.stopPct = 0 \/ p.base = 0 THEN [orders |-> cleared, ok |-> TRUE]
        ELSE IF \/ Len(cleared) >= Min({config.maxOrders, config.maxTotal})
                \/ Cardinality(OpenIn(cleared)) >= config.maxOpen
                \/ stop.price <= 0
        THEN [orders |-> cleared, ok |-> FALSE]
        ELSE [orders |-> Append(cleared, NewOrder(stop, at, created, "OPEN", TRUE)),
              ok |-> TRUE]

Eligible(os, n) == {i \in OpenIn(os) : os[i].eligible <= n}

\* _eligible_order_positions: the stop, then by eligible candle and sequence. Nothing
\* this order looks at changes while the candle lasts.
Before_Newest(os, i, j) == i > j
Before(os, i, j) ==
    \/ os[i].stop /\ ~os[j].stop
    \/ /\ os[i].stop = os[j].stop
       /\ \/ os[i].eligible < os[j].eligible
          \/ os[i].eligible = os[j].eligible /\ i < j
First(os, S) == CHOOSE i \in S : \A j \in S \ {i} : Before(os, i, j)

\* The next phase, unless a limit of the run was exceeded.
Proceed(next, result, l, fs, eq) ==
    IF result.ok /\ Len(result.orders) + Len(fs) + Len(l) + Len(eq) <= config.maxEvents
    THEN next ELSE "failed"

-----------------------------------------------------------------------------
(* Steps *)

Init ==
    /\ config \in Configs
    /\ phase = "between"
    /\ index = 0
    /\ candle \in {k \in Candles : k = CHOOSE x \in Candles : TRUE}
    /\ queue = {}
    /\ portfolio = Flat(config.capital)
    /\ orders = <<>>
    /\ fills = <<>>
    /\ ledger = Entry(<<>>, "INITIAL_CAPITAL", config.capital, 0, 0, 0, -1)
    /\ equity = <<>>
    /\ halted = FALSE

\* The next candle; the intents of on_start are submitted at the first open.
OpenCandle(k, batch) ==
    LET s == Submitted([orders |-> orders, ok |-> TRUE], batch, portfolio, k.open,
                       OpenTime(index), -1, halted)
    IN  /\ phase = "between"
        /\ index < MaxCandles
        /\ index > 0 => batch = <<>>
        /\ candle' = k
        /\ orders' = s.orders
        /\ queue' = Eligible(s.orders, index)
        /\ phase' = Proceed("orders", s, ledger, fills, equity)
        /\ UNCHANGED <<config, index, portfolio, fills, ledger, equity, halted>>

\* The order whose turn it is.
Tried == First(orders, queue)
Turn == orders[Tried]
DayIsOver == Turn.tif = "DAY" /\ Day(OpenTime(index)) > Day(Turn.at)
Trying == phase = "orders" /\ queue # {}
Reached == Touched(Turn, candle)
FillAt(order, at, n, forced, q) ==
    [order |-> order, at |-> at, candle |-> n, forced |-> forced, side |-> q.side,
     quantity |-> q.quantity, price |-> q.price, notional |-> q.notional, fee |-> q.fee]
Fill == FillAt(Tried, OpenTime(index), index, FALSE, FillOf(config, Turn, Reached))

EndsWithoutFill(status, at) ==
    /\ orders' = Ended(orders, {Tried}, status, at)
    /\ queue' = queue \ {Tried}
    /\ UNCHANGED <<config, phase, index, candle, portfolio, fills, ledger, equity, halted>>

ExpireDay == Trying /\ DayIsOver /\ EndsWithoutFill("EXPIRED", OpenTime(index))

\* Not triggered: an IOC order expires, any other waits for the next candle.
NotReached ==
    /\ Trying /\ ~DayIsOver /\ Reached = NoPrice
    /\ IF Turn.tif = "IOC"
       THEN EndsWithoutFill("EXPIRED", CloseTime(index))
       ELSE /\ queue' = queue \ {Tried}
            /\ UNCHANGED <<config, phase, index, candle, portfolio, orders, fills,
                           ledger, equity, halted>>

\* The price fits, the risk limits at that price do not. Not asked of the stop.
RefuseFill ==
    /\ Trying /\ ~DayIsOver /\ Reached # NoPrice
    /\ ~Turn.stop /\ ~FillFits(config, Fill, portfolio)
    /\ EndsWithoutFill("CANCELLED", OpenTime(index))

\* Portfolio, ledger and order change together; then the stop, then on_fill.
FillOrder(batch) ==
    LET p == Applied(portfolio, Fill)
        l == FillEntries(ledger, Fill, p.realized - portfolio.realized)
        filled == Ended(orders, {Tried}, "FILLED", OpenTime(index))
        guarded == Protected(filled, p, OpenTime(index), index)
        s == Submitted(guarded, batch, p, Fill.price, OpenTime(index), index, halted)
    IN  /\ Trying /\ ~DayIsOver /\ Reached # NoPrice
        /\ Turn.stop \/ FillFits(config, Fill, portfolio)
        /\ MayApply(portfolio, Fill)
        /\ portfolio' = p
        /\ ledger' = l
        /\ fills' = Append(fills, Fill)
        /\ orders' = s.orders
        /\ queue' = queue \ {Tried}
        /\ phase' = Proceed("orders", s, l, fills', equity)
        /\ UNCHANGED <<config, index, candle, equity, halted>>

\* EquityPoint
ValidPoint(e, n) == /\ e.candle = n
                    /\ \A a \in {e.cash, e.base, e.equity} : a >= 0
                    /\ e.close > 0 /\ e.equity <= e.peak

PointOf_Stale(p, n) == [candle |-> n, close |-> candle.close, cash |-> p.cash,
                        base |-> p.base, equity |-> portfolio.equity, peak |-> p.peak]
PointOf(p, n) == [candle |-> n, close |-> candle.close, cash |-> p.cash,
                  base |-> p.base, equity |-> p.equity, peak |-> p.peak]

\* Mark, halt, on_candle.
CloseCandle(batch) ==
    LET p == Marked(portfolio, candle.close)
        l == MarkEntry(ledger, "MARK_TO_MARKET", CloseTime(index), index)
        eq == Append(equity, PointOf(p, index))
        halts == ~halted /\ MustHalt(config, p)
        kept == IF ~halts THEN orders
                ELSE Ended(orders, {i \in Open : ~orders[i].stop}, "CANCELLED",
                           CloseTime(index))
        s == Submitted([orders |-> kept, ok |-> TRUE], batch, p, candle.close,
                       CloseTime(index), index, halted \/ halts)
    IN  /\ phase = "orders" /\ queue = {}
        /\ portfolio' = p
        /\ ledger' = l
        /\ equity' = eq
        /\ halted' = (halted \/ halts)
        /\ orders' = s.orders
        /\ index' = index + 1
        /\ phase' = Proceed("between", s, l, fills, eq)
        /\ UNCHANGED <<config, candle, queue, fills>>

\* _force_close: sell everything at the last close.
ForcedFill ==
    FillAt(Len(orders) + 1, CloseTime(index - 1), index - 1, TRUE,
           FillOf(config, [side |-> "SELL", kind |-> "MARKET", quantity |-> portfolio.base],
                  candle.close))
ForcedOrder ==
    [NewOrder([side |-> "SELL", kind |-> "MARKET", quantity |-> portfolio.base,
               tif |-> "IOC", price |-> NoPrice],
              OpenTime(index - 1), index - 2, "FILLED", FALSE)
     EXCEPT !.ended = CloseTime(index - 1)]

\* Out of candles: cancel, force close, final state.
Finish(os, forced) ==
    LET p == IF forced THEN Marked(Applied(portfolio, ForcedFill), candle.close)
             ELSE portfolio
        l == IF forced THEN FillEntries(ledger, ForcedFill, p.realized - portfolio.realized)
             ELSE ledger
        fs == IF forced THEN Append(fills, ForcedFill) ELSE fills
        s == IF forced
             THEN Protected(Append(os, ForcedOrder), p, CloseTime(index - 1), index - 1)
             ELSE [orders |-> os, ok |-> TRUE]
        final == MarkEntry(l, "FINAL_STATE", CloseTime(index - 1), index - 1)
    IN  /\ portfolio' = p
        /\ ledger' = final
        /\ fills' = fs
        /\ orders' = s.orders
        /\ equity' = IF forced THEN [equity EXCEPT ![index] = PointOf(p, index - 1)]
                     ELSE equity
        /\ phase' = Proceed("done", s, final, fs, equity)

EndRun ==
    LET os == IF config.cancelAtEnd THEN Ended(orders, Open, "CANCELLED", CloseTime(index - 1))
              ELSE orders
        forced == config.forceClose /\ portfolio.base > 0
    IN  /\ phase = "between" /\ index > 0
        /\ ~(forced /\ Len(orders) >= Min({config.maxOrders, config.maxTotal}))
        /\ Finish(os, forced)
        /\ UNCHANGED <<config, index, candle, queue, halted>>

\* The forced order would exceed the limit, the strategy raised, or the snapshot
\* changed under the run: there is no result.
Fail ==
    /\ phase \in {"between", "orders"}
    /\ phase' = "failed"
    /\ UNCHANGED <<config, index, candle, queue, portfolio, orders, fills, ledger,
                   equity, halted>>

Next ==
    \/ \E k \in Candles, batch \in Batches : OpenCandle(k, batch)
    \/ ExpireDay
    \/ NotReached
    \/ RefuseFill
    \/ \E batch \in Batches : FillOrder(batch)
    \/ \E batch \in Batches : CloseCandle(batch)
    \/ EndRun
    \/ Fail

Spec == Init /\ [][Next]_vars

-----------------------------------------------------------------------------
(* Properties *)

Result == [orders |-> orders, fills |-> fills, ledger |-> ledger,
           equity |-> equity, final |-> portfolio]
Running == phase \in {"between", "orders"}

\* No step builds what a constructor refuses: PortfolioSnapshot, EquityPoint,
\* Fill and SimulatedOrder raise in the middle of a run.
TypeOK ==
    /\ phase \in {"between", "orders", "done", "failed"}
    /\ index \in 0..MaxCandles
    /\ ValidPortfolio(portfolio)
    /\ \A i \in DOMAIN fills : ValidFill(fills[i])
    /\ \A i \in DOMAIN orders : orders[i].ended = Never <=> orders[i].status = "OPEN"
    /\ \A i \in DOMAIN equity : ValidPoint(equity[i], i - 1)
    /\ queue \subseteq Open

\* Whatever fills in whatever order in a candle, an open position is covered by
\* one stop, for all of it, and a flat portfolio by none (_reconcile_stop_loss).
StopCoversPosition ==
    Running /\ config.stopPct # 0 =>
      LET stops == {i \in Open : orders[i].stop}
      IN  IF portfolio.base = 0 THEN stops = {}
          ELSE /\ Cardinality(stops) = 1
               /\ \A i \in stops : orders[i].quantity = portfolio.base

\* Several open orders may have been admitted against the same cash, and may
\* fill above the price they were admitted at: the reserve is still there, or all of
\* the capital where that was less from the start.
ReserveIsKept == portfolio.cash >= Min({Reserve(config), config.capital})

\* After the drawdown halt nothing but the protective stop is open, however the
\* strategy answers the fills of that stop.
HaltHolds == Running /\ halted => \A i \in Open : orders[i].stop

\* No money appears: cash and cost of the position are the capital and what was
\* realized, and the ledger's balances are the portfolio's.
MoneyIsAccounted ==
    /\ portfolio.cash + portfolio.cost = config.capital + portfolio.realized
    /\ Last(ledger).quote = portfolio.cash /\ Last(ledger).base = portfolio.base

\* Every finished run passes the independent verification of its artifacts,
\* which replays the fills without the engine (docs/ARCHITECTURE.md:559). A
\* force close that costs something is left out: README, section 5.
ResultIsVerifiable ==
    phase = "done" /\ (config.forceClose => config.takerFee = 0 /\ config.slippage = 0)
        => VerifierAccepts(Result, config.capital)

\* Without protective stops the journal, which sorts the fills again, rebuilds the
\* portfolio the engine left (docs/ROADMAP.md:686). Once the position is closed,
\* three separate accounts of the run agree: the portfolio's equity, the closed trades of the
\* metrics and, in a session, the exits of its period metrics.
ReportsAgree ==
    phase = "done" =>
      LET m == Metrics(Result, config.capital, Precision)
      IN  /\ m.filled = Len(fills) /\ m.filled + m.open + m.ended = Len(orders)
          /\ m.drawdown >= portfolio.peak - portfolio.equity
          /\ portfolio.base = 0 => m.netProfit = m.grossProfit - m.grossLoss
          /\ config.stopPct = 0 =>
               /\ JournalAccepts(Result, config.capital)
               /\ portfolio.base = 0 => PeriodAccepts(Result, Precision)

\* In the middle of a run, between any two fills of a candle: what the
\* constructors check, money, protection and halt hold together.
RunIsSound == TypeOK /\ MoneyIsAccounted /\ StopCoversPosition /\ HaltHolds
=============================================================================
