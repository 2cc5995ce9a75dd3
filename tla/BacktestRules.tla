---------------------------- MODULE BacktestRules ----------------------------
(***************************************************************************)
(* The pure rules of a backtest: what an order would be filled at, how much *)
(* of an intent is sized, what the risk manager admits before an order and  *)
(* again before a fill, where the protective stop stands, and what a fill   *)
(* does to the portfolio.                                                   *)
(*                                                                         *)
(* A configuration c is a record. Money is an integer: the instances choose *)
(* prices whose fees and slippage are whole. A division is Decimal's: it    *)
(* keeps a bounded number of digits, here whole units.                      *)
(***************************************************************************)
EXTENDS Integers, FiniteSetsExt

NoPrice == 0            \* no limit price, no stop price, no quote
Unlimited == 1000000    \* an optional limit that is None

Floor(a, b) == a - (a % b)                \* truncate_quantity, price % tick
Share(a, q, n) == (a * q) \div n        \* a * q / n

-----------------------------------------------------------------------------
(* What the constructors refuse *)

ValidCosts(c) == {c.makerFee, c.takerFee, c.slippage} \subseteq 0..10       \* at most 1000 bps

ValidSizing(s) ==
    /\ s.reserve >= 0
    /\ IF s.kind = "explicit_quantity" THEN s.value = 0 /\ s.reserve = 0
       ELSE s.value > 0 /\ (s.kind = "equity_percent" => s.value <= 100)

ValidConstraints(c) == /\ c.minQuantity > 0 /\ c.step > 0 /\ c.tick > 0
                       /\ c.minNotional >= 0
                       /\ c.maxNotional > 0 /\ c.maxNotional >= c.minNotional

ValidLimits(c) == /\ c.maxPosition > 0
                  /\ 1 <= c.maxOpen /\ c.maxOpen <= c.maxTotal
                  /\ c.haltPct \in (0..100) \cup {Unlimited}
                  /\ c.reserve >= 0

ValidStop(c) == c.stopPct \in 0..99        \* 0: disabled

\* BacktestConfig; a paper session forbids the force close besides.
ValidConfig(c) == /\ ValidCosts(c) /\ ValidSizing(c.sizing) /\ ValidConstraints(c)
                  /\ ValidLimits(c) /\ ValidStop(c)
                  /\ c.capital > 0 /\ c.maxOrders >= 1 /\ c.maxEvents >= 1

\* OrderIntent: a market order carries no trigger price, any other one.
ValidIntent(i) == i.quantity > 0 /\ (i.kind = "MARKET" <=> i.price = NoPrice)

\* PortfolioSnapshot: nothing is negative and a flat portfolio costs nothing.
ValidPortfolio(p) ==
    /\ \A n \in {p.cash, p.base, p.cost, p.fees, p.equity} : n >= 0
    /\ p.base = 0 <=> p.cost = 0
    /\ p.equity <= p.peak

\* Fill
ValidFill(f) == /\ f.quantity > 0 /\ f.price > 0 /\ f.notional > 0 /\ f.fee >= 0
                /\ f.notional = f.quantity * f.price

-----------------------------------------------------------------------------
(* Execution: OHLC fill rules *)

Adverse(c, side, base) ==
    IF side = "BUY" THEN base + (base * c.slippage) \div 100
                    ELSE base - (base * c.slippage) \div 100

\* The price an intent reaches in candle k, before slippage: the open when the
\* candle opens beyond the trigger, the trigger when the candle only touches it.
Touched(i, k) ==
    LET up == IF i.kind = "LIMIT" THEN i.side = "SELL" ELSE i.side = "BUY"
    IN  IF i.kind = "MARKET" THEN k.open
        ELSE IF up THEN IF k.high < i.price THEN NoPrice ELSE Max({k.open, i.price})
                   ELSE IF k.low > i.price THEN NoPrice ELSE Min({k.open, i.price})

Liquidity(i) == IF i.kind = "LIMIT" THEN "MAKER" ELSE "TAKER"
FeeOf(c, liquidity, notional) ==
    (notional * (IF liquidity = "MAKER" THEN c.makerFee ELSE c.takerFee)) \div 100

\* quote, _make_fill: the fill of intent i at base price b.
FillOf(c, i, b) ==
    LET price == IF i.kind = "LIMIT" THEN b ELSE Adverse(c, i.side, b)
        notional == i.quantity * price
    IN  [side |-> i.side, quantity |-> i.quantity, price |-> price,
         notional |-> notional, fee |-> FeeOf(c, Liquidity(i), notional)]

\* _estimated_execution_price
Estimated(c, i, reference) ==
    IF i.kind = "LIMIT" THEN i.price
    ELSE Adverse(c, i.side, IF i.price # NoPrice THEN i.price ELSE reference)

-----------------------------------------------------------------------------
(* Sizing and risk *)

Reserve(c) == IF c.allIn THEN 0 ELSE c.reserve

\* DeterministicPositionSizer.size: sells keep their quantity, buys are bounded
\* by the target and by the cash above the reserve, fee included.
Sized(c, i, p, reference) ==
    IF i.side = "SELL" \/ c.sizing.kind = "explicit_quantity"
    THEN Floor(i.quantity, c.step)
    ELSE LET target == IF c.sizing.kind = "fixed_notional" THEN c.sizing.value
                       ELSE (p.equity * c.sizing.value) \div 100
             held == Max({Reserve(c), c.sizing.reserve})
             rate == IF i.kind = "LIMIT" THEN c.makerFee ELSE c.takerFee
             available == (Max({0, p.cash - held}) * 100) \div (100 + rate)
         IN  Floor(Min({target, available}) \div Estimated(c, i, reference), c.step)

\* The limits on the money of an order or of a fill.
NotionalFits(c, notional) == notional \in c.minNotional..c.maxNotional
CashCovers(c, p, notional, fee) == p.cash - notional - fee >= Reserve(c)
PositionFits(c, value) == value <= c.maxPosition

\* DeterministicRiskManager.evaluate_order
Admitted(c, i, p, reference, openOrders, totalOrders, halted) ==
    LET price == Estimated(c, i, reference)
        notional == i.quantity * price
    IN  /\ ~halted
        /\ openOrders < c.maxOpen
        /\ totalOrders < c.maxTotal
        /\ i.quantity >= c.minQuantity
        /\ i.price % c.tick = 0
        /\ NotionalFits(c, notional)
        /\ IF i.side = "BUY"
           THEN /\ CashCovers(c, p, notional, FeeOf(c, Liquidity(i), notional))
                /\ PositionFits(c, (p.base + i.quantity) * Max({reference, price}))
           ELSE i.quantity <= p.base

FillFits_AtOrder(c, f, p) == NotionalFits(c, f.notional)

\* DeterministicRiskManager.validate_fill: the same limits at the real price.
FillFits(c, f, p) ==
    /\ NotionalFits(c, f.notional)
    /\ IF f.side = "BUY"
       THEN /\ CashCovers(c, p, f.notional, f.fee)
            /\ PositionFits(c, (p.base + f.quantity) * f.price)
       ELSE f.quantity <= p.base

\* drawdown_halt_required
MustHalt(c, p) == c.haltPct # Unlimited
                  /\ (p.peak - p.equity) * 100 >= c.haltPct * p.peak

\* DeterministicStopLossManager.evaluate: a tick-aligned stop below the average
\* entry price. At 0 the engine raises.
StopPrice(c, p) ==
    Floor((((p.cost \div p.base) * (100 - c.stopPct)) \div 100), c.tick)

-----------------------------------------------------------------------------
(* Portfolio: weighted-average cost accounting *)

Flat(capital) == [cash |-> capital, base |-> 0, cost |-> 0, realized |-> 0,
                  fees |-> 0, equity |-> capital, peak |-> capital]

\* mark_to_market: the drawdown is peak - equity.
Marked(p, price) ==
    LET equity == p.cash + p.base * price
    IN  [p EXCEPT !.equity = equity, !.peak = Max({@, equity})]

Bought(p, f) == [p EXCEPT !.cash = @ - f.notional - f.fee, !.base = @ + f.quantity,
                          !.cost = @ + f.notional + f.fee, !.fees = @ + f.fee]

Released(p, f) == IF f.quantity = p.base THEN p.cost
                  ELSE Share(p.cost, f.quantity, p.base)
Sold(p, f) == [p EXCEPT !.cash = @ + f.notional - f.fee, !.base = @ - f.quantity,
                        !.cost = @ - Released(p, f), !.fees = @ + f.fee,
                        !.realized = @ + f.notional - f.fee - Released(p, f)]

\* apply_fill refuses what the portfolio cannot pay or does not hold.
MayApply(p, f) == IF f.side = "BUY" THEN f.notional + f.fee <= p.cash
                                    ELSE f.quantity <= p.base
Applied(p, f) == Marked(IF f.side = "BUY" THEN Bought(p, f) ELSE Sold(p, f), f.price)
=============================================================================
