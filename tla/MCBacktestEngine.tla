-------------------------- MODULE MCBacktestEngine --------------------------
(* Instances of BacktestEngine for TLC. Fees and slippage of 10 % keep every   *)
(* amount whole at prices of 200 and 400.                                      *)
EXTENDS BacktestEngine

Explicit == [kind |-> "explicit_quantity", value |-> 0, reserve |-> 0]

Plain ==
    [capital |-> 2000, makerFee |-> 10, takerFee |-> 10, slippage |-> 10,
     sizing |-> Explicit, step |-> 1, minQuantity |-> 1, tick |-> 100,
     minNotional |-> 1, maxNotional |-> Unlimited, maxPosition |-> Unlimited,
     maxOpen |-> 3, maxTotal |-> 5, maxOrders |-> 4, maxEvents |-> 40,
     allIn |-> FALSE, reserve |-> 1000, haltPct |-> Unlimited, stopPct |-> 0,
     cancelAtEnd |-> TRUE, forceClose |-> FALSE]

\* A protected position and a reserve two buys together would break; what is
\* held at the end is sold, for nothing.
Stopped == [Plain EXCEPT !.maxOpen = 2, !.stopPct = 10, !.takerFee = 0, !.slippage = 0,
              !.forceClose = TRUE]
\* A session: open orders are left, a drawdown halts, buys are sized.
Session == [Plain EXCEPT !.stopPct = 10, !.cancelAtEnd = FALSE, !.haltPct = 5,
              !.makerFee = 0,
              !.sizing = [kind |-> "fixed_notional", value |-> 500, reserve |-> 1100]]
\* No protection, sized by equity, a limit on the position.
Free == [Plain EXCEPT !.cancelAtEnd = FALSE, !.maxOrders = 3, !.maxPosition = 1600,
           !.sizing = [kind |-> "equity_percent", value |-> 30, reserve |-> 0]]
AllConfigs == {Stopped, Session, Free}

Prices == {200, 400}
AllCandles ==
    {k \in [open : Prices, high : Prices, low : Prices, close : Prices] :
        /\ k.low <= k.open /\ k.low <= k.close
        /\ k.high >= k.open /\ k.high >= k.close}

Market(side, q, tif) == [side |-> side, kind |-> "MARKET", quantity |-> q,
                         tif |-> tif, price |-> NoPrice]
Limit(side, q, tif, p) == [side |-> side, kind |-> "LIMIT", quantity |-> q,
                           tif |-> tif, price |-> p]
Stop(side, q, p) == [side |-> side, kind |-> "STOP_MARKET", quantity |-> q,
                     tif |-> "GTC", price |-> p]
AllBatches ==
    {<<>>} \cup
    {<<i>> : i \in {Market("BUY", 2, "GTC"), Market("SELL", 1, "GTC"),
                    Limit("BUY", 1, "GTC", 200), Limit("SELL", 2, "DAY", 400),
                    Limit("BUY", 1, "IOC", 200), Stop("BUY", 1, 400)}}
    \cup {<<Market("BUY", 1, "GTC"), Market("BUY", 2, "GTC")>>}
=============================================================================
