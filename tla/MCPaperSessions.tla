---------------------------- MODULE MCPaperSessions ----------------------------
(* An instance of PaperSessions for TLC: a strategy that buys after a rise and  *)
(* sells after a fall, at prices that keep every amount whole.                  *)
EXTENDS PaperSessions

CONSTANTS early, late

Rise == [open |-> 200, close |-> 400]
Fall == [open |-> 400, close |-> 200]
MCCandles == {Rise, Fall}

MCDecide(c, seen, p) ==
    IF Last(seen) = Rise THEN IF p.base < 2 THEN "BUY" ELSE "HOLD"
    ELSE IF p.base > 0 THEN "SELL" ELSE "HOLD"

Base ==
    [capital |-> 2000, makerFee |-> 0, takerFee |-> 10, slippage |-> 10,
     sizing |-> [kind |-> "explicit_quantity", value |-> 0, reserve |-> 0],
     step |-> 1, minQuantity |-> 1, tick |-> 100,
     minNotional |-> 1, maxNotional |-> Unlimited, maxPosition |-> Unlimited,
     maxOpen |-> 3, maxTotal |-> 5, maxOrders |-> 4, maxEvents |-> 40,
     allIn |-> TRUE, reserve |-> 0, haltPct |-> 20, stopPct |-> 0,
     cancelAtEnd |-> FALSE, forceClose |-> FALSE, unit |-> 1,
     start |-> 0, warmup |-> 0, window |-> 2, maxCandles |-> 4, lifecycle |-> 1,
     schema |-> 1, regime |-> None, horizon |-> None]

\* A session with a warmup candle and market regimes, and one that starts after
\* every candle there is.
MCConfig ==
    early :> [Base EXCEPT !.start = 1, !.warmup = 1, !.maxCandles = 3, !.lifecycle = 2,
                          !.schema = 2, !.regime = 2]
    @@ late :> [Base EXCEPT !.start = 4, !.schema = 3, !.horizon = "DAY_TRADE"]

MCSessions == <<early, late>>
ActorSymmetry == Permutations(Actors)
=============================================================================
