---------------------------- MODULE PaperDocuments ----------------------------
(***************************************************************************)
(* What a paper session is made of: its fixed configuration, the batch of   *)
(* candles a cycle replays, the state a replay produces, the summary shown  *)
(* in listings, and the timeline of the portfolio rebuilt from the fills    *)
(* without the strategy. Everything here is a pure function of its          *)
(* arguments; the checks are those readers and writers make.                *)
(*                                                                         *)
(* A candle is [open, close]; times count timeframes. An identity derived   *)
(* by hashing a document is the part of the document that is hashed.        *)
(***************************************************************************)
EXTENDS BacktestRules, Sequences, SequencesExt

CONSTANTS
    None,
    Decide(_, _, _)   \* the strategy: configuration, candles seen, portfolio

-----------------------------------------------------------------------------
(* Configuration *)

ContextStart(c) == c.start - c.warmup

\* PaperSessionConfig; schema 2 brings market regimes, schema 3 the horizon.
ValidPaperConfig(c) ==
    /\ ValidConfig(c) /\ ~c.forceClose /\ ~c.cancelAtEnd
    /\ 0 <= c.warmup /\ c.warmup <= c.window /\ c.window <= c.maxCandles
    /\ c.lifecycle \in {1, 2}
    /\ c.warmup > 0 => c.lifecycle = 2
    /\ c.schema \in 1..3
    /\ c.schema = 1 => c.regime = None
    /\ c.schema = 2 => c.regime # None
    /\ c.schema = 3 <=> c.horizon # None

\* _validate_batch: exactly the candles of the session, from its context start.
BatchFits(c, b) == /\ b.start = ContextStart(c) /\ b.end > c.start
                   /\ Len(b.candles) = b.end - b.start
                   /\ Len(b.candles) \in 1..c.maxCandles

\* _batch_for_state
ForState(b, st) == [b EXCEPT !.version = st.version]

-----------------------------------------------------------------------------
(* Replay *)

Sides == {"BUY", "SELL"}
Market(c, side) == [side |-> side, kind |-> "MARKET", quantity |-> c.unit,
                    tif |-> "GTC", price |-> NoPrice]
Waiting(os) == os # <<>> /\ Last(os).status = "OPEN"
Settle(os, status) == [os EXCEPT ![Len(os)].status = status]

\* One evaluated candle of DeterministicBacktestEngine.run for market orders (the
\* whole engine is module BacktestEngine): the waiting order is filled at the open
\* or cancelled, the close is marked, and the strategy sees the candle.
Evaluate(c, candles, r, n) ==
    LET k == candles[c.warmup + n]
        q == FillOf(c, Market(c, Last(r.orders).side), k.open)
        f == [order |-> Len(r.orders), candle |-> n, side |-> q.side, quantity |-> q.quantity,
              price |-> q.price, notional |-> q.notional, fee |-> q.fee]
        filled == Waiting(r.orders) /\ FillFits(c, f, r.portfolio)
        settled == IF ~Waiting(r.orders) THEN r.orders
                   ELSE Settle(r.orders, IF filled THEN "FILLED" ELSE "CANCELLED")
        p == Marked(IF filled THEN Applied(r.portfolio, f) ELSE r.portfolio, k.close)
        halted == r.halted \/ MustHalt(c, p)
        seen == SubSeq(candles, Max({1, c.warmup + n - c.window + 1}), c.warmup + n)
        side == Decide(c, seen, p)
        accepted == Admitted(c, Market(c, side), p, k.close, 0, Len(settled), halted)
    IN  [orders |-> IF side \notin Sides THEN settled
                    ELSE Append(settled, [side |-> side, created |-> n,
                                          status |-> IF accepted THEN "OPEN" ELSE "REJECTED"]),
         fills |-> IF filled THEN Append(r.fills, f) ELSE r.fills,
         portfolio |-> p,
         halted |-> halted,
         ok |-> r.ok /\ (side \in Sides => Len(settled) < c.maxOrders)]

\* The prefix from nothing: no state is carried from one cycle to the next.
Unplayed(c) == [orders |-> <<>>, fills |-> <<>>, portfolio |-> Flat(c.capital),
                halted |-> FALSE, ok |-> TRUE]
Played(c, candles) ==
    LET days == Len(candles) - c.warmup
        after[n \in 0..days] ==
          IF n = 0 THEN Unplayed(c) ELSE Evaluate(c, candles, after[n - 1], n)
    IN  after[days]

Replay_Cancelling(c, candles) ==
    LET r == Played(c, candles)
    IN  IF Waiting(r.orders) THEN [r EXCEPT !.orders = Settle(@, "CANCELLED")] ELSE r

\* _execute: cancel_open_orders_at_end is FALSE.
Replay(c, candles) == Played(c, candles)

-----------------------------------------------------------------------------
(* State and summary *)

Regime(c, processed) == IF c.regime = None THEN None
                        ELSE IF c.warmup + processed <= c.regime THEN "WARMUP" ELSE "CLASSIFIED"

\* build_paper_session_state
StateOf(s, c, b, r, at) ==
    [session |-> s, version |-> b.version, source |-> b.candles,
     start |-> b.start, from |-> c.start, end |-> b.end,
     processed |-> b.end - c.start, last |-> b.end - 1,
     orders |-> r.orders, fills |-> r.fills, portfolio |-> r.portfolio,
     halted |-> r.halted, regime |-> Regime(c, b.end - c.start),
     schema |-> IF c.regime = None THEN 1 ELSE 2, replayedAt |-> at]

\* The time of the replay is in the checksum of the document, not in its id.
StateId(st) == [st EXCEPT !.replayedAt = None]
Checksum(st) == st

\* _revalidate_orders_and_fills: an order is filled once, and only a filled one.
FillsMatch(os, fs) ==
    /\ \A i, j \in DOMAIN fs : fs[i].order = fs[j].order => i = j
    /\ {fs[i].order : i \in DOMAIN fs} = {i \in DOMAIN os : os[i].status = "FILLED"}

\* validate_paper_session_state
ValidState(st) ==
    /\ st.schema = 1 <=> st.regime = None
    /\ st.start <= st.from /\ st.from <= st.last /\ st.last < st.end
    /\ st.processed >= 1
    /\ FillsMatch(st.orders, st.fills)
    /\ ValidPortfolio(st.portfolio)

\* validate_paper_state_against_config
StateFits(s, c, st) ==
    /\ ValidState(st)
    /\ st.session = s /\ st.start = ContextStart(c) /\ st.from = c.start
    /\ st.schema = IF c.regime = None THEN 1 ELSE 2
    /\ c.regime # None => (st.regime = "WARMUP" <=> c.warmup + st.processed <= c.regime)
    /\ st.end - st.start <= c.maxCandles
    /\ st.processed = st.end - c.start /\ st.last = st.end - 1
    /\ Len(st.orders) <= Min({c.maxOrders, c.maxTotal})
    /\ Len(st.fills) <= Len(st.orders)

\* paper_state_summary
SummaryOf(st) == [checksum |-> Checksum(st), end |-> st.end, last |-> st.last,
                  processed |-> st.processed, orders |-> Len(st.orders),
                  fills |-> Len(st.fills), portfolio |-> st.portfolio,
                  halted |-> st.halted, replayedAt |-> st.replayedAt]

\* validate_paper_state_summary, validate_paper_state_summary_against_config
SummaryFits(c, m) ==
    /\ m.last = m.end - 1 /\ m.end > c.start /\ m.processed = m.end - c.start
    /\ m.orders <= Min({c.maxOrders, c.maxTotal}) /\ m.fills <= m.orders
    /\ ValidPortfolio(m.portfolio)

-----------------------------------------------------------------------------
(* Timeline *)

\* The fills of one candle, in order.
Booked(p, fs, n) ==
    LET after[i \in 0..Len(fs)] ==
          IF i = 0 THEN p
          ELSE IF fs[i].candle = n THEN Applied(after[i - 1], fs[i]) ELSE after[i - 1]
    IN  after[Len(fs)]

\* One close: the fills of its candle, the mark, the halt.
Observe(c, b, st, q, n) ==
    LET k == b.candles[c.warmup + n]
        p == Marked(Booked(q.portfolio, st.fills, n), k.close)
        halted == q.halted \/ MustHalt(c, p)
    IN  [portfolio |-> p, halted |-> halted,
         points |-> Append(q.points, [mark |-> k.close, portfolio |-> p, halted |-> halted])]

Unobserved(c) == [portfolio |-> Flat(c.capital), halted |-> FALSE, points |-> <<>>]
Observed(c, b, st) ==
    LET days == b.end - c.start
        after[n \in 0..days] ==
          IF n = 0 THEN Unobserved(c) ELSE Observe(c, b, st, after[n - 1], n)
    IN  after[days]

\* _validate_batch_against_state
BatchIsOf(b, st) == /\ b.start = st.start /\ b.end = st.end
                    /\ b.version = st.version /\ b.candles = st.source

\* build_paper_portfolio_timeline refuses a state its fills do not lead to.
MayBuildTimeline(s, c, b, st) ==
    /\ StateFits(s, c, st) /\ BatchIsOf(b, st)
    /\ st.processed = b.end - c.start
    /\ \A i \in DOMAIN st.fills : st.fills[i].candle <= st.processed
    /\ LET q == Observed(c, b, st)
       IN  q.portfolio = st.portfolio /\ q.halted = st.halted

TimelineOf(c, b, st) ==
    [session |-> st.session, checksum |-> Checksum(st), version |-> st.version,
     source |-> st.source, start |-> st.start, from |-> st.from, end |-> st.end,
     capital |-> c.capital, processed |-> st.processed,
     points |-> Observed(c, b, st).points]

TimelineId_OfStateId(t) == [t EXCEPT !.checksum = StateId(@)]

\* _timeline_payload is all of it, the checksum of the state included.
TimelineId(t) == t

\* validate_paper_portfolio_timeline
ValidTimeline(t) ==
    /\ t.start <= t.from /\ t.processed >= 1 /\ Len(t.points) = t.processed
    /\ \A n \in DOMAIN t.points :
         LET p == t.points[n].portfolio
         IN  p.equity = t.capital + p.realized + (p.base * t.points[n].mark - p.cost)
=============================================================================
