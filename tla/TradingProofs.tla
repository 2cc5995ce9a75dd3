----------------------------- MODULE TradingProofs -----------------------------
(***************************************************************************)
(* What PaperSessions keeps, for any strategy, configurations, candles,     *)
(* processes and bounds; and what BacktestEngine keeps, whatever market and *)
(* strategy do to a run.                                                    *)
(*                                                                          *)
(* A state is a function of its candles: it is what the replay of them      *)
(* gives (Made), and so is its timeline. The replay of more candles goes    *)
(* through the one of fewer, and the timeline, which only has the fills,    *)
(* goes through the same portfolios. Everything else follows from the order *)
(* of the writes of a run, and from the lock of its session (IInv).         *)
(*                                                                          *)
(* A run of the engine rests on the order in which a candle's orders are    *)
(* tried: the stop comes first, so that none of the others is a stop when a *)
(* fill has replaced it (EngineInv).                                        *)
(*                                                                          *)
(* What such a run recorded is what the verifier recomputes, because after  *)
(* every step the replay of the fills is at the portfolio (RecordInv).      *)
(***************************************************************************)
EXTENDS PaperSessions, BacktestEngine, FiniteSetTheorems, SequenceTheorems, TLAPS

-----------------------------------------------------------------------------
(* The inductive invariant *)

Raws == [0..(Horizon - 1) -> RawCandles \cup {None}]
Points == {"idle", "config", "timeline", "reference", "state", "summary", "cycle", "verify",
           "evidence", "accepted", "refused", "outdated"}

SessionsTyped ==
    /\ raw \in Raws /\ corrections \in Nat /\ clock \in Nat /\ faults \in Nat
    /\ disk = [s \in Ids |-> disk[s]] /\ \A s \in Ids : DOMAIN disk[s] = DOMAIN Nothing
    /\ lock \in [Ids -> Actors \cup {None}]
    /\ at = [a \in Actors |-> at[a]] /\ \A a \in Actors : DOMAIN at[a] = DOMAIN Idle
    /\ \A a \in Actors : at[a].pc \in Points /\ at[a].noop \in BOOLEAN
    /\ cycle.index \in Nat

\* The candles a state was made of, and the state they give.
BatchOf(c, st) == [start |-> ContextStart(c), end |-> st.end, version |-> st.version,
                   candles |-> st.source]
Made(s, st) ==
    LET c == ConfigOf[s]
    IN  /\ st \in States /\ st.replayedAt \in Nat
        /\ BatchFits(c, BatchOf(c, st)) /\ StateFits(s, c, st)
        /\ st = StateOf(s, c, BatchOf(c, st), Replay(c, st.source), st.replayedAt)
Story(s, st) == TimelineOf(ConfigOf[s], BatchOf(ConfigOf[s], st), st)

\* The directory d of session s: a state is published after its timeline and the
\* reference to it, a summary after a state.
FolderOK(s, d) ==
    /\ d.state # None => /\ Made(s, d.state)
                         /\ Story(s, d.state) \in d.timelines \cap d.refs
    /\ d.state = None => d.summary = None
    /\ d.summary # None => \E st : Made(s, st) /\ d.summary = SummaryOf(st)
    /\ \A t \in d.timelines \cup d.refs : \E st : Made(s, st) /\ t = Story(s, st)

\* The candles of a state are those of RAW; the last is there whatever happens.
FromRaw(st) ==
    /\ st.end - 1 \in Stored
    /\ corrections = 0 => \A t \in st.start..(st.end - 1) :
                            t \in Stored /\ st.source[t - st.start + 1] = raw[t]

DiskOK(s) ==
    /\ FolderOK(s, disk[s])
    /\ disk[s].state # None => FromRaw(disk[s].state)
    /\ \/ disk[s].state = None \/ disk[s].summary = SummaryOf(disk[s].state) \/ faults > 0
       \/ \E a \in Actors : at[a].pc = "summary" /\ at[a].session = s

\* A process p that publishes into directory d: what comes before is done, and what
\* is published already is older unless the candles were corrected.
Publishing(p) == p.pc \in {"timeline", "reference", "state", "summary"}
PublisherOK(p, d, corrected) ==
    /\ Made(p.session, p.state) /\ p.batch = BatchOf(ConfigOf[p.session], p.state)
    /\ p.pc # "timeline" => Story(p.session, p.state) \in d.timelines
    /\ p.pc \in {"state", "summary"} => Story(p.session, p.state) \in d.refs /\ ~p.noop
    /\ p.pc = "summary" => d.state # None
    /\ p.noop => d.state = p.state
    /\ ~p.noop /\ p.pc # "summary" =>
         \/ d.state = None \/ d.state.end < p.state.end
         \/ corrected /\ d.state.source # p.state.source

\* A verification holds a state that is on the disk, or was and is outgrown.
Verifying(p) == p.pc \in {"verify", "evidence", "accepted", "refused", "outdated"}
Outgrown(p, d) == d.state # None /\ d.state.end > p.state.end
VerifierOK(p, d) ==
    /\ Made(p.session, p.state)
    /\ d.state = p.state \/ Outgrown(p, d)
    /\ p.pc \in {"evidence", "accepted"} => p.batch = BatchOf(ConfigOf[p.session], p.state)
    /\ p.pc = "refused" => p.batch = None \/ p.batch.candles # p.state.source
    /\ p.pc = "outdated" => Outgrown(p, d)

\* What a cycle has of its sessions, in their order.
Results == [session : Ids, status : {"UPDATED", "NOOP", "FAILED"}, state : States \cup {None},
            last : Int \cup {None}]
ResultsFit(rs) ==
    /\ rs \in Seq(Results) /\ Len(rs) <= Len(Sessions)
    /\ \A i \in DOMAIN rs : /\ rs[i].session = Sessions[i]
                            /\ rs[i].status = "FAILED" <=> rs[i].state = None
Writes(p) == p.pc = "config" \/ Publishing(p)
RunnerOK(p) ==
    /\ p.results = None \/ ResultsFit(p.results)
    /\ p.pc = "cycle" => ResultsFit(p.results)
    /\ p.pc = "config" => p.results = None
    /\ Writes(p) /\ p.results # None => /\ Len(p.results) < Len(Sessions)
                                        /\ p.session = Sessions[Len(p.results) + 1]

\* Whoever writes into a directory has its lock.
ActorOK(a) ==
    /\ Writes(at[a]) => at[a].session \in Ids /\ lock[at[a].session] = a
    /\ Publishing(at[a]) => /\ PublisherOK(at[a], disk[at[a].session], corrections > 0)
                            /\ FromRaw(at[a].state)
    /\ Verifying(at[a]) => at[a].session \in Ids /\ VerifierOK(at[a], disk[at[a].session])
    /\ RunnerOK(at[a])

DisksOK == \A s \in Ids : DiskOK(s)
ActorsOK == \A a \in Actors : ActorOK(a)
CycleOK == cycle.index > 0 => ValidCycle(cycle)

IInv == SessionsTyped /\ DisksOK /\ ActorsOK /\ CycleOK

-----------------------------------------------------------------------------
(* Numbers *)

\* A finite set of numbers has a first and a last one.
LEMMA Extremes ==
    ASSUME NEW S \in SUBSET Int, S # {}, IsFiniteSet(S)
    PROVE  /\ Min(S) \in S /\ \A k \in S : Min(S) <= k
           /\ Max(S) \in S /\ \A k \in S : k <= Max(S)
<1> DEFINE Above(m) == {k \in S : k >= m}
           Below(m) == {k \in S : k <= m}
           R == StrictSubsetOrdering(S)
           F == FiniteSubsetsOf(S)
<1>1. IsWellFoundedOn(R, F)
  BY FS_StrictSubsetOrderingWellFounded
<1>2. ASSUME NEW T \in SUBSET S
      PROVE  T \in F
  BY FS_Subset DEF FiniteSubsetsOf
<1>0. \A n \in S : n \in Int
  OBVIOUS
<1>3. \E m \in S : \A k \in S : m >= k
  <2> DEFINE G == {Above(m) : m \in S}
  <2>1. G \subseteq F /\ G # {}
    BY <1>2
  <2>2. PICK x \in G : \A y \in G : ~(<<y, x>> \in R)
    BY <1>1, <2>1, WFMin, Zenon
  <2>3. PICK m \in S : x = Above(m)
    BY <2>2
  <2>4. ASSUME NEW k \in S, ~(m >= k) PROVE FALSE
    <3>1. m \in Above(m) /\ m \notin Above(k)
      BY <1>0, <2>4
    <3>2. Above(k) \subseteq Above(m)
      <4>1. \A n \in S : n >= k => n >= m
        BY <1>0, <2>4
      <4> QED BY <4>1
    <3>3. <<Above(k), x>> \in R
      BY <3>1, <3>2, <2>3 DEF StrictSubsetOrdering
    <3> QED BY <3>3, <2>2
  <2> QED BY <2>4
<1>4. \E m \in S : \A k \in S : m <= k
  <2> DEFINE G == {Below(m) : m \in S}
  <2>1. G \subseteq F /\ G # {}
    BY <1>2
  <2>2. PICK x \in G : \A y \in G : ~(<<y, x>> \in R)
    BY <1>1, <2>1, WFMin, Zenon
  <2>3. PICK m \in S : x = Below(m)
    BY <2>2
  <2>4. ASSUME NEW k \in S, ~(m <= k) PROVE FALSE
    <3>1. m \in Below(m) /\ m \notin Below(k)
      BY <1>0, <2>4
    <3>2. Below(k) \subseteq Below(m)
      <4>1. \A n \in S : n <= k => n <= m
        BY <1>0, <2>4
      <4> QED BY <4>1
    <3>3. <<Below(k), x>> \in R
      BY <3>1, <3>2, <2>3 DEF StrictSubsetOrdering
    <3> QED BY <3>3, <2>2
  <2> QED BY <2>4
<1>5. Max(S) \in S /\ \A k \in S : Max(S) >= k
  BY <1>3, Zenon DEF Max
<1>6. Min(S) \in S /\ \A k \in S : Min(S) <= k
  BY <1>4, Zenon DEF Min
<1> QED BY <1>0, <1>5, <1>6

LEMMA MaxOfTwo ==
    ASSUME NEW a \in Int, NEW b \in Int
    PROVE  Max({a, b}) = IF a <= b THEN b ELSE a
<1>1. {a, b} \in SUBSET Int /\ {a, b} # {} /\ IsFiniteSet({a, b})
  <2>1. IsFiniteSet({a}) /\ IsFiniteSet({b})
    BY FS_Singleton
  <2>2. {a, b} = {a} \cup {b}
    OBVIOUS
  <2> QED BY <2>1, <2>2, FS_Union
<1>2. Max({a, b}) \in {a, b} /\ \A k \in {a, b} : k <= Max({a, b})
  BY <1>1, Extremes, Zenon
<1> QED BY <1>2

\* What holds at 0, and after n whenever at n, holds up to k.
LEMMA UpTo ==
    ASSUME NEW k \in Nat, NEW S, 0 \in S,
           ASSUME NEW n \in 0..(k - 1), n \in S PROVE n + 1 \in S
    PROVE  0..k \subseteq S
<1> DEFINE D == (0..k) \ S
<1>1. SUFFICES ASSUME D # {} PROVE FALSE
  OBVIOUS
<1>2. D \in SUBSET Int /\ IsFiniteSet(D)
  <2>1. IsFiniteSet(0..k)
    BY FS_Interval
  <2> QED BY <2>1, FS_Subset
<1>3. Min(D) \in D /\ \A j \in D : Min(D) <= j
  <2> HIDE DEF D
  <2> QED BY <1>1, <1>2, Extremes
<1>4. PICK m : m = Min(D)
  OBVIOUS
<1>5. m \in 0..k /\ m \notin S
  BY <1>3, <1>4
<1>6. m - 1 \in 0..(k - 1)
  BY <1>5
<1>7. m - 1 \in S
  <2>1. m - 1 \in 0..k /\ ~(m <= m - 1)
    BY <1>5, <1>6
  <2> QED BY <2>1, <1>3, <1>4
<1>8. (m - 1) + 1 \in S
  BY <1>6, <1>7
<1> QED BY <1>5, <1>8

-----------------------------------------------------------------------------
(* A computation candle by candle *)

\* Steps within R, one for each number, make a table of their results.
Iterates(k, R, base, G, f) ==
    f \in [0..k -> R] /\ f[0] = base /\ \A n \in 1..k : f[n] = G[n][f[n - 1]]

LEMMA Unfolds ==
    ASSUME NEW k \in Nat, NEW R, NEW base \in R, NEW G \in [1..k -> [R -> R]]
    PROVE  \E f : Iterates(k, R, base, G, f)
<1> DEFINE Upto(m, f) == f[0] = base /\ \A n \in 1..m : f[n] = G[n][f[n - 1]]
           S == {m \in 0..k : \E f \in [0..m -> R] : Upto(m, f)}
<1>1. 0 \in S
  <2> DEFINE f == [n \in 0..0 |-> base]
  <2>1. f \in [0..0 -> R] /\ Upto(0, f)
    OBVIOUS
  <2>2. \E h \in [0..0 -> R] : Upto(0, h)
    <3> HIDE DEF f, Upto
    <3> QED BY <2>1
  <2> QED BY <2>2
<1>2. ASSUME NEW m \in 0..(k - 1), m \in S PROVE m + 1 \in S
  <2>1. PICK f \in [0..m -> R] : Upto(m, f)
    BY <1>2
  <2> DEFINE g == [n \in 0..(m + 1) |-> IF n <= m THEN f[n] ELSE G[m + 1][f[m]]]
  <2>2. m \in Int /\ m + 1 \in 1..k /\ f[m] \in R /\ G[m + 1] \in [R -> R]
    OBVIOUS
  <2>3. g \in [0..(m + 1) -> R]
    BY <2>2
  <2>4. g[0] = base
    BY <2>1, <2>2
  <2>5. ASSUME NEW n \in 1..(m + 1) PROVE g[n] = G[n][g[n - 1]]
    <3>1. CASE n <= m
      <4>1. n \in 1..m /\ n - 1 \in 0..m /\ n - 1 <= m
        BY <2>2, <3>1
      <4>2. g[n] = f[n] /\ g[n - 1] = f[n - 1]
        BY <4>1, <3>1
      <4> QED BY <4>1, <4>2, <2>1
    <3>2. CASE n = m + 1
      <4>1. n - 1 = m /\ m \in 0..(m + 1) /\ m <= m
        BY <2>2, <3>2
      <4> QED BY <4>1, <3>2, <2>2
    <3> QED BY <2>2, <3>1, <3>2
  <2>6. m + 1 \in 0..k
    BY <2>2
  <2> QED BY <2>3, <2>4, <2>5, <2>6
<1>3. 0..k \subseteq S
  <2> HIDE DEF S
  <2> QED BY <1>1, <1>2, UpTo
<1>4. k \in S
  BY <1>3
<1> QED BY <1>4 DEF Iterates

-----------------------------------------------------------------------------
(* One candle of a replay *)

Configured(c) == /\ ValidPaperConfig(c)
                 /\ {c.start, c.window, c.maxCandles, c.warmup, c.capital} \subseteq Nat
                 /\ c.unit \in Nat \ {0}
Bars == [open : Nat, close : Nat]

\* What a replay has after a candle.
Progress == [orders : Seq(Orders), fills : Seq(Fills), portfolio : Portfolios,
             halted : BOOLEAN, ok : BOOLEAN]

\* The parts of Evaluate: the fill of the waiting order at candle k, whether it is
\* made, the orders and the portfolio after it.
Offer(c, r, n, k) ==
    LET q == FillOf(c, Market(c, Last(r.orders).side), k.open)
    IN  [order |-> Len(r.orders), candle |-> n, side |-> q.side, quantity |-> q.quantity,
         price |-> q.price, notional |-> q.notional, fee |-> q.fee]
Accepts(c, r, n, k) == Waiting(r.orders) /\ FillFits(c, Offer(c, r, n, k), r.portfolio)
Settling(c, r, n, k) ==
    IF ~Waiting(r.orders) THEN r.orders
    ELSE Settle(r.orders, IF Accepts(c, r, n, k) THEN "FILLED" ELSE "CANCELLED")
Booking(c, r, n, k) ==
    Marked(IF Accepts(c, r, n, k) THEN Applied(r.portfolio, Offer(c, r, n, k)) ELSE r.portfolio,
           k.close)
Offered(c, candles, n, p) ==
    Decide(c, SubSeq(candles, Max({1, c.warmup + n - c.window + 1}), c.warmup + n), p)

Composed(c, candles, r, n, e, k) ==
    LET side == Offered(c, candles, n, e.portfolio)
        os == Settling(c, r, n, k)
    IN  /\ e = [orders |-> e.orders, fills |-> e.fills, portfolio |-> e.portfolio,
                halted |-> e.halted, ok |-> e.ok]
        /\ e.fills = IF Accepts(c, r, n, k) THEN Append(r.fills, Offer(c, r, n, k)) ELSE r.fills
        /\ e.portfolio = Booking(c, r, n, k)
        /\ e.halted = (r.halted \/ MustHalt(c, e.portfolio))
        /\ e.orders = IF side \notin Sides THEN os
                      ELSE Append(os, [side |-> side, created |-> n,
                                       status |-> IF Admitted(c, Market(c, side), e.portfolio,
                                                              k.close, 0, Len(os), e.halted)
                                                  THEN "OPEN" ELSE "REJECTED"])
        /\ e.ok = (r.ok /\ (side \in Sides => Len(os) < c.maxOrders))

LEMMA EvaluateIs ==
    ASSUME NEW c, NEW candles, NEW r, NEW n
    PROVE  Composed(c, candles, r, n, Evaluate(c, candles, r, n), candles[c.warmup + n])
  BY DEF Composed, Evaluate, Offer, Accepts, Settling, Booking, Offered

LEMMA OfferIs ==
    ASSUME NEW c, NEW r, NEW n, NEW k
    PROVE  Offer(c, r, n, k) =
             LET side == Last(r.orders).side
                 price == Adverse(c, side, k.open)
             IN  [order |-> Len(r.orders), candle |-> n, side |-> side, quantity |-> c.unit,
                  price |-> price, notional |-> c.unit * price,
                  fee |-> FeeOf(c, "TAKER", c.unit * price)]
<1> DEFINE side == Last(r.orders).side
           price == Adverse(c, side, k.open)
<1>1. FillOf(c, Market(c, side), k.open) =
        [side |-> side, quantity |-> c.unit, price |-> price, notional |-> c.unit * price,
         fee |-> FeeOf(c, "TAKER", c.unit * price)]
  BY DEF FillOf, Market, Liquidity
<1> QED BY <1>1 DEF Offer

\* Prices, fees and portfolios are integers.
LEMMA CostsTyped ==
    ASSUME NEW c, Configured(c)
    PROVE  /\ c.makerFee \in 0..10 /\ c.takerFee \in 0..10 /\ c.slippage \in 0..10
           /\ c.start \in Nat /\ c.window \in Nat /\ c.maxCandles \in Nat /\ c.warmup \in Nat
           /\ c.capital \in Nat /\ c.unit \in Nat \ {0}
           /\ ContextStart(c) \in Int
  BY DEF Configured, ValidPaperConfig, ValidConfig, ValidCosts, ContextStart

LEMMA AdverseTyped ==
    ASSUME NEW c, Configured(c), NEW side, NEW base \in Nat
    PROVE  Adverse(c, side, base) \in Int
<1>1. c.slippage \in Int
  BY CostsTyped
<1>2. base * c.slippage \in Int
  BY <1>1
<1>3. (base * c.slippage) \div 100 \in Int
  BY <1>2
<1> QED BY <1>3 DEF Adverse

LEMMA FeeTyped ==
    ASSUME NEW c, Configured(c), NEW notional \in Int
    PROVE  FeeOf(c, "TAKER", notional) \in Int
<1>1. c.takerFee \in Int
  BY CostsTyped
<1>2. notional * c.takerFee \in Int
  BY <1>1
<1>3. (notional * c.takerFee) \div 100 \in Int
  BY <1>2
<1> QED BY <1>3 DEF FeeOf

LEMMA MarkedTyped ==
    ASSUME NEW p \in Portfolios, NEW price \in Int
    PROVE  /\ Marked(p, price) \in Portfolios
           /\ Marked(p, price).cash = p.cash /\ Marked(p, price).base = p.base
           /\ Marked(p, price).cost = p.cost /\ Marked(p, price).realized = p.realized
           /\ Marked(p, price).equity = p.cash + p.base * price
<1> DEFINE worth == p.cash + p.base * price
           top == Max({p.peak, worth})
<1>1. worth \in Int /\ p.peak \in Int
  BY DEF Portfolios
<1>2. top \in Int
  <2> HIDE DEF worth
  <2> QED BY <1>1, MaxOfTwo
<1>3. Marked(p, price) = [p EXCEPT !.equity = worth, !.peak = top]
  BY DEF Marked
<1> HIDE DEF worth, top
<1> DEFINE m == [p EXCEPT !.equity = worth, !.peak = top]
<1>4. m \in Portfolios
  BY <1>1, <1>2 DEF Portfolios
<1>5. /\ m.cash = p.cash /\ m.base = p.base /\ m.cost = p.cost /\ m.realized = p.realized /\ m.equity = worth
  BY DEF Portfolios
<1> QED BY <1>3, <1>4, <1>5 DEF worth

\* What the portfolio is worth at cost is the capital and what was realized.
Balanced(capital, p) == p.cash + p.cost = capital + p.realized

LEMMA AppliedTyped ==
    ASSUME NEW p \in Portfolios, NEW f, f.side \in Sides, f.quantity \in Nat \ {0},
           f.price \in Int, f.notional \in Int, f.fee \in Int,
           f.side = "SELL" => f.quantity <= p.base,
           NEW capital \in Int
    PROVE  /\ Applied(p, f) \in Portfolios
           /\ Balanced(capital, p) => Balanced(capital, Applied(p, f))
<1>0. /\ p.cash \in Int /\ p.base \in Int /\ p.cost \in Int /\ p.realized \in Int
      /\ p.fees \in Int /\ p.equity \in Int /\ p.peak \in Int
  BY DEF Portfolios
<1>1. CASE f.side = "BUY"
  <2>0. PICK x, y, z, u : /\ x = p.cash - f.notional - f.fee /\ y = p.base + f.quantity
                          /\ z = p.cost + f.notional + f.fee /\ u = p.fees + f.fee
    OBVIOUS
  <2> DEFINE b == [p EXCEPT !.cash = x, !.base = y, !.cost = z, !.fees = u]
  <2>1. b = Bought(p, f)
    BY <2>0 DEF Bought
  <2>2. b \in Portfolios
    <3>1. x \in Int /\ y \in Int /\ z \in Int /\ u \in Int
      BY <1>0, <2>0
    <3> QED BY <3>1 DEF Portfolios
  <2>3. b.cash + b.cost = p.cash + p.cost /\ b.realized = p.realized
    <3>1. b.cash = x /\ b.cost = z /\ b.realized = p.realized
      BY DEF Portfolios
    <3> HIDE DEF b
    <3> QED BY <1>0, <2>0, <3>1
  <2>4. Applied(p, f) = Marked(b, f.price)
    BY <1>1, <2>1 DEF Applied
  <2> HIDE DEF b
  <2>5. /\ Applied(p, f) \in Portfolios
        /\ Applied(p, f).cash = b.cash /\ Applied(p, f).cost = b.cost
        /\ Applied(p, f).realized = b.realized
    <3>1. f.price \in Int
      OBVIOUS
    <3>2. PICK m : m = Marked(b, f.price)
      OBVIOUS
    <3>3. m \in Portfolios
      BY <2>2, <3>1, <3>2, MarkedTyped
    <3>4. m.cash = b.cash /\ m.cost = b.cost
      BY <2>2, <3>1, <3>2, MarkedTyped
    <3>5. m.realized = b.realized
      BY <2>2, <3>1, <3>2, MarkedTyped
    <3>6. m = Applied(p, f)
      BY <2>4, <3>2
    <3> QED BY <3>3, <3>4, <3>5, <3>6
  <2> QED BY <2>3, <2>5 DEF Balanced
<1>2. CASE f.side # "BUY"
  <2>7. PICK q : q = Released(p, f)
    OBVIOUS
  <2>0. q \in Int
    <3>1. p.base \in Int /\ p.base > 0
      BY <1>0, <1>2 DEF Sides
    <3>2. p.cost * f.quantity \in Int
      BY <1>0
    <3>3. (p.cost * f.quantity) \div p.base \in Int
      BY <3>1, <3>2
    <3> QED BY <3>3, <2>7, <1>0 DEF Released, Share
  <2>9. PICK x, y, z, u, v : /\ x = p.cash + f.notional - f.fee /\ y = p.base - f.quantity
                             /\ z = p.cost - q /\ u = p.fees + f.fee
                             /\ v = p.realized + f.notional - f.fee - q
    OBVIOUS
  <2> DEFINE b == [p EXCEPT !.cash = x, !.base = y, !.cost = z, !.fees = u, !.realized = v]
  <2>1. b = Sold(p, f)
    BY <2>7, <2>9 DEF Sold
  <2>2. b \in Portfolios
    <3>1. x \in Int /\ y \in Int /\ z \in Int /\ u \in Int /\ v \in Int
      BY <1>0, <2>0, <2>9
    <3> QED BY <3>1 DEF Portfolios
  <2>3. b.cash + b.cost = p.cash + p.cost + (b.realized - p.realized)
    <3>1. b.cash = x /\ b.cost = z /\ b.realized = v
      BY DEF Portfolios
    <3> HIDE DEF b
    <3> QED BY <1>0, <2>0, <2>9, <3>1
  <2>4. Applied(p, f) = Marked(b, f.price)
    BY <1>2, <2>1 DEF Applied
  <2> HIDE DEF b
  <2>5. b.cash \in Int /\ b.cost \in Int /\ b.realized \in Int
    BY <2>2 DEF Portfolios
  <2>6. Balanced(capital, p) => Balanced(capital, b)
    BY <1>0, <2>3, <2>5 DEF Balanced
  <2>8. /\ Applied(p, f) \in Portfolios
        /\ Applied(p, f).cash = b.cash /\ Applied(p, f).cost = b.cost
        /\ Applied(p, f).realized = b.realized
    <3>1. f.price \in Int
      OBVIOUS
    <3>2. PICK m : m = Marked(b, f.price)
      OBVIOUS
    <3>3. m \in Portfolios
      BY <2>2, <3>1, <3>2, MarkedTyped
    <3>4. m.cash = b.cash /\ m.cost = b.cost
      BY <2>2, <3>1, <3>2, MarkedTyped
    <3>5. m.realized = b.realized
      BY <2>2, <3>1, <3>2, MarkedTyped
    <3>6. m = Applied(p, f)
      BY <2>4, <3>2
    <3> QED BY <3>3, <3>4, <3>5, <3>6
  <2> QED BY <2>6, <2>8 DEF Balanced
<1> QED BY <1>1, <1>2

\* What an accepted fill is made of.
LEMMA OfferKeeps ==
    ASSUME NEW c, Configured(c), NEW r \in Progress, NEW n \in Nat, NEW k \in Bars,
           Waiting(r.orders)
    PROVE  LET f == Offer(c, r, n, k)
           IN  /\ f \in Fills /\ f.candle = n /\ f.quantity \in Nat \ {0} /\ f.side \in Sides
               /\ Accepts(c, r, n, k) /\ f.side = "SELL" => f.quantity <= r.portfolio.base
<1>1. r.orders \in Seq(Orders) /\ r.orders # <<>>
  BY DEF Progress, Waiting
<1>2. Last(r.orders) \in Orders /\ Len(r.orders) \in Nat
  BY <1>1 DEF Last
<1>3. PICK side : side = Last(r.orders).side /\ side \in Sides
  BY <1>2 DEF Orders
<1>4. PICK price : price = Adverse(c, side, k.open) /\ price \in Int
  BY <1>3, AdverseTyped DEF Bars
<1>5. PICK notional : notional = c.unit * price /\ notional \in Int
  BY <1>4, CostsTyped
<1>6. PICK fee : fee = FeeOf(c, "TAKER", notional) /\ fee \in Int
  BY <1>5, FeeTyped
<1>7. PICK f : f = Offer(c, r, n, k)
  OBVIOUS
<1>8. f = [order |-> Len(r.orders), candle |-> n, side |-> side, quantity |-> c.unit,
           price |-> price, notional |-> notional, fee |-> fee]
  BY <1>3, <1>4, <1>5, <1>6, <1>7, OfferIs
<1>9. c.unit \in Nat \ {0}
  BY CostsTyped
<1>10. /\ f \in Fills /\ f.candle = n /\ f.quantity \in Nat \ {0} /\ f.side \in Sides
  BY <1>2, <1>3, <1>4, <1>5, <1>6, <1>8, <1>9 DEF Fills
<1>11. Accepts(c, r, n, k) /\ f.side = "SELL" => f.quantity <= r.portfolio.base
  BY <1>7 DEF Accepts, FillFits
<1> QED BY <1>7, <1>10, <1>11

\* Only the waiting order is settled.
LEMMA SettlingKeeps ==
    ASSUME NEW c, NEW r \in Progress, NEW n, NEW k
    PROVE  /\ Settling(c, r, n, k) \in Seq(Orders)
           /\ Len(Settling(c, r, n, k)) = Len(r.orders)
           /\ \A i \in DOMAIN r.orders :
                r.orders[i].status # "OPEN" => Settling(c, r, n, k)[i] = r.orders[i]
<1>1. r.orders \in Seq(Orders)
  BY DEF Progress
<1>2. CASE ~Waiting(r.orders)
  BY <1>1, <1>2 DEF Settling
<1>3. CASE Waiting(r.orders)
  <2>1. PICK m : m = Len(r.orders)
    OBVIOUS
  <2>2. m \in 1..Len(r.orders) /\ r.orders[m].status = "OPEN" /\ r.orders[m] \in Orders
    BY <1>1, <1>3, <2>1 DEF Waiting, Last
  <2>3. PICK status : /\ status \in {"FILLED", "CANCELLED"}
                      /\ Settling(c, r, n, k) = [r.orders EXCEPT ![m].status = status]
    BY <1>3, <2>1 DEF Settling, Settle
  <2>4. [r.orders[m] EXCEPT !.status = status] \in Orders
    BY <2>2, <2>3 DEF Orders
  <2>5. Settling(c, r, n, k) = [r.orders EXCEPT ![m] = [r.orders[m] EXCEPT !.status = status]]
    BY <2>3
  <2>6. PICK o \in Orders : Settling(c, r, n, k) = [r.orders EXCEPT ![m] = o]
    BY <2>4, <2>5
  <2> QED BY <1>1, <2>2, <2>6
<1> QED BY <1>2, <1>3

\* What one candle adds: at most one fill, at most one order; the rest stands.
Follows(c, r, e, n, k) ==
    /\ e \in Progress
    /\ e.fills = IF Accepts(c, r, n, k) THEN Append(r.fills, Offer(c, r, n, k)) ELSE r.fills
    /\ e.portfolio = Booking(c, r, n, k)
    /\ e.halted = (r.halted \/ MustHalt(c, e.portfolio))
    /\ Accepts(c, r, n, k) => Offer(c, r, n, k) \in Fills /\ Offer(c, r, n, k).candle = n
    /\ Balanced(c.capital, r.portfolio) => Balanced(c.capital, e.portfolio)
    /\ e.portfolio.equity = e.portfolio.cash + e.portfolio.base * k.close
    /\ Len(r.orders) <= Len(e.orders)
    /\ \A i \in DOMAIN r.orders : r.orders[i].status # "OPEN" => e.orders[i] = r.orders[i]

LEMMA EvaluateKeeps ==
    ASSUME NEW c, Configured(c), NEW candles, NEW r \in Progress, NEW n \in Nat,
           candles[c.warmup + n] \in Bars
    PROVE  Follows(c, r, Evaluate(c, candles, r, n), n, candles[c.warmup + n])
<1>1. PICK k : k = candles[c.warmup + n] /\ k \in Bars
  OBVIOUS
<1>2. PICK e : e = Evaluate(c, candles, r, n)
  OBVIOUS
<1>0. Composed(c, candles, r, n, e, k)
  BY <1>1, <1>2, EvaluateIs
<1>3. /\ e.fills = IF Accepts(c, r, n, k) THEN Append(r.fills, Offer(c, r, n, k)) ELSE r.fills
      /\ e.portfolio = Booking(c, r, n, k)
      /\ e.halted = (r.halted \/ MustHalt(c, e.portfolio))
  BY <1>0 DEF Composed
<1>4. PICK f : f = Offer(c, r, n, k)
  OBVIOUS
<1>5. r.orders \in Seq(Orders) /\ r.fills \in Seq(Fills) /\ r.portfolio \in Portfolios
      /\ r.halted \in BOOLEAN /\ r.ok \in BOOLEAN
  BY DEF Progress
<1>6. Accepts(c, r, n, k) =>
        /\ f \in Fills /\ f.candle = n /\ f.quantity \in Nat \ {0} /\ f.side \in Sides
        /\ f.side = "SELL" => f.quantity <= r.portfolio.base
  <2>1. SUFFICES ASSUME Accepts(c, r, n, k)
                 PROVE  /\ f \in Fills /\ f.candle = n /\ f.quantity \in Nat \ {0}
                        /\ f.side \in Sides
                        /\ f.side = "SELL" => f.quantity <= r.portfolio.base
    OBVIOUS
  <2>2. Waiting(r.orders)
    BY <2>1 DEF Accepts
  <2> QED BY <1>1, <1>4, <2>1, <2>2, OfferKeeps
<1>7. e.fills \in Seq(Fills)
  BY <1>3, <1>4, <1>5, <1>6
<1>8. /\ e.portfolio \in Portfolios
      /\ Balanced(c.capital, r.portfolio) => Balanced(c.capital, e.portfolio)
      /\ e.portfolio.equity = e.portfolio.cash + e.portfolio.base * k.close
  <2>1. k.close \in Int /\ c.capital \in Int
    BY <1>1, CostsTyped DEF Bars
  <2>2. PICK p : p = IF Accepts(c, r, n, k) THEN Applied(r.portfolio, f) ELSE r.portfolio
    OBVIOUS
  <2>3. /\ p \in Portfolios
        /\ Balanced(c.capital, r.portfolio) => Balanced(c.capital, p)
    <3>1. CASE Accepts(c, r, n, k)
      <4>1. /\ f.side \in Sides /\ f.quantity \in Nat \ {0} /\ f.price \in Int
            /\ f.notional \in Int /\ f.fee \in Int
            /\ f.side = "SELL" => f.quantity <= r.portfolio.base
        BY <1>6, <3>1 DEF Fills
      <4> QED BY <4>1, <2>1, <2>2, <3>1, <1>5, AppliedTyped
    <3>2. CASE ~Accepts(c, r, n, k)
      BY <3>2, <2>2, <1>5
    <3> QED BY <3>1, <3>2
  <2>4. e.portfolio = Marked(p, k.close)
    BY <1>3, <1>4, <2>2 DEF Booking
  <2>5. /\ e.portfolio \in Portfolios
        /\ e.portfolio.cash = p.cash /\ e.portfolio.base = p.base
    BY <2>1, <2>3, <2>4, MarkedTyped
  <2>6. /\ e.portfolio.cost = p.cost /\ e.portfolio.realized = p.realized
        /\ e.portfolio.equity = p.cash + p.base * k.close
    BY <2>1, <2>3, <2>4, MarkedTyped
  <2> QED BY <2>3, <2>5, <2>6 DEF Balanced
<1>9. e.halted \in BOOLEAN /\ e.ok \in BOOLEAN
  <2>1. e.halted \in BOOLEAN
    BY <1>3
  <2>2. e.ok = (r.ok /\ (Offered(c, candles, n, e.portfolio) \in Sides
                         => Len(Settling(c, r, n, k)) < c.maxOrders))
    BY <1>0 DEF Composed
  <2> QED BY <2>1, <2>2
<1>10. PICK os : os = Settling(c, r, n, k)
  OBVIOUS
<1>11. /\ os \in Seq(Orders) /\ Len(os) = Len(r.orders)
       /\ \A i \in DOMAIN r.orders : r.orders[i].status # "OPEN" => os[i] = r.orders[i]
  BY <1>10, SettlingKeeps
<1>12. PICK side, admitted :
         e.orders = IF side \notin Sides THEN os
                    ELSE Append(os, [side |-> side, created |-> n,
                                     status |-> IF admitted = TRUE THEN "OPEN" ELSE "REJECTED"])
  <2>1. PICK side : side = Offered(c, candles, n, e.portfolio)
    OBVIOUS
  <2>2. PICK admitted : admitted = (Admitted(c, Market(c, side), e.portfolio, k.close, 0, Len(os),
                                             e.halted) = TRUE)
    OBVIOUS
  <2>3. Admitted(c, Market(c, side), e.portfolio, k.close, 0, Len(os), e.halted) \in BOOLEAN
    BY DEF Admitted
  <2>4. e.orders = IF side \notin Sides THEN os
                   ELSE Append(os, [side |-> side, created |-> n,
                                    status |-> IF Admitted(c, Market(c, side), e.portfolio, k.close,
                                                           0, Len(os), e.halted)
                                               THEN "OPEN" ELSE "REJECTED"])
    BY <1>0, <1>10, <2>1 DEF Composed
  <2> QED BY <2>2, <2>3, <2>4
<1>13. /\ e.orders \in Seq(Orders) /\ Len(r.orders) <= Len(e.orders)
       /\ \A i \in DOMAIN r.orders : r.orders[i].status # "OPEN" => e.orders[i] = r.orders[i]
  <2>1. CASE side \notin Sides
    <3>1. e.orders = os
      BY <1>12, <2>1
    <3> QED BY <3>1, <1>5, <1>11
  <2>2. CASE side \in Sides
    <3>1. PICK o \in Orders : e.orders = Append(os, o)
      BY <1>12, <2>2 DEF Orders
    <3>2. \A i \in DOMAIN r.orders : i \in DOMAIN os /\ Append(os, o)[i] = os[i]
      BY <1>5, <1>11
    <3>3. Append(os, o) \in Seq(Orders) /\ Len(Append(os, o)) = Len(r.orders) + 1
      BY <1>11
    <3> QED BY <3>1, <3>2, <3>3, <1>5, <1>11
  <2> QED BY <2>1, <2>2
<1>14. e \in Progress
  <2>1. e = [orders |-> e.orders, fills |-> e.fills, portfolio |-> e.portfolio,
             halted |-> e.halted, ok |-> e.ok]
    BY <1>0 DEF Composed
  <2> QED BY <2>1, <1>7, <1>8, <1>9, <1>13 DEF Progress
<1> QED BY <1>1, <1>2, <1>3, <1>4, <1>6, <1>8, <1>13, <1>14 DEF Follows

-----------------------------------------------------------------------------
(* A replay *)

Days(c, candles) == Len(candles) - c.warmup
Playable(c, candles) == candles \in Seq(Bars) /\ c.warmup < Len(candles)

\* What a replay has after each of its candles.
Plays(c, candles, f) ==
    f = [n \in 0..Days(c, candles) |-> IF n = 0 THEN Unplayed(c)
                                       ELSE Evaluate(c, candles, f[n - 1], n)]
PlayOf(c, candles) == CHOOSE f : Plays(c, candles, f)

LEMMA PlayedIs ==
    ASSUME NEW c, NEW candles
    PROVE  Played(c, candles) = PlayOf(c, candles)[Days(c, candles)]
  BY DEF Played, PlayOf, Plays, Days

LEMMA UnplayedTyped ==
    ASSUME NEW c, Configured(c)
    PROVE  Unplayed(c) \in Progress /\ Balanced(c.capital, Unplayed(c).portfolio)
<1>1. c.capital \in Int
  BY CostsTyped
<1>2. Flat(c.capital) \in Portfolios
  BY <1>1 DEF Flat, Portfolios
<1>3. Balanced(c.capital, Flat(c.capital))
  BY <1>1 DEF Flat, Balanced
<1> QED BY <1>2, <1>3 DEF Unplayed, Progress

LEMMA DaysTyped ==
    ASSUME NEW c, Configured(c), NEW candles, Playable(c, candles)
    PROVE  /\ Days(c, candles) \in Nat \ {0}
           /\ \A n \in 1..Days(c, candles) :
                c.warmup + n \in 1..Len(candles) /\ candles[c.warmup + n] \in Bars
<1>1. c.warmup \in Nat /\ Len(candles) \in Nat /\ candles \in Seq(Bars)
  BY CostsTyped DEF Playable
<1>2. \A n \in 1..Days(c, candles) : c.warmup + n \in 1..Len(candles)
  BY <1>1 DEF Days
<1> QED BY <1>1, <1>2 DEF Days, Playable

LEMMA PlayIs ==
    ASSUME NEW c, Configured(c), NEW candles, Playable(c, candles)
    PROVE  /\ PlayOf(c, candles) \in [0..Days(c, candles) -> Progress]
           /\ PlayOf(c, candles)[0] = Unplayed(c)
           /\ \A n \in 1..Days(c, candles) :
                PlayOf(c, candles)[n] = Evaluate(c, candles, PlayOf(c, candles)[n - 1], n)
<1>1. PICK k \in Nat \ {0} : k = Days(c, candles)
  BY DaysTyped
<1> DEFINE G == [n \in 1..k |-> [r \in Progress |-> Evaluate(c, candles, r, n)]]
           Unfolded(f) == f = [n \in 0..k |-> IF n = 0 THEN Unplayed(c)
                                              ELSE Evaluate(c, candles, f[n - 1], n)]
<1>2. ASSUME NEW n \in 1..k, NEW r \in Progress
      PROVE  Evaluate(c, candles, r, n) \in Progress
  <2>1. candles[c.warmup + n] \in Bars
    BY <1>1, DaysTyped
  <2>2. Follows(c, r, Evaluate(c, candles, r, n), n, candles[c.warmup + n])
    BY <2>1, EvaluateKeeps
  <2> QED BY <2>2 DEF Follows
<1>3. G \in [1..k -> [Progress -> Progress]]
  BY <1>2
<1>4. PICK f : Iterates(k, Progress, Unplayed(c), G, f)
  <2>1. Unplayed(c) \in Progress /\ k \in Nat
    BY UnplayedTyped
  <2> HIDE DEF G
  <2> QED BY <2>1, <1>3, Unfolds
<1>5. \A n \in 1..k : n - 1 \in 0..k /\ f[n - 1] \in Progress
  BY <1>1, <1>4 DEF Iterates
<1>6. \A n \in 1..k : f[n] = Evaluate(c, candles, f[n - 1], n)
  BY <1>4, <1>5 DEF Iterates
<1>7. Unfolded(f)
  <2>1. \A n \in 0..k : n = 0 \/ n \in 1..k
    BY <1>1
  <2>2. \A n \in 0..k : f[n] = IF n = 0 THEN Unplayed(c) ELSE Evaluate(c, candles, f[n - 1], n)
    BY <2>1, <1>1, <1>4, <1>6 DEF Iterates
  <2>3. f = [n \in 0..k |-> f[n]]
    BY <1>4 DEF Iterates
  <2> QED BY <2>2, <2>3
<1>8. PICK t : t = PlayOf(c, candles)
  OBVIOUS
<1>9. Unfolded(t)
  <2>1. t = CHOOSE g : Unfolded(g)
    BY <1>1, <1>8 DEF PlayOf, Plays
  <2> HIDE DEF Unfolded
  <2> QED BY <2>1, <1>7
<1>10. /\ DOMAIN t = 0..k /\ t[0] = Unplayed(c)
       /\ \A n \in 1..k : t[n] = Evaluate(c, candles, t[n - 1], n)
  <2>1. 0 \in 0..k /\ \A n \in 1..k : n \in 0..k /\ n # 0
    BY <1>1
  <2>2. DOMAIN t = 0..k
    BY <1>9
  <2>3. \A n \in 0..k : t[n] = IF n = 0 THEN Unplayed(c) ELSE Evaluate(c, candles, t[n - 1], n)
    BY <1>9
  <2> QED BY <2>1, <2>2, <2>3
<1> DEFINE S == {n \in 0..k : t[n] \in Progress}
<1>11. 0..k \subseteq S
  <2>1. 0 \in S
    BY <1>1, <1>10, UnplayedTyped
  <2>2. ASSUME NEW n \in 0..(k - 1), n \in S PROVE n + 1 \in S
    <3>1. n + 1 \in 1..k /\ n + 1 \in 0..k /\ (n + 1) - 1 = n
      BY <1>1
    <3>2. t[n + 1] = Evaluate(c, candles, t[n], n + 1)
      BY <1>10, <3>1
    <3> QED BY <1>2, <2>2, <3>1, <3>2
  <2> HIDE DEF S
  <2> QED BY <1>1, <2>1, <2>2, UpTo
<1>12. t = [n \in 0..k |-> t[n]]
  BY <1>9
<1> QED BY <1>1, <1>8, <1>10, <1>11, <1>12

\* What was decided stands: the fills stay, and the orders that are settled.
Stands(r, e) ==
    /\ Len(r.fills) <= Len(e.fills) /\ \A i \in DOMAIN r.fills : e.fills[i] = r.fills[i]
    /\ Len(r.orders) <= Len(e.orders)
    /\ \A i \in DOMAIN r.orders : r.orders[i].status # "OPEN" => e.orders[i] = r.orders[i]

LEMMA StandsIsTransitive ==
    ASSUME NEW r \in Progress, NEW e \in Progress, NEW g \in Progress, Stands(r, e), Stands(e, g)
    PROVE  Stands(r, g)
<1>1. /\ r.fills \in Seq(Fills) /\ e.fills \in Seq(Fills) /\ g.fills \in Seq(Fills)
      /\ r.orders \in Seq(Orders) /\ e.orders \in Seq(Orders) /\ g.orders \in Seq(Orders)
  BY DEF Progress
<1>2. /\ Len(r.fills) <= Len(g.fills) /\ Len(r.orders) <= Len(g.orders)
  BY <1>1 DEF Stands
<1>3. \A i \in DOMAIN r.fills : g.fills[i] = r.fills[i]
  <2>1. \A i \in DOMAIN r.fills : i \in DOMAIN e.fills
    BY <1>1 DEF Stands
  <2> QED BY <2>1 DEF Stands
<1>4. \A i \in DOMAIN r.orders : r.orders[i].status # "OPEN" => g.orders[i] = r.orders[i]
  <2>1. \A i \in DOMAIN r.orders : i \in DOMAIN e.orders
    BY <1>1 DEF Stands
  <2> QED BY <2>1 DEF Stands
<1> QED BY <1>2, <1>3, <1>4 DEF Stands

LEMMA OneMore ==
    ASSUME NEW c, NEW r \in Progress, NEW e, NEW n, NEW k, Follows(c, r, e, n, k)
    PROVE  /\ Stands(r, e)
           /\ \A i \in DOMAIN e.fills : i > Len(r.fills) => e.fills[i].candle = n
           /\ ~Accepts(c, r, n, k) => Len(e.fills) = Len(r.fills)
           /\ Accepts(c, r, n, k) => /\ Len(e.fills) = Len(r.fills) + 1
                                     /\ e.fills[Len(e.fills)] = Offer(c, r, n, k)
<1>1. r.fills \in Seq(Fills)
  BY DEF Progress
<1>2. CASE Accepts(c, r, n, k)
  <2>1. PICK f \in Fills : e.fills = Append(r.fills, f) /\ f = Offer(c, r, n, k) /\ f.candle = n
    BY <1>2 DEF Follows
  <2>2. /\ Len(e.fills) = Len(r.fills) + 1 /\ DOMAIN e.fills = 1..(Len(r.fills) + 1)
        /\ \A i \in 1..Len(r.fills) : e.fills[i] = r.fills[i]
        /\ e.fills[Len(r.fills) + 1] = f
    BY <1>1, <2>1
  <2>3. Len(r.fills) \in Nat /\ DOMAIN r.fills = 1..Len(r.fills)
    BY <1>1
  <2>4. Stands(r, e)
    BY <2>2, <2>3 DEF Follows, Stands
  <2>5. \A i \in DOMAIN e.fills : i > Len(r.fills) => i = Len(r.fills) + 1
    BY <2>2, <2>3
  <2> QED BY <1>2, <2>1, <2>2, <2>4, <2>5
<1>3. CASE ~Accepts(c, r, n, k)
  <2>1. e.fills = r.fills
    BY <1>3 DEF Follows
  <2> QED BY <2>1, <1>1, <1>3 DEF Follows, Stands
<1> QED BY <1>2, <1>3

LEMMA PlayFollows ==
    ASSUME NEW c, Configured(c), NEW candles, Playable(c, candles), NEW n \in 1..Days(c, candles)
    PROVE  /\ n - 1 \in 0..Days(c, candles) /\ n \in 0..Days(c, candles)
           /\ PlayOf(c, candles)[n - 1] \in Progress /\ PlayOf(c, candles)[n] \in Progress
           /\ candles[c.warmup + n] \in Bars
           /\ Follows(c, PlayOf(c, candles)[n - 1], PlayOf(c, candles)[n], n,
                      candles[c.warmup + n])
<1>1. PICK k : k = Days(c, candles)
  OBVIOUS
<1>2. k \in Nat /\ n \in Nat /\ n - 1 \in 0..k /\ n \in 0..k
  BY <1>1, DaysTyped
<1>3. PlayOf(c, candles)[n - 1] \in Progress /\ PlayOf(c, candles)[n] \in Progress
  BY <1>1, <1>2, PlayIs
<1>4. PlayOf(c, candles)[n] = Evaluate(c, candles, PlayOf(c, candles)[n - 1], n)
  BY PlayIs
<1>5. candles[c.warmup + n] \in Bars
  BY DaysTyped
<1> QED BY <1>1, <1>2, <1>3, <1>4, <1>5, EvaluateKeeps

LEMMA PlayGrows ==
    ASSUME NEW c, Configured(c), NEW candles, Playable(c, candles),
           NEW n \in 0..Days(c, candles), NEW m \in n..Days(c, candles)
    PROVE  /\ Stands(PlayOf(c, candles)[n], PlayOf(c, candles)[m])
           /\ \A i \in DOMAIN PlayOf(c, candles)[m].fills :
                i > Len(PlayOf(c, candles)[n].fills) => PlayOf(c, candles)[m].fills[i].candle > n
<1>1. PICK k : k = Days(c, candles)
  OBVIOUS
<1>2. PICK t : t = PlayOf(c, candles)
  OBVIOUS
<1>3. k \in Nat /\ \A j \in 0..k : t[j] \in Progress
  BY <1>1, <1>2, DaysTyped, PlayIs
<1> DEFINE Grown(j) == /\ Stands(t[n], t[j])
                       /\ \A i \in DOMAIN t[j].fills :
                            i > Len(t[n].fills) => t[j].fills[i].candle > n
           S == {j \in 0..k : j >= n => Grown(j)}
<1>4. n \in 0..k /\ m \in 0..k /\ m >= n
  BY <1>1, <1>3
<1>5. Grown(n)
  <2>1. t[n].fills \in Seq(Fills)
    BY <1>3, <1>4 DEF Progress
  <2> QED BY <2>1 DEF Stands
<1>6. 0..k \subseteq S
  <2>1. 0 \in S
    <3>1. 0 >= n => n = 0
      BY <1>4
    <3> QED BY <3>1, <1>3, <1>5
  <2>2. ASSUME NEW j \in 0..(k - 1), j \in S PROVE j + 1 \in S
    <3>1. j + 1 \in 1..k /\ j + 1 \in 0..k /\ (j + 1) - 1 = j /\ j \in 0..k
      BY <1>3
    <3>2. CASE j + 1 = n
      BY <3>1, <3>2, <1>5
    <3>3. CASE j >= n
      <4>1. Grown(j)
        BY <2>2, <3>3
      <4>2. PICK x : /\ t[j] \in Progress /\ t[j + 1] \in Progress
                     /\ Follows(c, t[j], t[j + 1], j + 1, x)
        BY <1>1, <1>2, <3>1, PlayFollows
      <4>3. /\ Stands(t[j], t[j + 1])
            /\ \A i \in DOMAIN t[j + 1].fills :
                 i > Len(t[j].fills) => t[j + 1].fills[i].candle = j + 1
        <5>1. PICK e, r, q : e = t[j + 1] /\ r = t[j] /\ q = j + 1
          OBVIOUS
        <5>2. r \in Progress /\ Follows(c, r, e, q, x)
          BY <4>2, <5>1
        <5>3. Stands(r, e)
          BY <5>2, OneMore
        <5>4. \A i \in DOMAIN e.fills : i > Len(r.fills) => e.fills[i].candle = q
          BY <5>2, OneMore
        <5> QED BY <5>1, <5>3, <5>4
      <4>4. Stands(t[n], t[j + 1])
        BY <4>1, <4>2, <4>3, <1>3, <1>4, StandsIsTransitive
      <4>5. ASSUME NEW i \in DOMAIN t[j + 1].fills, i > Len(t[n].fills)
            PROVE  t[j + 1].fills[i].candle > n
        <5>1. t[j].fills \in Seq(Fills) /\ t[j + 1].fills \in Seq(Fills)
          BY <4>2 DEF Progress
        <5>2. CASE i > Len(t[j].fills)
          <6>1. t[j + 1].fills[i].candle = j + 1
            BY <4>3, <5>2
          <6> QED BY <6>1, <3>1, <3>3, <1>4
        <5>3. CASE i <= Len(t[j].fills)
          <6>1. i \in DOMAIN t[j].fills
            BY <5>1, <5>3
          <6>2. t[j + 1].fills[i] = t[j].fills[i]
            BY <6>1, <4>3 DEF Stands
          <6>3. t[j].fills[i].candle > n
            BY <6>1, <4>1, <4>5
          <6> QED BY <6>2, <6>3
        <5>4. Len(t[j].fills) \in Nat /\ i \in Nat
          BY <5>1
        <5> QED BY <5>2, <5>3, <5>4
      <4> QED BY <4>4, <4>5, <3>1
    <3>4. CASE ~(j + 1 >= n)
      BY <3>1, <3>4
    <3>5. j + 1 = n \/ j >= n \/ ~(j + 1 >= n)
      BY <3>1, <1>4
    <3> QED BY <3>2, <3>3, <3>4, <3>5
  <2> HIDE DEF S
  <2> QED BY <1>3, <2>1, <2>2, UpTo
<1>7. Grown(m)
  BY <1>4, <1>6
<1> QED BY <1>2, <1>7

\* The capital is never lost sight of, and no fill is dated later.
LEMMA PlayKeeps ==
    ASSUME NEW c, Configured(c), NEW candles, Playable(c, candles),
           NEW n \in 0..Days(c, candles)
    PROVE  /\ Balanced(c.capital, PlayOf(c, candles)[n].portfolio)
           /\ \A i \in DOMAIN PlayOf(c, candles)[n].fills :
                PlayOf(c, candles)[n].fills[i].candle <= n
<1>1. PICK k : k = Days(c, candles)
  OBVIOUS
<1>2. PICK t : t = PlayOf(c, candles)
  OBVIOUS
<1>3. k \in Nat /\ \A j \in 0..k : t[j] \in Progress
  BY <1>1, <1>2, DaysTyped, PlayIs
<1> DEFINE Kept(j) == /\ Balanced(c.capital, t[j].portfolio)
                      /\ \A i \in DOMAIN t[j].fills : t[j].fills[i].candle <= j
           S == {j \in 0..k : Kept(j)}
<1>4. 0..k \subseteq S
  <2>1. 0 \in S
    <3>1. t[0] = Unplayed(c)
      BY <1>2, PlayIs
    <3>2. Balanced(c.capital, t[0].portfolio)
      BY <3>1, UnplayedTyped
    <3>3. t[0].fills = <<>>
      BY <3>1 DEF Unplayed
    <3> QED BY <3>2, <3>3, <1>3
  <2>2. ASSUME NEW j \in 0..(k - 1), j \in S PROVE j + 1 \in S
    <3>1. j + 1 \in 1..k /\ j + 1 \in 0..k /\ (j + 1) - 1 = j /\ j \in 0..k
      BY <1>3
    <3>2. PICK x : /\ t[j] \in Progress /\ t[j + 1] \in Progress
                   /\ Follows(c, t[j], t[j + 1], j + 1, x)
      BY <1>1, <1>2, <3>1, PlayFollows
    <3>3. PICK e, r, q : e = t[j + 1] /\ r = t[j] /\ q = j + 1
      OBVIOUS
    <3>4. r \in Progress /\ e \in Progress /\ Follows(c, r, e, q, x)
      BY <3>2, <3>3
    <3>5. Stands(r, e)
      BY <3>4, OneMore
    <3>6. \A i \in DOMAIN e.fills : i > Len(r.fills) => e.fills[i].candle = q
      BY <3>4, OneMore
    <3>7. Balanced(c.capital, r.portfolio) /\ \A i \in DOMAIN r.fills : r.fills[i].candle <= j
      BY <2>2, <3>3
    <3>8. Balanced(c.capital, e.portfolio)
      BY <3>4, <3>7 DEF Follows
    <3>9. ASSUME NEW i \in DOMAIN e.fills PROVE e.fills[i].candle <= q
      <4>1. e.fills \in Seq(Fills) /\ r.fills \in Seq(Fills)
        BY <3>4 DEF Progress
      <4>2. CASE i > Len(r.fills)
        <5>1. e.fills[i].candle = q /\ q \in Int
          BY <3>3, <3>6, <4>2
        <5> QED BY <5>1
      <4>3. CASE i <= Len(r.fills)
        <5>1. i \in DOMAIN r.fills
          BY <4>1, <4>3
        <5>2. e.fills[i] = r.fills[i] /\ r.fills[i].candle <= j /\ r.fills[i] \in Fills
          BY <3>5, <3>7, <4>1, <5>1 DEF Stands
        <5>3. r.fills[i].candle \in Int /\ q = j + 1 /\ j \in Int
          BY <5>2, <3>3 DEF Fills
        <5> QED BY <5>2, <5>3
      <4>4. Len(r.fills) \in Nat /\ i \in Nat
        BY <4>1
      <4> QED BY <4>2, <4>3, <4>4
    <3> QED BY <3>1, <3>3, <3>8, <3>9
  <2> HIDE DEF S
  <2> QED BY <1>3, <2>1, <2>2, UpTo
<1> QED BY <1>1, <1>2, <1>4

-----------------------------------------------------------------------------
(* The timeline of a replay *)

\* At most one fill of a candle is booked.
LEMMA BookedIs ==
    ASSUME NEW p, NEW fs, NEW n, NEW len \in Nat, len = Len(fs), NEW j \in 1..(len + 1),
           \A i \in 1..len : fs[i].candle = n <=> i = j
    PROVE  Booked(p, fs, n) = IF j <= len THEN Applied(p, fs[j]) ELSE p
<1> DEFINE Books(f) == f = [i \in 0..len |-> IF i = 0 THEN p
                                             ELSE IF fs[i].candle = n THEN Applied(f[i - 1], fs[i])
                                             ELSE f[i - 1]]
           q == Applied(p, fs[j])
           f == [i \in 0..len |-> IF i < j THEN p ELSE q]
           g == CHOOSE h : Books(h)
<1>1. Books(f)
  <2>1. ASSUME NEW i \in 0..len
        PROVE  f[i] = IF i = 0 THEN p
                      ELSE IF fs[i].candle = n THEN Applied(f[i - 1], fs[i]) ELSE f[i - 1]
    <3>1. CASE i = 0
      BY <3>1
    <3>2. CASE i \in 1..len
      <4>1. i # 0 /\ i - 1 \in 0..len
        BY <3>2
      <4>2. CASE i = j
        <5>1. f[i - 1] = p /\ f[i] = q
          BY <4>1, <4>2
        <5>2. fs[i].candle = n
          BY <3>2, <4>2
        <5> QED BY <5>1, <5>2, <4>1, <4>2
      <4>3. CASE i # j
        <5>1. f[i - 1] = f[i]
          BY <4>1, <4>3
        <5>2. fs[i].candle # n
          BY <3>2, <4>3
        <5> HIDE DEF f
        <5> QED BY <5>1, <5>2, <4>1
      <4> QED BY <4>2, <4>3
    <3> QED BY <3>1, <3>2
  <2>2. f = [i \in 0..len |-> f[i]]
    OBVIOUS
  <2> HIDE DEF f
  <2> QED BY <2>1, <2>2
<1>2. Books(g)
  <2> HIDE DEF Books, f
  <2> QED BY <1>1
<1>3. Booked(p, fs, n) = g[len]
  BY DEF Booked
<1> HIDE DEF g
<1> DEFINE S == {i \in 0..len : g[i] = f[i]}
<1>4. 0..len \subseteq S
  <2>1. 0 \in S
    BY <1>2
  <2>2. ASSUME NEW i \in 0..(len - 1), i \in S PROVE i + 1 \in S
    <3>1. i + 1 \in 0..len /\ i + 1 # 0 /\ (i + 1) - 1 = i /\ i \in 0..len /\ g[i] = f[i]
      BY <2>2
    <3>2. f[i + 1] = IF fs[i + 1].candle = n THEN Applied(f[i], fs[i + 1]) ELSE f[i]
      <4> HIDE DEF f
      <4> QED BY <3>1, <1>1
    <3>3. g[i + 1] = IF fs[i + 1].candle = n THEN Applied(g[i], fs[i + 1]) ELSE g[i]
      BY <3>1, <1>2
    <3> HIDE DEF f
    <3> QED BY <3>1, <3>2, <3>3
  <2> HIDE DEF S
  <2> QED BY <2>1, <2>2, UpTo
<1>5. g[len] = f[len]
  BY <1>4
<1> QED BY <1>3, <1>5

\* What is booked at a candle is what the replay filled there.
LEMMA PlayBooked ==
    ASSUME NEW c, Configured(c), NEW candles, Playable(c, candles), NEW n \in 1..Days(c, candles)
    PROVE  Marked(Booked(PlayOf(c, candles)[n - 1].portfolio,
                         PlayOf(c, candles)[Days(c, candles)].fills, n),
                  candles[c.warmup + n].close)
           = PlayOf(c, candles)[n].portfolio
<1>1. PICK k : k = Days(c, candles)
  OBVIOUS
<1>2. PICK t : t = PlayOf(c, candles)
  OBVIOUS
<1>3. PICK r, e, x, fs : /\ r = t[n - 1] /\ e = t[n] /\ x = candles[c.warmup + n]
                         /\ fs = t[k].fills
  OBVIOUS
<1>4. k \in Nat /\ n \in 1..k /\ n - 1 \in 0..k /\ n \in 0..k /\ k \in 0..k /\ n \in Nat
  BY <1>1, DaysTyped
<1>5. r \in Progress /\ e \in Progress /\ t[k] \in Progress
  BY <1>1, <1>2, <1>3, <1>4, PlayIs
<1>6. r.fills \in Seq(Fills) /\ e.fills \in Seq(Fills) /\ fs \in Seq(Fills)
  BY <1>3, <1>5 DEF Progress
<1>7. Follows(c, r, e, n, x)
  BY <1>2, <1>3, PlayFollows
<1>8. Stands(r, e)
  BY <1>5, <1>7, OneMore
<1>9. \A i \in DOMAIN r.fills : r.fills[i].candle <= n - 1
  BY <1>1, <1>2, <1>3, <1>4, PlayKeeps
<1>10. /\ Stands(e, t[k])
       /\ \A i \in DOMAIN fs : i > Len(e.fills) => fs[i].candle > n
  <2>1. k \in n..k
    BY <1>4
  <2> QED BY <2>1, <1>1, <1>2, <1>3, <1>4, PlayGrows
<1>11. PICK len : len = Len(fs) /\ len \in Nat
  BY <1>6
<1>12. PICK h : h = Len(r.fills) /\ h \in Nat
  BY <1>6
<1>13. \A i \in 1..len : fs[i] \in Fills /\ fs[i].candle \in Int
  <2>1. \A f \in Fills : f.candle \in Int
    BY DEF Fills
  <2>2. \A i \in 1..len : fs[i] \in Fills
    BY <1>6, <1>11
  <2> QED BY <2>1, <2>2
<1>14. \A i \in 1..h : i \in 1..len /\ fs[i].candle # n
  <2>1. \A i \in 1..h : i \in DOMAIN r.fills /\ i \in DOMAIN e.fills
    BY <1>6, <1>8, <1>12 DEF Stands
  <2>2. \A i \in 1..h : i \in 1..len /\ fs[i] = r.fills[i]
    BY <2>1, <1>3, <1>6, <1>8, <1>10, <1>11, <1>12 DEF Stands
  <2>3. \A i \in 1..h : fs[i].candle <= n - 1
    BY <2>1, <2>2, <1>9
  <2>4. \A i \in 1..h : fs[i].candle # n
    BY <2>2, <2>3, <1>4, <1>13
  <2> QED BY <2>2, <2>4
<1>15. CASE Accepts(c, r, n, x)
  <2>1. PICK f : f = Offer(c, r, n, x) /\ f.candle = n
    BY <1>7, <1>15 DEF Follows
  <2>2. Len(e.fills) = h + 1 /\ e.fills[h + 1] = f
    <3>1. e.fills = Append(r.fills, f)
      BY <1>7, <1>15, <2>1 DEF Follows
    <3> QED BY <3>1, <1>6, <1>12
  <2>3. h + 1 \in 1..len /\ fs[h + 1] = f
    <3>1. h + 1 \in DOMAIN e.fills
      BY <2>2, <1>6, <1>12
    <3>2. h + 1 <= len
      BY <1>3, <1>10, <1>11, <2>2 DEF Stands
    <3>3. fs[h + 1] = e.fills[h + 1]
      BY <3>1, <1>3, <1>10 DEF Stands
    <3> QED BY <3>2, <3>3, <2>2, <1>12
  <2>4. \A i \in 1..len : fs[i].candle = n <=> i = h + 1
    <3> TAKE i \in 1..len
    <3>1. CASE i <= h
      <4>1. i \in 1..h
        BY <3>1, <1>12
      <4> QED BY <4>1, <3>1, <1>12, <1>14
    <3>2. CASE i = h + 1
      BY <3>2, <2>1, <2>3
    <3>3. CASE i > h + 1
      <4>1. i \in DOMAIN fs
        BY <1>6, <1>11
      <4>2. fs[i].candle > n
        BY <4>1, <3>3, <2>2, <1>10
      <4> QED BY <4>2, <3>3, <1>4, <1>12, <1>13
    <3> QED BY <3>1, <3>2, <3>3, <1>12
  <2>5. Booked(r.portfolio, fs, n) = Applied(r.portfolio, f)
    <3>1. PICK j : j = h + 1
      OBVIOUS
    <3>2. j \in 1..(len + 1) /\ j <= len /\ fs[j] = f
      BY <3>1, <2>3, <1>11
    <3>3. \A i \in 1..len : fs[i].candle = n <=> i = j
      BY <3>1, <2>4
    <3> QED BY <3>2, <3>3, <1>11, BookedIs
  <2> QED BY <2>1, <2>5, <1>1, <1>2, <1>3, <1>7, <1>15 DEF Follows, Booking
<1>16. CASE ~Accepts(c, r, n, x)
  <2>1. Len(e.fills) = h
    BY <1>5, <1>7, <1>12, <1>16, OneMore
  <2>2. \A i \in 1..len : fs[i].candle # n
    <3> TAKE i \in 1..len
    <3>1. CASE i <= h
      <4>1. i \in 1..h
        BY <3>1, <1>12
      <4> QED BY <4>1, <1>14
    <3>2. CASE i > h
      <4>1. i \in DOMAIN fs
        BY <1>6, <1>11
      <4>2. fs[i].candle > n
        BY <4>1, <3>2, <2>1, <1>10
      <4> QED BY <4>2, <1>4, <1>13
    <3> QED BY <3>1, <3>2, <1>12
  <2>3. Booked(r.portfolio, fs, n) = r.portfolio
    <3>1. PICK j : j = len + 1
      OBVIOUS
    <3>2. j \in 1..(len + 1) /\ ~(j <= len)
      BY <3>1, <1>11
    <3>3. \A i \in 1..len : fs[i].candle = n <=> i = j
      BY <3>1, <2>2, <1>11
    <3> QED BY <3>2, <3>3, <1>11, BookedIs
  <2> QED BY <2>3, <1>1, <1>2, <1>3, <1>7, <1>16 DEF Follows, Booking
<1> QED BY <1>15, <1>16

\* The points of the timeline are what the replay had after each candle.
PointsOf(c, candles, n) ==
    [i \in 1..n |-> [mark |-> candles[c.warmup + i].close,
                     portfolio |-> PlayOf(c, candles)[i].portfolio,
                     halted |-> PlayOf(c, candles)[i].halted]]

LEMMA OneMorePoint ==
    ASSUME NEW c, NEW candles, NEW n \in Nat \ {0}
    PROVE  Append(PointsOf(c, candles, n - 1),
                  [mark |-> candles[c.warmup + n].close,
                   portfolio |-> PlayOf(c, candles)[n].portfolio,
                   halted |-> PlayOf(c, candles)[n].halted]) = PointsOf(c, candles, n)
<1> DEFINE Point(i) == [mark |-> candles[c.warmup + i].close,
                        portfolio |-> PlayOf(c, candles)[i].portfolio,
                        halted |-> PlayOf(c, candles)[i].halted]
           s == [i \in 1..(n - 1) |-> Point(i)]
           u == [i \in 1..n |-> Point(i)]
           T == {Point(i) : i \in 1..n}
<1>1. n - 1 \in Nat /\ n \in 1..n /\ \A i \in 1..(n - 1) : i \in 1..n
  OBVIOUS
<1>2. s \in Seq(T) /\ Len(s) = n - 1 /\ Point(n) \in T
  <2>1. \A i \in 1..(n - 1) : Point(i) \in T
    BY <1>1
  <2> HIDE DEF Point
  <2>2. s \in [1..(n - 1) -> T]
    BY <2>1
  <2> QED BY <2>2, <1>1
<1>3. Append(s, Point(n)) = u
  <2> HIDE DEF Point, T
  <2>1. DOMAIN Append(s, Point(n)) = 1..n
    BY <1>1, <1>2
  <2>2. ASSUME NEW i \in 1..n PROVE Append(s, Point(n))[i] = Point(i)
    BY <1>1, <1>2
  <2>3. Append(s, Point(n)) = [i \in 1..n |-> Append(s, Point(n))[i]]
    BY <1>2, <2>1
  <2> QED BY <2>2, <2>3
<1> QED BY <1>3 DEF PointsOf

LEMMA ObservedIs ==
    ASSUME NEW c, Configured(c), NEW b, Playable(c, b.candles),
           b.end - c.start = Days(c, b.candles),
           NEW st, st.fills = Played(c, b.candles).fills
    PROVE  Observed(c, b, st) =
             [portfolio |-> Played(c, b.candles).portfolio, halted |-> Played(c, b.candles).halted,
              points |-> PointsOf(c, b.candles, Days(c, b.candles))]
<1>1. PICK k : k = Days(c, b.candles) /\ k \in Nat
  BY DaysTyped
<1>2. PICK t : t = PlayOf(c, b.candles)
  OBVIOUS
<1> DEFINE Observes(f) == f = [n \in 0..k |-> IF n = 0 THEN Unobserved(c)
                                              ELSE Observe(c, b, st, f[n - 1], n)]
           Known(n) == [portfolio |-> t[n].portfolio, halted |-> t[n].halted,
                        points |-> PointsOf(c, b.candles, n)]
           f == [n \in 0..k |-> Known(n)]
           g == CHOOSE h : Observes(h)
<1>3. Known(0) = Unobserved(c)
  <2>1. t[0] = Unplayed(c)
    BY <1>2, PlayIs
  <2>2. PointsOf(c, b.candles, 0) = <<>>
    BY DEF PointsOf
  <2>3. t[0].portfolio = Flat(c.capital) /\ t[0].halted = FALSE
    BY <2>1 DEF Unplayed
  <2> QED BY <2>2, <2>3 DEF Unobserved
<1>4. ASSUME NEW n \in 1..k PROVE Observe(c, b, st, Known(n - 1), n) = Known(n)
  <2>1. PICK x, q : x = b.candles[c.warmup + n] /\ q = t[n].portfolio
    OBVIOUS
  <2>2. Marked(Booked(t[n - 1].portfolio, st.fills, n), x.close) = q
    <3>1. st.fills = t[k].fills
      BY <1>1, <1>2, PlayedIs
    <3> QED BY <3>1, <2>1, <1>1, <1>2, PlayBooked
  <2>3. (t[n - 1].halted \/ MustHalt(c, q)) = t[n].halted
    <3>1. Follows(c, t[n - 1], t[n], n, x)
      BY <2>1, <1>1, <1>2, PlayFollows
    <3> QED BY <3>1, <2>1 DEF Follows
  <2>4. Append(PointsOf(c, b.candles, n - 1), [mark |-> x.close, portfolio |-> q,
                                               halted |-> t[n].halted])
        = PointsOf(c, b.candles, n)
    <3>1. n \in Nat \ {0}
      BY <1>1
    <3> QED BY <3>1, <2>1, <1>2, OneMorePoint
  <2>5. PICK p : p = Marked(Booked(Known(n - 1).portfolio, st.fills, n), x.close)
    OBVIOUS
  <2>6. Observe(c, b, st, Known(n - 1), n) =
          [portfolio |-> p, halted |-> Known(n - 1).halted \/ MustHalt(c, p),
           points |-> Append(Known(n - 1).points,
                             [mark |-> x.close, portfolio |-> p,
                              halted |-> Known(n - 1).halted \/ MustHalt(c, p)])]
    BY <2>1, <2>5 DEF Observe
  <2>7. p = q /\ (Known(n - 1).halted \/ MustHalt(c, p)) = t[n].halted
    BY <2>2, <2>3, <2>5
  <2> QED BY <2>1, <2>4, <2>6, <2>7
<1> HIDE DEF Known
<1>5. Observes(f)
  <2>1. ASSUME NEW n \in 0..k
        PROVE  f[n] = IF n = 0 THEN Unobserved(c) ELSE Observe(c, b, st, f[n - 1], n)
    <3>1. CASE n = 0
      BY <3>1, <1>3
    <3>2. CASE n # 0
      <4>1. n \in 1..k /\ n - 1 \in 0..k
        BY <1>1, <3>2
      <4>2. f[n] = Known(n) /\ f[n - 1] = Known(n - 1)
        BY <4>1
      <4> HIDE DEF f
      <4> QED BY <4>1, <4>2, <3>2, <1>4
    <3> QED BY <3>1, <3>2
  <2>2. f = [n \in 0..k |-> f[n]]
    OBVIOUS
  <2> HIDE DEF f
  <2> QED BY <2>1, <2>2
<1>6. Observes(g)
  <2> HIDE DEF Observes, f
  <2> QED BY <1>5
<1>7. Observed(c, b, st) = g[k]
  BY <1>1 DEF Observed
<1> HIDE DEF g
<1> DEFINE S == {n \in 0..k : g[n] = Known(n)}
<1>8. 0..k \subseteq S
  <2>1. 0 \in S
    BY <1>1, <1>3, <1>6
  <2>2. ASSUME NEW n \in 0..(k - 1), n \in S PROVE n + 1 \in S
    <3>1. n + 1 \in 1..k /\ n + 1 \in 0..k /\ n + 1 # 0 /\ (n + 1) - 1 = n /\ g[n] = Known(n)
      BY <1>1, <2>2
    <3>2. g[n + 1] = Observe(c, b, st, g[n], n + 1)
      BY <3>1, <1>6
    <3>3. Observe(c, b, st, Known(n), n + 1) = Known(n + 1)
      BY <3>1, <1>4
    <3> QED BY <3>1, <3>2, <3>3
  <2> HIDE DEF S
  <2> QED BY <1>1, <2>1, <2>2, UpTo
<1>9. g[k] = Known(k)
  BY <1>1, <1>8
<1>10. Played(c, b.candles) = t[k]
  BY <1>1, <1>2, PlayedIs
<1> QED BY <1>1, <1>7, <1>9, <1>10 DEF Known

\* A replay goes through the one of fewer candles.
Agree(s, u) == Len(s) <= Len(u) /\ \A i \in 1..Len(s) : s[i] = u[i]

LEMMA EvaluateAgrees ==
    ASSUME NEW c, Configured(c), NEW s, NEW u, Playable(c, s), Playable(c, u), Agree(s, u),
           NEW n \in 1..Days(c, s), NEW r
    PROVE  Evaluate(c, s, r, n) = Evaluate(c, u, r, n)
<1>1. PICK hi, lo : /\ hi = c.warmup + n /\ lo = Max({1, c.warmup + n - c.window + 1})
  OBVIOUS
<1>2. c.warmup \in Nat /\ c.window \in Nat /\ n \in Nat /\ hi \in 1..Len(s)
  BY <1>1, CostsTyped, DaysTyped
<1>3. lo \in Int /\ 1 <= lo
  <2>1. PICK x : x = c.warmup + n - c.window + 1
    OBVIOUS
  <2>2. x \in Int
    BY <1>2, <2>1
  <2> QED BY <1>1, <2>1, <2>2, MaxOfTwo
<1>4. s[hi] = u[hi]
  BY <1>2 DEF Agree
<1>5. SubSeq(s, lo, hi) = SubSeq(u, lo, hi)
  <2>1. \A i \in lo..hi : s[i] \in Bars /\ u[i] \in Bars
    <3>1. \A i \in lo..hi : i \in 1..Len(s) /\ s[i] = u[i]
      BY <1>2, <1>3 DEF Agree
    <3> QED BY <3>1 DEF Playable
  <2>2. hi \in Int
    BY <1>2
  <2>3. PICK x, y : x = SubSeq(s, lo, hi) /\ y = SubSeq(u, lo, hi)
    OBVIOUS
  <2>4. /\ x \in Seq(Bars) /\ Len(x) = IF lo <= hi THEN hi - lo + 1 ELSE 0
        /\ \A i \in 1..(hi - lo + 1) : x[i] = s[lo + i - 1]
    BY <2>1, <2>2, <2>3, <1>3, SubSeqProperties
  <2>5. /\ y \in Seq(Bars) /\ Len(y) = IF lo <= hi THEN hi - lo + 1 ELSE 0
        /\ \A i \in 1..(hi - lo + 1) : y[i] = u[lo + i - 1]
    BY <2>1, <2>2, <2>3, <1>3, SubSeqProperties
  <2>6. \A i \in 1..Len(x) : x[i] = y[i]
    <3>1. \A i \in 1..Len(x) : i \in 1..(hi - lo + 1) /\ lo + i - 1 \in 1..Len(s)
      BY <2>2, <2>4, <1>2, <1>3
    <3>2. \A i \in 1..Len(x) : s[lo + i - 1] = u[lo + i - 1]
      BY <3>1 DEF Agree
    <3> QED BY <3>1, <3>2, <2>4, <2>5
  <2>7. x = y
    <3>1. Len(x) = Len(y)
      BY <2>4, <2>5
    <3> QED BY <3>1, <2>4, <2>5, <2>6, SeqEqual
  <2> QED BY <2>3, <2>7
<1>6. PICK e, g, k : e = Evaluate(c, s, r, n) /\ g = Evaluate(c, u, r, n) /\ k = s[hi]
  OBVIOUS
<1>7. Composed(c, s, r, n, e, k) /\ Composed(c, u, r, n, g, k)
  BY <1>1, <1>4, <1>6, EvaluateIs
<1>8. e.fills = g.fills /\ e.portfolio = g.portfolio /\ e.halted = g.halted
  BY <1>7 DEF Composed
<1>9. Offered(c, s, n, e.portfolio) = Offered(c, u, n, g.portfolio)
  BY <1>1, <1>5, <1>8 DEF Offered
<1>10. e.orders = g.orders /\ e.ok = g.ok
  BY <1>7, <1>8, <1>9 DEF Composed
<1>11. e = g
  BY <1>7, <1>8, <1>10 DEF Composed
<1> QED BY <1>6, <1>11

LEMMA PlayAgrees ==
    ASSUME NEW c, Configured(c), NEW s, NEW u, Playable(c, s), Playable(c, u), Agree(s, u),
           NEW n \in 0..Days(c, s)
    PROVE  n \in 0..Days(c, u) /\ PlayOf(c, s)[n] = PlayOf(c, u)[n]
<1>1. PICK k : k = Days(c, s) /\ k \in Nat
  BY DaysTyped
<1>2. k <= Days(c, u) /\ Days(c, u) \in Nat
  <2>1. Len(s) \in Nat /\ Len(u) \in Nat /\ Len(s) <= Len(u) /\ c.warmup \in Nat
    BY CostsTyped DEF Playable, Agree
  <2> QED BY <1>1, <2>1, DaysTyped DEF Days
<1>3. PICK t, v : t = PlayOf(c, s) /\ v = PlayOf(c, u)
  OBVIOUS
<1> DEFINE S == {j \in 0..k : t[j] = v[j]}
<1>4. 0..k \subseteq S
  <2>1. 0 \in S
    BY <1>1, <1>3, PlayIs
  <2>2. ASSUME NEW j \in 0..(k - 1), j \in S PROVE j + 1 \in S
    <3>1. j + 1 \in 1..k /\ j + 1 \in 1..Days(c, u) /\ j + 1 \in 0..k /\ (j + 1) - 1 = j
      BY <1>1, <1>2
    <3>2. t[j + 1] = Evaluate(c, s, t[j], j + 1)
      BY <1>1, <1>3, <3>1, PlayIs
    <3>3. v[j + 1] = Evaluate(c, u, v[j], j + 1)
      BY <1>3, <3>1, PlayIs
    <3>4. Evaluate(c, s, t[j], j + 1) = Evaluate(c, u, t[j], j + 1)
      BY <1>1, <3>1, EvaluateAgrees
    <3>5. t[j] = v[j]
      BY <2>2
    <3> QED BY <3>1, <3>2, <3>3, <3>4, <3>5
  <2> HIDE DEF S
  <2> QED BY <1>1, <2>1, <2>2, UpTo
<1> QED BY <1>1, <1>2, <1>3, <1>4

\* What was decided with fewer candles stands with more.
LEMMA LongerStands ==
    ASSUME NEW c, Configured(c), NEW s, NEW u, Playable(c, s), Playable(c, u), Agree(s, u)
    PROVE  Stands(Played(c, s), Played(c, u))
<1>1. PICK k, m : k = Days(c, s) /\ m = Days(c, u) /\ k \in Nat /\ m \in Nat /\ k \in 0..k
  BY DaysTyped
<1>2. k \in 0..m /\ PlayOf(c, s)[k] = PlayOf(c, u)[k]
  BY <1>1, PlayAgrees
<1>3. m \in k..m
  BY <1>1, <1>2
<1>4. Stands(PlayOf(c, u)[k], PlayOf(c, u)[m])
  BY <1>1, <1>2, <1>3, PlayGrows
<1> QED BY <1>1, <1>2, <1>4, PlayedIs

-----------------------------------------------------------------------------
(* States and their timelines *)

LEMMA ConfigsAre == \A s \in Ids : Configured(ConfigOf[s])
<1> SUFFICES ASSUME NEW s \in Ids PROVE Configured(ConfigOf[s])
  OBVIOUS
<1>1. PICK i \in DOMAIN Sessions : s = Sessions[i]
  BY DEF Ids, ToSet
<1>2. PICK c : c = ConfigOf[s]
  OBVIOUS
<1> QED BY <1>1, <1>2, PaperConfigsAssumption DEF Configured

LEMMA RawIsCandles ==
    ASSUME NEW source \in Seq(RawCandles)
    PROVE  source \in Seq(Bars)
<1>1. RawCandles \subseteq Bars
  BY CandlesAssumption DEF Bars
<1>2. Len(source) \in Nat /\ source \in [1..Len(source) -> RawCandles]
  OBVIOUS
<1>3. source \in [1..Len(source) -> Bars]
  BY <1>1, <1>2
<1> QED BY <1>2, <1>3

LEMMA BatchPlays ==
    ASSUME NEW c, Configured(c), NEW b, b.candles \in Seq(RawCandles), b.end \in Int,
           BatchFits(c, b)
    PROVE  Playable(c, b.candles) /\ Days(c, b.candles) = b.end - c.start
<1>1. c.warmup \in Nat /\ c.start \in Nat /\ Len(b.candles) \in Nat
  BY CostsTyped
<1>2. Len(b.candles) = b.end - (c.start - c.warmup) /\ b.end > c.start
  BY DEF BatchFits, ContextStart
<1> QED BY <1>1, <1>2, RawIsCandles DEF Playable, Days

LEMMA MadeIs ==
    ASSUME NEW s \in Ids, NEW st, Made(s, st), NEW c, c = ConfigOf[s]
    PROVE  /\ Configured(c) /\ st \in States /\ StateFits(s, c, st)
           /\ Playable(c, st.source) /\ Days(c, st.source) = st.end - c.start
           /\ st.start = ContextStart(c) /\ st.from = c.start /\ st.processed = st.end - c.start
           /\ st.fills = Played(c, st.source).fills /\ st.orders = Played(c, st.source).orders
           /\ st.portfolio = Played(c, st.source).portfolio
           /\ st.halted = Played(c, st.source).halted
           /\ st.end \in Nat /\ st.source \in Seq(RawCandles)
<1>1. PICK b : b = BatchOf(c, st)
  OBVIOUS
<1>2. PICK r : r = Replay(c, st.source)
  OBVIOUS
<1>3. /\ b.candles = st.source /\ b.end = st.end /\ b.start = ContextStart(c)
  BY <1>1 DEF BatchOf
<1>4. /\ st \in States /\ BatchFits(c, b) /\ StateFits(s, c, st)
      /\ st = StateOf(s, c, b, r, st.replayedAt)
  BY <1>1, <1>2 DEF Made
<1>5. st.end \in Nat /\ st.source \in Seq(RawCandles)
  BY <1>4 DEF States
<1>6. Configured(c)
  BY ConfigsAre
<1>7. PICK at0 : at0 = st.replayedAt
  OBVIOUS
<1>8. PICK z : z = StateOf(s, c, b, r, at0)
  OBVIOUS
<1>9. /\ z.start = b.start /\ z.from = c.start /\ z.processed = b.end - c.start
      /\ z.fills = r.fills /\ z.orders = r.orders /\ z.portfolio = r.portfolio
      /\ z.halted = r.halted
  BY <1>8 DEF StateOf
<1>10. st = z
  BY <1>4, <1>7, <1>8
<1>11. Playable(c, st.source) /\ Days(c, st.source) = st.end - c.start
  BY <1>3, <1>4, <1>5, <1>6, BatchPlays
<1>12. r = Played(c, st.source)
  BY <1>2 DEF Replay
<1> QED BY <1>3, <1>4, <1>5, <1>6, <1>9, <1>10, <1>11, <1>12

\* The portfolio of a state is the one its fills lead to, candle by candle.
LEMMA StoryIs ==
    ASSUME NEW s \in Ids, NEW st, Made(s, st), NEW c, c = ConfigOf[s]
    PROVE  /\ MayBuildTimeline(s, c, BatchOf(c, st), st)
           /\ Story(s, st).points = PointsOf(c, st.source, Days(c, st.source))
           /\ Story(s, st).checksum = st
<1>1. PICK b : b = BatchOf(c, st)
  OBVIOUS
<1>2. /\ b.candles = st.source /\ b.end = st.end /\ b.start = ContextStart(c)
      /\ b.version = st.version
  BY <1>1 DEF BatchOf
<1>3. /\ Configured(c) /\ StateFits(s, c, st) /\ Playable(c, st.source)
      /\ Days(c, st.source) = st.end - c.start /\ st.start = ContextStart(c)
      /\ st.processed = st.end - c.start
  BY MadeIs
<1>4. /\ st.fills = Played(c, st.source).fills
      /\ st.portfolio = Played(c, st.source).portfolio
      /\ st.halted = Played(c, st.source).halted
  BY MadeIs
<1>5. PICK q : q = Observed(c, b, st)
  OBVIOUS
<1>6. q = [portfolio |-> Played(c, b.candles).portfolio, halted |-> Played(c, b.candles).halted,
           points |-> PointsOf(c, b.candles, Days(c, b.candles))]
  BY <1>2, <1>3, <1>4, <1>5, ObservedIs
<1>7. /\ q.portfolio = st.portfolio /\ q.halted = st.halted
      /\ q.points = PointsOf(c, st.source, Days(c, st.source))
  BY <1>2, <1>4, <1>6
<1>8. \A i \in DOMAIN st.fills : st.fills[i].candle <= st.processed
  <2>1. PICK k : k = Days(c, st.source) /\ k \in Nat
    BY <1>3, DaysTyped
  <2>2. st.fills = PlayOf(c, st.source)[k].fills
    BY <2>1, <1>4, PlayedIs
  <2>3. k \in 0..Days(c, st.source)
    BY <2>1
  <2> QED BY <2>1, <2>2, <2>3, <1>3, PlayKeeps
<1>9. MayBuildTimeline(s, c, b, st)
  <2>1. BatchIsOf(b, st)
    BY <1>2, <1>3 DEF BatchIsOf
  <2> QED BY <2>1, <1>2, <1>3, <1>5, <1>7, <1>8 DEF MayBuildTimeline
<1>10. Story(s, st).points = q.points /\ Story(s, st).checksum = st
  BY <1>1, <1>5 DEF Story, TimelineOf, Checksum
<1> QED BY <1>1, <1>7, <1>9, <1>10

LEMMA StoryIsValid ==
    ASSUME NEW s \in Ids, NEW st, Made(s, st)
    PROVE  ValidTimeline(Story(s, st))
<1>1. PICK c : c = ConfigOf[s]
  OBVIOUS
<1>2. PICK t : t = Story(s, st)
  OBVIOUS
<1>3. PICK k : k = Days(c, st.source)
  OBVIOUS
<1>4. PICK play : play = PlayOf(c, st.source)
  OBVIOUS
<1>5. /\ t.start = st.start /\ t.from = st.from /\ t.processed = st.processed
      /\ t.capital = c.capital
  BY <1>1, <1>2 DEF Story, TimelineOf
<1>6. /\ Configured(c) /\ StateFits(s, c, st) /\ Playable(c, st.source)
      /\ k = st.end - c.start /\ st.processed = st.end - c.start
  BY <1>1, <1>3, MadeIs
<1>7. t.points = PointsOf(c, st.source, k)
  BY <1>1, <1>2, <1>3, StoryIs
<1>8. k \in Nat /\ st.start <= st.from /\ st.processed >= 1
  BY <1>3, <1>6, DaysTyped DEF StateFits, ValidState
<1>9. Len(t.points) = k /\ DOMAIN t.points = 1..k
  BY <1>7, <1>8 DEF PointsOf
<1>10. ASSUME NEW n \in 1..k
       PROVE  LET p == t.points[n].portfolio
              IN  p.equity = t.capital + p.realized + (p.base * t.points[n].mark - p.cost)
  <2>1. PICK x, p : x = st.source[c.warmup + n] /\ p = play[n].portfolio
    OBVIOUS
  <2>2. t.points[n].portfolio = p /\ t.points[n].mark = x.close
    BY <2>1, <1>4, <1>7 DEF PointsOf
  <2>3. /\ Follows(c, play[n - 1], play[n], n, x) /\ play[n] \in Progress /\ x \in Bars
        /\ n \in 0..k
    BY <2>1, <1>3, <1>4, <1>6, PlayFollows
  <2>4. p.equity = p.cash + p.base * x.close
    BY <2>1, <2>3 DEF Follows
  <2>5. Balanced(c.capital, p)
    BY <2>1, <2>3, <1>3, <1>4, <1>6, PlayKeeps
  <2>6. p \in Portfolios
    BY <2>1, <2>3 DEF Progress
  <2>7. /\ p.cash \in Int /\ p.base \in Int /\ p.cost \in Int /\ p.realized \in Int
        /\ p.equity \in Int
    BY <2>6 DEF Portfolios
  <2>8. PICK worth : worth = p.base * x.close /\ worth \in Int
    BY <2>3, <2>7 DEF Bars
  <2>9. c.capital \in Int
    BY <1>6, CostsTyped
  <2>10. p.equity = c.capital + p.realized + (worth - p.cost)
    BY <2>4, <2>5, <2>7, <2>8, <2>9 DEF Balanced
  <2> QED BY <2>2, <2>8, <2>10, <1>5
<1>11. Len(t.points) = t.processed
  BY <1>5, <1>6, <1>9
<1> QED BY <1>2, <1>5, <1>8, <1>9, <1>10, <1>11 DEF ValidTimeline

LEMMA SummaryIs ==
    ASSUME NEW s \in Ids, NEW st, Made(s, st)
    PROVE  /\ SummaryFits(ConfigOf[s], SummaryOf(st)) /\ SummaryOf(st).checksum = st
           /\ SummaryOf(st) \in Summaries /\ SummaryOf(st) # Corrupt
<1>1. PICK c, m : c = ConfigOf[s] /\ m = SummaryOf(st)
  OBVIOUS
<1>2. /\ m = [checksum |-> st, end |-> st.end, last |-> st.last, processed |-> st.processed,
             orders |-> Len(st.orders), fills |-> Len(st.fills), portfolio |-> st.portfolio,
             halted |-> st.halted, replayedAt |-> st.replayedAt]
  BY <1>1 DEF SummaryOf, Checksum
<1>3. st \in States /\ StateFits(s, c, st) /\ BatchFits(c, BatchOf(c, st)) /\ st.replayedAt \in Nat
  BY <1>1 DEF Made
<1>4. st.end > c.start
  BY <1>3 DEF BatchFits, BatchOf
<1>5. /\ st.orders \in Seq(Orders) /\ st.fills \in Seq(Fills) /\ st.end \in Nat /\ st.last \in Int
      /\ st.processed \in Nat /\ st.portfolio \in Portfolios /\ st.halted \in BOOLEAN
  BY <1>3 DEF States
<1>6. SummaryFits(c, m)
  BY <1>2, <1>3, <1>4 DEF SummaryFits, StateFits, ValidState
<1>7. Len(st.orders) \in Nat /\ Len(st.fills) \in Nat
  BY <1>5
<1>8. m \in Summaries
  BY <1>2, <1>3, <1>5, <1>7 DEF Summaries
<1> QED BY <1>1, <1>2, <1>6, <1>8, NoneAssumption

\* Candles that are those of a state give it again, whenever they are replayed.
LEMMA RebuiltIs ==
    ASSUME NEW s \in Ids, NEW st, Made(s, st), NEW version,
           NEW b, b = [start |-> ContextStart(ConfigOf[s]), end |-> st.end, version |-> version,
                       candles |-> st.source]
    PROVE  ForState(b, st) = BatchOf(ConfigOf[s], st) /\ Rebuilt(s, b, st) = st
<1>1. PICK c : c = ConfigOf[s]
  OBVIOUS
<1>2. PICK x : x = BatchOf(c, st)
  OBVIOUS
<1>3. ForState(b, st) = x
  <2>1. PICK y : y = ForState(b, st)
    OBVIOUS
  <2>2. /\ DOMAIN b = {"start", "end", "version", "candles"}
        /\ b.start = ContextStart(c) /\ b.end = st.end /\ b.candles = st.source
    BY <1>1
  <2>3. y = [b EXCEPT !.version = st.version]
    BY <2>1 DEF ForState
  <2>4. /\ DOMAIN y = {"start", "end", "version", "candles"}
        /\ y.start = ContextStart(c) /\ y.end = st.end /\ y.candles = st.source
        /\ y.version = st.version /\ y = [f \in DOMAIN y |-> y[f]]
    BY <2>2, <2>3
  <2>5. /\ DOMAIN x = {"start", "end", "version", "candles"}
        /\ x.start = ContextStart(c) /\ x.end = st.end /\ x.candles = st.source
        /\ x.version = st.version /\ x = [f \in DOMAIN x |-> x[f]]
    BY <1>2 DEF BatchOf
  <2>6. \A f \in DOMAIN x : x[f] = y[f]
    BY <2>4, <2>5
  <2> QED BY <2>1, <2>4, <2>5, <2>6
<1>4. Rebuilt(s, b, st) = StateOf(s, c, x, Replay(c, b.candles), st.replayedAt)
  BY <1>1, <1>3 DEF Rebuilt
<1>5. st = StateOf(s, c, x, Replay(c, st.source), st.replayedAt)
  BY <1>1, <1>2 DEF Made
<1>6. b.candles = st.source
  OBVIOUS
<1> QED BY <1>1, <1>2, <1>3, <1>4, <1>5, <1>6

\* A state made of the candles of another one and more keeps what it decided.
LEMMA HistoryStands ==
    ASSUME NEW s \in Ids, NEW old, Made(s, old), NEW new, Made(s, new),
           IsPrefix(old.source, new.source)
    PROVE  /\ IsPrefix(old.fills, new.fills)
           /\ \A i \in DOMAIN old.orders :
                old.orders[i].status # "OPEN" => new.orders[i] = old.orders[i]
<1>1. PICK c : c = ConfigOf[s]
  OBVIOUS
<1>2. /\ Configured(c) /\ Playable(c, old.source)
      /\ old.fills = Played(c, old.source).fills /\ old.orders = Played(c, old.source).orders
      /\ old.source \in Seq(RawCandles) /\ old \in States
  BY <1>1, MadeIs
<1>3. /\ Playable(c, new.source)
      /\ new.fills = Played(c, new.source).fills /\ new.orders = Played(c, new.source).orders
      /\ new.source \in Seq(RawCandles) /\ new \in States
  BY <1>1, MadeIs
<1>4. Agree(old.source, new.source)
  <2>1. PICK x, y : x = old.source /\ y = new.source
    OBVIOUS
  <2>2. /\ x \in Seq(RawCandles) /\ y \in Seq(RawCandles) /\ Len(x) <= Len(y)
        /\ SubSeq(x, 1, Len(x)) = SubSeq(y, 1, Len(x))
    BY <2>1, <1>2, <1>3 DEF IsPrefix
  <2>3. PICK n : n = Len(x) /\ n \in Nat
    BY <2>2
  <2>4. PICK u, v : u = SubSeq(x, 1, n) /\ v = SubSeq(y, 1, n)
    OBVIOUS
  <2>5. \A i \in 1..n : u[i] = x[1 + i - 1] /\ v[i] = y[1 + i - 1]
    <3>1. \A i \in 1..n : x[i] \in RawCandles /\ y[i] \in RawCandles
      BY <2>2, <2>3
    <3>2. 1 \in Int /\ n \in Int /\ n - 1 + 1 = n
      BY <2>3
    <3>3. \A i \in 1..(n - 1 + 1) : u[i] = x[1 + i - 1]
      BY <3>1, <3>2, <2>4, SubSeqProperties
    <3>4. \A i \in 1..(n - 1 + 1) : v[i] = y[1 + i - 1]
      BY <3>1, <3>2, <2>4, SubSeqProperties
    <3> QED BY <3>2, <3>3, <3>4
  <2>6. \A i \in 1..n : 1 + i - 1 = i
    BY <2>3
  <2> QED BY <2>1, <2>2, <2>3, <2>4, <2>5, <2>6 DEF Agree
<1>5. Stands(Played(c, old.source), Played(c, new.source))
  BY <1>2, <1>3, <1>4, LongerStands
<1>6. /\ Len(old.fills) <= Len(new.fills) /\ \A i \in DOMAIN old.fills : new.fills[i] = old.fills[i]
      /\ \A i \in DOMAIN old.orders :
           old.orders[i].status # "OPEN" => new.orders[i] = old.orders[i]
  BY <1>2, <1>3, <1>5 DEF Stands
<1>7. IsPrefix(old.fills, new.fills)
  <2>1. PICK x, y : x = old.fills /\ y = new.fills
    OBVIOUS
  <2>2. /\ x \in Seq(Fills) /\ y \in Seq(Fills) /\ Len(x) <= Len(y)
        /\ \A i \in 1..Len(x) : y[i] = x[i]
    <3>1. x \in Seq(Fills) /\ y \in Seq(Fills)
      BY <2>1, <1>2, <1>3 DEF States
    <3> QED BY <3>1, <2>1, <1>6
  <2>3. PICK n : n = Len(x) /\ n \in Nat
    BY <2>2
  <2>4. PICK u, v : u = SubSeq(x, 1, n) /\ v = SubSeq(y, 1, n)
    OBVIOUS
  <2>5. \A i \in 1..n : x[i] \in Fills /\ y[i] \in Fills
    BY <2>2, <2>3
  <2>6. 1 \in Int /\ n \in Int /\ n - 1 + 1 = n
    BY <2>3
  <2>7. /\ u \in Seq(Fills) /\ Len(u) = (IF 1 <= n THEN n - 1 + 1 ELSE 0)
        /\ \A i \in 1..(n - 1 + 1) : u[i] = x[1 + i - 1]
    BY <2>4, <2>5, <2>6, SubSeqProperties
  <2>8. /\ v \in Seq(Fills) /\ Len(v) = (IF 1 <= n THEN n - 1 + 1 ELSE 0)
        /\ \A i \in 1..(n - 1 + 1) : v[i] = y[1 + i - 1]
    BY <2>4, <2>5, <2>6, SubSeqProperties
  <2>9. Len(u) = n /\ Len(v) = n
    BY <2>3, <2>7, <2>8
  <2>10. \A i \in 1..n : u[i] = v[i]
    <3>1. \A i \in 1..n : 1 + i - 1 = i /\ i \in 1..(n - 1 + 1)
      BY <2>3
    <3>2. \A i \in 1..n : u[i] = x[i] /\ v[i] = y[i]
      BY <3>1, <2>7, <2>8
    <3> QED BY <3>2, <2>2, <2>3
  <2>11. u = v
    BY <2>7, <2>8, <2>9, <2>10, SeqEqual
  <2> QED BY <2>1, <2>2, <2>3, <2>4, <2>11 DEF IsPrefix
<1> QED BY <1>6, <1>7

-----------------------------------------------------------------------------
(* The candles of RAW *)

LEMMA StoredIs ==
    ASSUME SessionsTyped
    PROVE  /\ Stored \in SUBSET Int /\ Available \in Nat /\ \A t \in Stored : t < Available
           /\ \A t \in Stored : raw[t] \in RawCandles
<1>1. raw \in [0..(Horizon - 1) -> RawCandles \cup {None}] /\ Horizon \in Nat
  BY CandlesAssumption DEF SessionsTyped, Raws
<1>2. \A t \in Stored : t \in 0..(Horizon - 1) /\ raw[t] \in RawCandles
  BY <1>1 DEF Stored
<1>3. PICK S : S = Stored
  OBVIOUS
<1>4. S \in SUBSET Int /\ \A t \in S : t >= 0
  BY <1>1, <1>2, <1>3
<1>5. Available = IF S = {} THEN 0 ELSE Max(S) + 1
  BY <1>3 DEF Available
<1>6. CASE S = {}
  BY <1>3, <1>5, <1>6
<1>7. CASE S # {}
  <2>1. IsFiniteSet(S)
    <3>1. IsFiniteSet(0..(Horizon - 1))
      BY <1>1, FS_Interval
    <3>2. S \in SUBSET (0..(Horizon - 1))
      BY <1>2, <1>3
    <3> QED BY <3>1, <3>2, FS_Subset
  <2>2. Max(S) \in S /\ \A k \in S : k <= Max(S)
    BY <1>4, <1>7, <2>1, Extremes
  <2>3. PICK m : m = Max(S)
    OBVIOUS
  <2>4. m \in Int /\ m >= 0 /\ Available = m + 1
    BY <1>4, <1>5, <1>7, <2>2, <2>3
  <2>5. \A t \in S : t \in Int /\ t <= m
    BY <1>4, <2>2, <2>3
  <2>6. \A t \in S : t < m + 1
    BY <2>4, <2>5
  <2> QED BY <1>2, <1>3, <1>4, <2>4, <2>6
<1> QED BY <1>2, <1>6, <1>7

LEMMA LoadIs ==
    ASSUME SessionsTyped, NEW c, Configured(c), NEW end, end \in Int,
           NEW b, b = Load(c, end), b # None
    PROVE  /\ b = [start |-> ContextStart(c), end |-> end, version |-> raw,
                   candles |-> b.candles]
           /\ c.start < end /\ b.candles \in Seq(RawCandles)
           /\ Len(b.candles) = end - ContextStart(c)
           /\ \A t \in ContextStart(c)..(end - 1) :
                t \in Stored /\ b.candles[t - ContextStart(c) + 1] = raw[t]
<1>1. PICK lo : lo = ContextStart(c)
  OBVIOUS
<1>2. PICK cs : cs = [i \in 1..(end - lo) |-> raw[lo + i - 1]]
  OBVIOUS
<1>3. /\ b = [start |-> lo, end |-> end, version |-> raw, candles |-> cs]
      /\ c.start < end /\ lo..(end - 1) \subseteq Stored
  BY <1>1, <1>2 DEF Load
<1>4. lo \in Int /\ lo <= c.start /\ c.start \in Int
  BY <1>1, CostsTyped DEF ContextStart
<1>5. PICK n : n = end - lo /\ n \in Nat
  BY <1>3, <1>4
<1>6. cs = [i \in 1..n |-> raw[lo + i - 1]]
  BY <1>2, <1>5
<1>7. \A i \in 1..n : lo + i - 1 \in lo..(end - 1)
  BY <1>4, <1>5
<1>8. \A i \in 1..n : raw[lo + i - 1] \in RawCandles
  BY <1>3, <1>7, StoredIs
<1>9. cs \in Seq(RawCandles) /\ Len(cs) = n
  <2>1. cs \in [1..n -> RawCandles]
    BY <1>6, <1>8
  <2> QED BY <2>1, <1>5
<1>10. \A t \in lo..(end - 1) : t - lo + 1 \in 1..n /\ lo + (t - lo + 1) - 1 = t
  BY <1>4, <1>5
<1>11. \A t \in lo..(end - 1) : cs[t - lo + 1] = raw[t]
  BY <1>6, <1>10
<1>12. b.candles = cs
  BY <1>3
<1> QED BY <1>1, <1>3, <1>5, <1>9, <1>11, <1>12

LEMMA PlayedTyped ==
    ASSUME NEW c, Configured(c), NEW candles, Playable(c, candles)
    PROVE  Played(c, candles) \in Progress
<1>1. PICK k : k = Days(c, candles) /\ k \in Nat
  BY DaysTyped
<1>2. k \in 0..k
  BY <1>1
<1> QED BY <1>1, <1>2, PlayIs, PlayedIs

\* What a replay of the candles there are makes.
LEMMA NewIsMade ==
    ASSUME SessionsTyped, NEW s \in Ids, NEW c, c = ConfigOf[s],
           NEW b, b = Load(c, Available), b # None, BatchFits(c, b),
           NEW new, new = StateOf(s, c, b, Replay(c, b.candles), clock), StateFits(s, c, new)
    PROVE  /\ Made(s, new) /\ FromRaw(new) /\ b = BatchOf(c, new)
           /\ new.end = Available /\ new.source = b.candles
<1>1. Configured(c)
  BY ConfigsAre
<1>2. PICK end : end = Available /\ end \in Nat
  BY StoredIs
<1>3. /\ b = [start |-> ContextStart(c), end |-> end, version |-> raw, candles |-> b.candles]
      /\ c.start < end /\ b.candles \in Seq(RawCandles)
      /\ \A t \in ContextStart(c)..(end - 1) :
           t \in Stored /\ b.candles[t - ContextStart(c) + 1] = raw[t]
  <2>1. end \in Int /\ b = Load(c, end)
    BY <1>2
  <2> QED BY <2>1, <1>1, LoadIs
<1>4. PICK cs : cs = b.candles
  OBVIOUS
<1>5. /\ b.start = ContextStart(c) /\ b.end = end /\ b.version = raw
  BY <1>3
<1>6. PICK r : r = Replay(c, cs)
  OBVIOUS
<1>7. r \in Progress
  <2>1. Playable(c, cs)
    BY <1>1, <1>2, <1>3, <1>4, <1>5, BatchPlays
  <2> QED BY <1>1, <1>6, <2>1, PlayedTyped DEF Replay
<1>8. PICK regime, schema : /\ regime = Regime(c, end - c.start) /\ regime \in {None, "WARMUP", "CLASSIFIED"}
                            /\ schema = (IF c.regime = None THEN 1 ELSE 2) /\ schema \in 1..2
  BY DEF Regime
<1>9. new = [session |-> s, version |-> raw, source |-> cs, start |-> ContextStart(c),
             from |-> c.start, end |-> end, processed |-> end - c.start, last |-> end - 1,
             orders |-> r.orders, fills |-> r.fills, portfolio |-> r.portfolio,
             halted |-> r.halted, regime |-> regime, schema |-> schema, replayedAt |-> clock]
  BY <1>4, <1>5, <1>6, <1>8 DEF StateOf
<1>10. new \in States
  <2>1. /\ raw \in [0..(Horizon - 1) -> RawCandles \cup {None}] /\ clock \in Nat
    BY DEF SessionsTyped, Raws
  <2>2. /\ cs \in Seq(RawCandles) /\ ContextStart(c) \in Int /\ c.start \in Nat
        /\ end - c.start \in Nat /\ end - 1 \in Int
    BY <1>1, <1>2, <1>3, <1>4, CostsTyped
  <2>3. /\ r.orders \in Seq(Orders) /\ r.fills \in Seq(Fills) /\ r.portfolio \in Portfolios
        /\ r.halted \in BOOLEAN
    BY <1>7 DEF Progress
  <2> QED BY <2>1, <2>2, <2>3, <1>2, <1>8, <1>9 DEF States
<1>11. /\ new.end = end /\ new.source = cs /\ new.version = raw /\ new.start = ContextStart(c)
       /\ new.replayedAt = clock
  BY <1>9
<1>12. b = BatchOf(c, new)
  BY <1>3, <1>4, <1>11 DEF BatchOf
<1>13. Made(s, new)
  <2>1. clock \in Nat
    BY DEF SessionsTyped
  <2>2. new = StateOf(s, c, BatchOf(c, new), Replay(c, new.source), new.replayedAt)
    BY <1>4, <1>11, <1>12
  <2> QED BY <2>1, <2>2, <1>10, <1>11, <1>12 DEF Made
<1>14. FromRaw(new)
  <2>1. end - 1 \in ContextStart(c)..(end - 1)
    <3>1. ContextStart(c) <= c.start /\ c.start \in Int /\ ContextStart(c) \in Int
      BY <1>1, CostsTyped DEF ContextStart
    <3> QED BY <3>1, <1>2, <1>3
  <2>2. end - 1 \in Stored
    BY <1>3, <2>1
  <2> QED BY <2>2, <1>3, <1>4, <1>11 DEF FromRaw
<1> QED BY <1>2, <1>4, <1>11, <1>12, <1>13, <1>14

\* Without corrections, the candles of RAW are those of the states made of them.
LEMMA Uncorrected ==
    ASSUME SessionsTyped, NEW s \in Ids, NEW c, c = ConfigOf[s], NEW old, Made(s, old), FromRaw(old),
           corrections = 0, NEW b, b = Load(c, old.end), b # None
    PROVE  b.candles = old.source
<1>1. /\ Configured(c) /\ old.end \in Nat /\ old.source \in Seq(RawCandles)
      /\ old.start = ContextStart(c) /\ BatchFits(c, BatchOf(c, old))
  BY MadeIs DEF Made
<1>2. /\ b.candles \in Seq(RawCandles) /\ Len(b.candles) = old.end - ContextStart(c)
      /\ \A t \in ContextStart(c)..(old.end - 1) : b.candles[t - ContextStart(c) + 1] = raw[t]
  <2>1. old.end \in Int
    BY <1>1
  <2> QED BY <2>1, <1>1, LoadIs
<1>3. Len(old.source) = old.end - ContextStart(c)
  BY <1>1 DEF BatchFits, BatchOf
<1>4. PICK lo : lo = ContextStart(c) /\ lo \in Int
  BY <1>1, CostsTyped
<1>5. \A t \in lo..(old.end - 1) : old.source[t - lo + 1] = raw[t]
  BY <1>1, <1>4 DEF FromRaw
<1>6. \A i \in 1..Len(b.candles) : b.candles[i] = old.source[i]
  <2> TAKE i \in 1..Len(b.candles)
  <2>1. PICK t : t = lo + i - 1
    OBVIOUS
  <2>2. t \in lo..(old.end - 1) /\ t - lo + 1 = i
    BY <2>1, <1>1, <1>2, <1>4
  <2> QED BY <2>2, <1>2, <1>4, <1>5
<1> QED BY <1>1, <1>2, <1>3, <1>6, SeqEqual

-----------------------------------------------------------------------------
(* What a step leaves alone *)

\* RAW never loses a candle; unless one was corrected, it has the same ones.
RawGrows == /\ Stored \subseteq Stored'
            /\ corrections \in Nat /\ corrections' \in Nat /\ corrections' >= corrections
            /\ corrections' = 0 => \A t \in Stored : raw'[t] = raw[t]

LEMMA FromRawKeeps ==
    ASSUME NEW st, FromRaw(st), RawGrows
    PROVE  FromRaw(st)'
<1>1. st.end - 1 \in Stored'
  BY DEF FromRaw, RawGrows
<1>2. ASSUME corrections' = 0, NEW t \in st.start..(st.end - 1)
      PROVE  t \in Stored' /\ st.source[t - st.start + 1] = raw'[t]
  <2>1. corrections = 0
    BY <1>2 DEF RawGrows
  <2>2. t \in Stored /\ st.source[t - st.start + 1] = raw[t]
    BY <1>2, <2>1 DEF FromRaw
  <2> QED BY <2>2, <1>2 DEF RawGrows
<1> QED BY <1>1, <1>2 DEF FromRaw

LEMMA RawStays ==
    ASSUME SessionsTyped, UNCHANGED market
    PROVE  RawGrows /\ raw' \in Raws /\ corrections' \in Nat
  BY DEF SessionsTyped, market, RawGrows, Stored

\* What is published of a session only gives way to what ends later.
Advances(x, y) == y = x \/ (x # None => y # None /\ y.end \in Nat /\ y.end > x.end)

LEMMA DiskStays ==
    ASSUME SessionsTyped, NEW s \in Ids, DiskOK(s), RawGrows, disk'[s] = disk[s],
           faults' \in Nat, faults' >= faults,
           \/ faults' > faults
           \/ \A b \in Actors : at[b].pc = "summary" /\ at[b].session = s =>
                                  at'[b].pc = "summary" /\ at'[b].session = s
    PROVE  DiskOK(s)'
<1>1. PICK d : d = disk[s] /\ d = disk'[s]
  OBVIOUS
<1>2. FolderOK(s, d)
  BY <1>1 DEF DiskOK
<1>3. d.state # None => FromRaw(d.state)'
  <2>1. PICK st : st = d.state
    OBVIOUS
  <2>2. st # None => FromRaw(st)
    BY <1>1, <2>1 DEF DiskOK
  <2>3. st # None => FromRaw(st)'
    BY <2>2, FromRawKeeps
  <2> QED BY <2>1, <2>3
<1>4. \/ d.state = None \/ d.summary = SummaryOf(d.state) \/ faults' > 0
      \/ \E a \in Actors : at'[a].pc = "summary" /\ at'[a].session = s
  <2>1. \/ d.state = None \/ d.summary = SummaryOf(d.state) \/ faults > 0
        \/ \E a \in Actors : at[a].pc = "summary" /\ at[a].session = s
    BY <1>1 DEF DiskOK
  <2>2. faults \in Nat
    BY DEF SessionsTyped
  <2> QED BY <2>1, <2>2
<1> QED BY <1>1, <1>2, <1>3, <1>4 DEF DiskOK

LEMMA MadeEnds ==
    ASSUME NEW s \in Ids, NEW st, Made(s, st)
    PROVE  st.end \in Nat /\ st # None /\ st \in States
  BY NoneAssumption DEF Made, States

LEMMA ActorStays ==
    ASSUME SessionsTyped, DisksOK, NEW b \in Actors, ActorOK(b), RawGrows, at'[b] = at[b],
           Writes(at[b]) => /\ lock'[at[b].session] = lock[at[b].session]
                            /\ disk'[at[b].session] = disk[at[b].session],
           \A s \in Ids : Advances(disk[s].state, disk'[s].state)
    PROVE  ActorOK(b)'
<1>1. PICK p : p = at[b] /\ p = at'[b]
  OBVIOUS
<1>2. Writes(p) => p.session \in Ids /\ lock'[p.session] = b
  BY <1>1 DEF ActorOK
<1>3. Publishing(p) => /\ PublisherOK(p, disk'[p.session], corrections' > 0)
                       /\ FromRaw(p.state)'
  <2>1. SUFFICES ASSUME Publishing(p)
        PROVE  PublisherOK(p, disk'[p.session], corrections' > 0) /\ FromRaw(p.state)'
    OBVIOUS
  <2>2. PICK d, st : d = disk[p.session] /\ d = disk'[p.session] /\ st = p.state
    BY <1>1, <2>1 DEF Writes
  <2>3. PublisherOK(p, d, corrections > 0) /\ FromRaw(st)
    BY <1>1, <2>1, <2>2 DEF ActorOK
  <2>4. FromRaw(st)'
    BY <2>3, FromRawKeeps
  <2>5. corrections > 0 => corrections' > 0
    BY DEF RawGrows
  <2>6. PublisherOK(p, d, corrections' > 0)
    BY <2>3, <2>5 DEF PublisherOK
  <2> QED BY <2>2, <2>4, <2>6
<1>4. Verifying(p) => p.session \in Ids /\ VerifierOK(p, disk'[p.session])
  <2>1. SUFFICES ASSUME Verifying(p) PROVE p.session \in Ids /\ VerifierOK(p, disk'[p.session])
    OBVIOUS
  <2>2. PICK s : s = p.session
    OBVIOUS
  <2>3. PICK d, e : d = disk[s] /\ e = disk'[s]
    OBVIOUS
  <2>4. s \in Ids /\ VerifierOK(p, d)
    BY <1>1, <2>1, <2>2, <2>3 DEF ActorOK
  <2>5. Made(s, p.state) /\ FolderOK(s, d) /\ Advances(d.state, e.state)
    BY <2>2, <2>3, <2>4 DEF VerifierOK, DisksOK, DiskOK
  <2>6. p.state.end \in Nat /\ p.state # None /\ d.state # None
    BY <2>4, <2>5, MadeEnds DEF VerifierOK, Outgrown
  <2>7. Made(s, d.state) /\ d.state.end \in Nat
    BY <2>4, <2>5, <2>6, MadeEnds DEF FolderOK
  <2>8. e.state = d.state \/ (e.state # None /\ e.state.end \in Nat /\ e.state.end > d.state.end)
    BY <2>5, <2>6 DEF Advances
  <2>9. Outgrown(p, d) => Outgrown(p, e)
    BY <2>6, <2>7, <2>8 DEF Outgrown
  <2>10. e.state = p.state \/ Outgrown(p, e)
    BY <2>4, <2>6, <2>7, <2>8, <2>9 DEF VerifierOK, Outgrown
  <2> QED BY <2>2, <2>3, <2>4, <2>9, <2>10 DEF VerifierOK
<1>5. RunnerOK(p)
  BY <1>1 DEF ActorOK
<1> QED BY <1>1, <1>2, <1>3, <1>4, <1>5 DEF ActorOK

-----------------------------------------------------------------------------
(* Steps of a process *)

LEMMA ActorMoves ==
    ASSUME IInv, NEW a \in Actors, NEW step, Go(a, step), UNCHANGED market,
           DOMAIN step = DOMAIN Idle, step.pc \in Points, step.noop \in BOOLEAN, ActorOK(a)',
           lock' \in [Ids -> Actors \cup {None}],
           \A s \in Ids : \A b \in Actors : b # a /\ lock[s] = b => lock'[s] = b,
           disk' = [s \in Ids |-> disk'[s]],
           \A s \in Ids : /\ DOMAIN disk'[s] = DOMAIN Nothing
                          /\ Advances(disk[s].state, disk'[s].state)
                          /\ disk'[s] = disk[s] \/ (lock[s] \in {a, None} /\ DiskOK(s)')
                          /\ at[a].pc = "summary" /\ at[a].session = s =>
                               faults' > faults \/ DiskOK(s)',
           clock' \in Nat, faults' \in Nat, faults' >= faults,
           cycle'.index \in Nat, CycleOK'
    PROVE  IInv'
<1>1. SessionsTyped /\ DisksOK /\ ActorsOK
  BY DEF IInv
<1>2. RawGrows /\ raw' \in Raws /\ corrections' \in Nat
  BY <1>1, RawStays
<1>3. at = [x \in Actors |-> at[x]] /\ at' = [at EXCEPT ![a] = step]
  BY <1>1 DEF SessionsTyped, Go
<1>4. /\ DOMAIN at' = Actors /\ at'[a] = step
      /\ \A b \in Actors : b # a => at'[b] = at[b]
  BY <1>3
<1>5. SessionsTyped'
  <2>1. at' = [x \in Actors |-> at'[x]]
    BY <1>3
  <2>2. \A b \in Actors : /\ DOMAIN at[b] = DOMAIN Idle
                          /\ at[b].pc \in Points /\ at[b].noop \in BOOLEAN
    BY <1>1 DEF SessionsTyped
  <2>3. \A b \in Actors : /\ DOMAIN at'[b] = DOMAIN Idle
                          /\ at'[b].pc \in Points /\ at'[b].noop \in BOOLEAN
    BY <1>4, <2>2
  <2> QED BY <1>2, <2>1, <2>3 DEF SessionsTyped
<1>6. ActorsOK'
  <2>1. ASSUME NEW b \in Actors, b # a PROVE ActorOK(b)'
    <3>1. ActorOK(b) /\ at'[b] = at[b]
      BY <1>1, <1>4, <2>1 DEF ActorsOK
    <3>2. Writes(at[b]) => /\ lock'[at[b].session] = lock[at[b].session]
                           /\ disk'[at[b].session] = disk[at[b].session]
      <4>1. SUFFICES ASSUME Writes(at[b])
            PROVE  /\ lock'[at[b].session] = lock[at[b].session]
                   /\ disk'[at[b].session] = disk[at[b].session]
        OBVIOUS
      <4>2. PICK s : s = at[b].session /\ s \in Ids /\ lock[s] = b
        BY <4>1, <3>1 DEF ActorOK
      <4>3. lock[s] \notin {a, None}
        BY <4>2, <2>1, NoneAssumption
      <4> QED BY <4>2, <4>3, <2>1
    <3> QED BY <1>1, <1>2, <3>1, <3>2, ActorStays
  <2> QED BY <2>1 DEF ActorsOK
<1>7. DisksOK'
  <2>1. ASSUME NEW s \in Ids PROVE DiskOK(s)'
    <3>1. CASE disk'[s] # disk[s]
      BY <3>1
    <3>2. CASE disk'[s] = disk[s]
      <4>1. DiskOK(s)
        BY <1>1 DEF DisksOK
      <4>2. CASE at[a].pc = "summary" /\ at[a].session = s /\ ~(faults' > faults)
        BY <4>2
      <4>3. CASE ~(at[a].pc = "summary" /\ at[a].session = s)
        <5>1. \A b \in Actors : at[b].pc = "summary" /\ at[b].session = s =>
                                  at'[b].pc = "summary" /\ at'[b].session = s
          BY <1>4, <4>3
        <5> QED BY <1>1, <1>2, <3>2, <4>1, <5>1, DiskStays
      <4>4. CASE faults' > faults
        BY <1>1, <1>2, <3>2, <4>1, <4>4, DiskStays
      <4> QED BY <4>2, <4>3, <4>4
    <3> QED BY <3>1, <3>2
  <2> QED BY <2>1 DEF DisksOK
<1> QED BY <1>5, <1>6, <1>7 DEF IInv

\* Steps that only read, or leave a lock.
LEMMA OnlyMoves ==
    ASSUME IInv, NEW a \in Actors, NEW step, Go(a, step), UNCHANGED market, UNCHANGED disk,
           DOMAIN step = DOMAIN Idle, step.pc \in Points, step.noop \in BOOLEAN, ActorOK(a)',
           lock' \in [Ids -> Actors \cup {None}],
           \A s \in Ids : \A b \in Actors : b # a /\ lock[s] = b => lock'[s] = b,
           at[a].pc = "summary" => faults' > faults,
           clock' \in Nat, faults' \in Nat, faults' >= faults,
           cycle'.index \in Nat, CycleOK'
    PROVE  IInv'
<1>1. SessionsTyped
  BY DEF IInv
<1>2. /\ disk' = [s \in Ids |-> disk'[s]]
      /\ \A s \in Ids : DOMAIN disk'[s] = DOMAIN Nothing
  BY <1>1 DEF SessionsTyped
<1>3. \A s \in Ids : Advances(disk[s].state, disk'[s].state)
  BY DEF Advances
<1> QED BY <1>2, <1>3, ActorMoves

LEMMA Resting ==
    ASSUME NEW a \in Actors, at'[a].pc \in Points, ~Writes(at'[a]), ~Verifying(at'[a]),
           RunnerOK(at'[a])
    PROVE  ActorOK(a)'
<1>1. ~Publishing(at'[a])
  BY DEF Writes
<1> QED BY <1>1 DEF ActorOK

LEMMA GoesTo ==
    ASSUME SessionsTyped, NEW a \in Actors, NEW step, Go(a, step)
    PROVE  at'[a] = step
<1>1. a \in DOMAIN at
  BY DEF SessionsTyped
<1> QED BY <1>1 DEF Go

LEMMA IdleIs ==
    /\ DOMAIN Idle = {"pc", "session", "batch", "state", "noop", "results"}
    /\ Idle.pc = "idle" /\ Idle.noop = FALSE /\ Idle.results = None
    /\ Idle.pc \in Points /\ ~Writes(Idle) /\ ~Verifying(Idle) /\ RunnerOK(Idle)
  BY DEF Idle, Points, Writes, Publishing, Verifying, RunnerOK

LEMMA StateIdTyped ==
    ASSUME NEW st \in States
    PROVE  StateId(st) \in States /\ StateId(st) # None /\ st.last \in Int
<1>1. StateId(st) \in States
  BY DEF States, StateId
<1>2. st.last \in Int
  BY DEF States
<1> QED BY <1>1, <1>2, NoneAssumption

\* The run of session s is over.
LEMMA RunIsOver ==
    ASSUME SessionsTyped, NEW a \in Actors, NEW s \in Ids, NEW status, NEW st,
           \/ status = "FAILED" /\ st = None
           \/ status \in {"UPDATED", "NOOP"} /\ Made(s, st),
           at[a].results = None \/ ResultsFit(at[a].results),
           at[a].results # None => /\ Len(at[a].results) < Len(Sessions)
                                   /\ s = Sessions[Len(at[a].results) + 1],
           NEW step, step = After(a, s, status, st)
    PROVE  /\ DOMAIN step = DOMAIN Idle /\ step.pc \in Points /\ step.noop \in BOOLEAN
           /\ ~Writes(step) /\ ~Verifying(step) /\ RunnerOK(step)
<1>1. CASE at[a].results = None
  <2>1. step = Idle
    BY <1>1 DEF After
  <2> QED BY <2>1, IdleIs
<1>2. CASE at[a].results # None
  <2>1. PICK rs : rs = at[a].results
    OBVIOUS
  <2>2. PICK r : r = ResultOf(a, s, status, st)
    OBVIOUS
  <2>3. rs \in Seq(Results) /\ Len(rs) < Len(Sessions) /\ s = Sessions[Len(rs) + 1]
    BY <1>2, <2>1 DEF ResultsFit
  <2>4. /\ r.session = s /\ r \in Results
        /\ r.status = "FAILED" <=> r.state = None
    <3>1. CASE status = "FAILED" /\ st = None
      BY <3>1, <2>2 DEF ResultOf, Results
    <3>2. CASE status \in {"UPDATED", "NOOP"} /\ Made(s, st)
      <4>1. st \in States /\ st # None
        BY <3>2, MadeEnds
      <4>2. StateId(st) \in States /\ StateId(st) # None /\ st.last \in Int
        BY <4>1, StateIdTyped
      <4>3. r = [session |-> s, status |-> status, state |-> StateId(st), last |-> st.last]
        BY <4>1, <2>2 DEF ResultOf
      <4>4. status # "FAILED"
        BY <3>2
      <4> QED BY <4>2, <4>3, <4>4, <3>2 DEF Results
    <3> QED BY <3>1, <3>2
  <2>5. PICK new : new = Append(rs, r)
    OBVIOUS
  <2>6. step = [Idle EXCEPT !.pc = "cycle", !.results = new]
    BY <1>2, <2>1, <2>2, <2>5 DEF After
  <2>7. ResultsFit(new)
    <3>1. Len(Sessions) \in Nat /\ Len(rs) \in Nat
      BY <2>3, SessionsAssumption
    <3>2. /\ new \in Seq(Results) /\ Len(new) = Len(rs) + 1
          /\ \A i \in 1..Len(rs) : new[i] = rs[i]
          /\ new[Len(rs) + 1] = r
      BY <2>3, <2>4, <2>5
    <3>3. \A i \in 1..Len(rs) : /\ rs[i].session = Sessions[i]
                                /\ rs[i].status = "FAILED" <=> rs[i].state = None
      BY <2>1, <1>2, <2>3 DEF ResultsFit
    <3>4. ASSUME NEW i \in DOMAIN new
          PROVE  new[i].session = Sessions[i] /\ (new[i].status = "FAILED" <=> new[i].state = None)
      <4>1. CASE i \in 1..Len(rs)
        BY <4>1, <3>2, <3>3
      <4>2. CASE i = Len(rs) + 1
        <5>1. new[i] = r /\ Sessions[i] = s
          BY <4>2, <3>2, <2>3
        <5> QED BY <5>1, <2>4
      <4>3. i \in 1..(Len(rs) + 1)
        BY <3>2
      <4> QED BY <4>1, <4>2, <4>3, <3>1
    <3>5. Len(new) <= Len(Sessions)
      BY <3>1, <3>2, <2>3
    <3> QED BY <3>2, <3>4, <3>5 DEF ResultsFit
  <2>8. /\ DOMAIN step = DOMAIN Idle /\ step.pc = "cycle" /\ step.noop = FALSE
        /\ step.results = new
    BY <2>6 DEF Idle
  <2> QED BY <2>7, <2>8 DEF Points, Writes, Publishing, Verifying, RunnerOK
<1> QED BY <1>1, <1>2

LEMMA Unlocking ==
    ASSUME SessionsTyped, NEW a \in Actors, NEW s \in Ids, lock[s] = a, Unlocked(s)
    PROVE  /\ lock' \in [Ids -> Actors \cup {None}]
           /\ \A x \in Ids : \A b \in Actors : b # a /\ lock[x] = b => lock'[x] = b
<1>1. lock \in [Ids -> Actors \cup {None}] /\ lock' = [lock EXCEPT ![s] = None]
  BY DEF SessionsTyped, Unlocked
<1> QED BY <1>1

-----------------------------------------------------------------------------
(* RAW, listings and readers *)

LEMMA MarketMoves ==
    ASSUME IInv, RawGrows, raw' \in Raws, UNCHANGED <<disk, lock, at, cycle, clock, faults>>
    PROVE  IInv'
<1>1. SessionsTyped /\ DisksOK /\ ActorsOK /\ CycleOK
  BY DEF IInv
<1>2. SessionsTyped'
  BY <1>1 DEF SessionsTyped, RawGrows
<1>3. faults \in Nat
  BY <1>1 DEF SessionsTyped
<1>4. ASSUME NEW s \in Ids PROVE DiskOK(s)'
  <2>1. DiskOK(s) /\ disk'[s] = disk[s] /\ faults' \in Nat /\ faults' >= faults
    BY <1>1, <1>3 DEF DisksOK
  <2> QED BY <1>1, <2>1, DiskStays
<1>5. ASSUME NEW b \in Actors PROVE ActorOK(b)'
  <2>1. ActorOK(b)
    BY <1>1 DEF ActorsOK
  <2>2. \A s \in Ids : Advances(disk[s].state, disk'[s].state)
    BY DEF Advances
  <2> QED BY <1>1, <2>1, <2>2, ActorStays
<1>6. CycleOK'
  BY <1>1 DEF CycleOK
<1> QED BY <1>2, <1>4, <1>5, <1>6 DEF IInv, DisksOK, ActorsOK

LEMMA CollectKeeps ==
    ASSUME IInv, NEW t \in DOMAIN raw, NEW k \in RawCandles, Collect(t, k) \/ Correct(t, k)
    PROVE  IInv'
<1>1. raw \in [0..(Horizon - 1) -> RawCandles \cup {None}] /\ corrections \in Nat
  BY DEF IInv, SessionsTyped, Raws
<1>2. raw' = [raw EXCEPT ![t] = k] /\ k # None
  BY NoneAssumption DEF Collect, Correct
<1>3. raw' \in Raws
  BY <1>1, <1>2 DEF Raws
<1>4. Stored \subseteq Stored'
  BY <1>1, <1>2 DEF Stored
<1>5. RawGrows
  <2>1. CASE Collect(t, k)
    <3>1. corrections' = corrections /\ raw[t] = None
      BY <2>1 DEF Collect
    <3>2. \A x \in Stored : raw'[x] = raw[x]
      BY <1>1, <1>2, <3>1 DEF Stored
    <3> QED BY <1>1, <1>4, <3>1, <3>2 DEF RawGrows
  <2>2. CASE Correct(t, k)
    <3>1. corrections' = corrections + 1
      BY <2>2 DEF Correct
    <3> QED BY <1>1, <1>4, <3>1 DEF RawGrows
  <2> QED BY <2>1, <2>2
<1>6. UNCHANGED <<disk, lock, at, cycle, clock, faults>>
  BY DEF Collect, Correct
<1> QED BY <1>3, <1>5, <1>6, MarketMoves

LEMMA MigrateKeeps ==
    ASSUME IInv, NEW s \in Ids, Migrate(s)
    PROVE  IInv'
<1>1. SessionsTyped /\ DisksOK /\ ActorsOK /\ CycleOK
  BY DEF IInv
<1>2. PICK d, st : d = disk[s] /\ st = d.state
  OBVIOUS
<1>3. PICK e : e = [d EXCEPT !.summary = SummaryOf(st)]
  OBVIOUS
<1>4. /\ lock[s] = None /\ st # None /\ UNCHANGED <<market, clock, lock, at, runnerLock, cycle, faults>>
      /\ disk' = [disk EXCEPT ![s] = e]
  BY <1>2, <1>3 DEF Migrate
<1>5. RawGrows /\ raw' \in Raws /\ corrections' \in Nat
  BY <1>1, <1>4, RawStays
<1>6. /\ DOMAIN d = DOMAIN Nothing /\ s \in DOMAIN disk
  BY <1>1, <1>2 DEF SessionsTyped
<1>7. /\ DOMAIN e = DOMAIN Nothing /\ e.state = st /\ e.summary = SummaryOf(st)
      /\ e.timelines = d.timelines /\ e.refs = d.refs
  BY <1>2, <1>3, <1>6 DEF Nothing
<1>8. /\ disk'[s] = e /\ disk' = [x \in Ids |-> disk'[x]]
      /\ \A x \in Ids : x # s => disk'[x] = disk[x]
  BY <1>1, <1>4, <1>6 DEF SessionsTyped
<1>9. SessionsTyped'
  <2>1. \A x \in Ids : DOMAIN disk'[x] = DOMAIN Nothing
    BY <1>1, <1>7, <1>8 DEF SessionsTyped
  <2> QED BY <1>1, <1>4, <1>5, <1>8, <2>1 DEF SessionsTyped
<1>10. FolderOK(s, d) /\ FromRaw(st) /\ Made(s, st)
  BY <1>1, <1>2, <1>4 DEF DisksOK, DiskOK, FolderOK
<1>11. FolderOK(s, e)
  BY <1>2, <1>4, <1>7, <1>10 DEF FolderOK
<1>12. FromRaw(st)'
  BY <1>5, <1>10, FromRawKeeps
<1>13. DiskOK(s)'
  BY <1>7, <1>8, <1>11, <1>12 DEF DiskOK
<1>14. faults \in Nat /\ faults' = faults
  BY <1>1, <1>4 DEF SessionsTyped
<1>15. ASSUME NEW x \in Ids, x # s PROVE DiskOK(x)'
  <2>1. DiskOK(x) /\ disk'[x] = disk[x] /\ faults' \in Nat /\ faults' >= faults
    BY <1>1, <1>8, <1>14, <1>15 DEF DisksOK
  <2>2. \A b \in Actors : at[b].pc = "summary" /\ at[b].session = x =>
                            at'[b].pc = "summary" /\ at'[b].session = x
    BY <1>4
  <2> QED BY <1>1, <1>5, <2>1, <2>2, DiskStays
<1>16. ASSUME NEW b \in Actors PROVE ActorOK(b)'
  <2>1. ActorOK(b) /\ at'[b] = at[b]
    BY <1>1, <1>4 DEF ActorsOK
  <2>2. Writes(at[b]) => at[b].session \in Ids /\ at[b].session # s
    BY <2>1, <1>4, NoneAssumption DEF ActorOK
  <2>3. \A x \in Ids : Advances(disk[x].state, disk'[x].state)
    BY <1>2, <1>7, <1>8 DEF Advances
  <2>4. lock' = lock
    BY <1>4
  <2> QED BY <1>1, <1>5, <1>8, <2>1, <2>2, <2>3, <2>4, ActorStays
<1>17. CycleOK'
  BY <1>1, <1>4 DEF CycleOK
<1> QED BY <1>9, <1>13, <1>15, <1>16, <1>17 DEF IInv, DisksOK, ActorsOK

-----------------------------------------------------------------------------
(* Locks and directories *)

LEMMA Locking ==
    ASSUME SessionsTyped, NEW a \in Actors, NEW s \in Ids, lock[s] = None,
           lock' = [lock EXCEPT ![s] = a]
    PROVE  /\ lock' \in [Ids -> Actors \cup {None}] /\ lock'[s] = a
           /\ \A x \in Ids : \A b \in Actors : b # a /\ lock[x] = b => lock'[x] = b
<1>1. lock \in [Ids -> Actors \cup {None}]
  BY DEF SessionsTyped
<1> QED BY <1>1, NoneAssumption

LEMMA Unwritten ==
    ASSUME ActorsOK, NEW s \in Ids, lock[s] = None, NEW b \in Actors, Writes(at[b])
    PROVE  at[b].session # s
<1>1. ActorOK(b)
  BY DEF ActorsOK
<1> QED BY <1>1, NoneAssumption DEF ActorOK

LEMMA Placed ==
    ASSUME SessionsTyped, NEW s \in Ids, NEW e, DOMAIN e = DOMAIN Nothing, disk' = [disk EXCEPT ![s] = e]
    PROVE  /\ disk' = [x \in Ids |-> disk'[x]] /\ disk'[s] = e
           /\ \A x \in Ids : DOMAIN disk'[x] = DOMAIN Nothing /\ (x # s => disk'[x] = disk[x])
<1>1. disk = [x \in Ids |-> disk[x]] /\ \A x \in Ids : DOMAIN disk[x] = DOMAIN Nothing
  BY DEF SessionsTyped
<1> QED BY <1>1

LEMMA CreateFolderKeeps ==
    ASSUME IInv, NEW a \in Actors, NEW s \in Ids, CreateFolder(a, s)
    PROVE  IInv'
<1>1. SessionsTyped /\ DisksOK /\ ActorsOK /\ CycleOK
  BY DEF IInv
<1>2. PICK d : d = disk[s]
  OBVIOUS
<1>3. PICK e : e = [d EXCEPT !.folder = "empty"]
  OBVIOUS
<1>4. PICK step : step = [Idle EXCEPT !.pc = "config", !.session = s]
  OBVIOUS
<1>5. /\ at[a] = Idle /\ lock[s] = None /\ disk' = [disk EXCEPT ![s] = e]
      /\ lock' = [lock EXCEPT ![s] = a] /\ Go(a, step)
      /\ UNCHANGED <<market, clock, runnerLock, cycle, faults>>
  BY <1>2, <1>3, <1>4 DEF CreateFolder
<1>6. DOMAIN d = DOMAIN Nothing
  BY <1>1, <1>2 DEF SessionsTyped
<1>7. /\ DOMAIN e = DOMAIN Nothing /\ e.state = d.state /\ e.summary = d.summary
      /\ e.timelines = d.timelines /\ e.refs = d.refs
  BY <1>3, <1>6 DEF Nothing
<1>8. /\ disk' = [x \in Ids |-> disk'[x]] /\ disk'[s] = e
      /\ \A x \in Ids : DOMAIN disk'[x] = DOMAIN Nothing /\ (x # s => disk'[x] = disk[x])
  BY <1>1, <1>5, <1>7, Placed
<1>9. RawGrows
  BY <1>1, <1>5, RawStays
<1>10. DiskOK(s)'
  <2>1. /\ FolderOK(s, d)
        /\ d.state # None => FromRaw(d.state)
        /\ d.state = None \/ d.summary = SummaryOf(d.state) \/ faults > 0
    <3>1. DiskOK(s)
      BY <1>1 DEF DisksOK
    <3>2. \A b \in Actors : at[b].pc = "summary" => at[b].session # s
      BY <1>1, <1>5, Unwritten DEF Writes, Publishing
    <3> QED BY <3>1, <3>2, <1>2 DEF DiskOK
  <2>2. FolderOK(s, e)
    BY <2>1, <1>7 DEF FolderOK
  <2>3. PICK st : st = d.state
    OBVIOUS
  <2>4. st # None => FromRaw(st)'
    BY <2>1, <2>3, <1>9, FromRawKeeps
  <2>5. faults' = faults
    BY <1>5
  <2> QED BY <2>1, <2>2, <2>3, <2>4, <2>5, <1>7, <1>8 DEF DiskOK
<1>11. /\ DOMAIN step = DOMAIN Idle /\ step.pc = "config" /\ step.session = s
       /\ step.noop = FALSE /\ step.results = None
  BY <1>4, IdleIs
<1>12. ActorOK(a)'
  <2>1. at'[a] = step
    BY <1>1, <1>5, GoesTo
  <2>2. lock'[s] = a
    BY <1>1, <1>5, Locking
  <2>3. ~Publishing(step) /\ ~Verifying(step) /\ RunnerOK(step)
    BY <1>11 DEF Publishing, Verifying, RunnerOK
  <2> QED BY <2>1, <2>2, <2>3, <1>11 DEF ActorOK
<1>13. \A x \in Ids : /\ Advances(disk[x].state, disk'[x].state)
                      /\ disk'[x] = disk[x] \/ (lock[x] \in {a, None} /\ DiskOK(x)')
  BY <1>2, <1>5, <1>7, <1>8, <1>10 DEF Advances
<1>14. at[a].pc # "summary"
  BY <1>5, IdleIs
<1>15. step.pc \in Points /\ step.noop \in BOOLEAN
  BY <1>11 DEF Points
<1>16. /\ lock' \in [Ids -> Actors \cup {None}]
       /\ \A x \in Ids : \A b \in Actors : b # a /\ lock[x] = b => lock'[x] = b
  BY <1>1, <1>5, Locking
<1>17. /\ clock' \in Nat /\ faults' \in Nat /\ faults' >= faults
       /\ cycle'.index \in Nat /\ CycleOK'
  BY <1>1, <1>5 DEF SessionsTyped, CycleOK
<1>18. UNCHANGED market /\ Go(a, step)
  BY <1>5
<1> QED BY <1>8, <1>11, <1>12, <1>13, <1>14, <1>15, <1>16, <1>17, <1>18, ActorMoves

-----------------------------------------------------------------------------
(* A run *)

\* A process that may take session s: the runner takes it in its turn.
TurnOf(a, s) ==
    \/ at[a] = Idle
    \/ /\ at[a].pc = "cycle" /\ Len(at[a].results) < Len(Sessions)
       /\ s = Sessions[Len(at[a].results) + 1]

LEMMA TurnIs ==
    ASSUME IInv, NEW a \in Actors, NEW s \in Ids, TurnOf(a, s)
    PROVE  /\ SessionsTyped /\ DOMAIN at[a] = DOMAIN Idle /\ at[a].pc \in {"idle", "cycle"}
           /\ ~Writes(at[a])
           /\ at[a].results = None \/ ResultsFit(at[a].results)
           /\ at[a].results # None => /\ Len(at[a].results) < Len(Sessions)
                                      /\ s = Sessions[Len(at[a].results) + 1]
           /\ clock \in Nat /\ faults \in Nat /\ cycle.index \in Nat /\ CycleOK
           /\ lock \in [Ids -> Actors \cup {None}]
<1>1. SessionsTyped /\ ActorOK(a) /\ CycleOK
  BY DEF IInv, ActorsOK
<1>2. at[a].pc \in {"idle", "cycle"} /\ (at[a].pc = "idle" => at[a] = Idle)
  BY IdleIs DEF TurnOf
<1>3. RunnerOK(at[a])
  BY <1>1 DEF ActorOK
<1>4. DOMAIN at[a] = DOMAIN Idle
  BY <1>1 DEF SessionsTyped
<1> QED BY <1>1, <1>2, <1>3, <1>4, IdleIs DEF TurnOf, RunnerOK, Writes, Publishing, SessionsTyped

\* The run fails before it writes.
LEMMA FailsKeeps ==
    ASSUME IInv, NEW a \in Actors, NEW s \in Ids, TurnOf(a, s),
           Go(a, After(a, s, "FAILED", None)),
           UNCHANGED <<market, clock, disk, lock, runnerLock, cycle, faults>>
    PROVE  IInv'
<1>1. PICK step : step = After(a, s, "FAILED", None)
  OBVIOUS
<1>2. /\ SessionsTyped /\ at[a].pc # "summary"
      /\ DOMAIN step = DOMAIN Idle /\ step.pc \in Points /\ step.noop \in BOOLEAN
      /\ ~Writes(step) /\ ~Verifying(step) /\ RunnerOK(step)
  BY <1>1, TurnIs, RunIsOver
<1>3. at'[a] = step
  BY <1>1, <1>2, GoesTo
<1>4. ActorOK(a)'
  BY <1>2, <1>3, Resting
<1>5. /\ lock' \in [Ids -> Actors \cup {None}]
      /\ \A x \in Ids : \A b \in Actors : b # a /\ lock[x] = b => lock'[x] = b
  BY TurnIs
<1>6. /\ clock' \in Nat /\ faults' \in Nat /\ faults' >= faults
      /\ cycle'.index \in Nat /\ CycleOK'
  BY TurnIs DEF CycleOK
<1>7. UNCHANGED market /\ UNCHANGED disk /\ Go(a, step)
  BY <1>1
<1> QED BY <1>2, <1>4, <1>5, <1>6, <1>7, OnlyMoves

\* The run begins to publish.
LEMMA BeginsKeeps ==
    ASSUME IInv, NEW a \in Actors, NEW s \in Ids, TurnOf(a, s), lock[s] = None,
           NEW batch, NEW st, NEW noop \in BOOLEAN,
           NEW step, step = [at[a] EXCEPT !.pc = "timeline", !.session = s, !.batch = batch,
                                          !.state = st, !.noop = noop],
           Go(a, step), lock' = [lock EXCEPT ![s] = a], clock' \in Nat,
           UNCHANGED <<market, disk, runnerLock, cycle, faults>>,
           Made(s, st), FromRaw(st), batch = BatchOf(ConfigOf[s], st),
           noop => disk[s].state = st,
           ~noop => \/ disk[s].state = None \/ disk[s].state.end < st.end
                    \/ corrections > 0 /\ disk[s].state.source # st.source
    PROVE  IInv'
<1>1. /\ SessionsTyped /\ DOMAIN at[a] = DOMAIN Idle /\ at[a].pc # "summary"
      /\ at[a].results = None \/ ResultsFit(at[a].results)
      /\ at[a].results # None => /\ Len(at[a].results) < Len(Sessions)
                                 /\ s = Sessions[Len(at[a].results) + 1]
  BY TurnIs
<1>2. /\ DOMAIN step = DOMAIN Idle /\ step.pc = "timeline" /\ step.session = s
      /\ step.batch = batch /\ step.state = st /\ step.noop = noop
      /\ step.results = at[a].results
  BY <1>1, IdleIs
<1>3. at'[a] = step
  BY <1>1, GoesTo
<1>4. PICK d : d = disk[s] /\ d = disk'[s]
  OBVIOUS
<1>5. PublisherOK(step, d, corrections > 0)
  BY <1>2, <1>4 DEF PublisherOK
<1>6. FromRaw(st)'
  <2>1. RawGrows
    BY <1>1, RawStays
  <2> QED BY <2>1, FromRawKeeps
<1>7. lock'[s] = a
  BY <1>1, Locking
<1>8. corrections' = corrections
  BY DEF market
<1>9. ~Verifying(step) /\ RunnerOK(step)
  BY <1>1, <1>2 DEF Verifying, RunnerOK
<1>10. ActorOK(a)'
  BY <1>2, <1>3, <1>4, <1>5, <1>6, <1>7, <1>8, <1>9 DEF ActorOK
<1>11. /\ lock' \in [Ids -> Actors \cup {None}]
       /\ \A x \in Ids : \A b \in Actors : b # a /\ lock[x] = b => lock'[x] = b
  BY <1>1, Locking
<1>12. /\ faults' \in Nat /\ faults' >= faults /\ cycle'.index \in Nat /\ CycleOK'
  BY TurnIs DEF CycleOK
<1>13. step.pc \in Points /\ step.noop \in BOOLEAN
  BY <1>2 DEF Points
<1> QED BY <1>1, <1>2, <1>10, <1>11, <1>12, <1>13, OnlyMoves

LEMMA ReplaysKeeps ==
    ASSUME IInv, NEW a \in Actors, NEW s \in Ids, TurnOf(a, s), Replays(a, s)
    PROVE  IInv'
<1>1. PICK c : c = ConfigOf[s]
  OBVIOUS
<1>2. PICK b : b = Load(c, Available)
  OBVIOUS
<1>3. PICK old : old = disk[s].state
  OBVIOUS
<1>4. PICK r : r = Replay(c, b.candles)
  OBVIOUS
<1>5. PICK new : new = StateOf(s, c, b, r, clock)
  OBVIOUS
<1> DEFINE same == old # None /\ b # None /\ old.end = b.end /\ old.source = b.candles
           step(batch, st) == [at[a] EXCEPT !.pc = "timeline", !.session = s, !.batch = batch,
                                            !.state = st, !.noop = same]
<1>6. /\ lock[s] = None
      /\ IF \/ ~Exists(s) \/ b = None \/ ~BatchFits(c, b)
            \/ ~same /\ ~(r.ok /\ StateFits(s, c, new))
         THEN Go(a, After(a, s, "FAILED", None)) /\ UNCHANGED <<lock, clock>>
         ELSE /\ Go(a, IF same THEN step(ForState(b, old), old) ELSE step(b, new))
              /\ clock' = IF same THEN clock ELSE clock + 1
              /\ ~same => clock < MaxReplays
              /\ lock' = [lock EXCEPT ![s] = a]
      /\ UNCHANGED <<market, disk, runnerLock, cycle, faults>>
  BY <1>1, <1>2, <1>3, <1>4, <1>5 DEF Replays
<1>7. /\ SessionsTyped /\ clock \in Nat /\ DiskOK(s) /\ Configured(c)
  BY <1>1, TurnIs, ConfigsAre DEF IInv, DisksOK
<1>8. CASE \/ ~Exists(s) \/ b = None \/ ~BatchFits(c, b)
           \/ ~same /\ ~(r.ok /\ StateFits(s, c, new))
  <2>1. /\ Go(a, After(a, s, "FAILED", None))
        /\ UNCHANGED <<market, clock, disk, lock, runnerLock, cycle, faults>>
    BY <1>6, <1>8
  <2> QED BY <2>1, FailsKeeps
<1>9. CASE /\ Exists(s) /\ b # None /\ BatchFits(c, b) /\ old # None
           /\ old.end = b.end /\ old.source = b.candles
  <2>1. same = TRUE
    BY <1>9
  <2>2. PICK batch : batch = ForState(b, old)
    OBVIOUS
  <2>3. PICK x : x = [at[a] EXCEPT !.pc = "timeline", !.session = s, !.batch = batch,
                                   !.state = old, !.noop = TRUE]
    OBVIOUS
  <2>5. Go(a, x) /\ clock' = clock /\ lock' = [lock EXCEPT ![s] = a]
    BY <1>6, <1>9, <2>1, <2>2, <2>3
  <2>6. Made(s, old) /\ FromRaw(old)
    BY <1>3, <1>7, <1>9 DEF DiskOK, FolderOK
  <2>7. PICK end : end = Available /\ end \in Int
    BY <1>7, StoredIs
  <2>8. b = [start |-> ContextStart(c), end |-> end, version |-> raw, candles |-> b.candles]
    BY <1>2, <1>7, <1>9, <2>7, LoadIs
  <2>9. b.end = end
    BY <2>8
  <2>10. batch = BatchOf(c, old)
    <3>1. b = [start |-> ContextStart(ConfigOf[s]), end |-> old.end, version |-> raw,
               candles |-> old.source]
      BY <1>1, <1>9, <2>8, <2>9
    <3>2. PICK v : v = raw
      OBVIOUS
    <3> QED BY <3>1, <3>2, <1>1, <2>2, <2>6, RebuiltIs
  <2> QED BY <1>1, <1>3, <1>6, <1>7, <2>3, <2>5, <2>6, <2>10, BeginsKeeps
<1>10. CASE /\ Exists(s) /\ b # None /\ BatchFits(c, b) /\ ~same
            /\ r.ok /\ StateFits(s, c, new)
  <2>1. PICK x : x = [at[a] EXCEPT !.pc = "timeline", !.session = s, !.batch = b,
                                   !.state = new, !.noop = FALSE]
    OBVIOUS
  <2>2. same = FALSE
    BY <1>10
  <2>3. Go(a, x) /\ clock' = clock + 1 /\ lock' = [lock EXCEPT ![s] = a]
    BY <1>6, <1>10, <2>1, <2>2
  <2>4. /\ Made(s, new) /\ FromRaw(new) /\ b = BatchOf(c, new)
        /\ new.end = Available /\ new.source = b.candles
    BY <1>1, <1>2, <1>4, <1>5, <1>7, <1>10, NewIsMade
  <2>5. b.end = new.end
    BY <2>4 DEF BatchOf
  <2>6. ASSUME old # None
        PROVE  old.end < new.end \/ (corrections > 0 /\ old.source # new.source)
    <3>1. Made(s, old) /\ FromRaw(old)
      BY <1>3, <1>7, <2>6 DEF DiskOK, FolderOK
    <3>2. old.end \in Nat /\ new.end \in Nat
      BY <2>4, <3>1, MadeEnds
    <3>3. old.end - 1 < new.end
      BY <1>7, <2>4, <3>1, StoredIs DEF FromRaw
    <3>4. CASE old.end = new.end
      <4>1. old.source # b.candles
        BY <1>10, <2>5, <2>6, <3>4
      <4>2. b = Load(c, old.end)
        BY <1>2, <2>4, <3>4
      <4>3. corrections # 0
        BY <1>1, <1>7, <1>10, <3>1, <4>1, <4>2, Uncorrected
      <4>4. corrections \in Nat
        BY <1>7 DEF SessionsTyped
      <4> QED BY <2>4, <4>1, <4>3, <4>4
    <3> QED BY <3>2, <3>3, <3>4
  <2>7. clock' \in Nat
    BY <1>7, <2>3
  <2> QED BY <1>1, <1>3, <1>6, <2>1, <2>3, <2>4, <2>6, <2>7, BeginsKeeps
<1> QED BY <1>8, <1>9, <1>10

LEMMA RunsKeep ==
    ASSUME IInv, NEW a \in Actors,
           NextSession(a) \/ LockTimeout(a) \/ \E s \in Ids : RunOnce(a, s)
    PROVE  IInv'
<1>1. SessionsTyped /\ ActorOK(a)
  BY DEF IInv, ActorsOK
<1>2. ASSUME NEW s \in Ids, RunOnce(a, s) PROVE IInv'
  BY <1>2, ReplaysKeeps DEF RunOnce, TurnOf
<1>3. ASSUME at[a].pc = "cycle", Len(at[a].results) < Len(Sessions),
             NEW s, s = Sessions[Len(at[a].results) + 1]
      PROVE  s \in Ids /\ TurnOf(a, s)
  <2>1. ResultsFit(at[a].results)
    BY <1>1, <1>3 DEF ActorOK, RunnerOK
  <2>2. Len(at[a].results) \in Nat /\ Len(Sessions) \in Nat
    BY <2>1, SessionsAssumption DEF ResultsFit
  <2>3. Len(at[a].results) + 1 \in DOMAIN Sessions
    BY <1>3, <2>2, SessionsAssumption
  <2> QED BY <1>3, <2>3 DEF TurnOf, Ids, ToSet
<1>4. CASE NextSession(a)
  <2>1. PICK s : s = Sessions[Len(at[a].results) + 1]
    OBVIOUS
  <2>2. at[a].pc = "cycle" /\ Len(at[a].results) < Len(Sessions) /\ Replays(a, s)
    BY <1>4, <2>1 DEF NextSession
  <2> QED BY <2>1, <2>2, <1>3, ReplaysKeeps
<1>5. CASE LockTimeout(a)
  <2>1. PICK s : s = Sessions[Len(at[a].results) + 1]
    OBVIOUS
  <2>2. /\ at[a].pc = "cycle" /\ Len(at[a].results) < Len(Sessions)
        /\ Go(a, After(a, s, "FAILED", None))
        /\ UNCHANGED <<market, clock, disk, lock, runnerLock, cycle, faults>>
    BY <1>5, <2>1 DEF LockTimeout
  <2> QED BY <2>1, <2>2, <1>3, FailsKeeps
<1> QED BY <1>2, <1>4, <1>5

-----------------------------------------------------------------------------
(* Verification *)

\* A step that takes no lock and writes nothing.
LEMMA ReadsKeep ==
    ASSUME IInv, NEW a \in Actors, NEW step, Go(a, step), at[a].pc # "summary",
           UNCHANGED <<market, clock, disk, lock, cycle, faults>>,
           DOMAIN step = DOMAIN Idle, step.pc \in Points, step.noop \in BOOLEAN, ActorOK(a)'
    PROVE  IInv'
<1>1. SessionsTyped /\ CycleOK
  BY DEF IInv
<1>2. /\ lock' \in [Ids -> Actors \cup {None}]
      /\ \A x \in Ids : \A b \in Actors : b # a /\ lock[x] = b => lock'[x] = b
      /\ clock' \in Nat /\ faults' \in Nat /\ faults' >= faults
      /\ cycle'.index \in Nat /\ CycleOK'
  BY <1>1 DEF SessionsTyped, CycleOK
<1>3. UNCHANGED market /\ UNCHANGED disk
  OBVIOUS
<1> QED BY <1>2, <1>3, OnlyMoves

LEMMA BoundIs ==
    ASSUME NEW s \in Ids, NEW st, Made(s, st),
           Story(s, st) \in disk[s].timelines, Story(s, st) \in disk[s].refs
    PROVE  Bound(s, st)
<1>1. PICK t : t = Story(s, st)
  OBVIOUS
<1>2. t.checksum = Checksum(st) /\ t.version = st.version /\ t.source = st.source
  BY <1>1 DEF Story, TimelineOf
<1> QED BY <1>1, <1>2 DEF Bound

LEMMA VerifyKeeps ==
    ASSUME IInv, NEW a \in Actors, NEW s \in Ids, Verify(a, s)
    PROVE  IInv'
<1>1. PICK st : st = disk[s].state
  OBVIOUS
<1>2. PICK step : step = [Idle EXCEPT !.pc = "verify", !.session = s, !.state = st]
  OBVIOUS
<1>3. /\ at[a] = Idle /\ st # None /\ Go(a, step)
      /\ UNCHANGED <<market, clock, disk, lock, runnerLock, cycle, faults>>
  BY <1>1, <1>2 DEF Verify
<1>4. SessionsTyped /\ DiskOK(s)
  BY DEF IInv, DisksOK
<1>5. /\ DOMAIN step = DOMAIN Idle /\ step.pc = "verify" /\ step.session = s
      /\ step.state = st /\ step.noop = FALSE /\ step.results = None
  BY <1>2, IdleIs
<1>6. Made(s, st)
  BY <1>1, <1>3, <1>4 DEF DiskOK, FolderOK
<1>7. disk'[s].state = st
  BY <1>1, <1>3
<1>8. VerifierOK(step, disk'[s])
  BY <1>5, <1>6, <1>7 DEF VerifierOK
<1>9. at'[a] = step
  BY <1>3, <1>4, GoesTo
<1>10. ~Writes(step) /\ ~Publishing(step) /\ RunnerOK(step)
  BY <1>5 DEF Writes, Publishing, RunnerOK
<1>11. ActorOK(a)'
  BY <1>5, <1>8, <1>9, <1>10 DEF ActorOK
<1>12. step.pc \in Points /\ step.noop \in BOOLEAN /\ at[a].pc # "summary"
  BY <1>3, <1>5, IdleIs DEF Points
<1> QED BY <1>3, <1>5, <1>11, <1>12, ReadsKeep

LEMMA VerifyCandlesKeeps ==
    ASSUME IInv, NEW a \in Actors, VerifyCandles(a)
    PROVE  IInv'
<1>1. PICK p : p = at[a]
  OBVIOUS
<1>2. PICK s, st : s = p.session /\ st = p.state
  OBVIOUS
<1>3. PICK c : c = ConfigOf[s]
  OBVIOUS
<1>4. PICK b : b = Load(c, st.end)
  OBVIOUS
<1> DEFINE good == b # None /\ b.candles = st.source /\ Rebuilt(s, b, st) = st
<1>5. PICK pc : pc = IF good THEN "evidence" ELSE "refused"
  OBVIOUS
<1>6. PICK batch : batch = IF b = None THEN None ELSE ForState(b, st)
  OBVIOUS
<1>7. PICK step : step = [p EXCEPT !.pc = pc, !.batch = batch]
  OBVIOUS
<1>8. /\ p.pc = "verify" /\ Go(a, step)
      /\ UNCHANGED <<market, clock, disk, lock, runnerLock, cycle, faults>>
  BY <1>1, <1>2, <1>3, <1>4, <1>5, <1>6, <1>7 DEF VerifyCandles
<1>9. SessionsTyped /\ ActorOK(a)
  BY DEF IInv, ActorsOK
<1>10. /\ s \in Ids /\ Made(s, st) /\ RunnerOK(p)
       /\ disk[s].state = st \/ Outgrown(p, disk[s])
  BY <1>1, <1>2, <1>8, <1>9 DEF ActorOK, Verifying, VerifierOK
<1>11. DOMAIN p = DOMAIN Idle /\ p.noop \in BOOLEAN
  BY <1>1, <1>9 DEF SessionsTyped
<1>12. /\ DOMAIN step = DOMAIN Idle /\ step.pc = pc /\ step.batch = batch /\ step.session = s
       /\ step.state = st /\ step.noop \in BOOLEAN /\ step.results = p.results
  BY <1>2, <1>7, <1>11, IdleIs
<1>13. pc = "evidence" => batch = BatchOf(c, st)
  <2>1. SUFFICES ASSUME good PROVE batch = BatchOf(c, st)
    BY <1>5
  <2>2. Configured(c) /\ st.end \in Int
    BY <1>3, <1>10, ConfigsAre, MadeEnds
  <2>3. b = [start |-> ContextStart(c), end |-> st.end, version |-> raw, candles |-> b.candles]
    <3>1. PICK end : end = st.end /\ end \in Int
      BY <2>2
    <3> QED BY <3>1, <2>1, <2>2, <1>4, <1>9, LoadIs
  <2>4. ForState(b, st) = BatchOf(c, st)
    BY <1>3, <1>10, <2>1, <2>3, RebuiltIs
  <2> QED BY <1>6, <2>1, <2>4
<1>14. pc = "refused" => batch = None \/ batch.candles # st.source
  <2>1. SUFFICES ASSUME b # None, b.candles = st.source PROVE good
    <3>1. ASSUME b # None PROVE batch.candles = b.candles
      <4>1. Configured(c) /\ st.end \in Int
        BY <1>3, <1>10, ConfigsAre, MadeEnds
      <4>2. b = [start |-> ContextStart(c), end |-> st.end, version |-> raw,
                 candles |-> b.candles]
        <5>1. PICK end : end = st.end /\ end \in Int
          BY <4>1
        <5> QED BY <5>1, <3>1, <4>1, <1>4, <1>9, LoadIs
      <4>3. batch = [b EXCEPT !.version = st.version]
        BY <1>6, <3>1 DEF ForState
      <4> QED BY <4>2, <4>3
    <3> QED BY <3>1, <1>5, <1>6
  <2>2. Configured(c) /\ st.end \in Int
    BY <1>3, <1>10, ConfigsAre, MadeEnds
  <2>3. b = [start |-> ContextStart(c), end |-> st.end, version |-> raw, candles |-> b.candles]
    <3>1. PICK end : end = st.end /\ end \in Int
      BY <2>2
    <3> QED BY <3>1, <2>1, <2>2, <1>4, <1>9, LoadIs
  <2> QED BY <1>3, <1>10, <2>1, <2>3, RebuiltIs
<1>15. pc \in {"evidence", "refused"}
  BY <1>5
<1>16. Outgrown(p, disk[s]) => Outgrown(step, disk[s])
  BY <1>2, <1>12 DEF Outgrown
<1>17. VerifierOK(step, disk[s])
  BY <1>3, <1>10, <1>12, <1>13, <1>14, <1>15, <1>16 DEF VerifierOK
<1>18. at'[a] = step
  BY <1>8, <1>9, GoesTo
<1>19. ~Writes(step) /\ ~Publishing(step) /\ RunnerOK(step)
  BY <1>10, <1>12, <1>15 DEF Writes, Publishing, RunnerOK
<1>20. disk'[s] = disk[s]
  BY <1>8
<1>21. ActorOK(a)'
  BY <1>10, <1>12, <1>17, <1>18, <1>19, <1>20 DEF ActorOK
<1>22. step.pc \in Points /\ at[a].pc # "summary"
  BY <1>1, <1>8, <1>12, <1>15 DEF Points
<1> QED BY <1>8, <1>12, <1>21, <1>22, ReadsKeep

LEMMA VerifyEvidenceKeeps ==
    ASSUME IInv, NEW a \in Actors, VerifyEvidence(a)
    PROVE  IInv'
<1>1. PICK p : p = at[a]
  OBVIOUS
<1>2. PICK s, st : s = p.session /\ st = p.state
  OBVIOUS
<1>3. PICK d : d = disk[s]
  OBVIOUS
<1> DEFINE good == /\ TimelineOf(ConfigOf[s], p.batch, st) \in d.timelines
                   /\ d.state = st /\ Bound(s, st)
<1>4. PICK pc : pc = IF good THEN "accepted" ELSE "outdated"
  OBVIOUS
<1>5. PICK step : step = [p EXCEPT !.pc = pc]
  OBVIOUS
<1>6. /\ p.pc = "evidence" /\ Go(a, step)
      /\ UNCHANGED <<market, clock, disk, lock, runnerLock, cycle, faults>>
  BY <1>1, <1>2, <1>3, <1>4, <1>5 DEF VerifyEvidence
<1>7. SessionsTyped /\ ActorOK(a)
  BY DEF IInv, ActorsOK
<1>8. /\ s \in Ids /\ RunnerOK(p) /\ Made(s, st) /\ VerifierOK(p, d)
      /\ d.state = st \/ Outgrown(p, d)
      /\ p.batch = BatchOf(ConfigOf[s], st)
  BY <1>1, <1>2, <1>3, <1>6, <1>7 DEF ActorOK, Verifying, VerifierOK
<1>9. d.state = st => good
  <2>1. SUFFICES ASSUME d.state = st PROVE good
    OBVIOUS
  <2>2. st # None /\ FolderOK(s, d)
    BY <1>3, <1>8, MadeEnds DEF IInv, DisksOK, DiskOK
  <2>3. Story(s, st) \in d.timelines /\ Story(s, st) \in d.refs
    BY <2>1, <2>2 DEF FolderOK
  <2>4. Bound(s, st)
    BY <1>3, <1>8, <2>3, BoundIs
  <2> QED BY <1>8, <2>1, <2>3, <2>4 DEF Story
<1>10. DOMAIN p = DOMAIN Idle /\ p.noop \in BOOLEAN
  BY <1>1, <1>7 DEF SessionsTyped
<1>11. /\ DOMAIN step = DOMAIN Idle /\ step.pc = pc /\ step.batch = p.batch /\ step.session = s
       /\ step.state = st /\ step.noop \in BOOLEAN /\ step.results = p.results
  BY <1>2, <1>5, <1>10, IdleIs
<1>12. pc \in {"accepted", "outdated"}
  BY <1>4
<1>13. pc = "outdated" => Outgrown(p, d)
  BY <1>4, <1>8, <1>9
<1>14. Outgrown(p, d) => Outgrown(step, d)
  BY <1>2, <1>11 DEF Outgrown
<1>15. VerifierOK(step, d)
  BY <1>8, <1>11, <1>12, <1>13, <1>14 DEF VerifierOK
<1>16. at'[a] = step
  BY <1>6, <1>7, GoesTo
<1>17. ~Writes(step) /\ ~Publishing(step) /\ RunnerOK(step)
  BY <1>8, <1>11, <1>12 DEF Writes, Publishing, RunnerOK
<1>18. disk'[s] = d
  BY <1>3, <1>6
<1>19. ActorOK(a)'
  BY <1>8, <1>11, <1>15, <1>16, <1>17, <1>18 DEF ActorOK
<1>20. step.pc \in Points /\ at[a].pc # "summary"
  BY <1>1, <1>6, <1>11, <1>12 DEF Points
<1> QED BY <1>6, <1>11, <1>19, <1>20, ReadsKeep

LEMMA AnsweredKeeps ==
    ASSUME IInv, NEW a \in Actors, Answered(a)
    PROVE  IInv'
<1>1. /\ at[a].pc # "summary" /\ Go(a, Idle)
      /\ UNCHANGED <<market, clock, disk, lock, runnerLock, cycle, faults>>
  BY DEF Answered
<1>2. at'[a] = Idle
  BY <1>1, GoesTo DEF IInv
<1>3. ActorOK(a)'
  BY <1>2, IdleIs, Resting
<1> QED BY <1>1, <1>3, IdleIs, ReadsKeep

-----------------------------------------------------------------------------
(* The runner *)

LEMMA FreshIs ==
    ASSUME NEW step, step = [Idle EXCEPT !.pc = "cycle", !.results = <<>>]
    PROVE  /\ DOMAIN step = DOMAIN Idle /\ step.pc \in Points /\ step.noop \in BOOLEAN
           /\ ~Writes(step) /\ ~Verifying(step) /\ RunnerOK(step)
<1>1. /\ DOMAIN step = DOMAIN Idle /\ step.pc = "cycle" /\ step.noop = FALSE
      /\ step.results = <<>>
  BY IdleIs
<1>2. ResultsFit(<<>>)
  <2>1. Len(Sessions) \in Nat
    BY SessionsAssumption
  <2>2. <<>> \in Seq(Results) /\ Len(<<>>) = 0 /\ DOMAIN <<>> = {}
    OBVIOUS
  <2> QED BY <2>1, <2>2 DEF ResultsFit
<1> QED BY <1>1, <1>2 DEF Points, Writes, Publishing, Verifying, RunnerOK

LEMMA StartRunnerKeeps ==
    ASSUME IInv, NEW a \in Actors, StartRunner(a)
    PROVE  IInv'
<1>1. PICK step : step = [Idle EXCEPT !.pc = "cycle", !.results = <<>>]
  OBVIOUS
<1>2. /\ at[a].pc # "summary" /\ Go(a, step)
      /\ UNCHANGED <<market, clock, disk, lock, cycle, faults>>
  BY <1>1, IdleIs DEF StartRunner
<1>3. at'[a] = step
  BY <1>2, GoesTo DEF IInv
<1>4. ActorOK(a)'
  BY <1>1, <1>3, FreshIs, Resting
<1> QED BY <1>1, <1>2, <1>4, FreshIs, ReadsKeep

\* A cycle has each session once.
LEMMA CycleIsValid ==
    ASSUME NEW rs, ResultsFit(rs), Len(rs) = Len(Sessions), NEW n \in Nat,
           NEW y, y = [index |-> n + 1, status |-> Aggregate(rs), results |-> rs]
    PROVE  ValidCycle(y)
<1>1. rs \in Seq(Results) /\ Len(Sessions) \in Nat /\ Len(Sessions) # 0
  BY SessionsAssumption DEF ResultsFit
<1>2. rs # <<>>
  BY <1>1
<1>3. \A i \in DOMAIN rs : (rs[i].status = "FAILED") <=> (rs[i].state = None)
  BY DEF ResultsFit
<1>4. \A i, j \in DOMAIN rs : rs[i].session = rs[j].session => i = j
  <2>1. \A i \in DOMAIN rs : i \in DOMAIN Sessions /\ rs[i].session = Sessions[i]
    BY <1>1, SessionsAssumption DEF ResultsFit
  <2> QED BY <2>1, SessionsAssumption
<1>5. y.index = n + 1 /\ y.status = Aggregate(rs) /\ y.results = rs
  OBVIOUS
<1> QED BY <1>1, <1>2, <1>3, <1>4, <1>5 DEF ValidCycle

LEMMA EndCycleKeeps ==
    ASSUME IInv, NEW a \in Actors, NEW written \in BOOLEAN, NEW fails \in BOOLEAN,
           EndCycle(a, written, fails)
    PROVE  IInv'
<1>1. PICK rs : rs = at[a].results
  OBVIOUS
<1>2. PICK y : y = [index |-> cycle.index + 1, status |-> Aggregate(rs), results |-> rs]
  OBVIOUS
<1>3. PICK fresh : fresh = [Idle EXCEPT !.pc = "cycle", !.results = <<>>]
  OBVIOUS
<1>4. /\ at[a].pc = "cycle" /\ Len(rs) = Len(Sessions)
      /\ cycle' = IF written THEN y ELSE cycle
      /\ Go(a, Idle) \/ Go(a, fresh)
      /\ faults' = IF fails THEN faults + 1 ELSE faults
      /\ UNCHANGED <<market, clock, disk, lock>>
  BY <1>1, <1>2, <1>3 DEF EndCycle
<1>5. SessionsTyped /\ CycleOK /\ ActorOK(a)
  BY DEF IInv, ActorsOK
<1>6. cycle.index \in Nat /\ clock \in Nat /\ faults \in Nat
      /\ lock \in [Ids -> Actors \cup {None}]
  BY <1>5 DEF SessionsTyped
<1>7. ValidCycle(y) /\ y.index \in Nat
  <2>1. ResultsFit(rs)
    BY <1>1, <1>4, <1>5 DEF ActorOK, RunnerOK
  <2>2. PICK n : n = cycle.index
    OBVIOUS
  <2> QED BY <2>1, <2>2, <1>2, <1>4, <1>6, CycleIsValid
<1>8. cycle'.index \in Nat /\ CycleOK'
  <2>1. CASE written
    BY <2>1, <1>4, <1>7 DEF CycleOK
  <2>2. CASE ~written
    <3>1. cycle' = cycle
      BY <2>2, <1>4
    <3> QED BY <3>1, <1>5, <1>6 DEF CycleOK
  <2> QED BY <2>1, <2>2
<1>9. PICK step : step \in {Idle, fresh} /\ Go(a, step)
  BY <1>4
<1>10. /\ DOMAIN step = DOMAIN Idle /\ step.pc \in Points /\ step.noop \in BOOLEAN
       /\ ~Writes(step) /\ ~Verifying(step) /\ RunnerOK(step)
  BY <1>3, <1>9, FreshIs, IdleIs
<1>11. at'[a] = step
  BY <1>5, <1>9, GoesTo
<1>12. ActorOK(a)'
  BY <1>10, <1>11, Resting
<1>13. /\ lock' \in [Ids -> Actors \cup {None}]
       /\ \A x \in Ids : \A b \in Actors : b # a /\ lock[x] = b => lock'[x] = b
       /\ clock' \in Nat /\ faults' \in Nat /\ faults' >= faults
  BY <1>4, <1>6
<1>14. UNCHANGED market /\ UNCHANGED disk /\ at[a].pc # "summary"
  BY <1>4
<1> QED BY <1>8, <1>9, <1>10, <1>12, <1>13, <1>14, OnlyMoves

LEMMA KillKeeps ==
    ASSUME IInv, NEW a \in Actors, Kill(a)
    PROVE  IInv'
<1>1. /\ Go(a, Idle) /\ lock' = [s \in Ids |-> IF lock[s] = a THEN None ELSE lock[s]]
      /\ faults' = faults + 1 /\ UNCHANGED <<market, clock, disk, cycle>>
  BY DEF Kill
<1>2. SessionsTyped /\ CycleOK
  BY DEF IInv
<1>3. at'[a] = Idle
  BY <1>1, <1>2, GoesTo
<1>4. ActorOK(a)'
  BY <1>3, IdleIs, Resting
<1>5. /\ lock' \in [Ids -> Actors \cup {None}]
      /\ \A x \in Ids : \A b \in Actors : b # a /\ lock[x] = b => lock'[x] = b
  BY <1>1, <1>2 DEF SessionsTyped
<1>6. /\ clock' \in Nat /\ faults' \in Nat /\ faults' >= faults /\ faults' > faults
      /\ cycle'.index \in Nat /\ CycleOK'
  BY <1>1, <1>2 DEF SessionsTyped, CycleOK
<1>7. UNCHANGED market /\ UNCHANGED disk
  BY <1>1
<1> QED BY <1>1, <1>4, <1>5, <1>6, <1>7, IdleIs, OnlyMoves

-----------------------------------------------------------------------------
(* The writes of a run *)

LEMMA WriterIs ==
    ASSUME IInv, NEW a \in Actors, Writing(a),
           NEW p, p = at[a], NEW s, s = p.session, NEW st, st = p.state
    PROVE  /\ SessionsTyped /\ s \in Ids /\ lock[s] = a /\ DOMAIN p = DOMAIN Idle /\ p.noop \in BOOLEAN
           /\ RunnerOK(p) /\ Writes(p)
           /\ p.results = None \/ ResultsFit(p.results)
           /\ p.results # None => /\ Len(p.results) < Len(Sessions)
                                  /\ s = Sessions[Len(p.results) + 1]
           /\ p.pc = "config" \/ Publishing(p)
           /\ Publishing(p) => /\ Made(s, st) /\ FromRaw(st)
                               /\ PublisherOK(p, disk[s], corrections > 0)
                               /\ Timeline(a) = Story(s, st)
<1>1. SessionsTyped /\ ActorOK(a)
  BY DEF IInv, ActorsOK
<1>2. Writes(p) /\ (p.pc = "config" \/ Publishing(p))
  BY DEF Writing, Writes, Publishing
<1>3. s \in Ids /\ lock[s] = a /\ RunnerOK(p)
  BY <1>1, <1>2 DEF ActorOK
<1>4. DOMAIN p = DOMAIN Idle /\ p.noop \in BOOLEAN
  BY <1>1 DEF SessionsTyped
<1>5. Publishing(p) => FromRaw(st) /\ PublisherOK(p, disk[s], corrections > 0)
  BY <1>1 DEF ActorOK
<1>6. PublisherOK(p, disk[s], corrections > 0) => Made(s, st) /\ p.batch = BatchOf(ConfigOf[s], st)
  BY DEF PublisherOK
<1>7. p.batch = BatchOf(ConfigOf[s], st) => Timeline(a) = Story(s, st)
  BY DEF Timeline, Story
<1> QED BY <1>1, <1>2, <1>3, <1>4, <1>5, <1>6, <1>7 DEF RunnerOK

LEMMA WrittenIs ==
    ASSUME IInv, NEW a \in Actors, Writing(a), ~Refused(a),
           NEW p, p = at[a], NEW s, s = p.session, NEW st, st = p.state,
           NEW d, d = disk[s], NEW e, e = Written(a)
    PROVE  /\ DOMAIN e = DOMAIN Nothing /\ FolderOK(s, e) /\ Advances(d.state, e.state)
           /\ e.state # None => FromRaw(e.state)
           /\ p.pc \in {"config", "timeline", "reference"} =>
                e.state = d.state /\ e.summary = d.summary
           /\ d.timelines \subseteq e.timelines /\ d.refs \subseteq e.refs
           /\ p.pc = "timeline" => Story(s, st) \in e.timelines
           /\ p.pc = "reference" => Story(s, st) \in e.refs
           /\ p.pc \in {"state", "summary"} => e.state # None
           /\ p.pc = "summary" => e.summary = SummaryOf(e.state)
<1>1. /\ SessionsTyped /\ s \in Ids
      /\ p.pc = "config" \/ Publishing(p)
      /\ Publishing(p) => /\ Made(s, st) /\ PublisherOK(p, d, corrections > 0)
                          /\ FromRaw(st) /\ Timeline(a) = Story(s, st)
  BY WriterIs
<1>2. /\ FolderOK(s, d)
      /\ d.state # None => FromRaw(d.state)
  <2>1. DiskOK(s)
    BY <1>1 DEF IInv, DisksOK
  <2> QED BY <2>1 DEF DiskOK
<1>3. DOMAIN d = {"folder", "state", "summary", "timelines", "refs"} /\ DOMAIN d = DOMAIN Nothing
  <2>1. DOMAIN d = DOMAIN Nothing
    BY <1>1 DEF SessionsTyped
  <2> QED BY <2>1 DEF Nothing
<1>4. CASE p.pc = "config"
  <2>1. e = [d EXCEPT !.folder = "ready"]
    BY <1>4 DEF Written
  <2>2. /\ DOMAIN e = DOMAIN d /\ e.state = d.state /\ e.summary = d.summary
        /\ e.timelines = d.timelines /\ e.refs = d.refs
    BY <2>1, <1>3
  <2>3. FolderOK(s, e)
    BY <1>2, <2>2 DEF FolderOK
  <2> QED BY <1>2, <1>3, <1>4, <2>2, <2>3 DEF Advances
<1>5. CASE p.pc = "timeline"
  <2>1. Made(s, st) /\ Timeline(a) = Story(s, st)
    BY <1>1, <1>5 DEF Publishing
  <2>2. e = [d EXCEPT !.timelines = @ \cup {Story(s, st)}]
    BY <1>5, <2>1 DEF Written
  <2>3. /\ DOMAIN e = DOMAIN d /\ e.state = d.state /\ e.summary = d.summary
        /\ e.timelines = d.timelines \cup {Story(s, st)} /\ e.refs = d.refs
    BY <2>2, <1>3
  <2>4. FolderOK(s, e)
    BY <1>2, <2>1, <2>3 DEF FolderOK
  <2> QED BY <1>2, <1>3, <1>5, <2>3, <2>4 DEF Advances
<1>6. CASE p.pc = "reference"
  <2>1. Made(s, st) /\ Timeline(a) = Story(s, st)
    BY <1>1, <1>6 DEF Publishing
  <2>2. e = [d EXCEPT !.refs = @ \cup {Story(s, st)}]
    BY <1>6, <2>1 DEF Written
  <2>3. /\ DOMAIN e = DOMAIN d /\ e.state = d.state /\ e.summary = d.summary
        /\ e.refs = d.refs \cup {Story(s, st)} /\ e.timelines = d.timelines
    BY <2>2, <1>3
  <2>4. FolderOK(s, e)
    BY <1>2, <2>1, <2>3 DEF FolderOK
  <2> QED BY <1>2, <1>3, <1>6, <2>3, <2>4 DEF Advances
<1>7. CASE p.pc = "state"
  <2>1. /\ Made(s, st) /\ PublisherOK(p, d, corrections > 0) /\ FromRaw(st)
        /\ st.end \in Nat /\ st # None
    BY <1>1, <1>7, MadeEnds DEF Publishing
  <2>2. Story(s, st) \in d.timelines /\ Story(s, st) \in d.refs
    BY <1>7, <2>1 DEF PublisherOK
  <2>3. PICK x : x = IF d.state # None /\ StateId(d.state) = StateId(st) THEN d.state ELSE st
    OBVIOUS
  <2>4. e = [d EXCEPT !.state = x]
    BY <1>7, <2>3 DEF Written
  <2>5. /\ DOMAIN e = DOMAIN d /\ e.state = x /\ e.summary = d.summary
        /\ e.timelines = d.timelines /\ e.refs = d.refs
    BY <2>4, <1>3
  <2>6. /\ Made(s, x) /\ FromRaw(x) /\ x # None
        /\ Story(s, x) \in d.timelines /\ Story(s, x) \in d.refs
    BY <1>2, <2>1, <2>2, <2>3 DEF FolderOK
  <2>7. FolderOK(s, e)
    BY <1>2, <2>5, <2>6 DEF FolderOK
  <2>8. Advances(d.state, x)
    <3>1. ASSUME d.state # None, StateId(d.state) # StateId(st) PROVE st.end > d.state.end
      <4>1. ~(d.state.end >= st.end)
        BY <1>7, <3>1 DEF Refused
      <4>2. Made(s, d.state)
        BY <1>2, <3>1 DEF FolderOK
      <4>3. d.state.end \in Nat
        BY <4>2, <1>1, MadeEnds
      <4> QED BY <2>1, <4>1, <4>3
    <3> QED BY <2>1, <2>3, <3>1 DEF Advances
  <2> QED BY <1>2, <1>3, <1>7, <2>5, <2>6, <2>7, <2>8
<1>8. CASE p.pc = "summary"
  <2>1. e = [d EXCEPT !.summary = SummaryOf(d.state)]
    BY <1>8 DEF Written
  <2>2. /\ DOMAIN e = DOMAIN d /\ e.state = d.state /\ e.summary = SummaryOf(d.state)
        /\ e.timelines = d.timelines /\ e.refs = d.refs
    BY <2>1, <1>3
  <2>3. d.state # None
    BY <1>1, <1>8 DEF Publishing, PublisherOK
  <2>4. FolderOK(s, e)
    BY <1>2, <2>2, <2>3 DEF FolderOK
  <2> QED BY <1>2, <1>3, <1>8, <2>2, <2>3, <2>4 DEF Advances
<1> QED BY <1>1, <1>4, <1>5, <1>6, <1>7, <1>8 DEF Publishing

LEMMA DiskWritten ==
    ASSUME IInv, NEW a \in Actors, Writing(a), ~Refused(a), UNCHANGED market,
           faults' \in Nat, faults' >= faults,
           NEW p, p = at[a], NEW s, s = p.session, disk' = [disk EXCEPT ![s] = Written(a)],
           p.pc = "state" => \/ faults' > faults
                             \/ at'[a].pc = "summary" /\ at'[a].session = s
    PROVE  /\ disk' = [x \in Ids |-> disk'[x]] /\ disk'[s] = Written(a) /\ DiskOK(s)'
           /\ \A x \in Ids : /\ DOMAIN disk'[x] = DOMAIN Nothing
                             /\ Advances(disk[x].state, disk'[x].state)
                             /\ x # s => disk'[x] = disk[x]
<1>1. PICK d, e, st : d = disk[s] /\ e = Written(a) /\ st = p.state
  OBVIOUS
<1>2. SessionsTyped /\ s \in Ids /\ lock[s] = a
  BY <1>1, WriterIs
<1>3. /\ DOMAIN e = DOMAIN Nothing /\ FolderOK(s, e) /\ Advances(d.state, e.state)
      /\ e.state # None => FromRaw(e.state)
  BY <1>1, WrittenIs
<1>4. /\ p.pc \in {"config", "timeline", "reference"} => e.state = d.state /\ e.summary = d.summary
      /\ p.pc = "summary" => e.summary = SummaryOf(e.state)
  BY <1>1, WrittenIs
<1>5. /\ disk' = [x \in Ids |-> disk'[x]] /\ disk'[s] = e
      /\ \A x \in Ids : DOMAIN disk'[x] = DOMAIN Nothing /\ (x # s => disk'[x] = disk[x])
  BY <1>1, <1>2, <1>3, Placed
<1>6. PICK z : z = e.state
  OBVIOUS
<1>7. z # None => FromRaw(z)'
  <2>1. RawGrows
    BY <1>2, RawStays
  <2>2. z # None => FromRaw(z)
    BY <1>3, <1>6
  <2> QED BY <2>1, <2>2, FromRawKeeps
<1>8. \/ e.state = None \/ e.summary = SummaryOf(e.state) \/ faults' > 0
      \/ \E b \in Actors : at'[b].pc = "summary" /\ at'[b].session = s
  <2>1. faults \in Nat
    BY <1>2 DEF SessionsTyped
  <2>2. CASE p.pc \in {"config", "timeline", "reference"}
    <3>1. \/ d.state = None \/ d.summary = SummaryOf(d.state) \/ faults > 0
          \/ \E b \in Actors : at[b].pc = "summary" /\ at[b].session = s
      BY <1>1, <1>2 DEF IInv, DisksOK, DiskOK
    <3>2. ASSUME NEW b \in Actors, at[b].pc = "summary", at[b].session = s PROVE FALSE
      <4>1. ActorOK(b)
        BY DEF IInv, ActorsOK
      <4>2. lock[s] = b
        BY <3>2, <4>1 DEF ActorOK, Writes, Publishing
      <4> QED BY <4>2, <3>2, <2>2, <1>2
    <3> QED BY <3>1, <3>2, <2>1, <2>2, <1>4
  <2>3. CASE p.pc = "state"
    BY <2>1, <2>3
  <2>4. CASE p.pc = "summary"
    BY <2>4, <1>4
  <2> QED BY <2>2, <2>3, <2>4 DEF Writing
<1>9. DiskOK(s)'
  BY <1>3, <1>5, <1>6, <1>7, <1>8 DEF DiskOK
<1>10. \A x \in Ids : Advances(disk[x].state, disk'[x].state)
  BY <1>1, <1>3, <1>5 DEF Advances
<1> QED BY <1>1, <1>5, <1>9, <1>10

\* The run ends with the write, refused, or failing.
LEMMA EndsKeeps ==
    ASSUME IInv, NEW a \in Actors, Writing(a), NEW status, NEW st, Conclude(a, status, st),
           \/ status = "FAILED" /\ st = None
           \/ at[a].pc = "config"
           \/ status \in {"UPDATED", "NOOP"} /\ Made(at[a].session, st),
           UNCHANGED <<market, clock, cycle>>, faults' \in Nat, faults' >= faults,
           \/ disk' = disk /\ (at[a].pc = "summary" => faults' > faults)
           \/ /\ ~Refused(a) /\ disk' = [disk EXCEPT ![at[a].session] = Written(a)]
              /\ at[a].pc = "state" => faults' > faults
    PROVE  IInv'
<1>1. PICK p, s : p = at[a] /\ s = p.session
  OBVIOUS
<1>2. PICK step : step = After(a, s, status, st)
  OBVIOUS
<1>3. /\ SessionsTyped /\ s \in Ids /\ lock[s] = a /\ RunnerOK(p)
      /\ p.results = None \/ ResultsFit(p.results)
      /\ p.results # None => /\ Len(p.results) < Len(Sessions)
                             /\ s = Sessions[Len(p.results) + 1]
  BY <1>1, WriterIs
<1>4. /\ DOMAIN step = DOMAIN Idle /\ step.pc \in Points /\ step.noop \in BOOLEAN
      /\ ~Writes(step) /\ ~Verifying(step) /\ RunnerOK(step)
  <2>1. CASE p.pc = "config"
    <3>1. step = Idle
      BY <2>1, <1>1, <1>2, <1>3 DEF After, RunnerOK
    <3> QED BY <3>1, IdleIs
  <2>2. CASE p.pc # "config"
    BY <2>2, <1>1, <1>2, <1>3, RunIsOver
  <2> QED BY <2>1, <2>2
<1>5. Go(a, step) /\ Unlocked(s)
  BY <1>1, <1>2 DEF Conclude
<1>6. at'[a] = step
  BY <1>3, <1>5, GoesTo
<1>7. ActorOK(a)'
  BY <1>4, <1>6, Resting
<1>8. /\ lock' \in [Ids -> Actors \cup {None}]
      /\ \A x \in Ids : \A b \in Actors : b # a /\ lock[x] = b => lock'[x] = b
  BY <1>3, <1>5, Unlocking
<1>9. /\ clock' \in Nat /\ cycle'.index \in Nat /\ CycleOK'
  BY <1>3 DEF SessionsTyped, IInv, CycleOK
<1>10. UNCHANGED market
  OBVIOUS
<1>11. CASE disk' = disk /\ (p.pc = "summary" => faults' > faults)
  BY <1>1, <1>4, <1>5, <1>7, <1>8, <1>9, <1>10, <1>11, OnlyMoves
<1>12. CASE /\ ~Refused(a) /\ disk' = [disk EXCEPT ![s] = Written(a)]
            /\ p.pc = "state" => faults' > faults
  <2>1. /\ disk' = [x \in Ids |-> disk'[x]] /\ DiskOK(s)'
        /\ \A x \in Ids : /\ DOMAIN disk'[x] = DOMAIN Nothing
                          /\ Advances(disk[x].state, disk'[x].state)
                          /\ x # s => disk'[x] = disk[x]
    BY <1>1, <1>10, <1>12, DiskWritten
  <2>2. \A x \in Ids : /\ disk'[x] = disk[x] \/ (lock[x] \in {a, None} /\ DiskOK(x)')
                       /\ at[a].pc = "summary" /\ at[a].session = x =>
                            faults' > faults \/ DiskOK(x)'
    <3> SUFFICES ASSUME NEW x \in Ids
                 PROVE  /\ disk'[x] = disk[x] \/ (lock[x] \in {a, None} /\ DiskOK(x)')
                        /\ at[a].pc = "summary" /\ at[a].session = x =>
                             faults' > faults \/ DiskOK(x)'
      OBVIOUS
    <3>1. CASE x = s
      <4>1. DiskOK(x)'
        BY <2>1, <3>1
      <4> QED BY <3>1, <4>1, <1>3
    <3>2. CASE x # s
      BY <3>2, <2>1, <1>1
    <3> QED BY <3>1, <3>2
  <2> QED BY <1>4, <1>5, <1>7, <1>8, <1>9, <1>10, <2>1, <2>2, ActorMoves
<1> QED BY <1>1, <1>11, <1>12

\* The run goes on to its next write.
LEMMA GoesOnKeeps ==
    ASSUME IInv, NEW a \in Actors, Writing(a), ~Refused(a), ~Ends(a),
           disk' = [disk EXCEPT ![at[a].session] = Written(a)],
           Go(a, [at[a] EXCEPT !.pc = Following[@]]), UNCHANGED lock,
           UNCHANGED <<market, clock, runnerLock, cycle, faults>>
    PROVE  IInv'
<1>1. PICK p, s, st : p = at[a] /\ s = p.session /\ st = p.state
  OBVIOUS
<1>2. PICK d, e : d = disk[s] /\ e = Written(a)
  OBVIOUS
<1>3. PICK step : step = [p EXCEPT !.pc = Following[@]]
  OBVIOUS
<1>4. p.pc \in {"timeline", "reference", "state"} /\ (p.pc = "reference" => ~p.noop)
  BY <1>1 DEF Ends, Writing
<1>5. /\ SessionsTyped /\ s \in Ids /\ lock[s] = a /\ DOMAIN p = DOMAIN Idle /\ p.noop \in BOOLEAN
      /\ RunnerOK(p) /\ Writes(p)
      /\ Made(s, st) /\ FromRaw(st) /\ PublisherOK(p, d, corrections > 0)
  BY <1>1, <1>2, <1>4, WriterIs DEF Publishing
<1>6. /\ DOMAIN step = DOMAIN Idle /\ step.pc = Following[p.pc] /\ step.session = s
      /\ step.state = st /\ step.batch = p.batch /\ step.noop = p.noop
      /\ step.results = p.results
  BY <1>1, <1>3, <1>5, IdleIs
<1>7. /\ p.pc = "timeline" => step.pc = "reference"
      /\ p.pc = "reference" => step.pc = "state"
      /\ p.pc = "state" => step.pc = "summary"
  BY <1>6 DEF Following
<1>8. Go(a, step) /\ disk' = [disk EXCEPT ![s] = e]
  BY <1>1, <1>2, <1>3
<1>9. at'[a] = step
  BY <1>5, <1>8, GoesTo
<1>10. faults \in Nat /\ faults' = faults
  BY <1>5 DEF SessionsTyped
<1>11. /\ disk' = [x \in Ids |-> disk'[x]] /\ disk'[s] = e /\ DiskOK(s)'
       /\ \A x \in Ids : /\ DOMAIN disk'[x] = DOMAIN Nothing
                         /\ Advances(disk[x].state, disk'[x].state)
                         /\ x # s => disk'[x] = disk[x]
  <2>1. p.pc = "state" => at'[a].pc = "summary" /\ at'[a].session = s
    BY <1>6, <1>7, <1>9
  <2>2. faults' \in Nat /\ faults' >= faults /\ UNCHANGED market
    BY <1>10
  <2>3. disk' = [disk EXCEPT ![s] = Written(a)]
    BY <1>2, <1>8
  <2>4. /\ disk' = [x \in Ids |-> disk'[x]] /\ disk'[s] = Written(a) /\ DiskOK(s)'
        /\ \A x \in Ids : /\ DOMAIN disk'[x] = DOMAIN Nothing
                          /\ Advances(disk[x].state, disk'[x].state)
                          /\ x # s => disk'[x] = disk[x]
    BY <1>1, <2>1, <2>2, <2>3, DiskWritten, Zenon
  <2> QED BY <1>2, <2>4
<1>12. /\ d.timelines \subseteq e.timelines /\ d.refs \subseteq e.refs
       /\ p.pc \in {"timeline", "reference"} => e.state = d.state
       /\ p.pc = "timeline" => Story(s, st) \in e.timelines
       /\ p.pc = "reference" => Story(s, st) \in e.refs
       /\ p.pc = "state" => e.state # None
  BY <1>1, <1>2, WrittenIs
<1>13. PublisherOK(step, e, corrections > 0)
  <2>1. p.batch = BatchOf(ConfigOf[s], st)
    BY <1>1, <1>5 DEF PublisherOK
  <2>2. CASE p.pc = "timeline"
    BY <2>1, <2>2, <1>1, <1>5, <1>6, <1>7, <1>12 DEF PublisherOK
  <2>3. CASE p.pc = "reference"
    BY <2>1, <2>3, <1>1, <1>4, <1>5, <1>6, <1>7, <1>12 DEF PublisherOK
  <2>4. CASE p.pc = "state"
    BY <2>1, <2>4, <1>1, <1>5, <1>6, <1>7, <1>12 DEF PublisherOK
  <2> QED BY <1>4, <2>2, <2>3, <2>4
<1>14. FromRaw(st)' /\ corrections' = corrections
  <2>1. RawGrows
    BY <1>5, RawStays
  <2>2. FromRaw(st)'
    BY <2>1, <1>5, FromRawKeeps
  <2> QED BY <2>2 DEF market
<1>15. Publishing(step) /\ ~Verifying(step) /\ step.pc \in Points /\ RunnerOK(step)
  BY <1>1, <1>4, <1>5, <1>6, <1>7 DEF Publishing, Verifying, Points, RunnerOK
<1>16. ActorOK(a)'
  BY <1>5, <1>6, <1>9, <1>11, <1>13, <1>14, <1>15 DEF ActorOK
<1>17. /\ lock' \in [Ids -> Actors \cup {None}]
       /\ \A x \in Ids : \A b \in Actors : b # a /\ lock[x] = b => lock'[x] = b
       /\ clock' \in Nat /\ cycle'.index \in Nat /\ CycleOK'
       /\ faults' \in Nat /\ faults' >= faults
  BY <1>5, <1>10 DEF SessionsTyped, IInv, CycleOK
<1>18. \A x \in Ids : /\ disk'[x] = disk[x] \/ (lock[x] \in {a, None} /\ DiskOK(x)')
                      /\ ~(at[a].pc = "summary" /\ at[a].session = x)
  <2> SUFFICES ASSUME NEW x \in Ids
               PROVE  /\ disk'[x] = disk[x] \/ (lock[x] \in {a, None} /\ DiskOK(x)')
                      /\ ~(at[a].pc = "summary" /\ at[a].session = x)
    OBVIOUS
  <2>1. x = s => DiskOK(x)'
    BY <1>11
  <2> QED BY <2>1, <1>1, <1>4, <1>5, <1>11
<1>19. step.noop \in BOOLEAN /\ UNCHANGED market
  BY <1>5, <1>6
<1> QED BY <1>6, <1>8, <1>11, <1>15, <1>16, <1>17, <1>18, <1>19, ActorMoves

LEMMA WritesKeep ==
    ASSUME IInv, NEW a \in Actors,
           Write(a) \/ Refuse(a) \/ \E done \in BOOLEAN : WriteFails(a, done)
    PROVE  IInv'
<1>1. SessionsTyped /\ faults \in Nat
  BY DEF IInv, SessionsTyped
<1>2. CASE Write(a) /\ ~Ends(a)
  BY <1>2, GoesOnKeeps DEF Write
<1>3. CASE Write(a) /\ Ends(a)
  <2>1. PICK status, st : status = (IF at[a].noop THEN "NOOP" ELSE "UPDATED") /\ st = at[a].state
    OBVIOUS
  <2>2. /\ Writing(a) /\ ~Refused(a) /\ Conclude(a, status, st)
        /\ disk' = [disk EXCEPT ![at[a].session] = Written(a)]
        /\ UNCHANGED <<market, clock, runnerLock, cycle, faults>>
    BY <1>3, <2>1 DEF Write
  <2>3. at[a].pc = "config" \/ (status \in {"UPDATED", "NOOP"} /\ Made(at[a].session, st))
    <3>1. PICK p, s : p = at[a] /\ s = p.session
      OBVIOUS
    <3>2. p.pc = "config" \/ Made(s, st)
      BY <2>1, <2>2, <3>1, WriterIs
    <3> QED BY <2>1, <3>1, <3>2
  <2>4. at[a].pc # "state"
    BY <1>3 DEF Ends
  <2>5. UNCHANGED <<market, clock, cycle>> /\ faults' \in Nat /\ faults' >= faults
    BY <1>1, <2>2
  <2> QED BY <2>2, <2>3, <2>4, <2>5, EndsKeeps
<1>4. CASE Refuse(a)
  <2>1. at[a].pc # "summary"
    BY <1>4 DEF Refuse, Refused
  <2> QED BY <1>1, <1>4, <2>1, EndsKeeps DEF Refuse
<1>5. ASSUME NEW done \in BOOLEAN, WriteFails(a, done) PROVE IInv'
  <2>1. /\ Writing(a) /\ ~Refused(a) /\ Conclude(a, "FAILED", None)
        /\ disk' = IF done THEN [disk EXCEPT ![at[a].session] = Written(a)] ELSE disk
        /\ faults' = faults + 1 /\ UNCHANGED <<market, clock, cycle>>
    BY <1>5 DEF WriteFails
  <2>2. faults' \in Nat /\ faults' > faults /\ faults' >= faults
    BY <1>1, <2>1
  <2>3. disk' = disk \/ disk' = [disk EXCEPT ![at[a].session] = Written(a)]
    BY <2>1
  <2> QED BY <2>1, <2>2, <2>3, EndsKeeps
<1> QED BY <1>2, <1>3, <1>4, <1>5

-----------------------------------------------------------------------------
(* Every step *)

LEMMA StepKeeps ==
    ASSUME IInv, SessionsNext
    PROVE  IInv'
<1>1. ASSUME NEW t \in DOMAIN raw, NEW k \in RawCandles, Collect(t, k) \/ Correct(t, k) PROVE IInv'
  BY <1>1, CollectKeeps
<1>2. ASSUME NEW s \in Ids, Migrate(s) PROVE IInv'
  BY <1>2, MigrateKeeps
<1>3. ASSUME NEW a \in Actors, NEW s \in Ids, CreateFolder(a, s) PROVE IInv'
  BY <1>3, CreateFolderKeeps
<1>4. ASSUME NEW a \in Actors, NextSession(a) \/ LockTimeout(a) \/ \E s \in Ids : RunOnce(a, s)
      PROVE  IInv'
  BY <1>4, RunsKeep
<1>5. ASSUME NEW a \in Actors, NEW s \in Ids, Verify(a, s) PROVE IInv'
  BY <1>5, VerifyKeeps
<1>6. ASSUME NEW a \in Actors, VerifyCandles(a) PROVE IInv'
  BY <1>6, VerifyCandlesKeeps
<1>7. ASSUME NEW a \in Actors, VerifyEvidence(a) PROVE IInv'
  BY <1>7, VerifyEvidenceKeeps
<1>8. ASSUME NEW a \in Actors, Answered(a) PROVE IInv'
  BY <1>8, AnsweredKeeps
<1>9. ASSUME NEW a \in Actors, StartRunner(a) PROVE IInv'
  BY <1>9, StartRunnerKeeps
<1>10. ASSUME NEW a \in Actors, NEW written \in BOOLEAN, NEW fails \in BOOLEAN,
              EndCycle(a, written, fails)
       PROVE  IInv'
  BY <1>10, EndCycleKeeps
<1>11. ASSUME NEW a \in Actors, Write(a) \/ Refuse(a) \/ \E done \in BOOLEAN : WriteFails(a, done)
       PROVE  IInv'
  BY <1>11, WritesKeep
<1>12. ASSUME NEW a \in Actors, Kill(a) PROVE IInv'
  BY <1>12, KillKeeps
<1> QED BY <1>1, <1>2, <1>3, <1>4, <1>5, <1>6, <1>7, <1>8, <1>9, <1>10, <1>11, <1>12
    DEF SessionsNext

LEMMA NothingKeeps ==
    ASSUME IInv, UNCHANGED sessionVars
    PROVE  IInv'
<1>1. UNCHANGED market /\ UNCHANGED <<disk, lock, at, cycle, clock, faults>>
  BY DEF sessionVars, market
<1>2. RawGrows /\ raw' \in Raws
  BY <1>1, RawStays DEF IInv
<1> QED BY <1>1, <1>2, MarketMoves

LEMMA InitIs == SessionsInit => IInv
<1> SUFFICES ASSUME SessionsInit PROVE IInv
  OBVIOUS
<1>1. SessionsTyped
  BY CandlesAssumption, IdleIs DEF SessionsInit, SessionsTyped, Raws
<1>2. ASSUME NEW s \in Ids PROVE DiskOK(s)
  <2>1. disk[s] = Nothing
    BY DEF SessionsInit
  <2>2. FolderOK(s, Nothing) /\ Nothing.state = None
    BY DEF FolderOK, Nothing
  <2> QED BY <2>1, <2>2 DEF DiskOK
<1>3. ASSUME NEW a \in Actors PROVE ActorOK(a)
  <2>1. at[a] = Idle
    BY DEF SessionsInit
  <2>2. ~Publishing(Idle)
    BY IdleIs DEF Writes
  <2> QED BY <2>1, <2>2, IdleIs DEF ActorOK
<1>4. CycleOK
  BY DEF SessionsInit, CycleOK
<1> QED BY <1>1, <1>2, <1>3, <1>4 DEF IInv, DisksOK, ActorsOK

LEMMA Invariance == SessionsSpec => []IInv
<1>1. IInv /\ [SessionsNext]_sessionVars => IInv'
  BY StepKeeps, NothingKeeps
<1> QED BY <1>1, InitIs, PTL DEF SessionsSpec

-----------------------------------------------------------------------------
(* What readers find *)

LEMMA ReadersAccept ==
    ASSUME IInv
    PROVE  ReadersAcceptWriters /\ StatesAreBacked
<1>1. ASSUME NEW s \in Ids PROVE FolderOK(s, disk[s])
  BY DEF IInv, DisksOK, DiskOK
<1>2. ASSUME NEW s \in Ids, disk[s].state # None
      PROVE  StateFits(s, ConfigOf[s], disk[s].state) /\ Bound(s, disk[s].state)
  <2>1. PICK st : st = disk[s].state
    OBVIOUS
  <2>2. Made(s, st) /\ Story(s, st) \in disk[s].timelines /\ Story(s, st) \in disk[s].refs
    BY <1>1, <1>2, <2>1 DEF FolderOK
  <2>3. StateFits(s, ConfigOf[s], st)
    BY <2>2 DEF Made
  <2> QED BY <2>1, <2>2, <2>3, BoundIs
<1>3. ASSUME NEW s \in Ids, disk[s].summary # None
      PROVE  SummaryFits(ConfigOf[s], disk[s].summary)
  <2>1. PICK st : Made(s, st) /\ disk[s].summary = SummaryOf(st)
    BY <1>1, <1>3 DEF FolderOK
  <2> QED BY <2>1, SummaryIs
<1>4. ASSUME NEW s \in Ids, NEW t \in disk[s].timelines
      PROVE  ValidTimeline(t)
  <2>1. PICK st : Made(s, st) /\ t = Story(s, st)
    BY <1>1, <1>4 DEF FolderOK
  <2> QED BY <2>1, StoryIsValid
<1>5. cycle.index > 0 => ValidCycle(cycle)
  BY DEF IInv, CycleOK
<1> QED BY <1>2, <1>3, <1>4, <1>5 DEF ReadersAcceptWriters, StatesAreBacked

LEMMA SummariesShow ==
    ASSUME IInv
    PROVE  SummariesAreCurrent
<1> SUFFICES ASSUME NEW s \in Ids, lock[s] = None, NEW answer, answer = SummaryAnswer(s)
             PROVE  IF answer = Corrupt THEN faults > 0
                    ELSE disk[s].state # None => answer = SummaryOf(disk[s].state)
  BY DEF SummariesAreCurrent
<1>1. PICK d, st, m : d = disk[s] /\ st = d.state /\ m = d.summary
  OBVIOUS
<1>2. FolderOK(s, d)
  BY <1>1 DEF IInv, DisksOK, DiskOK
<1>3. CASE st = None
  <2>1. answer = None
    BY <1>1, <1>2, <1>3 DEF SummaryAnswer, FolderOK
  <2> QED BY <2>1, <1>1, <1>3, NoneAssumption
<1>4. CASE st # None /\ m = None
  <2>1. answer = SummaryOf(st)
    BY <1>1, <1>4 DEF SummaryAnswer
  <2>2. SummaryOf(st) # Corrupt
    BY <1>1, <1>2, <1>4, SummaryIs DEF FolderOK
  <2> QED BY <1>1, <2>1, <2>2
<1>5. CASE st # None /\ m # None
  <2>1. PICK x : Made(s, x) /\ m = SummaryOf(x)
    BY <1>1, <1>2, <1>5 DEF FolderOK
  <2>2. SummaryFits(ConfigOf[s], m) /\ m.checksum = x /\ m # Corrupt
    BY <2>1, SummaryIs
  <2>3. answer = IF m.checksum = st THEN m ELSE Corrupt
    BY <1>1, <1>5, <2>2 DEF SummaryAnswer, Checksum
  <2>4. CASE x = st
    BY <1>1, <2>1, <2>2, <2>3, <2>4
  <2>5. CASE x # st
    <3>1. m # SummaryOf(st)
      BY <2>1, <2>2, <2>5 DEF SummaryOf, Checksum
    <3>2. \A a \in Actors : at[a].pc = "summary" => at[a].session # s
      BY Unwritten DEF IInv, Writes, Publishing
    <3>3. faults > 0
      BY <1>1, <1>5, <3>1, <3>2 DEF IInv, DisksOK, DiskOK
    <3> QED BY <2>2, <2>3, <2>5, <3>3
  <2> QED BY <2>4, <2>5
<1> QED BY <1>3, <1>4, <1>5

\* Whoever reads a session between whatever two writes of a run, after whatever kills
\* and failed writes, is served: load_state, load_state_binding, load_state_summary, the
\* timeline store and the state file of the runner read only what passes their checks.
THEOREM SessionsStayWhole == SessionsSpec => []SessionsAreWhole
<1>1. IInv => SessionsAreWhole
  BY ReadersAccept, SummariesShow DEF SessionsAreWhole
<1> QED BY <1>1, Invariance, PTL

\* PaperPersistedStateVerifier takes no lock, and still answers for the candles alone:
\* an accepted state was replayed from the candles there are, a refused one was not,
\* and one is outdated only when a run published another.
THEOREM VerifyStaysExact == SessionsSpec => []VerifyIsExact
<1>1. ASSUME IInv, NEW a \in Actors
      PROVE  /\ at[a].pc = "accepted" => at[a].batch.candles = at[a].state.source
             /\ at[a].pc = "refused" => \/ at[a].batch = None
                                        \/ at[a].batch.candles # at[a].state.source
             /\ at[a].pc = "outdated" => disk[at[a].session].state # at[a].state
  <2>1. PICK p, s, st, d : p = at[a] /\ s = p.session /\ st = p.state /\ d = disk[s]
    OBVIOUS
  <2>2. ASSUME p.pc \in {"accepted", "refused", "outdated"}
        PROVE  s \in Ids /\ VerifierOK(p, d)
    BY <1>1, <2>1, <2>2 DEF IInv, ActorsOK, ActorOK, Verifying
  <2>3. p.pc = "accepted" => p.batch.candles = st.source
    BY <2>1, <2>2 DEF VerifierOK, BatchOf
  <2>4. p.pc = "refused" => p.batch = None \/ p.batch.candles # st.source
    BY <2>1, <2>2 DEF VerifierOK
  <2>5. p.pc = "outdated" => d.state # st
    <3>1. SUFFICES ASSUME p.pc = "outdated" PROVE d.state # st
      OBVIOUS
    <3>2. Made(s, st) /\ d.state.end > st.end /\ s \in Ids
      BY <2>1, <2>2, <3>1 DEF VerifierOK, Outgrown
    <3>3. st.end \in Nat
      BY <3>2, MadeEnds
    <3> QED BY <3>2, <3>3
  <2> QED BY <2>1, <2>3, <2>4, <2>5
<1>2. IInv => VerifyIsExact
  BY <1>1 DEF VerifyIsExact
<1> QED BY <1>2, Invariance, PTL

LEMMA RefusalIs ==
    ASSUME IInv, NEW a \in Actors, Writing(a), Refused(a),
           NEW p, p = at[a], NEW s, s = p.session, NEW st, st = p.state, NEW d, d = disk[s]
    PROVE  p.pc = "state" /\ corrections > 0 /\ d.state.source # st.source
<1>1. /\ s \in Ids
      /\ p.pc = "config" \/ Publishing(p)
      /\ Publishing(p) => /\ Made(s, st) /\ PublisherOK(p, d, corrections > 0)
                          /\ Timeline(a) = Story(s, st)
  BY WriterIs
<1>2. FolderOK(s, d)
  BY <1>1 DEF IInv, DisksOK, DiskOK
<1>3. p.pc \in {"timeline", "reference", "state"}
  BY DEF Refused
<1>4. Made(s, st) /\ PublisherOK(p, d, corrections > 0) /\ Timeline(a) = Story(s, st)
  BY <1>1, <1>3 DEF Publishing
<1>5. p.pc # "timeline"
  <2>1. SUFFICES ASSUME p.pc = "timeline" PROVE FALSE
    OBVIOUS
  <2>2. MayBuildTimeline(s, ConfigOf[s], p.batch, st)
    <3>1. PICK c : c = ConfigOf[s]
      OBVIOUS
    <3>2. p.batch = BatchOf(c, st)
      BY <1>4, <3>1 DEF PublisherOK
    <3> QED BY <1>1, <1>4, <3>1, <3>2, StoryIs
  <2> QED BY <2>1, <2>2 DEF Refused, TimelineId
<1>6. p.pc # "reference"
  <2>1. SUFFICES ASSUME p.pc = "reference" PROVE FALSE
    OBVIOUS
  <2>2. Story(s, st).checksum = st
    BY <1>1, <1>4, StoryIs
  <2>3. PICK t \in d.refs : t.checksum = st /\ t # Story(s, st)
    BY <1>4, <2>1, <2>2 DEF Refused
  <2>4. PICK x : Made(s, x) /\ t = Story(s, x)
    BY <1>2, <2>3 DEF FolderOK
  <2>5. t.checksum = x
    BY <1>1, <2>4, StoryIs
  <2> QED BY <2>3, <2>4, <2>5
<1>7. p.pc = "state"
  BY <1>3, <1>5, <1>6
<1>8. d.state # None /\ d.state.end >= st.end
  BY <1>4, <1>7 DEF Refused, Made
<1>9. d.state.end \in Nat /\ st.end \in Nat
  <2>1. Made(s, d.state)
    BY <1>2, <1>8 DEF FolderOK
  <2> QED BY <2>1, <1>1, <1>4, MadeEnds
<1> QED BY <1>4, <1>7, <1>8, <1>9 DEF PublisherOK

\* Publishing a timeline or its reference again, after whatever was killed before, is
\* never refused; publish_state refuses a state only when a correction changed the
\* candles of the range that is published already.
THEOREM RefusalsNeedCorrections == SessionsSpec => []OnlyCorrectionsRefuse
<1>1. ASSUME IInv, NEW a \in Actors, Writing(a), Refused(a)
      PROVE  /\ at[a].pc = "state" /\ corrections > 0
             /\ disk[at[a].session].state.source # at[a].state.source
  <2>1. PICK p, s, st, d : p = at[a] /\ s = p.session /\ st = p.state /\ d = disk[s]
    OBVIOUS
  <2> QED BY <1>1, <2>1, RefusalIs
<1>2. IInv => OnlyCorrectionsRefuse
  BY <1>1 DEF OnlyCorrectionsRefuse
<1> QED BY <1>2, Invariance, PTL

-----------------------------------------------------------------------------
(* What is published stands *)

LEMMA StatesAdvance ==
    ASSUME IInv, SessionsNext, NEW s \in Ids
    PROVE  Advances(disk[s].state, disk'[s].state)
<1>1. disk' = disk => Advances(disk[s].state, disk'[s].state)
  BY DEF Advances
<1>2. ASSUME NEW x \in Ids, NEW e, disk' = [disk EXCEPT ![x] = e],
             Advances(disk[x].state, e.state)
      PROVE  Advances(disk[s].state, disk'[s].state)
  <2>1. disk = [y \in Ids |-> disk[y]]
    BY DEF IInv, SessionsTyped
  <2> QED BY <2>1, <1>2 DEF Advances
<1>3. ASSUME NEW x \in Ids PROVE DOMAIN disk[x] = {"folder", "state", "summary", "timelines", "refs"}
  <2>1. DOMAIN disk[x] = DOMAIN Nothing
    BY DEF IInv, SessionsTyped
  <2> QED BY <2>1 DEF Nothing
<1>4. ASSUME NEW x \in Ids, Migrate(x) PROVE Advances(disk[s].state, disk'[s].state)
  <2>1. PICK d : d = disk[x]
    OBVIOUS
  <2>2. PICK e : e = [d EXCEPT !.summary = SummaryOf(d.state)]
    OBVIOUS
  <2>3. disk' = [disk EXCEPT ![x] = e] /\ e.state = d.state
    BY <1>3, <1>4, <2>1, <2>2 DEF Migrate
  <2> QED BY <1>2, <2>1, <2>3 DEF Advances
<1>5. ASSUME NEW a \in Actors, NEW x \in Ids, CreateFolder(a, x)
      PROVE  Advances(disk[s].state, disk'[s].state)
  <2>1. PICK d : d = disk[x]
    OBVIOUS
  <2>2. PICK e : e = [d EXCEPT !.folder = "empty"]
    OBVIOUS
  <2>3. disk' = [disk EXCEPT ![x] = e] /\ e.state = d.state
    BY <1>3, <1>5, <2>1, <2>2 DEF CreateFolder
  <2> QED BY <1>2, <2>1, <2>3 DEF Advances
<1>6. ASSUME NEW a \in Actors, Writing(a), ~Refused(a),
             disk' = [disk EXCEPT ![at[a].session] = Written(a)]
      PROVE  Advances(disk[s].state, disk'[s].state)
  <2>1. PICK p, x, st, d, e : p = at[a] /\ x = p.session /\ st = p.state /\ d = disk[x]
                              /\ e = Written(a)
    OBVIOUS
  <2>2. x \in Ids
    BY <1>6, <2>1, WriterIs
  <2>3. Advances(d.state, e.state)
    BY <1>6, <2>1, WrittenIs
  <2> QED BY <1>2, <1>6, <2>1, <2>2, <2>3
<1>7. ASSUME NEW a \in Actors, Write(a) PROVE Advances(disk[s].state, disk'[s].state)
  BY <1>6, <1>7 DEF Write
<1>8. ASSUME NEW a \in Actors, NEW done \in BOOLEAN, WriteFails(a, done)
      PROVE  Advances(disk[s].state, disk'[s].state)
  <2>1. /\ Writing(a) /\ ~Refused(a)
        /\ disk' = disk \/ disk' = [disk EXCEPT ![at[a].session] = Written(a)]
    BY <1>8 DEF WriteFails
  <2> QED BY <1>1, <1>6, <2>1
<1>9. ASSUME \/ \E t \in DOMAIN raw, k \in RawCandles : Collect(t, k) \/ Correct(t, k)
             \/ \E a \in Actors, x \in Ids : RunOnce(a, x) \/ Verify(a, x)
             \/ \E a \in Actors, written, fails \in BOOLEAN : EndCycle(a, written, fails)
             \/ \E a \in Actors :
                  \/ StartRunner(a) \/ Refuse(a) \/ VerifyCandles(a) \/ VerifyEvidence(a)
                  \/ Answered(a) \/ NextSession(a) \/ LockTimeout(a) \/ Kill(a)
      PROVE  disk' = disk
  BY <1>9 DEF Collect, Correct, RunOnce, Replays, Verify, EndCycle, StartRunner, Refuse,
              VerifyCandles, VerifyEvidence, Answered, NextSession, LockTimeout, Kill
<1> QED BY <1>1, <1>4, <1>5, <1>7, <1>8, <1>9 DEF SessionsNext

\* publish_state never goes back and never replaces a range; and a state over more of
\* the same candles keeps every fill and every settled order, although each cycle
\* replays everything from nothing.
THEOREM PublishedStatesStand == SessionsSpec => PublishedHistoryStands
<1> DEFINE Stands1(s, old, new) ==
      old # None /\ new # old =>
        /\ new # None /\ new.end > old.end
        /\ IsPrefix(old.source, new.source) =>
             /\ IsPrefix(old.fills, new.fills)
             /\ \A i \in DOMAIN old.orders :
                  old.orders[i].status # "OPEN" => new.orders[i] = old.orders[i]
<1>1. ASSUME NEW s \in Ids, NEW old, NEW new, FolderOK(s, disk[s]), FolderOK(s, disk'[s]),
             Advances(old, new), old = disk[s].state, new = disk'[s].state
      PROVE  Stands1(s, old, new)
  <2>1. SUFFICES ASSUME old # None, new # old PROVE Stands1(s, old, new)
    OBVIOUS
  <2>2. new # None /\ new.end > old.end
    BY <1>1, <2>1 DEF Advances
  <2>3. Made(s, old) /\ Made(s, new)
    BY <1>1, <2>1, <2>2 DEF FolderOK
  <2> QED BY <2>2, <2>3, HistoryStands
<1>2. IInv /\ IInv' /\ [SessionsNext]_sessionVars =>
        [\A s \in Ids : Stands1(s, disk[s].state, disk'[s].state)]_sessionVars
  <2>1. SUFFICES ASSUME IInv, IInv', SessionsNext, NEW s \in Ids
        PROVE  Stands1(s, disk[s].state, disk'[s].state)
    OBVIOUS
  <2>2. FolderOK(s, disk[s]) /\ FolderOK(s, disk'[s])
    BY <2>1 DEF IInv, DisksOK, DiskOK
  <2>3. Advances(disk[s].state, disk'[s].state)
    BY <2>1, StatesAdvance
  <2> QED BY <1>1, <2>2, <2>3
<1> QED BY <1>2, Invariance, PTL DEF SessionsSpec, PublishedHistoryStands

-----------------------------------------------------------------------------
(* The engine: prices, fees and the portfolio *)

\* What the constructors of a run guarantee of its numbers.
LEMMA EngineConfigIs ==
    ASSUME NEW c \in Configs
    PROVE  /\ c.makerFee \in 0..10 /\ c.takerFee \in 0..10 /\ c.slippage \in 0..10
           /\ c.capital \in Nat \ {0} /\ c.step \in Nat \ {0} /\ c.tick \in Nat \ {0}
           /\ c.sizing.value \in Nat /\ c.sizing.reserve \in Nat /\ Reserve(c) \in Nat
           /\ c.stopPct \in 0..99
  BY ConfigsAssumption
  DEF ValidConfig, ValidCosts, ValidConstraints, ValidStop, Reserve

LEMMA Products ==
    ASSUME NEW a \in Nat, NEW b \in Nat, NEW m \in Nat
    PROVE  /\ a * m \in Nat
           /\ a <= b => a * m <= b * m
           /\ a < b /\ m > 0 => a * m < b * m
           /\ a > 0 /\ m > 0 => a * m > 0
           /\ a * m = m * a
  OBVIOUS

LEMMA Quotients ==
    ASSUME NEW t \in Int, NEW u \in Nat \ {0}
    PROVE  t \div u \in Int /\ (t \div u) * u <= t /\ t < (t \div u) * u + u
  OBVIOUS

\* A share of at most a tenth, rounded down, leaves more than nothing.
LEMMA AdverseIs ==
    ASSUME NEW c \in Configs, NEW side, NEW price \in Nat \ {0}
    PROVE  Adverse(c, side, price) \in Nat \ {0}
<1>1. PICK s : s = c.slippage /\ s \in 0..10
  BY EngineConfigIs
<1>2. PICK t : t = price * s /\ t \in Nat /\ t <= price * 10
  BY <1>1
<1>3. PICK d : d = t \div 100 /\ d \in Nat /\ d * 10 <= price
  BY <1>2
<1>4. Adverse(c, side, price) = IF side = "BUY" THEN price + d ELSE price - d
  BY <1>1, <1>2, <1>3 DEF Adverse
<1> QED BY <1>3, <1>4

LEMMA FeeIs ==
    ASSUME NEW c \in Configs, NEW liquidity, NEW notional \in Nat
    PROVE  FeeOf(c, liquidity, notional) \in Nat /\ FeeOf(c, liquidity, notional) <= notional
<1>1. PICK s : s = (IF liquidity = "MAKER" THEN c.makerFee ELSE c.takerFee) /\ s \in 0..10
  BY EngineConfigIs
<1>2. PICK t : t = notional * s /\ t \in Nat /\ t <= notional * 10
  BY <1>1
<1>3. t \div 100 \in Nat /\ t \div 100 <= notional
  BY <1>2
<1> QED BY <1>1, <1>2, <1>3 DEF FeeOf

\* A fill is one the constructor of Fill accepts.
LEMMA FillOfIs ==
    ASSUME NEW c \in Configs, NEW o, o.quantity \in Nat \ {0}, NEW b \in Nat \ {0}
    PROVE  LET q == FillOf(c, o, b)
           IN  /\ q.side = o.side /\ q.quantity = o.quantity
               /\ q.price \in Nat \ {0} /\ q.notional \in Nat \ {0}
               /\ q.notional = q.quantity * q.price
               /\ q.fee \in Nat /\ q.fee <= q.notional
<1>1. PICK price : /\ price = IF o.kind = "LIMIT" THEN b ELSE Adverse(c, o.side, b)
                   /\ price \in Nat \ {0}
  BY AdverseIs
<1>2. PICK notional : notional = o.quantity * price /\ notional \in Nat \ {0}
  BY <1>1, Products
<1>3. PICK fee : fee = FeeOf(c, Liquidity(o), notional) /\ fee \in Nat /\ fee <= notional
  BY <1>2, FeeIs
<1>4. FillOf(c, o, b) = [side |-> o.side, quantity |-> o.quantity, price |-> price,
                         notional |-> notional, fee |-> fee]
  BY <1>1, <1>2, <1>3 DEF FillOf
<1> QED BY <1>1, <1>2, <1>3, <1>4

\* A portfolio its constructor accepts.
Sound(p) == p \in Portfolios /\ ValidPortfolio(p)

LEMMA SoundIs ==
    ASSUME NEW p
    PROVE  Sound(p) <=> /\ p \in Portfolios
                        /\ p.cash >= 0 /\ p.base >= 0 /\ p.cost >= 0 /\ p.fees >= 0
                        /\ p.equity >= 0 /\ p.equity <= p.peak
                        /\ p.base = 0 <=> p.cost = 0
  BY DEF Sound, ValidPortfolio

LEMMA MarkedSound ==
    ASSUME NEW p \in Portfolios, NEW price \in Nat,
           p.cash >= 0, p.base >= 0, p.cost >= 0, p.fees >= 0, p.base = 0 <=> p.cost = 0
    PROVE  Sound(Marked(p, price))
<1>1. /\ p.cash \in Nat /\ p.base \in Nat /\ p.cost \in Nat /\ p.fees \in Nat /\ p.peak \in Int
  BY DEF Portfolios
<1>2. PICK worth : worth = p.cash + p.base * price
  OBVIOUS
<1>3. worth \in Nat
  <2>1. p.base * price \in Nat
    BY <1>1
  <2> QED BY <2>1, <1>1, <1>2
<1>4. PICK top : top = Max({p.peak, worth}) /\ top \in Int /\ worth <= top
  BY <1>1, <1>3, MaxOfTwo
<1> DEFINE m == [p EXCEPT !.equity = worth, !.peak = top]
<1>5. m = Marked(p, price)
  BY <1>2, <1>4 DEF Marked
<1>6. m \in Portfolios
  <2>1. worth \in Int
    BY <1>3
  <2> QED BY <2>1, <1>4 DEF Portfolios
<1>7. /\ m.cash = p.cash /\ m.base = p.base /\ m.cost = p.cost /\ m.fees = p.fees
      /\ m.equity = worth /\ m.peak = top
  BY DEF Portfolios
<1> HIDE DEF m
<1>8. Sound(m)
  BY <1>1, <1>3, <1>4, <1>6, <1>7, SoundIs
<1> QED BY <1>5, <1>8

\* A sale releases at most the cost, all of it when everything is sold.
LEMMA ReleasedIs ==
    ASSUME NEW p, Sound(p), NEW f, f.quantity \in Nat \ {0}, f.quantity <= p.base
    PROVE  /\ Released(p, f) \in Nat /\ Released(p, f) <= p.cost
           /\ f.quantity = p.base <=> Released(p, f) = p.cost
<1>1. p.base \in Nat \ {0} /\ p.cost \in Nat \ {0}
  BY SoundIs DEF Portfolios
<1>2. CASE f.quantity = p.base
  BY <1>1, <1>2 DEF Released
<1>3. CASE f.quantity # p.base
  <2>1. PICK q, u, k : q = f.quantity /\ u = p.base /\ k = p.cost
    OBVIOUS
  <2>2. q \in Nat \ {0} /\ u \in Nat \ {0} /\ k \in Nat \ {0} /\ q < u
    BY <1>1, <1>3, <2>1
  <2>3. PICK t : t = k * q /\ t \in Nat /\ t < k * u /\ k * u \in Nat
    <3>1. k * q = q * k /\ k * u = u * k /\ q * k < u * k /\ k * q \in Nat /\ k * u \in Nat
      BY <2>2, Products
    <3> QED BY <3>1
  <2>4. PICK r : r = t \div u /\ r \in Int /\ r * u <= t
    BY <2>2, <2>3, Quotients
  <2>5. r \in Nat
    BY <2>2, <2>3, <2>4
  <2>6. r < k
    <3>1. SUFFICES ASSUME k <= r PROVE FALSE
      BY <2>2, <2>5
    <3>2. k * u <= r * u /\ r * u \in Nat
      BY <2>2, <2>5, <3>1, Products
    <3> QED BY <2>3, <2>4, <3>2
  <2>7. Released(p, f) = r
    BY <1>3, <2>1, <2>3, <2>4 DEF Released, Share
  <2> QED BY <1>3, <2>1, <2>2, <2>5, <2>6, <2>7
<1> QED BY <1>2, <1>3

\* A fill the portfolio may apply leaves a portfolio its constructor accepts.
LEMMA AppliedSound ==
    ASSUME NEW p, Sound(p), NEW f, f.side \in Sides, f.quantity \in Nat \ {0},
           f.price \in Nat, f.notional \in Nat, f.fee \in Nat, f.notional > 0, f.fee <= f.notional,
           MayApply(p, f)
    PROVE  LET d == Applied(p, f)
           IN  /\ Sound(d)
               /\ d.cash = IF f.side = "BUY" THEN p.cash - f.notional - f.fee
                                             ELSE p.cash + f.notional - f.fee
               /\ d.base = IF f.side = "BUY" THEN p.base + f.quantity ELSE p.base - f.quantity
               /\ d.cash + d.cost - d.realized = p.cash + p.cost - p.realized
<1>0. /\ p.cash \in Nat /\ p.base \in Nat /\ p.cost \in Nat /\ p.realized \in Int
      /\ p.fees \in Nat /\ p.equity \in Int /\ p.peak \in Int /\ p \in Portfolios
  BY SoundIs DEF Portfolios
<1>1. PICK d : d = Applied(p, f)
  OBVIOUS
<1>2. ASSUME NEW b \in Portfolios, d = Marked(b, f.price)
      PROVE  /\ d \in Portfolios
             /\ d.cash = b.cash /\ d.base = b.base /\ d.cost = b.cost /\ d.realized = b.realized
  <2>1. f.price \in Int
    OBVIOUS
  <2>2. d \in Portfolios /\ d.cash = b.cash /\ d.base = b.base
    BY <1>2, <2>1, MarkedTyped
  <2>3. d.cost = b.cost /\ d.realized = b.realized
    BY <1>2, <2>1, MarkedTyped
  <2> QED BY <2>2, <2>3
<1>3. CASE f.side = "BUY"
  <2>1. PICK x, y, z, u : /\ x = p.cash - f.notional - f.fee /\ y = p.base + f.quantity
                          /\ z = p.cost + f.notional + f.fee /\ u = p.fees + f.fee
    OBVIOUS
  <2> DEFINE b == [p EXCEPT !.cash = x, !.base = y, !.cost = z, !.fees = u]
  <2>2. x \in Nat /\ y \in Nat \ {0} /\ z \in Nat \ {0} /\ u \in Nat
    BY <1>0, <1>3, <2>1 DEF MayApply
  <2>3. b \in Portfolios
    <3>1. x \in Int /\ y \in Int /\ z \in Int /\ u \in Int
      BY <2>2
    <3> QED BY <1>0, <3>1 DEF Portfolios
  <2>4. b.cash = x /\ b.base = y /\ b.cost = z /\ b.fees = u /\ b.realized = p.realized
    BY <1>0 DEF Portfolios
  <2>5. d = Marked(b, f.price)
    BY <1>1, <1>3, <2>1 DEF Applied, Bought
  <2> HIDE DEF b
  <2>6. Sound(d)
    BY <2>2, <2>3, <2>4, <2>5, MarkedSound
  <2>7. d.cash = x /\ d.base = y /\ d.cost = z /\ d.realized = p.realized
    BY <1>2, <2>3, <2>4, <2>5
  <2>8. d.cash + d.cost - d.realized = p.cash + p.cost - p.realized
    BY <1>0, <2>1, <2>7
  <2> QED BY <1>1, <1>3, <2>1, <2>6, <2>7, <2>8
<1>4. CASE f.side = "SELL"
  <2>1. PICK r : r = Released(p, f)
    OBVIOUS
  <2>2. /\ f.quantity <= p.base /\ r \in Nat /\ r <= p.cost
        /\ f.quantity = p.base <=> r = p.cost
    <3>1. f.quantity <= p.base
      BY <1>4 DEF MayApply
    <3> QED BY <3>1, <2>1, ReleasedIs
  <2>3. PICK x, y, z, u, v : /\ x = p.cash + f.notional - f.fee /\ y = p.base - f.quantity
                             /\ z = p.cost - r /\ u = p.fees + f.fee
                             /\ v = p.realized + f.notional - f.fee - r
    OBVIOUS
  <2> DEFINE b == [p EXCEPT !.cash = x, !.base = y, !.cost = z, !.fees = u, !.realized = v]
  <2>4. x \in Nat /\ y \in Nat /\ z \in Nat /\ u \in Nat /\ v \in Int /\ (y = 0 <=> z = 0)
    BY <1>0, <2>2, <2>3
  <2>5. b \in Portfolios
    <3>1. x \in Int /\ y \in Int /\ z \in Int /\ u \in Int /\ v \in Int
      BY <2>4
    <3> QED BY <1>0, <3>1 DEF Portfolios
  <2>6. b.cash = x /\ b.base = y /\ b.cost = z /\ b.fees = u /\ b.realized = v
    BY <1>0 DEF Portfolios
  <2>7. d = Marked(b, f.price)
    BY <1>1, <1>4, <2>1, <2>3 DEF Applied, Sold
  <2> HIDE DEF b
  <2>8. Sound(d)
    BY <2>4, <2>5, <2>6, <2>7, MarkedSound
  <2>9. d.cash = x /\ d.base = y /\ d.cost = z /\ d.realized = v
    BY <1>2, <2>5, <2>6, <2>7
  <2>10. d.cash + d.cost - d.realized = p.cash + p.cost - p.realized
    <3>1. f.notional \in Int /\ f.fee \in Int /\ r \in Int
      BY <2>2
    <3>2. x + z - v = p.cash + p.cost - p.realized
      BY <1>0, <2>3, <3>1
    <3> QED BY <2>9, <3>2
  <2> QED BY <1>1, <1>4, <2>3, <2>8, <2>9, <2>10
<1> QED BY <1>3, <1>4 DEF Sides

-----------------------------------------------------------------------------
(* The engine: orders *)

Statuses == {"OPEN", "REJECTED", "CANCELLED", "EXPIRED", "FILLED"}

\* An order as the engine keeps it: a trigger has a price, what is open has not ended,
\* and the stop of the engine sells until it is cancelled.
KeptOrders ==
    {o \in [side : Sides, kind : {"MARKET", "LIMIT", "STOP_MARKET"}, quantity : Nat,
            tif : {"GTC", "IOC", "DAY"}, price : Nat, stop : BOOLEAN, at : Nat,
            created : Int, eligible : Int, status : Statuses, ended : Int] :
        /\ o.quantity > 0
        /\ o.kind # "MARKET" => o.price > 0
        /\ o.ended = Never <=> o.status = "OPEN"
        /\ o.stop => o.side = "SELL" /\ o.tif = "GTC"}

StopsOf(os) == {i \in OpenIn(os) : os[i].stop}

LEMMA KeptIs ==
    ASSUME NEW o \in KeptOrders
    PROVE  /\ o.side \in Sides /\ o.kind \in {"MARKET", "LIMIT", "STOP_MARKET"}
           /\ o.quantity \in Nat \ {0} /\ o.price \in Nat /\ o.stop \in BOOLEAN
           /\ o.kind # "MARKET" => o.price > 0
           /\ o.eligible \in Int
           /\ o.ended = Never <=> o.status = "OPEN"
           /\ o.stop => o.side = "SELL" /\ o.tif = "GTC"
  BY DEF KeptOrders

LEMMA NewOrderIs ==
    ASSUME NEW i, i.side \in Sides, i.kind \in {"MARKET", "LIMIT", "STOP_MARKET"},
           i.quantity \in Nat \ {0}, i.tif \in {"GTC", "IOC", "DAY"}, i.price \in Nat,
           i.kind # "MARKET" => i.price > 0,
           NEW start \in Nat, NEW created \in Int, NEW status \in {"OPEN", "REJECTED", "FILLED"},
           NEW stop \in BOOLEAN, stop => i.side = "SELL" /\ i.tif = "GTC"
    PROVE  LET o == NewOrder(i, start, created, status, stop)
           IN  /\ o \in KeptOrders
               /\ o.stop = stop /\ o.status = status /\ o.quantity = i.quantity
<1>1. PICK e, d : e = created + 1 /\ e \in Int
                  /\ d = (IF status = "OPEN" THEN Never ELSE start) /\ d \in Int
                  /\ (d = Never <=> status = "OPEN")
  BY DEF Never
<1>2. NewOrder(i, start, created, status, stop) =
        [side |-> i.side, kind |-> i.kind, quantity |-> i.quantity, tif |-> i.tif,
         price |-> i.price, stop |-> stop, at |-> start, created |-> created,
         eligible |-> e, status |-> status, ended |-> d]
  BY <1>1 DEF NewOrder
<1> QED BY <1>1, <1>2 DEF KeptOrders, Statuses

\* Ending the orders S touches those orders only.
EndsOnly(os, S, d) ==
    /\ Len(d) = Len(os) /\ OpenIn(d) = OpenIn(os) \ S
    /\ \A i \in DOMAIN os : d[i].stop = os[i].stop /\ d[i].quantity = os[i].quantity

LEMMA EndedIs ==
    ASSUME NEW os \in Seq(KeptOrders), NEW S \in SUBSET (DOMAIN os),
           NEW status \in {"CANCELLED", "EXPIRED", "FILLED"}, NEW t \in Nat,
           NEW d, d = Ended(os, S, status, t)
    PROVE  d \in Seq(KeptOrders) /\ EndsOnly(os, S, d)
<1>2. PICK len \in Nat : len = Len(os) /\ DOMAIN os = 1..len
  OBVIOUS
<1>3. d = [i \in 1..len |-> IF i \in S THEN [os[i] EXCEPT !.status = status, !.ended = t]
                            ELSE os[i]]
  BY <1>2 DEF Ended
<1>4. ASSUME NEW i \in 1..len
      PROVE  /\ d[i] \in KeptOrders
             /\ d[i].stop = os[i].stop /\ d[i].quantity = os[i].quantity
             /\ d[i].status = IF i \in S THEN status ELSE os[i].status
  <2>1. os[i] \in KeptOrders
    BY <1>2
  <2>2. CASE i \in S
    <3> DEFINE o == [os[i] EXCEPT !.status = status, !.ended = t]
    <3>1. t # Never /\ t \in Int /\ status # "OPEN" /\ status \in Statuses
      BY DEF Never, Statuses
    <3>2. o \in KeptOrders
      BY <2>1, <3>1 DEF KeptOrders
    <3>3. o.stop = os[i].stop /\ o.quantity = os[i].quantity /\ o.status = status
      BY <2>1 DEF KeptOrders
    <3>4. d[i] = o
      BY <1>3, <2>2
    <3> QED BY <2>2, <3>2, <3>3, <3>4
  <2>3. CASE i \notin S
    BY <1>3, <2>1, <2>3
  <2> QED BY <2>2, <2>3
<1>5. d \in [1..len -> KeptOrders] /\ DOMAIN d = 1..len
  BY <1>3, <1>4
<1>6. d \in Seq(KeptOrders) /\ Len(d) = len
  BY <1>5
<1>7. OpenIn(d) = OpenIn(os) \ S
  BY <1>2, <1>4, <1>5 DEF OpenIn
<1> QED BY <1>2, <1>4, <1>6, <1>7 DEF EndsOnly

\* A size is a number of units.
LEMMA FloorIs ==
    ASSUME NEW a \in Int, NEW b \in Nat \ {0}
    PROVE  Floor(a, b) \in Int
  BY DEF Floor

LEMMA EstimatedIs ==
    ASSUME NEW c \in Configs, NEW i \in Intents, NEW reference \in Nat \ {0}
    PROVE  Estimated(c, i, reference) \in Nat \ {0}
<1>1. i.price \in Nat /\ (i.kind = "MARKET" <=> i.price = 0)
  BY DEF Intents, ValidIntent, NoPrice
<1>2. CASE i.kind = "LIMIT"
  BY <1>1, <1>2 DEF Estimated
<1>3. CASE i.kind # "LIMIT"
  <2>1. PICK b : b = (IF i.price # NoPrice THEN i.price ELSE reference) /\ b \in Nat \ {0}
    BY <1>1 DEF NoPrice
  <2> QED BY <1>3, <2>1, AdverseIs DEF Estimated
<1> QED BY <1>2, <1>3

LEMMA SizedIs ==
    ASSUME NEW c \in Configs, NEW i \in Intents, NEW p \in Portfolios,
           NEW reference \in Nat \ {0}
    PROVE  Sized(c, i, p, reference) \in Int
<1>0. /\ c.makerFee \in 0..10 /\ c.takerFee \in 0..10 /\ c.step \in Nat \ {0}
      /\ c.sizing.value \in Nat /\ c.sizing.reserve \in Nat /\ Reserve(c) \in Nat
      /\ p.equity \in Int /\ p.cash \in Int /\ i.quantity \in Int
  BY EngineConfigIs DEF Portfolios, Intents
<1>1. CASE i.side = "SELL" \/ c.sizing.kind = "explicit_quantity"
  BY <1>0, <1>1, FloorIs DEF Sized
<1>2. CASE ~(i.side = "SELL" \/ c.sizing.kind = "explicit_quantity")
  <2>1. PICK target : /\ target = IF c.sizing.kind = "fixed_notional" THEN c.sizing.value
                                  ELSE (p.equity * c.sizing.value) \div 100
                      /\ target \in Int
    <3>1. p.equity * c.sizing.value \in Int
      BY <1>0
    <3>2. (p.equity * c.sizing.value) \div 100 \in Int
      BY <3>1
    <3> QED BY <1>0, <3>2
  <2>2. PICK held : held = Max({Reserve(c), c.sizing.reserve}) /\ held \in Int
    <3>1. PICK a, b : a = Reserve(c) /\ b = c.sizing.reserve
      OBVIOUS
    <3>2. a \in Int /\ b \in Int
      BY <1>0, <3>1
    <3>3. Max({a, b}) \in Int
      BY <3>2, MaxOfTwo
    <3> QED BY <3>1, <3>3
  <2>3. PICK rate : rate = (IF i.kind = "LIMIT" THEN c.makerFee ELSE c.takerFee) /\ rate \in 0..10
    BY <1>0
  <2>4. PICK free : free = Max({0, p.cash - held}) /\ free \in Int
    <3>1. p.cash - held \in Int
      BY <1>0, <2>2
    <3> QED BY <3>1, MaxOfTwo
  <2>5. PICK available : available = (free * 100) \div (100 + rate) /\ available \in Int
    <3>1. free * 100 \in Int /\ 100 + rate \in Nat \ {0}
      BY <2>3, <2>4
    <3> QED BY <3>1
  <2>6. PICK spent : spent = Min({target, available}) /\ spent \in Int
    <3>1. {target, available} \in SUBSET Int /\ {target, available} # {}
      BY <2>1, <2>5
    <3>2. IsFiniteSet({target, available})
      <4>1. {target, available} = {target} \cup {available}
        OBVIOUS
      <4>2. IsFiniteSet({target}) /\ IsFiniteSet({available})
        BY FS_Singleton
      <4> QED BY <4>1, <4>2, FS_Union
    <3>3. Min({target, available}) \in {target, available}
      BY <3>1, <3>2, Extremes
    <3> QED BY <3>3, <2>1, <2>5
  <2>7. PICK price : price = Estimated(c, i, reference) /\ price \in Nat \ {0}
    BY EstimatedIs
  <2>8. spent \div price \in Int
    BY <2>6, <2>7, Quotients
  <2>9. Sized(c, i, p, reference) = Floor(spent \div price, c.step)
    BY <1>2, <2>1, <2>2, <2>3, <2>4, <2>5, <2>6, <2>7 DEF Sized
  <2> QED BY <1>0, <2>8, <2>9, FloorIs
<1> QED BY <1>1, <1>2

-----------------------------------------------------------------------------
(* The engine: submitting the intents of the strategy *)

Submissions == [orders : Seq(KeptOrders), ok : BOOLEAN]

\* The orders os are still there, and what was added is no stop, and not open when the
\* run is halted.
Extends(os, r, halt) ==
    /\ Len(os) <= Len(r.orders)
    /\ \A i \in DOMAIN os : r.orders[i] = os[i]
    /\ \A i \in DOMAIN r.orders :
         i > Len(os) => (~r.orders[i].stop /\ (halt => r.orders[i].status # "OPEN"))

\* From orders os to orders d at time t, without a fill: nothing is forgotten, what was open
\* may have ended, and what was added was placed then, in candle n.
PlacedIn(o, t, n) ==
    /\ o.at = t /\ o.created = n /\ o.eligible = n + 1
    /\ o.status # "FILLED" /\ o.ended \in {Never, t}
SameOrder(o, e) ==
    /\ e.side = o.side /\ e.quantity = o.quantity
    /\ e.at = o.at /\ e.created = o.created /\ e.eligible = o.eligible
Settles(o, e, t) ==
    \/ e.status = o.status /\ e.ended = o.ended
    \/ o.status = "OPEN" /\ e.status \notin {"OPEN", "FILLED"} /\ e.ended = t
Grows(os, d, t, n) ==
    /\ Len(os) <= Len(d)
    /\ \A i \in DOMAIN os : SameOrder(os[i], d[i]) /\ Settles(os[i], d[i], t)
    /\ \A i \in DOMAIN d : i > Len(os) => PlacedIn(d[i], t, n)

LEMMA GrowsFromItself ==
    ASSUME NEW os \in Seq(KeptOrders), NEW t, NEW n
    PROVE  Grows(os, os, t, n)
<1>1. Len(os) \in Nat /\ \A i \in DOMAIN os : ~(i > Len(os))
  OBVIOUS
<1> QED BY <1>1 DEF Grows, SameOrder, Settles

LEMMA GrowsByOne ==
    ASSUME NEW os \in Seq(KeptOrders), NEW o \in KeptOrders, NEW t, NEW n, PlacedIn(o, t, n)
    PROVE  Grows(os, Append(os, o), t, n)
<1>1. PICK d : d = Append(os, o)
  OBVIOUS
<1>2. /\ Len(os) \in Nat /\ Len(d) = Len(os) + 1 /\ d[Len(os) + 1] = o
      /\ \A i \in DOMAIN os : d[i] = os[i]
      /\ \A i \in DOMAIN d : i > Len(os) => i = Len(os) + 1
  BY <1>1
<1> QED BY <1>1, <1>2 DEF Grows, SameOrder, Settles

LEMMA GrowsOn ==
    ASSUME NEW os \in Seq(KeptOrders), NEW d \in Seq(KeptOrders), NEW e \in Seq(KeptOrders),
           NEW t, NEW n, Grows(os, d, t, n), Grows(d, e, t, n)
    PROVE  Grows(os, e, t, n)
<1>1. /\ Len(os) \in Nat /\ Len(d) \in Nat /\ Len(e) \in Nat
      /\ Len(os) <= Len(d) /\ Len(d) <= Len(e)
  BY DEF Grows
<1>2. ASSUME NEW i \in DOMAIN os
      PROVE  SameOrder(os[i], e[i]) /\ Settles(os[i], e[i], t)
  <2>1. i \in DOMAIN d
    BY <1>1
  <2>2. /\ SameOrder(os[i], d[i]) /\ Settles(os[i], d[i], t)
        /\ SameOrder(d[i], e[i]) /\ Settles(d[i], e[i], t)
    BY <2>1 DEF Grows
  <2> QED BY <2>2 DEF SameOrder, Settles
<1>3. ASSUME NEW i \in DOMAIN e, i > Len(os)
      PROVE  PlacedIn(e[i], t, n)
  <2>1. CASE i > Len(d)
    BY <2>1 DEF Grows
  <2>2. CASE ~(i > Len(d))
    <3>1. i \in DOMAIN d
      BY <1>1, <2>2
    <3>2. PlacedIn(d[i], t, n) /\ SameOrder(d[i], e[i]) /\ Settles(d[i], e[i], t)
      BY <1>3, <3>1 DEF Grows
    <3> QED BY <3>2 DEF PlacedIn, SameOrder, Settles
  <2> QED BY <2>1, <2>2
<1> QED BY <1>1, <1>2, <1>3 DEF Grows

LEMMA EndedGrows ==
    ASSUME NEW os \in Seq(KeptOrders), NEW S \in SUBSET OpenIn(os),
           NEW status \in {"CANCELLED", "EXPIRED"}, NEW t \in Nat, NEW n
    PROVE  Grows(os, Ended(os, S, status, t), t, n)
<1>1. PICK d : d = Ended(os, S, status, t)
  OBVIOUS
<1>2. PICK len \in Nat : len = Len(os) /\ DOMAIN os = 1..len
  OBVIOUS
<1>3. d = [i \in 1..len |-> IF i \in S THEN [os[i] EXCEPT !.status = status, !.ended = t]
                            ELSE os[i]]
  BY <1>1, <1>2 DEF Ended
<1>4. Len(d) = len /\ \A i \in DOMAIN d : ~(i > len)
  <2>1. S \in SUBSET (DOMAIN os) /\ status \in {"CANCELLED", "EXPIRED", "FILLED"}
    BY DEF OpenIn
  <2>2. d \in Seq(KeptOrders) /\ EndsOnly(os, S, d)
    BY <1>1, <2>1, EndedIs
  <2> QED BY <1>2, <2>2 DEF EndsOnly
<1>5. ASSUME NEW i \in 1..len
      PROVE  SameOrder(os[i], d[i]) /\ Settles(os[i], d[i], t)
  <2>1. os[i] \in KeptOrders
    BY <1>2
  <2>2. CASE i \in S
    <3>1. d[i] = [os[i] EXCEPT !.status = status, !.ended = t] /\ os[i].status = "OPEN"
      BY <1>3, <2>2 DEF OpenIn
    <3>2. /\ d[i].side = os[i].side /\ d[i].quantity = os[i].quantity /\ d[i].at = os[i].at
          /\ d[i].created = os[i].created /\ d[i].eligible = os[i].eligible
          /\ d[i].status = status /\ d[i].ended = t
      BY <2>1, <3>1 DEF KeptOrders
    <3> QED BY <3>1, <3>2 DEF SameOrder, Settles
  <2>3. CASE i \notin S
    BY <1>3, <2>3 DEF SameOrder, Settles
  <2> QED BY <2>2, <2>3
<1> QED BY <1>1, <1>2, <1>4, <1>5 DEF Grows

LEMMA SubmitIs ==
    ASSUME NEW r \in Submissions, NEW intent \in Intents, NEW p \in Portfolios,
           NEW reference \in Nat \ {0}, NEW t \in Nat, NEW created \in Int,
           NEW halt \in BOOLEAN, config \in Configs
    PROVE  LET s == Submit(r, intent, p, reference, t, created, halt)
           IN  /\ s \in Submissions /\ Extends(r.orders, s, halt)
               /\ s.ok => r.ok
               /\ Grows(r.orders, s.orders, t, created)
<1>1. PICK s : s = Submit(r, intent, p, reference, t, created, halt)
  OBVIOUS
<1>0. r.orders \in Seq(KeptOrders) /\ r.ok \in BOOLEAN /\ Len(r.orders) \in Nat
  BY DEF Submissions
<1>2. CASE ~r.ok \/ Len(r.orders) >= config.maxOrders
  <2>1. s = [r EXCEPT !.ok = FALSE]
    BY <1>1, <1>2 DEF Submit
  <2>2. s \in Submissions /\ s.orders = r.orders /\ ~s.ok
    BY <2>1 DEF Submissions
  <2>3. Extends(r.orders, s, halt)
    BY <1>0, <2>2 DEF Extends
  <2> QED BY <1>0, <1>1, <2>2, <2>3, GrowsFromItself
<1>3. CASE ~(~r.ok \/ Len(r.orders) >= config.maxOrders)
  <2>1. PICK quantity : quantity = Sized(config, intent, p, reference) /\ quantity \in Int
    BY SizedIs
  <2>2. PICK sized : sized = [intent EXCEPT !.quantity = IF quantity > 0 THEN quantity ELSE @]
    OBVIOUS
  <2>3. /\ sized.side \in Sides /\ sized.kind \in {"MARKET", "LIMIT", "STOP_MARKET"}
        /\ sized.quantity \in Nat \ {0} /\ sized.tif \in {"GTC", "IOC", "DAY"}
        /\ sized.price \in Nat /\ (sized.kind # "MARKET" => sized.price > 0)
    BY <2>1, <2>2 DEF Intents, ValidIntent, NoPrice, Sides
  <2>4. PICK accepted : accepted = (quantity > 0 /\ Admitted(config, sized, p, reference,
                                      Cardinality(OpenIn(r.orders)), Len(r.orders), halt))
    OBVIOUS
  <2>5. halt => ~accepted
    BY <2>4 DEF Admitted
  <2>6. PICK status : status = (IF accepted THEN "OPEN" ELSE "REJECTED")
    OBVIOUS
  <2>7. PICK o : o = NewOrder(sized, t, created, status, FALSE)
    OBVIOUS
  <2>8. o \in KeptOrders /\ o.stop = FALSE /\ o.status = status
    <3>1. status \in {"OPEN", "REJECTED", "FILLED"}
      BY <2>6
    <3>2. PICK stop : stop = FALSE
      OBVIOUS
    <3>3. stop \in BOOLEAN /\ (stop => sized.side = "SELL" /\ sized.tif = "GTC")
      BY <3>2
    <3>4. PICK n : n = NewOrder(sized, t, created, status, stop)
      OBVIOUS
    <3>5. n \in KeptOrders /\ n.stop = stop /\ n.status = status
      BY <2>3, <3>1, <3>3, <3>4, NewOrderIs
    <3> QED BY <2>7, <3>2, <3>4, <3>5
  <2>9. s = [r EXCEPT !.orders = Append(@, o)]
    BY <1>1, <1>3, <2>1, <2>2, <2>4, <2>6, <2>7 DEF Submit
  <2>10. PICK os : os = Append(r.orders, o)
    OBVIOUS
  <2>11. /\ os \in Seq(KeptOrders) /\ Len(os) = Len(r.orders) + 1
         /\ \A i \in DOMAIN r.orders : os[i] = r.orders[i]
         /\ os[Len(r.orders) + 1] = o
    BY <1>0, <2>8, <2>10
  <2>12. s \in Submissions /\ s.orders = os /\ s.ok = r.ok
    BY <1>0, <2>9, <2>10, <2>11 DEF Submissions
  <2>13. \A i \in DOMAIN os : i > Len(r.orders) => i = Len(r.orders) + 1
    BY <1>0, <2>11
  <2>14. Extends(r.orders, s, halt)
    BY <1>0, <2>5, <2>6, <2>8, <2>11, <2>12, <2>13 DEF Extends
  <2>15. PlacedIn(o, t, created)
    BY <2>6, <2>7 DEF NewOrder, PlacedIn
  <2>16. Grows(r.orders, s.orders, t, created)
    BY <1>0, <2>8, <2>10, <2>12, <2>15, GrowsByOne
  <2> QED BY <1>1, <2>12, <2>14, <2>16
<1> QED BY <1>2, <1>3

LEMMA ExtendsIsTransitive ==
    ASSUME NEW os \in Seq(KeptOrders), NEW r \in Submissions, NEW s \in Submissions, NEW halt,
           Extends(os, r, halt), Extends(r.orders, s, halt)
    PROVE  Extends(os, s, halt)
<1>1. /\ r.orders \in Seq(KeptOrders) /\ s.orders \in Seq(KeptOrders)
      /\ Len(os) \in Nat /\ Len(r.orders) \in Nat /\ Len(s.orders) \in Nat
      /\ Len(os) <= Len(r.orders) /\ Len(r.orders) <= Len(s.orders)
  BY DEF Submissions, Extends
<1>2. \A i \in DOMAIN os : i \in DOMAIN r.orders /\ s.orders[i] = os[i]
  BY <1>1 DEF Extends
<1>3. ASSUME NEW i \in DOMAIN s.orders, i > Len(os)
      PROVE  ~s.orders[i].stop /\ (halt => s.orders[i].status # "OPEN")
  <2>1. CASE i <= Len(r.orders)
    <3>1. i \in DOMAIN r.orders /\ s.orders[i] = r.orders[i]
      BY <1>1, <2>1 DEF Extends
    <3> QED BY <1>3, <3>1 DEF Extends
  <2>2. CASE i > Len(r.orders)
    BY <2>2 DEF Extends
  <2> QED BY <1>1, <2>1, <2>2
<1> QED BY <1>1, <1>2, <1>3 DEF Extends

LEMMA SubmittedIs ==
    ASSUME NEW r \in Submissions, NEW batch \in Batches, NEW p \in Portfolios,
           NEW reference \in Nat \ {0}, NEW t \in Nat, NEW created \in Int,
           NEW halt \in BOOLEAN, config \in Configs
    PROVE  LET s == Submitted(r, batch, p, reference, t, created, halt)
           IN  /\ s \in Submissions /\ Extends(r.orders, s, halt)
               /\ s.ok => r.ok
               /\ Grows(r.orders, s.orders, t, created) /\ (batch = <<>> => s = r)
<1>0. r.orders \in Seq(KeptOrders) /\ r.ok \in BOOLEAN
  BY DEF Submissions
<1>1. PICK k \in Nat : k = Len(batch) /\ \A n \in 1..k : batch[n] \in Intents
  BY BatchesAssumption
<1> DEFINE G == [n \in 1..k |->
                   [q \in Submissions |-> Submit(q, batch[n], p, reference, t, created, halt)]]
           Submits(f) == f = [n \in 0..k |-> IF n = 0 THEN r
                              ELSE Submit(f[n - 1], batch[n], p, reference, t, created, halt)]
           g == CHOOSE h : Submits(h)
<1>2. G \in [1..k -> [Submissions -> Submissions]]
  <2>1. ASSUME NEW n \in 1..k, NEW q \in Submissions
        PROVE  Submit(q, batch[n], p, reference, t, created, halt) \in Submissions
    BY <1>1, SubmitIs
  <2> QED BY <2>1
<1>3. \E f : Iterates(k, Submissions, r, G, f)
  <2> HIDE DEF G
  <2> QED BY <1>2, Unfolds
<1>4. PICK f : Iterates(k, Submissions, r, G, f)
  BY <1>3
<1>5. Submits(f)
  <2>1. f \in [0..k -> Submissions] /\ f[0] = r
    BY <1>4 DEF Iterates
  <2>2. ASSUME NEW n \in 1..k
        PROVE  f[n] = Submit(f[n - 1], batch[n], p, reference, t, created, halt)
    <3>1. n - 1 \in 0..k
      OBVIOUS
    <3>2. f[n - 1] \in Submissions
      BY <2>1, <3>1
    <3>3. f[n] = G[n][f[n - 1]]
      BY <1>4 DEF Iterates
    <3> QED BY <3>2, <3>3
  <2>3. \A n \in 0..k : f[n] = IF n = 0 THEN r
                               ELSE Submit(f[n - 1], batch[n], p, reference, t, created, halt)
    <3>1. \A n \in 0..k : n = 0 \/ n \in 1..k
      OBVIOUS
    <3> QED BY <2>1, <2>2, <3>1
  <2> HIDE DEF G
  <2> QED BY <2>1, <2>3
<1>6. Submits(g)
  <2> HIDE DEF Submits
  <2> QED BY <1>5
<1>7. Submitted(r, batch, p, reference, t, created, halt) = g[k]
  BY <1>1 DEF Submitted
<1> HIDE DEF g, G
<1> DEFINE Good(s) == /\ s \in Submissions /\ Extends(r.orders, s, halt) /\ (s.ok => r.ok)
                      /\ Grows(r.orders, s.orders, t, created)
           S == {n \in 0..k : Good(g[n])}
<1>8. 0..k \subseteq S
  <2>1. 0 \in S
    <3>1. g[0] = r
      BY <1>6
    <3>2. Extends(r.orders, r, halt)
      BY <1>0 DEF Extends
    <3>3. Grows(r.orders, r.orders, t, created)
      BY <1>0, GrowsFromItself
    <3> QED BY <3>1, <3>2, <3>3
  <2>2. ASSUME NEW n \in 0..(k - 1), n \in S PROVE n + 1 \in S
    <3>1. n + 1 \in 1..k /\ n + 1 \in 0..k /\ n + 1 # 0 /\ (n + 1) - 1 = n /\ Good(g[n])
      BY <2>2
    <3>2. g[n + 1] = Submit(g[n], batch[n + 1], p, reference, t, created, halt)
      BY <1>6, <3>1
    <3>3. PICK q, s : q = g[n] /\ s = g[n + 1]
      OBVIOUS
    <3>4. batch[n + 1] \in Intents /\ q \in Submissions
      BY <1>1, <3>1, <3>3
    <3>5. /\ s \in Submissions /\ Extends(q.orders, s, halt) /\ (s.ok => q.ok)
          /\ Grows(q.orders, s.orders, t, created)
      BY <3>2, <3>3, <3>4, SubmitIs
    <3>6. Extends(r.orders, s, halt)
      BY <1>0, <3>1, <3>3, <3>4, <3>5, ExtendsIsTransitive
    <3>7. Grows(r.orders, s.orders, t, created)
      <4>1. q.orders \in Seq(KeptOrders) /\ s.orders \in Seq(KeptOrders)
        BY <3>4, <3>5 DEF Submissions
      <4> QED BY <1>0, <3>1, <3>3, <3>5, <4>1, GrowsOn
    <3>8. Good(s)
      BY <3>1, <3>3, <3>5, <3>6, <3>7
    <3> HIDE DEF Good
    <3> QED BY <3>1, <3>3, <3>8
  <2> HIDE DEF S
  <2> QED BY <2>1, <2>2, UpTo
<1>9. Good(g[k])
  BY <1>8
<1>10. batch = <<>> => g[k] = r
  BY <1>1, <1>6
<1> QED BY <1>7, <1>9, <1>10

-----------------------------------------------------------------------------
(* The engine: the protective stop *)

\* An open position has one stop, for all of it, and a flat portfolio none.
Covered(os, p) ==
    /\ \A i, j \in StopsOf(os) : i = j
    /\ config.stopPct = 0 => StopsOf(os) = {}
    /\ config.stopPct # 0 => (p.base = 0 <=> StopsOf(os) = {})
    /\ \A i \in StopsOf(os) : os[i].quantity = p.base

LEMMA AppendedIs ==
    ASSUME NEW os \in Seq(KeptOrders), NEW o \in KeptOrders
    PROVE  LET d == Append(os, o)
           IN  /\ d \in Seq(KeptOrders) /\ Len(d) = Len(os) + 1 /\ d[Len(os) + 1] = o
               /\ \A i \in DOMAIN os : d[i] = os[i]
               /\ OpenIn(d) = OpenIn(os) \cup (IF o.status = "OPEN" THEN {Len(os) + 1} ELSE {})
<1>1. PICK d : d = Append(os, o)
  OBVIOUS
<1>2. /\ d \in Seq(KeptOrders) /\ Len(d) = Len(os) + 1 /\ d[Len(os) + 1] = o
      /\ \A i \in DOMAIN os : d[i] = os[i]
  BY <1>1
<1>3. \A i : i \in DOMAIN d <=> i \in DOMAIN os \/ i = Len(os) + 1
  BY <1>2
<1>4. Len(os) + 1 \notin DOMAIN os
  OBVIOUS
<1>5. OpenIn(d) = OpenIn(os) \cup (IF o.status = "OPEN" THEN {Len(os) + 1} ELSE {})
  BY <1>2, <1>3, <1>4 DEF OpenIn
<1> QED BY <1>1, <1>2, <1>5

\* What the strategy adds changes neither what is protected nor what is halted.
LEMMA ExtendsKeeps ==
    ASSUME NEW os \in Seq(KeptOrders), NEW r \in Submissions, NEW halt \in BOOLEAN, NEW p,
           Extends(os, r, halt)
    PROVE  /\ OpenIn(os) \subseteq OpenIn(r.orders) /\ StopsOf(r.orders) = StopsOf(os)
           /\ Covered(os, p) => Covered(r.orders, p)
           /\ halt /\ OpenIn(os) \subseteq StopsOf(os) => OpenIn(r.orders) \subseteq StopsOf(r.orders)
<1>1. r.orders \in Seq(KeptOrders) /\ Len(os) <= Len(r.orders)
  BY DEF Submissions, Extends
<1>2. \A i \in DOMAIN os : i \in DOMAIN r.orders /\ r.orders[i] = os[i]
  BY <1>1 DEF Extends
<1>3. \A i \in DOMAIN r.orders :
         i \in DOMAIN os \/ (~r.orders[i].stop /\ (halt => r.orders[i].status # "OPEN"))
  <2>1. \A i \in DOMAIN r.orders : i \in DOMAIN os \/ i > Len(os)
    BY <1>1
  <2> QED BY <2>1 DEF Extends
<1>4. OpenIn(os) \subseteq OpenIn(r.orders)
  BY <1>2 DEF OpenIn
<1>5. StopsOf(r.orders) = StopsOf(os)
  BY <1>2, <1>3 DEF OpenIn, StopsOf
<1>6. Covered(os, p) => Covered(r.orders, p)
  <2>1. \A i \in StopsOf(os) : r.orders[i] = os[i]
    BY <1>2 DEF OpenIn, StopsOf
  <2> QED BY <1>5, <2>1 DEF Covered
<1>7. halt => OpenIn(r.orders) \subseteq OpenIn(os)
  BY <1>2, <1>3 DEF OpenIn
<1> QED BY <1>4, <1>5, <1>6, <1>7

LEMMA StopPriceIs ==
    ASSUME NEW c \in Configs, NEW p, Sound(p), p.base # 0
    PROVE  StopPrice(c, p) \in Int
<1>1. /\ p.cost \in Int /\ p.base \in Nat \ {0} /\ c.stopPct \in Int /\ c.tick \in Nat \ {0}
  BY EngineConfigIs, SoundIs DEF Portfolios
<1>2. PICK a : a = p.cost \div p.base /\ a \in Int
  BY <1>1, Quotients
<1>3. PICK b : b = a * (100 - c.stopPct) /\ b \in Int
  BY <1>1, <1>2
<1>4. b \div 100 \in Int
  BY <1>3
<1> QED BY <1>1, <1>2, <1>3, <1>4, FloorIs DEF StopPrice

LEMMA ProtectedIs ==
    ASSUME NEW os \in Seq(KeptOrders), NEW p, Sound(p), NEW t \in Nat, NEW created \in Int,
           config \in Configs
    PROVE  LET s == Protected(os, p, t, created)
           IN  /\ s \in Submissions
               /\ s.ok => Covered(s.orders, p)
               /\ OpenIn(os) \ StopsOf(os) \subseteq OpenIn(s.orders) \ StopsOf(s.orders)
               /\ OpenIn(s.orders) \ StopsOf(s.orders) \subseteq OpenIn(os) \ StopsOf(os)
               /\ Grows(os, s.orders, t, created)
<1>1. PICK s : s = Protected(os, p, t, created)
  OBVIOUS
<1>2. PICK cleared : cleared = Ended(os, StopsOf(os), "CANCELLED", t)
  OBVIOUS
<1>3. /\ cleared \in Seq(KeptOrders)
      /\ OpenIn(cleared) = OpenIn(os) \ StopsOf(os) /\ StopsOf(cleared) = {}
  <2>1. PICK S, status : S = StopsOf(os) /\ status = "CANCELLED"
    OBVIOUS
  <2>3. S \in SUBSET (DOMAIN os) /\ status \in {"CANCELLED", "EXPIRED", "FILLED"}
    BY <2>1 DEF StopsOf, OpenIn
  <2>4. cleared = Ended(os, S, status, t)
    BY <1>2, <2>1
  <2>5. cleared \in Seq(KeptOrders) /\ EndsOnly(os, S, cleared)
    BY <2>3, <2>4, EndedIs
  <2>2. /\ cleared \in Seq(KeptOrders)
        /\ OpenIn(cleared) = OpenIn(os) \ StopsOf(os)
        /\ \A i \in DOMAIN os : cleared[i].stop = os[i].stop
    BY <2>1, <2>5 DEF EndsOnly
  <2>6. StopsOf(cleared) = {}
    <3>1. \A i \in OpenIn(cleared) : i \in DOMAIN os /\ ~os[i].stop
      BY <2>2 DEF StopsOf, OpenIn
    <3> QED BY <2>2, <3>1 DEF StopsOf
  <2> QED BY <2>2, <2>6
<1>8. Grows(os, cleared, t, created)
  <2>1. PICK S, status : S = StopsOf(os) /\ status = "CANCELLED"
    OBVIOUS
  <2>2. S \in SUBSET OpenIn(os) /\ status \in {"CANCELLED", "EXPIRED"}
    BY <2>1 DEF StopsOf
  <2>3. Grows(os, Ended(os, S, status, t), t, created)
    BY <2>2, EndedGrows
  <2> QED BY <1>2, <2>1, <2>3
<1>4. PICK stop : stop = [side |-> "SELL", kind |-> "STOP_MARKET", quantity |-> p.base,
                          tif |-> "GTC", price |-> StopPrice(config, p)]
  OBVIOUS
<1>5. CASE config.stopPct = 0 \/ p.base = 0
  <2>1. s = [orders |-> cleared, ok |-> TRUE]
    BY <1>1, <1>2, <1>5 DEF Protected, StopsOf
  <2>2. Covered(cleared, p)
    BY <1>3, <1>5 DEF Covered
  <2> QED BY <1>1, <1>3, <1>8, <2>1, <2>2 DEF Submissions
<1>6. CASE /\ ~(config.stopPct = 0 \/ p.base = 0)
           /\ \/ Len(cleared) >= Min({config.maxOrders, config.maxTotal})
              \/ Cardinality(OpenIn(cleared)) >= config.maxOpen
              \/ stop.price <= 0
  <2>1. s = [orders |-> cleared, ok |-> FALSE]
    BY <1>1, <1>2, <1>4, <1>6 DEF Protected, StopsOf
  <2> QED BY <1>1, <1>3, <1>8, <2>1 DEF Submissions
<1>7. CASE /\ ~(config.stopPct = 0 \/ p.base = 0)
           /\ ~(\/ Len(cleared) >= Min({config.maxOrders, config.maxTotal})
                \/ Cardinality(OpenIn(cleared)) >= config.maxOpen
                \/ stop.price <= 0)
  <2>1. PICK o : o = NewOrder(stop, t, created, "OPEN", TRUE)
    OBVIOUS
  <2>2. s = [orders |-> Append(cleared, o), ok |-> TRUE]
    BY <1>1, <1>2, <1>4, <1>7, <2>1 DEF Protected, StopsOf
  <2>3. /\ stop.side \in Sides /\ stop.kind \in {"MARKET", "LIMIT", "STOP_MARKET"}
        /\ stop.quantity \in Nat \ {0} /\ stop.tif \in {"GTC", "IOC", "DAY"}
        /\ stop.price \in Nat /\ (stop.kind # "MARKET" => stop.price > 0)
        /\ stop.side = "SELL" /\ stop.tif = "GTC" /\ stop.quantity = p.base
    <3>1. stop.price \in Int /\ ~(stop.price <= 0)
      BY <1>4, <1>7, StopPriceIs
    <3>2. p.base \in Nat \ {0}
      BY <1>7, SoundIs DEF Portfolios
    <3> QED BY <1>4, <3>1, <3>2 DEF Sides
  <2>4. o \in KeptOrders /\ o.stop = TRUE /\ o.status = "OPEN" /\ o.quantity = p.base
    <3>1. PICK b, status : b = TRUE /\ status = "OPEN"
      OBVIOUS
    <3>2. /\ b \in BOOLEAN /\ status \in {"OPEN", "REJECTED", "FILLED"}
          /\ b => stop.side = "SELL" /\ stop.tif = "GTC"
      BY <2>3, <3>1
    <3>3. PICK n : n = NewOrder(stop, t, created, status, b)
      OBVIOUS
    <3>4. n \in KeptOrders /\ n.stop = b /\ n.status = status /\ n.quantity = stop.quantity
      BY <2>3, <3>2, <3>3, NewOrderIs
    <3> QED BY <2>1, <2>3, <3>1, <3>3, <3>4
  <2>5. PICK d, m : d = Append(cleared, o) /\ m = Len(cleared) + 1
    OBVIOUS
  <2>6. /\ d \in Seq(KeptOrders) /\ d[m] = o
        /\ \A i \in DOMAIN cleared : d[i] = cleared[i]
        /\ OpenIn(d) = OpenIn(cleared) \cup {m}
    <3>1. /\ d \in Seq(KeptOrders) /\ d[m] = o
          /\ \A i \in DOMAIN cleared : d[i] = cleared[i]
      BY <1>3, <2>4, <2>5, AppendedIs
    <3>2. OpenIn(d) = OpenIn(cleared) \cup (IF o.status = "OPEN" THEN {m} ELSE {})
      BY <1>3, <2>4, <2>5, AppendedIs
    <3> QED BY <3>1, <3>2, <2>4
  <2>7. StopsOf(d) = {m}
    <3>1. \A i \in OpenIn(cleared) : ~d[i].stop
      BY <1>3, <2>6 DEF StopsOf, OpenIn
    <3> QED BY <2>4, <2>6, <3>1 DEF StopsOf
  <2>8. OpenIn(d) \ StopsOf(d) = OpenIn(cleared)
    <3>1. m \notin OpenIn(cleared)
      BY <1>3, <2>5 DEF OpenIn
    <3> QED BY <2>6, <2>7, <3>1
  <2>9. Covered(d, p)
    BY <1>7, <2>4, <2>6, <2>7 DEF Covered
  <2>10. s \in Submissions /\ s.orders = d
    BY <2>2, <2>5, <2>6 DEF Submissions
  <2>11. Grows(os, s.orders, t, created)
    <3>1. PlacedIn(o, t, created)
      BY <2>1, <2>4 DEF NewOrder, PlacedIn
    <3>2. Grows(cleared, d, t, created)
      BY <1>3, <2>4, <2>5, <3>1, GrowsByOne
    <3>3. Grows(os, d, t, created)
      BY <1>3, <1>8, <2>6, <3>2, GrowsOn
    <3> QED BY <2>10, <3>3
  <2> QED BY <1>1, <1>3, <2>8, <2>9, <2>10, <2>11
<1> QED BY <1>5, <1>6, <1>7

\* The order tried is one of the eligible, a stop when there is one among them.
LEMMA FirstIs ==
    ASSUME NEW os \in Seq(KeptOrders), NEW S \in SUBSET (DOMAIN os), S # {}
    PROVE  /\ First(os, S) \in S
           /\ (\E i \in S : os[i].stop) => os[First(os, S)].stop
<1>0. \A i \in S : i \in Int /\ os[i].stop \in BOOLEAN /\ os[i].eligible \in Int
  <2>1. \A i \in S : i \in Int /\ os[i] \in KeptOrders
    OBVIOUS
  <2> QED BY <2>1, KeptIs
<1>1. IsFiniteSet(S)
  <2>1. IsFiniteSet(1..Len(os))
    BY FS_Interval
  <2> QED BY <2>1, FS_Subset
<1> DEFINE stops == {i \in S : os[i].stop}
           T == IF stops # {} THEN stops ELSE S
           E == {os[i].eligible : i \in T}
           U == {i \in T : os[i].eligible = Min(E)}
<1>2. T \in SUBSET S /\ T # {} /\ IsFiniteSet(T)
  <2>1. T \in SUBSET S /\ T # {}
    OBVIOUS
  <2> HIDE DEF T
  <2> QED BY <2>1, <1>1, FS_Subset
<1>3. E \in SUBSET Int /\ E # {} /\ IsFiniteSet(E)
  <2>1. E \in SUBSET Int /\ E # {}
    <3> HIDE DEF T
    <3> QED BY <1>0, <1>2
  <2>2. IsFiniteSet(E)
    <3> HIDE DEF T
    <3>1. PICK f : f = [i \in T |-> os[i].eligible]
      OBVIOUS
    <3>2. f \in Surjection(T, E)
      BY <3>1 DEF Surjection
    <3> HIDE DEF E
    <3> QED BY <1>2, <3>2, FS_Surjection
  <2> QED BY <2>1, <2>2
<1>4. Min(E) \in E /\ \A e \in E : Min(E) <= e
  <2> HIDE DEF E
  <2> QED BY <1>3, Extremes
<1>5. U \in SUBSET Int /\ U # {} /\ IsFiniteSet(U)
  <2>1. U \in SUBSET T /\ U # {}
    <3> HIDE DEF T
    <3> QED BY <1>4
  <2>2. IsFiniteSet(U)
    <3> HIDE DEF U, T
    <3> QED BY <2>1, <1>2, FS_Subset
  <2> HIDE DEF U, T
  <2> QED BY <2>1, <2>2, <1>0, <1>2
<1>6. PICK m : m = Min(U) /\ m \in U /\ \A i \in U : m <= i
  <2> HIDE DEF U
  <2> QED BY <1>5, Extremes
<1>7. m \in S /\ (stops # {} => os[m].stop)
  BY <1>2, <1>6
<1>8. ASSUME NEW j \in S \ {m} PROVE Before(os, m, j)
  <2>1. CASE j \notin T
    BY <1>7, <2>1 DEF Before
  <2>2. CASE j \in T
    <3>1. os[m].stop = os[j].stop
      BY <1>0, <1>6, <1>7, <1>8, <2>2
    <3>2. os[m].eligible = Min(E) /\ Min(E) <= os[j].eligible
      <4>1. os[j].eligible \in E
        BY <2>2
      <4> HIDE DEF E
      <4> QED BY <1>4, <1>6, <4>1
    <3>3. CASE os[j].eligible = Min(E)
      <4>1. m <= j
        BY <1>6, <2>2, <3>3
      <4> HIDE DEF E, U
      <4>2. m < j
        BY <4>1, <1>0, <1>7, <1>8
      <4> QED BY <3>1, <3>2, <3>3, <4>2 DEF Before
    <3>4. CASE os[j].eligible # Min(E)
      <4> HIDE DEF E, U
      <4>1. os[m].eligible < os[j].eligible
        BY <1>0, <1>7, <1>8, <3>2, <3>4
      <4> QED BY <3>1, <4>1 DEF Before
    <3> QED BY <3>3, <3>4
  <2> QED BY <2>1, <2>2
<1>9. PICK k : k = First(os, S)
  OBVIOUS
<1>10. k \in S /\ \A j \in S \ {k} : Before(os, k, j)
  <2> HIDE DEF stops, T, E, U
  <2> QED BY <1>7, <1>8, <1>9 DEF First
<1>11. ASSUME NEW i \in S, os[i].stop PROVE os[k].stop
  <2>1. CASE i = k
    BY <2>1, <1>11
  <2>2. CASE i # k
    BY <2>2, <1>0, <1>10, <1>11 DEF Before
  <2> QED BY <2>1, <2>2
<1> QED BY <1>9, <1>10, <1>11

-----------------------------------------------------------------------------
(* The engine: its inductive invariant *)

EntryTypes == {"INITIAL_CAPITAL", "BUY", "SELL", "FEE", "REALIZED_PNL", "MARK_TO_MARKET",
               "FINAL_STATE"}
Entries == [type : EntryTypes, dquote : Int, dbase : Int, realized : Int, at : Int,
            candle : Int, quote : Int, base : Int]
Ledgered(l, quote, base) ==
    l \in Seq(Entries) /\ l # <<>> /\ Last(l).quote = quote /\ Last(l).base = base

EngineFills ==
    {f \in [order : Nat, at : Int, candle : Int, forced : BOOLEAN, side : Sides,
            quantity : Nat, price : Nat, notional : Nat, fee : Nat] : ValidFill(f)}
EquityPoints == [candle : Int, close : Int, cash : Int, base : Int, equity : Int, peak : Int]

EngineTyped ==
    /\ config \in Configs /\ candle \in Candles /\ halted \in BOOLEAN
    /\ phase \in {"between", "orders", "done", "failed"} /\ index \in 0..MaxCandles
    /\ Sound(portfolio)
    /\ orders \in Seq(KeptOrders) /\ fills \in Seq(EngineFills)
    /\ queue \subseteq Open

\* One point for each candle closed; a candle is closed when every order was tried.
CurveOK ==
    /\ equity \in Seq(EquityPoints) /\ Len(equity) = index
    /\ \A i \in 1..index : ValidPoint(equity[i], i - 1)
    /\ phase = "orders" => index < MaxCandles
    /\ phase = "between" => queue = {}

AccountsOK ==
    /\ Ledgered(ledger, portfolio.cash, portfolio.base)
    /\ portfolio.cash + portfolio.cost - portfolio.realized = config.capital

ProtectionOK ==
    Running => Covered(orders, portfolio) /\ (halted => OpenIn(orders) \subseteq StopsOf(orders))

EngineInv == EngineTyped /\ CurveOK /\ AccountsOK /\ ProtectionOK /\ ReserveIsKept

LEMMA MinOfTwo ==
    ASSUME NEW a \in Int, NEW b \in Int
    PROVE  Min({a, b}) \in Int /\ Min({a, b}) <= a /\ Min({a, b}) <= b
<1>1. IsFiniteSet({a}) /\ IsFiniteSet({b})
  BY FS_Singleton
<1>2. {a, b} = {a} \cup {b}
  OBVIOUS
<1>3. IsFiniteSet({a, b})
  BY <1>1, <1>2, FS_Union
<1>4. {a, b} \in SUBSET Int /\ {a, b} # {}
  OBVIOUS
<1>5. Min({a, b}) \in {a, b} /\ \A k \in {a, b} : Min({a, b}) <= k
  BY <1>3, <1>4, Extremes, Zenon
<1> QED BY <1>5

\* The ledger follows the balances.
LEMMA EntryIs ==
    ASSUME NEW l, NEW x \in Int, NEW y \in Int, Ledgered(l, x, y), NEW type \in EntryTypes,
           NEW dquote \in Int, NEW dbase \in Int, NEW realized \in Int, NEW t \in Int, NEW n \in Int
    PROVE  Ledgered(Entry(l, type, dquote, dbase, realized, t, n), x + dquote, y + dbase)
<1>1. l \in Seq(Entries) /\ l # <<>> /\ Last(l).quote = x /\ Last(l).base = y
  BY DEF Ledgered
<1>2. PICK u, v : u = x + dquote /\ u \in Int /\ v = y + dbase /\ v \in Int
  OBVIOUS
<1>3. PICK e : e = [type |-> type, dquote |-> dquote, dbase |-> dbase, realized |-> realized,
                    at |-> t, candle |-> n, quote |-> u, base |-> v]
  OBVIOUS
<1>4. e \in Entries /\ e.quote = u /\ e.base = v
  BY <1>2, <1>3 DEF Entries
<1>5. Entry(l, type, dquote, dbase, realized, t, n) = Append(l, e)
  BY <1>1, <1>2, <1>3 DEF Entry
<1>6. Append(l, e) \in Seq(Entries) /\ Append(l, e) # <<>> /\ Last(Append(l, e)) = e
  BY <1>1, <1>4 DEF Last
<1> QED BY <1>2, <1>4, <1>5, <1>6 DEF Ledgered

LEMMA FillEntriesIs ==
    ASSUME NEW l, NEW x \in Int, NEW y \in Int, Ledgered(l, x, y), NEW f \in EngineFills,
           NEW realized \in Int
    PROVE  Ledgered(FillEntries(l, f, realized),
                    IF f.side = "BUY" THEN x - f.notional - f.fee ELSE x + f.notional - f.fee,
                    IF f.side = "BUY" THEN y + f.quantity ELSE y - f.quantity)
<1>0. /\ f.side \in {"BUY", "SELL"} /\ f.notional \in Int /\ f.quantity \in Int /\ f.fee \in Int
      /\ f.at \in Int /\ f.candle \in Int
  BY DEF EngineFills, Sides
<1>1. PICK u, v : /\ u = (IF f.side = "BUY" THEN -f.notional ELSE f.notional)
                  /\ v = (IF f.side = "BUY" THEN f.quantity ELSE -f.quantity)
                  /\ u \in Int /\ v \in Int
  BY <1>0
<1>2. PICK gross : gross = Entry(l, f.side, u, v, 0, f.at, f.candle)
  OBVIOUS
<1>3. Ledgered(gross, x + u, y + v)
  <2>1. f.side \in EntryTypes /\ 0 \in Int
    BY <1>0 DEF EntryTypes
  <2> QED BY <1>0, <1>1, <1>2, <2>1, EntryIs
<1>4. PICK a, b, d : a = x + u /\ b = y + v /\ d = -f.fee /\ a \in Int /\ b \in Int /\ d \in Int
  BY <1>0, <1>1
<1>5. PICK paid : paid = (IF f.fee = 0 THEN gross ELSE Entry(gross, "FEE", d, 0, 0, f.at, f.candle))
  OBVIOUS
<1>6. Ledgered(paid, a + d, b)
  <2>1. CASE f.fee = 0
    <3>1. a + d = a
      BY <1>4, <2>1
    <3> QED BY <1>3, <1>4, <1>5, <2>1, <3>1
  <2>2. CASE f.fee # 0
    <3>1. "FEE" \in EntryTypes /\ 0 \in Int /\ b + 0 = b
      BY <1>4 DEF EntryTypes
    <3>2. Ledgered(gross, a, b)
      BY <1>3, <1>4
    <3>3. Ledgered(Entry(gross, "FEE", d, 0, 0, f.at, f.candle), a + d, b + 0)
      BY <1>0, <1>4, <3>1, <3>2, EntryIs
    <3> QED BY <1>5, <2>2, <3>1, <3>3
  <2> QED BY <2>1, <2>2
<1>7. PICK e : e = a + d /\ e \in Int
  BY <1>4
<1>8. PICK all : all = (IF realized = 0 THEN paid
                        ELSE Entry(paid, "REALIZED_PNL", 0, 0, realized, f.at, f.candle))
  OBVIOUS
<1>9. Ledgered(all, e, b)
  <2>1. "REALIZED_PNL" \in EntryTypes /\ 0 \in Int /\ e + 0 = e /\ b + 0 = b
    BY <1>4, <1>7 DEF EntryTypes
  <2>2. Ledgered(paid, e, b)
    BY <1>6, <1>7
  <2>3. Ledgered(Entry(paid, "REALIZED_PNL", 0, 0, realized, f.at, f.candle), e + 0, b + 0)
    BY <1>0, <1>4, <1>7, <2>1, <2>2, EntryIs
  <2> QED BY <1>8, <2>1, <2>2, <2>3
<1>10. all = FillEntries(l, f, realized)
  <2>1. f.side = "BUY" => -1 * f.notional = u /\ 1 * f.quantity = v
    BY <1>0, <1>1
  <2>2. f.side # "BUY" => -((-1) * f.notional) = u /\ (-1) * f.quantity = v
    BY <1>0, <1>1
  <2>3. CASE f.side = "BUY"
    BY <1>2, <1>4, <1>5, <1>8, <2>1, <2>3 DEF FillEntries
  <2>4. CASE f.side # "BUY"
    BY <1>2, <1>4, <1>5, <1>8, <2>2, <2>4 DEF FillEntries
  <2> QED BY <2>3, <2>4
<1>11. /\ e = IF f.side = "BUY" THEN x - f.notional - f.fee ELSE x + f.notional - f.fee
       /\ b = IF f.side = "BUY" THEN y + f.quantity ELSE y - f.quantity
  BY <1>0, <1>1, <1>4, <1>7
<1> QED BY <1>9, <1>10, <1>11

LEMMA PricesAre ==
    ASSUME NEW k \in Candles
    PROVE  k.open \in Nat \ {0} /\ k.close \in Nat \ {0}
  BY PricesAssumption

LEMMA TimesAre ==
    ASSUME NEW n \in Nat
    PROVE  OpenTime(n) \in Nat /\ CloseTime(n) \in Nat
  BY DEF OpenTime, CloseTime

\* A run starts flat, with all of its capital.
LEMMA EngineInitIs == Init => EngineInv
<1> SUFFICES ASSUME Init PROVE EngineInv
  OBVIOUS
<1>1. /\ config \in Configs /\ candle \in Candles /\ halted = FALSE /\ phase = "between"
      /\ index = 0 /\ queue = {} /\ portfolio = Flat(config.capital) /\ orders = <<>>
      /\ fills = <<>> /\ equity = <<>>
      /\ ledger = Entry(<<>>, "INITIAL_CAPITAL", config.capital, 0, 0, 0, -1)
  BY DEF Init
<1>2. PICK k : k = config.capital /\ k \in Nat /\ Reserve(config) \in Int
  BY <1>1, EngineConfigIs
<1>3. /\ portfolio = [cash |-> k, base |-> 0, cost |-> 0, realized |-> 0, fees |-> 0,
                      equity |-> k, peak |-> k]
  BY <1>1, <1>2 DEF Flat
<1>4. Sound(portfolio) /\ portfolio.cash = k /\ portfolio.base = 0 /\ portfolio.cost = 0
      /\ portfolio.realized = 0
  <2>1. portfolio \in Portfolios
    BY <1>2, <1>3 DEF Portfolios
  <2> QED BY <1>2, <1>3, <2>1, SoundIs
<1>5. EngineTyped
  <2>1. orders \in Seq(KeptOrders) /\ fills \in Seq(EngineFills)
    BY <1>1
  <2>2. index \in 0..MaxCandles
    BY <1>1, BoundsAssumption
  <2> QED BY <1>1, <1>4, <2>1, <2>2 DEF EngineTyped
<1>6. CurveOK
  BY <1>1 DEF CurveOK
<1>7. AccountsOK
  <2>1. PICK e : e = [type |-> "INITIAL_CAPITAL", dquote |-> k, dbase |-> 0, realized |-> 0,
                      at |-> 0, candle |-> -1, quote |-> 0 + k, base |-> 0 + 0]
    OBVIOUS
  <2>2. e \in Entries /\ e.quote = k /\ e.base = 0
    BY <1>2, <2>1 DEF Entries, EntryTypes
  <2>3. ledger = Append(<<>>, e)
    BY <1>1, <1>2, <2>1 DEF Entry
  <2>4. Ledgered(ledger, k, 0)
    BY <2>2, <2>3 DEF Ledgered, Last
  <2> QED BY <1>2, <1>4, <2>4 DEF AccountsOK
<1>8. ProtectionOK
  <2>1. OpenIn(orders) = {} /\ StopsOf(orders) = {}
    BY <1>1 DEF OpenIn, StopsOf
  <2> QED BY <1>4, <2>1 DEF ProtectionOK, Covered
<1>9. ReserveIsKept
  <2>1. PICK r : r = Reserve(config) /\ r \in Int
    BY <1>2
  <2>2. Min({r, k}) <= k /\ Min({r, k}) \in Int
    <3>1. k \in Int
      BY <1>2
    <3> QED BY <2>1, <3>1, MinOfTwo
  <2>3. Min({Reserve(config), config.capital}) = Min({r, k})
    BY <1>2, <2>1
  <2> QED BY <1>2, <1>4, <2>2, <2>3 DEF ReserveIsKept
<1> QED BY <1>5, <1>6, <1>7, <1>8, <1>9 DEF EngineInv

\* What the invariant says of a run that is not over.
LEMMA RunningIs ==
    ASSUME EngineInv
    PROVE  /\ config \in Configs /\ candle \in Candles /\ halted \in BOOLEAN
           /\ index \in Nat /\ index <= MaxCandles /\ MaxCandles \in Nat
           /\ Sound(portfolio) /\ portfolio \in Portfolios
           /\ orders \in Seq(KeptOrders) /\ fills \in Seq(EngineFills)
           /\ queue \subseteq OpenIn(orders) /\ OpenIn(orders) \subseteq DOMAIN orders
           /\ Running => Covered(orders, portfolio)
           /\ Running /\ halted => OpenIn(orders) \subseteq StopsOf(orders)
<1>1. index \in Nat /\ index <= MaxCandles /\ MaxCandles \in Nat
  BY BoundsAssumption DEF EngineInv, EngineTyped
<1>2. queue \subseteq OpenIn(orders) /\ OpenIn(orders) \subseteq DOMAIN orders
  BY DEF EngineInv, EngineTyped, Open, OpenIn
<1> QED BY <1>1, <1>2 DEF EngineInv, EngineTyped, ProtectionOK, Sound

\* Parts of the invariant that a step leaves as they are.
LEMMA AccountsStay ==
    ASSUME EngineInv, UNCHANGED <<config, portfolio, ledger>>
    PROVE  AccountsOK' /\ ReserveIsKept'
  BY DEF EngineInv, AccountsOK, Ledgered, ReserveIsKept, Reserve

LEMMA CurveStays ==
    ASSUME EngineInv, UNCHANGED <<index, equity>>,
           phase' = "orders" => index < MaxCandles, phase' = "between" => queue' = {}
    PROVE  CurveOK'
  BY DEF EngineInv, CurveOK, ValidPoint

-----------------------------------------------------------------------------
(* The engine: its steps *)

LEMMA OpenCandleKeeps ==
    ASSUME EngineInv, NEW k \in Candles, NEW batch \in Batches, OpenCandle(k, batch)
    PROVE  EngineInv'
<1>0. PICK r, s : /\ r = [orders |-> orders, ok |-> TRUE]
                  /\ s = Submitted(r, batch, portfolio, k.open, OpenTime(index), -1, halted)
  OBVIOUS
<1>1. /\ phase = "between" /\ index < MaxCandles /\ candle' = k /\ orders' = s.orders
      /\ queue' = Eligible(s.orders, index)
      /\ phase' = Proceed("orders", s, ledger, fills, equity)
      /\ UNCHANGED <<config, index, portfolio, fills, ledger, equity, halted>>
  BY <1>0 DEF OpenCandle
<1>2. s \in Submissions /\ Extends(orders, s, halted)
  <2>1. r \in Submissions /\ r.orders = orders
    BY <1>0, RunningIs DEF Submissions
  <2>2. k.open \in Nat \ {0} /\ OpenTime(index) \in Nat /\ -1 \in Int
    BY PricesAre, TimesAre, RunningIs
  <2>3. s \in Submissions /\ Extends(r.orders, s, halted)
    <3>1. PICK price, t, n : price = k.open /\ t = OpenTime(index) /\ n = -1
      OBVIOUS
    <3>2. price \in Nat \ {0} /\ t \in Nat /\ n \in Int
      BY <2>2, <3>1
    <3>3. s = Submitted(r, batch, portfolio, price, t, n, halted)
      BY <1>0, <3>1
    <3> QED BY <2>1, <3>2, <3>3, RunningIs, SubmittedIs
  <2> QED BY <2>1, <2>3
<1>3. phase' \in {"orders", "failed"}
  BY <1>1 DEF Proceed
<1>4. EngineTyped'
  <2>1. orders' \in Seq(KeptOrders)
    BY <1>1, <1>2 DEF Submissions
  <2>2. queue' \subseteq Open'
    BY <1>1 DEF Eligible, OpenIn, Open
  <2> QED BY <1>1, <1>3, <2>1, <2>2 DEF EngineInv, EngineTyped, Sound
<1>5. CurveOK'
  <2>1. UNCHANGED <<index, equity>> /\ phase' # "between" /\ index < MaxCandles
    BY <1>1, <1>3
  <2> QED BY <2>1, CurveStays
<1>6. AccountsOK' /\ ReserveIsKept'
  BY <1>1, AccountsStay
<1>7. ProtectionOK'
  <2>1. Running
    BY <1>1 DEF Running
  <2>2. Covered(s.orders, portfolio) /\ (halted => OpenIn(s.orders) \subseteq StopsOf(s.orders))
    BY <1>2, <2>1, RunningIs, ExtendsKeeps
  <2> QED BY <1>1, <2>2 DEF ProtectionOK, Covered
<1> QED BY <1>4, <1>5, <1>6, <1>7 DEF EngineInv

LEMMA TriedIs ==
    ASSUME EngineInv, Trying
    PROVE  /\ Tried \in queue /\ Tried \in OpenIn(orders) /\ Tried \in DOMAIN orders
           /\ Turn = orders[Tried] /\ Turn \in KeptOrders /\ Running /\ index < MaxCandles
           /\ \A j \in queue : orders[j].stop => Turn.stop
<1>1. queue \in SUBSET (DOMAIN orders) /\ queue # {} /\ orders \in Seq(KeptOrders)
      /\ queue \subseteq OpenIn(orders)
  BY RunningIs DEF Trying
<1>2. First(orders, queue) \in queue
      /\ ((\E i \in queue : orders[i].stop) => orders[First(orders, queue)].stop)
  BY <1>1, FirstIs
<1>3. Running /\ index < MaxCandles
  BY DEF Trying, Running, EngineInv, CurveOK
<1>4. Tried \in queue /\ Turn = orders[Tried]
  BY <1>2 DEF Tried, Turn
<1>5. Tried \in DOMAIN orders /\ Turn \in KeptOrders
  BY <1>1, <1>4
<1>6. \A j \in queue : orders[j].stop => Turn.stop
  BY <1>2 DEF Tried, Turn
<1> QED BY <1>1, <1>3, <1>4, <1>5, <1>6

\* An order that is not the stop may end: what is protected and halted stays so.
LEMMA EndsWithoutFillKeeps ==
    ASSUME EngineInv, Trying, ~Turn.stop, NEW status \in {"CANCELLED", "EXPIRED"}, NEW t \in Nat,
           EndsWithoutFill(status, t)
    PROVE  EngineInv'
<1>1. /\ orders' = Ended(orders, {Tried}, status, t) /\ queue' = queue \ {Tried}
      /\ UNCHANGED <<config, phase, index, candle, portfolio, fills, ledger, equity, halted>>
  BY DEF EndsWithoutFill
<1>2. PICK S, d : S = {Tried} /\ d = orders'
  OBVIOUS
<1>3. d \in Seq(KeptOrders) /\ EndsOnly(orders, S, d)
  <2>1. S \in SUBSET (DOMAIN orders) /\ status \in {"CANCELLED", "EXPIRED", "FILLED"}
        /\ orders \in Seq(KeptOrders)
    BY <1>2, TriedIs, RunningIs
  <2>2. d = Ended(orders, S, status, t)
    BY <1>1, <1>2
  <2> QED BY <2>1, <2>2, EndedIs
<1>4. OpenIn(d) = OpenIn(orders) \ {Tried}
  BY <1>2, <1>3 DEF EndsOnly
<1>5. \A i \in OpenIn(orders) : d[i].stop = orders[i].stop /\ d[i].quantity = orders[i].quantity
  BY <1>3, RunningIs DEF EndsOnly
<1>6. StopsOf(d) = StopsOf(orders)
  <2>1. Tried \notin StopsOf(orders)
    BY TriedIs DEF StopsOf
  <2> QED BY <1>4, <1>5, <2>1 DEF StopsOf
<1>7. EngineTyped'
  <2>1. queue' \subseteq OpenIn(d)
    BY <1>1, <1>4, RunningIs
  <2>2. queue' \subseteq Open'
    BY <1>2, <2>1 DEF OpenIn, Open
  <2> QED BY <1>1, <1>2, <1>3, <2>2 DEF EngineInv, EngineTyped, Sound
<1>8. CurveOK'
  <2>1. phase' = "orders" /\ index < MaxCandles
    BY <1>1, TriedIs DEF Trying
  <2> QED BY <1>1, <2>1, CurveStays
<1>9. AccountsOK' /\ ReserveIsKept'
  BY <1>1, AccountsStay
<1>10. ProtectionOK'
  <2>1. Covered(orders, portfolio) /\ (halted => OpenIn(orders) \subseteq StopsOf(orders))
    BY TriedIs, RunningIs
  <2>2. Covered(d, portfolio)
    <3>1. \A i \in StopsOf(d) : d[i].quantity = orders[i].quantity
      BY <1>5, <1>6 DEF StopsOf
    <3> QED BY <1>6, <2>1, <3>1 DEF Covered
  <2>3. halted => OpenIn(d) \subseteq StopsOf(d)
    BY <1>4, <1>6, <2>1
  <2> QED BY <1>1, <1>2, <2>2, <2>3 DEF ProtectionOK, Covered
<1> QED BY <1>7, <1>8, <1>9, <1>10 DEF EngineInv

LEMMA ExpireDayKeeps == ASSUME EngineInv, ExpireDay PROVE EngineInv'
<1>1. Trying /\ Turn.tif = "DAY" /\ EndsWithoutFill("EXPIRED", OpenTime(index))
  BY DEF ExpireDay, DayIsOver
<1>2. ~Turn.stop
  BY <1>1, TriedIs, KeptIs
<1>3. PICK status, t : status = "EXPIRED" /\ t = OpenTime(index)
  OBVIOUS
<1>4. status \in {"CANCELLED", "EXPIRED"} /\ t \in Nat /\ EndsWithoutFill(status, t)
  BY <1>1, <1>3, RunningIs, TimesAre
<1> QED BY <1>1, <1>2, <1>4, EndsWithoutFillKeeps

LEMMA NotReachedKeeps == ASSUME EngineInv, NotReached PROVE EngineInv'
<1>1. Trying
  BY DEF NotReached
<1>2. CASE Turn.tif = "IOC"
  <2>1. ~Turn.stop
    BY <1>1, <1>2, TriedIs, KeptIs
  <2>2. PICK status, t : status = "EXPIRED" /\ t = CloseTime(index)
    OBVIOUS
  <2>3. status \in {"CANCELLED", "EXPIRED"} /\ t \in Nat /\ EndsWithoutFill(status, t)
    BY <1>2, <2>2, RunningIs, TimesAre DEF NotReached
  <2> QED BY <1>1, <2>1, <2>3, EndsWithoutFillKeeps
<1>3. CASE Turn.tif # "IOC"
  <2>1. /\ queue' = queue \ {Tried}
        /\ UNCHANGED <<config, phase, index, candle, portfolio, orders, fills, ledger, equity,
                       halted>>
    BY <1>3 DEF NotReached
  <2>2. EngineTyped'
    BY <2>1 DEF EngineInv, EngineTyped, Sound, Open
  <2>3. CurveOK'
    <3>1. phase' = "orders" /\ index < MaxCandles
      BY <1>1, <2>1, TriedIs DEF Trying
    <3> QED BY <2>1, <3>1, CurveStays
  <2>4. AccountsOK' /\ ReserveIsKept'
    BY <2>1, AccountsStay
  <2>5. ProtectionOK'
    BY <2>1 DEF EngineInv, ProtectionOK, Running, Covered, StopsOf, OpenIn
  <2> QED BY <2>2, <2>3, <2>4, <2>5 DEF EngineInv
<1> QED BY <1>2, <1>3

LEMMA RefuseFillKeeps == ASSUME EngineInv, RefuseFill PROVE EngineInv'
<1>1. Trying /\ ~Turn.stop /\ EndsWithoutFill("CANCELLED", OpenTime(index))
  BY DEF RefuseFill
<1>2. PICK status, t : status = "CANCELLED" /\ t = OpenTime(index)
  OBVIOUS
<1>3. status \in {"CANCELLED", "EXPIRED"} /\ t \in Nat /\ EndsWithoutFill(status, t)
  BY <1>1, <1>2, RunningIs, TimesAre
<1> QED BY <1>1, <1>3, EndsWithoutFillKeeps

LEMMA FailKeeps == ASSUME EngineInv, Fail PROVE EngineInv'
<1>1. /\ phase' = "failed"
      /\ UNCHANGED <<config, index, candle, queue, portfolio, orders, fills, ledger, equity,
                     halted>>
  BY DEF Fail
<1>2. EngineTyped'
  BY <1>1 DEF EngineInv, EngineTyped, Sound, Open
<1>3. CurveOK'
  BY <1>1, CurveStays
<1>4. AccountsOK' /\ ReserveIsKept'
  BY <1>1, AccountsStay
<1>5. ProtectionOK'
  BY <1>1 DEF ProtectionOK, Running
<1> QED BY <1>2, <1>3, <1>4, <1>5 DEF EngineInv

LEMMA TouchedIs ==
    ASSUME NEW o \in KeptOrders, NEW k \in Candles, Touched(o, k) # NoPrice
    PROVE  Touched(o, k) \in Nat \ {0}
<1>1. k.open \in Nat \ {0} /\ o.price \in Nat /\ (o.kind # "MARKET" => o.price > 0)
  BY PricesAre, KeptIs
<1>2. CASE o.kind = "MARKET"
  BY <1>1, <1>2 DEF Touched
<1>3. CASE o.kind # "MARKET"
  <2>1. PICK a, b : a = k.open /\ b = o.price
    OBVIOUS
  <2>2. a \in Int /\ b \in Int /\ a > 0 /\ b > 0
    BY <1>1, <1>3, <2>1
  <2>3. Max({a, b}) \in Nat \ {0} /\ Min({a, b}) \in Nat \ {0}
    <3>1. Max({a, b}) = IF a <= b THEN b ELSE a
      BY <2>2, MaxOfTwo
    <3>2. IsFiniteSet({a, b})
      <4>1. IsFiniteSet({a}) /\ IsFiniteSet({b}) /\ {a, b} = {a} \cup {b}
        BY FS_Singleton
      <4> QED BY <4>1, FS_Union
    <3>3. {a, b} \in SUBSET Int /\ {a, b} # {}
      BY <2>2
    <3>4. Min({a, b}) \in {a, b}
      BY <3>2, <3>3, Extremes
    <3> QED BY <2>2, <3>1, <3>4
  <2>4. Touched(o, k) \in {NoPrice, Max({a, b}), Min({a, b})}
    BY <1>3, <2>1 DEF Touched
  <2> QED BY <2>3, <2>4
<1> QED BY <1>2, <1>3

\* The fill of the order tried is one the constructor of Fill accepts.
LEMMA FillIs ==
    ASSUME EngineInv, Trying, Reached # NoPrice
    PROVE  /\ Fill \in EngineFills
           /\ Fill.side = Turn.side /\ Fill.side \in Sides /\ Fill.quantity \in Nat \ {0}
           /\ Fill.price \in Nat \ {0} /\ Fill.notional \in Nat /\ Fill.notional > 0
           /\ Fill.fee \in Nat /\ Fill.fee <= Fill.notional
<1>1. PICK o, b : o = Turn /\ b = Reached
  OBVIOUS
<1>2. o \in KeptOrders /\ b \in Nat \ {0} /\ Tried \in Nat
  <2>1. Tried \in DOMAIN orders /\ orders \in Seq(KeptOrders)
    BY TriedIs, RunningIs
  <2>2. Tried \in Nat
    BY <2>1
  <2>3. candle \in Candles
    BY RunningIs
  <2> QED BY <1>1, <2>2, <2>3, TriedIs, TouchedIs DEF Reached
<1>3. PICK q : q = FillOf(config, o, b)
  OBVIOUS
<1>4. /\ q.side = o.side /\ q.quantity = o.quantity /\ q.price \in Nat \ {0}
      /\ q.notional \in Nat \ {0} /\ q.notional = q.quantity * q.price
      /\ q.fee \in Nat /\ q.fee <= q.notional
  <2>1. o.quantity \in Nat \ {0} /\ config \in Configs
    BY <1>2, KeptIs, RunningIs
  <2> QED BY <1>2, <1>3, <2>1, FillOfIs
<1>5. q.side \in Sides /\ q.quantity \in Nat \ {0}
  BY <1>2, <1>4, KeptIs
<1>6. PICK t : t = OpenTime(index) /\ t \in Int /\ index \in Int
  BY RunningIs, TimesAre
<1>7. Fill = [order |-> Tried, at |-> t, candle |-> index, forced |-> FALSE, side |-> q.side,
              quantity |-> q.quantity, price |-> q.price, notional |-> q.notional, fee |-> q.fee]
  BY <1>1, <1>3, <1>6 DEF Fill, FillAt
<1>8. Fill \in EngineFills
  BY <1>2, <1>4, <1>5, <1>6, <1>7 DEF EngineFills, ValidFill
<1>9. /\ Fill.side = q.side /\ Fill.quantity = q.quantity /\ Fill.price = q.price
      /\ Fill.notional = q.notional /\ Fill.fee = q.fee
  BY <1>7
<1> QED BY <1>1, <1>4, <1>5, <1>8, <1>9

\* Cash above the reserve is what a buy may spend; a sale adds to the cash.
LEMMA FillKeepsReserve ==
    ASSUME EngineInv, Trying, Reached # NoPrice, Turn.stop \/ FillFits(config, Fill, portfolio),
           NEW cash, cash = IF Fill.side = "BUY" THEN portfolio.cash - Fill.notional - Fill.fee
                                                 ELSE portfolio.cash + Fill.notional - Fill.fee
    PROVE  cash >= Min({Reserve(config), config.capital})
<1>1. PICK a, b : a = Reserve(config) /\ b = config.capital /\ a \in Int /\ b \in Int
  <2>1. config \in Configs
    BY RunningIs
  <2>2. Reserve(config) \in Nat /\ config.capital \in Nat
    BY <2>1, EngineConfigIs
  <2> QED BY <2>2
<1>2. PICK m : m = Min({a, b}) /\ m \in Int /\ m <= a
  BY <1>1, MinOfTwo
<1>3. portfolio.cash >= m
  BY <1>1, <1>2 DEF EngineInv, ReserveIsKept
<1>4. portfolio.cash \in Int
  BY RunningIs DEF Portfolios
<1>5. CASE Fill.side = "BUY"
  <2>1. ~Turn.stop
    <3>1. Turn.side = "BUY" /\ Turn \in KeptOrders
      BY <1>5, FillIs, TriedIs
    <3> QED BY <3>1, KeptIs
  <2>2. portfolio.cash - Fill.notional - Fill.fee >= a
    BY <1>1, <1>5, <2>1 DEF FillFits, CashCovers
  <2>3. cash >= a /\ cash \in Int
    BY <1>4, <1>5, <2>2, FillIs
  <2> QED BY <1>1, <1>2, <2>3
<1>6. CASE Fill.side # "BUY"
  <2>1. PICK n, f : n = Fill.notional /\ f = Fill.fee /\ n \in Nat /\ f \in Nat /\ f <= n
    BY FillIs
  <2>2. cash = portfolio.cash + n - f
    BY <1>6, <2>1
  <2>3. cash >= m
    BY <1>2, <1>3, <1>4, <2>1, <2>2
  <2> QED BY <1>1, <1>2, <2>3
<1> QED BY <1>5, <1>6

\* The ledger follows what a fill does to the portfolio.
LEMMA FillIsAccounted ==
    ASSUME AccountsOK, config \in Configs, NEW p, Sound(p),
           p.cash + p.cost - p.realized = config.capital, Ledgered(ledger, p.cash, p.base),
           NEW f \in EngineFills, f.quantity \in Nat \ {0}, f.fee <= f.notional, MayApply(p, f)
    PROVE  LET d == Applied(p, f)
           IN  /\ Sound(d) /\ d.cash + d.cost - d.realized = config.capital
               /\ \A realized \in Int : Ledgered(FillEntries(ledger, f, realized), d.cash, d.base)
               /\ d.cash = IF f.side = "BUY" THEN p.cash - f.notional - f.fee
                                             ELSE p.cash + f.notional - f.fee
               /\ d.base = IF f.side = "BUY" THEN p.base + f.quantity ELSE p.base - f.quantity
<1>1. PICK d : d = Applied(p, f)
  OBVIOUS
<1>2. /\ f.side \in Sides /\ f.price \in Nat /\ f.notional \in Nat /\ f.fee \in Nat
      /\ f.notional > 0
  BY DEF EngineFills, ValidFill
<1>3. /\ Sound(d)
      /\ d.cash = IF f.side = "BUY" THEN p.cash - f.notional - f.fee
                                    ELSE p.cash + f.notional - f.fee
      /\ d.base = IF f.side = "BUY" THEN p.base + f.quantity ELSE p.base - f.quantity
      /\ d.cash + d.cost - d.realized = p.cash + p.cost - p.realized
  BY <1>1, <1>2, AppliedSound
<1>4. ASSUME NEW realized \in Int
      PROVE  Ledgered(FillEntries(ledger, f, realized), d.cash, d.base)
  <2>1. p.cash \in Int /\ p.base \in Int
    BY SoundIs DEF Portfolios
  <2>2. PICK x, y : x = p.cash /\ y = p.base
    OBVIOUS
  <2>3. Ledgered(FillEntries(ledger, f, realized),
                 IF f.side = "BUY" THEN x - f.notional - f.fee ELSE x + f.notional - f.fee,
                 IF f.side = "BUY" THEN y + f.quantity ELSE y - f.quantity)
    BY <2>1, <2>2, FillEntriesIs
  <2> QED BY <1>3, <2>2, <2>3
<1> QED BY <1>1, <1>3, <1>4

LEMMA FillOrderKeeps ==
    ASSUME EngineInv, NEW batch \in Batches, FillOrder(batch)
    PROVE  EngineInv'
<1>0. PICK f, p, l, filled, guarded, s :
        /\ f = Fill /\ p = Applied(portfolio, f)
        /\ l = FillEntries(ledger, f, p.realized - portfolio.realized)
        /\ filled = Ended(orders, {Tried}, "FILLED", OpenTime(index))
        /\ guarded = Protected(filled, p, OpenTime(index), index)
        /\ s = Submitted(guarded, batch, p, f.price, OpenTime(index), index, halted)
  OBVIOUS
<1>1. /\ Trying /\ Reached # NoPrice
      /\ Turn.stop \/ FillFits(config, f, portfolio)
      /\ MayApply(portfolio, f)
      /\ portfolio' = p /\ ledger' = l /\ fills' = Append(fills, f) /\ orders' = s.orders
      /\ queue' = queue \ {Tried}
      /\ phase' = Proceed("orders", s, l, fills', equity)
      /\ UNCHANGED <<config, index, candle, equity, halted>>
  BY <1>0 DEF FillOrder
<1>2. /\ f \in EngineFills /\ f.quantity \in Nat \ {0} /\ f.price \in Nat \ {0}
      /\ f.fee <= f.notional
  BY <1>0, <1>1, FillIs
<1>3. PICK t, n : t = OpenTime(index) /\ t \in Nat /\ n = index /\ n \in Int
  BY RunningIs, TimesAre
<1>4. /\ Sound(p) /\ p.cash + p.cost - p.realized = config.capital
      /\ Ledgered(l, p.cash, p.base)
      /\ p.cash = IF f.side = "BUY" THEN portfolio.cash - f.notional - f.fee
                                    ELSE portfolio.cash + f.notional - f.fee
  <2>1. /\ AccountsOK /\ config \in Configs /\ Sound(portfolio)
        /\ portfolio.cash + portfolio.cost - portfolio.realized = config.capital
        /\ Ledgered(ledger, portfolio.cash, portfolio.base)
    BY RunningIs DEF EngineInv, AccountsOK
  <2>2. PICK b : b = portfolio
    OBVIOUS
  <2>3. /\ Sound(p) /\ p.cash + p.cost - p.realized = config.capital
        /\ \A realized \in Int : Ledgered(FillEntries(ledger, f, realized), p.cash, p.base)
        /\ p.cash = IF f.side = "BUY" THEN b.cash - f.notional - f.fee
                                      ELSE b.cash + f.notional - f.fee
    BY <1>0, <1>1, <1>2, <2>1, <2>2, FillIsAccounted
  <2>4. p.realized - portfolio.realized \in Int
    BY <2>1, <2>3, SoundIs DEF Portfolios
  <2> QED BY <1>0, <2>2, <2>3, <2>4
<1>5. PICK S, done : S = {Tried} /\ done = "FILLED"
  OBVIOUS
<1>6. filled \in Seq(KeptOrders) /\ EndsOnly(orders, S, filled)
  <2>1. S \in SUBSET (DOMAIN orders) /\ done \in {"CANCELLED", "EXPIRED", "FILLED"}
        /\ orders \in Seq(KeptOrders)
    BY <1>1, <1>5, TriedIs, RunningIs
  <2>2. filled = Ended(orders, S, done, t)
    BY <1>0, <1>3, <1>5
  <2> QED BY <1>3, <2>1, <2>2, EndedIs
<1>7. /\ OpenIn(filled) = OpenIn(orders) \ {Tried}
      /\ \A i \in OpenIn(orders) : filled[i].stop = orders[i].stop
  BY <1>5, <1>6, RunningIs DEF EndsOnly
<1>8. /\ guarded \in Submissions
      /\ guarded.ok => Covered(guarded.orders, p)
      /\ OpenIn(filled) \ StopsOf(filled) \subseteq OpenIn(guarded.orders)
      /\ OpenIn(guarded.orders) \ StopsOf(guarded.orders) \subseteq OpenIn(filled) \ StopsOf(filled)
  <2>1. guarded = Protected(filled, p, t, n)
    BY <1>0, <1>3
  <2>2. config \in Configs
    BY RunningIs
  <2>3. /\ guarded \in Submissions
        /\ guarded.ok => Covered(guarded.orders, p)
        /\ OpenIn(filled) \ StopsOf(filled)
             \subseteq OpenIn(guarded.orders) \ StopsOf(guarded.orders)
        /\ OpenIn(guarded.orders) \ StopsOf(guarded.orders)
             \subseteq OpenIn(filled) \ StopsOf(filled)
    BY <1>3, <1>4, <1>6, <2>1, <2>2, ProtectedIs
  <2> QED BY <2>3
<1>9. s \in Submissions /\ Extends(guarded.orders, s, halted) /\ (s.ok => guarded.ok)
  <2>1. PICK price, halt : price = f.price /\ halt = halted
    OBVIOUS
  <2>2. s = Submitted(guarded, batch, p, price, t, n, halt)
    BY <1>0, <1>3, <2>1
  <2>3. price \in Nat \ {0} /\ halt \in BOOLEAN /\ p \in Portfolios /\ config \in Configs
    BY <1>2, <1>4, <2>1, RunningIs, SoundIs
  <2>4. s \in Submissions /\ Extends(guarded.orders, s, halt) /\ (s.ok => guarded.ok)
    BY <1>3, <1>8, <2>2, <2>3, SubmittedIs
  <2> QED BY <2>1, <2>4
<1>10. /\ OpenIn(guarded.orders) \subseteq OpenIn(s.orders)
       /\ Covered(guarded.orders, p) => Covered(s.orders, p)
       /\ halted /\ OpenIn(guarded.orders) \subseteq StopsOf(guarded.orders)
            => OpenIn(s.orders) \subseteq StopsOf(s.orders)
  <2>1. PICK os, halt : os = guarded.orders /\ halt = halted
    OBVIOUS
  <2>2. os \in Seq(KeptOrders) /\ halt \in BOOLEAN /\ Extends(os, s, halt)
    BY <1>8, <1>9, <2>1, RunningIs DEF Submissions
  <2>3. /\ OpenIn(os) \subseteq OpenIn(s.orders)
        /\ Covered(os, p) => Covered(s.orders, p)
        /\ halt /\ OpenIn(os) \subseteq StopsOf(os) => OpenIn(s.orders) \subseteq StopsOf(s.orders)
    BY <1>9, <2>2, ExtendsKeeps
  <2> QED BY <2>1, <2>3
<1>11. Covered(orders, portfolio) /\ (halted => OpenIn(orders) \subseteq StopsOf(orders))
  BY <1>1, TriedIs, RunningIs
<1>12. phase' \in {"orders", "failed"} /\ (phase' = "orders" => s.ok)
  BY <1>1 DEF Proceed
<1>13. EngineTyped'
  <2>1. orders' \in Seq(KeptOrders)
    BY <1>1, <1>9 DEF Submissions
  <2>2. fills' \in Seq(EngineFills)
    BY <1>1, <1>2, RunningIs
  <2>3. ASSUME NEW j \in queue, j # Tried PROVE j \in OpenIn(orders')
    <3>1. j \in OpenIn(orders) /\ Tried \in OpenIn(orders)
      BY <1>1, TriedIs, RunningIs
    <3>2. ~orders[j].stop
      <4>1. SUFFICES ASSUME orders[j].stop PROVE FALSE
        OBVIOUS
      <4>2. Turn.stop /\ Turn = orders[Tried]
        BY <1>1, <4>1, TriedIs
      <4>3. j \in StopsOf(orders) /\ Tried \in StopsOf(orders)
        BY <3>1, <4>1, <4>2 DEF StopsOf
      <4> QED BY <1>11, <2>3, <4>3 DEF Covered
    <3>3. j \in OpenIn(filled) \ StopsOf(filled)
      BY <1>7, <2>3, <3>1, <3>2 DEF StopsOf
    <3> QED BY <1>1, <1>8, <1>10, <3>3
  <2>4. queue' \subseteq Open'
    <3>1. queue' \subseteq OpenIn(orders')
      BY <1>1, <2>3
    <3> QED BY <3>1 DEF OpenIn, Open
  <2>5. Sound(portfolio')
    BY <1>1, <1>4
  <2> QED BY <1>1, <1>12, <2>1, <2>2, <2>4, <2>5 DEF EngineInv, EngineTyped, Sound
<1>14. CurveOK'
  <2>1. UNCHANGED <<index, equity>> /\ phase' # "between" /\ index < MaxCandles
    BY <1>1, <1>12, TriedIs
  <2> QED BY <2>1, CurveStays
<1>15. AccountsOK'
  BY <1>1, <1>4 DEF AccountsOK, Ledgered
<1>16. ReserveIsKept'
  <2>1. p.cash >= Min({Reserve(config), config.capital})
    BY <1>0, <1>1, <1>4, FillKeepsReserve
  <2> QED BY <1>1, <2>1 DEF ReserveIsKept, Reserve
<1>17. ProtectionOK'
  <2>1. SUFFICES ASSUME Running'
                 PROVE  Covered(s.orders, p)
                        /\ (halted => OpenIn(s.orders) \subseteq StopsOf(s.orders))
    BY <1>1 DEF ProtectionOK, Covered
  <2>2. s.ok
    BY <1>12, <2>1 DEF Running
  <2>3. Covered(s.orders, p)
    BY <1>8, <1>9, <1>10, <2>2
  <2>4. ASSUME halted PROVE OpenIn(s.orders) \subseteq StopsOf(s.orders)
    <3>1. OpenIn(filled) \subseteq StopsOf(filled)
      BY <1>7, <1>11, <2>4 DEF StopsOf
    <3>2. OpenIn(guarded.orders) \subseteq StopsOf(guarded.orders)
      BY <1>8, <3>1
    <3> QED BY <1>10, <2>4, <3>2
  <2> QED BY <2>3, <2>4
<1> QED BY <1>13, <1>14, <1>15, <1>16, <1>17 DEF EngineInv

\* The point of a candle is one the constructor of EquityPoint accepts.
LEMMA PointIs ==
    ASSUME NEW p, Sound(p), NEW n \in Int, candle \in Candles
    PROVE  PointOf(p, n) \in EquityPoints /\ ValidPoint(PointOf(p, n), n)
<1>1. /\ p.cash \in Nat /\ p.base \in Nat /\ p.equity \in Nat /\ p.peak \in Int /\ p.equity <= p.peak
      /\ candle.close \in Nat \ {0}
  BY SoundIs, PricesAre DEF Portfolios
<1>2. PICK k : k = candle.close /\ k \in Int /\ k > 0
  BY <1>1
<1>3. PointOf(p, n) = [candle |-> n, close |-> k, cash |-> p.cash, base |-> p.base,
                       equity |-> p.equity, peak |-> p.peak]
  BY <1>2 DEF PointOf
<1>4. PointOf(p, n) \in EquityPoints
  BY <1>1, <1>2, <1>3 DEF EquityPoints
<1>5. ValidPoint(PointOf(p, n), n)
  BY <1>1, <1>2, <1>3 DEF ValidPoint
<1> QED BY <1>4, <1>5

LEMMA MarkedIs ==
    ASSUME NEW p, Sound(p), NEW price \in Nat
    PROVE  LET d == Marked(p, price)
           IN  /\ Sound(d) /\ d.cash = p.cash /\ d.base = p.base
               /\ d.cash + d.cost - d.realized = p.cash + p.cost - p.realized
<1>1. /\ p \in Portfolios /\ p.cash >= 0 /\ p.base >= 0 /\ p.cost >= 0 /\ p.fees >= 0
      /\ p.base = 0 <=> p.cost = 0
  BY SoundIs
<1>2. PICK d : d = Marked(p, price)
  OBVIOUS
<1>3. Sound(d)
  BY <1>1, <1>2, MarkedSound
<1>4. d.cash = p.cash /\ d.base = p.base /\ d.cost = p.cost /\ d.realized = p.realized
  <2>1. price \in Int
    OBVIOUS
  <2> QED BY <1>1, <1>2, <2>1, MarkedTyped
<1> QED BY <1>2, <1>3, <1>4

LEMMA CloseCandleKeeps ==
    ASSUME EngineInv, NEW batch \in Batches, CloseCandle(batch)
    PROVE  EngineInv'
<1>0. PICK p, l, eq, halts, S, kept, r, s :
        /\ p = Marked(portfolio, candle.close)
        /\ l = MarkEntry(ledger, "MARK_TO_MARKET", CloseTime(index), index)
        /\ eq = Append(equity, PointOf(p, index))
        /\ halts = (~halted /\ MustHalt(config, p))
        /\ S = {i \in Open : ~orders[i].stop}
        /\ kept = (IF ~halts THEN orders ELSE Ended(orders, S, "CANCELLED", CloseTime(index)))
        /\ r = [orders |-> kept, ok |-> TRUE]
        /\ s = Submitted(r, batch, p, candle.close, CloseTime(index), index, halted \/ halts)
  OBVIOUS
<1>1. /\ phase = "orders" /\ queue = {}
      /\ portfolio' = p /\ ledger' = l /\ equity' = eq /\ halted' = (halted \/ halts)
      /\ orders' = s.orders /\ index' = index + 1
      /\ phase' = Proceed("between", s, l, fills, eq)
      /\ UNCHANGED <<config, candle, queue, fills>>
  BY <1>0 DEF CloseCandle
<1>2. /\ index \in Nat /\ index + 1 <= MaxCandles /\ Running
      /\ config \in Configs /\ candle \in Candles /\ halted \in BOOLEAN
      /\ orders \in Seq(KeptOrders) /\ fills \in Seq(EngineFills) /\ Sound(portfolio)
  <2>1. index < MaxCandles /\ Running
    BY <1>1 DEF EngineInv, CurveOK, Running
  <2> QED BY <2>1, RunningIs
<1>3. PICK price, t, n : /\ price = candle.close /\ price \in Nat \ {0}
                         /\ t = CloseTime(index) /\ t \in Nat
                         /\ n = index /\ n \in Nat
  BY <1>2, PricesAre, TimesAre
<1>4. /\ Sound(p) /\ p.cash = portfolio.cash /\ p.base = portfolio.base
      /\ p.cash + p.cost - p.realized = portfolio.cash + portfolio.cost - portfolio.realized
  <2>1. price \in Nat /\ p = Marked(portfolio, price)
    BY <1>0, <1>3
  <2> QED BY <1>2, <2>1, MarkedIs
<1>5. PICK halt : halt = (halted \/ halts) /\ halt \in BOOLEAN
  BY <1>0, <1>2
<1>6. /\ kept \in Seq(KeptOrders) /\ Covered(kept, p)
      /\ halt => OpenIn(kept) \subseteq StopsOf(kept)
  <2>0. Covered(orders, portfolio) /\ (halted => OpenIn(orders) \subseteq StopsOf(orders))
    BY <1>2, RunningIs
  <2>1. CASE ~halts
    <3>1. Covered(orders, p)
      BY <1>4, <2>0 DEF Covered
    <3> QED BY <1>0, <1>2, <1>5, <2>0, <2>1, <3>1
  <2>2. CASE halts
    <3>1. PICK status : status = "CANCELLED"
      OBVIOUS
    <3>2. S \in SUBSET (DOMAIN orders) /\ status \in {"CANCELLED", "EXPIRED", "FILLED"}
      BY <1>0, <3>1 DEF Open
    <3>3. kept = Ended(orders, S, status, t)
      BY <1>0, <1>3, <2>2, <3>1
    <3>4. kept \in Seq(KeptOrders) /\ EndsOnly(orders, S, kept)
      BY <1>2, <1>3, <3>2, <3>3, EndedIs
    <3>5. /\ OpenIn(kept) = StopsOf(orders)
          /\ \A i \in StopsOf(orders) : kept[i].stop /\ kept[i].quantity = orders[i].quantity
      <4>1. StopsOf(orders) = OpenIn(orders) \ S
        BY <1>0 DEF StopsOf, OpenIn, Open
      <4>2. \A i \in StopsOf(orders) : i \in DOMAIN orders /\ orders[i].stop
        BY DEF StopsOf, OpenIn
      <4> QED BY <3>4, <4>1, <4>2 DEF EndsOnly
    <3>6. StopsOf(kept) = StopsOf(orders)
      BY <3>5 DEF StopsOf
    <3>7. Covered(kept, p)
      BY <1>4, <2>0, <3>5, <3>6 DEF Covered
    <3> QED BY <3>4, <3>5, <3>6, <3>7
  <2> QED BY <1>0, <2>1, <2>2
<1>7. s \in Submissions /\ Extends(kept, s, halt)
  <2>1. r \in Submissions /\ r.orders = kept
    BY <1>0, <1>6 DEF Submissions
  <2>2. s = Submitted(r, batch, p, price, t, n, halt)
    BY <1>0, <1>3, <1>5
  <2>3. p \in Portfolios /\ n \in Int
    BY <1>3, <1>4, SoundIs
  <2>4. s \in Submissions /\ Extends(r.orders, s, halt)
    BY <1>2, <1>3, <1>5, <2>1, <2>2, <2>3, SubmittedIs
  <2> QED BY <2>1, <2>4
<1>8. /\ Covered(s.orders, p)
      /\ halt => OpenIn(s.orders) \subseteq StopsOf(s.orders)
  BY <1>5, <1>6, <1>7, ExtendsKeeps
<1>9. phase' \in {"between", "failed"}
  BY <1>1 DEF Proceed
<1>10. EngineTyped'
  <2>1. orders' \in Seq(KeptOrders)
    BY <1>1, <1>7 DEF Submissions
  <2>2. index' \in 0..MaxCandles
    BY <1>1, <1>2, BoundsAssumption
  <2>3. queue' \subseteq Open' /\ halted' \in BOOLEAN
    BY <1>1, <1>5
  <2>4. Sound(portfolio')
    BY <1>1, <1>4
  <2> QED BY <1>1, <1>2, <1>9, <2>1, <2>2, <2>3, <2>4 DEF EngineTyped, Sound
<1>11. CurveOK'
  <2>1. PICK e : e = PointOf(p, n) /\ e \in EquityPoints /\ ValidPoint(e, n)
    BY <1>2, <1>3, <1>4, PointIs
  <2>2. /\ equity \in Seq(EquityPoints) /\ Len(equity) = n
        /\ \A i \in 1..n : ValidPoint(equity[i], i - 1)
    BY <1>3 DEF EngineInv, CurveOK
  <2>3. eq = Append(equity, e)
    BY <1>0, <1>3, <2>1
  <2>4. /\ eq \in Seq(EquityPoints) /\ Len(eq) = n + 1 /\ eq[n + 1] = e
        /\ \A i \in 1..n : eq[i] = equity[i]
    BY <1>3, <2>1, <2>2, <2>3
  <2>5. \A i \in 1..(n + 1) : ValidPoint(eq[i], i - 1)
    <3>1. ValidPoint(eq[n + 1], (n + 1) - 1)
      <4>1. (n + 1) - 1 = n
        BY <1>3
      <4> QED BY <2>1, <2>4, <4>1
    <3>2. \A i \in 1..n : ValidPoint(eq[i], i - 1)
      BY <2>2, <2>4
    <3>3. \A i \in 1..(n + 1) : i \in 1..n \/ i = n + 1
      BY <1>3
    <3> QED BY <3>1, <3>2, <3>3
  <2>6. equity' = eq /\ index' = n + 1 /\ queue' = {} /\ phase' # "orders"
    BY <1>1, <1>3, <1>9
  <2> QED BY <2>4, <2>5, <2>6 DEF CurveOK, ValidPoint
<1>12. AccountsOK'
  <2>1. portfolio.cash \in Int /\ portfolio.base \in Int
    BY RunningIs DEF Portfolios
  <2>2. PICK x, y : x = portfolio.cash /\ y = portfolio.base /\ x \in Int /\ y \in Int
    BY <2>1
  <2>3. Ledgered(ledger, x, y) /\ portfolio.cash + portfolio.cost - portfolio.realized = config.capital
    BY <2>2 DEF EngineInv, AccountsOK
  <2>4. PICK type : type = "MARK_TO_MARKET" /\ type \in EntryTypes
    BY DEF EntryTypes
  <2>5. l = Entry(ledger, type, 0, 0, 0, t, n)
    BY <1>0, <1>3, <2>4 DEF MarkEntry
  <2>6. Ledgered(l, x + 0, y + 0)
    <3>1. 0 \in Int /\ t \in Int /\ n \in Int
      BY <1>3
    <3> QED BY <2>2, <2>3, <2>4, <2>5, <3>1, EntryIs
  <2>7. x + 0 = p.cash /\ y + 0 = p.base
    BY <1>4, <2>2
  <2> QED BY <1>1, <1>4, <2>3, <2>6, <2>7 DEF AccountsOK, Ledgered
<1>13. ReserveIsKept'
  BY <1>1, <1>4 DEF EngineInv, ReserveIsKept, Reserve
<1>14. ProtectionOK'
  BY <1>1, <1>5, <1>8 DEF ProtectionOK, Covered
<1> QED BY <1>10, <1>11, <1>12, <1>13, <1>14 DEF EngineInv

\* What a forced sale is made of, and what it leaves: everything sold at the last close.
LEMMA ForcedIs ==
    ASSUME EngineInv, index > 0, portfolio.base > 0
    PROVE  LET d == Marked(Applied(portfolio, ForcedFill), candle.close)
           IN  /\ ForcedFill \in EngineFills
               /\ Sound(d) /\ d.cash + d.cost - d.realized = config.capital
               /\ portfolio.cash <= d.cash /\ d.realized - portfolio.realized \in Int
               /\ Ledgered(FillEntries(ledger, ForcedFill, d.realized - portfolio.realized),
                           d.cash, d.base)
<1>1. /\ config \in Configs /\ candle \in Candles /\ Sound(portfolio) /\ index \in Nat
      /\ portfolio \in Portfolios /\ orders \in Seq(KeptOrders)
  BY RunningIs
<1>2. PICK k, f, b, o, m : /\ k = candle.close /\ f = ForcedFill /\ b = portfolio
                           /\ o = [side |-> "SELL", kind |-> "MARKET", quantity |-> portfolio.base]
                           /\ m = Len(orders) + 1
  OBVIOUS
<1>3. k \in Nat \ {0} /\ b.base \in Nat \ {0} /\ m \in Nat
  BY <1>1, <1>2, PricesAre DEF Portfolios
<1>4. PICK t, n : t = CloseTime(index - 1) /\ t \in Int /\ n = index - 1 /\ n \in Int
  <2>1. index - 1 \in Nat
    BY <1>1
  <2> QED BY <2>1, TimesAre
<1>5. PICK q : q = FillOf(config, o, k)
  OBVIOUS
<1>6. /\ q.side = "SELL" /\ q.quantity = b.base /\ q.price \in Nat \ {0}
      /\ q.notional \in Nat \ {0} /\ q.notional = q.quantity * q.price
      /\ q.fee \in Nat /\ q.fee <= q.notional
  <2>1. o.quantity \in Nat \ {0} /\ o.side = "SELL" /\ o.quantity = b.base
    BY <1>2, <1>3
  <2> QED BY <1>1, <1>3, <1>5, <2>1, FillOfIs
<1>7. f = [order |-> m, at |-> t, candle |-> n, forced |-> TRUE, side |-> q.side,
           quantity |-> q.quantity, price |-> q.price, notional |-> q.notional, fee |-> q.fee]
  BY <1>2, <1>4, <1>5 DEF ForcedFill, FillAt
<1>8. f \in EngineFills /\ f.side = "SELL" /\ f.quantity = b.base /\ f.fee <= f.notional
      /\ f.fee \in Nat /\ f.notional \in Nat
  <2>1. q.side \in Sides /\ q.quantity \in Nat /\ q.quantity > 0
    BY <1>3, <1>6 DEF Sides
  <2>2. f \in EngineFills
    BY <1>3, <1>4, <1>6, <1>7, <2>1 DEF EngineFills, ValidFill
  <2> QED BY <1>6, <1>7, <2>2
<1>9. PICK a : a = Applied(portfolio, f)
  OBVIOUS
<1>10. /\ Sound(a) /\ a.cash + a.cost - a.realized = config.capital
       /\ \A realized \in Int : Ledgered(FillEntries(ledger, f, realized), a.cash, a.base)
       /\ a.cash = b.cash + f.notional - f.fee
  <2>1. /\ AccountsOK /\ b.cash + b.cost - b.realized = config.capital
        /\ Ledgered(ledger, b.cash, b.base)
    BY <1>2 DEF EngineInv, AccountsOK
  <2>2. f.quantity \in Nat \ {0} /\ MayApply(b, f) /\ Sound(b) /\ f.side # "BUY"
    BY <1>1, <1>2, <1>3, <1>8 DEF MayApply
  <2>3. /\ Sound(a) /\ a.cash + a.cost - a.realized = config.capital
        /\ \A realized \in Int : Ledgered(FillEntries(ledger, f, realized), a.cash, a.base)
        /\ a.cash = IF f.side = "BUY" THEN b.cash - f.notional - f.fee
                                      ELSE b.cash + f.notional - f.fee
    BY <1>1, <1>2, <1>8, <1>9, <2>1, <2>2, FillIsAccounted
  <2> QED BY <2>2, <2>3
<1>11. PICK d : d = Marked(a, k)
  OBVIOUS
<1>12. /\ Sound(d) /\ d.cash = a.cash /\ d.base = a.base
       /\ d.cash + d.cost - d.realized = a.cash + a.cost - a.realized
  BY <1>3, <1>10, <1>11, MarkedIs
<1>13. d.realized - portfolio.realized \in Int
  BY <1>1, <1>12, SoundIs DEF Portfolios
<1>14. portfolio.cash <= d.cash
  <2>1. portfolio.cash \in Int
    BY <1>1 DEF Portfolios
  <2> QED BY <1>2, <1>8, <1>10, <1>12, <2>1
<1>15. Ledgered(FillEntries(ledger, f, d.realized - portfolio.realized), d.cash, d.base)
  BY <1>10, <1>12, <1>13
<1> QED BY <1>2, <1>8, <1>9, <1>10, <1>11, <1>12, <1>13, <1>14, <1>15

\* The end of a run: nothing runs any more, and what was sold is accounted.
LEMMA EndRunKeeps == ASSUME EngineInv, EndRun PROVE EngineInv'
<1>0. PICK forced, os, p, l, fs, s, final :
        /\ forced = (config.forceClose /\ portfolio.base > 0)
        /\ os = (IF config.cancelAtEnd
                 THEN Ended(orders, Open, "CANCELLED", CloseTime(index - 1)) ELSE orders)
        /\ p = (IF forced THEN Marked(Applied(portfolio, ForcedFill), candle.close) ELSE portfolio)
        /\ l = (IF forced THEN FillEntries(ledger, ForcedFill, p.realized - portfolio.realized)
                ELSE ledger)
        /\ fs = (IF forced THEN Append(fills, ForcedFill) ELSE fills)
        /\ s = (IF forced
                THEN Protected(Append(os, ForcedOrder), p, CloseTime(index - 1), index - 1)
                ELSE [orders |-> os, ok |-> TRUE])
        /\ final = MarkEntry(l, "FINAL_STATE", CloseTime(index - 1), index - 1)
  OBVIOUS
<1>1. /\ phase = "between" /\ index > 0
      /\ portfolio' = p /\ ledger' = final /\ fills' = fs /\ orders' = s.orders
      /\ equity' = (IF forced THEN [equity EXCEPT ![index] = PointOf(p, index - 1)] ELSE equity)
      /\ phase' = Proceed("done", s, final, fs, equity)
      /\ UNCHANGED <<config, index, candle, queue, halted>>
  BY <1>0 DEF EndRun, Finish
<1>2. /\ index \in Nat /\ config \in Configs /\ candle \in Candles /\ Sound(portfolio)
      /\ orders \in Seq(KeptOrders) /\ fills \in Seq(EngineFills) /\ queue = {}
  BY <1>1, RunningIs DEF EngineInv, CurveOK
<1>3. PICK t, n : /\ t = CloseTime(index - 1) /\ t \in Nat
                  /\ n = index - 1 /\ n \in Nat
  <2>1. index - 1 \in Nat
    BY <1>1, <1>2
  <2> QED BY <2>1, TimesAre
<1>4. /\ Sound(p) /\ p.cash + p.cost - p.realized = config.capital
      /\ portfolio.cash <= p.cash /\ Ledgered(l, p.cash, p.base) /\ fs \in Seq(EngineFills)
  <2>1. CASE forced
    <3>1. portfolio.base > 0
      BY <1>0, <2>1
    <3>2. /\ ForcedFill \in EngineFills
          /\ Sound(p) /\ p.cash + p.cost - p.realized = config.capital
          /\ portfolio.cash <= p.cash /\ Ledgered(l, p.cash, p.base)
      BY <1>0, <1>1, <2>1, <3>1, ForcedIs
    <3>3. fs \in Seq(EngineFills)
      BY <1>0, <1>2, <2>1, <3>2
    <3> QED BY <3>2, <3>3
  <2>2. CASE ~forced
    <3>1. portfolio.cash \in Int
      BY <1>2, SoundIs DEF Portfolios
    <3>2. Ledgered(ledger, portfolio.cash, portfolio.base)
          /\ portfolio.cash + portfolio.cost - portfolio.realized = config.capital
      BY DEF EngineInv, AccountsOK
    <3> QED BY <1>0, <1>2, <2>2, <3>1, <3>2
  <2> QED BY <1>0, <2>1, <2>2
<1>5. os \in Seq(KeptOrders)
  <2>1. CASE config.cancelAtEnd
    <3>1. PICK S, status : S = Open /\ status = "CANCELLED"
      OBVIOUS
    <3>2. S \in SUBSET (DOMAIN orders) /\ status \in {"CANCELLED", "EXPIRED", "FILLED"}
      BY <3>1 DEF Open
    <3>3. os = Ended(orders, S, status, t)
      BY <1>0, <1>3, <2>1, <3>1
    <3> QED BY <1>2, <1>3, <3>2, <3>3, EndedIs
  <2>2. CASE ~config.cancelAtEnd
    BY <1>0, <1>2, <2>2
  <2> QED BY <2>1, <2>2
<1>6. s.orders \in Seq(KeptOrders)
  <2>1. CASE forced
    <3>1. PICK i, status, no : /\ i = [side |-> "SELL", kind |-> "MARKET",
                                       quantity |-> portfolio.base, tif |-> "IOC",
                                       price |-> NoPrice]
                               /\ status = "FILLED" /\ no = FALSE
      OBVIOUS
    <3>2. PICK u, v, o : /\ u = OpenTime(n) /\ u \in Nat /\ v = index - 2 /\ v \in Int
                         /\ o = NewOrder(i, u, v, status, no)
      BY <1>2, <1>3, TimesAre
    <3>3. o \in KeptOrders /\ o.status = status
      <4>1. portfolio.base \in Nat \ {0}
        <5>1. portfolio.base > 0
          BY <1>0, <2>1
        <5>2. portfolio \in Portfolios
          BY <1>2, SoundIs
        <5> QED BY <5>1, <5>2 DEF Portfolios
      <4>2. /\ i.side \in Sides /\ i.kind \in {"MARKET", "LIMIT", "STOP_MARKET"}
            /\ i.quantity \in Nat \ {0} /\ i.tif \in {"GTC", "IOC", "DAY"}
            /\ i.price \in Nat /\ (i.kind # "MARKET" => i.price > 0)
        BY <3>1, <4>1 DEF Sides, NoPrice
      <4>3. /\ status \in {"OPEN", "REJECTED", "FILLED"} /\ no \in BOOLEAN
            /\ no => i.side = "SELL" /\ i.tif = "GTC"
        BY <3>1
      <4> QED BY <3>2, <4>2, <4>3, NewOrderIs
    <3>4. PICK e : e = [o EXCEPT !.ended = t]
      OBVIOUS
    <3>5. e \in KeptOrders
      <4>1. t # Never /\ t \in Int /\ o.status # "OPEN"
        BY <1>3, <3>1, <3>3 DEF Never
      <4> QED BY <3>3, <3>4, <4>1 DEF KeptOrders
    <3>6. e = ForcedOrder
      BY <1>3, <3>1, <3>2, <3>4 DEF ForcedOrder
    <3>7. PICK d : d = Append(os, ForcedOrder) /\ d \in Seq(KeptOrders)
      <4>1. Append(os, e) \in Seq(KeptOrders)
        BY <1>5, <3>5
      <4> QED BY <3>6, <4>1
    <3>8. s = Protected(d, p, t, n) /\ n \in Int
      BY <1>0, <1>3, <2>1, <3>7
    <3>9. s \in Submissions
      BY <1>2, <1>3, <1>4, <3>7, <3>8, ProtectedIs
    <3> QED BY <3>9 DEF Submissions
  <2>2. CASE ~forced
    BY <1>0, <1>5, <2>2
  <2> QED BY <1>0, <2>1, <2>2
<1>7. phase' \in {"done", "failed"}
  BY <1>1 DEF Proceed
<1>8. EngineTyped'
  <2>1. queue' \subseteq Open' /\ index' \in 0..MaxCandles /\ halted' \in BOOLEAN
    BY <1>1, <1>2 DEF EngineInv, EngineTyped
  <2>2. Sound(portfolio') /\ orders' \in Seq(KeptOrders) /\ fills' \in Seq(EngineFills)
    BY <1>1, <1>4, <1>6
  <2> QED BY <1>1, <1>2, <1>7, <2>1, <2>2 DEF EngineTyped, Sound
<1>9. CurveOK'
  <2>1. /\ equity \in Seq(EquityPoints) /\ Len(equity) = index
        /\ \A i \in 1..index : ValidPoint(equity[i], i - 1)
    BY DEF EngineInv, CurveOK
  <2>2. CASE forced
    <3>1. PICK e : e = PointOf(p, n) /\ e \in EquityPoints /\ ValidPoint(e, n)
      BY <1>2, <1>3, <1>4, PointIs
    <3>2. PICK eq : eq = [equity EXCEPT ![index] = e]
      OBVIOUS
    <3>3. equity' = eq
      BY <1>1, <1>3, <2>2, <3>1, <3>2
    <3>4. index \in 1..Len(equity)
      BY <1>1, <1>2, <2>1
    <3>5. /\ eq \in Seq(EquityPoints) /\ Len(eq) = index /\ eq[index] = e
          /\ \A i \in 1..index : i # index => eq[i] = equity[i]
      BY <2>1, <3>1, <3>2, <3>4
    <3>6. \A i \in 1..index : ValidPoint(eq[i], i - 1)
      BY <1>3, <2>1, <3>1, <3>5
    <3> QED BY <1>1, <1>7, <3>3, <3>5, <3>6 DEF CurveOK, ValidPoint
  <2>3. CASE ~forced
    BY <1>1, <1>7, <2>1, <2>3 DEF CurveOK, ValidPoint
  <2> QED BY <1>0, <2>2, <2>3
<1>10. AccountsOK'
  <2>1. PICK x, y, type : /\ x = p.cash /\ y = p.base /\ x \in Int /\ y \in Int
                          /\ type = "FINAL_STATE" /\ type \in EntryTypes
    BY <1>4, SoundIs DEF Portfolios, EntryTypes
  <2>2. final = Entry(l, type, 0, 0, 0, t, n) /\ Ledgered(l, x, y)
    BY <1>0, <1>3, <1>4, <2>1 DEF MarkEntry
  <2>3. Ledgered(final, x + 0, y + 0)
    <3>1. 0 \in Int /\ t \in Int /\ n \in Int
      BY <1>3
    <3> QED BY <2>1, <2>2, <3>1, EntryIs
  <2>4. x + 0 = p.cash /\ y + 0 = p.base
    BY <2>1
  <2> QED BY <1>1, <1>4, <2>3, <2>4 DEF AccountsOK, Ledgered
<1>11. ReserveIsKept'
  <2>1. PICK a, b : a = Reserve(config) /\ b = config.capital /\ a \in Int /\ b \in Int
    <3>1. Reserve(config) \in Nat /\ config.capital \in Nat
      BY <1>2, EngineConfigIs
    <3> QED BY <3>1
  <2>2. PICK m : m = Min({a, b}) /\ m \in Int
    BY <2>1, MinOfTwo
  <2>3. portfolio.cash >= m
    BY <2>1, <2>2 DEF EngineInv, ReserveIsKept
  <2>4. portfolio.cash \in Int /\ p.cash \in Int
    BY <1>2, <1>4, SoundIs DEF Portfolios
  <2>5. p.cash >= m
    BY <1>4, <2>2, <2>3, <2>4
  <2>6. p.cash >= Min({Reserve(config), config.capital})
    BY <2>1, <2>2, <2>5
  <2> QED BY <1>1, <2>6 DEF ReserveIsKept, Reserve
<1>12. ProtectionOK'
  BY <1>7 DEF ProtectionOK, Running
<1> QED BY <1>8, <1>9, <1>10, <1>11, <1>12 DEF EngineInv

LEMMA EngineStepKeeps == ASSUME EngineInv, [Next]_vars PROVE EngineInv'
<1>1. CASE Next
  <2>1. CASE \E k \in Candles, batch \in Batches : OpenCandle(k, batch)
    BY <2>1, OpenCandleKeeps
  <2>2. CASE ExpireDay
    BY <2>2, ExpireDayKeeps
  <2>3. CASE NotReached
    BY <2>3, NotReachedKeeps
  <2>4. CASE RefuseFill
    BY <2>4, RefuseFillKeeps
  <2>5. CASE \E batch \in Batches : FillOrder(batch)
    BY <2>5, FillOrderKeeps
  <2>6. CASE \E batch \in Batches : CloseCandle(batch)
    BY <2>6, CloseCandleKeeps
  <2>7. CASE EndRun
    BY <2>7, EndRunKeeps
  <2>8. CASE Fail
    BY <2>8, FailKeeps
  <2> QED BY <1>1, <2>1, <2>2, <2>3, <2>4, <2>5, <2>6, <2>7, <2>8 DEF Next
<1>2. CASE UNCHANGED vars
  <2>1. UNCHANGED <<config, phase, index, candle, queue, portfolio, orders, fills, ledger,
                    equity, halted>>
    BY <1>2 DEF vars
  <2>2. EngineTyped'
    BY <2>1 DEF EngineInv, EngineTyped, Sound, Open
  <2>3. CurveOK'
    BY <2>1 DEF EngineInv, CurveOK, ValidPoint
  <2>4. AccountsOK' /\ ReserveIsKept'
    BY <2>1, AccountsStay
  <2>5. ProtectionOK'
    BY <2>1 DEF EngineInv, ProtectionOK, Running, Covered, StopsOf, OpenIn
  <2> QED BY <2>2, <2>3, <2>4, <2>5 DEF EngineInv
<1> QED BY <1>1, <1>2

LEMMA EngineInvariance == Spec => []EngineInv
<1>1. EngineInv /\ [Next]_vars => EngineInv'
  BY EngineStepKeeps
<1> QED BY <1>1, EngineInitIs, PTL DEF Spec

\* DeterministicBacktestEngine.run: between any two fills of a candle, and however the
\* strategy answers them, no constructor raises, cash and cost of the position are the
\* capital and what was realized, the ledger shows the balances, an open position has one
\* stop for all of it, and after the halt nothing else is open.
THEOREM RunsStaySound == Spec => []RunIsSound
<1>1. EngineInv => RunIsSound
  <2> SUFFICES ASSUME EngineInv PROVE RunIsSound
    OBVIOUS
  <2>1. TypeOK
    <3>1. /\ phase \in {"between", "orders", "done", "failed"} /\ index \in 0..MaxCandles
          /\ ValidPortfolio(portfolio) /\ queue \subseteq Open
      BY DEF EngineInv, EngineTyped, Sound
    <3>2. \A i \in DOMAIN fills : ValidFill(fills[i])
      <4>1. \A i \in DOMAIN fills : fills[i] \in EngineFills
        BY RunningIs
      <4> QED BY <4>1 DEF EngineFills
    <3>3. \A i \in DOMAIN orders : orders[i].ended = Never <=> orders[i].status = "OPEN"
      <4>1. \A i \in DOMAIN orders : orders[i] \in KeptOrders
        BY RunningIs
      <4> QED BY <4>1, KeptIs
    <3>4. \A i \in DOMAIN equity : ValidPoint(equity[i], i - 1)
      <4>1. DOMAIN equity = 1..index
        BY DEF EngineInv, CurveOK
      <4> QED BY <4>1 DEF EngineInv, CurveOK
    <3> QED BY <3>1, <3>2, <3>3, <3>4 DEF TypeOK
  <2>2. MoneyIsAccounted
    <3>1. portfolio.cash + portfolio.cost - portfolio.realized = config.capital
          /\ Ledgered(ledger, portfolio.cash, portfolio.base)
      BY DEF EngineInv, AccountsOK
    <3>2. /\ portfolio.cash \in Int /\ portfolio.cost \in Int /\ portfolio.realized \in Int
      BY RunningIs DEF Portfolios
    <3>3. config.capital \in Int
      BY RunningIs, EngineConfigIs
    <3> QED BY <3>1, <3>2, <3>3 DEF MoneyIsAccounted, Ledgered
  <2>3. StopCoversPosition
    <3>1. SUFFICES ASSUME Running, config.stopPct # 0
                   PROVE  IF portfolio.base = 0 THEN StopsOf(orders) = {}
                          ELSE /\ Cardinality(StopsOf(orders)) = 1
                               /\ \A i \in StopsOf(orders) : orders[i].quantity = portfolio.base
      BY DEF StopCoversPosition, StopsOf, OpenIn, Open
    <3>2. Covered(orders, portfolio)
      BY <3>1, RunningIs
    <3>3. CASE portfolio.base = 0
      BY <3>1, <3>2, <3>3 DEF Covered
    <3>4. CASE portfolio.base # 0
      <4>1. PICK i : i \in StopsOf(orders) /\ StopsOf(orders) = {i}
        BY <3>1, <3>2, <3>4 DEF Covered
      <4>2. Cardinality({i}) = 1
        BY FS_Singleton
      <4> QED BY <3>2, <3>4, <4>1, <4>2 DEF Covered
    <3> QED BY <3>3, <3>4
  <2>4. HaltHolds
    <3>1. Running /\ halted => OpenIn(orders) \subseteq StopsOf(orders)
      BY RunningIs
    <3> QED BY <3>1 DEF HaltHolds, StopsOf, OpenIn, Open
  <2> QED BY <2>1, <2>2, <2>3, <2>4 DEF RunIsSound
<1> QED BY <1>1, EngineInvariance, PTL

\* DeterministicRiskManager.validate_fill: several orders admitted against the same cash,
\* filled above the price they were admitted at, never spend the reserve, or more than there
\* was from the start.
THEOREM ReserveStaysKept == Spec => []ReserveIsKept
<1>1. EngineInv => ReserveIsKept
  BY DEF EngineInv
<1> QED BY <1>1, EngineInvariance, PTL

-----------------------------------------------------------------------------
(* The engine: replaying its fills *)

\* The replay of one candle is a table of portfolios, one for each fill.
FillTable(g, p, fs, n, k) ==
    /\ g[0] = p
    /\ \A i \in 1..k : g[i] = IF fs[i].candle = n THEN Applied(g[i - 1], fs[i]) ELSE g[i - 1]

LEMMA ReplayedUnfolds ==
    ASSUME NEW p, NEW fs, NEW n, NEW k \in Nat, k = Len(fs)
    PROVE  \E g : FillTable(g, p, fs, n, k) /\ Replayed(p, fs, n) = g[k]
<1> DEFINE Step(i, q) == IF fs[i].candle = n THEN Applied(q, fs[i]) ELSE q
           Table(m, f) == f = [i \in 0..m |-> IF i = 0 THEN p
                               ELSE IF fs[i].candle = n THEN Applied(f[i - 1], fs[i])
                               ELSE f[i - 1]]
           S == {m \in 0..k : \E f : Table(m, f)}
           g == CHOOSE f : Table(k, f)
<1>1. 0 \in S
  <2> DEFINE f == [i \in 0..0 |-> p]
  <2>1. Table(0, f)
    OBVIOUS
  <2>2. \E h : Table(0, h)
    <3> HIDE DEF f, Table
    <3> QED BY <2>1
  <2> QED BY <2>2
<1>2. ASSUME NEW m \in 0..(k - 1), m \in S PROVE m + 1 \in S
  <2>1. PICK f : Table(m, f)
    BY <1>2
  <2>2. m \in Nat /\ m + 1 \in 0..k
    OBVIOUS
  <2> DEFINE h == [i \in 0..(m + 1) |-> IF i <= m THEN f[i] ELSE Step(m + 1, f[m])]
  <2>3. ASSUME NEW i \in 0..(m + 1)
        PROVE  h[i] = IF i = 0 THEN p
                      ELSE IF fs[i].candle = n THEN Applied(h[i - 1], fs[i]) ELSE h[i - 1]
    <3>1. CASE i = 0
      <4>1. h[0] = f[0] /\ f[0] = p
        BY <2>1, <2>2
      <4> QED BY <3>1, <4>1
    <3>2. CASE i # 0 /\ i <= m
      <4>1. i \in 0..m /\ i - 1 \in 0..m /\ i - 1 <= m /\ i - 1 \in 0..(m + 1)
        BY <2>2, <3>2
      <4>2. h[i] = f[i] /\ h[i - 1] = f[i - 1]
        BY <3>2, <4>1
      <4>3. f[i] = IF fs[i].candle = n THEN Applied(f[i - 1], fs[i]) ELSE f[i - 1]
        BY <2>1, <3>2, <4>1
      <4> QED BY <3>2, <4>2, <4>3
    <3>3. CASE i = m + 1
      <4>1. i # 0 /\ i - 1 = m /\ m \in 0..(m + 1) /\ ~(i <= m)
        BY <2>2, <3>3
      <4>2. h[i] = Step(m + 1, f[m]) /\ h[m] = f[m]
        BY <2>2, <4>1
      <4> QED BY <3>3, <4>1, <4>2
    <3> QED BY <2>2, <3>1, <3>2, <3>3
  <2>4. Table(m + 1, h)
    <3>1. h = [i \in 0..(m + 1) |-> h[i]]
      OBVIOUS
    <3> HIDE DEF h
    <3> QED BY <2>3, <3>1
  <2> HIDE DEF h, Table
  <2> QED BY <2>2, <2>4
<1>3. 0..k \subseteq S
  <2> HIDE DEF S
  <2> QED BY <1>1, <1>2, UpTo
<1>4. Table(k, g)
  <2>1. k \in S
    BY <1>3
  <2> HIDE DEF Table
  <2> QED BY <2>1
<1>5. Replayed(p, fs, n) = g[k]
  <2>1. Replayed(p, fs, n) =
          LET after[i \in 0..k] == IF i = 0 THEN p
                                   ELSE IF fs[i].candle = n THEN Applied(after[i - 1], fs[i])
                                   ELSE after[i - 1]
          IN  after[k]
    BY DEF Replayed
  <2> QED BY <2>1
<1> HIDE DEF g
<1>6. g[0] = p
  BY <1>4
<1>7. \A i \in 1..k : g[i] = IF fs[i].candle = n THEN Applied(g[i - 1], fs[i]) ELSE g[i - 1]
  BY <1>4
<1>8. FillTable(g, p, fs, n, k)
  BY <1>6, <1>7 DEF FillTable
<1> QED BY <1>5, <1>8

\* One more fill: it is applied if it is the candle's.
LEMMA ReplayedAppend ==
    ASSUME NEW p, NEW fs \in Seq(EngineFills), NEW f \in EngineFills, NEW n
    PROVE  Replayed(p, Append(fs, f), n) =
             IF f.candle = n THEN Applied(Replayed(p, fs, n), f) ELSE Replayed(p, fs, n)
<1>1. PICK gs : gs = Append(fs, f)
  OBVIOUS
<1>2. PICK k \in Nat : k = Len(fs)
  OBVIOUS
<1>3. PICK m \in Nat : m = Len(gs)
  BY <1>1
<1>4. m = k + 1 /\ gs[m] = f /\ \A i \in 1..k : gs[i] = fs[i]
  BY <1>1, <1>2, <1>3
<1>5. PICK g : FillTable(g, p, fs, n, k) /\ Replayed(p, fs, n) = g[k]
  BY <1>2, ReplayedUnfolds
<1>6. PICK h : FillTable(h, p, gs, n, m) /\ Replayed(p, gs, n) = h[m]
  BY <1>3, ReplayedUnfolds
<1> DEFINE S == {i \in 0..k : h[i] = g[i]}
<1>7. 0..k \subseteq S
  <2>1. 0 \in S
    BY <1>5, <1>6 DEF FillTable
  <2>2. ASSUME NEW i \in 0..(k - 1), i \in S PROVE i + 1 \in S
    <3>1. i + 1 \in 1..k /\ i + 1 \in 1..m /\ (i + 1) - 1 = i /\ i + 1 \in 0..k
      BY <1>4
    <3>2. h[i] = g[i] /\ gs[i + 1] = fs[i + 1]
      BY <1>4, <2>2, <3>1
    <3>3. g[i + 1] = IF fs[i + 1].candle = n THEN Applied(g[i], fs[i + 1]) ELSE g[i]
      BY <1>5, <3>1 DEF FillTable
    <3>4. h[i + 1] = IF gs[i + 1].candle = n THEN Applied(h[i], gs[i + 1]) ELSE h[i]
      BY <1>6, <3>1 DEF FillTable
    <3> QED BY <3>1, <3>2, <3>3, <3>4
  <2> HIDE DEF S
  <2> QED BY <2>1, <2>2, UpTo
<1>8. h[k] = g[k] /\ m \in 1..m /\ m - 1 = k
  BY <1>4, <1>7
<1>9. h[m] = IF f.candle = n THEN Applied(h[k], f) ELSE h[k]
  BY <1>4, <1>6, <1>8 DEF FillTable
<1> QED BY <1>1, <1>5, <1>6, <1>8, <1>9

\* A candle without fills changes nothing.
LEMMA ReplayedNone ==
    ASSUME NEW p, NEW fs \in Seq(EngineFills), NEW n, \A i \in DOMAIN fs : fs[i].candle # n
    PROVE  Replayed(p, fs, n) = p
<1>1. PICK k \in Nat : k = Len(fs) /\ DOMAIN fs = 1..k
  OBVIOUS
<1>2. PICK g : FillTable(g, p, fs, n, k) /\ Replayed(p, fs, n) = g[k]
  BY <1>1, ReplayedUnfolds
<1> DEFINE S == {i \in 0..k : g[i] = p}
<1>3. 0..k \subseteq S
  <2>1. 0 \in S
    BY <1>2 DEF FillTable
  <2>2. ASSUME NEW m \in 0..(k - 1), m \in S PROVE m + 1 \in S
    <3>1. m + 1 \in 1..k /\ (m + 1) - 1 = m /\ m + 1 \in 0..k
      BY <1>1
    <3>2. g[m + 1] = g[m]
      BY <1>1, <1>2, <3>1 DEF FillTable
    <3> QED BY <2>2, <3>1, <3>2
  <2> HIDE DEF S
  <2> QED BY <2>1, <2>2, UpTo
<1> QED BY <1>2, <1>3

\* The replay of a run is a table of portfolios, one for each candle.
LEMMA ReplayedToUnfolds ==
    ASSUME NEW fs, NEW eq, NEW capital, NEW k \in Nat
    PROVE  \E g : /\ g[0] = Flat(capital)
                  /\ \A i \in 1..k :
                       g[i] = Marked(Replayed(g[i - 1], fs, eq[i].candle), eq[i].close)
                  /\ ReplayedTo(fs, eq, capital, k) = g[k]
<1> DEFINE Step(i, q) == Marked(Replayed(q, fs, eq[i].candle), eq[i].close)
           Table(m, f) == f = [i \in 0..m |-> IF i = 0 THEN Flat(capital)
                               ELSE Marked(Replayed(f[i - 1], fs, eq[i].candle), eq[i].close)]
           S == {m \in 0..k : \E f : Table(m, f)}
           g == CHOOSE f : Table(k, f)
<1>1. 0 \in S
  <2> DEFINE f == [i \in 0..0 |-> Flat(capital)]
  <2>1. Table(0, f)
    OBVIOUS
  <2>2. \E h : Table(0, h)
    <3> HIDE DEF f, Table
    <3> QED BY <2>1
  <2> QED BY <2>2
<1>2. ASSUME NEW m \in 0..(k - 1), m \in S PROVE m + 1 \in S
  <2>1. PICK f : Table(m, f)
    BY <1>2
  <2>2. m \in Nat /\ m + 1 \in 0..k
    OBVIOUS
  <2> DEFINE h == [i \in 0..(m + 1) |-> IF i <= m THEN f[i] ELSE Step(m + 1, f[m])]
  <2>3. ASSUME NEW i \in 0..(m + 1)
        PROVE  h[i] = IF i = 0 THEN Flat(capital) ELSE Step(i, h[i - 1])
    <3>1. CASE i = 0
      <4>1. h[0] = f[0] /\ f[0] = Flat(capital)
        BY <2>1, <2>2
      <4> QED BY <3>1, <4>1
    <3>2. CASE i # 0 /\ i <= m
      <4>1. i \in 0..m /\ i - 1 \in 0..m /\ i - 1 <= m /\ i - 1 \in 0..(m + 1)
        BY <2>2, <3>2
      <4>2. h[i] = f[i] /\ h[i - 1] = f[i - 1]
        BY <3>2, <4>1
      <4>3. f[i] = Step(i, f[i - 1])
        BY <2>1, <3>2, <4>1
      <4> QED BY <3>2, <4>2, <4>3
    <3>3. CASE i = m + 1
      <4>1. i # 0 /\ i - 1 = m /\ m \in 0..(m + 1) /\ ~(i <= m)
        BY <2>2, <3>3
      <4>2. h[i] = Step(m + 1, f[m]) /\ h[m] = f[m]
        BY <2>2, <4>1
      <4> QED BY <3>3, <4>1, <4>2
    <3> QED BY <2>2, <3>1, <3>2, <3>3
  <2>4. Table(m + 1, h)
    <3>1. h = [i \in 0..(m + 1) |-> h[i]]
      OBVIOUS
    <3> HIDE DEF h
    <3> QED BY <2>3, <3>1
  <2> HIDE DEF h, Table
  <2> QED BY <2>2, <2>4
<1>3. 0..k \subseteq S
  <2> HIDE DEF S
  <2> QED BY <1>1, <1>2, UpTo
<1>4. Table(k, g)
  <2>1. k \in S
    BY <1>3
  <2> HIDE DEF Table
  <2> QED BY <2>1
<1>5. ReplayedTo(fs, eq, capital, k) = g[k]
  BY DEF ReplayedTo
<1> HIDE DEF g
<1>6. g[0] = Flat(capital)
  BY <1>4
<1>7. \A i \in 1..k : g[i] = Marked(Replayed(g[i - 1], fs, eq[i].candle), eq[i].close)
  BY <1>4
<1> QED BY <1>5, <1>6, <1>7

\* What was replayed up to a candle depends on the points and fills up to it only.
SameCloses(eq, eq2, k) ==
    \A i \in 1..k : eq2[i].candle = eq[i].candle /\ eq2[i].close = eq[i].close
SameReplay(fs, gs, eq, k) ==
    \A q : \A i \in 1..k : Replayed(q, gs, eq[i].candle) = Replayed(q, fs, eq[i].candle)
LEMMA ReplayedToSame ==
    ASSUME NEW fs, NEW eq, NEW gs, NEW eq2, NEW capital, NEW k \in Nat,
           SameCloses(eq, eq2, k), SameReplay(fs, gs, eq, k)
    PROVE  ReplayedTo(gs, eq2, capital, k) = ReplayedTo(fs, eq, capital, k)
<1>1. PICK g : /\ g[0] = Flat(capital)
               /\ \A i \in 1..k :
                    g[i] = Marked(Replayed(g[i - 1], fs, eq[i].candle), eq[i].close)
               /\ ReplayedTo(fs, eq, capital, k) = g[k]
  BY ReplayedToUnfolds
<1>2. PICK h : /\ h[0] = Flat(capital)
               /\ \A i \in 1..k :
                    h[i] = Marked(Replayed(h[i - 1], gs, eq2[i].candle), eq2[i].close)
               /\ ReplayedTo(gs, eq2, capital, k) = h[k]
  BY ReplayedToUnfolds
<1> DEFINE S == {i \in 0..k : h[i] = g[i]}
<1>3. 0..k \subseteq S
  <2>1. 0 \in S
    BY <1>1, <1>2
  <2>2. ASSUME NEW m \in 0..(k - 1), m \in S PROVE m + 1 \in S
    <3>1. m + 1 \in 1..k /\ (m + 1) - 1 = m /\ m + 1 \in 0..k
      OBVIOUS
    <3>2. h[m] = g[m]
      BY <2>2
    <3>3. g[m + 1] = Marked(Replayed(g[m], fs, eq[m + 1].candle), eq[m + 1].close)
      BY <1>1, <3>1
    <3>4. h[m + 1] = Marked(Replayed(h[m], gs, eq2[m + 1].candle), eq2[m + 1].close)
      BY <1>2, <3>1
    <3>5. /\ eq2[m + 1].candle = eq[m + 1].candle /\ eq2[m + 1].close = eq[m + 1].close
          /\ Replayed(g[m], gs, eq[m + 1].candle) = Replayed(g[m], fs, eq[m + 1].candle)
      BY <3>1 DEF SameCloses, SameReplay
    <3> QED BY <3>1, <3>2, <3>3, <3>4, <3>5
  <2> HIDE DEF S
  <2> QED BY <2>1, <2>2, UpTo
<1> QED BY <1>1, <1>2, <1>3

LEMMA ReplayedToNext ==
    ASSUME NEW fs, NEW eq, NEW capital, NEW k \in Nat
    PROVE  /\ ReplayedTo(fs, eq, capital, 0) = Flat(capital)
           /\ ReplayedTo(fs, eq, capital, k + 1) =
                Marked(Replayed(ReplayedTo(fs, eq, capital, k), fs, eq[k + 1].candle),
                       eq[k + 1].close)
<1>1. PICK g : /\ g[0] = Flat(capital)
               /\ \A i \in 1..k :
                    g[i] = Marked(Replayed(g[i - 1], fs, eq[i].candle), eq[i].close)
               /\ ReplayedTo(fs, eq, capital, k) = g[k]
  BY ReplayedToUnfolds
<1>2. PICK h : /\ h[0] = Flat(capital)
               /\ \A i \in 1..(k + 1) :
                    h[i] = Marked(Replayed(h[i - 1], fs, eq[i].candle), eq[i].close)
               /\ ReplayedTo(fs, eq, capital, k + 1) = h[k + 1]
  <2>1. k + 1 \in Nat
    OBVIOUS
  <2> QED BY <2>1, ReplayedToUnfolds
<1> DEFINE S == {i \in 0..k : h[i] = g[i]}
<1>3. 0..k \subseteq S
  <2>1. 0 \in S
    BY <1>1, <1>2
  <2>2. ASSUME NEW m \in 0..(k - 1), m \in S PROVE m + 1 \in S
    <3>1. m + 1 \in 1..k /\ m + 1 \in 1..(k + 1) /\ (m + 1) - 1 = m /\ m + 1 \in 0..k
      OBVIOUS
    <3>2. h[m] = g[m]
      BY <2>2
    <3>3. g[m + 1] = Marked(Replayed(g[m], fs, eq[m + 1].candle), eq[m + 1].close)
      BY <1>1, <3>1
    <3>4. h[m + 1] = Marked(Replayed(h[m], fs, eq[m + 1].candle), eq[m + 1].close)
      BY <1>2, <3>1
    <3> QED BY <3>1, <3>2, <3>3, <3>4
  <2> HIDE DEF S
  <2> QED BY <2>1, <2>2, UpTo
<1>4. h[k] = g[k] /\ k + 1 \in 1..(k + 1) /\ (k + 1) - 1 = k
  BY <1>3
<1>5. ReplayedTo(fs, eq, capital, 0) = Flat(capital)
  <2>1. 0 \in Nat
    OBVIOUS
  <2> QED BY <2>1, ReplayedToUnfolds
<1> QED BY <1>1, <1>2, <1>4, <1>5

-----------------------------------------------------------------------------
(* The engine: what the record of a run says, candle by candle *)

\* An order placed by time t, in candle n at the latest; what has ended ended by t + 1.
DatedOrder(o, t, n) ==
    /\ o.at \in 0..t /\ o.created \in -1..n /\ o.eligible = o.created + 1
    /\ o.created = -1 => o.at = 0
    /\ o.ended # Never => o.ended \in o.at..(t + 1)
DatedOrders(os, t, n) == \A i \in DOMAIN os : DatedOrder(os[i], t, n)
DatedFills(fs, t, n) == \A k \in DOMAIN fs : fs[k].at \in 0..t /\ fs[k].candle \in 0..n

\* The fills and the FILLED orders are one to one.
FillOfOrder(o, f) ==
    /\ o.status = "FILLED" /\ o.ended = f.at
    /\ f.side = o.side /\ f.quantity = o.quantity /\ f.candle >= o.eligible
FilledOnce(os, fs) ==
    /\ \A k \in DOMAIN fs : fs[k].order \in DOMAIN os /\ FillOfOrder(os[fs[k].order], fs[k])
    /\ \A j, k \in DOMAIN fs : fs[j].order = fs[k].order => j = k
    /\ \A i \in DOMAIN os : os[i].status = "FILLED" => \E k \in DOMAIN fs : fs[k].order = i

\* The ledger starts with the capital and its balances add up.
Adds(e, q, b) == /\ e.quote = q + e.dquote /\ e.base = b + e.dbase
                 /\ e.quote >= 0 /\ e.base >= 0
LedgerAdds(l, t, n) ==
    /\ Adds(l[1], 0, 0) /\ l[1].type = "INITIAL_CAPITAL" /\ l[1].at = 0 /\ l[1].candle = -1
    /\ \A i \in 2..Len(l) : /\ Adds(l[i], l[i - 1].quote, l[i - 1].base)
                            /\ l[i].at \in 0..t /\ l[i].candle \in 0..n

RecordOf(os, fs, l, t, n) == /\ DatedOrders(os, t, n) /\ DatedFills(fs, t, n)
                             /\ FilledOnce(os, fs) /\ LedgerAdds(l, t, n)

\* What the strategy and the stop add is dated as well.
LEMMA GrowsDated ==
    ASSUME NEW os \in Seq(KeptOrders), NEW d \in Seq(KeptOrders), NEW u \in Int, NEW m \in Int,
           NEW t \in Nat, NEW c \in Int, NEW n \in -1..c, u <= t, m <= c, n = -1 => t = 0,
           DatedOrders(os, u, m), Grows(os, d, t, n)
    PROVE  DatedOrders(d, t, c)
<1>1. SUFFICES ASSUME NEW i \in DOMAIN d PROVE DatedOrder(d[i], t, c)
  BY DEF DatedOrders
<1>2. CASE i \in DOMAIN os
  <2>1. DatedOrder(os[i], u, m) /\ SameOrder(os[i], d[i]) /\ Settles(os[i], d[i], t)
    BY <1>2 DEF DatedOrders, Grows
  <2>2. PICK o, e : o = os[i] /\ e = d[i]
    OBVIOUS
  <2>3. /\ o.at \in 0..u /\ o.created \in -1..m /\ o.eligible = o.created + 1
        /\ o.created = -1 => o.at = 0
        /\ o.ended # Never => o.ended \in o.at..(u + 1)
        /\ e.at = o.at /\ e.created = o.created /\ e.eligible = o.eligible
        /\ e.ended = o.ended \/ e.ended = t
    BY <2>1, <2>2 DEF DatedOrder, SameOrder, Settles
  <2>4. e.at \in 0..t /\ e.created \in -1..c
    BY <2>3
  <2>5. e.ended # Never => e.ended \in e.at..(t + 1)
    BY <2>3
  <2> QED BY <2>2, <2>3, <2>4, <2>5 DEF DatedOrder
<1>3. CASE i \notin DOMAIN os
  <2>1. i > Len(os)
    <3>1. i \in 1..Len(d) /\ DOMAIN os = 1..Len(os) /\ Len(os) \in Nat
      OBVIOUS
    <3> QED BY <1>3, <3>1
  <2>2. PlacedIn(d[i], t, n)
    BY <2>1 DEF Grows
  <2> QED BY <2>2 DEF PlacedIn, DatedOrder
<1> QED BY <1>2, <1>3

LEMMA DatedLater ==
    ASSUME NEW os, NEW u \in Int, NEW m \in Int, NEW t \in Int, NEW c \in Int, u <= t, m <= c,
           DatedOrders(os, u, m)
    PROVE  DatedOrders(os, t, c)
<1>1. 0..u \subseteq 0..t /\ -1..m \subseteq -1..c
  OBVIOUS
<1>2. ASSUME NEW o, DatedOrder(o, u, m) PROVE DatedOrder(o, t, c)
  <2>1. o.at \in Int /\ (o.ended # Never => o.ended \in o.at..(t + 1))
    BY <1>2 DEF DatedOrder
  <2> QED BY <1>1, <1>2, <2>1 DEF DatedOrder
<1> QED BY <1>2 DEF DatedOrders

LEMMA AddsLater ==
    ASSUME NEW fs, NEW l, NEW u \in Int, NEW m \in Int, NEW t \in Int, NEW c \in Int,
           u <= t, m <= c, DatedFills(fs, u, m), LedgerAdds(l, u, m)
    PROVE  DatedFills(fs, t, c) /\ LedgerAdds(l, t, c)
<1>1. 0..u \subseteq 0..t /\ 0..m \subseteq 0..c
  OBVIOUS
<1>2. DatedFills(fs, t, c)
  BY <1>1 DEF DatedFills
<1>3. LedgerAdds(l, t, c)
  BY <1>1 DEF LedgerAdds
<1> QED BY <1>2, <1>3

\* Orders that end now, or at the close of the candle.
LEMMA EndedDated ==
    ASSUME NEW os \in Seq(KeptOrders), NEW S \in SUBSET (DOMAIN os), NEW status,
           NEW t \in Nat, NEW u \in Int, NEW m \in Int, u <= t, t <= u + 1, DatedOrders(os, u, m)
    PROVE  DatedOrders(Ended(os, S, status, t), u, m)
<1>1. PICK d : d = Ended(os, S, status, t)
  OBVIOUS
<1>2. PICK len \in Nat : len = Len(os) /\ DOMAIN os = 1..len
  OBVIOUS
<1>3. d = [i \in 1..len |-> IF i \in S THEN [os[i] EXCEPT !.status = status, !.ended = t]
                            ELSE os[i]]
  BY <1>1, <1>2 DEF Ended
<1>4. ASSUME NEW i \in 1..len PROVE DatedOrder(d[i], u, m)
  <2>1. os[i] \in KeptOrders /\ DatedOrder(os[i], u, m)
    BY <1>2 DEF DatedOrders
  <2>2. CASE i \in S
    <3>1. d[i] = [os[i] EXCEPT !.status = status, !.ended = t]
      BY <1>3, <2>2
    <3>2. /\ d[i].at = os[i].at /\ d[i].created = os[i].created
          /\ d[i].eligible = os[i].eligible /\ d[i].ended = t
      BY <2>1, <3>1 DEF KeptOrders
    <3>3. t \in d[i].at..(u + 1)
      <4>1. os[i].at \in 0..u
        BY <2>1 DEF DatedOrder
      <4> QED BY <3>2, <4>1
    <3> QED BY <2>1, <3>2, <3>3 DEF DatedOrder
  <2>3. CASE i \notin S
    BY <1>3, <2>1, <2>3
  <2> QED BY <2>2, <2>3
<1>5. DOMAIN d = 1..len
  BY <1>3
<1> QED BY <1>1, <1>4, <1>5 DEF DatedOrders

\* Nothing but a fill makes or unmakes a FILLED order.
LEMMA GrowsFilled ==
    ASSUME NEW os \in Seq(KeptOrders), NEW d \in Seq(KeptOrders), NEW fs, NEW t, NEW n,
           FilledOnce(os, fs), Grows(os, d, t, n)
    PROVE  FilledOnce(d, fs)
<1>1. /\ Len(os) \in Nat /\ Len(d) \in Nat /\ Len(os) <= Len(d)
      /\ DOMAIN os = 1..Len(os) /\ DOMAIN d = 1..Len(d)
  BY DEF Grows
<1>2. \A i \in DOMAIN os : /\ i \in DOMAIN d
                           /\ SameOrder(os[i], d[i]) /\ Settles(os[i], d[i], t)
  BY <1>1 DEF Grows
<1>3. ASSUME NEW k \in DOMAIN fs
      PROVE  fs[k].order \in DOMAIN d /\ FillOfOrder(d[fs[k].order], fs[k])
  <2>1. fs[k].order \in DOMAIN os /\ FillOfOrder(os[fs[k].order], fs[k])
    BY DEF FilledOnce
  <2>2. PICK o, e : o = os[fs[k].order] /\ e = d[fs[k].order]
    OBVIOUS
  <2>3. FillOfOrder(o, fs[k]) /\ SameOrder(o, e) /\ Settles(o, e, t)
    BY <1>2, <2>1, <2>2
  <2>4. FillOfOrder(e, fs[k])
    BY <2>3 DEF FillOfOrder, SameOrder, Settles
  <2> QED BY <1>2, <2>1, <2>2, <2>4
<1>4. ASSUME NEW i \in DOMAIN d, d[i].status = "FILLED"
      PROVE  \E k \in DOMAIN fs : fs[k].order = i
  <2>1. i \in DOMAIN os
    <3>1. SUFFICES ASSUME i > Len(os) PROVE FALSE
      BY <1>1
    <3>2. PlacedIn(d[i], t, n)
      BY <3>1 DEF Grows
    <3> QED BY <1>4, <3>2 DEF PlacedIn
  <2>2. Settles(os[i], d[i], t)
    BY <1>2, <2>1
  <2>3. os[i].status = "FILLED"
    BY <1>4, <2>2 DEF Settles
  <2> QED BY <2>1, <2>3 DEF FilledOnce
<1> QED BY <1>3, <1>4 DEF FilledOnce

\* A fill fills one order more.
LEMMA OneMoreFill ==
    ASSUME NEW os \in Seq(KeptOrders), NEW d \in Seq(KeptOrders), NEW fs \in Seq(EngineFills),
           NEW f \in EngineFills, FilledOnce(os, fs), f.order \in DOMAIN d,
           f.order \in DOMAIN os => os[f.order].status # "FILLED",
           FillOfOrder(d[f.order], f),
           \A i \in DOMAIN os : i \in DOMAIN d /\ (i # f.order => d[i] = os[i]),
           \A i \in DOMAIN d : i \in DOMAIN os \/ i = f.order
    PROVE  FilledOnce(d, Append(fs, f))
<1>1. PICK gs : gs = Append(fs, f)
  OBVIOUS
<1>2. PICK k \in Nat : k = Len(fs) /\ DOMAIN fs = 1..k
  OBVIOUS
<1>3. /\ DOMAIN gs = 1..(k + 1) /\ gs[k + 1] = f
      /\ \A i \in 1..k : gs[i] = fs[i]
  BY <1>1, <1>2
<1>4. \A i \in DOMAIN gs : i \in 1..k \/ i = k + 1
  BY <1>3
<1>5. \A i \in 1..k : /\ fs[i].order \in DOMAIN os /\ FillOfOrder(os[fs[i].order], fs[i])
                      /\ fs[i].order # f.order
  <2>1. SUFFICES ASSUME NEW i \in 1..k
                 PROVE  /\ fs[i].order \in DOMAIN os /\ FillOfOrder(os[fs[i].order], fs[i])
                        /\ fs[i].order # f.order
    OBVIOUS
  <2>2. fs[i].order \in DOMAIN os /\ FillOfOrder(os[fs[i].order], fs[i])
    BY <1>2 DEF FilledOnce
  <2>3. os[fs[i].order].status = "FILLED"
    BY <2>2 DEF FillOfOrder
  <2> QED BY <2>2, <2>3
<1>6. ASSUME NEW i \in DOMAIN gs
      PROVE  gs[i].order \in DOMAIN d /\ FillOfOrder(d[gs[i].order], gs[i])
  <2>1. CASE i \in 1..k
    BY <1>3, <1>5, <2>1
  <2>2. CASE i = k + 1
    BY <1>3, <2>2
  <2> QED BY <1>4, <2>1, <2>2
<1>7. ASSUME NEW i \in DOMAIN gs, NEW j \in DOMAIN gs, gs[i].order = gs[j].order
      PROVE  i = j
  <2>1. \A a \in 1..k : gs[a].order = fs[a].order /\ gs[a].order # f.order
    BY <1>3, <1>5
  <2>2. CASE i \in 1..k /\ j \in 1..k
    BY <1>2, <1>7, <2>1, <2>2 DEF FilledOnce
  <2>3. CASE i = k + 1 \/ j = k + 1
    BY <1>3, <1>4, <1>7, <2>1, <2>3
  <2> QED BY <1>4, <2>2, <2>3
<1>8. ASSUME NEW i \in DOMAIN d, d[i].status = "FILLED"
      PROVE  \E a \in DOMAIN gs : gs[a].order = i
  <2>1. CASE i = f.order
    <3>1. k + 1 \in DOMAIN gs
      BY <1>3
    <3> QED BY <1>3, <2>1, <3>1
  <2>2. CASE i # f.order
    <3>1. i \in DOMAIN os /\ os[i].status = "FILLED"
      BY <1>8, <2>2
    <3>2. PICK a \in DOMAIN fs : fs[a].order = i
      BY <3>1 DEF FilledOnce
    <3>3. a \in DOMAIN gs /\ gs[a] = fs[a]
      BY <1>2, <1>3
    <3> QED BY <3>2, <3>3
  <2> QED BY <2>1, <2>2
<1>9. FilledOnce(d, gs)
  BY <1>6, <1>7, <1>8 DEF FilledOnce
<1> QED BY <1>1, <1>9

\* One entry more adds up when the balances stay.
LEMMA EntryAdds ==
    ASSUME NEW l, NEW x \in Int, NEW y \in Int, Ledgered(l, x, y), NEW type \in EntryTypes,
           NEW dquote \in Int, NEW dbase \in Int, NEW realized \in Int, NEW t \in Int, NEW n \in Int,
           NEW u \in Int, NEW m \in Int, t \in 0..u, n \in 0..m,
           x + dquote >= 0, y + dbase >= 0, LedgerAdds(l, u, m)
    PROVE  LedgerAdds(Entry(l, type, dquote, dbase, realized, t, n), u, m)
<1>1. l \in Seq(Entries) /\ l # <<>> /\ Last(l).quote = x /\ Last(l).base = y
  BY DEF Ledgered
<1>2. PICK e : e = [type |-> type, dquote |-> dquote, dbase |-> dbase, realized |-> realized,
                    at |-> t, candle |-> n, quote |-> x + dquote, base |-> y + dbase]
  OBVIOUS
<1>3. Entry(l, type, dquote, dbase, realized, t, n) = Append(l, e)
  BY <1>1, <1>2 DEF Entry
<1>4. Adds(e, x, y) /\ e.at \in 0..u /\ e.candle \in 0..m
  BY <1>2 DEF Adds
<1>5. PICK len \in Nat : len = Len(l) /\ len > 0
  BY <1>1
<1>6. l[len].quote = x /\ l[len].base = y
  BY <1>1, <1>5 DEF Last
<1>7. PICK g : g = Append(l, e)
  OBVIOUS
<1>8. Len(g) = len + 1 /\ g[len + 1] = e /\ \A i \in 1..len : g[i] = l[i]
  BY <1>1, <1>5, <1>7
<1>9. g[1] = l[1]
  BY <1>5, <1>8
<1>10. ASSUME NEW i \in 2..(len + 1)
       PROVE  Adds(g[i], g[i - 1].quote, g[i - 1].base) /\ g[i].at \in 0..u /\ g[i].candle \in 0..m
  <2>1. CASE i = len + 1
    <3>1. i - 1 = len /\ len \in 1..len
      BY <1>5, <2>1
    <3>2. g[i] = e /\ g[i - 1] = l[len]
      BY <1>8, <2>1, <3>1
    <3> QED BY <1>4, <1>6, <3>2
  <2>2. CASE i # len + 1
    <3>1. i \in 2..len /\ i \in 1..len /\ i - 1 \in 1..len
      BY <2>2
    <3>2. g[i] = l[i] /\ g[i - 1] = l[i - 1]
      BY <1>8, <3>1
    <3> QED BY <1>5, <3>1, <3>2 DEF LedgerAdds
  <2> QED BY <2>1, <2>2
<1>11. LedgerAdds(g, u, m)
  BY <1>8, <1>9, <1>10 DEF LedgerAdds
<1> QED BY <1>3, <1>7, <1>11

\* The entries of a fill the portfolio can pay.
LEMMA FillEntriesAdd ==
    ASSUME NEW l, NEW x \in Nat, NEW y \in Nat, Ledgered(l, x, y), NEW f \in EngineFills,
           NEW realized \in Int, NEW u \in Int, NEW m \in Int,
           f.at \in 0..u, f.candle \in 0..m, f.fee <= f.notional,
           IF f.side = "BUY" THEN f.notional + f.fee <= x ELSE f.quantity <= y,
           LedgerAdds(l, u, m)
    PROVE  LedgerAdds(FillEntries(l, f, realized), u, m)
<1>0. /\ f.side \in {"BUY", "SELL"} /\ f.notional \in Nat /\ f.quantity \in Nat /\ f.fee \in Nat
      /\ f.at \in Int /\ f.candle \in Int
  BY DEF EngineFills, Sides
<1>1. PICK v, w : /\ v = (IF f.side = "BUY" THEN -f.notional ELSE f.notional)
                  /\ w = (IF f.side = "BUY" THEN f.quantity ELSE -f.quantity)
                  /\ v \in Int /\ w \in Int
  BY <1>0
<1>2. PICK gross : gross = Entry(l, f.side, v, w, 0, f.at, f.candle)
  OBVIOUS
<1>3. x + v >= 0 /\ y + w >= 0 /\ x + v - f.fee >= 0
  BY <1>0, <1>1
<1>4. Ledgered(gross, x + v, y + w) /\ LedgerAdds(gross, u, m)
  <2>1. f.side \in EntryTypes /\ 0 \in Int
    BY <1>0 DEF EntryTypes
  <2> QED BY <1>0, <1>1, <1>2, <1>3, <2>1, EntryIs, EntryAdds
<1>5. PICK a, b, d : a = x + v /\ b = y + w /\ d = -f.fee /\ a \in Int /\ b \in Int /\ d \in Int
  BY <1>0, <1>1
<1>6. a >= 0 /\ b >= 0 /\ a + d >= 0 /\ a + d \in Int
  BY <1>0, <1>1, <1>3, <1>5
<1>7. PICK paid : paid = (IF f.fee = 0 THEN gross ELSE Entry(gross, "FEE", d, 0, 0, f.at, f.candle))
  OBVIOUS
<1>8. Ledgered(paid, a + d, b) /\ LedgerAdds(paid, u, m)
  <2>1. CASE f.fee = 0
    <3>1. a + d = a
      BY <1>5, <2>1
    <3> QED BY <1>4, <1>5, <1>7, <2>1, <3>1
  <2>2. CASE f.fee # 0
    <3>1. "FEE" \in EntryTypes /\ 0 \in Int /\ b + 0 = b
      BY <1>5 DEF EntryTypes
    <3>2. Ledgered(gross, a, b) /\ b + 0 >= 0
      BY <1>4, <1>5, <1>6, <3>1
    <3>3. Ledgered(Entry(gross, "FEE", d, 0, 0, f.at, f.candle), a + d, b + 0)
      BY <1>0, <1>5, <3>1, <3>2, EntryIs
    <3>4. LedgerAdds(Entry(gross, "FEE", d, 0, 0, f.at, f.candle), u, m)
      BY <1>0, <1>4, <1>5, <1>6, <3>1, <3>2, EntryAdds
    <3> QED BY <1>7, <2>2, <3>1, <3>3, <3>4
  <2> QED BY <2>1, <2>2
<1>9. PICK e : e = a + d /\ e \in Int /\ e >= 0
  BY <1>6
<1>10. PICK all : all = (IF realized = 0 THEN paid
                         ELSE Entry(paid, "REALIZED_PNL", 0, 0, realized, f.at, f.candle))
  OBVIOUS
<1>11. LedgerAdds(all, u, m)
  <2>1. "REALIZED_PNL" \in EntryTypes /\ 0 \in Int /\ e + 0 >= 0 /\ b + 0 >= 0
    BY <1>5, <1>6, <1>9 DEF EntryTypes
  <2>2. Ledgered(paid, e, b)
    BY <1>8, <1>9
  <2>3. LedgerAdds(Entry(paid, "REALIZED_PNL", 0, 0, realized, f.at, f.candle), u, m)
    BY <1>0, <1>5, <1>8, <1>9, <2>1, <2>2, EntryAdds
  <2> QED BY <1>8, <1>10, <2>3
<1>12. all = FillEntries(l, f, realized)
  <2>1. f.side = "BUY" => -1 * f.notional = v /\ 1 * f.quantity = w
    BY <1>0, <1>1
  <2>2. f.side # "BUY" => -((-1) * f.notional) = v /\ (-1) * f.quantity = w
    BY <1>0, <1>1
  <2>3. CASE f.side = "BUY"
    BY <1>2, <1>5, <1>7, <1>10, <2>1, <2>3 DEF FillEntries
  <2>4. CASE f.side # "BUY"
    BY <1>2, <1>5, <1>7, <1>10, <2>2, <2>4 DEF FillEntries
  <2> QED BY <2>3, <2>4
<1> QED BY <1>11, <1>12

-----------------------------------------------------------------------------
(* The engine: its equity curve against the replay *)

\* What is replayed of the candles before n.
At(fs, eq, n) == ReplayedTo(fs, eq, config.capital, n)
SamePoint(p, e) == p.cash = e.cash /\ p.base = e.base /\ p.equity = e.equity /\ p.peak = e.peak
Numbered(eq) == \A i \in DOMAIN eq : eq[i].candle = i - 1
CurveFits(fs, eq) == \A n \in DOMAIN eq : SamePoint(At(fs, eq, n), eq[n])

\* A fill of a later candle changes nothing.
LEMMA FillKeepsCurve ==
    ASSUME NEW fs \in Seq(EngineFills), NEW f \in EngineFills, NEW eq \in Seq(EquityPoints),
           Numbered(eq), NEW n \in Nat, n <= Len(eq), n <= f.candle
    PROVE  At(Append(fs, f), eq, n) = At(fs, eq, n)
<1>1. PICK gs : gs = Append(fs, f)
  OBVIOUS
<1>2. SameReplay(fs, gs, eq, n)
  <2> SUFFICES ASSUME NEW q, NEW i \in 1..n
               PROVE  Replayed(q, gs, eq[i].candle) = Replayed(q, fs, eq[i].candle)
    BY DEF SameReplay
  <2>1. i \in DOMAIN eq /\ f.candle \in Int
    BY DEF EngineFills
  <2>2. eq[i].candle = i - 1
    BY <2>1 DEF Numbered
  <2>3. f.candle # eq[i].candle
    BY <2>1, <2>2
  <2> QED BY <1>1, <2>3, ReplayedAppend
<1>3. ReplayedTo(gs, eq, config.capital, n) = ReplayedTo(fs, eq, config.capital, n)
  <2>1. SameCloses(eq, eq, n)
    BY DEF SameCloses
  <2> QED BY <1>2, <2>1, ReplayedToSame
<1> QED BY <1>1, <1>3 DEF At

\* Nor does a point after them, or one with other balances for the same close.
LEMMA PointKeepsCurve ==
    ASSUME NEW fs, NEW eq, NEW eq2, NEW n \in Nat, SameCloses(eq, eq2, n)
    PROVE  At(fs, eq2, n) = At(fs, eq, n)
<1>1. SameReplay(fs, fs, eq, n)
  BY DEF SameReplay
<1>2. ReplayedTo(fs, eq2, config.capital, n) = ReplayedTo(fs, eq, config.capital, n)
  BY <1>1, ReplayedToSame
<1> QED BY <1>2 DEF At

\* Candle n is replayed, then its close marked.
LEMMA AtNext ==
    ASSUME NEW fs, NEW eq \in Seq(EquityPoints), Numbered(eq), NEW n \in Nat, n + 1 <= Len(eq)
    PROVE  At(fs, eq, n + 1) = Marked(Replayed(At(fs, eq, n), fs, n), eq[n + 1].close)
<1>1. n + 1 \in DOMAIN eq /\ (n + 1) - 1 = n
  OBVIOUS
<1>2. eq[n + 1].candle = n
  BY <1>1 DEF Numbered
<1>3. At(fs, eq, n + 1) = Marked(Replayed(At(fs, eq, n), fs, eq[n + 1].candle), eq[n + 1].close)
  BY ReplayedToNext DEF At
<1> QED BY <1>2, <1>3

-----------------------------------------------------------------------------
(* The engine: what its record shows is what the verifier asks *)

\* A FILLED order has one fill, any other none.
LEMMA FillsAreCounted ==
    ASSUME NEW os \in Seq(KeptOrders), NEW fs \in Seq(EngineFills), FilledOnce(os, fs),
           NEW i \in DOMAIN os
    PROVE  Cardinality({k \in DOMAIN fs : fs[k].order = i})
             = IF os[i].status = "FILLED" THEN 1 ELSE 0
<1>1. PICK S : S = {k \in DOMAIN fs : fs[k].order = i}
  OBVIOUS
<1>2. CASE os[i].status = "FILLED"
  <2>1. PICK k \in DOMAIN fs : fs[k].order = i
    BY <1>2 DEF FilledOnce
  <2>2. \A j \in S : j = k
    BY <1>1, <2>1 DEF FilledOnce
  <2>3. S = {k}
    BY <1>1, <2>1, <2>2
  <2>4. Cardinality({k}) = 1
    BY FS_Singleton
  <2> QED BY <1>1, <1>2, <2>3, <2>4
<1>3. CASE os[i].status # "FILLED"
  <2>1. S = {}
    <3>1. SUFFICES ASSUME NEW k \in S PROVE FALSE
      OBVIOUS
    <3>2. k \in DOMAIN fs /\ fs[k].order = i
      BY <1>1
    <3>3. FillOfOrder(os[i], fs[k])
      BY <3>2 DEF FilledOnce
    <3> QED BY <1>3, <3>3 DEF FillOfOrder
  <2>2. Cardinality({}) = 0
    BY FS_EmptySet
  <2> QED BY <1>1, <1>3, <2>1, <2>2
<1> QED BY <1>2, <1>3

LEMMA Verified ==
    ASSUME NEW os \in Seq(KeptOrders), NEW fs \in Seq(EngineFills), NEW l,
           NEW eq \in Seq(EquityPoints), NEW p, NEW n \in Nat, n > 0, Len(eq) = n, Numbered(eq),
           RecordOf(os, fs, l, 2 * n - 1, n - 1), Ledgered(l, p.cash, p.base),
           CurveFits(fs, eq), p = At(fs, eq, n)
    PROVE  VerifierAccepts([orders |-> os, fills |-> fs, ledger |-> l, equity |-> eq,
                            final |-> p], config.capital)
<1>1. PICK r : r = [orders |-> os, fills |-> fs, ledger |-> l, equity |-> eq, final |-> p]
  OBVIOUS
<1>2. r.orders = os /\ r.fills = fs /\ r.ledger = l /\ r.equity = eq /\ r.final = p
  BY <1>1
<1>3. /\ DatedOrders(os, 2 * n - 1, n - 1) /\ DatedFills(fs, 2 * n - 1, n - 1)
      /\ FilledOnce(os, fs) /\ LedgerAdds(l, 2 * n - 1, n - 1)
  BY DEF RecordOf
<1>4. PICK len \in Nat : len = Len(l) /\ DOMAIN l = 1..len /\ l # <<>> /\ len > 0
                         /\ Head(l) = l[1]
  BY DEF Ledgered
<1>5. WithinEvaluation(r)
  <2>1. OpenTime(n) = 2 * n
    BY DEF OpenTime
  <2>2. ASSUME NEW i \in DOMAIN os
        PROVE  /\ os[i].at \in 0..(2 * n)
               /\ os[i].created \in -1..(n - 1)
               /\ os[i].eligible \in 0..n
               /\ os[i].created = -1 => os[i].at = 0
               /\ os[i].ended # Never => os[i].ended \in os[i].at..(2 * n)
    <3>1. PICK o : o = os[i]
      OBVIOUS
    <3>2. DatedOrder(o, 2 * n - 1, n - 1)
      BY <1>3, <3>1 DEF DatedOrders
    <3>3. (2 * n - 1) + 1 = 2 * n
      OBVIOUS
    <3> QED BY <3>1, <3>2, <3>3 DEF DatedOrder
  <2>3. ASSUME NEW i \in DOMAIN fs
        PROVE  fs[i].at \in 0..(2 * n) /\ fs[i].candle \in 0..(n - 1)
    BY <1>3 DEF DatedFills
  <2>4. l[1].type = "INITIAL_CAPITAL" /\ l[1].at = 0 /\ l[1].candle = -1
    BY <1>3 DEF LedgerAdds
  <2>5. ASSUME NEW i \in 2..len
        PROVE  l[i].at \in 0..(2 * n) /\ l[i].candle \in 0..(n - 1)
    BY <1>3, <1>4 DEF LedgerAdds
  <2>6. \A i \in 1..n : eq[i].candle = i - 1
    BY DEF Numbered
  <2> QED BY <1>2, <1>4, <2>1, <2>2, <2>3, <2>4, <2>5, <2>6 DEF WithinEvaluation
<1>6. FillsMatchOrders(r)
  <2>1. ASSUME NEW i \in DOMAIN fs
        PROVE  /\ fs[i].order \in DOMAIN os
               /\ fs[i].side = os[fs[i].order].side
               /\ fs[i].quantity = os[fs[i].order].quantity
               /\ fs[i].candle >= os[fs[i].order].eligible
               /\ os[fs[i].order].ended = fs[i].at
    BY <1>3 DEF FilledOnce, FillOfOrder
  <2>2. \A i \in DOMAIN os : Cardinality({k \in DOMAIN fs : fs[k].order = i})
                               = IF os[i].status = "FILLED" THEN 1 ELSE 0
    BY <1>3, FillsAreCounted
  <2> QED BY <1>2, <2>1, <2>2 DEF FillsMatchOrders
<1>7. BalancesAddUp(l)
  <2>1. Adds(l[1], 0, 0)
    BY <1>3 DEF LedgerAdds
  <2>2. ASSUME NEW i \in 1..len, i # 1 PROVE Adds(l[i], l[i - 1].quote, l[i - 1].base)
    <3>1. i \in 2..len
      BY <2>2
    <3> QED BY <1>3, <1>4, <3>1 DEF LedgerAdds
  <2> QED BY <1>4, <2>1, <2>2 DEF BalancesAddUp, Adds
<1>8. Last(l).quote = p.cash /\ Last(l).base = p.base
  BY DEF Ledgered
<1>9. CurveIsReplayed(r, config.capital)
  <2>1. \A i \in DOMAIN eq : SamePoint(ReplayedTo(fs, eq, config.capital, i), eq[i])
    BY DEF CurveFits, At
  <2>2. ReplayedTo(fs, eq, config.capital, Len(eq)) = p
    BY DEF At
  <2> QED BY <1>2, <2>1, <2>2 DEF CurveIsReplayed, SamePoint
<1>10. VerifierAccepts(r, config.capital)
  BY <1>2, <1>5, <1>6, <1>7, <1>8, <1>9 DEF VerifierAccepts
<1> QED BY <1>1, <1>10

\* After the candles closed the replay is at the portfolio; within a candle it is at the
\* portfolio with the candle's fills so far.
BetweenOK ==
    /\ RecordOf(orders, fills, ledger, 2 * index - 1, index - 1)
    /\ CurveFits(fills, equity) /\ portfolio = At(fills, equity, index)
    /\ index > 0 => /\ equity[index].close = candle.close
                    /\ Sound(Replayed(At(fills, equity, index - 1), fills, index - 1))
OrdersOK ==
    /\ RecordOf(orders, fills, ledger, 2 * index, index)
    /\ CurveFits(fills, equity)
    /\ portfolio = Replayed(At(fills, equity, index), fills, index)
    /\ \A i \in queue : orders[i].eligible <= index
RecordInv ==
    /\ phase = "between" => BetweenOK
    /\ phase = "orders" => OrdersOK
    /\ ResultIsVerifiable

LEMMA CurveIs ==
    ASSUME EngineInv
    PROVE  /\ equity \in Seq(EquityPoints) /\ Len(equity) = index /\ index \in Nat
           /\ Numbered(equity)
<1>1. equity \in Seq(EquityPoints) /\ Len(equity) = index /\ index \in Nat
  BY RunningIs DEF EngineInv, CurveOK
<1>2. \A i \in 1..index : ValidPoint(equity[i], i - 1)
  BY DEF EngineInv, CurveOK
<1>3. Numbered(equity)
  BY <1>1, <1>2 DEF Numbered, ValidPoint
<1> QED BY <1>1, <1>3

LEMMA RecordInitIs == Init => RecordInv
<1> SUFFICES ASSUME Init PROVE RecordInv
  OBVIOUS
<1>1. /\ config \in Configs /\ phase = "between" /\ index = 0
      /\ portfolio = Flat(config.capital) /\ orders = <<>> /\ fills = <<>> /\ equity = <<>>
      /\ ledger = Entry(<<>>, "INITIAL_CAPITAL", config.capital, 0, 0, 0, -1)
  BY DEF Init
<1>2. PICK k : k = config.capital /\ k \in Nat
  BY <1>1, EngineConfigIs
<1>3. LedgerAdds(ledger, -1, -1)
  <2>1. PICK e : e = [type |-> "INITIAL_CAPITAL", dquote |-> k, dbase |-> 0, realized |-> 0,
                      at |-> 0, candle |-> -1, quote |-> 0 + k, base |-> 0 + 0]
    OBVIOUS
  <2>2. ledger = Append(<<>>, e)
    BY <1>1, <1>2, <2>1 DEF Entry
  <2>3. Len(ledger) = 1 /\ ledger[1] = e
    BY <2>2
  <2>4. Adds(e, 0, 0) /\ e.type = "INITIAL_CAPITAL" /\ e.at = 0 /\ e.candle = -1
    BY <1>2, <2>1 DEF Adds
  <2> QED BY <2>3, <2>4 DEF LedgerAdds
<1>4. RecordOf(orders, fills, ledger, -1, -1)
  BY <1>1, <1>3 DEF RecordOf, DatedOrders, DatedFills, FilledOnce
<1>5. 2 * index - 1 = -1 /\ index - 1 = -1 /\ ~(index > 0)
  BY <1>1
<1>6. At(fills, equity, index) = portfolio
  <2>1. PICK capital, n : capital = config.capital /\ n = 0 /\ n \in Nat
    OBVIOUS
  <2>2. ReplayedTo(fills, equity, capital, 0) = Flat(capital)
    BY <2>1, ReplayedToNext
  <2> QED BY <1>1, <2>1, <2>2 DEF At
<1>7. CurveFits(fills, equity)
  BY <1>1 DEF CurveFits
<1>8. BetweenOK
  BY <1>4, <1>5, <1>6, <1>7 DEF BetweenOK
<1> QED BY <1>1, <1>8 DEF RecordInv, ResultIsVerifiable

-----------------------------------------------------------------------------
(* The engine: its steps keep the record *)

LEMMA EndedOrder ==
    ASSUME NEW os \in Seq(KeptOrders), NEW S \in SUBSET (DOMAIN os), NEW status, NEW t,
           NEW i \in DOMAIN os
    PROVE  LET o == Ended(os, S, status, t)[i]
           IN  /\ SameOrder(os[i], o)
               /\ i \in S => o.status = status /\ o.ended = t
               /\ i \notin S => o = os[i]
<1>1. os[i] \in KeptOrders
  OBVIOUS
<1>2. PICK o : o = Ended(os, S, status, t)[i]
  OBVIOUS
<1>3. o = IF i \in S THEN [os[i] EXCEPT !.status = status, !.ended = t] ELSE os[i]
  BY <1>2 DEF Ended
<1>4. CASE i \in S
  <2>1. o = [os[i] EXCEPT !.status = status, !.ended = t]
    BY <1>3, <1>4
  <2>2. /\ o.side = os[i].side /\ o.quantity = os[i].quantity /\ o.at = os[i].at
        /\ o.created = os[i].created /\ o.eligible = os[i].eligible
        /\ o.status = status /\ o.ended = t
    BY <1>1, <2>1 DEF KeptOrders
  <2> QED BY <1>2, <1>4, <2>2 DEF SameOrder
<1>5. CASE i \notin S
  BY <1>2, <1>3, <1>5 DEF SameOrder
<1> QED BY <1>4, <1>5

\* A step that changes orders and queue only, in a candle.
LEMMA InCandle ==
    ASSUME EngineInv, RecordInv, phase = "orders",
           UNCHANGED <<config, phase, index, candle, portfolio, fills, ledger, equity>>,
           DatedOrders(orders', 2 * index, index), FilledOnce(orders', fills),
           \A i \in queue' : orders'[i].eligible <= index
    PROVE  RecordInv'
<1>1. OrdersOK
  BY DEF RecordInv
<1>2. RecordOf(orders', fills, ledger, 2 * index, index)
  BY <1>1 DEF OrdersOK, RecordOf
<1>3. OrdersOK'
  BY <1>1, <1>2 DEF OrdersOK, CurveFits, At
<1> QED BY <1>3 DEF RecordInv, ResultIsVerifiable

LEMMA EndsWithoutFillRecorded ==
    ASSUME EngineInv, RecordInv, Trying, NEW status \in {"CANCELLED", "EXPIRED"},
           NEW t \in Nat, 2 * index <= t, t <= 2 * index + 1, EndsWithoutFill(status, t)
    PROVE  RecordInv'
<1>1. /\ orders' = Ended(orders, {Tried}, status, t) /\ queue' = queue \ {Tried}
      /\ phase = "orders"
      /\ UNCHANGED <<config, phase, index, candle, portfolio, fills, ledger, equity, halted>>
  BY DEF EndsWithoutFill, Trying
<1>2. /\ orders \in Seq(KeptOrders) /\ Tried \in OpenIn(orders) /\ index \in Nat
      /\ queue \subseteq DOMAIN orders
  BY TriedIs, RunningIs
<1>3. /\ DatedOrders(orders, 2 * index, index) /\ FilledOnce(orders, fills)
      /\ \A i \in queue : orders[i].eligible <= index
  BY <1>1 DEF RecordInv, OrdersOK, RecordOf
<1>4. PICK S, d : S = {Tried} /\ d = orders'
  OBVIOUS
<1>5. /\ S \in SUBSET OpenIn(orders) /\ S \in SUBSET (DOMAIN orders)
      /\ d = Ended(orders, S, status, t)
  BY <1>1, <1>2, <1>4 DEF OpenIn
<1>6. DatedOrders(d, 2 * index, index)
  <2>1. 2 * index \in Int /\ index \in Int
    BY <1>2
  <2>2. PICK u : u = 2 * index /\ u \in Int
    BY <2>1
  <2>3. DatedOrders(Ended(orders, S, status, t), u, index)
    BY <1>2, <1>3, <1>5, <2>1, <2>2, EndedDated
  <2> QED BY <1>5, <2>2, <2>3
<1>7. d \in Seq(KeptOrders)
  <2>1. status \in {"CANCELLED", "EXPIRED", "FILLED"}
    OBVIOUS
  <2> QED BY <1>2, <1>5, <2>1, EndedIs
<1>8. Grows(orders, d, t, 0)
  BY <1>2, <1>5, EndedGrows
<1>9. FilledOnce(d, fills)
  BY <1>2, <1>3, <1>7, <1>8, GrowsFilled
<1>10. \A i \in queue' : d[i].eligible <= index
  <2>1. ASSUME NEW i \in queue PROVE d[i].eligible = orders[i].eligible
    <3>1. SameOrder(orders[i], d[i])
      BY <1>2, <1>8 DEF Grows
    <3> QED BY <3>1 DEF SameOrder
  <2> QED BY <1>1, <1>3, <2>1
<1> QED BY <1>1, <1>4, <1>6, <1>9, <1>10, InCandle

LEMMA ExpireDayRecorded == ASSUME EngineInv, RecordInv, ExpireDay PROVE RecordInv'
<1>1. Trying /\ EndsWithoutFill("EXPIRED", OpenTime(index)) /\ index \in Nat
  BY RunningIs DEF ExpireDay
<1>2. PICK status, t : status = "EXPIRED" /\ t = OpenTime(index)
  OBVIOUS
<1>3. t \in Nat /\ 2 * index <= t /\ t <= 2 * index + 1
  BY <1>1, <1>2 DEF OpenTime
<1>4. status \in {"CANCELLED", "EXPIRED"} /\ EndsWithoutFill(status, t)
  BY <1>1, <1>2
<1> QED BY <1>1, <1>3, <1>4, EndsWithoutFillRecorded

LEMMA RefuseFillRecorded == ASSUME EngineInv, RecordInv, RefuseFill PROVE RecordInv'
<1>1. Trying /\ EndsWithoutFill("CANCELLED", OpenTime(index)) /\ index \in Nat
  BY RunningIs DEF RefuseFill
<1>2. PICK status, t : status = "CANCELLED" /\ t = OpenTime(index)
  OBVIOUS
<1>3. t \in Nat /\ 2 * index <= t /\ t <= 2 * index + 1
  BY <1>1, <1>2 DEF OpenTime
<1>4. status \in {"CANCELLED", "EXPIRED"} /\ EndsWithoutFill(status, t)
  BY <1>1, <1>2
<1> QED BY <1>1, <1>3, <1>4, EndsWithoutFillRecorded

LEMMA NotReachedRecorded == ASSUME EngineInv, RecordInv, NotReached PROVE RecordInv'
<1>1. Trying /\ phase = "orders" /\ index \in Nat
  BY RunningIs DEF NotReached, Trying
<1>2. CASE Turn.tif = "IOC"
  <2>1. PICK status, t : status = "EXPIRED" /\ t = CloseTime(index)
    OBVIOUS
  <2>2. t \in Nat /\ 2 * index <= t /\ t <= 2 * index + 1
    BY <1>1, <2>1 DEF CloseTime
  <2>3. status \in {"CANCELLED", "EXPIRED"} /\ EndsWithoutFill(status, t)
    BY <1>2, <2>1 DEF NotReached
  <2> QED BY <1>1, <2>2, <2>3, EndsWithoutFillRecorded
<1>3. CASE Turn.tif # "IOC"
  <2>1. /\ queue' = queue \ {Tried}
        /\ UNCHANGED <<config, phase, index, candle, portfolio, orders, fills, ledger, equity,
                       halted>>
    BY <1>3 DEF NotReached
  <2>2. /\ DatedOrders(orders, 2 * index, index) /\ FilledOnce(orders, fills)
        /\ \A i \in queue : orders[i].eligible <= index
    BY <1>1 DEF RecordInv, OrdersOK, RecordOf
  <2>3. /\ DatedOrders(orders', 2 * index, index) /\ FilledOnce(orders', fills)
        /\ \A i \in queue' : orders'[i].eligible <= index
    BY <2>1, <2>2
  <2> QED BY <1>1, <2>1, <2>3, InCandle
<1> QED BY <1>2, <1>3

LEMMA OpenCandleRecorded ==
    ASSUME EngineInv, RecordInv, NEW k \in Candles, NEW batch \in Batches, OpenCandle(k, batch)
    PROVE  RecordInv'
<1>0. PICK r, s : /\ r = [orders |-> orders, ok |-> TRUE]
                  /\ s = Submitted(r, batch, portfolio, k.open, OpenTime(index), -1, halted)
  OBVIOUS
<1>1. /\ phase = "between" /\ (index > 0 => batch = <<>>) /\ orders' = s.orders
      /\ queue' = Eligible(s.orders, index)
      /\ phase' = Proceed("orders", s, ledger, fills, equity)
      /\ UNCHANGED <<config, index, portfolio, fills, ledger, equity, halted>>
  BY <1>0 DEF OpenCandle
<1>2. /\ orders \in Seq(KeptOrders) /\ fills \in Seq(EngineFills) /\ index \in Nat
      /\ config \in Configs /\ halted \in BOOLEAN /\ portfolio \in Portfolios
  BY RunningIs
<1>3. /\ DatedOrders(orders, 2 * index - 1, index - 1)
      /\ DatedFills(fills, 2 * index - 1, index - 1)
      /\ FilledOnce(orders, fills) /\ LedgerAdds(ledger, 2 * index - 1, index - 1)
      /\ CurveFits(fills, equity) /\ portfolio = At(fills, equity, index)
  BY <1>1 DEF RecordInv, BetweenOK, RecordOf
<1>4. PICK t, created, price, u, m :
        /\ t = OpenTime(index) /\ created = -1 /\ price = k.open
        /\ u = 2 * index - 1 /\ m = index - 1
  OBVIOUS
<1>5. /\ t \in Nat /\ t = 2 * index /\ created \in Int /\ price \in Nat \ {0}
      /\ u \in Int /\ m \in Int /\ u <= t /\ m <= index
  BY <1>2, <1>4, PricesAre DEF OpenTime
<1>15. /\ DatedOrders(orders, u, m) /\ DatedFills(fills, u, m) /\ LedgerAdds(ledger, u, m)
  BY <1>3, <1>4
<1>16. t \in Int /\ index \in Int
  BY <1>2, <1>5
<1>6. /\ s.orders \in Seq(KeptOrders) /\ Grows(orders, s.orders, t, created)
      /\ batch = <<>> => s.orders = orders
  <2>1. r \in Submissions /\ r.orders = orders
    BY <1>0, <1>2 DEF Submissions
  <2>2. s = Submitted(r, batch, portfolio, price, t, created, halted)
    BY <1>0, <1>4
  <2>3. /\ s \in Submissions /\ Grows(r.orders, s.orders, t, created)
        /\ batch = <<>> => s = r
    BY <1>2, <1>5, <2>1, <2>2, SubmittedIs
  <2> QED BY <2>1, <2>3 DEF Submissions
<1>7. DatedOrders(s.orders, t, index)
  <2>1. CASE batch = <<>>
    <3>1. DatedOrders(orders, t, index)
      BY <1>5, <1>15, <1>16, DatedLater
    <3> QED BY <1>6, <2>1, <3>1
  <2>2. CASE batch # <<>>
    <3>1. index = 0 /\ t = 0 /\ created \in -1..index
      BY <1>1, <1>2, <1>4, <1>5, <2>2
    <3>2. DatedOrders(orders, u, m)
      BY <1>3, <1>4
    <3> QED BY <1>2, <1>5, <1>6, <3>1, <3>2, GrowsDated
  <2> QED BY <2>1, <2>2
<1>8. FilledOnce(s.orders, fills)
  BY <1>2, <1>3, <1>6, GrowsFilled
<1>9. DatedFills(fills, t, index) /\ LedgerAdds(ledger, t, index)
  BY <1>5, <1>15, <1>16, AddsLater
<1>10. portfolio = Replayed(At(fills, equity, index), fills, index)
  <2>1. \A i \in DOMAIN fills : fills[i].candle # index
    BY <1>2, <1>3 DEF DatedFills
  <2>2. Replayed(portfolio, fills, index) = portfolio
    BY <1>2, <2>1, ReplayedNone
  <2> QED BY <1>3, <2>2
<1>11. \A i \in queue' : s.orders[i].eligible <= index
  BY <1>1 DEF Eligible
<1>12. RecordOf(s.orders, fills, ledger, 2 * index, index)
  BY <1>5, <1>7, <1>8, <1>9 DEF RecordOf
<1>13. OrdersOK'
  BY <1>1, <1>3, <1>10, <1>11, <1>12 DEF OrdersOK, CurveFits, At
<1>14. phase' \in {"orders", "failed"}
  BY <1>1 DEF Proceed
<1> QED BY <1>13, <1>14 DEF RecordInv, ResultIsVerifiable

\* What the fill of the order tried says of it.
LEMMA FillNames ==
    ASSUME EngineInv, Trying, Reached # NoPrice
    PROVE  Fill.order = Tried /\ Fill.at = 2 * index /\ Fill.candle = index
  BY DEF Fill, FillAt, OpenTime

LEMMA FillOrderRecorded ==
    ASSUME EngineInv, RecordInv, NEW batch \in Batches, FillOrder(batch)
    PROVE  RecordInv'
<1>0. PICK f, p, l, filled, guarded, s :
        /\ f = Fill /\ p = Applied(portfolio, f)
        /\ l = FillEntries(ledger, f, p.realized - portfolio.realized)
        /\ filled = Ended(orders, {Tried}, "FILLED", OpenTime(index))
        /\ guarded = Protected(filled, p, OpenTime(index), index)
        /\ s = Submitted(guarded, batch, p, f.price, OpenTime(index), index, halted)
  OBVIOUS
<1>1. /\ Trying /\ Reached # NoPrice /\ phase = "orders"
      /\ MayApply(portfolio, f)
      /\ portfolio' = p /\ ledger' = l /\ fills' = Append(fills, f) /\ orders' = s.orders
      /\ queue' = queue \ {Tried}
      /\ phase' = Proceed("orders", s, l, fills', equity)
      /\ UNCHANGED <<config, index, candle, equity, halted>>
  BY <1>0 DEF FillOrder, Trying
<1>2. /\ f \in EngineFills /\ f.side = Turn.side /\ f.quantity = Turn.quantity
      /\ f.quantity \in Nat \ {0} /\ f.price \in Nat \ {0} /\ f.fee <= f.notional
      /\ f.order = Tried /\ f.at = 2 * index /\ f.candle = index
      /\ f.side \in Sides /\ f.notional \in Nat \ {0} /\ f.fee \in Nat
  <2>1. Fill.quantity = Turn.quantity
    BY <1>1 DEF Fill, FillAt, FillOf
  <2> QED BY <1>0, <1>1, <2>1, FillIs, FillNames
<1>3. /\ orders \in Seq(KeptOrders) /\ fills \in Seq(EngineFills) /\ index \in Nat
      /\ config \in Configs /\ halted \in BOOLEAN /\ portfolio \in Portfolios /\ Sound(portfolio)
      /\ Tried \in queue /\ Tried \in DOMAIN orders /\ Turn = orders[Tried]
      /\ orders[Tried].status = "OPEN" /\ queue \subseteq DOMAIN orders
  BY <1>1, TriedIs, RunningIs DEF OpenIn
<1>4. /\ DatedOrders(orders, 2 * index, index) /\ DatedFills(fills, 2 * index, index)
      /\ FilledOnce(orders, fills) /\ LedgerAdds(ledger, 2 * index, index)
      /\ CurveFits(fills, equity) /\ portfolio = Replayed(At(fills, equity, index), fills, index)
      /\ \A i \in queue : orders[i].eligible <= index
  BY <1>1 DEF RecordInv, OrdersOK, RecordOf
<1>5. PICK t : t = OpenTime(index) /\ t = 2 * index
  BY DEF OpenTime
<1>6. t \in Nat /\ t \in Int /\ index \in Int
  BY <1>3, <1>5
<1>7. PICK S, done : S = {Tried} /\ done = "FILLED"
  OBVIOUS
<1>8. /\ S \in SUBSET (DOMAIN orders) /\ filled = Ended(orders, S, done, t)
      /\ done \in {"CANCELLED", "EXPIRED", "FILLED"}
  BY <1>0, <1>3, <1>5, <1>7
<1>9. filled \in Seq(KeptOrders) /\ DOMAIN filled = DOMAIN orders
  <2>1. filled \in Seq(KeptOrders) /\ EndsOnly(orders, S, filled)
    BY <1>3, <1>6, <1>8, EndedIs
  <2> QED BY <1>3, <2>1 DEF EndsOnly
<1>10. \A i \in DOMAIN orders : /\ SameOrder(orders[i], filled[i])
                                /\ i = Tried => filled[i].status = "FILLED" /\ filled[i].ended = t
                                /\ i # Tried => filled[i] = orders[i]
  <2>1. \A i \in DOMAIN orders : /\ SameOrder(orders[i], filled[i])
                                 /\ i \in S => filled[i].status = done /\ filled[i].ended = t
                                 /\ i \notin S => filled[i] = orders[i]
    BY <1>3, <1>8, EndedOrder
  <2> QED BY <1>7, <2>1
<1>11. FilledOnce(filled, Append(fills, f))
  <2>1. FillOfOrder(filled[Tried], f)
    <3>1. /\ SameOrder(orders[Tried], filled[Tried]) /\ filled[Tried].status = "FILLED"
          /\ filled[Tried].ended = t /\ orders[Tried].eligible <= index
      BY <1>3, <1>4, <1>10
    <3>2. /\ filled[Tried].side = f.side /\ filled[Tried].quantity = f.quantity
          /\ f.candle >= filled[Tried].eligible
      BY <1>2, <1>3, <3>1, KeptIs DEF SameOrder
    <3> QED BY <1>2, <1>5, <3>1, <3>2 DEF FillOfOrder
  <2>2. PICK o : o = f.order /\ o = Tried
    BY <1>2
  <2>3. /\ f.order \in DOMAIN filled
        /\ f.order \in DOMAIN orders => orders[f.order].status # "FILLED"
        /\ FillOfOrder(filled[f.order], f)
        /\ \A i \in DOMAIN orders : i \in DOMAIN filled /\ (i # f.order => filled[i] = orders[i])
        /\ \A i \in DOMAIN filled : i \in DOMAIN orders \/ i = f.order
    BY <1>3, <1>9, <1>10, <2>1, <2>2
  <2> QED BY <1>2, <1>3, <1>4, <1>9, <2>3, OneMoreFill
<1>12. DatedOrders(filled, t, index)
  <2>1. DatedOrders(orders, t, index)
    BY <1>4, <1>5
  <2>2. t <= t + 1
    BY <1>6
  <2> QED BY <1>3, <1>6, <1>8, <2>1, <2>2, EndedDated
<1>13. Sound(p)
  BY <1>0, <1>1, <1>2, <1>3, AppliedSound
<1>14. guarded \in Submissions /\ Grows(filled, guarded.orders, t, index)
  <2>1. guarded = Protected(filled, p, t, index)
    BY <1>0, <1>5
  <2> QED BY <1>3, <1>6, <1>9, <1>13, <2>1, ProtectedIs
<1>15. s \in Submissions /\ Grows(guarded.orders, s.orders, t, index)
  <2>1. PICK price : price = f.price /\ price \in Nat \ {0}
    BY <1>2
  <2>2. s = Submitted(guarded, batch, p, price, t, index, halted)
    BY <1>0, <1>5, <2>1
  <2>3. p \in Portfolios
    BY <1>13, SoundIs
  <2> QED BY <1>3, <1>6, <1>14, <2>1, <2>2, <2>3, SubmittedIs
<1>16. s.orders \in Seq(KeptOrders) /\ Grows(filled, s.orders, t, index)
  <2>1. guarded.orders \in Seq(KeptOrders) /\ s.orders \in Seq(KeptOrders)
    BY <1>14, <1>15 DEF Submissions
  <2> QED BY <1>9, <1>14, <1>15, <2>1, GrowsOn
<1>17. DatedOrders(s.orders, t, index)
  <2>1. index \in -1..index /\ (index = -1 => t = 0) /\ t <= t /\ index <= index
    BY <1>3, <1>6
  <2>2. PICK n : n = index
    OBVIOUS
  <2>3. n \in -1..index /\ (n = -1 => t = 0) /\ Grows(filled, s.orders, t, n)
    BY <1>16, <2>1, <2>2
  <2> QED BY <1>6, <1>9, <1>12, <1>16, <2>1, <2>3, GrowsDated
<1>18. PICK fs : fs = Append(fills, f)
  OBVIOUS
<1>19. FilledOnce(s.orders, fs)
  <2>1. FilledOnce(filled, fs)
    BY <1>11, <1>18
  <2> QED BY <1>9, <1>16, <2>1, GrowsFilled
<1>20. DatedFills(fs, 2 * index, index)
  <2>1. f.at \in 0..(2 * index) /\ f.candle \in 0..index
    BY <1>2, <1>3
  <2>2. \A k \in DOMAIN fs : fs[k] = f \/ (k \in DOMAIN fills /\ fs[k] = fills[k])
    BY <1>2, <1>3, <1>18
  <2> QED BY <1>4, <2>1, <2>2 DEF DatedFills
<1>21. LedgerAdds(l, 2 * index, index)
  <2>1. PICK x, y, g : /\ x = portfolio.cash /\ y = portfolio.base
                       /\ g = p.realized - portfolio.realized
    OBVIOUS
  <2>2. x \in Nat /\ y \in Nat /\ g \in Int
    <3>1. portfolio.cash \in Nat /\ portfolio.base \in Nat
      BY <1>3, SoundIs DEF Portfolios
    <3>2. portfolio.realized \in Int /\ p.realized \in Int
      BY <1>3, <1>13, SoundIs DEF Portfolios
    <3> QED BY <2>1, <3>1, <3>2
  <2>3. Ledgered(ledger, x, y)
    BY <2>1 DEF EngineInv, AccountsOK
  <2>4. IF f.side = "BUY" THEN f.notional + f.fee <= x ELSE f.quantity <= y
    BY <1>1, <2>1 DEF MayApply
  <2>5. PICK u : u = 2 * index
    OBVIOUS
  <2>6. u \in Int /\ f.at \in 0..u /\ f.candle \in 0..index /\ LedgerAdds(ledger, u, index)
    BY <1>2, <1>3, <1>4, <2>5
  <2>7. l = FillEntries(ledger, f, g)
    BY <1>0, <2>1
  <2>8. LedgerAdds(FillEntries(ledger, f, g), u, index)
    BY <1>2, <1>6, <2>2, <2>3, <2>4, <2>6, FillEntriesAdd
  <2> QED BY <2>5, <2>7, <2>8
<1>22. equity \in Seq(EquityPoints) /\ Len(equity) = index /\ Numbered(equity)
  BY CurveIs
<1>23. \A n \in 0..index : At(fs, equity, n) = At(fills, equity, n)
  <2>1. SUFFICES ASSUME NEW n \in 0..index PROVE At(fs, equity, n) = At(fills, equity, n)
    OBVIOUS
  <2>2. n \in Nat /\ n <= Len(equity) /\ n <= f.candle
    BY <1>2, <1>3, <1>22
  <2> QED BY <1>2, <1>3, <1>18, <1>22, <2>2, FillKeepsCurve
<1>24. CurveFits(fs, equity)
  <2>1. \A n \in DOMAIN equity : n \in 0..index
    BY <1>3, <1>22
  <2> QED BY <1>4, <1>23, <2>1 DEF CurveFits
<1>25. p = Replayed(At(fs, equity, index), fs, index)
  <2>1. At(fs, equity, index) = At(fills, equity, index)
    BY <1>3, <1>23
  <2>2. PICK q : q = At(fills, equity, index)
    OBVIOUS
  <2>3. Replayed(q, Append(fills, f), index) =
          IF f.candle = index THEN Applied(Replayed(q, fills, index), f)
          ELSE Replayed(q, fills, index)
    BY <1>2, <1>3, ReplayedAppend
  <2> QED BY <1>0, <1>2, <1>4, <1>18, <2>1, <2>2, <2>3
<1>26. \A i \in queue' : s.orders[i].eligible <= index
  <2>1. ASSUME NEW i \in queue PROVE s.orders[i].eligible = orders[i].eligible
    <3>1. SameOrder(orders[i], filled[i]) /\ SameOrder(filled[i], s.orders[i])
      BY <1>3, <1>9, <1>10, <1>16 DEF Grows
    <3> QED BY <3>1 DEF SameOrder
  <2> QED BY <1>1, <1>4, <2>1
<1>27. RecordOf(s.orders, fs, l, 2 * index, index)
  BY <1>5, <1>17, <1>19, <1>20, <1>21 DEF RecordOf
<1>28. OrdersOK'
  BY <1>1, <1>18, <1>24, <1>25, <1>26, <1>27 DEF OrdersOK, CurveFits, At
<1>29. phase' \in {"orders", "failed"}
  BY <1>1 DEF Proceed
<1> QED BY <1>28, <1>29 DEF RecordInv, ResultIsVerifiable

LEMMA CloseCandleRecorded ==
    ASSUME EngineInv, RecordInv, NEW batch \in Batches, CloseCandle(batch)
    PROVE  RecordInv'
<1>0. PICK p, l, eq, halts, S, kept, r, s :
        /\ p = Marked(portfolio, candle.close)
        /\ l = MarkEntry(ledger, "MARK_TO_MARKET", CloseTime(index), index)
        /\ eq = Append(equity, PointOf(p, index))
        /\ halts = (~halted /\ MustHalt(config, p))
        /\ S = {i \in Open : ~orders[i].stop}
        /\ kept = (IF ~halts THEN orders ELSE Ended(orders, S, "CANCELLED", CloseTime(index)))
        /\ r = [orders |-> kept, ok |-> TRUE]
        /\ s = Submitted(r, batch, p, candle.close, CloseTime(index), index, halted \/ halts)
  OBVIOUS
<1>1. /\ phase = "orders"
      /\ portfolio' = p /\ ledger' = l /\ equity' = eq
      /\ orders' = s.orders /\ index' = index + 1
      /\ phase' = Proceed("between", s, l, fills, eq)
      /\ UNCHANGED <<config, candle, queue, fills>>
  BY <1>0 DEF CloseCandle
<1>2. /\ orders \in Seq(KeptOrders) /\ fills \in Seq(EngineFills) /\ index \in Nat
      /\ config \in Configs /\ candle \in Candles /\ halted \in BOOLEAN
      /\ portfolio \in Portfolios /\ Sound(portfolio)
  BY RunningIs
<1>3. /\ DatedOrders(orders, 2 * index, index) /\ DatedFills(fills, 2 * index, index)
      /\ FilledOnce(orders, fills) /\ LedgerAdds(ledger, 2 * index, index)
      /\ CurveFits(fills, equity) /\ portfolio = Replayed(At(fills, equity, index), fills, index)
  BY <1>1 DEF RecordInv, OrdersOK, RecordOf
<1>4. PICK price, t, u, halt : /\ price = candle.close /\ t = CloseTime(index) /\ u = 2 * index
                               /\ halt = (halted \/ halts)
  OBVIOUS
<1>5. price \in Nat \ {0} /\ t \in Nat /\ u \in Int /\ u <= t /\ halt \in BOOLEAN /\ index \in Int
  BY <1>0, <1>2, <1>4, PricesAre DEF CloseTime
<1>6. t = 2 * (index + 1) - 1
  BY <1>2, <1>4 DEF CloseTime
<1>7. /\ DatedOrders(orders, u, index) /\ DatedFills(fills, u, index)
      /\ LedgerAdds(ledger, u, index)
  BY <1>3, <1>4
<1>8. Sound(p) /\ p \in Portfolios /\ p.cash = portfolio.cash /\ p.base = portfolio.base
  <2>1. price \in Nat /\ p = Marked(portfolio, price)
    BY <1>0, <1>4, <1>5
  <2>2. Sound(p) /\ p.cash = portfolio.cash /\ p.base = portfolio.base
    BY <1>2, <2>1, MarkedIs
  <2> QED BY <2>2, SoundIs
<1>9. kept \in Seq(KeptOrders) /\ Grows(orders, kept, t, index)
  <2>1. CASE ~halts
    <3>1. kept = orders
      BY <1>0, <2>1
    <3>2. Grows(orders, orders, t, index)
      BY <1>2, GrowsFromItself
    <3> QED BY <1>2, <3>1, <3>2
  <2>2. CASE halts
    <3>1. PICK status : status = "CANCELLED"
      OBVIOUS
    <3>2. /\ S \in SUBSET OpenIn(orders) /\ S \in SUBSET (DOMAIN orders)
          /\ status \in {"CANCELLED", "EXPIRED"} /\ status \in {"CANCELLED", "EXPIRED", "FILLED"}
      BY <1>0, <3>1 DEF Open, OpenIn
    <3>3. kept = Ended(orders, S, status, t)
      BY <1>0, <1>4, <2>2, <3>1
    <3>4. kept \in Seq(KeptOrders)
      BY <1>2, <1>5, <3>2, <3>3, EndedIs
    <3>5. Grows(orders, Ended(orders, S, status, t), t, index)
      BY <1>2, <1>5, <3>2, EndedGrows
    <3> QED BY <3>3, <3>4, <3>5
  <2> QED BY <1>0, <2>1, <2>2
<1>10. s.orders \in Seq(KeptOrders) /\ Grows(kept, s.orders, t, index)
  <2>1. r \in Submissions /\ r.orders = kept
    BY <1>0, <1>9 DEF Submissions
  <2>2. s = Submitted(r, batch, p, price, t, index, halt)
    BY <1>0, <1>4
  <2>3. s \in Submissions /\ Grows(r.orders, s.orders, t, index)
    BY <1>2, <1>5, <1>8, <2>1, <2>2, SubmittedIs
  <2> QED BY <2>1, <2>3 DEF Submissions
<1>11. Grows(orders, s.orders, t, index)
  BY <1>2, <1>9, <1>10, GrowsOn
<1>12. DatedOrders(s.orders, t, index)
  <2>1. PICK n : n = index
    OBVIOUS
  <2>2. n \in -1..index /\ (n = -1 => t = 0) /\ Grows(orders, s.orders, t, n) /\ index <= index
    BY <1>2, <1>11, <2>1
  <2> QED BY <1>2, <1>5, <1>7, <1>10, <2>2, GrowsDated
<1>13. FilledOnce(s.orders, fills)
  BY <1>2, <1>3, <1>10, <1>11, GrowsFilled
<1>14. DatedFills(fills, t, index) /\ LedgerAdds(ledger, t, index)
  <2>1. t \in Int /\ index <= index
    BY <1>5
  <2> QED BY <1>5, <1>7, <2>1, AddsLater
<1>15. LedgerAdds(l, t, index)
  <2>1. PICK x, y, type : x = portfolio.cash /\ y = portfolio.base /\ type = "MARK_TO_MARKET"
    OBVIOUS
  <2>2. x \in Int /\ y \in Int /\ x + 0 >= 0 /\ y + 0 >= 0 /\ type \in EntryTypes /\ 0 \in Int
    <3>1. portfolio.cash \in Nat /\ portfolio.base \in Nat
      BY <1>2, SoundIs DEF Portfolios
    <3> QED BY <2>1, <3>1 DEF EntryTypes
  <2>3. Ledgered(ledger, x, y)
    BY <2>1 DEF EngineInv, AccountsOK
  <2>4. t \in 0..t /\ index \in 0..index /\ t \in Int
    BY <1>2, <1>5
  <2>5. l = Entry(ledger, type, 0, 0, 0, t, index)
    BY <1>0, <1>4, <2>1 DEF MarkEntry
  <2>6. LedgerAdds(Entry(ledger, type, 0, 0, 0, t, index), t, index)
    BY <1>5, <1>14, <2>2, <2>3, <2>4, EntryAdds
  <2> QED BY <2>5, <2>6
<1>16. equity \in Seq(EquityPoints) /\ Len(equity) = index /\ Numbered(equity)
  BY CurveIs
<1>17. PICK e : e = PointOf(p, index)
  OBVIOUS
<1>18. /\ e \in EquityPoints /\ SamePoint(p, e) /\ e.close = price /\ e.candle = index
  <2>1. e \in EquityPoints
    BY <1>2, <1>5, <1>8, <1>17, PointIs
  <2> QED BY <1>4, <1>17, <2>1 DEF PointOf, SamePoint
<1>19. /\ eq \in Seq(EquityPoints) /\ Len(eq) = index + 1 /\ eq[index + 1] = e
       /\ \A i \in 1..index : eq[i] = equity[i]
  BY <1>0, <1>2, <1>16, <1>17, <1>18
<1>20. Numbered(eq)
  <2>1. \A i \in 1..index : eq[i].candle = i - 1
    BY <1>16, <1>19 DEF Numbered
  <2>2. (index + 1) - 1 = index /\ \A i \in DOMAIN eq : i \in 1..index \/ i = index + 1
    BY <1>2, <1>19
  <2> QED BY <1>18, <1>19, <2>1, <2>2 DEF Numbered
<1>21. ASSUME NEW n \in 0..index PROVE At(fills, eq, n) = At(fills, equity, n)
  <2>1. SameCloses(equity, eq, n) /\ n \in Nat
    BY <1>2, <1>19 DEF SameCloses
  <2> QED BY <2>1, PointKeepsCurve
<1>22. At(fills, eq, index + 1) = p
  <2>1. At(fills, eq, index) = At(fills, equity, index)
    BY <1>2, <1>21
  <2>2. At(fills, eq, index + 1) = Marked(Replayed(At(fills, eq, index), fills, index),
                                          eq[index + 1].close)
    BY <1>2, <1>19, <1>20, AtNext
  <2> QED BY <1>0, <1>3, <1>4, <1>18, <1>19, <2>1, <2>2
<1>23. CurveFits(fills, eq)
  <2>1. ASSUME NEW n \in 1..index PROVE SamePoint(At(fills, eq, n), eq[n])
    <3>1. n \in DOMAIN equity /\ n \in 0..index
      BY <1>16
    <3> QED BY <1>3, <1>19, <1>21, <3>1 DEF CurveFits
  <2>2. SamePoint(At(fills, eq, index + 1), eq[index + 1])
    BY <1>18, <1>19, <1>22
  <2>3. \A i \in DOMAIN eq : i \in 1..index \/ i = index + 1
    BY <1>2, <1>19
  <2> QED BY <2>1, <2>2, <2>3 DEF CurveFits
<1>24. /\ eq[index + 1].close = candle.close
       /\ Sound(Replayed(At(fills, eq, index), fills, index))
  <2>1. At(fills, eq, index) = At(fills, equity, index)
    BY <1>2, <1>21
  <2> QED BY <1>2, <1>3, <1>4, <1>18, <1>19, <2>1
<1>25. (index + 1) - 1 = index
  BY <1>2
<1>26. RecordOf(s.orders, fills, l, 2 * (index + 1) - 1, (index + 1) - 1)
  <2>1. RecordOf(s.orders, fills, l, t, index)
    BY <1>12, <1>13, <1>14, <1>15 DEF RecordOf
  <2> QED BY <1>6, <1>25, <2>1
<1>27. BetweenOK'
  BY <1>1, <1>22, <1>23, <1>24, <1>25, <1>26 DEF BetweenOK, CurveFits, At
<1>28. phase' \in {"between", "failed"}
  BY <1>1 DEF Proceed
<1> QED BY <1>27, <1>28 DEF RecordInv, ResultIsVerifiable

\* A sale of everything at the price just marked, for nothing: the replay, which knows one
\* close of the candle only, ends where the engine does.
LEMMA MarkedRecord ==
    ASSUME NEW p \in Portfolios, NEW price \in Int, NEW worth \in Int, worth = p.cash + p.base * price
    PROVE  Marked(p, price) =
             [cash |-> p.cash, base |-> p.base, cost |-> p.cost, realized |-> p.realized,
              fees |-> p.fees, equity |-> worth,
              peak |-> IF p.peak <= worth THEN worth ELSE p.peak]
<1>1. p.peak \in Int
  BY DEF Portfolios
<1>2. PICK top : top = (IF p.peak <= worth THEN worth ELSE p.peak)
  OBVIOUS
<1>3. Max({p.peak, worth}) = top
  BY <1>1, <1>2, MaxOfTwo
<1>4. Marked(p, price) = [p EXCEPT !.equity = worth, !.peak = top]
  BY <1>3 DEF Marked
<1>5. Marked(p, price) =
        [cash |-> p.cash, base |-> p.base, cost |-> p.cost, realized |-> p.realized,
         fees |-> p.fees, equity |-> worth, peak |-> top]
  BY <1>4 DEF Portfolios
<1> QED BY <1>2, <1>5

LEMMA SoldOut ==
    ASSUME NEW p \in Portfolios, NEW f, f.side = "SELL", f.quantity = p.base,
           f.notional \in Nat, f.fee = 0
    PROVE  Sold(p, f) =
             [cash |-> p.cash + f.notional, base |-> 0, cost |-> 0,
              realized |-> p.realized + f.notional - p.cost, fees |-> p.fees,
              equity |-> p.equity, peak |-> p.peak]
<1>1. Released(p, f) = p.cost
  BY DEF Released
<1>2. /\ p.cash \in Int /\ p.base \in Int /\ p.cost \in Int /\ p.realized \in Int /\ p.fees \in Int
  BY DEF Portfolios
<1>3. /\ p.cash + f.notional - f.fee = p.cash + f.notional /\ p.base - f.quantity = 0
      /\ p.cost - p.cost = 0 /\ p.fees + f.fee = p.fees
      /\ p.realized + f.notional - f.fee - p.cost = p.realized + f.notional - p.cost
  BY <1>2
<1>4. Sold(p, f) = [p EXCEPT !.cash = p.cash + f.notional, !.base = 0, !.cost = 0,
                             !.fees = p.fees, !.realized = p.realized + f.notional - p.cost]
  BY <1>1, <1>3 DEF Sold, Portfolios
<1> QED BY <1>4 DEF Portfolios

LEMMA ForcedAgain ==
    ASSUME NEW q, Sound(q), NEW k \in Nat \ {0}, NEW f, f.side = "SELL", f.quantity = q.base,
           f.price = k, f.notional = q.base * k, f.fee = 0
    PROVE  Marked(Applied(Marked(q, k), f), k) = Marked(Applied(q, f), k)
<1>1. /\ q \in Portfolios /\ q.cash \in Nat /\ q.base \in Nat /\ q.peak \in Int
      /\ q.cost \in Int /\ q.realized \in Int /\ q.fees \in Int /\ q.equity \in Int
  BY SoundIs DEF Portfolios
<1>2. PICK n : n = q.base * k
  OBVIOUS
<1>3. n \in Nat /\ f.notional = n
  BY <1>1, <1>2
<1>4. PICK worth : worth = q.cash + n
  OBVIOUS
<1>5. worth \in Int /\ worth = q.cash + q.base * k
  BY <1>1, <1>2, <1>3, <1>4
<1>6. PICK top : top = (IF q.peak <= worth THEN worth ELSE q.peak) /\ top \in Int /\ worth <= top
  BY <1>1, <1>5
<1>7. PICK gain : gain = q.realized + n - q.cost /\ gain \in Int
  BY <1>1, <1>3
<1> DEFINE P(e, t) == [cash |-> worth, base |-> 0, cost |-> 0, realized |-> gain,
                       fees |-> q.fees, equity |-> e, peak |-> t]
<1>8. ASSUME NEW e \in Int, NEW t \in Int, t = q.peak \/ t = top
      PROVE  Marked(P(e, t), k) = P(worth, top)
  <2>1. PICK p : p = P(e, t)
    OBVIOUS
  <2>2. /\ p.cash = worth /\ p.base = 0 /\ p.cost = 0 /\ p.realized = gain /\ p.fees = q.fees
        /\ p.peak = t
    BY <2>1
  <2>3. p \in Portfolios
    BY <1>1, <1>5, <1>7, <1>8, <2>1 DEF Portfolios
  <2>4. worth = p.cash + p.base * k /\ k \in Int
    BY <1>5, <2>2
  <2>5. Marked(p, k) = [cash |-> p.cash, base |-> p.base, cost |-> p.cost,
                        realized |-> p.realized, fees |-> p.fees, equity |-> worth,
                        peak |-> IF p.peak <= worth THEN worth ELSE p.peak]
    BY <1>5, <2>3, <2>4, MarkedRecord
  <2>6. (IF t <= worth THEN worth ELSE t) = top
    BY <1>1, <1>5, <1>6, <1>8
  <2> QED BY <2>1, <2>2, <2>5, <2>6
<1>9. PICK m : m = Marked(q, k)
  OBVIOUS
<1>10. m = [cash |-> q.cash, base |-> q.base, cost |-> q.cost, realized |-> q.realized,
            fees |-> q.fees, equity |-> worth, peak |-> top]
  <2>1. k \in Int
    OBVIOUS
  <2> QED BY <1>1, <1>5, <1>6, <1>9, <2>1, MarkedRecord
<1>11. m \in Portfolios
  BY <1>1, <1>5, <1>6, <1>10 DEF Portfolios
<1>12. Sold(q, f) = P(q.equity, q.peak)
  <2>1. Sold(q, f) =
          [cash |-> q.cash + f.notional, base |-> 0, cost |-> 0,
           realized |-> q.realized + f.notional - q.cost, fees |-> q.fees,
           equity |-> q.equity, peak |-> q.peak]
    BY <1>1, <1>3, SoldOut
  <2> QED BY <1>3, <1>4, <1>7, <2>1
<1>13. Sold(m, f) = P(worth, top)
  <2>1. /\ m.cash = q.cash /\ m.base = q.base /\ m.cost = q.cost /\ m.realized = q.realized
        /\ m.fees = q.fees /\ m.equity = worth /\ m.peak = top
    BY <1>10
  <2>2. Sold(m, f) =
          [cash |-> m.cash + f.notional, base |-> 0, cost |-> 0,
           realized |-> m.realized + f.notional - m.cost, fees |-> m.fees,
           equity |-> m.equity, peak |-> m.peak]
    BY <1>3, <1>11, <2>1, SoldOut
  <2> QED BY <1>3, <1>4, <1>7, <2>1, <2>2
<1> HIDE DEF P
<1>14. Applied(q, f) = P(worth, top) /\ Applied(m, f) = P(worth, top)
  <2>1. Applied(q, f) = Marked(P(q.equity, q.peak), k)
    BY <1>12 DEF Applied
  <2>2. Applied(m, f) = Marked(P(worth, top), k)
    BY <1>13 DEF Applied
  <2>3. Marked(P(q.equity, q.peak), k) = P(worth, top)
    BY <1>1, <1>8
  <2>4. Marked(P(worth, top), k) = P(worth, top)
    BY <1>5, <1>6, <1>8
  <2> QED BY <2>1, <2>2, <2>3, <2>4
<1> QED BY <1>9, <1>14

\* The order and the fill of a forced sale that costs nothing.
LEMMA ForcedNames ==
    ASSUME EngineInv, index > 0, portfolio.base > 0, config.takerFee = 0, config.slippage = 0
    PROVE  /\ ForcedFill.order = Len(orders) + 1 /\ ForcedFill.at = 2 * index - 1
           /\ ForcedFill.candle = index - 1 /\ ForcedFill.side = "SELL"
           /\ ForcedFill.quantity = portfolio.base /\ ForcedFill.price = candle.close
           /\ ForcedFill.notional = portfolio.base * candle.close /\ ForcedFill.fee = 0
           /\ ForcedOrder.side = "SELL" /\ ForcedOrder.quantity = portfolio.base
           /\ ForcedOrder.status = "FILLED" /\ ForcedOrder.at = 2 * index - 2
           /\ ForcedOrder.created = index - 2 /\ ForcedOrder.eligible = index - 1
           /\ ForcedOrder.ended = 2 * index - 1 /\ ForcedOrder \in KeptOrders
<1>1. /\ config \in Configs /\ index \in Nat /\ portfolio \in Portfolios
      /\ candle \in Candles
  BY RunningIs
<1>2. PICK k, b, t, n : /\ k = candle.close /\ b = portfolio.base
                        /\ t = CloseTime(index - 1) /\ n = index - 1
  OBVIOUS
<1>3. k \in Nat \ {0} /\ b \in Nat \ {0} /\ t = 2 * index - 1 /\ n \in Nat /\ t \in Nat
  BY <1>1, <1>2, PricesAre DEF Portfolios, CloseTime
<1>4. PICK o : o = [side |-> "SELL", kind |-> "MARKET", quantity |-> b]
  OBVIOUS
<1>5. o.side = "SELL" /\ o.kind = "MARKET" /\ o.quantity = b
  BY <1>4
<1>6. Adverse(config, "SELL", k) = k
  <2>1. (k * 0) \div 100 = 0 /\ k - 0 = k
    BY <1>3
  <2> QED BY <2>1 DEF Adverse
<1>7. ASSUME NEW v \in Nat PROVE FeeOf(config, "TAKER", v) = 0
  <2>1. (v * 0) \div 100 = 0
    OBVIOUS
  <2> QED BY <2>1 DEF FeeOf
<1>8. FillOf(config, o, k) = [side |-> "SELL", quantity |-> b, price |-> k,
                              notional |-> b * k, fee |-> 0]
  <2>1. PICK v : v = b * k /\ v \in Nat
    BY <1>3
  <2>2. FeeOf(config, Liquidity(o), v) = 0
    BY <1>5, <1>7, <2>1 DEF Liquidity
  <2> QED BY <1>5, <1>6, <2>1, <2>2 DEF FillOf
<1>9. ForcedFill = [order |-> Len(orders) + 1, at |-> t, candle |-> n, forced |-> TRUE,
                    side |-> "SELL", quantity |-> b, price |-> k, notional |-> b * k, fee |-> 0]
  <2>1. PICK q, m : q = FillOf(config, o, k) /\ m = Len(orders) + 1
    OBVIOUS
  <2>2. ForcedFill = [order |-> m, at |-> t, candle |-> n, forced |-> TRUE, side |-> q.side,
                      quantity |-> q.quantity, price |-> q.price, notional |-> q.notional,
                      fee |-> q.fee]
    BY <1>2, <1>4, <2>1 DEF ForcedFill, FillAt
  <2>3. /\ q.side = "SELL" /\ q.quantity = b /\ q.price = k /\ q.notional = b * k
        /\ q.fee = 0
    BY <1>8, <2>1
  <2> QED BY <2>1, <2>2, <2>3
<1>10. PICK i, status, no : /\ i = [side |-> "SELL", kind |-> "MARKET", quantity |-> b,
                                    tif |-> "IOC", price |-> NoPrice]
                            /\ status = "FILLED" /\ no = FALSE
  OBVIOUS
<1>11. PICK u, c, d : /\ u = OpenTime(n) /\ c = index - 2 /\ d = NewOrder(i, u, c, status, no)
  OBVIOUS
<1>12. u \in Nat /\ c \in Int /\ u = 2 * index - 2 /\ c + 1 = index - 1
  BY <1>1, <1>2, <1>3, <1>11 DEF OpenTime
<1>13. d \in KeptOrders /\ d.status = status /\ d.quantity = b
  <2>1. /\ i.side \in Sides /\ i.kind \in {"MARKET", "LIMIT", "STOP_MARKET"}
        /\ i.quantity \in Nat \ {0} /\ i.tif \in {"GTC", "IOC", "DAY"}
        /\ i.price \in Nat /\ (i.kind # "MARKET" => i.price > 0) /\ i.quantity = b
    BY <1>3, <1>10 DEF Sides, NoPrice
  <2>2. /\ status \in {"OPEN", "REJECTED", "FILLED"} /\ no \in BOOLEAN
        /\ no => i.side = "SELL" /\ i.tif = "GTC"
    BY <1>10
  <2> QED BY <1>11, <1>12, <2>1, <2>2, NewOrderIs
<1>14. d.side = "SELL" /\ d.at = u /\ d.created = c /\ d.eligible = c + 1
  BY <1>10, <1>11 DEF NewOrder
<1>15. PICK e : e = [d EXCEPT !.ended = t]
  OBVIOUS
<1>16. ForcedOrder = e
  BY <1>2, <1>10, <1>11, <1>15 DEF ForcedOrder
<1>17. e \in KeptOrders
  <2>1. t # Never /\ t \in Int /\ d.status # "OPEN"
    BY <1>3, <1>10, <1>13 DEF Never
  <2> QED BY <1>13, <1>15, <2>1 DEF KeptOrders
<1>18. /\ e.side = d.side /\ e.quantity = d.quantity /\ e.status = d.status /\ e.at = d.at
       /\ e.created = d.created /\ e.eligible = d.eligible /\ e.ended = t
  BY <1>13, <1>15 DEF KeptOrders
<1>19. /\ ForcedFill.order = Len(orders) + 1 /\ ForcedFill.at = t
       /\ ForcedFill.candle = n /\ ForcedFill.side = "SELL"
       /\ ForcedFill.quantity = b /\ ForcedFill.price = k
       /\ ForcedFill.notional = b * k /\ ForcedFill.fee = 0
  BY <1>9
<1> QED BY <1>2, <1>3, <1>10, <1>11, <1>12, <1>13, <1>14, <1>16, <1>17, <1>18, <1>19

\* The last orders end, and the ledger is closed.
LEMMA CancelledRecorded ==
    ASSUME EngineInv, BetweenOK, index > 0,
           NEW os, os = IF config.cancelAtEnd
                        THEN Ended(orders, Open, "CANCELLED", CloseTime(index - 1)) ELSE orders
    PROVE  /\ os \in Seq(KeptOrders) /\ Len(os) = Len(orders)
           /\ DatedOrders(os, 2 * index - 1, index - 1) /\ FilledOnce(os, fills)
<1>1. orders \in Seq(KeptOrders) /\ index \in Nat
  BY RunningIs
<1>2. PICK t, m : t = 2 * index - 1 /\ m = index - 1
  OBVIOUS
<1>3. t \in Nat /\ m \in Nat /\ t = CloseTime(index - 1) /\ t \in Int /\ m \in Int
  BY <1>1, <1>2 DEF CloseTime
<1>4. DatedOrders(orders, t, m) /\ FilledOnce(orders, fills)
  BY <1>2 DEF BetweenOK, RecordOf
<1>5. CASE config.cancelAtEnd
  <2>1. PICK S, status : S = OpenIn(orders) /\ status = "CANCELLED"
    OBVIOUS
  <2>2. /\ S \in SUBSET OpenIn(orders) /\ S \in SUBSET (DOMAIN orders)
        /\ status \in {"CANCELLED", "EXPIRED"} /\ status \in {"CANCELLED", "EXPIRED", "FILLED"}
    BY <2>1 DEF OpenIn
  <2>3. os = Ended(orders, S, status, t)
    BY <1>3, <1>5, <2>1 DEF Open, OpenIn
  <2>4. os \in Seq(KeptOrders) /\ EndsOnly(orders, S, os)
    BY <1>1, <1>3, <2>2, <2>3, EndedIs
  <2>5. Grows(orders, Ended(orders, S, status, t), t, m)
    BY <1>1, <1>3, <2>2, EndedGrows
  <2>6. FilledOnce(os, fills)
    <3>1. Grows(orders, os, t, m)
      BY <2>3, <2>5
    <3> QED BY <1>1, <1>4, <2>4, <3>1, GrowsFilled
  <2>7. DatedOrders(os, t, m)
    <3>1. t <= t /\ t <= t + 1
      BY <1>3
    <3>2. DatedOrders(Ended(orders, S, status, t), t, m)
      BY <1>1, <1>3, <1>4, <2>2, <3>1, EndedDated
    <3> QED BY <2>3, <3>2
  <2> QED BY <1>2, <2>4, <2>6, <2>7 DEF EndsOnly
<1>6. CASE ~config.cancelAtEnd
  BY <1>1, <1>2, <1>4, <1>6
<1> QED BY <1>5, <1>6

\* A forced sale: the fill, its order, its entries, and the last point anew.
LEMMA ForcedRecorded ==
    ASSUME EngineInv, BetweenOK, index > 0, portfolio.base > 0,
           config.takerFee = 0, config.slippage = 0,
           NEW os \in Seq(KeptOrders), Len(os) = Len(orders),
           DatedOrders(os, 2 * index - 1, index - 1), FilledOnce(os, fills),
           NEW p, p = Marked(Applied(portfolio, ForcedFill), candle.close),
           NEW s, s = Protected(Append(os, ForcedOrder), p, CloseTime(index - 1), index - 1),
           NEW eq, eq = [equity EXCEPT ![index] = PointOf(p, index - 1)],
           eq \in Seq(EquityPoints), Len(eq) = index, Numbered(eq)
    PROVE  /\ DatedOrders(s.orders, 2 * index - 1, index - 1)
           /\ DatedFills(Append(fills, ForcedFill), 2 * index - 1, index - 1)
           /\ FilledOnce(s.orders, Append(fills, ForcedFill))
           /\ CurveFits(Append(fills, ForcedFill), eq)
           /\ p = At(Append(fills, ForcedFill), eq, index)
<1>1. /\ config \in Configs /\ candle \in Candles /\ Sound(portfolio) /\ index \in Nat
      /\ portfolio \in Portfolios /\ orders \in Seq(KeptOrders) /\ fills \in Seq(EngineFills)
      /\ equity \in Seq(EquityPoints) /\ Len(equity) = index /\ Numbered(equity)
  BY RunningIs, CurveIs
<1>2. PICK f, o, k, b, t, n : /\ f = ForcedFill /\ o = ForcedOrder /\ k = candle.close
                              /\ b = portfolio.base /\ t = 2 * index - 1 /\ n = index - 1
  OBVIOUS
<1>3. /\ k \in Nat \ {0} /\ b \in Nat \ {0} /\ t \in Nat /\ n \in Nat /\ t \in Int /\ n \in Int
      /\ t = CloseTime(n) /\ n + 1 = index
  BY <1>1, <1>2, PricesAre DEF Portfolios, CloseTime
<1>4. /\ f.order = Len(orders) + 1 /\ f.at = t /\ f.candle = n /\ f.side = "SELL"
      /\ f.quantity = b /\ f.price = k /\ f.notional = b * k /\ f.fee = 0
      /\ o.side = "SELL" /\ o.quantity = b /\ o.status = "FILLED" /\ o.at = t - 1
      /\ o.created = n - 1 /\ o.eligible = n /\ o.ended = t /\ o \in KeptOrders
  <2>1. 2 * index - 2 = t - 1 /\ index - 2 = n - 1
    BY <1>1, <1>2
  <2> QED BY <1>2, <2>1, ForcedNames
<1>5. f \in EngineFills /\ Sound(p)
  BY <1>2, ForcedIs
<1>6. /\ DatedOrders(os, t, n) /\ DatedFills(fills, t, n)
      /\ CurveFits(fills, equity) /\ portfolio = At(fills, equity, index)
      /\ equity[index].close = k
      /\ Sound(Replayed(At(fills, equity, n), fills, n))
  BY <1>2 DEF BetweenOK, RecordOf
<1>7. PICK d, m : d = Append(os, o) /\ m = Len(orders) + 1
  OBVIOUS
<1>8. /\ d \in Seq(KeptOrders) /\ DOMAIN os = 1..Len(orders) /\ DOMAIN d = 1..m
      /\ d[m] = o /\ m \in Nat /\ m \notin DOMAIN os
      /\ \A i \in DOMAIN os : i # m /\ i \in DOMAIN d /\ d[i] = os[i]
      /\ \A i \in DOMAIN d : i \in DOMAIN os \/ i = m
  <2>1. PICK len \in Nat : len = Len(os) /\ DOMAIN os = 1..len
    OBVIOUS
  <2>2. d \in Seq(KeptOrders) /\ Len(d) = len + 1 /\ DOMAIN d = 1..(len + 1)
    <3>1. o \in KeptOrders
      BY <1>4
    <3> QED BY <1>7, <2>1, <3>1
  <2>3. m = len + 1 /\ Len(orders) = len
    BY <1>7, <2>1
  <2>4. d[len + 1] = o /\ \A i \in 1..len : d[i] = os[i]
    BY <1>7, <2>1
  <2>5. DOMAIN os = 1..Len(orders) /\ DOMAIN d = 1..m /\ m \in Nat /\ m \notin DOMAIN os
    BY <2>1, <2>2, <2>3
  <2>6. d[m] = o
    BY <2>3, <2>4
  <2>7. ASSUME NEW i \in DOMAIN os PROVE i # m /\ i \in DOMAIN d /\ d[i] = os[i]
    BY <2>1, <2>2, <2>3, <2>4, <2>7
  <2>8. ASSUME NEW i \in DOMAIN d PROVE i \in DOMAIN os \/ i = m
    BY <2>1, <2>2, <2>3, <2>8
  <2> QED BY <2>2, <2>5, <2>6, <2>7, <2>8
<1>9. FilledOnce(d, Append(fills, f))
  <2>1. FillOfOrder(o, f)
    BY <1>3, <1>4 DEF FillOfOrder
  <2>2. /\ f.order \in DOMAIN d
        /\ f.order \in DOMAIN os => os[f.order].status # "FILLED"
        /\ FillOfOrder(d[f.order], f)
        /\ \A i \in DOMAIN os : i \in DOMAIN d /\ (i # f.order => d[i] = os[i])
        /\ \A i \in DOMAIN d : i \in DOMAIN os \/ i = f.order
    BY <1>4, <1>7, <1>8, <2>1
  <2> QED BY <1>1, <1>5, <1>8, <2>2, OneMoreFill
<1>10. DatedOrders(d, t, n)
  <2>1. DatedOrder(o, t, n)
    <3>1. /\ o.at \in 0..t /\ o.created \in -1..n /\ o.eligible = o.created + 1
          /\ o.created = -1 => o.at = 0
          /\ o.ended \in o.at..(t + 1)
      BY <1>1, <1>2, <1>3, <1>4
    <3> QED BY <3>1 DEF DatedOrder
  <2> QED BY <1>6, <1>8, <2>1 DEF DatedOrders
<1>11. s.orders \in Seq(KeptOrders) /\ Grows(d, s.orders, t, n)
  <2>1. s = Protected(d, p, t, n)
    BY <1>2, <1>3, <1>7
  <2>2. n \in Int /\ t \in Nat /\ t \in Int /\ config \in Configs /\ Sound(p)
    BY <1>1, <1>3, <1>5
  <2>3. d \in Seq(KeptOrders)
    BY <1>8
  <2>4. PICK r : r = Protected(d, p, t, n)
    OBVIOUS
  <2>5. r \in Submissions /\ Grows(d, r.orders, t, n)
    BY <2>2, <2>3, <2>4, ProtectedIs
  <2> QED BY <2>1, <2>4, <2>5 DEF Submissions
<1>12. PICK fs : fs = Append(fills, f)
  OBVIOUS
<1>13. FilledOnce(s.orders, fs)
  <2>1. FilledOnce(d, fs)
    BY <1>9, <1>12
  <2> QED BY <1>8, <1>11, <2>1, GrowsFilled
<1>14. DatedOrders(s.orders, t, n)
  <2>1. PICK c : c = n
    OBVIOUS
  <2>2. c \in -1..n /\ (c = -1 => t = 0) /\ Grows(d, s.orders, t, c) /\ n <= n /\ t <= t
    BY <1>3, <1>11, <2>1
  <2> QED BY <1>3, <1>8, <1>10, <1>11, <2>2, GrowsDated
<1>15. DatedFills(fs, t, n)
  <2>1. f.at \in 0..t /\ f.candle \in 0..n
    BY <1>3, <1>4
  <2>2. \A i \in DOMAIN fs : fs[i] = f \/ (i \in DOMAIN fills /\ fs[i] = fills[i])
    BY <1>1, <1>5, <1>12
  <2> QED BY <1>6, <2>1, <2>2 DEF DatedFills
<1>16. PICK e : e = PointOf(p, n)
  OBVIOUS
<1>17. e.close = k /\ SamePoint(p, e) /\ e.candle = n /\ e \in EquityPoints
  <2>1. e \in EquityPoints
    BY <1>1, <1>3, <1>5, <1>16, PointIs
  <2> QED BY <1>2, <1>16, <2>1 DEF PointOf, SamePoint
<1>18. /\ eq[index] = e /\ \A i \in 1..index : i # index => eq[i] = equity[i]
  <2>1. eq = [equity EXCEPT ![index] = e]
    BY <1>2, <1>16
  <2>2. index \in DOMAIN equity /\ DOMAIN equity = 1..index
    BY <1>1
  <2> QED BY <2>1, <2>2
<1>19. ASSUME NEW i \in 0..n PROVE At(fs, eq, i) = At(fills, equity, i)
  <2>1. SameCloses(equity, eq, i) /\ i \in Nat
    <3>1. \A j \in 1..i : j \in 1..index /\ j # index
      BY <1>1, <1>2, <1>3
    <3> QED BY <1>18, <3>1 DEF SameCloses
  <2>2. At(fs, eq, i) = At(fs, equity, i)
    BY <2>1, PointKeepsCurve
  <2>3. i <= Len(equity) /\ i <= f.candle
    BY <1>1, <1>3, <1>4
  <2>4. At(fs, equity, i) = At(fills, equity, i)
    BY <1>1, <1>5, <1>12, <2>1, <2>3, FillKeepsCurve
  <2> QED BY <2>2, <2>4
<1>20. PICK q : q = Replayed(At(fills, equity, n), fills, n)
  OBVIOUS
<1>21. At(fs, eq, index) = Marked(Applied(q, f), k)
  <2>1. At(fs, eq, n) = At(fills, equity, n)
    <3>1. n \in 0..n
      BY <1>3
    <3> QED BY <1>19, <3>1
  <2>2. PICK a : a = At(fills, equity, n)
    OBVIOUS
  <2>3. Replayed(a, Append(fills, f), n) =
          IF f.candle = n THEN Applied(Replayed(a, fills, n), f) ELSE Replayed(a, fills, n)
    BY <1>1, <1>5, ReplayedAppend
  <2>4. Replayed(At(fs, eq, n), fs, n) = Applied(q, f)
    BY <1>4, <1>12, <1>20, <2>1, <2>2, <2>3
  <2>5. At(fs, eq, n + 1) = Marked(Replayed(At(fs, eq, n), fs, n), eq[n + 1].close)
    <3>1. n + 1 <= Len(eq) /\ n \in Nat
      BY <1>3
    <3>2. eq \in Seq(EquityPoints) /\ Numbered(eq)
      OBVIOUS
    <3> QED BY <3>1, <3>2, AtNext
  <2> QED BY <1>3, <1>17, <1>18, <2>4, <2>5
<1>22. portfolio = Marked(q, k)
  <2>1. At(fills, equity, n + 1) =
          Marked(Replayed(At(fills, equity, n), fills, n), equity[n + 1].close)
    <3>1. n + 1 <= Len(equity)
      BY <1>1, <1>3
    <3> QED BY <1>1, <1>3, <3>1, AtNext
  <2> QED BY <1>3, <1>6, <1>20, <2>1
<1>23. p = Marked(Applied(q, f), k)
  <2>1. Sound(q) /\ q.base = b
    <3>1. Sound(q) /\ k \in Nat
      BY <1>3, <1>6, <1>20
    <3>2. Marked(q, k).base = q.base
      BY <3>1, MarkedIs
    <3> QED BY <1>2, <1>22, <3>1, <3>2
  <2>2. /\ f.side = "SELL" /\ f.quantity = q.base /\ f.price = k
        /\ f.notional = q.base * k /\ f.fee = 0
    BY <1>4, <2>1
  <2>3. Marked(Applied(Marked(q, k), f), k) = Marked(Applied(q, f), k)
    <3>1. Sound(q) /\ k \in Nat \ {0} /\ q.base \in Nat \ {0}
      BY <1>3, <2>1
    <3> QED BY <2>2, <3>1, ForcedAgain
  <2> QED BY <1>2, <1>22, <2>3
<1>24. CurveFits(fs, eq)
  <2>1. ASSUME NEW i \in DOMAIN eq PROVE SamePoint(At(fs, eq, i), eq[i])
    <3>1. i \in 1..index /\ i \in DOMAIN equity
      BY <1>1
    <3>2. CASE i = index
      BY <1>17, <1>18, <1>21, <1>23, <3>2
    <3>3. CASE i # index
      <4>1. i \in 0..n /\ eq[i] = equity[i]
        BY <1>1, <1>2, <1>18, <3>1, <3>3
      <4> QED BY <1>6, <1>19, <3>1, <4>1 DEF CurveFits
    <3> QED BY <3>2, <3>3
  <2> QED BY <2>1 DEF CurveFits
<1> QED BY <1>2, <1>12, <1>13, <1>14, <1>15, <1>21, <1>23, <1>24

\* FINAL_STATE leaves the balances.
LEMMA FinalEntryAdds ==
    ASSUME NEW l, NEW x \in Nat, NEW y \in Nat, Ledgered(l, x, y), NEW u \in Nat, NEW m \in Nat,
           LedgerAdds(l, u, m)
    PROVE  LedgerAdds(MarkEntry(l, "FINAL_STATE", u, m), u, m)
<1>1. "FINAL_STATE" \in EntryTypes /\ 0 \in Int /\ x + 0 >= 0 /\ y + 0 >= 0
  BY DEF EntryTypes
<1>2. /\ u \in Int /\ m \in Int /\ x \in Int /\ y \in Int /\ u \in 0..u /\ m \in 0..m
  OBVIOUS
<1>3. LedgerAdds(Entry(l, "FINAL_STATE", 0, 0, 0, u, m), u, m)
  BY <1>1, <1>2, EntryAdds
<1> QED BY <1>3 DEF MarkEntry

LEMMA EndRunRecorded == ASSUME EngineInv, RecordInv, EngineInv', EndRun PROVE RecordInv'
<1>0. PICK forced, os, p, l, fs, s, final :
        /\ forced = (config.forceClose /\ portfolio.base > 0)
        /\ os = (IF config.cancelAtEnd
                 THEN Ended(orders, Open, "CANCELLED", CloseTime(index - 1)) ELSE orders)
        /\ p = (IF forced THEN Marked(Applied(portfolio, ForcedFill), candle.close) ELSE portfolio)
        /\ l = (IF forced THEN FillEntries(ledger, ForcedFill, p.realized - portfolio.realized)
                ELSE ledger)
        /\ fs = (IF forced THEN Append(fills, ForcedFill) ELSE fills)
        /\ s = (IF forced
                THEN Protected(Append(os, ForcedOrder), p, CloseTime(index - 1), index - 1)
                ELSE [orders |-> os, ok |-> TRUE])
        /\ final = MarkEntry(l, "FINAL_STATE", CloseTime(index - 1), index - 1)
  OBVIOUS
<1>1. /\ phase = "between" /\ index > 0
      /\ portfolio' = p /\ ledger' = final /\ fills' = fs /\ orders' = s.orders
      /\ equity' = (IF forced THEN [equity EXCEPT ![index] = PointOf(p, index - 1)] ELSE equity)
      /\ phase' = Proceed("done", s, final, fs, equity)
      /\ UNCHANGED <<config, index>>
  BY <1>0 DEF EndRun, Finish
<1>2. PICK eq : eq = equity' /\ eq = (IF forced THEN [equity EXCEPT ![index] = PointOf(p, index - 1)]
                                      ELSE equity)
  BY <1>1
<1>3. phase' \in {"done", "failed"}
  BY <1>1 DEF Proceed
<1>4. SUFFICES ASSUME config.forceClose => config.takerFee = 0 /\ config.slippage = 0
               PROVE  VerifierAccepts([orders |-> s.orders, fills |-> fs, ledger |-> final,
                                       equity |-> eq, final |-> p], config.capital)
  BY <1>1, <1>2, <1>3 DEF RecordInv, ResultIsVerifiable, Result
<1>5. /\ s.orders \in Seq(KeptOrders) /\ fs \in Seq(EngineFills) /\ eq \in Seq(EquityPoints)
      /\ Len(eq) = index /\ Numbered(eq) /\ Ledgered(final, p.cash, p.base)
  <2>1. orders' \in Seq(KeptOrders) /\ fills' \in Seq(EngineFills)
    BY DEF EngineInv, EngineTyped
  <2>2. /\ equity' \in Seq(EquityPoints) /\ Len(equity') = index'
        /\ \A i \in 1..index' : ValidPoint(equity'[i], i - 1)
    BY DEF EngineInv, CurveOK
  <2>3. Ledgered(ledger', portfolio'.cash, portfolio'.base)
    BY DEF EngineInv, AccountsOK
  <2>4. eq \in Seq(EquityPoints) /\ Len(eq) = index /\ \A i \in 1..index : ValidPoint(eq[i], i - 1)
    BY <1>1, <1>2, <2>2
  <2>5. Numbered(eq)
    <3>1. DOMAIN eq = 1..index
      BY <2>4
    <3> QED BY <2>4, <3>1 DEF Numbered, ValidPoint
  <2>6. s.orders \in Seq(KeptOrders) /\ fs \in Seq(EngineFills)
    BY <1>1, <2>1
  <2>7. Ledgered(final, p.cash, p.base)
    BY <1>1, <2>3
  <2> QED BY <2>4, <2>5, <2>6, <2>7
<1>6. BetweenOK
  BY <1>1 DEF RecordInv
<1>7. /\ fills \in Seq(EngineFills) /\ equity \in Seq(EquityPoints) /\ index \in Nat
      /\ Sound(portfolio) /\ portfolio \in Portfolios /\ orders \in Seq(KeptOrders)
  BY RunningIs, CurveIs
<1>8. PICK u, m : /\ u = 2 * index - 1 /\ m = index - 1 /\ u \in Nat /\ m \in Nat
                  /\ u = CloseTime(index - 1)
  BY <1>1, <1>7 DEF CloseTime
<1>9. /\ DatedFills(fills, u, m) /\ LedgerAdds(ledger, u, m) /\ CurveFits(fills, equity)
      /\ portfolio = At(fills, equity, index)
  BY <1>6, <1>8 DEF BetweenOK, RecordOf
<1>10. /\ os \in Seq(KeptOrders) /\ Len(os) = Len(orders)
       /\ DatedOrders(os, 2 * index - 1, index - 1) /\ FilledOnce(os, fills)
  BY <1>0, <1>1, <1>6, CancelledRecorded
<1>11. /\ Ledgered(ledger, portfolio.cash, portfolio.base)
       /\ portfolio.cash \in Nat /\ portfolio.base \in Nat
  <2>1. portfolio.cash \in Nat /\ portfolio.base \in Nat
    BY <1>7, SoundIs DEF Portfolios
  <2>2. Ledgered(ledger, portfolio.cash, portfolio.base)
    BY DEF EngineInv, AccountsOK
  <2> QED BY <2>1, <2>2
<1>12. /\ DatedOrders(s.orders, u, m) /\ DatedFills(fs, u, m) /\ FilledOnce(s.orders, fs)
       /\ CurveFits(fs, eq) /\ p = At(fs, eq, index) /\ LedgerAdds(final, u, m)
  <2>1. CASE ~forced
    <3>1. s.orders = os /\ fs = fills /\ eq = equity /\ p = portfolio /\ l = ledger
      BY <1>0, <1>2, <2>1
    <3>2. DatedOrders(os, u, m)
      BY <1>8, <1>10
    <3>3. final = MarkEntry(ledger, "FINAL_STATE", u, m)
      BY <1>0, <1>8, <3>1
    <3>4. LedgerAdds(MarkEntry(ledger, "FINAL_STATE", u, m), u, m)
      BY <1>8, <1>9, <1>11, FinalEntryAdds
    <3> QED BY <1>9, <1>10, <3>1, <3>2, <3>3, <3>4
  <2>2. CASE forced
    <3>1. config.takerFee = 0 /\ config.slippage = 0 /\ portfolio.base > 0
      BY <1>0, <1>4, <2>2
    <3>2. /\ p = Marked(Applied(portfolio, ForcedFill), candle.close)
          /\ s = Protected(Append(os, ForcedOrder), p, CloseTime(index - 1), index - 1)
          /\ eq = [equity EXCEPT ![index] = PointOf(p, index - 1)]
          /\ fs = Append(fills, ForcedFill)
          /\ l = FillEntries(ledger, ForcedFill, p.realized - portfolio.realized)
      BY <1>0, <1>2, <2>2
    <3>3. /\ DatedOrders(s.orders, 2 * index - 1, index - 1)
          /\ DatedFills(Append(fills, ForcedFill), 2 * index - 1, index - 1)
          /\ FilledOnce(s.orders, Append(fills, ForcedFill))
          /\ CurveFits(Append(fills, ForcedFill), eq)
          /\ p = At(Append(fills, ForcedFill), eq, index)
      <4>1. /\ index > 0 /\ eq \in Seq(EquityPoints) /\ Len(eq) = index /\ Numbered(eq)
        BY <1>1, <1>5
      <4> QED BY <1>6, <1>10, <3>1, <3>2, <4>1, ForcedRecorded
    <3>4. /\ DatedOrders(s.orders, u, m) /\ DatedFills(fs, u, m) /\ FilledOnce(s.orders, fs)
          /\ CurveFits(fs, eq) /\ p = At(fs, eq, index)
      BY <1>8, <3>2, <3>3
    <3>5. /\ ForcedFill \in EngineFills /\ Sound(p)
          /\ p.realized - portfolio.realized \in Int /\ Ledgered(l, p.cash, p.base)
      BY <1>1, <3>1, <3>2, ForcedIs
    <3>6. PICK f, realized : f = ForcedFill /\ realized = p.realized - portfolio.realized
      OBVIOUS
    <3>7. /\ f \in EngineFills /\ realized \in Int
          /\ l = FillEntries(ledger, f, realized)
      BY <3>2, <3>5, <3>6
    <3>8. /\ f.at = u /\ f.candle = m /\ f.side = "SELL" /\ f.quantity = portfolio.base
          /\ f.fee = 0
      BY <1>1, <1>8, <3>1, <3>6, ForcedNames
    <3>9. /\ f.at \in 0..u /\ f.candle \in 0..m /\ f.fee <= f.notional
          /\ IF f.side = "BUY" THEN f.notional + f.fee <= portfolio.cash
             ELSE f.quantity <= portfolio.base
      <4>1. f.notional \in Nat
        BY <3>7 DEF EngineFills
      <4>2. f.side # "BUY"
        BY <3>8
      <4> QED BY <1>8, <1>11, <3>8, <4>1, <4>2
    <3>10. PICK x, y : x = portfolio.cash /\ y = portfolio.base
      OBVIOUS
    <3>11. LedgerAdds(FillEntries(ledger, f, realized), u, m)
      <4>1. x \in Nat /\ y \in Nat /\ Ledgered(ledger, x, y)
        BY <1>11, <3>10
      <4>2. IF f.side = "BUY" THEN f.notional + f.fee <= x ELSE f.quantity <= y
        BY <3>9, <3>10
      <4>3. u \in Int /\ m \in Int /\ f.at \in 0..u /\ f.candle \in 0..m /\ f.fee <= f.notional
        BY <1>8, <3>9
      <4> QED BY <1>9, <3>7, <4>1, <4>2, <4>3, FillEntriesAdd
    <3>12. PICK v, w : v = p.cash /\ w = p.base /\ v \in Nat /\ w \in Nat
      <4>1. PICK d : d = p /\ Sound(d)
        BY <3>5
      <4>2. d.cash \in Nat /\ d.base \in Nat
        BY <4>1, SoundIs DEF Portfolios
      <4> QED BY <4>1, <4>2
    <3>13. LedgerAdds(MarkEntry(l, "FINAL_STATE", u, m), u, m)
      <4>1. Ledgered(l, v, w) /\ LedgerAdds(l, u, m)
        BY <3>5, <3>7, <3>11, <3>12
      <4> QED BY <1>8, <3>12, <4>1, FinalEntryAdds
    <3>14. final = MarkEntry(l, "FINAL_STATE", u, m)
      BY <1>0, <1>8
    <3> QED BY <3>4, <3>13, <3>14
  <2> QED BY <1>0, <2>1, <2>2
<1>13. RecordOf(s.orders, fs, final, 2 * index - 1, index - 1)
  BY <1>8, <1>12 DEF RecordOf
<1> QED BY <1>1, <1>5, <1>7, <1>12, <1>13, Verified

LEMMA RecordStepKeeps ==
    ASSUME EngineInv, EngineInv', RecordInv, [Next]_vars PROVE RecordInv'
<1>1. CASE Next
  <2>1. ASSUME NEW k \in Candles, NEW batch \in Batches, OpenCandle(k, batch) PROVE RecordInv'
    BY <2>1, OpenCandleRecorded
  <2>2. ASSUME NEW batch \in Batches, FillOrder(batch) PROVE RecordInv'
    BY <2>2, FillOrderRecorded
  <2>3. ASSUME NEW batch \in Batches, CloseCandle(batch) PROVE RecordInv'
    BY <2>3, CloseCandleRecorded
  <2>4. CASE ExpireDay
    BY <2>4, ExpireDayRecorded
  <2>5. CASE NotReached
    BY <2>5, NotReachedRecorded
  <2>6. CASE RefuseFill
    BY <2>6, RefuseFillRecorded
  <2>7. CASE EndRun
    BY <2>7, EndRunRecorded
  <2>8. CASE Fail
    BY <2>8 DEF Fail, RecordInv, ResultIsVerifiable
  <2> QED BY <1>1, <2>1, <2>2, <2>3, <2>4, <2>5, <2>6, <2>7, <2>8 DEF Next
<1>2. CASE UNCHANGED vars
  <2>1. UNCHANGED <<config, phase, index, candle, queue, portfolio, orders, fills, ledger,
                    equity, halted>>
    BY <1>2 DEF vars
  <2>2. BetweenOK => BetweenOK'
    BY <2>1 DEF BetweenOK, CurveFits, At
  <2>3. OrdersOK => OrdersOK'
    BY <2>1 DEF OrdersOK, CurveFits, At
  <2>4. ResultIsVerifiable'
    BY <2>1 DEF RecordInv, ResultIsVerifiable, Result
  <2> QED BY <2>1, <2>2, <2>3, <2>4 DEF RecordInv
<1> QED BY <1>1, <1>2

\* DeterministicBacktestEngine.run against BacktestResultVerifier: the record of a run that
\* ends, whatever the candles and the strategy were, passes the independent verification:
\* everything is dated inside the evaluation, each fill is its FILLED order's and only
\* that order's, the ledger adds up to the final balances, and replaying the fills from
\* the capital gives every equity point and the final portfolio (docs/ARCHITECTURE.md:559).
\* Left out, as in the property: a force close that pays a fee or slippage.
THEOREM ResultsAreVerifiable == Spec => []ResultIsVerifiable
<1>1. Init => EngineInv /\ RecordInv
  BY EngineInitIs, RecordInitIs
<1>2. EngineInv /\ RecordInv /\ [Next]_vars => (EngineInv /\ RecordInv)'
  BY EngineStepKeeps, RecordStepKeeps
<1>3. RecordInv => ResultIsVerifiable
  BY DEF RecordInv
<1> QED BY <1>1, <1>2, <1>3, PTL DEF Spec

=============================================================================
