----------------------- MODULE MCMarketDataTransaction -----------------------
(* Two datasets, two processes.  The first dataset has a chunk that spans two *)
(* partitions and one that shares the second of them.                        *)
EXTENDS MarketDataTransaction

CONSTANTS btc, eth, c1, c2, c3, p1, p2

MCDatasetOf == [c \in Chunks |-> IF c = c3 THEN eth ELSE btc]
MCMonthsOf == [c \in Chunks |-> IF c = c1 THEN Months
                                ELSE {CHOOSE m \in Months : \A k \in Months : m >= k}]

ASSUME Datasets \subseteq {btc, eth} /\ Chunks \subseteq {c1, c2, c3}
ASSUME \A c \in Chunks : MCDatasetOf[c] \in Datasets
=============================================================================
