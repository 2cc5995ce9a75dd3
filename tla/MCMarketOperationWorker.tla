----------------------- MODULE MCMarketOperationWorker -----------------------
(* Small instances of MarketOperationWorker for TLC. *)
EXTENDS MarketOperationWorker, TLC

CONSTANTS btc

\* Every operation on one dataset.
OneDataset == [o \in Ops |-> btc]

WorkerSymmetry == Permutations(Workers)
=============================================================================
