--------------------------- MODULE MCWorkerPresence ---------------------------
(* An instance of WorkerPresence for TLC. *)
EXTENDS WorkerPresence, MCMarketOperationWorker
=============================================================================
