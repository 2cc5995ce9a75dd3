--------------------------- MODULE MCCollectorWorkers ---------------------------
(* Instances of CollectorWorkers for TLC. *)
EXTENDS CollectorWorkers

CONSTANTS w1, w2

MCWorkers == {w1, w2}
===============================================================================
