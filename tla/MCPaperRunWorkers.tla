---------------------------- MODULE MCPaperRunWorkers ----------------------------
(* Instances of PaperRunWorkers for TLC. *)
EXTENDS PaperRunWorkers

CONSTANTS w1, w2

MCWorkers == {w1, w2}
===============================================================================
