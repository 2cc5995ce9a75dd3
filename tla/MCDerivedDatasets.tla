-------------------------- MODULE MCDerivedDatasets --------------------------
(* Instances of DerivedDatasets for TLC: two months, and plans of whole months. *)
EXTENDS DerivedDatasets, TLC

WholeMonths == {{1} \X Halves, {2} \X Halves, {1, 2} \X Halves}

Symmetric == Permutations(Procs)
=============================================================================
