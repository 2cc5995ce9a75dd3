----------------------- MODULE MCOperationalDocuments -----------------------
(* Instances of OperationalDocuments for TLC. *)
EXTENDS OperationalDocuments, TLC

Symmetric == Permutations(Mandates) \cup Permutations(Actors) \cup Permutations(Instruments)
=============================================================================
