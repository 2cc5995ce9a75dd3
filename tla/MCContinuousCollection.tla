------------------------ MODULE MCContinuousCollection ------------------------
(* An instance of ContinuousCollection for TLC: a target of one tick and one of *)
(* two, a candle of the first that the exchange may never have had.             *)
EXTENDS ContinuousCollection, TLC

MCTargets == <<1, 2>>
MCHoles == <<{{}, {3}}, {{}}>>
MCRequests == {[d |-> 1, type |-> "BACKFILL", start |-> 0, end |-> 1],
               [d |-> 1, type |-> "GAP_REPAIR", start |-> 0, end |-> 4]}
ActorSymmetry == Permutations(Actors)
=============================================================================
