------------------------- MODULE MCCapitalAuthority -------------------------
(* Instances of CapitalAuthority for TLC. *)
EXTENDS CapitalAuthority, TLC

CONSTANT session    \* what the profiles of the instance say

\* SessionProfiles with one content: their authorizations share a session.
OneContent == [p \in SessionProfiles |-> session]

Symmetric == Permutations(SessionProfiles)
=============================================================================
