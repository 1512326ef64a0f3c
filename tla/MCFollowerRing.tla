--------------------------- MODULE MCFollowerRing ---------------------------
(* Instances of FollowerRing for TLC: MaxId even IDs; one key hash equal to  *)
(* the lowest ID (the next follower is its primary) and one above every ID   *)
(* (the search wraps to the lowest).                                         *)
EXTENDS FollowerRing

CONSTANT MaxId \* bound: how many distinct followers may try to register

MCIds == {2 * i : i \in 1..MaxId}
MCHashes == {2, 2 * MaxId + 1}
=============================================================================
