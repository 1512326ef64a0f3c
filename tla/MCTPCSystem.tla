---------------------------- MODULE MCTPCSystem ----------------------------
(* Instances of TPCSystem for TLC: a ring of followers, every key with the   *)
(* first of them as its primary unless it is listed as second.               *)
EXTENDS TPCSystem, TLC

CONSTANTS
  f1, f2,
  Second,          \* keys whose primary is the second follower of the ring
  Writers, Readers \* leader threads that get PUT and DELETE, and GET requests

MCRing2 == <<f1, f2>>
MCPrimaryAt == [k \in Keys |-> IF k \in Second THEN 2 ELSE 1]
MCKinds == [t \in Conns |-> (IF t \in Writers THEN {"PUTREQ", "DELREQ"} ELSE {})
                              \cup (IF t \in Readers THEN {"GETREQ"} ELSE {})]

Symmetry == Permutations(Vals)
WorkerSymmetry == Permutations(Workers)
=============================================================================
