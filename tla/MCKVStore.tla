----------------------------- MODULE MCKVStore -----------------------------
(* The store for TLC: the keys have the same hash, and so form one chain.    *)
EXTENDS KVStore, TLC

MCHash == [k \in Keys |-> CHOOSE h \in Hashes : TRUE]
Symmetry == Permutations(Keys) \cup Permutations(Vals) \cup Permutations(Threads)

\* The states that the properties speak of.
NotStrayed == ~strayed
=============================================================================
