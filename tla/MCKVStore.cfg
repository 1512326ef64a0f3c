SPECIFICATION Spec
CONSTANTS
  k1 = k1
  k2 = k2
  k3 = k3
  v1 = v1
  v2 = v2
  w1 = w1
  w2 = w2
  h1 = h1
  Keys = {k1, k2, k3}
  Vals = {v1}
  Hashes = {h1}
  Hash <- MCHash
  Threads = {w1, w2}
  MaxCrashes = 1
  Empty = Empty
  NULL = NULL
SYMMETRY Symmetry
CONSTRAINT NotStrayed
INVARIANTS ChainsComplete
PROPERTY StoreIsMap
