SPECIFICATION SystemSpec
CONSTANTS
  f1 = f1
  f2 = f2
  w1 = w1
  w2 = w2
  t1 = t1
  t2 = t2
  k1 = k1
  k2 = k2
  v1 = v1
  v2 = v2
  Followers = {f1, f2}
  Ring <- MCRing2
  Redundancy = 2
  Second = {k2}
  PrimaryAt <- MCPrimaryAt
  Workers = {w1, w2}
  Conns = {t1, t2}
  Writers = {t1}
  Readers = {}
  Kinds <- MCKinds
  Keys = {k1, k2}
  Vals = {v1}
  BadKeys = {k2}
  Privileged = {f1}
  UninitMsgs = {"EMPTY", "PUTREQ", "DELREQ"}
  MaxCrashes = 2
  MaxRequests = 2
  MaxTimeouts = 1
  NULL = NULL
  Wild = Wild
  Torn = Torn
SYMMETRY WorkerSymmetry
CONSTRAINT Orderly
INVARIANTS CommitHasOperands
PROPERTIES OnlyCommittedWrites PreparedRestored
CHECK_DEADLOCK FALSE
