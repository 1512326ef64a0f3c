SPECIFICATION FairSpec
CONSTANTS
  f1 = f1
  f2 = f2
  w1 = w1
  w2 = w2
  t1 = t1
  t2 = t2
  k1 = k1
  k2 = k2
  v1 = v1
  v2 = v2
  Followers = {f1, f2}
  Ring <- MCRing2
  Redundancy = 2
  Second = {}
  PrimaryAt <- MCPrimaryAt
  Workers = {w1, w2}
  Conns = {t1, t2}
  Writers = {t1}
  Readers = {t1, t2}
  Kinds <- MCKinds
  Keys = {k1}
  Vals = {v1}
  BadKeys = {}
  Privileged = {}
  UninitMsgs = {"EMPTY"}
  MaxCrashes = 0
  MaxRequests = 3
  MaxTimeouts = 1
  NULL = NULL
  Wild = Wild
  Torn = Torn
CONSTRAINT Orderly
INVARIANTS SystemTypeOK SuccessIsStored ReplicasAgree GetIsCurrent
PROPERTIES RequestsAnswered
CHECK_DEADLOCK FALSE
