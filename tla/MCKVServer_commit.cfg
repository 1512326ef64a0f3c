SPECIFICATION Spec
CONSTANTS
  f1 = f1
  w1 = w1
  c1 = c1
  k1 = k1
  kbad = kbad
  v1 = v1
  v2 = v2
  Followers = {f1}
  Workers = {w1}
  Conns = {c1}
  Keys = {k1, kbad}
  Vals = {v1, v2}
  BadKeys = {kbad}
  Privileged = {f1}
  UninitMsgs = {"EMPTY", "PUTREQ", "DELREQ"}
  MaxCrashes = 2
  MaxQueue = 1
  MaxFiles = 3
  NULL = NULL
  Wild = Wild
  Torn = Torn
CONSTRAINT Bounded
PROPERTY CommitFinished
CHECK_DEADLOCK FALSE
