SPECIFICATION FairSpec
CONSTANTS
  j1 = j1
  j2 = j2
  j3 = j3
  w1 = w1
  w2 = w2
  Jobs = {j1, j2, j3}
  Silent = {j1, j2}
  Workers = {w1, w2}
  Acceptor = Acceptor
  MaxSpurious = 2
  NULL = NULL
INVARIANTS ListIsChain TakesAreSafe
PROPERTIES QueueIsFifo AcceptedIsHandled StopSettles
CHECK_DEADLOCK FALSE
