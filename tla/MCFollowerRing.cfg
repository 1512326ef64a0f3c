SPECIFICATION FairSpec
CONSTANTS
  t1 = t1
  t2 = t2
  Threads = {t1, t2}
  MaxId = 4
  Ids <- MCIds
  Hashes <- MCHashes
  FollowerCapacity = 3
  RedundancyArg = 2
  NULL = NULL
INVARIANTS TypeOK RingSorted CountIsExact ThreadsInPlace PollsReplicas PhasesAgree
PROPERTY LockReleased
CHECK_DEADLOCK FALSE
