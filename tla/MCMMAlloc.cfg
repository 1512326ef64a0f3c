SPECIFICATION Spec
CONSTANTS
  Base = 100
  HeapWords = 22
  Sizes = {0, 1, 2, 6}
  UserWords = {1}
INVARIANTS HeapTiled DataKept
PROPERTY NothingElseLost
CONSTRAINT Bounded
CHECK_DEADLOCK FALSE
