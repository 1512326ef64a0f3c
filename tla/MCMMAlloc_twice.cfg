SPECIFICATION Spec
CONSTANTS
  Base = 100
  HeapWords = 22
  Sizes = {0, 1, 2, 6}
  UserWords = {7}
INVARIANTS OwnedIsNotFree
CONSTRAINT Bounded
CHECK_DEADLOCK FALSE
