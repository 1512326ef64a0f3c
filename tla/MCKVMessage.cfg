SPECIFICATION Spec
CONSTANTS
  Symbols <- MCSymbols
  Keys <- MCKeys
  Vals <- MCVals
  Bodies <- MCBodies
  Foreign <- MCForeign
  UrlMax = 14
  NULL = NULL
INVARIANTS RequestExact OperandsPresent ResponseExact NeverBothWait
CHECK_DEADLOCK FALSE
