SPECIFICATION Spec
CONSTANTS
  Jobs = {1, 2}
  Words <- MCWords
  Commands <- MCCommands
  Programs = {"prog"}
  MaxToks = 5
  NULL = NULL
INVARIANTS TypeOK ForegroundFirst LaunchedAsTyped
PROPERTY PromptReturns
CHECK_DEADLOCK FALSE
