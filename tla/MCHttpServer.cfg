SPECIFICATION Spec
CONSTANTS
  c1 = c1
  c2 = c2
  Clients <- MCClients
  Early <- MCEarly
  Leaving <- MCLeaving
  ArgLists <- MCArgLists
  Paths = {"file", "unreadable", "indexed", "directory", "missing", "long", "malformed"}
  ReqLen <- MCReqLen
  LineLen <- MCLineLen
  RespLen <- MCRespLen
  Cap = 1
  NULL = NULL
INVARIANTS TypeOK AnswerIsWhole BytesConserved
PROPERTIES EndIsSeen QueuedAreReset ConversationsEnd
CHECK_DEADLOCK FALSE
