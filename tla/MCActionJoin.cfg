SPECIFICATION Spec
CONSTANTS
  Nodes <- MCNodes
  Messages <- MCMessages
  Data <- MCData
  Empty = 0
  Actions <- JoinActions
  Lowered <- MCLowered
  None = None
  Fails = Fails
  MaxActionSteps = 5
  MaxCalls = 3
  MaxPosts = 1
  DriverCalls = {"RunToCompletion"}
  Breakable = {"end"}
INVARIANTS StopsAtEveryVisit
CHECK_DEADLOCK FALSE
