SPECIFICATION Spec
CONSTANTS
  Nodes <- MCNodes
  Messages <- MCMessages
  Data <- MCData
  Empty = 0
  Actions <- BreakActions
  Lowered <- MCLowered
  None = None
  Fails = Fails
  MaxActionSteps = 5
  MaxCalls = 5
  MaxPosts = 1
  DriverCalls = {"RunToCompletion"}
  Breakable = {"a", "c", "meet"}
INVARIANTS SuspendedIffPaused StopsAtEveryVisit
PROPERTIES StopsOncePerVisit
CHECK_DEADLOCK FALSE
