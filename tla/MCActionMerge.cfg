SPECIFICATION Spec
CONSTANTS
  Nodes <- MCNodes
  Messages <- MCMessages
  Data <- MCData
  Empty = 0
  Actions <- MergeActions
  Lowered <- MCLowered
  None = None
  Fails = Fails
  MaxActionSteps = 5
  MaxCalls = 3
  MaxPosts = 1
  DriverCalls = {"RunToCompletion"}
  Breakable = {}
INVARIANTS DrainedIsCompleted
CHECK_DEADLOCK FALSE
