SPECIFICATION FairSpec
CONSTANTS
  Nodes <- MCNodes
  Messages <- MCMessages
  Data <- MCData
  Empty = 0
  Actions <- RunActions
  Lowered <- MCLowered
  None = None
  Fails = Fails
  MaxActionSteps = 5
  MaxCalls = 3
  MaxPosts = 1
  DriverCalls = {"Step", "RunToCompletion", "RunToQuiescence"}
  Breakable = {}
INVARIANTS TypeOK TokenIdentity ParkedAtAccept CompletedHoldsNoToken
PROPERTIES SuspensionIsReal DeadlockIsReal MergePassesOnce TakenMessageIsHandled CallReturns PlaysTheTokenGame
CHECK_DEADLOCK FALSE
