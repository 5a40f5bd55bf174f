\* Objects exhibiting state machines: every driver, every shape of transition.
CONSTANTS
    None = None
    Anyone = Anyone
    Graph <- MCGraph
    Vars <- MCVars
    Features <- MCFeatures
    Casts <- MCCasts
    Looping <- MCLooping
    Delays = {1}
    MaxStateEvents = 12
    MaxDoSteps = 10
    MaxTime = 20
    MaxLevels = 6
SPECIFICATION FairSpec
INVARIANTS
    TypeOK
    EntriesMatchConfiguration
    TimersMatchQueue
    HeldEventsStillDeferred
    PastEventsAreNegativeTimers
    ConflictsAreResolved
    OnlyLoopsExhaustTheBudget
PROPERTIES
    KeepsArrivalOrder
    ParkedMachinesAreQuiescent
    
    DrainSettlesWithoutWaiting
    CallsReturn
\* A machine may complete, and the calls are bounded.
CHECK_DEADLOCK FALSE
