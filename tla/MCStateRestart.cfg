\* A state left and entered again while its do behavior is finishing.
CONSTANTS
    None = None
    Anyone = Anyone
    Graph <- MCGraph
    Vars <- MCVars
    Features <- MCFeatures
    Casts <- RestartCasts
    Looping <- MCLooping
    Delays = {1}
    MaxStateEvents = 12
    MaxDoSteps = 10
    MaxTime = 20
    MaxLevels = 6
SPECIFICATION Spec
PROPERTIES
    CompletionWaitsForDoBehavior
\* The calls are bounded.
CHECK_DEADLOCK FALSE
