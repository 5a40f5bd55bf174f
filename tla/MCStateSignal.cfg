\* A message in flight while a timer is queued.
CONSTANTS
    None = None
    Anyone = Anyone
    Graph <- MCGraph
    Vars <- MCVars
    Features <- MCFeatures
    Casts <- TwinCasts
    Looping <- MCLooping
    Delays = {1}
    MaxStateEvents = 12
    MaxDoSteps = 10
    MaxTime = 20
    MaxLevels = 6
SPECIFICATION Spec
PROPERTIES
    SignalsComeBeforeTime
\* The calls are bounded.
CHECK_DEADLOCK FALSE
