\* A region state entered from outside its composite.
CONSTANTS
    None = None
    Anyone = Anyone
    Graph <- MCGraph
    Vars <- MCVars
    Features <- MCFeatures
    Casts <- AnnexCasts
    Looping <- MCLooping
    Delays = {1}
    MaxStateEvents = 12
    MaxDoSteps = 10
    MaxTime = 20
    MaxLevels = 6
SPECIFICATION Spec
INVARIANTS
    DoBehaviorsBelongToActiveStates
\* The calls are bounded.
CHECK_DEADLOCK FALSE
