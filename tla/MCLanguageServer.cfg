\* Two documents, one edited from a file that is there and one that is not.
CONSTANTS
    Absent = Absent
    Names = {"main", "lib"}
    Sweeps = {"sweep1"}
    MaxCalls = 3
    Drawn = {"main"}
    FilesAtStart <- MCFiles
SPECIFICATION FairSpec
INVARIANTS
    TypeOK
    TextsHaveTheirSource
    ClosedStaysWithdrawn
    SettledScreensAreCurrent
PROPERTIES
    PublishedInOrder
    ServerSettles

\* The client may stop.
CHECK_DEADLOCK FALSE
