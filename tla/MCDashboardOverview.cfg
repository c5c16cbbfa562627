CONSTANTS
    Queries = {"kpis", "tracks"}
    MinInterval = 2
    MaxSnapshots = 2
    MaxTime = 3
    MaxPolls = 1
    MaxFailures = 1
SPECIFICATION FairSpec
INVARIANTS
    ViewIsCurrent
PROPERTIES
    QueriesAreSpaced
    ViewCatchesUp
