CONSTANTS
    UseCursor = TRUE
    SinceWindows = {0, 1}
    Overlap = 1
    PerPage = 2
    MaxPages = 3
    MaxPageFailures = 1
    Concurrency = 2
    TicksPerSecond = 2
    Units = {1, 2}
    Lag = 1
    MaxArticles = 3
    MaxTime = 3
    MaxFaults = 1
SPECIFICATION FairSpec
INVARIANTS CompleteRunsLeaveNone CursorNewest
PROPERTY EventuallyPublished
