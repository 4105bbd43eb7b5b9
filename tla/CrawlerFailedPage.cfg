CONSTANTS
    UseCursor = TRUE
    SinceWindows = {3}
    Overlap = 1
    PerPage = 1
    MaxPages = 0
    MaxPageFailures = 2
    Concurrency = 2
    TicksPerSecond = 1
    Units = {1}
    Lag = 1
    MaxArticles = 3
    MaxTime = 5
    MaxFaults = 1
SPECIFICATION Spec
INVARIANT NoneLeftBehind
