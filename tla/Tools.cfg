SPECIFICATION Spec
CONSTANTS
    Parked = 3
    PerRound = 2
    MaxRounds = 2
    MaxParks = 2
    MaxCrashes = 1
    ChunkCount <- ThreeArticles
    BatchSize = 2
    SaveEvery = 2
    CommitRows = 2
    MaxRuns = 4
    MaxKills = 1
    MaxSkips = 1
    Sources = {"devto", "rss"}
    Retention = 1
    PruneEvery = 1
    Sends = 2
    MaxMade = 2
    MaxResets = 1
    MaxFaults = 1
    MaxTicks = 2
    KeepDumps = 2
    FullKeep = 2
    FullEvery = 2
    MaxDumps = 5
    MaxCuts = 4
INVARIANTS NothingDropped LoopReachesAll
INVARIANTS VectorsMatch RetriesExactly CorpusComplete NothingLeftBehind
INVARIANTS ChunksCover ChunkBound PathsAreAncestors
INVARIANTS DeltasCountOnce RestorePoint
\* The tools end.
CHECK_DEADLOCK FALSE
