CONSTANTS
    u1 = u1  u2 = u2  u3 = u3
    x = x  y = y  z = z
    None = None
    Urls <- MCUrls
    Fps <- MCFps
    Close <- MCClose
    Bodies <- MCBodies
    Pages <- StablePages
    Misses <- SlowMisses
    Gate <- KeepAll
    Corpus <- OldRow
    BatchSize = 2
    SeenMax = 2
    StreamMaxLen = 2
    PoolMax = 2
    Faulty <- SafeCalls
    MaxFaults = 2
    MaxCrashes = 1
SPECIFICATION FairSpec
INVARIANTS NoLoss IndexBackedByRows
PROPERTIES ImplementsDelivery EventuallySettled
