CONSTANTS
    u1 = u1  u2 = u2  u3 = u3
    x = x  y = y  z = z
    None = None
    Urls <- MCUrls
    Fps <- MCFps
    Close <- MCClose
    Bodies <- NoBodies
    Pages <- StablePages
    Misses <- NoMisses
    Gate <- KeepAll
    Corpus <- NoRows
    BatchSize = 2
    SeenMax = 2
    StreamMaxLen = 0
    PoolMax = 2
    Faulty = {"xread"}
    MaxFaults = 3
    MaxCrashes = 0
SPECIFICATION FairSpec
PROPERTY EventuallySettled
