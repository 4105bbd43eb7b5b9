CONSTANTS
    u1 = u1  u2 = u2  u3 = u3
    x = x  y = y  z = z
    None = None
    Urls <- MCUrls
    Fps <- MCFps
    Close <- MCClose
    Bodies <- SameBodies
    Pages <- SamePages
    Misses <- FlakyMisses
    Gate <- MCGate
    Corpus <- NoRows
    BatchSize = 2
    SeenMax = 2
    StreamMaxLen = 0
    PoolMax = 1
    Faulty <- AllCalls
    MaxFaults = 2
    MaxCrashes = 1
SPECIFICATION Spec
INVARIANTS TypeOK ParkedOnce StoredMetricSound OneBatchOutstanding IndexComplete DistinctContent RejectionsCounted
