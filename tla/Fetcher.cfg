CONSTANTS
    t1 = t1  t2 = t2  t3 = t3
    h1 = h1
    Global = Global  Nil = Nil
    Tasks <- MCTasks
    Hosts <- MCHosts
    HostOf <- MCHostOf
    Workers = 2
    Retries = 1
    GlobalRate = 2
    HostRate = 1
    RetryAfters <- MCRetryAfters
    Unasked = 1
    Cooldown = 1
    BlockedSleep = 1
SPECIFICATION FairSpec
INVARIANTS RateBound HostRateBound
PROPERTY Returns
