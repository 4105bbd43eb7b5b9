CONSTANTS
    a1 = a1  a2 = a2  a3 = a3
    Articles <- MCArticles
    Seen0 = {a1}
    Listing <- Shifting
    Flaky = {2, 3, 4, 5}
    Concurrency = 2
    MaxPages = 5
    MaxPageFailures = 2
    Lossy = TRUE
    Interruptible = TRUE
SPECIFICATION FairSpec
INVARIANTS NoBlockedSender BreakerBound HeartbeatSound
PROPERTY Terminates
