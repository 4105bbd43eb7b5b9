CONSTANTS
    Kinds = {"devto", "stackexchange", "rss"}
    Upstream = 4
    PerPage = 2
    MaxPage = 3
    MaxTries = 3
    FetchBody = TRUE
    RequireAnswered = TRUE
    Feeds <- TwoFeeds
SPECIFICATION Spec
INVARIANTS ReturnsWindow EmptyMeansExhausted SEFailsAfterRetries
