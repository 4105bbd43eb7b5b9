CONSTANTS
    Kinds = {"devto"}
    Upstream = 4
    PerPage = 2
    MaxPage = 3
    MaxTries = 3
    FetchBody = FALSE
    RequireAnswered = TRUE
    Feeds <- TwoFeeds
SPECIFICATION Spec
INVARIANT FailsAfterRetries
