\* One turn, with and without a claim store, answered 200, 202 or not at all.
SPECIFICATION FairSpec
CONSTANTS
    Attempt = 2
    Bound = 5
    BackoffFirst = 1
    BackoffMax = 2
    PollMin = 1
    PollMax = 2
    LastAsk = 1
    LlmResends = 2
    None = None
    RetryAfters = {None, 0, 1, 3, 9}
    ClaimStores = {TRUE, FALSE}
    Polls = TRUE
CHECK_DEADLOCK FALSE
INVARIANTS
    OneCommit
    DoubtIsPending
    FreshRunFits
    GivesUpLate
    DrainCovers
PROPERTIES
    ImplementsTurnOutcome
    SubmitEnds
