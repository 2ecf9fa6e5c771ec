\* A backend with claims that answers every turn itself.
SPECIFICATION Spec
CONSTANTS
    Attempt = 2
    Bound = 5
    BackoffFirst = 1
    BackoffMax = 2
    PollMin = 1
    PollMax = 2
    LastAsk = 1
    LlmResends = 2
    None = None
    RetryAfters = {None, 0, 1, 3, 9}
    ClaimStores = {TRUE}
    Polls = FALSE
CHECK_DEADLOCK FALSE
INVARIANT ResendOnlyUncommitted
