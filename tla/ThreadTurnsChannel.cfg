\* A channel thread: mentions, replies and button clicks; crashes, lost volumes.
SPECIFICATION Spec
CONSTANTS
    Events = {e1, e2, e3}
    Cases = {c1, c2}
    None = None
    Kinds = {"mention", "followup", "click"}
    MaxRestarts = 1
    ShutsDown = FALSE
SYMMETRY Interchangeable
CHECK_DEADLOCK FALSE
INVARIANTS
    TypeOK
    OneTurnPerThread
    TurnOnMappedCase
    SeededMeansLanded
    CatchUpDelivered
    NoticeOnce
    NoticeNotLost
PROPERTIES
    RestartOwedUntilLanded
    ImplementsCaseLink
