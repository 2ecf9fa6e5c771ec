\* Every surface but the plain DM, under fairness, while the store closes; no symmetry.
SPECIFICATION FairSpec
CONSTANTS
    Events = {e1, e2}
    Cases = {c1, c2}
    None = None
    Kinds = {"mention", "followup", "click", "assistant", "box"}
    MaxRestarts = 0
    ShutsDown = TRUE
CHECK_DEADLOCK FALSE
INVARIANTS
    CommittedNotResent
PROPERTIES
    RearmOnlyUncommitted
    ThreadFreed
    InteractionEnds
