\* A redelivery across a restart.
SPECIFICATION Spec
CONSTANTS
    Events = {e1}
    Stamps = {s1}
    Bare = {e1}
    Kinds = {"mention", "reply", "shortcut", "click"}
    Workers = {w1, w2}
    None = None
    MaxSeen = 2
    MaxDeliveries = 5
    MaxRestarts = 1
CHECK_DEADLOCK FALSE
INVARIANT KeyNeverRefused
