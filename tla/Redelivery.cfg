\* Three events, a Dedup that remembers two, and a restart.
SPECIFICATION Spec
CONSTANTS
    Events = {e1, e2, e3}
    Stamps = {s1, s2, s3}
    Bare = {e1, e2, e3}
    Kinds = {"mention", "reply", "shortcut", "click"}
    Workers = {w1, w2}
    None = None
    MaxSeen = 2
    MaxDeliveries = 5
    MaxRestarts = 1
SYMMETRY Symmetry
CHECK_DEADLOCK FALSE
INVARIANT KeyNamesOneTurn
PROPERTY RecentDropped
