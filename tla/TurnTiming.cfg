\* A bound that moves between below and above the fallback, and three turns.
SPECIFICATION Spec
CONSTANTS
    Turns = {t1, t2, t3}
    Bounds = {1, 4}
    Margin = 1
    Fallback = 3
    Ttl = 3
    Retry = 1
    None = None
SYMMETRY Symmetry
CHECK_DEADLOCK FALSE
INVARIANTS
    DrainOutlasts
PROPERTIES
    SizedToBound
