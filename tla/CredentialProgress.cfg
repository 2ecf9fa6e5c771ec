\* The process-wide default: one thread against the keepalive.
SPECIFICATION FairSpec
CONSTANTS
    Turns = {t1}
    Keepers = {k}
    Creds = {c}
    Enterprises = {e}
    Keyed = FALSE
    RequireBinding = FALSE
    None = None
    MaxIssued = 4
    MaxFaults = 2
CHECK_DEADLOCK FALSE
PROPERTIES
    StoreCatchesUp
    TurnsEnd
