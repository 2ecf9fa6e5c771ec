\* The process-wide default: two threads and the keepalive share one credential.
SPECIFICATION Spec
CONSTANTS
    Turns = {t1, t2}
    Keepers = {k}
    Creds = {c}
    Enterprises = {e}
    Keyed = FALSE
    RequireBinding = FALSE
    None = None
    MaxIssued = 4
    MaxFaults = 3
CHECK_DEADLOCK FALSE
INVARIANTS
    TypeOK
    PresentsLive
    UsedMeansStored
    CloseOutlastsRenewal
PROPERTIES
    StoreAdvances
    ImplementsTokenCustody
