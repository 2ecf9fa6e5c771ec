\* A renewal under way while the workspace is bound anew.
SPECIFICATION BindSpec
CONSTANTS
    Turns = {t1, t2}
    Keepers = {}
    Creds = {c1, c2}
    Enterprises = {e1, e2}
    Keyed = TRUE
    RequireBinding = TRUE
    None = None
    MaxIssued = 3
    MaxFaults = 0
    Binders = {b}
    Leavers = {u}
    Pendings = {p}
CHECK_DEADLOCK FALSE
INVARIANT StoredTokenFits
