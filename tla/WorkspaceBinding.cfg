\* One workspace, two turns, two callbacks of one install link and one uninstall.
SPECIFICATION BindSpec
CONSTANTS
    Turns = {t1, t2}
    Keepers = {}
    Creds = {c1, c2}
    Enterprises = {e1, e2}
    Keyed = TRUE
    RequireBinding = TRUE
    None = None
    MaxIssued = 3
    MaxFaults = 1
    Binders = {b1, b2}
    Leavers = {u}
    Pendings = {p}
SYMMETRY Symmetry
VIEW View
CHECK_DEADLOCK FALSE
INVARIANTS
    SpentOnce
    OneCredential
    UnbindEndsService
    AdoptsBinding
