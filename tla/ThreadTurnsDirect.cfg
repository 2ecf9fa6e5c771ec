\* Direct messages, the Assistant panel, the shortcut and the data box.
SPECIFICATION Spec
CONSTANTS
    Events = {e1, e2, e3}
    Cases = {c1, c2}
    None = None
    Kinds = {"dm", "assistant", "shortcut", "box"}
    MaxRestarts = 1
    ShutsDown = FALSE
SYMMETRY Interchangeable
CHECK_DEADLOCK FALSE
INVARIANTS
    ToldOncePerProcess
    PlaceholderSettled
    CommittedReplyOffered
PROPERTIES
    ImplementsCaseLink
