CONSTANTS
    Requests = {r1, r2}
    Users = {u1}
    None = none
    MaxFaults = 0
SPECIFICATION Spec
INVARIANT DeletedScansAreGone
CHECK_DEADLOCK FALSE
