CONSTANTS
    Requests = {r1, r2, r3}
    Users = {u1}
    None = none
    MaxFaults = 1
SPECIFICATION FairSpec
INVARIANT ScanTypeOK
INVARIANT FindingsMatchStatus
INVARIANT UndisturbedScansConclude
INVARIANT OneTransaction
PROPERTY ImplementsScanLedger
PROPERTY LockIsReleased
CHECK_DEADLOCK FALSE
