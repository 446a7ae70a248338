SPECIFICATION FilesSpec
CONSTANTS
    Scanners = {p1}
    Urls = {u1, u2}
    Names = {n1}
    MaxRequests = 2
INVARIANT ScanReadsItsSource
CHECK_DEADLOCK FALSE
