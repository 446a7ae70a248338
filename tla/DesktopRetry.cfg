CONSTANTS
    MaxProcesses = 3
    MaxCrashes = 1
SPECIFICATION Spec
INVARIANT RetryJudgesItsOwnChild
CHECK_DEADLOCK FALSE
