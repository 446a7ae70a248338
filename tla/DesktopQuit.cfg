CONSTANTS
    MaxProcesses = 2
    MaxCrashes = 0
SPECIFICATION Spec
INVARIANT QuitStopsEverythingStarted
CHECK_DEADLOCK FALSE
