CONSTANTS
    MaxProcesses = 4
    MaxCrashes = 2
SPECIFICATION FairSpec
INVARIANT DesktopTypeOK
INVARIANT OwnProcessesHeld
INVARIANT QuietQuitStopsOwn
INVARIANT OnlyOwnStopped
PROPERTY RetryUsesWhatRuns
CHECK_DEADLOCK FALSE
