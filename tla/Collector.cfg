CONSTANTS
    Ops = {o1, o2, o3, o4}
    MaxBatch = 2
    MaxBuffer = 3
    MaxStatements = 0
SPECIFICATION FairSpec
INVARIANT TypeOK
INVARIANT NoStrandedEvents
INVARIANT OneHolder
INVARIANT WithinLimits
INVARIANT ReturnedFlushEmptied
INVARIANT StatsAreExact
PROPERTY ImplementsLedger
PROPERTY EveryEventSettles
PROPERTY AwaitedFlushReturns
CHECK_DEADLOCK FALSE
