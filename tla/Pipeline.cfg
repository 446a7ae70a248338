CONSTANTS
    Ops = {o1, o2}
    MaxBatch = 2
    MaxBuffer = 2
    MaxStatements = 2
SPECIFICATION PipelineSpec
SYMMETRY Symmetry
INVARIANT PipelineTypeOK
INVARIANT SentIsStored
INVARIANT StoredWhole
PROPERTY ImplementsDelivery
CHECK_DEADLOCK FALSE
