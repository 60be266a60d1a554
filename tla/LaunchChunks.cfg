SPECIFICATION FairSpec

CONSTANTS
    BPB = 2
    NumStreams = 3
    Totals = {0, 2, 4, 6, 8, 10}
    Chunks = {0, 2, 4, 6}
    Faults = {"launch"}

INVARIANTS
    TypeOK
    InBounds
    OneWriter

PROPERTIES
    ImplementsBatch

CHECK_DEADLOCK FALSE
