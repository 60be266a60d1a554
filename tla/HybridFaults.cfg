SPECIFICATION FairSpec

CONSTANTS
    st1 = st1
    st2 = st2
    NoStream = NoStream
    Stream = {st1, st2}
    MaxLaunches = 3
    MaxBatch = 2
    Serial = TRUE
    Faults = {"memory", "library", "converge"}

INVARIANTS
    TypeOK
    ResultOwn
    NoScratchRace
    XsyevFailureTold
    LargestBatchCovered

PROPERTIES
    ScratchStays
    NothingAfterDestroy
    LaunchCompletes

CHECK_DEADLOCK FALSE
