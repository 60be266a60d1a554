SPECIFICATION Spec

CONSTANTS
    st1 = st1
    st2 = st2
    NoStream = NoStream
    Stream = {st1, st2}
    MaxLaunches = 2
    MaxBatch = 1
    Serial = FALSE
    Faults = {}

SYMMETRY StreamSymmetry

INVARIANTS
    ChunkedAsSingle

CHECK_DEADLOCK FALSE
