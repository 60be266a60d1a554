SPECIFICATION Spec

CONSTANTS
    st1 = st1
    st2 = st2
    NoStream = NoStream
    Stream = {st1, st2}
    MaxLaunches = 3
    MaxBatch = 2
    Serial = TRUE
    Faults = {"memory"}

SYMMETRY StreamSymmetry

INVARIANTS
    ScratchCovers

CHECK_DEADLOCK FALSE
