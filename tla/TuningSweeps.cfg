SPECIFICATION Spec

CONSTANTS
    N = 54
    Requests <- BPBWalks
    Suggest <- SuggestedDims
    ForcedDim = 128
    Modes = {"Suggested", "Autotune", "Forced"}
    Qualities = {"right", "wrong", "silent"}
    Speeds = {1, 2}
    Faults = {"compiler", "device"}
    MaxBuilds = 3

INVARIANTS
    TypeOK
    RowsNameTheirKernel
    NoWrongMemo
    LaunchStateConsistent

PROPERTIES
    WinnerIsFastest

CHECK_DEADLOCK FALSE
