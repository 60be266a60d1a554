SPECIFICATION Spec

CONSTANTS
    N = 54
    Requests <- BPBWalks
    Suggest <- SuggestedDims
    ForcedDim = 128
    Modes = {"Autotune"}
    Qualities = {"right", "nan"}
    Speeds = {1, 2}
    Faults = {}
    MaxBuilds = 1

INVARIANTS
    MemoIsValidated

CHECK_DEADLOCK FALSE
