SPECIFICATION Spec

CONSTANTS
    s1 = s1
    s2 = s2
    s3 = s3
    p1 = p1
    p2 = p2
    kBig = kBig
    kSmall = kSmall
    None = None
    Key = {kBig, kSmall}
    Fits = {kSmall}
    Solver = {s1, s2}
    Process = {p1}
    Home <- OneHome
    Module = {m1, m2, m3, m4, m5, m6}
    Requests <- BothRequests
    Modes = {"Auto", "NoDisk", "NoCache"}
    InitFiles = {None}
    Faults = {"compiler", "driver", "io", "crash"}

SYMMETRY ModuleSymmetry

INVARIANTS
    ServedModule
    NoUseAfterUnload
    NoCacheIsPrivate
    NoPartialCubin
    NoTmpLeftBehind

PROPERTIES
    ImplementsStore
