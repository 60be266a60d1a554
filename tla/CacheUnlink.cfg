SPECIFICATION FairSpec

CONSTANTS
    s1 = s1
    s2 = s2
    s3 = s3
    p1 = p1
    p2 = p2
    kBig = kBig
    kSmall = kSmall
    None = None
    Key = {kBig, kSmall}
    Fits = {kSmall}
    Solver = {s1, s2}
    Process = {p1, p2}
    Home <- TwoHomes
    Module = {m1, m2, m3}
    Requests <- Explicit
    Modes = {"Auto"}
    InitFiles = {"nomagic"}
    Faults = {}

PROPERTIES
    GoodCubinStays
