SPECIFICATION Spec

CONSTANTS
    d1 = d1
    d2 = d2
    v1 = v1
    v2 = v2
    None = None
    Thread = {t1, t2}
    Solver = {s1, s2}
    Device = {d1}
    Arch <- Twins
    Library = {v1, v2}
    Fingerprint <- Sizes
    Misread <- Failed
    Unhashed = 0
    MaxRetained = 3
    Faults = {"driver", "compiler", "libraries", "fatbin"}

INVARIANTS
    TypeOK
    StatusTold
    ModulesHaveContext
    OwnDevice
    SameFingerprint
