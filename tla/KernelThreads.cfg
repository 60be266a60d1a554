SPECIFICATION FairSpec

CONSTANTS
    kN = 2
    kBPB = 2
    BlockDimX = 3
    Kernels = {"chol_n54", "reduce_n54", "reduce_eig_n54", "full_n54",
               "full_n54_batched", "finish_n54", "geneig_full", "geneig_reduce"}
    Crews <- SomeCrews
    Host = {h1, h2}
    Faults = {"attribute"}

INVARIANTS
    TypeOK
    NoRace
    FactorSurvives
    ResultsDelivered
    RejectedOnlyIfRefused

PROPERTIES
    BlockEnds

CHECK_DEADLOCK FALSE
