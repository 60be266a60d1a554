---------------------------- MODULE MCModuleCache ----------------------------
(***************************************************************************)
(* Constants for the runs of ModuleCache.                                  *)
(***************************************************************************)
EXTENDS ModuleCache, TLC

CONSTANTS s1, s2, s3,    \* solvers
          p1, p2,        \* processes
          kBig, kSmall   \* the same n with a BPB over the budget, and a BPB
                         \* that fits

\* All solvers in one process.
OneHome == [s \in Solver |-> p1]

\* s1 alone in its process, the others together in another one.
TwoHomes == [s \in Solver |-> IF s = s1 THEN p1 ELSE p2]

\* An explicit request, and an automatic one that has to turn a candidate down.
BothRequests == {<<kSmall>>, <<kBig, kSmall>>}

Explicit == {<<kSmall>>}

ModuleSymmetry == Permutations(Module)
=============================================================================
