--------------------------- MODULE MCSolverProcess ---------------------------
(***************************************************************************)
(* Constants for the runs of SolverProcess.                                *)
(***************************************************************************)
EXTENDS SolverProcess

CONSTANTS d1, d2,    \* devices
          v1, v2     \* versions of the library

\* All devices are of one generation.
Twins == [d \in Device |-> 120]

\* Versions of different sizes, and the constant for a fatbin that cannot be opened.
Sizes  == [v \in Library |-> IF v = v1 THEN 1 ELSE 2]
Failed == [v \in Library |-> {3}]
=============================================================================
