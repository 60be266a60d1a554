---------------------------- MODULE MCHybridSolver ----------------------------
(***************************************************************************)
(* Constants for the runs of HybridSolver.                                 *)
(***************************************************************************)
EXTENDS HybridSolver, TLC

CONSTANTS st1, st2    \* two streams of the caller

StreamSymmetry == Permutations(Stream)
=============================================================================
