---------------------------- MODULE MCSolverTuning ----------------------------
(***************************************************************************)
(* Constants for the runs of SolverTuning: 54 x 54 matrices and BPBs whose *)
(* suggestions are 50 threads (no candidate at all), 1024 (candidates 960, *)
(* 992 and 1024) and 48 (the one candidate, 96, is not the suggestion).    *)
(***************************************************************************)
EXTENDS SolverTuning, TLC

BPBWalks == {<<4, 2, 1>>, <<1>>}

SuggestedDims == (4 :> 50) @@ (2 :> 1024) @@ (1 :> 48)
=============================================================================
