---------------------------- MODULE MCFusedKernel ----------------------------
(***************************************************************************)
(* Constants for the runs of FusedKernel.                                  *)
(***************************************************************************)
EXTENDS FusedKernel

\* Everybody works; one thread does the eigensolver; others do without the first
\* thread; every operator has a crew of its own.
SomeCrews ==
    {[o \in Operator |-> Thread],
     [o \in Operator |-> IF o = "heev" THEN {0} ELSE Thread],
     [o \in Operator |-> IF o = "potrf" THEN {0} ELSE {1, 2}],
     [o \in Operator |-> CASE o = "potrf" -> {0, 1} [] o = "trsmLeft" -> {2}
                           [] o = "trsmRight" -> {0, 2} [] o = "heev" -> {1, 2}
                           [] o = "trsmLeftConj" -> {0}]}
=============================================================================
