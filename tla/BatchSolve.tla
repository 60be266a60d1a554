------------------------------ MODULE BatchSolve ------------------------------
(***************************************************************************)
(* What a call that solves a batch promises, however the batch is cut and  *)
(* wherever its pieces run.                                                *)
(*                                                                         *)
(* The call takes the matrices of the batch on in order.  It returns when  *)
(* all are taken on, or throws at any point before; what has been taken on *)
(* by then is solved all the same, in any order, and nothing else is       *)
(* touched, so that after an exception the caller can take up where the    *)
(* call left off.                                                          *)
(***************************************************************************)
EXTENDS Integers

VARIABLES size,      \* the number of matrices in the batch
          accepted,  \* how many have been taken on: the first ones
          solved,    \* the matrices whose results are there
          outcome    \* "open", "returned", "threw"

bvars == <<size, accepted, solved, outcome>>

BatchInit == size \in Nat /\ accepted = 0 /\ solved = {} /\ outcome = "open"

Accept == /\ outcome = "open"
          /\ accepted' \in accepted + 1 .. size
          /\ UNCHANGED <<size, solved, outcome>>

Solve == /\ \E T \in (SUBSET (0 .. accepted - 1)) \ {{}} : solved' = solved \cup T
         /\ UNCHANGED <<size, accepted, outcome>>

Return == /\ outcome = "open" /\ accepted = size
          /\ outcome' = "returned"
          /\ UNCHANGED <<size, accepted, solved>>

Throw == /\ outcome = "open"
         /\ outcome' = "threw"
         /\ UNCHANGED <<size, accepted, solved>>

BatchNext == Accept \/ Solve \/ Return \/ Throw

\* The call comes back, and the device catches up with it.
Progress == /\ <>(outcome # "open")
            /\ []<>(0 .. accepted - 1 \subseteq solved)

BatchSpec == BatchInit /\ [][BatchNext]_bvars /\ Progress
=============================================================================
