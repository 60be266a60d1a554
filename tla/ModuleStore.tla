----------------------------- MODULE ModuleStore -----------------------------
(***************************************************************************)
(* What the module cache promises to the solvers, with no cache in it.     *)
(*                                                                         *)
(* A solver is constructed for a set of acceptable configurations.  The    *)
(* construction either ends with a loaded CUmodule compiled for one of     *)
(* them that the device can run, or fails once every one of them has been  *)
(* turned down.  A module may be shared only while somebody holds it, and  *)
(* is unloaded only when nobody does.  Where modules come from (another    *)
(* solver, a file, the compiler), and how, is not said here.               *)
(***************************************************************************)
CONSTANTS Solver,     \* UnifiedGeneigSolver objects, each with its own thread
          Key,        \* ModuleCacheKey: (n, bpb, arch, block_dim_x)
          Module,     \* CachedModule objects
          Fits,       \* the keys whose kernel stays within the smem budget
          Together,   \* the sets of solvers that may die, each with its process
          None        \* no module, no key

VARIABLES want,       \* want[s]: the keys s may still be served with
          refs,       \* refs[s]: the modules s keeps alive
          served,     \* served[s]: the module s launches with, or None
          store       \* store[m]: the key m was compiled for while loaded

svars == <<want, refs, served, store>>

Referenced(R) == UNION {R[s] : s \in Solver}

StoreInit == /\ want = [s \in Solver |-> {}]
             /\ refs = [s \in Solver |-> {}]
             /\ served = [s \in Solver |-> None]
             /\ store = [m \in Module |-> None]

\* A construction starts with the keys it may be served with.
Begin(s) == /\ refs[s] = {} /\ served[s] = None
            /\ \E W \in SUBSET Key : want' = [want EXCEPT ![s] = W]
            /\ UNCHANGED <<refs, served, store>>

\* A key is turned down: it cannot be loaded, or its kernel does not fit.
TurnDown(s) == /\ served[s] = None
               /\ \E k \in want[s] : want' = [want EXCEPT ![s] = @ \ {k}]
               /\ UNCHANGED <<refs, served, store>>

\* A module nobody holds and that is not loaded is loaded for a wanted key;
\* the references it replaces may go in the same step.
Load(s) == \E m \in Module, k \in want[s] :
              /\ served[s] = None
              /\ store[m] = None /\ m \notin Referenced(refs)
              /\ store' = [store EXCEPT ![m] = k]
              /\ \E R \in SUBSET refs[s] :
                    refs' = [refs EXCEPT ![s] = R \cup {m}]
              /\ UNCHANGED <<want, served>>

\* A module that some solver still holds is shared, if it has a wanted key.
Share(s) == \E m \in Referenced(refs) :
               /\ served[s] = None
               /\ store[m] \in want[s]
               /\ \E R \in SUBSET refs[s] :
                     refs' = [refs EXCEPT ![s] = R \cup {m}]
               /\ UNCHANGED <<want, served, store>>

\* A reference is given up.
Forget(s) == /\ served[s] = None
             /\ \E R \in SUBSET refs[s] : refs' = [refs EXCEPT ![s] = R]
             /\ UNCHANGED <<want, served, store>>

\* The construction ends well.
Serve(s) == \E m \in refs[s] :
               /\ served[s] = None
               /\ store[m] \in want[s] \cap Fits
               /\ served' = [served EXCEPT ![s] = m]
               /\ UNCHANGED <<want, refs, store>>

\* The destructor of a served solver.
Discard(s) == /\ served[s] # None
              /\ served' = [served EXCEPT ![s] = None]
              /\ refs' = [refs EXCEPT ![s] = {}]
              /\ want' = [want EXCEPT ![s] = {}]
              /\ UNCHANGED store

\* The constructor throws, only when no wanted key is left.
GiveUp(s) == /\ served[s] = None /\ want[s] = {}
             /\ refs' = [refs EXCEPT ![s] = {}]
             /\ UNCHANGED <<want, served, store>>

\* Modules without a holder are unloaded.
Unload == \E m \in Module :
             /\ m \notin Referenced(refs)
             /\ store' = [store EXCEPT ![m] = None]
             /\ UNCHANGED <<want, refs, served>>

\* A process dies: its solvers vanish, and with them what only they held.
Perish == /\ \E P \in Together :
                /\ want' = [s \in Solver |-> IF s \in P THEN {} ELSE want[s]]
                /\ refs' = [s \in Solver |-> IF s \in P THEN {} ELSE refs[s]]
                /\ served' = [s \in Solver |-> IF s \in P THEN None ELSE served[s]]
          /\ \E M \in SUBSET (Module \ Referenced(refs')) :
                store' = [m \in Module |-> IF m \in M THEN None ELSE store[m]]

StoreNext == \/ \E s \in Solver : \/ Begin(s) \/ TurnDown(s) \/ Load(s)
                                  \/ Share(s) \/ Forget(s) \/ Serve(s)
                                  \/ Discard(s) \/ GiveUp(s)
             \/ Unload
             \/ Perish

StoreSpec == StoreInit /\ [][StoreNext]_svars
=============================================================================
