-------------------------- MODULE SolverProcessProofs --------------------------
(***************************************************************************)
(* What SolverProcess promises, for any number of threads, solvers,        *)
(* devices and libraries.                                                  *)
(***************************************************************************)
EXTENDS SolverProcess, FiniteSetTheorems, TLAPS

\* The calls of a constructor, those of the unified one after it has a context,
\* and those before a solver has its module.
Constructing == InCall \ {"drop", "release"}

UnifiedCalls == {"lookup", "hash", "hashing", "disk", "compile", "write", "publish",
                 "attribute"}

Early == Constructing \ {"attribute", "libraries"}

\* A thread in a call works on a solver that no other thread can name.
SelfInv ==
    /\ \A t \in Thread : /\ pc[t] = "idle" <=> self[t] = None
                         /\ self[t] # None => solver[self[t]] # None /\ ~solver[self[t]].live
    /\ \A t, u \in Thread : self[t] # None /\ self[t] = self[u] => t = u

\* The constructors' phases.
Phase(t) ==
    /\ pc[t] \in Constructing => returned[t] = "pending"
    /\ pc[t] \in UnifiedCalls => Unified(t)
    /\ pc[t] \in {"reduce", "libraries"} => ~Unified(t)
    /\ built[t] # None <=> pc[t] \in {"write", "publish"}

PhaseInv == \A t \in Thread : Phase(t)

\* When a solver has a module.
Holding(t) ==
    /\ pc[t] \in Early \cup {"release"} => handle[self[t]] = None
    /\ pc[t] \in {"attribute", "libraries", "drop"} => handle[self[t]] # None

Held(s) == /\ handle[s] # None => solver[s] # None
           /\ solver[s] # None /\ solver[s].live => handle[s] # None

HandleInv == (\A t \in Thread : Holding(t)) /\ (\A s \in Solver : Held(s))

\* Where the modules are: of the architecture of their solver and of their key,
\* and a reduce kernel on its solver's device and its solver's alone.
Owned(s) ==
    handle[s] # None =>
       /\ loaded[handle[s]] # None
       /\ Arch[loaded[handle[s]].ctx] = Arch[solver[s].dev]
       /\ solver[s].mode # "unified" =>
             /\ loaded[handle[s]].ctx = solver[s].dev
             /\ \A r \in Solver : handle[r] = handle[s] => r = s
             /\ \A k \in Key : entries[k] # handle[s]

Built(t) ==
    built[t] # None =>
       /\ loaded[built[t]] # None
       /\ loaded[built[t]].ctx = Dev(t)
       /\ \A s \in Solver : handle[s] # built[t]
       /\ \A k \in Key : entries[k] # built[t]
       /\ \A u \in Thread : built[u] = built[t] => u = t

Entry(k) ==
    entries[k] # None => loaded[entries[k]] # None /\ Arch[loaded[entries[k]].ctx] = k

ModuleInv == /\ \A s \in Solver : Owned(s)
             /\ \A t \in Thread : Built(t)
             /\ \A k \in Key : Entry(k)

\* The solvers that hold a reference to the context of d, and the modules that
\* failed constructors left in it; each left a reference with its module.
Retaining(d) == {t \in Thread : pc[t] = "retain" /\ Dev(t) = d}

Holders(d) == {s \in Solver : /\ solver[s] # None /\ solver[s].dev = d
                              /\ \A t \in Thread : self[t] = s => pc[t] # "retain"}

Leaked(d) == {m \in Module : /\ loaded[m] # None /\ loaded[m].ctx = d
                             /\ Owners(m) = {}
                             /\ \A t \in Thread : built[t] # m}

RefInv ==
    \A d \in Device : /\ retained[d] >= Cardinality(Holders(d)) + Cardinality(Leaked(d))
                      /\ Claims(d) <= MaxRetained

ProcessInv == TypeOK /\ SelfInv /\ PhaseInv /\ HandleInv /\ ModuleInv /\ RefInv
-----------------------------------------------------------------------------
\* The functions that a step updates are defined on all threads and solvers.
Domains == /\ DOMAIN pc = Thread /\ DOMAIN self = Thread /\ DOMAIN hash = Thread
           /\ DOMAIN built = Thread /\ DOMAIN err = Thread /\ DOMAIN returned = Thread
           /\ DOMAIN solver = Solver /\ DOMAIN handle = Solver

\* The domains of the functions, which is all that the frame lemmas need.
LEMMA DomainsAre == TypeOK => Domains
  BY DEF TypeOK, Domains

\* A thread in a call has a solver, of a known device.
LEMMA InCallSolver ==
    ASSUME TypeOK, SelfInv, NEW t \in Thread, pc[t] # "idle"
    PROVE  /\ self[t] \in Solver /\ solver[self[t]] \in Object
           /\ solver[self[t]] # None /\ ~solver[self[t]].live
           /\ Dev(t) \in Device /\ KeyOf(t) \in Key
<1>1. self[t] # None /\ solver[self[t]] # None /\ ~solver[self[t]].live BY DEF SelfInv
<1>2. /\ self \in [Thread -> Solver \cup {None}]
      /\ solver \in [Solver -> Object \cup {None}]
  BY DEF TypeOK
<1>3. self[t] \in Solver BY <1>1, <1>2
<1>4. solver[self[t]] \in Object BY <1>1, <1>2, <1>3
<1>5. solver[self[t]].dev \in Device BY <1>4 DEF Object
<1>. QED BY <1>1, <1>3, <1>4, <1>5 DEF Dev, KeyOf, Key

\* A module that is loaded gets an identity of its own.
LEMMA FreeModuleIs ==
    ASSUME \E m \in Module : loaded[m] = None
    PROVE  FreeModule \in Module /\ loaded[FreeModule] = None
  BY DEF FreeModule

\* A new solver gets an identity of its own.
FreeSolver == CHOOSE s \in Solver : solver[s] = None

\* The place chosen for a new solver is free.
LEMMA FreeSolverIs ==
    ASSUME \E s \in Solver : solver[s] = None
    PROVE  FreeSolver \in Solver /\ solver[FreeSolver] = None
  BY DEF FreeSolver

\* The path of a cubin is in the file system's domain.
LEMMA PathIs ==
    ASSUME NEW k \in Key, NEW h \in Hashes PROVE Path(k, h) \in Key \X Hashes
  BY DEF Path
-----------------------------------------------------------------------------
\* A step of t leaves the other threads' calls alone, and all solvers but x.
Touches(t, x) ==
    /\ \A u \in Thread \ {t} :
          /\ pc'[u] = pc[u] /\ self'[u] = self[u] /\ hash'[u] = hash[u]
          /\ built'[u] = built[u] /\ err'[u] = err[u] /\ returned'[u] = returned[u]
    /\ \A s \in Solver \ {x} : solver'[s] = solver[s] /\ handle'[s] = handle[s]

\* Returning to the caller changes this thread's state and its own solver only.
LEMMA ReturnTouches ==
    ASSUME Domains, NEW t \in Thread, Return(t) PROVE Touches(t, self[t])
<1> USE DEF Domains, Touches, Goto, Caught, memory, files, told
<1>1. CASE RetainFails(t) BY <1>1 DEF RetainFails
<1>2. CASE Retain(t) BY <1>2 DEF Retain
<1>3. CASE Hit(t) BY <1>3 DEF Hit
<1>4. CASE Miss(t) BY <1>4 DEF Miss
<1>5. CASE HashKnown(t) BY <1>5 DEF HashKnown
<1>6. CASE HashEnter(t) BY <1>6 DEF HashEnter
<1>7. CASE HashCompute(t) BY <1>7 DEF HashCompute
<1>8. CASE DiskHit(t) BY <1>8 DEF DiskHit
<1>9. CASE DiskMiss(t) BY <1>9 DEF DiskMiss
<1>10. CASE Compile(t) BY <1>10 DEF Compile
<1>11. CASE CompileFails(t) BY <1>11 DEF CompileFails
<1>12. CASE Write(t) BY <1>12 DEF Write
<1>13. CASE Publish(t) BY <1>13 DEF Publish
<1>14. CASE ReduceKernel(t) BY <1>14 DEF ReduceKernel
<1>15. CASE Finish(t) BY <1>15 DEF Finish, Handed
<1>16. CASE AttributeFails(t) BY <1>16 DEF AttributeFails, Drop
<1>17. CASE LibrariesFail(t) BY <1>17 DEF LibrariesFail
<1>18. CASE DropModule(t) BY <1>18 DEF DropModule, Drop
<1>19. CASE Release(t) BY <1>19 DEF Release
<1>. QED
  BY <1>1, <1>2, <1>3, <1>4, <1>5, <1>6, <1>7, <1>8, <1>9, <1>10, <1>11, <1>12, <1>13,
     <1>14, <1>15, <1>16, <1>17, <1>18, <1>19 DEF Return

\* Entering create changes this thread's state and the new solver only.
LEMMA CreateTouches ==
    ASSUME Domains, NEW t \in Thread, NEW mode, NEW d, Create(t, mode, d)
    PROVE  Touches(t, FreeSolver)
  BY DEF Domains, Touches, Create, Goto, Clear, files, FreeSolver

\* Entering destroy changes this thread's state and the given solver only.
LEMMA DestroyTouches ==
    ASSUME Domains, NEW t \in Thread, NEW s \in Solver, Destroy(t, s)
    PROVE  Touches(t, s)
  BY DEF Domains, Touches, Destroy, Goto, files, told

\* A launch, refused or not, leaves every solver and all shared state alone.
LEMMA LaunchTouches ==
    ASSUME Domains, NEW t \in Thread, LaunchInvalid(t) \/ Launch(t)
    PROVE  UNCHANGED <<files, memory, frame>> /\ Touches(t, None)
  BY DEF Domains, Touches, LaunchInvalid, Launch, Launched, Clear, files, memory, frame

\* Whatever one thread does, the call of another one is as it was.
LEMMA OtherCalls ==
    ASSUME TypeOK, SelfInv, NEW t \in Thread, Call(t) \/ Return(t),
           NEW u \in Thread, u # t
    PROVE  /\ pc'[u] = pc[u] /\ self'[u] = self[u] /\ hash'[u] = hash[u]
           /\ built'[u] = built[u] /\ err'[u] = err[u] /\ returned'[u] = returned[u]
           /\ self[u] # None => /\ solver'[self[u]] = solver[self[u]]
                                /\ handle'[self[u]] = handle[self[u]]
<1> DEFINE Same == /\ pc'[u] = pc[u] /\ self'[u] = self[u] /\ hash'[u] = hash[u]
                   /\ built'[u] = built[u] /\ err'[u] = err[u] /\ returned'[u] = returned[u]
                   /\ self[u] # None => /\ solver'[self[u]] = solver[self[u]]
                                        /\ handle'[self[u]] = handle[self[u]]
<1>1. Domains BY DomainsAre
<1>2. self[u] \in Solver \cup {None} BY DEF TypeOK
<1>3. ASSUME NEW x, Touches(t, x), self[u] # None => self[u] # x PROVE Same
  BY <1>2, <1>3 DEF Touches
<1>4. CASE Return(t)
  <2>2. self[u] # None => self[u] # self[t] BY DEF SelfInv
  <2>. QED BY <1>1, <1>3, <1>4, <2>2, ReturnTouches
<1>5. ASSUME NEW mode, NEW d, Create(t, mode, d) PROVE Same
  <2>1. solver[FreeSolver] = None BY <1>5, FreeSolverIs DEF Create
  <2>2. self[u] # None => self[u] # FreeSolver BY <2>1 DEF SelfInv
  <2>. QED BY <1>1, <1>3, <1>5, <2>2, CreateTouches
<1>6. ASSUME NEW s \in Solver, Destroy(t, s) PROVE Same
  <2>1. self[u] # None => self[u] # s BY <1>6 DEF SelfInv, Destroy
  <2>. QED BY <1>1, <1>3, <1>6, <2>1, DestroyTouches
<1>7. CASE LaunchInvalid(t) \/ Launch(t)
  <2>1. Touches(t, None) BY <1>1, <1>7, LaunchTouches
  <2>2. UNCHANGED solver /\ UNCHANGED handle BY <1>1, <1>7, LaunchTouches DEF memory
  <2>. QED BY <2>1, <2>2 DEF Touches
<1>. QED BY <1>4, <1>5, <1>6, <1>7 DEF Call
-----------------------------------------------------------------------------
\* SelfInv.

\* The thread that acts is in a call, or not, with its solver.
LEMMA OwnSelf ==
    ASSUME TypeOK, SelfInv, NEW t \in Thread, Call(t) \/ Return(t)
    PROVE  /\ pc'[t] = "idle" <=> self'[t] = None
           /\ self'[t] # None => solver'[self'[t]] # None /\ ~solver'[self'[t]].live
           /\ \A u \in Thread \ {t} : self'[t] # None => self[u] # self'[t]
<1> DEFINE Good == /\ pc'[t] = "idle" <=> self'[t] = None
                   /\ self'[t] # None => solver'[self'[t]] # None /\ ~solver'[self'[t]].live
                   /\ \A u \in Thread \ {t} : self'[t] # None => self[u] # self'[t]
<1>1. Domains BY DomainsAre
<1>2. /\ pc[t] = "idle" <=> self[t] = None
      /\ self[t] # None => solver[self[t]] # None /\ ~solver[self[t]].live
      /\ \A u \in Thread \ {t} : self[t] # None => self[u] # self[t]
  BY DEF SelfInv
<1>3. ASSUME pc[t] # "idle", pc'[t] # "idle", self' = self, solver' = solver PROVE Good
  BY <1>2, <1>3
<1>4. ASSUME pc'[t] = "idle", self'[t] = None PROVE Good
  BY <1>4
<1>5. CASE \/ RetainFails(t) \/ CompileFails(t) \/ AttributeFails(t) \/ LibrariesFail(t)
           \/ Finish(t) \/ Release(t)
  <2>1. pc'[t] = "idle" /\ self'[t] = None
    BY <1>1, <1>5 DEF RetainFails, CompileFails, AttributeFails, LibrariesFail, Finish,
       Release, Caught, Handed, Goto, Domains
  <2>. QED BY <1>4, <2>1
<1>6. CASE \/ Retain(t) \/ Hit(t) \/ Miss(t) \/ HashKnown(t) \/ HashEnter(t) \/ HashCompute(t)
           \/ DiskHit(t) \/ DiskMiss(t) \/ Compile(t)
  <2>1. pc[t] # "idle" /\ pc'[t] # "idle" /\ self' = self /\ solver' = solver
    BY <1>1, <1>6 DEF Retain, Hit, Miss, HashKnown, HashEnter, HashCompute, DiskHit,
       DiskMiss, Compile, Goto, Domains, memory
  <2>. QED BY <1>3, <2>1
<1>7. CASE Write(t) \/ Publish(t) \/ ReduceKernel(t) \/ DropModule(t)
  <2>1. pc[t] # "idle" /\ pc'[t] # "idle" /\ self' = self /\ solver' = solver
    BY <1>1, <1>7 DEF Write, Publish, ReduceKernel, DropModule, Goto, Domains, memory
  <2>. QED BY <1>3, <2>1
<1>8. ASSUME NEW mode \in {"unified", "hybrid"}, NEW d \in Device, Create(t, mode, d)
      PROVE  Good
  <2>1. FreeSolver \in Solver /\ solver[FreeSolver] = None
    BY <1>8, FreeSolverIs DEF Create
  <2>2. /\ pc' = [pc EXCEPT ![t] = "retain"]
        /\ self' = [self EXCEPT ![t] = FreeSolver]
        /\ solver' = [solver EXCEPT ![FreeSolver] = [mode |-> mode, dev |-> d, live |-> FALSE]]
    BY <1>8 DEF Create, Goto, FreeSolver
  <2>3. [mode |-> mode, dev |-> d, live |-> FALSE] \in Object BY DEF Object
  <2>4. /\ pc'[t] = "retain" /\ self'[t] = FreeSolver /\ FreeSolver # None
        /\ solver'[FreeSolver] = [mode |-> mode, dev |-> d, live |-> FALSE]
        /\ solver'[FreeSolver] # None
    BY <1>1, <2>1, <2>2, <2>3, ProcessAssumption DEF Domains
  <2>5. \A u \in Thread \ {t} : self[u] # FreeSolver BY <2>1, <2>4 DEF SelfInv
  <2>. QED BY <2>4, <2>5
<1>9. ASSUME NEW s \in Solver, Destroy(t, s) PROVE Good
  <2>1. /\ pc'[t] = "drop" /\ self'[t] = s /\ s # None
        /\ solver[s] # None /\ solver[s].live
        /\ solver' = [solver EXCEPT ![s].live = FALSE]
    BY <1>1, <1>9, ProcessAssumption DEF Destroy, Goto, Domains
  <2>2. solver[s] \in Object BY <2>1 DEF TypeOK
  <2>3. /\ [solver[s] EXCEPT !.live = FALSE] \in Object
        /\ [solver[s] EXCEPT !.live = FALSE].live = FALSE
    BY <2>2 DEF Object
  <2>4. solver'[s] = [solver[s] EXCEPT !.live = FALSE] BY <1>1, <2>1 DEF Domains
  <2>5. solver'[s] # None /\ ~solver'[s].live BY <2>3, <2>4, ProcessAssumption
  <2>6. \A u \in Thread \ {t} : self[u] # s BY <2>1 DEF SelfInv
  <2>. QED BY <2>1, <2>5, <2>6
<1>10. CASE LaunchInvalid(t) \/ Launch(t)
  BY <1>1, <1>2, <1>10, LaunchTouches DEF memory, frame
<1>. QED BY <1>5, <1>6, <1>7, <1>8, <1>9, <1>10 DEF Call, Return

\* Every step keeps each solver in the hands of one thread at most.
LEMMA SelfStep == ASSUME TypeOK, SelfInv, [Next]_vars PROVE SelfInv'
<1>1. CASE Restart BY <1>1 DEF Restart, SelfInv
<1>2. CASE UNCHANGED vars BY <1>2 DEF vars, frame, memory, SelfInv
<1>3. ASSUME NEW t \in Thread, Call(t) \/ Return(t) PROVE SelfInv'
  <2>1. ASSUME NEW u \in Thread
        PROVE  /\ pc'[u] = "idle" <=> self'[u] = None
               /\ self'[u] # None => solver'[self'[u]] # None /\ ~solver'[self'[u]].live
    <3>1. CASE u = t BY <1>3, <3>1, OwnSelf
    <3>2. CASE u # t
      <4>1. /\ pc'[u] = pc[u] /\ self'[u] = self[u]
            /\ self[u] # None => solver'[self[u]] = solver[self[u]]
        BY <1>3, <3>2, OtherCalls
      <4>. QED BY <4>1 DEF SelfInv
    <3>. QED BY <3>1, <3>2
  <2>2. ASSUME NEW u \in Thread, NEW w \in Thread, self'[u] # None, self'[u] = self'[w]
        PROVE  u = w
    <3>1. \A x \in Thread \ {t} : self'[x] = self[x] BY <1>3, OtherCalls
    <3>2. \A x \in Thread \ {t} : self'[t] # None => self[x] # self'[t] BY <1>3, OwnSelf
    <3>3. u # t /\ w # t => u = w BY <2>2, <3>1 DEF SelfInv
    <3>. QED BY <2>2, <3>1, <3>2, <3>3
  <2>. QED BY <2>1, <2>2 DEF SelfInv
<1>. QED BY <1>1, <1>2, <1>3 DEF Next
-----------------------------------------------------------------------------
\* PhaseInv.

\* A thread's own step leaves it at a place that fits its solver's state.
LEMMA OwnPhase ==
    ASSUME TypeOK, SelfInv, PhaseInv, NEW t \in Thread, Call(t) \/ Return(t)
    PROVE  Phase(t)'
<1>1. Domains /\ pc[t] \in InCall \cup {"idle"} BY DomainsAre DEF TypeOK
<1>2. Phase(t) BY DEF PhaseInv
<1>. USE DEF Phase, Constructing, UnifiedCalls, InCall
\* The call ends.
<1>3. ASSUME pc[t] \notin {"write", "publish"}, pc'[t] \in {"idle", "drop", "release"},
             built' = built
      PROVE  Phase(t)'
  BY <1>2, <1>3
\* It goes on, from one phase to another of the same kind of solver.
<1>4. ASSUME UNCHANGED <<self, solver, returned>>, pc[t] \in Constructing,
             pc'[t] \in Constructing,
             pc'[t] \in UnifiedCalls => Unified(t),
             pc'[t] \in {"reduce", "libraries"} => ~Unified(t),
             built'[t] # None <=> pc'[t] \in {"write", "publish"}
      PROVE  Phase(t)'
  BY <1>2, <1>4 DEF Unified
<1>5. CASE \/ RetainFails(t) \/ CompileFails(t) \/ AttributeFails(t) \/ LibrariesFail(t)
           \/ Finish(t) \/ Release(t) \/ DropModule(t)
  <2>1. /\ pc[t] \notin {"write", "publish"} /\ pc'[t] \in {"idle", "release"}
        /\ built' = built
    BY <1>1, <1>5 DEF RetainFails, CompileFails, AttributeFails, LibrariesFail, Finish,
       Release, DropModule, Caught, Goto, Domains
  <2>. QED BY <1>3, <2>1
<1>6. CASE Retain(t)
  <2>1. /\ pc[t] = "retain" /\ pc'[t] = IF Unified(t) THEN "lookup" ELSE "reduce"
        /\ UNCHANGED <<self, solver, returned, built>>
    BY <1>1, <1>6 DEF Retain, Goto, Domains, told
  <2>. QED BY <1>2, <1>4, <2>1
<1>7. CASE Hit(t) \/ Miss(t) \/ HashKnown(t) \/ HashEnter(t) \/ HashCompute(t) \/ DiskMiss(t)
  <2>1. /\ pc[t] \in UnifiedCalls \ {"write", "publish"}
        /\ pc'[t] \in UnifiedCalls \ {"write", "publish"}
        /\ UNCHANGED <<self, solver, returned, built>>
    BY <1>1, <1>7 DEF Hit, Miss, HashKnown, HashEnter, HashCompute, DiskMiss, Goto, Domains,
       memory, told
  <2>. QED BY <1>2, <1>4, <2>1
<1>8. CASE DiskHit(t) \/ Compile(t)
  <2>1. /\ pc[t] \in {"disk", "compile"} /\ pc'[t] \in {"write", "publish"}
        /\ UNCHANGED <<self, solver, returned>>
        /\ built'[t] = FreeModule
    BY <1>1, <1>8 DEF DiskHit, Compile, Goto, Domains, told
  <2>2. FreeModule \in Module BY <1>8, FreeModuleIs DEF DiskHit, Compile, LoadModule
  <2>3. built'[t] # None BY <2>1, <2>2, ProcessAssumption
  <2>. QED BY <1>2, <1>4, <2>1, <2>3
<1>9. CASE Write(t)
  <2>1. /\ pc[t] = "write" /\ pc'[t] = "publish" /\ UNCHANGED <<self, solver, returned, built>>
    BY <1>1, <1>9 DEF Write, Goto, Domains, memory, told
  <2>. QED BY <1>2, <1>4, <2>1
<1>10. CASE Publish(t)
  <2>1. /\ pc[t] = "publish" /\ pc'[t] = "attribute" /\ built'[t] = None
        /\ UNCHANGED <<self, solver, returned>>
    BY <1>1, <1>10 DEF Publish, Goto, Domains, told
  <2>. QED BY <1>2, <1>4, <2>1
<1>11. CASE ReduceKernel(t)
  <2>1. /\ pc[t] = "reduce" /\ pc'[t] = "libraries"
        /\ UNCHANGED <<self, solver, returned, built>>
    BY <1>1, <1>11 DEF ReduceKernel, Goto, Domains, told
  <2>. QED BY <1>2, <1>4, <2>1
<1>12. ASSUME NEW mode \in {"unified", "hybrid"}, NEW d \in Device, Create(t, mode, d)
       PROVE  Phase(t)'
  <2>1. FreeSolver \in Solver BY <1>12, FreeSolverIs DEF Create
  <2>2. /\ pc[t] = "idle" /\ pc'[t] = "retain" /\ self'[t] = FreeSolver
        /\ solver'[FreeSolver] = [mode |-> mode, dev |-> d, live |-> FALSE]
        /\ returned'[t] = "pending" /\ built' = built
    BY <1>1, <1>12, <2>1 DEF Create, Goto, Domains, FreeSolver
  <2>. QED BY <1>2, <2>2
<1>13. ASSUME NEW s \in Solver, Destroy(t, s) PROVE Phase(t)'
  <2>1. pc[t] = "idle" /\ pc'[t] = "drop" /\ built' = built
    BY <1>1, <1>13 DEF Destroy, Goto, Domains
  <2>. QED BY <1>3, <2>1
<1>14. CASE LaunchInvalid(t) \/ Launch(t)
  <2>1. pc[t] = "idle" /\ pc' = pc /\ built' = built
    BY <1>1, <1>14 DEF LaunchInvalid, Launch, Launched, frame
  <2>. QED BY <1>3, <2>1
<1>. QED
  BY <1>5, <1>6, <1>7, <1>8, <1>9, <1>10, <1>11, <1>12, <1>13, <1>14 DEF Call, Return

\* Every step keeps all threads at places that fit their solvers' states.
LEMMA PhaseStep == ASSUME TypeOK, SelfInv, PhaseInv, [Next]_vars PROVE PhaseInv'
<1>1. CASE Restart
  BY <1>1 DEF Restart, PhaseInv, Phase, Constructing, UnifiedCalls, InCall
<1>2. CASE UNCHANGED vars
  BY <1>2 DEF vars, frame, memory, told, PhaseInv, Phase, Unified
<1>3. ASSUME NEW t \in Thread, Call(t) \/ Return(t) PROVE PhaseInv'
  <2>1. ASSUME NEW u \in Thread PROVE Phase(u)'
    <3>1. CASE u = t BY <1>3, <3>1, OwnPhase
    <3>2. CASE u # t
      <4>1. /\ pc'[u] = pc[u] /\ self'[u] = self[u] /\ built'[u] = built[u]
            /\ returned'[u] = returned[u]
            /\ self[u] # None => solver'[self[u]] = solver[self[u]]
        BY <1>3, <3>2, OtherCalls
      <4>2. pc[u] # "idle" => self[u] # None BY DEF SelfInv
      <4>. QED BY <4>1, <4>2 DEF PhaseInv, Phase, Unified, Constructing, UnifiedCalls, InCall
    <3>. QED BY <3>1, <3>2
  <2>. QED BY <2>1 DEF PhaseInv
<1>. QED BY <1>1, <1>2, <1>3 DEF Next
-----------------------------------------------------------------------------
\* HandleInv.

\* A thread's own step keeps module_ of its solver in line with where it is.
LEMMA OwnHandle ==
    ASSUME TypeOK, SelfInv, PhaseInv, HandleInv, NEW t \in Thread, Call(t) \/ Return(t)
    PROVE  Holding(t)' /\ \E x : Touches(t, x) /\ (x \in Solver => Held(x)')
<1>1. Domains /\ pc[t] \in InCall \cup {"idle"} BY DomainsAre DEF TypeOK
<1>2. Holding(t) BY DEF HandleInv
<1>3. pc[t] # "idle" => /\ self[t] \in Solver /\ Held(self[t])
                        /\ solver[self[t]] # None /\ ~solver[self[t]].live
  BY InCallSolver DEF HandleInv
<1> DEFINE Good == Holding(t)' /\ \E x : Touches(t, x) /\ (x \in Solver => Held(x)')
<1>. USE DEF Holding, Held, Constructing, Early, InCall
\* The solver is gone, and so is its module.
<1>4. ASSUME Return(t), pc'[t] = "idle", handle'[self[t]] = None, solver'[self[t]] = None
      PROVE  Good
  BY <1>1, <1>4, ReturnTouches
\* The solver gets its module, or has it still to come.
<1>5. ASSUME Return(t), pc[t] # "idle", UNCHANGED <<self, solver>>,
             \/ pc'[t] \in Early \cup {"release"} /\ handle'[self[t]] = None
             \/ pc'[t] \in {"attribute", "libraries"} /\ handle'[self[t]] # None
      PROVE  Good
  <2>1. Holding(t)' BY <1>5
  <2>2. ASSUME NEW x, x = self[t] PROVE Touches(t, x) /\ Held(x)'
    <3>1. Touches(t, x) BY <1>1, <1>5, <2>2, ReturnTouches
    <3>2. Held(x)' BY <1>3, <1>5, <2>2
    <3>. QED BY <3>1, <3>2
  <2>. QED BY <2>1, <2>2
<1>6. CASE RetainFails(t) \/ CompileFails(t) \/ Release(t)
  <2>1. /\ pc[t] \in Early \cup {"release"} /\ pc'[t] = "idle" /\ handle' = handle
        /\ solver' = [solver EXCEPT ![self[t]] = None]
    BY <1>1, <1>6 DEF RetainFails, CompileFails, Release, Caught, Goto, Domains
  <2>2. solver'[self[t]] = None BY <1>1, <1>3, <2>1 DEF Domains
  <2>. QED BY <1>2, <1>4, <1>6, <2>1, <2>2 DEF Return
<1>7. CASE AttributeFails(t) \/ LibrariesFail(t)
  <2>1. /\ pc[t] # "idle" /\ pc'[t] = "idle" /\ handle' = [handle EXCEPT ![self[t]] = None]
        /\ solver' = [solver EXCEPT ![self[t]] = None]
    BY <1>1, <1>7 DEF AttributeFails, LibrariesFail, Caught, Drop, Domains
  <2>2. solver'[self[t]] = None /\ handle'[self[t]] = None BY <1>1, <1>3, <2>1 DEF Domains
  <2>. QED BY <1>4, <1>7, <2>1, <2>2 DEF Return
<1>8. CASE Finish(t)
  <2>1. /\ pc[t] \in {"attribute", "libraries"} /\ pc'[t] = "idle" /\ handle' = handle
        /\ solver' = [solver EXCEPT ![self[t]].live = TRUE]
    BY <1>1, <1>8 DEF Finish, Handed, Goto, Domains
  <2>2. solver[self[t]] \in Object BY <2>1, InCallSolver
  <2>3. [solver[self[t]] EXCEPT !.live = TRUE] \in Object BY <2>2 DEF Object
  <2>4. solver'[self[t]] # None BY <1>1, <1>3, <2>1, <2>3, ProcessAssumption DEF Domains
  <2>5. Touches(t, self[t]) BY <1>1, <1>8, ReturnTouches DEF Return
  <2>. QED BY <1>2, <2>1, <2>4, <2>5
<1>9. CASE \/ Retain(t) \/ Miss(t) \/ HashKnown(t) \/ HashEnter(t) \/ HashCompute(t)
           \/ DiskHit(t) \/ DiskMiss(t) \/ Compile(t) \/ Write(t)
  <2>1. /\ pc[t] \in Early /\ pc'[t] \in Early /\ UNCHANGED <<self, solver, handle>>
    BY <1>1, <1>9 DEF Retain, Miss, HashKnown, HashEnter, HashCompute, DiskHit, DiskMiss,
       Compile, Write, Goto, Domains, memory
  <2>. QED BY <1>2, <1>5, <1>9, <2>1 DEF Return
<1>10. CASE Hit(t)
  <2>1. /\ pc[t] = "lookup" /\ pc'[t] = "attribute" /\ UNCHANGED <<self, solver>>
        /\ handle' = [handle EXCEPT ![self[t]] = entries[KeyOf(t)]]
        /\ entries[KeyOf(t)] # None
    BY <1>1, <1>10 DEF Hit, Goto, Domains
  <2>2. handle'[self[t]] # None BY <1>1, <1>3, <2>1 DEF Domains
  <2>. QED BY <1>5, <1>10, <2>1, <2>2 DEF Return
<1>11. CASE Publish(t)
  <2>1. /\ pc[t] = "publish" /\ pc'[t] = "attribute" /\ UNCHANGED <<self, solver>>
        /\ handle' = [handle EXCEPT ![self[t]] = built[t]]
    BY <1>1, <1>11 DEF Publish, Goto, Domains
  <2>2. built[t] # None BY <2>1 DEF PhaseInv, Phase
  <2>3. handle'[self[t]] # None BY <1>1, <1>3, <2>1, <2>2 DEF Domains
  <2>. QED BY <1>5, <1>11, <2>1, <2>3 DEF Return
<1>12. CASE ReduceKernel(t)
  <2>1. /\ pc[t] = "reduce" /\ pc'[t] = "libraries" /\ UNCHANGED <<self, solver>>
        /\ handle' = [handle EXCEPT ![self[t]] = FreeModule]
    BY <1>1, <1>12 DEF ReduceKernel, Goto, Domains
  <2>2. FreeModule \in Module BY <1>12, FreeModuleIs DEF ReduceKernel, LoadModule
  <2>3. handle'[self[t]] # None BY <1>1, <1>3, <2>1, <2>2, ProcessAssumption DEF Domains
  <2>. QED BY <1>5, <1>12, <2>1, <2>3 DEF Return
<1>13. CASE DropModule(t)
  <2>1. /\ pc[t] = "drop" /\ pc'[t] = "release" /\ UNCHANGED <<self, solver>>
        /\ handle' = [handle EXCEPT ![self[t]] = None]
    BY <1>1, <1>13 DEF DropModule, Drop, Goto, Domains
  <2>2. handle'[self[t]] = None BY <1>1, <1>3, <2>1 DEF Domains
  <2>. QED BY <1>5, <1>13, <2>1, <2>2 DEF Return
<1>14. ASSUME NEW mode \in {"unified", "hybrid"}, NEW d \in Device, Create(t, mode, d)
       PROVE  Good
  <2>1. FreeSolver \in Solver /\ solver[FreeSolver] = None
    BY <1>14, FreeSolverIs DEF Create
  <2>2. /\ pc'[t] = "retain" /\ self'[t] = FreeSolver /\ handle' = handle
        /\ solver'[FreeSolver] = [mode |-> mode, dev |-> d, live |-> FALSE]
    BY <1>1, <1>14, <2>1 DEF Create, Goto, Domains, FreeSolver
  <2>3. handle[FreeSolver] = None BY <2>1 DEF HandleInv
  <2>4. Touches(t, FreeSolver) BY <1>1, <1>14, CreateTouches
  <2>. QED BY <2>1, <2>2, <2>3, <2>4
<1>15. ASSUME NEW s \in Solver, Destroy(t, s) PROVE Good
  <2>1. /\ pc'[t] = "drop" /\ self'[t] = s /\ handle' = handle
        /\ solver[s] # None /\ solver[s].live
        /\ solver' = [solver EXCEPT ![s].live = FALSE]
    BY <1>1, <1>15 DEF Destroy, Goto, Domains
  <2>2. handle[s] # None BY <2>1 DEF HandleInv
  <2>3. solver[s] \in Object BY <2>1 DEF TypeOK
  <2>4. [solver[s] EXCEPT !.live = FALSE] \in Object BY <2>3 DEF Object
  <2>5. solver'[s] # None BY <1>1, <2>1, <2>4, ProcessAssumption DEF Domains
  <2>6. Touches(t, s) BY <1>1, <1>15, DestroyTouches
  <2>. QED BY <2>1, <2>2, <2>5, <2>6
<1>16. CASE LaunchInvalid(t) \/ Launch(t)
  <2>1. UNCHANGED <<pc, self, handle>> /\ Touches(t, None)
    BY <1>1, <1>16, LaunchTouches DEF memory, frame
  <2>. QED BY <1>2, <2>1, ProcessAssumption
<1>. QED
  BY <1>6, <1>7, <1>8, <1>9, <1>10, <1>11, <1>12, <1>13, <1>14, <1>15, <1>16
  DEF Call, Return

\* Every step keeps module_ of each solver in line with where its thread is.
LEMMA HandleStep ==
    ASSUME TypeOK, SelfInv, PhaseInv, HandleInv, [Next]_vars PROVE HandleInv'
<1>1. CASE Restart
  BY <1>1 DEF Restart, HandleInv, Holding, Held, Early, Constructing, InCall
<1>2. CASE UNCHANGED vars
  BY <1>2 DEF vars, frame, memory, HandleInv, Holding, Held
<1>3. ASSUME NEW t \in Thread, Call(t) \/ Return(t) PROVE HandleInv'
  <2>1. ASSUME NEW u \in Thread PROVE Holding(u)'
    <3>1. CASE u = t BY <1>3, <3>1, OwnHandle
    <3>2. CASE u # t
      <4>1. /\ pc'[u] = pc[u] /\ self'[u] = self[u]
            /\ self[u] # None => handle'[self[u]] = handle[self[u]]
        BY <1>3, <3>2, OtherCalls
      <4>2. pc[u] # "idle" => self[u] # None BY DEF SelfInv
      <4>. QED
        BY <4>1, <4>2 DEF HandleInv, Holding, Early, Constructing, InCall
    <3>. QED BY <3>1, <3>2
  <2>2. ASSUME NEW s \in Solver PROVE Held(s)'
    <3>1. PICK x : Touches(t, x) /\ (x \in Solver => Held(x)') BY <1>3, OwnHandle
    <3>2. CASE s = x BY <3>1, <3>2
    <3>3. CASE s # x
      <4>1. solver'[s] = solver[s] /\ handle'[s] = handle[s] BY <3>1, <3>3 DEF Touches
      <4>. QED BY <4>1 DEF HandleInv, Held
    <3>. QED BY <3>2, <3>3
  <2>. QED BY <2>1, <2>2 DEF HandleInv
<1>. QED BY <1>1, <1>2, <1>3 DEF Next
-----------------------------------------------------------------------------
\* ModuleInv.

\* The parts of TypeOK that are about modules.
LEMMA ModuleDomains ==
    ASSUME TypeOK
    PROVE  /\ handle \in [Solver -> Module \cup {None}]
           /\ built \in [Thread -> Module \cup {None}]
           /\ entries \in [Key -> Module \cup {None}]
           /\ loaded \in [Module -> Loaded \cup {None}]
           /\ self \in [Thread -> Solver \cup {None}]
  BY DEF TypeOK

\* Steps that leave the modules alone.
LEMMA ModulesUntouched ==
    ASSUME ModuleInv, UNCHANGED <<handle, built, entries, loaded>>,
           \A s \in Solver : handle[s] # None =>
              solver'[s].dev = solver[s].dev /\ solver'[s].mode = solver[s].mode,
           \A u \in Thread : built[u] # None => Dev(u)' = Dev(u)
    PROVE  ModuleInv'
<1>1. ASSUME NEW s \in Solver PROVE Owned(s)' BY DEF ModuleInv, Owned
<1>2. ASSUME NEW u \in Thread PROVE Built(u)' BY DEF ModuleInv, Built
<1>3. ASSUME NEW k \in Key PROVE Entry(k)' BY DEF ModuleInv, Entry
<1>. QED BY <1>1, <1>2, <1>3 DEF ModuleInv

\* Steps that load and unload nothing preserve what is known of the modules.
LEMMA QuietStep ==
    ASSUME TypeOK, SelfInv, PhaseInv, HandleInv, ModuleInv, NEW t \in Thread,
           \/ RetainFails(t) \/ Retain(t) \/ Miss(t) \/ HashKnown(t) \/ HashEnter(t)
           \/ HashCompute(t) \/ DiskMiss(t) \/ CompileFails(t) \/ Write(t) \/ Finish(t)
           \/ Release(t) \/ Call(t)
    PROVE  ModuleInv'
<1>1. Domains BY DomainsAre
<1>2. pc[t] \notin {"write", "publish"} => built[t] = None BY DEF PhaseInv, Phase
<1>3. Call(t) \/ Return(t) BY DEF Return
<1>4. ASSUME NEW u \in Thread, u # t, built[u] # None PROVE Dev(u)' = Dev(u)
  <2>1. pc[u] # "idle" BY <1>4 DEF PhaseInv, Phase
  <2>2. self[u] # None BY <2>1 DEF SelfInv
  <2>. QED BY <1>3, <1>4, <2>2, OtherCalls DEF Dev
<1>5. CASE \/ Retain(t) \/ Miss(t) \/ HashKnown(t) \/ HashEnter(t) \/ HashCompute(t)
           \/ DiskMiss(t) \/ Write(t) \/ LaunchInvalid(t) \/ Launch(t)
  <2>1. UNCHANGED <<handle, built, entries, loaded, self, solver>>
    BY <1>1, <1>5, LaunchTouches DEF Retain, Miss, HashKnown, HashEnter, HashCompute,
       DiskMiss, Write, memory, frame
  <2>. QED BY <2>1, ModulesUntouched DEF Dev
<1>6. CASE RetainFails(t) \/ CompileFails(t) \/ Release(t)
  <2>1. /\ UNCHANGED <<handle, built, entries, loaded>>
        /\ pc[t] \in Early \cup {"release"} /\ pc[t] \notin {"write", "publish", "idle"}
        /\ solver' = [solver EXCEPT ![self[t]] = None]
    BY <1>6 DEF RetainFails, CompileFails, Release, Caught, Goto, Early, Constructing, InCall
  <2>2. handle[self[t]] = None BY <2>1 DEF HandleInv, Holding
  <2>3. ASSUME NEW s \in Solver, handle[s] # None PROVE solver'[s] = solver[s]
    BY <1>1, <2>1, <2>2, <2>3 DEF Domains
  <2>. QED BY <1>2, <1>4, <2>1, <2>3, ModulesUntouched
<1>7. CASE Finish(t)
  <2>1. /\ UNCHANGED <<handle, built, entries, loaded>>
        /\ pc[t] \in {"attribute", "libraries"}
        /\ solver' = [solver EXCEPT ![self[t]].live = TRUE]
    BY <1>7 DEF Finish, Handed, Goto
  <2>2. solver[self[t]] \in Object BY <2>1, InCallSolver
  <2>3. ASSUME NEW s \in Solver, handle[s] # None
        PROVE  solver'[s].dev = solver[s].dev /\ solver'[s].mode = solver[s].mode
    BY <1>1, <2>1, <2>2 DEF Domains, Object
  <2>. QED BY <1>2, <1>4, <2>1, <2>3, ModulesUntouched
<1>8. ASSUME NEW s \in Solver, Destroy(t, s) PROVE ModuleInv'
  <2>1. /\ UNCHANGED <<handle, built, entries, loaded>> /\ pc[t] = "idle"
        /\ solver[s] # None /\ solver' = [solver EXCEPT ![s].live = FALSE]
    BY <1>8 DEF Destroy, Goto
  <2>2. solver[s] \in Object BY <2>1 DEF TypeOK
  <2>3. ASSUME NEW r \in Solver, handle[r] # None
        PROVE  solver'[r].dev = solver[r].dev /\ solver'[r].mode = solver[r].mode
    BY <1>1, <2>1, <2>2 DEF Domains, Object
  <2>. QED BY <1>2, <1>4, <2>1, <2>3, ModulesUntouched
<1>9. ASSUME NEW mode \in {"unified", "hybrid"}, NEW d \in Device, Create(t, mode, d)
      PROVE  ModuleInv'
  <2>1. FreeSolver \in Solver /\ solver[FreeSolver] = None
    BY <1>9, FreeSolverIs DEF Create
  <2>2. /\ UNCHANGED <<handle, built, entries, loaded>> /\ pc[t] = "idle"
        /\ solver' = [solver EXCEPT ![FreeSolver] = [mode |-> mode, dev |-> d, live |-> FALSE]]
    BY <1>9 DEF Create, Goto, FreeSolver
  <2>3. handle[FreeSolver] = None BY <2>1 DEF HandleInv, Held
  <2>4. ASSUME NEW s \in Solver, handle[s] # None PROVE solver'[s] = solver[s]
    BY <1>1, <2>2, <2>3, <2>4 DEF Domains
  <2>. QED BY <1>2, <1>4, <2>2, <2>4, ModulesUntouched
<1>. QED BY <1>5, <1>6, <1>7, <1>8, <1>9 DEF Call

\* A module is loaded, by the cache or for a hybrid solver.
LEMMA Loads ==
    ASSUME TypeOK, SelfInv, NEW t \in Thread,
           DiskHit(t) \/ Compile(t) \/ ReduceKernel(t)
    PROVE  /\ FreeModule \in Module /\ loaded[FreeModule] = None /\ FreeModule # None
           /\ loaded'[FreeModule] \in Loaded /\ loaded'[FreeModule] # None
           /\ loaded'[FreeModule].ctx = Dev(t)
           /\ \A m \in Module \ {FreeModule} : loaded'[m] = loaded[m]
<1>1. /\ FreeModule \in Module /\ loaded[FreeModule] = None /\ pc[t] # "idle"
  BY FreeModuleIs DEF DiskHit, Compile, ReduceKernel, LoadModule, Goto
<1>2. \E v \in Library :
         loaded' = [loaded EXCEPT ![FreeModule] = [ctx |-> Dev(t), library |-> v]]
  <2>1. CASE DiskHit(t)
    <3>1. hash[t] \in Hashes /\ disk \in [Key \X Hashes -> Library \cup {None}] BY DEF TypeOK
    <3>2. Path(KeyOf(t), hash[t]) \in Key \X Hashes BY <1>1, <3>1, InCallSolver, PathIs
    <3>3. disk[Path(KeyOf(t), hash[t])] \in Library BY <2>1, <3>1, <3>2 DEF DiskHit
    <3>. QED BY <2>1, <3>3 DEF DiskHit, LoadModule
  <2>2. CASE Compile(t) \/ ReduceKernel(t)
    BY <2>2 DEF Compile, ReduceKernel, LoadModule, TypeOK
  <2>. QED BY <2>1, <2>2
<1>3. PICK v \in Library :
         loaded' = [loaded EXCEPT ![FreeModule] = [ctx |-> Dev(t), library |-> v]]
  BY <1>2
<1>4. Dev(t) \in Device BY <1>1, InCallSolver
<1>5. [ctx |-> Dev(t), library |-> v] \in Loaded BY <1>4 DEF Loaded
<1>6. loaded \in [Module -> Loaded \cup {None}] BY DEF TypeOK
<1>. QED BY <1>1, <1>3, <1>5, <1>6, ProcessAssumption

\* Loading a module, from a cubin or a compilation, preserves what is known of the
\* modules: the new one is in the context of its solver and nobody else names it.
LEMMA LoadStep ==
    ASSUME TypeOK, SelfInv, PhaseInv, HandleInv, ModuleInv, NEW t \in Thread,
           DiskHit(t) \/ Compile(t) \/ ReduceKernel(t)
    PROVE  ModuleInv'
<1>1. Domains BY DomainsAre
<1>2. /\ FreeModule \in Module /\ loaded[FreeModule] = None /\ FreeModule # None
      /\ loaded'[FreeModule] # None /\ loaded'[FreeModule].ctx = Dev(t)
      /\ \A m \in Module \ {FreeModule} : loaded'[m] = loaded[m]
  BY Loads
<1>3. UNCHANGED <<entries, self, solver>> BY DEF DiskHit, Compile, ReduceKernel
\* No one can name the new module before.
<1>4. /\ \A s \in Solver : handle[s] # FreeModule
      /\ \A k \in Key : entries[k] # FreeModule
      /\ \A u \in Thread : built[u] # FreeModule
  BY <1>2 DEF ModuleInv, Owned, Built, Entry
<1>5. /\ \A s \in Solver : handle[s] # None => loaded'[handle[s]] = loaded[handle[s]]
      /\ \A k \in Key : entries[k] # None => loaded'[entries[k]] = loaded[entries[k]]
      /\ \A u \in Thread : built[u] # None => loaded'[built[u]] = loaded[built[u]]
  BY <1>2, <1>4, ModuleDomains
<1>6. \A k \in Key : Entry(k)' BY <1>3, <1>5 DEF ModuleInv, Entry
<1>7. CASE DiskHit(t) \/ Compile(t)
  <2>1. handle' = handle /\ built' = [built EXCEPT ![t] = FreeModule]
    BY <1>7 DEF DiskHit, Compile
  <2>2. ASSUME NEW s \in Solver PROVE Owned(s)'
    BY <1>3, <1>5, <2>1 DEF ModuleInv, Owned
  <2>3. Built(t)' BY <1>1, <1>2, <1>3, <1>4, <2>1 DEF Built, Dev, Domains
  <2>4. ASSUME NEW u \in Thread, u # t PROVE Built(u)'
    <3>1. built'[u] = built[u] /\ built'[t] = FreeModule /\ Dev(u)' = Dev(u)
      BY <1>1, <1>3, <2>1, <2>4 DEF Domains, Dev
    <3>2. \A w \in Thread : built'[w] = built[u] /\ built[u] # None => w = u
      BY <1>1, <1>4, <2>1 DEF Domains, ModuleInv, Built
    <3>. QED BY <1>3, <1>5, <2>1, <3>1, <3>2 DEF ModuleInv, Built
  <2>. QED BY <1>6, <2>2, <2>3, <2>4 DEF ModuleInv
<1>8. CASE ReduceKernel(t)
  <2>1. /\ built' = built /\ handle' = [handle EXCEPT ![self[t]] = FreeModule]
        /\ pc[t] = "reduce"
    BY <1>8 DEF ReduceKernel, Goto
  <2>2. self[t] \in Solver BY <2>1, InCallSolver
  <2>3. /\ handle'[self[t]] = FreeModule
        /\ \A s \in Solver \ {self[t]} : handle'[s] = handle[s]
    BY <1>1, <2>1, <2>2 DEF Domains
  <2>4. ASSUME NEW s \in Solver, s = self[t] PROVE Owned(s)'
    <3>1. handle'[s] = FreeModule /\ Dev(t) = solver[s].dev BY <2>3, <2>4 DEF Dev
    <3>2. \A r \in Solver : handle'[r] = FreeModule => r = s BY <1>4, <2>3, <2>4
    <3>. QED BY <1>2, <1>3, <1>4, <3>1, <3>2 DEF Owned
  <2>5. ASSUME NEW s \in Solver, s # self[t] PROVE Owned(s)'
    <3>1. handle'[s] = handle[s] BY <2>3, <2>5
    <3>2. \A r \in Solver : handle'[r] = handle[s] => handle[r] = handle[s]
      BY <1>4, <2>3
    <3>. QED BY <1>3, <1>5, <3>1, <3>2 DEF ModuleInv, Owned
  <2>6. ASSUME NEW u \in Thread PROVE Built(u)'
    <3>1. \A s \in Solver : handle'[s] = built[u] => handle[s] = built[u] BY <1>4, <2>3
    <3>. QED BY <1>3, <1>5, <2>1, <3>1 DEF ModuleInv, Built, Dev
  <2>. QED BY <1>6, <2>4, <2>5, <2>6 DEF ModuleInv
<1>. QED BY <1>7, <1>8

\* A hit gives the solver a module that others own already.
LEMMA HitStep ==
    ASSUME TypeOK, SelfInv, PhaseInv, HandleInv, ModuleInv, NEW t \in Thread, Hit(t)
    PROVE  ModuleInv'
<1>1. Domains BY DomainsAre
<1>2. /\ UNCHANGED <<entries, loaded, built, self, solver>> /\ pc[t] = "lookup"
      /\ handle' = [handle EXCEPT ![self[t]] = entries[KeyOf(t)]]
      /\ entries[KeyOf(t)] # None
  BY DEF Hit, Goto
<1>3. self[t] \in Solver /\ KeyOf(t) \in Key BY <1>2, InCallSolver
<1>4. /\ handle'[self[t]] = entries[KeyOf(t)]
      /\ \A s \in Solver \ {self[t]} : handle'[s] = handle[s]
  BY <1>1, <1>2, <1>3 DEF Domains
<1>5. solver[self[t]].mode = "unified"
  BY <1>2 DEF PhaseInv, Phase, Unified, UnifiedCalls
<1>6. ASSUME NEW s \in Solver PROVE Owned(s)'
  <2>1. CASE s = self[t]
    <3>1. handle'[s] = entries[KeyOf(t)] /\ KeyOf(t) = Arch[solver[s].dev]
      BY <1>4, <2>1 DEF KeyOf, Dev
    <3>2. /\ loaded[handle'[s]] # None
          /\ Arch[loaded[handle'[s]].ctx] = Arch[solver[s].dev]
      BY <1>2, <1>3, <3>1 DEF ModuleInv, Entry
    <3>. QED BY <1>2, <1>5, <2>1, <3>2 DEF Owned
  <2>2. CASE s # self[t]
    <3>1. handle'[s] = handle[s] BY <1>4, <2>2
    <3>2. solver[s].mode # "unified" /\ handle[s] # None =>
             \A r \in Solver : handle'[r] = handle[s] => r = s
      BY <1>3, <1>4 DEF ModuleInv, Owned
    <3>. QED BY <1>2, <3>1, <3>2 DEF ModuleInv, Owned
  <2>. QED BY <2>1, <2>2
<1>7. ASSUME NEW u \in Thread PROVE Built(u)'
  <2>1. Built(u) BY DEF ModuleInv
  <2>2. built[u] # None => \A s \in Solver : handle'[s] # built[u]
    BY <1>3, <1>4, <2>1 DEF Built
  <2>. QED BY <1>2, <2>1, <2>2 DEF Built, Dev
<1>8. ASSUME NEW k \in Key PROVE Entry(k)' BY <1>2 DEF ModuleInv, Entry
<1>. QED BY <1>6, <1>7, <1>8 DEF ModuleInv

\* A module is handed from the constructor that built it to its solver and the map.
LEMMA PublishStep ==
    ASSUME TypeOK, SelfInv, PhaseInv, HandleInv, ModuleInv, NEW t \in Thread, Publish(t)
    PROVE  ModuleInv'
<1>1. Domains /\ DOMAIN entries = Key BY DomainsAre DEF TypeOK
<1>2. /\ UNCHANGED <<loaded, self, solver>> /\ pc[t] = "publish"
      /\ entries' = [entries EXCEPT ![KeyOf(t)] = built[t]]
      /\ handle' = [handle EXCEPT ![self[t]] = built[t]]
      /\ built' = [built EXCEPT ![t] = None]
  BY DEF Publish, Goto
<1>3. self[t] \in Solver /\ KeyOf(t) \in Key BY <1>2, InCallSolver
<1>4. /\ handle'[self[t]] = built[t] /\ entries'[KeyOf(t)] = built[t] /\ built'[t] = None
      /\ \A s \in Solver \ {self[t]} : handle'[s] = handle[s]
      /\ \A k \in Key \ {KeyOf(t)} : entries'[k] = entries[k]
      /\ \A u \in Thread \ {t} : built'[u] = built[u]
  BY <1>1, <1>2, <1>3 DEF Domains
<1>5. solver[self[t]].mode = "unified" /\ built[t] # None
  BY <1>2 DEF PhaseInv, Phase, Unified, UnifiedCalls
<1>6. Built(t) BY DEF ModuleInv
<1>7. ASSUME NEW s \in Solver PROVE Owned(s)'
  <2>1. CASE s = self[t]
    <3>1. handle'[s] = built[t] /\ Dev(t) = solver[s].dev BY <1>4, <2>1 DEF Dev
    <3>. QED BY <1>2, <1>5, <1>6, <2>1, <3>1 DEF Built, Owned
  <2>2. CASE s # self[t]
    <3>1. handle'[s] = handle[s] /\ handle[s] # built[t] BY <1>4, <1>5, <1>6, <2>2 DEF Built
    <3>2. \A r \in Solver : handle'[r] = handle[s] => handle[r] = handle[s]
      BY <1>4, <3>1
    <3>3. \A k \in Key : entries'[k] = handle[s] => entries[k] = handle[s]
      BY <1>4, <3>1
    <3>. QED BY <1>2, <3>1, <3>2, <3>3 DEF ModuleInv, Owned
  <2>. QED BY <2>1, <2>2
<1>8. ASSUME NEW u \in Thread PROVE Built(u)'
  <2>1. CASE u = t BY <1>4, <2>1 DEF Built
  <2>2. CASE u # t /\ built[u] # None
    <3>1. built'[u] = built[u] /\ built[u] # built[t] BY <1>4, <1>6, <2>2 DEF ModuleInv, Built
    <3>2. /\ \A s \in Solver : handle'[s] # built[u]
          /\ \A k \in Key : entries'[k] # built[u]
      BY <1>4, <2>2, <3>1 DEF ModuleInv, Built
    <3>3. \A w \in Thread : built'[w] = built[u] => w = u
      BY <1>4, <2>2 DEF ModuleInv, Built
    <3>. QED BY <1>2, <2>2, <3>1, <3>2, <3>3 DEF ModuleInv, Built, Dev
  <2>3. CASE u # t /\ built[u] = None BY <1>4, <2>3 DEF Built
  <2>. QED BY <2>1, <2>2, <2>3
<1>9. ASSUME NEW k \in Key PROVE Entry(k)'
  <2>1. CASE k = KeyOf(t) BY <1>2, <1>4, <1>5, <1>6, <2>1 DEF Entry, Built, KeyOf
  <2>2. CASE k # KeyOf(t) BY <1>2, <1>4, <2>2 DEF ModuleInv, Entry
  <2>. QED BY <2>1, <2>2
<1>. QED BY <1>7, <1>8, <1>9 DEF ModuleInv
\* A solver gives up its module, which is unloaded with its last owner.
LEMMA DropStep ==
    ASSUME TypeOK, SelfInv, PhaseInv, HandleInv, ModuleInv, NEW t \in Thread,
           AttributeFails(t) \/ DropModule(t)
    PROVE  ModuleInv'
<1>1. Domains BY DomainsAre
<1>2. built' = built /\ pc[t] \in {"attribute", "drop"} /\ Drop(self[t])
  BY DEF AttributeFails, DropModule, Goto
<1>3. self[t] \in Solver /\ handle[self[t]] # None
  BY <1>2, InCallSolver DEF HandleInv, Holding
<1> DEFINE m == handle[self[t]]
<1>4. m \in Module BY <1>3 DEF TypeOK
<1>5. /\ handle'[self[t]] = None
      /\ \A s \in Solver \ {self[t]} : handle'[s] = handle[s]
  BY <1>1, <1>2, <1>3 DEF Drop, Domains
\* The module stays if another solver owns it.
<1>6. \/ /\ \A s \in Solver : handle[s] = m => s = self[t]
         /\ loaded' = [loaded EXCEPT ![m] = None]
         /\ entries' = [k \in Key |-> IF entries[k] = m THEN None ELSE entries[k]]
      \/ UNCHANGED <<loaded, entries>>
  <2>1. CASE Owners(m) = {self[t]} BY <1>2, <2>1 DEF Drop, Owners
  <2>2. CASE Owners(m) # {self[t]} BY <1>2, <2>2 DEF Drop
  <2>. QED BY <2>1, <2>2
<1>7. loaded \in [Module -> Loaded \cup {None}] /\ entries \in [Key -> Module \cup {None}]
  BY DEF TypeOK
<1>8. \A n \in Module : loaded'[n] # loaded[n] =>
         n = m /\ \A s \in Solver : handle[s] = m => s = self[t]
  BY <1>4, <1>6, <1>7
<1>9. \A k \in Key : entries'[k] \in {entries[k], None}
  BY <1>6, <1>7
<1>10. ASSUME NEW s \in Solver PROVE Owned(s)'
  <2>1. CASE s = self[t] BY <1>5, <2>1 DEF Owned
  <2>2. CASE s # self[t] /\ handle[s] # None
    <3>1. handle'[s] = handle[s] /\ handle[s] \in Module BY <1>5, <2>2 DEF TypeOK
    <3>2. loaded'[handle[s]] = loaded[handle[s]] BY <1>8, <2>2, <3>1
    <3>3. solver'[s] = solver[s]
      BY <1>1, <2>2, ReturnTouches DEF Return, Touches
    <3>4. \A r \in Solver : handle'[r] = handle[s] => handle[r] = handle[s] BY <1>5, <2>2
    <3>5. \A k \in Key : entries'[k] = handle[s] => entries[k] = handle[s] BY <1>9, <2>2
    <3>. QED BY <3>1, <3>2, <3>3, <3>4, <3>5 DEF ModuleInv, Owned
  <2>3. CASE s # self[t] /\ handle[s] = None BY <1>5, <2>3 DEF Owned
  <2>. QED BY <2>1, <2>2, <2>3
<1>11. ASSUME NEW u \in Thread PROVE Built(u)'
  <2>1. CASE built[u] = None BY <1>2, <2>1 DEF Built
  <2>2. CASE built[u] # None
    <3>1. built[u] \in Module /\ Built(u) BY <2>2 DEF TypeOK, ModuleInv
    <3>2. built[u] # m BY <1>3, <2>2, <3>1 DEF Built
    <3>3. loaded'[built[u]] = loaded[built[u]] BY <1>8, <3>1, <3>2
    <3>4. \A s \in Solver : handle'[s] # built[u] BY <1>5, <2>2, <3>1 DEF Built
    <3>5. \A k \in Key : entries'[k] # built[u] BY <1>9, <2>2, <3>1 DEF Built
    <3>6. u # t /\ self[u] # None
      BY <1>2, <2>2 DEF PhaseInv, Phase, SelfInv
    <3>7. Dev(u)' = Dev(u) BY <3>6, OtherCalls DEF Return, Dev
    <3>. QED BY <1>2, <2>2, <3>1, <3>3, <3>4, <3>5, <3>7 DEF Built
  <2>. QED BY <2>1, <2>2
<1>12. ASSUME NEW k \in Key PROVE Entry(k)'
  <2>1. CASE UNCHANGED <<loaded, entries>> BY <2>1 DEF ModuleInv, Entry
  <2>2. CASE /\ loaded' = [loaded EXCEPT ![m] = None]
             /\ entries' = [j \in Key |-> IF entries[j] = m THEN None ELSE entries[j]]
    <3>1. entries'[k] # None => entries'[k] = entries[k] /\ entries[k] # m BY <2>2
    <3>2. entries[k] # None => entries[k] \in Module BY <1>7
    <3>3. entries'[k] # None => loaded'[entries[k]] = loaded[entries[k]]
      BY <1>7, <2>2, <3>1, <3>2
    <3>. QED BY <3>1, <3>3 DEF ModuleInv, Entry
  <2>. QED BY <1>6, <2>1, <2>2
<1>. QED BY <1>10, <1>11, <1>12 DEF ModuleInv

\* A hybrid constructor throws and leaves its module behind.
LEMMA LeakStep ==
    ASSUME TypeOK, SelfInv, PhaseInv, HandleInv, ModuleInv, NEW t \in Thread,
           LibrariesFail(t)
    PROVE  ModuleInv'
<1>1. Domains BY DomainsAre
<1>2. /\ UNCHANGED <<built, loaded, entries>> /\ pc[t] = "libraries"
      /\ handle' = [handle EXCEPT ![self[t]] = None]
  BY DEF LibrariesFail
<1>3. self[t] \in Solver BY <1>2, InCallSolver
<1>4. /\ handle'[self[t]] = None
      /\ \A s \in Solver \ {self[t]} : handle'[s] = handle[s]
  BY <1>1, <1>2, <1>3 DEF Domains
<1>5. ASSUME NEW s \in Solver PROVE Owned(s)'
  <2>1. CASE s = self[t] BY <1>4, <2>1 DEF Owned
  <2>2. CASE s # self[t]
    <3>1. solver'[s] = solver[s] /\ handle'[s] = handle[s]
      BY <1>1, <1>4, <2>2, ReturnTouches DEF Return, Touches
    <3>2. handle[s] # None => \A r \in Solver : handle'[r] = handle[s] => handle[r] = handle[s]
      BY <1>4
    <3>. QED BY <1>2, <3>1, <3>2 DEF ModuleInv, Owned
  <2>. QED BY <2>1, <2>2
<1>6. ASSUME NEW u \in Thread PROVE Built(u)'
  <2>1. CASE built[u] = None BY <1>2, <2>1 DEF Built
  <2>2. CASE built[u] # None
    <3>1. u # t /\ self[u] # None BY <1>2, <2>2 DEF PhaseInv, Phase, SelfInv
    <3>2. Dev(u)' = Dev(u) BY <3>1, OtherCalls DEF Return, Dev
    <3>3. Built(u) BY DEF ModuleInv
    <3>4. \A s \in Solver : handle'[s] # built[u] BY <1>4, <2>2, <3>3 DEF Built
    <3>. QED BY <1>2, <2>2, <3>2, <3>3, <3>4 DEF Built
  <2>. QED BY <2>1, <2>2
<1>7. ASSUME NEW k \in Key PROVE Entry(k)' BY <1>2 DEF ModuleInv, Entry
<1>. QED BY <1>5, <1>6, <1>7 DEF ModuleInv

\* Every step preserves what is known of the modules: whoever names one names a
\* loaded one, in a context of its architecture.
LEMMA ModuleStep ==
    ASSUME TypeOK, SelfInv, PhaseInv, HandleInv, ModuleInv, [Next]_vars PROVE ModuleInv'
<1>1. CASE Restart BY <1>1 DEF Restart, ModuleInv, Owned, Built, Entry
<1>2. CASE UNCHANGED vars
  BY <1>2, ModulesUntouched DEF vars, memory, frame, Dev
<1>3. ASSUME NEW t \in Thread, Call(t) \/ Return(t) PROVE ModuleInv'
  BY <1>3, QuietStep, LoadStep, HitStep, PublishStep, DropStep, LeakStep DEF Return
<1>. QED BY <1>1, <1>2, <1>3 DEF Next
-----------------------------------------------------------------------------
\* RefInv.

\* The sets of threads and solvers that are counted for a device are finite.
LEMMA CountsAre ==
    ASSUME NEW d
    PROVE  /\ IsFiniteSet(Retaining(d)) /\ Cardinality(Retaining(d)) \in Nat
           /\ IsFiniteSet(Holders(d)) /\ Cardinality(Holders(d)) \in Nat
           /\ IsFiniteSet(Leaked(d)) /\ Cardinality(Leaked(d)) \in Nat
<1>1. IsFiniteSet(Module)
  <2>1. Cardinality(Solver) \in Nat /\ Cardinality(Device) \in Nat /\ MaxRetained \in Nat
    BY ProcessAssumption, FS_CardinalityType
  <2>2. Cardinality(Solver) + Cardinality(Device) * MaxRetained \in Int BY <2>1
  <2>. QED BY <2>2, FS_Interval DEF Module
<1>2. Retaining(d) \in SUBSET Thread BY DEF Retaining
<1>3. Holders(d) \in SUBSET Solver BY DEF Holders
<1>4. Leaked(d) \in SUBSET Module BY DEF Leaked
<1>5. /\ IsFiniteSet(Retaining(d)) /\ IsFiniteSet(Holders(d)) /\ IsFiniteSet(Leaked(d))
  BY <1>1, <1>2, <1>3, <1>4, ProcessAssumption, FS_Subset
<1>. QED BY <1>5, FS_CardinalityType

\* A finite set that gains at most one element, loses one, or does not grow.
LEMMA Gains ==
    ASSUME NEW S, NEW T, NEW x, IsFiniteSet(S), T \subseteq S \cup {x}
    PROVE  Cardinality(T) \in Nat /\ Cardinality(T) <= Cardinality(S) + 1
<1>1. /\ IsFiniteSet(S \cup {x})
      /\ Cardinality(S \cup {x}) = IF x \in S THEN Cardinality(S) ELSE Cardinality(S) + 1
  BY FS_AddElement
<1>2. IsFiniteSet(T) /\ Cardinality(T) <= Cardinality(S \cup {x}) BY <1>1, FS_Subset
<1>3. Cardinality(S) \in Nat /\ Cardinality(T) \in Nat BY <1>2, FS_CardinalityType
<1>. QED BY <1>1, <1>2, <1>3

\* A set that loses an element has fewer.
LEMMA Loses ==
    ASSUME NEW S, NEW T, NEW x, IsFiniteSet(S), x \in S, T \subseteq S \ {x}
    PROVE  Cardinality(T) \in Nat /\ Cardinality(T) <= Cardinality(S) - 1
<1>1. IsFiniteSet(S \ {x}) /\ Cardinality(S \ {x}) = Cardinality(S) - 1
  BY FS_RemoveElement
<1>2. IsFiniteSet(T) /\ Cardinality(T) <= Cardinality(S \ {x}) BY <1>1, FS_Subset
<1>. QED BY <1>1, <1>2, FS_CardinalityType

\* A subset has no more elements.
LEMMA Shrinks ==
    ASSUME NEW S, NEW T, IsFiniteSet(S), T \subseteq S
    PROVE  Cardinality(T) \in Nat /\ Cardinality(T) <= Cardinality(S)
<1>1. IsFiniteSet(T) /\ Cardinality(T) <= Cardinality(S) BY FS_Subset
<1>. QED BY <1>1, FS_CardinalityType

\* A solver on which a call goes on past the retain holds a reference.
LEMMA HoldsReference ==
    ASSUME SelfInv, TypeOK, NEW t \in Thread, pc[t] \notin {"idle", "retain"}
    PROVE  self[t] \in Holders(Dev(t))
<1>1. self[t] \in Solver /\ solver[self[t]] # None BY InCallSolver
<1>2. \A u \in Thread : self[u] = self[t] => u = t BY <1>1, ProcessAssumption DEF SelfInv
<1>. QED BY <1>1, <1>2 DEF Holders, Dev

\* Who is about to retain a context.
LEMMA RetainingStep ==
    ASSUME TypeOK, SelfInv, NEW t \in Thread, Call(t) \/ Return(t), NEW d
    PROVE  /\ (\E mode \in {"unified", "hybrid"} : Create(t, mode, d))
                 \/ Retaining(d)' \subseteq Retaining(d)
           /\ Retaining(d)' \subseteq Retaining(d) \cup {t}
           /\ Retain(t) => t \notin Retaining(d)'
<1>1. Domains BY DomainsAre
<1>2. ASSUME NEW u \in Retaining(d)', u # t PROVE u \in Retaining(d)
  <2>1. u \in Thread /\ pc'[u] = "retain" /\ Dev(u)' = d BY <1>2 DEF Retaining
  <2>2. /\ pc'[u] = pc[u] /\ self'[u] = self[u]
        /\ self[u] # None => solver'[self[u]] = solver[self[u]]
    BY <1>2, <2>1, OtherCalls
  <2>3. self[u] # None BY <2>1, <2>2 DEF SelfInv
  <2>. QED BY <2>1, <2>2, <2>3 DEF Retaining, Dev
<1>3. CASE Return(t)
  <2>1. pc'[t] # "retain"
    BY <1>1, <1>3 DEF Return, RetainFails, Retain, Hit, Miss, HashKnown, HashEnter,
       HashCompute, DiskHit, DiskMiss, Compile, CompileFails, Write, Publish, ReduceKernel,
       Finish, AttributeFails, LibrariesFail, DropModule, Release, Caught, Goto, Domains
  <2>2. t \notin Retaining(d)' BY <2>1 DEF Retaining
  <2>. QED BY <1>2, <2>2
<1>4. CASE LaunchInvalid(t) \/ Launch(t) \/ \E s \in Solver : Destroy(t, s)
  <2>1. pc'[t] # "retain" /\ pc[t] = "idle"
    BY <1>1, <1>4 DEF LaunchInvalid, Launch, Launched, Destroy, Goto, frame, Domains
  <2>2. t \notin Retaining(d)' BY <2>1 DEF Retaining
  <2>. QED BY <1>2, <2>1, <2>2 DEF Retain, Goto
<1>5. ASSUME NEW mode \in {"unified", "hybrid"}, NEW e \in Device, Create(t, mode, e)
      PROVE  /\ e = d \/ Retaining(d)' \subseteq Retaining(d)
             /\ Retaining(d)' \subseteq Retaining(d) \cup {t}
             /\ ~Retain(t)
  <2>1. FreeSolver \in Solver BY <1>5, FreeSolverIs DEF Create
  <2>2. /\ pc[t] = "idle" /\ self'[t] = FreeSolver
        /\ solver'[FreeSolver] = [mode |-> mode, dev |-> e, live |-> FALSE]
    BY <1>1, <1>5, <2>1 DEF Create, Goto, FreeSolver, Domains
  <2>3. Dev(t)' = e BY <2>2 DEF Dev
  <2>4. t \in Retaining(d)' => e = d BY <2>3 DEF Retaining
  <2>. QED BY <1>2, <2>2, <2>4 DEF Retain, Goto
<1>. QED BY <1>2, <1>3, <1>4, <1>5 DEF Call

\* What happens to the solver of a call.
LEMMA SolverStep ==
    ASSUME TypeOK, SelfInv, NEW t \in Thread, Return(t)
    PROVE  /\ solver'[self[t]] = None \/ solver'[self[t]].dev = solver[self[t]].dev
           /\ RetainFails(t) \/ LibrariesFail(t) \/ Release(t) => solver'[self[t]] = None
<1>1. Domains BY DomainsAre
<1>2. pc[t] # "idle"
  BY DEF Return, RetainFails, Retain, Hit, Miss, HashKnown, HashEnter, HashCompute, DiskHit,
     DiskMiss, Compile, CompileFails, Write, Publish, ReduceKernel, Finish, AttributeFails,
     LibrariesFail, DropModule, Release, Goto
<1>3. self[t] \in Solver /\ solver[self[t]] \in Object BY <1>2, InCallSolver
<1>4. CASE RetainFails(t) \/ CompileFails(t) \/ AttributeFails(t) \/ LibrariesFail(t) \/ Release(t)
  <2>1. solver' = [solver EXCEPT ![self[t]] = None]
    BY <1>4 DEF RetainFails, CompileFails, AttributeFails, LibrariesFail, Release, Caught
  <2>2. solver'[self[t]] = None BY <1>1, <1>3, <2>1 DEF Domains
  <2>. QED BY <2>2
<1>5. CASE Finish(t)
  <2>1. solver' = [solver EXCEPT ![self[t]].live = TRUE] BY <1>5 DEF Finish, Handed
  <2>2. solver'[self[t]].dev = solver[self[t]].dev BY <1>1, <1>3, <2>1 DEF Domains, Object
  <2>3. pc[t] \in {"attribute", "libraries"} /\ retained' = retained /\ handle' = handle
    BY <1>5 DEF Finish, Goto
  <2>4. ~RetainFails(t) /\ ~Release(t) BY <2>3 DEF RetainFails, Release, Goto
  <2>5. CASE LibrariesFail(t)
    <3>1. solver' = [solver EXCEPT ![self[t]] = None] BY <2>5 DEF LibrariesFail, Caught
    <3>. QED BY <1>1, <1>3, <2>2, <3>1 DEF Domains
  <2>. QED BY <2>2, <2>4, <2>5
<1>6. CASE \/ Retain(t) \/ Hit(t) \/ Miss(t) \/ HashKnown(t) \/ HashEnter(t) \/ HashCompute(t)
           \/ DiskHit(t) \/ DiskMiss(t) \/ Compile(t) \/ Write(t) \/ Publish(t)
           \/ ReduceKernel(t) \/ DropModule(t)
  <2>1. solver' = solver
    BY <1>6 DEF Retain, Hit, Miss, HashKnown, HashEnter, HashCompute, DiskHit, DiskMiss,
       Compile, Write, Publish, ReduceKernel, DropModule, memory
  <2>. QED BY <1>4, <2>1
<1>. QED BY <1>4, <1>5, <1>6 DEF Return

\* Who holds a reference.
LEMMA HoldersStep ==
    ASSUME TypeOK, SelfInv, HandleInv, NEW t \in Thread, Call(t) \/ Return(t), NEW d
    PROVE  /\ (Retain(t) /\ d = Dev(t)) \/ Holders(d)' \subseteq Holders(d)
           /\ Holders(d)' \subseteq Holders(d) \cup {self[t]}
           /\ LibrariesFail(t) \/ Release(t) => self[t] \notin Holders(d)'
<1>1. Domains BY DomainsAre
<1>2. ASSUME NEW x, Touches(t, x), self[t] # None => self[t] = x,
             NEW s \in Holders(d)', s # x
      PROVE  s \in Holders(d)
  <2>1. s \in Solver /\ solver'[s] = solver[s] BY <1>2 DEF Holders, Touches
  <2>2. ASSUME NEW u \in Thread, self[u] = s PROVE pc[u] # "retain"
    <3>1. u # t BY <1>2, <2>1, <2>2, ProcessAssumption
    <3>2. pc'[u] = pc[u] /\ self'[u] = self[u] BY <3>1, OtherCalls
    <3>. QED BY <2>2, <3>2 DEF Holders
  <2>. QED BY <2>1, <2>2 DEF Holders
<1>3. CASE Return(t)
  <2>1. Touches(t, self[t]) BY <1>1, <1>3, ReturnTouches
  <2>2. Holders(d)' \subseteq Holders(d) \cup {self[t]} BY <1>2, <2>1
  <2>3. pc[t] # "idle"
    BY <1>3 DEF Return, RetainFails, Retain, Hit, Miss, HashKnown, HashEnter, HashCompute,
       DiskHit, DiskMiss, Compile, CompileFails, Write, Publish, ReduceKernel, Finish,
       AttributeFails, LibrariesFail, DropModule, Release, Goto
  <2>4. CASE pc[t] = "retain"
    <3>1. RetainFails(t) \/ Retain(t)
      BY <1>3, <2>4 DEF Return, Hit, Miss, HashKnown, HashEnter, HashCompute, DiskHit,
         DiskMiss, Compile, CompileFails, Write, Publish, ReduceKernel, Finish,
         AttributeFails, LibrariesFail, DropModule, Release, Goto
    <3>2. RetainFails(t) => self[t] \notin Holders(d)' BY <1>3, SolverStep DEF Holders
    <3>3. ~LibrariesFail(t) /\ ~Release(t) BY <2>4 DEF LibrariesFail, Release, Goto
    <3>4. Retain(t) /\ self[t] \in Holders(d)' => d = Dev(t)
      BY DEF Retain, Holders, Dev
    <3>. QED BY <2>2, <3>1, <3>2, <3>3, <3>4
  <2>5. CASE pc[t] # "retain"
    <3>1. self[t] \in Holders(Dev(t)) BY <2>3, <2>5, HoldsReference
    <3>2. self[t] \in Holders(d)' => d = Dev(t) BY <1>3, SolverStep DEF Holders, Dev
    <3>3. LibrariesFail(t) \/ Release(t) => self[t] \notin Holders(d)'
      BY <1>3, SolverStep DEF Holders
    <3>. QED BY <2>2, <3>1, <3>2, <3>3
  <2>. QED BY <2>4, <2>5
<1>4. ASSUME NEW mode \in {"unified", "hybrid"}, NEW e \in Device, Create(t, mode, e)
      PROVE  Holders(d)' \subseteq Holders(d) /\ pc[t] = "idle"
  <2>1. FreeSolver \in Solver BY <1>4, FreeSolverIs DEF Create
  <2>2. pc[t] = "idle" /\ pc'[t] = "retain" /\ self'[t] = FreeSolver
    BY <1>1, <1>4, <2>1 DEF Create, Goto, FreeSolver, Domains
  <2>3. FreeSolver \notin Holders(d)' BY <2>2 DEF Holders
  <2>4. self[t] = None BY <2>2 DEF SelfInv
  <2>5. Touches(t, FreeSolver) BY <1>1, <1>4, CreateTouches
  <2>. QED BY <1>2, <2>2, <2>3, <2>4, <2>5
<1>5. ASSUME NEW s \in Solver, Destroy(t, s)
      PROVE  Holders(d)' \subseteq Holders(d) /\ pc[t] = "idle"
  <2>1. /\ pc[t] = "idle" /\ solver[s] # None /\ solver[s].live
        /\ solver' = [solver EXCEPT ![s].live = FALSE]
    BY <1>5 DEF Destroy, Goto
  <2>2. solver[s] \in Object BY <2>1 DEF TypeOK
  <2>3. solver'[s].dev = solver[s].dev BY <1>1, <2>1, <2>2 DEF Domains, Object
  <2>4. \A u \in Thread : self[u] # s BY <2>1, ProcessAssumption DEF SelfInv
  <2>5. s \in Holders(d)' => s \in Holders(d) BY <2>1, <2>3, <2>4 DEF Holders
  <2>6. self[t] = None BY <2>1 DEF SelfInv
  <2>7. Touches(t, s) BY <1>1, <1>5, DestroyTouches
  <2>. QED BY <1>2, <2>1, <2>5, <2>6, <2>7
<1>6. CASE LaunchInvalid(t) \/ Launch(t)
  <2>1. UNCHANGED <<pc, self, solver>> /\ pc[t] = "idle"
    BY <1>1, <1>6, LaunchTouches DEF memory, frame, LaunchInvalid, Launch, Launched
  <2>2. Holders(d)' = Holders(d) BY <2>1 DEF Holders
  <2>. QED BY <2>1, <2>2 DEF LibrariesFail, Release, Goto
<1>. QED BY <1>3, <1>4, <1>5, <1>6 DEF Call, Retain, LibrariesFail, Release, Goto

\* Which modules are left without an owner: no step but LibrariesFail leaves one.
LEMMA LeakedStep ==
    ASSUME TypeOK, SelfInv, PhaseInv, HandleInv, ModuleInv,
           NEW t \in Thread, Call(t) \/ Return(t), NEW d
    PROVE  /\ (LibrariesFail(t) /\ d = Dev(t)) \/ Leaked(d)' \subseteq Leaked(d)
           /\ LibrariesFail(t) => Leaked(d)' \subseteq Leaked(d) \cup {handle[self[t]]}
<1>1. Domains BY DomainsAre
\* It suffices that no module that is leaked has just lost its owner.
<1>2. ASSUME NEW m \in Leaked(d)', loaded'[m] = loaded[m],
             \A s \in Solver : handle[s] # m, \A u \in Thread : built[u] # m
      PROVE  m \in Leaked(d)
  BY <1>2 DEF Leaked, Owners
<1>3. ASSUME NEW m \in Leaked(d)'
      PROVE  /\ m \in Module /\ loaded'[m] # None /\ loaded'[m].ctx = d
             /\ \A s \in Solver : handle'[s] # m
             /\ \A u \in Thread : built'[u] # m
  BY <1>3 DEF Leaked, Owners
<1>4. CASE \/ RetainFails(t) \/ Retain(t) \/ Miss(t) \/ HashKnown(t) \/ HashEnter(t)
           \/ HashCompute(t) \/ DiskMiss(t) \/ CompileFails(t) \/ Write(t) \/ Finish(t)
           \/ Release(t) \/ Call(t)
  <2>1. UNCHANGED <<handle, built, loaded>> /\ ~LibrariesFail(t)
    <3>1. CASE Call(t)
      <4>1. UNCHANGED <<handle, built, loaded>> /\ pc[t] = "idle"
        BY <1>1, <3>1, LaunchTouches DEF Call, Create, Destroy, LaunchInvalid, Launch,
           Launched, Goto, memory, frame
      <4>. QED BY <4>1 DEF LibrariesFail
    <3>2. CASE \/ Retain(t) \/ Miss(t) \/ HashKnown(t) \/ HashEnter(t)
               \/ HashCompute(t) \/ DiskMiss(t) \/ Write(t) \/ Release(t)
      BY <3>2 DEF Retain, Miss, HashKnown, HashEnter, HashCompute, DiskMiss,
         Write, Release, Goto, memory, LibrariesFail
    <3>3. CASE RetainFails(t) \/ CompileFails(t)
      BY <3>3 DEF RetainFails, CompileFails, LibrariesFail
    <3>4. CASE Finish(t)
      <4>1. pc[t] \in {"attribute", "libraries"} /\ UNCHANGED <<handle, built, loaded>>
        BY <3>4 DEF Finish, Goto
      <4>2. handle[self[t]] # None /\ self[t] \in Solver
        BY <4>1, InCallSolver DEF HandleInv, Holding
      <4>3. LibrariesFail(t) => handle'[self[t]] = None
        BY <1>1, <4>2 DEF LibrariesFail, Domains
      <4>. QED BY <4>1, <4>2, <4>3
    <3>. QED BY <1>4, <3>1, <3>2, <3>3, <3>4
  <2>. QED BY <1>2, <1>3, <2>1
<1>5. CASE DiskHit(t) \/ Compile(t)
  <2>1. handle' = handle /\ built' = [built EXCEPT ![t] = FreeModule] /\ pc[t] # "libraries"
    BY <1>5 DEF DiskHit, Compile, Goto
  <2>2. built[t] = None
    BY <1>5 DEF PhaseInv, Phase, DiskHit, Compile, Goto
  <2>3. ASSUME NEW m \in Leaked(d)' PROVE m \in Leaked(d)
    <3>1. m \in Module /\ m # FreeModule /\ m # None
      BY <1>1, <1>3, <2>1, <2>3, ProcessAssumption DEF Domains
    <3>2. loaded'[m] = loaded[m] BY <1>5, <3>1, Loads
    <3>3. \A u \in Thread : built[u] # m BY <1>1, <1>3, <2>1, <2>2, <2>3, <3>1 DEF Domains
    <3>4. \A s \in Solver : handle[s] # m BY <1>3, <2>1, <2>3
    <3>. QED BY <1>2, <2>3, <3>2, <3>3, <3>4
  <2>. QED BY <2>1, <2>3 DEF LibrariesFail
<1>6. CASE Hit(t) \/ ReduceKernel(t) \/ Publish(t)
  <2>1. /\ pc[t] \in Early \ {"idle"} /\ pc[t] # "libraries"
    BY <1>6 DEF Hit, ReduceKernel, Publish, Goto, Early, Constructing, InCall
  <2>2. handle[self[t]] = None /\ self[t] \in Solver
    BY <2>1, InCallSolver DEF HandleInv, Holding
  <2>3. \A s \in Solver \ {self[t]} : handle'[s] = handle[s]
    BY <1>1, <1>6, ReturnTouches DEF Return, Touches
  <2>4. ASSUME NEW m \in Leaked(d)' PROVE m \in Leaked(d)
    <3>1. m \in Module /\ m # None BY <1>3, <2>4, ProcessAssumption
    <3>2. \A s \in Solver : handle[s] # m BY <1>3, <2>2, <2>3, <2>4, <3>1
    <3>3. CASE Hit(t)
      <4>1. loaded' = loaded /\ built' = built BY <3>3 DEF Hit
      <4>. QED BY <1>2, <1>3, <2>4, <3>2, <4>1
    <3>4. CASE Publish(t)
      <4>1. /\ loaded' = loaded /\ built' = [built EXCEPT ![t] = None]
            /\ handle' = [handle EXCEPT ![self[t]] = built[t]]
        BY <3>4 DEF Publish
      <4>2. built[t] # m BY <1>1, <1>3, <2>2, <2>4, <4>1 DEF Domains
      <4>3. \A u \in Thread : built[u] # m BY <1>1, <1>3, <2>4, <4>1, <4>2 DEF Domains
      <4>. QED BY <1>2, <2>4, <3>2, <4>1, <4>3
    <3>5. CASE ReduceKernel(t)
      <4>1. built' = built /\ handle' = [handle EXCEPT ![self[t]] = FreeModule]
        BY <3>5 DEF ReduceKernel
      <4>2. m # FreeModule BY <1>1, <1>3, <2>2, <2>4, <4>1 DEF Domains
      <4>3. loaded'[m] = loaded[m] BY <3>1, <3>5, <4>2, Loads
      <4>. QED BY <1>2, <1>3, <2>4, <3>2, <4>1, <4>3
    <3>. QED BY <1>6, <3>3, <3>4, <3>5
  <2>. QED BY <2>1, <2>4 DEF LibrariesFail
<1>7. CASE AttributeFails(t) \/ DropModule(t)
  <2>1. built' = built /\ pc[t] \in {"attribute", "drop"} /\ Drop(self[t])
    BY <1>7 DEF AttributeFails, DropModule, Goto
  <2>2. self[t] \in Solver /\ handle[self[t]] # None
    BY <2>1, InCallSolver DEF HandleInv, Holding
  <2>3. handle[self[t]] \in Module BY <2>2 DEF TypeOK
  <2>4. \A s \in Solver \ {self[t]} : handle'[s] = handle[s]
    BY <1>1, <1>7, ReturnTouches DEF Return, Touches
  <2>5. ASSUME NEW m \in Leaked(d)' PROVE m \in Leaked(d)
    <3>1. CASE m = handle[self[t]]
      <4>1. Owners(m) = {self[t]} BY <1>3, <2>2, <2>4, <2>5, <3>1 DEF Owners
      <4>2. loaded' = [loaded EXCEPT ![m] = None] BY <2>1, <3>1, <4>1 DEF Drop
      <4>3. loaded'[m] = None BY <2>3, <3>1, <4>2 DEF TypeOK
      <4>. QED BY <1>3, <2>5, <4>3
    <3>2. CASE m # handle[self[t]]
      <4>1. loaded'[m] = loaded[m] BY <1>3, <2>1, <2>5, <3>2 DEF Drop, TypeOK
      <4>2. \A s \in Solver : handle[s] # m BY <1>3, <2>4, <2>5, <3>2
      <4>3. \A u \in Thread : built[u] # m BY <1>3, <2>1, <2>5
      <4>. QED BY <1>2, <2>5, <4>1, <4>2, <4>3
    <3>. QED BY <3>1, <3>2
  <2>. QED BY <2>1, <2>5 DEF LibrariesFail
<1>8. CASE LibrariesFail(t)
  <2>1. built' = built /\ loaded' = loaded /\ pc[t] = "libraries" BY <1>8 DEF LibrariesFail
  <2>2. self[t] \in Solver /\ handle[self[t]] # None /\ solver[self[t]].mode # "unified"
    BY <2>1, InCallSolver DEF HandleInv, Holding, PhaseInv, Phase, Unified
  <2>3. loaded[handle[self[t]]].ctx = Dev(t) BY <2>2 DEF ModuleInv, Owned, Dev
  <2>4. \A s \in Solver \ {self[t]} : handle'[s] = handle[s]
    BY <1>1, <1>8, ReturnTouches DEF Return, Touches
  <2>5. ASSUME NEW m \in Leaked(d)', m # handle[self[t]] PROVE m \in Leaked(d)
    <3>1. \A s \in Solver : handle[s] # m BY <1>3, <2>4, <2>5
    <3>. QED BY <1>2, <1>3, <2>1, <2>5, <3>1
  <2>6. handle[self[t]] \in Leaked(d)' => d = Dev(t) BY <1>3, <2>1, <2>3
  <2>. QED BY <1>8, <2>5, <2>6
<1>. QED BY <1>4, <1>5, <1>6, <1>7, <1>8 DEF Return

\* What happens to the references themselves.
LEMMA RetainedStep ==
    ASSUME TypeOK, SelfInv, NEW t \in Thread, Call(t) \/ Return(t), NEW d \in Device
    PROVE  /\ Retain(t) /\ d = Dev(t) => retained'[d] = retained[d] + 1
           /\ Release(t) /\ d = Dev(t) => retained'[d] = retained[d] - 1
           /\ ~((Retain(t) \/ Release(t)) /\ d = Dev(t)) => retained'[d] = retained[d]
<1>1. retained \in [Device -> 0 .. MaxRetained] BY DEF TypeOK
<1>2. CASE Retain(t)
  <2>1. retained' = [retained EXCEPT ![Dev(t)] = @ + 1] /\ pc[t] = "retain"
    BY <1>2 DEF Retain, Goto
  <2>2. ~Release(t) BY <2>1 DEF Release, Goto
  <2>. QED BY <1>1, <1>2, <2>1, <2>2
<1>3. CASE Release(t)
  <2>1. retained' = [retained EXCEPT ![Dev(t)] = @ - 1] /\ pc[t] = "release"
    BY <1>3 DEF Release, Goto
  <2>2. ~Retain(t) BY <2>1 DEF Retain, Goto
  <2>. QED BY <1>1, <1>3, <2>1, <2>2
<1>4. CASE Call(t)
  BY <1>2, <1>3, <1>4 DEF Call, Create, Destroy, LaunchInvalid, Launch, Launched, memory
<1>5. CASE Return(t) /\ ~Retain(t) /\ ~Release(t)
  <2>1. retained' = retained
    BY <1>5 DEF Return, RetainFails, Hit, Miss, HashKnown, HashEnter, HashCompute, DiskHit,
       DiskMiss, Compile, CompileFails, Write, Publish, ReduceKernel, Finish,
       AttributeFails, LibrariesFail, DropModule, memory
  <2>. QED BY <1>5, <2>1
<1>. QED BY <1>2, <1>3, <1>4, <1>5

\* References cover their holders, and what was left behind.
LEMMA CoverStep ==
    ASSUME ProcessInv, NEW t \in Thread, Call(t) \/ Return(t), NEW d \in Device
    PROVE  retained'[d] >= Cardinality(Holders(d)') + Cardinality(Leaked(d)')
<1>1. TypeOK /\ SelfInv /\ PhaseInv /\ HandleInv /\ ModuleInv BY DEF ProcessInv
<1>2. retained[d] \in Nat
  <2>1. retained \in [Device -> 0 .. MaxRetained] BY DEF ProcessInv, TypeOK
  <2>. QED BY <2>1
<1>3. retained[d] >= Cardinality(Holders(d)) + Cardinality(Leaked(d))
  BY DEF ProcessInv, RefInv
<1>4. /\ IsFiniteSet(Holders(d)) /\ Cardinality(Holders(d)) \in Nat
      /\ IsFiniteSet(Leaked(d)) /\ Cardinality(Leaked(d)) \in Nat
  BY CountsAre
<1> DEFINE H == Cardinality(Holders(d))
           L == Cardinality(Leaked(d))
           NH == Cardinality(Holders(d)')
           NL == Cardinality(Leaked(d)')
<1>5. CASE Retain(t) /\ d = Dev(t)
  <2>1. retained'[d] = retained[d] + 1 BY <1>1, <1>5, RetainedStep
  <2>2. Holders(d)' \subseteq Holders(d) \cup {self[t]} BY <1>1, HoldersStep
  <2>3. pc[t] = "retain" BY <1>5 DEF Retain, Goto
  <2>4. Leaked(d)' \subseteq Leaked(d) BY <1>1, <2>3, LeakedStep DEF LibrariesFail
  <2>5. NH \in Nat /\ NH <= H + 1 BY <1>4, <2>2, Gains
  <2>6. NL \in Nat /\ NL <= L BY <1>4, <2>4, Shrinks
  <2>. QED BY <1>2, <1>3, <1>4, <2>1, <2>5, <2>6
<1>6. CASE (Release(t) \/ LibrariesFail(t)) /\ d = Dev(t)
  <2>1. pc[t] \in {"release", "libraries"} /\ ~Retain(t)
    BY <1>6 DEF Release, LibrariesFail, Retain, Goto
  <2>2. self[t] \in Holders(d) BY <1>1, <1>6, <2>1, HoldsReference
  <2>3. Holders(d)' \subseteq Holders(d) \ {self[t]} BY <1>1, <1>6, <2>1, HoldersStep
  <2>4. NH \in Nat /\ NH <= H - 1 BY <1>4, <2>2, <2>3, Loses
  <2>5. CASE Release(t)
    <3>1. retained'[d] = retained[d] - 1 BY <1>1, <1>6, <2>5, RetainedStep
    <3>2. ~LibrariesFail(t) BY <2>5 DEF Release, LibrariesFail, Goto
    <3>3. Leaked(d)' \subseteq Leaked(d) BY <1>1, <3>2, LeakedStep
    <3>4. NL \in Nat /\ NL <= L BY <1>4, <3>3, Shrinks
    <3>. QED BY <1>2, <1>3, <1>4, <2>4, <3>1, <3>4
  <2>6. CASE LibrariesFail(t)
    <3>1. ~Release(t) BY <2>6 DEF Release, LibrariesFail, Goto
    <3>2. retained'[d] = retained[d] BY <1>1, <2>1, <3>1, RetainedStep
    <3>3. Leaked(d)' \subseteq Leaked(d) \cup {handle[self[t]]} BY <1>1, <2>6, LeakedStep
    <3>4. NL \in Nat /\ NL <= L + 1 BY <1>4, <3>3, Gains
    <3>. QED BY <1>2, <1>3, <1>4, <2>4, <3>2, <3>4
  <2>. QED BY <1>6, <2>5, <2>6
<1>7. CASE ~((Retain(t) \/ Release(t) \/ LibrariesFail(t)) /\ d = Dev(t))
  <2>1. retained'[d] = retained[d] BY <1>1, <1>7, RetainedStep
  <2>2. Holders(d)' \subseteq Holders(d) BY <1>1, <1>7, HoldersStep
  <2>3. Leaked(d)' \subseteq Leaked(d) BY <1>1, <1>7, LeakedStep
  <2>4. NH \in Nat /\ NH <= H BY <1>4, <2>2, Shrinks
  <2>5. NL \in Nat /\ NL <= L BY <1>4, <2>3, Shrinks
  <2>. QED BY <1>2, <1>3, <1>4, <2>1, <2>4, <2>5
<1>. QED BY <1>5, <1>6, <1>7

\* No context gets more references than create lets constructors claim.
LEMMA ClaimsStep ==
    ASSUME ProcessInv, NEW t \in Thread, Call(t) \/ Return(t), NEW d \in Device
    PROVE  /\ retained'[d] \in 0 .. MaxRetained
           /\ retained'[d] + Cardinality(Retaining(d)') <= MaxRetained
<1>1. TypeOK /\ SelfInv /\ PhaseInv /\ HandleInv /\ ModuleInv BY DEF ProcessInv
<1>2. retained[d] \in Nat /\ MaxRetained \in Nat
  <2>1. retained \in [Device -> 0 .. MaxRetained] BY DEF ProcessInv, TypeOK
  <2>. QED BY <2>1, ProcessAssumption
<1>3. retained[d] + Cardinality(Retaining(d)) <= MaxRetained
  BY DEF ProcessInv, RefInv, Claims, Retaining
<1>4. IsFiniteSet(Retaining(d)) /\ Cardinality(Retaining(d)) \in Nat BY CountsAre
<1> DEFINE R == Cardinality(Retaining(d))
           NR == Cardinality(Retaining(d)')
<1>5. CASE Retain(t) /\ d = Dev(t)
  <2>1. retained'[d] = retained[d] + 1 BY <1>1, <1>5, RetainedStep
  <2>2. t \in Retaining(d) BY <1>5 DEF Retain, Goto, Retaining
  <2>3. Retaining(d)' \subseteq Retaining(d) \ {t} BY <1>1, <1>5, <2>2, RetainingStep
  <2>4. NR \in Nat /\ NR <= R - 1 BY <1>4, <2>2, <2>3, Loses
  <2>. QED BY <1>2, <1>3, <1>4, <2>1, <2>4
<1>6. ASSUME NEW mode \in {"unified", "hybrid"}, Create(t, mode, d)
      PROVE  /\ retained'[d] \in 0 .. MaxRetained
             /\ retained'[d] + Cardinality(Retaining(d)') <= MaxRetained
  <2>1. retained' = retained /\ retained[d] + R < MaxRetained
    BY <1>6 DEF Create, Claims, Retaining
  <2>2. Retaining(d)' \subseteq Retaining(d) \cup {t} BY <1>1, RetainingStep
  <2>3. NR \in Nat /\ NR <= R + 1 BY <1>4, <2>2, Gains
  <2>. QED BY <1>2, <1>4, <2>1, <2>3
<1>7. CASE /\ ~(Retain(t) /\ d = Dev(t))
           /\ ~\E mode \in {"unified", "hybrid"} : Create(t, mode, d)
  <2>1. Retaining(d)' \subseteq Retaining(d) BY <1>1, <1>7, RetainingStep
  <2>2. NR \in Nat /\ NR <= R BY <1>4, <2>1, Shrinks
  <2>3. CASE Release(t) /\ d = Dev(t)
    <3>1. retained'[d] = retained[d] - 1 BY <1>1, <2>3, RetainedStep
    <3>2. self[t] \in Holders(d) BY <1>1, <2>3, HoldsReference DEF Release, Goto
    <3>3. IsFiniteSet(Holders(d)) /\ Cardinality(Holders(d)) \in Nat
          /\ Cardinality(Leaked(d)) \in Nat
      BY CountsAre
    <3>4. Cardinality(Holders(d)) # 0 BY <3>2, <3>3, FS_EmptySet
    <3>5. retained[d] >= Cardinality(Holders(d)) + Cardinality(Leaked(d))
      BY DEF ProcessInv, RefInv
    <3>6. retained[d] >= 1 BY <1>2, <3>3, <3>4, <3>5
    <3>. QED BY <1>2, <1>3, <1>4, <2>2, <3>1, <3>6
  <2>4. CASE ~(Release(t) /\ d = Dev(t))
    <3>1. retained'[d] = retained[d] BY <1>1, <1>7, <2>4, RetainedStep
    <3>. QED BY <1>2, <1>3, <1>4, <2>2, <3>1
  <2>. QED BY <2>3, <2>4
<1>. QED BY <1>5, <1>6, <1>7

\* Every step keeps the reference count of each context at least at the number of
\* solvers that hold one and of modules that failed constructors left.
LEMMA RefStep == ASSUME ProcessInv, [Next]_vars PROVE RefInv'
<1>1. CASE Restart
  <2>1. ASSUME NEW d \in Device
        PROVE  Retaining(d)' = {} /\ Holders(d)' = {} /\ Leaked(d)' = {} /\ retained'[d] = 0
    BY <1>1 DEF Restart, Retaining, Holders, Leaked
  <2>2. ASSUME NEW d \in Device
        PROVE  /\ Cardinality(Retaining(d)') = 0 /\ Cardinality(Holders(d)') = 0
               /\ Cardinality(Leaked(d)') = 0
    BY <2>1, FS_EmptySet
  <2>. QED BY <2>1, <2>2, ProcessAssumption DEF RefInv, Claims, Retaining
<1>2. CASE UNCHANGED vars
  BY <1>2 DEF vars, frame, memory, ProcessInv, RefInv, Claims, Holders, Leaked, Owners, Dev
<1>3. ASSUME NEW t \in Thread, Call(t) \/ Return(t) PROVE RefInv'
  BY <1>3, CoverStep, ClaimsStep DEF RefInv, Claims, Retaining
<1>. QED BY <1>1, <1>2, <1>3 DEF Next
-----------------------------------------------------------------------------
\* TypeOK.

\* No count of references leaves its range.
LEMMA RetainedType ==
    ASSUME ProcessInv, NEW t \in Thread, Call(t) \/ Return(t)
    PROVE  retained' \in [Device -> 0 .. MaxRetained]
<1>1. retained \in [Device -> 0 .. MaxRetained] BY DEF ProcessInv, TypeOK
<1>2. \A d \in Device : retained'[d] \in 0 .. MaxRetained BY ClaimsStep
<1>3. \/ retained' = retained
      \/ \E x : retained' = [retained EXCEPT ![Dev(t)] = x]
  <2>1. CASE Retain(t) BY <2>1 DEF Retain
  <2>2. CASE Release(t) BY <2>2 DEF Release
  <2>3. CASE Call(t)
    BY <2>3 DEF Call, Create, Destroy, LaunchInvalid, Launch, Launched, memory
  <2>4. CASE Return(t) /\ ~Retain(t) /\ ~Release(t)
    BY <2>4 DEF Return, RetainFails, Hit, Miss, HashKnown, HashEnter, HashCompute, DiskHit,
       DiskMiss, Compile, CompileFails, Write, Publish, ReduceKernel, Finish,
       AttributeFails, LibrariesFail, DropModule, memory
  <2>. QED BY <2>1, <2>2, <2>3, <2>4
<1>. QED BY <1>1, <1>2, <1>3

\* The frame of a call: pc, self, hash, built, err, returned.
FrameType ==
    /\ pc \in [Thread -> InCall \cup {"idle"}]
    /\ self \in [Thread -> Solver \cup {None}]
    /\ hash \in [Thread -> Hashes]
    /\ built \in [Thread -> Module \cup {None}]
    /\ err \in [Thread -> {"", "what", "argument"}]
    /\ returned \in [Thread -> {"done", "pending", "failed", "INVALID_ARG"}]

\* A thread's own step keeps the types of its local state.
LEMMA FrameStep ==
    ASSUME TypeOK, NEW t \in Thread, Call(t) \/ Return(t) PROVE FrameType'
<1>1. FrameType BY DEF TypeOK, FrameType
<1>2. memo.cached \in Hashes /\ Fingerprint[installed] \in Hashes /\ Unhashed \in Hashes
  BY DEF TypeOK, Hashes, Nameless
<1>. USE <1>1 DEF FrameType, InCall, Goto, Caught
<1>3. CASE RetainFails(t) BY <1>3 DEF RetainFails
<1>4. CASE Retain(t) BY <1>4 DEF Retain, told
<1>5. CASE Hit(t) BY <1>5 DEF Hit, told
<1>6. CASE Miss(t) BY <1>6 DEF Miss, told
<1>7. CASE HashKnown(t) BY <1>2, <1>7 DEF HashKnown, told
<1>8. CASE HashEnter(t) BY <1>8 DEF HashEnter, told
<1>9. CASE HashCompute(t) BY <1>2, <1>9 DEF HashCompute, told
<1>10. CASE DiskHit(t)
  BY <1>2, <1>10, FreeModuleIs DEF DiskHit, LoadModule, told
<1>11. CASE DiskMiss(t) BY <1>2, <1>11 DEF DiskMiss, told
<1>12. CASE Compile(t) BY <1>12, FreeModuleIs DEF Compile, LoadModule, told
<1>13. CASE CompileFails(t) BY <1>13 DEF CompileFails
<1>14. CASE Write(t) BY <1>14 DEF Write, told
<1>15. CASE Publish(t) BY <1>15 DEF Publish, told
<1>16. CASE ReduceKernel(t) BY <1>16 DEF ReduceKernel, told
<1>17. CASE Finish(t) BY <1>17 DEF Finish, Handed
<1>18. CASE AttributeFails(t) BY <1>18 DEF AttributeFails
<1>19. CASE LibrariesFail(t) BY <1>19 DEF LibrariesFail
<1>20. CASE DropModule(t) BY <1>20 DEF DropModule, told
<1>21. CASE Release(t) BY <1>21 DEF Release, told
<1>22. ASSUME NEW mode, NEW d, Create(t, mode, d) PROVE FrameType'
  <2>1. FreeSolver \in Solver BY <1>22, FreeSolverIs DEF Create
  <2>. QED BY <1>22, <2>1 DEF Create, Clear, FreeSolver
<1>23. ASSUME NEW s \in Solver, Destroy(t, s) PROVE FrameType'
  BY <1>23 DEF Destroy, told
<1>24. CASE LaunchInvalid(t) \/ Launch(t)
  BY <1>24 DEF LaunchInvalid, Launch, Launched, Clear, frame
<1>. QED
  BY <1>3, <1>4, <1>5, <1>6, <1>7, <1>8, <1>9, <1>10, <1>11, <1>12, <1>13, <1>14, <1>15,
     <1>16, <1>17, <1>18, <1>19, <1>20, <1>21, <1>22, <1>23, <1>24 DEF Call, Return

\* What the process and the disk hold.
StoreType ==
    /\ installed \in Library
    /\ disk \in [Key \X Hashes -> Library \cup {None}]
    /\ memo \in [init : BOOLEAN, cached : Hashes]
    /\ entries \in [Key -> Module \cup {None}]
    /\ loaded \in [Module -> Loaded \cup {None}]
    /\ solver \in [Solver -> Object \cup {None}]
    /\ handle \in [Solver -> Module \cup {None}]

\* A thread's own step keeps the types of what the process and the disk store.
LEMMA StoreStep ==
    ASSUME ProcessInv, NEW t \in Thread, Call(t) \/ Return(t) PROVE StoreType'
<1>1. TypeOK /\ SelfInv /\ PhaseInv /\ HandleInv /\ ModuleInv BY DEF ProcessInv
<1>2. StoreType BY <1>1 DEF TypeOK, StoreType
<1>3. pc[t] # "idle" => /\ self[t] \in Solver /\ solver[self[t]] \in Object
                        /\ KeyOf(t) \in Key
  BY <1>1, InCallSolver
<1>4. built[t] \in Module \cup {None} BY <1>1 DEF TypeOK
<1>5. CASE Retain(t) \/ Miss(t) \/ HashKnown(t) \/ DiskMiss(t) \/ LaunchInvalid(t) \/ Launch(t)
  BY <1>2, <1>5 DEF Retain, Miss, HashKnown, DiskMiss, LaunchInvalid, Launch, Launched,
     files, memory, StoreType
<1>6. CASE RetainFails(t) \/ CompileFails(t) \/ Release(t)
  BY <1>2, <1>6 DEF RetainFails, CompileFails, Release, Caught, files, StoreType
<1>7. CASE HashEnter(t) BY <1>2, <1>7 DEF HashEnter, files, StoreType
<1>8. CASE HashCompute(t)
  <2>1. HashesOf(installed) \subseteq Hashes BY <1>2 DEF StoreType, HashesOf, Hashes, Nameless
  <2>2. PICK h \in Hashes : memo' = [init |-> TRUE, cached |-> h]
    BY <1>8, <2>1 DEF HashCompute
  <2>. QED BY <1>2, <1>8, <2>2 DEF HashCompute, files, StoreType
<1>9. CASE DiskHit(t) \/ Compile(t) \/ ReduceKernel(t)
  <2>1. /\ FreeModule \in Module /\ loaded'[FreeModule] \in Loaded
        /\ \A m \in Module \ {FreeModule} : loaded'[m] = loaded[m]
    BY <1>1, <1>9, Loads
  <2>2. \E x : loaded' = [loaded EXCEPT ![FreeModule] = x]
    BY <1>9 DEF DiskHit, Compile, ReduceKernel, LoadModule
  <2>3. loaded' \in [Module -> Loaded \cup {None}] BY <1>2, <2>1, <2>2 DEF StoreType
  <2>4. handle' \in [Solver -> Module \cup {None}]
    BY <1>2, <1>9, <2>1 DEF DiskHit, Compile, ReduceKernel, StoreType
  <2>5. UNCHANGED <<installed, disk, memo, entries, solver>>
    BY <1>9 DEF DiskHit, Compile, ReduceKernel, files
  <2>. QED BY <1>2, <2>3, <2>4, <2>5 DEF StoreType
<1>10. CASE Hit(t)
  <2>1. entries[KeyOf(t)] \in Module \cup {None} BY <1>2, <1>3, <1>10 DEF Hit, Goto, StoreType
  <2>. QED BY <1>2, <1>10, <2>1 DEF Hit, files, StoreType
<1>11. CASE Write(t)
  <2>1. /\ pc[t] = "write" /\ UNCHANGED <<installed, memory>>
        /\ disk' = [disk EXCEPT ![Path(KeyOf(t), memo.cached)] = loaded[built[t]].library]
    BY <1>11 DEF Write, Goto
  <2>2. built[t] # None /\ loaded[built[t]] # None
    BY <1>1, <2>1 DEF PhaseInv, Phase, ModuleInv, Built
  <2>3. loaded[built[t]] \in Loaded BY <1>2, <1>4, <2>2 DEF StoreType
  <2>4. loaded[built[t]].library \in Library BY <2>3 DEF Loaded
  <2>5. disk' \in [Key \X Hashes -> Library \cup {None}]
    BY <1>2, <2>1, <2>4 DEF StoreType
  <2>. QED BY <1>2, <2>1, <2>5 DEF StoreType, memory
<1>12. CASE Publish(t)
  BY <1>2, <1>4, <1>12 DEF Publish, files, StoreType
<1>13. CASE Finish(t)
  <2>1. /\ solver' = [solver EXCEPT ![self[t]].live = TRUE] /\ pc[t] # "idle"
        /\ UNCHANGED <<files, memo, entries, loaded, handle>>
    BY <1>13 DEF Finish, Handed, Goto
  <2>2. [solver[self[t]] EXCEPT !.live = TRUE] \in Object BY <1>3, <2>1 DEF Object
  <2>3. solver' \in [Solver -> Object \cup {None}] BY <1>2, <2>1, <2>2 DEF StoreType
  <2>. QED BY <1>2, <2>1, <2>3 DEF StoreType, files
<1>14. CASE AttributeFails(t) \/ DropModule(t)
  <2>1. /\ UNCHANGED <<files, memo>> /\ Drop(self[t])
        /\ solver' = solver \/ solver' = [solver EXCEPT ![self[t]] = None]
    BY <1>14 DEF AttributeFails, DropModule, Caught
  <2>2. /\ loaded' = loaded \/ loaded' = [loaded EXCEPT ![handle[self[t]]] = None]
        /\ \/ entries' = entries
           \/ entries' = [k \in Key |-> IF entries[k] = handle[self[t]] THEN None ELSE entries[k]]
        /\ handle' = [handle EXCEPT ![self[t]] = None]
    BY <2>1 DEF Drop
  <2>3. loaded' \in [Module -> Loaded \cup {None}] BY <1>2, <2>2 DEF StoreType
  <2>4. entries' \in [Key -> Module \cup {None}] BY <1>2, <2>2 DEF StoreType
  <2>. QED BY <1>2, <2>1, <2>2, <2>3, <2>4 DEF StoreType, files
<1>15. CASE LibrariesFail(t)
  BY <1>2, <1>15 DEF LibrariesFail, Caught, files, StoreType
<1>16. ASSUME NEW mode \in {"unified", "hybrid"}, NEW d \in Device, Create(t, mode, d)
       PROVE  StoreType'
  <2>1. [mode |-> mode, dev |-> d, live |-> FALSE] \in Object BY DEF Object
  <2>. QED BY <1>2, <1>16, <2>1 DEF Create, files, StoreType
<1>17. ASSUME NEW s \in Solver, Destroy(t, s) PROVE StoreType'
  <2>1. /\ solver' = [solver EXCEPT ![s].live = FALSE] /\ solver[s] # None
        /\ UNCHANGED <<files, memo, entries, loaded, handle>>
    BY <1>17 DEF Destroy
  <2>2. solver[s] \in Object BY <1>2, <2>1 DEF StoreType
  <2>3. [solver[s] EXCEPT !.live = FALSE] \in Object BY <2>2 DEF Object
  <2>4. solver' \in [Solver -> Object \cup {None}] BY <1>2, <2>1, <2>3 DEF StoreType
  <2>. QED BY <1>2, <2>1, <2>4 DEF StoreType, files
<1>. QED
  BY <1>5, <1>6, <1>7, <1>8, <1>9, <1>10, <1>11, <1>12, <1>13, <1>14, <1>15, <1>16, <1>17
  DEF Call, Return

\* A process starts, for the first time or again.
Fresh ==
    /\ memo = [init |-> FALSE, cached |-> Unhashed]
    /\ entries = [k \in Key |-> None]
    /\ loaded = [m \in Module |-> None]
    /\ retained = [d \in Device |-> 0]
    /\ solver = [s \in Solver |-> None]
    /\ handle = [s \in Solver |-> None]
    /\ pc = [t \in Thread |-> "idle"]
    /\ self = [t \in Thread |-> None]
    /\ hash = [t \in Thread |-> Unhashed]
    /\ built = [t \in Thread |-> None]
    /\ err = [t \in Thread |-> ""]
    /\ returned = [t \in Thread |-> "done"]

\* A process that has just started is well typed.
LEMMA FreshTyped ==
    ASSUME Fresh, installed \in Library, disk \in [Key \X Hashes -> Library \cup {None}]
    PROVE  TypeOK
<1>1. Unhashed \in Hashes BY DEF Hashes, Nameless
<1>2. 0 \in 0 .. MaxRetained BY ProcessAssumption
<1>. QED BY <1>1, <1>2 DEF Fresh, TypeOK, InCall

\* A process that has just been restarted is well typed.
LEMMA FreshTypedNext ==
    ASSUME Fresh', (installed \in Library)', (disk \in [Key \X Hashes -> Library \cup {None}])'
    PROVE  TypeOK'
<1>1. Unhashed \in Hashes BY DEF Hashes, Nameless
<1>2. 0 \in 0 .. MaxRetained BY ProcessAssumption
<1>. QED BY <1>1, <1>2 DEF Fresh, TypeOK, InCall

\* Every step preserves TypeOK.
LEMMA TypeStep == ASSUME ProcessInv, [Next]_vars PROVE TypeOK'
<1>1. CASE Restart
  <2>1. Fresh' /\ installed' \in Library /\ disk' = disk BY <1>1 DEF Restart, Fresh
  <2>2. disk \in [Key \X Hashes -> Library \cup {None}] BY DEF ProcessInv, TypeOK
  <2>. QED BY <2>1, <2>2, FreshTypedNext
<1>2. CASE UNCHANGED vars
  BY <1>2 DEF vars, files, memory, frame, told, ProcessInv, TypeOK
<1>3. ASSUME NEW t \in Thread, Call(t) \/ Return(t) PROVE TypeOK'
  <2>1. FrameType' BY <1>3, FrameStep DEF ProcessInv
  <2>2. StoreType' BY <1>3, StoreStep
  <2>3. retained' \in [Device -> 0 .. MaxRetained] BY <1>3, RetainedType
  <2>. QED BY <2>1, <2>2, <2>3 DEF FrameType, StoreType, TypeOK
<1>. QED BY <1>1, <1>2, <1>3 DEF Next
-----------------------------------------------------------------------------
\* Theorems.

\* A process starts with all of it true.
LEMMA InitInv == Init => ProcessInv
<1> SUFFICES ASSUME Init PROVE ProcessInv OBVIOUS
<1>1. Fresh /\ installed \in Library /\ disk = [p \in Key \X Hashes |-> None]
  BY DEF Init, Fresh
<1>2. TypeOK BY <1>1, FreshTyped
<1>3. SelfInv BY <1>1 DEF Fresh, SelfInv
<1>4. PhaseInv
  BY <1>1 DEF Fresh, PhaseInv, Phase, Constructing, UnifiedCalls, InCall
<1>5. HandleInv
  BY <1>1 DEF Fresh, HandleInv, Holding, Held, Early, Constructing, InCall
<1>6. ModuleInv BY <1>1 DEF Fresh, ModuleInv, Owned, Built, Entry
<1>7. RefInv
  <2>1. ASSUME NEW d \in Device
        PROVE  Retaining(d) = {} /\ Holders(d) = {} /\ Leaked(d) = {} /\ retained[d] = 0
    BY <1>1 DEF Fresh, Retaining, Holders, Leaked
  <2>2. ASSUME NEW d \in Device
        PROVE  /\ Cardinality(Retaining(d)) = 0 /\ Cardinality(Holders(d)) = 0
               /\ Cardinality(Leaked(d)) = 0
    BY <2>1, FS_EmptySet
  <2>. QED BY <2>1, <2>2, ProcessAssumption DEF RefInv, Claims, Retaining
<1>. QED BY <1>2, <1>3, <1>4, <1>5, <1>6, <1>7 DEF ProcessInv

\* ProcessInv is inductive: for any number of threads that construct, launch and
\* destroy solvers on any devices, with constructors that fail and processes that end.
THEOREM ProcessInvariant == Spec => []ProcessInv
<1>1. ProcessInv /\ [Next]_vars => ProcessInv'
  <2> SUFFICES ASSUME ProcessInv, [Next]_vars PROVE ProcessInv' OBVIOUS
  <2>1. TypeOK' BY TypeStep
  <2>2. TypeOK /\ SelfInv /\ PhaseInv /\ HandleInv /\ ModuleInv BY DEF ProcessInv
  <2>3. SelfInv' BY <2>2, SelfStep
  <2>4. PhaseInv' BY <2>2, PhaseStep
  <2>5. HandleInv' BY <2>2, HandleStep
  <2>6. ModuleInv' BY <2>2, ModuleStep
  <2>7. RefInv' BY RefStep
  <2>. QED BY <2>1, <2>3, <2>4, <2>5, <2>6, <2>7 DEF ProcessInv
<1>. QED BY <1>1, InitInv, PTL DEF Spec

\* No reference count goes below zero or past MaxRetained, and what the process
\* stores stays of its kind.
THEOREM ProcessTypeCorrect == Spec => []TypeOK
<1>1. ProcessInv => TypeOK BY DEF ProcessInv
<1>. QED BY <1>1, ProcessInvariant, PTL

\* sunny_geneig_last_error is right for every thread.
THEOREM StatusToldCorrect == Spec => []StatusTold
<1>1. Init => StatusTold BY DEF Init, StatusTold
<1>2. ProcessInv /\ StatusTold /\ [Next]_vars => StatusTold'
  <2> SUFFICES ASSUME ProcessInv, StatusTold, [Next]_vars PROVE StatusTold' OBVIOUS
  <2>1. CASE Restart BY <2>1 DEF Restart, StatusTold
  <2>2. CASE UNCHANGED vars BY <2>2 DEF vars, told, StatusTold
  <2>3. ASSUME NEW t \in Thread, Call(t) \/ Return(t) PROVE StatusTold'
    <3>1. TypeOK /\ SelfInv /\ Domains BY DomainsAre DEF ProcessInv
    <3>2. ASSUME NEW u \in Thread, u # t
          PROVE  err'[u] = err[u] /\ returned'[u] = returned[u]
      BY <2>3, <3>1, <3>2, OtherCalls
    <3>3. /\ err'[t] = "what" <=> returned'[t] = "failed"
          /\ err'[t] = "argument" <=> returned'[t] = "INVALID_ARG"
      <4>1. CASE \/ RetainFails(t) \/ CompileFails(t) \/ AttributeFails(t) \/ LibrariesFail(t)
        <5>1. err'[t] = "what" /\ returned'[t] = "failed"
          BY <3>1, <4>1 DEF RetainFails, CompileFails, AttributeFails, LibrariesFail,
             Caught, Domains
        <5>. QED BY <5>1
      <4>2. CASE Finish(t)
        <5>1. /\ pc[t] \in {"attribute", "libraries"} /\ err' = err
              /\ returned'[t] = "done"
          BY <3>1, <4>2 DEF Finish, Handed, Goto, Domains
        <5>2. returned[t] = "pending"
          BY <5>1 DEF ProcessInv, PhaseInv, Phase, Constructing, InCall
        <5>. QED BY <5>1, <5>2 DEF StatusTold
      <4>3. ASSUME NEW mode, NEW d, Create(t, mode, d)
            PROVE  err'[t] = "" /\ returned'[t] = "pending"
        BY <3>1, <4>3 DEF Create, Clear, Domains
      <4>4. CASE LaunchInvalid(t)
        BY <3>1, <4>4 DEF LaunchInvalid, Launched, Clear, Domains
      <4>5. CASE Launch(t)
        BY <3>1, <4>5 DEF Launch, Launched, Clear, Domains
      <4>6. CASE \/ Retain(t) \/ Hit(t) \/ Miss(t) \/ HashKnown(t) \/ HashEnter(t)
                 \/ HashCompute(t) \/ DiskHit(t) \/ DiskMiss(t) \/ Compile(t) \/ Write(t)
                 \/ Publish(t) \/ ReduceKernel(t) \/ DropModule(t) \/ Release(t)
                 \/ \E s \in Solver : Destroy(t, s)
        <5>1. UNCHANGED told
          BY <4>6 DEF Retain, Hit, Miss, HashKnown, HashEnter, HashCompute, DiskHit,
             DiskMiss, Compile, Write, Publish, ReduceKernel, DropModule, Release, Destroy
        <5>. QED BY <5>1 DEF told, StatusTold
      <4>. QED BY <2>3, <4>1, <4>2, <4>3, <4>4, <4>5, <4>6 DEF Call, Return
    <3>. QED BY <3>2, <3>3 DEF StatusTold
  <2>. QED BY <2>1, <2>2, <2>3 DEF Next
<1>. QED BY <1>1, <1>2, ProcessInvariant, PTL DEF Spec

\* Every device has an architecture of its own.  Without it the theorems that
\* assume it are false: two devices share the map's entry (process_twins).
OneDevicePerArch == \A d, e \in Device : Arch[d] = Arch[e] => d = e

\* Under OneDevicePerArch a module is where its solver is.
LEMMA OwnedOnDevice ==
    ASSUME OneDevicePerArch, TypeOK, ModuleInv, NEW s \in Solver, handle[s] # None,
           solver[s] # None
    PROVE  /\ loaded[handle[s]] # None
           /\ loaded[handle[s]].ctx = solver[s].dev
<1>1. handle[s] \in Module /\ solver[s] \in Object BY DEF TypeOK
<1>2. loaded[handle[s]] # None /\ Arch[loaded[handle[s]].ctx] = Arch[solver[s].dev]
  BY DEF ModuleInv, Owned
<1>3. loaded[handle[s]] \in Loaded BY <1>1, <1>2 DEF TypeOK
<1>4. loaded[handle[s]].ctx \in Device /\ solver[s].dev \in Device
  BY <1>1, <1>3 DEF Loaded, Object
<1>. QED BY <1>2, <1>4 DEF OneDevicePerArch

\* Neither destructors nor constructors that throw take a context away from the
\* modules in it.
THEOREM ContextsCorrect ==
    ASSUME OneDevicePerArch PROVE Spec => []ModulesHaveContext
<1>1. ProcessInv => ModulesHaveContext
  <2> SUFFICES ASSUME ProcessInv, NEW m \in Module, loaded[m] # None
               PROVE  retained[loaded[m].ctx] > 0
    BY DEF ModulesHaveContext
  <2> DEFINE d == loaded[m].ctx
  <2>1. TypeOK /\ SelfInv /\ PhaseInv /\ HandleInv /\ ModuleInv /\ RefInv BY DEF ProcessInv
  <2>2. d \in Device
    <3>1. loaded[m] \in Loaded BY <2>1 DEF TypeOK
    <3>. QED BY <3>1 DEF Loaded
  <2>3. \/ \E s \in Solver : handle[s] = m
        \/ \E t \in Thread : built[t] = m
        \/ m \in Leaked(d)
    BY DEF Leaked, Owners
  <2>4. m # None BY ProcessAssumption
  <2>5. Holders(d) # {} \/ Leaked(d) # {}
    <3>1. ASSUME NEW s \in Solver, handle[s] = m PROVE Holders(d) # {}
      <4>1. solver[s] # None BY <2>1, <2>4, <3>1 DEF HandleInv, Held
      <4>2. solver[s].dev = d BY <2>1, <2>4, <3>1, <4>1, OwnedOnDevice
      <4>3. ASSUME NEW t \in Thread, self[t] = s PROVE pc[t] # "retain"
        <5>1. Holding(t) BY <2>1 DEF HandleInv
        <5>. QED BY <2>4, <3>1, <4>3, <5>1 DEF Holding, Early, Constructing, InCall
      <4>. QED BY <4>1, <4>2, <4>3 DEF Holders
    <3>2. ASSUME NEW t \in Thread, built[t] = m PROVE Holders(d) # {}
      <4>1. pc[t] \in {"write", "publish"} BY <2>1, <2>4, <3>2 DEF PhaseInv, Phase
      <4>2. Dev(t) = d BY <2>1, <2>4, <3>2 DEF ModuleInv, Built
      <4>. QED BY <2>1, <4>1, <4>2, HoldsReference
    <3>. QED BY <2>3, <3>1, <3>2
  <2>6. /\ IsFiniteSet(Holders(d)) /\ Cardinality(Holders(d)) \in Nat
        /\ IsFiniteSet(Leaked(d)) /\ Cardinality(Leaked(d)) \in Nat
    BY CountsAre
  <2>7. Cardinality(Holders(d)) # 0 \/ Cardinality(Leaked(d)) # 0
    BY <2>5, <2>6, FS_EmptySet
  <2>8. retained[d] >= Cardinality(Holders(d)) + Cardinality(Leaked(d))
    BY <2>1, <2>2 DEF RefInv
  <2>9. retained[d] \in Nat
    <3>1. retained \in [Device -> 0 .. MaxRetained] BY <2>1 DEF TypeOK
    <3>. QED BY <2>2, <3>1
  <2> HIDE DEF d
  <2>10. retained[d] > 0 BY <2>6, <2>7, <2>8, <2>9
  <2>. QED BY <2>10 DEF d
<1>. QED BY <1>1, ProcessInvariant, PTL

\* A solver that create has handed out launches a module of its own device.
THEOREM DevicesCorrect ==
    ASSUME OneDevicePerArch PROVE Spec => []OwnDevice
<1>1. ProcessInv => OwnDevice
  <2> SUFFICES ASSUME ProcessInv, NEW s \in Solver, solver[s] # None, solver[s].live
               PROVE  /\ handle[s] # None /\ loaded[handle[s]] # None
                      /\ loaded[handle[s]].ctx = solver[s].dev
    BY DEF OwnDevice
  <2>1. handle[s] # None BY DEF ProcessInv, HandleInv, Held
  <2>. QED BY <2>1, OwnedOnDevice DEF ProcessInv
<1>. QED BY <1>1, ProcessInvariant, PTL
-----------------------------------------------------------------------------
\* Cubins of other libraries.

\* No cubin was filed under a hash that names no library.
OnlyNamed == \A k \in Key, h \in Nameless : disk[Path(k, h)] = None

\* A hash of this process names the library that it found, or none.
Honest(h) == h = Fingerprint[installed] \/ h \in Nameless

\* A path names the library that is linked into its cubin.
HashInv ==
    /\ Honest(memo.cached)
    /\ \A t \in Thread : Honest(hash[t])
    /\ OnlyNamed => \A p \in Key \X Hashes : disk[p] # None => Fingerprint[disk[p]] = p[2]

\* The steps that write no cubin.
LEMMA HashUntouched ==
    ASSUME HashInv, SameFingerprint, NEW t \in Thread,
           UNCHANGED <<installed, disk>>,
           memo'.cached = memo.cached \/ Honest(memo'.cached),
           hash'[t] = hash[t] \/ Honest(hash'[t]),
           \A u \in Thread \ {t} : hash'[u] = hash[u],
           OnlyNamed => \A m \in Module : \/ loaded'[m] \in {loaded[m], None}
                                          \/ Fingerprint[loaded'[m].library] = Fingerprint[installed]
    PROVE  (HashInv /\ SameFingerprint)'
<1>1. OnlyNamed' <=> OnlyNamed BY DEF OnlyNamed, Path
<1>2. SameFingerprint'
  <2>. SUFFICES ASSUME OnlyNamed, NEW m \in Module, loaded'[m] # None
                PROVE  Fingerprint[loaded'[m].library] = Fingerprint[installed']
    BY <1>1 DEF SameFingerprint, OnlyNamed
  <2>1. loaded[m] # None => Fingerprint[loaded[m].library] = Fingerprint[installed]
    BY DEF SameFingerprint, OnlyNamed
  <2>. QED BY <2>1
<1>3. Honest(memo.cached)' BY DEF HashInv, Honest
<1>4. ASSUME NEW u \in Thread PROVE Honest(hash[u])' BY DEF HashInv, Honest
<1>. QED BY <1>1, <1>2, <1>3, <1>4 DEF HashInv

\* Every step keeps the hashes honest, and what is loaded from a path that names a
\* library is linked with one of that fingerprint.
LEMMA HashStep ==
    ASSUME ProcessInv, HashInv, SameFingerprint, [Next]_vars
    PROVE  (HashInv /\ SameFingerprint)'
<1>1. /\ TypeOK /\ SelfInv /\ PhaseInv /\ HandleInv /\ ModuleInv /\ Domains
  BY DomainsAre DEF ProcessInv
<1>2. Unhashed \in Nameless BY DEF Nameless
<1>3. CASE Restart
  <2>1. /\ memo'.cached = Unhashed /\ UNCHANGED disk
        /\ \A t \in Thread : hash'[t] = Unhashed
        /\ \A m \in Module : loaded'[m] = None
    BY <1>3 DEF Restart
  <2>2. OnlyNamed' <=> OnlyNamed BY <2>1 DEF OnlyNamed, Path
  <2>. QED BY <1>2, <2>1, <2>2 DEF HashInv, SameFingerprint, Honest
<1>4. CASE UNCHANGED vars
  BY <1>4 DEF vars, files, memory, frame, HashInv, OnlyNamed, Path, Honest, SameFingerprint
<1>5. ASSUME NEW t \in Thread, Call(t) \/ Return(t) PROVE (HashInv /\ SameFingerprint)'
  <2>1. \A u \in Thread \ {t} : hash'[u] = hash[u]
    BY <1>1, <1>5, OtherCalls
  <2>2. loaded \in [Module -> Loaded \cup {None}] /\ hash \in [Thread -> Hashes]
    BY <1>1 DEF TypeOK
  <2>3. CASE Call(t)
    <3>1. UNCHANGED <<installed, disk, memo, loaded, hash>>
      BY <1>1, <2>3 DEF Call, Create, Destroy, LaunchInvalid, Launch, Launched,
         files, memory, frame
    <3>. QED BY <2>1, <3>1, HashUntouched
  <2>4. CASE \/ RetainFails(t) \/ Retain(t) \/ Hit(t) \/ Miss(t) \/ CompileFails(t)
             \/ Publish(t) \/ Finish(t) \/ LibrariesFail(t) \/ Release(t)
    <3>1. UNCHANGED <<installed, disk, memo, loaded, hash>>
      BY <2>4 DEF RetainFails, Retain, Hit, Miss, CompileFails, Publish, Finish,
         LibrariesFail, Release, Caught, files, memory
    <3>. QED BY <2>1, <3>1, HashUntouched
  <2>5. CASE AttributeFails(t) \/ DropModule(t)
    <3>1. UNCHANGED <<installed, disk, memo, hash>> /\ Drop(self[t])
      BY <2>5 DEF AttributeFails, DropModule, files
    <3>2. \A m \in Module : loaded'[m] \in {loaded[m], None} BY <2>2, <3>1 DEF Drop
    <3>. QED BY <2>1, <3>1, <3>2, HashUntouched
  <2>6. CASE Compile(t) \/ ReduceKernel(t)
    <3>1. /\ UNCHANGED <<installed, disk, memo, hash>>
          /\ loaded' = [loaded EXCEPT ![FreeModule] = [ctx |-> Dev(t), library |-> installed]]
      BY <2>6 DEF Compile, ReduceKernel, LoadModule, files
    <3>2. \A m \in Module : loaded'[m] = loaded[m] \/ loaded'[m].library = installed
      BY <2>2, <3>1
    <3>. QED BY <2>1, <3>1, <3>2, HashUntouched
  <2>7. CASE DiskMiss(t)
    <3>1. UNCHANGED <<installed, disk, memo, loaded>> /\ hash'[t] = Unhashed
      BY <2>2, <2>7 DEF DiskMiss, files, memory
    <3>. QED BY <1>2, <2>1, <3>1, HashUntouched DEF Honest
  \* The path names the library that is installed, so the cubin was linked with one
  \* of its fingerprint.
  <2>8. CASE DiskHit(t)
    <3>1. /\ UNCHANGED <<installed, disk, memo>> /\ pc[t] = "disk" /\ hash'[t] = Unhashed
          /\ disk[Path(KeyOf(t), hash[t])] # None
          /\ loaded' = [loaded EXCEPT ![FreeModule] =
                           [ctx |-> Dev(t), library |-> disk[Path(KeyOf(t), hash[t])]]]
      BY <2>2, <2>8 DEF DiskHit, LoadModule, Goto, files
    <3>2. KeyOf(t) \in Key BY <1>1, <3>1, InCallSolver
    <3>3. Path(KeyOf(t), hash[t]) \in Key \X Hashes /\ Path(KeyOf(t), hash[t])[2] = hash[t]
      BY <2>2, <3>2 DEF Path
    <3>4. OnlyNamed => hash[t] \notin Nameless BY <3>1, <3>2 DEF OnlyNamed
    <3>5. OnlyNamed => Fingerprint[disk[Path(KeyOf(t), hash[t])]] = Fingerprint[installed]
      BY <3>1, <3>3, <3>4 DEF HashInv, Honest
    <3>6. OnlyNamed => \A m \in Module :
             loaded'[m] = loaded[m] \/ Fingerprint[loaded'[m].library] = Fingerprint[installed]
      BY <2>2, <3>1, <3>5
    <3>. QED BY <1>2, <2>1, <3>1, <3>6, HashUntouched DEF Honest
  \* A cubin goes under a path that names no library, or the one that was linked.
  <2>9. CASE Write(t)
    <3>1. /\ UNCHANGED <<installed, memo, loaded, hash>> /\ pc[t] = "write"
          /\ disk' = [disk EXCEPT ![Path(KeyOf(t), memo.cached)] = loaded[built[t]].library]
      BY <2>9 DEF Write, Goto, memory
    <3>2. KeyOf(t) \in Key BY <1>1, <3>1, InCallSolver
    <3>3. built[t] # None /\ loaded[built[t]] # None
      BY <1>1, <3>1 DEF PhaseInv, Phase, ModuleInv, Built
    <3>4. built[t] \in Module BY <1>1, <3>3 DEF TypeOK
    <3>5. loaded[built[t]].library # None
      <4>1. loaded[built[t]] \in Loaded BY <2>2, <3>3, <3>4
      <4>2. loaded[built[t]].library \in Library BY <4>1 DEF Loaded
      <4>. QED BY <4>2, ProcessAssumption
    <3>6. disk \in [Key \X Hashes -> Library \cup {None}] /\ memo.cached \in Hashes
      BY <1>1 DEF TypeOK
    <3>7. Path(KeyOf(t), memo.cached) \in Key \X Hashes
          /\ Path(KeyOf(t), memo.cached)[2] = memo.cached
      BY <3>2, <3>6 DEF Path
    <3>8. \A p \in Key \X Hashes : disk[p] # None => disk'[p] # None
      BY <3>1, <3>5, <3>6, <3>7
    <3>9. OnlyNamed' => OnlyNamed /\ memo.cached \notin Nameless
      <4>1. ASSUME OnlyNamed', NEW k \in Key, NEW h \in Nameless
            PROVE  disk[Path(k, h)] = None
        <5>1. Path(k, h) \in Key \X Hashes BY DEF Path, Hashes
        <5>. QED BY <3>8, <4>1, <5>1 DEF OnlyNamed, Path
      <4>2. ASSUME OnlyNamed' PROVE memo.cached \notin Nameless
        <5>1. disk'[Path(KeyOf(t), memo.cached)] # None BY <3>1, <3>5, <3>6, <3>7
        <5>2. PICK k \in Key : k = KeyOf(t) BY <3>2
        <5>. QED BY <4>2, <5>1, <5>2 DEF OnlyNamed, Path
      <4>. QED BY <4>1, <4>2 DEF OnlyNamed
    <3>10. SameFingerprint' BY <3>1, <3>9 DEF SameFingerprint, OnlyNamed, Path
    <3>11. ASSUME OnlyNamed', NEW p \in Key \X Hashes, disk'[p] # None
           PROVE  Fingerprint[disk'[p]] = p[2]
      <4>1. OnlyNamed /\ memo.cached = Fingerprint[installed]
        BY <3>9, <3>11 DEF HashInv, Honest
      <4>2. Fingerprint[loaded[built[t]].library] = Fingerprint[installed]
        BY <3>3, <3>4, <4>1 DEF SameFingerprint, OnlyNamed
      <4>3. CASE p = Path(KeyOf(t), memo.cached)
        BY <3>1, <3>6, <3>7, <4>1, <4>2, <4>3
      <4>4. CASE p # Path(KeyOf(t), memo.cached)
        BY <3>1, <3>6, <3>11, <4>1, <4>4 DEF HashInv
      <4>. QED BY <4>3, <4>4
    <3>12. Honest(memo.cached)' /\ \A u \in Thread : Honest(hash[u])'
      BY <3>1 DEF HashInv, Honest
    <3>. QED BY <3>10, <3>11, <3>12 DEF HashInv
  <2>10. CASE HashKnown(t)
    <3>1. UNCHANGED <<installed, disk, memo, loaded>> /\ hash'[t] = memo.cached
      BY <2>2, <2>10 DEF HashKnown, files, memory
    <3>. QED BY <2>1, <3>1, HashUntouched DEF HashInv
  <2>11. CASE HashEnter(t)
    <3>1. /\ UNCHANGED <<installed, disk, loaded, hash>>
          /\ \E seen \in BOOLEAN : memo' = [memo EXCEPT !.init = seen]
      BY <2>11 DEF HashEnter, files
    <3>2. memo \in [init : BOOLEAN, cached : Hashes] BY <1>1 DEF TypeOK
    <3>3. memo'.cached = memo.cached BY <3>1, <3>2
    <3>. QED BY <2>1, <3>1, <3>3, HashUntouched
  <2>12. CASE HashCompute(t)
    <3>1. /\ UNCHANGED <<installed, disk, loaded, hash>>
          /\ \E h \in HashesOf(installed) : memo' = [init |-> TRUE, cached |-> h]
      BY <2>12 DEF HashCompute, files
    <3>2. \A h \in HashesOf(installed) : Honest(h)
      BY <1>1 DEF HashesOf, Honest, Nameless, TypeOK
    <3>3. Honest(memo'.cached) BY <3>1, <3>2
    <3>. QED BY <2>1, <3>1, <3>3, HashUntouched
  <2>. QED
    BY <1>5, <2>3, <2>4, <2>5, <2>6, <2>7, <2>8, <2>9, <2>10, <2>11, <2>12 DEF Return
<1>. QED BY <1>3, <1>4, <1>5 DEF Next

\* Unless a cubin was filed under a hash that names no library (a race on the memo,
\* or a fatbin that could not be read), what a process runs was linked with a library
\* that has the fingerprint of the one it found, however many libraries were installed
\* before, whenever processes ended and however many threads create solvers.
THEOREM CubinsCorrect == Spec => []SameFingerprint
<1>1. Init => HashInv /\ SameFingerprint
  <2> SUFFICES ASSUME Init PROVE HashInv /\ SameFingerprint OBVIOUS
  <2>1. /\ \A p \in Key \X Hashes : disk[p] = None
        /\ memo.cached = Unhashed
        /\ \A t \in Thread : hash[t] = Unhashed
        /\ \A m \in Module : loaded[m] = None
    BY DEF Init
  <2>2. Unhashed \in Nameless BY DEF Nameless
  <2>. QED BY <2>1, <2>2 DEF HashInv, Honest, SameFingerprint
<1>2. ProcessInv /\ HashInv /\ SameFingerprint /\ [Next]_vars
         => (HashInv /\ SameFingerprint)'
  BY HashStep
<1>. QED BY <1>1, <1>2, ProcessInvariant, PTL DEF Spec
=============================================================================
