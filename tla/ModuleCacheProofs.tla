-------------------------- MODULE ModuleCacheProofs --------------------------
(***************************************************************************)
(* Proofs about ModuleCache, for any number of solvers, processes, keys    *)
(* and modules, any candidate lists and any set of faults.                 *)
(***************************************************************************)
EXTENDS ModuleCache, TLAPS

\* The candidate at hand is a key, and the rest of a candidate list is a list.
LEMMA CandidateTypes ==
    ASSUME NEW q \in Seq(Key), q # << >>
    PROVE  Head(q) \in Key /\ Tail(q) \in Seq(Key)
  OBVIOUS

\* TypeOK is preserved by every step taken with ThreadInv.
LEMMA TypeStep ==
    ASSUME TypeOK, ThreadInv, [Next]_vars
    PROVE  TypeOK'
<1> USE CacheAssumption DEF TypeOK, Image, Damaged, Goto, Current, thread, memory, disk
<1>1. ASSUME NEW s \in Solver, Construct(s) PROVE TypeOK'
  BY <1>1 DEF Construct, Locations
<1>2. ASSUME NEW s \in Solver, SkipLookup(s) PROVE TypeOK'
  BY <1>2 DEF SkipLookup, Locations
<1>3. ASSUME NEW s \in Solver, LookupHit(s) PROVE TypeOK'
  <2>1. todo[s] # << >> BY <1>3 DEF ThreadInv, LookupHit
  <2>2. Head(todo[s]) \in Key BY <2>1, CandidateTypes
  <2>3. cache[Home[s]][Head(todo[s])] \in Module \cup {None} BY <2>2
  <2>. QED BY <1>3, <2>3 DEF LookupHit, SetHandle, Locations
<1>4. ASSUME NEW s \in Solver, LookupMiss(s) PROVE TypeOK'
  BY <1>4 DEF LookupMiss, Locations
<1>5. ASSUME NEW s \in Solver, ReadNothing(s) \/ ReadRejected(s) PROVE TypeOK'
  <2>1. CASE ReadNothing(s) BY <2>1 DEF ReadNothing, Locations
  <2>2. CASE ReadRejected(s) BY <2>2 DEF ReadRejected, Locations
  <2>. QED BY <1>5, <2>1, <2>2
<1>6. ASSUME NEW s \in Solver, ReadImage(s) PROVE TypeOK'
  <2>1. todo[s] # << >> BY <1>6 DEF ThreadInv, ReadImage
  <2>2. Head(todo[s]) \in Key BY <2>1, CandidateTypes
  <2>. QED BY <1>6, <2>2 DEF ReadImage, Locations
<1>7. ASSUME NEW s \in Solver, LoadImage(s) PROVE TypeOK'
  BY <1>7 DEF LoadImage, SetHandle, Locations
<1>8. ASSUME NEW s \in Solver, LoadRejected(s) \/ Unlink(s) PROVE TypeOK'
  <2>1. CASE LoadRejected(s) BY <2>1 DEF LoadRejected, Locations
  <2>2. CASE Unlink(s) BY <2>2 DEF Unlink, Locations
  <2>. QED BY <1>8, <2>1, <2>2
<1>9. ASSUME NEW s \in Solver, Compile(s) PROVE TypeOK'
  <2>1. todo[s] # << >> BY <1>9 DEF ThreadInv, Compile
  <2>2. Head(todo[s]) \in Key BY <2>1, CandidateTypes
  <2>. QED BY <1>9, <2>2 DEF Compile, Locations
<1>10. ASSUME NEW s \in Solver, Build(s) PROVE TypeOK'
  <2>1. /\ todo[s] # << >>
        /\ image[s] = Head(todo[s])
    BY <1>10 DEF ThreadInv, Build
  <2>2. image[s] \in Key BY <2>1, CandidateTypes
  <2>. QED BY <1>10, <2>2 DEF Build, Locations
<1>11. ASSUME NEW s \in Solver, NEW from \in {"compile", "build", "check"},
              TurnDownCandidate(s, from)
       PROVE  TypeOK'
  <2>1. todo[s] # << >> BY <1>11 DEF ThreadInv, TurnDownCandidate
  <2>2. Tail(todo[s]) \in Seq(Key) BY <2>1, CandidateTypes
  <2>. QED BY <1>11, <2>2 DEF TurnDownCandidate, Locations
<1>12. ASSUME NEW s \in Solver, CompileThrows(s) \/ BuildThrows(s) \/ OverBudget(s)
       PROVE  TypeOK'
  BY <1>11, <1>12 DEF CompileThrows, BuildThrows, OverBudget
<1>13. ASSUME NEW s \in Solver, OpenTmp(s) \/ OpenTmpFails(s) PROVE TypeOK'
  <2>1. CASE OpenTmp(s) BY <2>1 DEF OpenTmp, Locations
  <2>2. CASE OpenTmpFails(s) BY <2>2 DEF OpenTmpFails, Locations
  <2>. QED BY <1>13, <2>1, <2>2
<1>14. ASSUME NEW s \in Solver, WriteTmp(s) \/ WriteLosesTail(s) \/ WriteTmpFails(s)
       PROVE  TypeOK'
  <2>1. CASE WriteTmp(s) BY <2>1 DEF WriteTmp, Locations
  <2>2. CASE WriteLosesTail(s) BY <2>2 DEF WriteLosesTail, Locations
  <2>3. CASE WriteTmpFails(s) BY <2>3 DEF WriteTmpFails, Locations
  <2>. QED BY <1>14, <2>1, <2>2, <2>3
<1>15. ASSUME NEW s \in Solver, Rename(s) \/ RenameFails(s) PROVE TypeOK'
  <2>1. CASE Rename(s) BY <2>1 DEF Rename, Locations
  <2>2. CASE RenameFails(s) BY <2>2 DEF RenameFails, Locations
  <2>. QED BY <1>15, <2>1, <2>2
<1>16. ASSUME NEW s \in Solver, Publish(s) PROVE TypeOK'
  BY <1>16 DEF Publish, Locations
<1>17. ASSUME NEW s \in Solver, Assign(s) \/ Accept(s) \/ Unlock(s) PROVE TypeOK'
  <2>1. CASE Assign(s) BY <2>1 DEF Assign, SetHandle, Locations
  <2>2. CASE Accept(s) BY <2>2 DEF Accept, Locations
  <2>3. CASE Unlock(s) BY <2>3 DEF Unlock, Locations
  <2>. QED BY <1>17, <2>1, <2>2, <2>3
<1>18. ASSUME NEW s \in Solver, Throw(s) \/ Destroy(s) PROVE TypeOK'
  <2>1. PICK from \in {"throw", "live"} : Release(s, from)
    BY <1>18 DEF Throw, Destroy
  <2>2. pc' \in [Solver -> Locations] BY <2>1 DEF Release, Locations
  <2>3. /\ handle' \in [Solver -> Module \cup {None}]
        /\ dying' \in [Solver -> Module \cup {None}]
    BY <2>1 DEF Release, SetHandle
  <2>. QED BY <2>1, <2>2, <2>3 DEF Release
<1>19. ASSUME NEW s \in Solver, UnloadModule(s) PROVE TypeOK'
  BY <1>19 DEF UnloadModule
<1>20. ASSUME NEW p \in Process, Crash(p) PROVE TypeOK'
  BY <1>20 DEF Crash, Locations
<1>21. ASSUME NEW k \in Key, Corrupt(k) PROVE TypeOK'
  BY <1>21 DEF Corrupt
<1>22. CASE UNCHANGED vars
  BY <1>22 DEF vars
<1>. QED
  BY <1>1, <1>2, <1>3, <1>4, <1>5, <1>6, <1>7, <1>8, <1>9, <1>10, <1>12, <1>13,
     <1>14, <1>15, <1>16, <1>17, <1>18, <1>19, <1>20, <1>21, <1>22
  DEF Next, Acquire

\* ThreadInv is preserved by every step.
LEMMA ThreadStep ==
    ASSUME TypeOK, ThreadInv, FileInv, [Next]_vars
    PROVE  ThreadInv'
<1> USE CacheAssumption DEF TypeOK, ThreadInv, Goto, Current, thread, memory, disk
<1>1. ASSUME NEW s \in Solver, Construct(s) PROVE ThreadInv'
  BY <1>1 DEF Construct
<1>2. ASSUME NEW s \in Solver, SkipLookup(s) PROVE ThreadInv'
  BY <1>2 DEF SkipLookup
<1>3. ASSUME NEW s \in Solver, LookupHit(s) PROVE ThreadInv'
  BY <1>3 DEF LookupHit, SetHandle
<1>4. ASSUME NEW s \in Solver, LookupMiss(s) PROVE ThreadInv'
  BY <1>4 DEF LookupMiss
<1>5. ASSUME NEW s \in Solver, ReadNothing(s) PROVE ThreadInv'
  BY <1>5 DEF ReadNothing
<1>6. ASSUME NEW s \in Solver, ReadRejected(s) PROVE ThreadInv'
  BY <1>6 DEF ReadRejected
<1>7. ASSUME NEW s \in Solver, ReadImage(s) PROVE ThreadInv'
  BY <1>7 DEF ReadImage, Damaged, FileInv, Image
<1>8. ASSUME NEW s \in Solver, LoadImage(s) PROVE ThreadInv'
  BY <1>8 DEF LoadImage, SetHandle
<1>9. ASSUME NEW s \in Solver, LoadRejected(s) PROVE ThreadInv'
  BY <1>9 DEF LoadRejected
<1>10. ASSUME NEW s \in Solver, Unlink(s) PROVE ThreadInv'
  BY <1>10 DEF Unlink
<1>11. ASSUME NEW s \in Solver, Compile(s) PROVE ThreadInv'
  BY <1>11 DEF Compile
<1>12. ASSUME NEW s \in Solver, Build(s) PROVE ThreadInv'
  BY <1>12 DEF Build
<1>13. ASSUME NEW s \in Solver, OpenTmp(s) PROVE ThreadInv'
  BY <1>13 DEF OpenTmp
<1>14. ASSUME NEW s \in Solver, OpenTmpFails(s) PROVE ThreadInv'
  BY <1>14 DEF OpenTmpFails
<1>15. ASSUME NEW s \in Solver, WriteTmp(s) PROVE ThreadInv'
  BY <1>15 DEF WriteTmp
<1>16. ASSUME NEW s \in Solver, WriteLosesTail(s) PROVE ThreadInv'
  BY <1>16 DEF WriteLosesTail, Damaged
<1>17. ASSUME NEW s \in Solver, WriteTmpFails(s) PROVE ThreadInv'
  BY <1>17 DEF WriteTmpFails
<1>18. ASSUME NEW s \in Solver, Rename(s) PROVE ThreadInv'
  BY <1>18 DEF Rename
<1>19. ASSUME NEW s \in Solver, RenameFails(s) PROVE ThreadInv'
  BY <1>19 DEF RenameFails
<1>20. ASSUME NEW s \in Solver, Publish(s) PROVE ThreadInv'
  BY <1>20 DEF Publish
<1>21. ASSUME NEW s \in Solver, Assign(s) PROVE ThreadInv'
  BY <1>21 DEF Assign, SetHandle
<1>22. ASSUME NEW s \in Solver, Accept(s) \/ Unlock(s) PROVE ThreadInv'
  <2>1. CASE Accept(s) BY <2>1 DEF Accept
  <2>2. CASE Unlock(s) BY <2>2 DEF Unlock
  <2>. QED BY <1>22, <2>1, <2>2
<1>23. ASSUME NEW s \in Solver, UnloadModule(s) PROVE ThreadInv'
  BY <1>23 DEF UnloadModule
<1>24. ASSUME NEW s \in Solver, NEW from \in {"compile", "build", "check"},
              TurnDownCandidate(s, from)
       PROVE  ThreadInv'
  BY <1>24 DEF TurnDownCandidate
<1>25. ASSUME NEW s \in Solver, CompileThrows(s) \/ BuildThrows(s) \/ OverBudget(s)
       PROVE  ThreadInv'
  BY <1>24, <1>25 DEF CompileThrows, BuildThrows, OverBudget
<1>26. ASSUME NEW s \in Solver, NEW from \in {"throw", "live"}, Release(s, from)
       PROVE  ThreadInv'
  BY <1>26 DEF Release, SetHandle
<1>27. ASSUME NEW s \in Solver, Throw(s) \/ Destroy(s) PROVE ThreadInv'
  BY <1>26, <1>27 DEF Throw, Destroy
<1>28. ASSUME NEW p \in Process, Crash(p) PROVE ThreadInv'
  BY <1>28 DEF Crash
<1>29. ASSUME NEW k \in Key, Corrupt(k) PROVE ThreadInv'
  BY <1>29 DEF Corrupt
<1>30. CASE UNCHANGED vars
  BY <1>30 DEF vars
<1>. QED
  BY <1>1, <1>2, <1>3, <1>4, <1>5, <1>6, <1>7, <1>8, <1>9, <1>10, <1>11,
     <1>12, <1>13, <1>14, <1>15, <1>16, <1>17, <1>18, <1>19, <1>20, <1>21,
     <1>22, <1>23, <1>25, <1>27, <1>28, <1>29, <1>30
  DEF Next, Acquire

\* FileInv is preserved by every step.
LEMMA FileStep ==
    ASSUME TypeOK, ThreadInv, FileInv, [Next]_vars
    PROVE  FileInv'
<1> USE CacheAssumption DEF TypeOK, ThreadInv, FileInv, Goto, Current, thread, memory, disk
<1>1. ASSUME NEW s \in Solver, Unlink(s) PROVE FileInv'
  BY <1>1 DEF Unlink
<1>2. ASSUME NEW s \in Solver, Rename(s) PROVE FileInv'
  <2>1. todo[s] # << >> BY <1>2 DEF Rename
  <2>2. Head(todo[s]) \in Key BY <2>1, CandidateTypes
  <2>. QED BY <1>2, <2>2 DEF Rename
<1>3. ASSUME NEW k \in Key, Corrupt(k) PROVE FileInv'
  BY <1>3 DEF Corrupt
<1>4. CASE UNCHANGED file
  BY <1>4
<1>5. ASSUME NEW s \in Solver, Acquire(s), ~Unlink(s), ~Rename(s) PROVE UNCHANGED file
  BY <1>5 DEF Acquire, SkipLookup, LookupHit, Unlock, LookupMiss, ReadNothing, ReadRejected,
     ReadImage, LoadImage, LoadRejected, Compile, CompileThrows, Build, BuildThrows,
     TurnDownCandidate, OpenTmp, OpenTmpFails, WriteTmp, WriteLosesTail, WriteTmpFails,
     RenameFails, Publish, Assign, Accept, OverBudget, Throw, Release
<1>6. ASSUME NEW s \in Solver, Construct(s) \/ Destroy(s) \/ UnloadModule(s)
      PROVE  UNCHANGED file
  BY <1>6 DEF Construct, Destroy, Release, UnloadModule
<1>7. ASSUME NEW p \in Process, Crash(p) PROVE UNCHANGED file
  BY <1>7 DEF Crash
<1>. QED
  BY <1>1, <1>2, <1>3, <1>4, <1>5, <1>6, <1>7 DEF Next, vars

\* The five invariants about who holds which module.
RefInv == NoUseAfterUnload /\ NoLeakedModule /\ DyingInv /\ HomeInv /\ EntryMatchesKey

\* An assignment to module_handle_ of a module that is loaded, not in a destructor,
\* and, if it is shared, shared inside the process under its own key.
LEMMA SetHandleStep ==
    ASSUME TypeOK, RefInv,
           NEW s \in Solver, NEW m \in Module \cup {None},
           dying[s] = None,
           local[s] \in {None, m},
           SetHandle(s, m),
           local' = [local EXCEPT ![s] = None],
           UNCHANGED cache,
           loaded' \in [Module -> Key \cup {None}],
           \A x \in Module : x # m => loaded'[x] = loaded[x],
           m # None => /\ loaded'[m] # None
                       /\ \A t \in Solver : dying[t] # m
                       /\ \A t \in Solver : m \in Owned(t) => Home[t] = Home[s]
                       /\ \A q \in Process, k \in Key :
                              cache[q][k] = m => loaded'[m] = k /\ Home[s] = q
    PROVE  RefInv'
<1> USE CacheAssumption
<1> DEFINE old == handle[s]
<1>1. /\ handle' = [handle EXCEPT ![s] = m]
      /\ dying' = [dying EXCEPT ![s] =
                      IF old # m /\ OnlyOwner(s, old) THEN old ELSE None]
  BY DEF SetHandle
<1>2. /\ Owned(s)' = {m} \ {None}
      /\ \A t \in Solver \ {s} : Owned(t)' = Owned(t)
  BY <1>1 DEF Owned, TypeOK
<1>3. ASSUME NEW x, x \in Owned(s) PROVE x = old \/ x = m
  BY <1>3 DEF Owned
<1>4. ASSUME old # None
      PROVE  old \in Module /\ old \in Owned(s)
  BY <1>4 DEF Owned, TypeOK
<1>5. ASSUME dying'[s] # None
      PROVE  /\ dying'[s] = old /\ old # None /\ old # m
             /\ \A t \in Solver : old \notin Owned(t)'
  <2>1. dying'[s] = IF old # m /\ OnlyOwner(s, old) THEN old ELSE None
    BY <1>1 DEF TypeOK
  <2>2. dying'[s] = old /\ old # None /\ old # m /\ OnlyOwner(s, old)
    BY <2>1, <1>5
  <2>3. old \notin {m} \ {None} BY <2>2
  <2>. QED BY <2>2, <2>3, <1>2 DEF OnlyOwner
<1>6. \A t \in Solver \ {s} : dying'[t] = dying[t]
  BY <1>1 DEF TypeOK
<1>7. NoUseAfterUnload'
  <2> SUFFICES ASSUME NEW t \in Solver, NEW x \in Module, x \in Owned(t)'
               PROVE  /\ loaded'[x] # None
                      /\ \A u \in Solver : dying'[u] # x
    BY DEF NoUseAfterUnload
  <2>1. x # None BY DEF CacheAssumption
  <2>2. x = m \/ (x # m /\ x \in Owned(t)) BY <1>2
  <2>3. loaded'[x] # None
    BY <2>1, <2>2 DEF RefInv, NoUseAfterUnload
  <2>4. \A u \in Solver : dying[u] # x
    BY <2>1, <2>2 DEF RefInv, NoUseAfterUnload
  <2>5. dying'[s] # x
    BY <1>5, <2>1
  <2>. QED BY <2>3, <2>4, <2>5, <1>6
<1>8. NoLeakedModule'
  <2> SUFFICES ASSUME NEW x \in Module, loaded'[x] # None, ~Alive(x)'
               PROVE  \E t \in Solver : /\ dying'[t] = x
                                        /\ \A u \in Solver \ {t} : dying'[u] # x
    BY DEF NoLeakedModule
  <2>1. /\ x # m /\ x # None
        /\ \A t \in Solver \ {s} : x \notin Owned(t)
    BY <1>2 DEF Alive, CacheAssumption
  <2>2. loaded[x] # None BY <2>1
  <2>3. CASE x \in Owned(s)
    <3>1. x = old BY <1>3, <2>1, <2>3
    <3>2. dying'[s] = x BY <1>1, <2>1, <3>1 DEF OnlyOwner, TypeOK
    <3>3. \A u \in Solver : dying[u] # x
      BY <2>3 DEF RefInv, NoUseAfterUnload
    <3>. QED BY <3>2, <3>3, <1>6
  <2>4. CASE x \notin Owned(s)
    <3>1. ~Alive(x) BY <2>1, <2>4 DEF Alive
    <3>2. PICK t \in Solver : /\ dying[t] = x
                              /\ \A u \in Solver \ {t} : dying[u] # x
      BY <2>2, <3>1 DEF RefInv, NoLeakedModule
    <3>3. t # s BY <3>2, <2>1
    <3>4. dying'[s] # x
      BY <1>5, <1>4, <2>1, <2>4
    <3>. QED BY <3>2, <3>3, <3>4, <1>6
  <2>. QED BY <2>3, <2>4
<1>9. DyingInv'
  <2> SUFFICES ASSUME NEW t \in Solver, dying'[t] # None
               PROVE  /\ loaded'[dying'[t]] # None
                      /\ \A u \in Solver \ {t} : dying'[u] # dying'[t]
    BY DEF DyingInv
  <2>1. CASE t = s
    <3>1. dying'[t] = old /\ old \in Module /\ old \in Owned(s) /\ old # m
      BY <2>1, <1>4, <1>5
    <3>2. loaded[old] # None /\ \A u \in Solver : dying[u] # old
      BY <3>1 DEF RefInv, NoUseAfterUnload
    <3>. QED BY <2>1, <3>1, <3>2, <1>6
  <2>2. CASE t # s
    <3>1. dying[t] # None /\ dying'[t] = dying[t] BY <2>2, <1>6
    <3>2. /\ dying[t] \in Module /\ dying[t] # m
          /\ loaded[dying[t]] # None
          /\ \A u \in Solver \ {t} : dying[u] # dying[t]
      BY <3>1 DEF RefInv, DyingInv, TypeOK
    <3>3. dying'[s] # dying[t]
      <4>1. CASE dying'[s] = None BY <3>1, <4>1
      <4>2. CASE dying'[s] # None
        <5>1. dying'[s] \in Module /\ dying'[s] \in Owned(s) BY <4>2, <1>4, <1>5
        <5>. QED BY <5>1 DEF RefInv, NoUseAfterUnload
      <4>. QED BY <4>1, <4>2
    <3>. QED BY <3>1, <3>2, <3>3, <1>6
  <2>. QED BY <2>1, <2>2
<1>10. HomeInv'
  <2> SUFFICES ASSUME NEW t \in Solver, NEW u \in Solver,
                      NEW x, x \in Owned(t)', x \in Owned(u)'
               PROVE  Home[t] = Home[u]
    BY DEF HomeInv
  <2>1. CASE t # s /\ u # s
    BY <2>1, <1>2 DEF RefInv, HomeInv
  <2>2. CASE t = s /\ u # s
    <3>1. x = m /\ m # None /\ m \in Owned(u) BY <2>2, <1>2
    <3>. QED BY <2>2, <3>1
  <2>3. CASE t # s /\ u = s
    <3>1. x = m /\ m # None /\ m \in Owned(t) BY <2>3, <1>2
    <3>. QED BY <2>3, <3>1
  <2>. QED BY <2>1, <2>2, <2>3
<1>11. EntryMatchesKey'
  <2> SUFFICES ASSUME NEW q \in Process, NEW k \in Key, NEW t \in Solver,
                      cache[q][k] # None, cache[q][k] \in Owned(t)'
               PROVE  loaded'[cache[q][k]] = k /\ Home[t] = q
    BY DEF EntryMatchesKey
  <2> DEFINE x == cache[q][k]
  <2>1. x \in Module BY DEF TypeOK
  <2>2. CASE x = m
    <3>1. m # None /\ loaded'[m] = k /\ Home[s] = q BY <2>2
    <3>2. t = s \/ (t # s /\ m \in Owned(t)) BY <2>2, <1>2
    <3>. QED BY <2>2, <3>1, <3>2
  <2>3. CASE x # m
    <3>1. t # s /\ x \in Owned(t) BY <2>3, <1>2
    <3>. QED BY <2>1, <2>3, <3>1 DEF RefInv, EntryMatchesKey
  <2>. QED BY <2>2, <2>3
<1>. QED
  BY <1>7, <1>8, <1>9, <1>10, <1>11 DEF RefInv

\* A step that changes the map alone has only EntryMatchesKey to disturb.
LEMMA RefsKept ==
    ASSUME RefInv, EntryMatchesKey', UNCHANGED <<local, handle, dying, loaded>>
    PROVE  RefInv'
<1>1. \A s \in Solver : Owned(s)' = Owned(s) BY DEF Owned
<1>2. NoUseAfterUnload' BY <1>1 DEF RefInv, NoUseAfterUnload
<1>3. NoLeakedModule' BY <1>1 DEF RefInv, NoLeakedModule, Alive
<1>4. DyingInv' BY DEF RefInv, DyingInv
<1>5. HomeInv' BY <1>1 DEF RefInv, HomeInv
<1>. QED BY <1>2, <1>3, <1>4, <1>5 DEF RefInv

\* RefInv is preserved by every step.
LEMMA RefStep ==
    ASSUME TypeOK, ThreadInv, FileInv, ServedInv, RefInv, [Next]_vars
    PROVE  RefInv'
<1> USE CacheAssumption DEF Goto, Current, thread, memory, disk
<1>1. ASSUME NEW s \in Solver, LookupHit(s) PROVE RefInv'
  <2> DEFINE m == cache[Home[s]][Head(todo[s])]
  <2>1. /\ pc[s] = "lookup" /\ dying[s] = None /\ m # None
        /\ SetHandle(s, m) /\ UNCHANGED <<local, cache, loaded>>
    BY <1>1 DEF LookupHit, Hit
  <2>2. PICK o \in Solver : m \in Owned(o)
    BY <1>1 DEF LookupHit, Hit, Alive
  <2>3. todo[s] # << >> /\ local[s] = None
    BY <2>1 DEF ThreadInv
  <2>4. Head(todo[s]) \in Key
    BY <2>3, CandidateTypes DEF TypeOK
  <2>5. m \in Module
    BY <2>1, <2>4 DEF TypeOK
  <2>6. loaded[m] # None /\ \A t \in Solver : dying[t] # m
    BY <2>2, <2>5 DEF RefInv, NoUseAfterUnload
  <2>7. \A t \in Solver : m \in Owned(t) => Home[t] = Home[s]
    BY <2>1, <2>4 DEF RefInv, EntryMatchesKey
  <2>8. \A q \in Process, k \in Key : cache[q][k] = m => loaded[m] = k /\ Home[s] = q
    BY <2>1, <2>2, <2>7 DEF RefInv, EntryMatchesKey
  <2>9. local' = [local EXCEPT ![s] = None]
    BY <2>1, <2>3 DEF TypeOK
  <2>10. loaded' \in [Module -> Key \cup {None}] /\ loaded' = loaded
    BY <2>1 DEF TypeOK
  <2>11. /\ m \in Module \cup {None} /\ dying[s] = None /\ local[s] \in {None, m}
         /\ SetHandle(s, m) /\ UNCHANGED cache
         /\ \A x \in Module : x # m => loaded'[x] = loaded[x]
    BY <2>1, <2>3, <2>5
  <2>12. m # None => /\ loaded'[m] # None
                     /\ \A t \in Solver : dying[t] # m
                     /\ \A t \in Solver : m \in Owned(t) => Home[t] = Home[s]
                     /\ \A q \in Process, k \in Key :
                            cache[q][k] = m => loaded'[m] = k /\ Home[s] = q
    BY <2>6, <2>7, <2>8, <2>10
  <2> HIDE DEF m
  <2>. QED BY <2>9, <2>10, <2>11, <2>12, SetHandleStep
<1>2. ASSUME NEW s \in Solver, LookupMiss(s) PROVE RefInv'
  <2>1. /\ UNCHANGED <<local, handle, dying, loaded>>
        /\ cache' = [cache EXCEPT ![Home[s]][Head(todo[s])] = None]
    BY <1>2 DEF LookupMiss
  <2>2. \A q \in Process, k \in Key : cache'[q][k] \in {cache[q][k], None}
    BY <2>1 DEF TypeOK
  <2>3. EntryMatchesKey'
    BY <2>1, <2>2 DEF RefInv, EntryMatchesKey, Owned
  <2>. QED
    BY <2>1, <2>3, RefsKept
<1>3. ASSUME NEW s \in Solver, LoadImage(s) PROVE RefInv'
  <2>1. PICK m \in Module :
          /\ pc[s] = "load" /\ dying[s] = None /\ Fresh(m) /\ image[s] \in Key
          /\ loaded' = [loaded EXCEPT ![m] = image[s]]
          /\ SetHandle(s, m) /\ UNCHANGED <<local, cache>>
    BY <1>3 DEF LoadImage
  <2>2. local[s] = None
    BY <2>1 DEF ThreadInv
  <2>3. local' = [local EXCEPT ![s] = None]
    BY <2>1, <2>2 DEF TypeOK
  <2>4. /\ loaded' \in [Module -> Key \cup {None}]
        /\ loaded'[m] # None
        /\ \A x \in Module : x # m => loaded'[x] = loaded[x]
    BY <2>1 DEF TypeOK, CacheAssumption
  <2>5. /\ loaded[m] = None
        /\ \A t \in Solver : m \notin Owned(t)
        /\ \A q \in Process, k \in Key : cache[q][k] # m
    BY <2>1 DEF Fresh, Alive
  <2>6. \A t \in Solver : dying[t] # m
    BY <2>5 DEF RefInv, DyingInv, CacheAssumption
  <2>7. /\ m \in Module \cup {None} /\ dying[s] = None /\ local[s] \in {None, m}
        /\ SetHandle(s, m) /\ UNCHANGED cache
    BY <2>1, <2>2
  <2>8. m # None => /\ loaded'[m] # None
                    /\ \A t \in Solver : dying[t] # m
                    /\ \A t \in Solver : m \in Owned(t) => Home[t] = Home[s]
                    /\ \A q \in Process, k \in Key :
                           cache[q][k] = m => loaded'[m] = k /\ Home[s] = q
    BY <2>4, <2>5, <2>6
  <2>9. m \in Module \cup {None} /\ dying[s] = None BY <2>7
  <2>10. local[s] \in {None, m} BY <2>7
  <2>13. SetHandle(s, m) BY <2>7
  <2>14. UNCHANGED cache BY <2>7
  <2>11. loaded' \in [Module -> Key \cup {None}] BY <2>4
  <2>12. \A x \in Module : x # m => loaded'[x] = loaded[x] BY <2>4
  <2>. QED BY <2>3, <2>8, <2>9, <2>10, <2>11, <2>12, <2>13, <2>14, SetHandleStep
<1>4. ASSUME NEW s \in Solver, Build(s) PROVE RefInv'
  <2>1. PICK m \in Module :
          /\ pc[s] = "build" /\ dying[s] = None /\ Fresh(m)
          /\ loaded' = [loaded EXCEPT ![m] = image[s]]
          /\ local' = [local EXCEPT ![s] = m] /\ UNCHANGED <<handle, dying, cache>>
    BY <1>4 DEF Build
  <2>2. local[s] = None /\ todo[s] # << >> /\ image[s] = Head(todo[s])
    BY <2>1 DEF ThreadInv
  <2>3. image[s] \in Key
    BY <2>2, CandidateTypes DEF TypeOK
  <2>4. /\ loaded[m] = None
        /\ \A t \in Solver : m \notin Owned(t)
        /\ \A q \in Process, k \in Key : cache[q][k] # m
    BY <2>1 DEF Fresh, Alive
  <2>5. \A t \in Solver : dying[t] # m
    BY <2>4 DEF RefInv, DyingInv
  <2>6. /\ loaded'[m] # None
        /\ \A x \in Module : x # m => loaded'[x] = loaded[x]
    BY <2>1, <2>3 DEF TypeOK
  <2>7. /\ Owned(s)' = Owned(s) \cup {m}
        /\ \A t \in Solver \ {s} : Owned(t)' = Owned(t)
    BY <2>1, <2>2 DEF Owned, TypeOK
  <2>8. NoUseAfterUnload'
    BY <2>1, <2>5, <2>6, <2>7 DEF RefInv, NoUseAfterUnload
  <2>9. NoLeakedModule'
    BY <2>1, <2>6, <2>7 DEF RefInv, NoLeakedModule, Alive
  <2>10. DyingInv'
    BY <2>1, <2>5, <2>6 DEF RefInv, DyingInv, TypeOK
  <2>11. HomeInv'
    BY <2>4, <2>7 DEF RefInv, HomeInv
  <2>12. EntryMatchesKey'
    <3> SUFFICES ASSUME NEW q \in Process, NEW k \in Key, NEW t \in Solver,
                        cache[q][k] # None, cache[q][k] \in Owned(t)'
                 PROVE  loaded'[cache[q][k]] = k /\ Home[t] = q
      BY <2>1 DEF EntryMatchesKey
    <3>1. cache[q][k] \in Module /\ cache[q][k] # m
      BY <2>4 DEF TypeOK
    <3>2. cache[q][k] \in Owned(t) BY <2>7, <3>1
    <3>3. loaded[cache[q][k]] = k /\ Home[t] = q
      BY <3>2 DEF RefInv, EntryMatchesKey
    <3>. QED BY <3>1, <3>3, <2>6
  <2>. QED BY <2>8, <2>9, <2>10, <2>11, <2>12 DEF RefInv
<1>5. ASSUME NEW s \in Solver, Publish(s) PROVE RefInv'
  <2> DEFINE m == IF local[s] = None THEN handle[s] ELSE local[s]
  <2>1. /\ pc[s] = "publish"
        /\ UNCHANGED <<local, handle, dying, loaded>>
        /\ cache' = [cache EXCEPT ![Home[s]][Head(todo[s])] = m]
    BY <1>5 DEF Publish
  <2>2. m \in Owned(s) /\ loaded[m] = Head(todo[s])
    BY <2>1 DEF ServedInv, Owned
  <2>3. \A q \in Process, k \in Key :
           \/ cache'[q][k] = cache[q][k]
           \/ cache'[q][k] = m /\ q = Home[s] /\ k = Head(todo[s])
    BY <2>1 DEF TypeOK
  <2>4. \A t \in Solver : m \in Owned(t) => Home[t] = Home[s]
    BY <2>2 DEF RefInv, HomeInv
  <2>5. EntryMatchesKey'
    BY <2>1, <2>2, <2>3, <2>4 DEF RefInv, EntryMatchesKey, Owned
  <2>. QED
    BY <2>1, <2>5, RefsKept
<1>6. ASSUME NEW s \in Solver, Assign(s) PROVE RefInv'
  <2> DEFINE m == local[s]
  <2>1. /\ pc[s] = "assign" /\ dying[s] = None
        /\ SetHandle(s, m) /\ local' = [local EXCEPT ![s] = None]
        /\ UNCHANGED <<cache, loaded>>
    BY <1>6 DEF Assign
  <2>2. m # None /\ m \in Module /\ m \in Owned(s) /\ loaded[m] = Head(todo[s])
    BY <2>1 DEF ThreadInv, ServedInv, Owned, TypeOK
  <2>3. loaded[m] # None /\ \A t \in Solver : dying[t] # m
    BY <2>2 DEF RefInv, NoUseAfterUnload
  <2>4. \A t \in Solver : m \in Owned(t) => Home[t] = Home[s]
    BY <2>2 DEF RefInv, HomeInv
  <2>5. \A q \in Process, k \in Key : cache[q][k] = m => loaded[m] = k /\ Home[s] = q
    BY <2>2 DEF RefInv, EntryMatchesKey
  <2>6. loaded' \in [Module -> Key \cup {None}] BY <2>1 DEF TypeOK
  <2>7. m \in Module \cup {None} /\ local[s] \in {None, m} BY <2>2
  <2>8. \A x \in Module : x # m => loaded'[x] = loaded[x] BY <2>1
  <2>9. m # None => /\ loaded'[m] # None
                    /\ \A t \in Solver : dying[t] # m
                    /\ \A t \in Solver : m \in Owned(t) => Home[t] = Home[s]
                    /\ \A q \in Process, k \in Key :
                           cache[q][k] = m => loaded'[m] = k /\ Home[s] = q
    BY <2>1, <2>3, <2>4, <2>5
  <2> HIDE DEF m
  <2>. QED BY <2>1, <2>6, <2>7, <2>8, <2>9, SetHandleStep
<1>7. ASSUME NEW s \in Solver, Throw(s) \/ Destroy(s) PROVE RefInv'
  <2>1. PICK from \in {"throw", "live"} : Release(s, from)
    BY <1>7 DEF Throw, Destroy
  <2>2. /\ local[s] = None /\ dying[s] = None
        /\ SetHandle(s, None) /\ UNCHANGED <<local, cache, loaded>>
    BY <2>1 DEF Release, ThreadInv
  <2>3. local' = [local EXCEPT ![s] = None] BY <2>2 DEF TypeOK
  <2>4. loaded' \in [Module -> Key \cup {None}] BY <2>2 DEF TypeOK
  <2>. QED BY <2>2, <2>3, <2>4, SetHandleStep
<1>8. ASSUME NEW s \in Solver, UnloadModule(s) PROVE RefInv'
  <2> DEFINE m == dying[s]
  <2>1. /\ m # None /\ loaded' = [loaded EXCEPT ![m] = None]
        /\ dying' = [dying EXCEPT ![s] = None]
        /\ UNCHANGED <<local, handle, cache>>
    BY <1>8 DEF UnloadModule
  <2>2. /\ m \in Module
        /\ \A t \in Solver \ {s} : dying[t] # m
        /\ \A t \in Solver : m \notin Owned(t)
    BY <2>1 DEF RefInv, DyingInv, NoUseAfterUnload, TypeOK
  <2>3. /\ loaded'[m] = None
        /\ \A x \in Module : x # m => loaded'[x] = loaded[x]
        /\ dying'[s] = None
        /\ \A t \in Solver \ {s} : dying'[t] = dying[t]
    BY <2>1, <2>2 DEF TypeOK
  <2>4. \A t \in Solver : Owned(t)' = Owned(t)
    BY <2>1 DEF Owned
  <2>5. NoUseAfterUnload'
    BY <2>2, <2>3, <2>4 DEF RefInv, NoUseAfterUnload, CacheAssumption
  <2>6. NoLeakedModule'
    <3> SUFFICES ASSUME NEW x \in Module, loaded'[x] # None, ~Alive(x)'
                 PROVE  \E t \in Solver : /\ dying'[t] = x
                                          /\ \A u \in Solver \ {t} : dying'[u] # x
      BY DEF NoLeakedModule
    <3>1. x # m /\ loaded[x] # None /\ ~Alive(x) BY <2>3, <2>4 DEF Alive
    <3>2. PICK t \in Solver : dying[t] = x /\ \A u \in Solver \ {t} : dying[u] # x
      BY <3>1 DEF RefInv, NoLeakedModule
    <3>. QED BY <3>1, <3>2, <2>3 DEF CacheAssumption
  <2>7. DyingInv'
    BY <2>1, <2>2, <2>3 DEF RefInv, DyingInv, TypeOK
  <2>8. HomeInv' /\ EntryMatchesKey'
    BY <2>1, <2>2, <2>3, <2>4 DEF RefInv, HomeInv, EntryMatchesKey, TypeOK
  <2>. QED BY <2>5, <2>6, <2>7, <2>8 DEF RefInv
<1>9. ASSUME NEW p \in Process, Crash(p) PROVE RefInv'
  <2> DEFINE dead == {t \in Solver : Home[t] = p}
  <2>1. /\ local' = [t \in Solver |-> IF t \in dead THEN None ELSE local[t]]
        /\ handle' = [t \in Solver |-> IF t \in dead THEN None ELSE handle[t]]
        /\ dying' = [t \in Solver |-> IF t \in dead THEN None ELSE dying[t]]
        /\ cache' = [cache EXCEPT ![p] = [k \in Key |-> None]]
        /\ loaded' = [m \in Module |->
                         IF \E t \in dead : m \in Owned(t) \cup {dying[t]}
                         THEN None ELSE loaded[m]]
    BY <1>9 DEF Crash
  <2>2. /\ \A t \in dead : Owned(t)' = {} /\ dying'[t] = None
        /\ \A t \in Solver \ dead : Owned(t)' = Owned(t) /\ dying'[t] = dying[t]
    BY <2>1 DEF Owned, TypeOK
  <2>3. ASSUME NEW t \in Solver \ dead, NEW m \in Module, m \in Owned(t)
        PROVE  loaded'[m] = loaded[m]
    <3>1. \A u \in dead : m \notin Owned(u) BY <2>3 DEF RefInv, HomeInv
    <3>2. \A u \in Solver : dying[u] # m BY <2>3 DEF RefInv, NoUseAfterUnload
    <3>. QED BY <2>1, <3>1, <3>2
  <2>4. ASSUME NEW t \in Solver \ dead, dying[t] # None
        PROVE  loaded'[dying[t]] = loaded[dying[t]]
    <3>1. dying[t] \in Module BY <2>4 DEF TypeOK
    <3>2. \A u \in Solver : dying[t] \notin Owned(u)
      BY <3>1 DEF RefInv, NoUseAfterUnload
    <3>3. \A u \in dead : dying[u] # dying[t] BY <2>4 DEF RefInv, DyingInv
    <3>. QED BY <2>1, <3>1, <3>2, <3>3
  <2>5. NoUseAfterUnload'
    BY <2>2, <2>3 DEF RefInv, NoUseAfterUnload, CacheAssumption
  <2>6. NoLeakedModule'
    <3> SUFFICES ASSUME NEW x \in Module, loaded'[x] # None, ~Alive(x)'
                 PROVE  \E t \in Solver : /\ dying'[t] = x
                                          /\ \A u \in Solver \ {t} : dying'[u] # x
      BY DEF NoLeakedModule
    <3>1. /\ loaded[x] # None
          /\ \A t \in dead : x \notin Owned(t) /\ dying[t] # x
      BY <2>1
    <3>2. ~Alive(x) BY <2>2, <3>1 DEF Alive
    <3>3. PICK t \in Solver : dying[t] = x /\ \A u \in Solver \ {t} : dying[u] # x
      BY <3>1, <3>2 DEF RefInv, NoLeakedModule
    <3>4. x # None BY DEF CacheAssumption
    <3>. QED BY <3>1, <3>3, <3>4, <2>2
  <2>7. DyingInv'
    BY <2>2, <2>4 DEF RefInv, DyingInv
  <2>8. HomeInv'
    BY <2>2 DEF RefInv, HomeInv
  <2>9. EntryMatchesKey'
    <3> SUFFICES ASSUME NEW q \in Process, NEW k \in Key, NEW t \in Solver,
                        cache'[q][k] # None, cache'[q][k] \in Owned(t)'
                 PROVE  loaded'[cache'[q][k]] = k /\ Home[t] = q
      BY DEF EntryMatchesKey
    <3>1. q # p /\ cache'[q][k] = cache[q][k] /\ cache[q][k] \in Module
      BY <2>1 DEF TypeOK
    <3>2. t \in Solver \ dead /\ cache[q][k] \in Owned(t) BY <2>2, <3>1
    <3>. QED BY <3>1, <3>2, <2>3 DEF RefInv, EntryMatchesKey
  <2>. QED BY <2>5, <2>6, <2>7, <2>8, <2>9 DEF RefInv
<1>10. ASSUME UNCHANGED memory PROVE RefInv'
  <2>1. EntryMatchesKey'
    BY <1>10 DEF RefInv, EntryMatchesKey, Owned
  <2>. QED BY <1>10, <2>1, RefsKept
<1>11. ASSUME NEW s \in Solver, Acquire(s), ~LookupHit(s), ~LookupMiss(s),
              ~LoadImage(s), ~Build(s), ~Publish(s), ~Assign(s), ~Throw(s)
       PROVE  UNCHANGED memory
  BY <1>11 DEF Acquire, SkipLookup, Unlock, ReadNothing, ReadRejected, ReadImage, LoadRejected,
     Unlink, Compile, CompileThrows, BuildThrows, TurnDownCandidate, OpenTmp,
     OpenTmpFails, WriteTmp, WriteLosesTail, WriteTmpFails, Rename, RenameFails,
     Accept, OverBudget
<1>12. ASSUME NEW s \in Solver, Construct(s) PROVE UNCHANGED memory
  BY <1>12 DEF Construct
<1>13. ASSUME NEW k \in Key, Corrupt(k) PROVE UNCHANGED memory
  BY <1>13 DEF Corrupt
<1>14. CASE UNCHANGED vars
  BY <1>10, <1>14 DEF vars
<1>. QED
  BY <1>1, <1>2, <1>3, <1>4, <1>5, <1>6, <1>7, <1>8, <1>9, <1>10, <1>11, <1>12,
     <1>13, <1>14
  DEF Next

\* ServedInv is preserved by every step.
LEMMA ServedStep ==
    ASSUME TypeOK, ThreadInv, FileInv, ServedInv, RefInv, [Next]_vars
    PROVE  ServedInv'
<1> USE CacheAssumption DEF Goto, Current, thread, memory, disk
\* Modules in hand stay loaded for the key they were compiled for.
<1>1. ASSUME NEW m \in Module, Fresh(m), NEW k, loaded' = [loaded EXCEPT ![m] = k],
             NEW t \in Solver, NEW x \in Module, x \in Owned(t)
      PROVE  loaded'[x] = loaded[x]
  BY <1>1 DEF Fresh, Alive, TypeOK
<1>2. ASSUME NEW s \in Solver, dying[s] # None,
             loaded' = [loaded EXCEPT ![dying[s]] = None],
             NEW t \in Solver, NEW x \in Module, x \in Owned(t)
      PROVE  loaded'[x] = loaded[x]
  BY <1>2 DEF RefInv, NoUseAfterUnload, TypeOK
<1>3. \A t \in Solver : /\ local[t] # None => local[t] \in Module /\ local[t] \in Owned(t)
                        /\ handle[t] # None => handle[t] \in Module /\ handle[t] \in Owned(t)
  BY DEF Owned, TypeOK
<1>4. ASSUME NEW s \in Solver, LookupHit(s) PROVE ServedInv'
  <2> DEFINE m == cache[Home[s]][Head(todo[s])]
  <2>1. /\ pc[s] = "lookup" /\ m # None /\ handle' = [handle EXCEPT ![s] = m]
        /\ pc' = [pc EXCEPT ![s] = "hit"]
        /\ UNCHANGED <<todo, local, loaded>>
    BY <1>4 DEF LookupHit, Hit, SetHandle
  <2>2. PICK o \in Solver : m \in Owned(o)
    BY <1>4 DEF LookupHit, Hit, Alive
  <2>3. Head(todo[s]) \in Key
    BY <2>1, CandidateTypes DEF TypeOK, ThreadInv
  <2>4. loaded[m] = Head(todo[s])
    BY <2>1, <2>2, <2>3 DEF RefInv, EntryMatchesKey
  <2> HIDE DEF m
  <2>. QED BY <2>1, <2>4 DEF ServedInv, TypeOK
<1>5. ASSUME NEW s \in Solver, LoadImage(s) PROVE ServedInv'
  <2>1. PICK m \in Module :
          /\ pc[s] = "load" /\ pc' = [pc EXCEPT ![s] = "publish"]
          /\ Fresh(m) /\ image[s] \in Key
          /\ loaded' = [loaded EXCEPT ![m] = image[s]]
          /\ handle' = [handle EXCEPT ![s] = m] /\ UNCHANGED <<todo, local, cache>>
    BY <1>5 DEF LoadImage, SetHandle
  <2>2. local[s] = None /\ image[s] = Head(todo[s])
    BY <2>1 DEF ThreadInv, CacheAssumption
  <2>3. loaded'[m] = Head(todo[s]) /\ m # None
    BY <2>1, <2>2 DEF TypeOK, CacheAssumption
  <2>4. \A t \in Solver : /\ local[t] # None => loaded'[local[t]] = loaded[local[t]]
                          /\ handle[t] # None => loaded'[handle[t]] = loaded[handle[t]]
    BY <2>1, <1>1, <1>3
  <2>. QED BY <2>1, <2>2, <2>3, <2>4 DEF ServedInv, TypeOK
<1>6. ASSUME NEW s \in Solver, Build(s) PROVE ServedInv'
  <2>1. PICK m \in Module :
          /\ pc[s] = "build" /\ pc'[s] \in {"open", "publish", "assign"}
          /\ \A t \in Solver \ {s} : pc'[t] = pc[t]
          /\ Fresh(m)
          /\ loaded' = [loaded EXCEPT ![m] = image[s]]
          /\ local' = [local EXCEPT ![s] = m] /\ UNCHANGED <<todo, handle>>
    BY <1>6 DEF Build, TypeOK
  <2>2. image[s] = Head(todo[s])
    BY <2>1 DEF ThreadInv
  <2>3. loaded'[m] = Head(todo[s]) /\ m # None
    BY <2>1, <2>2 DEF TypeOK, CacheAssumption
  <2>4. \A t \in Solver : /\ local[t] # None => loaded'[local[t]] = loaded[local[t]]
                          /\ handle[t] # None => loaded'[handle[t]] = loaded[handle[t]]
    BY <2>1, <1>1, <1>3
  <2>. QED BY <2>1, <2>3, <2>4 DEF ServedInv, TypeOK
<1>7. ASSUME NEW s \in Solver, Publish(s) PROVE ServedInv'
  BY <1>7 DEF Publish, ServedInv, TypeOK
<1>8. ASSUME NEW s \in Solver, Assign(s) PROVE ServedInv'
  BY <1>8 DEF Assign, SetHandle, ServedInv, ThreadInv, TypeOK
<1>9. ASSUME NEW s \in Solver, Accept(s) \/ Unlock(s) PROVE ServedInv'
  <2>1. CASE Accept(s) BY <2>1 DEF Accept, ServedInv, TypeOK
  <2>2. CASE Unlock(s) BY <2>2 DEF Unlock, ServedInv, TypeOK
  <2>. QED BY <1>9, <2>1, <2>2
<1>10. ASSUME NEW s \in Solver, NEW from \in {"throw", "live"}, Release(s, from)
       PROVE  ServedInv'
  <2>1. /\ pc[s] = from /\ pc' = [pc EXCEPT ![s] = "idle"]
        /\ todo' = [todo EXCEPT ![s] = << >>]
        /\ handle' = [handle EXCEPT ![s] = None]
        /\ UNCHANGED <<local, loaded>>
    BY <1>10 DEF Release, SetHandle
  <2>2. local[s] = None BY <1>10, <2>1 DEF ThreadInv
  <2>. QED BY <2>1, <2>2 DEF ServedInv, TypeOK
<1>11. ASSUME NEW s \in Solver, Throw(s) \/ Destroy(s) PROVE ServedInv'
  BY <1>10, <1>11 DEF Throw, Destroy
<1>12. ASSUME NEW s \in Solver, UnloadModule(s) PROVE ServedInv'
  <2>1. /\ dying[s] # None /\ loaded' = [loaded EXCEPT ![dying[s]] = None]
        /\ UNCHANGED <<pc, todo, local, handle>>
    BY <1>12 DEF UnloadModule
  <2>2. \A t \in Solver : /\ local[t] # None => loaded'[local[t]] = loaded[local[t]]
                          /\ handle[t] # None => loaded'[handle[t]] = loaded[handle[t]]
    BY <2>1, <1>2, <1>3
  <2>. QED BY <2>1, <2>2 DEF ServedInv
<1>13. ASSUME NEW p \in Process, Crash(p) PROVE ServedInv'
  <2> DEFINE dead == {t \in Solver : Home[t] = p}
  <2>1. /\ local' = [t \in Solver |-> IF t \in dead THEN None ELSE local[t]]
        /\ handle' = [t \in Solver |-> IF t \in dead THEN None ELSE handle[t]]
        /\ pc' = [t \in Solver |-> IF t \in dead THEN "idle" ELSE pc[t]]
        /\ todo' = [t \in Solver |-> IF t \in dead THEN << >> ELSE todo[t]]
        /\ loaded' = [m \in Module |->
                         IF \E t \in dead : m \in Owned(t) \cup {dying[t]}
                         THEN None ELSE loaded[m]]
    BY <1>13 DEF Crash
  <2>2. ASSUME NEW t \in Solver \ dead, NEW m \in Module, m \in Owned(t)
        PROVE  loaded'[m] = loaded[m]
    <3>1. \A u \in dead : m \notin Owned(u) BY <2>2 DEF RefInv, HomeInv
    <3>2. \A u \in Solver : dying[u] # m BY <2>2 DEF RefInv, NoUseAfterUnload
    <3>. QED BY <2>1, <3>1, <3>2
  <2>3. \A t \in Solver \ dead :
           /\ local[t] # None => loaded'[local[t]] = loaded[local[t]]
           /\ handle[t] # None => loaded'[handle[t]] = loaded[handle[t]]
    BY <2>2, <1>3
  <2> HIDE DEF dead
  <2>. QED BY <2>1, <2>3 DEF ServedInv
\* The other steps keep the modules and stay away from the places where one is used.
<1>14. ASSUME NEW s \in Solver,
              NEW from \in {"read", "load", "unlink", "compile", "open", "write", "rename"},
              NEW to \in {"load", "unlink", "compile", "build", "write", "rename", "publish"},
              Goto(s, from, to),
              to = "publish" => from \in {"open", "write", "rename"},
              UNCHANGED <<todo, memory>>
       PROVE  ServedInv'
  BY <1>14 DEF ServedInv, ThreadInv, TypeOK
<1>15. ASSUME NEW s \in Solver, Construct(s) \/ SkipLookup(s) \/ LookupMiss(s)
       PROVE  ServedInv'
  <2>1. local[s] = None BY <1>15 DEF Construct, SkipLookup, LookupMiss, ThreadInv
  <2>2. CASE Construct(s) BY <2>1, <2>2 DEF Construct, ServedInv, TypeOK
  <2>3. CASE SkipLookup(s) BY <2>1, <2>3 DEF SkipLookup, ServedInv, TypeOK
  <2>4. CASE LookupMiss(s)
    <3>1. /\ pc' = [pc EXCEPT ![s] = IF mode[s] = "Auto" THEN "read" ELSE "compile"]
          /\ UNCHANGED <<todo, local, handle, loaded>>
      BY <2>4 DEF LookupMiss
    <3>2. pc'[s] \in {"read", "compile"} BY <3>1 DEF TypeOK
    <3>. QED BY <2>1, <3>1, <3>2 DEF ServedInv, TypeOK
  <2>. QED BY <1>15, <2>2, <2>3, <2>4
<1>16. ASSUME NEW s \in Solver,
              ReadNothing(s) \/ ReadRejected(s) \/ ReadImage(s) \/ LoadRejected(s)
       PROVE  ServedInv'
  <2>1. CASE ReadNothing(s) BY <1>14, <2>1 DEF ReadNothing
  <2>2. CASE ReadRejected(s) BY <1>14, <2>2 DEF ReadRejected
  <2>3. CASE ReadImage(s) BY <1>14, <2>3 DEF ReadImage
  <2>4. CASE LoadRejected(s) BY <1>14, <2>4 DEF LoadRejected
  <2>. QED BY <1>16, <2>1, <2>2, <2>3, <2>4
<1>17. ASSUME NEW s \in Solver, Unlink(s) \/ Compile(s) PROVE ServedInv'
  <2>1. CASE Unlink(s) BY <1>14, <2>1 DEF Unlink
  <2>2. CASE Compile(s) BY <1>14, <2>2 DEF Compile
  <2>. QED BY <1>17, <2>1, <2>2
<1>18. ASSUME NEW s \in Solver, NEW from \in {"compile", "build", "check"},
              TurnDownCandidate(s, from)
       PROVE  ServedInv'
  <2>1. /\ local' = local /\ handle' = handle /\ loaded' = loaded
        /\ pc[s] \in {"compile", "build", "check"}
        /\ pc' = [pc EXCEPT ![s] = IF Tail(todo[s]) = << >> THEN "throw" ELSE "lookup"]
        /\ todo' = [todo EXCEPT ![s] = Tail(todo[s])]
    BY <1>18 DEF TurnDownCandidate
  <2>2. pc'[s] \in {"throw", "lookup"} BY <2>1 DEF TypeOK
  <2>3. local'[s] = None BY <2>1 DEF ThreadInv
  <2>4. \A t \in Solver \ {s} : pc'[t] = pc[t] /\ todo'[t] = todo[t]
    BY <2>1 DEF TypeOK
  <2>. QED BY <2>1, <2>2, <2>3, <2>4 DEF ServedInv
<1>19. ASSUME NEW s \in Solver, CompileThrows(s) \/ BuildThrows(s) \/ OverBudget(s)
       PROVE  ServedInv'
  BY <1>18, <1>19 DEF CompileThrows, BuildThrows, OverBudget
<1>20. ASSUME NEW s \in Solver, OpenTmp(s) \/ OpenTmpFails(s) PROVE ServedInv'
  <2>1. CASE OpenTmp(s) BY <1>14, <2>1 DEF OpenTmp
  <2>2. CASE OpenTmpFails(s) BY <1>14, <2>2 DEF OpenTmpFails
  <2>. QED BY <1>20, <2>1, <2>2
<1>21. ASSUME NEW s \in Solver, WriteTmp(s) \/ WriteLosesTail(s) \/ WriteTmpFails(s)
       PROVE  ServedInv'
  <2>1. CASE WriteTmp(s) BY <1>14, <2>1 DEF WriteTmp
  <2>2. CASE WriteLosesTail(s) BY <1>14, <2>2 DEF WriteLosesTail
  <2>3. CASE WriteTmpFails(s) BY <1>14, <2>3 DEF WriteTmpFails
  <2>. QED BY <1>21, <2>1, <2>2, <2>3
<1>22. ASSUME NEW s \in Solver, Rename(s) \/ RenameFails(s) PROVE ServedInv'
  <2>1. CASE Rename(s) BY <1>14, <2>1 DEF Rename
  <2>2. CASE RenameFails(s) BY <1>14, <2>2 DEF RenameFails
  <2>. QED BY <1>22, <2>1, <2>2
<1>23. ASSUME NEW k \in Key, Corrupt(k) PROVE ServedInv'
  BY <1>23 DEF Corrupt, ServedInv
<1>24. CASE UNCHANGED vars
  BY <1>24 DEF vars, ServedInv
<1>. QED
  BY <1>4, <1>5, <1>6, <1>7, <1>8, <1>9, <1>11, <1>12, <1>13, <1>15, <1>16, <1>17,
     <1>19, <1>20, <1>21, <1>22, <1>23, <1>24
  DEF Next, Acquire

\* The invariant holds at the start.
LEMMA CacheInit == Init => CacheInv
<1> SUFFICES ASSUME Init PROVE CacheInv
  OBVIOUS
<1> USE CacheAssumption DEF Init
<1>1. TypeOK BY DEF TypeOK, Locations, Image, Damaged
<1>2. ThreadInv /\ FileInv /\ ServedInv
  BY DEF ThreadInv, FileInv, ServedInv
<1>3. NoUseAfterUnload /\ NoLeakedModule /\ DyingInv /\ HomeInv /\ EntryMatchesKey
  BY DEF NoUseAfterUnload, NoLeakedModule, DyingInv, HomeInv, EntryMatchesKey, Owned
<1>. QED BY <1>1, <1>2, <1>3 DEF CacheInv

\* The invariant is inductive.
LEMMA CacheStep == CacheInv /\ [Next]_vars => CacheInv'
  BY TypeStep, ThreadStep, FileStep, ServedStep, RefStep DEF CacheInv, RefInv

\* The inductive invariant holds in every reachable state, whatever faults happen.
THEOREM CacheInvariant == Spec => []CacheInv
  BY CacheInit, CacheStep, PTL DEF Spec

\* Every variable of acquire_module_ and its surroundings stays in its domain.
THEOREM TypeCorrect == Spec => []TypeOK
  BY CacheInvariant, PTL DEF CacheInv

\* A constructed solver launches a loaded module of its own key that fits the
\* device, whichever of the three layers it came from.
THEOREM ServedModuleCorrect == Spec => []ServedModule
<1>1. CacheInv => ServedModule
  BY DEF CacheInv, ServedInv, ServedModule
<1>. QED BY <1>1, CacheInvariant, PTL

\* ~CachedModule never runs for a module that some shared_ptr still owns, and
\* no module outlives its last owner except inside that destructor.
THEOREM LifetimeCorrect == Spec => [](NoUseAfterUnload /\ NoLeakedModule)
  BY CacheInvariant, PTL DEF CacheInv

\* What the in-process map can hand out is filed under the right key, and stays
\* within its process.
THEOREM EntriesCorrect == Spec => []EntryMatchesKey
  BY CacheInvariant, PTL DEF CacheInv
=============================================================================
