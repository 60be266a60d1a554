--------------------------- MODULE ModuleStoreProofs ---------------------------
(***************************************************************************)
(* ModuleCache implements ModuleStore; a NoCache module is private; what   *)
(* the writers leave at a cubin path and beside it.  All of it for any     *)
(* number of solvers, processes, keys and modules.                         *)
(***************************************************************************)
EXTENDS ModuleCacheProofs
-----------------------------------------------------------------------------
\* The refinement mapping.

Want   == [s \in Solver |-> Range(todo[s])]
Refs   == [s \in Solver |-> Owned(s)]
Served == [s \in Solver |-> IF pc[s] = "live" THEN handle[s] ELSE None]

\* Giving up the head of a list gives up one member, or none.
LEMMA RangeOfTail ==
    ASSUME NEW q \in Seq(Key), q # << >>
    PROVE  /\ Head(q) \in Range(q) /\ Range(q) \subseteq Key
           /\ Range(Tail(q)) = Range(q) \/ Range(Tail(q)) = Range(q) \ {Head(q)}
<1>1. /\ Len(q) \in Nat /\ Len(q) > 0 /\ DOMAIN q = 1 .. Len(q)
      /\ Tail(q) \in Seq(Key) /\ Len(Tail(q)) = Len(q) - 1
      /\ DOMAIN Tail(q) = 1 .. Len(q) - 1
      /\ \A i \in 1 .. Len(q) - 1 : Tail(q)[i] = q[i + 1]
      /\ Head(q) = q[1]
  OBVIOUS
<1>2. /\ Range(q) = {q[i] : i \in 1 .. Len(q)}
      /\ Range(Tail(q)) = {Tail(q)[i] : i \in 1 .. Len(q) - 1}
  BY <1>1 DEF Range
<1>3. Head(q) \in Range(q)  BY <1>1, <1>2
<1>4. Range(q) \subseteq Key  BY <1>1, <1>2
<1>5. Range(Tail(q)) \subseteq Range(q)
  <2> SUFFICES ASSUME NEW i \in 1 .. Len(q) - 1  PROVE Tail(q)[i] \in Range(q)
    BY <1>2
  <2>1. i + 1 \in 1 .. Len(q)  BY <1>1
  <2> QED  BY <1>1, <1>2, <2>1
<1>6. Range(q) \ {Head(q)} \subseteq Range(Tail(q))
  <2> SUFFICES ASSUME NEW i \in 1 .. Len(q), q[i] # Head(q)  PROVE q[i] \in Range(Tail(q))
    BY <1>2
  <2>1. i - 1 \in 1 .. Len(q) - 1 /\ (i - 1) + 1 = i  BY <1>1
  <2>2. Tail(q)[i - 1] = q[i]  BY <1>1, <2>1
  <2> QED  BY <1>2, <2>1, <2>2
<1> QED  BY <1>3, <1>4, <1>5, <1>6

\* No other solver moves.
Only(s) == \A t \in Solver \ {s} : /\ pc'[t] = pc[t] /\ todo'[t] = todo[t]
                                   /\ handle'[t] = handle[t] /\ local'[t] = local[t]

\* What the store sees when only s moves.
LEMMA Seen ==
    ASSUME NEW s \in Solver, Only(s)
    PROVE  /\ Want' = [Want EXCEPT ![s] = Range(todo'[s])]
           /\ Refs' = [Refs EXCEPT ![s] = {handle'[s], local'[s]} \ {None}]
           /\ Served' = [Served EXCEPT ![s] = IF pc'[s] = "live" THEN handle'[s] ELSE None]
  BY DEF Only, Want, Refs, Served, Owned

\* The mapping, applied to one solver.
LEMMA SeenNow ==
    ASSUME NEW s \in Solver
    PROVE  /\ Want[s] = Range(todo[s])
           /\ Refs[s] = {handle[s], local[s]} \ {None}
           /\ Served[s] = IF pc[s] = "live" THEN handle[s] ELSE None
  BY DEF Want, Refs, Served, Owned

\* Nothing of what the store sees changes.
LEMMA Unseen ==
    ASSUME NEW s \in Solver, Only(s), todo'[s] = todo[s],
           {handle'[s], local'[s]} \ {None} = {handle[s], local[s]} \ {None},
           pc[s] # "live", pc'[s] # "live"
    PROVE  UNCHANGED <<Want, Refs, Served>>
<1>1. Want' = [Want EXCEPT ![s] = Range(todo[s])]  BY Seen
<1>2. Refs' = [Refs EXCEPT ![s] = {handle[s], local[s]} \ {None}]  BY Seen
<1>3. Served' = [Served EXCEPT ![s] = None]  BY Seen
<1>4. /\ Want = [Want EXCEPT ![s] = Range(todo[s])]
      /\ Refs = [Refs EXCEPT ![s] = {handle[s], local[s]} \ {None}]
      /\ Served = [Served EXCEPT ![s] = None]
  BY DEF Want, Refs, Served, Owned
<1> QED  BY <1>1, <1>2, <1>3, <1>4

\* A step that leaves the mapped variables alone is a stutter of the store.
LEMMA StoreIs ==
    ASSUME UNCHANGED <<Want, Refs, Served, loaded>>
    PROVE  UNCHANGED Store!svars
  BY DEF Store!svars, Want, Refs, Served

\* A module is referenced in the store exactly when some solver owns it.
LEMMA ReferencedIs ==
    ASSUME NEW m
    PROVE  m \in Store!Referenced(Refs) <=> Alive(m)
  BY DEF Store!Referenced, Refs, Alive

\* The candidate at hand is one the store still wants.
LEMMA CurrentWanted ==
    ASSUME CacheInv, NEW s \in Solver, pc[s] \notin {"idle", "throw"}
    PROVE  /\ Current(s) \in Range(todo[s]) /\ Current(s) \in Key
           /\ Range(Tail(todo[s])) = Range(todo[s])
              \/ Range(Tail(todo[s])) = Range(todo[s]) \ {Current(s)}
<1>1. todo[s] \in Seq(Key) /\ todo[s] # << >>
  BY DEF CacheInv, TypeOK, ThreadInv
<1> QED  BY <1>1, RangeOfTail, CandidateTypes DEF Current
-----------------------------------------------------------------------------
\* The actions of the store, through the mapping.

\* What each action of the store asks for, said of the mapped variables.
LEMMA StoreActions ==
    ASSUME NEW s \in Solver
    PROVE  /\ Store!Begin(s) <=>
                 /\ Refs[s] = {} /\ Served[s] = None
                 /\ \E W \in SUBSET Key : Want' = [Want EXCEPT ![s] = W]
                 /\ UNCHANGED <<Refs, Served, loaded>>
           /\ Store!TurnDown(s) <=>
                 /\ Served[s] = None
                 /\ \E k \in Want[s] : Want' = [Want EXCEPT ![s] = Want[s] \ {k}]
                 /\ UNCHANGED <<Refs, Served, loaded>>
           /\ Store!Load(s) <=>
                 \E m \in Module, k \in Want[s] :
                    /\ Served[s] = None
                    /\ loaded[m] = None /\ m \notin Store!Referenced(Refs)
                    /\ loaded' = [loaded EXCEPT ![m] = k]
                    /\ \E R \in SUBSET Refs[s] : Refs' = [Refs EXCEPT ![s] = R \cup {m}]
                    /\ UNCHANGED <<Want, Served>>
           /\ Store!Share(s) <=>
                 \E m \in Store!Referenced(Refs) :
                    /\ Served[s] = None
                    /\ loaded[m] \in Want[s]
                    /\ \E R \in SUBSET Refs[s] : Refs' = [Refs EXCEPT ![s] = R \cup {m}]
                    /\ UNCHANGED <<Want, Served, loaded>>
           /\ Store!Forget(s) <=>
                 /\ Served[s] = None
                 /\ \E R \in SUBSET Refs[s] : Refs' = [Refs EXCEPT ![s] = R]
                 /\ UNCHANGED <<Want, Served, loaded>>
           /\ Store!Serve(s) <=>
                 \E m \in Refs[s] :
                    /\ Served[s] = None
                    /\ loaded[m] \in Want[s] \cap Fits
                    /\ Served' = [Served EXCEPT ![s] = m]
                    /\ UNCHANGED <<Want, Refs, loaded>>
           /\ Store!Discard(s) <=>
                 /\ Served[s] # None
                 /\ Served' = [Served EXCEPT ![s] = None]
                 /\ Refs' = [Refs EXCEPT ![s] = {}]
                 /\ Want' = [Want EXCEPT ![s] = {}]
                 /\ UNCHANGED loaded
           /\ Store!GiveUp(s) <=>
                 /\ Served[s] = None /\ Want[s] = {}
                 /\ Refs' = [Refs EXCEPT ![s] = {}]
                 /\ UNCHANGED <<Want, Served, loaded>>
  BY Zenon DEF Store!Begin, Store!TurnDown, Store!Load, Store!Share, Store!Forget, Store!Serve,
     Store!Discard, Store!GiveUp, Want, Refs, Served
-----------------------------------------------------------------------------
\* Every step of the cache is a step of the store, or none.

\* What a step of a solver's thread is to the store.
Moves(s) == \/ Store!Begin(s) \/ Store!TurnDown(s) \/ Store!Load(s) \/ Store!Share(s)
            \/ Store!Forget(s) \/ Store!Serve(s) \/ Store!Discard(s) \/ Store!GiveUp(s)
            \/ UNCHANGED Store!svars

\* Consequences of the cache's invariant that the mapping needs.
LEMMA Types ==
    ASSUME CacheInv
    PROVE  /\ DOMAIN pc = Solver /\ DOMAIN todo = Solver /\ DOMAIN local = Solver
           /\ DOMAIN handle = Solver /\ DOMAIN dying = Solver
           /\ pc \in [Solver -> Locations] /\ todo \in [Solver -> Seq(Key)]
           /\ local \in [Solver -> Module \cup {None}]
           /\ handle \in [Solver -> Module \cup {None}]
           /\ dying \in [Solver -> Module \cup {None}]
           /\ loaded \in [Module -> Key \cup {None}]
           /\ \A s \in Solver : Owned(s) \subseteq Module
           /\ None \notin Key \cup Module
  BY CacheAssumption DEF CacheInv, TypeOK, Owned

\* A construction begins.
LEMMA ConstructBegins ==
    ASSUME CacheInv, NEW s \in Solver, Construct(s)
    PROVE  Moves(s)
<1>1. PICK r \in Requests : /\ pc[s] = "idle" /\ pc' = [pc EXCEPT ![s] = "lookup"]
                            /\ todo' = [todo EXCEPT ![s] = r]
                            /\ UNCHANGED <<handle, local, loaded>>
  BY DEF Construct, Goto, memory
<1>2. handle[s] = None /\ local[s] = None  BY <1>1 DEF CacheInv, ThreadInv
<1>3. r \in Seq(Key) /\ r # << >>  BY CacheAssumption
<1>4. Range(r) \in SUBSET Key  BY <1>3, RangeOfTail
<1>5. Only(s) /\ todo'[s] = r /\ pc'[s] = "lookup"  BY <1>1, Types DEF Only
<1>6. Want' = [Want EXCEPT ![s] = Range(r)]  BY <1>5, Seen
<1>7. UNCHANGED <<Refs, Served>>
  <2>1. Refs' = [Refs EXCEPT ![s] = {}] /\ Served' = [Served EXCEPT ![s] = None]
    BY <1>1, <1>2, <1>5, Seen
  <2>2. Refs = [Refs EXCEPT ![s] = {}] /\ Served = [Served EXCEPT ![s] = None]
    BY <1>1, <1>2 DEF Refs, Served, Owned
  <2> QED  BY <2>1, <2>2
<1>8. Refs[s] = {} /\ Served[s] = None  BY <1>1, <1>2, SeenNow
<1> QED  BY <1>1, <1>4, <1>6, <1>7, <1>8, StoreActions DEF Moves

\* A hit in the map shares a module that somebody holds.
LEMMA HitShares ==
    ASSUME CacheInv, NEW s \in Solver, LookupHit(s)
    PROVE  Moves(s)
<1> DEFINE m == cache[Home[s]][Current(s)]
<1>1. /\ pc[s] = "lookup" /\ pc' = [pc EXCEPT ![s] = "hit"]
      /\ m # None /\ Alive(m)
      /\ handle' = [handle EXCEPT ![s] = m]
      /\ UNCHANGED <<todo, local, loaded>>
  BY DEF LookupHit, Goto, Hit, SetHandle
<1>2. local[s] = None  BY <1>1 DEF CacheInv, ThreadInv
<1>3. Current(s) \in Want[s] /\ Current(s) \in Key
  BY <1>1, CurrentWanted, SeenNow
<1>4. loaded[m] = Current(s)
  <2>1. PICK t \in Solver : m \in Owned(t)  BY <1>1 DEF Alive
  <2>2. Home[s] \in Process  BY CacheAssumption
  <2> QED  BY <1>1, <1>3, <2>1, <2>2 DEF CacheInv, EntryMatchesKey
<1> HIDE DEF m
<1>5. Only(s) /\ todo'[s] = todo[s] /\ pc'[s] = "hit" /\ handle'[s] = m /\ local'[s] = None
  BY <1>1, <1>2, Types DEF Only
<1>6. Refs' = [Refs EXCEPT ![s] = {} \cup {m}]
  <2>1. {m, None} \ {None} = {} \cup {m}  BY <1>1
  <2> QED  BY <1>5, <2>1, Seen
<1>7. UNCHANGED <<Want, Served>>
  <2>1. Want' = [Want EXCEPT ![s] = Range(todo[s])] /\ Served' = [Served EXCEPT ![s] = None]
    BY <1>5, Seen
  <2>2. Want = [Want EXCEPT ![s] = Range(todo[s])] /\ Served = [Served EXCEPT ![s] = None]
    BY <1>1 DEF Want, Served
  <2> QED  BY <2>1, <2>2
<1>8. Served[s] = None /\ m \in Store!Referenced(Refs) /\ {} \in SUBSET Refs[s]
  BY <1>1, SeenNow, ReferencedIs
<1>9. Store!Share(s)
  BY <1>1, <1>3, <1>4, <1>6, <1>7, <1>8, StoreActions
<1> QED  BY <1>9 DEF Moves

\* A cubin file, or a compilation, loads a module.
LEMMA ImageLoads ==
    ASSUME CacheInv, NEW s \in Solver, LoadImage(s) \/ Build(s)
    PROVE  Moves(s)
<1>1. PICK m \in Module :
         /\ Fresh(m) /\ image[s] = Current(s)
         /\ loaded' = [loaded EXCEPT ![m] = Current(s)]
         /\ pc[s] \in {"load", "build"} /\ pc'[s] # "live" /\ Only(s) /\ todo' = todo
         /\ \/ handle'[s] = m /\ local'[s] = None
            \/ handle'[s] = handle[s] /\ local'[s] = m
         /\ local[s] = None
  <2>1. CASE LoadImage(s)
    <3>1. PICK m \in Module :
             /\ Fresh(m) /\ image[s] \in Key
             /\ loaded' = [loaded EXCEPT ![m] = image[s]]
             /\ pc[s] = "load" /\ pc' = [pc EXCEPT ![s] = "publish"]
             /\ handle' = [handle EXCEPT ![s] = m]
             /\ UNCHANGED <<todo, local>>
      BY <2>1 DEF LoadImage, Goto, SetHandle
    <3>2. image[s] = Current(s) /\ local[s] = None
      BY <3>1, CacheAssumption DEF CacheInv, ThreadInv
    <3>3. Only(s) /\ handle'[s] = m /\ local'[s] = None /\ pc'[s] = "publish"
      BY <3>1, <3>2, Types DEF Only
    <3> QED  BY <3>1, <3>2, <3>3
  <2>2. CASE Build(s)
    <3>1. PICK m \in Module :
             /\ Fresh(m)
             /\ loaded' = [loaded EXCEPT ![m] = image[s]]
             /\ pc[s] = "build"
             /\ pc' = [pc EXCEPT ![s] = IF mode[s] = "Auto" THEN "open"
                           ELSE IF mode[s] = "NoDisk" THEN "publish" ELSE "assign"]
             /\ local' = [local EXCEPT ![s] = m]
             /\ UNCHANGED <<todo, handle>>
      BY <2>2 DEF Build, Goto
    <3>2. image[s] = Current(s) /\ local[s] = None
      BY <3>1 DEF CacheInv, ThreadInv
    <3>3. Only(s) /\ local'[s] = m /\ handle'[s] = handle[s]
          /\ pc'[s] \in {"open", "publish", "assign"}
      BY <3>1, Types DEF Only
    <3> QED  BY <3>1, <3>2, <3>3
  <2> QED  BY <2>1, <2>2
<1>2. m # None /\ loaded[m] = None /\ ~Alive(m)  BY <1>1, Types DEF Fresh
<1>3. Current(s) \in Want[s]  BY <1>1, CurrentWanted, SeenNow
<1>4. Served[s] = None /\ Refs[s] = {handle[s]} \ {None}  BY <1>1, SeenNow
<1>5. PICK R \in SUBSET Refs[s] : {handle'[s], local'[s]} \ {None} = R \cup {m}
  <2>1. CASE handle'[s] = m /\ local'[s] = None
    <3>1. {handle'[s], local'[s]} \ {None} = {} \cup {m}  BY <1>2, <2>1
    <3> QED  BY <3>1
  <2>2. CASE handle'[s] = handle[s] /\ local'[s] = m
    <3>1. {handle'[s], local'[s]} \ {None} = Refs[s] \cup {m}  BY <1>2, <1>4, <2>2
    <3> QED  BY <3>1
  <2> QED  BY <1>1, <2>1, <2>2
<1>6. Refs' = [Refs EXCEPT ![s] = R \cup {m}]  BY <1>1, <1>5, Seen
<1>7. UNCHANGED <<Want, Served>>
  <2>1. Want' = [Want EXCEPT ![s] = Range(todo[s])] /\ Served' = [Served EXCEPT ![s] = None]
    BY <1>1, Seen
  <2>2. Want = [Want EXCEPT ![s] = Range(todo[s])] /\ Served = [Served EXCEPT ![s] = None]
    BY <1>1 DEF Want, Served
  <2> QED  BY <2>1, <2>2
<1>8. m \notin Store!Referenced(Refs)  BY <1>2, ReferencedIs
<1>9. Store!Load(s)
  BY <1>1, <1>2, <1>3, <1>4, <1>6, <1>7, <1>8, StoreActions
<1> QED  BY <1>9 DEF Moves

\* A candidate is turned down.
LEMMA CandidateTurnedDown ==
    ASSUME CacheInv, NEW s \in Solver, NEW from \in {"compile", "build", "check"},
           TurnDownCandidate(s, from)
    PROVE  Moves(s)
<1>1. /\ pc[s] = from /\ todo' = [todo EXCEPT ![s] = Tail(todo[s])]
      /\ pc' = [pc EXCEPT ![s] = IF Tail(todo[s]) = << >> THEN "throw" ELSE "lookup"]
      /\ UNCHANGED <<handle, local, loaded>>
  BY DEF TurnDownCandidate, Goto, memory
<1>2. Only(s) /\ todo'[s] = Tail(todo[s]) /\ pc'[s] # "live" /\ pc[s] # "live"
  BY <1>1, Types DEF Only
<1>3. UNCHANGED <<Refs, Served>>
  <2>1. /\ Refs' = [Refs EXCEPT ![s] = {handle[s], local[s]} \ {None}]
        /\ Served' = [Served EXCEPT ![s] = None]
    BY <1>1, <1>2, Seen
  <2>2. /\ Refs = [Refs EXCEPT ![s] = {handle[s], local[s]} \ {None}]
        /\ Served = [Served EXCEPT ![s] = None]
    BY <1>2 DEF Refs, Served, Owned
  <2> QED  BY <2>1, <2>2
<1>4. Want' = [Want EXCEPT ![s] = Range(Tail(todo[s]))]  BY <1>2, Seen
<1>5. Want[s] = Range(todo[s]) /\ Served[s] = None  BY <1>2, SeenNow
<1>6. CASE Range(Tail(todo[s])) = Range(todo[s])
  <2>1. Want = [Want EXCEPT ![s] = Range(todo[s])]  BY DEF Want
  <2>2. UNCHANGED Want  BY <1>4, <1>6, <2>1
  <2>3. UNCHANGED Store!svars  BY <1>1, <1>3, <2>2, StoreIs
  <2> QED  BY <2>3 DEF Moves
<1>7. CASE Range(Tail(todo[s])) = Range(todo[s]) \ {Current(s)}
  <2>1. Current(s) \in Want[s]  BY <1>1, <1>5, CurrentWanted
  <2>2. Want' = [Want EXCEPT ![s] = Want[s] \ {Current(s)}]  BY <1>4, <1>5, <1>7
  <2>3. Store!TurnDown(s)  BY <1>1, <1>3, <1>5, <2>1, <2>2, StoreActions
  <2> QED  BY <2>3 DEF Moves
<1> QED  BY <1>1, <1>6, <1>7, CurrentWanted

\* The reference that module_handle_ held is given up.
LEMMA AssignForgets ==
    ASSUME CacheInv, NEW s \in Solver, Assign(s)
    PROVE  Moves(s)
<1>1. /\ pc[s] = "assign" /\ pc' = [pc EXCEPT ![s] = "check"]
      /\ handle' = [handle EXCEPT ![s] = local[s]] /\ local' = [local EXCEPT ![s] = None]
      /\ UNCHANGED <<todo, loaded>>
  BY DEF Assign, Goto, SetHandle
<1>2. /\ Only(s) /\ todo'[s] = todo[s] /\ pc'[s] = "check"
      /\ handle'[s] = local[s] /\ local'[s] = None
  BY <1>1, Types DEF Only
<1>3. {local[s], None} \ {None} \in SUBSET Refs[s]  BY SeenNow
<1>4. Refs' = [Refs EXCEPT ![s] = {local[s], None} \ {None}]  BY <1>2, Seen
<1>5. UNCHANGED <<Want, Served>>
  <2>1. Want' = [Want EXCEPT ![s] = Range(todo[s])] /\ Served' = [Served EXCEPT ![s] = None]
    BY <1>2, Seen
  <2>2. Want = [Want EXCEPT ![s] = Range(todo[s])] /\ Served = [Served EXCEPT ![s] = None]
    BY <1>1 DEF Want, Served
  <2> QED  BY <2>1, <2>2
<1>6. Served[s] = None  BY <1>1, SeenNow
<1>7. Store!Forget(s)  BY <1>1, <1>3, <1>4, <1>5, <1>6, StoreActions
<1> QED  BY <1>7 DEF Moves

\* The constructor returns.
LEMMA AcceptServes ==
    ASSUME CacheInv, NEW s \in Solver, Accept(s)
    PROVE  Moves(s)
<1>1. /\ pc[s] = "check" /\ pc' = [pc EXCEPT ![s] = "live"] /\ loaded[handle[s]] \in Fits
      /\ UNCHANGED <<todo, handle, local, loaded>>
  BY DEF Accept, Goto, memory
<1>2. handle[s] # None /\ loaded[handle[s]] = Current(s)
  BY <1>1 DEF CacheInv, ServedInv
<1>3. Only(s) /\ pc'[s] = "live"  BY <1>1, Types DEF Only
<1>4. handle[s] \in Refs[s] /\ loaded[handle[s]] \in Want[s] \cap Fits /\ Served[s] = None
  BY <1>1, <1>2, SeenNow, CurrentWanted
<1>5. Served' = [Served EXCEPT ![s] = handle[s]]  BY <1>1, <1>3, Seen
<1>6. UNCHANGED <<Want, Refs>>  BY <1>1 DEF Want, Refs, Owned
<1>7. Store!Serve(s)  BY <1>1, <1>4, <1>5, <1>6, StoreActions
<1> QED  BY <1>7 DEF Moves

\* The constructor throws, or the destructor runs.
LEMMA ReleaseDiscards ==
    ASSUME CacheInv, NEW s \in Solver, Throw(s) \/ Destroy(s)
    PROVE  Moves(s)
<1>1. PICK from \in {"throw", "live"} : Release(s, from)  BY DEF Throw, Destroy
<1>2. /\ pc[s] = from /\ pc' = [pc EXCEPT ![s] = "idle"]
      /\ handle' = [handle EXCEPT ![s] = None] /\ todo' = [todo EXCEPT ![s] = << >>]
      /\ UNCHANGED <<local, loaded>>
  BY <1>1 DEF Release, Goto, SetHandle
<1>3. local[s] = None  BY <1>2 DEF CacheInv, ThreadInv
<1>4. /\ Only(s) /\ pc'[s] = "idle" /\ handle'[s] = None /\ local'[s] = None
      /\ todo'[s] = << >>
  BY <1>2, <1>3, Types DEF Only
<1>5. Range(<< >>) = {}  BY DEF Range
<1>6. /\ Want' = [Want EXCEPT ![s] = {}]
      /\ Refs' = [Refs EXCEPT ![s] = {}]
      /\ Served' = [Served EXCEPT ![s] = None]
  <2>1. {None, None} \ {None} = {}  OBVIOUS
  <2> QED  BY <1>4, <1>5, <2>1, Seen
<1>7. CASE from = "live"
  <2>1. handle[s] # None  BY <1>2, <1>7 DEF CacheInv, ServedInv
  <2>2. Served[s] # None  BY <1>2, <1>7, <2>1, SeenNow
  <2>3. Store!Discard(s)  BY <1>2, <1>6, <2>2, StoreActions
  <2> QED  BY <2>3 DEF Moves
<1>8. CASE from = "throw"
  <2>1. todo[s] = << >>  BY <1>2, <1>8 DEF CacheInv, ThreadInv
  <2>2. Want[s] = {} /\ Served[s] = None  BY <1>2, <1>5, <1>8, <2>1, SeenNow
  <2>3. Want = [Want EXCEPT ![s] = {}] /\ Served = [Served EXCEPT ![s] = None]
    BY <1>2, <1>5, <1>8, <2>1 DEF Want, Served
  <2>4. Store!GiveUp(s)  BY <1>2, <1>6, <2>2, <2>3, StoreActions
  <2> QED  BY <2>4 DEF Moves
<1> QED  BY <1>7, <1>8
\* The other steps of acquire_module_ are not seen.
LEMMA RestUnseen ==
    ASSUME CacheInv, NEW s \in Solver,
           \/ SkipLookup(s) \/ LookupMiss(s) \/ Unlock(s)
           \/ ReadNothing(s) \/ ReadRejected(s) \/ ReadImage(s) \/ LoadRejected(s) \/ Unlink(s) \/ Compile(s) \/ OpenTmp(s)
           \/ OpenTmpFails(s) \/ WriteTmp(s) \/ WriteLosesTail(s) \/ WriteTmpFails(s)
           \/ Rename(s) \/ RenameFails(s) \/ Publish(s)
    PROVE  Moves(s)
<1>1. ASSUME NEW from, NEW to, from # "live", to # "live", Goto(s, from, to),
             UNCHANGED <<todo, handle, local, loaded>>
      PROVE  Moves(s)
  <2>1. pc[s] = from /\ pc' = [pc EXCEPT ![s] = to]  BY <1>1 DEF Goto
  <2>2. Only(s) /\ pc[s] # "live" /\ pc'[s] # "live"
    BY <1>1, <2>1, Types DEF Only
  <2>3. UNCHANGED <<Want, Refs, Served>>  BY <1>1, <2>2, Unseen
  <2>4. UNCHANGED Store!svars  BY <1>1, <2>3, StoreIs
  <2> QED  BY <2>4 DEF Moves
<1>2. CASE SkipLookup(s) \/ LookupMiss(s) \/ Unlock(s)
  BY <1>1, <1>2 DEF SkipLookup, LookupMiss, Unlock, memory
<1>3. CASE ReadNothing(s) \/ ReadRejected(s) \/ ReadImage(s)
  BY <1>1, <1>3 DEF ReadNothing, ReadRejected, ReadImage, memory
<1>4. CASE LoadRejected(s) \/ Unlink(s) \/ Compile(s)
  BY <1>1, <1>4 DEF LoadRejected, Unlink, Compile, memory
<1>5. CASE OpenTmp(s) \/ OpenTmpFails(s)
  BY <1>1, <1>5 DEF OpenTmp, OpenTmpFails, memory
<1>6. CASE WriteTmp(s) \/ WriteLosesTail(s) \/ WriteTmpFails(s)
  BY <1>1, <1>6 DEF WriteTmp, WriteLosesTail, WriteTmpFails, memory
<1>7. CASE Rename(s) \/ RenameFails(s) \/ Publish(s)
  BY <1>1, <1>7 DEF Rename, RenameFails, Publish, memory
<1> QED  BY <1>2, <1>3, <1>4, <1>5, <1>6, <1>7

\* Whatever a solver's constructor, lookup, file access, compilation or destructor
\* does is one of the store's actions for this solver, or a stutter.
LEMMA SolverMoves ==
    ASSUME CacheInv, NEW s \in Solver, Construct(s) \/ Acquire(s) \/ Destroy(s)
    PROVE  Moves(s)
<1>1. CASE CompileThrows(s) \/ BuildThrows(s) \/ OverBudget(s)
  BY <1>1, CandidateTurnedDown DEF CompileThrows, BuildThrows, OverBudget
<1> QED  BY <1>1, ConstructBegins, HitShares, ImageLoads, AssignForgets, AcceptServes,
            ReleaseDiscards, RestUnseen DEF Acquire

\* A destructor of CachedModule unloads a module that nobody holds.
LEMMA DestructorUnloads ==
    ASSUME CacheInv, NEW s \in Solver, UnloadModule(s)
    PROVE  Store!Unload
<1>1. /\ dying[s] # None /\ loaded' = [loaded EXCEPT ![dying[s]] = None]
      /\ UNCHANGED <<pc, todo, handle, local>>
  BY DEF UnloadModule, thread
<1>2. dying[s] \in Module  BY <1>1, Types
<1>3. ~Alive(dying[s])
  <2>1. NoUseAfterUnload  BY DEF CacheInv
  <2> QED  BY <1>2, <2>1 DEF NoUseAfterUnload, Alive
<1>4. dying[s] \notin Store!Referenced(Refs)  BY <1>3, ReferencedIs
<1>5. UNCHANGED <<Want, Refs, Served>>  BY <1>1 DEF Want, Refs, Served, Owned
<1> QED  BY <1>1, <1>2, <1>4, <1>5 DEF Store!Unload, Want, Refs, Served

\* A process that dies takes along its solvers, and no module that others hold.
LEMMA CrashPerishes ==
    ASSUME CacheInv, NEW p \in Process, Crash(p)
    PROVE  Store!Perish
<1> DEFINE dead == {s \in Solver : Home[s] = p}
           lost == {m \in Module : \E s \in dead : m \in Owned(s) \cup {dying[s]}}
<1>1. /\ Fault("crash")
      /\ pc' = [s \in Solver |-> IF s \in dead THEN "idle" ELSE pc[s]]
      /\ todo' = [s \in Solver |-> IF s \in dead THEN << >> ELSE todo[s]]
      /\ local' = [s \in Solver |-> IF s \in dead THEN None ELSE local[s]]
      /\ handle' = [s \in Solver |-> IF s \in dead THEN None ELSE handle[s]]
      /\ loaded' = [m \in Module |-> IF m \in lost THEN None ELSE loaded[m]]
  BY DEF Crash
<1> HIDE DEF dead
<1>2. Want' = [s \in Solver |-> IF s \in dead THEN {} ELSE Want[s]]
  <2>1. Range(<< >>) = {}  BY DEF Range
  <2> QED  BY <1>1, <2>1 DEF Want
<1>3. Refs' = [s \in Solver |-> IF s \in dead THEN {} ELSE Refs[s]]
  BY <1>1 DEF Refs, Owned
<1>4. Served' = [s \in Solver |-> IF s \in dead THEN None ELSE Served[s]]
  BY <1>1 DEF Served
<1>5. lost \cap Store!Referenced(Refs') = {}
  <2> SUFFICES ASSUME NEW m \in lost, NEW t \in Solver, m \in Refs'[t]  PROVE FALSE
    BY DEF Store!Referenced
  <2>1. t \notin dead /\ m \in Owned(t) /\ m \in Module  BY <1>3 DEF Refs
  <2>2. PICK s \in dead : m \in Owned(s) \cup {dying[s]}  OBVIOUS
  <2>3. s \in Solver /\ Home[s] = p /\ Home[t] # p  BY <2>1 DEF dead
  <2>4. CASE m \in Owned(s)
    <3>1. HomeInv  BY DEF CacheInv
    <3> QED  BY <2>1, <2>3, <2>4, <3>1 DEF HomeInv
  <2>5. CASE m = dying[s]
    <3>1. NoUseAfterUnload  BY DEF CacheInv
    <3> QED  BY <2>1, <2>3, <2>5, <3>1 DEF NoUseAfterUnload
  <2> QED  BY <2>2, <2>4, <2>5
<1>6. lost \in SUBSET (Module \ Store!Referenced(Refs'))  BY <1>5
<1>7. dead \in IF Fault("crash") THEN {{s \in Solver : Home[s] = q} : q \in Process} ELSE {}
  BY <1>1 DEF dead
<1> HIDE DEF lost
<1>8. /\ \E P \in IF Fault("crash") THEN {{s \in Solver : Home[s] = q} : q \in Process}
                  ELSE {} :
            /\ Want' = [s \in Solver |-> IF s \in P THEN {} ELSE Want[s]]
            /\ Refs' = [s \in Solver |-> IF s \in P THEN {} ELSE Refs[s]]
            /\ Served' = [s \in Solver |-> IF s \in P THEN None ELSE Served[s]]
      /\ \E M \in SUBSET (Module \ Store!Referenced(Refs')) :
            loaded' = [m \in Module |-> IF m \in M THEN None ELSE loaded[m]]
  BY <1>1, <1>2, <1>3, <1>4, <1>6, <1>7
<1> QED  BY <1>8 DEF Store!Perish, Want, Refs, Served

\* A step of the cache is a step of the store or a stutter.
LEMMA StoreStep ==
    ASSUME CacheInv, [Next]_vars
    PROVE  [Store!StoreNext]_(Store!svars)
<1>1. ASSUME NEW s \in Solver, Construct(s) \/ Acquire(s) \/ Destroy(s)
      PROVE  [Store!StoreNext]_(Store!svars)
  BY <1>1, SolverMoves DEF Moves, Store!StoreNext
<1>2. ASSUME NEW s \in Solver, UnloadModule(s)  PROVE Store!StoreNext
  BY <1>2, DestructorUnloads DEF Store!StoreNext
<1>3. ASSUME NEW p \in Process, Crash(p)  PROVE Store!StoreNext
  BY <1>3, CrashPerishes DEF Store!StoreNext
<1>4. ASSUME UNCHANGED <<pc, todo, handle, local, loaded>>  PROVE UNCHANGED Store!svars
  <2>1. UNCHANGED <<Want, Refs, Served>>  BY <1>4 DEF Want, Refs, Served, Owned
  <2> QED  BY <1>4, <2>1, StoreIs
<1>5. ASSUME NEW k \in Key, Corrupt(k)  PROVE UNCHANGED Store!svars
  BY <1>4, <1>5 DEF Corrupt, thread, memory
<1>6. CASE UNCHANGED vars
  BY <1>4, <1>6 DEF vars, thread, memory
<1> QED  BY <1>1, <1>2, <1>3, <1>5, <1>6 DEF Next

\* The cache starts where the store starts.
LEMMA StoreInitially ==
    ASSUME Init
    PROVE  Store!StoreInit
<1>1. Range(<< >>) = {}  BY DEF Range
<1> QED  BY <1>1 DEF Init, Store!StoreInit, Owned

\* The cache, with its map, its files and its compilations, is an implementation of
\* the store: every step of a solver, of a destructor and of a crash is one of the
\* store's, or invisible to it.
THEOREM CacheImplementsStore == Spec => ImplementsStore
<1>1. Spec => [][Store!StoreNext]_(Store!svars)
  <2>1. CacheInv /\ [Next]_vars => [Store!StoreNext]_(Store!svars)  BY StoreStep
  <2> QED  BY <2>1, CacheInvariant, PTL DEF Spec
<1>2. Spec => Store!StoreInit  BY StoreInitially DEF Spec
<1> QED  BY <1>1, <1>2 DEF ImplementsStore, Store!StoreSpec
-----------------------------------------------------------------------------
\* A NoCache solver keeps its module to itself.

NoCachePlaces == {"lookup", "compile", "build", "assign", "check", "throw", "live"}

\* The module of a NoCache construction is in no map and in nobody else's hands.
PrivateInv ==
    \A s \in Solver : mode[s] = "NoCache" =>
        /\ pc[s] \in NoCachePlaces
        /\ \A m \in Owned(s) : /\ \A t \in Solver \ {s} : m \notin Owned(t)
                               /\ \A p \in Process : \A k \in Key : cache[p][k] # m

\* Nobody takes hold of a module of somebody else.
LEMMA StaysPrivate ==
    ASSUME PrivateInv,
           \A s \in Solver : mode'[s] = "NoCache" =>
              /\ pc'[s] \in NoCachePlaces
              /\ mode[s] = "NoCache" \/ Owned(s)' = {},
           \A s \in Solver : Owned(s)' \subseteq Owned(s),
           \A p \in Process : \A k \in Key :
              cache'[p][k] \in {cache[p][k], None}
              \/ \E s \in Solver : mode'[s] # "NoCache" /\ cache'[p][k] \in Owned(s)',
           \A s \in Solver : None \notin Owned(s)'
    PROVE  PrivateInv'
<1> SUFFICES ASSUME NEW s \in Solver, mode'[s] = "NoCache", NEW m \in Owned(s)'
             PROVE  /\ \A t \in Solver \ {s} : m \notin Owned(t)'
                    /\ \A p \in Process : \A k \in Key : cache'[p][k] # m
  BY DEF PrivateInv, NoCachePlaces
<1>1. /\ m \in Owned(s) /\ m # None
      /\ \A t \in Solver \ {s} : m \notin Owned(t)
      /\ \A p \in Process : \A k \in Key : cache[p][k] # m
  BY DEF PrivateInv
<1>2. \A t \in Solver \ {s} : m \notin Owned(t)'  BY <1>1
<1> QED  BY <1>1, <1>2

\* A fresh module, or one out of the map, comes to x.
LEMMA ComesPrivately ==
    ASSUME PrivateInv, NEW x \in Solver, NEW m,
           UNCHANGED <<mode, cache>>,
           \A s \in Solver : mode[s] = "NoCache" => pc'[s] \in NoCachePlaces,
           \A s \in Solver \ {x} : Owned(s)' = Owned(s),
           Owned(x)' \subseteq Owned(x) \cup {m},
           \/ Fresh(m)
           \/ mode[x] # "NoCache" /\ \E p \in Process : \E k \in Key : cache[p][k] = m
    PROVE  PrivateInv'
<1> SUFFICES ASSUME NEW s \in Solver, mode[s] = "NoCache", NEW n \in Owned(s)'
             PROVE  /\ \A t \in Solver \ {s} : n \notin Owned(t)'
                    /\ \A p \in Process : \A k \in Key : cache[p][k] # n
  BY DEF PrivateInv, NoCachePlaces
<1>1. CASE n \in Owned(s)
  <2>1. /\ \A t \in Solver \ {s} : n \notin Owned(t)
        /\ \A p \in Process : \A k \in Key : cache[p][k] # n
    BY <1>1 DEF PrivateInv
  <2>2. x # s => n # m  BY <1>1, <2>1 DEF Fresh, Alive
  <2> QED  BY <2>1, <2>2
<1>2. CASE n \notin Owned(s)
  <2>1. s = x /\ n = m /\ Fresh(m)  BY <1>2
  <2> QED  BY <2>1 DEF Fresh, Alive
<1> QED  BY <1>1, <1>2

\* Consequences of the cache's invariant for what several solvers share.
LEMMA ManyTypes ==
    ASSUME CacheInv
    PROVE  /\ DOMAIN mode = Solver /\ DOMAIN cache = Process
           /\ \A p \in Process : DOMAIN cache[p] = Key
           /\ \A s \in Solver : Home[s] \in Process
           /\ \A s \in Solver : None \notin Owned(s)
  BY CacheAssumption DEF CacheInv, TypeOK, Owned

\* No step lets the module of a NoCache solver be found by another one.
LEMMA PrivateStep ==
    ASSUME CacheInv, CacheInv', PrivateInv, [Next]_vars
    PROVE  PrivateInv'
<1>0. \A s \in Solver : None \notin Owned(s) /\ None \notin Owned(s)'
  BY DEF Owned
\* Steps that move one solver on and leave who holds what alone.
<1>1. ASSUME NEW s \in Solver, NEW from, NEW to, Goto(s, from, to),
             mode[s] # "NoCache" \/ to \in NoCachePlaces,
             UNCHANGED <<mode, handle, local, cache>>
      PROVE  PrivateInv'
  <2>1. \A t \in Solver : pc'[t] = IF t = s THEN to ELSE pc[t]
    BY <1>1, Types DEF Goto
  <2>2. \A t \in Solver : mode[t] = "NoCache" => pc'[t] \in NoCachePlaces
    BY <1>1, <2>1 DEF PrivateInv
  <2>3. \A t \in Solver : Owned(t)' = Owned(t)  BY <1>1 DEF Owned
  <2>4. \A t \in Solver : Owned(t)' \subseteq Owned(t)  BY <2>3
  <2>5. \A t \in Solver : mode'[t] = "NoCache" =>
              /\ pc'[t] \in NoCachePlaces
              /\ mode[t] = "NoCache" \/ Owned(t)' = {}
    BY <1>1, <2>2
  <2>6. \A p \in Process : \A k \in Key : cache'[p][k] \in {cache[p][k], None}
    BY <1>1
  <2> QED  BY <1>0, <2>4, <2>5, <2>6, StaysPrivate
<1>2. ASSUME NEW s \in Solver, Construct(s)  PROVE PrivateInv'
  <2>1. PICK m \in Modes : /\ pc[s] = "idle" /\ pc' = [pc EXCEPT ![s] = "lookup"]
                           /\ mode' = [mode EXCEPT ![s] = m]
                           /\ UNCHANGED <<handle, local, cache>>
    BY <1>2 DEF Construct, Goto, memory
  <2>2. handle[s] = None /\ local[s] = None  BY <2>1 DEF CacheInv, ThreadInv
  <2>3. \A t \in Solver : Owned(t)' = Owned(t)  BY <2>1 DEF Owned
  <2>4. Owned(s)' = {}  BY <2>1, <2>2 DEF Owned
  <2>5. \A t \in Solver : /\ t # s => mode'[t] = mode[t] /\ pc'[t] = pc[t]
                          /\ t = s => pc'[t] \in NoCachePlaces
    BY <2>1, Types, ManyTypes DEF NoCachePlaces
  <2>6. \A t \in Solver : mode'[t] = "NoCache" =>
              /\ pc'[t] \in NoCachePlaces
              /\ mode[t] = "NoCache" \/ Owned(t)' = {}
    BY <2>4, <2>5 DEF PrivateInv
  <2>7. \A p \in Process : \A k \in Key : cache'[p][k] \in {cache[p][k], None}
    BY <2>1
  <2>8. \A t \in Solver : Owned(t)' \subseteq Owned(t)  BY <2>3
  <2> QED  BY <1>0, <2>6, <2>7, <2>8, StaysPrivate
<1>3. ASSUME NEW s \in Solver, LookupHit(s)  PROVE PrivateInv'
  <2> DEFINE m == cache[Home[s]][Current(s)]
  <2>1. /\ pc[s] = "lookup" /\ pc' = [pc EXCEPT ![s] = "hit"]
        /\ mode[s] # "NoCache"
        /\ handle' = [handle EXCEPT ![s] = m]
        /\ UNCHANGED <<mode, local, cache>>
    BY <1>3 DEF LookupHit, Goto, SetHandle
  <2>2. Home[s] \in Process /\ Current(s) \in Key
    BY <2>1, ManyTypes, CurrentWanted
  <2>3. \E p \in Process : \E k \in Key : cache[p][k] = m  BY <2>2
  <2> HIDE DEF m
  <2>4. \A t \in Solver : /\ t # s => pc'[t] = pc[t] /\ Owned(t)' = Owned(t)
                          /\ Owned(s)' \subseteq Owned(s) \cup {m}
    BY <2>1, Types DEF Owned
  <2>5. \A t \in Solver : mode[t] = "NoCache" => pc'[t] \in NoCachePlaces
    BY <2>1, <2>4 DEF PrivateInv
  <2> QED  BY <2>1, <2>3, <2>4, <2>5, ComesPrivately
<1>4. ASSUME NEW s \in Solver, LoadImage(s) \/ Build(s)  PROVE PrivateInv'
  <2>1. PICK m \in Module :
           /\ Fresh(m)
           /\ UNCHANGED <<mode, cache>>
           /\ \/ handle' = [handle EXCEPT ![s] = m] /\ UNCHANGED local
              \/ local' = [local EXCEPT ![s] = m] /\ UNCHANGED handle
           /\ \A t \in Solver \ {s} : pc'[t] = pc[t]
           /\ mode[s] = "NoCache" => pc'[s] \in NoCachePlaces
    <3>1. CASE LoadImage(s)
      <4>1. PICK m \in Module :
               /\ Fresh(m) /\ pc[s] = "load" /\ pc' = [pc EXCEPT ![s] = "publish"]
               /\ handle' = [handle EXCEPT ![s] = m]
               /\ UNCHANGED <<mode, local, cache>>
        BY <3>1 DEF LoadImage, Goto, SetHandle
      <4>2. mode[s] # "NoCache"  BY <4>1 DEF PrivateInv, NoCachePlaces
      <4>3. \A t \in Solver \ {s} : pc'[t] = pc[t]  BY <4>1
      <4> QED  BY <4>1, <4>2, <4>3
    <3>2. CASE Build(s)
      <4>1. PICK m \in Module :
               /\ Fresh(m)
               /\ pc' = [pc EXCEPT ![s] = IF mode[s] = "Auto" THEN "open"
                             ELSE IF mode[s] = "NoDisk" THEN "publish" ELSE "assign"]
               /\ local' = [local EXCEPT ![s] = m]
               /\ UNCHANGED <<mode, handle, cache>>
        BY <3>2 DEF Build, Goto
      <4>2. mode[s] = "NoCache" => pc'[s] \in NoCachePlaces
        BY <4>1, Types DEF NoCachePlaces
      <4>3. \A t \in Solver \ {s} : pc'[t] = pc[t]  BY <4>1
      <4> QED  BY <4>1, <4>2, <4>3
    <3> QED  BY <1>4, <3>1, <3>2
  <2>2. \A t \in Solver \ {s} : Owned(t)' = Owned(t)
    <3>1. \A t \in Solver \ {s} : handle'[t] = handle[t] /\ local'[t] = local[t]
      BY <2>1, Types
    <3> QED  BY <3>1 DEF Owned
  <2>3. Owned(s)' \subseteq Owned(s) \cup {m}
    BY <2>1, Types DEF Owned
  <2>4. \A t \in Solver : mode[t] = "NoCache" => pc'[t] \in NoCachePlaces
    BY <2>1 DEF PrivateInv
  <2> QED  BY <2>1, <2>2, <2>3, <2>4, ComesPrivately
\* What x gives up, and what x files away.
<1>5. ASSUME NEW s \in Solver, NEW to \in Locations,
             \A t \in Solver \ {s} : pc'[t] = pc[t] /\ mode'[t] = mode[t],
             mode'[s] = "NoCache" => mode[s] = "NoCache" /\ pc'[s] \in NoCachePlaces,
             \A t \in Solver : Owned(t)' \subseteq Owned(t),
             \A p \in Process : \A k \in Key :
                cache'[p][k] \in {cache[p][k], None}
                \/ (mode'[s] # "NoCache" /\ cache'[p][k] \in Owned(s)')
      PROVE  PrivateInv'
  <2>1. \A t \in Solver : mode'[t] = "NoCache" =>
              /\ pc'[t] \in NoCachePlaces
              /\ mode[t] = "NoCache" \/ Owned(t)' = {}
    BY <1>5 DEF PrivateInv
  <2> QED  BY <1>0, <1>5, <2>1, StaysPrivate
<1>6. ASSUME NEW s \in Solver, LookupMiss(s)  PROVE PrivateInv'
  <2>1. /\ pc' = [pc EXCEPT ![s] = IF mode[s] = "Auto" THEN "read" ELSE "compile"]
        /\ mode[s] # "NoCache"
        /\ cache' = [cache EXCEPT ![Home[s]][Current(s)] = None]
        /\ UNCHANGED <<mode, handle, local>>
    BY <1>6 DEF LookupMiss, Goto
  <2>2. \A t \in Solver : Owned(t)' \subseteq Owned(t)  BY <2>1 DEF Owned
  <2>3. \A p \in Process : \A k \in Key : cache'[p][k] \in {cache[p][k], None}
    BY <2>1, ManyTypes
  <2>4. "read" \in Locations /\ \A t \in Solver \ {s} : pc'[t] = pc[t]
    BY <2>1 DEF Locations
  <2> QED  BY <1>5, <2>1, <2>2, <2>3, <2>4
<1>7. ASSUME NEW s \in Solver, Publish(s)  PROVE PrivateInv'
  <2> DEFINE m == IF local[s] = None THEN handle[s] ELSE local[s]
  <2>1. /\ pc[s] = "publish"
        /\ pc' = [pc EXCEPT ![s] = IF local[s] = None THEN "check" ELSE "assign"]
        /\ cache' = [cache EXCEPT ![Home[s]][Current(s)] = m]
        /\ UNCHANGED <<mode, handle, local>>
    BY <1>7 DEF Publish, Goto
  <2>2. mode[s] # "NoCache"  BY <2>1 DEF PrivateInv, NoCachePlaces
  <2>3. m \in Owned(s)'
    <3>1. local[s] = None => handle[s] # None  BY <2>1 DEF CacheInv, ServedInv
    <3> QED  BY <2>1, <3>1 DEF Owned
  <2> HIDE DEF m
  <2>4. \A p \in Process : \A k \in Key : cache'[p][k] \in {cache[p][k], m}
    BY <2>1, ManyTypes
  <2>5. \A t \in Solver : Owned(t)' \subseteq Owned(t)  BY <2>1 DEF Owned
  <2>6. "check" \in Locations /\ \A t \in Solver \ {s} : pc'[t] = pc[t]
    BY <2>1 DEF Locations
  <2> QED  BY <1>5, <2>1, <2>2, <2>3, <2>4, <2>5, <2>6
<1>8. ASSUME NEW s \in Solver, Assign(s)  PROVE PrivateInv'
  <2>1. /\ pc' = [pc EXCEPT ![s] = "check"]
        /\ handle' = [handle EXCEPT ![s] = local[s]] /\ local' = [local EXCEPT ![s] = None]
        /\ UNCHANGED <<mode, cache>>
    BY <1>8 DEF Assign, Goto, SetHandle
  <2>2. \A t \in Solver : Owned(t)' \subseteq Owned(t)  BY <2>1, Types DEF Owned
  <2>3. "check" \in Locations /\ pc'[s] = "check" /\ \A t \in Solver \ {s} : pc'[t] = pc[t]
    BY <2>1, Types DEF Locations
  <2> QED  BY <1>5, <2>1, <2>2, <2>3 DEF NoCachePlaces
<1>9. ASSUME NEW s \in Solver, Throw(s) \/ Destroy(s)  PROVE PrivateInv'
  <2>1. PICK from \in {"throw", "live"} : Release(s, from)
    BY <1>9 DEF Throw, Destroy
  <2>2. /\ pc' = [pc EXCEPT ![s] = "idle"]
        /\ handle' = [handle EXCEPT ![s] = None]
        /\ mode' = [mode EXCEPT ![s] = "Auto"]
        /\ UNCHANGED <<local, cache>>
    BY <2>1 DEF Release, Goto, SetHandle
  <2>3. \A t \in Solver : Owned(t)' \subseteq Owned(t)  BY <2>2, Types DEF Owned
  <2>4. /\ "idle" \in Locations /\ mode'[s] = "Auto"
        /\ \A t \in Solver \ {s} : pc'[t] = pc[t] /\ mode'[t] = mode[t]
    BY <2>2, ManyTypes DEF Locations
  <2> QED  BY <1>5, <2>2, <2>3, <2>4
<1>10. ASSUME NEW p \in Process, Crash(p)  PROVE PrivateInv'
  <2>1. /\ \A s \in Solver :
              \/ Home[s] = p /\ mode'[s] = "Auto" /\ Owned(s)' = {}
              \/ mode'[s] = mode[s] /\ pc'[s] = pc[s] /\ Owned(s)' = Owned(s)
        /\ cache' = [cache EXCEPT ![p] = [k \in Key |-> None]]
    BY <1>10 DEF Crash, Owned
  <2>2. \A q \in Process : \A k \in Key : cache'[q][k] \in {cache[q][k], None}
    BY <2>1, ManyTypes
  <2>3. \A s \in Solver : Owned(s)' \subseteq Owned(s)  BY <2>1
  <2>4. \A s \in Solver : mode'[s] = "NoCache" =>
              /\ pc'[s] \in NoCachePlaces
              /\ mode[s] = "NoCache" \/ Owned(s)' = {}
    BY <2>1 DEF PrivateInv
  <2> QED  BY <1>0, <2>2, <2>3, <2>4, StaysPrivate
<1>11. ASSUME UNCHANGED <<pc, mode, handle, local, cache>>  PROVE PrivateInv'
  BY <1>11 DEF PrivateInv, Owned
<1>12. ASSUME NEW s \in Solver, UnloadModule(s)  PROVE PrivateInv'
  BY <1>11, <1>12 DEF UnloadModule, thread
<1>13. ASSUME NEW k \in Key, Corrupt(k)  PROVE PrivateInv'
  BY <1>11, <1>13 DEF Corrupt, thread, memory
<1>14. ASSUME NEW s \in Solver,
              SkipLookup(s) \/ Compile(s) \/ CompileThrows(s) \/ BuildThrows(s)
              \/ Accept(s) \/ OverBudget(s) \/ Unlock(s)
       PROVE  PrivateInv'
  <2>1. PICK from, to : /\ Goto(s, from, to) /\ to \in NoCachePlaces
                        /\ UNCHANGED <<mode, handle, local, cache>>
    BY <1>14 DEF SkipLookup, Compile, CompileThrows, BuildThrows, Accept, OverBudget,
                 Unlock, TurnDownCandidate, memory, NoCachePlaces
  <2> QED  BY <1>1, <2>1
<1>15. ASSUME NEW s \in Solver,
              ReadNothing(s) \/ ReadRejected(s) \/ ReadImage(s) \/ LoadRejected(s)
              \/ Unlink(s) \/ OpenTmp(s) \/ OpenTmpFails(s) \/ WriteTmp(s)
              \/ WriteLosesTail(s) \/ WriteTmpFails(s) \/ Rename(s) \/ RenameFails(s)
       PROVE  PrivateInv'
  <2>1. PICK from, to : /\ Goto(s, from, to)
                        /\ from \in {"read", "load", "unlink", "open", "write", "rename"}
                        /\ UNCHANGED <<mode, handle, local, cache>>
    BY <1>15 DEF ReadNothing, ReadRejected, ReadImage, LoadRejected, Unlink, OpenTmp,
                 OpenTmpFails, WriteTmp, WriteLosesTail, WriteTmpFails, Rename,
                 RenameFails, memory
  <2>2. mode[s] # "NoCache"  BY <2>1 DEF Goto, PrivateInv, NoCachePlaces
  <2> QED  BY <1>1, <2>1, <2>2
<1>16. CASE UNCHANGED vars
  BY <1>11, <1>16 DEF vars, thread, memory
<1> QED  BY <1>2, <1>3, <1>4, <1>6, <1>7, <1>8, <1>9, <1>10, <1>12, <1>13, <1>14,
            <1>15, <1>16 DEF Next, Acquire

\* "skip both caches": nobody ever shares the module of a NoCache solver.
THEOREM NoCacheStaysPrivate == Spec => []NoCacheIsPrivate
<1>1. Init => PrivateInv  BY DEF Init, PrivateInv
<1>2. CacheInv /\ CacheInv' /\ PrivateInv /\ [Next]_vars => PrivateInv'
  BY PrivateStep
<1>3. CacheInv /\ PrivateInv => NoCacheIsPrivate
  <2> SUFFICES ASSUME CacheInv, PrivateInv, NEW s \in Solver, NEW t \in Solver, s # t,
                      pc[s] = "live", mode[s] = "NoCache"
               PROVE  handle[s] \notin Owned(t)
    BY DEF NoCacheIsPrivate
  <2>1. handle[s] # None  BY DEF CacheInv, ServedInv
  <2>2. handle[s] \in Owned(s)  BY <2>1 DEF Owned
  <2> QED  BY <2>2 DEF PrivateInv
<1> QED  BY <1>1, <1>2, <1>3, CacheInvariant, PTL DEF Spec
-----------------------------------------------------------------------------
\* What the writers leave in the directory.

\* Every error path of the writer removes its temporary file.
LEMMA TmpStep ==
    ASSUME CacheInv, NoTmpLeftBehind, [Next]_vars
    PROVE  NoTmpLeftBehind'
<1>0. DOMAIN pc = Solver /\ DOMAIN tmp = Solver  BY DEF CacheInv, TypeOK
<1>1. ASSUME NEW s \in Solver, NEW from, NEW to, Goto(s, from, to),
             from \notin {"write", "rename"}, UNCHANGED tmp
      PROVE  NoTmpLeftBehind'
  <2>1. pc[s] = from /\ pc' = [pc EXCEPT ![s] = to]  BY <1>1 DEF Goto
  <2>2. tmp[s] = None  BY <1>1, <2>1 DEF NoTmpLeftBehind
  <2> QED  BY <1>1, <2>1, <2>2 DEF NoTmpLeftBehind
<1>2. ASSUME NEW s \in Solver, OpenTmp(s)  PROVE NoTmpLeftBehind'
  <2>1. pc' = [pc EXCEPT ![s] = "write"] /\ tmp' = [tmp EXCEPT ![s] = "small"]
    BY <1>2 DEF OpenTmp, Goto
  <2> QED  BY <1>0, <2>1 DEF NoTmpLeftBehind
<1>3. ASSUME NEW s \in Solver, WriteTmp(s) \/ WriteLosesTail(s)  PROVE NoTmpLeftBehind'
  <2>1. PICK d : pc' = [pc EXCEPT ![s] = "rename"] /\ tmp' = [tmp EXCEPT ![s] = d]
    BY <1>3 DEF WriteTmp, WriteLosesTail, Goto
  <2> QED  BY <1>0, <2>1 DEF NoTmpLeftBehind
<1>4. ASSUME NEW s \in Solver, WriteTmpFails(s) \/ Rename(s) \/ RenameFails(s)
      PROVE  NoTmpLeftBehind'
  <2>1. pc' = [pc EXCEPT ![s] = "publish"] /\ tmp' = [tmp EXCEPT ![s] = None]
    BY <1>4 DEF WriteTmpFails, Rename, RenameFails, Goto
  <2> QED  BY <1>0, <2>1 DEF NoTmpLeftBehind
<1>5. ASSUME NEW p \in Process, Crash(p)  PROVE NoTmpLeftBehind'
  <2>1. \A s \in Solver : \/ tmp'[s] = None
                          \/ tmp'[s] = tmp[s] /\ pc'[s] = pc[s]
    BY <1>5 DEF Crash
  <2> QED  BY <2>1 DEF NoTmpLeftBehind
<1>6. ASSUME UNCHANGED <<pc, tmp>>  PROVE NoTmpLeftBehind'
  BY <1>6 DEF NoTmpLeftBehind
<1>7. ASSUME NEW s \in Solver, UnloadModule(s)  PROVE NoTmpLeftBehind'
  BY <1>6, <1>7 DEF UnloadModule, thread, disk
<1>8. ASSUME NEW k \in Key, Corrupt(k)  PROVE NoTmpLeftBehind'
  BY <1>6, <1>8 DEF Corrupt, thread
<1>9. CASE UNCHANGED vars
  BY <1>6, <1>9 DEF vars, thread, disk
<1>10. ASSUME NEW s \in Solver,
              Construct(s) \/ SkipLookup(s) \/ LookupHit(s) \/ Unlock(s) \/ LookupMiss(s)
              \/ Publish(s) \/ Assign(s) \/ Accept(s) \/ Throw(s) \/ Destroy(s)
       PROVE  NoTmpLeftBehind'
  BY <1>1, <1>10 DEF Construct, SkipLookup, LookupHit, Unlock, LookupMiss, Publish, Assign, Accept,
     Throw, Destroy, Release, disk
<1>11. ASSUME NEW s \in Solver,
              ReadNothing(s) \/ ReadRejected(s) \/ ReadImage(s) \/ LoadImage(s)
              \/ LoadRejected(s) \/ Unlink(s)
       PROVE  NoTmpLeftBehind'
  BY <1>1, <1>11 DEF ReadNothing, ReadRejected, ReadImage, LoadImage, LoadRejected, Unlink,
     disk
<1>12. ASSUME NEW s \in Solver,
              Compile(s) \/ CompileThrows(s) \/ Build(s) \/ BuildThrows(s) \/ OpenTmpFails(s)
              \/ OverBudget(s)
       PROVE  NoTmpLeftBehind'
  BY <1>1, <1>12 DEF Compile, CompileThrows, Build, BuildThrows, OpenTmpFails, OverBudget,
     TurnDownCandidate, disk
<1> QED  BY <1>2, <1>3, <1>4, <1>5, <1>7, <1>8, <1>9, <1>10, <1>11, <1>12
         DEF Next, Acquire

\* A temporary file exists only while its writer is between open and rename.
THEOREM NoTmpStays == Spec => []NoTmpLeftBehind
<1>1. Init => NoTmpLeftBehind  BY DEF Init, NoTmpLeftBehind
<1> QED  BY <1>1, TmpStep, CacheInvariant, PTL DEF Spec

\* Nothing but the library touches the directory, and no flush is lost.
OnlyWriters == ~Fault("flush") /\ ~Fault("corrupt")

\* What is about to be renamed is the whole cubin.
RenamesWhole == \A s \in Solver : pc[s] = "rename" => tmp[s] = Current(s)

\* Every writer comes to its rename with the whole cubin.
LEMMA RenamesStep ==
    ASSUME OnlyWriters, CacheInv, RenamesWhole, [Next]_vars
    PROVE  RenamesWhole'
<1>0. DOMAIN pc = Solver /\ DOMAIN todo = Solver /\ DOMAIN tmp = Solver
  BY DEF CacheInv, TypeOK
<1>1. ASSUME NEW s \in Solver, NEW from, NEW to, Goto(s, from, to), to # "rename",
             \A t \in Solver \ {s} : todo'[t] = todo[t] /\ tmp'[t] = tmp[t]
      PROVE  RenamesWhole'
  <2>1. pc' = [pc EXCEPT ![s] = to]  BY <1>1 DEF Goto
  <2> QED  BY <1>0, <1>1, <2>1 DEF RenamesWhole, Current
<1>2. ASSUME NEW s \in Solver, WriteTmp(s)  PROVE RenamesWhole'
  <2>1. /\ pc[s] = "write" /\ pc' = [pc EXCEPT ![s] = "rename"]
        /\ tmp' = [tmp EXCEPT ![s] = image[s]] /\ UNCHANGED todo
    BY <1>2 DEF WriteTmp, Goto
  <2>2. image[s] = Current(s)  BY <2>1 DEF CacheInv, ThreadInv
  <2> QED  BY <1>0, <2>1, <2>2 DEF RenamesWhole, Current
<1>3. ASSUME NEW s \in Solver, WriteLosesTail(s)  PROVE FALSE
  BY <1>3 DEF WriteLosesTail, OnlyWriters
<1>4. ASSUME NEW s \in Solver,
             OpenTmp(s) \/ WriteTmpFails(s) \/ Rename(s) \/ RenameFails(s)
      PROVE  RenamesWhole'
  <2>1. PICK to, from, d : /\ Goto(s, from, to) /\ to # "rename"
                           /\ tmp' = [tmp EXCEPT ![s] = d] /\ UNCHANGED todo
    BY <1>4 DEF OpenTmp, WriteTmpFails, Rename, RenameFails
  <2> QED  BY <1>1, <2>1
<1>5. ASSUME NEW p \in Process, Crash(p)  PROVE RenamesWhole'
  <2>1. \A s \in Solver : \/ pc'[s] = "idle"
                          \/ tmp'[s] = tmp[s] /\ pc'[s] = pc[s] /\ todo'[s] = todo[s]
    BY <1>5 DEF Crash
  <2> QED  BY <2>1 DEF RenamesWhole, Current
<1>6. ASSUME UNCHANGED <<pc, todo, tmp>>  PROVE RenamesWhole'
  BY <1>6 DEF RenamesWhole, Current
<1>7. ASSUME NEW s \in Solver, UnloadModule(s)  PROVE RenamesWhole'
  BY <1>6, <1>7 DEF UnloadModule, thread, disk
<1>8. ASSUME NEW k \in Key, Corrupt(k)  PROVE RenamesWhole'
  BY <1>6, <1>8 DEF Corrupt, thread
<1>9. CASE UNCHANGED vars
  BY <1>6, <1>9 DEF vars, thread, disk
<1>10. ASSUME NEW s \in Solver,
              Construct(s) \/ SkipLookup(s) \/ LookupHit(s) \/ Unlock(s) \/ LookupMiss(s)
              \/ Publish(s) \/ Assign(s) \/ Accept(s) \/ Throw(s) \/ Destroy(s)
       PROVE  RenamesWhole'
  <2>1. PICK from, to : /\ Goto(s, from, to) /\ to # "rename"
                        /\ \A t \in Solver \ {s} : todo'[t] = todo[t]
                        /\ UNCHANGED tmp
    BY <1>0, <1>10 DEF Construct, SkipLookup, LookupHit, Unlock, LookupMiss, Publish, Assign,
       Accept, Throw, Destroy, Release, disk
  <2> QED  BY <1>1, <2>1
<1>11. ASSUME NEW s \in Solver,
              ReadNothing(s) \/ ReadRejected(s) \/ ReadImage(s) \/ LoadImage(s)
              \/ LoadRejected(s) \/ Unlink(s) \/ Compile(s) \/ CompileThrows(s) \/ Build(s)
              \/ BuildThrows(s) \/ OpenTmpFails(s) \/ OverBudget(s)
       PROVE  RenamesWhole'
  <2>1. PICK from, to : /\ Goto(s, from, to) /\ to # "rename"
                        /\ \A t \in Solver \ {s} : todo'[t] = todo[t]
                        /\ UNCHANGED tmp
    BY <1>0, <1>11 DEF ReadNothing, ReadRejected, ReadImage, LoadImage, LoadRejected, Unlink,
       Compile, CompileThrows, Build, BuildThrows, OpenTmpFails, OverBudget,
       TurnDownCandidate, disk
  <2> QED  BY <1>1, <2>1
<1> QED  BY <1>2, <1>3, <1>4, <1>5, <1>7, <1>8, <1>9, <1>10, <1>11 DEF Next, Acquire

\* The steps that change what a cubin path holds.
LEMMA FileTouched ==
    ASSUME [Next]_vars
    PROVE  \/ UNCHANGED file
           \/ \E s \in Solver : Unlink(s) \/ Rename(s)
           \/ \E k \in Key : Corrupt(k)
<1>1. ASSUME NEW s \in Solver, Acquire(s), ~Unlink(s), ~Rename(s) PROVE UNCHANGED file
  BY <1>1 DEF Acquire, SkipLookup, LookupHit, Unlock, LookupMiss, ReadNothing, ReadRejected,
     ReadImage, LoadImage, LoadRejected, Compile, CompileThrows, Build, BuildThrows,
     TurnDownCandidate, OpenTmp, OpenTmpFails, WriteTmp, WriteLosesTail, WriteTmpFails,
     RenameFails, Publish, Assign, Accept, OverBudget, Throw, Release, disk
<1>2. ASSUME NEW s \in Solver, Construct(s) \/ Destroy(s) \/ UnloadModule(s)
      PROVE  UNCHANGED file
  BY <1>2 DEF Construct, Destroy, Release, UnloadModule, disk
<1>3. ASSUME NEW p \in Process, Crash(p) PROVE UNCHANGED file
  BY <1>3 DEF Crash
<1> QED  BY <1>1, <1>2, <1>3 DEF Next, vars, disk

\* A step leaves a cubin path alone, empties it, or brings the whole cubin there.
LEMMA PathStep ==
    ASSUME OnlyWriters, CacheInv, RenamesWhole, [Next]_vars, NEW k \in Key
    PROVE  file'[k] \in {file[k], None, k}
<1>0. DOMAIN file = Key  BY DEF CacheInv, TypeOK
<1>1. ASSUME NEW s \in Solver, Rename(s)  PROVE file'[k] \in {file[k], k}
  <2>1. pc[s] = "rename" /\ file' = [file EXCEPT ![Current(s)] = tmp[s]]
    BY <1>1 DEF Rename, Goto
  <2>2. tmp[s] = Current(s)  BY <2>1 DEF RenamesWhole
  <2> QED  BY <1>0, <2>1, <2>2
<1>2. ASSUME NEW s \in Solver, Unlink(s)  PROVE file'[k] \in {file[k], None}
  <2>1. file' = [file EXCEPT ![Current(s)] = None]  BY <1>2 DEF Unlink
  <2> QED  BY <1>0, <2>1
<1>3. ASSUME NEW j \in Key, Corrupt(j)  PROVE FALSE
  BY <1>3 DEF Corrupt, OnlyWriters
<1> QED  BY <1>1, <1>2, <1>3, FileTouched

\* Whatever damage the directory holds at the start and whatever readers remove, a
\* path that is empty or holds its whole cubin never gets to hold anything else.
THEOREM CubinsStayWhole == ASSUME OnlyWriters PROVE Spec => WholeStays
<1>1. Init => RenamesWhole  BY DEF Init, RenamesWhole
<1>2. CacheInv /\ RenamesWhole /\ [Next]_vars => RenamesWhole'  BY RenamesStep
<1>3. CacheInv /\ RenamesWhole /\ [Next]_vars =>
          [\A k \in Key : file[k] \in {None, k} => file'[k] \in {None, k}]_vars
  BY PathStep
<1> QED  BY <1>1, <1>2, <1>3, CacheInvariant, PTL DEF Spec, WholeStays

\* "cannot produce a partial cubin visible to a third reader": in a directory that
\* is empty at first, whatever fails and whoever is killed, a cubin path holds
\* nothing or the whole cubin of its key.
THEOREM CubinsAreWhole ==
    ASSUME OnlyWriters, InitFiles \subseteq {None}
    PROVE  Spec => []NoPartialCubin
<1>1. Init => RenamesWhole /\ NoPartialCubin
  BY DEF Init, RenamesWhole, NoPartialCubin
<1>2. CacheInv /\ RenamesWhole /\ [Next]_vars => RenamesWhole'  BY RenamesStep
<1>3. CacheInv /\ RenamesWhole /\ NoPartialCubin /\ [Next]_vars => NoPartialCubin'
  BY PathStep DEF NoPartialCubin
<1> QED  BY <1>1, <1>2, <1>3, CacheInvariant, PTL DEF Spec
=============================================================================
