----------------------------- MODULE ModuleCache -----------------------------
(***************************************************************************)
(* UnifiedGeneigSolver::acquire_module_ and what surrounds it: solvers of  *)
(* several processes are constructed and destroyed, each on a thread of    *)
(* its own, and obtain their CUmodule through the in-process map (one per  *)
(* process, weak references), the cubin files (shared by the processes,    *)
(* written through a temporary file and rename), or a compilation.         *)
(*                                                                         *)
(* A critical section of in_process_cache_mutex_ that only touches the map *)
(* is one action.  The one that hits is not: it assigns module_handle_,    *)
(* which may unload the module held before, so the lock is held over a     *)
(* call of the driver ("hit").  Between two critical sections, and between *)
(* two calls on the file system, every interleaving is possible.           *)
(***************************************************************************)
EXTENDS Sequences, Functions

CONSTANTS Solver,     \* UnifiedGeneigSolver objects, each with its own thread
          Process,    \* operating-system processes
          Home,       \* Home[s]: the process solver s lives in
          Key,        \* ModuleCacheKey: (n, bpb, arch, block_dim_x)
          Module,     \* CachedModule control blocks
          Fits,       \* the keys whose kernel stays within the smem budget
          Requests,   \* candidate lists: <<k>> for an explicit request, the
                      \* BPB candidates in order for an automatic one
          Modes,      \* the cache modes in use
          InitFiles,  \* what the cubin directory may hold at the start
          Faults,     \* the faults of the environment that may happen
          None        \* no module, no key, no file, no bytes

\* Byte strings at a cubin path: a whole cubin is named by the key it was
\* compiled for; the others fail one of the three tests of try_load_disk_ (its
\* size, its magic, the driver's own).  The code has no checksum: bytes that were
\* altered and still load are served, and are not in this model.
Damaged == {"small", "nomagic", "unloadable"}
Image == Key \cup Damaged

ASSUME CacheAssumption ==
    /\ Home \in [Solver -> Process]
    /\ Fits \subseteq Key
    /\ Requests \subseteq Seq(Key) \ {<< >>}
    /\ Modes \subseteq {"Auto", "NoDisk", "NoCache"}
    /\ InitFiles \subseteq {None} \cup Damaged
    /\ None \notin Key \cup Module \cup Damaged
    /\ Key \cap Damaged = {}

VARIABLES
    pc,        \* pc[s]: where the thread of s is
    todo,      \* todo[s]: the candidates not yet turned down, current one first
    mode,      \* mode[s]: the CacheMode s was constructed with
    image,     \* image[s]: the cubin bytes in the local variable `cubin'
    local,     \* local[s]: the shared_ptr `h' of acquire_module_
    handle,    \* handle[s]: module_handle_ (the raw fields alias it)
    dying,     \* dying[s]: a CachedModule whose destructor s is running
    cache,     \* cache[p][k]: in_process_cache_ of p, a weak_ptr or None
    loaded,    \* loaded[m]: the key m's CUmodule was compiled for, None if unloaded
    file,      \* file[k]: the bytes at cubin_path(k)
    tmp        \* tmp[s]: the bytes in the temporary file s is writing

thread == <<pc, todo, mode, image>>
memory == <<local, handle, dying, cache, loaded>>
disk   == <<file, tmp>>
vars   == <<thread, memory, disk>>

Locations == {"idle", "lookup", "hit", "read", "load", "unlink", "compile", "build",
              "open", "write", "rename", "publish", "assign", "check",
              "throw", "live"}

Init == /\ pc = [s \in Solver |-> "idle"]
        /\ todo = [s \in Solver |-> << >>]
        /\ mode = [s \in Solver |-> "Auto"]
        /\ image = [s \in Solver |-> None]
        /\ local = [s \in Solver |-> None]
        /\ handle = [s \in Solver |-> None]
        /\ dying = [s \in Solver |-> None]
        /\ cache = [p \in Process |-> [k \in Key |-> None]]
        /\ loaded = [m \in Module |-> None]
        /\ file \in [Key -> InitFiles]
        /\ tmp = [s \in Solver |-> None]

-----------------------------------------------------------------------------
\* Reference counts.

\* The modules solver s owns a shared_ptr to.
Owned(s) == {handle[s], local[s]} \ {None}

Alive(m) == \E s \in Solver : m \in Owned(s)

\* Nobody but s keeps m alive.
OnlyOwner(s, m) == \A t \in Solver \ {s} : m \notin Owned(t)

\* A control block that make_shared can return: not loaded, not owned, and not
\* named by a weak_ptr (an expired entry keeps its block from being reused).
Fresh(m) == /\ loaded[m] = None
            /\ ~Alive(m)
            /\ \A p \in Process, k \in Key : cache[p][k] # m

\* Mutants: the module is destroyed with its first owner; it is never destroyed.
SetHandleUncounted(s, m) ==
    /\ handle' = [handle EXCEPT ![s] = m]
    /\ dying' = [dying EXCEPT ![s] = IF handle[s] # m THEN handle[s] ELSE None]

SetHandleLeaking(s, m) ==
    /\ handle' = [handle EXCEPT ![s] = m]
    /\ UNCHANGED dying

\* module_handle_ = m: the reference held before goes, and the destructor of
\* CachedModule runs on this thread if it was the last one.
SetHandle(s, m) ==
    /\ handle' = [handle EXCEPT ![s] = m]
    /\ dying' = [dying EXCEPT ![s] =
                    IF handle[s] # m /\ OnlyOwner(s, handle[s])
                    THEN handle[s] ELSE None]

Current(s) == Head(todo[s])

\* One step of the thread of s, which is not inside a destructor.
Goto(s, from, to) == /\ pc[s] = from /\ dying[s] = None
                     /\ pc' = [pc EXCEPT ![s] = to]

Fault(f) == f \in Faults

\* in_process_cache_mutex_ of process p is held from one action to another.
Locked(p) == \E t \in Solver : Home[t] = p /\ pc[t] = "hit"

-----------------------------------------------------------------------------
\* Layer 1: the in-process map.

Construct(s) ==
    \E r \in Requests, m \in Modes :
       /\ Goto(s, "idle", "lookup")
       /\ todo' = [todo EXCEPT ![s] = r]
       /\ mode' = [mode EXCEPT ![s] = m]
       /\ UNCHANGED <<image, memory, disk>>

SkipLookup(s) ==
    /\ Goto(s, "lookup", "compile")
    /\ mode[s] = "NoCache"
    /\ UNCHANGED <<todo, mode, image, memory, disk>>

\* The map has an entry for the key and weak_ptr::lock can promote it.
Hit(s) == /\ cache[Home[s]][Current(s)] # None
          /\ Alive(cache[Home[s]][Current(s)])

\* The module found is assigned inside the critical section: what module_handle_
\* held before may be unloaded (UnloadModule) before the lock is dropped.
LookupHit(s) ==
    /\ ~Locked(Home[s])
    /\ Goto(s, "lookup", "hit")
    /\ mode[s] # "NoCache"
    /\ Hit(s)
    /\ SetHandle(s, cache[Home[s]][Current(s)])
    /\ UNCHANGED <<todo, mode, image, local, cache, loaded, disk>>

\* The critical section of a hit ends, and acquire_module_ returns.
Unlock(s) ==
    /\ Goto(s, "hit", "check")
    /\ UNCHANGED <<todo, mode, image, memory, disk>>

\* Absent, or expired and erased; the lock is dropped before the work begins.
LookupMiss(s) ==
    /\ ~Locked(Home[s])
    /\ Goto(s, "lookup", IF mode[s] = "Auto" THEN "read" ELSE "compile")
    /\ mode[s] # "NoCache"
    /\ ~Hit(s)
    /\ cache' = [cache EXCEPT ![Home[s]][Current(s)] = None]
    /\ UNCHANGED <<todo, mode, image, local, handle, dying, loaded, disk>>

-----------------------------------------------------------------------------
\* Layer 2: the cubin file.  Opening it fixes the bytes that are read, whatever
\* is renamed over the path or removed from it afterwards.

ReadNothing(s) ==
    /\ Goto(s, "read", "compile")
    /\ file[Current(s)] = None \/ Fault("io")
    /\ UNCHANGED <<todo, mode, image, memory, disk>>

\* sz < 1024, or no ELF magic.
ReadRejected(s) ==
    /\ Goto(s, "read", "unlink")
    /\ file[Current(s)] \in {"small", "nomagic"}
    /\ UNCHANGED <<todo, mode, image, memory, disk>>

ReadImage(s) ==
    /\ Goto(s, "read", "load")
    /\ file[Current(s)] \notin {None, "small", "nomagic"}
    /\ image' = [image EXCEPT ![s] = file[Current(s)]]
    /\ UNCHANGED <<todo, mode, memory, disk>>

\* Mutant: the result of cuModuleLoadDataEx is not looked at.
LoadImageUnchecked(s) ==
    \E m \in Module :
       /\ Goto(s, "load", "publish")
       /\ Fresh(m)
       /\ loaded' = [loaded EXCEPT ![m] = image[s]]
       /\ SetHandle(s, m)
       /\ image' = [image EXCEPT ![s] = None]
       /\ UNCHANGED <<todo, mode, local, cache, disk>>

\* build_module_from_cubin_ succeeds; module_handle_ takes the module.
LoadImage(s) ==
    \E m \in Module :
       /\ Goto(s, "load", "publish")
       /\ image[s] \in Key
       /\ Fresh(m)
       /\ loaded' = [loaded EXCEPT ![m] = image[s]]
       /\ SetHandle(s, m)
       /\ image' = [image EXCEPT ![s] = None]
       /\ UNCHANGED <<todo, mode, local, cache, disk>>

\* Mutant: the refused file stays where it is.
LoadRejectedKeepsFile(s) ==
    /\ Goto(s, "load", "compile")
    /\ image[s] \notin Key \/ Fault("driver")
    /\ image' = [image EXCEPT ![s] = None]
    /\ UNCHANGED <<todo, mode, memory, disk>>

\* The driver refuses the bytes, or fails for a reason of its own.
LoadRejected(s) ==
    /\ Goto(s, "load", "unlink")
    /\ image[s] \notin Key \/ Fault("driver")
    /\ image' = [image EXCEPT ![s] = None]
    /\ UNCHANGED <<todo, mode, memory, disk>>

\* std::remove(path): whatever is at the path by now.
Unlink(s) ==
    /\ Goto(s, "unlink", "compile")
    /\ file' = [file EXCEPT ![Current(s)] = None]
    /\ UNCHANGED <<todo, mode, image, memory, tmp>>

-----------------------------------------------------------------------------
\* Layer 3: compile, load, write the file.

Compile(s) ==
    /\ Goto(s, "compile", "build")
    /\ image' = [image EXCEPT ![s] = Current(s)]
    /\ UNCHANGED <<todo, mode, memory, disk>>

\* Mutants: a NoCache solver publishes its module; a NoDisk solver writes the file.
BuildPublishesAlways(s) ==
    \E m \in Module :
       /\ Goto(s, "build", IF mode[s] = "Auto" THEN "open" ELSE "publish")
       /\ Fresh(m)
       /\ loaded' = [loaded EXCEPT ![m] = image[s]]
       /\ local' = [local EXCEPT ![s] = m]
       /\ UNCHANGED <<todo, mode, image, handle, dying, cache, disk>>

Build(s) ==
    \E m \in Module :
       /\ Goto(s, "build", IF mode[s] = "Auto" THEN "open"
                           ELSE IF mode[s] = "NoDisk" THEN "publish" ELSE "assign")
       /\ Fresh(m)
       /\ loaded' = [loaded EXCEPT ![m] = image[s]]
       /\ local' = [local EXCEPT ![s] = m]
       /\ UNCHANGED <<todo, mode, image, handle, dying, cache, disk>>

\* Mutants: the same candidate is tried again; the first refusal is the last.
TurnDownWithoutAdvance(s, from) ==
    /\ Goto(s, from, "lookup")
    /\ image' = [image EXCEPT ![s] = None]
    /\ UNCHANGED <<todo, mode, memory, disk>>

TurnDownIsFinal(s, from) ==
    /\ Goto(s, from, "throw")
    /\ todo' = [todo EXCEPT ![s] = Tail(todo[s])]
    /\ image' = [image EXCEPT ![s] = None]
    /\ UNCHANGED <<mode, memory, disk>>

\* try_one returns false (`cubin' goes out of scope): the next candidate, or the constructor throws.
TurnDownCandidate(s, from) ==
    /\ Goto(s, from, IF Tail(todo[s]) = << >> THEN "throw" ELSE "lookup")
    /\ todo' = [todo EXCEPT ![s] = Tail(todo[s])]
    /\ image' = [image EXCEPT ![s] = None]
    /\ UNCHANGED <<mode, memory, disk>>

\* NVRTC, nvJitLink or the driver throws out of acquire_module_.
CompileThrows(s) == Fault("compiler") /\ TurnDownCandidate(s, "compile")
BuildThrows(s)   == Fault("driver") /\ TurnDownCandidate(s, "build")

\* Mutant: the final path itself is opened for writing.
OpenTmpInPlace(s) ==
    /\ Goto(s, "open", "write")
    /\ file' = [file EXCEPT ![Current(s)] = "small"]
    /\ UNCHANGED <<todo, mode, image, memory, tmp>>

OpenTmp(s) ==
    /\ Goto(s, "open", "write")
    /\ tmp' = [tmp EXCEPT ![s] = "small"]
    /\ UNCHANGED <<todo, mode, image, memory, file>>

OpenTmpFails(s) ==
    /\ Fault("io")
    /\ Goto(s, "open", "publish")
    /\ UNCHANGED <<todo, mode, image, memory, disk>>

WriteTmp(s) ==
    /\ Goto(s, "write", "rename")
    /\ tmp' = [tmp EXCEPT ![s] = image[s]]
    /\ UNCHANGED <<todo, mode, image, memory, file>>

\* The stream's destructor flushes the last buffer and ignores the error.
WriteLosesTail(s) ==
    /\ Fault("flush")
    /\ Goto(s, "write", "rename")
    /\ \E d \in {"small", "unloadable"} : tmp' = [tmp EXCEPT ![s] = d]
    /\ UNCHANGED <<todo, mode, image, memory, file>>

\* The error is seen: the temporary file is removed.
WriteTmpFails(s) ==
    /\ Fault("io")
    /\ Goto(s, "write", "publish")
    /\ tmp' = [tmp EXCEPT ![s] = None]
    /\ UNCHANGED <<todo, mode, image, memory, file>>

Rename(s) ==
    /\ Goto(s, "rename", "publish")
    /\ file' = [file EXCEPT ![Current(s)] = tmp[s]]
    /\ tmp' = [tmp EXCEPT ![s] = None]
    /\ UNCHANGED <<todo, mode, image, memory>>

\* Mutant: nothing is removed.
RenameFailsKeepsTmp(s) ==
    /\ Fault("io")
    /\ Goto(s, "rename", "publish")
    /\ UNCHANGED <<todo, mode, image, memory, disk>>

RenameFails(s) ==
    /\ Fault("io")
    /\ Goto(s, "rename", "publish")
    /\ tmp' = [tmp EXCEPT ![s] = None]
    /\ UNCHANGED <<todo, mode, image, memory, file>>

\* in_process_cache_[key] = h, under the lock: an entry that somebody else has
\* put there since the lookup is replaced.
Publish(s) ==
    /\ ~Locked(Home[s])
    /\ Goto(s, "publish", IF local[s] = None THEN "check" ELSE "assign")
    /\ cache' = [cache EXCEPT ![Home[s]][Current(s)] =
                     IF local[s] = None THEN handle[s] ELSE local[s]]
    /\ UNCHANGED <<todo, mode, image, local, handle, dying, loaded, disk>>

Assign(s) ==
    /\ Goto(s, "assign", "check")
    /\ SetHandle(s, local[s])
    /\ local' = [local EXCEPT ![s] = None]
    /\ image' = [image EXCEPT ![s] = None]
    /\ UNCHANGED <<todo, mode, cache, loaded, disk>>

-----------------------------------------------------------------------------
\* The rest of the constructor, and the destructor.

\* Mutant: the budget is not looked at.
AcceptAnySize(s) ==
    /\ Goto(s, "check", "live")
    /\ UNCHANGED <<todo, mode, image, memory, disk>>

Accept(s) ==
    /\ Goto(s, "check", "live")
    /\ loaded[handle[s]] \in Fits
    /\ UNCHANGED <<todo, mode, image, memory, disk>>

\* shared_mem_bytes_ > budget: module_handle_ keeps the module for now.
OverBudget(s) ==
    /\ TurnDownCandidate(s, "check")
    /\ loaded[handle[s]] \notin Fits

Release(s, from) ==
    /\ Goto(s, from, "idle")
    /\ SetHandle(s, None)
    /\ todo' = [todo EXCEPT ![s] = << >>]
    /\ mode' = [mode EXCEPT ![s] = "Auto"]
    /\ UNCHANGED <<image, local, cache, loaded, disk>>

\* Leaving the constructor by an exception destroys the member module_handle_.
Throw(s) == Release(s, "throw")
Destroy(s) == Release(s, "live")

\* ~CachedModule: cuModuleUnload.
UnloadModule(s) ==
    /\ dying[s] # None
    /\ loaded' = [loaded EXCEPT ![dying[s]] = None]
    /\ dying' = [dying EXCEPT ![s] = None]
    /\ UNCHANGED <<thread, local, handle, cache, disk>>

-----------------------------------------------------------------------------
\* The environment.

\* A process is killed: its memory and its CUmodules go, the files stay (the
\* temporary ones as litter under names that are never used again).
Crash(p) ==
    LET dead == {s \in Solver : Home[s] = p}
        Lost(s, m) == m \in Owned(s) \cup {dying[s]}
        Clear(f, v) == [s \in Solver |-> IF s \in dead THEN v ELSE f[s]]
    IN
    /\ Fault("crash")
    /\ pc' = Clear(pc, "idle")
    /\ todo' = Clear(todo, << >>)
    /\ mode' = Clear(mode, "Auto")
    /\ image' = Clear(image, None)
    /\ local' = Clear(local, None)
    /\ handle' = Clear(handle, None)
    /\ dying' = Clear(dying, None)
    /\ cache' = [cache EXCEPT ![p] = [k \in Key |-> None]]
    /\ loaded' = [m \in Module |-> IF \E s \in dead : Lost(s, m)
                                   THEN None ELSE loaded[m]]
    /\ tmp' = Clear(tmp, None)
    /\ UNCHANGED file

\* Something outside the library damages a cubin file.
Corrupt(k) ==
    /\ Fault("corrupt")
    /\ \E d \in Damaged : file' = [file EXCEPT ![k] = d]
    /\ UNCHANGED <<thread, memory, tmp>>

-----------------------------------------------------------------------------
Acquire(s) ==
    \/ SkipLookup(s) \/ LookupHit(s) \/ Unlock(s) \/ LookupMiss(s)
    \/ ReadNothing(s) \/ ReadRejected(s) \/ ReadImage(s)
    \/ LoadImage(s) \/ LoadRejected(s) \/ Unlink(s)
    \/ Compile(s) \/ CompileThrows(s) \/ Build(s) \/ BuildThrows(s)
    \/ OpenTmp(s) \/ OpenTmpFails(s)
    \/ WriteTmp(s) \/ WriteLosesTail(s) \/ WriteTmpFails(s)
    \/ Rename(s) \/ RenameFails(s)
    \/ Publish(s) \/ Assign(s)
    \/ Accept(s) \/ OverBudget(s) \/ Throw(s)

Next == \/ \E s \in Solver : Construct(s) \/ Acquire(s) \/ Destroy(s) \/ UnloadModule(s)
        \/ \E p \in Process : Crash(p)
        \/ \E k \in Key : Corrupt(k)

Spec == Init /\ [][Next]_vars

\* The operating system runs every thread, and the calls it makes return; no
\* application is obliged to construct or to destroy a solver.  With two
\* solvers weak fairness is enough for the mutex: a hit shares a module that the
\* other one owns, and a thread that waits for the mutex owns none in the map.
\* With more, std::mutex does not promise that a waiting thread ever gets it.
Fairness == \A s \in Solver : WF_vars(Acquire(s)) /\ WF_vars(UnloadModule(s))

FairSpec == Spec /\ Fairness

-----------------------------------------------------------------------------
\* Every variable stays in its domain.
TypeOK ==
    /\ pc \in [Solver -> Locations]
    /\ todo \in [Solver -> Seq(Key)]
    /\ mode \in [Solver -> {"Auto", "NoDisk", "NoCache"}]
    /\ image \in [Solver -> Image \cup {None}]
    /\ local \in [Solver -> Module \cup {None}]
    /\ handle \in [Solver -> Module \cup {None}]
    /\ dying \in [Solver -> Module \cup {None}]
    /\ cache \in [Process -> [Key -> Module \cup {None}]]
    /\ loaded \in [Module -> Key \cup {None}]
    /\ file \in [Key -> Image \cup {None}]
    /\ tmp \in [Solver -> Image \cup {None}]

\* A solver that its constructor hands out launches a module that is loaded and
\* was compiled for the key it asked for, one whose kernel fits the device,
\* whichever layer the module came from and however the file is damaged, as long
\* as one of the three tests can tell.
ServedModule ==
    \A s \in Solver : pc[s] = "live" =>
        /\ handle[s] # None
        /\ loaded[handle[s]] = Current(s)
        /\ Current(s) \in Fits

\* No module is unloaded while a solver can still reach it: what a shared_ptr
\* owns is loaded, and is not in the middle of its destructor.
NoUseAfterUnload ==
    \A s \in Solver, m \in Module : m \in Owned(s) =>
        /\ loaded[m] # None
        /\ \A t \in Solver : dying[t] # m

\* "the module unloads (instead of leaking until process exit)": a module that
\* no solver owns any more is being unloaded, by exactly one thread.
NoLeakedModule ==
    \A m \in Module : loaded[m] # None =>
        \/ Alive(m)
        \/ \E s \in Solver : /\ dying[s] = m
                             /\ \A t \in Solver \ {s} : dying[t] # m

\* An entry that weak_ptr::lock can still promote is for the key it is filed
\* under, and its module belongs to the process whose map it is in.
EntryMatchesKey ==
    \A p \in Process, k \in Key, s \in Solver :
        (cache[p][k] # None /\ cache[p][k] \in Owned(s)) =>
            loaded[cache[p][k]] = k /\ Home[s] = p

\* "skip both caches": the module of a NoCache solver is nobody else's.
NoCacheIsPrivate ==
    \A s, t \in Solver :
        (s # t /\ pc[s] = "live" /\ mode[s] = "NoCache") => handle[s] \notin Owned(t)

\* "POSIX rename is atomic ... cannot produce a partial cubin visible to a third
\* reader": as long as nothing else damages the directory and no flush is lost,
\* a cubin path holds nothing or the whole cubin of its key, whenever a writer
\* is killed.
NoPartialCubin == \A k \in Key : file[k] \in {None, k}

\* A temporary file exists only while its writer is between open and rename:
\* every error path removes it.
NoTmpLeftBehind ==
    \A s \in Solver : pc[s] \notin {"write", "rename"} => tmp[s] = None

\* "unlink the bad file": a cubin that has reached its path whole stays there.
\* What is removed is whatever the path names by then, so the code does not keep
\* this: a reader that saw damaged bytes removes the whole cubin that another
\* process has renamed over them since.
GoodCubinStays ==
    [][\A k \in Key : file[k] = k => file'[k] = k]_vars

\* A path that is empty or holds its whole cubin does not come to hold anything
\* else, whatever the rest of the directory holds and whatever readers remove.
WholeStays ==
    [][\A k \in Key : file[k] \in {None, k} => file'[k] \in {None, k}]_vars

\* Every constructor comes to an end: it returns, or it throws.
ConstructionEnds == \A s \in Solver : pc[s] = "lookup" ~> pc[s] \in {"live", "idle"}

\* A module without an owner is eventually unloaded.
UnownedIsUnloaded ==
    \A m \in Module : (loaded[m] # None /\ ~Alive(m)) ~> loaded[m] = None

\* "unlink the bad file, fall through to compile": once an Auto construction
\* reads a damaged cubin, that damaged cubin goes.
DamagedCubinGoes ==
    \A s \in Solver, k \in Key, d \in Damaged :
        (pc[s] = "read" /\ Current(s) = k /\ file[k] = d) ~> file[k] # d

-----------------------------------------------------------------------------
\* The inductive invariant behind ServedModule, NoUseAfterUnload, NoLeakedModule
\* and EntryMatchesKey.

\* Where a construction stands determines what its local variables hold.
ThreadInv ==
    \A s \in Solver :
        /\ pc[s] \in {"idle", "throw"} <=> todo[s] = << >>
        /\ pc[s] = "idle" => handle[s] = None
        /\ pc[s] \in {"open", "write", "rename", "assign"} => local[s] # None
        /\ local[s] # None => pc[s] \in {"open", "write", "rename", "publish", "assign"}
        /\ pc[s] \in {"build", "open", "write"} => image[s] = Current(s)
        /\ pc[s] = "load" => image[s] \in {Current(s)} \cup Damaged
        /\ pc[s] = "rename" => tmp[s] \in {Current(s)} \cup Damaged

\* A cubin path holds the cubin of its own key, if it holds a cubin at all.
FileInv == \A k \in Key : file[k] \in {None, k} \cup Damaged

\* Every module a construction has in hand is the one for its current key.
ServedInv ==
    \A s \in Solver :
        /\ local[s] # None => loaded[local[s]] = Current(s)
        /\ (pc[s] \in {"hit", "check", "live"} \/ (pc[s] = "publish" /\ local[s] = None)) =>
               handle[s] # None /\ loaded[handle[s]] = Current(s)
        /\ pc[s] = "live" => Current(s) \in Fits

\* A module is in at most one destructor, and loaded until it is through.
DyingInv ==
    \A s \in Solver : dying[s] # None =>
        /\ loaded[dying[s]] # None
        /\ \A t \in Solver \ {s} : dying[t] # dying[s]

\* Modules are shared only inside a process.
HomeInv ==
    \A s, t \in Solver : Owned(s) \cap Owned(t) # {} => Home[s] = Home[t]

CacheInv == /\ TypeOK
            /\ ThreadInv
            /\ FileInv
            /\ ServedInv
            /\ NoUseAfterUnload
            /\ NoLeakedModule
            /\ DyingInv
            /\ HomeInv
            /\ EntryMatchesKey

-----------------------------------------------------------------------------
\* The cache implements the store of modules it is a cache for.
Store == INSTANCE ModuleStore WITH
             want   <- [s \in Solver |-> Range(todo[s])],
             refs   <- [s \in Solver |-> Owned(s)],
             served <- [s \in Solver |-> IF pc[s] = "live" THEN handle[s] ELSE None],
             store  <- loaded,
             Together <- IF Fault("crash")
                         THEN {{s \in Solver : Home[s] = p} : p \in Process} ELSE {}

ImplementsStore == Store!StoreSpec
=============================================================================
