---------------------------- MODULE SolverProcess ----------------------------
(***************************************************************************)
(* What the solvers of a process share: the C interface with its           *)
(* thread-local error message, the primary contexts of the devices, the    *)
(* modules loaded in them, the in-process map with a key that names no     *)
(* device, the memo of the library's hash, and the cubins that outlive the *)
(* process.                                                                *)
(*                                                                         *)
(* ModuleCache has the cache's own steps; here acquire_module_ is cut to   *)
(* those that read or write what solvers of other devices, other threads   *)
(* and later processes see.  n, BPB and BlockDim.x are the same for all    *)
(* solvers, so a cache key is an architecture.                             *)
(***************************************************************************)
EXTENDS Integers, FiniteSets

CONSTANTS Thread,       \* threads that call the C interface
          Solver,       \* the objects behind the handles
          Device,
          Arch,         \* Arch[d]: compute capability of a device
          Library,      \* versions of the cuSolverDx fatbin
          Fingerprint,  \* Fingerprint[v]: the hash of v's first eight bytes and its size
          Misread,      \* Misread[v]: the hashes of v if a system call fails
          Unhashed,     \* the value of the memo before: 0
          None,
          MaxRetained,  \* bound: references to one context
          Faults        \* "driver", "compiler", "libraries", "fatbin": calls that fail

\* Bound: every loaded module has a solver that owns or builds it, or was left
\* behind with a reference to its context.
Module == 1 .. Cardinality(Solver) + Cardinality(Device) * MaxRetained

Loaded == [ctx : Device, library : Library]

Object == [mode : {"unified", "hybrid"}, dev : Device, live : BOOLEAN]

ASSUME ProcessAssumption ==
    /\ IsFiniteSet(Thread) /\ IsFiniteSet(Solver) /\ IsFiniteSet(Device)
    /\ MaxRetained \in Nat
    /\ None \notin Solver \cup Device \cup Library \cup Module \cup Loaded \cup Object

VARIABLES
    installed,  \* the library on disk
    disk,       \* disk[p]: the library that is linked into the cubin at a path
    memo,       \* lib_hash_cached's two statics
    entries,    \* entries[a]: the module the in-process map gives for a key
    loaded,     \* loaded[m]: context and library of a loaded module
    retained,   \* retained[d]: references to the primary context of a device
    solver,     \* solver[s]: mode and device of a solver, from create to destroy
    handle,     \* handle[s]: the module s owns, alone or with others
    pc,         \* pc[t]: where a thread is in a call
    self,       \* self[t]: the solver of the call
    hash,       \* hash[t]: the library hash that t reads a path with
    built,      \* built[t]: the module that a constructor has not yet handed on
    err,        \* err[t]: g_last_error
    returned    \* returned[t]: what t's last create or launch returned

memory == <<memo, entries, loaded, retained, solver, handle>>
files  == <<installed, disk>>
frame  == <<pc, self, hash, built>>
told   == <<err, returned>>
vars   == <<files, memory, frame, told>>

\* Hashes that do not come from what a library holds.
Nameless == {Unhashed} \cup UNION {Misread[v] : v \in Library}

Hashes == {Fingerprint[v] : v \in Library} \cup Nameless

Key == {Arch[d] : d \in Device}

\* cubin_path
Path(k, h) == <<k, h>>

Fault(f) == f \in Faults
-----------------------------------------------------------------------------
\* A process starts with nothing in memory; Restart has the same equations.

Init ==
    /\ installed \in Library
    /\ disk = [p \in Key \X Hashes |-> None]
    /\ memo = [init |-> FALSE, cached |-> Unhashed]
    /\ entries = [k \in Key |-> None]
    /\ loaded = [m \in Module |-> None]
    /\ retained = [d \in Device |-> 0]
    /\ solver = [s \in Solver |-> None]
    /\ handle = [s \in Solver |-> None]
    /\ pc = [t \in Thread |-> "idle"]
    /\ self = [t \in Thread |-> None]
    /\ hash = [t \in Thread |-> Unhashed]
    /\ built = [t \in Thread |-> None]
    /\ err = [t \in Thread |-> ""]
    /\ returned = [t \in Thread |-> "done"]

Goto(t, from, to) == pc[t] = from /\ pc' = [pc EXCEPT ![t] = to]

\* The device and the key of the solver that t works on.
Dev(t) == solver[self[t]].dev
KeyOf(t) == Arch[Dev(t)]

Unified(t) == solver[self[t]].mode = "unified"

FreeModule == CHOOSE m \in Module : loaded[m] = None

Owners(m) == {s \in Solver : handle[s] = m}
-----------------------------------------------------------------------------
\* The C interface.

\* Mutant: one message for all threads.
ClearForAll(t) == [u \in Thread |-> ""]

\* clear_last_error, on the message of the calling thread.
Clear(t) == [err EXCEPT ![t] = ""]

\* References that a context has, or is about to get from a constructor.
Claims(d) == retained[d] + Cardinality({t \in Thread : pc[t] = "retain" /\ Dev(t) = d})

\* sunny_geneig_create and sunny_geneig_create_ex
Create(t, mode, d) ==
    /\ \E s \in Solver : solver[s] = None
    /\ Goto(t, "idle", "retain")
    /\ Claims(d) < MaxRetained
    /\ LET s == CHOOSE s \in Solver : solver[s] = None
       IN  /\ solver' = [solver EXCEPT ![s] = [mode |-> mode, dev |-> d, live |-> FALSE]]
           /\ self' = [self EXCEPT ![t] = s]
    /\ err' = Clear(t)
    /\ returned' = [returned EXCEPT ![t] = "pending"]
    /\ UNCHANGED <<files, memo, entries, loaded, retained, handle, hash, built>>

\* The constructor returns and create hands out the solver.
Handed(t) ==
    /\ solver' = [solver EXCEPT ![self[t]].live = TRUE]
    /\ self' = [self EXCEPT ![t] = None]
    /\ returned' = [returned EXCEPT ![t] = "done"]
    /\ UNCHANGED err

\* The constructor throws and create turns the exception into a message; neither
\* constructor has a destructor run that would release the context.
Caught(t) ==
    /\ pc' = [pc EXCEPT ![t] = "idle"]
    /\ solver' = [solver EXCEPT ![self[t]] = None]
    /\ self' = [self EXCEPT ![t] = None]
    /\ err' = [err EXCEPT ![t] = "what"]
    /\ returned' = [returned EXCEPT ![t] = "failed"]

\* sunny_geneig_launch returns with a status, and with a message unless it is OK.
\* The handle may be NULL and the batch negative, whatever solvers there are.
Launched(t, status, message) ==
    /\ pc[t] = "idle"
    /\ err' = [Clear(t) EXCEPT ![t] = message]
    /\ returned' = [returned EXCEPT ![t] = status]
    /\ UNCHANGED <<files, memory, frame>>

LaunchInvalid(t) == Launched(t, "INVALID_ARG", "argument")

\* A solver is used by threads that know it to be alive; an empty batch reaches
\* no driver.
Launch(t) == \E s \in Solver, empty \in BOOLEAN :
    /\ solver[s] # None /\ solver[s].live
    /\ \/ Launched(t, "done", "")
       \/ ~empty /\ Fault("driver") /\ Launched(t, "failed", "what")

\* sunny_geneig_destroy leaves the thread's message alone.
Destroy(t, s) ==
    /\ solver[s] # None /\ solver[s].live
    /\ Goto(t, "idle", "drop")
    /\ solver' = [solver EXCEPT ![s].live = FALSE]
    /\ self' = [self EXCEPT ![t] = s]
    /\ UNCHANGED <<files, memo, entries, loaded, retained, handle, hash, built, told>>
-----------------------------------------------------------------------------
\* Constructors.

\* Mutant: a failed constructor gives back a context it never got.
RetainFailsReleasing(t) ==
    /\ pc[t] = "retain" /\ Fault("driver")
    /\ retained' = [retained EXCEPT ![Dev(t)] = @ - 1]
    /\ Caught(t)
    /\ UNCHANGED <<files, memo, entries, loaded, handle, hash, built>>

\* cuInit, cuDeviceGet or the retain itself fails.
RetainFails(t) ==
    /\ pc[t] = "retain" /\ Fault("driver")
    /\ Caught(t)
    /\ UNCHANGED <<files, memo, entries, loaded, retained, handle, hash, built>>

\* The context becomes the thread's current one, in which its modules are loaded.
Retain(t) ==
    /\ Goto(t, "retain", IF Unified(t) THEN "lookup" ELSE "reduce")
    /\ retained' = [retained EXCEPT ![Dev(t)] = @ + 1]
    /\ UNCHANGED <<files, memo, entries, loaded, solver, handle, self, hash, built, told>>

Hit(t) ==
    /\ Goto(t, "lookup", "attribute")
    /\ entries[KeyOf(t)] # None
    /\ handle' = [handle EXCEPT ![self[t]] = entries[KeyOf(t)]]
    /\ UNCHANGED <<files, memo, entries, loaded, retained, solver, self, hash, built, told>>

Miss(t) ==
    /\ Goto(t, "lookup", "hash")
    /\ entries[KeyOf(t)] = None
    /\ UNCHANGED <<files, memory, self, hash, built, told>>

\* lib_hash_cached with init set: whatever cached holds by now.
HashKnown(t) ==
    /\ Goto(t, "hash", "disk")
    /\ memo.init
    /\ hash' = [hash EXCEPT ![t] = memo.cached]
    /\ UNCHANGED <<files, memory, self, built, told>>

\* lib_hash_cached without: init is set first, though nothing orders that store
\* for other threads before the one to cached.
HashEnter(t) ==
    /\ Goto(t, "hash", "hashing")
    /\ ~memo.init
    /\ \E seen \in BOOLEAN : memo' = [memo EXCEPT !.init = seen]
    /\ UNCHANGED <<files, entries, loaded, retained, solver, handle, self, hash, built, told>>

\* Mutant: the name of the fatbin is hashed, which every version has.
HashesOfName(v) == {Fingerprint[CHOOSE w \in Library : TRUE]}

\* The hash of v; stat or open may fail, and read too, which leaves the zeros that
\* it should replace.
HashesOf(v) == {Fingerprint[v]} \cup {h \in Misread[v] : Fault("fatbin")}

\* cached is stored; the next step reads it again to return it.
HashCompute(t) ==
    /\ Goto(t, "hashing", "hash")
    /\ \E h \in HashesOf(installed) : memo' = [init |-> TRUE, cached |-> h]
    /\ UNCHANGED <<files, entries, loaded, retained, solver, handle, self, hash, built, told>>

LoadModule(t, v) ==
    /\ \E m \in Module : loaded[m] = None
    /\ loaded' = [loaded EXCEPT ![FreeModule] = [ctx |-> Dev(t), library |-> v]]

\* try_load_disk_
DiskHit(t) ==
    /\ Goto(t, "disk", "publish")
    /\ disk[Path(KeyOf(t), hash[t])] # None
    /\ LoadModule(t, disk[Path(KeyOf(t), hash[t])])
    /\ built' = [built EXCEPT ![t] = FreeModule]
    /\ hash' = [hash EXCEPT ![t] = Unhashed]
    /\ UNCHANGED <<files, memo, entries, retained, solver, handle, self, told>>

DiskMiss(t) ==
    /\ Goto(t, "disk", "compile")
    /\ disk[Path(KeyOf(t), hash[t])] = None
    /\ hash' = [hash EXCEPT ![t] = Unhashed]
    /\ UNCHANGED <<files, memory, self, built, told>>

\* nvrtc_to_cubin links the library that is installed now.
Compile(t) ==
    /\ Goto(t, "compile", "write")
    /\ LoadModule(t, installed)
    /\ built' = [built EXCEPT ![t] = FreeModule]
    /\ UNCHANGED <<files, memo, entries, retained, solver, handle, self, hash, told>>

\* The probe, the kernel or the reduce kernel does not compile or load.
CompileFails(t) ==
    /\ pc[t] \in {"lookup", "compile", "reduce"} /\ Fault("compiler")
    /\ Caught(t)
    /\ UNCHANGED <<files, memo, entries, loaded, retained, handle, hash, built>>

\* write_disk_ asks for the path, and so for the hash, a second time.
Write(t) ==
    /\ Goto(t, "write", "publish")
    /\ disk' = [disk EXCEPT ![Path(KeyOf(t), memo.cached)] = loaded[built[t]].library]
    /\ UNCHANGED <<installed, memory, self, hash, built, told>>

Publish(t) ==
    /\ Goto(t, "publish", "attribute")
    /\ entries' = [entries EXCEPT ![KeyOf(t)] = built[t]]
    /\ handle' = [handle EXCEPT ![self[t]] = built[t]]
    /\ built' = [built EXCEPT ![t] = None]
    /\ UNCHANGED <<files, memo, loaded, retained, solver, self, hash, told>>

\* compile_reduce_kernel_: module_ is a plain CUmodule.
ReduceKernel(t) ==
    /\ Goto(t, "reduce", "libraries")
    /\ LoadModule(t, installed)
    /\ handle' = [handle EXCEPT ![self[t]] = FreeModule]
    /\ UNCHANGED <<files, memo, entries, retained, solver, self, hash, built, told>>

\* The last calls of either constructor: the kernel's attribute, or the handles
\* of the two libraries.
Finish(t) ==
    /\ \/ Goto(t, "attribute", "idle")
       \/ Goto(t, "libraries", "idle")
    /\ Handed(t)
    /\ UNCHANGED <<files, memo, entries, loaded, retained, handle, hash, built>>

\* Mutant: the last solver to come and not the last to go unloads a module.
DropUncounted(s) ==
    /\ handle' = [handle EXCEPT ![s] = None]
    /\ loaded' = [loaded EXCEPT ![handle[s]] = None]
    /\ entries' = [k \in Key |-> IF entries[k] = handle[s] THEN None ELSE entries[k]]

\* A solver's module is unloaded with its last owner, and the map's weak pointer
\* expires.  A reduce kernel has one owner.
Drop(s) ==
    /\ handle' = [handle EXCEPT ![s] = None]
    /\ IF Owners(handle[s]) = {s}
       THEN /\ loaded' = [loaded EXCEPT ![handle[s]] = None]
            /\ entries' = [k \in Key |-> IF entries[k] = handle[s] THEN None ELSE entries[k]]
       ELSE UNCHANGED <<loaded, entries>>

\* module_handle_ is a member, so it is dropped although no destructor runs.
AttributeFails(t) ==
    /\ pc[t] = "attribute" /\ Fault("driver")
    /\ Caught(t)
    /\ Drop(self[t])
    /\ UNCHANGED <<files, memo, retained, hash, built>>

\* Mutant: the failed constructor releases the context but unloads nothing.
LibrariesFailReleasing(t) ==
    /\ pc[t] = "libraries" /\ Fault("libraries")
    /\ Caught(t)
    /\ handle' = [handle EXCEPT ![self[t]] = None]
    /\ retained' = [retained EXCEPT ![Dev(t)] = @ - 1]
    /\ UNCHANGED <<files, memo, entries, loaded, hash, built>>

\* module_ is a plain CUmodule, and stays loaded.
LibrariesFail(t) ==
    /\ pc[t] = "libraries" /\ Fault("libraries")
    /\ Caught(t)
    /\ handle' = [handle EXCEPT ![self[t]] = None]
    /\ UNCHANGED <<files, memo, entries, loaded, retained, hash, built>>
-----------------------------------------------------------------------------
\* Destructors: the module first, then the context.

DropModule(t) ==
    /\ Goto(t, "drop", "release")
    /\ Drop(self[t])
    /\ UNCHANGED <<files, memo, retained, solver, self, hash, built, told>>

Release(t) ==
    /\ Goto(t, "release", "idle")
    /\ retained' = [retained EXCEPT ![Dev(t)] = @ - 1]
    /\ solver' = [solver EXCEPT ![self[t]] = None]
    /\ self' = [self EXCEPT ![t] = None]
    /\ UNCHANGED <<files, memo, entries, loaded, handle, hash, built, told>>
-----------------------------------------------------------------------------
\* The process ends, at any point, and another one starts, perhaps after another
\* library was installed.
Restart ==
    /\ installed' \in Library
    /\ memo' = [init |-> FALSE, cached |-> Unhashed]
    /\ entries' = [k \in Key |-> None]
    /\ loaded' = [m \in Module |-> None]
    /\ retained' = [d \in Device |-> 0]
    /\ solver' = [s \in Solver |-> None]
    /\ handle' = [s \in Solver |-> None]
    /\ pc' = [t \in Thread |-> "idle"]
    /\ self' = [t \in Thread |-> None]
    /\ hash' = [t \in Thread |-> Unhashed]
    /\ built' = [t \in Thread |-> None]
    /\ err' = [t \in Thread |-> ""]
    /\ returned' = [t \in Thread |-> "done"]
    /\ UNCHANGED disk

Call(t) ==
    \/ \E mode \in {"unified", "hybrid"}, d \in Device : Create(t, mode, d)
    \/ LaunchInvalid(t) \/ Launch(t)
    \/ \E s \in Solver : Destroy(t, s)

Return(t) ==
    \/ RetainFails(t) \/ Retain(t)
    \/ Hit(t) \/ Miss(t)
    \/ HashKnown(t) \/ HashEnter(t) \/ HashCompute(t)
    \/ DiskHit(t) \/ DiskMiss(t)
    \/ Compile(t) \/ CompileFails(t) \/ Write(t) \/ Publish(t)
    \/ ReduceKernel(t)
    \/ Finish(t) \/ AttributeFails(t) \/ LibrariesFail(t)
    \/ DropModule(t) \/ Release(t)

Next == Restart \/ \E t \in Thread : Call(t) \/ Return(t)

Spec == Init /\ [][Next]_vars
-----------------------------------------------------------------------------
\* Properties.

InCall == {"retain", "lookup", "hash", "hashing", "disk", "compile", "write",
           "publish", "attribute", "reduce", "libraries", "drop", "release"}

\* Type invariant.
TypeOK ==
    /\ installed \in Library
    /\ disk \in [Key \X Hashes -> Library \cup {None}]
    /\ memo \in [init : BOOLEAN, cached : Hashes]
    /\ entries \in [Key -> Module \cup {None}]
    /\ loaded \in [Module -> Loaded \cup {None}]
    /\ retained \in [Device -> 0 .. MaxRetained]
    /\ solver \in [Solver -> Object \cup {None}]
    /\ handle \in [Solver -> Module \cup {None}]
    /\ pc \in [Thread -> InCall \cup {"idle"}]
    /\ self \in [Thread -> Solver \cup {None}]
    /\ hash \in [Thread -> Hashes]
    /\ built \in [Thread -> Module \cup {None}]
    /\ err \in [Thread -> {"", "what", "argument"}]
    /\ returned \in [Thread -> {"done", "pending", "failed", "INVALID_ARG"}]

\* sunny_geneig_last_error tells a thread about its own last create or launch,
\* whatever other threads call in between and whatever the thread destroys: there
\* is a message if that call failed, and none if it did not.
StatusTold ==
    \A t \in Thread :
        /\ err[t] = "what" <=> returned[t] = "failed"
        /\ err[t] = "argument" <=> returned[t] = "INVALID_ARG"

\* No context goes while a module is loaded in it: not with the last destructor,
\* and not when constructors fail half-way.
ModulesHaveContext ==
    \A m \in Module : loaded[m] # None => retained[loaded[m].ctx] > 0

\* "Construct solver for matrix size n on device_id": a solver that has been
\* handed out has a module, loaded on the device it was created for.
OwnDevice ==
    \A s \in Solver : solver[s] # None /\ solver[s].live =>
        /\ handle[s] # None
        /\ loaded[handle[s]] # None
        /\ loaded[handle[s]].ctx = solver[s].dev

\* "a cubin compiled against an old MathDx becomes a key miss" (NVRTC_RUNTIME.md):
\* what a process runs was linked with a library that has the fingerprint of the one
\* it found installed, as long as no cubin was ever filed under a hash that names
\* no library, by a race on the memo or by a failing system call.
SameFingerprint ==
    (\A k \in Key, h \in Nameless : disk[Path(k, h)] = None) =>
        \A m \in Module : loaded[m] # None =>
            Fingerprint[loaded[m].library] = Fingerprint[installed]
=============================================================================
