# A verification of sunny_gen_eigensolver

The repository solves batches of small generalized Hermitian eigenproblems
`H x = w S x` on a GPU. Its own logic is what surrounds the vendor libraries: a
kernel that chains five cuSolverDx operators in one launch, a solver class that
compiles that kernel at run time, tunes it and keeps the result in a module cache
of two layers, a second solver that hands one stage to cuSOLVER and cuBLAS, and a
C interface over both. This directory models that logic in TLA+, checks it with
TLC on small instances and proves the central results with TLAPS.

## 1. Inventory

| Component | State it keeps | Operations | Talks to |
|---|---|---|---|
| **Module cache** (`unified_solver.cpp:320-597`) | per process: `in_process_cache_` (weak references) under a mutex; per machine: cubin files; per solver: `module_handle_` | `acquire_module_`, `try_load_disk_`, `write_disk_`, `~CachedModule` | driver, compiler, file system, other processes |
| **Cubin naming** (`:320-371`, `:422-431`) | `lib_hash_cached`, `source_hash_cached` (function statics) | `cubin_path` | the fatbin on disk |
| **Solver construction** (`:194-240`, `:927-1061`) | primary context reference, chosen BPB and block size, `autotune_cache_` | constructor, destructor, probe | module cache, autotune |
| **Autotune sweep** (`:600-925`) | scratch buffers, candidate list, timings, reference results | `autotune_block_dim_x_`, `compile_production_` | compiler, device |
| **Launch and chunked launch** (`:1063-1125`) | streams | `launch`, `launch_chunked`, `make_streams`, `destroy_streams` | device streams |
| **Fused kernel** (`kernel_source.hpp:194-277`) | shared memory `As`, `Bs`, `lambda_s`, `info` | load, five operators, write back, barriers | cuSolverDx |
| **Reduce kernel** (`reduce_kernel_source.hpp:87-134`) | shared memory `As`, `Bs` | load, three operators, write back | cuSolverDx |
| **Hybrid solver** (`hybrid_solver.cpp`) | `L_buf_`, pointer arrays, eigensolver workspace and their capacities | `ensure_capacity_`, `ensure_xsyev_workspace_`, `launch` | cuSOLVER, cuBLAS, streams |
| **C interface** (`c_api.cpp`) | thread-local last error, opaque handle | create, launch, destroy, introspection | both solvers |
| **Static N=54 kernels** (`geneig_fixed.cu`) | `attr_set` flag per wrapper | six kernels with their host wrappers | cuSolverDx |
| **Julia wrapper** (`SunnyGeneigBench.jl`) | handle with finalizer | FFI calls, chunked driver | C interface |

The parts meet as follows. A caller creates a solver through C++ or the C
interface. The constructor of the unified solver walks over candidate values of
`batches_per_block` (BPB); for each it asks the library for a block size (a
*probe*: compile, run, read two numbers back), may *autotune* it, and *acquires*
the module for the key `(n, bpb, arch, block_dim_x)`. Acquisition goes through the
in-process map, the cubin directory and the compiler, in this order. A launch then
is one kernel on the caller's stream; a chunked launch cuts the batch and goes
round robin over streams the caller owns. The hybrid solver has no cache; each of
its launches enqueues five operations and may first grow scratch memory that all
its launches share.

### What is hard, and what correct means

* **Threads and processes.** The map's lock is dropped between the miss and the
  publication, weak references are promoted while the last owner goes away, and
  processes without any lock meet in one directory. *Correct:* a solver launches a
  loaded module of its own key that fits the device; no module is unloaded under
  an owner or survives its last one; a cubin path holds nothing or a whole cubin
  that is good for its key, and what is whole stays.
* **Crashes and damaged files.** Writers are killed at any point, flushes fail
  without a word, directories are damaged from outside. *Correct:* a file that fails
  one of the three tests of `try_load_disk_` is never served, and is removed or
  replaced once it is read. The code has no checksum: altered bytes that still load
  are served, and no property here says otherwise.
* **Partial failure.** Every call of the driver, the compiler and the libraries
  may fail in the middle of a sequence. *Correct:* candidates are turned down
  one after the other until one is served or the constructor throws, the sweep's
  table stays about the kernels it names, a failed launch leaves a solved prefix,
  and a failed growth does not cost a later launch its memory.
* **Threads of a block.** Operators leave threads idle that race ahead, copy loops
  have different lengths per thread, and tiles are cut out of one buffer by offset
  arithmetic. *Correct:* no two threads meet on a location, each result is that of
  the whole pipeline, and every block ends.
* **Devices and processes.** Modules belong to contexts, cubins outlive processes
  and libraries, messages belong to threads. *Correct:* a solver runs on the device
  it was made for, no context goes before its modules, the hash in a path keeps
  cubins of different libraries apart as far as it can, and a failed call is told to
  the thread that made it.
* **Streams.** Kernels of different streams overlap, operations of one stream do
  not. *Correct:* one writer per matrix, every matrix of the batch solved, no access
  past the buffers, and every launch's result made of its own inputs.
* **Memory that outlives its owner.** The autotune memo outlives the solvers
  that fill it. *Correct:* a memoised winner ran, fits, was not seen to be wrong and is
  the fastest of its sweep, for every later solver.

## 2. Modules

| Module | Models | Role |
|---|---|---|
| `ModuleStore` | - | abstract: what a cache of modules promises, without a cache |
| `ModuleCache` | `acquire_module_`, `try_load_disk_`, `write_disk_`, `~CachedModule`, the constructor's candidate walk | detailed; implements `ModuleStore` |
| `ModuleCacheProofs`, `ModuleStoreProofs` | - | theorems about `ModuleCache`: its invariant and what solvers get; the refinement of `ModuleStore` and the files |
| `SolverProcess` | the C interface, context references, the key without a device, `lib_hash_cached`, `cubin_path`, failing constructors, destructors | composes what solvers of a process and of later processes share |
| `SolverTuning` | the constructor's probe, sweep, memo, budget check | detailed |
| `BatchSolve` | - | abstract: what a call that solves a batch promises |
| `UnifiedLaunch` | `launch`, `launch_chunked`, the fused kernel's blocks | detailed; implements `BatchSolve` |
| `FusedKernel` | the threads of a block of the fused, the reduce and the six static kernels; the static host wrappers | detailed |
| `HybridSolver` | the hybrid solver's launches and the device's streams | detailed |
| `FusedKernelProofs`, `FusedResultsProofs` | - | theorems about `FusedKernel`: its progress, types and races; what its memory holds |
| `SolverProcessProofs`, `SolverTuningProofs`, `UnifiedLaunchProofs`, `HybridSolverProofs` | - | theorems about the module of the same name |
| `MC*` | - | constants of the runs |

### ModuleCache

A solver is a thread `s` in a process `Home[s]`. `pc[s]` is its place in
`acquire_module_`; `image[s]` is the local `cubin`, `local[s]` the local
`shared_ptr`, `handle[s]` is `module_handle_`. `cache[p]` is the map of process
`p`, whose values are weak references: an entry counts as expired when no solver
owns the module, and a control block named by an expired entry is not reused
(`Fresh`). `loaded[m]` is the key the `CUmodule` was compiled for, the only thing
that the properties tell apart about it. Dropping the last reference puts the module into
`dying[s]`; its destructor, `UnloadModule`, is a step of its own, since
`~CachedModule` calls the driver after the count has reached zero and other threads
run in between. A critical section of the map's mutex that only touches the map is one
action. The one that hits is not: `module_handle_ = hit` stands inside the lock
(`unified_solver.cpp:535`), so the module of a candidate that was turned down may
be unloaded there. `LookupHit` therefore goes to `hit`, where the process's mutex is
held (`Locked`) over `UnloadModule` until `Unlock`, and nobody else looks up or
publishes in between.

A file at a cubin path holds a whole cubin (named by its key) or bytes that fail
the first, second or third check of `try_load_disk_`: `small`, `nomagic`,
`unloadable`. Bytes that were altered and pass all three are not in the model.
`LoadRejected` and `Unlink` are two steps, as in the code, and
`Unlink` removes whatever is at the path by then. Writing is `OpenTmp`,
`WriteTmp`, `Rename`, each with its failure; `WriteLosesTail` is the flush that
fails in the destructor of the stream, which nobody checks.

What may go wrong is the constant `Faults`: `compiler` (compilation throws),
`driver` (the module does not load), `io`, `flush`, `crash` (`Crash(p)` takes all threads
and memory of a process, not its files), `corrupt` (something outside damages a
file). Deliberately not told apart: how often a walk meets the same key, the
contents of the log, environment variables behind `cache_dir`.

`ModuleStore` says in ten actions what a solver may expect: the keys that may
still serve it, the modules it keeps alive, the one it is served. `ImplementsStore`
maps `Range(todo)`, the owned references, the live handle and `loaded` to these, and
`Together`, the sets of solvers that may die at once, to the processes if they may be killed.
Every step of the cache is then one of the store's or a stutter: nothing can be
shared that nobody holds, unloaded while held, served for a wrong key, and no
constructor gives up while a candidate is left.

### SolverProcess

`ModuleCache` has the cache's own steps for one device; here `acquire_module_` is
cut to those that read or write what others see, and `n`, BPB and block size are the
same for all, so that a key is an architecture. A thread `t` of the C interface
is at `pc[t]`; `self[t]` is the solver it constructs or destroys, `err[t]` is
`g_last_error`, `returned[t]` the status of its last create or launch. `retained[d]`
counts references to a primary context, `loaded[m]` says in which context a module is
and which library is linked into it. `memo` is the pair of statics in
`lib_hash_cached`; `HashEnter` chooses whether other threads see `init` before
`cached` is written, since nothing orders the two stores for them. `disk` survives `Restart`, which
ends the process at any point and may bring another library. A constructor may throw
after each of its calls (`RetainFails`, `CompileFails`, `AttributeFails`,
`LibrariesFail`), and what it leaves is what the code leaves: the context
reference always, the hybrid solver's module as well.

`Fingerprint[v]` is what `lib_hash_cached` makes of the first eight bytes and the size of
library `v`, any function: two libraries may have the same one. If stat, open or read fails,
the hash is one of `Misread[v]` instead (fault `fatbin`), and a thread that
comes while another one is hashing reads `Unhashed`. These are the hashes that name no
library (`Nameless`). `SameFingerprint` says that there is no other way past a
fingerprint: unless a cubin was filed under one of them, every loaded module is
linked with a library of the fingerprint that the process found. Any number of threads may
create unified solvers; they race on the memo.

`docs/NVRTC_RUNTIME.md:293-296` promises more, that a cubin compiled against an old MathDx
is a key miss. The code keeps this only as far as three things allow: two
libraries of one fingerprint share their cubins; a hash that could not be computed is one
constant for all libraries; and a thread that reads the memo too early files its
cubin under `Unhashed`, where a later process, with another library and the same
race, finds it. `SameFingerprint` is the part that holds, its condition is the rest.

Given are that the library is replaced between processes only, and that a launch may
fail or not (`cuLaunchKernel` runs in whatever context is current in the thread).

### SolverTuning

One thread builds solvers one after the other (`MaxBuilds`) in one process. What
the compiler and the device make of a kernel `<<bpb, dim>>` is not known in advance:
`size` and `quality` are chosen when it is first loaded or run, and stay. The sweep
takes the candidates in ascending order (the code's sorted list), each either
rejected, over the limit, or measured: one row `[dim, of, correct, mps]`, where
`of` is the kernel that was really loaded. Then `ConsiderRow` is one turn of the loop
over the results (`:901-909`), with its strict comparison `Beats` and the winner
so far, and `Pick` takes what the loop ends with. `memo` is `autotune_cache_`. Timing is
one number per row, since only its order matters.

What a kernel computes is compared with the output of the suggested one, `right`.
`Validates` is what the comparison can tell: it takes eight matrices, folds with
`std::max`, which drops NaN, and checks the phase on one side only, so the qualities in
`Unseen` pass. `output` is what the device buffers hold: they are not cleared
between candidates and `info` is not read, so a kernel that ends without a word
(`silent`) is judged by the output of the one before. `NoWrongMemo` accordingly says
only that a memoised kernel was not seen to be wrong. The module cache appears as what `ModuleCache` shows of it: the
module acquired is that of its key.

### UnifiedLaunch

The host loop with `offset` and `chunkIdx`; per stream a queue of kernels
`[first, count]`; per block of a running kernel how far it is. A block touches
global memory at three points, which are its three steps: `Factor` (potrf writes
`info`), `Solve` (heev writes `info`), `WriteBack`. Blocks of running kernels take
their steps in any order. `Tile` is the address arithmetic of the kernel, which
looks at `batch_size` once per block and not per matrix. `LaunchAssumption` is the
documented contract that totals and chunks are multiples of BPB.

`BatchSolve` takes matrices on in order, solves what it has taken on in any order,
and returns only when it has taken on all; it may throw at any point before. In
`ImplementsBatch`, `accepted` is `offset`, `solved` the matrices that a
block has written back, and the outcome is the state of the call. That a failed launch leaves a
solved prefix, and that every matrix is solved otherwise, are both in it.

### FusedKernel

A kernel is a list of statements: copy loops, operators, `__syncthreads`. Every thread
is at a statement `pc[t]` with a loop variable `idx[t]` and takes one element
per step. An operator has a crew, the threads that the library puts to work: each
reads the operands and, when all of its crew have, writes its share of the result; threads outside the crew
run ahead (the code records an experiment about that at `kernel_source.hpp:254-266`).
What the crews are is the library's business, so `Crews` lists several. A barrier lets
a thread go when all have reached it. Shared memory is counted in cells of eight bytes, with
the code's offsets and rounding, so that tiles really may overlap; a cell holds
a symbolic value (`S`, `L`, `M`, `V`...), and a tile read in a mixed state is
`torn`. `NoRace` compares what two threads may touch next. The eight kernels are
sequences of the same few stages, as in the source; `finish_n54` starts from `L`
and `M` and skips the first two. A static wrapper is `TestFlag`, `SetAttribute`,
`MarkSet`, `LaunchBlock` on each host thread, one flag between them.

Two things the code does are recorded as they are: the eigensolver's verdict
replaces the Cholesky stage's in `info` (`kernel_source.hpp:250-253`), and the reduce kernels
write the tile of `L` with whatever is above the diagonal (`Expected`).

### HybridSolver

One host thread and the device. A call of `launch` is a walk through `growL`,
`growPtrs`, `growWs` (each: enough, grown, or failed half-way) and the five
operations `reduce`, `eig`, `copyL`, `copyU`, `trsm`, which are appended to streams
and run later. A scratch buffer is a sequence of slots that say which call
wrote them; `base` names the allocation behind `L_buf_`, so a stale pointer in
`lptrs` is seen as one. `cap` is what the code believes of the sizes, kept apart
from the real lengths. The eigensolver's workspace has a third number, `xsyev_ws_gpu_bytes_`
(`ws`): if its host part could not be resized the device part may be larger than `cap.ws`, and
`GrowGpuWs` keeps it, without a free and so without waiting. `ThrowFrom` is any of the checks
that end a call with an exception. An operation that names memory that is not there
faults the context (`FaultOn`), as on a device. The constructor's own calls are in `SolverProcess`.

## 3. Runs

State counts are of distinct states. Modules (control blocks) are symmetric in all
cache runs without liveness, streams in the hybrid runs without. Deadlock is checked in the
cache runs and in `process_*`; the other systems stop when their bound on calls is reached.

| Run | Instance | States | What it shows |
|---|---|---|---|
| `cache_candidates` | 2 solvers, 1 process, 6 modules, all modes, requests `<<kSmall>>` and `<<kBig, kSmall>>`; compiler and driver refuse, file operations fail, the process is killed | 126 406 | sharing and replacement under every interleaving of two constructions and destructions; a module is served right, never used after its unload, private with `NoCache`; a killed or failing writer leaves no partial cubin, a living one no temporary file; the refinement |
| `cache_live` | 2 solvers, 1 process, fair threads, files damaged at the start and at any time, lost flushes, a compiler and a driver that refuse | 43 152 | the inductive invariant however the files are damaged, if one of the three tests can tell; constructions end, unowned modules are unloaded, damaged cubins that are read go away |
| `process_restarts` | 2 threads, 2 solvers of either kind, 1 device, 2 libraries, failing calls everywhere, restarts | 3 765 744 | messages stay with their thread, modules with their context, solvers have a module of their own; two threads race for the memo of the hash, and there is no way past a fingerprint but the ones in section 2 |
| `hybrid_faults` | 3 launches of 1 or 2 matrices, 2 streams joined by the caller, failures of memory, library, convergence | 466 881 | each delivered launch holds its own result; growth waits for queued work; retrying the largest batch is safe; every launch comes to its end |
| `tuning_sweeps` | 3 constructions, walks `<<4, 2, 1>>` and `<<1>>`, suggestions 50, 1024, 48, compilers and launches that fail, candidates too big, wrong or silent | 1 920 844 | the table, the memo and the launch state stay about the same kernel; the loop over the results ends with the fastest correct row, the smallest of equals |
| `launch_chunks` | BPB 2, 3 streams, totals up to 10, chunks up to 6, launches that fail | 10 429 | one writer per matrix, nothing outside the batch, and the promise of `BatchSolve`: a solved prefix after a failure, all solved without one |
| `kernel_threads` | 8 kernels, N = 2, BPB 2 (1 in static kernels), 3 threads, 4 ways to share the operators, 2 host threads, an attribute that is refused | 95 394 | no data race, the factor survives, results and verdicts as the pipeline promises, launches only on a set attribute, no block hangs |

Why the bounds are enough to be interesting:

* Two solvers on one key reach each race of the map: a miss of both, a promotion
  beside a destruction, two publications, an expired entry. `kBig` does not fit the
  device, so the automatic request acquires, publishes and turns down a module
  before it takes the next; another solver may share the rejected one. Six modules are
  as many control blocks as two solvers can own or leave named by expired
  entries, so that `Fresh` never blocks.
* A file that a writer is killed over needs a reader afterwards: in `cache_candidates` the
  process starts again after `Crash`, with its directory. Two processes in one directory
  are in `cache_unlink`, and in the proofs, which are about any number of them.
* The three launches of `hybrid_faults` are one that grows, one that fails while it grows
  again, and one that meets what was left. Two batch sizes make
  `B < cap`, `B = cap` and `B > cap` happen.
* Three threads are a thread that runs ahead, one that works and one that waits; with
  N = 2 and BPB 2 copy loops take a different number of steps per thread (8 elements,
  4 eigenvalues), and every region of shared memory has a neighbour it could run into.
* Two solvers are one that owns a module and one that fails beside it, comes after
  it or finds it in the map; two threads are one that fails while the
  other reads its message, or that reads the memo while the other computes it.
  `MaxRetained` 3 lets a failed constructor's reference stay while two other solvers
  come and go. There is one device in `process_restarts`, two of one architecture are in
  `process_twins`, and any devices of different architectures in the proofs.
* The suggestion 50 yields no candidate for N = 54 (all are below N, above the limit or not
  whole warps); 1024 has candidates at the limit and is one of its own
  candidates; 48 has one candidate that is not the suggestion. The second and third
  constructions meet the memo of the first.
* Totals and chunks reach: nothing to do, one chunk, equal chunks, a short last
  chunk, more chunks than streams (two kernels queued in one stream).

Every property of these runs has a mutant of the model, recorded in
`PROJECT.json`, under which it fails: a dropped count, a guard, a reset, an order.
Mutants stand before the definition they change, under a comment that begins
with "Mutant".

### Disagreements between code and documentation

Five runs end in a counterexample, each of a sentence in the repository:

| Run | Property | What happens |
|---|---|---|
| `cache_unlink` | `GoodCubinStays` | `docs/NVRTC_RUNTIME.md:346` says that a reader unlinks "the bad file". Two processes find the same damaged cubin; one removes it, compiles and renames a whole cubin into its place; the other one then removes that, because `std::remove` goes by path. The cost is a compilation, never a wrong module (`ServedModule`). `CubinsStayWhole` in section 5 says what holds: a path that is empty or whole never gets to hold anything else. |
| `hybrid_shrink` | `ScratchCovers` | `L_buf_` is freed, the larger allocation fails, `L_buf_capacity_` keeps its value: a smaller launch after that skips the allocation and passes a null pointer. `LargestBatchCovered` says which retry is safe. |
| `hybrid_streams` | `ChunkedAsSingle` | Two launches on two streams share `L_buf_` and the pointer arrays. The chunked driver of the Julia wrapper accepts a hybrid solver. |
| `tuning_nan` | `MemoIsValidated` | A candidate whose output is not a number passes validation: `std::max(acc, NaN)` is `acc`. |
| `process_twins` | `OwnDevice` | With two devices of one architecture, the second solver is handed the module of the first, in the first's context: the key names no device. |

What was met besides and has no run of its own:

* `hybrid_solver.hpp:20-22` says that the infos of potrf and of the eigensolver are
  OR'd; the second overwrites the first (`hybrid_solver.cpp:360`, `RunEig` with the
  fault `indefinite`).
* `docs/NVRTC_RUNTIME.md:293-296` holds as far as the fingerprint of the library tells it
  apart and the memo race of `unified_solver.cpp:340` does not happen (SolverProcess, section 2).
* `geneig_fixed.cu:499-515` describes an `L` with a zeroed strict upper triangle; the
  reduce kernels leave what `S` had there. Only the lower triangle is read afterwards.
* `unified_solver.hpp:7` speaks of a 2 KB safety margin, `kSafetyMarginBytes` is 0.

## 4. Fairness

`FairSpec` of `ModuleCache` is weak fairness of `Acquire(s)` and `UnloadModule(s)` for
each solver: the operating system schedules every thread, and calls of the driver,
compiler and file system return. The map's mutex is held over a call of the driver when a
hit drops the last reference to another module (`hit`). With the two solvers of the
run weak fairness is enough all the same: a hit shares a module that the other solver
owns, and a solver that waits for the mutex owns none that the map can give. With more
solvers a thread could be overtaken for ever, and `std::mutex` does not promise that it is not;
the liveness properties say nothing about that. Nobody is obliged to construct or destroy
a solver, nor does any fault have to happen.

`FairSpec` of `UnifiedLaunch` is weak fairness of the host thread and of each stream:
a device works through each of its streams, and `Run(s)` is enabled until the stream
is empty. It does not favour blocks: `Run(s)` as a whole is fair, and blocks of a
kernel have finitely many steps. `Progress` of `BatchSolve` follows from it.

`FairSpec` of `HybridSolver` is the same: the host thread goes on with a call it has
entered (nobody has to enter one), and the device works through every stream, so that
a free that waits for the device comes back.

`FairSpec` of `FusedKernel` is weak fairness of each host thread and of each thread of
a block: threads of a resident block are scheduled independently, and `__syncthreads`
waits only for threads of the block.

`SolverProcess` and `SolverTuning` state safety only.

## 5. Proofs

Each detailed module has a module of theorems beside it (two for `ModuleCache` and
`FusedKernel`), which extends it and proves, for all values of its constants that satisfy its assumption, what the runs
check on one instance. Each has an inductive invariant, a conjunction of named parts
with one lemma per part (in it one step per action that may disturb the part), and
then its theorems. The prover's reach decided where the work went: a theorem is about
any number of solvers, threads, launches, matrices and cells, and no fault in
`Faults` is assumed away unless the table says so.

| Module | Theorem | Says | Assumes, beside the module's assumption |
|---|---|---|---|
| `ModuleCacheProofs` | `CacheInvariant` | `Spec => []CacheInv` | |
| | `TypeCorrect` | `TypeOK` | |
| | `ServedModuleCorrect` | `ServedModule` | |
| | `LifetimeCorrect` | `NoUseAfterUnload /\ NoLeakedModule` | |
| | `EntriesCorrect` | `EntryMatchesKey` | |
| `ModuleStoreProofs` | `CacheImplementsStore` | `ImplementsStore` | |
| | `NoCacheStaysPrivate` | `NoCacheIsPrivate` | |
| | `NoTmpStays` | `NoTmpLeftBehind` | |
| | `CubinsStayWhole` | `WholeStays` | `OnlyWriters` |
| | `CubinsAreWhole` | `NoPartialCubin` | `OnlyWriters`, a directory that is empty at first |
| `SolverProcessProofs` | `ProcessInvariant` | `Spec => []ProcessInv` | |
| | `ProcessTypeCorrect` | `TypeOK` | |
| | `StatusToldCorrect` | `StatusTold` | |
| | `ContextsCorrect` | `ModulesHaveContext` | `OneDevicePerArch` |
| | `DevicesCorrect` | `OwnDevice` | `OneDevicePerArch` |
| | `CubinsCorrect` | `SameFingerprint` | |
| `SolverTuningProofs` | `TuneInvariant` | `Spec => []TuneInv` | |
| | `TuneTypeCorrect` | `TypeOK` | |
| | `RowsCorrect` | `RowsNameTheirKernel` | |
| | `LaunchStateCorrect` | `LaunchStateConsistent` | |
| | `MemoCorrect` | `NoWrongMemo` | |
| | `WinnerFound` | `Spec => []FoundIfAny` | |
| | `WinnerCorrect` | `WinnerIsFastest` | |
| `UnifiedLaunchProofs` | `LaunchInvariant` | `Spec => []LaunchInv` | |
| | `LaunchTypeCorrect` | `TypeOK` | |
| | `LaunchInBounds` | `InBounds` | |
| | `LaunchOneWriter` | `OneWriter` | |
| | `LaunchImplementsBatch` | the safety part of `ImplementsBatch` | |
| `FusedKernelProofs` | `BlockInvariant` | `Spec => []BlockInv` | |
| | `BlockTypeCorrect` | `TypeOK` | |
| | `BlockHasNoRace` | `NoRace` | |
| | `LaunchAfterAttribute` | `RejectedOnlyIfRefused` | |
| | `BlockNeverStuck` | `Spec => []NeverStuck` | |
| `FusedResultsProofs` | `BlockComputes` | `Spec => []FlowInv` | |
| | `BlockKeepsFactor` | `FactorSurvives` | |
| | `BlockDeliversResults` | `ResultsDelivered` | |
| `HybridSolverProofs` | `HybridInvariant` | `Spec => []HybridInv` | |
| | `HybridTypeCorrect` | `TypeOK` | |
| | `LargestBatchHasMemory` | `LargestBatchCovered` | |
| | `ScratchIsHeld` | `ScratchStays` | |
| | `DestroyWaits` | `NothingAfterDestroy` | |
| | `OrderInvariant` | `Spec => []OrderInv` | `Serial` |
| | `ResultsAreOwn` | `ResultOwn` | `Serial` |
| | `VerdictsAreOwn` | `XsyevFailureTold` | `Serial` |
| | `NoRaceOnScratch` | `NoScratchRace` | `Serial` |

Every hypothesis marks where the code itself stops keeping the promise:

* `OneDevicePerArch`: no two devices have the same architecture. The map's key names
  no device, and `process_twins` shows the failure of `OwnDevice` with two.
* `Serial`: the caller joins a stream before it uses another. `hybrid_streams` shows the
  failure without.
* `OnlyWriters`: nothing outside damages a file, and flushes succeed. Writers may be
  killed and fail anywhere, readers may remove what they like, and the driver may refuse what
  it is given; `CubinsStayWhole` also takes any damage at the start. A lost flush is
  renamed over a whole cubin, since nobody looks at its error. What is *served* needs no
  such hypothesis (`ServedModuleCorrect`).

The property of `cache_unlink`, that a whole cubin is never removed, is no theorem: it is false
as soon as a reader can reach `Unlink` beside a writer.

### The cache

None of the properties is inductive. `ServedModule` speaks of live solvers; to
keep it one has to know what a constructor has in hand on its way there.
`CacheInv` adds

* `ThreadInv`: what each location says about the local variables (the bytes to be
  renamed are those of the current key, a `shared_ptr` is held from the load on);
* `FileInv`: a cubin path holds the cubin of its own key if it holds one, the
  reason why a file read at `read` may be trusted at `load`;
* `ServedInv`: each module in hand is that of the current key;
* `NoUseAfterUnload`, `NoLeakedModule`, `DyingInv`: a module is loaded exactly as
  long as it is owned or in one destructor. These need each other: `Fresh` may
  reuse a control block only because no destructor is still running on it;
* `HomeInv`: modules are shared inside a process only, without which a crash
  would drop a reference that another process counts on;
* `EntryMatchesKey`: an entry that can still be promoted is right.

Two facts that many actions share are lemmas of their own: `RefsKept` (a step that
changes no reference) and `SetHandleStep` (an assignment to `module_handle_`, which
may start a destructor).

The refinement is on top of it. `Seen` and `Unseen` say what the store sees of a step
of one solver, `StoreActions` what each action of the store asks for in these terms, and
`SolverMoves` assigns each action of the cache its action of the store: publication of
somebody else's module is `Share`, a fresh one is `Load`, and so on; with `CacheInv`
for the guards. `PrivateInv` keeps a `NoCache` solver at the places such a construction
can be and its module out of all maps. `RenamesWhole` says that what is about to be renamed
is whole, which is all that `CubinsStayWhole` and `CubinsAreWhole` need.

### Processes, contexts, libraries

`ProcessInv` has five parts: a solver is in the hands of one thread at most (`SelfInv`), each
place in a call fixes what the solver has by then (`PhaseInv`, `HandleInv`), a module that
anybody names is loaded, in a context of the right architecture, and a reduce
kernel belongs to its solver alone (`ModuleInv`), and `RefInv`: the reference count
of a context is at least the number of solvers that have retained it and not yet
released it plus the number of modules that failed constructors left behind. The last
one is what makes `ModulesHaveContext` true: a failed constructor leaks its
reference and its module together, and with one device per architecture a module is in
the context of every solver that owns it. `StatusTold` is inductive together with
`ProcessInv`. `HashInv` says that paths, cubins, the memo and the hash a thread reads with
agree on the fingerprint, except where a hash is `Nameless`.

### Tuning

`StageInv` says what is chosen and loaded in each stage of a construction, `RowsInv` that each
row belongs to its kernel and that a correct one was not seen to be wrong, `MemoInv` the same of
what is memoised. What makes it inductive is that the compiler and the device do not
change their minds: `SizesStay` and `QualitiesStay`, the content of `WorldStep`.

`WinnerIsFastest` is not in the guard of `Pick`, which only asks that the loop is
through and `winner` is set. It follows from an invariant of the loop, that among the rows before
`next` the winner is correct, none is faster, and none that is as fast comes before it, together
with the order of the rows: `Ascending`, since the sweep goes through a sorted list. Either alone
is not enough: with `>=` in place of `>`, or an unsorted list, the larger of two equals
wins. `FoundIfAny` says that the loop ends with a winner exactly if some row is correct, so that
a sweep which throws had none.

### Launches of the unified solver

Queued kernels are intervals of whole tiles before `offset` (`QueueInv`) and pairwise apart
(`ApartInv`). With the arithmetic of multiples of BPB (`NextMultiple`,
`DifferenceOfMultiples`) a tile never leaves its kernel's interval, which is `InBounds`; two
tiles of one kernel, or of two, never meet, which is `OneWriter`.

### Threads of a block

`Aligned` says that nobody is past a barrier that somebody has still to reach. Hence two
threads are between the same two barriers, and the proof comes down to the programs:
each of the eight is a sequence of `Barred` pieces, with a barrier at every second
statement, except that two loops that write disjoint arrays may follow each other at the end
(`Fenced`). Two threads in one copy loop touch different elements, two in one operator
write different shares, by the striding of `idx`. `HostInv` is about the wrappers:
whoever gets past the flag knows that somebody has tried to set the attribute.

`NeverStuck` is deadlock freedom without `ENABLED`: `CanGoOn` is the disjunction of the
guards in `Step`. A thread that cannot go on, at a barrier or inside a crew, waits for one
at an earlier statement (`WaitsForEarlier`); nobody is three statements behind another
thread, since of two neighbours one is a barrier, but for the stores at the end; so this
comes to an end. `Together`
says that all threads are started at once. With the fairness of section 4 `BlockEnds` is
what remains: every step raises `pc`, or leaves it and raises a loop variable or `read`.

Neither `FactorSurvives` nor `ResultsDelivered` is inductive: what a cell is to hold
depends on how far each thread has come. `Assigned(p, t, i, c)` says that thread `t` is
to write cell `c` in round `i` of statement `p`, `Past(p, t, i)` that it has, `Gives(p, i, c)`
what. `DataInv`, the core of `FlowInv`, is that a cell that has been written and not
been overwritten by a later statement holds what it was given, and that no operator has
read anything wrong (`spoiled = {}`). The two need each other: an operator gives what it
should only if it read what it should, and it did only if the cells hold what earlier
statements gave. A step that writes keeps `DataInv` for three reasons, each a lemma:
no later statement has written there yet (`NotOverwritten`, from `Aligned`), no other
thread or round of the same statement writes there (`DutiesApart`, from the striding),
and the step writes exactly what it is to write (`CopyKeepsData`, `ResultsKeepData`). That a
reader finds its operands (`ReaderFinds`) takes more: all earlier writers are done
(`EverybodyPast`), and nobody in the reader's own operator has begun to write, which is
`CrewInv`: no thread leaves an operator it works in before the whole crew has read.
`StartInv` is for the launch, where every loop starts at the thread's number. Which
statements write to which area of shared memory, and that they leave no element
out, is shown once for the eight programs (`Positions`, `WhoWrites`, `Writers`) from the
layout of the buffer (`ShareAreas`); there the offsets of `Bs`, `lambda_s` and
the workspace matter. Only what no statement overwrites is left for the theorems: nothing
after `potrf` writes the triangle of `As`, and no array is stored twice (`StoredOnce`).

### The hybrid solver

`HybridInv` needs no assumption about the caller: places of a call (`CallInv`), what is queued
belongs to calls that were entered (`QueueInv`), and `CapInv`: a recorded capacity is covered
by its buffer, or is less than the largest batch seen, which is why retrying
the largest batch is safe and a smaller one is not. `ScratchIsHeld` and `DestroyWaits`
follow since every free of a buffer that exists waits for the device, and what is queued
for one that does not exist cannot run. `OrderInv` is about callers that join: one stream
at most has work (`SerialInv`); the operations of a call stand one behind the other
(`ChainInv`); the device is ready for the operation in turn, that is, the scratch memory
holds what its own call wrote (`HeadInv`); and once the queue is empty it is ready for
what the host enqueues next (`HostInv`). `ResultInv` then says what is delivered. A launch
that grows a buffer waits until the queue is empty, so the content that it throws away is
nobody's.

### Left to TLC

* Liveness, out of the prover's reach: `ConstructionEnds`, `UnownedIsUnloaded`,
  `DamagedCubinGoes`, `LaunchCompletes`, `BlockEnds`, and `Progress` in `ImplementsBatch`.
* The violated properties, which are false.

## 6. Not modelled

* **Arithmetic.** What the operators compute, their tolerances, and timing.
* **`cache_dir` and `source_hash_cached`.** The first reads environment variables, the second
  memoises the hash of a constant in the way of `lib_hash_cached`: whoever reads it
  early files a cubin that no other process looks for.
* **Which context is current** in a thread that launches (`unified_solver.cpp:939`),
  and with it what a launch from another thread does: the driver decides.
* **The sweep's device buffers**, which a throwing sweep leaves allocated, and `make_streams`.
* **Launches beside destruction** in the unified solver: what unloading a module
  does to a queued kernel is the driver's matter and no document says what to expect.
* **Julia wrapper**, except for its use of streams; introspection in the C interface.
* **`autotune_cache_` under threads**: it has no lock; two tuned constructions at the
  same time are undefined behaviour without a set of outcomes to choose from, and
  `SolverTuning` has one thread.
* **The `int` width of batch arithmetic**: batches near `INT_MAX` fit no device.
* **Vendored headers, smoke program, tests, benchmarks, scripts.**

The hazards of this code that no property covers yet are in `PROJECT.json`, each at
its line, with the reason.

## 7. Plan

Modelled as far as the source carries. Every state invariant that a passing run
checks is proved, under the assumptions of section 5, and so are the action properties;
liveness stays with TLC. What follows depends on the source: a
device in the cache's key would remove the assumption `OneDevicePerArch` and turn the run
`process_twins` into a passing one, a lock around `lib_hash_cached` would take `Unhashed` out of
`Nameless`, an unlink that looks again at what it removes would turn `cache_unlink` into a
passing run, and a validation that rejects NaN would do so with `tuning_nan`.
