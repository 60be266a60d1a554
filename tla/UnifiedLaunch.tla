----------------------------- MODULE UnifiedLaunch -----------------------------
(***************************************************************************)
(* UnifiedGeneigSolver::launch_chunked, launch, and the fused kernel: the  *)
(* host cuts a batch into chunks and enqueues a kernel for each, round     *)
(* robin over the streams; the device runs the kernels of a stream in      *)
(* order, the blocks of a kernel in any order, and every block takes       *)
(* BatchesPerBlock matrices through the five operators.                    *)
(*                                                                         *)
(* A block's steps are where it touches global memory: it loads its tile   *)
(* and factors S (potrf writes info), solves (heev writes info), and       *)
(* writes its results back.  __syncthreads between the operators makes a   *)
(* block one actor; what an operator computes is its library's affair.     *)
(* Sizes are far from the limits of int: offset + chunk_size does not      *)
(* overflow.                                                               *)
(***************************************************************************)
EXTENDS Integers, Sequences, FiniteSets, FiniteSetsExt

CONSTANTS BPB,          \* batches_per_block_
          NumStreams,   \* num_streams, which is streams.size()
          Totals,       \* total_matrices in use
          Chunks,       \* chunk_size in use
          Faults        \* "launch": cuLaunchKernel may return an error

\* kernel_source.hpp:14 and unified_solver.hpp:10: a batch is a multiple of BPB.
MultipleOfBPB(n) == n % BPB = 0

ASSUME LaunchAssumption ==
    /\ BPB \in Nat \ {0}
    /\ NumStreams \in Nat \ {0}
    /\ Totals \subseteq Nat /\ Chunks \subseteq Nat
    /\ \A n \in Totals \cup Chunks : MultipleOfBPB(n)

Stream == 0 .. NumStreams - 1

VARIABLES
    host,       \* the host thread: "idle", "loop", "returned", "threw"
    total,      \* total_matrices
    chunk,      \* chunk_size
    offset,     \* the loop variable
    chunkIdx,   \* chunk_idx
    queue,      \* queue[s]: the kernels of stream s: matrices first .. first + count - 1
    at,         \* at[s][b]: how far block b of the first kernel of s is
    solved,     \* the matrices whose W and U have been written
    info        \* info[i]: the operator that wrote info[i] last

call   == <<total, chunk>>
loop   == <<host, offset, chunkIdx>>
memory == <<solved, info>>
vars   == <<call, loop, queue, at, memory>>

\* The matrices the caller's buffers could be mistaken to have.
Index == 0 .. 2 * (Max(Totals \cup {0}) + Max(Chunks \cup {0}) + BPB)

Steps == {"waiting", "factored", "solved", "done"}

\* gridDim.x of launch.
Grid(count) == (count + BPB - 1) \div BPB

Waiting(q) == IF q = << >> THEN << >>
              ELSE [b \in 0 .. Grid(Head(q).count) - 1 |-> "waiting"]

Init == /\ host = "idle"
        /\ total \in Totals
        /\ chunk \in Chunks
        /\ offset = 0
        /\ chunkIdx = 0
        /\ queue = [s \in Stream |-> << >>]
        /\ at = [s \in Stream |-> << >>]
        /\ solved = {}
        /\ info = [i \in Index |-> "none"]
-----------------------------------------------------------------------------
\* The host.

Goto(from, to) == host = from /\ host' = to

\* Nothing to do, or arguments that cannot be.
CallReturns == /\ Goto("idle", "returned")
               /\ total <= 0
               /\ UNCHANGED <<call, offset, chunkIdx, queue, at, memory>>

CallRefused == /\ Goto("idle", "threw")
               /\ total > 0 /\ chunk <= 0
               /\ UNCHANGED <<call, offset, chunkIdx, queue, at, memory>>

CallLoops == /\ Goto("idle", "loop")
             /\ total > 0 /\ chunk > 0
             /\ UNCHANGED <<call, offset, chunkIdx, queue, at, memory>>

\* Mutant: the last chunk is as long as the others.
ChunkLengthWhole == chunk

ChunkLength == Min({chunk, total - offset})

\* Mutants: the kernel's blocks are not scheduled; chunks overlap by a matrix.
LaunchChunkUnstarted ==
    /\ Goto("loop", "loop")
    /\ offset < total
    /\ LET s == chunkIdx % NumStreams
           q == Append(queue[s], [first |-> offset, count |-> ChunkLength])
       IN  queue' = [queue EXCEPT ![s] = q]
    /\ UNCHANGED at
    /\ offset' = offset + chunk
    /\ chunkIdx' = chunkIdx + 1
    /\ UNCHANGED <<call, memory>>

LaunchChunkOverlapping ==
    /\ Goto("loop", "loop")
    /\ offset < total
    /\ LET s == chunkIdx % NumStreams
           q == Append(queue[s], [first |-> offset, count |-> ChunkLength])
       IN  /\ queue' = [queue EXCEPT ![s] = q]
           /\ at' = IF queue[s] = << >> THEN [at EXCEPT ![s] = Waiting(q)] ELSE at
    /\ offset' = offset + chunk - 1
    /\ chunkIdx' = chunkIdx + 1
    /\ UNCHANGED <<call, memory>>

\* One round of the loop: a kernel for the next chunk, on the next stream.
LaunchChunk ==
    /\ Goto("loop", "loop")
    /\ offset < total
    /\ LET s == chunkIdx % NumStreams
           q == Append(queue[s], [first |-> offset, count |-> ChunkLength])
       IN  /\ queue' = [queue EXCEPT ![s] = q]
           /\ at' = IF queue[s] = << >> THEN [at EXCEPT ![s] = Waiting(q)] ELSE at
    /\ offset' = offset + chunk
    /\ chunkIdx' = chunkIdx + 1
    /\ UNCHANGED <<call, memory>>

\* The chunks before stay enqueued, the rest is never launched.
LaunchFails == /\ "launch" \in Faults
               /\ Goto("loop", "threw")
               /\ offset < total
               /\ UNCHANGED <<call, offset, chunkIdx, queue, at, memory>>

\* Mutant: the loop stops when less than a full chunk is left.
LoopEndsEarly == /\ Goto("loop", "returned")
                 /\ offset + chunk >= total
                 /\ UNCHANGED <<call, offset, chunkIdx, queue, at, memory>>

LoopEnds == /\ Goto("loop", "returned")
            /\ offset >= total
            /\ UNCHANGED <<call, offset, chunkIdx, queue, at, memory>>

Host == \/ CallReturns \/ CallRefused \/ CallLoops
        \/ LaunchChunk \/ LaunchFails \/ LoopEnds

-----------------------------------------------------------------------------
\* The device.

\* The matrices of block b of kernel k: all of its BPB, if the first one is in
\* the batch.
Tile(k, b) == IF b * BPB >= k.count THEN {}
              ELSE k.first + b * BPB .. k.first + b * BPB + BPB - 1

\* Block b of the kernel stream s is running goes one step on.
Advance(s, b, from, to) == /\ queue[s] # << >>
                           /\ at[s][b] = from
                           /\ at' = [at EXCEPT ![s][b] = to]

\* info with every entry of tile written by op.
Report(tile, op) == info' = [i \in DOMAIN info |-> IF i \in tile THEN op ELSE info[i]]

\* H and S are loaded, S is factored.
Factor(s, b) == /\ Advance(s, b, "waiting", "factored")
                /\ Report(Tile(Head(queue[s]), b), "potrf")
                /\ UNCHANGED <<call, loop, queue, solved>>

\* Two triangular solves, the eigensolver, and the back-transform.
Solve(s, b) == /\ Advance(s, b, "factored", "solved")
               /\ Report(Tile(Head(queue[s]), b), "heev")
               /\ UNCHANGED <<call, loop, queue, solved>>

WriteBack(s, b) == /\ Advance(s, b, "solved", "done")
                   /\ solved' = solved \cup Tile(Head(queue[s]), b)
                   /\ UNCHANGED <<call, loop, queue, info>>

\* All blocks are done: the kernel leaves the stream.
KernelEnds(s) ==
    /\ queue[s] # << >>
    /\ \A b \in DOMAIN at[s] : at[s][b] = "done"
    /\ queue' = [queue EXCEPT ![s] = Tail(@)]
    /\ at' = [at EXCEPT ![s] = Waiting(Tail(queue[s]))]
    /\ UNCHANGED <<call, loop, memory>>

Run(s) == \/ KernelEnds(s)
          \/ \E b \in DOMAIN at[s] : Factor(s, b) \/ Solve(s, b) \/ WriteBack(s, b)

Next == Host \/ \E s \in Stream : Run(s)

Spec == Init /\ [][Next]_vars

\* The host thread runs, and the device works through every stream.
FairSpec == Spec /\ WF_vars(Host) /\ \A s \in Stream : WF_vars(Run(s))

-----------------------------------------------------------------------------
\* Properties.

Kernel == [first : Nat, count : Nat \ {0}]

\* Type invariant.
TypeOK ==
    /\ host \in {"idle", "loop", "returned", "threw"}
    /\ total \in Totals /\ chunk \in Chunks
    /\ offset \in Nat /\ chunkIdx \in Nat
    /\ queue \in [Stream -> Seq(Kernel)]
    /\ \A s \in Stream :
          IF queue[s] = << >> THEN at[s] = << >>
          ELSE at[s] \in [0 .. Grid(Head(queue[s]).count) - 1 -> Steps]
    /\ solved \subseteq Nat
    /\ info \in [Index -> {"none", "potrf", "heev"}]

Kernels(s) == {queue[s][i] : i \in DOMAIN queue[s]}

Blocks(k) == 0 .. Grid(k.count) - 1

\* The caller's buffers hold total matrices: no block of any kernel reaches
\* past them, now or later.
InBounds == \A s \in Stream : \A k \in Kernels(s) : \A b \in Blocks(k) :
               Tile(k, b) \subseteq 0 .. total - 1

\* The streams are never synchronised with each other, so no two blocks, of one
\* kernel or of two, may write the same matrix.
OneWriter ==
    \A s, t \in Stream : \A k \in Kernels(s), l \in Kernels(t) :
       \A b \in Blocks(k), c \in Blocks(l) :
          <<s, k, b>> # <<t, l, c>> => Tile(k, b) \cap Tile(l, c) = {}

\* The batch as its caller sees it.
Batch == INSTANCE BatchSolve WITH
             size <- total,
             accepted <- Min({offset, total}),
             outcome <- IF host \in {"idle", "loop"} THEN "open" ELSE host

\* Chunks, streams and blocks are invisible: the call takes the batch on in
\* order and returns or throws, and every matrix before the chunk that failed, if
\* one did, is solved in the end and no other is touched.
ImplementsBatch == Batch!BatchSpec
=============================================================================
