----------------------------- MODULE HybridSolver -----------------------------
(***************************************************************************)
(* HybridGeneigSolver: one solver, one host thread that calls launch, and  *)
(* a device that works through the streams behind its back.  A launch      *)
(* grows the solver's scratch memory where needed and enqueues five        *)
(* operations: the reduce kernel, the batched eigensolver, two copies that *)
(* fill the pointer arrays, and the triangular solve.  All launches share  *)
(* one set of scratch buffers.                                             *)
(*                                                                         *)
(* External: a stream runs its operations in order, operations of          *)
(* different streams run in any order; freeing device memory waits until   *)
(* the device is idle; a host-to-device copy has read its (pageable)       *)
(* source when the call returns; the eigensolver refuses a workspace that  *)
(* is too small.  An operation is atomic; that two of them could overlap   *)
(* on the same memory is what NoScratchRace is about.                      *)
(***************************************************************************)
EXTENDS Naturals, Sequences

CONSTANTS MaxLaunches,   \* bound: calls of launch
          MaxBatch,      \* bound: matrices per launch
          Stream,        \* the caller's CUDA streams
          NoStream,      \* not bound to a stream yet
          Serial,        \* TRUE: the caller joins a stream before it uses another
          Faults         \* what may go wrong: "memory" (an allocation fails),
                         \* "library" (a call returns an error), "indefinite"
                         \* (an S without a Cholesky factor), "converge"

ASSUME HybridAssumption == /\ MaxLaunches \in Nat
                           /\ MaxBatch \in Nat
                           /\ NoStream \notin Stream
                           /\ Serial \in BOOLEAN

Launch == 1 .. MaxLaunches   \* calls of launch, in order

VARIABLES
    life,     \* the solver object: "none", "live", "gone"
    step,     \* where the host thread is in launch
    cur,      \* the running call, 0 if none
    status,   \* status[l]: "free", "running", "ok" or "error" (exception)
    batch,    \* batch[l]: batch_size
    stream,   \* stream[l]: the caller's stream
    bound,    \* the stream the library handles are bound to
    maxSeen,  \* max_batch_seen_
    cap,      \* L_buf_capacity_, ptrs_capacity_, xsyev_ws_capacity_
    base,     \* L_buf_: the call that allocated it, 0 = null
    lbuf,     \* the factors in L_buf_: lbuf[i] = the call that wrote slot i
    lptrs,    \* L_ptrs_: lptrs[i] = the L_buf_ its entry points into
    uptrs,    \* U_ptrs_: uptrs[i] = the call whose d_U its entry points into
    ws,       \* xsyev_ws_gpu_bytes_, in matrices
    queue,    \* queue[s]: the operations of stream s not yet done
    out,      \* out[l]: what d_U of call l holds
    failed,   \* failed[l]: the stages that failed on a matrix of call l
    info,     \* info[l]: the failures d_info of call l tells
    dead      \* the context has faulted: every later call returns an error

caller  == <<life, cur, status, batch, stream>>
scratch == <<cap, base, lbuf, lptrs, uptrs, ws>>
result  == <<out, failed, info>>
vars    == <<caller, step, bound, maxSeen, scratch, queue, result, dead>>

Fault(f) == f \in Faults

\* Every stream has drained.
Quiet == \A s \in Stream : queue[s] = << >>

\* cuMemFree and cudaFree wait for the device, if there is something to free.
Frees(allocated) == allocated => Quiet

Init == /\ life = "none"
        /\ step = "idle"
        /\ cur = 0
        /\ status = [l \in Launch |-> "free"]
        /\ batch = [l \in Launch |-> 0]
        /\ stream = [l \in Launch |-> NoStream]
        /\ bound = NoStream
        /\ maxSeen = 0
        /\ cap = [L |-> 0, ptrs |-> 0, ws |-> 0]
        /\ base = 0
        /\ lbuf = << >> /\ lptrs = << >> /\ uptrs = << >>
        /\ ws = 0
        /\ queue = [s \in Stream |-> << >>]
        /\ out = [l \in Launch |-> "none"]
        /\ failed = [l \in Launch |-> {}]
        /\ info = [l \in Launch |-> {}]
        /\ dead = FALSE

-----------------------------------------------------------------------------
\* The object.

\* The constructor ends: context, module and library handles are there.
Construct == /\ life = "none"
             /\ life' = "live"
             /\ UNCHANGED <<cur, status, batch, stream, step, bound, maxSeen,
                            scratch, queue, result, dead>>

\* Mutant: the buffers are returned in stream order.
DestroyAsync ==
    /\ life = "live" /\ step = "idle"
    /\ life' = "gone"
    /\ base' = 0 /\ lbuf' = << >> /\ lptrs' = << >> /\ uptrs' = << >> /\ ws' = 0
    /\ UNCHANGED <<cur, status, batch, stream, step, bound, maxSeen, cap,
                   queue, result, dead>>

\* The destructor frees what is not null, then unloads the module.
Destroy ==
    /\ life = "live" /\ step = "idle"
    /\ Frees(ws # 0 \/ base # 0 \/ lptrs # << >> \/ uptrs # << >>)
    /\ life' = "gone"
    /\ base' = 0 /\ lbuf' = << >> /\ lptrs' = << >> /\ uptrs' = << >> /\ ws' = 0
    /\ UNCHANGED <<cur, status, batch, stream, step, bound, maxSeen, cap,
                   queue, result, dead>>

-----------------------------------------------------------------------------
\* Entry and exit of launch.

IsNext(l) == status[l] = "free" /\ \A k \in 1 .. l - 1 : status[k] # "free"

\* The caller's discipline: the other streams have been joined.
Joined(s) == Serial => \A t \in Stream \ {s} : queue[t] = << >>

\* batch_size <= 0: nothing happens.
LaunchNothing ==
    \E l \in Launch, s \in Stream :
       /\ life = "live" /\ step = "idle" /\ IsNext(l)
       /\ status' = [status EXCEPT ![l] = "ok"]
       /\ stream' = [stream EXCEPT ![l] = s]
       /\ UNCHANGED <<life, cur, batch, step, bound, maxSeen, scratch, queue,
                      result, dead>>

\* Mutant: the high-water mark adds the batches up.
EnterLaunchAdds ==
    \E l \in Launch, b \in 1 .. MaxBatch, s \in Stream :
       /\ life = "live" /\ step = "idle" /\ IsNext(l) /\ Joined(s)
       /\ step' = "growL"
       /\ cur' = l
       /\ status' = [status EXCEPT ![l] = "running"]
       /\ batch' = [batch EXCEPT ![l] = b]
       /\ stream' = [stream EXCEPT ![l] = s]
       /\ maxSeen' = maxSeen + b
       /\ UNCHANGED <<life, bound, scratch, queue, result, dead>>

\* The call enters ensure_capacity_, which notes the batch before anything else.
EnterLaunch ==
    \E l \in Launch, b \in 1 .. MaxBatch, s \in Stream :
       /\ life = "live" /\ step = "idle" /\ IsNext(l) /\ Joined(s)
       /\ step' = "growL"
       /\ cur' = l
       /\ status' = [status EXCEPT ![l] = "running"]
       /\ batch' = [batch EXCEPT ![l] = b]
       /\ stream' = [stream EXCEPT ![l] = s]
       /\ maxSeen' = IF b > maxSeen THEN b ELSE maxSeen
       /\ UNCHANGED <<life, bound, scratch, queue, result, dead>>

Goto(from, to) == step = from /\ step' = to

\* Mutant: the exception is swallowed, and the caller learns nothing.
ThrowFromSilently(from) ==
    /\ Goto(from, "idle")
    /\ cur' = 0
    /\ UNCHANGED <<life, status, batch, stream>>

\* An exception leaves launch.
ThrowFrom(from) ==
    /\ Goto(from, "idle")
    /\ cur' = 0
    /\ status' = [status EXCEPT ![cur] = "error"]
    /\ UNCHANGED <<life, batch, stream>>

B == batch[cur]   \* batch_size of the running call

-----------------------------------------------------------------------------
\* ensure_capacity_

KeepL ==
    /\ Goto("growL", "growPtrs")
    /\ B <= cap.L
    /\ UNCHANGED <<caller, bound, maxSeen, scratch, queue, result, dead>>

\* Mutant: the old buffer is freed in stream order, without waiting for the device.
GrowLAsync ==
    /\ Goto("growL", "growPtrs")
    /\ B > cap.L /\ ~dead
    /\ base' = cur
    /\ lbuf' = [i \in 1 .. B |-> 0]
    /\ cap' = [cap EXCEPT !.L = B]
    /\ UNCHANGED <<caller, bound, maxSeen, lptrs, uptrs, ws, queue, result, dead>>

GrowL ==
    /\ Goto("growL", "growPtrs")
    /\ B > cap.L /\ ~dead /\ Frees(base # 0)
    /\ base' = cur
    /\ lbuf' = [i \in 1 .. B |-> 0]
    /\ cap' = [cap EXCEPT !.L = B]
    /\ UNCHANGED <<caller, bound, maxSeen, lptrs, uptrs, ws, queue, result, dead>>

\* Mutant: the capacity is noted before the allocation.
GrowLFailsNoted ==
    /\ Fault("memory") \/ dead
    /\ ThrowFrom("growL")
    /\ B > cap.L /\ Frees(base # 0)
    /\ base' = 0 /\ lbuf' = << >>
    /\ cap' = [cap EXCEPT !.L = B]
    /\ UNCHANGED <<bound, maxSeen, lptrs, uptrs, ws, queue, result, dead>>

\* The old buffer is gone, the new one is not there: the capacity stays.
GrowLFails ==
    /\ Fault("memory") \/ dead
    /\ ThrowFrom("growL")
    /\ B > cap.L /\ Frees(base # 0)
    /\ base' = 0 /\ lbuf' = << >>
    /\ UNCHANGED <<bound, maxSeen, cap, lptrs, uptrs, ws, queue, result, dead>>

KeepPtrs ==
    /\ Goto("growPtrs", "growWs")
    /\ B <= cap.ptrs
    /\ UNCHANGED <<caller, bound, maxSeen, scratch, queue, result, dead>>

GrowPtrs ==
    /\ Goto("growPtrs", "growWs")
    /\ B > cap.ptrs /\ ~dead /\ Frees(lptrs # << >> \/ uptrs # << >>)
    /\ lptrs' = [i \in 1 .. B |-> 0]
    /\ uptrs' = [i \in 1 .. B |-> 0]
    /\ cap' = [cap EXCEPT !.ptrs = B]
    /\ UNCHANGED <<caller, bound, maxSeen, base, lbuf, ws, queue, result, dead>>

\* Both arrays are freed first; the first or the second allocation fails.
GrowPtrsFails ==
    /\ Fault("memory") \/ dead
    /\ ThrowFrom("growPtrs")
    /\ B > cap.ptrs /\ Frees(lptrs # << >> \/ uptrs # << >>)
    /\ lptrs' \in {<< >>, [i \in 1 .. B |-> 0]}
    /\ uptrs' = << >>
    /\ UNCHANGED <<bound, maxSeen, cap, base, lbuf, ws, queue, result, dead>>

-----------------------------------------------------------------------------
\* ensure_xsyev_workspace_ and the binding of the handles.

\* Mutant: the handles stay bound to the stream of the first launch.
KeepWsUnbound ==
    /\ Goto("growWs", "reduce")
    /\ B <= cap.ws
    /\ UNCHANGED <<caller, bound, maxSeen, scratch, queue, result, dead>>

KeepWs ==
    /\ Goto("growWs", "reduce")
    /\ B <= cap.ws
    /\ bound' = stream[cur]
    /\ UNCHANGED <<caller, maxSeen, scratch, queue, result, dead>>

\* The device part: a workspace that is too small is freed and replaced; one that
\* an earlier call left larger than the noted capacity is kept.
GrowGpuWs == IF B > ws THEN ~dead /\ Frees(ws # 0) /\ ws' = B ELSE ws' = ws

GrowWs ==
    /\ Goto("growWs", "reduce")
    /\ B > cap.ws /\ GrowGpuWs
    /\ cap' = [cap EXCEPT !.ws = B]
    /\ bound' = stream[cur]
    /\ UNCHANGED <<caller, maxSeen, base, lbuf, lptrs, uptrs, queue, result, dead>>

\* cudaMalloc fails, and the size is reset with the pointer.  The capacity stays.
GrowWsFails ==
    /\ Fault("memory") \/ dead
    /\ ThrowFrom("growWs")
    /\ B > cap.ws /\ B > ws /\ Frees(ws # 0)
    /\ ws' = 0
    /\ UNCHANGED <<bound, maxSeen, cap, base, lbuf, lptrs, uptrs, queue, result, dead>>

\* The device part is there, the host part cannot be resized.  The capacity stays.
HostWsFails ==
    /\ Fault("memory")
    /\ ThrowFrom("growWs")
    /\ B > cap.ws /\ GrowGpuWs
    /\ UNCHANGED <<bound, maxSeen, cap, base, lbuf, lptrs, uptrs, queue, result, dead>>

-----------------------------------------------------------------------------
\* The five operations of a launch, in order.

\* A call of cuSOLVER, cuBLAS or the driver returns an error.
CallFails ==
    /\ Fault("library") \/ dead
    /\ \E from \in {"growWs", "reduce", "eig", "copyL", "copyU", "trsm"} : ThrowFrom(from)
    /\ UNCHANGED <<bound, maxSeen, scratch, queue, result, dead>>

\* Append an operation of the running call to stream s.
Enqueue(from, to, s) ==
    /\ Goto(from, to)
    /\ ~dead
    /\ queue' = [queue EXCEPT ![s] = Append(@, [op |-> from, call |-> cur, base |-> base])]
    /\ UNCHANGED <<bound, maxSeen, scratch, result, dead>>

LaunchReduce == Enqueue("reduce", "eig", stream[cur]) /\ UNCHANGED caller

\* cuSOLVER looks at the size of the workspace it is given.
LaunchEig == /\ Enqueue("eig", "copyL", bound)
             /\ ws >= B
             /\ UNCHANGED caller

EigRefused == /\ ThrowFrom("eig")
              /\ ws < B
              /\ UNCHANGED <<bound, maxSeen, scratch, queue, result, dead>>

\* The driver refuses a null destination.
CopyL == /\ Enqueue("copyL", "copyU", stream[cur])
         /\ lptrs # << >>
         /\ UNCHANGED caller

CopyU == /\ Enqueue("copyU", "trsm", stream[cur])
         /\ uptrs # << >>
         /\ UNCHANGED caller

CopyRefused == /\ \/ ThrowFrom("copyL") /\ lptrs = << >>
                  \/ ThrowFrom("copyU") /\ uptrs = << >>
               /\ UNCHANGED <<bound, maxSeen, scratch, queue, result, dead>>

\* Mutant: the back-transform goes to a stream of its own.
LaunchTrsmElsewhere ==
    \E s \in Stream :
       /\ Enqueue("trsm", "idle", s)
       /\ cur' = 0
       /\ status' = [status EXCEPT ![cur] = "ok"]
       /\ UNCHANGED <<life, batch, stream>>

\* The last call of launch, which then returns.
LaunchTrsm ==
    /\ Enqueue("trsm", "idle", bound)
    /\ cur' = 0
    /\ status' = [status EXCEPT ![cur] = "ok"]
    /\ UNCHANGED <<life, batch, stream>>

HostStep == \/ KeepL \/ GrowL \/ GrowLFails
            \/ KeepPtrs \/ GrowPtrs \/ GrowPtrsFails
            \/ KeepWs \/ GrowWs \/ GrowWsFails \/ HostWsFails
            \/ LaunchReduce \/ LaunchEig \/ EigRefused
            \/ CopyL \/ CopyU \/ CopyRefused \/ LaunchTrsm
            \/ CallFails

-----------------------------------------------------------------------------
\* The device.

\* The buffers an operation names are there and large enough.
Valid(o) ==
    LET b == batch[o.call]
    IN  CASE o.op = "reduce" -> o.base # 0 /\ o.base = base /\ b <= Len(lbuf)
          [] o.op = "eig"    -> b <= ws
          [] o.op = "copyL"  -> b <= Len(lptrs)
          [] o.op = "copyU"  -> b <= Len(uptrs)
          [] o.op = "trsm"   -> b <= Len(lptrs) /\ b <= Len(uptrs)

\* buf with its first b slots set to v.
Fill(buf, b, v) == [i \in DOMAIN buf |-> IF i <= b THEN v ELSE buf[i]]

\* Op o is the next operation of stream s, and it can run.
Starts(s, op) == /\ queue[s] # << >>
                 /\ Head(queue[s]).op = op
                 /\ Valid(Head(queue[s]))
                 /\ queue' = [queue EXCEPT ![s] = Tail(@)]

\* geneig_reduce_kernel: the factor to L_buf_, M to d_U, potrf's info to d_info.
RunReduce(s) ==
    /\ Starts(s, "reduce")
    /\ LET l == Head(queue[s]).call
       IN  /\ lbuf' = Fill(lbuf, batch[l], l)
           /\ out' = [out EXCEPT ![l] = "M"]
           /\ \E f \in {{}} \cup (IF Fault("indefinite") THEN {{"potrf"}} ELSE {}) :
                 /\ failed' = [failed EXCEPT ![l] = f]
                 /\ info' = [info EXCEPT ![l] = f]
    /\ UNCHANGED <<caller, step, bound, maxSeen, cap, base, lptrs, uptrs, ws, dead>>

\* Mutant: the info of the eigensolver stays in a scratch buffer.
RunEigScratchInfo(s) ==
    /\ Starts(s, "eig")
    /\ LET l == Head(queue[s]).call
       IN  /\ out' = [out EXCEPT ![l] = IF @ = "M" THEN "V" ELSE "junk"]
           /\ \E f \in {{}} \cup (IF Fault("converge") THEN {{"xsyev"}} ELSE {}) :
                 failed' = [failed EXCEPT ![l] = @ \cup f]
    /\ UNCHANGED <<caller, step, bound, maxSeen, scratch, info, dead>>

\* cusolverDnXsyevBatched: eigenvectors of M over M, its info over d_info.
RunEig(s) ==
    /\ Starts(s, "eig")
    /\ LET l == Head(queue[s]).call
       IN  /\ out' = [out EXCEPT ![l] = IF @ = "M" THEN "V" ELSE "junk"]
           /\ \E f \in {{}} \cup (IF Fault("converge") THEN {{"xsyev"}} ELSE {}) :
                 /\ failed' = [failed EXCEPT ![l] = @ \cup f]
                 /\ info' = [info EXCEPT ![l] = f]
    /\ UNCHANGED <<caller, step, bound, maxSeen, scratch, dead>>

RunCopyL(s) ==
    /\ Starts(s, "copyL")
    /\ LET o == Head(queue[s]) IN lptrs' = Fill(lptrs, batch[o.call], o.base)
    /\ UNCHANGED <<caller, step, bound, maxSeen, cap, base, lbuf, uptrs, ws,
                   result, dead>>

RunCopyU(s) ==
    /\ Starts(s, "copyU")
    /\ LET o == Head(queue[s]) IN uptrs' = Fill(uptrs, batch[o.call], o.call)
    /\ UNCHANGED <<caller, step, bound, maxSeen, cap, base, lbuf, lptrs, ws,
                   result, dead>>

\* cublasZtrsmBatched reads both pointer arrays: it turns the matrix uptrs[i]
\* names by the factor lptrs[i] names.  What it should do for call l:
BackTransforms(l) == /\ out[l] = "V"
                     /\ \A i \in 1 .. batch[l] : /\ uptrs[i] = l
                                                 /\ lptrs[i] = base
                                                 /\ lbuf[i] = l

RunTrsm(s) ==
    /\ Starts(s, "trsm")
    /\ LET l == Head(queue[s]).call
           touched == {l} \cup {uptrs[i] : i \in 1 .. batch[l]}
       IN  out' = [k \in Launch |-> IF k \notin touched THEN out[k]
                                    ELSE IF k = l /\ BackTransforms(l) THEN "U"
                                    ELSE "junk"]
    /\ UNCHANGED <<caller, step, bound, maxSeen, scratch, failed, info, dead>>

\* An access through a null or stale pointer, or past the end: the context is
\* lost and with it all queued work.
FaultOn(s) ==
    /\ queue[s] # << >> /\ ~Valid(Head(queue[s]))
    /\ dead' = TRUE
    /\ queue' = [t \in Stream |-> << >>]
    /\ UNCHANGED <<caller, step, bound, maxSeen, scratch, result>>

Run(s) == \/ RunReduce(s) \/ RunEig(s) \/ RunCopyL(s) \/ RunCopyU(s)
          \/ RunTrsm(s) \/ FaultOn(s)

Next == \/ Construct \/ Destroy \/ LaunchNothing \/ EnterLaunch
        \/ HostStep
        \/ \E s \in Stream : Run(s)

Spec == Init /\ [][Next]_vars

\* The host thread goes on with the call it is in, and the device works through
\* every stream.
FairSpec == Spec /\ WF_vars(HostStep) /\ \A s \in Stream : WF_vars(Run(s))

-----------------------------------------------------------------------------
\* What the solver owes its caller.

Steps == {"idle", "growL", "growPtrs", "growWs", "reduce", "eig", "copyL",
          "copyU", "trsm"}
Stages == {"potrf", "xsyev"}
Op == [op : {"reduce", "eig", "copyL", "copyU", "trsm"}, call : Launch,
       base : 0 .. MaxLaunches]

\* Type invariant.
TypeOK ==
    /\ life \in {"none", "live", "gone"}
    /\ step \in Steps
    /\ cur \in 0 .. MaxLaunches /\ (cur = 0 <=> step = "idle")
    /\ status \in [Launch -> {"free", "running", "ok", "error"}]
    /\ batch \in [Launch -> 0 .. MaxBatch]
    /\ stream \in [Launch -> Stream \cup {NoStream}]
    /\ bound \in Stream \cup {NoStream}
    /\ maxSeen \in 0 .. MaxBatch
    /\ cap \in [L : 0 .. MaxBatch, ptrs : 0 .. MaxBatch, ws : 0 .. MaxBatch]
    /\ base \in 0 .. MaxLaunches
    /\ lbuf \in Seq(0 .. MaxLaunches)
    /\ lptrs \in Seq(0 .. MaxLaunches)
    /\ uptrs \in Seq(0 .. MaxLaunches)
    /\ ws \in 0 .. MaxBatch
    /\ queue \in [Stream -> Seq(Op)]
    /\ out \in [Launch -> {"none", "M", "V", "U", "junk"}]
    /\ failed \in [Launch -> SUBSET Stages]
    /\ info \in [Launch -> SUBSET Stages]
    /\ dead \in BOOLEAN

Queued(s) == {queue[s][i] : i \in DOMAIN queue[s]}

\* The call returned without an exception and all its operations have run.
Delivered(l) == /\ status[l] = "ok" /\ batch[l] > 0
                /\ \A s \in Stream : \A o \in Queued(s) : o.call # l

\* A delivered call holds the eigenvectors of its own problems: its own factor,
\* its own reduced matrix, whatever was launched before, after or in between.
ResultOwn == ~dead => \A l \in Launch : Delivered(l) => out[l] = "U"

\* A launch that is entered ends: it throws, or it returns and its results arrive,
\* although growing a buffer waits for the device and the device for its streams.
\* A fault of the device loses what is queued.
LaunchCompletes ==
    \A l \in Launch : status[l] = "running" ~> (status[l] = "error" \/ Delivered(l) \/ dead)

\* An operation in a stream that has its buffers does not lose them before it
\* runs, although later launches free and replace them: growth waits for what
\* is queued.
ScratchStays ==
    [][\A s \in Stream : \A o \in Queued(s) \cap Queued(s)' : Valid(o) => Valid(o)']_vars

\* The memory an operation writes and reads, besides its inputs.
Scratch(name) == <<name, 0>>
Result(l) == <<"U", l>>
Writes(o) == CASE o.op = "reduce" -> {Scratch("L"), Result(o.call)}
               [] o.op = "eig"    -> {Scratch("ws"), Result(o.call)}
               [] o.op = "copyL"  -> {Scratch("Lptrs")}
               [] o.op = "copyU"  -> {Scratch("Uptrs")}
               [] o.op = "trsm"   -> {Result(o.call)}
Reads(o) == IF o.op = "trsm" THEN {Scratch("L"), Scratch("Lptrs"), Scratch("Uptrs")}
                             ELSE {}

\* Two operations the device may run at the same time do not touch the same
\* scratch memory or the same result, unless both only read it.
NoScratchRace ==
    \A s, t \in Stream :
       s # t /\ queue[s] # << >> /\ queue[t] # << >> =>
          Writes(Head(queue[s])) \cap (Writes(Head(queue[t])) \cup Reads(Head(queue[t]))) = {}

\* The destructor unloads the module when nothing that could still run is
\* queued: its frees wait for that, although they free only what is not null.
\* (An operation whose buffers are gone already may be left.)
NothingAfterDestroy ==
    [][life = "live" /\ life' = "gone" =>
          \A s \in Stream : \A o \in Queued(s) : ~Valid(o)]_vars

\* d_info of a delivered call tells whether the eigensolver failed, and no
\* earlier or later call's verdict takes its place.
XsyevFailureTold ==
    ~dead => \A l \in Launch :
                Delivered(l) => ("xsyev" \in failed[l] <=> "xsyev" \in info[l])

\* The running call has scratch memory for its whole batch.
Covered == /\ B <= Len(lbuf) /\ B <= Len(lptrs) /\ B <= Len(uptrs) /\ B <= ws

Enqueuing == step \in {"reduce", "eig", "copyL", "copyU", "trsm"}

\* However many allocations have failed before, a call with the largest batch
\* seen so far that gets past the ensure functions has its scratch memory:
\* retrying what failed is safe.
LargestBatchCovered == Enqueuing /\ B = maxSeen => Covered

\* hybrid_solver.hpp:79-87: storage that grows on demand, with capacities in
\* matrices: past the ensure functions there is memory for the batch.
ScratchCovers == Enqueuing => Covered

\* SunnyGeneigBench.jl, run_kernel_chunked!: chunks on several streams without
\* synchronization give the outputs of a single launch.
ChunkedAsSingle == ResultOwn
=============================================================================
