----------------------------- MODULE SolverTuning -----------------------------
(***************************************************************************)
(* The constructor of UnifiedGeneigSolver: the walk over batches-per-block *)
(* candidates, and for each of them the probe, the autotune sweep over     *)
(* block dimensions with its process-wide memo, the production module and  *)
(* the shared-memory budget.  Solvers are built one after the other in one *)
(* process.                                                                *)
(*                                                                         *)
(* What the compiler and the device make of a kernel (bpb, block_dim_x) is *)
(* chosen the first time it matters and stays: how much shared memory it   *)
(* asks for, and what it computes.  What the comparison with the reference *)
(* can tell of that is kept apart from what it cannot tell.  The module    *)
(* cache is reduced to what ModuleCache shows of it: the module acquired   *)
(* is the one for its key.                                                 *)
(***************************************************************************)
EXTENDS Integers, Sequences, FiniteSetsExt

CONSTANTS N,           \* matrix size
          Requests,    \* candidate lists: the BPBs in order, or one explicit BPB
          Suggest,     \* Suggest[b]: the block dimension the probe reports
          ForcedDim,   \* force_block_dim_x, where it is given
          Modes,       \* "Suggested", "Autotune", "Forced"
          Qualities,   \* what a kernel may compute, see Validates
          Speeds,      \* medians of the timing samples
          Faults,      \* "compiler", "device": what may throw
          MaxBuilds    \* bound: constructions

BPB == UNION {{r[i] : i \in DOMAIN r} : r \in Requests}

\* The candidate set: around the suggestion, whole warps, within the hardware
\* limit, a thread for every matrix row.
Candidates(b) ==
    LET s == Suggest[b]
    IN  {c \in {s - 64, s - 32, s, s + 32, s + 64, 2 * s} :
            c > 0 /\ c <= 1024 /\ c % 32 = 0 /\ c >= N}

Dim == {ForcedDim} \cup UNION {{Suggest[b]} \cup Candidates(b) : b \in BPB}

ASSUME TuningAssumption ==
    /\ N \in Nat \ {0} /\ ForcedDim \in Nat \ {0} /\ MaxBuilds \in Nat
    /\ Requests \subseteq Seq(Nat \ {0}) \ {<< >>}
    /\ Suggest \in [BPB -> Nat \ {0}]
    /\ Modes \subseteq {"Suggested", "Autotune", "Forced"}
    /\ Speeds \subseteq Nat

VARIABLES
    pc,        \* where the constructing thread is
    builds,    \* constructions begun
    mode,      \* TuningMode, or "Forced"
    todo,      \* the BPBs not yet turned down, current one first
    chosen,    \* chosen_bd_x
    kernel,    \* kernel_ and module_: <<bpb, block_dim_x>>, << >> before the first
    left,      \* the sweep's candidates still to come
    sweep,     \* the sweep's results, in the order of the candidates
    next,      \* the row that the loop over the results comes to next
    winner,    \* winner and winner_mps
    output,    \* what d_W and d_U hold of the tuning workload
    sweepRan,  \* autotune_sweep_ran_
    bpbField,  \* batches_per_block_
    memo,      \* autotune_cache_: memo[b] for this n and arch, 0 if absent
    size,      \* size[b][d]: shared memory of a kernel against the device
    quality    \* quality[b][d]: what a kernel computes

field == <<chosen, sweepRan, bpbField>>
world == <<size, quality>>
local == <<left, sweep, next, winner, output>>
vars  == <<pc, builds, mode, todo, kernel, local, field, memo, world>>

\* Neither a block dimension nor a speed: both start at -1.
Nobody == [dim |-> -1, mps |-> -1]

\* Where a row's kernel and speed stand if the candidate was not run.
NotRun == << >>

\* The budget is the device's maximum: kSafetyMarginBytes is 0.
Sizes == {"fits", "over"}

Init == /\ pc = "idle"
        /\ builds = 0
        /\ mode = "Suggested"
        /\ todo = << >>
        /\ chosen = 0
        /\ kernel = << >>
        /\ left = {} /\ sweep = << >>
        /\ next = 1 /\ winner = Nobody
        /\ output = "?"
        /\ sweepRan = FALSE
        /\ bpbField = 0
        /\ memo = [b \in BPB |-> 0]
        /\ size = [b \in BPB |-> [d \in Dim |-> "?"]]
        /\ quality = [b \in BPB |-> [d \in Dim |-> "?"]]

Fault(f) == f \in Faults

Current == Head(todo)

Goto(from, to) == pc = from /\ pc' = to

\* The locals of autotune_block_dim_x_ go.
SweepEnds == /\ left' = {} /\ sweep' = << >>
             /\ next' = 1 /\ winner' = Nobody
             /\ output' = "?"

\* Kernel <<b, d>> is loaded and turns out to need z.
Load(b, d, z) == /\ size[b][d] \in {"?", z}
                 /\ size' = [size EXCEPT ![b][d] = z]
                 /\ kernel' = <<b, d>>

\* The kernel that is loaded computes q from the tuning workload.  A kernel that
\* ends without a word ("silent") leaves in the output what was there: the
\* buffers are not cleared between candidates, and info is not read.
RunLoaded(k, q) == /\ quality[k[1]][k[2]] \in {"?", q}
                   /\ quality' = [quality EXCEPT ![k[1]][k[2]] = q]
                   /\ output' = IF q = "silent" THEN output ELSE q

-----------------------------------------------------------------------------
Construct ==
    \E r \in Requests, m \in Modes :
       /\ Goto("idle", "try")
       /\ builds < MaxBuilds
       /\ builds' = builds + 1
       /\ mode' = m
       /\ todo' = r
       /\ chosen' = 0 /\ sweepRan' = FALSE /\ bpbField' = 0
       /\ kernel' = << >>
       /\ UNCHANGED <<local, memo, world>>

\* Mutant: the walk runs past the last BPB.
TurnDownEndless(from) ==
    /\ Goto(from, "try")
    /\ todo' = Tail(todo)
    /\ SweepEnds
    /\ UNCHANGED <<builds, mode, field, memo>>

\* try_one returns false: the next BPB, or the constructor throws.
TurnDown(from) ==
    /\ Goto(from, IF Tail(todo) = << >> THEN "throw" ELSE "try")
    /\ todo' = Tail(todo)
    /\ SweepEnds
    /\ UNCHANGED <<builds, mode, field, memo>>

ForceBlockDim == /\ Goto("try", "acquire")
                 /\ mode = "Forced"
                 /\ chosen' = ForcedDim
                 /\ UNCHANGED <<builds, mode, todo, kernel, local, sweepRan, bpbField,
                                memo, world>>

ProbeSuggests == /\ Goto("try", IF mode = "Suggested" THEN "acquire" ELSE "memo")
                 /\ mode # "Forced"
                 /\ chosen' = Suggest[Current]
                 /\ UNCHANGED <<builds, mode, todo, kernel, local, sweepRan, bpbField,
                                memo, world>>

ProbeThrows == /\ Fault("compiler")
               /\ TurnDown("try")
               /\ mode # "Forced"
               /\ UNCHANGED <<kernel, world>>

-----------------------------------------------------------------------------
\* The memo and the sweep.

MemoHit == /\ Goto("memo", "acquire")
           /\ memo[Current] # 0
           /\ chosen' = memo[Current]
           /\ sweepRan' = FALSE
           /\ UNCHANGED <<builds, mode, todo, kernel, local, bpbField, memo, world>>

\* The suggested kernel is compiled and run; its output is the reference.
SweepBegin ==
    /\ Goto("memo", "sweep")
    /\ memo[Current] = 0
    /\ Candidates(Current) # {}
    /\ Load(Current, Suggest[Current], "fits")
    /\ RunLoaded(<<Current, Suggest[Current]>>, "right")
    /\ left' = Candidates(Current)
    /\ UNCHANGED <<builds, mode, todo, sweep, next, winner, field, memo>>

SweepEmpty == /\ TurnDown("memo")
              /\ memo[Current] = 0
              /\ Candidates(Current) = {}
              /\ UNCHANGED <<kernel, world>>

\* No guard stands before the reference kernel: more shared memory than the
\* device has throws out of the sweep, and so does a compiler or launch error.
ReferenceOver == /\ TurnDown("memo")
                 /\ memo[Current] = 0 /\ Candidates(Current) # {}
                 /\ Load(Current, Suggest[Current], "over")
                 /\ UNCHANGED quality

ReferenceThrows == /\ Faults # {}
                   /\ TurnDown("memo")
                   /\ memo[Current] = 0 /\ Candidates(Current) # {}
                   /\ UNCHANGED <<kernel, world>>

Cand == Min(left)

\* A row of the table; the default of CandResult is an incorrect row of speed 0.
Row(of, correct, mps) ==
    sweep' = Append(sweep, [dim |-> Cand, of |-> of, correct |-> correct, mps |-> mps])

\* The next candidate of the list.
NextCandidate == /\ pc = "sweep" /\ left # {}
                 /\ left' = left \ {Cand}
                 /\ UNCHANGED <<pc, builds, mode, todo, next, winner, field, memo>>

\* compile_production_ throws, and is caught.
CandidateRejected == /\ Fault("compiler")
                     /\ NextCandidate
                     /\ Row(NotRun, FALSE, 0)
                     /\ UNCHANGED <<kernel, output, world>>

CandidateOver == /\ NextCandidate
                 /\ Load(Current, Cand, "over")
                 /\ Row(NotRun, FALSE, 0)
                 /\ UNCHANGED <<output, quality>>

\* What the comparison cannot tell from the reference's output: a value that is
\* not a number (std::max drops it), a wrong result in a matrix that is not one of
\* the eight that are looked at, an eigenvector that is too long (the phase is
\* checked on one side).
Unseen == {"nan", "elsewhere", "scaled"}

\* Outputs o against those of the reference.
Validates(o) == o = "right" \/ o \in Unseen

\* Mutant: the suggested candidate, compiled for the reference, is not recompiled.
CandidateMeasuredNoRecompile ==
    /\ NextCandidate
    /\ IF Cand = Suggest[Current] THEN UNCHANGED <<size, kernel>>
                                  ELSE Load(Current, Cand, "fits")
    /\ \E q \in Qualities, v \in Speeds :
          RunLoaded(kernel', q) /\ Row(kernel', Validates(output'), v)

\* Compile, time, compare.
CandidateMeasured ==
    /\ NextCandidate
    /\ Load(Current, Cand, "fits")
    /\ \E q \in Qualities, v \in Speeds :
          RunLoaded(kernel', q) /\ Row(kernel', Validates(output'), v)

\* A launch or a copy fails outside the try block: the sweep is over.
CandidateThrows == /\ Fault("device")
                   /\ TurnDown("sweep")
                   /\ left # {}
                   /\ Load(Current, Cand, "fits")
                   /\ UNCHANGED quality

\* Mutants: whether the row is correct is not looked at; a tie goes to the later row.
BeatsUnchecked(r) == r.mps > winner.mps

BeatsOrTies(r) == r.correct /\ r.mps >= winner.mps

\* A row replaces the winner found so far.
Beats(r) == r.correct /\ r.mps > winner.mps

\* One turn of the loop over the results.
ConsiderRow ==
    /\ pc = "sweep" /\ left = {}
    /\ next <= Len(sweep)
    /\ next' = next + 1
    /\ winner' = IF Beats(sweep[next])
                 THEN [dim |-> sweep[next].dim, mps |-> sweep[next].mps] ELSE winner
    /\ UNCHANGED <<pc, builds, mode, todo, kernel, left, sweep, output, field, memo, world>>

\* The loop is through.
Considered == left = {} /\ next > Len(sweep)

\* Mutant: the winner is launched as the sweep left it.
PickKeepsModule ==
    /\ Goto("sweep", "check")
    /\ Considered /\ winner.dim >= 0
    /\ chosen' = winner.dim
    /\ memo' = [memo EXCEPT ![Current] = winner.dim]
    /\ sweepRan' = TRUE
    /\ SweepEnds
    /\ UNCHANGED <<builds, mode, todo, kernel, bpbField, world>>

Pick ==
    /\ Goto("sweep", "acquire")
    /\ Considered /\ winner.dim >= 0
    /\ chosen' = winner.dim
    /\ memo' = [memo EXCEPT ![Current] = winner.dim]
    /\ sweepRan' = TRUE
    /\ SweepEnds
    /\ UNCHANGED <<builds, mode, todo, kernel, bpbField, world>>

NoWinner == /\ TurnDown("sweep")
            /\ Considered /\ winner.dim < 0
            /\ UNCHANGED <<kernel, world>>

-----------------------------------------------------------------------------
\* The production module.

Acquire == /\ Goto("acquire", "check")
           /\ \E z \in Sizes : Load(Current, chosen, z)
           /\ UNCHANGED <<builds, mode, todo, local, field, memo, quality>>

AcquireThrows == /\ Fault("compiler")
                 /\ TurnDown("acquire")
                 /\ UNCHANGED <<kernel, world>>

SizeLoaded == size[kernel[1]][kernel[2]]

Accept == /\ Goto("check", "live")
          /\ SizeLoaded = "fits"
          /\ bpbField' = Current
          /\ UNCHANGED <<builds, mode, todo, chosen, kernel, local, sweepRan, memo, world>>

OverBudget == /\ TurnDown("check")
              /\ SizeLoaded = "over"
              /\ UNCHANGED <<kernel, world>>

\* The constructor throws, or the solver is destroyed; the memo stays.
Leave == /\ \/ Goto("throw", "idle")
            \/ Goto("live", "idle")
         /\ todo' = << >>
         /\ kernel' = << >>
         /\ UNCHANGED <<builds, mode, local, field, memo, world>>

Sweeping == \/ SweepBegin \/ SweepEmpty \/ ReferenceOver \/ ReferenceThrows
            \/ CandidateRejected \/ CandidateOver \/ CandidateMeasured
            \/ CandidateThrows \/ ConsiderRow \/ Pick \/ NoWinner

Next == \/ Construct \/ ForceBlockDim \/ ProbeSuggests \/ ProbeThrows \/ MemoHit
        \/ Sweeping
        \/ Acquire \/ AcquireThrows \/ Accept \/ OverBudget \/ Leave

Spec == Init /\ [][Next]_vars

-----------------------------------------------------------------------------
\* Properties.

\* Type invariant.
TypeOK ==
    /\ pc \in {"idle", "try", "memo", "sweep", "acquire", "check", "live", "throw"}
    /\ builds \in 0 .. MaxBuilds
    /\ mode \in {"Suggested", "Autotune", "Forced"}
    /\ todo \in Seq(BPB) /\ (todo = << >> <=> pc \in {"idle", "throw"})
    /\ chosen \in Dim \cup {0}
    /\ kernel \in {<< >>} \cup (BPB \X Dim)
    /\ left \subseteq Dim
    /\ sweep \in Seq([dim : Dim, of : {NotRun} \cup (BPB \X Dim), correct : BOOLEAN,
                      mps : Speeds \cup {0}])
    /\ next \in 1 .. Len(sweep) + 1
    /\ winner \in {Nobody} \cup [dim : Dim, mps : Speeds \cup {0}]
    /\ output \in Qualities \cup {"right", "?"}
    /\ sweepRan \in BOOLEAN
    /\ bpbField \in BPB \cup {0}
    /\ memo \in [BPB -> Dim \cup {0}]
    /\ size \in [BPB -> [Dim -> Sizes \cup {"?"}]]
    /\ quality \in [BPB -> [Dim -> Qualities \cup {"right", "?"}]]

\* Every row of the sweep's table is about the kernel it names, although the
\* kernels replace each other in the same fields.
RowsNameTheirKernel ==
    \A i \in DOMAIN sweep : sweep[i].of # NotRun => sweep[i].of = <<Current, sweep[i].dim>>

\* A memoised block dimension stands for a kernel that ran, that no comparison saw
\* to be wrong, and that the device can launch: whichever solver of the process
\* reads it later, and whatever was refused in the sweep that found it.
NoWrongMemo ==
    \A b \in BPB : memo[b] # 0 =>
        /\ quality[b][memo[b]] \notin {"wrong", "?"}
        /\ size[b][memo[b]] = "fits"
        /\ memo[b] \in Candidates(b)

\* What launch uses belongs together: the grid is computed from the BPB the
\* loaded kernel was compiled for, its block is the one chosen, it fits the
\* budget, and a tuned solver runs the memoised winner and not what the sweep
\* left behind.
LaunchStateConsistent ==
    pc = "live" =>
        /\ kernel = <<bpbField, chosen>>
        /\ SizeLoaded = "fits"
        /\ mode = "Suggested" => chosen = Suggest[bpbField]
        /\ mode = "Autotune" => chosen = memo[bpbField]

\* "Tie-break on smaller BlockDim": the loop over the results ends with a validated
\* row that none of the validated ones is faster than, and no smaller one as fast.
WinnerIsFastest ==
    [][Pick => \E i \in DOMAIN sweep :
                  /\ sweep[i].correct /\ sweep[i].dim = chosen'
                  /\ \A j \in DOMAIN sweep : sweep[j].correct =>
                        \/ sweep[j].mps < sweep[i].mps
                        \/ sweep[j].mps = sweep[i].mps /\ sweep[i].dim <= sweep[j].dim]_vars

\* docs/NVRTC_RUNTIME.md:110-114: the sweep "picks the fastest
\* correctness-validated candidate", so a memoised kernel computes what the
\* reference computes.
MemoIsValidated ==
    \A b \in BPB : memo[b] # 0 => quality[b][memo[b]] = "right"

=============================================================================
