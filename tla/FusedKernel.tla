------------------------------ MODULE FusedKernel ------------------------------
(***************************************************************************)
(* One block of a kernel, thread by thread: the fused kernel, the hybrid   *)
(* path's reduce kernel and the six static kernels at N = 54, with the     *)
(* host wrappers that launch the static ones.                              *)
(*                                                                         *)
(* A kernel is a list of statements that every thread of the block works   *)
(* through: strided copy loops, operators of the library, __syncthreads.   *)
(* An operator is cooperative: some of the threads, its crew, read the     *)
(* operands, wait for each other and write the result; the others race     *)
(* ahead (kernel_source.hpp:254-266 has an experiment about just that).    *)
(* Values tell what a cell holds, not which number.  Memory is counted in  *)
(* cells of eight bytes, so that the layout of the shared memory, with its *)
(* rounding, is the code's.                                                *)
(***************************************************************************)
EXTENDS Integers, Sequences, FiniteSets

CONSTANTS kN,          \* the matrices are kN x kN, and kLDA = kN
          kBPB,        \* BATCHES_PER_BLOCK of the kernels compiled at run time
          BlockDimX,   \* blockDim.x
          Kernels,     \* the kernels in use
          Crews,       \* who may work in which operator
          Host,        \* threads of the host
          Faults       \* "attribute": cudaFuncSetAttribute may fail

Thread == 0 .. BlockDimX - 1

Operator == {"potrf", "trsmLeft", "trsmRight", "heev", "trsmLeftConj"}

Static == {"chol_n54", "reduce_n54", "reduce_eig_n54", "full_n54",
           "full_n54_batched", "finish_n54"}

Batched == {"full_n54_batched", "finish_n54"}

ASSUME KernelAssumption ==
    /\ kN \in Nat \ {0} /\ kBPB \in Nat \ {0} /\ BlockDimX \in Nat \ {0}
    /\ Kernels \subseteq Static \cup {"geneig_full", "geneig_reduce"}
    /\ Crews \subseteq [Operator -> (SUBSET Thread) \ {{}}]

VARIABLES
    kernel,    \* the kernel that is called
    crew,      \* crew[o]: the threads that operator o puts to work
    hpc,       \* hpc[h]: where a host thread is in the wrapper
    attr_set,  \* the wrapper's static flag
    attribute, \* the kernel's shared memory limit: "unset", "refused", "set"
    rejected,  \* what attribute was when a launch failed for it, or "none"
    pc,        \* pc[t]: the statement thread t is at; 0 before the launch
    idx,       \* idx[t]: the loop variable
    read,      \* read[t]: t has read the operands of the operator it is in
    spoiled,   \* the statements whose operator read something wrong
    mem        \* what each location holds

host   == <<hpc, attr_set, attribute, rejected>>
thread == <<pc, idx, read, spoiled>>
vars   == <<kernel, crew, host, thread, mem>>
-----------------------------------------------------------------------------
\* Shared memory: As, Bs, lambda_s, workspace_s.

Batch == IF kernel \in Static THEN 1 ELSE kBPB

\* total_elems and total_w.
Elements    == 0 .. kN * kN * Batch - 1
Eigenvalues == 0 .. kN * Batch - 1

\* Row at or below column, within the matrix of the element.
Lower(i) == LET e == i % (kN * kN) IN e % kN >= e \div kN

\* A complex double is two cells.
TileCells == 2 * kN * kN * Batch

\* Mutant: the offset of Bs counts one matrix, not the whole batch.
BsOffsetSingle == 2 * kN * kN

BsOffset == TileCells

LambdaOffset == BsOffset + TileCells

\* The end of lambda_s rounded up to the alignment of a complex double.
WorkspaceOffset == ((LambdaOffset + kN * Batch + 1) \div 2) * 2

Shared(cells) == {"smem"} \X cells

As(i) == Shared({2 * i, 2 * i + 1})
Bs(i) == Shared({BsOffset + 2 * i, BsOffset + 2 * i + 1})
Lambda(i) == Shared({LambdaOffset + i})
Workspace == Shared({WorkspaceOffset, WorkspaceOffset + 1})

\* The global memory of the block: two output arrays and info.
Out(array, i) == <<array, i>>
Info(b) == <<"info", b>>

Location == Shared(0 .. WorkspaceOffset + 1)
            \cup {Out(a, i) : a \in {"L", "M", "W", "U"}, i \in Elements}
            \cup {Info(b) : b \in 0 .. Batch - 1}

\* What a location written in pieces holds as a whole.
Held(cells) == IF \E v \in {mem[c] : c \in cells} : \A c \in cells : mem[c] = v
               THEN mem[CHOOSE c \in cells : TRUE]
               ELSE "torn"
-----------------------------------------------------------------------------
\* Statements.

Sync == [do |-> "sync"]

\* Copies S or L into As, H, M or nothing into Bs.
Load(a, b) == [do |-> "load", as |-> a, bs |-> b]

\* Copies As, Bs or lambda_s out, the strict upper triangle as zeros or as it is.
Store(arrays, zeroed) == [do |-> "store", arrays |-> arrays, zeroed |-> zeroed]

Run(o) == [do |-> "run", op |-> o]

Loaded(a, b)  == <<Load(a, b), Sync>>
Factored      == <<Run("potrf"), Sync>>
Reduced       == <<Run("trsmLeft"), Sync, Run("trsmRight"), Sync>>
Solved        == <<Run("heev"), Sync>>
Transformed   == <<Run("trsmLeftConj"), Sync>>
WrittenBack   == <<Store({"W"}, FALSE), Store({"U"}, FALSE)>>

chol_n54 == Loaded("S", "none") \o Factored \o <<Store({"L"}, TRUE)>>

reduce_n54 == Loaded("S", "H") \o Factored \o Reduced \o <<Store({"M"}, TRUE)>>

reduce_eig_n54 == Loaded("S", "H") \o Factored \o Reduced \o Solved \o WrittenBack

full_n54 ==
    Loaded("S", "H") \o Factored \o Reduced \o Solved \o Transformed \o WrittenBack

full_n54_batched ==
    Loaded("S", "H") \o Factored \o Reduced \o Solved \o Transformed \o WrittenBack

finish_n54 == Loaded("L", "M") \o Solved \o Transformed \o WrittenBack

\* Mutant: no barrier after heev.
geneig_full_3_5c ==
    Loaded("S", "H") \o Factored \o Reduced \o <<Run("heev")>> \o Transformed \o WrittenBack

geneig_full ==
    Loaded("S", "H") \o Factored \o Reduced \o Solved \o Transformed \o WrittenBack

geneig_reduce == Loaded("S", "H") \o Factored \o Reduced \o <<Store({"L", "M"}, FALSE)>>

Program == CASE kernel = "chol_n54" -> chol_n54
             [] kernel = "reduce_n54" -> reduce_n54
             [] kernel = "reduce_eig_n54" -> reduce_eig_n54
             [] kernel = "full_n54" -> full_n54
             [] kernel = "full_n54_batched" -> full_n54_batched
             [] kernel = "finish_n54" -> finish_n54
             [] kernel = "geneig_full" -> geneig_full
             [] kernel = "geneig_reduce" -> geneig_reduce

End == Len(Program) + 1

-----------------------------------------------------------------------------
\* The operators, as the sources describe them to the library: function, side and
\* transposition of the factor.  All of them use the lower triangle.

\* Mutant: the second solve is the first one transposed, on the wrong side.
FusedOperatorsLeft ==
    [potrf |-> <<"potrf">>,
     trsmLeft |-> <<"trsm", "left", "non_trans">>,
     trsmRight |-> <<"trsm", "left", "conj_trans">>,
     heev |-> <<"heev">>,
     trsmLeftConj |-> <<"trsm", "left", "conj_trans">>]

FusedOperators ==
    [potrf |-> <<"potrf">>,
     trsmLeft |-> <<"trsm", "left", "non_trans">>,
     trsmRight |-> <<"trsm", "right", "conj_trans">>,
     heev |-> <<"heev">>,
     trsmLeftConj |-> <<"trsm", "left", "conj_trans">>]

ReduceOperators ==
    [potrf |-> <<"potrf">>,
     trsmLeft |-> <<"trsm", "left", "non_trans">>,
     trsmRight |-> <<"trsm", "right", "conj_trans">>]

StaticOperators ==
    [potrf |-> <<"potrf">>,
     trsmLeft |-> <<"trsm", "left", "non_trans">>,
     trsmRight |-> <<"trsm", "right", "conj_trans">>,
     trsmLeftConj |-> <<"trsm", "left", "conj_trans">>,
     heev |-> <<"heev">>]

Described(o) == CASE kernel \in Static -> StaticOperators[o]
                  [] kernel = "geneig_full" -> FusedOperators[o]
                  [] kernel = "geneig_reduce" -> ReduceOperators[o]

\* What the library makes of a tile in place: S = L L^H, Y = L^-1 H, M = Y L^-H,
\* M V = V W, U = L^-H V.
Meaning(d) ==
    CASE d = <<"potrf">>                      -> [takes |-> "S", gives |-> "L"]
      [] d = <<"trsm", "left", "non_trans">>   -> [takes |-> "H", gives |-> "Y"]
      [] d = <<"trsm", "right", "conj_trans">> -> [takes |-> "Y", gives |-> "M"]
      [] d = <<"heev">>                        -> [takes |-> "M", gives |-> "V"]
      [] d = <<"trsm", "left", "conj_trans">>  -> [takes |-> "V", gives |-> "U"]

Whole == Elements
Triangle == {i \in Elements : Lower(i)}

\* The tile an operator works on, and the elements of it that it reads.
Tile(o, i) == IF o = "potrf" THEN As(i) ELSE Bs(i)
ReadOf(o) == IF o \in {"potrf", "heev"} THEN Triangle ELSE Whole
WrittenOf(o) == IF o = "potrf" THEN Triangle ELSE Whole

\* The triangular solves read L, too.
Factor(o) == IF o \in {"potrf", "heev"} THEN {} ELSE Triangle

OperandCells(o) ==
    UNION ({Tile(o, i) : i \in ReadOf(o)} \cup {As(i) : i \in Factor(o)})

\* Every operand is what the operator takes it for.
Sound(o) == /\ \A i \in ReadOf(o) : Held(Tile(o, i)) = Meaning(Described(o)).takes
            /\ \A i \in Factor(o) : Held(As(i)) = "L"

Rank(t, c) == Cardinality({u \in c : u < t})

\* The part of a set of indices that t writes for its crew c.
Share(t, c, set) == {i \in set : i % Cardinality(c) = Rank(t, c)}

\* The cells t writes for operator o.
TileShare(o, t) ==
    UNION {Tile(o, i) : i \in Share(t, crew[o], WrittenOf(o))}

LambdaShare(o, t) ==
    IF o = "heev" THEN UNION {Lambda(i) : i \in Share(t, crew[o], Eigenvalues)} ELSE {}

WorkShare(o, t) == IF o = "heev" /\ Rank(t, crew[o]) = 0 THEN Workspace ELSE {}

\* potrf and heev report per matrix.
InfoShare(o, t) ==
    IF o \in {"potrf", "heev"}
    THEN {Info(b) : b \in Share(t, crew[o], 0 .. Batch - 1)} ELSE {}

WriteShare(o, t) ==
    TileShare(o, t) \cup LambdaShare(o, t) \cup WorkShare(o, t) \cup InfoShare(o, t)
-----------------------------------------------------------------------------
\* The copy loops.

Count(s) == IF s.do = "store" /\ s.arrays = {"W"} THEN kN * Batch ELSE kN * kN * Batch

\* The strict upper triangle of S stays in the tile that potrf makes L: what the
\* reduce kernel hands on as L has it too.
Given(v, i) == IF v = "L" /\ ~Lower(i) THEN "S" ELSE v

Source(array, i) == CASE array = "L" -> As(i)
                      [] array = "W" -> Lambda(i)
                      [] array \in {"M", "U"} -> Bs(i)

LoadCells(s, i) == As(i) \cup IF s.bs = "none" THEN {} ELSE Bs(i)

StoreCells(s, i) == {Out(a, i) : a \in s.arrays}

Loading(s, i) ==
    mem' = [c \in Location |->
              IF c \in As(i) THEN Given(s.as, i)
              ELSE IF s.bs # "none" /\ c \in Bs(i) THEN Given(s.bs, i)
              ELSE mem[c]]

Storing(s, i) ==
    mem' = [c \in Location |->
              IF c \in StoreCells(s, i)
              THEN IF s.zeroed /\ ~Lower(i) THEN "zero" ELSE Held(Source(c[1], i))
              ELSE mem[c]]
-----------------------------------------------------------------------------
\* What the next step of a thread touches, if it may take one.

Running(t) == pc[t] \in DOMAIN Program

Doing(t, what) == Running(t) /\ Program[pc[t]].do = what

InLoop(t) == /\ Doing(t, "load") \/ Doing(t, "store")
             /\ idx[t] < Count(Program[pc[t]])

InCrew(t) == Doing(t, "run") /\ t \in crew[Program[pc[t]].op]

\* The crew has read its operands: results may replace them.
CrewHasRead(t) == \A u \in crew[Program[pc[t]].op] :
                     pc[u] > pc[t] \/ (pc[u] = pc[t] /\ read[u])

Reads(t) ==
    LET s == Program[pc[t]]
    IN  CASE InLoop(t) /\ s.do = "store" -> UNION {Source(a, idx[t]) : a \in s.arrays}
          [] InCrew(t) /\ ~read[t] -> OperandCells(s.op)
          [] OTHER -> {}

Writes(t) ==
    LET s == Program[pc[t]]
    IN  CASE InLoop(t) /\ s.do = "load" -> LoadCells(s, idx[t])
          [] InLoop(t) /\ s.do = "store" -> StoreCells(s, idx[t])
          [] InCrew(t) /\ read[t] /\ CrewHasRead(t) -> WriteShare(s.op, t)
          [] OTHER -> {}
-----------------------------------------------------------------------------
\* The threads.

\* Mutant: every loop starts at 0.
LeaveAtZero(t) == /\ pc' = [pc EXCEPT ![t] = @ + 1]
                  /\ idx' = [idx EXCEPT ![t] = 0]
                  /\ read' = [read EXCEPT ![t] = FALSE]

\* t goes on to its next statement.
Leave(t) == /\ pc' = [pc EXCEPT ![t] = @ + 1]
            /\ idx' = [idx EXCEPT ![t] = t]
            /\ read' = [read EXCEPT ![t] = FALSE]

\* One round of a copy loop.
Copy(t) == LET s == Program[pc[t]]
           IN  /\ InLoop(t)
               /\ IF s.do = "load" THEN Loading(s, idx[t]) ELSE Storing(s, idx[t])
               /\ idx' = [idx EXCEPT ![t] = @ + BlockDimX]
               /\ UNCHANGED <<kernel, crew, host, pc, read, spoiled>>

\* Mutant: the loop ends at total_elems, not at or after it.
LoopEndsExactly(t) == /\ Doing(t, "load") \/ Doing(t, "store")
                      /\ idx[t] = Count(Program[pc[t]])
                      /\ Leave(t)
                      /\ UNCHANGED <<kernel, crew, host, spoiled, mem>>

LoopEnds(t) == /\ Doing(t, "load") \/ Doing(t, "store")
               /\ idx[t] >= Count(Program[pc[t]])
               /\ Leave(t)
               /\ UNCHANGED <<kernel, crew, host, spoiled, mem>>

\* execute, for a thread that has no part in it.
RunAhead(t) == /\ Doing(t, "run") /\ ~InCrew(t)
               /\ Leave(t)
               /\ UNCHANGED <<kernel, crew, host, spoiled, mem>>

ReadOperands(t) ==
    /\ InCrew(t) /\ ~read[t]
    /\ read' = [read EXCEPT ![t] = TRUE]
    /\ spoiled' = IF Sound(Program[pc[t]].op) THEN spoiled ELSE spoiled \cup {pc[t]}
    /\ UNCHANGED <<kernel, crew, host, pc, idx, mem>>

WriteResults(t) ==
    LET o == Program[pc[t]].op
        v(good) == IF pc[t] \in spoiled THEN "junk" ELSE good
    IN  /\ InCrew(t) /\ read[t] /\ CrewHasRead(t)
        /\ mem' = [c \in Location |->
                     CASE c \in InfoShare(o, t) -> o
                       [] c \in WorkShare(o, t) -> "scratch"
                       [] c \in LambdaShare(o, t) -> v("W")
                       [] c \in TileShare(o, t) -> v(Meaning(Described(o)).gives)
                       [] OTHER -> mem[c]]
        /\ Leave(t)
        /\ UNCHANGED <<kernel, crew, host, spoiled>>

\* __syncthreads: nobody passes before everybody has come.
Synchronise(t) == /\ Doing(t, "sync")
                  /\ \A u \in Thread : pc[u] >= pc[t]
                  /\ Leave(t)
                  /\ UNCHANGED <<kernel, crew, host, spoiled, mem>>

Step(t) == Copy(t) \/ LoopEnds(t) \/ RunAhead(t) \/ ReadOperands(t)
           \/ WriteResults(t) \/ Synchronise(t)
-----------------------------------------------------------------------------
\* The host.

Goto(h, from, to) == /\ hpc[h] = from
                     /\ hpc' = [hpc EXCEPT ![h] = to]
                     /\ UNCHANGED <<kernel, crew>>

TestFlag(h) == /\ Goto(h, "called", IF attr_set THEN "launch" ELSE "set")
               /\ UNCHANGED <<attr_set, attribute, rejected, thread, mem>>

\* cudaFuncSetAttribute; the wrapper drops its error.
SetAttribute(h) ==
    /\ Goto(h, "set", "mark")
    /\ \/ attribute' = "set"
       \/ /\ "attribute" \in Faults
          /\ attribute' = IF attribute = "unset" THEN "refused" ELSE attribute
    /\ UNCHANGED <<attr_set, rejected, thread, mem>>

MarkSet(h) == /\ Goto(h, "mark", "launch")
              /\ attr_set' = TRUE
              /\ UNCHANGED <<attribute, rejected, thread, mem>>

\* One tile of 54 x 54 fits the 48 KB every kernel has; two do not.
NeedsAttribute == kernel # "chol_n54"

\* The first block that starts is the one that is followed.
StartBlock == IF \A t \in Thread : pc[t] = 0
              THEN pc' = [t \in Thread |-> 1] /\ UNCHANGED <<idx, read, spoiled, mem>>
              ELSE UNCHANGED <<thread, mem>>

\* <<<...>>> or cuLaunchKernel; the static wrappers never ask for its error.
LaunchBlock(h) ==
    /\ Goto(h, "launch", "returned")
    /\ IF NeedsAttribute /\ attribute # "set"
       THEN rejected' = attribute /\ UNCHANGED <<thread, mem>>
       ELSE StartBlock /\ UNCHANGED rejected
    /\ UNCHANGED <<attr_set, attribute>>

\* batch_size <= 0, asked after the attribute.
NothingToDo(h) == /\ kernel \in Batched
                  /\ Goto(h, "launch", "returned")
                  /\ UNCHANGED <<attr_set, attribute, rejected, thread, mem>>

\* Mutant: the flag is set before the attribute is.
WrapperFlagFirst(h) ==
    \/ TestFlag(h)
    \/ /\ Goto(h, "set", "mark") /\ attr_set' = TRUE
       /\ UNCHANGED <<attribute, rejected, thread, mem>>
    \/ /\ Goto(h, "mark", "launch") /\ attribute' = "set"
       /\ UNCHANGED <<attr_set, rejected, thread, mem>>
    \/ LaunchBlock(h)

Wrapper(h) == TestFlag(h) \/ SetAttribute(h) \/ MarkSet(h) \/ LaunchBlock(h)

chol_n54_launch(h) == kernel = "chol_n54" /\ Wrapper(h)

geneig_reduce_n54_launch(h) == kernel = "reduce_n54" /\ Wrapper(h)

geneig_reduce_eig_n54_launch(h) == kernel = "reduce_eig_n54" /\ Wrapper(h)

geneig_full_n54_launch(h) == kernel = "full_n54" /\ Wrapper(h)

geneig_full_n54_batched_launch(h) ==
    kernel = "full_n54_batched" /\ (Wrapper(h) \/ NothingToDo(h))

geneig_finish_n54_launch(h) == kernel = "finish_n54" /\ (Wrapper(h) \/ NothingToDo(h))

\* The solvers' own launches: their constructors have set the attribute.
cuLaunchKernel(h) == kernel \notin Static /\ LaunchBlock(h)

Call(h) == \/ chol_n54_launch(h) \/ geneig_reduce_n54_launch(h)
           \/ geneig_reduce_eig_n54_launch(h) \/ geneig_full_n54_launch(h)
           \/ geneig_full_n54_batched_launch(h) \/ geneig_finish_n54_launch(h)
           \/ cuLaunchKernel(h)

Init == /\ kernel \in Kernels
        /\ crew \in Crews
        /\ hpc = [h \in Host |-> IF kernel \in Static THEN "called" ELSE "launch"]
        /\ attr_set = FALSE
        /\ attribute = IF kernel \in Static THEN "unset" ELSE "set"
        /\ rejected = "none"
        /\ pc = [t \in Thread |-> 0]
        /\ idx = [t \in Thread |-> t]
        /\ read = [t \in Thread |-> FALSE]
        /\ spoiled = {}
        /\ mem = [c \in Location |-> "none"]

Next == \/ \E h \in Host : Call(h)
        \/ \E t \in Thread : Step(t)

Spec == Init /\ [][Next]_vars

\* The host's threads run, and the threads of a resident block all make progress.
FairSpec == /\ Spec
            /\ \A h \in Host : WF_vars(Call(h))
            /\ \A t \in Thread : WF_vars(Step(t))
-----------------------------------------------------------------------------
\* Properties.

Value == {"none", "zero", "S", "H", "L", "Y", "M", "V", "U", "W", "scratch", "junk",
          "torn"} \cup Operator

\* Type invariant; a thread's loop variable keeps its residue.
TypeOK == /\ kernel \in Kernels /\ crew \in Crews
          /\ hpc \in [Host -> {"called", "set", "mark", "launch", "returned"}]
          /\ attr_set \in BOOLEAN
          /\ attribute \in {"unset", "refused", "set"}
          /\ rejected \in {"none", "unset", "refused"}
          /\ pc \in [Thread -> 0 .. End]
          /\ idx \in [Thread -> Nat]
          /\ \A t \in Thread : idx[t] % BlockDimX = t
          /\ read \in [Thread -> BOOLEAN]
          /\ spoiled \subseteq 1 .. End
          /\ mem \in [Location -> Value]

\* Two threads never meet on a location that one of them writes: each barrier of
\* the kernels stands where the next statement needs what the others did before
\* it, whichever threads an operator leaves idle.
NoRace == \A t, u \in Thread :
             t # u => Writes(t) \cap (Reads(u) \cup Writes(u)) = {}

AllPast(o) == \A t \in Thread : pc[t] > 0 /\
                 \E i \in 1 .. pc[t] - 1 : Program[i] = o

\* "As (S/L) is kept resident through the whole pipeline so the back-transform
\* trsm has L available": no later operator, tile or workspace gets in its way.
FactorSurvives ==
    AllPast(Run("potrf")) \/ AllPast(Load("L", "M")) =>
        \A i \in Triangle : Held(As(i)) = "L"

\* What a kernel's caller is to find in its arrays.
Expected(array, i) ==
    CASE array = "W" -> "W"
      [] array = "U" -> IF kernel = "reduce_eig_n54" THEN "V" ELSE "U"
      [] array = "L" -> IF Lower(i) THEN "L" ELSE IF kernel = "chol_n54" THEN "zero" ELSE "S"
      [] array = "M" -> IF kernel = "reduce_n54" /\ ~Lower(i) THEN "zero" ELSE "M"

Ended == \A t \in Thread : pc[t] = End

Stores == {s \in {Program[i] : i \in DOMAIN Program} : s.do = "store"}

\* A block that has ended has delivered every element of every array, each the
\* result of the whole pipeline, and the verdict of the operator that reports last.
ResultsDelivered ==
    Ended =>
      /\ \A s \in Stores : \A a \in s.arrays : \A i \in 0 .. Count(s) - 1 :
            mem[Out(a, i)] = Expected(a, i)
      /\ \A b \in 0 .. Batch - 1 :
            mem[Info(b)] = IF \E t \in DOMAIN Program : Program[t] = Run("heev")
                           THEN "heev" ELSE "potrf"

\* A launch lacks its shared memory only if setting the attribute has failed: two
\* threads that meet in a wrapper cannot launch before one has set it.
RejectedOnlyIfRefused == rejected # "unset"

\* No thread waits for ever at a barrier: a block that starts ends.
BlockEnds == \A t \in Thread : pc[t] = 1 ~> pc[t] = End
=============================================================================
