-------------------------- MODULE FusedResultsProofs --------------------------
(***************************************************************************)
(* What a block of FusedKernel computes, for matrices and batches of any   *)
(* size, any number of threads and any crews of the operators: every cell  *)
(* holds what the last statement of the program that writes it gives it.   *)
(***************************************************************************)
EXTENDS FusedKernelProofs
-----------------------------------------------------------------------------
\* What a kernel computes.

\* The cells that a copy loop writes for an element.
CopyCells(s, i) == IF s.do = "load" THEN LoadCells(s, i) ELSE StoreCells(s, i)

\* Thread t writes cell c in round i of statement p.
Assigned(p, t, i, c) ==
    LET s == Program[p]
    IN  \/ /\ s.do \in {"load", "store"} /\ i < Count(s) /\ i % BlockDimX = t
           /\ c \in CopyCells(s, i)
        \/ /\ s.do = "run" /\ t \in crew[s.op] /\ i = 0
           /\ c \in WriteShare(s.op, t)

\* It has done so.
Past(p, t, i) ==
    \/ pc[t] > p
    \/ pc[t] = p /\ Program[p].do \in {"load", "store"} /\ idx[t] > i

\* What it writes.
Gives(p, i, c) ==
    LET s == Program[p]
    IN  CASE s.do = "load" -> IF c \in As(i) THEN Given(s.as, i) ELSE Given(s.bs, i)
          [] s.do = "store" -> Expected(c[1], i)
          [] s.do = "run" ->
                IF c[1] = "info" THEN s.op
                ELSE IF c \in Workspace THEN "scratch"
                ELSE IF \E j \in Eigenvalues : c \in Lambda(j) THEN "W"
                ELSE Meaning(Described(s.op)).gives

\* Some thread has written c in a statement after p.
Overwritten(p, c) ==
    \E q \in DOMAIN Program : \E u \in Thread : \E j \in Elements :
       q > p /\ Assigned(q, u, j, c) /\ Past(q, u, j)

\* Loop variables start at the thread's number.
StartInv == \A t \in Thread : pc[t] = 0 => idx[t] = t

\* Nobody leaves an operator it works in before the whole crew has read.
CrewInv ==
    \A u \in Thread : \A q \in DOMAIN Program :
       q < pc[u] /\ Program[q].do = "run" /\ u \in crew[Program[q].op] =>
          \A t \in crew[Program[q].op] : pc[t] > q \/ (pc[t] = q /\ read[t])

\* No operator has read anything wrong, and each cell holds what the last statement
\* gave it.
DataInv ==
    /\ spoiled = {}
    /\ \A p \in DOMAIN Program : \A t \in Thread : \A i \in Elements : \A c \in Location :
          Assigned(p, t, i, c) /\ Past(p, t, i) /\ ~Overwritten(p, c) =>
             mem[c] = Gives(p, i, c)

FlowInv == StartInv /\ CrewInv /\ DataInv
-----------------------------------------------------------------------------
\* The operators of the invariant.

\* A step that keeps the kernel leaves the tiles, their elements and the lengths of
\* the loops alone.
LEMMA SameAreas ==
    ASSUME kernel' = kernel
    PROVE  /\ Elements' = Elements /\ Eigenvalues' = Eigenvalues /\ Workspace' = Workspace
           /\ \A i : As(i)' = As(i) /\ Bs(i)' = Bs(i) /\ Lambda(i)' = Lambda(i)
           /\ \A o : WrittenOf(o)' = WrittenOf(o)
           /\ \A s : Count(s)' = Count(s)
<1>1. Batch' = Batch  BY SameProgram
<1>2. BsOffset' = BsOffset /\ LambdaOffset' = LambdaOffset
      /\ WorkspaceOffset' = WorkspaceOffset
  BY <1>1 DEF BsOffset, LambdaOffset, WorkspaceOffset, TileCells
<1>3. Elements' = Elements /\ Eigenvalues' = Eigenvalues  BY <1>1 DEF Elements, Eigenvalues
<1>4. Workspace' = Workspace  BY <1>2 DEF Workspace, Shared
<1>5. \A i : As(i)' = As(i) /\ Bs(i)' = Bs(i) /\ Lambda(i)' = Lambda(i)
  BY <1>2 DEF As, Bs, Lambda, Shared
<1>6. \A o : WrittenOf(o)' = WrittenOf(o)
  BY <1>3 DEF WrittenOf, Triangle, Whole
<1>7. \A s : Count(s)' = Count(s)  BY <1>1 DEF Count
<1> QED  BY <1>3, <1>4, <1>5, <1>6, <1>7

\* One that keeps the crews as well leaves their members' shares alone.
LEMMA SameShares ==
    ASSUME kernel' = kernel, crew' = crew, NEW o, NEW t
    PROVE  WriteShare(o, t)' = WriteShare(o, t)
<1>1. /\ Eigenvalues' = Eigenvalues /\ Workspace' = Workspace /\ Batch' = Batch
      /\ \A i : As(i)' = As(i) /\ Bs(i)' = Bs(i) /\ Lambda(i)' = Lambda(i)
      /\ WrittenOf(o)' = WrittenOf(o)
  BY SameAreas, SameProgram
<1>2. TileShare(o, t)' = TileShare(o, t)
  BY <1>1 DEF TileShare, Tile, Share, Rank
<1>3. LambdaShare(o, t)' = LambdaShare(o, t)
  BY <1>1 DEF LambdaShare, Share, Rank
<1>4. WorkShare(o, t)' = WorkShare(o, t)
  BY <1>1 DEF WorkShare, Rank
<1>5. InfoShare(o, t)' = InfoShare(o, t)
  BY <1>1 DEF InfoShare, Share, Rank, Info
<1> QED  BY <1>2, <1>3, <1>4, <1>5 DEF WriteShare

\* Such a step does not change who is to write what either.
LEMMA SameDuties ==
    ASSUME kernel' = kernel, crew' = crew
    PROVE  /\ \A p, t, i, c : Assigned(p, t, i, c)' = Assigned(p, t, i, c)
           /\ \A p, i, c : Gives(p, i, c)' = Gives(p, i, c)
<1>1. /\ Eigenvalues' = Eigenvalues /\ Workspace' = Workspace /\ Program' = Program
      /\ \A i : As(i)' = As(i) /\ Bs(i)' = Bs(i) /\ Lambda(i)' = Lambda(i)
      /\ \A s : Count(s)' = Count(s)
  BY SameAreas, SameProgram
<1>2. \A o, t : WriteShare(o, t)' = WriteShare(o, t)  BY SameShares
<1>3. \A s, i : CopyCells(s, i)' = CopyCells(s, i)
  BY <1>1 DEF CopyCells, LoadCells, StoreCells, Out
<1>4. \A p, t, i, c : Assigned(p, t, i, c)' = Assigned(p, t, i, c)
  BY <1>1, <1>2, <1>3 DEF Assigned
<1>5. \A o : Described(o)' = Described(o)  BY DEF Described
<1>6. \A a, i : Expected(a, i)' = Expected(a, i)  BY DEF Expected, Lower
<1>7. \A p, i, c : Gives(p, i, c)' = Gives(p, i, c)
  BY <1>1, <1>5, <1>6 DEF Gives, Given, Lower, Meaning
<1> QED  BY <1>4, <1>7

\* Numbers of one residue lie a multiple of the divisor apart.
LEMMA SameResidue ==
    ASSUME NEW b \in Nat \ {0}, NEW x \in Nat, NEW y \in Nat
    PROVE  /\ x % b <= x
           /\ x % b = y % b /\ x <= y /\ y < x + b => x = y
<1>1. x = b * (x \div b) + (x % b) /\ (x % b) \in 0 .. b - 1 /\ (x \div b) \in Int
  OBVIOUS
<1>2. y = b * (y \div b) + (y % b) /\ (y % b) \in 0 .. b - 1 /\ (y \div b) \in Int
  OBVIOUS
<1>3. ASSUME NEW q \in Int, NEW r \in 0 .. b - 1, x = b * q + r
      PROVE  r <= x
  <2>1. q >= 0
    <3>1. CASE q <= -1
      <4>1. b * q <= -b  BY <3>1
      <4> QED  BY <4>1, <1>3
    <3> QED  BY <3>1
  <2>2. b * q >= 0  BY <2>1
  <2> QED  BY <2>2, <1>3
<1>4. ASSUME NEW q \in Int, NEW k \in Int, NEW r \in 0 .. b - 1,
             x = b * q + r, y = b * k + r, x <= y, y < x + b
      PROVE  x = y
  <2>1. b * (k - q) = y - x  BY <1>4
  <2>2. k - q = 0
    <3>1. CASE k - q >= 1
      <4>1. b * (k - q) >= b  BY <3>1
      <4> QED  BY <4>1, <2>1, <1>4
    <3>2. CASE k - q <= -1
      <4>1. b * (k - q) <= -b  BY <3>2
      <4> QED  BY <4>1, <2>1, <1>4
    <3> QED  BY <3>1, <3>2
  <2> QED  BY <2>1, <2>2
<1>5. x % b <= x
  <2> DEFINE q == x \div b
             r == x % b
  <2>1. q \in Int /\ r \in 0 .. b - 1 /\ x = b * q + r  BY <1>1
  <2> HIDE DEF q, r
  <2>2. r <= x  BY <2>1, <1>3
  <2> QED  BY <2>2 DEF r
<1>6. ASSUME x % b = y % b, x <= y, y < x + b  PROVE x = y
  <2> DEFINE q == x \div b
             k == y \div b
             r == x % b
  <2>1. q \in Int /\ k \in Int /\ r \in 0 .. b - 1 /\ x = b * q + r /\ y = b * k + r
    BY <1>1, <1>2, <1>6
  <2> HIDE DEF q, k, r
  <2> QED  BY <2>1, <1>4, <1>6
<1> QED  BY <1>5, <1>6

\* The members of a crew have all the ranks below its size.
LEMMA RanksReached ==
    ASSUME NEW c \in SUBSET Thread, c # {}
    PROVE  /\ Cardinality(c) \in Nat \ {0}
           /\ \A k \in 0 .. Cardinality(c) - 1 : \E t \in c : Rank(t, c) = k
<1>1. IsFiniteSet(Thread)
  <2>1. BlockDimX - 1 \in Int /\ 0 \in Int  BY KernelAssumption
  <2> QED  BY <2>1, FS_Interval DEF Thread
<1>2. IsFiniteSet(c)  BY <1>1, FS_Subset
<1>3. Cardinality(c) \in Nat \ {0}  BY <1>2, FS_CardinalityType, FS_EmptySet
<1> DEFINE n == Cardinality(c)
           slots == 0 .. n - 1
           rank == [t \in c |-> Rank(t, c)]
<1>4. IsFiniteSet(slots) /\ Cardinality(slots) = n
  <2> HIDE DEF n
  <2>1. n \in Nat \ {0}  BY <1>3 DEF n
  <2>2. 0 \in Int /\ n - 1 \in Int  BY <2>1
  <2>3. /\ IsFiniteSet(0 .. n - 1)
        /\ Cardinality(0 .. n - 1) = IF 0 > n - 1 THEN 0 ELSE (n - 1) - 0 + 1
    BY <2>2, FS_Interval
  <2> QED  BY <2>1, <2>3
<1>5. ASSUME NEW t \in c  PROVE Rank(t, c) \in slots
  <2> DEFINE below == {u \in c : u < t}
  <2>1. below \subseteq c /\ t \notin below
    <3>1. t \in Int  BY KernelAssumption DEF Thread
    <3> QED  BY <3>1
  <2>2. below # c  BY <2>1
  <2> HIDE DEF below
  <2>3. IsFiniteSet(below) /\ Cardinality(below) <= n /\ Cardinality(below) # n
    BY <1>2, <2>1, <2>2, FS_Subset
  <2>4. Cardinality(below) \in Nat  BY <2>3, FS_CardinalityType
  <2> DEFINE m == Cardinality(below)
  <2> HIDE DEF n
  <2>5. n \in Nat  BY <1>3 DEF n
  <2>6. Cardinality(below) \in 0 .. n - 1  BY <2>3, <2>4, <2>5
  <2> QED  BY <2>6 DEF Rank, below
<1>6. rank \in Injection(c, slots)
  <2>1. rank \in [c -> slots]  BY <1>5
  <2>2. \A t, u \in c : rank[t] = rank[u] => t = u
    BY RanksDiffer
  <2> HIDE DEF rank, slots
  <2> QED  BY <2>1, <2>2 DEF Injection, IsInjective
<1>7. rank \in Surjection(c, slots)
  BY <1>2, <1>4, <1>6, FS_Injection
<1> QED  BY <1>3, <1>7 DEF Surjection
-----------------------------------------------------------------------------
\* Duties and progress.

\* The rounds of a loop and of an operator are numbers of elements.
LEMMA ElementsAreNaturals ==
    /\ 0 \in Elements
    /\ \A i \in Elements : i \in Nat
    /\ \A b \in 0 .. Batch - 1 : b \in Nat
<1> DEFINE s == kN * kN * Batch
<1>1. s \in Nat \ {0} /\ Batch \in Nat \ {0}  BY Offsets
<1>2. Elements = 0 .. s - 1  BY DEF Elements
<1> HIDE DEF s
<1> QED  BY <1>1, <1>2

\* A statement that writes is no barrier.
LEMMA BarriersWriteNothing ==
    ASSUME NEW p, NEW t, NEW i, NEW c, Assigned(p, t, i, c)
    PROVE  Program[p] # Sync /\ Program[p].do \in {"load", "store", "run"}
<1>1. Program[p].do \in {"load", "store", "run"}  BY DEF Assigned
<1>2. Sync.do = "sync"  BY DEF Sync
<1> QED  BY <1>1, <1>2

\* Every statement leaves each cell to one thread, in one round.
LEMMA DutiesApart ==
    ASSUME TypeOK, NEW p \in DOMAIN Program, NEW t \in Thread, NEW u \in Thread,
           NEW i \in Elements, NEW j \in Elements, NEW c,
           Assigned(p, t, i, c), Assigned(p, u, j, c)
    PROVE  t = u /\ i = j
<1> DEFINE s == Program[p]
<1>1. s \in Statement(Runs)  BY Typing, ProgramFacts
<1>2. CASE s.do \in {"load", "store"}
  <2>1. /\ i % BlockDimX = t /\ j % BlockDimX = u
        /\ c \in CopyCells(s, i) /\ c \in CopyCells(s, j)
    BY <1>2 DEF Assigned
  <2> HIDE DEF s
  <2>2. i = j  BY <2>1, CopiesApart DEF CopyCells
  <2> QED  BY <2>1, <2>2
<1>3. CASE s.do = "run"
  <2>1. /\ i = 0 /\ j = 0 /\ t \in crew[s.op] /\ u \in crew[s.op]
        /\ c \in WriteShare(s.op, t) /\ c \in WriteShare(s.op, u)
    BY <1>3 DEF Assigned
  <2> HIDE DEF s
  <2>2. s.op \in Operator  BY <1>1, <1>3, Kinds DEF Runs, Operator
  <2>3. crew[s.op] \in SUBSET Thread  BY <2>2, Typing
  <2>4. t = u  BY <2>1, <2>2, <2>3, WritesApart
  <2> QED  BY <2>1, <2>4
<1> QED  BY <1>2, <1>3, BarriersWriteNothing

\* A round of a copy loop is the only thing that becomes past by it.
LEMMA PastByCopy ==
    ASSUME TypeOK, NEW t \in Thread, Copy(t),
           NEW q \in DOMAIN Program, NEW u \in Thread, NEW j \in Elements, NEW c,
           Assigned(q, u, j, c)
    PROVE  Past(q, u, j)' <=> Past(q, u, j) \/ (q = pc[t] /\ u = t /\ j = idx[t])
<1>1. /\ pc' = pc /\ idx' = [idx EXCEPT ![t] = idx[t] + BlockDimX]
      /\ kernel' = kernel
      /\ Program[pc[t]].do \in {"load", "store"}
  BY DEF Copy, InLoop, Doing
<1>2. Program' = Program  BY <1>1, SameProgram
<1>3. /\ pc \in [Thread -> 0 .. End] /\ idx \in [Thread -> Nat]
      /\ idx[t] % BlockDimX = t /\ BlockDimX \in Nat \ {0} /\ j \in Nat
  BY Typing, KernelAssumption, ElementsAreNaturals
<1>4. CASE u # t
  <2>1. idx'[u] = idx[u]  BY <1>1, <1>3, <1>4
  <2> QED  BY <1>1, <1>2, <1>4, <2>1 DEF Past
<1>5. CASE u = t /\ q # pc[t]
  BY <1>1, <1>2, <1>5 DEF Past
<1>6. CASE u = t /\ q = pc[t]
  <2>1. idx'[t] = idx[t] + BlockDimX  BY <1>1, <1>3
  <2>2. Past(q, u, j) <=> idx[t] > j
    <3>1. ~(pc[t] > pc[t])  BY <1>3
    <3> QED  BY <1>1, <1>6, <3>1 DEF Past
  <2>3. Past(q, u, j)' <=> idx[t] + BlockDimX > j
    <3>1. ~(pc[t] > pc[t])  BY <1>3
    <3> QED  BY <1>1, <1>2, <1>6, <2>1, <3>1 DEF Past
  <2>4. j % BlockDimX = t  BY <1>1, <1>6 DEF Assigned
  <2>5. idx[t] <= j /\ idx[t] + BlockDimX > j => idx[t] = j
    BY <1>3, <2>4, SameResidue
  <2> QED  BY <1>3, <1>6, <2>2, <2>3, <2>5
<1> QED  BY <1>4, <1>5, <1>6

\* A thread that goes on to its next statement makes past what it leaves behind, and
\* nothing else.
LEMMA PastByLeaving ==
    ASSUME TypeOK, NEW t \in Thread, Leave(t), kernel' = kernel,
           NEW q \in DOMAIN Program, NEW u \in Thread, NEW j \in Elements, NEW c,
           Assigned(q, u, j, c)
    PROVE  Past(q, u, j)' <=> Past(q, u, j) \/ (q = pc[t] /\ u = t)
<1>1. pc' = [pc EXCEPT ![t] = pc[t] + 1] /\ idx' = [idx EXCEPT ![t] = t]
  BY DEF Leave
<1>2. Program' = Program  BY SameProgram
<1>3. /\ pc \in [Thread -> 0 .. End] /\ idx \in [Thread -> Nat]
      /\ BlockDimX \in Nat \ {0} /\ j \in Nat /\ t \in Nat
      /\ DOMAIN Program = 1 .. Len(Program) /\ Len(Program) \in Nat
  <2>1. pc \in [Thread -> 0 .. End] /\ idx \in [Thread -> Nat]  BY Typing
  <2>2. BlockDimX \in Nat \ {0} /\ t \in Nat  BY KernelAssumption DEF Thread
  <2>3. DOMAIN Program = 1 .. Len(Program) /\ Len(Program) \in Nat
    BY Typing, ProgramFacts
  <2> QED  BY <2>1, <2>2, <2>3, ElementsAreNaturals
<1>4. CASE u # t
  <2>1. idx'[u] = idx[u] /\ pc'[u] = pc[u]  BY <1>1, <1>3, <1>4
  <2> QED  BY <1>2, <1>4, <2>1 DEF Past
<1>5. CASE u = t
  <2>1. pc'[t] = pc[t] + 1 /\ idx'[t] = t  BY <1>1, <1>3
  <2>2. pc[t] \in Nat /\ q \in Nat  BY <1>3, Typing, ProgramFacts
  <2>3. CASE q = pc[t] + 1
    <3>1. Program[q].do \in {"load", "store"} => j % BlockDimX = t
      BY <1>5 DEF Assigned
    <3>2. Program[q].do \in {"load", "store"} => ~(t > j)
      <4>1. j % BlockDimX <= j  BY <1>3, SameResidue
      <4> QED  BY <1>3, <3>1, <4>1
    <3>3. ~Past(q, u, j)'
      BY <1>2, <1>5, <2>1, <2>2, <2>3, <3>2 DEF Past
    <3>4. ~Past(q, u, j)
      BY <1>5, <2>2, <2>3 DEF Past
    <3> QED  BY <2>2, <2>3, <3>3, <3>4
  <2>4. CASE q # pc[t] + 1
    <3>1. Past(q, u, j)' <=> pc[t] + 1 > q
      BY <1>5, <2>1, <2>4 DEF Past
    <3>2. q # pc[t] => (Past(q, u, j) <=> pc[t] > q)
      BY <1>5 DEF Past
    <3> QED  BY <1>5, <2>2, <2>4, <3>1, <3>2
  <2> QED  BY <2>3, <2>4
<1> QED  BY <1>4, <1>5
\* What stands behind a thread's statement, but for the second of two stores, has
\* been reached by nobody.
LEMMA NothingLater ==
    ASSUME TypeOK, Aligned, NEW t \in Thread, NEW u \in Thread, NEW q \in DOMAIN Program,
           NEW j, pc[t] \in DOMAIN Program, Program[pc[t]] # Sync, Program[q] # Sync,
           pc[t] < q, Past(q, u, j)
    PROVE  LastStores(Program, pc[t]) /\ q = pc[t] + 1
<1>1. /\ Len(Program) \in Nat /\ DOMAIN Program = 1 .. Len(Program)
      /\ \A p \in 1 .. Len(Program) - 1 :
            Program[p] = Sync \/ Program[p + 1] = Sync \/ LastStores(Program, p)
  BY Typing, ProgramFacts
<1>2. pc[u] \in Nat
  <2>1. pc[u] \in 0 .. End /\ End \in Nat  BY <1>1, Typing, ProgramFacts
  <2> QED  BY <2>1
<1>3. pc[u] >= q  BY <1>1, <1>2 DEF Past
<1>4. pc[t] \in 1 .. Len(Program) - 1 /\ pc[t] + 1 <= q  BY <1>1
<1>5. Program[pc[t] + 1] # Sync
  <2> SUFFICES ASSUME Program[pc[t] + 1] = Sync  PROVE FALSE
    OBVIOUS
  <2>1. pc[t] + 1 \in 1 .. pc[u] - 1
    <3>1. q # pc[t] + 1  OBVIOUS
    <3> QED  BY <1>1, <1>2, <1>3, <1>4, <3>1
  <2>2. pc[t] >= pc[t] + 1  BY <2>1 DEF Aligned
  <2> QED  BY <1>1, <2>2
<1>6. LastStores(Program, pc[t])  BY <1>1, <1>4, <1>5
<1>7. pc[t] + 1 = Len(Program)  BY <1>6 DEF LastStores
<1> QED  BY <1>1, <1>4, <1>6, <1>7

\* Where a thread is to write, no later statement has written.
LEMMA NotOverwritten ==
    ASSUME TypeOK, Aligned, NEW t \in Thread, NEW k, NEW c, pc[t] \in DOMAIN Program,
           Assigned(pc[t], t, k, c)
    PROVE  ~Overwritten(pc[t], c)
<1> SUFFICES ASSUME NEW q \in DOMAIN Program, NEW u \in Thread, NEW j \in Elements,
                    q > pc[t], Assigned(q, u, j, c), Past(q, u, j)
             PROVE  FALSE
  BY DEF Overwritten
<1>1. LastStores(Program, pc[t]) /\ q = pc[t] + 1
  <2>1. Program[pc[t]] # Sync /\ Program[q] # Sync  BY BarriersWriteNothing
  <2>2. pc[t] < q  BY Typing, ProgramFacts
  <2> QED  BY <2>1, <2>2, NothingLater
<1>2. Program[pc[t]] = Store({"W"}, FALSE) /\ Program[q] = Store({"U"}, FALSE)
  BY <1>1 DEF LastStores
<1>3. /\ Program[pc[t]].do = "store" /\ Program[pc[t]].arrays = {"W"}
      /\ Program[q].do = "store" /\ Program[q].arrays = {"U"}
  BY <1>2 DEF Store
<1>4. c \in StoreCells(Program[pc[t]], k) /\ c \in StoreCells(Program[q], j)
  BY <1>3 DEF Assigned, CopyCells
<1>5. c[1] = "W" /\ c[1] = "U"  BY <1>3, <1>4, Addresses DEF StoreCells
<1> QED  BY <1>5
-----------------------------------------------------------------------------
\* Memory follows the program.

\* A step that writes nothing keeps what the cells hold right.
LEMMA DataKept ==
    ASSUME DataInv, kernel' = kernel, crew' = crew, mem' = mem, spoiled' = spoiled,
           \A q \in DOMAIN Program : \A u \in Thread : \A j \in Elements : \A c :
              Assigned(q, u, j, c) => (Past(q, u, j)' <=> Past(q, u, j))
    PROVE  DataInv'
<1>1. /\ Program' = Program /\ Elements' = Elements /\ Location' = Location
      /\ Thread' = Thread
  BY SameProgram, SameAreas DEF Thread
<1>2. /\ \A p, t, i, c : Assigned(p, t, i, c)' = Assigned(p, t, i, c)
      /\ \A p, i, c : Gives(p, i, c)' = Gives(p, i, c)
  BY SameDuties
<1>3. \A p, c : Overwritten(p, c)' <=> Overwritten(p, c)
  BY <1>1, <1>2 DEF Overwritten
<1> QED  BY <1>1, <1>2, <1>3 DEF DataInv

\* A step that writes what its thread has to write, and nothing else, keeps what the
\* cells hold right, too.
LEMMA DataWritten ==
    ASSUME TypeOK, Aligned, DataInv, NEW t \in Thread, NEW k \in Elements,
           NEW p \in DOMAIN Program, p = pc[t], ~Past(p, t, k),
           kernel' = kernel, crew' = crew, spoiled' = spoiled,
           \A q \in DOMAIN Program : \A u \in Thread : \A j \in Elements : \A c :
              Assigned(q, u, j, c) =>
                 (Past(q, u, j)' <=> Past(q, u, j) \/ (q = p /\ u = t /\ j = k)),
           \A c \in Location : Assigned(p, t, k, c) => mem'[c] = Gives(p, k, c),
           \A c \in Location : ~Assigned(p, t, k, c) => mem'[c] = mem[c]
    PROVE  DataInv'
<1>1. /\ Program' = Program /\ Elements' = Elements /\ Location' = Location
      /\ Thread' = Thread
  BY SameProgram, SameAreas DEF Thread
<1>2. /\ \A q, u, i, c : Assigned(q, u, i, c)' = Assigned(q, u, i, c)
      /\ \A q, i, c : Gives(q, i, c)' = Gives(q, i, c)
  BY SameDuties
<1> SUFFICES ASSUME NEW q \in DOMAIN Program, NEW u \in Thread, NEW j \in Elements,
                    NEW c \in Location,
                    Assigned(q, u, j, c), Past(q, u, j)', ~Overwritten(q, c)'
             PROVE  mem'[c] = Gives(q, j, c)
  BY <1>1, <1>2 DEF DataInv
<1>3. ~\E r \in DOMAIN Program : \E x \in Thread : \E y \in Elements :
          r > q /\ Assigned(r, x, y, c) /\ Past(r, x, y)'
  BY <1>1, <1>2 DEF Overwritten
<1>4. CASE q = p /\ u = t /\ j = k
  BY <1>4
<1>5. CASE ~(q = p /\ u = t /\ j = k)
  <2>1. Past(q, u, j)  BY <1>5
  <2>2. ~Overwritten(q, c)
    <3> SUFFICES ASSUME NEW r \in DOMAIN Program, NEW x \in Thread, NEW y \in Elements,
                        r > q, Assigned(r, x, y, c), Past(r, x, y)
                 PROVE  FALSE
      BY DEF Overwritten
    <3>1. Past(r, x, y)'  OBVIOUS
    <3> QED  BY <1>3, <3>1
  <2>3. mem[c] = Gives(q, j, c)  BY <2>1, <2>2 DEF DataInv
  <2>4. ~Assigned(p, t, k, c)
    <3> SUFFICES ASSUME Assigned(p, t, k, c)  PROVE FALSE
      OBVIOUS
    <3>1. q \in Nat /\ p \in Nat  BY Typing, ProgramFacts
    <3>2. CASE q < p
      <4>1. Past(p, t, k)'  OBVIOUS
      <4>2. p > q  BY <3>1, <3>2
      <4> QED  BY <1>3, <4>1, <4>2
    <3>3. CASE q = p
      <4>1. u = t /\ j = k  BY <3>3, DutiesApart
      <4> QED  BY <1>5, <3>3, <4>1
    <3>4. CASE q > p
      <4>1. Overwritten(p, c)  BY <2>1, <3>4 DEF Overwritten
      <4> QED  BY <4>1, NotOverwritten
    <3> QED  BY <3>1, <3>2, <3>3, <3>4
  <2> QED  BY <2>3, <2>4
<1> QED  BY <1>4, <1>5
-----------------------------------------------------------------------------
\* The programs, statement by statement.

\* A program that loads S and factors it.
StartsWith(s, b) ==
    /\ s[1] = Load("S", b) /\ s[2] = Sync /\ s[3] = Run("potrf") /\ s[4] = Sync

\* One that goes on to M.
Reduces(s) ==
    /\ StartsWith(s, "H")
    /\ s[5] = Run("trsmLeft") /\ s[6] = Sync /\ s[7] = Run("trsmRight") /\ s[8] = Sync

\* Every kernel's program.
Listed(s) ==
    /\ kernel = "chol_n54" =>
          Len(s) = 5 /\ StartsWith(s, "none") /\ s[5] = Store({"L"}, TRUE)
    /\ kernel = "reduce_n54" => Len(s) = 9 /\ Reduces(s) /\ s[9] = Store({"M"}, TRUE)
    /\ kernel = "geneig_reduce" =>
          Len(s) = 9 /\ Reduces(s) /\ s[9] = Store({"L", "M"}, FALSE)
    /\ kernel = "reduce_eig_n54" =>
          /\ Len(s) = 12 /\ Reduces(s)
          /\ s[9] = Run("heev") /\ s[10] = Sync
          /\ s[11] = Store({"W"}, FALSE) /\ s[12] = Store({"U"}, FALSE)
    /\ kernel \in {"full_n54", "full_n54_batched", "geneig_full"} =>
          /\ Len(s) = 14 /\ Reduces(s)
          /\ s[9] = Run("heev") /\ s[10] = Sync
          /\ s[11] = Run("trsmLeftConj") /\ s[12] = Sync
          /\ s[13] = Store({"W"}, FALSE) /\ s[14] = Store({"U"}, FALSE)
    /\ kernel = "finish_n54" =>
          /\ Len(s) = 8 /\ s[1] = Load("L", "M") /\ s[2] = Sync
          /\ s[3] = Run("heev") /\ s[4] = Sync
          /\ s[5] = Run("trsmLeftConj") /\ s[6] = Sync
          /\ s[7] = Store({"W"}, FALSE) /\ s[8] = Store({"U"}, FALSE)

\* Where the statements of the kernel that only factors stand.
LEMMA ShortProgram ==
    ASSUME NEW y, NEW a, NEW b, NEW c, NEW s, s = (<<a, y>> \o <<b, y>>) \o <<c>>
    PROVE  Len(s) = 5 /\ s[1] = a /\ s[2] = y /\ s[3] = b /\ s[4] = y /\ s[5] = c
  OBVIOUS

\* Where the statements of a kernel that reduces stand.
LEMMA ReducingProgram ==
    ASSUME NEW y, NEW a, NEW b, NEW c, NEW d, NEW e, NEW s,
           s = ((<<a, y>> \o <<b, y>>) \o <<c, y, d, y>>) \o <<e>>
    PROVE  /\ Len(s) = 9 /\ s[1] = a /\ s[2] = y /\ s[3] = b /\ s[4] = y
           /\ s[5] = c /\ s[6] = y /\ s[7] = d /\ s[8] = y /\ s[9] = e
  OBVIOUS

\* Where the statements of the kernel that solves without transforming stand.
LEMMA SolvingProgram ==
    ASSUME NEW y, NEW a, NEW b, NEW c, NEW d, NEW e, NEW f, NEW g, NEW s,
           s = (((<<a, y>> \o <<b, y>>) \o <<c, y, d, y>>) \o <<e, y>>) \o <<f, g>>
    PROVE  /\ Len(s) = 12 /\ s[1] = a /\ s[2] = y /\ s[3] = b /\ s[4] = y
           /\ s[5] = c /\ s[6] = y /\ s[7] = d /\ s[8] = y
           /\ s[9] = e /\ s[10] = y /\ s[11] = f /\ s[12] = g
  OBVIOUS

\* Where the statements of the kernels that do everything stand.
LEMMA FullProgram ==
    ASSUME NEW y, NEW a, NEW b, NEW c, NEW d, NEW e, NEW f, NEW g, NEW h, NEW s,
           s = ((((<<a, y>> \o <<b, y>>) \o <<c, y, d, y>>) \o <<e, y>>) \o <<f, y>>)
                  \o <<g, h>>
    PROVE  /\ Len(s) = 14 /\ s[1] = a /\ s[2] = y /\ s[3] = b /\ s[4] = y
           /\ s[5] = c /\ s[6] = y /\ s[7] = d /\ s[8] = y
           /\ s[9] = e /\ s[10] = y /\ s[11] = f /\ s[12] = y /\ s[13] = g /\ s[14] = h
  OBVIOUS

\* Where the statements of the kernel that continues from L and M stand.
LEMMA FinishingProgram ==
    ASSUME NEW y, NEW a, NEW b, NEW c, NEW d, NEW e, NEW s,
           s = ((<<a, y>> \o <<b, y>>) \o <<c, y>>) \o <<d, e>>
    PROVE  /\ Len(s) = 8 /\ s[1] = a /\ s[2] = y /\ s[3] = b /\ s[4] = y
           /\ s[5] = c /\ s[6] = y /\ s[7] = d /\ s[8] = e
  OBVIOUS

\* The statements of the eight programs.
LEMMA ProgramListed ==
    ASSUME kernel \in Kernels
    PROVE  Listed(Program)
<1> DEFINE ls == Load("S", "none")
           lh == Load("S", "H")
           lm == Load("L", "M")
           po == Run("potrf")
           tl == Run("trsmLeft")
           tr == Run("trsmRight")
           he == Run("heev")
           tc == Run("trsmLeftConj")
           sw == Store({"W"}, FALSE)
           su == Store({"U"}, FALSE)
           sl == Store({"L"}, TRUE)
           sm == Store({"M"}, TRUE)
           sb == Store({"L", "M"}, FALSE)
<1>1. ASSUME kernel = "chol_n54"  PROVE Listed(Program)
  <2>1. Program = (<<ls, Sync>> \o <<po, Sync>>) \o <<sl>>
    BY <1>1 DEF Program, chol_n54, Loaded, Factored
  <2> HIDE DEF ls, po, sl
  <2>2. /\ Len(Program) = 5 /\ Program[1] = ls /\ Program[2] = Sync /\ Program[3] = po
        /\ Program[4] = Sync /\ Program[5] = sl
    BY <2>1, ShortProgram
  <2> QED  BY <1>1, <2>2 DEF Listed, StartsWith, ls, po, sl
<1>2. ASSUME kernel = "finish_n54"  PROVE Listed(Program)
  <2>1. Program = ((<<lm, Sync>> \o <<he, Sync>>) \o <<tc, Sync>>) \o <<sw, su>>
    BY <1>2 DEF Program, finish_n54, Loaded, Solved, Transformed, WrittenBack
  <2> HIDE DEF lm, he, tc, sw, su
  <2>2. /\ Len(Program) = 8 /\ Program[1] = lm /\ Program[2] = Sync
        /\ Program[3] = he /\ Program[4] = Sync /\ Program[5] = tc /\ Program[6] = Sync
        /\ Program[7] = sw /\ Program[8] = su
    BY <2>1, FinishingProgram
  <2> QED  BY <1>2, <2>2 DEF Listed, lm, he, tc, sw, su
<1>3. ASSUME kernel = "reduce_n54"  PROVE Listed(Program)
  <2>1. Program = ((<<lh, Sync>> \o <<po, Sync>>) \o <<tl, Sync, tr, Sync>>) \o <<sm>>
    BY <1>3 DEF Program, reduce_n54, Loaded, Factored, Reduced
  <2> HIDE DEF lh, po, tl, tr, sm
  <2>2. /\ Len(Program) = 9 /\ Program[1] = lh /\ Program[2] = Sync /\ Program[3] = po
        /\ Program[4] = Sync /\ Program[5] = tl /\ Program[6] = Sync /\ Program[7] = tr
        /\ Program[8] = Sync /\ Program[9] = sm
    BY <2>1, ReducingProgram
  <2> QED  BY <1>3, <2>2 DEF Listed, Reduces, StartsWith, lh, po, tl, tr, sm
<1>4. ASSUME kernel = "geneig_reduce"  PROVE Listed(Program)
  <2>1. Program = ((<<lh, Sync>> \o <<po, Sync>>) \o <<tl, Sync, tr, Sync>>) \o <<sb>>
    BY <1>4 DEF Program, geneig_reduce, Loaded, Factored, Reduced
  <2> HIDE DEF lh, po, tl, tr, sb
  <2>2. /\ Len(Program) = 9 /\ Program[1] = lh /\ Program[2] = Sync /\ Program[3] = po
        /\ Program[4] = Sync /\ Program[5] = tl /\ Program[6] = Sync /\ Program[7] = tr
        /\ Program[8] = Sync /\ Program[9] = sb
    BY <2>1, ReducingProgram
  <2> QED  BY <1>4, <2>2 DEF Listed, Reduces, StartsWith, lh, po, tl, tr, sb
<1>5. ASSUME kernel = "reduce_eig_n54"  PROVE Listed(Program)
  <2>1. Program = (((<<lh, Sync>> \o <<po, Sync>>) \o <<tl, Sync, tr, Sync>>)
                      \o <<he, Sync>>) \o <<sw, su>>
    BY <1>5 DEF Program, reduce_eig_n54, Loaded, Factored, Reduced, Solved, WrittenBack
  <2> HIDE DEF lh, po, tl, tr, he, sw, su
  <2>2. /\ Len(Program) = 12 /\ Program[1] = lh /\ Program[2] = Sync /\ Program[3] = po
        /\ Program[4] = Sync /\ Program[5] = tl /\ Program[6] = Sync /\ Program[7] = tr
        /\ Program[8] = Sync /\ Program[9] = he /\ Program[10] = Sync
        /\ Program[11] = sw /\ Program[12] = su
    BY <2>1, SolvingProgram
  <2> QED  BY <1>5, <2>2 DEF Listed, Reduces, StartsWith, lh, po, tl, tr, he, sw, su
<1>6. ASSUME kernel \in {"full_n54", "full_n54_batched", "geneig_full"}
      PROVE  Listed(Program)
  <2>1. Program = ((((<<lh, Sync>> \o <<po, Sync>>) \o <<tl, Sync, tr, Sync>>)
                       \o <<he, Sync>>) \o <<tc, Sync>>) \o <<sw, su>>
    BY <1>6 DEF Program, full_n54, full_n54_batched, geneig_full, Loaded, Factored,
                Reduced, Solved, Transformed, WrittenBack
  <2> HIDE DEF lh, po, tl, tr, he, tc, sw, su
  <2>2. /\ Len(Program) = 14 /\ Program[1] = lh /\ Program[2] = Sync /\ Program[3] = po
        /\ Program[4] = Sync /\ Program[5] = tl /\ Program[6] = Sync /\ Program[7] = tr
        /\ Program[8] = Sync /\ Program[9] = he /\ Program[10] = Sync
        /\ Program[11] = tc /\ Program[12] = Sync /\ Program[13] = sw /\ Program[14] = su
    BY <2>1, FullProgram
  <2> QED  BY <1>6, <2>2 DEF Listed, Reduces, StartsWith, lh, po, tl, tr, he, tc, sw, su
<1> HIDE DEF ls, lh, lm, po, tl, tr, he, tc, sw, su, sl, sm, sb
<1> QED  BY <1>1, <1>2, <1>3, <1>4, <1>5, <1>6, KernelAssumption DEF Static

\* The operators of a kernel, and where they stand.
Has(o) ==
    CASE o = "potrf" -> kernel # "finish_n54"
      [] o \in {"trsmLeft", "trsmRight"} -> kernel \notin {"chol_n54", "finish_n54"}
      [] o = "heev" -> kernel \notin {"chol_n54", "reduce_n54", "geneig_reduce"}
      [] o = "trsmLeftConj" ->
            kernel \notin {"chol_n54", "reduce_n54", "geneig_reduce", "reduce_eig_n54"}

Place(o) ==
    CASE o = "potrf" -> 3
      [] o = "trsmLeft" -> 5
      [] o = "trsmRight" -> 7
      [] o = "heev" -> IF kernel = "finish_n54" THEN 3 ELSE 9
      [] o = "trsmLeftConj" -> IF kernel = "finish_n54" THEN 5 ELSE 11

\* The load that a kernel starts with.
FirstLoad == CASE kernel = "chol_n54" -> Load("S", "none")
               [] kernel = "finish_n54" -> Load("L", "M")
               [] OTHER -> Load("S", "H")

\* The stores that it ends with.
LastStatements ==
    CASE kernel = "chol_n54" -> {Store({"L"}, TRUE)}
      [] kernel = "reduce_n54" -> {Store({"M"}, TRUE)}
      [] kernel = "geneig_reduce" -> {Store({"L", "M"}, FALSE)}
      [] OTHER -> {Store({"W"}, FALSE), Store({"U"}, FALSE)}

\* What a statement is called.
LEMMA Fields ==
    /\ Sync.do = "sync"
    /\ \A a, b : Load(a, b).do = "load" /\ Load(a, b).as = a /\ Load(a, b).bs = b
    /\ \A o : Run(o).do = "run" /\ Run(o).op = o
    /\ \A a, z : /\ Store(a, z).do = "store" /\ Store(a, z).arrays = a
                 /\ Store(a, z).zeroed = z
  BY DEF Sync, Load, Run, Store

\* What position p of a program may hold.
InPlace(p) ==
    \/ p = 1
    \/ Program[p] = Sync
    \/ \E o \in Operator : Has(o) /\ p = Place(o) /\ Program[p] = Run(o)
    \/ /\ Program[p] \in LastStatements /\ p > 3
       /\ \A o \in Operator : Has(o) => Place(o) < p

\* What the operators, the load and the stores of a program are in the kernels.
LEMMA Tables ==
    ASSUME kernel \in Kernels
    PROVE  /\ kernel = "chol_n54" =>
                 /\ \A o \in Operator : Has(o) <=> o = "potrf"
                 /\ FirstLoad = Load("S", "none")
                 /\ LastStatements = {Store({"L"}, TRUE)}
           /\ kernel \in {"reduce_n54", "geneig_reduce"} =>
                 /\ \A o \in Operator : Has(o) <=> o \in {"potrf", "trsmLeft", "trsmRight"}
                 /\ FirstLoad = Load("S", "H")
           /\ kernel = "reduce_n54" => LastStatements = {Store({"M"}, TRUE)}
           /\ kernel = "geneig_reduce" => LastStatements = {Store({"L", "M"}, FALSE)}
           /\ kernel = "reduce_eig_n54" =>
                 /\ \A o \in Operator : Has(o) <=> o # "trsmLeftConj"
                 /\ FirstLoad = Load("S", "H")
                 /\ LastStatements = {Store({"W"}, FALSE), Store({"U"}, FALSE)}
           /\ kernel \in {"full_n54", "full_n54_batched", "geneig_full"} =>
                 /\ \A o \in Operator : Has(o)
                 /\ FirstLoad = Load("S", "H")
                 /\ LastStatements = {Store({"W"}, FALSE), Store({"U"}, FALSE)}
           /\ kernel = "finish_n54" =>
                 /\ \A o \in Operator : Has(o) <=> o \in {"heev", "trsmLeftConj"}
                 /\ FirstLoad = Load("L", "M")
                 /\ LastStatements = {Store({"W"}, FALSE), Store({"U"}, FALSE)}
           /\ Place("potrf") = 3 /\ Place("trsmLeft") = 5 /\ Place("trsmRight") = 7
           /\ Place("heev") = IF kernel = "finish_n54" THEN 3 ELSE 9
           /\ Place("trsmLeftConj") = IF kernel = "finish_n54" THEN 5 ELSE 11
  BY DEF Has, FirstLoad, LastStatements, Place, Operator

\* Every statement of a kernel is its load, a barrier, one of its operators or one of
\* its stores, and each of them has its place.
LEMMA Positions ==
    ASSUME kernel \in Kernels
    PROVE  /\ 1 \in DOMAIN Program /\ Program[1] = FirstLoad
           /\ \A o \in Operator :
                 Has(o) => Place(o) \in DOMAIN Program /\ Program[Place(o)] = Run(o)
           /\ \A p \in DOMAIN Program : InPlace(p)
           /\ \A x \in LastStatements : \E p \in DOMAIN Program : Program[p] = x
<1>1. Listed(Program) /\ DOMAIN Program = 1 .. Len(Program)
  BY ProgramListed, ProgramFacts
<1>2. \A o \in Operator : o \in {"potrf", "trsmLeft", "trsmRight", "heev", "trsmLeftConj"}
  BY DEF Operator
<1>3. Operator = {"potrf", "trsmLeft", "trsmRight", "heev", "trsmLeftConj"}
  BY DEF Operator
<1> DEFINE sl == Store({"L"}, TRUE)
           sm == Store({"M"}, TRUE)
           sb == Store({"L", "M"}, FALSE)
           sw == Store({"W"}, FALSE)
           su == Store({"U"}, FALSE)
<1> DEFINE Right == /\ 1 \in DOMAIN Program /\ Program[1] = FirstLoad
                    /\ \A o \in Operator :
                          Has(o) => Place(o) \in DOMAIN Program /\ Program[Place(o)] = Run(o)
                    /\ \A p \in DOMAIN Program : InPlace(p)
                    /\ \A x \in LastStatements : \E p \in DOMAIN Program : Program[p] = x
<1>4. ASSUME kernel = "chol_n54"  PROVE Right
  <2>1. Len(Program) = 5 /\ DOMAIN Program = 1 .. 5
    BY <1>1, <1>4 DEF Listed
  <2>2. /\ Program[1] = FirstLoad
        /\ Program[3] = Run("potrf")
    BY <1>1, <1>4, Tables DEF Listed, StartsWith
  <2>3. /\ Program[2] = Sync /\ Program[4] = Sync
    BY <1>1, <1>4 DEF Listed, StartsWith
  <2>4. /\ Program[5] = sl
        /\ LastStatements = {sl}
    BY <1>1, <1>4, Tables DEF Listed
  <2> HIDE DEF sl, sm, sb, sw, su
  <2>5. /\ \A o \in Operator : Has(o) <=> o \in {"potrf"}
        /\ Place("potrf") = 3
    BY <1>2, <1>4, Tables
  <2>6. InPlace(1) /\ InPlace(2) /\ InPlace(4)
    BY <2>3 DEF InPlace
  <2>7. InPlace(3)
    BY <1>3, <2>2, <2>5 DEF InPlace
  <2>8. InPlace(5)
    BY <2>4, <2>5 DEF InPlace
  <2>9. \A p \in 1 .. 5 : InPlace(p)
    BY <2>6, <2>7, <2>8
  <2>10. \A x \in LastStatements : \E p \in 1 .. 5 : Program[p] = x
    BY <2>4
  <2>11. \A o \in Operator :
            Has(o) => Place(o) \in DOMAIN Program /\ Program[Place(o)] = Run(o)
    BY <2>1, <2>2, <2>5
  <2> QED  BY <2>1, <2>2, <2>9, <2>10, <2>11
<1>5. ASSUME kernel = "reduce_n54"  PROVE Right
  <2>1. Len(Program) = 9 /\ DOMAIN Program = 1 .. 9
    BY <1>1, <1>5 DEF Listed
  <2>2. /\ Program[1] = FirstLoad
        /\ Program[3] = Run("potrf")
        /\ Program[5] = Run("trsmLeft")
        /\ Program[7] = Run("trsmRight")
    BY <1>1, <1>5, Tables DEF Listed, Reduces, StartsWith
  <2>3. /\ Program[2] = Sync /\ Program[4] = Sync /\ Program[6] = Sync
        /\ Program[8] = Sync
    BY <1>1, <1>5 DEF Listed, Reduces, StartsWith
  <2>4. /\ Program[9] = sm
        /\ LastStatements = {sm}
    BY <1>1, <1>5, Tables DEF Listed
  <2> HIDE DEF sl, sm, sb, sw, su
  <2>5. /\ \A o \in Operator : Has(o) <=> o \in {"potrf", "trsmLeft", "trsmRight"}
        /\ Place("potrf") = 3 /\ Place("trsmLeft") = 5 /\ Place("trsmRight") = 7
    BY <1>2, <1>5, Tables
  <2>6. InPlace(1) /\ InPlace(2) /\ InPlace(4) /\ InPlace(6) /\ InPlace(8)
    BY <2>3 DEF InPlace
  <2>7. InPlace(3) /\ InPlace(5) /\ InPlace(7)
    BY <1>3, <2>2, <2>5 DEF InPlace
  <2>8. InPlace(9)
    BY <2>4, <2>5 DEF InPlace
  <2>9. \A p \in 1 .. 9 : InPlace(p)
    BY <2>6, <2>7, <2>8
  <2>10. \A x \in LastStatements : \E p \in 1 .. 9 : Program[p] = x
    BY <2>4
  <2>11. \A o \in Operator :
            Has(o) => Place(o) \in DOMAIN Program /\ Program[Place(o)] = Run(o)
    BY <2>1, <2>2, <2>5
  <2> QED  BY <2>1, <2>2, <2>9, <2>10, <2>11
<1>6. ASSUME kernel = "geneig_reduce"  PROVE Right
  <2>1. Len(Program) = 9 /\ DOMAIN Program = 1 .. 9
    BY <1>1, <1>6 DEF Listed
  <2>2. /\ Program[1] = FirstLoad
        /\ Program[3] = Run("potrf")
        /\ Program[5] = Run("trsmLeft")
        /\ Program[7] = Run("trsmRight")
    BY <1>1, <1>6, Tables DEF Listed, Reduces, StartsWith
  <2>3. /\ Program[2] = Sync /\ Program[4] = Sync /\ Program[6] = Sync
        /\ Program[8] = Sync
    BY <1>1, <1>6 DEF Listed, Reduces, StartsWith
  <2>4. /\ Program[9] = sb
        /\ LastStatements = {sb}
    BY <1>1, <1>6, Tables DEF Listed
  <2> HIDE DEF sl, sm, sb, sw, su
  <2>5. /\ \A o \in Operator : Has(o) <=> o \in {"potrf", "trsmLeft", "trsmRight"}
        /\ Place("potrf") = 3 /\ Place("trsmLeft") = 5 /\ Place("trsmRight") = 7
    BY <1>2, <1>6, Tables
  <2>6. InPlace(1) /\ InPlace(2) /\ InPlace(4) /\ InPlace(6) /\ InPlace(8)
    BY <2>3 DEF InPlace
  <2>7. InPlace(3) /\ InPlace(5) /\ InPlace(7)
    BY <1>3, <2>2, <2>5 DEF InPlace
  <2>8. InPlace(9)
    BY <2>4, <2>5 DEF InPlace
  <2>9. \A p \in 1 .. 9 : InPlace(p)
    BY <2>6, <2>7, <2>8
  <2>10. \A x \in LastStatements : \E p \in 1 .. 9 : Program[p] = x
    BY <2>4
  <2>11. \A o \in Operator :
            Has(o) => Place(o) \in DOMAIN Program /\ Program[Place(o)] = Run(o)
    BY <2>1, <2>2, <2>5
  <2> QED  BY <2>1, <2>2, <2>9, <2>10, <2>11
<1>7. ASSUME kernel = "reduce_eig_n54"  PROVE Right
  <2>1. Len(Program) = 12 /\ DOMAIN Program = 1 .. 12
    BY <1>1, <1>7 DEF Listed
  <2>2. /\ Program[1] = FirstLoad
        /\ Program[3] = Run("potrf")
        /\ Program[5] = Run("trsmLeft")
        /\ Program[7] = Run("trsmRight")
        /\ Program[9] = Run("heev")
    BY <1>1, <1>7, Tables DEF Listed, Reduces, StartsWith
  <2>3. /\ Program[2] = Sync /\ Program[4] = Sync /\ Program[6] = Sync
        /\ Program[8] = Sync /\ Program[10] = Sync
    BY <1>1, <1>7 DEF Listed, Reduces, StartsWith
  <2>4. /\ Program[11] = sw
        /\ Program[12] = su
        /\ LastStatements = {sw, su}
    BY <1>1, <1>7, Tables DEF Listed
  <2> HIDE DEF sl, sm, sb, sw, su
  <2>5. /\ \A o \in Operator : Has(o) <=> o \in {"potrf", "trsmLeft", "trsmRight", "heev"}
        /\ Place("potrf") = 3 /\ Place("trsmLeft") = 5 /\ Place("trsmRight") = 7
        /\ Place("heev") = 9
    BY <1>2, <1>7, Tables
  <2>6. InPlace(1) /\ InPlace(2) /\ InPlace(4) /\ InPlace(6) /\ InPlace(8) /\ InPlace(10)
    BY <2>3 DEF InPlace
  <2>7. InPlace(3) /\ InPlace(5) /\ InPlace(7) /\ InPlace(9)
    BY <1>3, <2>2, <2>5 DEF InPlace
  <2>8. InPlace(11) /\ InPlace(12)
    BY <2>4, <2>5 DEF InPlace
  <2>9. \A p \in 1 .. 12 : InPlace(p)
    BY <2>6, <2>7, <2>8
  <2>10. \A x \in LastStatements : \E p \in 1 .. 12 : Program[p] = x
    BY <2>4
  <2>11. \A o \in Operator :
            Has(o) => Place(o) \in DOMAIN Program /\ Program[Place(o)] = Run(o)
    BY <2>1, <2>2, <2>5
  <2> QED  BY <2>1, <2>2, <2>9, <2>10, <2>11
<1>8. ASSUME kernel \in {"full_n54", "full_n54_batched", "geneig_full"}  PROVE Right
  <2>1. Len(Program) = 14 /\ DOMAIN Program = 1 .. 14
    BY <1>1, <1>8 DEF Listed
  <2>2. /\ Program[1] = FirstLoad
        /\ Program[3] = Run("potrf")
        /\ Program[5] = Run("trsmLeft")
        /\ Program[7] = Run("trsmRight")
        /\ Program[9] = Run("heev")
        /\ Program[11] = Run("trsmLeftConj")
    BY <1>1, <1>8, Tables DEF Listed, Reduces, StartsWith
  <2>3. /\ Program[2] = Sync /\ Program[4] = Sync /\ Program[6] = Sync
        /\ Program[8] = Sync /\ Program[10] = Sync /\ Program[12] = Sync
    BY <1>1, <1>8 DEF Listed, Reduces, StartsWith
  <2>4. /\ Program[13] = sw
        /\ Program[14] = su
        /\ LastStatements = {sw, su}
    BY <1>1, <1>8, Tables DEF Listed
  <2> HIDE DEF sl, sm, sb, sw, su
  <2>5. /\ \A o \in Operator :
              Has(o) <=> o \in {"potrf", "trsmLeft", "trsmRight", "heev", "trsmLeftConj"}
        /\ Place("potrf") = 3 /\ Place("trsmLeft") = 5 /\ Place("trsmRight") = 7
        /\ Place("heev") = 9 /\ Place("trsmLeftConj") = 11
    BY <1>2, <1>8, Tables
  <2>6. /\ InPlace(1) /\ InPlace(2) /\ InPlace(4) /\ InPlace(6)
        /\ InPlace(8) /\ InPlace(10) /\ InPlace(12)
    BY <2>3 DEF InPlace
  <2>7. InPlace(3) /\ InPlace(5) /\ InPlace(7) /\ InPlace(9) /\ InPlace(11)
    BY <1>3, <2>2, <2>5 DEF InPlace
  <2>8. InPlace(13) /\ InPlace(14)
    BY <2>4, <2>5 DEF InPlace
  <2>9. \A p \in 1 .. 14 : InPlace(p)
    BY <2>6, <2>7, <2>8
  <2>10. \A x \in LastStatements : \E p \in 1 .. 14 : Program[p] = x
    BY <2>4
  <2>11. \A o \in Operator :
            Has(o) => Place(o) \in DOMAIN Program /\ Program[Place(o)] = Run(o)
    BY <2>1, <2>2, <2>5
  <2> QED  BY <2>1, <2>2, <2>9, <2>10, <2>11
<1>9. ASSUME kernel = "finish_n54"  PROVE Right
  <2>1. Len(Program) = 8 /\ DOMAIN Program = 1 .. 8
    BY <1>1, <1>9 DEF Listed
  <2>2. /\ Program[1] = FirstLoad
        /\ Program[3] = Run("heev")
        /\ Program[5] = Run("trsmLeftConj")
    BY <1>1, <1>9, Tables DEF Listed
  <2>3. /\ Program[2] = Sync /\ Program[4] = Sync /\ Program[6] = Sync
    BY <1>1, <1>9 DEF Listed
  <2>4. /\ Program[7] = sw
        /\ Program[8] = su
        /\ LastStatements = {sw, su}
    BY <1>1, <1>9, Tables DEF Listed
  <2> HIDE DEF sl, sm, sb, sw, su
  <2>5. /\ \A o \in Operator : Has(o) <=> o \in {"heev", "trsmLeftConj"}
        /\ Place("heev") = 3 /\ Place("trsmLeftConj") = 5
    BY <1>2, <1>9, Tables
  <2>6. InPlace(1) /\ InPlace(2) /\ InPlace(4) /\ InPlace(6)
    BY <2>3 DEF InPlace
  <2>7. InPlace(3) /\ InPlace(5)
    BY <1>3, <2>2, <2>5 DEF InPlace
  <2>8. InPlace(7) /\ InPlace(8)
    BY <2>4, <2>5 DEF InPlace
  <2>9. \A p \in 1 .. 8 : InPlace(p)
    BY <2>6, <2>7, <2>8
  <2>10. \A x \in LastStatements : \E p \in 1 .. 8 : Program[p] = x
    BY <2>4
  <2>11. \A o \in Operator :
            Has(o) => Place(o) \in DOMAIN Program /\ Program[Place(o)] = Run(o)
    BY <2>1, <2>2, <2>5
  <2> QED  BY <2>1, <2>2, <2>9, <2>10, <2>11
<1> HIDE DEF Right
<1>10. Right  BY <1>4, <1>5, <1>6, <1>7, <1>8, <1>9, KernelAssumption DEF Static
<1> QED  BY <1>10 DEF Right
-----------------------------------------------------------------------------
\* Who writes what.

\* The areas an operator's share lies in.
LEMMA ShareAreas ==
    ASSUME NEW o \in Operator, NEW t, NEW c \in WriteShare(o, t)
    PROVE  /\ c[1] \in {"smem", "info"}
           /\ \A k \in Elements : c \in As(k) => o = "potrf" /\ k \in Triangle
           /\ \A k \in Elements : c \in Bs(k) => o # "potrf"
           /\ \A k \in Eigenvalues : c \in Lambda(k) => o = "heev"
           /\ c[1] = "info" => o \in {"potrf", "heev"}
           /\ c \in InfoShare(o, t) <=> c[1] = "info"
           /\ c \in WorkShare(o, t) <=> c \in Workspace
           /\ c \in LambdaShare(o, t) <=> \E k \in Eigenvalues : c \in Lambda(k)
<1> DEFINE w == kN * Batch
<1>0. LambdaOffset \in Nat /\ w \in Nat  BY Offsets
<1>1. WrittenOf(o) \subseteq Elements /\ (o = "potrf" => WrittenOf(o) = Triangle)
  BY DEF WrittenOf, Triangle, Whole
<1>2. CASE c \in TileShare(o, t)
  <2>1. PICK i \in Elements : i \in WrittenOf(o) /\ c \in Tile(o, i)
    BY <1>1, <1>2 DEF TileShare, Share
  <2>2. c[1] = "smem" /\ c[2] \in Nat /\ c[2] < LambdaOffset
    BY <2>1, Layout DEF Tile
  <2>3. \A k \in Elements : c \in As(k) => o = "potrf" /\ k \in Triangle
    BY <1>1, <2>1, Layout DEF Tile
  <2>4. \A k \in Elements : c \in Bs(k) => o # "potrf"
    BY <2>1, Layout DEF Tile
  <2>5. \A k \in Eigenvalues : c \notin Lambda(k)
    <3> SUFFICES ASSUME NEW k \in Eigenvalues, c \in Lambda(k)  PROVE FALSE
      OBVIOUS
    <3>1. LambdaOffset <= c[2]  BY Layout
    <3> QED  BY <1>0, <2>2, <3>1
  <2>6. c \notin Workspace
    <3> SUFFICES ASSUME c \in Workspace  PROVE FALSE
      OBVIOUS
    <3>1. LambdaOffset + w <= c[2]  BY Layout
    <3> HIDE DEF w
    <3> QED  BY <1>0, <2>2, <3>1
  <2>7. c \notin InfoShare(o, t)
    BY <2>2, Addresses DEF InfoShare
  <2>8. c \notin LambdaShare(o, t) /\ c \notin WorkShare(o, t)
    BY <2>5, <2>6 DEF LambdaShare, WorkShare, Share
  <2> QED  BY <2>2, <2>3, <2>4, <2>5, <2>6, <2>7, <2>8
<1>3. CASE c \in LambdaShare(o, t)
  <2>1. o = "heev" /\ \E k \in Eigenvalues : c \in Lambda(k)
    BY <1>3 DEF LambdaShare, Share
  <2>2. /\ c[1] = "smem" /\ c[2] \in Nat /\ LambdaOffset <= c[2]
        /\ c[2] < LambdaOffset + w
    BY <2>1, Layout
  <2>3. \A k \in Elements : c \notin As(k) /\ c \notin Bs(k)
    <3> SUFFICES ASSUME NEW k \in Elements, c \in As(k) \/ c \in Bs(k)  PROVE FALSE
      OBVIOUS
    <3>1. c[2] < LambdaOffset  BY Layout
    <3> QED  BY <1>0, <2>2, <3>1
  <2>4. c \notin Workspace
    <3> SUFFICES ASSUME c \in Workspace  PROVE FALSE
      OBVIOUS
    <3>1. LambdaOffset + w <= c[2]  BY Layout
    <3> HIDE DEF w
    <3> QED  BY <1>0, <2>2, <3>1
  <2>5. c \notin InfoShare(o, t)
    BY <2>2, Addresses DEF InfoShare
  <2>6. c \notin WorkShare(o, t)  BY <2>4 DEF WorkShare
  <2> QED  BY <1>3, <2>1, <2>2, <2>3, <2>4, <2>5, <2>6
<1>4. CASE c \in WorkShare(o, t)
  <2>1. o = "heev" /\ c \in Workspace  BY <1>4 DEF WorkShare
  <2>2. c[1] = "smem" /\ c[2] \in Nat /\ LambdaOffset + w <= c[2]
    BY <2>1, Layout
  <2> HIDE DEF w
  <2>3. \A k \in Elements : c \notin As(k) /\ c \notin Bs(k)
    <3> SUFFICES ASSUME NEW k \in Elements, c \in As(k) \/ c \in Bs(k)  PROVE FALSE
      OBVIOUS
    <3>1. c[2] < LambdaOffset  BY Layout
    <3> QED  BY <1>0, <2>2, <3>1
  <2>4. \A k \in Eigenvalues : c \notin Lambda(k)
    <3> SUFFICES ASSUME NEW k \in Eigenvalues, c \in Lambda(k)  PROVE FALSE
      OBVIOUS
    <3>1. c[2] < LambdaOffset + w  BY Layout DEF w
    <3> QED  BY <1>0, <2>2, <3>1
  <2>5. c \notin InfoShare(o, t)
    BY <2>2, Addresses DEF InfoShare
  <2>6. c \notin LambdaShare(o, t)  BY <2>4 DEF LambdaShare, Share
  <2> QED  BY <1>4, <2>1, <2>2, <2>3, <2>4, <2>5, <2>6
<1>5. CASE c \in InfoShare(o, t)
  <2>1. o \in {"potrf", "heev"} /\ c[1] = "info"
    BY <1>5, Addresses DEF InfoShare
  <2>2. \A k : c \notin As(k) /\ c \notin Bs(k) /\ c \notin Lambda(k)
    BY <2>1, Addresses
  <2>3. c \notin Workspace  BY <2>1, Addresses
  <2>4. c \notin LambdaShare(o, t) /\ c \notin WorkShare(o, t)
    BY <2>2, <2>3 DEF LambdaShare, WorkShare, Share
  <2> QED  BY <1>5, <2>1, <2>2, <2>3, <2>4
<1> QED  BY <1>2, <1>3, <1>4, <1>5 DEF WriteShare

\* Every part of a result is some thread's of the crew.
LEMMA EverythingShared ==
    ASSUME NEW o \in Operator, crew[o] \in (SUBSET Thread) \ {{}}
    PROVE  /\ \A i \in WrittenOf(o) : \E t \in crew[o] : Tile(o, i) \subseteq WriteShare(o, t)
           /\ o = "heev" =>
                 \A i \in Eigenvalues : \E t \in crew[o] : Lambda(i) \subseteq WriteShare(o, t)
           /\ o \in {"potrf", "heev"} =>
                 \A b \in 0 .. Batch - 1 : \E t \in crew[o] : Info(b) \in WriteShare(o, t)
<1> DEFINE n == Cardinality(crew[o])
<1>1. n \in Nat \ {0} /\ \A k \in 0 .. n - 1 : \E t \in crew[o] : Rank(t, crew[o]) = k
  BY RanksReached
<1> HIDE DEF n
<1>2. ASSUME NEW i \in Nat  PROVE \E t \in crew[o] : i % n = Rank(t, crew[o])
  <2>1. i % n \in 0 .. n - 1  BY <1>1
  <2> QED  BY <1>1, <2>1
<1>3. WrittenOf(o) \subseteq Nat
  <2>1. WrittenOf(o) \subseteq Elements  BY DEF WrittenOf, Triangle, Whole
  <2> QED  BY <2>1, ElementsAreNaturals
<1>4. Eigenvalues \subseteq Nat
  <2>1. kN * Batch \in Nat  BY Offsets
  <2> QED  BY <2>1 DEF Eigenvalues
<1>5. ASSUME NEW i \in WrittenOf(o)
      PROVE  \E t \in crew[o] : Tile(o, i) \subseteq WriteShare(o, t)
  <2>1. PICK t \in crew[o] : i % n = Rank(t, crew[o])  BY <1>2, <1>3
  <2>2. i \in Share(t, crew[o], WrittenOf(o))  BY <2>1 DEF Share, n
  <2>3. Tile(o, i) \subseteq TileShare(o, t)  BY <2>2 DEF TileShare
  <2> QED  BY <2>3 DEF WriteShare
<1>6. ASSUME o = "heev", NEW i \in Eigenvalues
      PROVE  \E t \in crew[o] : Lambda(i) \subseteq WriteShare(o, t)
  <2>1. PICK t \in crew[o] : i % n = Rank(t, crew[o])  BY <1>2, <1>4
  <2>2. i \in Share(t, crew[o], Eigenvalues)  BY <2>1 DEF Share, n
  <2>3. Lambda(i) \subseteq LambdaShare(o, t)  BY <1>6, <2>2 DEF LambdaShare
  <2> QED  BY <2>3 DEF WriteShare
<1>7. ASSUME o \in {"potrf", "heev"}, NEW b \in 0 .. Batch - 1
      PROVE  \E t \in crew[o] : Info(b) \in WriteShare(o, t)
  <2>1. PICK t \in crew[o] : b % n = Rank(t, crew[o])  BY <1>2, ElementsAreNaturals
  <2>2. b \in Share(t, crew[o], 0 .. Batch - 1)  BY <2>1 DEF Share, n
  <2>3. Info(b) \in InfoShare(o, t)  BY <1>7, <2>2 DEF InfoShare
  <2> QED  BY <2>3 DEF WriteShare
<1> QED  BY <1>5, <1>6, <1>7

\* What the last statements store.
LEMMA LastAreStores ==
    ASSUME NEW x \in LastStatements
    PROVE  /\ x.do = "store"
           /\ kernel = "chol_n54" => x.arrays = {"L"} /\ x.zeroed = TRUE
           /\ kernel = "reduce_n54" => x.arrays = {"M"} /\ x.zeroed = TRUE
           /\ kernel = "geneig_reduce" => x.arrays = {"L", "M"} /\ x.zeroed = FALSE
           /\ kernel \notin {"chol_n54", "reduce_n54", "geneig_reduce"} =>
                 x.arrays \in {{"W"}, {"U"}} /\ x.zeroed = FALSE
<1> DEFINE sl == Store({"L"}, TRUE)
           sm == Store({"M"}, TRUE)
           sb == Store({"L", "M"}, FALSE)
           sw == Store({"W"}, FALSE)
           su == Store({"U"}, FALSE)
<1>1. sl.do = "store" /\ sl.arrays = {"L"} /\ sl.zeroed = TRUE  BY DEF Store
<1>2. sm.do = "store" /\ sm.arrays = {"M"} /\ sm.zeroed = TRUE  BY DEF Store
<1>3. sb.do = "store" /\ sb.arrays = {"L", "M"} /\ sb.zeroed = FALSE  BY DEF Store
<1>4. sw.do = "store" /\ sw.arrays = {"W"} /\ sw.zeroed = FALSE  BY DEF Store
<1>5. su.do = "store" /\ su.arrays = {"U"} /\ su.zeroed = FALSE  BY DEF Store
<1>6. /\ kernel = "chol_n54" => x = sl
      /\ kernel = "reduce_n54" => x = sm
      /\ kernel = "geneig_reduce" => x = sb
      /\ kernel \notin {"chol_n54", "reduce_n54", "geneig_reduce"} => x = sw \/ x = su
  BY DEF LastStatements
<1> HIDE DEF sl, sm, sb, sw, su
<1> QED  BY <1>1, <1>2, <1>3, <1>4, <1>5, <1>6

\* A cell of the shared memory is written by the load or by the operators of its
\* area, a cell of an array by the stores of the array.
LEMMA WhoWrites ==
    ASSUME TypeOK, NEW p \in DOMAIN Program, NEW t \in Thread, NEW i \in Elements,
           NEW c, Assigned(p, t, i, c)
    PROVE  /\ \A k \in Elements : c \in As(k) =>
                 \/ p = 1 /\ i = k
                 \/ Has("potrf") /\ p = Place("potrf") /\ k \in Triangle
           /\ \A k \in Elements : c \in Bs(k) =>
                 \/ p = 1 /\ i = k
                 \/ \E o \in Operator \ {"potrf"} : Has(o) /\ p = Place(o)
           /\ \A k \in Eigenvalues : c \in Lambda(k) => Has("heev") /\ p = Place("heev")
           /\ c[1] = "info" => \E o \in {"potrf", "heev"} : Has(o) /\ p = Place(o)
           /\ c[1] \in {"L", "W", "M", "U"} =>
                 /\ Program[p] \in LastStatements /\ c[1] \in Program[p].arrays
                 /\ c = Out(c[1], i)
           /\ c[1] = "smem" => Program[p].do \in {"load", "run"}
<1>1. InPlace(p) /\ Program[1] = FirstLoad  BY Typing, Positions
<1>2. Program[p] # Sync  BY BarriersWriteNothing
<1>3. FirstLoad.do = "load"  BY Fields DEF FirstLoad
<1>4. CASE p = 1
  <2>1. Program[p].do = "load"  BY <1>1, <1>3, <1>4
  <2>2. c \in LoadCells(Program[p], i)  BY <2>1 DEF Assigned, CopyCells
  <2>3. c \in As(i) \/ c \in Bs(i)  BY <2>2 DEF LoadCells
  <2>4. /\ c[1] = "smem" /\ c[2] \in Nat /\ c[2] < LambdaOffset
        /\ \A k \in Elements : c \in As(k) => i = k
        /\ \A k \in Elements : c \in Bs(k) => i = k
    BY <2>3, Layout
  <2>5. \A k \in Eigenvalues : c \notin Lambda(k)
    <3> SUFFICES ASSUME NEW k \in Eigenvalues, c \in Lambda(k)  PROVE FALSE
      OBVIOUS
    <3>1. LambdaOffset <= c[2] /\ LambdaOffset \in Nat  BY Layout, Offsets
    <3> QED  BY <2>4, <3>1
  <2> QED  BY <1>4, <2>1, <2>4, <2>5
<1>5. ASSUME NEW o \in Operator, Has(o), p = Place(o), Program[p] = Run(o)
      PROVE  /\ \A k \in Elements : c \in As(k) => o = "potrf" /\ k \in Triangle
             /\ \A k \in Elements : c \in Bs(k) => o # "potrf"
             /\ \A k \in Eigenvalues : c \in Lambda(k) => o = "heev"
             /\ c[1] = "info" => o \in {"potrf", "heev"}
             /\ c[1] \in {"smem", "info"} /\ Program[p].do = "run"
  <2>1. Program[p].do = "run" /\ Program[p].op = o  BY <1>5, Fields
  <2>2. c \in WriteShare(o, t)  BY <2>1 DEF Assigned
  <2> QED  BY <2>1, <2>2, ShareAreas
<1>6. CASE \E o \in Operator : Has(o) /\ p = Place(o) /\ Program[p] = Run(o)
  <2>1. PICK o \in Operator : Has(o) /\ p = Place(o) /\ Program[p] = Run(o)  BY <1>6
  <2>2. /\ \A k \in Elements : c \in As(k) => o = "potrf" /\ k \in Triangle
        /\ \A k \in Elements : c \in Bs(k) => o # "potrf"
        /\ \A k \in Eigenvalues : c \in Lambda(k) => o = "heev"
        /\ c[1] = "info" => o \in {"potrf", "heev"}
        /\ c[1] \in {"smem", "info"} /\ Program[p].do = "run"
    BY <1>5, <2>1
  <2> QED  BY <2>1, <2>2
<1>7. CASE Program[p] \in LastStatements
  <2>1. Program[p].do = "store"  BY <1>7, LastAreStores
  <2>2. c \in StoreCells(Program[p], i)  BY <2>1 DEF Assigned, CopyCells
  <2>3. PICK a \in Program[p].arrays : c = Out(a, i)  BY <2>2 DEF StoreCells
  <2>4. c[1] = a  BY <2>3, Addresses
  <2>5. c[1] \in {"L", "W", "M", "U"}
    <3>1. Program[p] \in Statement(Runs)  BY Typing, ProgramFacts
    <3> QED  BY <2>1, <2>2, <3>1, StoresAreOut
  <2>6. \A k : c \notin As(k) /\ c \notin Bs(k) /\ c \notin Lambda(k)
    BY <2>5, Addresses
  <2> QED  BY <1>7, <2>3, <2>4, <2>5, <2>6
<1> QED  BY <1>1, <1>2, <1>4, <1>6, <1>7 DEF InPlace

\* The load, the operators and the stores of a program leave nothing out.
LEMMA Writers ==
    ASSUME TypeOK
    PROVE  /\ \A i \in Elements : \E t \in Thread : \A c \in As(i) : Assigned(1, t, i, c)
           /\ FirstLoad.bs # "none" =>
                 \A i \in Elements : \E t \in Thread : \A c \in Bs(i) : Assigned(1, t, i, c)
           /\ \A o \in Operator : Has(o) =>
                 /\ \A i \in WrittenOf(o) : \E t \in Thread : \A c \in Tile(o, i) :
                       Assigned(Place(o), t, 0, c)
                 /\ o = "heev" =>
                       \A i \in Eigenvalues : \E t \in Thread : \A c \in Lambda(i) :
                          Assigned(Place(o), t, 0, c)
                 /\ o \in {"potrf", "heev"} =>
                       \A b \in 0 .. Batch - 1 : \E t \in Thread :
                          Assigned(Place(o), t, 0, Info(b))
           /\ \A p \in DOMAIN Program : Program[p].do = "store" =>
                 \A a \in Program[p].arrays : \A i \in Elements :
                    i < Count(Program[p]) =>
                       \E t \in Thread : Assigned(p, t, i, Out(a, i))
<1>1. /\ Program[1] = FirstLoad /\ 1 \in DOMAIN Program
      /\ \A o \in Operator : Has(o) => Program[Place(o)] = Run(o)
  BY Typing, Positions
<1>2. ASSUME NEW i \in Elements  PROVE i % BlockDimX \in Thread
  <2>1. i \in Nat /\ BlockDimX \in Nat \ {0}  BY ElementsAreNaturals, KernelAssumption
  <2> QED  BY <2>1 DEF Thread
<1>3. FirstLoad.do = "load"  BY Fields DEF FirstLoad
<1>4. \A i \in Elements : i < Count(FirstLoad)
  <2> DEFINE s == kN * kN * Batch
  <2>1. s \in Nat  BY Offsets
  <2>2. Count(FirstLoad) = s  BY <1>3 DEF Count
  <2>3. Elements = 0 .. s - 1  BY DEF Elements
  <2> HIDE DEF s
  <2> QED  BY <2>1, <2>2, <2>3
<1>5. ASSUME NEW i \in Elements, NEW c \in LoadCells(FirstLoad, i)
      PROVE  Assigned(1, i % BlockDimX, i, c)
  BY <1>1, <1>3, <1>4 DEF Assigned, CopyCells
<1>6. \A i \in Elements : \E t \in Thread : \A c \in As(i) : Assigned(1, t, i, c)
  BY <1>2, <1>5 DEF LoadCells
<1>7. FirstLoad.bs # "none" =>
         \A i \in Elements : \E t \in Thread : \A c \in Bs(i) : Assigned(1, t, i, c)
  BY <1>2, <1>5 DEF LoadCells
<1>8. ASSUME NEW o \in Operator, Has(o)
      PROVE  /\ \A i \in WrittenOf(o) : \E t \in Thread : \A c \in Tile(o, i) :
                   Assigned(Place(o), t, 0, c)
             /\ o = "heev" =>
                   \A i \in Eigenvalues : \E t \in Thread : \A c \in Lambda(i) :
                      Assigned(Place(o), t, 0, c)
             /\ o \in {"potrf", "heev"} =>
                   \A b \in 0 .. Batch - 1 : \E t \in Thread :
                      Assigned(Place(o), t, 0, Info(b))
  <2>1. Program[Place(o)].do = "run" /\ Program[Place(o)].op = o
    BY <1>1, <1>8, Fields
  <2>2. crew[o] \in (SUBSET Thread) \ {{}}  BY Typing
  <2>3. \A t \in crew[o] : t \in Thread /\ \A c \in WriteShare(o, t) :
           Assigned(Place(o), t, 0, c)
    BY <2>1, <2>2 DEF Assigned
  <2> QED  BY <2>2, <2>3, EverythingShared
<1>9. ASSUME NEW p \in DOMAIN Program, Program[p].do = "store", NEW a \in Program[p].arrays,
             NEW i \in Elements, i < Count(Program[p])
      PROVE  \E t \in Thread : Assigned(p, t, i, Out(a, i))
  <2>1. Out(a, i) \in CopyCells(Program[p], i)  BY <1>9 DEF CopyCells, StoreCells
  <2>2. Assigned(p, i % BlockDimX, i, Out(a, i))  BY <1>9, <2>1 DEF Assigned
  <2> QED  BY <1>2, <2>2
<1> QED  BY <1>6, <1>7, <1>8, <1>9
-----------------------------------------------------------------------------
\* What the statements give.

\* The operators do in every kernel what their names say.
LEMMA Meanings ==
    ASSUME kernel \in Kernels, NEW o \in Operator, Has(o)
    PROVE  Meaning(Described(o)) =
              CASE o = "potrf" -> [takes |-> "S", gives |-> "L"]
                [] o = "trsmLeft" -> [takes |-> "H", gives |-> "Y"]
                [] o = "trsmRight" -> [takes |-> "Y", gives |-> "M"]
                [] o = "heev" -> [takes |-> "M", gives |-> "V"]
                [] o = "trsmLeftConj" -> [takes |-> "V", gives |-> "U"]
<1>1. /\ o = "potrf" => Described(o) = <<"potrf">>
      /\ o = "trsmLeft" => Described(o) = <<"trsm", "left", "non_trans">>
      /\ o = "trsmRight" => Described(o) = <<"trsm", "right", "conj_trans">>
      /\ o = "heev" => Described(o) = <<"heev">>
      /\ o = "trsmLeftConj" => Described(o) = <<"trsm", "left", "conj_trans">>
  <2>1. CASE kernel \in Static
    <3>1. Described(o) = StaticOperators[o]  BY <2>1 DEF Described, Static
    <3> QED  BY <3>1 DEF StaticOperators
  <2>2. CASE kernel = "geneig_full"
    <3>1. Described(o) = FusedOperators[o]  BY <2>2 DEF Described, Static
    <3> QED  BY <3>1 DEF FusedOperators
  <2>3. CASE kernel = "geneig_reduce"
    <3>1. Described(o) = ReduceOperators[o]  BY <2>3 DEF Described, Static
    <3>2. o \in {"potrf", "trsmLeft", "trsmRight"}  BY <2>3, Tables
    <3> QED  BY <3>1, <3>2 DEF ReduceOperators
  <2> QED  BY <2>1, <2>2, <2>3, KernelAssumption
<1> QED  BY <1>1 DEF Operator, Meaning

\* What the load and an operator give a cell.
LEMMA WhatIsGiven ==
    ASSUME TypeOK, NEW i \in Elements, NEW j \in Elements
    PROVE  /\ \A c \in As(i) : Gives(1, i, c) = Given(FirstLoad.as, i)
           /\ \A c \in Bs(i) : Gives(1, i, c) = Given(FirstLoad.bs, i)
           /\ \A o \in Operator : Has(o) =>
                 \A c \in Tile(o, i) : Gives(Place(o), j, c) = Meaning(Described(o)).gives
           /\ Has("heev") =>
                 \A k \in Eigenvalues : \A c \in Lambda(k) : Gives(Place("heev"), j, c) = "W"
           /\ \A o \in Operator : Has(o) => \A b : Gives(Place(o), j, Info(b)) = o
<1> DEFINE w == kN * Batch
<1>0. LambdaOffset \in Nat /\ w \in Nat  BY Offsets
<1>1. /\ Program[1] = FirstLoad /\ FirstLoad.do = "load"
      /\ \A o \in Operator : Has(o) =>
            Program[Place(o)].do = "run" /\ Program[Place(o)].op = o
  <2>1. /\ Program[1] = FirstLoad
        /\ \A o \in Operator : Has(o) => Program[Place(o)] = Run(o)
    BY Typing, Positions
  <2> QED  BY <2>1, Fields DEF FirstLoad
<1>2. \A c \in As(i) : Gives(1, i, c) = Given(FirstLoad.as, i)
  BY <1>1 DEF Gives
<1>3. \A c \in Bs(i) : Gives(1, i, c) = Given(FirstLoad.bs, i)
  <2>1. \A c \in Bs(i) : c \notin As(i)  BY Layout
  <2> QED  BY <1>1, <2>1 DEF Gives
<1>4. ASSUME NEW o \in Operator, Has(o), NEW c \in Tile(o, i)
      PROVE  Gives(Place(o), j, c) = Meaning(Described(o)).gives
  <2>1. c[1] = "smem" /\ c[2] \in Nat /\ c[2] < LambdaOffset
    BY Layout DEF Tile
  <2>2. c \notin Workspace
    <3> SUFFICES ASSUME c \in Workspace  PROVE FALSE
      OBVIOUS
    <3>1. LambdaOffset + w <= c[2]  BY Layout
    <3> HIDE DEF w
    <3> QED  BY <1>0, <2>1, <3>1
  <2>3. \A k \in Eigenvalues : c \notin Lambda(k)
    <3> SUFFICES ASSUME NEW k \in Eigenvalues, c \in Lambda(k)  PROVE FALSE
      OBVIOUS
    <3>1. LambdaOffset <= c[2]  BY Layout
    <3> QED  BY <1>0, <2>1, <3>1
  <2> QED  BY <1>1, <1>4, <2>1, <2>2, <2>3 DEF Gives
<1>5. ASSUME Has("heev"), NEW k \in Eigenvalues, NEW c \in Lambda(k)
      PROVE  Gives(Place("heev"), j, c) = "W"
  <2>1. c[1] = "smem" /\ c[2] \in Nat /\ c[2] < LambdaOffset + w
    BY Layout
  <2> HIDE DEF w
  <2>2. c \notin Workspace
    <3> SUFFICES ASSUME c \in Workspace  PROVE FALSE
      OBVIOUS
    <3>1. LambdaOffset + w <= c[2]  BY Layout DEF w
    <3> QED  BY <1>0, <2>1, <3>1
  <2>3. "heev" \in Operator  BY DEF Operator
  <2> QED  BY <1>1, <1>5, <2>1, <2>2, <2>3 DEF Gives
<1>6. ASSUME NEW o \in Operator, Has(o), NEW b
      PROVE  Gives(Place(o), j, Info(b)) = o
  <2>1. Info(b)[1] = "info"  BY Addresses
  <2> QED  BY <1>1, <1>6, <2>1 DEF Gives
<1> QED  BY <1>2, <1>3, <1>4, <1>5, <1>6
-----------------------------------------------------------------------------
\* What a thread finds when it reads.

\* Cells that agree hold what they agree on.
LEMMA HeldTogether ==
    ASSUME NEW cells, cells # {}, NEW v, \A c \in cells : mem[c] = v
    PROVE  Held(cells) = v
  BY DEF Held

\* t is about to read for a store or for an operator.
Reading(t) ==
    /\ pc[t] \in DOMAIN Program
    /\ \/ Program[pc[t]].do = "store"
       \/ Program[pc[t]].do = "run" /\ t \in crew[Program[pc[t]].op] /\ ~read[t]

\* When a thread is about to read, everybody is done with the load and the operators
\* before its statement.
LEMMA EverybodyPast ==
    ASSUME TypeOK, Aligned, NEW t \in Thread, Reading(t), NEW q \in DOMAIN Program,
           q < pc[t], Program[q].do \in {"load", "run"}
    PROVE  \A u \in Thread : pc[u] > q
<1>1. /\ Len(Program) \in Nat /\ DOMAIN Program = 1 .. Len(Program)
      /\ \A p \in 1 .. Len(Program) - 1 :
            Program[p] = Sync \/ Program[p + 1] = Sync \/ LastStores(Program, p)
  BY Typing, ProgramFacts
<1>2. pc[t] \in 1 .. Len(Program) /\ q \in 1 .. Len(Program)  BY <1>1 DEF Reading
<1>3. Program[pc[t]] # Sync /\ Program[q] # Sync
  BY Fields DEF Reading
<1>4. ~LastStores(Program, q)
  <2>1. LastStores(Program, q) => Program[q] = Store({"W"}, FALSE)  BY DEF LastStores
  <2>2. Store({"W"}, FALSE).do = "store"  BY DEF Store
  <2> QED  BY <2>1, <2>2
<1>5. Program[q + 1] = Sync  BY <1>1, <1>2, <1>3, <1>4
<1>6. q + 1 \in 1 .. pc[t] - 1
  <2>1. q + 1 # pc[t]  BY <1>3, <1>5
  <2> QED  BY <1>2, <2>1
<1> TAKE u \in Thread
<1>7. pc[u] >= q + 1  BY <1>5, <1>6 DEF Aligned
<1>8. pc[u] \in Nat
  <2>1. pc[u] \in 0 .. End /\ End \in Nat  BY <1>1, Typing, ProgramFacts
  <2> QED  BY <2>1
<1> QED  BY <1>2, <1>7, <1>8

\* When a thread is about to read, nobody has written to shared memory in this
\* statement or a later one.
LEMMA NobodyFurther ==
    ASSUME TypeOK, Aligned, CrewInv, NEW t \in Thread, Reading(t),
           NEW r \in DOMAIN Program, r >= pc[t], NEW u \in Thread, NEW j \in Elements,
           NEW c, c[1] = "smem", Assigned(r, u, j, c)
    PROVE  ~Past(r, u, j)
<1> SUFFICES ASSUME Past(r, u, j)  PROVE FALSE
  OBVIOUS
<1>1. Program[r].do \in {"load", "run"}  BY WhoWrites
<1>2. r \in Nat /\ pc[t] \in Nat
  BY Typing, ProgramFacts DEF Reading
<1>3. CASE r > pc[t]
  <2>1. Program[pc[t]] # Sync /\ Program[r] # Sync  BY <1>1, Fields DEF Reading
  <2>2. LastStores(Program, pc[t]) /\ r = pc[t] + 1
    <3>1. pc[t] < r  BY <1>2, <1>3
    <3>2. pc[t] \in DOMAIN Program  BY DEF Reading
    <3> QED  BY <2>1, <3>1, <3>2, NothingLater
  <2>3. Program[r] = Store({"U"}, FALSE)  BY <2>2 DEF LastStores
  <2>4. Store({"U"}, FALSE).do = "store"  BY DEF Store
  <2> QED  BY <1>1, <2>3, <2>4
<1>4. CASE r = pc[t]
  <2>1. Program[r].do = "run" /\ t \in crew[Program[r].op] /\ ~read[t]
    BY <1>1, <1>4 DEF Reading
  <2>2. u \in crew[Program[r].op]  BY <2>1 DEF Assigned
  <2>3. pc[u] > r  BY <2>1 DEF Past
  <2>4. r < pc[u]
    <3>1. pc[u] \in 0 .. End /\ End \in Nat  BY Typing, ProgramFacts
    <3> QED  BY <1>2, <2>3, <3>1
  <2>5. pc[t] > r \/ (pc[t] = r /\ read[t])  BY <2>1, <2>2, <2>4 DEF CrewInv
  <2> QED  BY <1>2, <1>4, <2>1, <2>5
<1> QED  BY <1>2, <1>3, <1>4

\* Thread u writes v to the cells in round i of statement q, and no other statement
\* on the way to where t is writes them.
LastGiven(t, q, u, i, cells, v) ==
    /\ q \in DOMAIN Program /\ q < pc[t] /\ u \in Thread /\ i \in Elements
    /\ cells \in SUBSET Location /\ cells # {}
    /\ \A c \in cells : c[1] = "smem" /\ Assigned(q, u, i, c) /\ Gives(q, i, c) = v
    /\ \A r \in DOMAIN Program : \A x \in Thread : \A j \in Elements : \A c \in cells :
          q < r /\ r < pc[t] => ~Assigned(r, x, j, c)

\* A thread that is about to read finds what the last writer before it gave.
LEMMA ReaderFinds ==
    ASSUME TypeOK, Aligned, CrewInv, DataInv, NEW t \in Thread, Reading(t),
           NEW q, NEW u, NEW i, NEW cells, NEW v, LastGiven(t, q, u, i, cells, v)
    PROVE  Held(cells) = v
<1>0. /\ q \in DOMAIN Program /\ q < pc[t] /\ u \in Thread /\ i \in Elements
      /\ cells \in SUBSET Location /\ cells # {}
      /\ \A c \in cells : c[1] = "smem" /\ Assigned(q, u, i, c) /\ Gives(q, i, c) = v
      /\ \A r \in DOMAIN Program : \A x \in Thread : \A j \in Elements : \A c \in cells :
            q < r /\ r < pc[t] => ~Assigned(r, x, j, c)
  BY DEF LastGiven
<1> SUFFICES ASSUME NEW c \in cells  PROVE mem[c] = v
  BY <1>0, HeldTogether
<1>1. Program[q].do \in {"load", "run"}  BY <1>0, WhoWrites
<1>2. \A x \in Thread : pc[x] > q  BY <1>0, <1>1, EverybodyPast
<1>3. Past(q, u, i)  BY <1>0, <1>2 DEF Past
<1>4. ~Overwritten(q, c)
  <2> SUFFICES ASSUME NEW r \in DOMAIN Program, NEW x \in Thread, NEW j \in Elements,
                      r > q, Assigned(r, x, j, c), Past(r, x, j)
               PROVE  FALSE
    BY DEF Overwritten
  <2>1. r \in Nat /\ pc[t] \in Nat /\ q \in Nat
    BY <1>0, Typing, ProgramFacts DEF Reading
  <2>2. CASE r < pc[t]  BY <1>0, <2>1, <2>2
  <2>3. CASE r >= pc[t]  BY <1>0, <2>3, NobodyFurther
  <2> QED  BY <2>1, <2>2, <2>3
<1>5. mem[c] = Gives(q, i, c)
  <2>1. c \in Location  BY <1>0
  <2>2. Assigned(q, u, i, c)  BY <1>0
  <2> QED  BY <1>0, <1>3, <1>4, <2>1, <2>2 DEF DataInv
<1> QED  BY <1>0, <1>5

\* Before the operators that work on it, a tile holds what was loaded.
LEMMA FindsLoaded ==
    ASSUME TypeOK, Aligned, CrewInv, DataInv, NEW t \in Thread, Reading(t), 1 < pc[t],
           NEW i \in Elements
    PROVE  /\ ~(Has("potrf") /\ Place("potrf") < pc[t] /\ i \in Triangle) =>
                 Held(As(i)) = Given(FirstLoad.as, i)
           /\ /\ FirstLoad.bs # "none"
              /\ ~\E o \in Operator \ {"potrf"} : Has(o) /\ Place(o) < pc[t]
              => Held(Bs(i)) = Given(FirstLoad.bs, i)
<1>0. 1 \in DOMAIN Program /\ \A r \in DOMAIN Program : r \in Nat
  BY Typing, Positions, ProgramFacts
<1>1. /\ As(i) \in SUBSET Location /\ As(i) # {} /\ \A c \in As(i) : c[1] = "smem"
      /\ Bs(i) \in SUBSET Location /\ Bs(i) # {} /\ \A c \in Bs(i) : c[1] = "smem"
  BY CellsAreLocations, Addresses
<1>2. ASSUME ~(Has("potrf") /\ Place("potrf") < pc[t] /\ i \in Triangle)
      PROVE  Held(As(i)) = Given(FirstLoad.as, i)
  <2>1. PICK u \in Thread : \A c \in As(i) : Assigned(1, u, i, c)  BY Writers
  <2>2. \A c \in As(i) : Gives(1, i, c) = Given(FirstLoad.as, i)  BY WhatIsGiven
  <2>3. ASSUME NEW r \in DOMAIN Program, NEW x \in Thread, NEW j \in Elements,
               NEW c \in As(i), 1 < r, r < pc[t], Assigned(r, x, j, c)
        PROVE  FALSE
    <3>1. Has("potrf") /\ r = Place("potrf") /\ i \in Triangle
      BY <1>0, <2>3, WhoWrites
    <3> QED  BY <1>2, <2>3, <3>1
  <2> DEFINE cells == As(i)
             q == 1
             v == Given(FirstLoad.as, i)
  <2>4. \A c \in cells : c[1] = "smem" /\ Assigned(q, u, i, c) /\ Gives(q, i, c) = v
    BY <1>1, <2>1, <2>2
  <2>5. \A r \in DOMAIN Program : \A x \in Thread : \A j \in Elements : \A c \in cells :
            q < r /\ r < pc[t] => ~Assigned(r, x, j, c)
    BY <2>3
  <2>6. cells \in SUBSET Location /\ cells # {} /\ q \in DOMAIN Program /\ q < pc[t]
          /\ i \in Elements
    BY <1>0, <1>1
  <2> HIDE DEF cells, q, v
  <2>7. LastGiven(t, q, u, i, cells, v)
    BY <2>4, <2>5, <2>6 DEF LastGiven
  <2>8. Held(cells) = v  BY <2>7, ReaderFinds
  <2> QED  BY <2>8 DEF cells, v
<1>3. ASSUME FirstLoad.bs # "none",
             ~\E o \in Operator \ {"potrf"} : Has(o) /\ Place(o) < pc[t]
      PROVE  Held(Bs(i)) = Given(FirstLoad.bs, i)
  <2>1. PICK u \in Thread : \A c \in Bs(i) : Assigned(1, u, i, c)  BY <1>3, Writers
  <2>2. \A c \in Bs(i) : Gives(1, i, c) = Given(FirstLoad.bs, i)  BY WhatIsGiven
  <2>3. ASSUME NEW r \in DOMAIN Program, NEW x \in Thread, NEW j \in Elements,
               NEW c \in Bs(i), 1 < r, r < pc[t], Assigned(r, x, j, c)
        PROVE  FALSE
    <3>1. \E o \in Operator \ {"potrf"} : Has(o) /\ r = Place(o)
      BY <1>0, <2>3, WhoWrites
    <3> QED  BY <1>3, <2>3, <3>1
  <2> DEFINE cells == Bs(i)
             q == 1
             v == Given(FirstLoad.bs, i)
  <2>4. \A c \in cells : c[1] = "smem" /\ Assigned(q, u, i, c) /\ Gives(q, i, c) = v
    BY <1>1, <2>1, <2>2
  <2>5. \A r \in DOMAIN Program : \A x \in Thread : \A j \in Elements : \A c \in cells :
            q < r /\ r < pc[t] => ~Assigned(r, x, j, c)
    BY <2>3
  <2>6. cells \in SUBSET Location /\ cells # {} /\ q \in DOMAIN Program /\ q < pc[t]
          /\ i \in Elements
    BY <1>0, <1>1
  <2> HIDE DEF cells, q, v
  <2>7. LastGiven(t, q, u, i, cells, v)
    BY <2>4, <2>5, <2>6 DEF LastGiven
  <2>8. Held(cells) = v  BY <2>7, ReaderFinds
  <2> QED  BY <2>8 DEF cells, v
<1> QED  BY <1>2, <1>3

\* After operators have worked on it, a tile holds what the last one made of it.
LEMMA FindsResult ==
    ASSUME TypeOK, Aligned, CrewInv, DataInv, NEW t \in Thread, Reading(t),
           NEW o \in Operator, Has(o), Place(o) < pc[t],
           o # "potrf" => ~\E x \in Operator \ {"potrf"} :
                              Has(x) /\ Place(o) < Place(x) /\ Place(x) < pc[t],
           NEW i \in WrittenOf(o)
    PROVE  Held(Tile(o, i)) = Meaning(Described(o)).gives
<1>0. /\ Place(o) \in DOMAIN Program /\ \A r \in DOMAIN Program : r \in Nat
      /\ Place(o) > 1 /\ i \in Elements /\ 0 \in Elements
  <2>1. Place(o) \in DOMAIN Program /\ \A r \in DOMAIN Program : r \in Nat
    BY Typing, Positions, ProgramFacts
  <2>2. Place(o) > 1  BY DEF Place, Operator
  <2>3. i \in Elements  BY DEF WrittenOf, Triangle, Whole
  <2> QED  BY <2>1, <2>2, <2>3, ElementsAreNaturals
<1>1. /\ Tile(o, i) \in SUBSET Location /\ Tile(o, i) # {}
      /\ \A c \in Tile(o, i) : c[1] = "smem"
  BY <1>0, CellsAreLocations, Addresses DEF Tile
<1>2. PICK u \in Thread : \A c \in Tile(o, i) : Assigned(Place(o), u, 0, c)  BY Writers
<1>3. \A c \in Tile(o, i) : Gives(Place(o), 0, c) = Meaning(Described(o)).gives
  BY <1>0, WhatIsGiven
<1>4. ASSUME NEW r \in DOMAIN Program, NEW x \in Thread, NEW j \in Elements,
             NEW c \in Tile(o, i), Place(o) < r, r < pc[t], Assigned(r, x, j, c)
      PROVE  FALSE
  <2>0. r \in Nat /\ Place(o) \in Nat  BY <1>0
  <2>1. CASE o = "potrf"
    <3>1. c \in As(i)  BY <2>1 DEF Tile
    <3>2. r = 1 \/ r = Place("potrf")  BY <1>0, <1>4, <3>1, WhoWrites
    <3> QED  BY <1>0, <1>4, <2>0, <2>1, <3>2
  <2>2. CASE o # "potrf"
    <3>1. c \in Bs(i)  BY <2>2 DEF Tile
    <3>2. r = 1 \/ \E y \in Operator \ {"potrf"} : Has(y) /\ r = Place(y)
      BY <1>0, <1>4, <3>1, WhoWrites
    <3> QED  BY <1>0, <1>4, <2>0, <2>2, <3>2
  <2> QED  BY <2>1, <2>2
<1> DEFINE cells == Tile(o, i)
           q == Place(o)
           v == Meaning(Described(o)).gives
<1>5. \A c \in cells : c[1] = "smem" /\ Assigned(q, u, 0, c) /\ Gives(q, 0, c) = v
  BY <1>1, <1>2, <1>3
<1>6. \A r \in DOMAIN Program : \A x \in Thread : \A j \in Elements : \A c \in cells :
          q < r /\ r < pc[t] => ~Assigned(r, x, j, c)
  BY <1>4
<1>7. cells \in SUBSET Location /\ cells # {} /\ q \in DOMAIN Program /\ q < pc[t]
        /\ 0 \in Elements
  BY <1>0, <1>1
<1> HIDE DEF cells, q, v
<1>8. LastGiven(t, q, u, 0, cells, v)
  BY <1>5, <1>6, <1>7 DEF LastGiven
<1>9. Held(cells) = v  BY <1>8, ReaderFinds
<1> QED  BY <1>9 DEF cells, v

\* After heev, lambda_s holds the eigenvalues.
LEMMA FindsEigenvalues ==
    ASSUME TypeOK, Aligned, CrewInv, DataInv, NEW t \in Thread, Reading(t),
           Has("heev"), Place("heev") < pc[t], NEW i \in Eigenvalues
    PROVE  Held(Lambda(i)) = "W"
<1>0. /\ Place("heev") \in DOMAIN Program /\ "heev" \in Operator /\ 0 \in Elements
      /\ i \in Elements /\ \A r \in DOMAIN Program : r \in Nat
  <2>1. "heev" \in Operator  BY DEF Operator
  <2>2. Place("heev") \in DOMAIN Program /\ \A r \in DOMAIN Program : r \in Nat
    BY <2>1, Typing, Positions, ProgramFacts
  <2>3. i \in Elements
    <3> DEFINE s == kN * kN * Batch
               w == kN * Batch
    <3>1. s \in Nat /\ w \in Nat /\ w <= s  BY Offsets
    <3>2. Elements = 0 .. s - 1 /\ Eigenvalues = 0 .. w - 1
      BY DEF Elements, Eigenvalues
    <3> HIDE DEF s, w
    <3> QED  BY <3>1, <3>2
  <2> QED  BY <2>1, <2>2, <2>3, ElementsAreNaturals
<1>1. /\ Lambda(i) \in SUBSET Location /\ Lambda(i) # {}
      /\ \A c \in Lambda(i) : c[1] = "smem"
  BY <1>0, CellsAreLocations, Addresses
<1>2. PICK u \in Thread : \A c \in Lambda(i) : Assigned(Place("heev"), u, 0, c)
  BY <1>0, Writers
<1>3. \A c \in Lambda(i) : Gives(Place("heev"), 0, c) = "W"
  BY <1>0, WhatIsGiven
<1>4. ASSUME NEW r \in DOMAIN Program, NEW x \in Thread, NEW j \in Elements,
             NEW c \in Lambda(i), Place("heev") < r, r < pc[t], Assigned(r, x, j, c)
      PROVE  FALSE
  <2>1. r = Place("heev")  BY <1>4, WhoWrites
  <2> QED  BY <1>0, <1>4, <2>1
<1> DEFINE cells == Lambda(i)
           q == Place("heev")
           v == "W"
<1>5. \A c \in cells : c[1] = "smem" /\ Assigned(q, u, 0, c) /\ Gives(q, 0, c) = v
  BY <1>1, <1>2, <1>3
<1>6. \A r \in DOMAIN Program : \A x \in Thread : \A j \in Elements : \A c \in cells :
          q < r /\ r < pc[t] => ~Assigned(r, x, j, c)
  BY <1>4
<1>7. cells \in SUBSET Location /\ cells # {} /\ q \in DOMAIN Program /\ q < pc[t]
        /\ 0 \in Elements
  BY <1>0, <1>1
<1> HIDE DEF cells, q, v
<1>8. LastGiven(t, q, u, 0, cells, v)
  BY <1>5, <1>6, <1>7 DEF LastGiven
<1>9. Held(cells) = v  BY <1>8, ReaderFinds
<1> QED  BY <1>9 DEF cells, v

\* Where a thread is that is about to read.
LEMMA Readers ==
    ASSUME TypeOK, NEW t \in Thread, Reading(t)
    PROVE  \/ \E o \in Operator : /\ Has(o) /\ pc[t] = Place(o)
                                  /\ Program[pc[t]].do = "run" /\ Program[pc[t]].op = o
           \/ /\ Program[pc[t]] \in LastStatements /\ Program[pc[t]].do = "store" /\ pc[t] > 3
              /\ \A o \in Operator : Has(o) => Place(o) < pc[t]
<1>1. InPlace(pc[t]) /\ Program[1] = FirstLoad  BY Typing, Positions DEF Reading
<1>2. FirstLoad.do = "load"  BY Fields DEF FirstLoad
<1>3. pc[t] # 1 /\ Program[pc[t]] # Sync  BY <1>1, <1>2, Fields DEF Reading
<1>4. CASE \E o \in Operator : Has(o) /\ pc[t] = Place(o) /\ Program[pc[t]] = Run(o)
  BY <1>4, Fields
<1>5. CASE /\ Program[pc[t]] \in LastStatements /\ pc[t] > 3
           /\ \A o \in Operator : Has(o) => Place(o) < pc[t]
  BY <1>5, LastAreStores
<1> QED  BY <1>1, <1>3, <1>4, <1>5 DEF InPlace

\* L, as the triangular solves and the stores find it.
LEMMA FindsFactor ==
    ASSUME TypeOK, Aligned, CrewInv, DataInv, NEW t \in Thread, Reading(t),
           pc[t] > 3 \/ kernel = "finish_n54", NEW i \in Triangle
    PROVE  Held(As(i)) = "L"
<1>0. i \in Elements /\ Lower(i) /\ "potrf" \in Operator  BY DEF Triangle, Operator
<1>1. CASE kernel # "finish_n54"
  <2>1. Has("potrf") /\ Place("potrf") = 3 /\ Place("potrf") < pc[t]
    <3>1. pc[t] \in Nat  BY Typing, ProgramFacts DEF Reading
    <3> QED  BY <1>1, <3>1 DEF Has, Place
  <2>2. i \in WrittenOf("potrf") /\ Tile("potrf", i) = As(i)  BY DEF WrittenOf, Tile
  <2>3. Held(As(i)) = Meaning(Described("potrf")).gives
    BY <1>0, <2>1, <2>2, FindsResult
  <2>4. Meaning(Described("potrf")).gives = "L"
    <3>1. Meaning(Described("potrf")) = [takes |-> "S", gives |-> "L"]
      BY <1>0, <2>1, Typing, Meanings
    <3> QED  BY <3>1
  <2> QED  BY <2>3, <2>4
<1>2. CASE kernel = "finish_n54"
  <2>1. ~Has("potrf")  BY <1>2 DEF Has
  <2>2. 1 < pc[t]
    <3>1. pc[t] \in Nat  BY Typing, ProgramFacts DEF Reading
    <3>2. \A o \in Operator : Place(o) > 1  BY DEF Place, Operator
    <3> QED  BY <3>1, <3>2, Readers
  <2>3. FirstLoad.as = "L"  BY <1>2, Fields DEF FirstLoad
  <2>4. Held(As(i)) = Given("L", i)  BY <1>0, <2>1, <2>2, <2>3, FindsLoaded
  <2> QED  BY <1>0, <2>4 DEF Given
<1> QED  BY <1>1, <1>2

\* Every operator reads what it takes its operands for.
LEMMA OperandsSound ==
    ASSUME TypeOK, Aligned, CrewInv, DataInv, NEW t \in Thread, Reading(t),
           Program[pc[t]].do = "run"
    PROVE  Sound(Program[pc[t]].op)
<1>1. PICK o \in Operator : Has(o) /\ pc[t] = Place(o) /\ Program[pc[t]].op = o
  BY Readers
<1>2. kernel \in Kernels  BY Typing
<1>3. Operator = {"potrf", "trsmLeft", "trsmRight", "heev", "trsmLeftConj"}  BY DEF Operator
<1>4. /\ Place("potrf") = 3 /\ Place("trsmLeft") = 5 /\ Place("trsmRight") = 7
      /\ Place("heev") = IF kernel = "finish_n54" THEN 3 ELSE 9
      /\ Place("trsmLeftConj") = IF kernel = "finish_n54" THEN 5 ELSE 11
  BY DEF Place
<1>5. \A i \in Triangle : i \in Elements /\ Lower(i)  BY DEF Triangle
<1>6. \A i \in Factor(o) : Held(As(i)) = "L"
  <2>1. CASE o \in {"potrf", "heev"}  BY <2>1 DEF Factor
  <2>2. CASE o \in {"trsmLeft", "trsmRight", "trsmLeftConj"}
    <3>1. Factor(o) = Triangle  BY <2>2 DEF Factor
    <3>2. pc[t] > 3  BY <1>1, <1>4, <2>2
    <3> QED  BY <3>1, <3>2, FindsFactor
  <2> QED  BY <1>3, <2>1, <2>2
<1>7. ASSUME NEW x \in Operator, Has(x), Place(x) < pc[t],
             x # "potrf" => ~\E y \in Operator \ {"potrf"} :
                                Has(y) /\ Place(x) < Place(y) /\ Place(y) < pc[t],
             NEW i \in Elements, x # "potrf"
      PROVE  Held(Bs(i)) = Meaning(Described(x)).gives
  <2>1. WrittenOf(x) = Elements /\ Tile(x, i) = Bs(i)
    BY <1>7 DEF WrittenOf, Whole, Tile
  <2> QED  BY <1>7, <2>1, FindsResult
<1>8. ReadOf(o) \subseteq Elements /\ (o \in {"potrf", "heev"} => ReadOf(o) = Triangle)
  BY <1>5 DEF ReadOf, Whole
<1>9. \A i \in ReadOf(o) : Held(Tile(o, i)) = Meaning(Described(o)).takes
  <2> TAKE i \in ReadOf(o)
  <2>0. i \in Elements  BY <1>8
  <2>1. CASE o = "potrf"
    <3>1. kernel # "finish_n54"  BY <1>1, <2>1 DEF Has
    <3>2. FirstLoad.as = "S"  BY <3>1, Fields DEF FirstLoad
    <3>3. 1 < pc[t] /\ ~(Place("potrf") < pc[t])  BY <1>1, <1>4, <2>1
    <3>4. Held(As(i)) = Given("S", i)  BY <2>0, <3>2, <3>3, FindsLoaded
    <3>5. Given("S", i) = "S"  BY DEF Given
    <3>6. Meaning(Described(o)) = [takes |-> "S", gives |-> "L"]
      BY <1>1, <1>2, <2>1, Meanings
    <3> QED  BY <2>1, <3>4, <3>5, <3>6 DEF Tile
  <2>2. CASE o = "trsmLeft"
    <3>1. kernel \notin {"chol_n54", "finish_n54"}  BY <1>1, <2>2 DEF Has
    <3>2. FirstLoad.bs = "H"  BY <3>1, Fields DEF FirstLoad
    <3>3. 1 < pc[t] /\ ~\E x \in Operator \ {"potrf"} : Has(x) /\ Place(x) < pc[t]
      BY <1>1, <1>3, <1>4, <2>2, <3>1
    <3>4. Held(Bs(i)) = Given("H", i)  BY <2>0, <3>2, <3>3, FindsLoaded
    <3>5. Given("H", i) = "H"  BY DEF Given
    <3>6. Meaning(Described(o)) = [takes |-> "H", gives |-> "Y"]
      BY <1>1, <1>2, <2>2, Meanings
    <3> QED  BY <2>2, <3>4, <3>5, <3>6 DEF Tile
  <2>3. CASE o = "trsmRight"
    <3>1. Has("trsmLeft") /\ kernel # "finish_n54"  BY <1>1, <2>3 DEF Has
    <3>2. /\ Place("trsmLeft") < pc[t] /\ "trsmLeft" \in Operator
          /\ ~\E y \in Operator \ {"potrf"} :
                 Has(y) /\ Place("trsmLeft") < Place(y) /\ Place(y) < pc[t]
      BY <1>1, <1>3, <1>4, <2>3, <3>1
    <3>3. Held(Bs(i)) = Meaning(Described("trsmLeft")).gives
      BY <1>7, <2>0, <3>1, <3>2
    <3>4. /\ Meaning(Described("trsmLeft")) = [takes |-> "H", gives |-> "Y"]
          /\ Meaning(Described(o)) = [takes |-> "Y", gives |-> "M"]
      BY <1>1, <1>2, <2>3, <3>1, <3>2, Meanings
    <3> QED  BY <2>3, <3>3, <3>4 DEF Tile
  <2>4. CASE o = "heev" /\ kernel # "finish_n54"
    <3>1. Has("trsmRight") /\ kernel # "finish_n54"  BY <1>1, <2>4 DEF Has
    <3>2. /\ Place("trsmRight") < pc[t] /\ "trsmRight" \in Operator
          /\ ~\E y \in Operator \ {"potrf"} :
                 Has(y) /\ Place("trsmRight") < Place(y) /\ Place(y) < pc[t]
      BY <1>1, <1>3, <1>4, <2>4, <3>1
    <3>3. Held(Bs(i)) = Meaning(Described("trsmRight")).gives
      BY <1>7, <2>0, <3>1, <3>2
    <3>4. /\ Meaning(Described("trsmRight")) = [takes |-> "Y", gives |-> "M"]
          /\ Meaning(Described(o)) = [takes |-> "M", gives |-> "V"]
      BY <1>1, <1>2, <2>4, <3>1, <3>2, Meanings
    <3> QED  BY <2>4, <3>3, <3>4 DEF Tile
  <2>5. CASE o = "heev" /\ kernel = "finish_n54"
    <3>1. FirstLoad.bs = "M"  BY <2>5, Fields DEF FirstLoad
    <3>2. 1 < pc[t] /\ ~\E x \in Operator \ {"potrf"} : Has(x) /\ Place(x) < pc[t]
      <4>1. \A x \in Operator : Has(x) => x \in {"heev", "trsmLeftConj"}
        BY <1>2, <2>5, Tables
      <4> QED  BY <1>1, <1>4, <2>5, <4>1
    <3>3. Held(Bs(i)) = Given("M", i)  BY <2>0, <3>1, <3>2, FindsLoaded
    <3>4. Given("M", i) = "M"  BY DEF Given
    <3>5. Meaning(Described(o)) = [takes |-> "M", gives |-> "V"]
      BY <1>1, <1>2, <2>5, Meanings
    <3> QED  BY <2>5, <3>3, <3>4, <3>5 DEF Tile
  <2>6. CASE o = "trsmLeftConj"
    <3>1. Has("heev")  BY <1>1, <2>6 DEF Has
    <3>2. /\ Place("heev") < pc[t] /\ "heev" \in Operator
          /\ ~\E y \in Operator \ {"potrf"} :
                 Has(y) /\ Place("heev") < Place(y) /\ Place(y) < pc[t]
      <4>1. kernel = "finish_n54" =>
               \A x \in Operator : Has(x) => x \in {"heev", "trsmLeftConj"}
        BY <1>2, Tables
      <4> QED  BY <1>1, <1>3, <1>4, <2>6, <4>1
    <3>3. Held(Bs(i)) = Meaning(Described("heev")).gives
      BY <1>7, <2>0, <3>1, <3>2
    <3>4. /\ Meaning(Described("heev")) = [takes |-> "M", gives |-> "V"]
          /\ Meaning(Described(o)) = [takes |-> "V", gives |-> "U"]
      BY <1>1, <1>2, <2>6, <3>1, <3>2, Meanings
    <3> QED  BY <2>6, <3>3, <3>4 DEF Tile
  <2> QED  BY <1>3, <2>1, <2>2, <2>3, <2>4, <2>5, <2>6
<1> QED  BY <1>1, <1>6, <1>9 DEF Sound

\* Every store finds what the array is to get.
LEMMA StoresSound ==
    ASSUME TypeOK, Aligned, CrewInv, DataInv, NEW t \in Thread, Reading(t),
           Program[pc[t]].do = "store", NEW a \in Program[pc[t]].arrays,
           NEW i \in Elements, a = "W" => i \in Eigenvalues
    PROVE  (IF Program[pc[t]].zeroed /\ ~Lower(i) THEN "zero" ELSE Held(Source(a, i)))
              = Expected(a, i)
<1> DEFINE s == Program[pc[t]]
<1>1. /\ s \in LastStatements /\ pc[t] > 3
      /\ \A o \in Operator : Has(o) => Place(o) < pc[t]
  BY Readers
<1> HIDE DEF s
<1>2. /\ kernel = "chol_n54" => s.arrays = {"L"} /\ s.zeroed = TRUE
      /\ kernel = "reduce_n54" => s.arrays = {"M"} /\ s.zeroed = TRUE
      /\ kernel = "geneig_reduce" => s.arrays = {"L", "M"} /\ s.zeroed = FALSE
      /\ kernel \notin {"chol_n54", "reduce_n54", "geneig_reduce"} =>
            s.arrays \in {{"W"}, {"U"}} /\ s.zeroed = FALSE
  BY <1>1, LastAreStores
<1>3. kernel \in Kernels /\ a \in s.arrays /\ a \in {"L", "M", "W", "U"}
  <2>1. kernel \in Kernels /\ a \in s.arrays  BY Typing DEF s
  <2> QED  BY <1>2, <2>1
<1>4. Operator = {"potrf", "trsmLeft", "trsmRight", "heev", "trsmLeftConj"}  BY DEF Operator
<1>5. /\ Place("potrf") = 3 /\ Place("trsmLeft") = 5 /\ Place("trsmRight") = 7
      /\ Place("heev") = IF kernel = "finish_n54" THEN 3 ELSE 9
      /\ Place("trsmLeftConj") = IF kernel = "finish_n54" THEN 5 ELSE 11
  BY DEF Place
<1>6. ASSUME NEW x \in Operator, Has(x), x # "potrf",
             ~\E y \in Operator \ {"potrf"} : Has(y) /\ Place(x) < Place(y)
      PROVE  Held(Bs(i)) = Meaning(Described(x)).gives
  <2>1. WrittenOf(x) = Elements /\ Tile(x, i) = Bs(i)
    BY <1>6 DEF WrittenOf, Whole, Tile
  <2> QED  BY <1>1, <1>6, <2>1, FindsResult
<1>7. CASE a = "L"
  <2>1. kernel \in {"chol_n54", "geneig_reduce"}  BY <1>2, <1>3, <1>7
  <2>2. Source(a, i) = As(i)  BY <1>7 DEF Source
  <2>3. CASE Lower(i)
    <3>1. i \in Triangle  BY <2>3 DEF Triangle
    <3>2. Held(As(i)) = "L"  BY <1>1, <3>1, FindsFactor
    <3> QED  BY <1>7, <2>2, <2>3, <3>2 DEF Expected
  <2>4. CASE ~Lower(i)
    <3>1. i \notin Triangle  BY <2>4 DEF Triangle
    <3>2. FirstLoad.as = "S"  BY <2>1, Fields DEF FirstLoad
    <3>3. 1 < pc[t]
      <4>1. pc[t] \in Nat  BY Typing, ProgramFacts DEF Reading
      <4> QED  BY <1>1, <4>1
    <3>4. Held(As(i)) = Given("S", i)  BY <3>1, <3>2, <3>3, FindsLoaded
    <3>5. Given("S", i) = "S"  BY DEF Given
    <3>6. s.zeroed = (kernel = "chol_n54")  BY <1>2, <2>1
    <3> QED  BY <1>7, <2>2, <2>4, <3>4, <3>5, <3>6 DEF Expected, s
  <2> QED  BY <2>3, <2>4
<1>8. CASE a = "M"
  <2>1. kernel \in {"reduce_n54", "geneig_reduce"}  BY <1>2, <1>3, <1>8
  <2>2. Source(a, i) = Bs(i)  BY <1>8 DEF Source
  <2>3. /\ Has("trsmRight") /\ "trsmRight" \in Operator
        /\ ~\E y \in Operator \ {"potrf"} : Has(y) /\ Place("trsmRight") < Place(y)
    <3>1. \A y \in Operator : Has(y) <=> y \in {"potrf", "trsmLeft", "trsmRight"}
      BY <1>3, <2>1, Tables
    <3> QED  BY <1>4, <1>5, <3>1
  <2>4. Held(Bs(i)) = "M"
    <3>1. Held(Bs(i)) = Meaning(Described("trsmRight")).gives  BY <1>6, <2>3
    <3>2. Meaning(Described("trsmRight")) = [takes |-> "Y", gives |-> "M"]
      BY <1>3, <2>3, Meanings
    <3> QED  BY <3>1, <3>2
  <2>5. s.zeroed = (kernel = "reduce_n54")  BY <1>2, <2>1
  <2> QED  BY <1>8, <2>2, <2>4, <2>5 DEF Expected, s
<1>9. CASE a = "W"
  <2>1. Source(a, i) = Lambda(i)  BY <1>9 DEF Source
  <2>2. kernel \notin {"chol_n54", "reduce_n54", "geneig_reduce"} /\ s.zeroed = FALSE
    BY <1>2, <1>3, <1>9
  <2>3. Has("heev") /\ "heev" \in Operator  BY <1>4, <2>2 DEF Has
  <2>4. Held(Lambda(i)) = "W"  BY <1>1, <1>9, <2>3, FindsEigenvalues
  <2> QED  BY <1>9, <2>1, <2>2, <2>4 DEF Expected, s
<1>10. CASE a = "U"
  <2>1. Source(a, i) = Bs(i)  BY <1>10 DEF Source
  <2>2. kernel \notin {"chol_n54", "reduce_n54", "geneig_reduce"} /\ s.zeroed = FALSE
    BY <1>2, <1>3, <1>10
  <2>3. CASE kernel = "reduce_eig_n54"
    <3>1. /\ Has("heev") /\ "heev" \in Operator
          /\ ~\E y \in Operator \ {"potrf"} : Has(y) /\ Place("heev") < Place(y)
      <4>1. \A y \in Operator : Has(y) <=> y # "trsmLeftConj"  BY <1>3, <2>3, Tables
      <4> QED  BY <1>4, <1>5, <2>3, <4>1
    <3>2. Held(Bs(i)) = Meaning(Described("heev")).gives  BY <1>6, <3>1
    <3>3. Meaning(Described("heev")) = [takes |-> "M", gives |-> "V"]
      BY <1>3, <3>1, Meanings
    <3> QED  BY <1>10, <2>1, <2>2, <2>3, <3>2, <3>3 DEF Expected, s
  <2>4. CASE kernel # "reduce_eig_n54"
    <3>1. /\ Has("trsmLeftConj") /\ "trsmLeftConj" \in Operator
          /\ ~\E y \in Operator \ {"potrf"} : Has(y) /\ Place("trsmLeftConj") < Place(y)
      <4>1. Has("trsmLeftConj")  BY <2>2, <2>4 DEF Has
      <4>2. kernel = "finish_n54" =>
               \A y \in Operator : Has(y) => y \in {"heev", "trsmLeftConj"}
        BY <1>3, Tables
      <4> QED  BY <1>4, <1>5, <4>1, <4>2
    <3>2. Held(Bs(i)) = Meaning(Described("trsmLeftConj")).gives  BY <1>6, <3>1
    <3>3. Meaning(Described("trsmLeftConj")) = [takes |-> "V", gives |-> "U"]
      BY <1>3, <3>1, Meanings
    <3> QED  BY <1>10, <2>1, <2>2, <2>4, <3>2, <3>3 DEF Expected, s
  <2> QED  BY <2>3, <2>4
<1> QED  BY <1>3, <1>7, <1>8, <1>9, <1>10
-----------------------------------------------------------------------------
\* Every step keeps the invariant.

\* A round of a copy loop gives its cells what they are to get.
LEMMA CopyKeepsData ==
    ASSUME TypeOK, Aligned, CrewInv, DataInv, NEW t \in Thread, Copy(t)
    PROVE  DataInv'
<1>1. PICK p, k : p = pc[t] /\ k = idx[t]  OBVIOUS
<1>2. /\ InLoop(t) /\ p \in DOMAIN Program /\ Program[p].do \in {"load", "store"}
      /\ k < Count(Program[p])
      /\ UNCHANGED <<kernel, crew, spoiled>>
  BY <1>1 DEF Copy, InLoop, Doing, Running
<1>3. /\ k \in Nat /\ k % BlockDimX = t /\ p \in Nat
  BY <1>1, <1>2, Typing, ProgramFacts
<1>4. k \in Elements /\ (Program[p].do = "store" /\ Program[p].arrays = {"W"} => k \in Eigenvalues)
  BY <1>2, <1>3, LoopVariables
<1>5. \A c : Assigned(p, t, k, c) <=> c \in CopyCells(Program[p], k)
  BY <1>2, <1>3 DEF Assigned
<1>6. ~Past(p, t, k)
  BY <1>1, <1>3 DEF Past
<1>7. \A q \in DOMAIN Program : \A u \in Thread : \A j \in Elements : \A c :
         Assigned(q, u, j, c) =>
            (Past(q, u, j)' <=> Past(q, u, j) \/ (q = p /\ u = t /\ j = k))
  BY <1>1, PastByCopy
<1>8. /\ \A c \in Location : Assigned(p, t, k, c) => mem'[c] = Gives(p, k, c)
      /\ \A c \in Location : ~Assigned(p, t, k, c) => mem'[c] = mem[c]
  <2>1. CASE Program[p].do = "load"
    <3>1. Loading(Program[p], k)  BY <1>1, <2>1 DEF Copy
    <3>2. CopyCells(Program[p], k) = LoadCells(Program[p], k)  BY <2>1 DEF CopyCells
    <3>3. \A c \in Location :
             mem'[c] = IF c \in As(k) THEN Given(Program[p].as, k)
                       ELSE IF Program[p].bs # "none" /\ c \in Bs(k)
                            THEN Given(Program[p].bs, k) ELSE mem[c]
      BY <3>1 DEF Loading
    <3>4. \A c : Gives(p, k, c) = IF c \in As(k) THEN Given(Program[p].as, k)
                                  ELSE Given(Program[p].bs, k)
      BY <2>1 DEF Gives
    <3>5. \A c : Assigned(p, t, k, c) <=>
             c \in As(k) \/ (Program[p].bs # "none" /\ c \in Bs(k))
      BY <1>5, <3>2 DEF LoadCells
    <3> QED  BY <3>3, <3>4, <3>5
  <2>2. CASE Program[p].do = "store"
    <3>1. Storing(Program[p], k)  BY <1>1, <2>2 DEF Copy
    <3>2. CopyCells(Program[p], k) = StoreCells(Program[p], k)  BY <2>2 DEF CopyCells
    <3>3. \A c \in Location :
             mem'[c] = IF c \in StoreCells(Program[p], k)
                       THEN IF Program[p].zeroed /\ ~Lower(k) THEN "zero"
                            ELSE Held(Source(c[1], k))
                       ELSE mem[c]
      BY <3>1 DEF Storing
    <3>4. Reading(t)  BY <1>1, <1>2, <2>2 DEF Reading
    <3>5. Program[p].arrays \in {{"W"}, {"U"}, {"L"}, {"M"}, {"L", "M"}}
      <4>1. Program[p] \in Statement(Runs)  BY <1>2, Typing, ProgramFacts
      <4> QED  BY <2>2, <4>1, Kinds
    <3>6. ASSUME NEW c \in StoreCells(Program[p], k)
          PROVE  (IF Program[p].zeroed /\ ~Lower(k) THEN "zero" ELSE Held(Source(c[1], k)))
                    = Expected(c[1], k)
      <4>1. c[1] \in Program[p].arrays  BY Addresses DEF StoreCells
      <4>2. c[1] = "W" => k \in Eigenvalues  BY <1>4, <2>2, <3>5, <4>1
      <4> QED  BY <1>1, <1>4, <2>2, <3>4, <4>1, <4>2, StoresSound
    <3>7. \A c : Gives(p, k, c) = Expected(c[1], k)  BY <2>2 DEF Gives
    <3> QED  BY <1>5, <3>2, <3>3, <3>6, <3>7
  <2> QED  BY <1>2, <2>1, <2>2
<1> QED  BY <1>1, <1>2, <1>4, <1>6, <1>7, <1>8, DataWritten

\* A member of a crew gives its share what the operator gives.
LEMMA ResultsKeepData ==
    ASSUME TypeOK, Aligned, CrewInv, DataInv, NEW t \in Thread, WriteResults(t)
    PROVE  DataInv'
<1>1. PICK p, o : p = pc[t] /\ o = Program[pc[t]].op  OBVIOUS
<1>2. /\ p \in DOMAIN Program /\ Program[p].do = "run" /\ t \in crew[o]
      /\ Leave(t) /\ UNCHANGED <<kernel, crew, spoiled>>
  BY <1>1 DEF WriteResults, InCrew, Doing, Running
<1>3. o \in Operator
  <2>1. Program[p] \in Statement(Runs)  BY <1>2, Typing, ProgramFacts
  <2>2. o \in Runs  BY <1>1, <1>2, <2>1, Kinds
  <2> QED  BY <2>2 DEF Runs, Operator
<1>4. 0 \in Elements /\ p \in Nat  BY <1>2, Typing, ProgramFacts, ElementsAreNaturals
<1>5. /\ \A c : Assigned(p, t, 0, c) <=> c \in WriteShare(o, t)
      /\ \A j, c : Assigned(p, t, j, c) => j = 0
  BY <1>1, <1>2 DEF Assigned
<1>6. ~Past(p, t, 0)  BY <1>1, <1>2, <1>4 DEF Past
<1>7. ASSUME NEW q \in DOMAIN Program, NEW u \in Thread, NEW j \in Elements, NEW c,
             Assigned(q, u, j, c)
      PROVE  Past(q, u, j)' <=> Past(q, u, j) \/ (q = p /\ u = t /\ j = 0)
  <2>1. Past(q, u, j)' <=> Past(q, u, j) \/ (q = p /\ u = t)
    BY <1>1, <1>2, <1>7, PastByLeaving
  <2> QED  BY <1>5, <1>7, <2>1
<1>8. p \notin spoiled  BY DEF DataInv
<1>9. \A c \in Location :
         mem'[c] = CASE c \in InfoShare(o, t) -> o
                     [] c \in WorkShare(o, t) -> "scratch"
                     [] c \in LambdaShare(o, t) -> "W"
                     [] c \in TileShare(o, t) -> Meaning(Described(o)).gives
                     [] OTHER -> mem[c]
  BY <1>1, <1>8 DEF WriteResults
<1> DEFINE g == Meaning(Described(o)).gives
<1>10. ASSUME NEW c \in Location, c \in WriteShare(o, t)
       PROVE  mem'[c] = Gives(p, 0, c)
  <2>1. /\ c \in InfoShare(o, t) <=> c[1] = "info"
        /\ c \in WorkShare(o, t) <=> c \in Workspace
        /\ c \in LambdaShare(o, t) <=> \E k \in Eigenvalues : c \in Lambda(k)
    BY <1>3, <1>10, ShareAreas
  <2>2. Gives(p, 0, c) = IF c[1] = "info" THEN o
                         ELSE IF c \in Workspace THEN "scratch"
                         ELSE IF \E j \in Eigenvalues : c \in Lambda(j) THEN "W"
                         ELSE g
    BY <1>1, <1>2 DEF Gives
  <2>3. \/ c \in InfoShare(o, t) \/ c \in WorkShare(o, t) \/ c \in LambdaShare(o, t)
        \/ c \in TileShare(o, t)
    BY <1>10 DEF WriteShare
  <2>4. /\ c \in Workspace => c[1] = "smem"
        /\ \A k \in Eigenvalues : c \in Lambda(k) => c[1] = "smem" /\ c \notin Workspace
        /\ c \in TileShare(o, t) =>
              /\ c[1] = "smem" /\ c \notin Workspace
              /\ \A k \in Eigenvalues : c \notin Lambda(k)
    <3>1. LambdaOffset \in Nat /\ kN * Batch \in Nat  BY Offsets
    <3>2. \A i \in WrittenOf(o) : i \in Elements  BY DEF WrittenOf, Triangle, Whole
    <3>3. c \in TileShare(o, t) =>
             \E i \in Elements : c \in As(i) \/ c \in Bs(i)
      BY <3>2 DEF TileShare, Share, Tile
    <3> QED  BY <3>1, <3>3, Layout
  <2>5. mem'[c] = CASE c \in InfoShare(o, t) -> o
                    [] c \in WorkShare(o, t) -> "scratch"
                    [] c \in LambdaShare(o, t) -> "W"
                    [] c \in TileShare(o, t) -> g
                    [] OTHER -> mem[c]
    BY <1>9, <1>10
  <2> HIDE DEF g
  <2> DEFINE inInfo == c \in InfoShare(o, t)
             inWork == c \in WorkShare(o, t)
             inLambda == c \in LambdaShare(o, t)
             inTile == c \in TileShare(o, t)
  <2>6. mem'[c] = CASE inInfo -> o [] inWork -> "scratch" [] inLambda -> "W"
                    [] inTile -> g [] OTHER -> mem[c]
    BY <2>5
  <2>7. Gives(p, 0, c) = IF inInfo THEN o ELSE IF inWork THEN "scratch"
                         ELSE IF inLambda THEN "W" ELSE g
    BY <2>1, <2>2
  <2>8. /\ inInfo \/ inWork \/ inLambda \/ inTile
        /\ ~(inInfo /\ inWork) /\ ~(inInfo /\ inLambda) /\ ~(inWork /\ inLambda)
        /\ ~(inInfo /\ inTile) /\ ~(inWork /\ inTile) /\ ~(inLambda /\ inTile)
    BY <2>1, <2>3, <2>4
  <2> HIDE DEF inInfo, inWork, inLambda, inTile
  <2> QED  BY <2>6, <2>7, <2>8
<1>11. ASSUME NEW c \in Location, c \notin WriteShare(o, t)
       PROVE  mem'[c] = mem[c]
  BY <1>9, <1>11 DEF WriteShare
<1>12. /\ \A c \in Location : Assigned(p, t, 0, c) => mem'[c] = Gives(p, 0, c)
       /\ \A c \in Location : ~Assigned(p, t, 0, c) => mem'[c] = mem[c]
  BY <1>5, <1>10, <1>11
<1> QED  BY <1>1, <1>2, <1>4, <1>6, <1>7, <1>12, DataWritten

\* A thread that goes on without writing has nothing left to write.
LEMMA GoingOnKeepsData ==
    ASSUME TypeOK, DataInv, NEW t \in Thread,
           LoopEnds(t) \/ RunAhead(t) \/ Synchronise(t)
    PROVE  DataInv'
<1>1. PICK p : p = pc[t]  OBVIOUS
<1>2. Leave(t) /\ UNCHANGED <<kernel, crew, spoiled, mem>>
  BY DEF LoopEnds, RunAhead, Synchronise
<1>3. ASSUME NEW j \in Elements, NEW c, Assigned(p, t, j, c)
      PROVE  Past(p, t, j)
  <2>1. CASE LoopEnds(t)
    <3>1. Program[p].do \in {"load", "store"} /\ idx[t] >= Count(Program[p])
      BY <1>1, <2>1 DEF LoopEnds, Doing
    <3>2. j < Count(Program[p])  BY <1>3, <3>1 DEF Assigned
    <3>3. Count(Program[p]) \in Nat
      <4>1. kN * Batch \in Nat /\ kN * kN * Batch \in Nat  BY Offsets
      <4> QED  BY <4>1 DEF Count
    <3>4. idx[t] > j  BY <3>1, <3>2, <3>3, Typing, ElementsAreNaturals
    <3> QED  BY <1>1, <3>1, <3>4 DEF Past
  <2>2. CASE RunAhead(t)
    <3>1. Program[p].do = "run" /\ t \notin crew[Program[p].op]
      BY <1>1, <2>2 DEF RunAhead, InCrew, Doing
    <3> QED  BY <1>3, <3>1 DEF Assigned
  <2>3. CASE Synchronise(t)
    <3>1. Program[p].do = "sync"  BY <1>1, <2>3 DEF Synchronise, Doing
    <3> QED  BY <1>3, <3>1, BarriersWriteNothing
  <2> QED  BY <2>1, <2>2, <2>3
<1>4. ASSUME NEW q \in DOMAIN Program, NEW u \in Thread, NEW j \in Elements, NEW c,
             Assigned(q, u, j, c)
      PROVE  Past(q, u, j)' <=> Past(q, u, j)
  <2>1. Past(q, u, j)' <=> Past(q, u, j) \/ (q = p /\ u = t)
    BY <1>1, <1>2, <1>4, PastByLeaving
  <2> QED  BY <1>3, <1>4, <2>1
<1> QED  BY <1>2, <1>4, DataKept

\* Reading finds the operands as they have to be, and changes nothing else.
LEMMA ReadingKeepsData ==
    ASSUME TypeOK, Aligned, CrewInv, DataInv, NEW t \in Thread, ReadOperands(t)
    PROVE  DataInv'
<1>1. /\ Reading(t) /\ Program[pc[t]].do = "run"
      /\ UNCHANGED <<kernel, crew, pc, idx, mem>>
      /\ spoiled' = IF Sound(Program[pc[t]].op) THEN spoiled ELSE spoiled \cup {pc[t]}
  BY DEF ReadOperands, InCrew, Doing, Running, Reading
<1>2. spoiled' = spoiled  BY <1>1, OperandsSound
<1>3. Program' = Program  BY <1>1, SameProgram
<1>4. \A q, u, j : Past(q, u, j)' <=> Past(q, u, j)  BY <1>1, <1>3 DEF Past
<1> QED  BY <1>1, <1>2, <1>4, DataKept
-----------------------------------------------------------------------------
\* Starting, and waiting for the crew.

\* Who works in an operator is a thread of the block.
LEMMA RunCrews ==
    ASSUME TypeOK, NEW q \in DOMAIN Program, Program[q].do = "run"
    PROVE  Program[q].op \in Operator /\ crew[Program[q].op] \in (SUBSET Thread) \ {{}}
<1>1. Program[q] \in Statement(Runs)  BY Typing, ProgramFacts
<1>2. Program[q].op \in Runs  BY <1>1, Kinds
<1> QED  BY <1>2, Typing DEF Runs, Operator

\* A thread that takes a step has been started, and moves nobody else.
LEMMA StartKept ==
    ASSUME TypeOK, StartInv, NEW t \in Thread, Step(t)
    PROVE  StartInv'
<1>1. pc[t] \in Nat \ {0}  BY Advances, ProgramFacts, Typing
<1>2. pc \in [Thread -> 0 .. End] /\ idx \in [Thread -> Nat]  BY Typing
<1> SUFFICES ASSUME NEW u \in Thread, pc'[u] = 0  PROVE idx'[u] = u
  BY DEF StartInv
<1>3. u # t /\ pc[u] = 0 /\ idx'[u] = idx[u]  BY <1>1, <1>2, Advances
<1> QED  BY <1>3 DEF StartInv

\* A thread goes on from an operator it works in only when its crew has read.
LEMMA CrewKept ==
    ASSUME TypeOK, CrewInv, NEW t \in Thread, Step(t)
    PROVE  CrewInv'
<1>1. kernel' = kernel /\ crew' = crew /\ Program' = Program
  BY Advances, SameProgram
<1>2. /\ pc[t] \in DOMAIN Program /\ pc \in [Thread -> 0 .. End]
      /\ read \in [Thread -> BOOLEAN]
  BY Advances, Typing
<1>3. \A u \in Thread : pc[u] \in Nat  BY <1>2, Typing, ProgramFacts
<1>4. \A q \in DOMAIN Program : q \in Nat  BY Typing, ProgramFacts
<1>5. CASE Copy(t) \/ ReadOperands(t)
  <2>1. pc' = pc /\ \A u \in Thread : read[u] => read'[u]
    BY <1>2, <1>5 DEF Copy, ReadOperands
  <2> SUFFICES ASSUME NEW u \in Thread, NEW q \in DOMAIN Program, q < pc[u],
                      Program[q].do = "run", u \in crew[Program[q].op],
                      NEW v \in crew[Program[q].op], v \in Thread
               PROVE  pc[v] > q \/ (pc[v] = q /\ read'[v])
    <3>1. ASSUME NEW q \in DOMAIN Program, Program[q].do = "run"
          PROVE  crew[Program[q].op] \subseteq Thread
      BY <3>1, RunCrews
    <3> QED  BY <1>1, <2>1, <3>1 DEF CrewInv
  <2>2. pc[v] > q \/ (pc[v] = q /\ read[v])  BY DEF CrewInv
  <2> QED  BY <2>1, <2>2
<1>6. CASE LoopEnds(t) \/ RunAhead(t) \/ Synchronise(t) \/ WriteResults(t)
  <2>1. Leave(t)  BY <1>6 DEF LoopEnds, RunAhead, Synchronise, WriteResults
  <2>2. pc' = [pc EXCEPT ![t] = pc[t] + 1] /\ read' = [read EXCEPT ![t] = FALSE]
    BY <2>1 DEF Leave
  <2>3. Program[pc[t]].do = "run" /\ t \in crew[Program[pc[t]].op] => CrewHasRead(t)
    BY <1>6 DEF LoopEnds, RunAhead, Synchronise, WriteResults, InCrew, Doing, Running
  <2> SUFFICES ASSUME NEW u \in Thread, NEW q \in DOMAIN Program, q < pc'[u],
                      Program[q].do = "run", u \in crew[Program[q].op],
                      NEW v \in crew[Program[q].op], v \in Thread
               PROVE  pc'[v] > q \/ (pc'[v] = q /\ read'[v])
    <3>1. ASSUME NEW q \in DOMAIN Program, Program[q].do = "run"
          PROVE  crew[Program[q].op] \subseteq Thread
      BY <3>1, RunCrews
    <3> QED  BY <1>1, <3>1 DEF CrewInv
  <2>4. pc[v] > q \/ (pc[v] = q /\ read[v])
    <3>1. CASE q < pc[u]  BY <3>1 DEF CrewInv
    <3>2. CASE ~(q < pc[u])
      <4>1. u = t /\ q = pc[t]  BY <1>2, <1>3, <1>4, <2>2, <3>2
      <4> QED  BY <2>3, <4>1 DEF CrewHasRead
    <3> QED  BY <3>1, <3>2
  <2>5. CASE v = t  BY <1>2, <1>3, <1>4, <2>2, <2>4, <2>5
  <2>6. CASE v # t  BY <1>2, <2>2, <2>4, <2>6
  <2> QED  BY <2>5, <2>6
<1> QED  BY <1>5, <1>6 DEF Step

\* Whatever a thread does, the invariant holds after it.
LEMMA ThreadKeepsFlow ==
    ASSUME BlockInv, FlowInv, NEW t \in Thread, Step(t)
    PROVE  FlowInv'
<1>1. TypeOK /\ Aligned /\ StartInv /\ CrewInv /\ DataInv  BY DEF BlockInv, FlowInv
<1>2. StartInv' /\ CrewInv'  BY <1>1, StartKept, CrewKept
<1>3. CASE Copy(t)  BY <1>1, <1>2, <1>3, CopyKeepsData DEF FlowInv
<1>4. CASE WriteResults(t)  BY <1>1, <1>2, <1>4, ResultsKeepData DEF FlowInv
<1>5. CASE ReadOperands(t)  BY <1>1, <1>2, <1>5, ReadingKeepsData DEF FlowInv
<1>6. CASE LoopEnds(t) \/ RunAhead(t) \/ Synchronise(t)
  BY <1>1, <1>2, <1>6, GoingOnKeepsData DEF FlowInv
<1> QED  BY <1>3, <1>4, <1>5, <1>6 DEF Step

\* A launch starts the threads at their first rounds, with nothing behind them.
LEMMA HostKeepsFlow ==
    ASSUME BlockInv, FlowInv, NEW h \in Host, Call(h)
    PROVE  FlowInv'
<1>1. TypeOK /\ StartInv /\ CrewInv /\ DataInv  BY DEF BlockInv, FlowInv
<1>2. /\ UNCHANGED <<kernel, crew, idx, read, spoiled, mem>>
      /\ \/ pc' = pc
         \/ (\A t \in Thread : pc[t] = 0) /\ pc' = [t \in Thread |-> 1]
  BY Calls
<1>3. Program' = Program  BY <1>2, SameProgram
<1>4. CASE pc' = pc
  <2>1. StartInv' /\ CrewInv'  BY <1>1, <1>2, <1>3, <1>4 DEF StartInv, CrewInv
  <2>2. \A q, u, j : Past(q, u, j)' <=> Past(q, u, j)
    BY <1>2, <1>3, <1>4 DEF Past
  <2>3. DataInv'  BY <1>1, <1>2, <2>2, DataKept
  <2> QED  BY <2>1, <2>3 DEF FlowInv
<1>5. CASE (\A t \in Thread : pc[t] = 0) /\ pc' = [t \in Thread |-> 1]
  <2>1. \A q \in DOMAIN Program : q \in Nat \ {0}  BY <1>1, Typing, ProgramFacts
  <2>2. StartInv'  BY <1>5 DEF StartInv
  <2>3. CrewInv'  BY <1>3, <1>5, <2>1 DEF CrewInv
  <2>4. ASSUME NEW q \in DOMAIN Program, NEW u \in Thread, NEW j \in Elements, NEW c,
               Assigned(q, u, j, c)
        PROVE  Past(q, u, j)' <=> Past(q, u, j)
    <3>1. pc[u] = 0 /\ pc'[u] = 1 /\ idx'[u] = u
      BY <1>1, <1>2, <1>5 DEF StartInv
    <3>2. ~Past(q, u, j)  BY <2>1, <3>1 DEF Past
    <3>3. ASSUME Program[q].do \in {"load", "store"}  PROVE ~(u > j)
      <4>1. j % BlockDimX = u  BY <2>4, <3>3 DEF Assigned
      <4>2. j \in Nat /\ BlockDimX \in Nat \ {0}
        BY ElementsAreNaturals, KernelAssumption
      <4>3. j % BlockDimX <= j  BY <4>2, SameResidue
      <4>4. u \in Nat  BY DEF Thread
      <4> QED  BY <4>1, <4>2, <4>3, <4>4
    <3>4. ~(Past(q, u, j)')  BY <1>3, <2>1, <3>1, <3>3 DEF Past
    <3> QED  BY <3>2, <3>4
  <2>5. DataInv'  BY <1>1, <1>2, <2>4, DataKept
  <2> QED  BY <2>2, <2>3, <2>5 DEF FlowInv
<1> QED  BY <1>2, <1>4, <1>5

\* Before the launch nothing has been written.
LEMMA InitiallyFlowInv ==
    ASSUME Init, TypeOK
    PROVE  FlowInv
<1>1. \A t \in Thread : pc[t] = 0 /\ idx[t] = t  BY DEF Init
<1>2. \A q \in DOMAIN Program : q \in Nat \ {0}  BY Typing, ProgramFacts
<1>3. \A q \in DOMAIN Program : \A u \in Thread : \A j : ~Past(q, u, j)
  BY <1>1, <1>2 DEF Past
<1>4. StartInv  BY <1>1 DEF StartInv
<1>5. CrewInv  BY <1>1, <1>2 DEF CrewInv
<1>6. DataInv  BY <1>3 DEF DataInv, Init
<1> QED  BY <1>4, <1>5, <1>6 DEF FlowInv

\* Every cell of a block's memory holds, at any time, what the last statement that
\* has written it gives it, whichever threads work in the operators.
THEOREM BlockComputes == Spec => []FlowInv
<1>1. Init => FlowInv
  BY InitiallyBlockInv, InitiallyFlowInv DEF BlockInv
<1>2. BlockInv /\ FlowInv /\ [Next]_vars => FlowInv'
  <2> SUFFICES ASSUME BlockInv, FlowInv, [Next]_vars  PROVE FlowInv'
    OBVIOUS
  <2>1. CASE \E h \in Host : Call(h)  BY <2>1, HostKeepsFlow
  <2>2. CASE \E t \in Thread : Step(t)  BY <2>2, ThreadKeepsFlow
  <2>3. CASE UNCHANGED vars
    <3>1. UNCHANGED <<kernel, crew, pc, idx, read, spoiled, mem>>
      BY <2>3 DEF vars, thread
    <3>2. Program' = Program  BY <3>1, SameProgram
    <3>3. StartInv' /\ CrewInv'  BY <3>1, <3>2 DEF FlowInv, StartInv, CrewInv
    <3>4. \A q, u, j : Past(q, u, j)' <=> Past(q, u, j)  BY <3>1, <3>2 DEF Past
    <3>5. DataInv'  BY <3>1, <3>4, DataKept DEF FlowInv
    <3> QED  BY <3>3, <3>5 DEF FlowInv
  <2> QED  BY <2>1, <2>2, <2>3 DEF Next
<1>3. Spec => []BlockInv  BY BlockInvariant
<1> QED  BY <1>1, <1>2, <1>3, PTL DEF Spec
-----------------------------------------------------------------------------
\* What is left in the end.

\* An operator that a program runs stands in its place, a load at the beginning.
LEMMA WhereItStands ==
    ASSUME kernel \in Kernels, NEW p \in DOMAIN Program
    PROVE  /\ \A o \in Operator : Program[p] = Run(o) => Has(o) /\ p = Place(o)
           /\ \A a, b : Program[p] = Load(a, b) => p = 1
<1>1. InPlace(p) /\ Program[1] = FirstLoad  BY Positions
<1>2. FirstLoad.do = "load"  BY Fields DEF FirstLoad
<1>3. \A x \in LastStatements : x.do = "store"  BY LastAreStores
<1>4. ASSUME NEW o \in Operator, Program[p] = Run(o)  PROVE Has(o) /\ p = Place(o)
  <2>1. Program[p].do = "run" /\ Program[p].op = o  BY <1>4, Fields
  <2>2. PICK x \in Operator : Has(x) /\ p = Place(x) /\ Program[p] = Run(x)
    BY <1>1, <1>2, <1>3, <2>1, Fields DEF InPlace
  <2> QED  BY <2>1, <2>2, Fields
<1>5. ASSUME NEW a, NEW b, Program[p] = Load(a, b)  PROVE p = 1
  <2>1. Program[p].do = "load"  BY <1>5, Fields
  <2>2. \A x : Run(x).do = "run"  BY Fields
  <2> QED  BY <1>1, <1>3, <2>1, <2>2, Fields DEF InPlace
<1> QED  BY <1>4, <1>5

\* No array is stored twice.
LEMMA StoredOnce ==
    ASSUME kernel \in Kernels, NEW p \in DOMAIN Program, NEW r \in DOMAIN Program, p < r,
           Program[p].do = "store", Program[r].do = "store"
    PROVE  Program[p].arrays \cap Program[r].arrays = {}
<1>1. Listed(Program) /\ DOMAIN Program = 1 .. Len(Program)
  BY ProgramListed, ProgramFacts
<1> DEFINE sw == Store({"W"}, FALSE)
           su == Store({"U"}, FALSE)
<1>2. /\ \A o : Run(o).do # "store"
      /\ \A a, b : Load(a, b).do # "store"
      /\ Sync.do # "store"
  BY Fields
<1>3. sw.arrays = {"W"} /\ su.arrays = {"U"}  BY DEF Store
<1> HIDE DEF sw, su
<1>4. ASSUME Reduces(Program)  PROVE \A k \in 1 .. 8 : Program[k].do # "store"
  <2>1. /\ Program[1].do # "store" /\ Program[2].do # "store"
        /\ Program[3].do # "store" /\ Program[4].do # "store"
    BY <1>2, <1>4 DEF Reduces, StartsWith
  <2>2. /\ Program[5].do # "store" /\ Program[6].do # "store"
        /\ Program[7].do # "store" /\ Program[8].do # "store"
    BY <1>2, <1>4 DEF Reduces
  <2> QED  BY <2>1, <2>2
<1>5. CASE kernel = "chol_n54"
  <2>1. Len(Program) = 5 /\ StartsWith(Program, "none")  BY <1>1, <1>5 DEF Listed
  <2>2. /\ Program[1].do # "store" /\ Program[2].do # "store"
        /\ Program[3].do # "store" /\ Program[4].do # "store"
    BY <1>2, <2>1 DEF StartsWith
  <2> QED  BY <1>1, <2>1, <2>2
<1>6. CASE kernel \in {"reduce_n54", "geneig_reduce"}
  <2>1. Len(Program) = 9 /\ Reduces(Program)  BY <1>1, <1>6 DEF Listed
  <2> QED  BY <1>1, <1>4, <2>1
<1>7. CASE kernel \in {"reduce_eig_n54", "full_n54", "full_n54_batched", "geneig_full"}
  <2>1. /\ Reduces(Program) /\ Program[9] = Run("heev") /\ Program[10] = Sync
        /\ kernel = "reduce_eig_n54" =>
              Len(Program) = 12 /\ Program[11] = sw /\ Program[12] = su
        /\ kernel # "reduce_eig_n54" =>
              /\ Len(Program) = 14 /\ Program[11] = Run("trsmLeftConj")
              /\ Program[12] = Sync /\ Program[13] = sw /\ Program[14] = su
    BY <1>1, <1>7 DEF Listed, sw, su
  <2>2. \A k \in 1 .. 10 : Program[k].do # "store"
    <3>1. Program[9].do # "store" /\ Program[10].do # "store"  BY <1>2, <2>1
    <3> QED  BY <1>4, <2>1, <3>1
  <2>3. CASE kernel = "reduce_eig_n54"
    <3>1. p \in 1 .. 12 /\ r \in 1 .. 12  BY <1>1, <2>1, <2>3
    <3>2. p \notin 1 .. 10 /\ r \notin 1 .. 10  BY <2>2
    <3>3. p = 11 /\ r = 12  BY <3>1, <3>2
    <3> QED  BY <1>3, <2>1, <2>3, <3>3
  <2>4. CASE kernel # "reduce_eig_n54"
    <3>1. Program[11].do # "store" /\ Program[12].do # "store"  BY <1>2, <2>1, <2>4
    <3>2. p \in 1 .. 14 /\ r \in 1 .. 14  BY <1>1, <2>1, <2>4
    <3>3. p \notin 1 .. 10 /\ r \notin 1 .. 10  BY <2>2
    <3>4. p \notin {11, 12} /\ r \notin {11, 12}  BY <3>1
    <3>5. p = 13 /\ r = 14  BY <3>2, <3>3, <3>4
    <3> QED  BY <1>3, <2>1, <2>4, <3>5
  <2> QED  BY <2>3, <2>4
<1>8. CASE kernel = "finish_n54"
  <2>1. Len(Program) = 8  BY <1>1, <1>8 DEF Listed
  <2>2. \A k \in 1 .. 6 : Program[k].do # "store"  BY <1>1, <1>2, <1>8 DEF Listed
  <2>3. Program[7] = sw /\ Program[8] = su  BY <1>1, <1>8 DEF Listed, sw, su
  <2> QED  BY <1>1, <1>3, <2>1, <2>2, <2>3
<1> QED  BY <1>5, <1>6, <1>7, <1>8, KernelAssumption DEF Static

\* What has been written and not been written again is still there.
LEMMA LastWritten ==
    ASSUME DataInv, NEW p \in DOMAIN Program, NEW t \in Thread, NEW i \in Elements,
           NEW c \in Location, Assigned(p, t, i, c), pc[t] > p,
           \A q \in DOMAIN Program : \A u \in Thread : \A j \in Elements :
              Assigned(q, u, j, c) => ~(q > p)
    PROVE  mem[c] = Gives(p, i, c)
<1>1. Past(p, t, i)  BY DEF Past
<1>2. ~Overwritten(p, c)  BY DEF Overwritten
<1> QED  BY <1>1, <1>2 DEF DataInv

\* The Cholesky factor stays where it is.
LEMMA FactorStays ==
    ASSUME TypeOK, DataInv
    PROVE  FactorSurvives
<1>1. kernel \in Kernels /\ 0 \in Elements /\ 0 \in Thread
  BY Typing, ElementsAreNaturals, KernelAssumption DEF Thread
<1>2. \A t \in Thread : \A p \in 1 .. pc[t] - 1 :
         p \in DOMAIN Program /\ p \in Nat /\ pc[t] > p
  BY Typing, ProgramFacts
<1>3. "potrf" \in Operator /\ Place("potrf") = 3  BY <1>1, Tables DEF Operator
<1> SUFFICES ASSUME AllPast(Run("potrf")) \/ AllPast(Load("L", "M")),
                    NEW i \in Triangle
             PROVE  Held(As(i)) = "L"
  BY DEF FactorSurvives
<1>4. i \in Elements /\ Lower(i)  BY DEF Triangle
<1>5. As(i) \subseteq Location /\ As(i) # {}  BY <1>4, CellsAreLocations
<1>6. CASE AllPast(Run("potrf"))
  <2>1. \A t \in Thread : \E p \in 1 .. pc[t] - 1 : Program[p] = Run("potrf")
    BY <1>6 DEF AllPast
  <2>2. Has("potrf") /\ \A t \in Thread : pc[t] > Place("potrf")
    BY <1>1, <1>2, <1>3, <2>1, WhereItStands
  <2>3. i \in WrittenOf("potrf") /\ Tile("potrf", i) = As(i)
    BY DEF WrittenOf, Tile
  <2>4. PICK t \in Thread : \A c \in As(i) : Assigned(Place("potrf"), t, 0, c)
    BY <1>3, <2>2, <2>3, Writers
  <2>5. Place("potrf") \in DOMAIN Program  BY <1>1, <1>3, <2>2, Positions
  <2>6. \A c \in As(i) : \A q \in DOMAIN Program : \A u \in Thread : \A j \in Elements :
           Assigned(q, u, j, c) => ~(q > Place("potrf"))
    BY <1>3, <1>4, WhoWrites
  <2>7. \A c \in As(i) : mem[c] = Gives(Place("potrf"), 0, c)
    BY <1>1, <1>5, <2>2, <2>4, <2>5, <2>6, LastWritten
  <2>8. Meaning(Described("potrf")).gives = "L"  BY <1>1, <1>3, <2>2, Meanings
  <2>9. \A c \in As(i) : Gives(Place("potrf"), 0, c) = "L"
    BY <1>1, <1>3, <1>4, <2>2, <2>3, <2>8, WhatIsGiven
  <2> QED  BY <1>5, <2>7, <2>9, HeldTogether
<1>7. CASE AllPast(Load("L", "M"))
  <2>1. \A t \in Thread : \E p \in 1 .. pc[t] - 1 : Program[p] = Load("L", "M")
    BY <1>7 DEF AllPast
  <2>2. (\A t \in Thread : pc[t] > 1) /\ Program[1] = Load("L", "M")
    BY <1>1, <1>2, <2>1, WhereItStands
  <2>3. 1 \in DOMAIN Program /\ Program[1] = FirstLoad  BY <1>1, Positions
  <2>4. kernel = "finish_n54" /\ FirstLoad.as = "L"
    <3>1. FirstLoad.as = "L"  BY <2>2, <2>3, Fields
    <3>2. FirstLoad.as = IF kernel = "finish_n54" THEN "L" ELSE "S"
      BY Fields DEF FirstLoad
    <3> QED  BY <3>1, <3>2
  <2>5. ~Has("potrf")  BY <2>4 DEF Has
  <2>6. PICK t \in Thread : \A c \in As(i) : Assigned(1, t, i, c)  BY <1>4, Writers
  <2>7. \A c \in As(i) : \A q \in DOMAIN Program : \A u \in Thread : \A j \in Elements :
           Assigned(q, u, j, c) => ~(q > 1)
    BY <1>4, <2>5, WhoWrites
  <2>8. \A c \in As(i) : mem[c] = Gives(1, i, c)
    BY <1>4, <1>5, <2>2, <2>3, <2>6, <2>7, LastWritten
  <2>9. Given("L", i) = "L"  BY <1>4 DEF Given
  <2>10. \A c \in As(i) : Gives(1, i, c) = "L"  BY <1>4, <2>4, <2>9, WhatIsGiven
  <2> QED  BY <1>5, <2>8, <2>10, HeldTogether
<1> QED  BY <1>6, <1>7

\* A block that has ended leaves every array and every verdict as it should be.
LEMMA EndDelivers ==
    ASSUME TypeOK, DataInv
    PROVE  ResultsDelivered
<1>1. kernel \in Kernels /\ 0 \in Elements  BY Typing, ElementsAreNaturals
<1> SUFFICES ASSUME Ended
             PROVE  /\ \A s \in Stores : \A a \in s.arrays : \A i \in 0 .. Count(s) - 1 :
                          mem[Out(a, i)] = Expected(a, i)
                    /\ \A b \in 0 .. Batch - 1 :
                          mem[Info(b)] = IF \E t \in DOMAIN Program :
                                               Program[t] = Run("heev")
                                         THEN "heev" ELSE "potrf"
  BY DEF ResultsDelivered
<1>2. \A p \in DOMAIN Program : \A t \in Thread : pc[t] > p
  BY <1>1, ProgramFacts DEF Ended
<1>3. ASSUME NEW s \in Stores, NEW a \in s.arrays, NEW i \in 0 .. Count(s) - 1
      PROVE  mem[Out(a, i)] = Expected(a, i)
  <2>1. PICK p \in DOMAIN Program : Program[p] = s  BY DEF Stores
  <2>2. s.do = "store"  BY DEF Stores
  <2>3. a \in {"L", "M", "W", "U"}
    <3>1. s \in Statement(Runs)  BY <1>1, <2>1, ProgramFacts
    <3>2. s.arrays \in {{"W"}, {"U"}, {"L"}, {"M"}, {"L", "M"}}  BY <2>2, <3>1, Kinds
    <3> QED  BY <3>2
  <2>4. i \in Nat /\ i < Count(s)
    <3>1. kN * Batch \in Nat /\ kN * kN * Batch \in Nat  BY Offsets
    <3>2. Count(s) \in Nat  BY <3>1 DEF Count
    <3> QED  BY <3>2
  <2>5. i \in Elements  BY <2>4, LoopVariables
  <2>6. Out(a, i) \in Location /\ Out(a, i)[1] = a
    BY <2>3, <2>5, Addresses DEF Location
  <2>7. PICK t \in Thread : Assigned(p, t, i, Out(a, i))
    BY <2>1, <2>2, <2>4, <2>5, Writers
  <2>8. ASSUME NEW q \in DOMAIN Program, NEW u \in Thread, NEW j \in Elements,
               Assigned(q, u, j, Out(a, i)), q > p
        PROVE  FALSE
    <3>1. Program[q] \in LastStatements /\ a \in Program[q].arrays
      BY <2>3, <2>6, <2>8, WhoWrites
    <3>2. Program[q].do = "store"  BY <3>1, LastAreStores
    <3>3. p < q  BY <1>1, <2>8, ProgramFacts
    <3> QED  BY <1>1, <2>1, <2>2, <3>1, <3>2, <3>3, StoredOnce
  <2>9. mem[Out(a, i)] = Gives(p, i, Out(a, i))
    BY <1>2, <2>5, <2>6, <2>7, <2>8, LastWritten
  <2>10. Gives(p, i, Out(a, i)) = Expected(a, i)  BY <2>1, <2>2, <2>6 DEF Gives
  <2> QED  BY <2>9, <2>10
<1>4. ASSUME NEW b \in 0 .. Batch - 1
      PROVE  mem[Info(b)] = IF \E t \in DOMAIN Program : Program[t] = Run("heev")
                            THEN "heev" ELSE "potrf"
  <2>1. "heev" \in Operator /\ "potrf" \in Operator  BY DEF Operator
  <2>2. Info(b) \in Location /\ Info(b)[1] = "info"  BY Addresses DEF Location
  <2>3. (\E t \in DOMAIN Program : Program[t] = Run("heev")) <=> Has("heev")
    BY <1>1, <2>1, Positions, WhereItStands
  <2>4. ASSUME NEW o \in {"potrf", "heev"}, Has(o), o = "potrf" => ~Has("heev")
        PROVE  mem[Info(b)] = o
    <3>1. o \in Operator  BY <2>1
    <3>2. Place(o) \in DOMAIN Program  BY <1>1, <2>4, <3>1, Positions
    <3>3. PICK t \in Thread : Assigned(Place(o), t, 0, Info(b))
      BY <2>4, <3>1, Writers
    <3>4. \A x \in {"potrf", "heev"} : Has(x) => ~(Place(x) > Place(o))
      <4>1. Has("potrf") <=> kernel # "finish_n54"  BY DEF Has
      <4>2. /\ Place("potrf") = 3
            /\ Place("heev") = IF kernel = "finish_n54" THEN 3 ELSE 9
        BY <1>1, Tables
      <4> QED  BY <2>4, <4>1, <4>2
    <3>5. \A q \in DOMAIN Program : \A u \in Thread : \A j \in Elements :
             Assigned(q, u, j, Info(b)) => ~(q > Place(o))
      BY <2>2, <3>4, WhoWrites
    <3>6. mem[Info(b)] = Gives(Place(o), 0, Info(b))
      BY <1>1, <1>2, <2>2, <3>2, <3>3, <3>5, LastWritten
    <3>7. Gives(Place(o), 0, Info(b)) = o  BY <1>1, <2>4, <3>1, WhatIsGiven
    <3> QED  BY <3>6, <3>7
  <2>5. ~Has("heev") => Has("potrf")  BY DEF Has
  <2> QED  BY <2>3, <2>4, <2>5
<1> QED  BY <1>3, <1>4

\* FactorSurvives: once everybody is past the factorisation (or, in the finishing
\* kernel, past the load of L) the lower triangle of As holds L, whatever the
\* operators and their workspace write, for matrices and blocks of any size.
THEOREM BlockKeepsFactor == Spec => []FactorSurvives
<1>1. Spec => []BlockInv  BY BlockInvariant
<1>2. Spec => []FlowInv  BY BlockComputes
<1>3. BlockInv /\ FlowInv => FactorSurvives  BY FactorStays DEF BlockInv, FlowInv
<1> QED  BY <1>1, <1>2, <1>3, PTL

\* ResultsDelivered: when the last thread of a block has ended, every element of every
\* array holds the result of the whole pipeline, and info the verdict of the operator
\* that reports last.
THEOREM BlockDeliversResults == Spec => []ResultsDelivered
<1>1. Spec => []BlockInv  BY BlockInvariant
<1>2. Spec => []FlowInv  BY BlockComputes
<1>3. BlockInv /\ FlowInv => ResultsDelivered  BY EndDelivers DEF BlockInv, FlowInv
<1> QED  BY <1>1, <1>2, <1>3, PTL
=============================================================================
