--------------------------- MODULE FusedKernelProofs ---------------------------
(***************************************************************************)
(* What FusedKernel promises, for matrices and batches of any size, any    *)
(* number of threads and any crews of the operators.                       *)
(***************************************************************************)
EXTENDS FusedKernel, FiniteSetTheorems, SequenceTheorems, TLAPS
-----------------------------------------------------------------------------
\* Programs.

\* The statements of a kernel that runs the operators in ops.
Statement(ops) ==
    {Sync}
    \cup {Load(a, b) : a \in {"S", "L"}, b \in {"none", "H", "M"}}
    \cup {Run(o) : o \in ops}
    \cup {Store(a, z) : a \in {{"W"}, {"U"}, {"L"}, {"M"}, {"L", "M"}}, z \in BOOLEAN}

\* A barrier stands between any two other statements of s and at its end.
Barred(s, ops) == /\ s \in Seq(Statement(ops))
                  /\ Len(s) > 0
                  /\ s[Len(s)] = Sync
                  /\ \A i \in 1 .. Len(s) - 1 : s[i] = Sync \/ s[i + 1] = Sync

\* The two stores at the end of a kernel that solves have no barrier between them.
LastStores(s, i) == /\ i + 1 = Len(s)
                    /\ s[i] = Store({"W"}, FALSE)
                    /\ s[i + 1] = Store({"U"}, FALSE)

Fenced(s, ops) ==
    /\ s \in Seq(Statement(ops))
    /\ Len(s) > 0
    /\ \A i \in 1 .. Len(s) - 1 : s[i] = Sync \/ s[i + 1] = Sync \/ LastStores(s, i)

\* Barred pieces in a row are barred.
LEMMA BarredPieces ==
    ASSUME NEW ops, NEW s, NEW r, Barred(s, ops), Barred(r, ops)
    PROVE  Barred(s \o r, ops)
<1>1. s \in Seq(Statement(ops)) /\ r \in Seq(Statement(ops))  BY DEF Barred
<1>2. /\ s \o r \in Seq(Statement(ops))
      /\ Len(s \o r) = Len(s) + Len(r)
      /\ \A i \in 1 .. Len(s) + Len(r) :
            (s \o r)[i] = IF i <= Len(s) THEN s[i] ELSE r[i - Len(s)]
  BY <1>1, ConcatProperties
<1>3. Len(s) \in Nat /\ Len(r) \in Nat /\ Len(s) > 0 /\ Len(r) > 0
  BY <1>1, LenProperties DEF Barred
<1>4. (s \o r)[Len(s) + Len(r)] = Sync
  BY <1>2, <1>3 DEF Barred
<1>5. ASSUME NEW i \in 1 .. Len(s) + Len(r) - 1
      PROVE  (s \o r)[i] = Sync \/ (s \o r)[i + 1] = Sync
  <2>1. CASE i < Len(s)
    BY <2>1, <1>2, <1>3 DEF Barred
  <2>2. CASE i = Len(s)
    BY <2>2, <1>2, <1>3 DEF Barred
  <2>3. CASE i > Len(s)
    <3>1. i - Len(s) \in 1 .. Len(r) - 1 /\ (i + 1) - Len(s) = (i - Len(s)) + 1
      BY <2>3, <1>3
    <3>2. r[i - Len(s)] = Sync \/ r[(i - Len(s)) + 1] = Sync
      BY <3>1 DEF Barred
    <3> QED  BY <3>1, <3>2, <2>3, <1>2, <1>3
  <2> QED  BY <2>1, <2>2, <2>3, <1>3
<1> QED  BY <1>2, <1>3, <1>4, <1>5 DEF Barred

\* A store at the end of a barred sequence keeps it fenced.
LEMMA FencedByStore ==
    ASSUME NEW ops, NEW s, NEW x \in Statement(ops), Barred(s, ops)
    PROVE  Fenced(s \o <<x>>, ops)
<1>1. s \in Seq(Statement(ops)) /\ <<x>> \in Seq(Statement(ops)) /\ Len(<<x>>) = 1
  BY DEF Barred
<1>2. /\ s \o <<x>> \in Seq(Statement(ops))
      /\ Len(s \o <<x>>) = Len(s) + 1
      /\ \A i \in 1 .. Len(s) + 1 : i <= Len(s) => (s \o <<x>>)[i] = s[i]
  BY <1>1, ConcatProperties
<1>3. Len(s) \in Nat /\ Len(s) > 0  BY <1>1, LenProperties DEF Barred
<1>4. ASSUME NEW i \in 1 .. Len(s)
      PROVE  (s \o <<x>>)[i] = Sync \/ (s \o <<x>>)[i + 1] = Sync
  <2>1. CASE i = Len(s)  BY <2>1, <1>2, <1>3 DEF Barred
  <2>2. CASE i < Len(s)  BY <2>2, <1>2, <1>3 DEF Barred
  <2> QED  BY <2>1, <2>2, <1>3
<1> QED  BY <1>2, <1>3, <1>4 DEF Fenced

\* So do the two stores of a kernel that solves.
LEMMA FencedByWriteBack ==
    ASSUME NEW ops, NEW s, Barred(s, ops)
    PROVE  Fenced(s \o WrittenBack, ops)
<1> DEFINE w == Store({"W"}, FALSE)
           u == Store({"U"}, FALSE)
<1>0. w \in Statement(ops) /\ u \in Statement(ops)
  <2>1. \A a \in {{"W"}, {"U"}, {"L"}, {"M"}, {"L", "M"}} : \A z \in BOOLEAN :
           Store(a, z) \in Statement(ops)
    BY DEF Statement
  <2> QED  BY <2>1
<1>1. /\ s \in Seq(Statement(ops)) /\ WrittenBack \in Seq(Statement(ops))
      /\ Len(WrittenBack) = 2 /\ WrittenBack[1] = w /\ WrittenBack[2] = u
  <2>1. WrittenBack = <<w, u>>  BY DEF WrittenBack
  <2> HIDE DEF w, u
  <2> QED  BY <2>1, <1>0 DEF Barred
<1> HIDE DEF w, u
<1>2. /\ s \o WrittenBack \in Seq(Statement(ops))
      /\ Len(s \o WrittenBack) = Len(s) + 2
      /\ \A i \in 1 .. Len(s) + 2 :
            (s \o WrittenBack)[i] = IF i <= Len(s) THEN s[i] ELSE WrittenBack[i - Len(s)]
  BY <1>1, ConcatProperties
<1>3. Len(s) \in Nat /\ Len(s) > 0  BY <1>1, LenProperties DEF Barred
<1>4. ASSUME NEW i \in 1 .. Len(s)
      PROVE  (s \o WrittenBack)[i] = Sync \/ (s \o WrittenBack)[i + 1] = Sync
  <2>1. CASE i = Len(s)  BY <2>1, <1>2, <1>3 DEF Barred
  <2>2. CASE i < Len(s)  BY <2>2, <1>2, <1>3 DEF Barred
  <2>3. i = Len(s) \/ i < Len(s)  BY <1>3
  <2> QED  BY <2>1, <2>2, <2>3
<1>5. LastStores(s \o WrittenBack, Len(s) + 1)
  <2>1. (s \o WrittenBack)[Len(s) + 1] = w
    BY <1>1, <1>2, <1>3
  <2>2. (s \o WrittenBack)[(Len(s) + 1) + 1] = u
    <3>1. ((Len(s) + 1) + 1) - Len(s) = 2 /\ (Len(s) + 1) + 1 \in 1 .. Len(s) + 2
      BY <1>3
    <3> QED  BY <3>1, <1>1, <1>2, <1>3
  <2>3. (Len(s) + 1) + 1 = Len(s \o WrittenBack)  BY <1>2, <1>3
  <2> QED  BY <2>1, <2>2, <2>3 DEF LastStores, w, u
<1>6. \A i \in 1 .. Len(s \o WrittenBack) - 1 : i \in 1 .. Len(s) \/ i = Len(s) + 1
  BY <1>2, <1>3
<1> QED  BY <1>2, <1>3, <1>4, <1>5, <1>6 DEF Fenced

\* The pieces of the kernels are barred.
LEMMA PieceBarred ==
    ASSUME NEW ops, NEW x \in Statement(ops)
    PROVE  Barred(<<x, Sync>>, ops)
<1>1. Sync \in Statement(ops)  BY DEF Statement
<1> QED  BY <1>1 DEF Barred

\* Between any two statements of the pieces that kernels are composed of stands a
\* barrier: each piece is Barred, so that their concatenation is.
LEMMA PiecesBarred ==
    ASSUME NEW ops, {"potrf", "trsmLeft", "trsmRight"} \subseteq ops
    PROVE  /\ \A a \in {"S", "L"} : \A b \in {"none", "H", "M"} : Barred(Loaded(a, b), ops)
           /\ Barred(Factored, ops)
           /\ Barred(Reduced, ops)
           /\ "heev" \in ops => Barred(Solved, ops)
           /\ "trsmLeftConj" \in ops => Barred(Transformed, ops)
<1>1. /\ \A a \in {"S", "L"} : \A b \in {"none", "H", "M"} : Load(a, b) \in Statement(ops)
      /\ \A o \in ops : Run(o) \in Statement(ops)
  BY DEF Statement
<1>2. \A a \in {"S", "L"} : \A b \in {"none", "H", "M"} : Barred(Loaded(a, b), ops)
  BY <1>1, PieceBarred DEF Loaded
<1>3. Barred(Factored, ops)
  BY <1>1, PieceBarred DEF Factored
<1>4. "heev" \in ops => Barred(Solved, ops)
  BY <1>1, PieceBarred DEF Solved
<1>5. "trsmLeftConj" \in ops => Barred(Transformed, ops)
  BY <1>1, PieceBarred DEF Transformed
<1>6. Barred(Reduced, ops)
  <2> DEFINE x == Run("trsmLeft")
             y == Run("trsmRight")
  <2>1. x \in Statement(ops) /\ y \in Statement(ops) /\ Sync \in Statement(ops)
    BY <1>1 DEF Statement
  <2>2. Reduced = <<x, Sync, y, Sync>>  BY DEF Reduced
  <2> HIDE DEF x, y
  <2>3. Reduced \in Seq(Statement(ops)) /\ Len(Reduced) = 4  BY <2>1, <2>2
  <2>4. Reduced[2] = Sync /\ Reduced[4] = Sync  BY <2>2
  <2>5. \A i \in 1 .. 3 : i = 1 \/ i = 2 \/ i = 3  OBVIOUS
  <2> QED  BY <2>3, <2>4, <2>5 DEF Barred
<1> QED  BY <1>2, <1>3, <1>4, <1>5, <1>6

\* The operators a kernel runs.
Runs == IF kernel = "geneig_reduce" THEN {"potrf", "trsmLeft", "trsmRight"} ELSE Operator

\* Every kernel is fenced.
LEMMA ProgramFenced ==
    ASSUME kernel \in Kernels
    PROVE  Fenced(Program, Runs)
<1>0. {"potrf", "trsmLeft", "trsmRight"} \subseteq Runs  BY DEF Runs, Operator
<1>1. /\ Barred(Loaded("S", "none"), Runs) /\ Barred(Loaded("S", "H"), Runs)
      /\ Barred(Loaded("L", "M"), Runs)
      /\ Barred(Factored, Runs) /\ Barred(Reduced, Runs)
  BY <1>0, PiecesBarred
<1>2. ASSUME kernel # "geneig_reduce"
      PROVE  Barred(Solved, Runs) /\ Barred(Transformed, Runs)
  BY <1>0, <1>2, PiecesBarred DEF Runs, Operator
<1>3. \A a \in {{"W"}, {"U"}, {"L"}, {"M"}, {"L", "M"}} : \A z \in BOOLEAN :
         Store(a, z) \in Statement(Runs)
  BY DEF Statement
<1> DEFINE front == Loaded("S", "H") \o Factored
           reduce == front \o Reduced
<1>4. Barred(front, Runs)  BY <1>1, BarredPieces
<1> HIDE DEF front
<1>5. Barred(reduce, Runs)  BY <1>1, <1>4, BarredPieces
<1> HIDE DEF reduce
<1>6. CASE kernel = "chol_n54"
  <2>1. Barred(Loaded("S", "none") \o Factored, Runs)  BY <1>1, BarredPieces
  <2> QED  BY <1>3, <1>6, <2>1, FencedByStore DEF Program, chol_n54
<1>7. CASE kernel = "reduce_n54"
  <2>1. Program = reduce \o <<Store({"M"}, TRUE)>>
    BY <1>7 DEF Program, reduce_n54, reduce, front
  <2> QED  BY <1>3, <1>5, <2>1, FencedByStore
<1>8. CASE kernel = "geneig_reduce"
  <2>1. Program = reduce \o <<Store({"L", "M"}, FALSE)>>
    BY <1>8 DEF Program, geneig_reduce, reduce, front
  <2> QED  BY <1>3, <1>5, <2>1, FencedByStore
<1>9. CASE kernel = "reduce_eig_n54"
  <2>1. Program = (reduce \o Solved) \o WrittenBack
    BY <1>9 DEF Program, reduce_eig_n54, reduce, front
  <2>2. Barred(reduce \o Solved, Runs)  BY <1>2, <1>5, <1>9, BarredPieces
  <2> QED  BY <2>1, <2>2, FencedByWriteBack
<1>10. CASE kernel \in {"full_n54", "full_n54_batched", "geneig_full"}
  <2>1. Program = ((reduce \o Solved) \o Transformed) \o WrittenBack
    BY <1>10 DEF Program, full_n54, full_n54_batched, geneig_full, reduce, front
  <2>2. Barred(reduce \o Solved, Runs)  BY <1>2, <1>5, <1>10, BarredPieces
  <2>3. Barred((reduce \o Solved) \o Transformed, Runs)
    BY <1>2, <1>10, <2>2, BarredPieces
  <2> QED  BY <2>1, <2>3, FencedByWriteBack
<1>11. CASE kernel = "finish_n54"
  <2>1. Program = ((Loaded("L", "M") \o Solved) \o Transformed) \o WrittenBack
    BY <1>11 DEF Program, finish_n54
  <2>2. Barred(Loaded("L", "M") \o Solved, Runs)  BY <1>1, <1>2, <1>11, BarredPieces
  <2>3. Barred((Loaded("L", "M") \o Solved) \o Transformed, Runs)
    BY <1>2, <1>11, <2>2, BarredPieces
  <2> QED  BY <2>1, <2>3, FencedByWriteBack
<1> QED  BY <1>6, <1>7, <1>8, <1>9, <1>10, <1>11, KernelAssumption DEF Static
-----------------------------------------------------------------------------
\* Memory.

\* The tiles, the eigenvalues and the workspace follow each other in this order.
LEMMA Offsets ==
    /\ Batch \in Nat \ {0}
    /\ kN * kN * Batch \in Nat \ {0} /\ kN * Batch \in Nat \ {0}
    /\ kN * Batch <= kN * kN * Batch
    /\ BsOffset = 2 * (kN * kN * Batch)
    /\ LambdaOffset = 4 * (kN * kN * Batch)
    /\ WorkspaceOffset \in Nat
    /\ LambdaOffset + kN * Batch <= WorkspaceOffset
<1>1. Batch \in Nat \ {0}  BY KernelAssumption DEF Batch
<1>2. kN \in Nat \ {0}  BY KernelAssumption
<1>3. ASSUME NEW x \in Nat \ {0}, NEW y \in Nat \ {0}  PROVE x * y \in Nat \ {0} /\ x <= x * y
  OBVIOUS
<1> DEFINE s == kN * kN * Batch
           w == kN * Batch
<1>4. w \in Nat \ {0}  BY <1>1, <1>2, <1>3
<1>5. kN * kN \in Nat \ {0}  BY <1>2, <1>3
<1>6. s \in Nat \ {0}  BY <1>1, <1>3, <1>5
<1>7. s = w * kN  BY <1>1, <1>2
<1>8. w <= s  BY <1>2, <1>3, <1>4, <1>7
<1>9. TileCells = 2 * s
  <2>1. 2 * kN * kN * Batch = 2 * (kN * kN * Batch)  BY <1>1, <1>2
  <2> QED  BY <2>1 DEF TileCells
<1>10. BsOffset = 2 * s  BY <1>9 DEF BsOffset
<1>11. LambdaOffset = 4 * s
  <2> HIDE DEF s
  <2> QED  BY <1>6, <1>9, <1>10 DEF LambdaOffset
<1>12. WorkspaceOffset = ((LambdaOffset + w + 1) \div 2) * 2  BY DEF WorkspaceOffset
<1> HIDE DEF s, w
<1>13. WorkspaceOffset \in Nat /\ LambdaOffset + w <= WorkspaceOffset
  <2> DEFINE e == LambdaOffset + w
  <2>1. e \in Nat  BY <1>4, <1>6, <1>11
  <2>2. WorkspaceOffset = ((e + 1) \div 2) * 2  BY <1>12
  <2> HIDE DEF e
  <2>3. WorkspaceOffset \in Nat /\ e <= WorkspaceOffset  BY <2>1, <2>2
  <2> QED  BY <2>3 DEF e
<1> QED  BY <1>1, <1>4, <1>6, <1>8, <1>10, <1>11, <1>13 DEF s, w

\* Cells of Shared(cells) carry the name of the shared memory.
LEMMA InShared ==
    ASSUME NEW cells, NEW c
    PROVE  c \in Shared(cells) <=> \E n \in cells : c = <<"smem", n>>
  BY DEF Shared

\* Where a cell of a tile, an eigenvalue or the workspace is.
LEMMA Addresses ==
    ASSUME NEW c
    PROVE  /\ \A i : c \in As(i) => c[1] = "smem" /\ c[2] \in {2 * i, 2 * i + 1}
           /\ \A i : c \in Bs(i) =>
                 c[1] = "smem" /\ c[2] \in {BsOffset + 2 * i, BsOffset + 2 * i + 1}
           /\ \A i : c \in Lambda(i) => c[1] = "smem" /\ c[2] = LambdaOffset + i
           /\ c \in Workspace =>
                 c[1] = "smem" /\ c[2] \in {WorkspaceOffset, WorkspaceOffset + 1}
           /\ \A a, i : c = Out(a, i) => c[1] = a /\ c[2] = i
           /\ \A b : c = Info(b) => c[1] = "info" /\ c[2] = b
<1>1. \A i : c \in As(i) => c[1] = "smem" /\ c[2] \in {2 * i, 2 * i + 1}
  BY InShared DEF As
<1>2. \A i : c \in Bs(i) =>
         c[1] = "smem" /\ c[2] \in {BsOffset + 2 * i, BsOffset + 2 * i + 1}
  BY InShared DEF Bs
<1>3. \A i : c \in Lambda(i) => c[1] = "smem" /\ c[2] = LambdaOffset + i
  BY InShared DEF Lambda
<1>4. c \in Workspace => c[1] = "smem" /\ c[2] \in {WorkspaceOffset, WorkspaceOffset + 1}
  BY InShared DEF Workspace
<1> QED  BY <1>1, <1>2, <1>3, <1>4 DEF Out, Info

\* No cell belongs to two elements, or to two of the areas.
LEMMA Layout ==
    ASSUME NEW c
    PROVE  /\ \A i \in Elements : c \in As(i) \/ c \in Bs(i) =>
                 c[1] = "smem" /\ c[2] \in Nat /\ c[2] < LambdaOffset
           /\ \A i \in Eigenvalues : c \in Lambda(i) =>
                 /\ c[1] = "smem" /\ c[2] \in Nat
                 /\ LambdaOffset <= c[2] /\ c[2] < LambdaOffset + kN * Batch
           /\ c \in Workspace =>
                 c[1] = "smem" /\ c[2] \in Nat /\ LambdaOffset + kN * Batch <= c[2]
           /\ \A i, j \in Elements : c \in As(i) /\ c \in As(j) => i = j
           /\ \A i, j \in Elements : c \in Bs(i) /\ c \in Bs(j) => i = j
           /\ \A i, j \in Elements : ~(c \in As(i) /\ c \in Bs(j))
           /\ \A i, j \in Eigenvalues : c \in Lambda(i) /\ c \in Lambda(j) => i = j
<1> DEFINE s == kN * kN * Batch
           w == kN * Batch
<1>1. /\ s \in Nat /\ w \in Nat /\ BsOffset = 2 * s /\ LambdaOffset = 4 * s
      /\ WorkspaceOffset \in Nat /\ LambdaOffset + w <= WorkspaceOffset
  BY Offsets
<1>2. /\ \A i \in Elements : i \in Nat /\ i < s
      /\ \A i \in Eigenvalues : i \in Nat /\ i < w
  <2>1. Elements = 0 .. s - 1 /\ Eigenvalues = 0 .. w - 1  BY DEF Elements, Eigenvalues
  <2> HIDE DEF s, w
  <2> QED  BY <1>1, <2>1
<1>3. /\ \A i \in Elements : c \in As(i) => c[1] = "smem" /\ c[2] \in {2 * i, 2 * i + 1}
      /\ \A i \in Elements : c \in Bs(i) =>
                 c[1] = "smem" /\ c[2] \in {2 * s + 2 * i, 2 * s + 2 * i + 1}
      /\ \A i \in Eigenvalues : c \in Lambda(i) => c[1] = "smem" /\ c[2] = 4 * s + i
      /\ c \in Workspace =>
                 c[1] = "smem" /\ c[2] \in {WorkspaceOffset, WorkspaceOffset + 1}
  BY <1>1, Addresses
<1> HIDE DEF s, w
<1>4. \A i \in Elements : c \in As(i) =>
         c[1] = "smem" /\ c[2] \in Nat /\ c[2] < 2 * s
  BY <1>1, <1>2, <1>3
<1>5. \A i \in Elements : c \in Bs(i) =>
         c[1] = "smem" /\ c[2] \in Nat /\ 2 * s <= c[2] /\ c[2] < 4 * s
  BY <1>1, <1>2, <1>3
<1>6. \A i \in Eigenvalues : c \in Lambda(i) =>
         c[1] = "smem" /\ c[2] \in Nat /\ 4 * s <= c[2] /\ c[2] < 4 * s + w
  BY <1>1, <1>2, <1>3
<1>7. c \in Workspace => c[1] = "smem" /\ c[2] \in Nat /\ 4 * s + w <= c[2]
  BY <1>1, <1>3
<1>8. \A i, j \in Elements : c \in As(i) /\ c \in As(j) => i = j
  BY <1>1, <1>2, <1>3
<1>9. \A i, j \in Elements : c \in Bs(i) /\ c \in Bs(j) => i = j
  BY <1>1, <1>2, <1>3
<1>10. \A i, j \in Elements : ~(c \in As(i) /\ c \in Bs(j))
  BY <1>1, <1>4, <1>5
<1>11. \A i, j \in Eigenvalues : c \in Lambda(i) /\ c \in Lambda(j) => i = j
  BY <1>1, <1>2, <1>3
<1>12. \A i \in Elements : c \in As(i) \/ c \in Bs(i) =>
          c[1] = "smem" /\ c[2] \in Nat /\ c[2] < LambdaOffset
  BY <1>1, <1>4, <1>5
<1> QED  BY <1>1, <1>6, <1>7, <1>8, <1>9, <1>10, <1>11, <1>12 DEF w

\* The tiles lie in the memory of the block.
LEMMA CellsAreLocations ==
    /\ \A i \in Elements : As(i) \subseteq Location /\ Bs(i) \subseteq Location
    /\ \A i \in Eigenvalues : Lambda(i) \subseteq Location
    /\ \A i \in Elements : As(i) # {} /\ Bs(i) # {} /\ Lambda(i) # {}
<1> DEFINE s == kN * kN * Batch
           w == kN * Batch
<1>1. /\ s \in Nat /\ w \in Nat /\ BsOffset = 2 * s /\ LambdaOffset = 4 * s
      /\ WorkspaceOffset \in Nat /\ LambdaOffset + w <= WorkspaceOffset
  BY Offsets
<1>2. /\ \A i \in Elements : i \in Nat /\ i < s
      /\ \A i \in Eigenvalues : i \in Nat /\ i < w
  <2>1. Elements = 0 .. s - 1 /\ Eigenvalues = 0 .. w - 1  BY DEF Elements, Eigenvalues
  <2> HIDE DEF s, w
  <2> QED  BY <1>1, <2>1
<1>3. \A n \in 0 .. WorkspaceOffset + 1 : <<"smem", n>> \in Location
  <2>1. Shared(0 .. WorkspaceOffset + 1) \subseteq Location  BY DEF Location
  <2> QED  BY <2>1, InShared
<1> HIDE DEF s, w
<1>4. ASSUME NEW i \in Elements  PROVE As(i) \subseteq Location /\ Bs(i) \subseteq Location
  <2>1. /\ 2 * i \in 0 .. WorkspaceOffset + 1 /\ 2 * i + 1 \in 0 .. WorkspaceOffset + 1
        /\ BsOffset + 2 * i \in 0 .. WorkspaceOffset + 1
        /\ BsOffset + 2 * i + 1 \in 0 .. WorkspaceOffset + 1
    BY <1>1, <1>2
  <2> QED  BY <2>1, <1>3, InShared DEF As, Bs
<1>5. ASSUME NEW i \in Eigenvalues  PROVE Lambda(i) \subseteq Location
  <2>1. LambdaOffset + i \in 0 .. WorkspaceOffset + 1
    BY <1>1, <1>2
  <2> QED  BY <2>1, <1>3, InShared DEF Lambda
<1>6. \A i : As(i) # {} /\ Bs(i) # {} /\ Lambda(i) # {}
  <2>1. \A n, cells : n \in cells => Shared(cells) # {}  BY InShared
  <2> QED  BY <2>1 DEF As, Bs, Lambda
<1> QED  BY <1>4, <1>5, <1>6
-----------------------------------------------------------------------------
\* Loop variables.

\* A step of b keeps the residue of b.
LEMMA Residues ==
    ASSUME NEW b \in Nat \ {0}, NEW x \in Nat
    PROVE  /\ (x + b) % b = x % b
           /\ x \in 0 .. b - 1 => x % b = x
<1>1. x = b * (x \div b) + (x % b) /\ (x % b) \in 0 .. b - 1 /\ (x \div b) \in Int
  OBVIOUS
<1>2. /\ x + b = b * ((x + b) \div b) + ((x + b) % b)
      /\ ((x + b) % b) \in 0 .. b - 1 /\ ((x + b) \div b) \in Int
  OBVIOUS
<1>3. ASSUME NEW q \in Int, NEW r \in 0 .. b - 1, NEW k \in Int, NEW m \in 0 .. b - 1,
             b * q + r = b * k + m
      PROVE  r = m
  <2>1. b * (q - k) = m - r  BY <1>3
  <2>2. q - k = 0
    <3>1. CASE q - k >= 1
      <4>1. b * (q - k) >= b  BY <3>1
      <4> QED  BY <4>1, <2>1
    <3>2. CASE q - k <= -1
      <4>1. b * (q - k) <= -b  BY <3>2
      <4> QED  BY <4>1, <2>1
    <3> QED  BY <3>1, <3>2
  <2> QED  BY <2>1, <2>2
<1>4. (x + b) % b = x % b
  <2> DEFINE q == (x \div b) + 1
             r == x % b
             k == (x + b) \div b
             m == (x + b) % b
  <2>1. b * ((x \div b) + 1) = b * (x \div b) + b  BY <1>1
  <2>2. b * q + r = b * k + m  BY <2>1, <1>1, <1>2
  <2>3. q \in Int /\ k \in Int /\ r \in 0 .. b - 1 /\ m \in 0 .. b - 1  BY <1>1, <1>2
  <2> HIDE DEF q, r, k, m
  <2>4. r = m  BY <2>2, <2>3, <1>3
  <2> QED  BY <2>4 DEF r, m
<1> QED  BY <1>4

\* Members of a finite crew have ranks of their own.
LEMMA RanksDiffer ==
    ASSUME NEW c \in SUBSET Thread, NEW t \in c, NEW u \in c, t # u
    PROVE  Rank(t, c) # Rank(u, c)
<1>1. IsFiniteSet(Thread)
  <2>1. BlockDimX - 1 \in Int /\ 0 \in Int  BY KernelAssumption
  <2> QED  BY <2>1, FS_Interval DEF Thread
<1>2. ASSUME NEW x \in c, NEW y \in c, x < y
      PROVE  Rank(x, c) # Rank(y, c)
  <2> DEFINE a == {v \in c : v < x}
             b == {v \in c : v < y}
  <2>1. x \in Int /\ y \in Int /\ \A v \in c : v \in Int  BY KernelAssumption DEF Thread
  <2>2. a \subseteq b /\ x \in b /\ x \notin a
    <3>1. \A v \in c : v < x => v < y  BY <2>1, <1>2
    <3>2. ~(x < x)  BY <2>1
    <3> QED  BY <3>1, <3>2, <1>2
  <2>3. IsFiniteSet(b)
    <3>1. b \subseteq Thread  OBVIOUS
    <3> QED  BY <3>1, <1>1, FS_Subset
  <2>4. IsFiniteSet(a) /\ Cardinality(a) \in Nat /\ Cardinality(b) \in Nat
    BY <2>2, <2>3, FS_Subset, FS_CardinalityType
  <2>5. Cardinality(a) < Cardinality(b)
    <3> HIDE DEF a, b
    <3>1. a # b  BY <2>2
    <3>2. a \in SUBSET b  BY <2>2
    <3>3. Cardinality(a) <= Cardinality(b) /\ Cardinality(a) # Cardinality(b)
      BY <2>3, <3>1, <3>2, FS_Subset
    <3> QED  BY <2>4, <3>3
  <2>6. Cardinality(a) # Cardinality(b)
    <3> HIDE DEF a, b
    <3> QED  BY <2>4, <2>5
  <2> QED  BY <2>6 DEF Rank
<1>3. t < u \/ u < t  BY KernelAssumption DEF Thread
<1> QED  BY <1>2, <1>3

\* They share out a set without overlap.
LEMMA SharesDiffer ==
    ASSUME NEW c \in SUBSET Thread, NEW t \in c, NEW u \in c, t # u, NEW set, NEW i
    PROVE  ~(i \in Share(t, c, set) /\ i \in Share(u, c, set))
  BY RanksDiffer DEF Share
-----------------------------------------------------------------------------
\* The inductive invariant.

\* Nobody is past a barrier that somebody has still to reach.
Aligned == \A t, u \in Thread : \A i \in 1 .. pc[t] - 1 : Program[i] = Sync => pc[u] >= i

\* Whoever may launch knows that somebody has tried to set the attribute.
HostInv == /\ rejected # "unset"
           /\ attr_set => attribute # "unset"
           /\ kernel \notin Static => attribute # "unset"
           /\ \A h \in Host :
                 hpc[h] \in {"mark", "launch", "returned"} => attribute # "unset"

BlockInv == TypeOK /\ Aligned /\ HostInv

\* A step leaves the program and the layout of the memory alone.
LEMMA SameProgram ==
    ASSUME kernel' = kernel
    PROVE  /\ Program' = Program /\ End' = End /\ Location' = Location /\ Batch' = Batch
  BY DEF Program, End, Location, Batch, WorkspaceOffset, LambdaOffset, BsOffset,
     TileCells, Elements

\* What a statement can be.
LEMMA Kinds ==
    ASSUME NEW ops, NEW s \in Statement(ops)
    PROVE  \/ s = Sync /\ s.do = "sync"
           \/ /\ s.do = "load" /\ s # Sync
              /\ s.as \in {"S", "L"} /\ s.bs \in {"none", "H", "M"}
           \/ s.do = "run" /\ s # Sync /\ s.op \in ops
           \/ /\ s.do = "store" /\ s # Sync
              /\ s.arrays \in {{"W"}, {"U"}, {"L"}, {"M"}, {"L", "M"}}
              /\ s.zeroed \in BOOLEAN
  BY DEF Statement, Sync, Load, Run, Store

\* What the proof needs of a program: its statements are well formed, and two
\* neighbours are parted by a barrier unless only loops that write results follow.
LEMMA ProgramFacts ==
    ASSUME kernel \in Kernels
    PROVE  /\ Len(Program) \in Nat
           /\ DOMAIN Program = 1 .. Len(Program)
           /\ End = Len(Program) + 1
           /\ \A p \in 1 .. Len(Program) : Program[p] \in Statement(Runs)
           /\ \A p \in 1 .. Len(Program) - 1 :
                 Program[p] = Sync \/ Program[p + 1] = Sync \/ LastStores(Program, p)
<1>1. Fenced(Program, Runs)  BY ProgramFenced
<1>2. Program \in Seq(Statement(Runs))  BY <1>1 DEF Fenced
<1>3. Len(Program) \in Nat /\ DOMAIN Program = 1 .. Len(Program)
      /\ \A p \in 1 .. Len(Program) : Program[p] \in Statement(Runs)
  BY <1>2, LenProperties, ElementOfSeq
<1> QED  BY <1>1, <1>3 DEF Fenced, End

\* The types of the variables that say how far the block is.
LEMMA Typing ==
    ASSUME TypeOK
    PROVE  /\ kernel \in Kernels /\ crew \in [Operator -> (SUBSET Thread) \ {{}}]
           /\ pc \in [Thread -> 0 .. End]
           /\ idx \in [Thread -> Nat]
           /\ \A t \in Thread : idx[t] % BlockDimX = t
           /\ read \in [Thread -> BOOLEAN]
           /\ spoiled \subseteq 1 .. End
           /\ mem \in [Location -> Value]
  BY KernelAssumption DEF TypeOK

\* What a step of a thread does to the block's progress.
LEMMA Advances ==
    ASSUME TypeOK, NEW t \in Thread, Step(t)
    PROVE  /\ UNCHANGED <<kernel, crew, hpc, attr_set, attribute, rejected>>
           /\ pc[t] \in DOMAIN Program
           /\ read' \in [Thread -> BOOLEAN]
           /\ spoiled' \subseteq spoiled \cup {pc[t]}
           /\ \/ pc' = pc /\ idx' = [idx EXCEPT ![t] = idx[t] + BlockDimX]
              \/ pc' = pc /\ idx' = idx
              \/ /\ pc' = [pc EXCEPT ![t] = pc[t] + 1]
                 /\ idx' = [idx EXCEPT ![t] = t]
                 /\ Program[pc[t]] = Sync => \A u \in Thread : pc[u] >= pc[t]
<1>1. read \in [Thread -> BOOLEAN]  BY Typing
<1>2. ASSUME Leave(t)
      PROVE  /\ pc' = [pc EXCEPT ![t] = pc[t] + 1] /\ idx' = [idx EXCEPT ![t] = t]
             /\ read' \in [Thread -> BOOLEAN]
  BY <1>1, <1>2 DEF Leave
<1>3. \A what : Doing(t, what) =>
         pc[t] \in DOMAIN Program /\ (what # "sync" => Program[pc[t]] # Sync)
  BY DEF Doing, Running, Sync
<1>4. /\ InLoop(t) => Doing(t, "load") \/ Doing(t, "store")
      /\ InCrew(t) => Doing(t, "run")
  BY DEF InLoop, InCrew
<1>5. CASE Copy(t)
  BY <1>1, <1>3, <1>4, <1>5 DEF Copy, host
<1>6. CASE LoopEnds(t)
  BY <1>2, <1>3, <1>6 DEF LoopEnds, host
<1>7. CASE RunAhead(t)
  BY <1>2, <1>3, <1>7 DEF RunAhead, host
<1>8. CASE ReadOperands(t)
  <2>1. read' = [read EXCEPT ![t] = TRUE] /\ pc' = pc /\ idx' = idx
        /\ UNCHANGED <<kernel, crew, hpc, attr_set, attribute, rejected>>
        /\ spoiled' \subseteq spoiled \cup {pc[t]}
    BY <1>8 DEF ReadOperands, host
  <2>2. pc[t] \in DOMAIN Program  BY <1>3, <1>4, <1>8 DEF ReadOperands
  <2> QED  BY <1>1, <2>1, <2>2
<1>9. CASE WriteResults(t)
  BY <1>2, <1>3, <1>4, <1>9 DEF WriteResults, host
<1>10. CASE Synchronise(t)
  BY <1>2, <1>3, <1>10 DEF Synchronise, host
<1> QED  BY <1>5, <1>6, <1>7, <1>8, <1>9, <1>10 DEF Step

\* What a step of the host does.
LEMMA Calls ==
    ASSUME NEW h \in Host, Call(h)
    PROVE  /\ UNCHANGED <<kernel, crew, idx, read, spoiled, mem>>
           /\ \/ pc' = pc
              \/ (\A t \in Thread : pc[t] = 0) /\ pc' = [t \in Thread |-> 1]
           /\ \/ TestFlag(h) \/ SetAttribute(h) \/ MarkSet(h) \/ LaunchBlock(h)
              \/ NothingToDo(h)
<1>1. TestFlag(h) \/ SetAttribute(h) \/ MarkSet(h) \/ LaunchBlock(h) \/ NothingToDo(h)
  BY DEF Call, chol_n54_launch, geneig_reduce_n54_launch, geneig_reduce_eig_n54_launch,
     geneig_full_n54_launch, geneig_full_n54_batched_launch, geneig_finish_n54_launch,
     cuLaunchKernel, Wrapper
<1>2. StartBlock => /\ UNCHANGED <<idx, read, spoiled, mem>>
                    /\ \/ pc' = pc
                       \/ (\A t \in Thread : pc[t] = 0) /\ pc' = [t \in Thread |-> 1]
  BY DEF StartBlock, thread
<1>3. \A to, from : Goto(h, from, to) => UNCHANGED <<kernel, crew>>
  BY DEF Goto
<1>4. LaunchBlock(h) => StartBlock \/ UNCHANGED <<thread, mem>>
  BY DEF LaunchBlock
<1> QED  BY <1>1, <1>2, <1>3, <1>4
         DEF TestFlag, SetAttribute, MarkSet, LaunchBlock, NothingToDo, thread
-----------------------------------------------------------------------------
\* No race, from the invariant.

\* What a thread touches, by the statement it is at.
LEMMA Touched ==
    ASSUME TypeOK, NEW t \in Thread
    PROVE  /\ Reads(t) # {} \/ Writes(t) # {} =>
                 pc[t] \in 1 .. Len(Program) /\ Program[pc[t]] # Sync
           /\ Program[pc[t]].do = "load" => Reads(t) = {}
           /\ Program[pc[t]].do = "store" =>
                 Reads(t) \subseteq
                    UNION {Source(a, idx[t]) : a \in Program[pc[t]].arrays}
           /\ Reads(t) # {} /\ Program[pc[t]].do = "run" => InCrew(t) /\ ~read[t]
           /\ Writes(t) # {} /\ Program[pc[t]].do # "run" =>
                 /\ idx[t] < Count(Program[pc[t]])
                 /\ Program[pc[t]].do = "load" =>
                       Writes(t) = LoadCells(Program[pc[t]], idx[t])
                 /\ Program[pc[t]].do = "store" =>
                       Writes(t) = StoreCells(Program[pc[t]], idx[t])
           /\ Writes(t) # {} /\ Program[pc[t]].do = "run" =>
                 /\ InCrew(t) /\ read[t] /\ CrewHasRead(t)
                 /\ Writes(t) = WriteShare(Program[pc[t]].op, t)
<1>1. DOMAIN Program = 1 .. Len(Program)  BY Typing, ProgramFacts
<1>2. /\ InLoop(t) => /\ pc[t] \in DOMAIN Program
                      /\ Program[pc[t]].do \in {"load", "store"}
                      /\ idx[t] < Count(Program[pc[t]])
      /\ InCrew(t) => pc[t] \in DOMAIN Program /\ Program[pc[t]].do = "run"
  BY DEF InLoop, InCrew, Doing, Running
<1>3. \A s : s.do \in {"load", "store", "run"} => s # Sync  BY DEF Sync
<1>4. /\ InLoop(t) /\ Program[pc[t]].do = "store" =>
            Reads(t) = UNION {Source(a, idx[t]) : a \in Program[pc[t]].arrays}
      /\ ~(InLoop(t) /\ Program[pc[t]].do = "store") /\ ~(InCrew(t) /\ ~read[t]) =>
            Reads(t) = {}
  <2>1. InLoop(t) => ~InCrew(t)  BY <1>2
  <2>2. CASE InLoop(t) /\ Program[pc[t]].do = "store"
    <3>1. Reads(t) = UNION {Source(a, idx[t]) : a \in Program[pc[t]].arrays}
      BY <2>1, <2>2 DEF Reads
    <3> QED  BY <2>2, <3>1
  <2>3. CASE ~(InLoop(t) /\ Program[pc[t]].do = "store") /\ ~(InCrew(t) /\ ~read[t])
    <3>1. Reads(t) = {}  BY <2>3 DEF Reads
    <3> QED  BY <2>3, <3>1
  <2> QED  BY <2>2, <2>3
<1>5. /\ InLoop(t) /\ Program[pc[t]].do = "load" =>
            Writes(t) = LoadCells(Program[pc[t]], idx[t])
      /\ InLoop(t) /\ Program[pc[t]].do = "store" =>
            Writes(t) = StoreCells(Program[pc[t]], idx[t])
      /\ InCrew(t) /\ read[t] /\ CrewHasRead(t) =>
            Writes(t) = WriteShare(Program[pc[t]].op, t)
      /\ ~InLoop(t) /\ ~(InCrew(t) /\ read[t] /\ CrewHasRead(t)) => Writes(t) = {}
  BY <1>2 DEF Writes
<1>6. Reads(t) # {} => InLoop(t) \/ InCrew(t)  BY <1>4
<1>7. Writes(t) # {} => InLoop(t) \/ InCrew(t)  BY <1>5
<1>8. Reads(t) # {} \/ Writes(t) # {} =>
         pc[t] \in 1 .. Len(Program) /\ Program[pc[t]] # Sync
  BY <1>1, <1>2, <1>3, <1>6, <1>7
<1>9. Program[pc[t]].do = "load" => Reads(t) = {}
  BY <1>2, <1>4
<1>10. Program[pc[t]].do = "store" =>
          Reads(t) \subseteq UNION {Source(a, idx[t]) : a \in Program[pc[t]].arrays}
  BY <1>2, <1>4
<1>11. Reads(t) # {} /\ Program[pc[t]].do = "run" => InCrew(t) /\ ~read[t]
  BY <1>2, <1>4
<1>12. Writes(t) # {} /\ Program[pc[t]].do # "run" =>
          /\ idx[t] < Count(Program[pc[t]])
          /\ Program[pc[t]].do = "load" => Writes(t) = LoadCells(Program[pc[t]], idx[t])
          /\ Program[pc[t]].do = "store" => Writes(t) = StoreCells(Program[pc[t]], idx[t])
  BY <1>2, <1>5
<1>13. Writes(t) # {} /\ Program[pc[t]].do = "run" =>
          /\ InCrew(t) /\ read[t] /\ CrewHasRead(t)
          /\ Writes(t) = WriteShare(Program[pc[t]].op, t)
  BY <1>2, <1>5
<1> QED  BY <1>8, <1>9, <1>10, <1>11, <1>12, <1>13

\* A loop variable that still runs is the number of an element.
LEMMA LoopVariables ==
    ASSUME NEW i \in Nat, NEW s, i < Count(s)
    PROVE  i \in Elements /\ (s.do = "store" /\ s.arrays = {"W"} => i \in Eigenvalues)
<1> DEFINE all == kN * kN * Batch
           w == kN * Batch
<1>1. all \in Nat /\ w \in Nat /\ w <= all  BY Offsets
<1>2. Count(s) = IF s.do = "store" /\ s.arrays = {"W"} THEN w ELSE all  BY DEF Count
<1>3. Elements = 0 .. all - 1 /\ Eigenvalues = 0 .. w - 1  BY DEF Elements, Eigenvalues
<1> HIDE DEF all, w
<1> QED  BY <1>1, <1>2, <1>3

\* Threads at one copy loop are at different elements.
LEMMA LoopsApart ==
    ASSUME TypeOK, NEW t \in Thread, NEW u \in Thread, t # u
    PROVE  idx[t] # idx[u]
  BY Typing

\* The cells a copy loop writes for two elements.
LEMMA CopiesApart ==
    ASSUME NEW i \in Elements, NEW j \in Elements, i # j, NEW s
    PROVE  /\ LoadCells(s, i) \cap LoadCells(s, j) = {}
           /\ StoreCells(s, i) \cap StoreCells(s, j) = {}
<1>1. ASSUME NEW c \in LoadCells(s, i), c \in LoadCells(s, j)  PROVE FALSE
  <2>1. (c \in As(i) \/ c \in Bs(i)) /\ (c \in As(j) \/ c \in Bs(j))
    BY <1>1 DEF LoadCells
  <2> QED  BY <2>1, Layout
<1>2. ASSUME NEW c \in StoreCells(s, i), c \in StoreCells(s, j)  PROVE FALSE
  <2>1. c[2] = i /\ c[2] = j  BY <1>2, Addresses DEF StoreCells
  <2> QED  BY <2>1
<1> QED  BY <1>1, <1>2

\* A copy loop reads the shared memory and writes the arrays.
LEMMA SourcesAreShared ==
    ASSUME NEW a \in {"L", "W", "M", "U"}, NEW i, NEW c \in Source(a, i)
    PROVE  c[1] = "smem"
  BY Addresses DEF Source

\* A loop that writes results touches arrays in global memory only.
LEMMA StoresAreOut ==
    ASSUME NEW ops, NEW s \in Statement(ops), s.do = "store", NEW i, NEW c \in StoreCells(s, i)
    PROVE  c[1] \in s.arrays /\ c[1] \in {"L", "W", "M", "U"}
<1>1. s.arrays \in {{"W"}, {"U"}, {"L"}, {"M"}, {"L", "M"}}  BY Kinds
<1>2. c[1] \in s.arrays  BY Addresses DEF StoreCells
<1> QED  BY <1>1, <1>2

\* Two members of a crew write different cells.
LEMMA WritesApart ==
    ASSUME NEW o \in Operator, crew[o] \in SUBSET Thread,
           NEW t \in crew[o], NEW u \in crew[o], t # u
    PROVE  WriteShare(o, t) \cap WriteShare(o, u) = {}
<1> SUFFICES ASSUME NEW c \in WriteShare(o, t), c \in WriteShare(o, u)
             PROVE  FALSE
  OBVIOUS
<1>0. WrittenOf(o) \subseteq Elements  BY DEF WrittenOf, Triangle, Whole
<1>1. ASSUME NEW x \in Thread
      PROVE  /\ c \in TileShare(o, x) =>
                   \E i \in Elements : i \in Share(x, crew[o], WrittenOf(o)) /\ c \in Tile(o, i)
             /\ c \in LambdaShare(o, x) =>
                   \E i \in Eigenvalues :
                      i \in Share(x, crew[o], Eigenvalues) /\ c \in Lambda(i)
             /\ c \in InfoShare(o, x) =>
                   \E b : b \in Share(x, crew[o], 0 .. Batch - 1) /\ c = Info(b)
             /\ c \in WorkShare(o, x) => Rank(x, crew[o]) = 0 /\ c \in Workspace
  BY <1>0 DEF TileShare, LambdaShare, InfoShare, WorkShare, Share
<1>2. \A i \in Elements : c \in Tile(o, i) => c \in As(i) \/ c \in Bs(i)
  BY DEF Tile
<1>3. ASSUME NEW x \in Thread
      PROVE  /\ c \in TileShare(o, x) =>
                   c[1] = "smem" /\ c[2] \in Nat /\ c[2] < LambdaOffset
             /\ c \in LambdaShare(o, x) =>
                   /\ c[1] = "smem" /\ c[2] \in Nat
                   /\ LambdaOffset <= c[2] /\ c[2] < LambdaOffset + kN * Batch
             /\ c \in WorkShare(o, x) =>
                   c[1] = "smem" /\ c[2] \in Nat /\ LambdaOffset + kN * Batch <= c[2]
             /\ c \in InfoShare(o, x) => c[1] = "info"
  <2>1. c \in TileShare(o, x) => c[1] = "smem" /\ c[2] \in Nat /\ c[2] < LambdaOffset
    BY <1>1, <1>2, Layout
  <2>2. c \in LambdaShare(o, x) =>
            /\ c[1] = "smem" /\ c[2] \in Nat
            /\ LambdaOffset <= c[2] /\ c[2] < LambdaOffset + kN * Batch
    BY <1>1, Layout
  <2>3. c \in WorkShare(o, x) =>
            c[1] = "smem" /\ c[2] \in Nat /\ LambdaOffset + kN * Batch <= c[2]
    BY <1>1, Layout
  <2>4. c \in InfoShare(o, x) => c[1] = "info"
    BY <1>1, Addresses
  <2> QED  BY <2>1, <2>2, <2>3, <2>4
<1>4. /\ LambdaOffset \in Nat /\ kN * Batch \in Nat /\ t \in Thread /\ u \in Thread
  BY Offsets
<1>5. \/ c \in TileShare(o, t) /\ c \in TileShare(o, u)
      \/ c \in LambdaShare(o, t) /\ c \in LambdaShare(o, u)
      \/ c \in WorkShare(o, t) /\ c \in WorkShare(o, u)
      \/ c \in InfoShare(o, t) /\ c \in InfoShare(o, u)
  <2>1. \A x \in {t, u} : c \in TileShare(o, x) \/ c \in LambdaShare(o, x)
                       \/ c \in WorkShare(o, x) \/ c \in InfoShare(o, x)
    BY DEF WriteShare
  <2> DEFINE w == kN * Batch
  <2>2. w \in Nat /\ LambdaOffset \in Nat  BY <1>4
  <2>3. \A x \in {t, u} :
             /\ c \in TileShare(o, x) => c[1] = "smem" /\ c[2] \in Nat /\ c[2] < LambdaOffset
             /\ c \in LambdaShare(o, x) =>
                   /\ c[1] = "smem" /\ c[2] \in Nat
                   /\ LambdaOffset <= c[2] /\ c[2] < LambdaOffset + w
             /\ c \in WorkShare(o, x) =>
                   c[1] = "smem" /\ c[2] \in Nat /\ LambdaOffset + w <= c[2]
             /\ c \in InfoShare(o, x) => c[1] = "info"
    BY <1>3, <1>4
  <2> HIDE DEF w
  <2> QED  BY <2>1, <2>2, <2>3
<1>6. ASSUME c \in TileShare(o, t), c \in TileShare(o, u)  PROVE FALSE
  <2>1. PICK i \in Elements : i \in Share(t, crew[o], WrittenOf(o)) /\ c \in Tile(o, i)
    BY <1>1, <1>4, <1>6
  <2>2. PICK j \in Elements : j \in Share(u, crew[o], WrittenOf(o)) /\ c \in Tile(o, j)
    BY <1>1, <1>4, <1>6
  <2>3. i = j
    <3>1. (c \in As(i) /\ c \in As(j)) \/ (c \in Bs(i) /\ c \in Bs(j))
      BY <2>1, <2>2 DEF Tile
    <3> QED  BY <3>1, Layout
  <2> QED  BY <2>1, <2>2, <2>3, SharesDiffer
<1>7. ASSUME c \in LambdaShare(o, t), c \in LambdaShare(o, u)  PROVE FALSE
  <2>1. PICK i \in Eigenvalues : i \in Share(t, crew[o], Eigenvalues) /\ c \in Lambda(i)
    BY <1>1, <1>4, <1>7
  <2>2. PICK j \in Eigenvalues : j \in Share(u, crew[o], Eigenvalues) /\ c \in Lambda(j)
    BY <1>1, <1>4, <1>7
  <2>3. i = j  BY <2>1, <2>2, Layout
  <2> QED  BY <2>1, <2>2, <2>3, SharesDiffer
<1>8. ASSUME c \in WorkShare(o, t), c \in WorkShare(o, u)  PROVE FALSE
  BY <1>1, <1>4, <1>8, RanksDiffer
<1>9. ASSUME c \in InfoShare(o, t), c \in InfoShare(o, u)  PROVE FALSE
  <2>1. PICK i : i \in Share(t, crew[o], 0 .. Batch - 1) /\ c = Info(i)
    BY <1>1, <1>4, <1>9
  <2>2. PICK j : j \in Share(u, crew[o], 0 .. Batch - 1) /\ c = Info(j)
    BY <1>1, <1>4, <1>9
  <2>3. i = j  BY <2>1, <2>2 DEF Info
  <2> QED  BY <2>1, <2>2, <2>3, SharesDiffer
<1> QED  BY <1>5, <1>6, <1>7, <1>8, <1>9

\* Threads that touch memory at two statements are at the two last stores.
LEMMA StatementsApart ==
    ASSUME TypeOK, Aligned, NEW t \in Thread, NEW u \in Thread,
           pc[t] \in 1 .. Len(Program), pc[u] \in 1 .. Len(Program),
           Program[pc[t]] # Sync, Program[pc[u]] # Sync, pc[t] < pc[u]
    PROVE  LastStores(Program, pc[t]) /\ pc[u] = pc[t] + 1
<1>1. /\ Len(Program) \in Nat
      /\ \A p \in 1 .. Len(Program) - 1 :
            Program[p] = Sync \/ Program[p + 1] = Sync \/ LastStores(Program, p)
  BY Typing, ProgramFacts
<1>2. pc[t] \in 1 .. Len(Program) - 1 /\ pc[t] + 1 <= pc[u]  BY <1>1
<1>3. Program[pc[t] + 1] # Sync
  <2> SUFFICES ASSUME Program[pc[t] + 1] = Sync  PROVE FALSE
    OBVIOUS
  <2>1. pc[u] # pc[t] + 1  OBVIOUS
  <2>2. pc[t] + 1 \in 1 .. pc[u] - 1  BY <1>1, <1>2, <2>1
  <2>3. pc[t] >= pc[t] + 1  BY <2>2 DEF Aligned
  <2> QED  BY <2>3
<1>4. LastStores(Program, pc[t])  BY <1>1, <1>2, <1>3
<1>5. pc[t] + 1 = Len(Program)  BY <1>4 DEF LastStores
<1> QED  BY <1>1, <1>2, <1>4, <1>5

\* Threads that are aligned at barriers do not meet on a cell: the data-race
\* freedom of a block is a consequence of the invariant.
LEMMA NoRaceFollows ==
    ASSUME TypeOK, Aligned
    PROVE  NoRace
<1> SUFFICES ASSUME NEW t \in Thread, NEW u \in Thread, t # u,
                    NEW c \in Writes(t), c \in Reads(u) \/ c \in Writes(u)
             PROVE  FALSE
  BY DEF NoRace
<1> DEFINE s == Program[pc[t]]
           r == Program[pc[u]]
<1>1. pc[t] \in 1 .. Len(Program) /\ s # Sync  BY Touched
<1>2. pc[u] \in 1 .. Len(Program) /\ r # Sync  BY Touched
<1>3. s \in Statement(Runs) /\ r \in Statement(Runs) /\ Len(Program) \in Nat
  BY <1>1, <1>2, Typing, ProgramFacts
<1>4. ASSUME s.do = "store", r.do = "store", c \in Reads(u)  PROVE FALSE
  <2>1. Writes(t) = StoreCells(s, idx[t])  BY <1>4, Touched
  <2>2. c[1] \in {"L", "W", "M", "U"}  BY <1>3, <1>4, <2>1, StoresAreOut
  <2>3. r.arrays \subseteq {"L", "W", "M", "U"}
    <3>1. r.arrays \in {{"W"}, {"U"}, {"L"}, {"M"}, {"L", "M"}}  BY <1>3, <1>4, Kinds
    <3> QED  BY <3>1
  <2>4. c[1] = "smem"
    <3>1. PICK a \in r.arrays : c \in Source(a, idx[u])  BY <1>4, Touched
    <3> QED  BY <2>3, <3>1, SourcesAreShared
  <2> QED  BY <2>2, <2>4
<1>5. CASE pc[t] = pc[u]
  <2>1. s = r  BY <1>5
  <2>2. CASE s.do \in {"load", "store"}
    <3>1. c \notin Reads(u)  BY <1>4, <2>1, <2>2, Touched
    <3>2. idx[t] < Count(s) /\ idx[u] < Count(s)  BY <2>1, <2>2, <3>1, Touched
    <3>3. idx[t] \in Elements /\ idx[u] \in Elements /\ idx[t] # idx[u]
      <4>1. idx[t] \in Nat /\ idx[u] \in Nat  BY Typing
      <4> HIDE DEF s
      <4> QED  BY <3>2, <4>1, LoopVariables, LoopsApart
    <3>4. CASE s.do = "load"
      <4>1. c \in LoadCells(s, idx[t]) /\ c \in LoadCells(s, idx[u])
        BY <2>1, <3>1, <3>4, Touched
      <4> QED  BY <3>3, <4>1, CopiesApart
    <3>5. CASE s.do = "store"
      <4>1. c \in StoreCells(s, idx[t]) /\ c \in StoreCells(s, idx[u])
        BY <2>1, <3>1, <3>5, Touched
      <4> QED  BY <3>3, <4>1, CopiesApart
    <3> QED  BY <2>2, <3>4, <3>5
  <2>3. CASE s.do = "run"
    <3>1. InCrew(t) /\ CrewHasRead(t) /\ c \in WriteShare(s.op, t)
      BY <2>3, Touched
    <3>2. InCrew(u)  BY <2>1, <2>3, Touched
    <3>3. t \in crew[s.op] /\ u \in crew[s.op]  BY <2>1, <3>1, <3>2 DEF InCrew
    <3>4. read[u]
      <4>1. pc[u] > pc[t] \/ (pc[u] = pc[t] /\ read[u])
        BY <3>1, <3>3 DEF CrewHasRead
      <4> QED  BY <1>1, <1>3, <1>5, <4>1
    <3>5. c \in Writes(u)  BY <2>1, <2>3, <3>4, Touched
    <3>6. c \in WriteShare(s.op, u)  BY <2>1, <2>3, <3>5, Touched
    <3>7. s.op \in Operator
      <4>1. s.op \in Runs
        <5> HIDE DEF s
        <5> QED  BY <1>3, <2>3, Kinds
      <4> QED  BY <4>1 DEF Runs, Operator
    <3>8. crew[s.op] \in SUBSET Thread  BY <3>7, Typing
    <3> HIDE DEF s
    <3> QED  BY <3>1, <3>3, <3>6, <3>7, <3>8, WritesApart
  <2>4. s.do \in {"load", "store", "run"}
    <3> HIDE DEF s
    <3> QED  BY <1>1, <1>3, Kinds
  <2> QED  BY <2>2, <2>3, <2>4
<1>6. ASSUME pc[t] # pc[u]  PROVE FALSE
  <2>1. \/ s = Store({"W"}, FALSE) /\ r = Store({"U"}, FALSE)
        \/ s = Store({"U"}, FALSE) /\ r = Store({"W"}, FALSE)
    <3>1. pc[t] < pc[u] \/ pc[u] < pc[t]  BY <1>1, <1>2, <1>3, <1>6
    <3>2. CASE pc[t] < pc[u]
      BY <1>1, <1>2, <3>2, StatementsApart DEF LastStores
    <3>3. CASE pc[u] < pc[t]
      BY <1>1, <1>2, <3>3, StatementsApart DEF LastStores
    <3> QED  BY <3>1, <3>2, <3>3
  <2>2. /\ s.do = "store" /\ r.do = "store"
        /\ s.arrays \cap r.arrays = {}
    BY <2>1 DEF Store
  <2>3. c \in Writes(u)  BY <1>4, <2>2
  <2>4. c \in StoreCells(s, idx[t]) /\ c \in StoreCells(r, idx[u])
    BY <2>2, <2>3, Touched
  <2>5. c[1] \in s.arrays /\ c[1] \in r.arrays
    <3> HIDE DEF s, r
    <3> QED  BY <1>3, <2>2, <2>4, StoresAreOut
  <2> QED  BY <2>2, <2>5
<1> QED  BY <1>5, <1>6
-----------------------------------------------------------------------------
\* The invariant holds, and the properties with it.

\* What an operator reads from a tile, torn or not, is one of the values.
LEMMA HeldIsValue ==
    ASSUME TypeOK, NEW cells \in SUBSET Location, cells # {}
    PROVE  Held(cells) \in Value
<1>1. (CHOOSE c \in cells : TRUE) \in cells  OBVIOUS
<1>2. \A c \in cells : mem[c] \in Value
  <2>1. mem \in [Location -> Value]  BY Typing
  <2> QED  BY <2>1
<1>3. "torn" \in Value  BY DEF Value
<1> QED  BY <1>1, <1>2, <1>3 DEF Held

\* A running thread's statement is one of the program's.
LEMMA AtStatement ==
    ASSUME TypeOK, NEW t \in Thread, pc[t] \in DOMAIN Program
    PROVE  /\ pc[t] \in 1 .. Len(Program) /\ pc[t] + 1 \in 0 .. End
           /\ Program[pc[t]] \in Statement(Runs)
  BY Typing, ProgramFacts

\* An element copied into shared memory keeps the type of the memory.
LEMMA LoadedTyped ==
    ASSUME TypeOK, NEW t \in Thread, Copy(t), Program[pc[t]].do = "load"
    PROVE  mem' \in [Location -> Value]
<1> DEFINE s == Program[pc[t]]
<1>1. pc[t] \in DOMAIN Program  BY DEF Copy, InLoop, Doing, Running
<1>2. s \in Statement(Runs)  BY <1>1, AtStatement
<1>3. Loading(s, idx[t])  BY DEF Copy
<1>4. s.as \in {"S", "L"} /\ s.bs \in {"none", "H", "M"}
  <2>1. s.do = "load"  OBVIOUS
  <2> HIDE DEF s
  <2> QED  BY <1>2, <2>1, Kinds
<1>5. \A v \in {"S", "L", "none", "H", "M"} : Given(v, idx[t]) \in Value
  BY DEF Given, Value
<1>6. mem \in [Location -> Value]  BY Typing
<1> HIDE DEF s
<1> QED  BY <1>3, <1>4, <1>5, <1>6 DEF Loading

\* An element copied to global memory keeps the type of the memory.
LEMMA StoredTyped ==
    ASSUME TypeOK, NEW t \in Thread, Copy(t), Program[pc[t]].do = "store"
    PROVE  mem' \in [Location -> Value]
<1> DEFINE s == Program[pc[t]]
           i == idx[t]
<1>1. pc[t] \in DOMAIN Program /\ i < Count(s)  BY DEF Copy, InLoop, Doing, Running
<1>2. s \in Statement(Runs) /\ s.do = "store"  BY <1>1, AtStatement
<1>3. Storing(s, i)  BY DEF Copy
<1>4. i \in Nat /\ mem \in [Location -> Value]  BY Typing
<1> HIDE DEF s, i
<1>5. i \in Elements /\ (s.arrays = {"W"} => i \in Eigenvalues)
  BY <1>1, <1>2, <1>4, LoopVariables
<1>6. s.arrays \in {{"W"}, {"U"}, {"L"}, {"M"}, {"L", "M"}}  BY <1>2, Kinds
<1>7. ASSUME NEW a \in s.arrays  PROVE Held(Source(a, i)) \in Value
  <2>1. a \in {"L", "W", "M", "U"} /\ (a = "W" => i \in Eigenvalues)  BY <1>5, <1>6
  <2>2. Source(a, i) \in SUBSET Location /\ Source(a, i) # {}
    BY <1>5, <2>1, CellsAreLocations DEF Source
  <2> QED  BY <2>2, HeldIsValue
<1>8. \A c \in StoreCells(s, i) : c[1] \in s.arrays  BY Addresses DEF StoreCells
<1>9. "zero" \in Value  BY DEF Value
<1> QED  BY <1>3, <1>4, <1>7, <1>8, <1>9 DEF Storing

\* The share of a result that a thread of an operator's crew writes keeps the type
\* of the memory.
LEMMA WrittenTyped ==
    ASSUME TypeOK, NEW t \in Thread, WriteResults(t)
    PROVE  mem' \in [Location -> Value]
<1> DEFINE s == Program[pc[t]]
           o == s.op
<1>1. pc[t] \in DOMAIN Program /\ s.do = "run"
  BY DEF WriteResults, InCrew, Doing, Running
<1>2. s \in Statement(Runs)  BY <1>1, AtStatement
<1>3. o \in Runs
  <2> HIDE DEF s
  <2> QED  BY <1>1, <1>2, Kinds
<1>4. kernel \in Kernels /\ mem \in [Location -> Value]  BY Typing
<1>5. Meaning(Described(o)).gives \in {"L", "Y", "M", "V", "U"}
  <2> HIDE DEF o
  <2>1. \/ o = "potrf" /\ Described(o) = <<"potrf">>
        \/ o = "trsmLeft" /\ Described(o) = <<"trsm", "left", "non_trans">>
        \/ o = "trsmRight" /\ Described(o) = <<"trsm", "right", "conj_trans">>
        \/ o = "heev" /\ Described(o) = <<"heev">>
        \/ o = "trsmLeftConj" /\ Described(o) = <<"trsm", "left", "conj_trans">>
    <3>1. CASE kernel \in Static
      <4>1. Described(o) = StaticOperators[o]  BY <3>1 DEF Described, Static
      <4>2. o \in Operator  BY <1>3 DEF Runs, Operator
      <4> QED  BY <4>1, <4>2 DEF Operator, StaticOperators
    <3>2. CASE kernel = "geneig_full"
      <4>1. Described(o) = FusedOperators[o]  BY <3>2 DEF Described, Static
      <4>2. o \in Operator  BY <1>3 DEF Runs, Operator
      <4> QED  BY <4>1, <4>2 DEF Operator, FusedOperators
    <3>3. CASE kernel = "geneig_reduce"
      <4>1. Described(o) = ReduceOperators[o]  BY <3>3 DEF Described, Static
      <4>2. o \in {"potrf", "trsmLeft", "trsmRight"}  BY <1>3, <3>3 DEF Runs
      <4> QED  BY <4>1, <4>2 DEF ReduceOperators
    <3> QED  BY <1>4, <3>1, <3>2, <3>3, KernelAssumption
  <2> QED  BY <2>1 DEF Meaning
<1>6. {"L", "Y", "M", "V", "U", "W", "junk", "scratch"} \subseteq Value /\ o \in Value
  BY <1>3 DEF Value, Runs, Operator
<1> HIDE DEF s
<1>7. mem' = [c \in Location |->
                 CASE c \in InfoShare(o, t) -> o
                   [] c \in WorkShare(o, t) -> "scratch"
                   [] c \in LambdaShare(o, t) -> IF pc[t] \in spoiled THEN "junk" ELSE "W"
                   [] c \in TileShare(o, t) ->
                         IF pc[t] \in spoiled THEN "junk" ELSE Meaning(Described(o)).gives
                   [] OTHER -> mem[c]]
  BY DEF WriteResults, s
<1> HIDE DEF o
<1> DEFINE g == Meaning(Described(o)).gives
<1>8. g \in Value  BY <1>5, <1>6
<1> HIDE DEF g
<1> QED  BY <1>4, <1>6, <1>7, <1>8 DEF g

\* Whatever a thread does, the memory holds values.
LEMMA MemoryTyped ==
    ASSUME TypeOK, NEW t \in Thread, Step(t)
    PROVE  mem' \in [Location -> Value]
<1>1. CASE Copy(t)
  <2>1. Program[pc[t]].do \in {"load", "store"}
    BY <1>1 DEF Copy, InLoop, Doing
  <2> QED  BY <1>1, <2>1, LoadedTyped, StoredTyped
<1>2. CASE WriteResults(t)  BY <1>2, WrittenTyped
<1>3. CASE LoopEnds(t) \/ RunAhead(t) \/ ReadOperands(t) \/ Synchronise(t)
  <2>1. mem' = mem  BY <1>3 DEF LoopEnds, RunAhead, ReadOperands, Synchronise
  <2> QED  BY <2>1, Typing
<1> QED  BY <1>1, <1>2, <1>3 DEF Step

\* The invariant holds when the kernel starts.
LEMMA InitiallyBlockInv ==
    ASSUME Init
    PROVE  BlockInv
<1>1. kernel \in Kernels /\ crew \in Crews /\ pc = [t \in Thread |-> 0]
      /\ idx = [t \in Thread |-> t] /\ read = [t \in Thread |-> FALSE] /\ spoiled = {}
      /\ mem = [c \in Location |-> "none"]
      /\ attr_set = FALSE /\ rejected = "none"
  BY DEF Init
<1>2. End \in Nat  BY <1>1, ProgramFacts
<1>3. /\ hpc = [h \in Host |-> IF kernel \in Static THEN "called" ELSE "launch"]
      /\ attribute = IF kernel \in Static THEN "unset" ELSE "set"
  BY DEF Init
<1>4. \A t \in Thread : t \in Nat /\ t \in 0 .. BlockDimX - 1  BY KernelAssumption DEF Thread
<1>5. \A t \in Thread : idx[t] % BlockDimX = t
  BY <1>1, <1>4, Residues, KernelAssumption
<1>6. mem \in [Location -> Value]
  <2>1. "none" \in Value  BY DEF Value
  <2> QED  BY <1>1, <2>1
<1>7. TypeOK
  <2>1. hpc \in [Host -> {"called", "set", "mark", "launch", "returned"}]
        /\ attribute \in {"unset", "refused", "set"}
    BY <1>3
  <2>2. pc \in [Thread -> 0 .. End] /\ idx \in [Thread -> Nat]
        /\ read \in [Thread -> BOOLEAN]
    BY <1>1, <1>2, <1>4
  <2> QED  BY <1>1, <1>5, <1>6, <2>1, <2>2 DEF TypeOK
<1>8. Aligned  BY <1>1 DEF Aligned
<1>9. HostInv  BY <1>1, <1>3 DEF HostInv
<1> QED  BY <1>7, <1>8, <1>9 DEF BlockInv

\* A step of a thread of the block preserves the invariant.
LEMMA ThreadStep ==
    ASSUME BlockInv, NEW t \in Thread, Step(t)
    PROVE  BlockInv'
<1>1. TypeOK /\ Aligned /\ HostInv  BY DEF BlockInv
<1>2. /\ UNCHANGED <<kernel, crew, hpc, attr_set, attribute, rejected>>
      /\ pc[t] \in DOMAIN Program
      /\ read' \in [Thread -> BOOLEAN]
      /\ spoiled' \subseteq spoiled \cup {pc[t]}
      /\ \/ pc' = pc /\ idx' = [idx EXCEPT ![t] = idx[t] + BlockDimX]
         \/ pc' = pc /\ idx' = idx
         \/ /\ pc' = [pc EXCEPT ![t] = pc[t] + 1]
            /\ idx' = [idx EXCEPT ![t] = t]
            /\ Program[pc[t]] = Sync => \A u \in Thread : pc[u] >= pc[t]
  BY <1>1, Advances
<1>3. Program' = Program /\ End' = End /\ Location' = Location  BY <1>2, SameProgram
<1>4. /\ pc[t] \in 1 .. Len(Program) /\ pc[t] + 1 \in 0 .. End
      /\ Len(Program) \in Nat /\ End = Len(Program) + 1
  BY <1>1, <1>2, AtStatement, Typing, ProgramFacts
<1>5. /\ pc \in [Thread -> 0 .. End] /\ idx \in [Thread -> Nat]
      /\ \A u \in Thread : idx[u] % BlockDimX = u
      /\ spoiled \subseteq 1 .. End
  BY <1>1, Typing
<1>6. /\ BlockDimX \in Nat \ {0}
      /\ \A u \in Thread : u \in Nat /\ u \in 0 .. BlockDimX - 1
  BY KernelAssumption DEF Thread
<1>7. TypeOK'
  <2>1. pc' \in [Thread -> 0 .. End]  BY <1>2, <1>4, <1>5
  <2>2. idx' \in [Thread -> Nat]
    <3>1. idx[t] + BlockDimX \in Nat  BY <1>5, <1>6
    <3> QED  BY <1>2, <1>5, <1>6, <3>1
  <2>3. \A u \in Thread : idx'[u] % BlockDimX = u
    <3>1. (idx[t] + BlockDimX) % BlockDimX = t  BY <1>5, <1>6, Residues
    <3>2. t % BlockDimX = t  BY <1>6, Residues
    <3>3. /\ idx'[t] = idx[t] + BlockDimX \/ idx'[t] = t \/ idx'[t] = idx[t]
          /\ \A u \in Thread : u # t => idx'[u] = idx[u]
      BY <1>2, <1>5
    <3> QED  BY <1>5, <3>1, <3>2, <3>3
  <2>4. spoiled' \subseteq 1 .. End  BY <1>2, <1>4, <1>5
  <2>5. mem' \in [Location -> Value]  BY <1>1, MemoryTyped
  <2> QED  BY <1>1, <1>2, <1>3, <2>1, <2>2, <2>3, <2>4, <2>5 DEF TypeOK
<1>8. Aligned'
  <2> SUFFICES ASSUME NEW a \in Thread, NEW b \in Thread, NEW i \in 1 .. pc'[a] - 1,
                      Program[i] = Sync
               PROVE  pc'[b] >= i
    BY <1>3 DEF Aligned
  <2>1. CASE pc' = pc
    BY <1>1, <2>1 DEF Aligned
  <2>2. CASE /\ pc' = [pc EXCEPT ![t] = pc[t] + 1]
             /\ Program[pc[t]] = Sync => \A u \in Thread : pc[u] >= pc[t]
    <3>1. pc[a] \in Nat /\ pc[b] \in Nat /\ pc[t] \in Nat  BY <1>4, <1>5
    <3>2. pc'[b] \in Nat /\ pc'[b] >= pc[b]  BY <1>5, <2>2, <3>1
    <3>3. i \in 1 .. pc[a] - 1 \/ (a = t /\ i = pc[t])
      <4>1. pc'[a] = IF a = t THEN pc[a] + 1 ELSE pc[a]  BY <1>5, <2>2
      <4> QED  BY <3>1, <4>1
    <3>4. CASE i \in 1 .. pc[a] - 1
      <4>1. pc[b] >= i  BY <1>1, <3>4 DEF Aligned
      <4> QED  BY <3>1, <3>2, <4>1
    <3>5. CASE a = t /\ i = pc[t]
      <4>1. pc[b] >= i  BY <2>2, <3>5
      <4> QED  BY <3>1, <3>2, <3>5, <4>1
    <3> QED  BY <3>3, <3>4, <3>5
  <2> QED  BY <1>2, <2>1, <2>2
<1>9. HostInv'  BY <1>1, <1>2 DEF HostInv
<1> QED  BY <1>7, <1>8, <1>9 DEF BlockInv

\* A step of a wrapper on a thread of the host preserves the invariant.
LEMMA HostStep ==
    ASSUME BlockInv, NEW h \in Host, Call(h)
    PROVE  BlockInv'
<1>1. TypeOK /\ Aligned /\ HostInv  BY DEF BlockInv
<1>2. /\ UNCHANGED <<kernel, crew, idx, read, spoiled, mem>>
      /\ \/ pc' = pc
         \/ (\A t \in Thread : pc[t] = 0) /\ pc' = [t \in Thread |-> 1]
      /\ TestFlag(h) \/ SetAttribute(h) \/ MarkSet(h) \/ LaunchBlock(h) \/ NothingToDo(h)
  BY Calls
<1>3. Program' = Program /\ End' = End /\ Location' = Location  BY <1>2, SameProgram
<1>4. pc' \in [Thread -> 0 .. End]
  <2>1. End \in Nat \ {0}  BY <1>1, Typing, ProgramFacts
  <2>2. pc \in [Thread -> 0 .. End]  BY <1>1, Typing
  <2> QED  BY <1>2, <2>1, <2>2
<1>5. /\ hpc \in [Host -> {"called", "set", "mark", "launch", "returned"}]
      /\ attr_set \in BOOLEAN
      /\ attribute \in {"unset", "refused", "set"}
      /\ rejected \in {"none", "unset", "refused"}
  BY <1>1 DEF TypeOK
<1>6. /\ hpc' \in [Host -> {"called", "set", "mark", "launch", "returned"}]
      /\ attr_set' \in BOOLEAN
      /\ attribute' \in {"unset", "refused", "set"}
      /\ rejected' \in {"none", "unset", "refused"}
      /\ HostInv'
  <2>1. CASE TestFlag(h)
    <3>1. /\ hpc[h] = "called"
          /\ hpc' = [hpc EXCEPT ![h] = IF attr_set THEN "launch" ELSE "set"]
          /\ UNCHANGED <<attr_set, attribute, rejected>>
      BY <2>1 DEF TestFlag, Goto
    <3> QED  BY <1>1, <1>2, <1>5, <3>1 DEF HostInv
  <2>2. CASE SetAttribute(h)
    <3>1. /\ hpc[h] = "set" /\ hpc' = [hpc EXCEPT ![h] = "mark"]
          /\ attribute' \in {"set", "refused"}
          /\ UNCHANGED <<attr_set, rejected>>
      BY <1>5, <2>2 DEF SetAttribute, Goto
    <3> QED  BY <1>1, <1>2, <1>5, <3>1 DEF HostInv
  <2>3. CASE MarkSet(h)
    <3>1. /\ hpc[h] = "mark" /\ hpc' = [hpc EXCEPT ![h] = "launch"]
          /\ attr_set' = TRUE
          /\ UNCHANGED <<attribute, rejected>>
      BY <2>3 DEF MarkSet, Goto
    <3> QED  BY <1>1, <1>2, <1>5, <3>1 DEF HostInv
  <2>4. CASE LaunchBlock(h)
    <3>1. /\ hpc[h] = "launch" /\ hpc' = [hpc EXCEPT ![h] = "returned"]
          /\ rejected' = rejected \/ (attribute # "set" /\ rejected' = attribute)
          /\ UNCHANGED <<attr_set, attribute>>
      BY <2>4 DEF LaunchBlock, Goto
    <3>2. attribute # "unset"  BY <1>1, <3>1 DEF HostInv
    <3> QED  BY <1>1, <1>2, <1>5, <3>1, <3>2 DEF HostInv
  <2>5. CASE NothingToDo(h)
    <3>1. /\ hpc[h] = "launch" /\ hpc' = [hpc EXCEPT ![h] = "returned"]
          /\ UNCHANGED <<attr_set, attribute, rejected>>
      BY <2>5 DEF NothingToDo, Goto
    <3>2. attribute # "unset"  BY <1>1, <3>1 DEF HostInv
    <3> QED  BY <1>1, <1>2, <1>5, <3>1, <3>2 DEF HostInv
  <2> QED  BY <1>2, <2>1, <2>2, <2>3, <2>4, <2>5
<1>7. TypeOK'  BY <1>1, <1>2, <1>3, <1>4, <1>6 DEF TypeOK
<1>8. Aligned'
  <2> SUFFICES ASSUME NEW a \in Thread, NEW b \in Thread, NEW i \in 1 .. pc'[a] - 1,
                      Program[i] = Sync
               PROVE  pc'[b] >= i
    BY <1>3 DEF Aligned
  <2>1. CASE pc' = pc  BY <1>1, <2>1 DEF Aligned
  <2>2. CASE pc' = [x \in Thread |-> 1]  BY <2>2
  <2> QED  BY <1>2, <2>1, <2>2
<1> QED  BY <1>6, <1>7, <1>8 DEF BlockInv

\* The invariant of a block, for every kernel, size and number of threads: its
\* variables keep their types, nobody runs past a barrier that somebody has still
\* to reach, and nobody launches before the attribute has been tried.
THEOREM BlockInvariant == Spec => []BlockInv
<1>1. Init => BlockInv  BY InitiallyBlockInv
<1>2. BlockInv /\ [Next]_vars => BlockInv'
  <2> SUFFICES ASSUME BlockInv, [Next]_vars  PROVE BlockInv'
    OBVIOUS
  <2>1. CASE \E h \in Host : Call(h)  BY <2>1, HostStep
  <2>2. CASE \E t \in Thread : Step(t)  BY <2>2, ThreadStep
  <2>3. CASE UNCHANGED vars
    <3>1. UNCHANGED <<kernel, crew, hpc, attr_set, attribute, rejected, pc, idx, read,
                      spoiled, mem>>
      BY <2>3 DEF vars, host, thread
    <3>2. Program' = Program /\ End' = End /\ Location' = Location
      BY <3>1, SameProgram
    <3> QED  BY <3>1, <3>2 DEF BlockInv, TypeOK, Aligned, HostInv
  <2> QED  BY <2>1, <2>2, <2>3 DEF Next
<1> QED  BY <1>1, <1>2, PTL DEF Spec

\* Every variable keeps its type; in particular the cells an operator or a loop
\* writes lie in the memory of the block.
THEOREM BlockTypeCorrect == Spec => []TypeOK
<1>1. BlockInv => TypeOK  BY DEF BlockInv
<1> QED  BY <1>1, BlockInvariant, PTL

\* No two threads of a block ever meet on a cell that one of them writes, for
\* matrices and batches of any size, any number of threads and any crews: the
\* barriers of all eight kernels are where they have to be.
THEOREM BlockHasNoRace == Spec => []NoRace
<1>1. BlockInv => NoRace  BY NoRaceFollows DEF BlockInv
<1> QED  BY <1>1, BlockInvariant, PTL

\* However many threads of the host meet in a wrapper, a launch lacks its shared
\* memory only if setting the attribute has failed.
THEOREM LaunchAfterAttribute == Spec => []RejectedOnlyIfRefused
<1>1. BlockInv => RejectedOnlyIfRefused  BY DEF BlockInv, HostInv, RejectedOnlyIfRefused
<1> QED  BY <1>1, BlockInvariant, PTL
-----------------------------------------------------------------------------
\* Nobody waits for nothing.

\* What lets a thread take a step: the guards of its actions.
CanGoOn(t) ==
    \/ Doing(t, "load") \/ Doing(t, "store")
    \/ Doing(t, "run") /\ (~InCrew(t) \/ ~read[t] \/ CrewHasRead(t))
    \/ Doing(t, "sync") /\ \A u \in Thread : pc[u] >= pc[t]

\* The threads of a block are started together.
Together == (\E t \in Thread : pc[t] > 0) => \A t \in Thread : pc[t] > 0

\* As long as a thread of the block has something left to do, some thread can go on.
NeverStuck == (\E t \in Thread : Running(t)) => \E t \in Thread : CanGoOn(t)

\* A step of a thread or of the host leaves no thread behind at the start.
LEMMA TogetherKept ==
    ASSUME TypeOK, Together, [Next]_vars
    PROVE  Together'
<1>1. pc \in [Thread -> 0 .. End] /\ End \in Nat /\ DOMAIN Program \subseteq Nat \ {0}
  BY Typing, ProgramFacts
<1>2. CASE \E h \in Host : Call(h)
  <2>1. PICK h \in Host : Call(h)  BY <1>2
  <2>2. pc' = pc \/ pc' = [t \in Thread |-> 1]  BY <2>1, Calls
  <2> QED  BY <2>2 DEF Together
<1>3. CASE \E t \in Thread : Step(t)
  <2>1. PICK t \in Thread : Step(t)  BY <1>3
  <2>2. pc[t] > 0 /\ (pc' = pc \/ pc' = [pc EXCEPT ![t] = pc[t] + 1])
    BY <1>1, <2>1, Advances
  <2>3. \A u \in Thread : pc[u] > 0  BY <2>2 DEF Together
  <2> QED  BY <1>1, <2>2, <2>3 DEF Together
<1>4. CASE UNCHANGED vars  BY <1>4 DEF vars, thread, Together
<1> QED  BY <1>2, <1>3, <1>4 DEF Next

\* A thread that cannot go on waits for one that is at an earlier statement.
LEMMA WaitsForEarlier ==
    ASSUME TypeOK, Together, \A t \in Thread : ~CanGoOn(t),
           NEW t \in Thread, Running(t)
    PROVE  \E u \in Thread : Running(u) /\ pc[u] < pc[t]
<1>1. /\ \A u \in Thread : pc[u] \in Nat
      /\ DOMAIN Program = 1 .. Len(Program) /\ Len(Program) \in Nat
  BY Typing, ProgramFacts
<1>2. pc[t] \in DOMAIN Program /\ Program[pc[t]] \in Statement(Runs)
  BY AtStatement DEF Running
<1>3. \A u \in Thread : pc[u] < pc[t] => Running(u)
  <2> SUFFICES ASSUME NEW u \in Thread, pc[u] < pc[t]  PROVE Running(u)
    OBVIOUS
  <2>1. pc[t] > 0 /\ pc[t] <= Len(Program)  BY <1>1, <1>2
  <2>2. pc[u] > 0  BY <2>1 DEF Together
  <2> QED  BY <1>1, <2>1, <2>2 DEF Running
<1>4. CASE Program[pc[t]] = Sync
  <2>1. Doing(t, "sync")  BY <1>2, <1>4, Kinds DEF Doing
  <2>2. PICK u \in Thread : ~(pc[u] >= pc[t])  BY <2>1 DEF CanGoOn
  <2> QED  BY <1>1, <1>3, <2>2
<1>5. CASE Program[pc[t]].do = "run"
  <2>1. Doing(t, "run")  BY <1>5 DEF Doing
  <2>2. InCrew(t) /\ ~CrewHasRead(t)  BY <2>1 DEF CanGoOn
  <2>3. PICK v \in crew[Program[pc[t]].op] :
           ~(pc[v] > pc[t]) /\ ~(pc[v] = pc[t] /\ read[v])
    BY <2>2 DEF CrewHasRead
  <2>4. v \in Thread
    <3>1. Program[pc[t]].op \in Operator  BY <1>2, <1>5, Kinds DEF Runs, Operator
    <3> QED  BY <2>3, <3>1, Typing
  <2>5. pc[v] # pc[t]
    <3> SUFFICES ASSUME pc[v] = pc[t]  PROVE FALSE
      OBVIOUS
    <3>1. Doing(v, "run") /\ ~read[v]  BY <2>1, <2>3 DEF Doing, Running
    <3> QED  BY <2>4, <3>1 DEF CanGoOn
  <2>6. pc[v] < pc[t]  BY <1>1, <2>3, <2>4, <2>5
  <2> QED  BY <1>3, <2>4, <2>6
<1>6. CASE Program[pc[t]].do \in {"load", "store"}
  BY <1>6 DEF CanGoOn, Doing
<1> QED  BY <1>2, <1>4, <1>5, <1>6, Kinds

\* Nobody is three statements behind another thread, so there is one that waits for nobody.
LEMMA SomebodyCan ==
    ASSUME TypeOK, Aligned, Together
    PROVE  NeverStuck
<1> SUFFICES ASSUME NEW t \in Thread, Running(t), \A u \in Thread : ~CanGoOn(u)
             PROVE  FALSE
  BY DEF NeverStuck
<1>1. /\ \A u \in Thread : pc[u] \in Nat
      /\ DOMAIN Program = 1 .. Len(Program) /\ Len(Program) \in Nat
  BY Typing, ProgramFacts
<1>2. PICK u \in Thread : Running(u) /\ pc[u] < pc[t]  BY WaitsForEarlier
<1>3. PICK v \in Thread : Running(v) /\ pc[v] < pc[u]  BY <1>2, WaitsForEarlier
<1>4. PICK w \in Thread : Running(w) /\ pc[w] < pc[v]  BY <1>3, WaitsForEarlier
<1>5. pc[w] \in Nat /\ pc[w] + 3 <= pc[t] /\ pc[t] <= Len(Program)
  BY <1>1, <1>2, <1>3, <1>4 DEF Running
<1>6. PICK i \in {pc[w] + 1, pc[w] + 2} : Program[i] = Sync
  <2>1. pc[w] + 1 \in 1 .. Len(Program) - 1  BY <1>1, <1>5
  <2>2. ~LastStores(Program, pc[w] + 1)
    <3>1. LastStores(Program, pc[w] + 1) => (pc[w] + 1) + 1 = Len(Program)
      BY DEF LastStores
    <3> QED  BY <1>1, <1>5, <3>1
  <2>3. Program[pc[w] + 1] = Sync \/ Program[(pc[w] + 1) + 1] = Sync
    BY <2>1, <2>2, Typing, ProgramFacts
  <2>4. (pc[w] + 1) + 1 = pc[w] + 2  BY <1>5
  <2> QED  BY <2>3, <2>4
<1>7. i \in 1 .. pc[t] - 1 /\ i > pc[w]  BY <1>1, <1>5
<1>8. pc[w] >= i  BY <1>6, <1>7 DEF Aligned
<1> QED  BY <1>5, <1>7, <1>8

\* NeverStuck: the barriers of the eight kernels and the waiting of a crew for its
\* members bring no block to a standstill, whichever threads the operators leave idle:
\* the part of BlockEnds that needs no fairness, for blocks of any size.
THEOREM BlockNeverStuck == Spec => []NeverStuck
<1>1. Spec => []BlockInv  BY BlockInvariant
<1>2. Init => Together  BY DEF Init, Together
<1>3. BlockInv /\ Together /\ [Next]_vars => Together'  BY TogetherKept DEF BlockInv
<1>4. BlockInv /\ Together => NeverStuck  BY SomebodyCan DEF BlockInv
<1> QED  BY <1>1, <1>2, <1>3, <1>4, PTL DEF Spec
=============================================================================
