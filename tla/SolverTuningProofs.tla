-------------------------- MODULE SolverTuningProofs --------------------------
(***************************************************************************)
(* What SolverTuning promises, for any candidate lists, suggestions,       *)
(* speeds and faults and any number of constructions.                      *)
(***************************************************************************)
EXTENDS SolverTuning, WellFoundedInduction, SequenceTheorems, TLAPS
-----------------------------------------------------------------------------
\* Data.

\* A nonempty set of natural numbers has a least element, and Min names it.
LEMMA MinInSet ==
    ASSUME NEW S, S \subseteq Nat, S # {}
    PROVE  Min(S) \in S /\ \A y \in S : Min(S) <= y
<1>1. PICK x \in S : \A y \in S : ~ (<<y, x>> \in OpToRel(<, Nat))
  BY WFMin, NatLessThanWellFounded
<1>2. \A y \in S : ~ (y < x)  BY <1>1, Zenon DEF OpToRel
<1>3. \A y \in S : x <= y  BY <1>2
<1>. QED  BY <1>3 DEF Min

\* The block dimensions of a candidate list are dimensions of the model.
LEMMA CandidatesTyped ==
    ASSUME TuningAssumption, NEW b \in BPB
    PROVE  /\ Suggest[b] \in Dim /\ Suggest[b] \in Nat
           /\ Candidates(b) \subseteq Dim \cap (Nat \ {0})
<1>1. Suggest[b] \in Nat \ {0}  BY DEF TuningAssumption
<1>2. Candidates(b) \subseteq Nat \ {0}  BY <1>1 DEF Candidates
<1>. QED  BY <1>1, <1>2 DEF Dim

\* The candidate in turn is one of those left.
LEMMA CandLeft ==
    ASSUME TuningAssumption, NEW b \in BPB, left \subseteq Candidates(b), left # {}
    PROVE  Cand \in left /\ Cand \in Candidates(b) /\ Cand \in Dim
<1>1. left \subseteq Nat  BY CandidatesTyped
<1>. QED  BY <1>1, MinInSet, CandidatesTyped DEF Cand

\* The BPBs still to try.
LEMMA WalkTyped ==
    ASSUME TypeOK, todo # << >>
    PROVE  Current \in BPB /\ Tail(todo) \in Seq(BPB)
<1>1. todo \in Seq(BPB)  BY DEF TypeOK
<1>. QED  BY <1>1 DEF Current

\* A candidate list is a list of BPBs.
LEMMA RequestTyped ==
    ASSUME TuningAssumption, NEW r \in Requests
    PROVE  r \in Seq(BPB) /\ r # << >>
<1>1. r \in Seq(Nat \ {0}) /\ r # << >>  BY DEF TuningAssumption
<1>2. \A i \in 1 .. Len(r) : r[i] \in BPB
  <2>1. {r[j] : j \in DOMAIN r} \subseteq BPB  BY DEF BPB
  <2>. QED  BY <1>1, <2>1, LenProperties
<1>3. r \in [1 .. Len(r) -> Nat \ {0}] /\ Len(r) \in Nat  BY <1>1, LenProperties
<1>4. r \in [1 .. Len(r) -> BPB]
  <2>. DEFINE D == 1 .. Len(r)
  <2>1. r \in [D -> Nat \ {0}] /\ \A i \in D : r[i] \in BPB  BY <1>2, <1>3
  <2>. HIDE DEF D
  <2>2. r \in [D -> BPB]  BY <2>1, Zenon
  <2>. QED  BY <2>2 DEF D
<1>5. r \in UNION {[1 .. n -> BPB] : n \in Nat}  BY <1>3, <1>4
<1>. QED  BY <1>1, <1>5, SeqDef, Zenon

-----------------------------------------------------------------------------
\* The world: what was found out about a kernel stays.

WorldOK == /\ size \in [BPB -> [Dim -> Sizes \cup {"?"}]]
           /\ quality \in [BPB -> [Dim -> Qualities \cup {"right", "?"}]]
           /\ kernel \in {<< >>} \cup (BPB \X Dim)

SizesStay == \A b \in BPB, d \in Dim : size[b][d] # "?" => size'[b][d] = size[b][d]

QualitiesStay ==
    \A b \in BPB, d \in Dim : quality[b][d] # "?" => quality'[b][d] = quality[b][d]

\* A kernel that is loaded.
LEMMA Loading ==
    ASSUME WorldOK, NEW b \in BPB, NEW d \in Dim, NEW z \in Sizes, Load(b, d, z)
    PROVE  /\ size' \in [BPB -> [Dim -> Sizes \cup {"?"}]]
           /\ size'[b][d] = z
           /\ SizesStay
           /\ kernel' = <<b, d>> /\ kernel' \in BPB \X Dim
<1>1. size' = [size EXCEPT ![b][d] = z] /\ size[b][d] \in {"?", z} /\ kernel' = <<b, d>>
  BY DEF Load
<1>2. size \in [BPB -> [Dim -> Sizes \cup {"?"}]]  BY DEF WorldOK
<1>. QED  BY <1>1, <1>2 DEF SizesStay

\* A kernel that runs.
LEMMA Running ==
    ASSUME WorldOK, NEW b \in BPB, NEW d \in Dim, NEW q \in Qualities \cup {"right"},
           RunLoaded(<<b, d>>, q)
    PROVE  /\ quality' \in [BPB -> [Dim -> Qualities \cup {"right", "?"}]]
           /\ quality'[b][d] = q
           /\ QualitiesStay
<1>1. quality' = [quality EXCEPT ![b][d] = q] /\ quality[b][d] \in {"?", q}
  BY DEF RunLoaded
<1>2. quality \in [BPB -> [Dim -> Qualities \cup {"right", "?"}]]  BY DEF WorldOK
<1>. QED  BY <1>1, <1>2 DEF QualitiesStay

-----------------------------------------------------------------------------
\* The inductive invariant.

\* What a construction has chosen when the production module is acquired.
Selected == /\ chosen \in Dim
            /\ mode = "Suggested" => chosen = Suggest[Current]
            /\ mode = "Autotune" => chosen = memo[Current]

\* What belongs to each stage of a construction.
StageInv == /\ pc # "sweep" => left = {} /\ sweep = << >>
            /\ pc # "sweep" \/ left # {} => next = 1 /\ winner = Nobody
            /\ pc = "sweep" => left \subseteq Candidates(Current)
            /\ pc \in {"memo", "sweep"} => mode = "Autotune"
            /\ pc \in {"acquire", "check", "live"} => Selected
            /\ pc \in {"check", "live"} => kernel = <<Current, chosen>>
            /\ pc = "live" => bpbField = Current /\ SizeLoaded = "fits"

\* A kernel that passed the sweep.
Passed(b, d) == /\ d \in Candidates(b)
                /\ size[b][d] = "fits"
                /\ quality[b][d] \notin {"wrong", "?"}

RowOK(b, r) == /\ r.of # NotRun => r.of = <<b, r.dim>>
               /\ r.correct => Passed(b, r.dim)

RowsInv == \A i \in DOMAIN sweep : RowOK(Current, sweep[i])

\* The table follows the order of the candidates.
Ascending ==
    /\ \A i, j \in DOMAIN sweep : i < j => sweep[i].dim < sweep[j].dim
    /\ \A i \in DOMAIN sweep, c \in left : sweep[i].dim < c

\* Row r has nothing over row w.
NoBetter(r, w) == \/ r.mps < w.mps
                  \/ r.mps = w.mps /\ w.dim <= r.dim

\* Row j is the winner among the rows the loop has been through.
Leads(j) == /\ j < next
            /\ sweep[j].correct
            /\ winner.dim = sweep[j].dim /\ winner.mps = sweep[j].mps
            /\ \A i \in DOMAIN sweep : i < next /\ sweep[i].correct => NoBetter(sweep[i], sweep[j])

\* The invariant of the loop over the results.
LoopInv == \/ winner = Nobody /\ \A i \in DOMAIN sweep : i < next => ~sweep[i].correct
           \/ \E j \in DOMAIN sweep : Leads(j)

TableInv == RowsInv /\ Ascending /\ LoopInv

MemoInv == \A b \in BPB : memo[b] # 0 => Passed(b, memo[b])

TuneInv == TypeOK /\ StageInv /\ TableInv /\ MemoInv

\* The types of the compiler's and the device's choices follow from TypeOK.
LEMMA WorldTyped == ASSUME TypeOK PROVE WorldOK
BY DEF TypeOK, WorldOK

\* A kernel that passed the sweep stays one.
LEMMA PassedStays ==
    ASSUME TypeOK, SizesStay, QualitiesStay, TuningAssumption,
           NEW b \in BPB, NEW d, Passed(b, d)
    PROVE  Passed(b, d)'
<1>1. d \in Dim  BY CandidatesTyped DEF Passed
<1>2. size'[b][d] = size[b][d]  BY <1>1 DEF Passed, SizesStay
<1>3. quality'[b][d] = quality[b][d]  BY <1>1 DEF Passed, QualitiesStay
<1>. QED  BY <1>2, <1>3 DEF Passed, Candidates

\* The steps, by what they do to the loaded kernel and to the world.
LEMMA WorldStep ==
    ASSUME TuningAssumption, TuneInv, [Next]_vars
    PROVE  WorldOK' /\ SizesStay /\ QualitiesStay
<1>1. WorldOK  BY WorldTyped DEF TuneInv
<1>2. pc \in {"memo", "sweep", "acquire"} => Current \in BPB
  BY WalkTyped DEF TuneInv, TypeOK
<1>3. CASE UNCHANGED <<kernel, world>>
  BY <1>1, <1>3 DEF WorldOK, SizesStay, QualitiesStay, world
<1>4. CASE kernel' = << >> /\ UNCHANGED world
  BY <1>1, <1>4 DEF WorldOK, SizesStay, QualitiesStay, world
<1>5. ASSUME NEW b \in BPB, NEW d \in Dim, NEW z \in Sizes, Load(b, d, z),
             UNCHANGED quality
      PROVE  WorldOK' /\ SizesStay /\ QualitiesStay
  BY <1>1, <1>5, Loading DEF WorldOK, QualitiesStay
<1>6. ASSUME NEW b \in BPB, NEW d \in Dim, NEW q \in Qualities \cup {"right"},
             Load(b, d, "fits"), RunLoaded(<<b, d>>, q)
      PROVE  WorldOK' /\ SizesStay /\ QualitiesStay
  BY <1>1, <1>6, Loading, Running DEF WorldOK, Sizes
<1>7. CASE \/ ForceBlockDim \/ ProbeSuggests \/ ProbeThrows \/ MemoHit \/ SweepEmpty
           \/ ReferenceThrows \/ CandidateRejected \/ ConsiderRow \/ Pick \/ NoWinner
           \/ AcquireThrows \/ Accept \/ OverBudget \/ UNCHANGED vars
  <2>1. CASE ForceBlockDim  BY <1>3, <2>1 DEF ForceBlockDim
  <2>8. CASE ProbeSuggests  BY <1>3, <2>8 DEF ProbeSuggests
  <2>9. CASE MemoHit  BY <1>3, <2>9 DEF MemoHit
  <2>5. CASE CandidateRejected  BY <1>3, <2>5 DEF CandidateRejected
  <2>6. CASE Pick  BY <1>3, <2>6 DEF Pick
  <2>10. CASE ConsiderRow  BY <1>3, <2>10 DEF ConsiderRow
  <2>7. CASE Accept  BY <1>3, <2>7 DEF Accept
  <2>2. CASE ProbeThrows \/ SweepEmpty \/ ReferenceThrows
    BY <1>3, <2>2 DEF ProbeThrows, SweepEmpty, ReferenceThrows
  <2>3. CASE NoWinner \/ AcquireThrows \/ OverBudget
    BY <1>3, <2>3 DEF NoWinner, AcquireThrows, OverBudget
  <2>4. CASE UNCHANGED vars  BY <1>3, <2>4 DEF vars
  <2>. QED  BY <1>7, <2>1, <2>2, <2>3, <2>4, <2>5, <2>6, <2>7, <2>8, <2>9, <2>10
<1>8. CASE Construct \/ Leave  BY <1>4, <1>8 DEF Construct, Leave
<1>9. CASE SweepBegin
  <2>1. Current \in BPB /\ Suggest[Current] \in Dim
    BY <1>2, <1>9, CandidatesTyped DEF SweepBegin, Goto
  <2>2. /\ Load(Current, Suggest[Current], "fits")
        /\ RunLoaded(<<Current, Suggest[Current]>>, "right")
    BY <1>9 DEF SweepBegin
  <2>. QED  BY <1>6, <2>1, <2>2
<1>10. CASE ReferenceOver
  <2>1. Current \in BPB /\ Suggest[Current] \in Dim
    BY <1>2, <1>10, CandidatesTyped DEF ReferenceOver, TurnDown, Goto
  <2>2. Load(Current, Suggest[Current], "over") /\ UNCHANGED quality
    BY <1>10 DEF ReferenceOver
  <2>. QED  BY <1>5, <2>1, <2>2 DEF Sizes
<1>11. CASE CandidateOver \/ CandidateThrows
  <2>1. pc = "sweep" /\ left # {}
    BY <1>11 DEF CandidateOver, NextCandidate, CandidateThrows, TurnDown, Goto
  <2>2. Current \in BPB /\ Cand \in Dim
    BY <1>2, <2>1, CandLeft DEF TuneInv, StageInv
  <2>3. /\ Load(Current, Cand, "over") \/ Load(Current, Cand, "fits")
        /\ UNCHANGED quality
    BY <1>11 DEF CandidateOver, CandidateThrows
  <2>. QED  BY <1>5, <2>2, <2>3 DEF Sizes
<1>12. CASE CandidateMeasured
  <2>1. pc = "sweep" /\ left # {}  BY <1>12 DEF CandidateMeasured, NextCandidate
  <2>2. Current \in BPB /\ Cand \in Dim
    BY <1>2, <2>1, CandLeft DEF TuneInv, StageInv
  <2>3. Load(Current, Cand, "fits") /\ kernel' = <<Current, Cand>>
    BY <1>12 DEF CandidateMeasured, Load
  <2>4. PICK q \in Qualities : RunLoaded(kernel', q)
    BY <1>12 DEF CandidateMeasured
  <2>. QED  BY <1>6, <2>2, <2>3, <2>4
<1>13. CASE Acquire
  <2>1. Current \in BPB /\ chosen \in Dim
    BY <1>2, <1>13 DEF Acquire, Goto, TuneInv, StageInv, Selected
  <2>2. PICK z \in Sizes : Load(Current, chosen, z)  BY <1>13 DEF Acquire
  <2>3. UNCHANGED quality  BY <1>13 DEF Acquire
  <2>. QED  BY <1>5, <2>1, <2>2, <2>3
<1>. QED
  BY <1>7, <1>8, <1>9, <1>10, <1>11, <1>12, <1>13 DEF Next, Sweeping

-----------------------------------------------------------------------------
\* The steps preserve the invariant.

\* What MemoInv says survives a step that leaves the memo alone.
LEMMA MemoKept ==
    ASSUME TuningAssumption, TuneInv, SizesStay, QualitiesStay, UNCHANGED memo
    PROVE  MemoInv'
BY PassedStays DEF TuneInv, MemoInv

\* The rows of the table.
Rows == [dim : Dim, of : {NotRun} \cup (BPB \X Dim), correct : BOOLEAN, mps : Speeds \cup {0}]

\* The table and the loop over it, as TypeOK has them.
TableTyped == /\ left \subseteq Dim
              /\ sweep \in Seq(Rows)
              /\ next \in 1 .. Len(sweep) + 1
              /\ winner \in {Nobody} \cup [dim : Dim, mps : Speeds \cup {0}]
              /\ output \in Qualities \cup {"right", "?"}

\* Block dimensions are numbers.
LEMMA DimsAreNumbers ==
    ASSUME TuningAssumption
    PROVE  Dim \subseteq Nat
<1>1. ForcedDim \in Nat  BY DEF TuningAssumption
<1>2. \A b \in BPB : Suggest[b] \in Nat /\ Candidates(b) \subseteq Nat  BY CandidatesTyped
<1>. QED  BY <1>1, <1>2 DEF Dim

\* What TypeOK says of the table.
LEMMA TableIsTyped == TypeOK => TableTyped
BY DEF TypeOK, TableTyped, Rows

\* The rows of the table, one by one.
LEMMA RowTyped ==
    ASSUME TuningAssumption, TableTyped
    PROVE  /\ Len(sweep) \in Nat /\ DOMAIN sweep = 1 .. Len(sweep)
           /\ \A i \in DOMAIN sweep : /\ sweep[i] \in Rows
                                      /\ sweep[i].dim \in Nat /\ sweep[i].mps \in Nat
<1>1. sweep \in Seq(Rows)  BY DEF TableTyped
<1>2. /\ Len(sweep) \in Nat /\ DOMAIN sweep = 1 .. Len(sweep)
      /\ sweep \in [1 .. Len(sweep) -> Rows]
  BY <1>1, LenProperties
<1>3. ASSUME NEW r \in Rows  PROVE r.dim \in Nat /\ r.mps \in Nat
  <2>1. r.dim \in Dim /\ r.mps \in Speeds \cup {0}  BY DEF Rows
  <2>2. \A d \in Dim : d \in Nat  BY DimsAreNumbers
  <2>3. \A v \in Speeds \cup {0} : v \in Nat  BY DEF TuningAssumption
  <2>4. r.dim \in Nat  BY <2>1, <2>2, Zenon
  <2>5. r.mps \in Nat  BY <2>1, <2>3, Zenon
  <2>. QED  BY <2>4, <2>5
<1>. QED  BY <1>2, <1>3

\* A step that leaves no table.
LEMMA NoTable ==
    ASSUME sweep' = << >>, next' = 1, winner' = Nobody
    PROVE  TableInv' /\ sweep' \in Seq(Rows) /\ Len(sweep') = 0
<1>1. sweep' \in Seq(Rows) /\ Len(sweep') = 0  BY EmptySeq
<1>2. DOMAIN sweep' = {}  BY <1>1, LenProperties
<1>. QED  BY <1>1, <1>2 DEF TableInv, RowsInv, Ascending, LoopInv

\* A construction is turned down.
LEMMA TurnDownKeeps ==
    ASSUME TuningAssumption, TuneInv, WorldOK', SizesStay, QualitiesStay,
           NEW from \in {"try", "memo", "sweep", "acquire", "check"}, TurnDown(from)
    PROVE  TuneInv'
<1>1. /\ pc = from /\ pc' \in {"try", "throw"}
      /\ Tail(todo) = << >> <=> pc' = "throw"
      /\ todo' = Tail(todo) /\ left' = {} /\ sweep' = << >>
      /\ next' = 1 /\ winner' = Nobody /\ output' = "?"
      /\ UNCHANGED <<builds, mode, chosen, sweepRan, bpbField, memo>>
  BY DEF TurnDown, Goto, field, SweepEnds
<1>2. Tail(todo) \in Seq(BPB)  BY <1>1, WalkTyped DEF TuneInv, TypeOK
<1>3. TableInv' /\ TableTyped'  BY <1>1, NoTable DEF TableTyped
<1>4. TypeOK'  BY <1>1, <1>2, <1>3 DEF TuneInv, TypeOK, WorldOK, TableTyped, Rows
<1>5. StageInv'  BY <1>1 DEF StageInv
<1>. QED  BY <1>1, <1>3, <1>4, <1>5, MemoKept DEF TuneInv

\* A construction goes on to acquire the module it selected.
LEMMA SelectionKeeps ==
    ASSUME TuningAssumption, TuneInv, WorldOK', SizesStay, QualitiesStay,
           pc' = "acquire", chosen' \in Dim, sweepRan' \in BOOLEAN, MemoInv',
           pc \in {"try", "memo", "sweep"}, left' = {}, sweep' = << >>,
           next' = 1, winner' = Nobody, output' \in {output, "?"},
           memo' \in [BPB -> Dim \cup {0}],
           mode = "Suggested" => chosen' = Suggest[Current],
           mode = "Autotune" => chosen' = memo'[Current],
           UNCHANGED <<builds, mode, todo, bpbField>>
    PROVE  TuneInv'
<1>1. sweep' \in Seq(Rows) /\ Len(sweep') = 0  BY NoTable
<1>2. TypeOK'  BY <1>1 DEF TuneInv, TypeOK, WorldOK, Rows
<1>3. StageInv'  BY DEF StageInv, Selected, Current
<1>. QED  BY <1>2, <1>3, NoTable DEF TuneInv

\* The sweep goes on.
LEMMA SweepKeeps ==
    ASSUME TuningAssumption, TuneInv, WorldOK', SizesStay, QualitiesStay,
           pc \in {"memo", "sweep"}, pc' = "sweep",
           left' \subseteq Candidates(Current), TableTyped', TableInv',
           left' # {} => next' = 1 /\ winner' = Nobody,
           UNCHANGED <<builds, mode, todo, field, memo>>
    PROVE  TuneInv'
<1>1. UNCHANGED <<chosen, sweepRan, bpbField, Current>>  BY DEF field, Current
<1>2. TypeOK'  BY <1>1 DEF TuneInv, TypeOK, WorldOK, TableTyped, Rows
<1>3. StageInv'  BY <1>1 DEF TuneInv, StageInv
<1>. QED  BY <1>2, <1>3, MemoKept DEF TuneInv

\* A row of the table stays right while the sweep goes on.
LEMMA RowsKept ==
    ASSUME TuningAssumption, TuneInv, SizesStay, QualitiesStay,
           pc \in {"memo", "sweep"}, UNCHANGED todo,
           NEW i \in DOMAIN sweep, NEW r, r = sweep[i]
    PROVE  RowOK(Current, r)'
<1>1. Current \in BPB /\ Current' = Current  BY WalkTyped DEF TuneInv, TypeOK, Current
<1>2. RowOK(Current, r)  BY DEF TuneInv, TableInv, RowsInv
<1>3. PICK b \in BPB : b = Current  BY <1>1
<1>4. PICK d : d = r.dim  OBVIOUS
<1>5. Passed(b, d) => Passed(b, d)'  BY PassedStays DEF TuneInv
<1>6. RowOK(b, r) => RowOK(b, r)'  BY <1>4, <1>5 DEF RowOK, Passed
<1>. QED  BY <1>1, <1>2, <1>3, <1>6 DEF RowOK, Passed

\* A row is added to the table.
LEMMA RowAdded ==
    ASSUME TuningAssumption, TuneInv, WorldOK', SizesStay, QualitiesStay,
           NextCandidate, output' \in Qualities \cup {"right", "?"},
           NEW row \in Rows, row.dim = Cand, RowOK(Current, row)',
           sweep' = Append(sweep, row)
    PROVE  TuneInv'
<1>1. /\ pc = "sweep" /\ pc' = "sweep" /\ left # {} /\ left' = left \ {Cand}
      /\ UNCHANGED <<builds, mode, todo, next, winner, field, memo>>
  BY DEF NextCandidate
<1>2. Current \in BPB /\ left \subseteq Candidates(Current) /\ next = 1 /\ winner = Nobody
  BY <1>1, WalkTyped DEF TuneInv, TypeOK, StageInv
<1>3. Cand \in left /\ Cand \in Nat /\ left \subseteq Nat /\ \A c \in left : Cand <= c
  <2>1. left \subseteq Nat  BY <1>2, CandidatesTyped
  <2>. QED  BY <1>1, <2>1, MinInSet DEF Cand
<1>4. TableTyped  BY TableIsTyped DEF TuneInv
<1>5. /\ Len(sweep) \in Nat /\ DOMAIN sweep = 1 .. Len(sweep)
      /\ \A i \in DOMAIN sweep : /\ sweep[i] \in Rows
                                 /\ sweep[i].dim \in Nat /\ sweep[i].mps \in Nat
  BY <1>4, RowTyped
<1>6. /\ sweep' \in Seq(Rows) /\ Len(sweep') = Len(sweep) + 1
      /\ \A i \in 1 .. Len(sweep) : sweep'[i] = sweep[i]
      /\ sweep'[Len(sweep) + 1] = row
  <2>1. sweep \in Seq(Rows)  BY <1>4 DEF TableTyped
  <2>. QED  BY <2>1, AppendProperties
<1>7. DOMAIN sweep' = 1 .. Len(sweep) + 1  BY <1>6, LenProperties
<1>8. left' \subseteq Dim  BY <1>1, <1>4 DEF TableTyped
<1>9. TableTyped'
  <2>1. next' \in 1 .. Len(sweep') + 1  BY <1>1, <1>2, <1>5, <1>6
  <2>. QED  BY <1>1, <1>2, <1>6, <1>8, <2>1 DEF TableTyped
<1>10. RowsInv'
  <2>1. ASSUME NEW i \in DOMAIN sweep', NEW r, r = sweep'[i]  PROVE RowOK(Current, r)'
    <3>1. CASE i \in DOMAIN sweep
      <4>1. r = sweep[i]  BY <1>5, <1>6, <2>1, <3>1
      <4>. QED  BY <1>1, <3>1, <4>1, RowsKept
    <3>2. CASE i = Len(sweep) + 1
      <4>1. r = row  BY <1>6, <2>1, <3>2
      <4>. QED  BY <4>1 DEF RowOK, Passed
    <3>. QED  BY <1>5, <1>7, <2>1, <3>1, <3>2
  <2>2. ASSUME NEW i \in DOMAIN sweep'  PROVE RowOK(Current, sweep[i])'
    <3>1. PICK r : r = sweep'[i]  OBVIOUS
    <3>2. RowOK(Current, r)'  BY <2>1, <2>2, <3>1
    <3>. QED  BY <3>1, <3>2 DEF RowOK, Passed
  <2>. QED  BY <2>2 DEF RowsInv
<1>11. Ascending'
  <2>1. \A i \in DOMAIN sweep : sweep[i].dim < Cand
    BY <1>3 DEF TuneInv, TableInv, Ascending
  <2>2. ASSUME NEW i \in DOMAIN sweep', NEW j \in DOMAIN sweep', i < j
        PROVE  sweep'[i].dim < sweep'[j].dim
    <3>1. i \in DOMAIN sweep /\ sweep'[i] = sweep[i]  BY <1>5, <1>6, <1>7, <2>2
    <3>2. CASE j \in DOMAIN sweep
      BY <1>5, <1>6, <2>2, <3>1, <3>2 DEF TuneInv, TableInv, Ascending
    <3>3. CASE j = Len(sweep) + 1  BY <1>6, <2>1, <3>1, <3>3
    <3>. QED  BY <1>5, <1>7, <3>2, <3>3
  <2>3. ASSUME NEW i \in DOMAIN sweep', NEW c \in left'
        PROVE  sweep'[i].dim < c
    <3>1. Cand < c /\ c \in left  BY <1>1, <1>3
    <3>2. CASE i \in DOMAIN sweep
      BY <1>5, <1>6, <3>1, <3>2 DEF TuneInv, TableInv, Ascending
    <3>3. CASE i = Len(sweep) + 1  BY <1>6, <3>1, <3>3
    <3>. QED  BY <1>5, <1>7, <3>2, <3>3
  <2>. QED  BY <2>2, <2>3 DEF Ascending
<1>12. LoopInv'
  <2>1. \A i \in DOMAIN sweep' : ~(i < next')  BY <1>1, <1>2, <1>5, <1>7
  <2>. QED  BY <1>1, <1>2, <2>1 DEF LoopInv
<1>. QED
  BY <1>1, <1>2, <1>9, <1>10, <1>11, <1>12, SweepKeeps DEF TableInv

\* One turn of the loop: the row in turn is larger than those before it, so a tie
\* stays with the winner.
LEMMA ConsiderKeeps ==
    ASSUME TuningAssumption, TuneInv, WorldOK', SizesStay, QualitiesStay, ConsiderRow
    PROVE  TuneInv'
<1>1. /\ pc = "sweep" /\ pc' = "sweep" /\ left = {} /\ left' = {}
      /\ next <= Len(sweep) /\ next' = next + 1
      /\ UNCHANGED <<builds, mode, todo, sweep, output, field, memo>>
  BY DEF ConsiderRow
<1>2. TableTyped  BY TableIsTyped DEF TuneInv
<1>3. /\ Len(sweep) \in Nat /\ DOMAIN sweep = 1 .. Len(sweep)
      /\ \A i \in DOMAIN sweep : /\ sweep[i] \in Rows
                                 /\ sweep[i].dim \in Nat /\ sweep[i].mps \in Nat
  BY <1>2, RowTyped
<1>4. next \in DOMAIN sweep /\ next \in Nat /\ next \in Int  BY <1>1, <1>2, <1>3 DEF TableTyped
<1>5. RowsInv'  BY <1>1, RowsKept DEF RowsInv
<1>6. Ascending'  BY <1>1 DEF TuneInv, TableInv, Ascending
<1>. DEFINE row == sweep[next]
<1>7. /\ Beats(row) => winner' = [dim |-> row.dim, mps |-> row.mps]
      /\ ~Beats(row) => winner' = winner
  BY DEF ConsiderRow
<1>8. row \in Rows /\ row.dim \in Nat /\ row.mps \in Nat  BY <1>3, <1>4
<1>9. TableTyped'
  <2>1. winner' \in {Nobody} \cup [dim : Dim, mps : Speeds \cup {0}]
    BY <1>2, <1>7, <1>8 DEF TableTyped, Rows
  <2>2. next' \in 1 .. Len(sweep') + 1  BY <1>1, <1>3, <1>4
  <2>. QED  BY <1>1, <1>2, <2>1, <2>2 DEF TableTyped
<1>10. \A i \in DOMAIN sweep : i < next' <=> i < next \/ i = next  BY <1>1, <1>3, <1>4
<1>11. \A i \in DOMAIN sweep : i < next => sweep[i].dim < row.dim
  BY <1>4 DEF TuneInv, TableInv, Ascending
<1>. HIDE DEF row
<1>12. LoopInv'
  <2>1. CASE winner = Nobody /\ \A i \in DOMAIN sweep : i < next => ~sweep[i].correct
    <3>1. CASE row.correct
      <4>1. Beats(row)  BY <1>8, <2>1, <3>1 DEF Beats, Nobody
      <4>2. winner'.dim = row.dim /\ winner'.mps = row.mps  BY <1>7, <4>1
      <4>3. \A i \in DOMAIN sweep : i < next' /\ sweep[i].correct => sweep[i] = row
        BY <1>10, <2>1 DEF row
      <4>4. NoBetter(row, row)  BY <1>8 DEF NoBetter
      <4>5. PICK j \in DOMAIN sweep : j = next /\ sweep[j] = row  BY <1>4 DEF row
      <4>6. j < next'  BY <1>1, <1>4, <4>5
      <4>7. Leads(j)'  BY <1>1, <3>1, <4>2, <4>3, <4>4, <4>5, <4>6 DEF Leads, NoBetter
      <4>. QED  BY <1>1, <4>7 DEF LoopInv
    <3>2. CASE ~row.correct
      <4>1. winner' = Nobody  BY <1>7, <2>1, <3>2 DEF Beats
      <4>2. \A i \in DOMAIN sweep : i < next' => ~sweep[i].correct
        BY <1>10, <2>1, <3>2 DEF row
      <4>. QED  BY <1>1, <4>1, <4>2 DEF LoopInv
    <3>. QED  BY <3>1, <3>2
  <2>2. CASE \E j \in DOMAIN sweep : Leads(j)
    <3>1. PICK j \in DOMAIN sweep : Leads(j)  BY <2>2
    <3>2. PICK w : w = sweep[j]  OBVIOUS
    <3>3. /\ w.dim \in Nat /\ w.mps \in Nat /\ w.correct
          /\ winner.dim = w.dim /\ winner.mps = w.mps /\ w.dim < row.dim
      BY <1>3, <1>11, <3>1, <3>2 DEF Leads
    <3>4. \A i \in DOMAIN sweep : i < next /\ sweep[i].correct => NoBetter(sweep[i], w)
      BY <3>1, <3>2 DEF Leads
    <3>5. CASE Beats(row)
      <4>1. row.correct /\ w.mps < row.mps  BY <1>8, <3>3, <3>5 DEF Beats
      <4>2. ASSUME NEW i \in DOMAIN sweep, i < next', sweep[i].correct
            PROVE  NoBetter(sweep[i], row)
        <5>1. PICK r : r = sweep[i] /\ r.mps \in Nat /\ r.dim \in Nat  BY <1>3
        <5>2. CASE i < next
          <6>1. NoBetter(r, w)  BY <3>4, <4>2, <5>1, <5>2
          <6>2. r.mps < row.mps  BY <1>8, <3>3, <4>1, <5>1, <6>1 DEF NoBetter
          <6>. QED  BY <5>1, <6>2 DEF NoBetter
        <5>3. CASE i = next  BY <1>8, <5>3 DEF NoBetter, row
        <5>. QED  BY <1>10, <4>2, <5>2, <5>3
      <4>3. winner'.dim = row.dim /\ winner'.mps = row.mps  BY <1>7, <3>5
      <4>4. PICK n \in DOMAIN sweep : n = next /\ sweep[n] = row  BY <1>4 DEF row
      <4>5. n < next'  BY <1>1, <1>4, <4>4
      <4>6. Leads(n)'  BY <1>1, <4>1, <4>2, <4>3, <4>4, <4>5 DEF Leads, NoBetter
      <4>. QED  BY <1>1, <4>6 DEF LoopInv
    <3>6. CASE ~Beats(row)
      <4>1. row.correct => NoBetter(row, w)
        BY <1>8, <3>3, <3>6 DEF Beats, NoBetter
      <4>2. \A i \in DOMAIN sweep : i < next' /\ sweep[i].correct => NoBetter(sweep[i], w)
        BY <1>10, <3>4, <4>1 DEF row
      <4>3. winner' = winner  BY <1>7, <3>6
      <4>4. j < next'  BY <1>1, <1>3, <1>4, <3>1 DEF Leads
      <4>5. Leads(j)'
        BY <1>1, <3>2, <3>3, <4>2, <4>3, <4>4 DEF Leads, NoBetter
      <4>. QED  BY <1>1, <4>5 DEF LoopInv, Leads
    <3>. QED  BY <3>5, <3>6
  <2>. QED  BY <2>1, <2>2 DEF TuneInv, TableInv, LoopInv
<1>13. left' \subseteq Candidates(Current)  BY <1>1
<1>. QED
  BY <1>1, <1>5, <1>6, <1>9, <1>12, <1>13, SweepKeeps DEF TableInv

\* The invariant holds before the first construction.
LEMMA TuneInit == TuningAssumption /\ Init => TuneInv
<1>. SUFFICES ASSUME TuningAssumption, Init PROVE TuneInv
  OBVIOUS
<1>1. TypeOK
  <2>1. /\ pc = "idle" /\ builds = 0 /\ mode = "Suggested" /\ todo = << >>
        /\ chosen = 0 /\ kernel = << >> /\ left = {} /\ sweep = << >>
        /\ next = 1 /\ winner = Nobody /\ output = "?" /\ sweepRan = FALSE /\ bpbField = 0
    BY DEF Init
  <2>2. /\ memo \in [BPB -> Dim \cup {0}]
        /\ size \in [BPB -> [Dim -> Sizes \cup {"?"}]]
        /\ quality \in [BPB -> [Dim -> Qualities \cup {"right", "?"}]]
    BY DEF Init
  <2>3. builds \in 0 .. MaxBuilds  BY <2>1 DEF TuningAssumption
  <2>4. sweep \in Seq(Rows) /\ Len(sweep) = 0  BY <2>1, EmptySeq
  <2>5. TableTyped  BY <2>1, <2>4 DEF TableTyped
  <2>6. sweep \in Seq([dim : Dim, of : {NotRun} \cup (BPB \X Dim), correct : BOOLEAN,
                       mps : Speeds \cup {0}])
    BY <2>4 DEF Rows
  <2>7. todo \in Seq(BPB)  BY <2>1, EmptySeq
  <2>. QED  BY <2>1, <2>2, <2>3, <2>5, <2>6, <2>7 DEF TypeOK, TableTyped
<1>2. StageInv  BY DEF Init, StageInv
<1>4. TableInv
  <2>1. sweep = << >> /\ sweep \in Seq({}) /\ Len(sweep) = 0  BY EmptySeq DEF Init
  <2>2. DOMAIN sweep = {}  BY <2>1, LenProperties
  <2>. QED  BY <2>2 DEF Init, TableInv, RowsInv, Ascending, LoopInv
<1>3. MemoInv  BY DEF Init, MemoInv
<1>. QED  BY <1>1, <1>2, <1>3, <1>4 DEF TuneInv

\* Every step of a constructor, and every decision of compiler and device, preserves
\* the invariant.
LEMMA TuneStep ==
    ASSUME TuningAssumption, TuneInv, [Next]_vars
    PROVE  TuneInv'
<1>1. WorldOK' /\ SizesStay /\ QualitiesStay  BY WorldStep
<1>2. /\ memo \in [BPB -> Dim \cup {0}]
      /\ pc # "sweep" => left = {} /\ sweep = << >> /\ next = 1 /\ winner = Nobody
      /\ pc = "sweep" => left \subseteq Candidates(Current)
      /\ pc \in {"memo", "sweep"} => mode = "Autotune"
      /\ pc \in {"memo", "sweep", "acquire", "check"} => Current \in BPB
      /\ output \in Qualities \cup {"right", "?"}
  BY WalkTyped DEF TuneInv, TypeOK, StageInv
<1>16. UNCHANGED local =>
         UNCHANGED left /\ UNCHANGED sweep /\ UNCHANGED next /\ UNCHANGED winner /\ UNCHANGED output
  BY DEF local
<1>17. TableTyped  BY TableIsTyped DEF TuneInv
<1>3. CASE Construct
  <2>1. PICK r \in Requests, m \in Modes :
           /\ pc' = "try" /\ builds < MaxBuilds /\ builds' = builds + 1
           /\ mode' = m /\ todo' = r
           /\ chosen' = 0 /\ sweepRan' = FALSE /\ bpbField' = 0
           /\ pc = "idle"
           /\ UNCHANGED <<left, sweep, next, winner, output, memo>>
    BY <1>3, <1>16 DEF Construct, Goto
  <2>2. m \in {"Suggested", "Autotune", "Forced"}  BY DEF TuningAssumption
  <2>3. builds' \in 0 .. MaxBuilds  BY <2>1 DEF TuneInv, TypeOK, TuningAssumption
  <2>4. TypeOK'  BY <1>1, <2>1, <2>2, <2>3, RequestTyped DEF TuneInv, TypeOK, WorldOK
  <2>5. StageInv' /\ TableInv'  BY <1>2, <2>1, NoTable DEF StageInv
  <2>. QED  BY <1>1, <2>1, <2>4, <2>5, MemoKept DEF TuneInv
<1>4. CASE ProbeThrows \/ SweepEmpty \/ ReferenceOver \/ ReferenceThrows
           \/ CandidateThrows \/ NoWinner \/ AcquireThrows \/ OverBudget
  <2>1. PICK from \in {"try", "memo", "sweep", "acquire", "check"} : TurnDown(from)
    BY <1>4 DEF ProbeThrows, SweepEmpty, ReferenceOver, ReferenceThrows,
       CandidateThrows, NoWinner, AcquireThrows, OverBudget
  <2>. QED  BY <1>1, <2>1, TurnDownKeeps
<1>5. CASE ForceBlockDim
  <2>1. /\ pc = "try" /\ pc' = "acquire" /\ mode = "Forced" /\ chosen' = ForcedDim
        /\ UNCHANGED <<builds, mode, todo, left, sweep, next, winner, output, sweepRan,
                       bpbField, memo>>
    BY <1>5, <1>16 DEF ForceBlockDim, Goto
  <2>2. ForcedDim \in Dim /\ sweepRan \in BOOLEAN  BY DEF Dim, TuneInv, TypeOK
  <2>3. MemoInv'  BY <1>1, <2>1, MemoKept
  <2>. QED  BY <1>1, <1>2, <2>1, <2>2, <2>3, SelectionKeeps
<1>6. CASE ProbeSuggests
  <2>1. /\ pc = "try" /\ pc' = IF mode = "Suggested" THEN "acquire" ELSE "memo"
        /\ mode # "Forced" /\ chosen' = Suggest[Current]
        /\ UNCHANGED <<builds, mode, todo, left, sweep, next, winner, output, sweepRan,
                       bpbField, memo>>
    BY <1>6, <1>16 DEF ProbeSuggests, Goto
  <2>2. Current \in BPB /\ Suggest[Current] \in Dim /\ sweepRan \in BOOLEAN
    BY <2>1, WalkTyped, CandidatesTyped DEF TuneInv, TypeOK
  <2>3. MemoInv'  BY <1>1, <2>1, MemoKept
  <2>4. CASE mode = "Suggested"
    BY <1>1, <1>2, <2>1, <2>2, <2>3, <2>4, SelectionKeeps
  <2>5. CASE mode # "Suggested"
    <3>1. mode = "Autotune"  BY <2>1, <2>5 DEF TuneInv, TypeOK
    <3>2. TypeOK'  BY <1>1, <2>1, <2>2, <2>5 DEF TuneInv, TypeOK, WorldOK
    <3>3. StageInv'  BY <1>2, <2>1, <2>5, <3>1 DEF StageInv
    <3>4. TableInv'  BY <1>2, <2>1, NoTable
    <3>. QED  BY <2>3, <3>2, <3>3, <3>4 DEF TuneInv
  <2>. QED  BY <2>4, <2>5
<1>7. CASE MemoHit
  <2>1. /\ pc = "memo" /\ pc' = "acquire" /\ memo[Current] # 0
        /\ chosen' = memo[Current] /\ sweepRan' = FALSE
        /\ UNCHANGED <<builds, mode, todo, left, sweep, next, winner, output, bpbField, memo>>
    BY <1>7, <1>16 DEF MemoHit, Goto
  <2>2. chosen' \in Dim /\ mode = "Autotune"  BY <1>2, <2>1
  <2>3. MemoInv'  BY <1>1, <2>1, MemoKept
  <2>. QED  BY <1>1, <1>2, <2>1, <2>2, <2>3, SelectionKeeps
<1>8. CASE SweepBegin
  <2>1. /\ pc = "memo" /\ pc' = "sweep" /\ left' = Candidates(Current)
        /\ UNCHANGED <<builds, mode, todo, sweep, next, winner, field, memo>>
        /\ output' = "right"
    BY <1>8 DEF SweepBegin, Goto, RunLoaded
  <2>2. TableInv' /\ sweep' \in Seq(Rows) /\ Len(sweep') = 0  BY <1>2, <2>1, NoTable
  <2>3. left' \subseteq Dim  BY <1>2, <2>1, CandidatesTyped
  <2>4. TableTyped'  BY <1>2, <2>1, <2>2, <2>3 DEF TableTyped
  <2>. QED  BY <1>1, <1>2, <2>1, <2>2, <2>4, SweepKeeps
<1>9. CASE CandidateRejected \/ CandidateOver
  <2>1. NextCandidate /\ Row(NotRun, FALSE, 0) /\ output' = output
    BY <1>9 DEF CandidateRejected, CandidateOver
  <2>2. Cand \in Dim  BY <1>2, <2>1, CandLeft DEF NextCandidate
  <2>3. PICK row : row = [dim |-> Cand, of |-> NotRun, correct |-> FALSE, mps |-> 0]
    OBVIOUS
  <2>4. row \in Rows /\ row.dim = Cand /\ row.of = NotRun /\ ~row.correct
    BY <2>2, <2>3 DEF Rows
  <2>5. RowOK(Current, row)'  BY <2>4 DEF RowOK
  <2>6. sweep' = Append(sweep, row)  BY <2>1, <2>3 DEF Row
  <2>. QED  BY <1>1, <1>2, <2>1, <2>4, <2>5, <2>6, RowAdded
<1>10. CASE CandidateMeasured
  <2>1. NextCandidate /\ Load(Current, Cand, "fits") /\ kernel' = <<Current, Cand>>
    BY <1>10 DEF CandidateMeasured, Load
  <2>2. PICK q \in Qualities, v \in Speeds :
           RunLoaded(kernel', q) /\ Row(kernel', Validates(output'), v)
    BY <1>10 DEF CandidateMeasured
  <2>3. Current \in BPB /\ Cand \in Candidates(Current) /\ Cand \in Dim
    BY <1>2, <2>1, CandLeft DEF NextCandidate
  <2>4. size'[Current][Cand] = "fits"
    BY <2>1, <2>3, WorldTyped, Loading DEF TuneInv, Sizes
  <2>5. quality'[Current][Cand] = q
    BY <2>1, <2>2, <2>3, WorldTyped, Running DEF TuneInv
  <2>6. PICK b \in BPB, d \in Dim : b = Current /\ d = Cand  BY <2>3
  <2>7. Current' = b  BY <2>1, <2>6 DEF NextCandidate, Current
  <2>8. output' \in {output, q}  BY <2>2 DEF RunLoaded
  <2>9. Validates(output') => q \notin {"wrong", "?"}
    <3>1. output' = IF q = "silent" THEN output ELSE q  BY <2>2 DEF RunLoaded
    <3>. QED  BY <3>1 DEF Validates, Unseen
  <2>10. Validates(output') => Passed(b, d)'
    <3>1. d \in Candidates(b) /\ size'[b][d] = "fits" /\ quality'[b][d] = q
      BY <2>3, <2>4, <2>5, <2>6
    <3>. QED  BY <2>9, <3>1 DEF Passed, Candidates
  <2>11. PICK row : row = [dim |-> d, of |-> <<b, d>>, correct |-> Validates(output'), mps |-> v]
    OBVIOUS
  <2>12. row \in Rows /\ row.dim = d /\ row.of = <<b, d>> /\ row.correct = Validates(output')
    <3>1. Validates(output') \in BOOLEAN  BY DEF Validates
    <3>. QED  BY <2>11, <3>1 DEF Rows
  <2>13. RowOK(Current, row)'
    <3>1. row.correct => Passed(b, row.dim)'  BY <2>10, <2>12
    <3>. QED  BY <2>7, <2>12, <3>1 DEF RowOK, Passed
  <2>14. sweep' = Append(sweep, row)  BY <2>1, <2>2, <2>6, <2>11 DEF Row
  <2>. QED  BY <1>1, <1>2, <2>1, <2>6, <2>8, <2>12, <2>13, <2>14, RowAdded
<1>18. CASE ConsiderRow  BY <1>1, <1>18, ConsiderKeeps
<1>11. CASE Pick
  <2>1. /\ pc = "sweep" /\ pc' = "acquire" /\ left' = {} /\ sweep' = << >> /\ sweepRan' = TRUE
        /\ next' = 1 /\ winner' = Nobody /\ output' = "?"
        /\ chosen' = winner.dim /\ winner.dim >= 0
        /\ memo' = [memo EXCEPT ![Current] = winner.dim]
        /\ UNCHANGED <<builds, mode, todo, bpbField>>
    BY <1>11 DEF Pick, Goto, SweepEnds
  <2>2. PICK d : d = winner.dim  OBVIOUS
  <2>3. Passed(Current, d) /\ d \in Dim
    <3>1. winner # Nobody  BY <2>1 DEF Nobody
    <3>2. PICK j \in DOMAIN sweep : Leads(j)  BY <3>1 DEF TuneInv, TableInv, LoopInv
    <3>3. sweep[j].correct /\ d = sweep[j].dim  BY <2>2, <3>2 DEF Leads
    <3>4. RowOK(Current, sweep[j])  BY DEF TuneInv, TableInv, RowsInv
    <3>5. sweep[j] \in Rows  BY <1>17, RowTyped
    <3>. QED  BY <3>3, <3>4, <3>5 DEF RowOK, Rows
  <2>4. memo' \in [BPB -> Dim \cup {0}] /\ memo'[Current] = d
    BY <1>2, <2>1, <2>2, <2>3
  <2>5. \A b \in BPB : memo'[b] # 0 => Passed(b, memo'[b])
    BY <1>2, <2>1, <2>2, <2>3 DEF TuneInv, MemoInv
  <2>6. MemoInv'
    <3>1. ASSUME NEW b \in BPB, memo'[b] # 0 PROVE Passed(b, memo[b])'
      <4>1. PICK e : e = memo'[b]  OBVIOUS
      <4>2. Passed(b, e)'  BY <1>1, <2>5, <3>1, <4>1, PassedStays DEF TuneInv
      <4>. QED  BY <4>1, <4>2 DEF Passed
    <3>. QED  BY <3>1 DEF MemoInv
  <2>. QED  BY <1>1, <1>2, <2>1, <2>2, <2>3, <2>4, <2>6, SelectionKeeps
<1>12. CASE Acquire
  <2>1. /\ pc = "acquire" /\ pc' = "check"
        /\ UNCHANGED <<builds, mode, todo, left, sweep, next, winner, output, field, memo>>
    BY <1>12, <1>16 DEF Acquire, Goto
  <2>2. UNCHANGED <<chosen, sweepRan, bpbField, Current>>  BY <2>1 DEF field, Current
  <2>3. kernel' = <<Current, chosen>>  BY <1>12 DEF Acquire, Load
  <2>4. TypeOK'  BY <1>1, <2>1, <2>2 DEF TuneInv, TypeOK, WorldOK
  <2>5. Selected'  BY <2>1, <2>2 DEF TuneInv, StageInv, Selected
  <2>6. StageInv'  BY <1>2, <2>1, <2>2, <2>3, <2>5 DEF StageInv
  <2>7. TableInv'  BY <1>2, <2>1, NoTable
  <2>. QED  BY <1>1, <2>1, <2>4, <2>6, <2>7, MemoKept DEF TuneInv
<1>13. CASE Accept
  <2>1. /\ pc = "check" /\ pc' = "live" /\ bpbField' = Current /\ SizeLoaded = "fits"
        /\ UNCHANGED <<builds, mode, todo, chosen, kernel, left, sweep, next, winner, output,
                       sweepRan, memo, world>>
    BY <1>13, <1>16 DEF Accept, Goto
  <2>2. UNCHANGED Current /\ SizeLoaded' = SizeLoaded  BY <2>1 DEF Current, SizeLoaded, world
  <2>3. TypeOK'  BY <1>1, <1>2, <2>1 DEF TuneInv, TypeOK, WorldOK
  <2>4. Selected'  BY <2>1, <2>2 DEF TuneInv, StageInv, Selected
  <2>5. kernel = <<Current, chosen>>  BY <2>1 DEF TuneInv, StageInv
  <2>6. StageInv'  BY <1>2, <2>1, <2>2, <2>4, <2>5 DEF StageInv
  <2>7. TableInv'  BY <1>2, <2>1, NoTable
  <2>. QED  BY <1>1, <2>1, <2>3, <2>6, <2>7, MemoKept DEF TuneInv
<1>14. CASE Leave
  <2>1. /\ pc \in {"throw", "live"} /\ pc' = "idle" /\ todo' = << >>
        /\ UNCHANGED <<builds, mode, left, sweep, next, winner, output, field, memo>>
    BY <1>14, <1>16 DEF Leave, Goto
  <2>2. UNCHANGED <<chosen, sweepRan, bpbField>>  BY <2>1 DEF field
  <2>3. TypeOK'  BY <1>1, <2>1, <2>2, EmptySeq DEF TuneInv, TypeOK, WorldOK
  <2>4. StageInv' /\ TableInv'  BY <1>2, <2>1, NoTable DEF StageInv
  <2>. QED  BY <1>1, <2>1, <2>3, <2>4, MemoKept DEF TuneInv
<1>15. CASE UNCHANGED vars
  <2>1. UNCHANGED <<pc, builds, mode, todo, chosen, kernel, left, sweep, next, winner,
                    output, sweepRan, bpbField, memo, size, quality>>
    BY <1>15 DEF vars, local, field, world
  <2>2. TypeOK'  BY <2>1 DEF TuneInv, TypeOK
  <2>3. StageInv'
    BY <2>1 DEF TuneInv, StageInv, Selected, Current, SizeLoaded
  <2>4. RowsInv' /\ MemoInv'
    BY <2>1 DEF TuneInv, TableInv, RowsInv, RowOK, MemoInv, Passed, Current, Candidates
  <2>5. Ascending' /\ LoopInv'
    BY <2>1 DEF TuneInv, TableInv, Ascending, LoopInv, Leads, NoBetter
  <2>. QED  BY <2>2, <2>3, <2>4, <2>5 DEF TuneInv, TableInv
<1>. QED
  BY <1>3, <1>4, <1>5, <1>6, <1>7, <1>8, <1>9, <1>10, <1>11, <1>12, <1>13, <1>14, <1>15, <1>18
  DEF Next, Sweeping

-----------------------------------------------------------------------------
\* Theorems.

\* The inductive invariant holds in every reachable state.
THEOREM TuneInvariant == Spec => []TuneInv
<1>1. Init => TuneInv  BY TuneInit, TuningAssumption
<1>2. TuneInv /\ [Next]_vars => TuneInv'  BY TuneStep, TuningAssumption
<1>. QED  BY <1>1, <1>2, PTL DEF Spec

\* The state of a construction, the sweep and the memo have their types in
\* every reachable state (UnifiedGeneigSolver's constructor and autotune_block_dim_x_).
THEOREM TuneTypeCorrect == Spec => []TypeOK
<1>1. TuneInv => TypeOK  BY DEF TuneInv
<1>. QED  BY <1>1, TuneInvariant, PTL

\* Although one kernel_ and one module_ serve every candidate, each row of the
\* sweep's table was measured on the kernel it names.
THEOREM RowsCorrect == Spec => []RowsNameTheirKernel
<1>1. TuneInv => RowsNameTheirKernel  BY DEF TuneInv, TableInv, RowsInv, RowOK, RowsNameTheirKernel
<1>. QED  BY <1>1, TuneInvariant, PTL

\* What launch uses belongs together, whatever BPBs were turned down before and
\* whatever the sweep left in the fields it shares with launch.
THEOREM LaunchStateCorrect == Spec => []LaunchStateConsistent
<1>1. TuneInv => LaunchStateConsistent
  BY DEF TuneInv, StageInv, Selected, LaunchStateConsistent
<1>. QED  BY <1>1, TuneInvariant, PTL

\* A memoised block dimension stands for a kernel that ran, that fits and that no
\* comparison saw to be wrong, for every solver built later in the process
\* (autotune_cache_).
THEOREM MemoCorrect == Spec => []NoWrongMemo
<1>1. TuneInv => NoWrongMemo  BY DEF TuneInv, MemoInv, Passed, NoWrongMemo
<1>. QED  BY <1>1, TuneInvariant, PTL

\* When the loop is through, it has a winner exactly if some row is correct: a
\* sweep that throws for want of a winner had none to offer.
FoundIfAny ==
    pc = "sweep" /\ Considered =>
        (winner.dim >= 0 <=> \E i \in DOMAIN sweep : sweep[i].correct)

\* The facts of a loop that is through.
LEMMA LoopEnds ==
    ASSUME TuningAssumption, TuneInv, Considered
    PROVE  /\ \A i \in DOMAIN sweep : i < next
           /\ \A i \in DOMAIN sweep : sweep[i].dim \in Nat
<1>1. TableTyped  BY TableIsTyped DEF TuneInv
<1>2. /\ Len(sweep) \in Nat /\ DOMAIN sweep = 1 .. Len(sweep)
      /\ \A i \in DOMAIN sweep : sweep[i].dim \in Nat
  BY <1>1, RowTyped
<1>. QED  BY <1>1, <1>2 DEF TableTyped, Considered

\* A sweep that has measured a correct candidate ends with a winner, and one that has
\* not throws (unified_solver.cpp:910-914).
THEOREM WinnerFound == Spec => []FoundIfAny
<1>1. TuneInv => FoundIfAny
  <2>. SUFFICES ASSUME TuneInv, Considered
                PROVE  winner.dim >= 0 <=> \E i \in DOMAIN sweep : sweep[i].correct
    BY DEF FoundIfAny
  <2>1. /\ \A i \in DOMAIN sweep : i < next
        /\ \A i \in DOMAIN sweep : sweep[i].dim \in Nat
    BY LoopEnds, TuningAssumption
  <2>2. CASE winner = Nobody /\ \A i \in DOMAIN sweep : i < next => ~sweep[i].correct
    BY <2>1, <2>2 DEF Nobody
  <2>3. CASE \E j \in DOMAIN sweep : Leads(j)
    <3>1. PICK j \in DOMAIN sweep : Leads(j)  BY <2>3
    <3>2. PICK d \in Nat : d = winner.dim  BY <2>1, <3>1 DEF Leads
    <3>. QED  BY <3>1, <3>2 DEF Leads
  <2>. QED  BY <2>2, <2>3 DEF TuneInv, TableInv, LoopInv
<1>. QED  BY <1>1, TuneInvariant, PTL

\* What Pick memoises and launches is as fast as any correct candidate of the sweep,
\* and the smallest of those that are equally fast: the loop compares strictly, and
\* it walks the candidates in ascending order (docs/NVRTC_RUNTIME.md:110-114).
THEOREM WinnerCorrect == Spec => WinnerIsFastest
<1>1. TuneInv /\ [Next]_vars =>
         [Pick => \E i \in DOMAIN sweep :
                     /\ sweep[i].correct /\ sweep[i].dim = chosen'
                     /\ \A j \in DOMAIN sweep : sweep[j].correct =>
                           \/ sweep[j].mps < sweep[i].mps
                           \/ sweep[j].mps = sweep[i].mps /\ sweep[i].dim <= sweep[j].dim]_vars
  <2>. SUFFICES ASSUME TuneInv, Pick
                PROVE  \E i \in DOMAIN sweep :
                          /\ sweep[i].correct /\ sweep[i].dim = chosen'
                          /\ \A j \in DOMAIN sweep : sweep[j].correct =>
                                \/ sweep[j].mps < sweep[i].mps
                                \/ sweep[j].mps = sweep[i].mps /\ sweep[i].dim <= sweep[j].dim
    OBVIOUS
  <2>1. Considered /\ winner.dim >= 0 /\ chosen' = winner.dim  BY DEF Pick
  <2>2. \A i \in DOMAIN sweep : i < next  BY <2>1, LoopEnds, TuningAssumption
  <2>3. winner # Nobody  BY <2>1 DEF Nobody
  <2>4. PICK i \in DOMAIN sweep : Leads(i)  BY <2>3 DEF TuneInv, TableInv, LoopInv
  <2>5. sweep[i].correct /\ sweep[i].dim = chosen'  BY <2>1, <2>4 DEF Leads
  <2>6. \A j \in DOMAIN sweep : sweep[j].correct => NoBetter(sweep[j], sweep[i])
    BY <2>2, <2>4 DEF Leads
  <2>. QED  BY <2>5, <2>6 DEF NoBetter
<1>. QED  BY <1>1, TuneInvariant, PTL DEF Spec, WinnerIsFastest
=============================================================================
