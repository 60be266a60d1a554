-------------------------- MODULE UnifiedLaunchProofs --------------------------
(***************************************************************************)
(* Proofs about UnifiedLaunch, for every BPB, any number of streams, every *)
(* batch and chunk size that is a multiple of BPB, and any faults.         *)
(***************************************************************************)
EXTENDS UnifiedLaunch, TLAPS

-----------------------------------------------------------------------------
\* Arithmetic of multiples of BPB.

\* Quotient and remainder.
LEMMA Division ==
    ASSUME NEW n \in Nat, NEW d \in Nat, d > 0
    PROVE  n \div d \in Nat /\ n = (n \div d) * d + (n % d)
  OBVIOUS

\* A multiple of BPB is BPB times something.
LEMMA MultipleIs ==
    ASSUME NEW n \in Nat
    PROVE  MultipleOfBPB(n) <=> \E q \in Nat : n = q * BPB
<1> USE LaunchAssumption
<1>1. ASSUME MultipleOfBPB(n) PROVE \E q \in Nat : n = q * BPB
  <2>1. n \div BPB \in Nat /\ n = (n \div BPB) * BPB + (n % BPB) BY Division
  <2>2. n = (n \div BPB) * BPB BY <1>1, <2>1 DEF MultipleOfBPB
  <2>. QED BY <2>1, <2>2
<1>2. ASSUME NEW q \in Nat, n = q * BPB PROVE MultipleOfBPB(n)
  BY <1>2 DEF MultipleOfBPB
<1>. QED BY <1>1, <1>2

\* Between two multiples of BPB there is room for a tile.
LEMMA NextMultiple ==
    ASSUME NEW a \in Nat, NEW b \in Nat, a * BPB < b * BPB
    PROVE  a * BPB + BPB <= b * BPB
<1> USE LaunchAssumption
<1>1. a < b OBVIOUS
<1>. DEFINE d == b - a - 1
<1>2. d \in Nat /\ b = a + 1 + d BY <1>1
<1>3. b * BPB = a * BPB + BPB + d * BPB BY <1>2
<1>4. a * BPB \in Nat /\ b * BPB \in Nat /\ d * BPB \in Nat BY <1>2
<1>. QED BY <1>3, <1>4

\* The length of a chunk is a multiple of BPB as the sizes it is cut from are.
LEMMA DifferenceOfMultiples ==
    ASSUME NEW a \in Nat, NEW b \in Nat, MultipleOfBPB(a), MultipleOfBPB(b), b <= a
    PROVE  MultipleOfBPB(a - b)
<1> USE LaunchAssumption
<1>1. PICK q \in Nat : a = q * BPB BY MultipleIs
<1>2. PICK r \in Nat : b = r * BPB BY MultipleIs
<1>3. r <= q BY <1>1, <1>2
<1>4. q - r \in Nat /\ a - b = (q - r) * BPB BY <1>1, <1>2, <1>3
<1>. QED BY <1>4, MultipleIs

\* The loop goes on by a multiple of BPB.
LEMMA SumOfMultiples ==
    ASSUME NEW a \in Nat, NEW b \in Nat, MultipleOfBPB(a), MultipleOfBPB(b)
    PROVE  MultipleOfBPB(a + b)
<1> USE LaunchAssumption
<1>1. PICK q \in Nat : a = q * BPB BY MultipleIs
<1>2. PICK r \in Nat : b = r * BPB BY MultipleIs
<1>3. q + r \in Nat /\ a + b = (q + r) * BPB BY <1>1, <1>2
<1>. QED BY <1>3, MultipleIs

\* std::min of two numbers.
LEMMA MinOfTwo ==
    ASSUME NEW a \in Int, NEW b \in Int
    PROVE  Min({a, b}) = IF a <= b THEN a ELSE b
  BY DEF Min
-----------------------------------------------------------------------------
\* Tiles.

\* A block stays inside its kernel's matrices if those are a multiple of BPB.
LEMMA TileInKernel ==
    ASSUME NEW k \in Kernel, NEW b \in Nat, MultipleOfBPB(k.count)
    PROVE  Tile(k, b) \subseteq k.first .. k.first + k.count - 1
<1> USE LaunchAssumption
<1>1. k.first \in Nat /\ k.count \in Nat BY DEF Kernel
<1>2. PICK q \in Nat : k.count = q * BPB BY <1>1, MultipleIs
<1>3. CASE b * BPB < k.count
  <2>1. b * BPB + BPB <= k.count BY <1>2, <1>3, NextMultiple
  <2>2. b * BPB \in Nat OBVIOUS
  <2>. QED BY <1>1, <2>1, <2>2 DEF Tile
<1>4. CASE b * BPB >= k.count
  BY <1>4 DEF Tile
<1>5. b * BPB \in Nat OBVIOUS
<1>. QED BY <1>1, <1>3, <1>4, <1>5

\* Two blocks of one kernel have no matrix in common.
LEMMA TilesApart ==
    ASSUME NEW k \in Kernel, NEW b \in Nat, NEW c \in Nat, b < c
    PROVE  Tile(k, b) \cap Tile(k, c) = {}
<1> USE LaunchAssumption
<1>1. k.first \in Nat BY DEF Kernel
<1>2. b * BPB < c * BPB OBVIOUS
<1>3. b * BPB + BPB <= c * BPB BY <1>2, NextMultiple
<1>4. b * BPB \in Nat /\ c * BPB \in Nat OBVIOUS
<1>5. /\ \A i \in Tile(k, b) : i \in Int /\ i < k.first + b * BPB + BPB
      /\ \A i \in Tile(k, c) : i \in Int /\ i >= k.first + c * BPB
  BY <1>1, <1>4 DEF Tile
<1>. QED BY <1>1, <1>3, <1>4, <1>5
-----------------------------------------------------------------------------
\* The inductive invariant.

\* The matrices the loop has taken on: those before offset, in the batch.
Accepted == Min({offset, total})

\* at has an entry per stream, and there is a chunk size when there are chunks.
HostInv == /\ at = [s \in Stream |-> at[s]]
           /\ host = "loop" => chunk > 0
           /\ MultipleOfBPB(offset)

\* A queued kernel has whole tiles of matrices that have been taken on.
QueueInv == \A s \in Stream : \A i \in DOMAIN queue[s] :
               /\ MultipleOfBPB(queue[s][i].count)
               /\ queue[s][i].first + queue[s][i].count <= Accepted

\* Kernels k and l have no matrix in common.
Apart(k, l) == \/ k.first + k.count <= l.first
               \/ l.first + l.count <= k.first

\* Wherever two kernels are queued, they have no matrix in common.
ApartInv == \A s, t \in Stream : \A i \in DOMAIN queue[s], j \in DOMAIN queue[t] :
               s # t \/ i # j => Apart(queue[s][i], queue[t][j])

\* Only matrices that have been taken on are solved.
SolvedInv == \A i \in solved : i < Accepted

LaunchInv == TypeOK /\ HostInv /\ QueueInv /\ ApartInv /\ SolvedInv
-----------------------------------------------------------------------------
\* Queues.

\* A kernel joins a queue at its end.
LEMMA Appended ==
    ASSUME NEW q \in Seq(Kernel), NEW k \in Kernel
    PROVE  /\ Append(q, k) \in Seq(Kernel) /\ Append(q, k) # << >>
           /\ DOMAIN Append(q, k) = 1 .. Len(q) + 1
           /\ DOMAIN q = 1 .. Len(q) /\ Len(q) \in Nat
           /\ Append(q, k)[Len(q) + 1] = k
           /\ \A i \in DOMAIN q : Append(q, k)[i] = q[i]
           /\ Head(Append(q, k)) = IF q = << >> THEN k ELSE Head(q)
  OBVIOUS

\* A kernel leaves a queue at its head.
LEMMA Dequeued ==
    ASSUME NEW q \in Seq(Kernel), q # << >>
    PROVE  /\ Tail(q) \in Seq(Kernel) /\ Head(q) \in Kernel
           /\ \A i \in DOMAIN Tail(q) : i \in Nat /\ i + 1 \in DOMAIN q /\ Tail(q)[i] = q[i + 1]
  OBVIOUS

\* What the loop puts into a queue.
Chunk == [first |-> offset, count |-> ChunkLength]

\* A chunk begins at the end of what was accepted and is within the batch.
LEMMA ChunkIs ==
    ASSUME LaunchInv, LaunchChunk
    PROVE  /\ Chunk \in Kernel
           /\ Chunk.first = Accepted
           /\ MultipleOfBPB(Chunk.count)
           /\ Chunk.first + Chunk.count = Accepted'
           /\ MultipleOfBPB(offset')
           /\ Accepted \in Nat /\ Accepted' \in Nat /\ Accepted < Accepted' /\ Accepted' <= total
<1>1. /\ total \in Nat /\ chunk \in Nat /\ offset \in Nat
      /\ offset < total /\ chunk > 0
      /\ offset' = offset + chunk /\ total' = total
  BY LaunchAssumption DEF LaunchInv, TypeOK, HostInv, LaunchChunk, Goto, call
<1>2. MultipleOfBPB(total) /\ MultipleOfBPB(chunk) /\ MultipleOfBPB(offset)
  BY LaunchAssumption DEF LaunchInv, TypeOK, HostInv
<1>3. ChunkLength = IF chunk <= total - offset THEN chunk ELSE total - offset
  BY <1>1, MinOfTwo DEF ChunkLength
<1>4. Accepted = offset BY <1>1, MinOfTwo DEF Accepted
<1>5. Accepted' = IF offset + chunk <= total THEN offset + chunk ELSE total
  <2>1. offset + chunk \in Int /\ total \in Int BY <1>1
  <2>2. Accepted' = Min({offset + chunk, total}) BY <1>1 DEF Accepted
  <2>. QED BY <2>1, <2>2, MinOfTwo
<1>6. MultipleOfBPB(total - offset) BY <1>1, <1>2, DifferenceOfMultiples
<1>7. MultipleOfBPB(offset') BY <1>1, <1>2, SumOfMultiples
<1>8. ChunkLength \in Nat \ {0} /\ MultipleOfBPB(ChunkLength) BY <1>1, <1>2, <1>3, <1>6
<1>. QED BY <1>1, <1>3, <1>4, <1>5, <1>7, <1>8 DEF Chunk, Kernel

\* The effect of LaunchChunk on the queues.
LEMMA ChunkQueued ==
    ASSUME LaunchInv, LaunchChunk
    PROVE  \E s \in Stream :
              /\ queue' = [queue EXCEPT ![s] = Append(queue[s], Chunk)]
              /\ at' = IF queue[s] = << >>
                       THEN [at EXCEPT ![s] = Waiting(Append(queue[s], Chunk))] ELSE at
<1>1. chunkIdx % NumStreams \in Stream
  BY LaunchAssumption DEF LaunchInv, TypeOK, Stream
<1>. QED BY <1>1 DEF LaunchChunk, Chunk

\* A kernel starts with all its blocks at the first step.
LEMMA WaitingType ==
    ASSUME NEW q \in Seq(Kernel), q # << >>
    PROVE  Waiting(q) \in [0 .. Grid(Head(q).count) - 1 -> Steps]
  BY DEF Waiting, Steps
-----------------------------------------------------------------------------
\* TypeOK is preserved by every step taken with LaunchInv.
LEMMA TypeStep ==
    ASSUME LaunchInv, [Next]_vars
    PROVE  TypeOK' /\ at' = [s \in Stream |-> at'[s]]
<1>1. TypeOK /\ at = [s \in Stream |-> at[s]] BY DEF LaunchInv, HostInv
<1> USE DEF TypeOK
<1>2. CASE CallReturns \/ CallRefused \/ CallLoops \/ LaunchFails \/ LoopEnds
  BY <1>1, <1>2 DEF CallReturns, CallRefused, CallLoops, LaunchFails, LoopEnds, Goto, call, memory
<1>3. CASE LaunchChunk
  <2>1. PICK s \in Stream :
              /\ queue' = [queue EXCEPT ![s] = Append(queue[s], Chunk)]
              /\ at' = IF queue[s] = << >>
                       THEN [at EXCEPT ![s] = Waiting(Append(queue[s], Chunk))] ELSE at
    BY <1>3, ChunkQueued
  <2>2. Chunk \in Kernel BY <1>3, ChunkIs
  <2>3. queue[s] \in Seq(Kernel) BY <1>1
  <2>4. queue' \in [Stream -> Seq(Kernel)] BY <1>1, <2>1, <2>2, <2>3, Appended
  <2>5. /\ host' = "loop" /\ total' = total /\ chunk' = chunk
        /\ offset' = offset + chunk /\ chunkIdx' = chunkIdx + 1
        /\ solved' = solved /\ info' = info
    BY <1>3 DEF LaunchChunk, Goto, call, memory
  <2>6. chunk \in Nat BY <1>1, LaunchAssumption
  <2>7. ASSUME NEW t \in Stream
        PROVE  IF queue'[t] = << >> THEN at'[t] = << >>
               ELSE at'[t] \in [0 .. Grid(Head(queue'[t]).count) - 1 -> Steps]
    <3>1. CASE t # s
      <4>1. queue'[t] = queue[t] /\ at'[t] = at[t] BY <1>1, <2>1, <3>1
      <4>. QED BY <4>1, <1>1
    <3>2. CASE t = s /\ queue[s] = << >>
      <4>1. queue'[s] = Append(queue[s], Chunk) BY <1>1, <2>1
      <4>2. at'[s] = Waiting(queue'[s]) BY <1>1, <2>1, <3>2, <4>1
      <4>3. queue'[s] \in Seq(Kernel) /\ queue'[s] # << >>
        BY <4>1, <2>2, <2>3, Appended
      <4>4. at'[s] \in [0 .. Grid(Head(queue'[s]).count) - 1 -> Steps]
        BY <4>2, <4>3, WaitingType
      <4>. QED BY <3>2, <4>3, <4>4
    <3>3. CASE t = s /\ queue[s] # << >>
      <4>1. queue'[s] = Append(queue[s], Chunk) /\ at' = at BY <1>1, <2>1, <3>3
      <4>2. queue'[s] # << >> /\ Head(queue'[s]) = Head(queue[s])
        BY <4>1, <3>3, <2>2, <2>3, Appended
      <4>. QED BY <3>3, <4>1, <4>2, <1>1
    <3>. QED BY <3>1, <3>2, <3>3
  <2>8. at' = [t \in Stream |-> at'[t]] BY <1>1, <2>1
  <2>. QED BY <1>1, <2>4, <2>5, <2>6, <2>7, <2>8
<1>4. ASSUME NEW s \in Stream, KernelEnds(s)
      PROVE  TypeOK' /\ at' = [t \in Stream |-> at'[t]]
  <2>1. /\ queue[s] # << >> /\ queue[s] \in Seq(Kernel)
        /\ queue' = [queue EXCEPT ![s] = Tail(queue[s])]
        /\ at' = [at EXCEPT ![s] = Waiting(Tail(queue[s]))]
        /\ UNCHANGED <<call, loop, memory>>
    BY <1>1, <1>4 DEF KernelEnds
  <2>2. Tail(queue[s]) \in Seq(Kernel) BY <2>1, Dequeued
  <2>3. queue' \in [Stream -> Seq(Kernel)] BY <1>1, <2>1, <2>2
  <2>4. ASSUME NEW t \in Stream
        PROVE  IF queue'[t] = << >> THEN at'[t] = << >>
               ELSE at'[t] \in [0 .. Grid(Head(queue'[t]).count) - 1 -> Steps]
    <3>1. CASE t # s
      <4>1. queue'[t] = queue[t] /\ at'[t] = at[t] BY <1>1, <2>1, <3>1
      <4>. QED BY <4>1, <1>1
    <3>2. CASE t = s
      <4>1. queue'[t] = Tail(queue[s]) /\ at'[t] = Waiting(Tail(queue[s]))
        BY <1>1, <2>1, <3>2
      <4>2. CASE Tail(queue[s]) = << >> BY <4>1, <4>2 DEF Waiting
      <4>3. CASE Tail(queue[s]) # << >> BY <4>1, <4>3, <2>2, WaitingType
      <4>. QED BY <4>2, <4>3
    <3>. QED BY <3>1, <3>2
  <2>5. at' = [t \in Stream |-> at'[t]] BY <1>1, <2>1
  <2>. QED BY <1>1, <2>1, <2>3, <2>4, <2>5 DEF call, loop, memory
<1>5. ASSUME NEW s \in Stream, NEW b \in DOMAIN at[s], NEW from, NEW to \in Steps,
             Advance(s, b, from, to), UNCHANGED <<call, loop, queue>>,
             solved' \subseteq Nat, info' \in [Index -> {"none", "potrf", "heev"}]
      PROVE  TypeOK' /\ at' = [t \in Stream |-> at'[t]]
  <2>1. at[s] \in [0 .. Grid(Head(queue[s]).count) - 1 -> Steps] /\ queue[s] # << >>
    BY <1>1, <1>5 DEF Advance
  <2>2. at' = [at EXCEPT ![s] = [at[s] EXCEPT ![b] = to]]
    BY <1>5 DEF Advance
  <2>3. [at[s] EXCEPT ![b] = to] \in [0 .. Grid(Head(queue[s]).count) - 1 -> Steps]
    BY <2>1
  <2>4. \A t \in Stream : at'[t] = IF t = s THEN [at[s] EXCEPT ![b] = to] ELSE at[t]
    BY <1>1, <2>2
  <2>5. at' = [t \in Stream |-> at'[t]] BY <1>1, <2>2
  <2>. QED BY <1>1, <1>5, <2>1, <2>3, <2>4, <2>5 DEF call, loop
<1>6. ASSUME NEW s \in Stream, NEW b \in DOMAIN at[s], Factor(s, b) \/ Solve(s, b)
      PROVE  TypeOK' /\ at' = [t \in Stream |-> at'[t]]
  <2>1. PICK op \in {"potrf", "heev"} :
           info' = [i \in DOMAIN info |-> IF i \in Tile(Head(queue[s]), b) THEN op ELSE info[i]]
    BY <1>6 DEF Factor, Solve, Report
  <2>2. info' \in [Index -> {"none", "potrf", "heev"}]
    BY <1>1, <2>1
  <2>3. PICK from \in Steps, to \in Steps : Advance(s, b, from, to)
    BY <1>6 DEF Factor, Solve, Steps
  <2>4. UNCHANGED <<call, loop, queue, solved>> BY <1>6 DEF Factor, Solve
  <2>. QED BY <1>1, <1>5, <2>2, <2>3, <2>4
<1>7. ASSUME NEW s \in Stream, NEW b \in DOMAIN at[s], WriteBack(s, b)
      PROVE  TypeOK' /\ at' = [t \in Stream |-> at'[t]]
  <2>1. queue[s] # << >> /\ queue[s] \in Seq(Kernel)
    BY <1>1, <1>7 DEF WriteBack, Advance
  <2>6. b \in 0 .. Grid(Head(queue[s]).count) - 1 BY <1>1, <2>1
  <2>7. b \in Nat BY <2>6
  <2>2. Head(queue[s]) \in Kernel BY <2>1, Dequeued
  <2>3. Tile(Head(queue[s]), b) \subseteq Nat
    <3>1. Head(queue[s]).first \in Nat BY <2>2 DEF Kernel
    <3>2. b * BPB \in Nat BY <2>7, LaunchAssumption
    <3>. QED BY <3>1, <3>2, LaunchAssumption DEF Tile
  <2>4. solved' \subseteq Nat BY <1>1, <1>7, <2>3 DEF WriteBack
  <2>5. Advance(s, b, "solved", "done") /\ UNCHANGED <<call, loop, queue, info>>
    BY <1>7 DEF WriteBack
  <2>. QED BY <1>1, <1>5, <2>4, <2>5 DEF Steps
<1>8. CASE UNCHANGED vars
  BY <1>1, <1>8 DEF vars, call, loop, memory
<1>. QED
  BY <1>2, <1>3, <1>4, <1>6, <1>7, <1>8 DEF Next, Host, Run
-----------------------------------------------------------------------------
\* The other conjuncts.

\* A step that takes on no chunk leaves what the loop has done as it is; a step
\* of the host that takes on none leaves the device alone, too.
LEMMA OtherSteps ==
    ASSUME [Next]_vars, ~LaunchChunk
    PROVE  /\ UNCHANGED <<total, chunk, offset>>
           /\ host' = "loop" => host = "loop" \/ chunk > 0
           /\ \/ UNCHANGED <<queue, solved>>
              \/ \E s \in Stream : /\ queue[s] # << >>
                                   /\ queue' = [queue EXCEPT ![s] = Tail(queue[s])]
                                   /\ UNCHANGED solved
              \/ \E s \in Stream : \E b \in DOMAIN at[s] :
                    /\ queue[s] # << >>
                    /\ UNCHANGED queue
                    /\ solved' = solved \cup Tile(Head(queue[s]), b)
<1>1. CASE CallReturns \/ CallRefused \/ CallLoops \/ LaunchFails \/ LoopEnds
  BY <1>1 DEF CallReturns, CallRefused, CallLoops, LaunchFails, LoopEnds, Goto, call, memory
<1>2. ASSUME NEW s \in Stream, KernelEnds(s)
      PROVE  /\ UNCHANGED <<total, chunk, offset, host, solved>>
             /\ queue[s] # << >>
             /\ queue' = [queue EXCEPT ![s] = Tail(queue[s])]
  BY <1>2 DEF KernelEnds, call, loop, memory
<1>3. ASSUME NEW s \in Stream, NEW b \in DOMAIN at[s], Factor(s, b) \/ Solve(s, b)
      PROVE  UNCHANGED <<total, chunk, offset, host, queue, solved>>
  BY <1>3 DEF Factor, Solve, call, loop
<1>4. ASSUME NEW s \in Stream, NEW b \in DOMAIN at[s], WriteBack(s, b)
      PROVE  /\ UNCHANGED <<total, chunk, offset, host, queue>>
             /\ queue[s] # << >>
             /\ solved' = solved \cup Tile(Head(queue[s]), b)
  BY <1>4 DEF WriteBack, Advance, call, loop
<1>5. CASE UNCHANGED vars
  BY <1>5 DEF vars, call, loop, memory
<1>. QED BY <1>1, <1>2, <1>3, <1>4, <1>5 DEF Next, Host, Run

\* The loop variable stays a multiple of BPB and passes total by less than a chunk.
LEMMA HostStep ==
    ASSUME LaunchInv, [Next]_vars
    PROVE  HostInv'
<1>1. HostInv BY DEF LaunchInv
<1>2. at' = [s \in Stream |-> at'[s]] BY TypeStep
<1>3. CASE LaunchChunk
  <2>1. host = "loop" /\ UNCHANGED chunk BY <1>3 DEF LaunchChunk, Goto, call
  <2>2. MultipleOfBPB(offset') BY <1>3, ChunkIs
  <2>. QED BY <1>1, <1>2, <2>1, <2>2 DEF HostInv
<1>4. CASE ~LaunchChunk
  <2>1. UNCHANGED <<chunk, offset>> /\ (host' = "loop" => host = "loop" \/ chunk > 0)
    BY <1>4, OtherSteps
  <2>. QED BY <1>1, <1>2, <2>1 DEF HostInv
<1>. QED BY <1>3, <1>4

\* Every kernel of queue' was queued before, in the same stream and order, or is
\* the chunk that LaunchChunk appends.
LEMMA QueueStep ==
    ASSUME LaunchInv, [Next]_vars
    PROVE  QueueInv' /\ ApartInv'
<1>1. QueueInv /\ ApartInv /\ queue \in [Stream -> Seq(Kernel)] BY DEF LaunchInv, TypeOK
<1>2. ASSUME NEW t \in Stream, NEW j \in DOMAIN queue[t]
      PROVE  queue[t][j].first \in Nat /\ queue[t][j].count \in Nat
  <2>1. queue[t] \in Seq(Kernel) BY <1>1
  <2>2. queue[t][j] \in Kernel BY <2>1
  <2>. QED BY <2>2 DEF Kernel
<1>3. CASE LaunchChunk
  <2>1. PICK s \in Stream : queue' = [queue EXCEPT ![s] = Append(queue[s], Chunk)]
    BY <1>3, ChunkQueued
  <2>2. /\ Chunk \in Kernel /\ Chunk.first = Accepted /\ MultipleOfBPB(Chunk.count)
        /\ Chunk.first + Chunk.count = Accepted'
        /\ Accepted \in Nat /\ Accepted' \in Nat /\ Accepted < Accepted'
    BY <1>3, ChunkIs
  <2>. DEFINE last == Len(queue[s]) + 1
  <2>3. /\ queue'[s] = Append(queue[s], Chunk)
        /\ \A t \in Stream \ {s} : queue'[t] = queue[t]
    BY <1>1, <2>1
  <2>4. /\ DOMAIN queue'[s] = 1 .. last /\ DOMAIN queue[s] = 1 .. Len(queue[s])
        /\ Len(queue[s]) \in Nat
        /\ queue'[s][last] = Chunk
        /\ \A i \in DOMAIN queue[s] : queue'[s][i] = queue[s][i]
    BY <1>1, <2>2, <2>3, Appended
  <2>5. ASSUME NEW t \in Stream, NEW i \in DOMAIN queue'[t]
        PROVE  \/ t = s /\ i = last /\ queue'[t][i] = Chunk
               \/ i \in DOMAIN queue[t] /\ queue'[t][i] = queue[t][i]
    BY <2>3, <2>4
  <2> HIDE DEF last
  <2>6. QueueInv'
    <3> SUFFICES ASSUME NEW t \in Stream, NEW i \in DOMAIN queue'[t]
                 PROVE  /\ MultipleOfBPB(queue'[t][i].count)
                        /\ queue'[t][i].first + queue'[t][i].count <= Accepted'
      BY DEF QueueInv
    <3>1. CASE queue'[t][i] = Chunk BY <3>1, <2>2
    <3>2. CASE i \in DOMAIN queue[t] /\ queue'[t][i] = queue[t][i]
      <4>1. queue[t][i].first + queue[t][i].count <= Accepted BY <1>1, <3>2 DEF QueueInv
      <4>2. MultipleOfBPB(queue[t][i].count) BY <1>1, <3>2 DEF QueueInv
      <4>. QED BY <1>2, <2>2, <3>2, <4>1, <4>2
    <3>. QED BY <2>5, <3>1, <3>2
  <2>7. ASSUME NEW t \in Stream, NEW i \in DOMAIN queue[t]
        PROVE  queue[t][i].first + queue[t][i].count <= Chunk.first
    BY <1>1, <2>2 DEF QueueInv
  <2>8. ApartInv'
    <3> SUFFICES ASSUME NEW t \in Stream, NEW u \in Stream,
                        NEW i \in DOMAIN queue'[t], NEW j \in DOMAIN queue'[u],
                        t # u \/ i # j
                 PROVE  Apart(queue'[t][i], queue'[u][j])
      BY DEF ApartInv, Apart
    <3>1. CASE /\ i \in DOMAIN queue[t] /\ queue'[t][i] = queue[t][i]
               /\ j \in DOMAIN queue[u] /\ queue'[u][j] = queue[u][j]
      BY <1>1, <3>1 DEF ApartInv
    <3>2. CASE /\ t = s /\ i = last /\ queue'[t][i] = Chunk
               /\ j \in DOMAIN queue[u] /\ queue'[u][j] = queue[u][j]
      BY <2>7, <3>2 DEF Apart
    <3>3. CASE /\ u = s /\ j = last /\ queue'[u][j] = Chunk
               /\ i \in DOMAIN queue[t] /\ queue'[t][i] = queue[t][i]
      BY <2>7, <3>3 DEF Apart
    <3>4. ~(t = s /\ i = last /\ u = s /\ j = last) OBVIOUS
    <3>. QED BY <2>5, <3>1, <3>2, <3>3, <3>4
  <2>. QED BY <2>6, <2>8
<1>4. CASE ~LaunchChunk
  <2>1. Accepted' = Accepted BY <1>4, OtherSteps DEF Accepted
  <2>2. CASE UNCHANGED queue
    BY <1>1, <2>1, <2>2 DEF QueueInv, ApartInv
  <2>3. CASE \E s \in Stream : /\ queue[s] # << >>
                               /\ queue' = [queue EXCEPT ![s] = Tail(queue[s])]
    <3>1. PICK s \in Stream : /\ queue[s] # << >>
                              /\ queue' = [queue EXCEPT ![s] = Tail(queue[s])]
      BY <2>3
    <3>2. \A i \in DOMAIN Tail(queue[s]) :
             i \in Nat /\ i + 1 \in DOMAIN queue[s] /\ Tail(queue[s])[i] = queue[s][i + 1]
      BY <1>1, <3>1, Dequeued
    <3>. DEFINE was(t, i) == IF t = s THEN i + 1 ELSE i
    <3>3. ASSUME NEW t \in Stream, NEW i \in DOMAIN queue'[t]
          PROVE  was(t, i) \in DOMAIN queue[t] /\ queue'[t][i] = queue[t][was(t, i)]
      BY <1>1, <3>1, <3>2
    <3>4. ASSUME NEW t \in Stream, NEW i \in DOMAIN queue'[t], NEW j \in DOMAIN queue'[t],
                 i # j
          PROVE  was(t, i) # was(t, j)
      <4>1. CASE t = s BY <1>1, <3>1, <3>2, <3>4, <4>1
      <4>. QED BY <3>4, <4>1
    <3> HIDE DEF was
    <3>5. QueueInv'
      BY <1>1, <2>1, <3>3 DEF QueueInv
    <3>6. ApartInv'
      <4> SUFFICES ASSUME NEW t \in Stream, NEW u \in Stream,
                          NEW i \in DOMAIN queue'[t], NEW j \in DOMAIN queue'[u],
                          t # u \/ i # j
                   PROVE  Apart(queue'[t][i], queue'[u][j])
        BY DEF ApartInv, Apart
      <4>1. t # u \/ was(t, i) # was(u, j) BY <3>4
      <4>2. Apart(queue[t][was(t, i)], queue[u][was(u, j)])
        BY <1>1, <3>3, <4>1 DEF ApartInv
      <4>. QED BY <3>3, <4>2
    <3>. QED BY <3>5, <3>6
  <2>. QED BY <1>4, <2>2, <2>3, OtherSteps
<1>. QED BY <1>3, <1>4

\* A block in a queue keeps to the matrices that have been taken on.
LEMMA TileAccepted ==
    ASSUME LaunchInv, NEW s \in Stream, NEW i \in DOMAIN queue[s], NEW b \in Nat
    PROVE  Tile(queue[s][i], b) \subseteq 0 .. Accepted - 1
<1>1. queue[s][i] \in Kernel BY DEF LaunchInv, TypeOK
<1>2. /\ MultipleOfBPB(queue[s][i].count)
      /\ queue[s][i].first + queue[s][i].count <= Accepted
  BY DEF LaunchInv, QueueInv
<1>3. Tile(queue[s][i], b) \subseteq
        queue[s][i].first .. queue[s][i].first + queue[s][i].count - 1
  BY <1>1, <1>2, TileInKernel
<1>4. queue[s][i].first \in Nat /\ queue[s][i].count \in Nat BY <1>1 DEF Kernel
<1>5. Accepted \in Nat /\ Accepted <= total
  <2>1. offset \in Nat /\ total \in Nat BY LaunchAssumption DEF LaunchInv, TypeOK
  <2>. QED BY <2>1, MinOfTwo DEF Accepted
<1>. QED BY <1>2, <1>3, <1>4, <1>5

\* The blocks of a kernel are numbered from 0.
LEMMA BlockIsNat ==
    ASSUME LaunchInv, NEW s \in Stream, queue[s] # << >>, NEW b \in DOMAIN at[s]
    PROVE  b \in Nat
<1>1. at[s] \in [0 .. Grid(Head(queue[s]).count) - 1 -> Steps] BY DEF LaunchInv, TypeOK
<1>2. b \in 0 .. Grid(Head(queue[s]).count) - 1 BY <1>1
<1>. QED BY <1>2

\* A block writes only what was accepted.
LEMMA SolvedStep ==
    ASSUME LaunchInv, [Next]_vars
    PROVE  SolvedInv'
<1>1. SolvedInv /\ solved \subseteq Nat BY DEF LaunchInv, TypeOK
<1>2. CASE LaunchChunk
  <2>1. /\ Accepted \in Nat /\ Accepted' \in Nat /\ Accepted < Accepted'
    BY <1>2, ChunkIs
  <2>2. solved' = solved BY <1>2 DEF LaunchChunk, memory
  <2>. QED BY <1>1, <2>1, <2>2 DEF SolvedInv
<1>3. CASE ~LaunchChunk
  <2>1. Accepted' = Accepted BY <1>3, OtherSteps DEF Accepted
  <2>2. CASE UNCHANGED solved BY <1>1, <2>1, <2>2 DEF SolvedInv
  <2>3. CASE \E s \in Stream : \E b \in DOMAIN at[s] :
                /\ queue[s] # << >>
                /\ solved' = solved \cup Tile(Head(queue[s]), b)
    <3>0. PICK s \in Stream : \E b \in DOMAIN at[s] :
             queue[s] # << >> /\ solved' = solved \cup Tile(Head(queue[s]), b)
      BY <2>3
    <3>1. PICK b \in DOMAIN at[s] :
             queue[s] # << >> /\ solved' = solved \cup Tile(Head(queue[s]), b)
      BY <3>0
    <3>2. b \in Nat BY <3>1, BlockIsNat
    <3>3. queue[s] \in Seq(Kernel) BY DEF LaunchInv, TypeOK
    <3>4. 1 \in DOMAIN queue[s] /\ Head(queue[s]) = queue[s][1] BY <3>1, <3>3
    <3>5. Tile(queue[s][1], b) \subseteq 0 .. Accepted - 1 BY <3>2, <3>4, TileAccepted
    <3>6. \A i \in Tile(queue[s][1], b) : i < Accepted
      <4>1. Accepted \in Int
        <5>1. offset \in Nat /\ total \in Nat BY LaunchAssumption DEF LaunchInv, TypeOK
        <5>. QED BY <5>1, MinOfTwo DEF Accepted
      <4>. QED BY <3>5, <4>1
    <3>. QED BY <1>1, <2>1, <3>1, <3>4, <3>6 DEF SolvedInv
  <2>. QED BY <1>3, <2>2, <2>3, OtherSteps
<1>. QED BY <1>2, <1>3
-----------------------------------------------------------------------------
\* Theorems.

\* A call starts with empty queues.
LEMMA LaunchInit == Init => LaunchInv
<1> SUFFICES ASSUME Init PROVE LaunchInv
  OBVIOUS
<1>1. TypeOK BY DEF Init, TypeOK
<1>2. HostInv
  <2>1. MultipleOfBPB(0) BY MultipleIs, LaunchAssumption
  <2>. QED BY <2>1 DEF Init, HostInv
<1>3. QueueInv /\ ApartInv BY DEF Init, QueueInv, ApartInv
<1>4. SolvedInv BY DEF Init, SolvedInv
<1>. QED BY <1>1, <1>2, <1>3, <1>4 DEF LaunchInv

\* launch_chunked keeps its queue of kernels in order: consecutive intervals of
\* whole tiles, before offset, of which none is launched twice.
THEOREM LaunchInvariant == Spec => []LaunchInv
<1>1. LaunchInv /\ [Next]_vars => LaunchInv'
  BY TypeStep, HostStep, QueueStep, SolvedStep DEF LaunchInv
<1>. QED BY <1>1, LaunchInit, PTL DEF Spec

\* The loop's variables, the queues and the blocks' progress stay in their domains.
THEOREM LaunchTypeCorrect == Spec => []TypeOK
<1>1. LaunchInv => TypeOK BY DEF LaunchInv
<1>. QED BY <1>1, LaunchInvariant, PTL

\* No block of any kernel, running or queued, reaches past the caller's buffers.
THEOREM LaunchInBounds == Spec => []InBounds
<1>1. LaunchInv => InBounds
  <2> SUFFICES ASSUME LaunchInv, NEW s \in Stream, NEW k \in Kernels(s), NEW b \in Blocks(k)
               PROVE  Tile(k, b) \subseteq 0 .. total - 1
    BY DEF InBounds
  <2>1. PICK i \in DOMAIN queue[s] : k = queue[s][i] BY DEF Kernels
  <2>2. b \in Nat BY DEF Blocks
  <2>3. Tile(k, b) \subseteq 0 .. Accepted - 1 BY <2>1, <2>2, TileAccepted
  <2>4. Accepted \in Int /\ Accepted <= total /\ total \in Int
    <3>1. offset \in Nat /\ total \in Nat BY LaunchAssumption DEF LaunchInv, TypeOK
    <3>. QED BY <3>1, MinOfTwo DEF Accepted
  <2>. QED BY <2>3, <2>4
<1>. QED BY <1>1, LaunchInvariant, PTL

\* No two blocks write the same matrix, although streams are never synchronised.
THEOREM LaunchOneWriter == Spec => []OneWriter
<1>1. LaunchInv => OneWriter
  <2> SUFFICES ASSUME LaunchInv, NEW s \in Stream, NEW t \in Stream,
                      NEW k \in Kernels(s), NEW l \in Kernels(t),
                      NEW b \in Blocks(k), NEW c \in Blocks(l),
                      <<s, k, b>> # <<t, l, c>>
               PROVE  Tile(k, b) \cap Tile(l, c) = {}
    BY DEF OneWriter
  <2>1. PICK i \in DOMAIN queue[s] : k = queue[s][i] BY DEF Kernels
  <2>2. PICK j \in DOMAIN queue[t] : l = queue[t][j] BY DEF Kernels
  <2>3. b \in Nat /\ c \in Nat BY DEF Blocks
  <2>4. /\ k \in Kernel /\ MultipleOfBPB(k.count)
        /\ l \in Kernel /\ MultipleOfBPB(l.count)
    <3>1. queue[s] \in Seq(Kernel) /\ queue[t] \in Seq(Kernel) BY DEF LaunchInv, TypeOK
    <3>2. k \in Kernel /\ l \in Kernel BY <2>1, <2>2, <3>1
    <3>. QED BY <2>1, <2>2, <3>2 DEF LaunchInv, QueueInv
  <2>5. CASE s # t \/ i # j
    <3>1. Apart(k, l) BY <2>1, <2>2, <2>5 DEF LaunchInv, ApartInv
    <3>2. Tile(k, b) \subseteq k.first .. k.first + k.count - 1 BY <2>3, <2>4, TileInKernel
    <3>3. Tile(l, c) \subseteq l.first .. l.first + l.count - 1 BY <2>3, <2>4, TileInKernel
    <3>4. /\ k.first \in Nat /\ k.count \in Nat
          /\ l.first \in Nat /\ l.count \in Nat
      BY <2>4 DEF Kernel
    <3>. QED BY <3>1, <3>2, <3>3, <3>4 DEF Apart
  <2>6. CASE s = t /\ i = j
    <3>1. k = l /\ b # c BY <2>1, <2>2, <2>6
    <3>2. Tile(k, b) \cap Tile(k, c) = {}
      <4>1. CASE b < c BY <2>3, <2>4, <4>1, TilesApart
      <4>2. CASE c < b BY <2>3, <2>4, <4>2, TilesApart
      <4>. QED BY <2>3, <3>1, <4>1, <4>2
    <3>. QED BY <3>1, <3>2
  <2>. QED BY <2>5, <2>6
<1>. QED BY <1>1, LaunchInvariant, PTL

\* Safety of ImplementsBatch: a call that cuts a batch into chunks takes its
\* matrices on in order, solves none that it has not taken on, and returns only
\* when it has taken on all.
THEOREM LaunchImplementsBatch == Spec => Batch!BatchInit /\ [][Batch!BatchNext]_(Batch!bvars)
<1>1. Init => Batch!BatchInit
  <2> SUFFICES ASSUME Init PROVE Batch!BatchInit
    OBVIOUS
  <2>1. total \in Nat /\ offset = 0 BY LaunchAssumption DEF Init
  <2>2. Min({offset, total}) = 0 BY <2>1, MinOfTwo
  <2>. QED BY <2>1, <2>2 DEF Init, Batch!BatchInit
<1>2. ASSUME LaunchInv, [Next]_vars PROVE [Batch!BatchNext]_(Batch!bvars)
  <2> USE DEF Batch!BatchNext, Batch!bvars
  <2>1. /\ offset \in Nat /\ total \in Nat
        /\ Min({offset, total}) = IF offset <= total THEN offset ELSE total
    <3>1. offset \in Nat /\ total \in Nat BY <1>2, LaunchAssumption DEF LaunchInv, TypeOK
    <3>. QED BY <3>1, MinOfTwo
  <2>2. CASE CallReturns
    <3>1. total = 0 BY <2>1, <2>2 DEF CallReturns
    <3>2. Min({offset, total}) = total BY <2>1, <3>1
    <3>3. UNCHANGED <<total, offset, solved>> /\ host = "idle" /\ host' = "returned"
      BY <2>2 DEF CallReturns, Goto, call, memory
    <3>. QED BY <3>2, <3>3 DEF Batch!Return
  <2>3. CASE CallRefused \/ LaunchFails
    <3>1. UNCHANGED <<total, offset, solved>> /\ host \in {"idle", "loop"} /\ host' = "threw"
      BY <2>3 DEF CallRefused, LaunchFails, Goto, call, memory
    <3>. QED BY <3>1 DEF Batch!Throw
  <2>4. CASE CallLoops
    <3>1. UNCHANGED <<total, offset, solved>> /\ host = "idle" /\ host' = "loop"
      BY <2>4 DEF CallLoops, Goto, call, memory
    <3>. QED BY <3>1
  <2>5. CASE LaunchChunk
    <3>1. /\ UNCHANGED <<total, solved>> /\ host = "loop" /\ host' = "loop"
      BY <2>5 DEF LaunchChunk, Goto, call, memory
    <3>2. /\ Accepted \in Nat /\ Accepted' \in Nat /\ Accepted < Accepted' /\ Accepted' <= total
      BY <1>2, <2>5, ChunkIs
    <3>3. Accepted' \in Accepted + 1 .. total BY <2>1, <3>2
    <3>. QED BY <3>1, <3>3 DEF Accepted, Batch!Accept
  <2>6. CASE LoopEnds
    <3>1. UNCHANGED <<total, offset, solved>> /\ host = "loop" /\ host' = "returned"
      BY <2>6 DEF LoopEnds, Goto, call, memory
    <3>2. Min({offset, total}) = total BY <2>1, <2>6 DEF LoopEnds
    <3>. QED BY <3>1, <3>2 DEF Batch!Return
  <2>7. ASSUME NEW s \in Stream, NEW b \in DOMAIN at[s], WriteBack(s, b)
        PROVE  [Batch!BatchNext]_(Batch!bvars)
    <3>1. /\ UNCHANGED <<total, offset, host>> /\ queue[s] # << >>
          /\ solved' = solved \cup Tile(Head(queue[s]), b)
      BY <2>7 DEF WriteBack, Advance, call, loop
    <3>2. b \in Nat BY <1>2, <3>1, BlockIsNat
    <3>3. queue[s] \in Seq(Kernel) BY <1>2 DEF LaunchInv, TypeOK
    <3>4. 1 \in DOMAIN queue[s] /\ Head(queue[s]) = queue[s][1] BY <3>1, <3>3
    <3>5. Tile(Head(queue[s]), b) \subseteq 0 .. Min({offset, total}) - 1
      BY <1>2, <3>2, <3>4, TileAccepted DEF Accepted
    <3>6. CASE Tile(Head(queue[s]), b) = {}
      BY <3>1, <3>6
    <3>7. CASE Tile(Head(queue[s]), b) # {}
      <4>1. Tile(Head(queue[s]), b) \in (SUBSET (0 .. Min({offset, total}) - 1)) \ {{}}
        BY <3>5, <3>7
      <4>2. \E T \in (SUBSET (0 .. Min({offset, total}) - 1)) \ {{}} : solved' = solved \cup T
        BY <3>1, <4>1
      <4>3. Batch!Solve BY <3>1, <4>2 DEF Batch!Solve
      <4>. QED BY <4>3
    <3>. QED BY <3>6, <3>7
  <2>8. ASSUME NEW s \in Stream, KernelEnds(s)
        PROVE  UNCHANGED <<total, offset, host, solved>>
    BY <2>8 DEF KernelEnds, call, loop, memory
  <2>9. ASSUME NEW s \in Stream, NEW b \in DOMAIN at[s], Factor(s, b) \/ Solve(s, b)
        PROVE  UNCHANGED <<total, offset, host, solved>>
    BY <2>9 DEF Factor, Solve, call, loop
  <2>10. CASE UNCHANGED vars
    BY <2>10 DEF vars, call, loop, memory
  <2>. QED
    BY <1>2, <2>2, <2>3, <2>4, <2>5, <2>6, <2>7, <2>8, <2>9, <2>10 DEF Next, Host, Run
<1>. QED BY <1>1, <1>2, LaunchInvariant, PTL DEF Spec
=============================================================================
