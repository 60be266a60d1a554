-------------------------- MODULE HybridSolverProofs --------------------------
(***************************************************************************)
(* What HybridSolver promises, for any number of launches, batches of any  *)
(* size, any streams and any faults.                                       *)
(***************************************************************************)
EXTENDS HybridSolver, SequenceTheorems, TLAPS
-----------------------------------------------------------------------------
\* The inductive invariant.

\* One stage of a launch follows another.
Follows(a, b) == <<a, b>> \in {<<"reduce", "eig">>, <<"eig", "copyL">>,
                               <<"copyL", "copyU">>, <<"copyU", "trsm">>}

\* The slots of call l in buf hold v.
Filled(buf, l, v) == batch[l] <= Len(buf) /\ \A i \in 1 .. batch[l] : buf[i] = v

\* d_info tells whether the eigensolver failed.
Told(l) == "xsyev" \in failed[l] <=> "xsyev" \in info[l]

\* The device has done for call l what comes before stage k.
Ready(l, k) ==
    /\ k # "reduce" => base # 0 /\ Filled(lbuf, l, l)
    /\ k = "eig" => out[l] = "M" /\ "xsyev" \notin failed[l]
    /\ k \in {"copyL", "copyU", "trsm"} => out[l] = "V" /\ Told(l)
    /\ k \in {"copyU", "trsm"} => Filled(lptrs, l, base)
    /\ k = "trsm" => Filled(uptrs, l, l)

\* No operation of its call is to follow o.
Over(o) == o.op = "trsm" \/ status[o.call] = "error"

Growing == step \in {"growL", "growPtrs", "growWs"}

\* The running call.
CallInv ==
    /\ \A l \in Launch : status[l] = "free" => batch[l] = 0
    /\ cur # 0 => /\ status[cur] = "running" /\ batch[cur] > 0
                  /\ batch[cur] <= maxSeen
                  /\ stream[cur] \in Stream /\ life = "live"
    /\ Enqueuing => bound = stream[cur]

\* What is queued belongs to calls that were entered.
QueueInv ==
    \A s \in Stream : \A i \in 1 .. Len(queue[s]) :
       /\ status[queue[s][i].call] # "free"
       /\ batch[queue[s][i].call] > 0
       /\ Growing \/ step = "reduce" => queue[s][i].call # cur

\* A capacity is that of the buffer, or a larger batch has been seen since.
CapInv ==
    /\ life # "gone" =>
          /\ cap.L <= Len(lbuf) \/ cap.L < maxSeen
          /\ (cap.ptrs <= Len(lptrs) /\ cap.ptrs <= Len(uptrs)) \/ cap.ptrs < maxSeen
          /\ cap.ws <= ws \/ cap.ws < maxSeen
    /\ step \in {"growPtrs", "growWs"} \/ Enqueuing => B <= cap.L
    /\ step = "growWs" \/ Enqueuing => B <= cap.ptrs
    /\ Enqueuing => B <= cap.ws

\* Where the caller joins its streams, one stream at most has work.
SerialInv ==
    /\ \A s, t \in Stream : queue[s] # << >> /\ queue[t] # << >> => s = t
    /\ cur # 0 => \A s \in Stream : queue[s] # << >> => s = stream[cur]

\* Operation p may stand behind o in a stream, and o at the end of one.
Linked(o, p) == \/ p.op = "reduce" /\ Over(o)
                \/ Follows(o.op, p.op) /\ p.call = o.call /\ p.base = o.base

Ends(o) == Over(o) \/ o.call = cur

\* The operations of a call stand one after the other, and nothing between them.
ChainInv ==
    \A s \in Stream : \A i \in 1 .. Len(queue[s]) :
       /\ i < Len(queue[s]) => Linked(queue[s][i], queue[s][i + 1])
       /\ i = Len(queue[s]) => Ends(queue[s][i])

\* The device is ready for the operation in turn.
HeadInv ==
    \A s \in Stream :
       queue[s] # << >> /\ Head(queue[s]).op # "reduce" =>
          /\ Ready(Head(queue[s]).call, Head(queue[s]).op)
          /\ Head(queue[s]).base = base

\* So is it for the next stage of the running call, once it has caught up.
HostInv ==
    Enqueuing /\ step # "reduce" =>
       LET q == queue[stream[cur]]
       IN  IF q = << >> THEN Ready(cur, step)
           ELSE /\ q[Len(q)].call = cur /\ q[Len(q)].base = base
                /\ Follows(q[Len(q)].op, step)

\* The operations of call l are done.
Gone(l) == \A s \in Stream : \A i \in 1 .. Len(queue[s]) : queue[s][i].call # l

ResultInv ==
    \A l \in Launch : status[l] = "ok" /\ batch[l] > 0 /\ Gone(l) => out[l] = "U" /\ Told(l)

HybridInv == TypeOK /\ CallInv /\ QueueInv /\ CapInv

\* Where the caller joins its streams: what was enqueued runs in order, and the
\* scratch memory holds what the next operation needs.
OrderInv == SerialInv /\ (~dead => ChainInv /\ HeadInv /\ HostInv /\ ResultInv)

-----------------------------------------------------------------------------
\* The steps.

\* The ensure functions let the call go on.
Ensures == KeepL \/ GrowL \/ KeepPtrs \/ GrowPtrs \/ KeepWs \/ GrowWs

Advance ==
    /\ Ensures
    /\ <<step, step'>> \in {<<"growL", "growPtrs">>, <<"growPtrs", "growWs">>,
                            <<"growWs", "reduce">>}
    /\ bound' = IF step = "growWs" THEN stream[cur] ELSE bound
    /\ UNCHANGED <<life, cur, status, batch, stream, maxSeen, queue, out, failed, info, dead>>

\* The call throws.
Fails == \/ GrowLFails \/ GrowPtrsFails \/ GrowWsFails \/ HostWsFails
         \/ EigRefused \/ CopyRefused \/ CallFails

Throw ==
    /\ Fails
    /\ step \in Steps \ {"idle"} /\ step' = "idle" /\ cur' = 0
    /\ status' = [status EXCEPT ![cur] = "error"]
    /\ UNCHANGED <<life, batch, stream, bound, maxSeen, queue, out, failed, info, dead>>

\* The call puts its next operation into a stream; after the last it returns.
Put ==
    /\ Enqueuing /\ ~dead
    /\ queue' = [queue EXCEPT ![IF step \in {"eig", "trsm"} THEN bound ELSE stream[cur]] =
                     Append(@, [op |-> step, call |-> cur, base |-> base])]
    /\ \/ Follows(step, step') /\ UNCHANGED <<cur, status>>
       \/ /\ step = "trsm" /\ step' = "idle" /\ cur' = 0
          /\ status' = [status EXCEPT ![cur] = "ok"]
    /\ UNCHANGED <<life, batch, stream, bound, maxSeen, cap, base, lbuf, lptrs, uptrs, ws,
                   out, failed, info, dead>>

\* The device finishes an operation, or faults on it.
Drain(s) ==
    /\ queue[s] # << >>
    /\ \/ queue' = [queue EXCEPT ![s] = Tail(@)] /\ dead' = dead
       \/ queue' = [t \in Stream |-> << >>] /\ dead' = TRUE
    /\ UNCHANGED <<life, cur, status, batch, stream, step, bound, maxSeen, cap, base, ws>>

\* A growth function that has memory, or gets it, goes on to the next step.
LEMMA AdvanceSteps ==
    ASSUME Ensures
    PROVE  Advance
<1>. USE DEF Ensures
<1>1. CASE KeepL  BY <1>1 DEF KeepL, Advance, Goto, caller, result
<1>2. CASE GrowL  BY <1>2 DEF GrowL, Advance, Goto, caller, result
<1>3. CASE KeepPtrs  BY <1>3 DEF KeepPtrs, Advance, Goto, caller, result
<1>4. CASE GrowPtrs  BY <1>4 DEF GrowPtrs, Advance, Goto, caller, result
<1>5. CASE KeepWs  BY <1>5 DEF KeepWs, Advance, Goto, caller, result
<1>6. CASE GrowWs  BY <1>6 DEF GrowWs, Advance, Goto, caller, result
<1>. QED  BY <1>1, <1>2, <1>3, <1>4, <1>5, <1>6 DEF Ensures

\* Every failure inside a launch ends it with an exception.
LEMMA ThrowSteps ==
    ASSUME Fails
    PROVE  Throw
<1>. USE DEF Fails
<1>1. CASE GrowLFails  BY <1>1 DEF GrowLFails, Throw, ThrowFrom, Goto, result, Steps
<1>2. CASE GrowPtrsFails  BY <1>2 DEF GrowPtrsFails, Throw, ThrowFrom, Goto, result, Steps
<1>3. CASE GrowWsFails  BY <1>3 DEF GrowWsFails, Throw, ThrowFrom, Goto, result, Steps
<1>4. CASE EigRefused  BY <1>4 DEF EigRefused, Throw, ThrowFrom, Goto, result, Steps
<1>5. CASE CopyRefused  BY <1>5 DEF CopyRefused, Throw, ThrowFrom, Goto, result, Steps
<1>6. CASE CallFails  BY <1>6 DEF CallFails, Throw, ThrowFrom, Goto, result, Steps
<1>7. CASE HostWsFails  BY <1>7 DEF HostWsFails, Throw, ThrowFrom, Goto, result, Steps
<1>. QED  BY <1>1, <1>2, <1>3, <1>4, <1>5, <1>6, <1>7 DEF Fails

\* Each of the five parts of a launch appends one operation to its stream.
LEMMA PutSteps ==
    ASSUME LaunchReduce \/ LaunchEig \/ CopyL \/ CopyU \/ LaunchTrsm
    PROVE  Put
<1>. USE DEF Enqueue, Goto, Put, Enqueuing, Follows, caller, scratch, result
<1>1. CASE LaunchReduce  BY <1>1 DEF LaunchReduce
<1>2. CASE LaunchEig  BY <1>2 DEF LaunchEig
<1>3. CASE CopyL  BY <1>3 DEF CopyL
<1>4. CASE CopyU  BY <1>4 DEF CopyU
<1>5. CASE LaunchTrsm  BY <1>5 DEF LaunchTrsm
<1>. QED  BY <1>1, <1>2, <1>3, <1>4, <1>5

\* The device takes one operation from the head of a stream.
LEMMA DrainSteps ==
    ASSUME NEW s \in Stream, Run(s)
    PROVE  Drain(s)
<1>. USE DEF Starts, Drain, caller
<1>1. CASE RunReduce(s)  BY <1>1 DEF RunReduce
<1>2. CASE RunEig(s)  BY <1>2 DEF RunEig, scratch
<1>3. CASE RunCopyL(s)  BY <1>3 DEF RunCopyL
<1>4. CASE RunCopyU(s)  BY <1>4 DEF RunCopyU
<1>5. CASE RunTrsm(s)  BY <1>5 DEF RunTrsm, scratch
<1>6. CASE FaultOn(s)  BY <1>6 DEF FaultOn, scratch
<1>. QED  BY <1>1, <1>2, <1>3, <1>4, <1>5, <1>6 DEF Run

\* Every step is one of these.
LEMMA StepKinds ==
    ASSUME [Next]_vars
    PROVE  \/ Construct \/ Destroy \/ LaunchNothing \/ EnterLaunch
           \/ Advance \/ Throw \/ Put
           \/ \E s \in Stream : Drain(s) /\ Run(s)
           \/ UNCHANGED vars
BY AdvanceSteps, ThrowSteps, PutSteps, DrainSteps DEF Next, HostStep, Ensures, Fails

-----------------------------------------------------------------------------
\* Calls.

CallTyped ==
    /\ life \in {"none", "live", "gone"}
    /\ step \in Steps
    /\ cur \in 0 .. MaxLaunches /\ (cur = 0 <=> step = "idle")
    /\ status \in [Launch -> {"free", "running", "ok", "error"}]
    /\ batch \in [Launch -> 0 .. MaxBatch]
    /\ stream \in [Launch -> Stream \cup {NoStream}]
    /\ bound \in Stream \cup {NoStream}
    /\ maxSeen \in 0 .. MaxBatch
    /\ dead \in BOOLEAN

\* A call that is entered is entered on a stream, with a batch.
LEMMA EnterFacts ==
    ASSUME EnterLaunch
    PROVE  \E l \in Launch, b \in 1 .. MaxBatch, s \in Stream :
              /\ life = "live" /\ step = "idle" /\ status[l] = "free" /\ Joined(s)
              /\ step' = "growL" /\ cur' = l
              /\ status' = [status EXCEPT ![l] = "running"]
              /\ batch' = [batch EXCEPT ![l] = b]
              /\ stream' = [stream EXCEPT ![l] = s]
              /\ maxSeen' = IF b > maxSeen THEN b ELSE maxSeen
              /\ UNCHANGED <<life, bound, queue, dead, cap, base, lbuf, lptrs, uptrs, ws,
                             out, failed, info>>
BY DEF EnterLaunch, IsNext, scratch, result

\* A launch of an empty batch returns at once and touches nothing.
LEMMA NothingFacts ==
    ASSUME LaunchNothing
    PROVE  \E l \in Launch, s \in Stream :
              /\ status[l] = "free" /\ life = "live" /\ step = "idle"
              /\ status' = [status EXCEPT ![l] = "ok"]
              /\ stream' = [stream EXCEPT ![l] = s]
              /\ UNCHANGED <<life, cur, batch, step, bound, maxSeen, queue, dead,
                             cap, base, lbuf, lptrs, uptrs, ws, out, failed, info>>
BY DEF LaunchNothing, IsNext, scratch, result

\* While a launch is under way, cur names it.
LEMMA RunningCall ==
    ASSUME CallTyped, step # "idle"
    PROVE  cur \in Launch
BY DEF CallTyped, Launch

\* Every step preserves the types of the calls and what each place in launch says.
LEMMA CallStep ==
    ASSUME HybridAssumption, CallTyped, CallInv, [Next]_vars
    PROVE  CallTyped' /\ CallInv'
<1>. USE DEF Steps, Enqueuing
<1>1. CASE Construct \/ Destroy
  <2>1. /\ life' \in {"live", "gone"} /\ (life = "live" => step = "idle")
        /\ UNCHANGED <<cur, status, batch, stream, step, bound, maxSeen, dead>>
    BY <1>1 DEF Construct, Destroy
  <2>. QED  BY <1>1, <2>1 DEF CallTyped, CallInv, Construct
<1>2. CASE LaunchNothing
  <2>1. PICK l \in Launch, s \in Stream :
              /\ status[l] = "free" /\ life = "live" /\ step = "idle"
              /\ status' = [status EXCEPT ![l] = "ok"]
              /\ stream' = [stream EXCEPT ![l] = s]
              /\ UNCHANGED <<life, cur, batch, step, bound, maxSeen, dead>>
    BY <1>2, NothingFacts
  <2>2. status' \in [Launch -> {"free", "running", "ok", "error"}]
    BY <2>1 DEF CallTyped
  <2>3. stream' \in [Launch -> Stream \cup {NoStream}]  BY <2>1 DEF CallTyped
  <2>4. CallTyped'  BY <2>1, <2>2, <2>3 DEF CallTyped
  <2>5. \A k \in Launch : status'[k] = "free" => batch'[k] = 0
    BY <2>1 DEF CallTyped, CallInv
  <2>. QED  BY <2>1, <2>4, <2>5 DEF CallTyped, CallInv
<1>3. CASE EnterLaunch
  <2>1. PICK l \in Launch, b \in 1 .. MaxBatch, s \in Stream :
              /\ life = "live" /\ step = "idle" /\ status[l] = "free"
              /\ step' = "growL" /\ cur' = l
              /\ status' = [status EXCEPT ![l] = "running"]
              /\ batch' = [batch EXCEPT ![l] = b]
              /\ stream' = [stream EXCEPT ![l] = s]
              /\ maxSeen' = IF b > maxSeen THEN b ELSE maxSeen
              /\ UNCHANGED <<life, bound, dead>>
    BY <1>3, EnterFacts
  <2>2. status' \in [Launch -> {"free", "running", "ok", "error"}] /\ status'[l] = "running"
    BY <2>1 DEF CallTyped
  <2>3. stream' \in [Launch -> Stream \cup {NoStream}] /\ stream'[l] = s
    BY <2>1 DEF CallTyped
  <2>4. batch' \in [Launch -> 0 .. MaxBatch] /\ batch'[l] = b  BY <2>1 DEF CallTyped
  <2>5. l \in 1 .. MaxLaunches  BY DEF Launch
  <2>6. maxSeen' \in 0 .. MaxBatch /\ b <= maxSeen' /\ b > 0
    BY <2>1 DEF CallTyped, HybridAssumption
  <2>7. CallTyped'  BY <2>1, <2>2, <2>3, <2>4, <2>5, <2>6 DEF CallTyped
  <2>8. \A k \in Launch : status'[k] = "free" => batch'[k] = 0
    BY <2>1 DEF CallTyped, CallInv
  <2>9. status'[cur'] = "running" /\ batch'[cur'] = b /\ stream'[cur'] = s
    BY <2>1, <2>2, <2>3, <2>4
  <2>10. b \in Nat /\ b > 0  OBVIOUS
  <2>11. ~Enqueuing'  BY <2>1
  <2>. QED  BY <2>1, <2>6, <2>7, <2>8, <2>9, <2>10, <2>11 DEF CallInv
<1>4. CASE Advance
  <2>1. cur \in Launch /\ stream[cur] \in Stream
    BY <1>4, RunningCall DEF Advance, CallInv, Launch
  <2>. QED  BY <1>4, <2>1 DEF Advance, CallTyped, CallInv
<1>5. CASE Throw
  <2>1. cur \in Launch  BY <1>5, RunningCall DEF Throw
  <2>2. /\ status' \in [Launch -> {"free", "running", "ok", "error"}]
        /\ \A k \in Launch : status'[k] = "free" => status[k] = "free"
    BY <1>5, <2>1 DEF Throw, CallTyped
  <2>. QED  BY <1>5, <2>1, <2>2 DEF Throw, CallTyped, CallInv
<1>6. CASE Put
  <2>1. cur \in Launch  BY <1>6, RunningCall DEF Put
  <2>2. CASE Follows(step, step') /\ UNCHANGED <<cur, status>>
    <3>1. step' \in {"eig", "copyL", "copyU", "trsm"} /\ step # "idle"
      BY <2>2 DEF Follows
    <3>. QED  BY <1>6, <2>2, <3>1 DEF Put, CallTyped, CallInv
  <2>3. CASE /\ step = "trsm" /\ step' = "idle" /\ cur' = 0
             /\ status' = [status EXCEPT ![cur] = "ok"]
    <3>1. /\ status' \in [Launch -> {"free", "running", "ok", "error"}]
          /\ \A k \in Launch : status'[k] = "free" => status[k] = "free"
      BY <2>1, <2>3 DEF CallTyped
    <3>. QED  BY <1>6, <2>3, <3>1 DEF Put, CallTyped, CallInv, Launch
  <2>. QED  BY <1>6, <2>2, <2>3 DEF Put
<1>7. CASE \E s \in Stream : Drain(s)
  BY <1>7 DEF Drain, CallTyped, CallInv
<1>8. CASE UNCHANGED vars
  BY <1>8 DEF vars, caller, CallTyped, CallInv
<1>. QED  BY <1>1, <1>2, <1>3, <1>4, <1>5, <1>6, <1>7, <1>8, StepKinds

-----------------------------------------------------------------------------
\* Queues.

QueueTyped == queue \in [Stream -> Seq(Op)]

\* Appending keeps a queue's elements where they are.
LEMMA Appended ==
    ASSUME NEW S, NEW q \in Seq(S), NEW e \in S
    PROVE  /\ Append(q, e) \in Seq(S)
           /\ Len(Append(q, e)) = Len(q) + 1
           /\ Append(q, e) # << >>
           /\ \A i \in 1 .. Len(q) : Append(q, e)[i] = q[i]
           /\ Append(q, e)[Len(q) + 1] = e
BY AppendProperties

\* Removing the head of a queue moves the others up by one.
LEMMA Shortened ==
    ASSUME NEW S, NEW q \in Seq(S), q # << >>
    PROVE  /\ Tail(q) \in Seq(S)
           /\ Len(q) > 0 /\ Len(Tail(q)) = Len(q) - 1
           /\ Head(q) = q[1] /\ Head(q) \in S
           /\ \A i \in 1 .. Len(Tail(q)) : Tail(q)[i] = q[i + 1]
BY HeadTailProperties

\* A queued operation is one, and belongs to a launch.
LEMMA QueuedTyped ==
    ASSUME QueueTyped, NEW s \in Stream, NEW j \in 1 .. Len(queue[s])
    PROVE  queue[s][j] \in Op /\ queue[s][j].call \in Launch
<1>1. queue[s] \in Seq(Op)  BY DEF QueueTyped
<1>2. queue[s][j] \in Op  BY <1>1, ElementOfSeq
<1>. QED  BY <1>2 DEF Op

\* What Put does to the queues.
LEMMA PutFacts ==
    ASSUME CallTyped, CallInv, QueueTyped, Put, base \in 0 .. MaxLaunches
    PROVE  LET t == stream[cur]
               o == [op |-> step, call |-> cur, base |-> base]
           IN  /\ t \in Stream /\ cur \in Launch /\ o \in Op
               /\ queue' = [queue EXCEPT ![t] = Append(queue[t], o)]
               /\ queue'[t] = Append(queue[t], o)
               /\ \A u \in Stream : u # t => queue'[u] = queue[u]
               /\ queue' \in [Stream -> Seq(Op)]
<1>. DEFINE t == stream[cur]
            o == [op |-> step, call |-> cur, base |-> base]
<1>1. cur \in Launch  BY RunningCall DEF Put, Enqueuing
<1>2. t \in Stream /\ bound = t  BY <1>1 DEF Put, CallInv, Launch
<1>3. o \in Op  BY <1>1 DEF Put, Enqueuing, Op
<1>4. queue' = [queue EXCEPT ![t] = Append(@, o)]  BY <1>2 DEF Put
<1>. HIDE DEF t, o
<1>5. queue[t] \in Seq(Op)  BY <1>2 DEF QueueTyped
<1>6. Append(queue[t], o) \in Seq(Op)  BY <1>3, <1>5, Appended
<1>7. /\ queue'[t] = Append(queue[t], o)
      /\ \A u \in Stream : u # t => queue'[u] = queue[u]
      /\ queue' \in [Stream -> Seq(Op)]
  BY <1>2, <1>4, <1>6 DEF QueueTyped
<1>. QED  BY <1>1, <1>2, <1>3, <1>4, <1>7 DEF t, o

\* What Drain does to the queues.
LEMMA DrainFacts ==
    ASSUME QueueTyped, NEW s \in Stream, Drain(s)
    PROVE  /\ queue[s] \in Seq(Op) /\ queue[s] # << >>
           /\ queue' \in [Stream -> Seq(Op)]
           /\ \/ /\ queue'[s] = Tail(queue[s]) /\ dead' = dead
                 /\ \A u \in Stream : u # s => queue'[u] = queue[u]
              \/ dead' /\ \A u \in Stream : queue'[u] = << >>
<1>1. queue[s] \in Seq(Op) /\ queue[s] # << >>  BY DEF QueueTyped, Drain
<1>2. Tail(queue[s]) \in Seq(Op)  BY <1>1, Shortened
<1>3. CASE queue' = [queue EXCEPT ![s] = Tail(@)] /\ dead' = dead
  BY <1>1, <1>2, <1>3 DEF QueueTyped
<1>4. CASE queue' = [t \in Stream |-> << >>] /\ dead' = TRUE
  BY <1>1, <1>4, EmptySeq
<1>. QED  BY <1>3, <1>4 DEF Drain

\* A queued operation of the next state was there before, or is being put.
LEMMA QueuedBefore ==
    ASSUME CallTyped, CallInv, QueueTyped, base \in 0 .. MaxLaunches, [Next]_vars,
           NEW s \in Stream, NEW i \in 1 .. Len(queue'[s])
    PROVE  \/ \E j \in 1 .. Len(queue[s]) : queue'[s][i] = queue[s][j]
           \/ Put /\ queue'[s][i] = [op |-> step, call |-> cur, base |-> base]
<1>1. queue[s] \in Seq(Op)  BY DEF QueueTyped
<1>2. CASE queue'[s] = queue[s]  BY <1>2
<1>3. CASE Put
  <2>. DEFINE o == [op |-> step, call |-> cur, base |-> base]
  <2>1. CASE s = stream[cur]
    <3>1. queue'[s] = Append(queue[s], o) /\ o \in Op  BY <1>3, <2>1, PutFacts
    <3>. HIDE DEF o
    <3>2. /\ Len(queue'[s]) = Len(queue[s]) + 1
          /\ \A j \in 1 .. Len(queue[s]) : queue'[s][j] = queue[s][j]
          /\ queue'[s][Len(queue[s]) + 1] = o
      BY <1>1, <3>1, Appended
    <3>3. i \in 1 .. Len(queue[s]) \/ i = Len(queue[s]) + 1  BY <1>1, <3>2, LenProperties
    <3>4. queue'[s][i] = o => queue'[s][i] = [op |-> step, call |-> cur, base |-> base]
      BY DEF o
    <3>. QED  BY <1>3, <3>2, <3>3, <3>4
  <2>2. CASE s # stream[cur]  BY <1>2, <1>3, <2>2, PutFacts
  <2>. QED  BY <2>1, <2>2
<1>4. ASSUME NEW u \in Stream, Drain(u)
      PROVE  \E j \in 1 .. Len(queue[s]) : queue'[s][i] = queue[s][j]
  <2>1. CASE queue'[s] = << >>  BY <2>1, EmptySeq
  <2>2. CASE u = s /\ queue'[s] = Tail(queue[s])
    <3>1. queue[s] # << >>  BY <1>4, <2>2, DrainFacts
    <3>2. queue'[s][i] = queue[s][i + 1] /\ Len(queue'[s]) = Len(queue[s]) - 1
      BY <1>1, <2>2, <3>1, Shortened
    <3>3. i + 1 \in 1 .. Len(queue[s])  BY <1>1, <3>2, LenProperties
    <3>. QED  BY <3>2, <3>3
  <2>3. CASE u # s /\ queue'[s] = queue[s]  BY <1>2, <2>3
  <2>. QED  BY <1>4, <2>1, <2>2, <2>3, DrainFacts
<1>5. CASE Construct \/ Destroy \/ LaunchNothing \/ EnterLaunch \/ Advance \/ Throw
           \/ UNCHANGED vars
  BY <1>2, <1>5, EnterFacts, NothingFacts DEF Construct, Destroy, Advance, Throw, vars
<1>. QED  BY <1>3, <1>4, <1>5, StepKinds

\* Every step preserves the types of the queues and their relation to the calls.
LEMMA QueueStep ==
    ASSUME HybridAssumption, CallTyped, CallInv, QueueTyped, QueueInv,
           base \in 0 .. MaxLaunches, [Next]_vars
    PROVE  QueueTyped' /\ QueueInv'
<1>1. QueueTyped'
  <2>1. CASE Put  BY <2>1, PutFacts DEF QueueTyped
  <2>2. ASSUME NEW s \in Stream, Drain(s) PROVE QueueTyped'
    BY <2>2, DrainFacts DEF QueueTyped
  <2>3. CASE Construct \/ Destroy \/ LaunchNothing \/ EnterLaunch \/ Advance \/ Throw
             \/ UNCHANGED vars
    BY <2>3, EnterFacts, NothingFacts DEF Construct, Destroy, Advance, Throw, vars, QueueTyped
  <2>. QED  BY <2>1, <2>2, <2>3, StepKinds
<1>2. CallTyped' /\ CallInv'  BY CallStep
<1>3. ASSUME NEW l \in Launch, status[l] # "free", batch[l] > 0
      PROVE  /\ status'[l] # "free" /\ batch'[l] > 0
             /\ (Growing \/ step = "reduce" => l # cur) /\ ~Put
                => ((Growing \/ step = "reduce")' => l # cur')
  <2>. USE DEF Growing
  <2>1. CASE Construct \/ Destroy \/ UNCHANGED vars
    BY <1>3, <2>1 DEF Construct, Destroy, vars, caller
  <2>2. CASE LaunchNothing  BY <1>3, <2>2, NothingFacts DEF CallTyped
  <2>3. CASE EnterLaunch  BY <1>3, <2>3, EnterFacts DEF CallTyped
  <2>4. CASE Advance  BY <1>3, <2>4 DEF Advance
  <2>5. CASE Throw  BY <1>3, <2>5 DEF Throw, CallTyped
  <2>6. CASE Put  BY <1>3, <2>6 DEF Put, CallTyped
  <2>7. CASE \E s \in Stream : Drain(s)  BY <1>3, <2>7 DEF Drain
  <2>. QED  BY <2>1, <2>2, <2>3, <2>4, <2>5, <2>6, <2>7, StepKinds
<1>4. ASSUME NEW s \in Stream, NEW i \in 1 .. Len(queue'[s])
      PROVE  /\ status'[queue'[s][i].call] # "free"
             /\ batch'[queue'[s][i].call] > 0
             /\ (Growing \/ step = "reduce")' => queue'[s][i].call # cur'
  <2>1. CASE Put
    <3>1. ~(Growing \/ step = "reduce")'
      BY <2>1 DEF Put, Growing, Follows
    <3>2. cur \in Launch /\ status[cur] # "free" /\ batch[cur] > 0
      BY <2>1, PutFacts DEF CallInv, Launch
    <3>3. \/ queue'[s][i].call = cur
          \/ \E j \in 1 .. Len(queue[s]) : queue'[s][i] = queue[s][j]
      BY QueuedBefore
    <3>4. queue'[s][i].call \in Launch /\ status[queue'[s][i].call] # "free"
          /\ batch[queue'[s][i].call] > 0
      <4>1. ASSUME NEW j \in 1 .. Len(queue[s])
            PROVE  queue[s][j] \in Op /\ queue[s][j].call \in Launch
        BY QueuedTyped
      <4>. QED  BY <3>2, <3>3, <4>1 DEF QueueInv
    <3>. QED  BY <1>3, <3>1, <3>4
  <2>2. CASE ~Put
    <3>1. PICK j \in 1 .. Len(queue[s]) : queue'[s][i] = queue[s][j]
      BY <2>2, QueuedBefore
    <3>2. queue[s][j] \in Op /\ queue[s][j].call \in Launch
      BY QueuedTyped
    <3>. QED  BY <1>3, <2>2, <3>1, <3>2 DEF QueueInv
  <2>. QED  BY <2>1, <2>2
<1>5. QueueInv'  BY <1>4 DEF QueueInv
<1>. QED  BY <1>1, <1>5

-----------------------------------------------------------------------------
\* Scratch memory.

ScratchTyped ==
    /\ cap \in [L : 0 .. MaxBatch, ptrs : 0 .. MaxBatch, ws : 0 .. MaxBatch]
    /\ base \in 0 .. MaxLaunches
    /\ lbuf \in Seq(0 .. MaxLaunches)
    /\ lptrs \in Seq(0 .. MaxLaunches)
    /\ uptrs \in Seq(0 .. MaxLaunches)
    /\ ws \in 0 .. MaxBatch

\* A function on 1 .. n is a sequence of length n.
LEMMA SeqOfLength ==
    ASSUME NEW S, NEW n \in Nat, NEW f \in [1 .. n -> S]
    PROVE  f \in Seq(S) /\ Len(f) = n
<1>1. f \in UNION {[1 .. m -> S] : m \in Nat}  OBVIOUS
<1>2. f \in Seq(S)  BY <1>1, SeqDef, Zenon
<1>3. DOMAIN f = 1 .. n  OBVIOUS
<1>. QED  BY <1>2, <1>3, LenProperties

\* A freshly allocated buffer has the length that was asked for.
LEMMA NewBuffer ==
    ASSUME NEW S, NEW n \in Nat, NEW v \in S
    PROVE  [i \in 1 .. n |-> v] \in Seq(S) /\ Len([i \in 1 .. n |-> v]) = n
<1>1. [i \in 1 .. n |-> v] \in [1 .. n -> S]  OBVIOUS
<1>. QED  BY <1>1, SeqOfLength

\* Writing into a buffer keeps its length.
LEMMA Filling ==
    ASSUME NEW S, NEW buf \in Seq(S), NEW b \in Nat, NEW v \in S,
           NEW new, new = Fill(buf, b, v)
    PROVE  /\ new \in Seq(S)
           /\ Len(new) = Len(buf)
<1>1. Len(buf) \in Nat /\ DOMAIN buf = 1 .. Len(buf) /\ buf \in [1 .. Len(buf) -> S]
  BY LenProperties
<1>2. new = [i \in 1 .. Len(buf) |-> IF i <= b THEN v ELSE buf[i]]
  BY <1>1 DEF Fill
<1>3. new \in [1 .. Len(buf) -> S]  BY <1>1, <1>2
<1>. QED  BY <1>1, <1>3, SeqOfLength

\* What the steps do to the scratch memory, with the buffers typed.
LEMMA GrowthFacts ==
    ASSUME HybridAssumption, CallTyped, ScratchTyped, Advance \/ Throw
    PROVE  /\ cur \in Launch /\ B \in 0 .. MaxBatch
           /\ ScratchTyped'
           /\ \/ /\ UNCHANGED <<cap, base, lbuf, lptrs, uptrs, ws>>
                 /\ Advance => \/ step = "growL" /\ B <= cap.L
                               \/ step = "growPtrs" /\ B <= cap.ptrs
                               \/ step = "growWs" /\ B <= cap.ws
              \/ /\ step = "growL" /\ (base # 0 => Quiet) /\ B > cap.L
                 /\ \/ cap'.L = B /\ Len(lbuf') = B
                    \/ Throw /\ cap'.L = cap.L
                 /\ cap'.ptrs = cap.ptrs /\ cap'.ws = cap.ws
                 /\ UNCHANGED <<lptrs, uptrs, ws>>
              \/ /\ step = "growPtrs" /\ (lptrs # << >> \/ uptrs # << >> => Quiet)
                 /\ B > cap.ptrs
                 /\ \/ cap'.ptrs = B /\ Len(lptrs') = B /\ Len(uptrs') = B
                    \/ Throw /\ cap'.ptrs = cap.ptrs
                 /\ cap'.L = cap.L /\ cap'.ws = cap.ws
                 /\ UNCHANGED <<base, lbuf, ws>>
              \/ /\ step = "growWs" /\ (ws' = ws \/ (ws # 0 => Quiet)) /\ B > cap.ws
                 /\ \/ cap'.ws = B /\ B <= ws'
                    \/ Throw /\ cap'.ws = cap.ws
                 /\ cap'.L = cap.L /\ cap'.ptrs = cap.ptrs
                 /\ UNCHANGED <<base, lbuf, lptrs, uptrs>>
<1>1. cur \in Launch /\ cur \in 0 .. MaxLaunches
  BY RunningCall DEF Advance, Throw, CallTyped
<1>2. B \in 0 .. MaxBatch  BY <1>1 DEF B, CallTyped
<1>3. B \in Nat /\ 0 \in 0 .. MaxLaunches /\ 0 \in 0 .. MaxBatch
  BY <1>2 DEF HybridAssumption
<1>4. /\ [i \in 1 .. B |-> 0] \in Seq(0 .. MaxLaunches) /\ Len([i \in 1 .. B |-> 0]) = B
      /\ << >> \in Seq(0 .. MaxLaunches)
  BY <1>3, NewBuffer, EmptySeq
<1>5. ASSUME UNCHANGED <<cap, base, lbuf, lptrs, uptrs, ws>>
      PROVE  ScratchTyped'
  BY <1>5 DEF ScratchTyped
<1>6. CASE KeepL \/ KeepPtrs \/ KeepWs
  <2>1. /\ UNCHANGED <<cap, base, lbuf, lptrs, uptrs, ws>>
        /\ \/ step = "growL" /\ B <= cap.L
           \/ step = "growPtrs" /\ B <= cap.ptrs
           \/ step = "growWs" /\ B <= cap.ws
    BY <1>6 DEF KeepL, KeepPtrs, KeepWs, Goto, scratch
  <2>. QED  BY <1>1, <1>2, <1>5, <2>1
<1>7. CASE EigRefused \/ CopyRefused \/ CallFails
  <2>1. /\ UNCHANGED <<cap, base, lbuf, lptrs, uptrs, ws>>
        /\ step' = "idle"
    BY <1>7 DEF EigRefused, CopyRefused, CallFails, ThrowFrom, Goto, scratch
  <2>2. ~Advance  BY <2>1 DEF Advance
  <2>. QED  BY <1>1, <1>2, <1>5, <2>1, <2>2
<1>8. CASE GrowL \/ GrowLFails
  <2>1. /\ step = "growL" /\ B > cap.L /\ (base # 0 => Quiet)
        /\ UNCHANGED <<lptrs, uptrs, ws>>
    BY <1>8 DEF GrowL, GrowLFails, ThrowFrom, Goto, Frees
  <2>2. CASE GrowL
    <3>1. base' = cur /\ lbuf' = [i \in 1 .. B |-> 0] /\ cap' = [cap EXCEPT !.L = B]
      BY <2>2 DEF GrowL
    <3>2. cap'.L = B /\ cap'.ptrs = cap.ptrs /\ cap'.ws = cap.ws
          /\ cap' \in [L : 0 .. MaxBatch, ptrs : 0 .. MaxBatch, ws : 0 .. MaxBatch]
      BY <1>2, <3>1 DEF ScratchTyped
    <3>3. ScratchTyped'  BY <1>1, <1>4, <2>1, <3>1, <3>2 DEF ScratchTyped
    <3>. QED  BY <1>1, <1>2, <1>4, <2>1, <3>1, <3>2, <3>3
  <2>3. CASE GrowLFails
    <3>1. base' = 0 /\ lbuf' = << >> /\ cap' = cap  BY <2>3 DEF GrowLFails
    <3>2. Throw  BY <2>3, ThrowSteps DEF Fails
    <3>3. ScratchTyped'  BY <1>3, <1>4, <2>1, <3>1 DEF ScratchTyped
    <3>. QED  BY <1>1, <1>2, <2>1, <3>1, <3>2, <3>3
  <2>. QED  BY <1>8, <2>2, <2>3
<1>9. CASE GrowPtrs \/ GrowPtrsFails
  <2>1. /\ step = "growPtrs" /\ B > cap.ptrs /\ (lptrs # << >> \/ uptrs # << >> => Quiet)
        /\ UNCHANGED <<base, lbuf, ws>>
    BY <1>9 DEF GrowPtrs, GrowPtrsFails, ThrowFrom, Goto, Frees
  <2>2. CASE GrowPtrs
    <3>1. /\ lptrs' = [i \in 1 .. B |-> 0] /\ uptrs' = [i \in 1 .. B |-> 0]
          /\ cap' = [cap EXCEPT !.ptrs = B]
      BY <2>2 DEF GrowPtrs
    <3>2. cap'.ptrs = B /\ cap'.L = cap.L /\ cap'.ws = cap.ws
          /\ cap' \in [L : 0 .. MaxBatch, ptrs : 0 .. MaxBatch, ws : 0 .. MaxBatch]
      BY <1>2, <3>1 DEF ScratchTyped
    <3>3. ScratchTyped'  BY <1>4, <2>1, <3>1, <3>2 DEF ScratchTyped
    <3>. QED  BY <1>1, <1>2, <1>4, <2>1, <3>1, <3>2, <3>3
  <2>3. CASE GrowPtrsFails
    <3>1. /\ lptrs' \in {<< >>, [i \in 1 .. B |-> 0]} /\ uptrs' = << >> /\ cap' = cap
      BY <2>3 DEF GrowPtrsFails
    <3>2. Throw  BY <2>3, ThrowSteps DEF Fails
    <3>3. ScratchTyped'  BY <1>4, <2>1, <3>1 DEF ScratchTyped
    <3>. QED  BY <1>1, <1>2, <2>1, <3>1, <3>2, <3>3
  <2>. QED  BY <1>9, <2>2, <2>3
<1>10. CASE GrowWs \/ GrowWsFails \/ HostWsFails
  <2>1. step = "growWs" /\ B > cap.ws /\ UNCHANGED <<base, lbuf, lptrs, uptrs>>
    BY <1>10 DEF GrowWs, GrowWsFails, HostWsFails, ThrowFrom, Goto
  <2>2. ws' \in {0, B, ws} /\ (ws' = ws \/ (ws # 0 => Quiet))
    BY <1>10 DEF GrowWs, GrowWsFails, HostWsFails, GrowGpuWs, Frees
  <2>3. ws' \in 0 .. MaxBatch  BY <1>2, <1>3, <2>2 DEF ScratchTyped
  <2>4. CASE GrowWs
    <3>1. cap' = [cap EXCEPT !.ws = B] /\ (B > ws => ws' = B) /\ (~(B > ws) => ws' = ws)
      BY <2>4 DEF GrowWs, GrowGpuWs
    <3>2. cap'.ws = B /\ cap'.L = cap.L /\ cap'.ptrs = cap.ptrs
          /\ cap' \in [L : 0 .. MaxBatch, ptrs : 0 .. MaxBatch, ws : 0 .. MaxBatch]
      BY <1>2, <3>1 DEF ScratchTyped
    <3>3. B <= ws'  BY <1>3, <3>1, HybridAssumption DEF ScratchTyped
    <3>4. ScratchTyped'  BY <2>1, <2>3, <3>2 DEF ScratchTyped
    <3>. QED  BY <1>1, <1>2, <2>1, <2>2, <3>2, <3>3, <3>4
  <2>5. CASE GrowWsFails \/ HostWsFails
    <3>1. cap' = cap  BY <2>5 DEF GrowWsFails, HostWsFails
    <3>2. Throw  BY <2>5, ThrowSteps DEF Fails
    <3>3. ScratchTyped'  BY <2>1, <2>3, <3>1 DEF ScratchTyped
    <3>. QED  BY <1>1, <1>2, <2>1, <2>2, <3>1, <3>2, <3>3
  <2>. QED  BY <1>10, <2>4, <2>5
<1>. QED
  BY <1>6, <1>7, <1>8, <1>9, <1>10 DEF Advance, Throw, Ensures, Fails

\* Running an operation writes into the buffers and leaves their sizes.
LEMMA RunScratch ==
    ASSUME CallTyped, ScratchTyped, QueueTyped, NEW s \in Stream, Run(s)
    PROVE  /\ ScratchTyped'
           /\ Len(lbuf') = Len(lbuf) /\ Len(lptrs') = Len(lptrs) /\ Len(uptrs') = Len(uptrs)
           /\ UNCHANGED <<cap, base, ws>>
<1>1. queue[s] # << >> /\ UNCHANGED <<cap, base, ws>>  BY DrainSteps DEF Drain
<1>2. Head(queue[s]) \in Op  BY <1>1, Shortened DEF QueueTyped
<1>. DEFINE Slots == 0 .. MaxLaunches
<1>3. PICK l, b, v : /\ l = Head(queue[s]).call /\ b = batch[l] /\ v = Head(queue[s]).base
  OBVIOUS
<1>4. l \in Launch /\ l \in Slots /\ v \in Slots  BY <1>2, <1>3 DEF Op, Launch
<1>5. b \in Nat  BY <1>3, <1>4 DEF CallTyped
<1>11. lbuf \in Seq(Slots) /\ lptrs \in Seq(Slots) /\ uptrs \in Seq(Slots)
  BY DEF ScratchTyped
<1>. HIDE DEF Slots
<1>6. CASE UNCHANGED <<lbuf, lptrs, uptrs>>
  BY <1>1, <1>6 DEF ScratchTyped
<1>7. CASE RunReduce(s)
  <2>1. lbuf' = Fill(lbuf, b, l) /\ UNCHANGED <<lptrs, uptrs>>
    BY <1>3, <1>7 DEF RunReduce
  <2>2. lbuf' \in Seq(Slots) /\ Len(lbuf') = Len(lbuf)
    BY <1>4, <1>5, <1>11, <2>1, Filling
  <2>. QED  BY <1>1, <2>1, <2>2 DEF ScratchTyped, Slots
<1>8. CASE RunCopyL(s)
  <2>1. lptrs' = Fill(lptrs, b, v) /\ UNCHANGED <<lbuf, uptrs>>
    BY <1>3, <1>8 DEF RunCopyL
  <2>2. lptrs' \in Seq(Slots) /\ Len(lptrs') = Len(lptrs)
    BY <1>4, <1>5, <1>11, <2>1, Filling
  <2>. QED  BY <1>1, <2>1, <2>2 DEF ScratchTyped, Slots
<1>9. CASE RunCopyU(s)
  <2>1. uptrs' = Fill(uptrs, b, l) /\ UNCHANGED <<lbuf, lptrs>>
    BY <1>3, <1>9 DEF RunCopyU
  <2>2. uptrs' \in Seq(Slots) /\ Len(uptrs') = Len(uptrs)
    BY <1>4, <1>5, <1>11, <2>1, Filling
  <2>. QED  BY <1>1, <2>1, <2>2 DEF ScratchTyped, Slots
<1>10. CASE RunEig(s) \/ RunTrsm(s) \/ FaultOn(s)
  BY <1>6, <1>10 DEF RunEig, RunTrsm, FaultOn, scratch
<1>. QED  BY <1>7, <1>8, <1>9, <1>10 DEF Run

\* Destroying waits, or there is nothing to free.
LEMMA DestroyFacts ==
    ASSUME Destroy
    PROVE  /\ life = "live" /\ life' = "gone" /\ step = "idle"
           /\ ws # 0 \/ base # 0 \/ lptrs # << >> \/ uptrs # << >> => Quiet
           /\ base' = 0 /\ lbuf' = << >> /\ lptrs' = << >> /\ uptrs' = << >> /\ ws' = 0
           /\ UNCHANGED <<cur, status, batch, stream, step, bound, maxSeen, cap, queue,
                          out, failed, info, dead>>
BY DEF Destroy, Frees, result

\* Every step preserves the types of the scratch memory.
LEMMA ScratchStep ==
    ASSUME HybridAssumption, CallTyped, ScratchTyped, QueueTyped, [Next]_vars
    PROVE  ScratchTyped'
<1>1. CASE Construct \/ LaunchNothing \/ EnterLaunch \/ Put \/ UNCHANGED vars
  <2>1. UNCHANGED <<cap, base, lbuf, lptrs, uptrs, ws>>
    BY <1>1, EnterFacts, NothingFacts DEF Construct, Put, vars, scratch
  <2>. QED  BY <2>1 DEF ScratchTyped
<1>2. CASE Destroy
  <2>1. 0 \in 0 .. MaxLaunches /\ 0 \in 0 .. MaxBatch /\ << >> \in Seq(0 .. MaxLaunches)
    BY EmptySeq DEF HybridAssumption, CallTyped
  <2>. QED  BY <1>2, <2>1, DestroyFacts DEF ScratchTyped
<1>3. CASE Advance \/ Throw  BY <1>3, GrowthFacts
<1>4. CASE \E s \in Stream : Drain(s) /\ Run(s)  BY <1>4, RunScratch
<1>. QED  BY <1>1, <1>2, <1>3, <1>4, StepKinds

\* Every step preserves the bookkeeping of capacities: what is recorded is what the
\* buffers have, unless a larger allocation has failed.
LEMMA CapStep ==
    ASSUME HybridAssumption, CallTyped, CallInv, ScratchTyped, QueueTyped, CapInv, [Next]_vars
    PROVE  CapInv'
<1>. USE DEF Enqueuing
<1>0. CallTyped' /\ ScratchTyped' /\ CallInv'  BY CallStep, ScratchStep
<1>1. /\ cap.L \in Nat /\ cap.ptrs \in Nat /\ cap.ws \in Nat /\ ws \in Nat
      /\ maxSeen \in Nat /\ maxSeen' \in Nat
      /\ Len(lbuf) \in Nat /\ Len(lptrs) \in Nat /\ Len(uptrs) \in Nat
  <2>1. /\ lbuf \in Seq(0 .. MaxLaunches) /\ lptrs \in Seq(0 .. MaxLaunches)
        /\ uptrs \in Seq(0 .. MaxLaunches)
    BY DEF ScratchTyped
  <2>2. Len(lbuf) \in Nat /\ Len(lptrs) \in Nat /\ Len(uptrs) \in Nat
    BY <2>1, LenProperties
  <2>3. maxSeen \in Nat /\ maxSeen' \in Nat  BY <1>0 DEF CallTyped
  <2>. QED  BY <2>2, <2>3 DEF ScratchTyped
<1>2. CASE /\ UNCHANGED <<cap, ws, life>>
           /\ Len(lbuf') = Len(lbuf) /\ Len(lptrs') = Len(lptrs) /\ Len(uptrs') = Len(uptrs)
           /\ maxSeen' >= maxSeen
           /\ \/ step' \in {"idle", "growL"}
              \/ UNCHANGED <<cur, batch, step>>
  <2>1. step' \in {"idle", "growL"} \/ (UNCHANGED step /\ B' = B)  BY <1>2 DEF B
  <2>2. /\ step' \in {"growPtrs", "growWs"} \/ Enqueuing' => B' <= cap'.L
        /\ step' = "growWs" \/ Enqueuing' => B' <= cap'.ptrs
        /\ Enqueuing' => B' <= cap'.ws
    BY <1>2, <2>1 DEF CapInv
  <2>3. life' # "gone" =>
          /\ cap'.L <= Len(lbuf') \/ cap'.L < maxSeen'
          /\ (cap'.ptrs <= Len(lptrs') /\ cap'.ptrs <= Len(uptrs')) \/ cap'.ptrs < maxSeen'
          /\ cap'.ws <= ws' \/ cap'.ws < maxSeen'
    BY <1>1, <1>2 DEF CapInv
  <2>. QED  BY <2>2, <2>3 DEF CapInv
<1>3. CASE Construct
  BY <1>1, <1>3 DEF Construct, scratch, CapInv, B
<1>4. CASE Destroy
  BY <1>4, DestroyFacts DEF CapInv
<1>5. CASE LaunchNothing \/ EnterLaunch
  BY <1>1, <1>2, <1>5, EnterFacts, NothingFacts
<1>6. CASE Throw
  <2>1. cur \in Launch /\ B \in Nat /\ B <= maxSeen /\ step' = "idle" /\ UNCHANGED <<life, maxSeen>>
    BY <1>6, GrowthFacts DEF Throw, CallInv, Launch, B
  <2>2. \/ UNCHANGED <<cap, ws, lbuf, lptrs, uptrs>>
        \/ B > cap.L /\ (\/ cap'.L = B /\ Len(lbuf') = B
                        \/ cap'.L = cap.L)
           /\ cap'.ptrs = cap.ptrs /\ cap'.ws = cap.ws /\ UNCHANGED <<lptrs, uptrs, ws>>
        \/ B > cap.ptrs
           /\ (\/ cap'.ptrs = B /\ Len(lptrs') = B /\ Len(uptrs') = B
               \/ cap'.ptrs = cap.ptrs)
           /\ cap'.L = cap.L /\ cap'.ws = cap.ws /\ UNCHANGED <<lbuf, ws>>
        \/ B > cap.ws /\ (\/ cap'.ws = B /\ B <= ws'
                         \/ cap'.ws = cap.ws)
           /\ cap'.L = cap.L /\ cap'.ptrs = cap.ptrs /\ UNCHANGED <<lbuf, lptrs, uptrs>>
    BY <1>6, GrowthFacts
  <2>. QED  BY <1>1, <2>1, <2>2 DEF CapInv
<1>7. CASE Advance
  <2>1. /\ cur \in Launch /\ B \in Nat /\ B <= maxSeen /\ B' = B
        /\ life = "live" /\ UNCHANGED <<life, maxSeen>>
    BY <1>7, GrowthFacts DEF Advance, CallInv, Launch, B
  <2>2. ~Throw  BY <1>7 DEF Advance, Throw
  <2>3. CASE step = "growL"
    <3>1. step' = "growPtrs"  BY <1>7, <2>3 DEF Advance
    <3>2. /\ B <= cap'.L
          /\ cap'.L <= Len(lbuf') \/ cap'.L < maxSeen
          /\ cap'.ptrs = cap.ptrs /\ cap'.ws = cap.ws /\ UNCHANGED <<lptrs, uptrs, ws>>
      BY <1>1, <1>7, <2>1, <2>2, <2>3, GrowthFacts DEF CapInv
    <3>. QED  BY <2>1, <3>1, <3>2 DEF CapInv
  <2>4. CASE step = "growPtrs"
    <3>1. step' = "growWs"  BY <1>7, <2>4 DEF Advance
    <3>2. /\ B <= cap.L /\ B <= cap'.ptrs
          /\ (cap'.ptrs <= Len(lptrs') /\ cap'.ptrs <= Len(uptrs')) \/ cap'.ptrs < maxSeen
          /\ cap'.L = cap.L /\ cap'.ws = cap.ws /\ UNCHANGED <<lbuf, ws>>
      BY <1>1, <1>7, <2>1, <2>2, <2>4, GrowthFacts DEF CapInv
    <3>. QED  BY <2>1, <3>1, <3>2 DEF CapInv
  <2>5. CASE step = "growWs"
    <3>1. step' = "reduce"  BY <1>7, <2>5 DEF Advance
    <3>2. /\ B <= cap.L /\ B <= cap.ptrs /\ B <= cap'.ws
          /\ cap'.ws <= ws' \/ cap'.ws < maxSeen
          /\ cap'.L = cap.L /\ cap'.ptrs = cap.ptrs /\ UNCHANGED <<lbuf, lptrs, uptrs>>
      BY <1>1, <1>7, <2>1, <2>2, <2>5, GrowthFacts DEF CapInv
    <3>. QED  BY <2>1, <3>1, <3>2 DEF CapInv
  <2>. QED  BY <1>7, <2>3, <2>4, <2>5 DEF Advance
<1>8. CASE Put
  <2>1. /\ UNCHANGED <<cap, ws, life, lbuf, lptrs, uptrs, maxSeen, batch>>
        /\ Enqueuing
        /\ step' = "idle" \/ cur' = cur
    BY <1>8 DEF Put
  <2>2. step' \in {"idle", "eig", "copyL", "copyU", "trsm"}  BY <1>8 DEF Put, Follows
  <2>3. Enqueuing' => B' = B  BY <2>1, <2>2 DEF B
  <2>. QED  BY <2>1, <2>2, <2>3 DEF CapInv
<1>9. CASE \E s \in Stream : Drain(s) /\ Run(s)
  <2>1. PICK s \in Stream : Drain(s) /\ Run(s)  BY <1>9
  <2>. QED  BY <1>1, <1>2, <2>1, RunScratch DEF Drain
<1>10. CASE UNCHANGED vars
  BY <1>1, <1>2, <1>10 DEF vars, caller, scratch
<1>. QED  BY <1>3, <1>4, <1>5, <1>6, <1>7, <1>8, <1>9, <1>10, StepKinds

-----------------------------------------------------------------------------
\* The invariant is inductive.

ResultTyped == /\ out \in [Launch -> {"none", "M", "V", "U", "junk"}]
               /\ failed \in [Launch -> SUBSET Stages]
               /\ info \in [Launch -> SUBSET Stages]

\* TypeOK in four parts, one per group of variables.
LEMMA Types ==
    TypeOK <=> CallTyped /\ QueueTyped /\ ScratchTyped /\ ResultTyped
BY DEF TypeOK, CallTyped, QueueTyped, ScratchTyped, ResultTyped

\* Every step preserves the types of the results and verdicts.
LEMMA ResultStep ==
    ASSUME ResultTyped, QueueTyped, [Next]_vars
    PROVE  ResultTyped'
<1>1. CASE UNCHANGED <<out, failed, info>>  BY <1>1 DEF ResultTyped
<1>2. CASE \/ Construct \/ Destroy \/ LaunchNothing \/ EnterLaunch \/ Advance \/ Throw \/ Put
           \/ UNCHANGED vars
  BY <1>1, <1>2, DestroyFacts, NothingFacts, EnterFacts
  DEF Construct, Advance, Throw, Put, vars, result
<1>3. ASSUME NEW s \in Stream, Run(s) PROVE ResultTyped'
  <2>1. CASE RunReduce(s)
    <3>1. PICK l : l = Head(queue[s]).call  OBVIOUS
    <3>2. PICK f \in SUBSET Stages :
             /\ out' = [out EXCEPT ![l] = "M"]
             /\ failed' = [failed EXCEPT ![l] = f]
             /\ info' = [info EXCEPT ![l] = f]
      BY <2>1, <3>1 DEF RunReduce, Stages
    <3>. QED  BY <3>2 DEF ResultTyped
  <2>2. CASE RunEig(s)
    <3>1. PICK l : l = Head(queue[s]).call  OBVIOUS
    <3>2. PICK f \in SUBSET Stages :
             /\ out' = [out EXCEPT ![l] = IF @ = "M" THEN "V" ELSE "junk"]
             /\ failed' = [failed EXCEPT ![l] = @ \cup f]
             /\ info' = [info EXCEPT ![l] = f]
      BY <2>2, <3>1 DEF RunEig, Stages
    <3>. QED  BY <3>2 DEF ResultTyped
  <2>3. CASE RunTrsm(s)
    <3>1. PICK touched, l :
             out' = [k \in Launch |-> IF k \notin touched THEN out[k]
                                      ELSE IF k = l /\ BackTransforms(l) THEN "U"
                                      ELSE "junk"]
      BY <2>3 DEF RunTrsm
    <3>2. UNCHANGED <<failed, info>>  BY <2>3 DEF RunTrsm
    <3>. QED  BY <3>1, <3>2 DEF ResultTyped
  <2>4. CASE RunCopyL(s) \/ RunCopyU(s) \/ FaultOn(s)
    BY <1>1, <2>4 DEF RunCopyL, RunCopyU, FaultOn, result
  <2>. QED  BY <1>3, <2>1, <2>2, <2>3, <2>4 DEF Run
<1>. QED  BY <1>2, <1>3, StepKinds

\* The invariant holds for a solver that has not been launched.
LEMMA HybridInit == HybridAssumption /\ Init => HybridInv
<1>. SUFFICES ASSUME HybridAssumption, Init PROVE HybridInv
  OBVIOUS
<1>. USE DEF Init
<1>1. CallTyped
  <2>1. /\ status \in [Launch -> {"free", "running", "ok", "error"}]
        /\ stream \in [Launch -> Stream \cup {NoStream}]
    OBVIOUS
  <2>2. 0 \in 0 .. MaxLaunches /\ 0 \in 0 .. MaxBatch  BY DEF HybridAssumption
  <2>3. batch \in [Launch -> 0 .. MaxBatch]  BY <2>2
  <2>4. /\ life = "none" /\ step = "idle" /\ cur = 0 /\ bound = NoStream /\ maxSeen = 0
        /\ dead = FALSE
    OBVIOUS
  <2>. HIDE DEF Init
  <2>. QED  BY <2>1, <2>2, <2>3, <2>4 DEF CallTyped, Steps
<1>2. \A s \in Stream : queue[s] = << >> /\ Len(queue[s]) = 0  BY EmptySeq
<1>3. QueueTyped /\ QueueInv  BY <1>2, EmptySeq DEF QueueTyped, QueueInv
<1>4. ScratchTyped  BY EmptySeq DEF ScratchTyped, HybridAssumption
<1>5. ResultTyped  BY DEF ResultTyped
<1>6. CallInv  BY DEF CallInv, Enqueuing
<1>7. CapInv  BY EmptySeq DEF CapInv, Enqueuing
<1>. QED  BY <1>1, <1>3, <1>4, <1>5, <1>6, <1>7, Types DEF HybridInv

\* Every step preserves the invariant.
LEMMA HybridStep == HybridAssumption /\ HybridInv /\ [Next]_vars => HybridInv'
<1>. SUFFICES ASSUME HybridAssumption, HybridInv, [Next]_vars PROVE HybridInv'
  OBVIOUS
<1>1. CallTyped /\ QueueTyped /\ ScratchTyped /\ ResultTyped  BY Types DEF HybridInv
<1>2. CallInv /\ QueueInv /\ CapInv /\ base \in 0 .. MaxLaunches
  BY <1>1 DEF HybridInv, ScratchTyped
<1>3. CallTyped' /\ CallInv'  BY <1>1, <1>2, CallStep
<1>4. QueueTyped' /\ QueueInv'  BY <1>1, <1>2, QueueStep
<1>5. ScratchTyped'  BY <1>1, ScratchStep
<1>6. ResultTyped'  BY <1>1, ResultStep
<1>7. CapInv'  BY <1>1, <1>2, CapStep
<1>8. (CallTyped /\ QueueTyped /\ ScratchTyped /\ ResultTyped)' => TypeOK'
  BY DEF TypeOK, CallTyped, QueueTyped, ScratchTyped, ResultTyped
<1>. QED  BY <1>3, <1>4, <1>5, <1>6, <1>7, <1>8 DEF HybridInv

\* The inductive invariant holds in every reachable state.
THEOREM HybridInvariant == Spec => []HybridInv
<1>1. Init => HybridInv  BY HybridInit, HybridAssumption
<1>2. HybridInv /\ [Next]_vars => HybridInv'  BY HybridStep, HybridAssumption
<1>. QED  BY <1>1, <1>2, PTL DEF Spec

\* The calls, the scratch memory, the queues and the results have their types in
\* every reachable state (HybridGeneigSolver's fields and launch).
THEOREM HybridTypeCorrect == Spec => []TypeOK
<1>1. HybridInv => TypeOK  BY DEF HybridInv
<1>. QED  BY <1>1, HybridInvariant, PTL

\* However many allocations failed before, a call with the largest batch seen so
\* far that gets past ensure_capacity_ and ensure_xsyev_workspace_ has scratch
\* memory for all of it.
THEOREM LargestBatchHasMemory == Spec => []LargestBatchCovered
<1>1. HybridInv => LargestBatchCovered
  <2>. SUFFICES ASSUME HybridInv, Enqueuing, B = maxSeen PROVE Covered
    BY DEF LargestBatchCovered
  <2>1. CallTyped /\ ScratchTyped /\ CallInv /\ CapInv  BY Types DEF HybridInv
  <2>2. life = "live"  BY <2>1 DEF CallInv, CallTyped, Enqueuing
  <2>3. /\ cap.L \in Nat /\ cap.ptrs \in Nat /\ cap.ws \in Nat /\ ws \in Nat
        /\ maxSeen \in Nat
    BY <2>1 DEF ScratchTyped, CallTyped
  <2>4. Len(lbuf) \in Nat /\ Len(lptrs) \in Nat /\ Len(uptrs) \in Nat
    <3>1. /\ lbuf \in Seq(0 .. MaxLaunches) /\ lptrs \in Seq(0 .. MaxLaunches)
          /\ uptrs \in Seq(0 .. MaxLaunches)
      BY <2>1 DEF ScratchTyped
    <3>. QED  BY <3>1, LenProperties
  <2>5. B <= cap.L /\ B <= cap.ptrs /\ B <= cap.ws  BY <2>1 DEF CapInv
  <2>6. /\ cap.L <= Len(lbuf) \/ cap.L < maxSeen
        /\ (cap.ptrs <= Len(lptrs) /\ cap.ptrs <= Len(uptrs)) \/ cap.ptrs < maxSeen
        /\ cap.ws <= ws \/ cap.ws < maxSeen
    BY <2>1, <2>2 DEF CapInv
  <2>. QED  BY <2>3, <2>4, <2>5, <2>6 DEF Covered
<1>. QED  BY <1>1, HybridInvariant, PTL

-----------------------------------------------------------------------------
\* Memory under queued work.

\* What is queued has a batch, and what can run has its buffers.
LEMMA QueuedFacts ==
    ASSUME HybridInv, NEW s \in Stream, NEW o \in Queued(s)
    PROVE  /\ o \in Op /\ o.call \in Launch
           /\ status[o.call] # "free" /\ batch[o.call] \in Nat /\ batch[o.call] > 0
           /\ ~Quiet
<1>1. QueueTyped /\ CallTyped /\ QueueInv  BY Types DEF HybridInv
<1>2. queue[s] \in Seq(Op)  BY <1>1 DEF QueueTyped
<1>3. PICK i \in 1 .. Len(queue[s]) : o = queue[s][i]  BY <1>2, LenProperties DEF Queued
<1>4. o \in Op /\ o.call \in Launch  BY <1>1, <1>3, QueuedTyped
<1>5. queue[s] # << >>  BY <1>2, <1>3, EmptySeq
<1>. QED  BY <1>1, <1>3, <1>4, <1>5 DEF QueueInv, CallTyped, Quiet

\* An operation that can run has the buffers that it names.
LEMMA ValidNeeds ==
    ASSUME ScratchTyped, NEW o \in Op, batch[o.call] \in Nat, batch[o.call] > 0, Valid(o)
    PROVE  /\ o.op = "reduce" => base # 0
           /\ o.op = "eig" => ws # 0
           /\ o.op \in {"copyL", "trsm"} => lptrs # << >>
           /\ o.op \in {"copyU", "trsm"} => uptrs # << >>
<1>1. Len(<< >>) = 0  BY EmptySeq
<1>2. o.op \in {"reduce", "eig", "copyL", "copyU", "trsm"}  BY DEF Op
<1>3. CASE o.op = "reduce"  BY <1>3 DEF Valid
<1>4. CASE o.op = "eig"  BY <1>4 DEF Valid
<1>5. CASE o.op = "copyL"  BY <1>1, <1>5 DEF Valid
<1>6. CASE o.op = "copyU"  BY <1>1, <1>6 DEF Valid
<1>7. CASE o.op = "trsm"  BY <1>1, <1>7 DEF Valid
<1>. QED  BY <1>2, <1>3, <1>4, <1>5, <1>6, <1>7

\* The validity of an operation depends on its batch and the sizes of its buffers.
LEMMA ValidKept ==
    ASSUME NEW o \in Op, Valid(o), batch'[o.call] = batch[o.call],
           o.op = "reduce" => base' = base /\ Len(lbuf') = Len(lbuf),
           o.op = "eig" => ws' = ws,
           o.op \in {"copyL", "trsm"} => Len(lptrs') = Len(lptrs),
           o.op \in {"copyU", "trsm"} => Len(uptrs') = Len(uptrs)
    PROVE  Valid(o)'
<1>2. o.op \in {"reduce", "eig", "copyL", "copyU", "trsm"}  BY DEF Op
<1>3. CASE o.op = "reduce"  BY <1>3 DEF Valid
<1>4. CASE o.op = "eig"  BY <1>4 DEF Valid
<1>5. CASE o.op = "copyL"  BY <1>5 DEF Valid
<1>6. CASE o.op = "copyU"  BY <1>6 DEF Valid
<1>7. CASE o.op = "trsm"  BY <1>7 DEF Valid
<1>. QED  BY <1>2, <1>3, <1>4, <1>5, <1>6, <1>7

\* An operation in a stream that has its buffers has them until it runs: growing
\* and destroying wait for what is queued.
THEOREM ScratchIsHeld == Spec => ScratchStays
<1>1. HybridInv /\ [Next]_vars =>
         [\A s \in Stream : \A o \in Queued(s) \cap Queued(s)' : Valid(o) => Valid(o)']_vars
  <2>. SUFFICES ASSUME HybridInv, [Next]_vars, NEW s \in Stream,
                       NEW o \in Queued(s), Valid(o)
                PROVE  Valid(o)'
    OBVIOUS
  <2>1. CallTyped /\ QueueTyped /\ ScratchTyped /\ HybridAssumption
    BY Types, HybridAssumption DEF HybridInv
  <2>2. /\ o \in Op /\ o.call \in Launch /\ status[o.call] # "free"
        /\ batch[o.call] \in Nat /\ batch[o.call] > 0 /\ ~Quiet
    BY QueuedFacts
  <2>3. /\ o.op = "reduce" => base # 0
        /\ o.op = "eig" => ws # 0
        /\ o.op \in {"copyL", "trsm"} => lptrs # << >>
        /\ o.op \in {"copyU", "trsm"} => uptrs # << >>
    BY <2>1, <2>2, ValidNeeds
  <2>4. o.op \in {"reduce", "eig", "copyL", "copyU", "trsm"}  BY <2>2 DEF Op
  <2>5. CASE Construct \/ LaunchNothing \/ Put \/ UNCHANGED vars
    <3>1. UNCHANGED <<batch, base, lbuf, lptrs, uptrs, ws>>
      BY <2>5, NothingFacts DEF Construct, Put, vars, scratch, caller
    <3>. QED  BY <2>2, <3>1, ValidKept
  <2>6. CASE EnterLaunch
    <3>1. UNCHANGED <<base, lbuf, lptrs, uptrs, ws>> /\ batch'[o.call] = batch[o.call]
      BY <2>1, <2>2, <2>6, EnterFacts DEF CallTyped
    <3>. QED  BY <2>2, <3>1, ValidKept
  <2>7. CASE Destroy  BY <2>2, <2>3, <2>4, <2>7, DestroyFacts
  <2>8. CASE Advance \/ Throw
    <3>1. UNCHANGED batch  BY <2>8 DEF Advance, Throw
    <3>2. /\ o.op = "reduce" => UNCHANGED <<base, lbuf>>
          /\ o.op = "eig" => ws' = ws
          /\ o.op \in {"copyL", "trsm"} => lptrs' = lptrs
          /\ o.op \in {"copyU", "trsm"} => uptrs' = uptrs
      BY <2>1, <2>2, <2>3, <2>8, GrowthFacts
    <3>. QED  BY <2>2, <3>1, <3>2, ValidKept
  <2>9. CASE \E t \in Stream : Drain(t) /\ Run(t)
    <3>1. UNCHANGED batch  BY <2>9 DEF Drain
    <3>2. /\ Len(lbuf') = Len(lbuf) /\ Len(lptrs') = Len(lptrs) /\ Len(uptrs') = Len(uptrs)
          /\ UNCHANGED <<base, ws>>
      BY <2>1, <2>9, RunScratch
    <3>. QED  BY <2>2, <3>1, <3>2, ValidKept
  <2>. QED  BY <2>5, <2>6, <2>7, <2>8, <2>9, StepKinds
<1>. QED  BY <1>1, HybridInvariant, PTL DEF Spec, ScratchStays

\* When the destructor unloads the module, no operation that could still run is
\* queued on any stream.
THEOREM DestroyWaits == Spec => NothingAfterDestroy
<1>1. HybridInv /\ [Next]_vars =>
         [life = "live" /\ life' = "gone" =>
             \A s \in Stream : \A o \in Queued(s) : ~Valid(o)]_vars
  <2>. SUFFICES ASSUME HybridInv, [Next]_vars, life = "live", life' = "gone",
                       NEW s \in Stream, NEW o \in Queued(s), Valid(o)
                PROVE  FALSE
    OBVIOUS
  <2>1. ScratchTyped  BY Types DEF HybridInv
  <2>2. /\ o \in Op /\ batch[o.call] \in Nat /\ batch[o.call] > 0 /\ ~Quiet
    BY QueuedFacts
  <2>3. base # 0 \/ ws # 0 \/ lptrs # << >> \/ uptrs # << >>
    BY <2>1, <2>2, ValidNeeds DEF Op
  <2>4. Destroy
    BY StepKinds, NothingFacts, EnterFacts
    DEF Construct, Advance, Throw, Put, Drain, vars, caller
  <2>. QED  BY <2>2, <2>3, <2>4, DestroyFacts
<1>. QED  BY <1>1, HybridInvariant, PTL DEF Spec, NothingAfterDestroy

-----------------------------------------------------------------------------
\* Order, where the caller joins its streams.

\* Where the caller joins its streams, all queued operations stay in one stream.
LEMMA SerialStep ==
    ASSUME Serial, HybridInv, SerialInv, [Next]_vars
    PROVE  SerialInv'
<1>1. CallTyped /\ QueueTyped /\ ScratchTyped /\ CallInv /\ base \in 0 .. MaxLaunches
  BY Types DEF HybridInv, ScratchTyped
<1>2. CASE /\ \A s \in Stream : queue'[s] # << >> => queue[s] # << >>
           /\ cur' = 0 \/ (cur' = cur /\ UNCHANGED stream)
  BY <1>2 DEF SerialInv
<1>3. CASE Construct \/ Destroy \/ Advance \/ Throw \/ UNCHANGED vars
  BY <1>2, <1>3, DestroyFacts DEF Construct, Advance, Throw, vars, caller
<1>4. CASE LaunchNothing
  <2>1. cur = 0 /\ UNCHANGED <<cur, queue>>  BY <1>1, <1>4, NothingFacts DEF CallTyped
  <2>. QED  BY <1>2, <2>1
<1>5. CASE EnterLaunch
  <2>1. PICK l \in Launch, s \in Stream :
           Joined(s) /\ cur' = l /\ stream' = [stream EXCEPT ![l] = s] /\ queue' = queue
    BY <1>5, EnterFacts
  <2>2. stream'[cur'] = s  BY <1>1, <2>1 DEF CallTyped
  <2>3. \A t \in Stream \ {s} : queue'[t] = << >>  BY <2>1 DEF Joined
  <2>. QED  BY <2>2, <2>3 DEF SerialInv
<1>6. CASE Put
  <2>1. /\ stream[cur] \in Stream /\ cur \in Launch
        /\ \A u \in Stream : u # stream[cur] => queue'[u] = queue[u]
        /\ cur' \in {0, cur} /\ UNCHANGED stream
    BY <1>1, <1>6, PutFacts DEF Put
  <2>2. \A u \in Stream : queue'[u] # << >> => u = stream[cur]
    BY <2>1 DEF SerialInv, Launch
  <2>. QED  BY <2>1, <2>2 DEF SerialInv
<1>7. CASE \E s \in Stream : Drain(s)
  <2>1. PICK s \in Stream : Drain(s)  BY <1>7
  <2>2. \A u \in Stream : queue'[u] # << >> => queue[u] # << >>
    BY <1>1, <2>1, DrainFacts
  <2>3. UNCHANGED <<cur, stream>>  BY <2>1 DEF Drain
  <2>. QED  BY <1>2, <2>2, <2>3
<1>. QED  BY <1>3, <1>4, <1>5, <1>6, <1>7, StepKinds

\* A call whose last operation is queued stays in that state.
LEMMA OverKept ==
    ASSUME HybridInv, [Next]_vars, NEW o \in Op, status[o.call] # "free"
    PROVE  /\ Over(o) => Over(o)'
           /\ Over(o) \/ o.call = cur => Over(o)' \/ o.call = cur' \/ (Put /\ step = "trsm")
<1>1. o.call \in Launch /\ o.call # 0  BY DEF Op, Launch
<1>2. CallTyped /\ CallInv  BY Types DEF HybridInv
<1>3. CASE Construct \/ Destroy \/ Advance \/ UNCHANGED vars
  BY <1>3, DestroyFacts DEF Construct, Advance, vars, caller, Over
<1>4. CASE LaunchNothing
  BY <1>1, <1>2, <1>4, NothingFacts DEF Over, CallTyped
<1>5. CASE EnterLaunch
  <2>1. cur = 0 /\ status'[o.call] = status[o.call]
    BY <1>1, <1>2, <1>5, EnterFacts DEF CallTyped
  <2>. QED  BY <1>1, <2>1 DEF Over
<1>6. CASE Throw
  <2>1. cur \in Launch  BY <1>2, <1>6, RunningCall DEF Throw
  <2>2. status' = [status EXCEPT ![cur] = "error"]  BY <1>6 DEF Throw
  <2>. QED  BY <1>1, <1>2, <2>1, <2>2 DEF Over, CallTyped
<1>7. CASE Put
  <2>1. cur \in Launch /\ status[cur] = "running"
    BY <1>2, <1>7, RunningCall DEF Put, Enqueuing, CallInv, Launch
  <2>2. status'[o.call] = status[o.call] \/ o.call = cur
    BY <1>1, <1>2, <1>7, <2>1 DEF Put, CallTyped
  <2>3. Over(o) => Over(o)'  BY <2>1, <2>2 DEF Over
  <2>4. cur' = cur \/ step = "trsm"  BY <1>7 DEF Put
  <2>. QED  BY <1>7, <2>3, <2>4
<1>8. CASE \E s \in Stream : Drain(s)  BY <1>8 DEF Drain, Over
<1>. QED  BY <1>3, <1>4, <1>5, <1>6, <1>7, <1>8, StepKinds

\* Every step keeps the operations of a launch in the order of its stages, with
\* nothing of another launch between them.
LEMMA ChainStep ==
    ASSUME HybridInv, SerialInv, ChainInv, HostInv, ~dead', [Next]_vars
    PROVE  ChainInv'
<1>1. /\ CallTyped /\ QueueTyped /\ ScratchTyped /\ CallInv /\ QueueInv
      /\ base \in 0 .. MaxLaunches
  BY Types DEF HybridInv, ScratchTyped
<1>. SUFFICES ASSUME NEW s \in Stream, NEW i \in 1 .. Len(queue'[s]), NEW o, NEW p,
                     o = queue'[s][i], p = queue'[s][i + 1]
              PROVE  /\ i < Len(queue'[s]) => Linked(o, p)'
                     /\ i = Len(queue'[s]) => Ends(o)'
  BY DEF ChainInv, Linked, Ends, Over
<1>2. queue[s] \in Seq(Op) /\ Len(queue[s]) \in Nat  BY <1>1, LenProperties DEF QueueTyped
<1>3. ASSUME NEW j \in 1 .. Len(queue[s]), NEW a, a = queue[s][j]
      PROVE  /\ a \in Op
             /\ Growing \/ step = "reduce" => a.call # cur
             /\ j = Len(queue[s]) => Ends(a)
             /\ Over(a) => Over(a)'
             /\ Ends(a) => Ends(a)' \/ (Put /\ step = "trsm")
             /\ j < Len(queue[s]) => \A b : b = queue[s][j + 1] => Linked(a, b)'
  <2>1. a \in Op /\ status[a.call] # "free" /\ (Growing \/ step = "reduce" => a.call # cur)
    BY <1>1, <1>3, QueuedTyped DEF QueueInv
  <2>2. /\ Over(a) => Over(a)'
        /\ Ends(a) => Ends(a)' \/ (Put /\ step = "trsm")
    BY <2>1, OverKept DEF Ends
  <2>3. ASSUME NEW b, b = queue[s][j + 1], j < Len(queue[s]) PROVE Linked(a, b)'
    <3>1. Linked(a, b)  BY <1>3, <2>3 DEF ChainInv
    <3>. QED  BY <2>2, <3>1 DEF Linked
  <2>4. j = Len(queue[s]) => Ends(a)  BY <1>3 DEF ChainInv
  <2>. QED  BY <2>1, <2>2, <2>3, <2>4
<1>4. CASE queue'[s] = queue[s] /\ ~(Put /\ step = "trsm")
  BY <1>3, <1>4
<1>5. CASE \/ Construct \/ Destroy \/ LaunchNothing \/ EnterLaunch \/ Advance \/ Throw
           \/ UNCHANGED vars
  <2>1. queue' = queue
    BY <1>5, DestroyFacts, NothingFacts, EnterFacts DEF Construct, Advance, Throw, vars
  <2>2. ~Put
    <3>1. CASE Put
      <4>1. queue'[stream[cur]] = Append(queue[stream[cur]], [op |-> step, call |-> cur, base |-> base])
            /\ queue[stream[cur]] \in Seq(Op)
            /\ [op |-> step, call |-> cur, base |-> base] \in Op
        BY <1>1, <3>1, PutFacts DEF QueueTyped
      <4>2. Len(queue'[stream[cur]]) = Len(queue[stream[cur]]) + 1
            /\ Len(queue[stream[cur]]) \in Nat
        BY <4>1, Appended, LenProperties
      <4>. QED  BY <2>1, <4>2
    <3>. QED  BY <3>1
  <2>. QED  BY <1>4, <2>1, <2>2
<1>6. CASE Put
  <2>. DEFINE e == [op |-> step, call |-> cur, base |-> base]
  <2>1. /\ stream[cur] \in Stream /\ e \in Op /\ cur \in Launch
        /\ queue'[stream[cur]] = Append(queue[stream[cur]], e)
        /\ \A u \in Stream : u # stream[cur] => queue'[u] = queue[u]
        /\ e.op = step /\ e.call = cur /\ e.base = base
    BY <1>1, <1>6, PutFacts
  <2>. HIDE DEF e
  <2>2. s = stream[cur]
    <3>1. CASE s # stream[cur]
      <4>1. queue'[s] = queue[s]  BY <2>1, <3>1
      <4>2. queue[s] = << >>  BY <2>1, <3>1 DEF SerialInv, Launch
      <4>. QED  BY <4>1, <4>2, EmptySeq
    <3>. QED  BY <3>1
  <2>3. /\ Len(queue'[s]) = Len(queue[s]) + 1
        /\ \A j \in 1 .. Len(queue[s]) : queue'[s][j] = queue[s][j]
        /\ queue'[s][Len(queue[s]) + 1] = e
    BY <1>2, <2>1, <2>2, Appended, SMTT(30)
  <2>4. CASE i = Len(queue'[s])
    <3>1. o = e  BY <1>2, <2>3, <2>4
    <3>2. cur' = cur \/ step = "trsm"  BY <1>6 DEF Put
    <3>. QED  BY <1>2, <2>1, <2>4, <3>1, <3>2 DEF Ends, Over
  <2>5. CASE i < Len(queue[s])
    <3>1. i \in 1 .. Len(queue[s]) /\ i + 1 \in 1 .. Len(queue[s])  BY <1>2, <2>5
    <3>2. o = queue[s][i] /\ p = queue[s][i + 1]  BY <2>3, <3>1
    <3>. QED  BY <1>2, <1>3, <2>3, <2>5, <3>1, <3>2
  <2>6. CASE i = Len(queue[s])
    <3>1. i \in 1 .. Len(queue[s]) /\ o = queue[s][i] /\ p = e  BY <1>2, <2>3, <2>6
    <3>2. Linked(o, p)'
      <4>1. CASE step = "reduce"
        <5>1. Over(o)  BY <1>3, <2>6, <3>1, <4>1 DEF Ends
        <5>. QED  BY <1>3, <2>1, <3>1, <4>1, <5>1 DEF Linked
      <4>2. CASE step # "reduce"
        <5>1. Enqueuing /\ queue[stream[cur]] # << >>
          BY <1>2, <1>6, <2>2, <3>1, EmptySeq DEF Put
        <5>2. o.call = cur /\ o.base = base /\ Follows(o.op, step)
          BY <2>2, <2>6, <3>1, <4>2, <5>1 DEF HostInv
        <5>. QED  BY <2>1, <3>1, <5>2 DEF Linked
      <4>. QED  BY <4>1, <4>2
    <3>. QED  BY <1>2, <2>3, <2>6, <3>2
  <2>. QED  BY <1>2, <2>3, <2>4, <2>5, <2>6
<1>7. ASSUME NEW u \in Stream, Drain(u)
      PROVE  /\ i < Len(queue'[s]) => Linked(o, p)'
             /\ i = Len(queue'[s]) => Ends(o)'
  <2>1. cur' = cur /\ step' = step /\ status' = status  BY <1>7 DEF Drain
  <2>2. queue'[s] # << >>  BY EmptySeq
  <2>3. CASE u = s
    <3>1. queue'[s] = Tail(queue[s]) /\ queue[s] # << >>
      BY <1>1, <1>7, <2>2, <2>3, DrainFacts
    <3>2. /\ Len(queue'[s]) = Len(queue[s]) - 1
          /\ \A j \in 1 .. Len(queue'[s]) : queue'[s][j] = queue[s][j + 1]
      BY <1>2, <3>1, Shortened
    <3>3. i + 1 \in 1 .. Len(queue[s]) /\ o = queue[s][i + 1]  BY <1>2, <3>2
    <3>4. CASE i < Len(queue'[s])
      <4>1. i \in Nat /\ Len(queue'[s]) \in Nat  BY <1>2, <3>2
      <4>2. i + 1 \in 1 .. Len(queue'[s])  BY <3>4, <4>1
      <4>3. p = queue[s][(i + 1) + 1]  BY <3>2, <4>2
      <4>4. i + 1 < Len(queue[s])  BY <1>2, <3>2, <3>4
      <4>5. Linked(o, p)'  BY <1>3, <3>3, <4>3, <4>4
      <4>. QED  BY <1>2, <3>2, <3>4, <4>5
    <3>5. CASE i = Len(queue'[s])
      <4>1. i + 1 = Len(queue[s])  BY <1>2, <3>2, <3>5
      <4>2. Ends(o)  BY <1>3, <3>3, <4>1
      <4>. QED  BY <1>2, <2>1, <3>2, <3>5, <4>2 DEF Ends, Over
    <3>. QED  BY <1>2, <3>2, <3>4, <3>5
  <2>4. CASE u # s
    <3>1. queue'[s] = queue[s]  BY <1>1, <1>7, <2>2, <2>4, DrainFacts
    <3>2. CASE i < Len(queue'[s])  BY <1>2, <1>3, <3>1, <3>2
    <3>3. CASE i = Len(queue'[s])
      <4>1. Ends(o)  BY <1>3, <3>1, <3>3
      <4>. QED  BY <1>2, <2>1, <3>1, <3>3, <4>1 DEF Ends, Over
    <3>. QED  BY <1>2, <3>1, <3>2, <3>3
  <2>. QED  BY <2>3, <2>4
<1>. QED  BY <1>5, <1>6, <1>7, StepKinds

-----------------------------------------------------------------------------
\* What the device has done.

\* Writing into a buffer reaches each slot of the batch.
LEMMA FilledSlots ==
    ASSUME NEW S, NEW buf \in Seq(S), NEW b \in Nat, NEW v \in S,
           NEW new, new = Fill(buf, b, v), b <= Len(buf)
    PROVE  b <= Len(new) /\ \A i \in 1 .. b : new[i] = v
<1>1. Len(buf) \in Nat /\ DOMAIN buf = 1 .. Len(buf)  BY LenProperties
<1>2. Len(new) = Len(buf)  BY Filling
<1>3. \A i \in 1 .. b : i \in DOMAIN buf /\ i <= b  BY <1>1
<1>. QED  BY <1>1, <1>2, <1>3 DEF Fill

\* What an operation needs to find stays as long as nobody writes it.
LEMMA ReadyFrame ==
    ASSUME NEW l, NEW k, Ready(l, k), batch'[l] = batch[l],
           UNCHANGED <<base, lbuf, out, failed, info>>,
           k \in {"copyU", "trsm"} => UNCHANGED lptrs,
           k = "trsm" => UNCHANGED uptrs
    PROVE  Ready(l, k)'
BY DEF Ready, Filled, Told

\* The host's steps leave what the device has done for a call in the queues.
LEMMA ReadyKept ==
    ASSUME HybridInv, [Next]_vars, NEW l \in Launch, NEW k,
           status[l] # "free", batch[l] \in Nat, batch[l] > 0, ~Quiet,
           k # "reduce", Ready(l, k),
           \/ Construct \/ Destroy \/ LaunchNothing \/ EnterLaunch \/ Advance \/ Throw \/ Put
           \/ UNCHANGED vars
    PROVE  Ready(l, k)' /\ base' = base
<1>1. CallTyped /\ ScratchTyped /\ HybridAssumption  BY Types, HybridAssumption DEF HybridInv
<1>2. /\ base # 0
      /\ k \in {"copyU", "trsm"} => lptrs # << >>
      /\ k = "trsm" => uptrs # << >>
  BY EmptySeq DEF Ready, Filled
<1>3. CASE Construct \/ LaunchNothing \/ Put \/ UNCHANGED vars
  <2>1. UNCHANGED <<batch, base, lbuf, lptrs, uptrs, out, failed, info>>
    BY <1>3, NothingFacts DEF Construct, Put, vars, caller, scratch, result
  <2>. QED  BY <2>1, ReadyFrame
<1>4. CASE EnterLaunch
  <2>1. UNCHANGED <<base, lbuf, lptrs, uptrs, out, failed, info>> /\ batch'[l] = batch[l]
    BY <1>1, <1>4, EnterFacts DEF CallTyped
  <2>. QED  BY <2>1, ReadyFrame
<1>5. CASE Destroy  BY <1>2, <1>5, DestroyFacts
<1>6. CASE Advance \/ Throw
  <2>1. UNCHANGED <<batch, out, failed, info>>  BY <1>6 DEF Advance, Throw
  <2>2. /\ UNCHANGED <<base, lbuf>>
        /\ k \in {"copyU", "trsm"} => UNCHANGED lptrs
        /\ k = "trsm" => UNCHANGED uptrs
    BY <1>1, <1>2, <1>6, GrowthFacts
  <2>. QED  BY <2>1, <2>2, ReadyFrame
<1>. QED  BY <1>3, <1>4, <1>5, <1>6

\* An operation that runs when the device is ready for it makes the device ready
\* for the next one of its call; the last one leaves the result.
LEMMA RunEffect ==
    ASSUME HybridInv, NEW s \in Stream, Run(s), ~dead',
           NEW h, h = Head(queue[s]), NEW l, l = h.call,
           h.op # "reduce" => Ready(l, h.op) /\ h.base = base
    PROVE  /\ h \in Op /\ h.base = base /\ base' = base /\ batch' = batch
           /\ \A k : Follows(h.op, k) => Ready(l, k)'
           /\ \A m \in Launch \ {l} :
                 out'[m] = out[m] /\ failed'[m] = failed[m] /\ info'[m] = info[m]
           /\ h.op = "trsm" => out'[l] = "U" /\ Told(l)'
<1>1. /\ CallTyped /\ QueueTyped /\ ScratchTyped /\ ResultTyped /\ QueueInv
  BY Types DEF HybridInv
<1>2. queue[s] # << >> /\ UNCHANGED <<base, batch>>  BY DrainSteps DEF Drain
<1>3. h \in Op /\ h = queue[s][1] /\ 1 \in 1 .. Len(queue[s])
  BY <1>1, <1>2, Shortened, LenProperties DEF QueueTyped
<1>4. l \in Launch  BY <1>3 DEF Op
<1>5. batch[l] \in Nat /\ batch[l] > 0  BY <1>1, <1>3, <1>4 DEF QueueInv, CallTyped
<1>. DEFINE Slots == 0 .. MaxLaunches
<1>6. /\ lbuf \in Seq(Slots) /\ lptrs \in Seq(Slots) /\ uptrs \in Seq(Slots)
      /\ l \in Slots /\ h.base \in Slots
  BY <1>1, <1>3, <1>4 DEF ScratchTyped, Op, Launch
<1>. HIDE DEF Slots
<1>7. Len(lbuf) \in Nat /\ Len(lptrs) \in Nat /\ Len(uptrs) \in Nat
  BY <1>6, LenProperties
<1>8. CASE RunReduce(s)
  <2>1. PICK f \in {{}, {"potrf"}} :
           /\ h.op = "reduce" /\ Valid(h)
           /\ lbuf' = Fill(lbuf, batch[l], l)
           /\ out' = [out EXCEPT ![l] = "M"]
           /\ failed' = [failed EXCEPT ![l] = f]
           /\ info' = [info EXCEPT ![l] = f]
    BY <1>8 DEF RunReduce, Starts
  <2>2. h.base # 0 /\ h.base = base /\ batch[l] <= Len(lbuf)  BY <2>1 DEF Valid
  <2>3. out'[l] = "M" /\ failed'[l] = f
    BY <1>1, <1>4, <2>1 DEF ResultTyped
  <2>4. Filled(lbuf, l, l)'
    <3>1. batch[l] <= Len(lbuf') /\ \A i \in 1 .. batch[l] : lbuf'[i] = l
      BY <1>5, <1>6, <2>1, <2>2, FilledSlots
    <3>. QED  BY <1>2, <3>1 DEF Filled
  <2>5. Ready(l, "eig")'
    BY <1>2, <2>2, <2>3, <2>4 DEF Ready
  <2>. QED  BY <1>1, <1>2, <1>3, <2>1, <2>2, <2>5 DEF Follows, ResultTyped
<1>9. CASE RunEig(s)
  <2>1. PICK f \in {{}, {"xsyev"}} :
           /\ h.op = "eig"
           /\ out' = [out EXCEPT ![l] = IF @ = "M" THEN "V" ELSE "junk"]
           /\ failed' = [failed EXCEPT ![l] = @ \cup f]
           /\ info' = [info EXCEPT ![l] = f]
           /\ UNCHANGED <<lbuf, lptrs, uptrs>>
    BY <1>9 DEF RunEig, Starts, scratch
  <2>2. /\ base # 0 /\ Filled(lbuf, l, l) /\ out[l] = "M" /\ "xsyev" \notin failed[l]
        /\ h.base = base
    BY <2>1 DEF Ready
  <2>3. out'[l] = "V" /\ failed'[l] = failed[l] \cup f /\ info'[l] = f
    BY <1>1, <1>4, <2>1, <2>2 DEF ResultTyped
  <2>4. Told(l)'  BY <2>2, <2>3 DEF Told
  <2>5. Filled(lbuf, l, l)'  BY <1>2, <2>1, <2>2 DEF Filled
  <2>6. Ready(l, "copyL")'  BY <1>2, <2>2, <2>3, <2>4, <2>5 DEF Ready
  <2>. QED  BY <1>1, <1>2, <1>3, <2>1, <2>2, <2>6 DEF Follows, ResultTyped
<1>10. CASE RunCopyL(s)
  <2>1. /\ h.op = "copyL" /\ Valid(h)
        /\ lptrs' = Fill(lptrs, batch[l], h.base)
        /\ UNCHANGED <<lbuf, uptrs, out, failed, info>>
    BY <1>10 DEF RunCopyL, Starts, result
  <2>2. h.base = base /\ Ready(l, "copyL")  BY <2>1
  <2>3. Filled(lptrs, l, base)'
    <3>1. batch[l] <= Len(lptrs) /\ lptrs' = Fill(lptrs, batch[l], h.base)
      BY <2>1 DEF Valid
    <3>2. batch[l] <= Len(lptrs') /\ \A i \in 1 .. batch[l] : lptrs'[i] = h.base
      BY <1>5, <1>6, <3>1, FilledSlots, SMTT(30)
    <3>. QED  BY <1>2, <2>2, <3>2 DEF Filled
  <2>4. Ready(l, "copyU")'
    BY <1>2, <2>1, <2>2, <2>3 DEF Ready, Filled, Told
  <2>. QED  BY <1>2, <1>3, <2>1, <2>2, <2>4 DEF Follows
<1>11. CASE RunCopyU(s)
  <2>1. /\ h.op = "copyU" /\ Valid(h)
        /\ uptrs' = Fill(uptrs, batch[l], l)
        /\ UNCHANGED <<lbuf, lptrs, out, failed, info>>
    BY <1>11 DEF RunCopyU, Starts, result
  <2>2. batch[l] <= Len(uptrs) /\ h.base = base /\ Ready(l, "copyU")
    BY <2>1 DEF Valid
  <2>3. Filled(uptrs, l, l)'
    <3>1. batch[l] <= Len(uptrs') /\ \A i \in 1 .. batch[l] : uptrs'[i] = l
      BY <1>5, <1>6, <2>1, <2>2, FilledSlots
    <3>. QED  BY <1>2, <3>1 DEF Filled
  <2>4. Ready(l, "trsm")'
    BY <1>2, <2>1, <2>2, <2>3 DEF Ready, Filled, Told
  <2>. QED  BY <1>2, <1>3, <2>1, <2>2, <2>4 DEF Follows
<1>12. CASE RunTrsm(s)
  <2>. DEFINE touched == {l} \cup {uptrs[i] : i \in 1 .. batch[l]}
  <2>1. /\ h.op = "trsm"
        /\ out' = [k \in Launch |-> IF k \notin touched THEN out[k]
                                    ELSE IF k = l /\ BackTransforms(l) THEN "U"
                                    ELSE "junk"]
        /\ UNCHANGED <<failed, info>>
    BY <1>12 DEF RunTrsm, Starts
  <2>2. Ready(l, "trsm") /\ h.base = base  BY <2>1
  <2>3. touched = {l} /\ BackTransforms(l) /\ Told(l)
    BY <2>2 DEF Ready, Filled, BackTransforms
  <2>. HIDE DEF touched
  <2>4. out'[l] = "U" /\ \A m \in Launch \ {l} : out'[m] = out[m]
    BY <1>4, <2>1, <2>3
  <2>. QED  BY <1>2, <1>3, <2>1, <2>2, <2>3, <2>4 DEF Follows, Told
<1>13. ~FaultOn(s)  BY DEF FaultOn
<1>. QED  BY <1>8, <1>9, <1>10, <1>11, <1>12, <1>13 DEF Run

\* Every step keeps the first operation of the queue ready: the scratch memory it
\* reads was written by its own launch.
LEMMA HeadStep ==
    ASSUME Serial, HybridInv, SerialInv, ChainInv, HeadInv, HostInv, ~dead', [Next]_vars
    PROVE  HeadInv'
<1>1. /\ CallTyped /\ QueueTyped /\ ScratchTyped /\ CallInv /\ QueueInv
      /\ base \in 0 .. MaxLaunches
  BY Types DEF HybridInv, ScratchTyped
<1>. SUFFICES ASSUME NEW s \in Stream, NEW h, h = Head(queue'[s]), queue'[s] # << >>,
                     h.op # "reduce"
              PROVE  Ready(h.call, h.op)' /\ h.base = base'
  BY DEF HeadInv, Ready, Filled, Told
<1>2. queue[s] \in Seq(Op) /\ Len(queue[s]) \in Nat  BY <1>1, LenProperties DEF QueueTyped
<1>3. ASSUME queue[s] # << >>, h = Head(queue[s]),
             \/ Construct \/ Destroy \/ LaunchNothing \/ EnterLaunch \/ Advance \/ Throw \/ Put
             \/ UNCHANGED vars
      PROVE  Ready(h.call, h.op)' /\ h.base = base'
  <2>1. h = queue[s][1] /\ 1 \in 1 .. Len(queue[s])  BY <1>2, <1>3, Shortened
  <2>2. h \in Op /\ h.call \in Launch /\ status[h.call] # "free" /\ batch[h.call] > 0
    BY <1>1, <2>1, QueuedTyped DEF QueueInv
  <2>3. batch[h.call] \in Nat /\ ~Quiet  BY <1>1, <1>3, <2>2 DEF CallTyped, Quiet
  <2>4. Ready(h.call, h.op) /\ h.base = base  BY <1>3 DEF HeadInv
  <2>. QED  BY <1>3, <2>2, <2>3, <2>4, ReadyKept
<1>4. CASE \/ Construct \/ Destroy \/ LaunchNothing \/ EnterLaunch \/ Advance \/ Throw
           \/ UNCHANGED vars
  <2>1. queue' = queue
    BY <1>4, DestroyFacts, NothingFacts, EnterFacts DEF Construct, Advance, Throw, vars
  <2>. QED  BY <1>3, <1>4, <2>1
<1>5. CASE Put
  <2>. DEFINE e == [op |-> step, call |-> cur, base |-> base]
  <2>1. /\ stream[cur] \in Stream /\ e \in Op /\ cur \in Launch
        /\ queue'[stream[cur]] = Append(queue[stream[cur]], e)
        /\ \A u \in Stream : u # stream[cur] => queue'[u] = queue[u]
        /\ e.op = step /\ e.call = cur /\ e.base = base
    BY <1>1, <1>5, PutFacts
  <2>. HIDE DEF e
  <2>2. s = stream[cur]  BY <2>1 DEF SerialInv, Launch
  <2>3. /\ Len(queue'[s]) = Len(queue[s]) + 1
        /\ \A j \in 1 .. Len(queue[s]) : queue'[s][j] = queue[s][j]
        /\ queue'[s][Len(queue[s]) + 1] = e
    BY <1>2, <2>1, <2>2, Appended
  <2>4. h = queue'[s][1]
    <3>1. queue' \in [Stream -> Seq(Op)]  BY <1>1, <1>5, PutFacts
    <3>2. queue'[s] \in Seq(Op)  BY <3>1
    <3>. QED  BY <3>2, Shortened
  <2>5. CASE queue[s] # << >>
    <3>1. Head(queue[s]) = queue[s][1] /\ 1 \in 1 .. Len(queue[s])
      BY <1>2, <2>5, Shortened
    <3>2. h = Head(queue[s])  BY <2>3, <2>4, <3>1
    <3>. QED  BY <1>3, <1>5, <2>5, <3>2
  <2>6. CASE queue[s] = << >>
    <3>1. h = e  BY <2>3, <2>4, <2>6, EmptySeq
    <3>2. Enqueuing /\ step # "reduce"  BY <1>5, <2>1, <3>1 DEF Put
    <3>3. Ready(cur, step)  BY <2>2, <2>6, <3>2 DEF HostInv
    <3>4. UNCHANGED <<batch, base, lbuf, lptrs, uptrs, out, failed, info>>
      BY <1>5 DEF Put
    <3>5. Ready(h.call, h.op)  BY <2>1, <3>1, <3>3
    <3>. QED  BY <2>1, <3>1, <3>4, <3>5, ReadyFrame
  <2>. QED  BY <2>5, <2>6
<1>6. ASSUME NEW u \in Stream, Drain(u), Run(u)
      PROVE  Ready(h.call, h.op)' /\ h.base = base'
  <2>1. queue[u] # << >>  BY <1>6 DEF Drain
  <2>2. queue[s] # << >>  BY <1>1, <1>6, DrainFacts
  <2>3. u = s  BY <2>1, <2>2 DEF SerialInv
  <2>4. queue'[s] = Tail(queue[s])  BY <1>1, <1>6, <2>3, DrainFacts
  <2>5. /\ Tail(queue[s]) \in Seq(Op) /\ Len(Tail(queue[s])) = Len(queue[s]) - 1
        /\ Head(queue[s]) = queue[s][1]
        /\ \A i \in 1 .. Len(Tail(queue[s])) : Tail(queue[s])[i] = queue[s][i + 1]
    BY <1>2, <2>2, Shortened
  <2>6. h = Tail(queue[s])[1] /\ 1 \in 1 .. Len(Tail(queue[s]))
    BY <2>4, <2>5, Shortened
  <2>7. h = queue[s][2] /\ 1 < Len(queue[s]) /\ 1 \in 1 .. Len(queue[s])
    BY <1>2, <2>5, <2>6
  <2>8. PICK g : g = Head(queue[s])  OBVIOUS
  <2>9. Linked(g, h)
    <3>1. 1 + 1 = 2  OBVIOUS
    <3>. QED  BY <2>5, <2>7, <2>8, <3>1 DEF ChainInv
  <2>10. Follows(g.op, h.op) /\ h.call = g.call /\ h.base = g.base  BY <2>9 DEF Linked
  <2>11. g.op # "reduce" => Ready(g.call, g.op) /\ g.base = base
    BY <2>2, <2>8 DEF HeadInv
  <2>12. /\ g.base = base /\ base' = base
         /\ \A k : Follows(g.op, k) => Ready(g.call, k)'
    BY <1>6, <2>3, <2>8, <2>11, RunEffect
  <2>. QED  BY <2>10, <2>12
<1>. QED  BY <1>4, <1>5, <1>6, StepKinds

\* Every step keeps the launch that is being enqueued ready for its next part.
LEMMA HostStepKeeps ==
    ASSUME Serial, HybridInv, SerialInv, ChainInv, HeadInv, HostInv, ~dead', [Next]_vars
    PROVE  HostInv'
<1>1. /\ CallTyped /\ QueueTyped /\ ScratchTyped /\ CallInv
      /\ base \in 0 .. MaxLaunches
  BY Types DEF HybridInv, ScratchTyped
<1>2. CASE step' \in {"idle", "growL", "growPtrs", "growWs", "reduce"}
  BY <1>2 DEF HostInv, Enqueuing
<1>3. CASE Construct \/ Destroy \/ LaunchNothing
  <2>1. step' = "idle"
    BY <1>1, <1>3, DestroyFacts, NothingFacts DEF Construct, CallInv, CallTyped, Enqueuing
  <2>. QED  BY <1>2, <2>1
<1>4. CASE EnterLaunch \/ Advance \/ Throw
  BY <1>2, <1>4, EnterFacts DEF Advance, Throw
<1>5. CASE Put
  <2>. DEFINE e == [op |-> step, call |-> cur, base |-> base]
  <2>1. /\ stream[cur] \in Stream /\ e \in Op /\ cur \in Launch
        /\ queue'[stream[cur]] = Append(queue[stream[cur]], e)
        /\ e.op = step /\ e.call = cur /\ e.base = base
    BY <1>1, <1>5, PutFacts
  <2>. HIDE DEF e
  <2>2. queue[stream[cur]] \in Seq(Op)  BY <1>1, <2>1 DEF QueueTyped
  <2>3. PICK q : q = queue'[stream[cur]]  OBVIOUS
  <2>4. q # << >> /\ q[Len(q)] = e
    BY <2>1, <2>2, <2>3, Appended
  <2>5. CASE Follows(step, step') /\ UNCHANGED <<cur, status>>
    <3>1. UNCHANGED <<base, stream>>  BY <1>5 DEF Put
    <3>. QED  BY <2>1, <2>3, <2>4, <2>5, <3>1 DEF HostInv
  <2>. QED  BY <1>2, <1>5, <2>5 DEF Put
<1>6. ASSUME NEW s \in Stream, Drain(s), Run(s), Enqueuing, step # "reduce"
      PROVE  HostInv'
  <2>1. UNCHANGED <<cur, step, stream, base>> /\ queue[s] # << >>  BY <1>6 DEF Drain
  <2>2. cur # 0  BY <1>1, <1>6 DEF CallTyped, Enqueuing
  <2>3. s = stream[cur]  BY <2>1, <2>2 DEF SerialInv
  <2>4. queue'[s] = Tail(queue[s])  BY <1>1, <1>6, DrainFacts
  <2>5. PICK q, r, g : q = queue[s] /\ r = queue'[s] /\ g = Head(queue[s])  OBVIOUS
  <2>6. q \in Seq(Op) /\ Len(q) \in Nat /\ q # << >> /\ r = Tail(q)
    BY <1>1, <2>1, <2>4, <2>5, LenProperties DEF QueueTyped
  <2>7. /\ r \in Seq(Op) /\ Len(r) = Len(q) - 1 /\ g = q[1]
        /\ \A i \in 1 .. Len(r) : r[i] = q[i + 1]
    BY <2>5, <2>6, Shortened
  <2>8. q[Len(q)].call = cur /\ q[Len(q)].base = base /\ Follows(q[Len(q)].op, step)
    BY <1>6, <2>1, <2>3, <2>5 DEF HostInv
  <2>9. CASE r = << >>
    <3>1. g = q[Len(q)]
      <4>1. Len(r) = 0  BY <2>9, EmptySeq
      <4>2. Len(q) = 1  BY <2>6, <2>7, <4>1
      <4>. QED  BY <2>7, <4>2
    <3>2. g.op # "reduce" => Ready(g.call, g.op) /\ g.base = base
      BY <2>1, <2>5 DEF HeadInv
    <3>3. \A k : Follows(g.op, k) => Ready(g.call, k)'
      BY <1>6, <2>5, <3>2, RunEffect
    <3>4. PICK c, k : c = cur /\ k = step  OBVIOUS
    <3>5. Ready(c, k)'  BY <2>8, <3>1, <3>3, <3>4
    <3>6. Ready(cur, step)'  BY <2>1, <3>4, <3>5 DEF Ready, Filled, Told
    <3>. QED  BY <2>1, <2>3, <2>5, <2>9, <3>6 DEF HostInv
  <2>10. CASE r # << >>
    <3>1. Len(r) > 0 /\ Len(r) \in Nat  BY <2>7, <2>10, EmptySeq
    <3>2. r[Len(r)] = q[Len(q)]  BY <2>6, <2>7, <3>1
    <3>. QED  BY <2>1, <2>3, <2>5, <2>8, <2>10, <3>2 DEF HostInv
  <2>. QED  BY <2>9, <2>10
<1>7. CASE \E s \in Stream : Drain(s) /\ Run(s)
  <2>1. CASE Enqueuing /\ step # "reduce"  BY <1>6, <1>7, <2>1
  <2>2. CASE ~(Enqueuing /\ step # "reduce")
    BY <1>7, <2>2 DEF Drain, HostInv, Enqueuing
  <2>. QED  BY <2>1, <2>2
<1>8. CASE UNCHANGED vars
  BY <1>8 DEF vars, caller, scratch, result, HostInv, Enqueuing, Ready, Filled, Told
<1>. QED  BY <1>3, <1>4, <1>5, <1>7, <1>8, StepKinds

\* Every step keeps the results and verdicts of launches whose operations are gone.
LEMMA ResultKeeps ==
    ASSUME Serial, HybridInv, SerialInv, ChainInv, HeadInv, ResultInv, ~dead', [Next]_vars
    PROVE  ResultInv'
<1>1. /\ CallTyped /\ QueueTyped /\ ScratchTyped /\ CallInv
      /\ base \in 0 .. MaxLaunches
  BY Types DEF HybridInv, ScratchTyped
<1>. SUFFICES ASSUME NEW m \in Launch, status'[m] = "ok", batch'[m] > 0, Gone(m)'
              PROVE  out'[m] = "U" /\ Told(m)'
  BY DEF ResultInv, Gone, Told
<1>2. CASE status[m] = "ok" /\ batch[m] > 0 /\ Gone(m) /\ UNCHANGED <<out, failed, info>>
  BY <1>2 DEF ResultInv, Told
<1>3. CASE Construct \/ Destroy \/ Advance \/ UNCHANGED vars
  <2>1. UNCHANGED <<status, batch, queue, out, failed, info>>
    BY <1>3, DestroyFacts DEF Construct, Advance, vars, caller, result
  <2>. QED  BY <1>2, <2>1 DEF Gone
<1>4. CASE LaunchNothing
  <2>1. PICK l \in Launch : /\ status[l] = "free" /\ status' = [status EXCEPT ![l] = "ok"]
                            /\ UNCHANGED <<batch, queue, out, failed, info>>
    BY <1>4, NothingFacts
  <2>2. m # l  BY <1>1, <2>1 DEF CallInv
  <2>3. status[m] = "ok"  BY <1>1, <2>1, <2>2 DEF CallTyped
  <2>. QED  BY <1>2, <2>1, <2>3 DEF Gone
<1>5. CASE EnterLaunch
  <2>1. PICK l \in Launch, b \in 1 .. MaxBatch :
           /\ status' = [status EXCEPT ![l] = "running"] /\ batch' = [batch EXCEPT ![l] = b]
           /\ UNCHANGED <<queue, out, failed, info>>
    BY <1>5, EnterFacts
  <2>2. status[m] = "ok" /\ batch[m] > 0  BY <1>1, <2>1 DEF CallTyped
  <2>. QED  BY <1>2, <2>1, <2>2 DEF Gone
<1>6. CASE Throw
  <2>1. status' = [status EXCEPT ![cur] = "error"] /\ UNCHANGED <<batch, queue, out, failed, info>>
    BY <1>6 DEF Throw
  <2>2. status[m] = "ok"  BY <1>1, <2>1 DEF CallTyped
  <2>. QED  BY <1>2, <2>1, <2>2 DEF Gone
<1>7. CASE Put
  <2>. DEFINE e == [op |-> step, call |-> cur, base |-> base]
  <2>1. /\ stream[cur] \in Stream /\ e \in Op /\ cur \in Launch
        /\ queue'[stream[cur]] = Append(queue[stream[cur]], e)
        /\ \A u \in Stream : u # stream[cur] => queue'[u] = queue[u]
        /\ e.call = cur
        /\ UNCHANGED <<batch, out, failed, info>>
    BY <1>1, <1>7, PutFacts DEF Put
  <2>. HIDE DEF e
  <2>2. queue[stream[cur]] \in Seq(Op)  BY <1>1, <2>1 DEF QueueTyped
  <2>3. PICK t, n : t = stream[cur] /\ n = Len(queue[t])  OBVIOUS
  <2>4. /\ n \in Nat /\ Len(queue'[t]) = n + 1 /\ queue'[t][n + 1] = e
        /\ \A i \in 1 .. n : queue'[t][i] = queue[t][i]
    BY <2>1, <2>2, <2>3, Appended, LenProperties
  <2>5. m # cur  BY <2>1, <2>3, <2>4 DEF Gone
  <2>6. status[m] = "ok"  BY <1>1, <1>7, <2>5 DEF Put, CallTyped
  <2>7. Gone(m)
    <3>1. ASSUME NEW u \in Stream, NEW i \in 1 .. Len(queue[u]) PROVE queue[u][i].call # m
      <4>1. CASE u = t
        <5>1. i \in 1 .. n /\ i \in 1 .. Len(queue'[u])  BY <2>3, <2>4, <4>1
        <5>2. queue'[u][i] = queue[u][i]  BY <2>4, <4>1, <5>1
        <5>. QED  BY <5>1, <5>2 DEF Gone
      <4>2. CASE u # t  BY <2>1, <2>3, <4>2 DEF Gone
      <4>. QED  BY <4>1, <4>2
    <3>. QED  BY <3>1 DEF Gone
  <2>. QED  BY <1>2, <2>1, <2>6, <2>7
<1>8. ASSUME NEW s \in Stream, Drain(s), Run(s)
      PROVE  out'[m] = "U" /\ Told(m)'
  <2>1. /\ UNCHANGED <<cur, status, batch>> /\ queue[s] # << >>
        /\ queue'[s] = Tail(queue[s])
        /\ \A u \in Stream : u # s => queue'[u] = queue[u]
    BY <1>1, <1>8, DrainFacts DEF Drain
  <2>2. PICK q, r, h : q = queue[s] /\ r = queue'[s] /\ h = Head(queue[s])  OBVIOUS
  <2>3. q \in Seq(Op) /\ Len(q) \in Nat /\ q # << >> /\ r = Tail(q)
    BY <1>1, <2>1, <2>2, LenProperties DEF QueueTyped
  <2>4. /\ r \in Seq(Op) /\ Len(r) = Len(q) - 1 /\ h = q[1] /\ h \in Op /\ Len(q) > 0
        /\ \A i \in 1 .. Len(r) : r[i] = q[i + 1]
    BY <2>2, <2>3, Shortened
  <2>5. h.op # "reduce" => Ready(h.call, h.op) /\ h.base = base
    BY <2>1, <2>2 DEF HeadInv
  <2>6. /\ \A k \in Launch \ {h.call} :
              out'[k] = out[k] /\ failed'[k] = failed[k] /\ info'[k] = info[k]
        /\ h.op = "trsm" => out'[h.call] = "U" /\ Told(h.call)'
    BY <1>8, <2>2, <2>5, RunEffect
  <2>7. CASE m = h.call
    <3>1. Over(h)
      <4>1. CASE Len(q) = 1
        <5>1. Ends(h)  BY <2>2, <2>4, <4>1 DEF ChainInv
        <5>2. cur # m  BY <1>1, <2>1 DEF CallInv, Launch
        <5>. QED  BY <2>7, <5>1, <5>2 DEF Ends
      <4>2. CASE Len(q) > 1
        <5>1. Linked(h, q[2])
          <6>1. 1 + 1 = 2 /\ 1 \in 1 .. Len(q)  BY <2>3, <2>4
          <6>. QED  BY <2>2, <2>4, <4>2, <6>1 DEF ChainInv
        <5>2. 1 \in 1 .. Len(r) /\ r[1] = q[2]  BY <2>3, <2>4, <4>2
        <5>3. q[2].call # m  BY <2>2, <5>2 DEF Gone
        <5>. QED  BY <2>7, <5>1, <5>3 DEF Linked
      <4>. QED  BY <2>3, <2>4, <4>1, <4>2
    <3>2. h.op = "trsm"  BY <2>1, <2>7, <3>1 DEF Over
    <3>. QED  BY <2>6, <2>7, <3>2
  <2>8. CASE m # h.call
    <3>1. ASSUME NEW u \in Stream, NEW i \in 1 .. Len(queue[u]) PROVE queue[u][i].call # m
      <4>1. CASE u = s
        <5>1. CASE i = 1  BY <2>2, <2>4, <2>8, <4>1, <5>1
        <5>2. CASE i # 1
          <6>1. i - 1 \in 1 .. Len(r) /\ (i - 1) + 1 = i  BY <2>2, <2>3, <2>4, <4>1, <5>2
          <6>2. r[i - 1] = q[i]  BY <2>4, <6>1
          <6>3. r[i - 1].call # m  BY <2>2, <6>1 DEF Gone
          <6>. QED  BY <2>2, <4>1, <6>2, <6>3
        <5>. QED  BY <5>1, <5>2
      <4>2. CASE u # s  BY <2>1, <4>2 DEF Gone
      <4>. QED  BY <4>1, <4>2
    <3>2. Gone(m)  BY <3>1 DEF Gone
    <3>3. out[m] = "U" /\ Told(m)  BY <2>1, <3>2 DEF ResultInv
    <3>. QED  BY <2>6, <2>8, <3>3 DEF Told
  <2>. QED  BY <2>7, <2>8
<1>. QED  BY <1>3, <1>4, <1>5, <1>6, <1>7, <1>8, StepKinds

-----------------------------------------------------------------------------
\* The order is an invariant too.

\* The ordering invariant holds for a solver that has not been launched.
LEMMA OrderInit == HybridAssumption /\ Init => OrderInv
<1>. SUFFICES ASSUME HybridAssumption, Init PROVE OrderInv
  OBVIOUS
<1>1. \A s \in Stream : queue[s] = << >> /\ Len(queue[s]) = 0  BY EmptySeq DEF Init
<1>2. step = "idle" /\ cur = 0 /\ status = [l \in Launch |-> "free"]  BY DEF Init
<1>3. SerialInv  BY <1>1 DEF SerialInv
<1>4. ChainInv /\ HeadInv  BY <1>1 DEF ChainInv, HeadInv
<1>5. HostInv  BY <1>2 DEF HostInv, Enqueuing
<1>6. ResultInv  BY <1>2 DEF ResultInv
<1>. QED  BY <1>3, <1>4, <1>5, <1>6 DEF OrderInv

\* Every step preserves the ordering invariant, or faults the context.
LEMMA OrderStep ==
    ASSUME Serial, HybridInv, OrderInv, [Next]_vars
    PROVE  OrderInv'
<1>1. SerialInv /\ SerialInv'  BY SerialStep DEF OrderInv
<1>2. ~dead' => ~dead
  BY StepKinds, DestroyFacts, NothingFacts, EnterFacts
  DEF Construct, Advance, Throw, Put, Drain, vars
<1>3. ASSUME ~dead' PROVE (ChainInv /\ HeadInv /\ HostInv /\ ResultInv)'
  <2>1. ChainInv /\ HeadInv /\ HostInv /\ ResultInv  BY <1>2, <1>3 DEF OrderInv
  <2>2. ChainInv'  BY <1>1, <1>3, <2>1, ChainStep
  <2>3. HeadInv'  BY <1>1, <1>3, <2>1, HeadStep
  <2>4. HostInv'  BY <1>1, <1>3, <2>1, HostStepKeeps
  <2>5. ResultInv'  BY <1>1, <1>3, <2>1, ResultKeeps
  <2>. QED  BY <2>2, <2>3, <2>4, <2>5
<1>. QED  BY <1>1, <1>3 DEF OrderInv

\* A launch whose results were delivered has no operation left in a queue.
LEMMA DeliveredGone ==
    ASSUME HybridInv, NEW l \in Launch, Delivered(l)
    PROVE  Gone(l)
<1>1. QueueTyped  BY Types DEF HybridInv
<1>2. ASSUME NEW s \in Stream, NEW i \in 1 .. Len(queue[s]) PROVE queue[s][i].call # l
  <2>1. i \in DOMAIN queue[s]  BY <1>1, LenProperties DEF QueueTyped
  <2>. QED  BY <2>1 DEF Queued, Delivered
<1>. QED  BY <1>2 DEF Gone

\* Where the caller joins its streams, OrderInv holds in every reachable state.
THEOREM OrderInvariant ==
    ASSUME Serial
    PROVE  Spec => []OrderInv
<1>1. Init => OrderInv  BY OrderInit, HybridAssumption
<1>2. HybridInv /\ OrderInv /\ [Next]_vars => OrderInv'  BY OrderStep
<1>. QED  BY <1>1, <1>2, HybridInvariant, PTL DEF Spec

\* Where the caller joins a stream before it uses another, every call that
\* returned and whose operations have run holds the eigenvectors of its own
\* problems, whatever failed or was launched before, after or in between.
THEOREM ResultsAreOwn ==
    ASSUME Serial
    PROVE  Spec => []ResultOwn
<1>1. HybridInv /\ OrderInv => ResultOwn
  <2>. SUFFICES ASSUME HybridInv, OrderInv, ~dead, NEW l \in Launch, Delivered(l)
                PROVE  out[l] = "U"
    BY DEF ResultOwn
  <2>1. Gone(l)  BY DeliveredGone
  <2>. QED  BY <2>1 DEF OrderInv, ResultInv, Delivered
<1>. QED  BY <1>1, HybridInvariant, OrderInvariant, PTL

\* Where the caller joins its streams, the info words of a call whose operations
\* have run tell whether the eigensolver failed, and no other call's verdict takes
\* their place.
THEOREM VerdictsAreOwn ==
    ASSUME Serial
    PROVE  Spec => []XsyevFailureTold
<1>1. HybridInv /\ OrderInv => XsyevFailureTold
  <2>. SUFFICES ASSUME HybridInv, OrderInv, ~dead, NEW l \in Launch, Delivered(l)
                PROVE  Told(l)
    BY DEF XsyevFailureTold, Told
  <2>1. Gone(l)  BY DeliveredGone
  <2>. QED  BY <2>1 DEF OrderInv, ResultInv, Delivered
<1>. QED  BY <1>1, HybridInvariant, OrderInvariant, PTL

\* Where the caller joins its streams, no two operations that may run at the same
\* time touch the same scratch memory or the same result.
THEOREM NoRaceOnScratch ==
    ASSUME Serial
    PROVE  Spec => []NoScratchRace
<1>1. OrderInv => NoScratchRace  BY DEF OrderInv, SerialInv, NoScratchRace
<1>. QED  BY <1>1, OrderInvariant, PTL
=============================================================================
