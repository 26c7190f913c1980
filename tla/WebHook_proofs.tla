--------------------------- MODULE WebHook_proofs ---------------------------
(***************************************************************************)
(* The bounds, the order and the losses of a webhook queue, for any        *)
(* initial capacity and any number of events.                              *)
(***************************************************************************)
EXTENDS WebHook, SequenceTheorems, TLAPS

\* What the thread has read stays true of the moment it read it, and that is
\* enough to bound what it does later: the capacity it halves was more than
\* twice a length that was itself more than twice the initial capacity.
ReadInv ==
    /\ pc \in {"capacity", "resize"} => seenLen > 2 * InitCap
    /\ pc = "resize" => seenCap > 2 * seenLen

BoundInv == TypeOK /\ ReadInv /\ QueueFits

\* A resize keeps a prefix of the queue, all of it when it fits.
LEMMA KeptIsPrefix ==
    ASSUME NEW S, NEW q \in Seq(S), NEW c \in Nat
    PROVE  /\ Kept(q, c) \in Seq(S)
           /\ Len(Kept(q, c)) <= c
           /\ Len(Kept(q, c)) <= Len(q)
           /\ \A i \in 1..Len(Kept(q, c)) : Kept(q, c)[i] = q[i]
           /\ Len(q) <= c => Kept(q, c) = q
<1>1. CASE Len(q) <= c
  BY <1>1 DEF Kept
<1>2. CASE Len(q) > c
  <2>1. Kept(q, c) = SubSeq(q, 1, c) /\ c \in 0..Len(q)
    BY <1>2 DEF Kept
  <2> QED  BY <1>2, <2>1
<1> QED  BY <1>1, <1>2

LEMMA BoundInit == Init => BoundInv
BY WebHookAssumption DEF Init, BoundInv, TypeOK, ReadInv, QueueFits, Places

LEMMA BoundStep == BoundInv /\ [Next]_vars => BoundInv'
<1> SUFFICES ASSUME BoundInv, [Next]_vars PROVE BoundInv'
  OBVIOUS
<1> USE WebHookAssumption DEF BoundInv, TypeOK, ReadInv, QueueFits, Places, Goes
<1>1. CASE UNCHANGED vars
  BY <1>1 DEF vars, queue, local
<1>2. CASE RecvGrows
  <2>1. pushed + 1 \in 1..MaxEvents /\ cap \div 2 \in Nat /\ cap \div 2 >= 1
    BY <1>2 DEF RecvGrows
  <2>2. lmq' \in Seq(1..MaxEvents) /\ Len(lmq') = Len(lmq) + 1
    BY <1>2, <2>1 DEF RecvGrows
  <2> QED  BY <1>2, <2>1, <2>2 DEF RecvGrows, local
<1>3. CASE RecvNoMemory
  BY <1>3 DEF RecvNoMemory, Fails, queue, local
<1>4. CASE RecvPuts
  <2>1. pushed + 1 \in 1..MaxEvents
    BY <1>4 DEF RecvPuts
  <2>2. lmq' \in Seq(1..MaxEvents) /\ Len(lmq') = Len(lmq) + 1
    BY <1>4, <2>1 DEF RecvPuts
  <2> QED  BY <1>4, <2>1, <2>2 DEF RecvPuts, Full, local
<1>5. CASE Test
  BY <1>5 DEF Test, queue, local
<1>6. CASE Get
  <2>1. lmq' \in Seq(1..MaxEvents) /\ Len(lmq') = Len(lmq) - 1 /\ taken' \in 1..MaxEvents
    BY <1>6 DEF Get
  <2> QED  BY <1>6, <2>1 DEF Get
<1>7. CASE Post \/ ShortQueue \/ Sleep
  BY <1>7 DEF Post, ShortQueue, Sleep, queue, local
<1>8. CASE ReadLength
  BY <1>8 DEF ReadLength, queue
<1>9. CASE ReadCapacity
  BY <1>9 DEF ReadCapacity, queue
<1>10. CASE WellUsed
  BY <1>10 DEF WellUsed, Leave, queue
<1>11. CASE Shrink
  <2>1. cap' \in Nat /\ cap' >= InitCap
    BY <1>11 DEF Shrink
  <2>2. lmq' \in Seq(1..MaxEvents) /\ Len(lmq') <= cap'
    BY <1>11, <2>1, KeptIsPrefix DEF Shrink
  <2> QED  BY <1>11, <2>1, <2>2 DEF Shrink, Leave
<1>12. CASE ShrinkNoMemory
  BY <1>12 DEF ShrinkNoMemory, Fails, Leave, queue
<1> QED
  BY <1>1, <1>2, <1>3, <1>4, <1>5, <1>6, <1>7, <1>8, <1>9, <1>10, <1>11, <1>12
  DEF Next, Recv, Thread

\* The fields of the item keep their types.
THEOREM TypeCorrect == Spec => []TypeOK
<1>1. Spec => []BoundInv
  BY BoundInit, BoundStep, PTL DEF Spec
<1> QED  BY <1>1, PTL DEF BoundInv

\* However far the unlocked reads of thread_cb lag behind, the queue never
\* exceeds its capacity and the capacity never drops below its initial value.
THEOREM QueueBounded == Spec => []QueueFits
<1>1. Spec => []BoundInv
  BY BoundInit, BoundStep, PTL DEF Spec
<1> QED  BY <1>1, PTL DEF BoundInv

\* The thread posts the events in the order webhook_cb received them, none of
\* them twice.
THEOREM EventsInOrder == Spec => []InOrder
<1>1. Init => InOrder
  BY DEF Init, InOrder
<1>2. BoundInv /\ InOrder /\ taken <= pushed /\ [Next]_vars => InOrder' /\ (taken <= pushed)'
  <2> SUFFICES ASSUME BoundInv, InOrder, taken <= pushed, [Next]_vars
               PROVE  InOrder' /\ taken' <= pushed'
    OBVIOUS
  <2> USE DEF BoundInv, TypeOK
  <2>a. Len(lmq) \in Nat /\ pushed \in Nat /\ taken \in Nat
    BY WebHookAssumption
  <2>b. \A i \in 1..Len(lmq) : lmq[i] \in Nat
    <3>1. lmq \in Seq(1..MaxEvents)
      OBVIOUS
    <3> HIDE DEF BoundInv, TypeOK
    <3>2. \A i \in 1..Len(lmq) : lmq[i] \in 1..MaxEvents
      BY <3>1, ElementOfSeq
    <3> QED  BY <3>2, WebHookAssumption
  <2>1. CASE UNCHANGED <<lmq, taken>> /\ pushed' \in {pushed, pushed + 1}
    <3> HIDE DEF BoundInv, TypeOK
    <3> QED  BY <2>a, <2>b, <2>1 DEF InOrder
  <2>2. CASE RecvGrows \/ RecvPuts
    <3>1. /\ pushed' = pushed + 1 /\ taken' = taken
          /\ Len(lmq') = Len(lmq) + 1
          /\ lmq'[Len(lmq) + 1] = pushed + 1
          /\ \A i \in 1..Len(lmq) : lmq'[i] = lmq[i]
      <4>1. pushed \in Nat /\ lmq \in Seq(1..MaxEvents) /\ pushed + 1 \in 1..MaxEvents
        BY <2>2, WebHookAssumption DEF RecvGrows, RecvPuts
      <4>2. pushed' = pushed + 1 /\ taken' = taken /\ lmq' = Append(lmq, pushed + 1)
        BY <2>2 DEF RecvGrows, RecvPuts, local
      <4> HIDE DEF BoundInv, TypeOK
      <4>3. Len(lmq') = Len(lmq) + 1 /\ lmq'[Len(lmq) + 1] = pushed + 1
        BY <4>1, <4>2
      <4>4. \A i \in 1..Len(lmq) : lmq'[i] = lmq[i]
        BY <4>1, <4>2
      <4> QED  BY <4>2, <4>3, <4>4
    <3>2. \A i \in 1..Len(lmq') : i \in 1..Len(lmq) \/ i = Len(lmq) + 1
      BY <3>1
    <3>3. ASSUME NEW i \in 1..Len(lmq') PROVE taken' < lmq'[i] /\ lmq'[i] <= pushed'
      <4> HIDE DEF BoundInv, TypeOK
      <4> QED  BY <2>a, <2>b, <3>1, <3>2 DEF InOrder
    <3>4. ASSUME NEW i \in 1..Len(lmq'), NEW j \in 1..Len(lmq'), i < j
          PROVE  lmq'[i] < lmq'[j]
      <4>1. i \in 1..Len(lmq)
        BY <3>1, <3>4
      <4>2. CASE j \in 1..Len(lmq)
        BY <3>1, <3>4, <4>1, <4>2 DEF InOrder
      <4>3. CASE j = Len(lmq) + 1
        <5> HIDE DEF BoundInv, TypeOK
        <5> QED  BY <2>a, <2>b, <3>1, <4>1, <4>3 DEF InOrder
      <4> QED  BY <3>2, <4>2, <4>3
    <3> QED  BY <3>1, <3>3, <3>4 DEF InOrder
  <2>3. CASE Get
    <3>1. /\ pushed' = pushed /\ taken' = lmq[1] /\ Len(lmq) >= 1
          /\ Len(lmq') = Len(lmq) - 1
          /\ \A i \in 1..Len(lmq') : lmq'[i] = lmq[i + 1]
      BY <2>3 DEF Get
    <3> HIDE DEF BoundInv, TypeOK
    <3>2. ASSUME NEW i \in 1..Len(lmq') PROVE taken' < lmq'[i] /\ lmq'[i] <= pushed'
      <4>1. 1 \in 1..Len(lmq) /\ i + 1 \in 1..Len(lmq) /\ 1 < i + 1
        BY <2>a, <3>1
      <4> QED  BY <3>1, <4>1 DEF InOrder
    <3>3. ASSUME NEW i \in 1..Len(lmq'), NEW j \in 1..Len(lmq'), i < j
          PROVE  lmq'[i] < lmq'[j]
      <4>1. i + 1 \in 1..Len(lmq) /\ j + 1 \in 1..Len(lmq) /\ i + 1 < j + 1
        BY <2>a, <3>1, <3>3
      <4> QED  BY <3>1, <4>1 DEF InOrder
    <3>4. taken' <= pushed'
      <4>1. 1 \in 1..Len(lmq)
        BY <2>a, <3>1
      <4> QED  BY <3>1, <4>1 DEF InOrder
    <3> QED  BY <3>2, <3>3, <3>4 DEF InOrder
  <2>4. CASE Shrink
    <3>1. cap' \in Nat
      BY <2>4 DEF Shrink
    <3>2. /\ pushed' = pushed /\ taken' = taken
          /\ Len(lmq') \in Nat /\ Len(lmq') <= Len(lmq)
          /\ \A i \in 1..Len(lmq') : lmq'[i] = lmq[i]
      BY <2>4, <3>1, KeptIsPrefix DEF Shrink, Leave
    <3> HIDE DEF BoundInv, TypeOK
    <3>3. \A i \in 1..Len(lmq') : i \in 1..Len(lmq)
      BY <2>a, <3>2
    <3> QED  BY <3>2, <3>3 DEF InOrder
  <2> QED
    BY <2>1, <2>2, <2>3, <2>4
    DEF Next, Recv, Thread, RecvNoMemory, Test, Post, ReadLength, ShortQueue, ReadCapacity,
        WellUsed, ShrinkNoMemory, Sleep, Leave, vars, queue, local
<1>3. Init => taken <= pushed
  BY DEF Init
<1> QED  BY <1>1, <1>2, <1>3, BoundInit, BoundStep, PTL DEF Spec

\* The queue loses an event only in a shrink decided on a length that is out
\* of date: halving a capacity that is more than twice the length never drops
\* anything by itself.
THEOREM NoOtherLoss == Spec => LossOnlyWhenStale
<1> DEFINE Lossy == Len(lmq') < Len(lmq) => \/ taken' = lmq[1] /\ lmq' = Tail(lmq)
                                            \/ pc = "resize" /\ Len(lmq) > seenLen
<1>1. BoundInv /\ [Next]_vars => [Lossy]_vars
  <2> SUFFICES ASSUME BoundInv, [Next]_vars PROVE Lossy \/ UNCHANGED vars
    OBVIOUS
  <2> USE DEF BoundInv, TypeOK
  <2>1. CASE lmq' = lmq
    BY <2>1
  <2>2. CASE RecvGrows \/ RecvPuts
    BY <2>2 DEF RecvGrows, RecvPuts
  <2>3. CASE Get
    BY <2>3 DEF Get
  <2>4. CASE Shrink
    <3>1. pc = "resize" /\ cap' \in Nat /\ cap' >= seenLen /\ lmq' = Kept(lmq, cap')
      BY <2>4 DEF Shrink, Goes, ReadInv
    <3>2. CASE Len(lmq) > seenLen
      BY <3>1, <3>2
    <3>3. CASE Len(lmq) <= seenLen
      BY <3>1, <3>3, KeptIsPrefix
    <3> QED  BY <3>2, <3>3
  <2> QED
    BY <2>1, <2>2, <2>3, <2>4
    DEF Next, Recv, Thread, RecvNoMemory, Test, Post, ReadLength, ShortQueue, ReadCapacity,
        WellUsed, ShrinkNoMemory, Sleep, vars, queue, local
<1> QED  BY <1>1, BoundInit, BoundStep, PTL DEF Spec, LossOnlyWhenStale
=============================================================================
