--------------------------- MODULE SpscRingProofs ---------------------------
(***************************************************************************)
(* Proofs about SpscRing, for every capacity, sample type and request      *)
(* bound: the ring is type-correct, free of slot races, keeps the promise  *)
(* of size(), publishes exactly what was pushed, and implements            *)
(* BoundedFifo.  Everything rests on one inductive invariant, RingInv.     *)
(***************************************************************************)
EXTENDS SpscRing, SequenceTheorems, TLAPS

-----------------------------------------------------------------------------
(* Facts about the index arithmetic. *)

(* Wrapping an index that ran past the end gives a slot. *)
LEMMA WrapInSlots ==
  ASSUME NEW h \in Slots, NEW k \in 0..Capacity
  PROVE  Wrap(h + k) \in Slots
  BY CapacityAssumption DEF Slots, Wrap

(* What is used and what is free add up to all slots but one. *)
LEMMA UsedPlusFree ==
  ASSUME NEW h \in Slots, NEW t \in Slots
  PROVE  /\ Used(h, t) \in 0..(Capacity - 1)
         /\ Free(h, t) \in 0..(Capacity - 1)
         /\ Used(h, t) + Free(h, t) = Capacity - 1
  BY CapacityAssumption DEF Slots, Used, Free

(* The two fullness tests of the code agree: next index against free count,*)
(* and equal indices against used count. *)
LEMMA FullAndEmptyTests ==
  ASSUME NEW h \in Slots, NEW t \in Slots
  PROVE  /\ Wrap(h + 1) # t => Free(h, t) >= 1
         /\ h # t => Used(h, t) >= 1
  BY CapacityAssumption DEF Slots, Used, Free, Wrap

(* Moving head by n uses n more slots. *)
LEMMA MoveHead ==
  ASSUME NEW h \in Slots, NEW t \in Slots, NEW n \in 0..Free(h, t)
  PROVE  /\ Wrap(h + n) \in Slots
         /\ Used(Wrap(h + n), t) = Used(h, t) + n
  BY CapacityAssumption DEF Slots, Used, Free, Wrap

(* Moving tail by n uses n slots less, and what follows keeps its slots. *)
LEMMA MoveTail ==
  ASSUME NEW h \in Slots, NEW t \in Slots, NEW n \in 0..Used(h, t)
  PROVE  /\ Wrap(t + n) \in Slots
         /\ Used(h, Wrap(t + n)) = Used(h, t) - n
         /\ Free(h, Wrap(t + n)) = Free(h, t) + n
         /\ \A k \in 0..(Used(h, t) - n) : Wrap(Wrap(t + n) + k) = Wrap(t + n + k)
  BY CapacityAssumption DEF Slots, Used, Free, Wrap

(* A free slot is none of the used ones. *)
LEMMA FreeNotUsed ==
  ASSUME NEW h \in Slots, NEW t \in Slots,
         NEW k \in 0..(Free(h, t) - 1), NEW i \in 0..(Used(h, t) - 1)
  PROVE  Wrap(h + k) # Wrap(t + i)
  BY CapacityAssumption DEF Slots, Used, Free, Wrap

(* The free slots are distinct. *)
LEMMA FreeDistinct ==
  ASSUME NEW h \in Slots, NEW t \in Slots,
         NEW k \in 0..(Free(h, t) - 1), NEW i \in 0..(Free(h, t) - 1), k # i
  PROVE  Wrap(h + k) # Wrap(h + i)
  BY CapacityAssumption DEF Slots, Used, Free, Wrap

(* The free slots follow the used ones. *)
LEMMA FreeFollowsUsed ==
  ASSUME NEW h \in Slots, NEW t \in Slots, NEW k \in 0..(Free(h, t) - 1)
  PROVE  Wrap(t + Used(h, t) + k) = Wrap(h + k)
  BY CapacityAssumption DEF Slots, Used, Free, Wrap

-----------------------------------------------------------------------------
(* The inductive invariant.  A running push owns pCount free slots behind  *)
(* head, the first pDone of them already hold its values; a running pop    *)
(* owns cCount used slots from tail, and has read the first Len(cOut).     *)
PushInv ==
    pPc = "copy" =>
        /\ pCount \in 1..Free(head, tail)
        /\ pCount <= Len(pBatch) /\ pCount <= MaxRequest
        /\ pDone \in 0..pCount
        /\ \A k \in 0..(pDone - 1) : buf[Wrap(head + k)] = pBatch[k + 1]

PopInv ==
    /\ cPc # "idle" => cCount \in 1..Used(head, tail)
    /\ cPc = "copy" =>
        /\ Len(cOut) <= cCount
        /\ \A k \in 1..Len(cOut) : cOut[k] = buf[Wrap(tail + k - 1)]

RingInv == TypeOK /\ PushInv /\ PopInv /\ SizeIsPromise

(* The consumer's part only speaks of used slots, which no producer step   *)
(* writes: it survives whatever leaves those slots and tail alone.         *)
LEMMA ConsumerUndisturbed ==
  ASSUME TypeOK, PopInv, SizeIsPromise,
         UNCHANGED consVars,
         Used(head, tail) <= Used(head', tail'), Used(head, tail) \in Nat,
         Used(head', tail') \in Nat,
         \A i \in 0..(Used(head, tail) - 1) : buf'[Wrap(tail + i)] = buf[Wrap(tail + i)]
  PROVE  PopInv' /\ SizeIsPromise'
  <1> USE DEF consVars
  <1>1. cPc' = "copy" =>
          \A k \in 1..Len(cOut') : cOut'[k] = buf'[Wrap(tail' + k - 1)]
    <2> SUFFICES ASSUME cPc' = "copy", NEW k \in 1..Len(cOut')
                 PROVE  cOut'[k] = buf'[Wrap(tail' + k - 1)]
      OBVIOUS
    <2>1. /\ k - 1 \in 0..(Used(head, tail) - 1) /\ tail + k - 1 = tail + (k - 1)
          /\ cOut[k] = buf[Wrap(tail + k - 1)]
      BY DEF TypeOK, Slots, PopInv
    <2>2. buf'[Wrap(tail + (k - 1))] = buf[Wrap(tail + (k - 1))]
      BY <2>1
    <2> QED BY <2>1, <2>2
  <1>2. (cPc' # "idle" => cCount' \in 1..Used(head', tail')) /\ cSeen' <= Used(head', tail')
    BY DEF TypeOK, PopInv, SizeIsPromise
  <1>3. QED
    BY <1>1, <1>2 DEF PopInv, SizeIsPromise

(* The producer's part survives whatever leaves its variables and the      *)
(* slots alone and does not take free slots away.                          *)
LEMMA ProducerUndisturbed ==
  ASSUME TypeOK, PushInv,
         UNCHANGED prodVars, UNCHANGED buf,
         Free(head, tail) <= Free(head', tail'),
         Free(head, tail) \in Nat, Free(head', tail') \in Nat
  PROVE  PushInv'
  BY DEF TypeOK, PushInv, prodVars

(* Every reachable state satisfies the inductive invariant. *)
THEOREM RingInvariant == Spec => []RingInv
  <1>1. Init => RingInv
    <2>1. 0 \in Slots /\ Used(0, 0) = 0
      BY CapacityAssumption DEF Slots, Used
    <2> QED
      BY <2>1 DEF Init, RingInv, TypeOK, PushInv, PopInv, SizeIsPromise
  <1>2. RingInv /\ [Next]_vars => RingInv'
    <2> SUFFICES ASSUME RingInv, [Next]_vars PROVE RingInv'
      OBVIOUS
    <2> USE DEF RingInv
    <2>0. /\ head \in Slots /\ tail \in Slots
          /\ Used(head, tail) \in 0..(Capacity - 1)
          /\ Free(head, tail) \in 0..(Capacity - 1)
      BY UsedPlusFree DEF TypeOK
    <2>1. ASSUME NEW n \in 1..MaxRequest, NEW batch \in [1..n -> Values], PushBulk(n, batch)
          PROVE  RingInv'
      <3>1. n \in Nat /\ batch \in Seq(Values) /\ Len(batch) = n
        BY RequestAssumption
      <3>2. TypeOK'
        BY <2>0, <2>1, <3>1 DEF TypeOK, PushBulk, Least, consVars
      <3>3. PushInv'
        BY <2>0, <2>1, <3>1, RequestAssumption DEF PushBulk, PushInv, Least, consVars
      <3>4. PopInv' /\ SizeIsPromise'
        BY <2>0, <2>1, ConsumerUndisturbed DEF PushBulk, consVars
      <3> QED BY <3>2, <3>3, <3>4
    <2>2. ASSUME NEW v \in Values, Push(v) PROVE RingInv'
      <3>1. <<v>> \in Seq(Values) /\ Len(<<v>>) = 1
        OBVIOUS
      <3>2. TypeOK'
        BY <2>0, <2>2, <3>1 DEF TypeOK, Push, consVars
      <3>3. PushInv'
        BY <2>0, <2>2, <3>1, RequestAssumption, FullAndEmptyTests DEF Push, PushInv, consVars
      <3>4. PopInv' /\ SizeIsPromise'
        BY <2>0, <2>2, ConsumerUndisturbed DEF Push, consVars
      <3> QED BY <3>2, <3>3, <3>4
    <2>3. ASSUME CopyIn PROVE RingInv'
      <3> DEFINE w == Wrap(head + pDone)
      <3>1. /\ pDone \in 0..(Free(head, tail) - 1) /\ pDone + 1 <= pCount
            /\ pDone + 1 \in 1..Len(pBatch)
        BY <2>0, <2>3 DEF CopyIn, PushInv, TypeOK
      <3>2. w \in Slots /\ pBatch[pDone + 1] \in Values
        BY <2>0, <3>1, CapacityAssumption, WrapInSlots DEF TypeOK
      <3>3. /\ buf' = [buf EXCEPT ![w] = pBatch[pDone + 1]] /\ pDone' = pDone + 1
            /\ UNCHANGED <<head, pPc, pBatch, pCount, consVars>>
        BY <2>3 DEF CopyIn
      <3>4. TypeOK'
        BY <3>2, <3>3 DEF TypeOK, consVars
      <3>5. PushInv'
        <4>1. ASSUME NEW k \in 0..pDone PROVE buf'[Wrap(head + k)] = pBatch[k + 1]
          <5>1. Wrap(head + k) \in Slots
            BY <2>0, <3>1, CapacityAssumption, WrapInSlots
          <5>2. CASE k = pDone
            BY <3>2, <3>3, <5>2 DEF TypeOK
          <5>3. CASE k # pDone
            <6>1. k \in 0..(pDone - 1) /\ k \in 0..(Free(head, tail) - 1)
              BY <5>3, <2>0, <3>1
            <6>2. Wrap(head + k) # w
              BY <2>0, <3>1, <5>3, <6>1, FreeDistinct
            <6>3. buf[Wrap(head + k)] = pBatch[k + 1]
              BY <6>1, <2>3 DEF PushInv, CopyIn
            <6> QED BY <3>3, <5>1, <6>2, <6>3 DEF TypeOK
          <5> QED BY <5>2, <5>3
        <4>2. pDone' - 1 = pDone /\ pDone + 1 \in 0..pCount
          BY <3>1, <3>3, <2>0
        <4> QED
          BY <4>1, <4>2, <3>3, <2>3 DEF PushInv, CopyIn, consVars
      <3>6. \A i \in 0..(Used(head, tail) - 1) : buf'[Wrap(tail + i)] = buf[Wrap(tail + i)]
        <4> TAKE i \in 0..(Used(head, tail) - 1)
        <4>1. Wrap(tail + i) \in Slots /\ Wrap(tail + i) # w
          BY <2>0, <3>1, CapacityAssumption, WrapInSlots, FreeNotUsed
        <4> QED BY <4>1, <3>3 DEF TypeOK
      <3>7. PopInv' /\ SizeIsPromise'
        BY <2>0, <3>3, <3>6, ConsumerUndisturbed DEF consVars
      <3> QED BY <3>4, <3>5, <3>7
    <2>4. ASSUME Publish PROVE RingInv'
      <3>1. pCount \in 0..Free(head, tail)
        BY <2>4, <2>0 DEF Publish, PushInv
      <3>2. /\ head' \in Slots /\ tail' = tail /\ buf' = buf
            /\ Used(head', tail') = Used(head, tail) + pCount
        BY <2>0, <2>4, <3>1, MoveHead DEF Publish, consVars
      <3>3. TypeOK'
        BY <2>4, <3>2 DEF Publish, ProducerReturns, TypeOK, consVars
      <3>4. PushInv'
        BY <2>4 DEF Publish, ProducerReturns, PushInv
      <3>5. PopInv' /\ SizeIsPromise'
        BY <2>0, <2>4, <3>1, <3>2, ConsumerUndisturbed DEF Publish
      <3> QED BY <3>3, <3>4, <3>5
    <2>5. ASSUME Size PROVE RingInv'
      <3>1. TypeOK' /\ PopInv' /\ SizeIsPromise'
        BY <2>0, <2>5 DEF Size, TypeOK, PopInv, SizeIsPromise, prodVars
      <3>2. PushInv'
        BY <2>0, <2>5, ProducerUndisturbed DEF Size, prodVars
      <3> QED BY <3>1, <3>2
    <2>6. ASSUME NEW n \in 1..MaxRequest, PopBulk(n) PROVE RingInv'
      <3>1. n \in Nat \ {0}
        BY RequestAssumption
      <3>2. TypeOK' /\ PopInv' /\ SizeIsPromise'
        BY <2>0, <2>6, <3>1 DEF PopBulk, TypeOK, PopInv, SizeIsPromise, Least, prodVars
      <3>3. PushInv'
        BY <2>0, <2>6, ProducerUndisturbed DEF PopBulk, prodVars
      <3> QED BY <3>2, <3>3
    <2>7. ASSUME Pop PROVE RingInv'
      <3>1. Used(head, tail) >= 1
        BY <2>0, <2>7, FullAndEmptyTests DEF Pop
      <3>2. TypeOK' /\ PopInv' /\ SizeIsPromise'
        BY <2>0, <2>7, <3>1 DEF Pop, TypeOK, PopInv, SizeIsPromise, prodVars
      <3>3. PushInv'
        BY <2>0, <2>7, ProducerUndisturbed DEF Pop, prodVars
      <3> QED BY <3>2, <3>3
    <2>8. ASSUME NEW n \in 1..MaxRequest, DiscardBulk(n) PROVE RingInv'
      <3>1. n \in Nat \ {0}
        BY RequestAssumption
      <3>2. TypeOK' /\ PopInv' /\ SizeIsPromise'
        BY <2>0, <2>8, <3>1 DEF DiscardBulk, TypeOK, PopInv, SizeIsPromise, Least, prodVars
      <3>3. PushInv'
        BY <2>0, <2>8, ProducerUndisturbed DEF DiscardBulk, prodVars
      <3> QED BY <3>2, <3>3
    <2>9. ASSUME CopyOut PROVE RingInv'
      <3> DEFINE v == buf[Wrap(tail + Len(cOut))]
      <3>1. /\ Len(cOut) \in 0..(Used(head, tail) - 1) /\ Len(cOut) + 1 <= cCount
            /\ cCount \in 1..Used(head, tail)
        BY <2>0, <2>9 DEF CopyOut, PopInv, TypeOK
      <3>2. v \in Values
        BY <2>0, <3>1, CapacityAssumption, WrapInSlots DEF TypeOK
      <3>3. /\ cOut' = Append(cOut, v) /\ cOut' \in Seq(Values)
            /\ Len(cOut') = Len(cOut) + 1
            /\ \A k \in 1..Len(cOut) : cOut'[k] = cOut[k]
            /\ cOut'[Len(cOut) + 1] = v
        BY <2>9, <3>2 DEF CopyOut, TypeOK
      <3>4. UNCHANGED <<tail, buf, cPc, cCount, cSeen, got, prodVars>>
        BY <2>9 DEF CopyOut
      <3>5. TypeOK'
        BY <3>3, <3>4 DEF TypeOK, prodVars
      <3>6. \A k \in 1..Len(cOut') : cOut'[k] = buf[Wrap(tail + k - 1)]
        <4> TAKE k \in 1..Len(cOut')
        <4>1. CASE k = Len(cOut) + 1
          <5>1. tail + k - 1 = tail + Len(cOut)
            BY <4>1, <2>0, <3>1 DEF Slots
          <5> QED BY <5>1, <4>1, <3>3
        <4>2. CASE k # Len(cOut) + 1
          <5>1. k \in 1..Len(cOut)
            BY <4>2, <3>3, <3>1
          <5> QED BY <5>1, <3>3, <2>9 DEF PopInv, CopyOut
        <4> QED BY <4>1, <4>2
      <3>7. PopInv' /\ SizeIsPromise'
        BY <3>1, <3>3, <3>4, <3>6, <2>9 DEF PopInv, SizeIsPromise, CopyOut, prodVars
      <3>8. PushInv'
        BY <2>0, <3>4, ProducerUndisturbed DEF prodVars
      <3> QED BY <3>5, <3>7, <3>8
    <2>10. ASSUME Release PROVE RingInv'
      <3>1. cCount \in 0..Used(head, tail)
        BY <2>10, <2>0 DEF Release, PopInv
      <3>2. /\ tail' \in Slots /\ UNCHANGED <<buf, prodVars>> /\ head' = head
            /\ Used(head', tail') = Used(head, tail) - cCount
            /\ Free(head', tail') = Free(head, tail) + cCount
        BY <2>0, <2>10, <3>1, MoveTail DEF Release, prodVars
      <3>3. TypeOK'
        BY <2>10, <3>2 DEF Release, ConsumerReturns, TypeOK, prodVars
      <3>4. PushInv'
        BY <2>0, <3>1, <3>2, ProducerUndisturbed
      <3>5. PopInv' /\ SizeIsPromise'
        BY <2>0, <2>10, <3>1, <3>2 DEF Release, ConsumerReturns, PopInv, SizeIsPromise
      <3> QED BY <3>3, <3>4, <3>5
    <2>11. CASE UNCHANGED vars
      BY <2>11 DEF vars, TypeOK, PushInv, PopInv, SizeIsPromise
    <2> QED
      BY <2>1, <2>2, <2>3, <2>4, <2>5, <2>6, <2>7, <2>8, <2>9, <2>10, <2>11 DEF Next
  <1> QED
    BY <1>1, <1>2, PTL DEF Spec

-----------------------------------------------------------------------------
(* Indices stay inside the array and every variable keeps its type. *)
THEOREM TypeCorrect == Spec => []TypeOK
  BY RingInvariant, PTL DEF RingInv

(* size() never promises the consumer a sample that it will not find. *)
THEOREM SizePromiseKept == Spec => []SizeIsPromise
  BY RingInvariant, PTL DEF RingInv

(* The slots a push has still to write and those a pop has still to read   *)
(* are disjoint, so the two memcpy calls never race on a sample.           *)
THEOREM RaceFree == Spec => []NoSlotRace
  <1>1. RingInv => NoSlotRace
    <2> SUFFICES ASSUME RingInv, NEW x \in ToWrite, x \in ToRead PROVE FALSE
      BY DEF NoSlotRace
    <2> USE DEF RingInv
    <2>0. Used(head, tail) \in 0..(Capacity - 1) /\ Free(head, tail) \in 0..(Capacity - 1)
      BY UsedPlusFree DEF TypeOK
    <2>1. PICK k \in 0..(Free(head, tail) - 1) : x = Wrap(head + k)
      <3>1. pPc = "copy" /\ x \in {Wrap(head + k) : k \in pDone..(pCount - 1)}
        BY DEF ToWrite
      <3>2. PICK k \in pDone..(pCount - 1) : x = Wrap(head + k)
        BY <3>1
      <3>3. k \in 0..(Free(head, tail) - 1)
        BY <2>0, <3>1, <3>2 DEF PushInv
      <3> QED BY <3>2, <3>3
    <2>2. PICK i \in 0..(Used(head, tail) - 1) : x = Wrap(tail + i)
      <3>1. cPc = "copy" /\ x \in {Wrap(tail + j) : j \in Len(cOut)..(cCount - 1)}
        BY DEF ToRead
      <3>2. PICK j \in Len(cOut)..(cCount - 1) : x = Wrap(tail + j)
        BY <3>1
      <3>3. Len(cOut) \in Nat
        BY DEF TypeOK
      <3>4. j \in 0..(Used(head, tail) - 1)
        BY <2>0, <3>1, <3>2, <3>3 DEF PopInv
      <3> QED BY <3>2, <3>4
    <2> QED
      BY <2>1, <2>2, FreeNotUsed DEF TypeOK
  <1> QED
    BY <1>1, RingInvariant, PTL

-----------------------------------------------------------------------------
(* A sequence is a concatenation when its elements are. *)
LEMMA ConcatByElements ==
  ASSUME NEW S, NEW c \in Seq(S), NEW r \in Seq(S), NEW d \in Seq(S),
         Len(d) = Len(c) + Len(r),
         \A i \in 1..Len(c) : d[i] = c[i],
         \A i \in 1..Len(r) : d[Len(c) + i] = r[i]
  PROVE  d = c \o r
  <1>1. /\ c \o r \in Seq(S) /\ Len(c \o r) = Len(d)
        /\ Len(c) \in Nat /\ Len(r) \in Nat
        /\ \A i \in 1..(Len(c) + Len(r)) :
              (c \o r)[i] = IF i <= Len(c) THEN c[i] ELSE r[i - Len(c)]
    BY ConcatProperties, LenProperties
  <1>2. ASSUME NEW i \in 1..Len(d), ~(i <= Len(c)) PROVE d[i] = r[i - Len(c)]
    <2>1. i - Len(c) \in 1..Len(r) /\ i = Len(c) + (i - Len(c))
      BY <1>1, <1>2
    <2> QED BY <2>1
  <1>3. \A i \in 1..Len(d) : d[i] = (c \o r)[i]
    BY <1>1, <1>2
  <1> QED
    BY <1>1, <1>3, SeqEqual, Zenon

(* The refinement.  Content, the slots from tail to head, is a sequence... *)
LEMMA RunIsSequence ==
  ASSUME NEW h \in Slots, NEW t \in Slots, NEW b \in [Slots -> Values]
  PROVE  /\ [i \in 1..Used(h, t) |-> b[Wrap(t + i - 1)]] \in Seq(Values)
         /\ Len([i \in 1..Used(h, t) |-> b[Wrap(t + i - 1)]]) = Used(h, t)
  <1>1. Used(h, t) \in 0..(Capacity - 1) /\ Capacity \in Nat
    BY UsedPlusFree, CapacityAssumption
  <1>2. ASSUME NEW i \in 1..Used(h, t) PROVE b[Wrap(t + i - 1)] \in Values
    <2>1. i - 1 \in 0..Capacity /\ t + i - 1 = t + (i - 1)
      BY <1>1 DEF Slots
    <2> QED BY <2>1, WrapInSlots
  <1> QED
    BY <1>1, <1>2

LEMMA ContentIsSequence ==
  ASSUME TypeOK
  PROVE  /\ Content \in Seq(Values)
         /\ Len(Content) = Used(head, tail)
         /\ \A i \in 1..Used(head, tail) : Content[i] = buf[Wrap(tail + i - 1)]
  BY RunIsSequence DEF Content, TypeOK

LEMMA NextContentIsSequence ==
  ASSUME TypeOK'
  PROVE  /\ Content' \in Seq(Values)
         /\ Len(Content') = Used(head', tail')
         /\ \A i \in 1..Used(head', tail') : Content'[i] = buf'[Wrap(tail' + i - 1)]
  BY RunIsSequence DEF Content, TypeOK

(* ...that no step changes unless it stores an index... *)
LEMMA ContentFramed ==
  ASSUME TypeOK, UNCHANGED <<head, tail>>,
         \A i \in 0..(Used(head, tail) - 1) : buf'[Wrap(tail + i)] = buf[Wrap(tail + i)]
  PROVE  Content' = Content
  <1>1. \A i \in 1..Used(head, tail) :
          i - 1 \in 0..(Used(head, tail) - 1) /\ tail + i - 1 = tail + (i - 1)
    BY UsedPlusFree, SMTT(30) DEF TypeOK, Slots
  <1> QED
    BY <1>1 DEF Content

(* ...that the store of head_ extends by what the push copied... *)
LEMMA ContentExtended ==
  ASSUME RingInv, RingInv', Publish
  PROVE  /\ Len(Content') = Len(Content) + pCount
         /\ \A i \in 1..Len(Content) : Content'[i] = Content[i]
         /\ \A i \in 1..pCount : Content'[Len(Content) + i] = pBatch[i]
  <1> USE DEF RingInv
  <1>0. /\ head \in Slots /\ tail \in Slots
        /\ Used(head, tail) \in 0..(Capacity - 1) /\ Free(head, tail) \in 0..(Capacity - 1)
        /\ pCount \in 1..Free(head, tail) /\ pDone = pCount
    BY UsedPlusFree DEF TypeOK, PushInv, Publish
  <1>1. /\ head' = Wrap(head + pCount) /\ tail' = tail /\ buf' = buf
        /\ Used(head', tail') = Used(head, tail) + pCount
    BY <1>0, MoveHead DEF Publish, consVars
  <1>2. Content' \in Seq(Values) /\ Len(Content') = Used(head', tail')
        /\ \A i \in 1..Used(head', tail') : Content'[i] = buf'[Wrap(tail' + i - 1)]
    BY NextContentIsSequence
  <1>3. \A i \in 1..Len(Content) : Content'[i] = Content[i]
    BY <1>0, <1>1, <1>2, ContentIsSequence
  <1>4. ASSUME NEW i \in 1..pCount PROVE Content'[Len(Content) + i] = pBatch[i]
    <2>1. /\ Len(Content) + i \in 1..Used(head', tail')
          /\ tail + (Len(Content) + i) - 1 = tail + Used(head, tail) + (i - 1)
          /\ i - 1 \in 0..(Free(head, tail) - 1) /\ i - 1 \in 0..(pDone - 1)
      BY <1>0, <1>1, ContentIsSequence DEF Slots
    <2>2. Content'[Len(Content) + i] = buf[Wrap(head + (i - 1))]
      BY <1>0, <1>1, <1>2, <2>1, FreeFollowsUsed
    <2>3. buf[Wrap(head + (i - 1))] = pBatch[(i - 1) + 1]
      BY <2>1 DEF PushInv, Publish
    <2> QED BY <2>2, <2>3
  <1> QED
    BY <1>1, <1>2, <1>3, <1>4, ContentIsSequence

(* ...and that the store of tail_ shortens by what was taken. *)
LEMMA ContentShortened ==
  ASSUME RingInv, RingInv', Release
  PROVE  /\ cCount \in 1..Len(Content)
         /\ Content' = SubSeq(Content, cCount + 1, Len(Content))
         /\ cPc = "copy" => got' = SubSeq(Content, 1, cCount)
  <1> USE DEF RingInv
  <1>0. /\ head \in Slots /\ tail \in Slots
        /\ Used(head, tail) \in 0..(Capacity - 1)
        /\ cCount \in 1..Used(head, tail)
    BY UsedPlusFree DEF TypeOK, PopInv, Release
  <1>1. /\ tail' = Wrap(tail + cCount) /\ tail' \in Slots /\ head' = head /\ buf' = buf
        /\ Used(head', tail') = Used(head, tail) - cCount
        /\ \A k \in 0..(Used(head, tail) - cCount) :
              Wrap(tail' + k) = Wrap(tail + cCount + k)
    BY <1>0, MoveTail DEF Release, prodVars
  <1>2. Content' \in Seq(Values) /\ Len(Content') = Used(head', tail')
        /\ \A i \in 1..Used(head', tail') : Content'[i] = buf'[Wrap(tail' + i - 1)]
    BY NextContentIsSequence
  <1>3. Content' = SubSeq(Content, cCount + 1, Len(Content))
    <2> DEFINE s == SubSeq(Content, cCount + 1, Len(Content))
    <2>1. s \in Seq(Values) /\ Len(s) = Len(Content')
          /\ \A i \in 1..Len(s) : s[i] = Content[cCount + i]
      BY <1>0, <1>1, <1>2, ContentIsSequence
    <2>2. ASSUME NEW i \in 1..Len(s) PROVE Content'[i] = Content[cCount + i]
      <3>1. /\ i \in 1..Used(head', tail') /\ cCount + i \in 1..Used(head, tail)
            /\ i - 1 \in 0..(Used(head, tail) - cCount)
            /\ tail' + i - 1 = tail' + (i - 1)
            /\ tail + (cCount + i) - 1 = tail + cCount + (i - 1)
        <4>1. i \in 1..(Used(head, tail) - cCount)
          BY <1>1, <1>2, <2>1
        <4> QED BY <4>1, <1>0, <1>1 DEF Slots
      <3>2. Content'[i] = buf[Wrap(tail + cCount + (i - 1))]
        BY <3>1, <1>1, <1>2
      <3> QED BY <3>1, <3>2, ContentIsSequence
    <2> QED BY <2>1, <2>2, <1>2, SMTT(30)
  <1>4. ASSUME cPc = "copy" PROVE got' = SubSeq(Content, 1, cCount)
    <2> DEFINE s == SubSeq(Content, 1, cCount)
    <2>1. s \in Seq(Values) /\ Len(s) = cCount /\ \A i \in 1..cCount : s[i] = Content[i]
      BY <1>0, ContentIsSequence
    <2>2. got' = cOut /\ cOut \in Seq(Values) /\ Len(cOut) = cCount
      BY <1>4 DEF Release, TypeOK
    <2>3. \A i \in 1..cCount : cOut[i] = Content[i]
      BY <1>0, <1>4, <2>2, ContentIsSequence DEF PopInv
    <2> QED BY <2>1, <2>2, <2>3
  <1> QED
    BY <1>0, <1>3, <1>4, ContentIsSequence

-----------------------------------------------------------------------------
(* The store of head_ makes a prefix of the caller's array visible, in     *)
(* order and across the end of the slot array.                             *)
THEOREM PushesPublishPrefix == Spec => PushPublishesPrefix
  <1>1. RingInv /\ RingInv' /\ [Next]_vars =>
          [head' # head =>
             Content' = [i \in 1..(Len(Content) + pCount) |->
                            IF i <= Len(Content) THEN Content[i]
                                                 ELSE pBatch[i - Len(Content)]]]_vars
    <2> SUFFICES ASSUME RingInv, RingInv', Next, head' # head
                 PROVE  Content' = [i \in 1..(Len(Content) + pCount) |->
                                      IF i <= Len(Content) THEN Content[i]
                                                           ELSE pBatch[i - Len(Content)]]
      BY DEF vars
    <2>1. Publish
      BY DEF Next, PushBulk, Push, CopyIn, Size, PopBulk, Pop, DiscardBulk, CopyOut, Release,
             prodVars
    <2>2. /\ Len(Content') = Len(Content) + pCount /\ Content' \in Seq(Values)
          /\ \A i \in 1..Len(Content) : Content'[i] = Content[i]
          /\ \A i \in 1..pCount : Content'[Len(Content) + i] = pBatch[i]
      BY <2>1, ContentExtended, NextContentIsSequence DEF RingInv
    <2>3. Len(Content) \in Nat /\ pCount \in Nat
      BY ContentIsSequence, UsedPlusFree DEF RingInv, TypeOK
    <2>4. ASSUME NEW i \in 1..(Len(Content) + pCount), ~(i <= Len(Content))
          PROVE  Content'[i] = pBatch[i - Len(Content)]
      <3>1. i - Len(Content) \in 1..pCount /\ i = Len(Content) + (i - Len(Content))
        BY <2>3, <2>4
      <3> QED BY <2>2, <3>1
    <2>5. \A i \in 1..(Len(Content) + pCount) : i <= Len(Content) => Content'[i] = Content[i]
      BY <2>2, <2>3
    <2> QED
      BY <2>2, <2>3, <2>4, <2>5
  <1> QED
    BY <1>1, RingInvariant, PTL DEF Spec, PushPublishesPrefix

(* The ring implements the bounded first-in first-out queue: the store of  *)
(* an index is the abstract Put, Take or Forget, every other step a        *)
(* stutter.                                                                *)
THEOREM RingImplementsFifo == Spec => FifoSpec
  <1>1. Init => Fifo!Init
    <2> SUFFICES ASSUME Init PROVE Fifo!Init
      OBVIOUS
    <2>1. Used(head, tail) = 0
      BY DEF Init, Used
    <2> QED
      BY <2>1 DEF Init, Fifo!Init, Content
  <1>2. RingInv /\ RingInv' /\ [Next]_vars => [Fifo!Next]_(Fifo!vars)
    <2> SUFFICES ASSUME RingInv, RingInv', [Next]_vars
                 PROVE  Fifo!Next \/ (Content' = Content /\ got' = got)
      BY DEF Fifo!vars
    <2>0. /\ head \in Slots /\ tail \in Slots /\ buf \in [Slots -> Values]
          /\ Used(head, tail) \in 0..(Capacity - 1) /\ Free(head, tail) \in 0..(Capacity - 1)
          /\ Used(head, tail) + Free(head, tail) = Capacity - 1
          /\ Content \in Seq(Values) /\ Len(Content) = Used(head, tail)
      BY UsedPlusFree, ContentIsSequence DEF RingInv, TypeOK
    <2>1. CASE UNCHANGED <<head, tail, buf, got>>
      BY <2>1 DEF Content
    <2>2. CASE CopyIn
      <3>1. /\ UNCHANGED <<head, tail, got>>
            /\ buf' = [buf EXCEPT ![Wrap(head + pDone)] = pBatch[pDone + 1]]
            /\ pDone \in 0..(Free(head, tail) - 1)
        BY <2>0, <2>2 DEF CopyIn, consVars, RingInv, PushInv, TypeOK
      <3>2. ASSUME NEW i \in 0..(Used(head, tail) - 1)
            PROVE  buf'[Wrap(tail + i)] = buf[Wrap(tail + i)]
        <4>1. Wrap(tail + i) \in Slots /\ Wrap(tail + i) # Wrap(head + pDone)
          BY <2>0, <3>1, CapacityAssumption, WrapInSlots, FreeNotUsed
        <4> QED BY <2>0, <3>1, <4>1
      <3> QED
        BY <3>1, <3>2, ContentFramed DEF RingInv
    <2>3. CASE Publish
      <3>1. /\ pCount \in 1..Free(head, tail) /\ pCount <= Len(pBatch) /\ pBatch \in Seq(Values)
            /\ pCount \in 1..MaxRequest /\ UNCHANGED got
        BY <2>0, <2>3, RequestAssumption DEF Publish, RingInv, PushInv, TypeOK, consVars
      <3>2. PICK run \in [1..pCount -> Values] :
              /\ run \in Seq(Values) /\ Len(run) = pCount
              /\ \A i \in 1..pCount : run[i] = pBatch[i]
        <4>1. /\ [i \in 1..pCount |-> pBatch[i]] \in [1..pCount -> Values]
              /\ [i \in 1..pCount |-> pBatch[i]] \in Seq(Values)
              /\ Len([i \in 1..pCount |-> pBatch[i]]) = pCount
          BY <2>0, <3>1
        <4> USE <4>1
        <4> WITNESS [i \in 1..pCount |-> pBatch[i]] \in [1..pCount -> Values]
        <4> QED OBVIOUS
      <3>3. /\ Len(Content') = Len(Content) + pCount /\ Content' \in Seq(Values)
            /\ Len(Content') = Len(Content) + Len(run)
            /\ \A i \in 1..Len(Content) : Content'[i] = Content[i]
            /\ \A i \in 1..Len(run) : Content'[Len(Content) + i] = run[i]
        BY <2>3, <3>2, ContentExtended, NextContentIsSequence DEF RingInv
      <3>4. Content' = Content \o run
        BY <2>0, <3>2, <3>3, ConcatByElements, Zenon
      <3>5. Fifo!Put(pCount, run)
        BY <2>0, <3>1, <3>4 DEF Fifo!Put
      <3> QED BY <3>1, <3>2, <3>5 DEF Fifo!Next
    <2>4. CASE Release
      <3>1. cCount \in 1..Len(Content)
            /\ Content' = SubSeq(Content, cCount + 1, Len(Content))
            /\ (cPc = "copy" => got' = SubSeq(Content, 1, cCount))
        BY <2>4, ContentShortened
      <3>2. CASE cPc = "copy"
        BY <3>1, <3>2 DEF Fifo!Take, Fifo!Next
      <3>3. CASE cPc = "drop"
        BY <3>1, <3>3, <2>4 DEF Release, Fifo!Forget, Fifo!Next
      <3> QED BY <3>2, <3>3, <2>4 DEF Release
    <2> QED
      BY <2>1, <2>2, <2>3, <2>4
         DEF Next, PushBulk, Push, Size, PopBulk, Pop, DiscardBulk, CopyOut, consVars, prodVars,
             vars
  <1> QED
    BY <1>1, <1>2, RingInvariant, PTL DEF Spec, FifoSpec, Fifo!Spec

=============================================================================
