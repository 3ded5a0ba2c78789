------------------------ MODULE InProcessQueueProofs ------------------------
(***************************************************************************)
(* Proofs about InProcessQueue, for any finite set of producers, any       *)
(* capacities and any number of frames.                                    *)
(*                                                                         *)
(* NoLostWakeup is not inductive by itself: a dequeue frees a slot and     *)
(* wakes one waiter, which keeps the sum of queued frames and woken        *)
(* producers only if that waiter was not already counted as woken.  So the *)
(* invariant says that a producer is in one of the two sets at most.       *)
(*                                                                         *)
(* BlockLosesNothing counts the frames of each producer; BlockInv says     *)
(* which they are: those in the queue are numbered on from the last one    *)
(* handed out, and there are as many as have been offered and are not      *)
(* inside a call that waits.                                               *)
(***************************************************************************)
EXTENDS InProcessQueue, FiniteSetTheorems, FunctionTheorems, TLAPS

WaitersApart ==
    /\ waiting \cap woken = {}
    /\ policy # "Block" => waiting = {} /\ woken = {}

QueueInv == TypeOK /\ WaitersApart /\ Bounded /\ NoLostWakeup /\ Accounting

(* What the queue operations do to the length of a sequence of frames.  *)
LEMMA AppendLength ==
    ASSUME NEW q \in Seq(Frames), NEW f \in Frames
    PROVE  Append(q, f) \in Seq(Frames) /\ Len(Append(q, f)) = Len(q) + 1
  OBVIOUS

LEMMA TailLength ==
    ASSUME NEW q \in Seq(Frames), q # <<>>
    PROVE  Tail(q) \in Seq(Frames) /\ Len(Tail(q)) = Len(q) - 1 /\ Len(q) > 0
           /\ Head(q) \in Frames
  OBVIOUS

LEMMA NonEmpty ==
    ASSUME NEW q \in Seq(Frames), Len(q) > 0
    PROVE  q # <<>>
  OBVIOUS

(* Sets of producers are finite, and counting them works as expected.  *)
LEMMA WokenCount ==
    ASSUME NEW S, S \subseteq Producers
    PROVE  /\ IsFiniteSet(S) /\ Cardinality(S) \in Nat
           /\ \A p \in Producers : p \notin S => Cardinality(S \cup {p}) = Cardinality(S) + 1
           /\ \A p \in S : Cardinality(S \ {p}) = Cardinality(S) - 1
<1>1. IsFiniteSet(S)
  BY ProducersAssumption, FS_Subset
<1>2. Cardinality(S) \in Nat
  BY <1>1, FS_CardinalityType
<1>3. \A p \in Producers : p \notin S => Cardinality(S \cup {p}) = Cardinality(S) + 1
  BY <1>1, FS_AddElement
<1>4. \A p \in S : Cardinality(S \ {p}) = Cardinality(S) - 1
  BY <1>1, FS_RemoveElement
<1>5. QED
  BY <1>1, <1>2, <1>3, <1>4

LEMMA InitQueueInv == Init => QueueInv
<1> SUFFICES ASSUME Init PROVE QueueInv
  OBVIOUS
<1>1. PICK c \in Capacities : capacity = EffectiveCapacity(c)
  BY DEF Init
<1>2. capacity \in Nat \ {0}
  BY <1>1, CapacitiesAssumption DEF EffectiveCapacity
<1>3. queue \in Seq(Frames) /\ Len(queue) = 0
  BY DEF Init
<1>4. TypeOK
  BY <1>2, <1>3 DEF Init, TypeOK
<1>5. WaitersApart /\ NoLostWakeup
  BY DEF Init, WaitersApart, NoLostWakeup
<1>6. Bounded /\ Accounting
  BY <1>2, <1>3 DEF Init, Bounded, Accounting
<1>7. QED
  BY <1>4, <1>5, <1>6 DEF QueueInv

LEMMA TypeStep == TypeOK /\ [Next]_vars => TypeOK'
<1> SUFFICES ASSUME TypeOK, [Next]_vars PROVE TypeOK'
  OBVIOUS
<1> USE DEF TypeOK
<1>0. ASSUME NEW p \in Producers, Offer(p)
      PROVE  /\ offered' \in [Producers -> Nat]
             /\ [by |-> p, no |-> offered'[p]] \in Frames
  BY <1>0 DEF Offer, Frames
<1>1. ASSUME NEW p \in Producers, EnqueueWithRoom(p) PROVE TypeOK'
  BY <1>0, <1>1, AppendLength DEF EnqueueWithRoom, Accept, config
<1>2. ASSUME NEW p \in Producers, EnqueueDropLatest(p) PROVE TypeOK'
  <2>1. offered' \in [Producers -> Nat]
    BY <1>0, <1>2 DEF EnqueueDropLatest
  <2>2. dropped' \in Nat
    BY <1>2 DEF EnqueueDropLatest
  <2>3. QED
    BY <1>2, <2>1, <2>2 DEF EnqueueDropLatest, config
<1>3. ASSUME NEW p \in Producers, EnqueueDropOldest(p) PROVE TypeOK'
  <2>1. queue # <<>>
    BY <1>3 DEF EnqueueDropOldest, Full
  <2>2. QED
    BY <1>0, <1>3, <2>1, AppendLength, TailLength DEF EnqueueDropOldest, Accept, config
<1>4. ASSUME NEW p \in Producers, EnqueueBlock(p) PROVE TypeOK'
  <2>1. offered' \in [Producers -> Nat]
    BY <1>0, <1>4 DEF EnqueueBlock
  <2>2. refused' \in Nat /\ waiting' \subseteq Producers
    BY <1>4 DEF EnqueueBlock
  <2>3. QED
    BY <1>4, <2>1, <2>2 DEF EnqueueBlock, config
<1>5. ASSUME NEW p \in Producers, SpuriousWake(p) PROVE TypeOK'
  BY <1>5 DEF SpuriousWake, config, history
<1>6. ASSUME NEW p \in Producers, Resume(p) PROVE TypeOK'
  <2>1. [by |-> p, no |-> offered[p]] \in Frames
    BY DEF Frames
  <2>2. queue' \in Seq(Frames)
    <3>1. CASE queue' = queue
      BY <3>1
    <3>2. CASE queue' = Append(queue, [by |-> p, no |-> offered[p]])
      BY <2>1, <3>2, AppendLength
    <3>3. QED
      BY <1>6, <3>1, <3>2 DEF Resume, Accept
  <2>3. enqueued' \in Nat /\ refused' \in Nat
    BY <1>6 DEF Resume, Accept
  <2>4. waiting' \subseteq Producers /\ woken' \subseteq Producers
    BY <1>6 DEF Resume
  <2>5. QED
    BY <1>6, <2>2, <2>3, <2>4 DEF Resume, config
<1>7. ASSUME Dequeue PROVE TypeOK'
  <2>1. queue' \in Seq(Frames) /\ Head(queue).by \in Producers /\ Head(queue).no \in Nat
    BY <1>7, TailLength DEF Dequeue, TakeFront, Frames
  <2>2. lastOut' \in [Producers -> Nat]
    BY <1>7, <2>1 DEF Dequeue, TakeFront
  <2>3. waiting' \subseteq Producers /\ woken' \subseteq Producers
    BY <1>7 DEF Dequeue, NotifyOne
  <2>4. QED
    BY <1>7, <2>1, <2>2, <2>3 DEF Dequeue, config
<1>8. CASE Shutdown
  BY <1>8 DEF Shutdown, config, history
<1>9. CASE NotifyAll
  BY <1>9 DEF NotifyAll, config, history
<1>10. CASE UNCHANGED vars
  BY <1>10 DEF vars, config, history
<1>11. QED
  BY <1>1, <1>2, <1>3, <1>4, <1>5, <1>6, <1>7, <1>8, <1>9, <1>10 DEF Next

(* How one notification moves a waiter, if there is one.  *)
LEMMA NotifyOneMoves ==
    ASSUME TypeOK, WaitersApart, NotifyOne
    PROVE  \/ UNCHANGED <<waiting, woken>> /\ (policy = "Block" => waiting = {})
           \/ \E p \in waiting :
                 /\ waiting' = waiting \ {p} /\ woken' = woken \cup {p}
                 /\ Cardinality(woken') = Cardinality(woken) + 1
<1>1. CASE policy = "Block" /\ waiting # {}
  <2>1. PICK p \in waiting : waiting' = waiting \ {p} /\ woken' = woken \cup {p}
    BY <1>1 DEF NotifyOne
  <2>2. p \in Producers /\ p \notin woken /\ woken \subseteq Producers
    BY DEF TypeOK, WaitersApart
  <2>3. QED
    BY <2>1, <2>2, WokenCount
<1>2. CASE ~(policy = "Block" /\ waiting # {})
  BY <1>2 DEF NotifyOne
<1>3. QED
  BY <1>1, <1>2

LEMMA ApartStep == TypeOK /\ WaitersApart /\ [Next]_vars => WaitersApart'
<1> SUFFICES ASSUME TypeOK, WaitersApart, [Next]_vars PROVE WaitersApart'
  OBVIOUS
<1> USE DEF WaitersApart, config
<1>1. ASSUME NEW p \in Producers, EnqueueWithRoom(p) PROVE WaitersApart'
  BY <1>1 DEF EnqueueWithRoom
<1>2. ASSUME NEW p \in Producers, EnqueueDropLatest(p) PROVE WaitersApart'
  BY <1>2 DEF EnqueueDropLatest
<1>3. ASSUME NEW p \in Producers, EnqueueDropOldest(p) PROVE WaitersApart'
  BY <1>3 DEF EnqueueDropOldest
<1>4. ASSUME NEW p \in Producers, EnqueueBlock(p) PROVE WaitersApart'
  BY <1>4 DEF EnqueueBlock, Offer, Inside
<1>5. ASSUME NEW p \in Producers, SpuriousWake(p) PROVE WaitersApart'
  BY <1>5 DEF SpuriousWake
<1>6. ASSUME NEW p \in Producers, Resume(p) PROVE WaitersApart'
  BY <1>6 DEF Resume
<1>7. ASSUME Dequeue PROVE WaitersApart'
  BY <1>7, NotifyOneMoves DEF Dequeue
<1>8. CASE Shutdown
  BY <1>8 DEF Shutdown
<1>9. CASE NotifyAll
  BY <1>9 DEF NotifyAll
<1>10. CASE UNCHANGED vars
  BY <1>10 DEF vars
<1>11. QED
  BY <1>1, <1>2, <1>3, <1>4, <1>5, <1>6, <1>7, <1>8, <1>9, <1>10 DEF Next

LEMMA BoundedStep == TypeOK /\ Bounded /\ [Next]_vars => Bounded'
<1> SUFFICES ASSUME TypeOK, Bounded, [Next]_vars PROVE Bounded'
  OBVIOUS
<1> USE DEF TypeOK, Bounded, Full, config
<1>0. ASSUME NEW p \in Producers, Offer(p)
      PROVE  [by |-> p, no |-> offered'[p]] \in Frames
  BY <1>0 DEF Offer, Frames
<1>1. ASSUME NEW p \in Producers, EnqueueWithRoom(p) PROVE Bounded'
  BY <1>0, <1>1, AppendLength DEF EnqueueWithRoom, Accept
<1>2. ASSUME NEW p \in Producers, EnqueueDropLatest(p) PROVE Bounded'
  BY <1>2 DEF EnqueueDropLatest
<1>3. ASSUME NEW p \in Producers, EnqueueDropOldest(p) PROVE Bounded'
  <2>1. queue # <<>>
    BY <1>3 DEF EnqueueDropOldest
  <2>2. QED
    BY <1>0, <1>3, <2>1, AppendLength, TailLength DEF EnqueueDropOldest, Accept
<1>4. ASSUME NEW p \in Producers, EnqueueBlock(p) PROVE Bounded'
  BY <1>4 DEF EnqueueBlock
<1>5. ASSUME NEW p \in Producers, SpuriousWake(p) PROVE Bounded'
  BY <1>5 DEF SpuriousWake
<1>6. ASSUME NEW p \in Producers, Resume(p) PROVE Bounded'
  <2>1. [by |-> p, no |-> offered[p]] \in Frames
    BY DEF Frames
  <2>2. QED
    BY <1>6, <2>1, AppendLength DEF Resume, Accept
<1>7. ASSUME Dequeue PROVE Bounded'
  BY <1>7, TailLength DEF Dequeue, TakeFront
<1>8. CASE Shutdown
  BY <1>8 DEF Shutdown
<1>9. CASE NotifyAll
  BY <1>9 DEF NotifyAll
<1>10. CASE UNCHANGED vars
  BY <1>10 DEF vars
<1>11. QED
  BY <1>1, <1>2, <1>3, <1>4, <1>5, <1>6, <1>7, <1>8, <1>9, <1>10 DEF Next

LEMMA AccountingStep == TypeOK /\ Accounting /\ [Next]_vars => Accounting'
<1> SUFFICES ASSUME TypeOK, Accounting, [Next]_vars PROVE Accounting'
  OBVIOUS
<1> USE DEF TypeOK, Accounting, config
<1>0. ASSUME NEW p \in Producers, Offer(p)
      PROVE  [by |-> p, no |-> offered'[p]] \in Frames
  BY <1>0 DEF Offer, Frames
<1>1. ASSUME NEW p \in Producers, EnqueueWithRoom(p) PROVE Accounting'
  BY <1>0, <1>1, AppendLength DEF EnqueueWithRoom, Accept
<1>2. ASSUME NEW p \in Producers, EnqueueDropLatest(p) PROVE Accounting'
  BY <1>2 DEF EnqueueDropLatest
<1>3. ASSUME NEW p \in Producers, EnqueueDropOldest(p) PROVE Accounting'
  <2>1. queue # <<>>
    BY <1>3 DEF EnqueueDropOldest, Full
  <2>2. QED
    BY <1>0, <1>3, <2>1, AppendLength, TailLength DEF EnqueueDropOldest, Accept
<1>4. ASSUME NEW p \in Producers, EnqueueBlock(p) PROVE Accounting'
  BY <1>4 DEF EnqueueBlock
<1>5. ASSUME NEW p \in Producers, SpuriousWake(p) PROVE Accounting'
  BY <1>5 DEF SpuriousWake, history
<1>6. ASSUME NEW p \in Producers, Resume(p) PROVE Accounting'
  <2>1. [by |-> p, no |-> offered[p]] \in Frames
    BY DEF Frames
  <2>2. \/ queue' = queue /\ enqueued' = enqueued
        \/ Len(queue') = Len(queue) + 1 /\ enqueued' = enqueued + 1
    BY <1>6, <2>1, AppendLength DEF Resume, Accept
  <2>3. enqueued' = dequeued + Len(queue') + (IF policy = "DropOldest" THEN dropped ELSE 0)
    <3>1. /\ Len(queue) \in Nat /\ dequeued \in Nat
          /\ (IF policy = "DropOldest" THEN dropped ELSE 0) \in Nat
      OBVIOUS
    <3>2. enqueued = dequeued + Len(queue) + (IF policy = "DropOldest" THEN dropped ELSE 0)
      OBVIOUS
    <3>3. QED
      BY <2>2, <3>1, <3>2
  <2>4. ~shutdown => refused' = 0
    BY <1>6 DEF Resume
  <2>5. UNCHANGED <<policy, dropped, dequeued, shutdown>>
    BY <1>6 DEF Resume
  <2>6. QED
    BY <2>3, <2>4, <2>5
<1>7. ASSUME Dequeue PROVE Accounting'
  BY <1>7, TailLength DEF Dequeue, TakeFront
<1>8. CASE Shutdown
  BY <1>8 DEF Shutdown, history
<1>9. CASE NotifyAll
  BY <1>9 DEF NotifyAll, history
<1>10. CASE UNCHANGED vars
  BY <1>10 DEF vars, history
<1>11. QED
  BY <1>1, <1>2, <1>3, <1>4, <1>5, <1>6, <1>7, <1>8, <1>9, <1>10 DEF Next

(* While a producer waits, the queued frames and the woken producers        *)
(* together never fall below the capacity.                                  *)
LEMMA WakeupStep ==
    TypeOK /\ WaitersApart /\ NoLostWakeup /\ [Next]_vars => NoLostWakeup'
<1> SUFFICES ASSUME TypeOK, WaitersApart, NoLostWakeup, [Next]_vars PROVE NoLostWakeup'
  OBVIOUS
<1> USE DEF NoLostWakeup, config
<1>t. /\ queue \in Seq(Frames) /\ Len(queue) \in Nat /\ capacity \in Nat
      /\ woken \subseteq Producers /\ Cardinality(woken) \in Nat
  BY WokenCount DEF TypeOK
<1>0. ASSUME NEW p \in Producers, Offer(p)
      PROVE  [by |-> p, no |-> offered'[p]] \in Frames
  BY <1>0 DEF Offer, Frames, TypeOK
<1>1. ASSUME NEW p \in Producers, EnqueueWithRoom(p) PROVE NoLostWakeup'
  BY <1>0, <1>1, <1>t, AppendLength DEF EnqueueWithRoom, Accept
<1>2. ASSUME NEW p \in Producers, EnqueueDropLatest(p) PROVE NoLostWakeup'
  BY <1>2 DEF EnqueueDropLatest
<1>3. ASSUME NEW p \in Producers, EnqueueDropOldest(p) PROVE NoLostWakeup'
  BY <1>3 DEF EnqueueDropOldest, WaitersApart
<1>4. ASSUME NEW p \in Producers, EnqueueBlock(p) PROVE NoLostWakeup'
  BY <1>4, <1>t DEF EnqueueBlock, Full
<1>5. ASSUME NEW p \in Producers, SpuriousWake(p) PROVE NoLostWakeup'
  <2>1. p \notin woken /\ Cardinality(woken') = Cardinality(woken) + 1
    BY <1>5, <1>t, WokenCount DEF SpuriousWake, WaitersApart
  <2>2. QED
    BY <1>5, <1>t, <2>1 DEF SpuriousWake
<1>6. ASSUME NEW p \in Producers, Resume(p) PROVE NoLostWakeup'
  <2>1. Cardinality(woken') = Cardinality(woken) - 1
    BY <1>6, <1>t, WokenCount DEF Resume
  <2>2. CASE Full /\ ~shutdown
    <3>1. Len(queue') >= capacity' /\ ~shutdown'
      BY <1>6, <2>2 DEF Resume, Full
    <3>2. Cardinality(woken') \in Nat
      BY <1>6, <1>t, WokenCount DEF Resume
    <3>3. capacity' \in Nat /\ Len(queue') \in Nat
      BY <1>6, <2>2, <1>t DEF Resume
    <3>4. QED
      BY <3>1, <3>2, <3>3
  <2>3. CASE shutdown
    BY <1>6, <2>3 DEF Resume
  <2>4. CASE ~Full /\ ~shutdown
    <3>1. [by |-> p, no |-> offered[p]] \in Frames
      BY DEF Frames, TypeOK
    <3>2. Len(queue') = Len(queue) + 1
      BY <1>6, <2>4, <3>1, <1>t, AppendLength DEF Resume, Accept
    <3>3. QED
      BY <1>6, <2>1, <2>4, <3>2, <1>t DEF Resume
  <2>5. QED
    BY <2>2, <2>3, <2>4
<1>7. ASSUME Dequeue PROVE NoLostWakeup'
  <2>1. NotifyOne /\ Len(queue') = Len(queue) - 1
    BY <1>7, <1>t, TailLength DEF Dequeue, TakeFront
  <2>2. UNCHANGED <<policy, capacity, shutdown, notifying>>
    BY <1>7 DEF Dequeue
  <2>3. CASE UNCHANGED <<waiting, woken>> /\ (policy = "Block" => waiting = {})
    BY <2>3 DEF WaitersApart
  <2>4. CASE \E p \in waiting : /\ waiting' = waiting \ {p}
                                /\ Cardinality(woken') = Cardinality(woken) + 1
    BY <2>1, <2>2, <2>4, <1>t
  <2>5. QED
    BY <2>1, <2>3, <2>4, NotifyOneMoves
<1>8. CASE Shutdown
  BY <1>8 DEF Shutdown
<1>9. CASE NotifyAll
  BY <1>9 DEF NotifyAll
<1>10. CASE UNCHANGED vars
  BY <1>10 DEF vars
<1>11. QED
  BY <1>1, <1>2, <1>3, <1>4, <1>5, <1>6, <1>7, <1>8, <1>9, <1>10 DEF Next

(* The inductive invariant of the queue holds of every run. *)
THEOREM QueueInvariant == Spec => []QueueInv
<1>1. Init => QueueInv
  BY InitQueueInv
<1>2. QueueInv /\ [Next]_vars => QueueInv'
  BY TypeStep, ApartStep, BoundedStep, AccountingStep, WakeupStep DEF QueueInv
<1>3. QED
  BY <1>1, <1>2, PTL DEF Spec

(* The variables keep their types. *)
THEOREM TypeCorrect == Spec => []TypeOK
<1>1. QueueInv => TypeOK
  BY DEF QueueInv
<1>2. QED
  BY <1>1, QueueInvariant, PTL

(* The queue never exceeds its capacity, whatever waits and wakes.  *)
THEOREM NeverOverfull == Spec => []Bounded
<1>1. QueueInv => Bounded
  BY DEF QueueInv
<1>2. QED
  BY <1>1, QueueInvariant, PTL

(* The counters add up under every policy. *)
THEOREM CountersAddUp == Spec => []Accounting
<1>1. QueueInv => Accounting
  BY DEF QueueInv
<1>2. QED
  BY <1>1, QueueInvariant, PTL

(* One notification per dequeue is enough for any number of producers. *)
THEOREM WakeupsSuffice == Spec => []NoLostWakeup
<1>1. QueueInv => NoLostWakeup
  BY DEF QueueInv
<1>2. QED
  BY <1>1, QueueInvariant, PTL

-----------------------------------------------------------------------------
(* The numbers of the frames offered stay within the bound, and a producer  *)
(* inside a wait has offered one.                                           *)
OfferInv ==
    \A p \in Producers :
        offered[p] <= MaxOffers /\ (p \in Inside => offered[p] >= 1)

LEMMA OfferStep == TypeOK /\ OfferInv /\ [Next]_vars => OfferInv'
<1> SUFFICES ASSUME TypeOK, OfferInv, [Next]_vars PROVE OfferInv'
  OBVIOUS
<1> USE DEF OfferInv, Inside, config
<1>t. offered \in [Producers -> Nat] /\ MaxOffers \in Nat
  BY OffersAssumption DEF TypeOK
<1>0. ASSUME NEW p \in Producers, Offer(p)
      PROVE  \A r \in Producers :
                /\ offered'[r] <= MaxOffers
                /\ r = p \/ r \in Inside => offered'[r] >= 1
  BY <1>0, <1>t DEF Offer
<1>1. ASSUME NEW p \in Producers, EnqueueWithRoom(p) PROVE OfferInv'
  BY <1>0, <1>1 DEF EnqueueWithRoom
<1>2. ASSUME NEW p \in Producers, EnqueueDropLatest(p) PROVE OfferInv'
  BY <1>0, <1>2 DEF EnqueueDropLatest
<1>3. ASSUME NEW p \in Producers, EnqueueDropOldest(p) PROVE OfferInv'
  BY <1>0, <1>3 DEF EnqueueDropOldest
<1>4. ASSUME NEW p \in Producers, EnqueueBlock(p) PROVE OfferInv'
  BY <1>0, <1>4 DEF EnqueueBlock
<1>5. ASSUME NEW p \in Producers, SpuriousWake(p) PROVE OfferInv'
  BY <1>5 DEF SpuriousWake, history
<1>6. ASSUME NEW p \in Producers, Resume(p) PROVE OfferInv'
  BY <1>6 DEF Resume
<1>7. ASSUME Dequeue PROVE OfferInv'
  BY <1>7 DEF Dequeue, NotifyOne
<1>8. CASE Shutdown
  BY <1>8 DEF Shutdown, history
<1>9. CASE NotifyAll
  BY <1>9 DEF NotifyAll, history
<1>10. CASE UNCHANGED vars
  BY <1>10 DEF vars, history
<1>11. QED
  BY <1>1, <1>2, <1>3, <1>4, <1>5, <1>6, <1>7, <1>8, <1>9, <1>10 DEF Next

LEMMA OffersBounded == Spec => []OfferInv
<1>1. Init => OfferInv
  BY OffersAssumption DEF Init, OfferInv, Inside
<1>2. TypeOK /\ OfferInv /\ [Next]_vars => OfferInv'
  BY OfferStep
<1>3. QED
  BY <1>1, <1>2, TypeCorrect, PTL DEF Spec

LEMMA StepImplements ==
    TypeOK /\ WaitersApart /\ OfferInv /\ [Next]_vars => [Promise!Next]_(Promise!vars)
<1> SUFFICES ASSUME TypeOK, WaitersApart, OfferInv, [Next]_vars
             PROVE  [Promise!Next]_(Promise!vars)
  OBVIOUS
<1> USE DEF config, Promise!config, Promise!vars, Full, Promise!Full
<1>0. ASSUME NEW p \in Producers, Offer(p)
      PROVE  \E f \in [by : Producers, no : 1..MaxOffers] :
                f.by = p /\ f = [by |-> p, no |-> offered'[p]]
  <2>1. offered'[p] \in 1..MaxOffers
    BY <1>0, OffersAssumption DEF Offer, TypeOK
  <2>2. QED
    BY <2>1
<1>1. ASSUME NEW p \in Producers, EnqueueWithRoom(p) PROVE Promise!Put(p)
  BY <1>0, <1>1 DEF EnqueueWithRoom, Accept, Promise!Put, Offer, Inside
<1>2. ASSUME NEW p \in Producers, EnqueueDropLatest(p) PROVE UNCHANGED Promise!vars
  BY <1>2 DEF EnqueueDropLatest, Inside
<1>3. ASSUME NEW p \in Producers, EnqueueDropOldest(p) PROVE Promise!Replace(p)
  BY <1>0, <1>3 DEF EnqueueDropOldest, Accept, Promise!Replace, Inside
<1>4. ASSUME NEW p \in Producers, EnqueueBlock(p)
      PROVE  Promise!Block(p) \/ UNCHANGED Promise!vars
  <2>1. CASE shutdown
    BY <1>4, <2>1 DEF EnqueueBlock, Inside
  <2>2. CASE ~shutdown
    BY <1>4, <2>2 DEF EnqueueBlock, Offer, Inside, Promise!Block
  <2>3. QED
    BY <2>1, <2>2
<1>5. ASSUME NEW p \in Producers, SpuriousWake(p) PROVE UNCHANGED Promise!vars
  BY <1>5 DEF SpuriousWake, Inside
<1>6. ASSUME NEW p \in Producers, Resume(p)
      PROVE  Promise!Unblock(p) \/ UNCHANGED Promise!vars
  <2>1. CASE Full /\ ~shutdown
    BY <1>6, <2>1 DEF Resume, Inside
  <2>2. ASSUME ~(Full /\ ~shutdown) PROVE Inside' = Inside \ {p}
    BY <1>6, <2>2 DEF Resume, Inside, WaitersApart
  <2>3. CASE shutdown
    BY <1>6, <2>2, <2>3 DEF Resume, Promise!Unblock, Inside
  <2>4. CASE ~Full /\ ~shutdown
    <3>1. [by |-> p, no |-> offered[p]] \in [by : Producers, no : 1..MaxOffers]
      BY <1>6, OffersAssumption DEF Resume, OfferInv, Inside, TypeOK
    <3>2. queue' = Append(queue, [by |-> p, no |-> offered[p]])
      BY <1>6, <2>4 DEF Resume, Accept
    <3>3. p \in Inside /\ UNCHANGED <<policy, capacity, shutdown>>
      BY <1>6 DEF Resume, Inside
    <3>4. QED
      BY <2>2, <2>4, <3>1, <3>2, <3>3 DEF Promise!Unblock
  <2>5. QED
    BY <2>1, <2>3, <2>4
<1>7. ASSUME Dequeue PROVE Promise!Take
  BY <1>7 DEF Dequeue, TakeFront, NotifyOne, Inside, Promise!Take
<1>8. ASSUME Shutdown PROVE Promise!Close
  BY <1>8 DEF Shutdown, Promise!Close, Inside
<1>9. ASSUME NotifyAll PROVE UNCHANGED Promise!vars
  BY <1>9 DEF NotifyAll, Inside
<1>10. CASE UNCHANGED vars
  BY <1>10 DEF vars, Inside
<1>11. QED
  BY <1>1, <1>2, <1>3, <1>4, <1>5, <1>6, <1>7, <1>8, <1>9, <1>10 DEF Next, Promise!Next

(* Every run of the queue is a run of FrameQueue: a call takes effect in    *)
(* one step, and a frame is accepted only while there is room.  (That       *)
(* blocked calls end, the fairness of QueueSpec, is model-checked.)         *)
THEOREM QueueImplementsPromise == Spec => Promise!Init /\ [][Promise!Next]_(Promise!vars)
<1>1. Init => Promise!Init
  BY DEF Init, Promise!Init, Policies, Inside
<1>2. QueueInv => TypeOK /\ WaitersApart
  BY DEF QueueInv
<1>3. TypeOK /\ WaitersApart /\ OfferInv /\ [Next]_vars => [Promise!Next]_(Promise!vars)
  BY StepImplements
<1>4. QED
  BY <1>1, <1>2, <1>3, QueueInvariant, OffersBounded, PTL DEF Spec

-----------------------------------------------------------------------------
LEMMA ElementFields ==
    ASSUME NEW q \in Seq(Frames)
    PROVE  /\ Len(q) \in Nat
           /\ \A i \in 1..Len(q) : q[i] \in Frames /\ q[i].by \in Producers /\ q[i].no \in Nat
<1>1. Len(q) \in Nat /\ \A i \in 1..Len(q) : q[i] \in Frames
  OBVIOUS
<1>2. \A f \in Frames : f.by \in Producers /\ f.no \in Nat
  BY DEF Frames
<1>3. QED
  BY <1>1, <1>2

(* An ordered queue stays ordered when a later frame is appended, when the  *)
(* bound rises, and when its first frame is taken or dropped.               *)
LEMMA AppendKeepsOrder ==
    ASSUME NEW q \in Seq(Frames), NEW f \in Frames,
           NEW last \in [Producers -> Nat], NEW l1 \in [Producers -> Nat],
           NEW l2 \in [Producers -> Nat],
           Ordered(q, last, l1), l1[f.by] < f.no, f.no <= l2[f.by],
           \A p \in Producers : l1[p] <= l2[p]
    PROVE  Ordered(Append(q, f), last, l2)
<1> DEFINE r == Append(q, f)
<1> USE DEF Ordered
<1>1. /\ Len(q) \in Nat /\ Len(r) = Len(q) + 1
      /\ \A i \in 1..Len(q) : r[i] = q[i] /\ q[i] \in Frames
      /\ r[Len(q) + 1] = f
  OBVIOUS
<1>2. f.by \in Producers /\ f.no \in Nat
      /\ \A i \in 1..Len(q) : q[i].by \in Producers /\ q[i].no \in Nat
  BY ElementFields DEF Frames
<1> HIDE DEF r
<1>3. \A i \in 1..Len(q) : q[i].by = f.by => q[i].no < f.no
  BY <1>2
<1>4. \A i, j \in 1..Len(r) : i < j /\ r[i].by = r[j].by => r[i].no < r[j].no
  <2> SUFFICES ASSUME NEW i \in 1..Len(r), NEW j \in 1..Len(r), i < j, r[i].by = r[j].by
               PROVE  r[i].no < r[j].no
    OBVIOUS
  <2>1. i \in 1..Len(q)
    BY <1>1
  <2>2. CASE j \in 1..Len(q)
    BY <1>1, <2>1, <2>2
  <2>3. CASE j = Len(q) + 1
    BY <1>1, <1>3, <2>1, <2>3
  <2>4. j \in 1..Len(q) \/ j = Len(q) + 1
    <3>1. Len(q) \in Nat /\ j \in 1..(Len(q) + 1)
      BY <1>1
    <3>2. QED
      BY ONLY <3>1
  <2>5. QED
    BY <2>2, <2>3, <2>4
<1>5. \A i \in 1..Len(r) : last[r[i].by] < r[i].no /\ r[i].no <= l2[r[i].by]
  <2> SUFFICES ASSUME NEW i \in 1..Len(r)
               PROVE  last[r[i].by] < r[i].no /\ r[i].no <= l2[r[i].by]
    OBVIOUS
  <2>1. CASE i \in 1..Len(q)
    BY <1>1, <1>2, <2>1, SMTT(30)
  <2>2. CASE i = Len(q) + 1
    <3>1. last[f.by] \in Nat /\ l1[f.by] \in Nat /\ last[f.by] <= l1[f.by]
      BY <1>2
    <3>2. r[i] = f
      BY <1>1, <2>2
    <3>3. QED
      BY <1>2, <3>1, <3>2
  <2>3. QED
    BY <1>1, <2>1, <2>2
<1>6. \A p \in Producers : last[p] <= l2[p]
  OBVIOUS
<1>7. QED
  BY <1>4, <1>5, <1>6 DEF r

LEMMA RaiseKeepsOrder ==
    ASSUME NEW q \in Seq(Frames), NEW last \in [Producers -> Nat],
           NEW l1 \in [Producers -> Nat], NEW l2 \in [Producers -> Nat],
           Ordered(q, last, l1), \A p \in Producers : l1[p] <= l2[p]
    PROVE  Ordered(q, last, l2)
<1>1. \A i \in 1..Len(q) : q[i].by \in Producers /\ q[i].no \in Nat
  BY ElementFields
<1>2. \A p \in Producers : last[p] \in Nat /\ l1[p] \in Nat /\ l2[p] \in Nat
  OBVIOUS
<1>3. \A p \in Producers : last[p] <= l2[p]
  BY <1>2 DEF Ordered
<1>4. \A i \in 1..Len(q) : q[i].no <= l2[q[i].by]
  BY <1>1, <1>2 DEF Ordered
<1>5. QED
  BY <1>3, <1>4 DEF Ordered

LEMMA TailKeepsOrder ==
    ASSUME NEW q \in Seq(Frames), q # <<>>, NEW last \in [Producers -> Nat],
           NEW latest \in [Producers -> Nat], Ordered(q, last, latest)
    PROVE  /\ Ordered(Tail(q), last, latest)
           /\ Ordered(Tail(q), [last EXCEPT ![Head(q).by] = Head(q).no], latest)
<1> DEFINE r == Tail(q)
<1> USE DEF Ordered
<1>1. /\ Len(q) \in Nat /\ Len(q) > 0 /\ Len(r) = Len(q) - 1 /\ Head(q) = q[1]
      /\ \A i \in 1..Len(r) : r[i] = q[i + 1] /\ i + 1 \in 1..Len(q)
      /\ \A i \in 1..Len(q) : q[i].by \in Producers /\ q[i].no \in Nat
  BY ElementFields
<1> HIDE DEF r
<1>2. \A i, j \in 1..Len(r) : i < j /\ r[i].by = r[j].by => r[i].no < r[j].no
  <2> SUFFICES ASSUME NEW i \in 1..Len(r), NEW j \in 1..Len(r), i < j, r[i].by = r[j].by
               PROVE  r[i].no < r[j].no
    OBVIOUS
  <2>1. i + 1 < j + 1 /\ q[i + 1].by = q[j + 1].by
    BY <1>1
  <2>2. QED
    BY <1>1, <2>1
<1>3. \A i \in 1..Len(r) : last[r[i].by] < r[i].no /\ r[i].no <= latest[r[i].by]
  BY <1>1
<1>4. \A i \in 1..Len(r) : r[i].by = q[1].by => q[1].no < r[i].no
  <2> SUFFICES ASSUME NEW i \in 1..Len(r), r[i].by = q[1].by
               PROVE  q[1].no < r[i].no
    OBVIOUS
  <2>1. r[i] = q[i + 1] /\ 1 \in 1..Len(q) /\ i + 1 \in 1..Len(q) /\ 1 < i + 1
    BY <1>1
  <2>2. QED
    BY <2>1
<1>5. 1 \in 1..Len(q) /\ q[1].by \in Producers /\ q[1].no \in Nat
  BY <1>1
<1>6. Ordered(r, last, latest)
  BY <1>2, <1>3
<1>7. Ordered(r, [last EXCEPT ![q[1].by] = q[1].no], latest)
  <2> DEFINE last2 == [last EXCEPT ![q[1].by] = q[1].no]
  <2>1. \A i \in 1..Len(r) : r[i].by \in Producers
    BY <1>1
  <2>2. \A i \in 1..Len(r) : last2[r[i].by] < r[i].no /\ r[i].no <= latest[r[i].by]
    BY <1>3, <1>4, <2>1
  <2>3. \A p \in Producers : last2[p] <= latest[p]
    BY <1>5
  <2>4. QED
    BY <1>2, <2>2, <2>3
<1>8. QED
  BY <1>1, <1>6, <1>7 DEF r

(* An enqueue that ends raises Latest of its producer; a dequeue raises     *)
(* lastOut; both keep the order.                                            *)
LEMMA OrderStep ==
    TypeOK /\ TypeOK' /\ WaitersApart /\ OfferInv /\ OfferInv' /\ ProducerOrder /\ [Next]_vars
        => ProducerOrder'
<1> SUFFICES ASSUME TypeOK, TypeOK', WaitersApart, OfferInv, OfferInv', ProducerOrder, [Next]_vars
             PROVE  Ordered(queue', lastOut', Latest')
  BY DEF ProducerOrder
<1>t. /\ queue \in Seq(Frames) /\ lastOut \in [Producers -> Nat]
      /\ offered \in [Producers -> Nat]
      /\ Latest \in [Producers -> Nat] /\ Latest' \in [Producers -> Nat]
      /\ Ordered(queue, lastOut, Latest)
  <2>1. Latest \in [Producers -> Nat] /\ Latest' \in [Producers -> Nat]
    BY SMTT(30) DEF TypeOK, OfferInv, Latest
  <2>2. QED
    BY <2>1 DEF TypeOK, ProducerOrder
<1>0. ASSUME NEW p \in Producers, Offer(p), UNCHANGED Inside
      PROVE  /\ [by |-> p, no |-> offered'[p]] \in Frames
             /\ Latest[p] < offered'[p] /\ offered'[p] <= Latest'[p]
             /\ \A r \in Producers : Latest[r] <= Latest'[r]
  BY <1>0, <1>t DEF Offer, Latest, Frames
<1>1. ASSUME NEW p \in Producers, EnqueueWithRoom(p)
      PROVE  Ordered(queue', lastOut', Latest')
  <2>1. /\ Offer(p) /\ UNCHANGED Inside /\ lastOut' = lastOut
        /\ queue' = Append(queue, [by |-> p, no |-> offered'[p]])
    BY <1>1 DEF EnqueueWithRoom, Accept, Inside
  <2>2. QED
    BY <1>0, <1>t, <2>1, AppendKeepsOrder
<1>2. ASSUME NEW p \in Producers, EnqueueDropLatest(p)
      PROVE  Ordered(queue', lastOut', Latest')
  <2>1. Offer(p) /\ UNCHANGED <<Inside, lastOut, queue>>
    BY <1>2 DEF EnqueueDropLatest, Inside
  <2>2. QED
    BY <1>0, <1>t, <2>1, RaiseKeepsOrder
<1>3. ASSUME NEW p \in Producers, EnqueueDropOldest(p)
      PROVE  Ordered(queue', lastOut', Latest')
  <2>1. /\ Offer(p) /\ UNCHANGED Inside /\ lastOut' = lastOut
        /\ queue' = Append(Tail(queue), [by |-> p, no |-> offered'[p]])
        /\ queue # <<>>
    BY <1>3 DEF EnqueueDropOldest, Accept, Inside, Full, TypeOK
  <2>2. Tail(queue) \in Seq(Frames) /\ Ordered(Tail(queue), lastOut, Latest)
    BY <1>t, <2>1, TailKeepsOrder, TailLength
  <2>3. QED
    BY <1>0, <1>t, <2>1, <2>2, AppendKeepsOrder
<1>4. ASSUME NEW p \in Producers, EnqueueBlock(p)
      PROVE  Ordered(queue', lastOut', Latest')
  <2>1. Offer(p) /\ UNCHANGED <<lastOut, queue>>
    BY <1>4 DEF EnqueueBlock
  <2>2. Inside' = Inside \/ Inside' = Inside \cup {p}
    BY <1>4 DEF EnqueueBlock, Inside
  <2>3. \A r \in Producers : Latest[r] <= Latest'[r]
    BY <1>t, <2>1, <2>2 DEF Offer, Latest
  <2>4. QED
    BY <1>t, <2>1, <2>3, RaiseKeepsOrder
<1>5. ASSUME NEW p \in Producers, SpuriousWake(p)
      PROVE  Ordered(queue', lastOut', Latest')
  <2>1. UNCHANGED <<Inside, offered, lastOut, queue>>
    BY <1>5 DEF SpuriousWake, Inside, history
  <2>2. QED
    BY <1>t, <2>1 DEF Latest
<1>6. ASSUME NEW p \in Producers, Resume(p)
      PROVE  Ordered(queue', lastOut', Latest')
  <2>1. p \in Inside /\ offered[p] >= 1 /\ UNCHANGED <<lastOut, offered>>
    BY <1>6 DEF Resume, Inside, OfferInv
  <2>2. Inside' = Inside \/ Inside' = Inside \ {p}
    BY <1>6 DEF Resume, Inside, WaitersApart
  <2>3. \A r \in Producers : Latest[r] <= Latest'[r]
    BY <1>t, <2>1, <2>2 DEF Latest
  <2>4. CASE queue' = queue
    BY <1>t, <2>1, <2>3, <2>4, RaiseKeepsOrder
  <2>5. CASE ~Full /\ ~shutdown
    <3>1. queue' = Append(queue, [by |-> p, no |-> offered[p]]) /\ Inside' = Inside \ {p}
      BY <1>6, <2>5 DEF Resume, Accept, Inside, WaitersApart
    <3>2. [by |-> p, no |-> offered[p]] \in Frames
      BY <1>t DEF Frames
    <3>3. Latest[p] < offered[p] /\ offered[p] <= Latest'[p]
      BY <1>t, <2>1, <3>1 DEF Latest
    <3>4. QED
      BY <1>t, <2>1, <2>3, <3>1, <3>2, <3>3, AppendKeepsOrder
  <2>6. QED
    BY <1>6, <2>4, <2>5 DEF Resume
<1>7. ASSUME Dequeue
      PROVE  Ordered(queue', lastOut', Latest')
  <2>1. /\ UNCHANGED <<Inside, offered>> /\ queue # <<>>
        /\ queue' = Tail(queue)
        /\ lastOut' = [lastOut EXCEPT ![Head(queue).by] = Head(queue).no]
    BY <1>7 DEF Dequeue, TakeFront, NotifyOne, Inside
  <2>2. Latest' = Latest
    BY <2>1 DEF Latest
  <2>3. QED
    BY <1>t, <2>1, <2>2, TailKeepsOrder
<1>8. ASSUME Shutdown \/ NotifyAll \/ UNCHANGED vars
      PROVE  Ordered(queue', lastOut', Latest')
  <2>1. UNCHANGED <<Inside, offered, lastOut, queue>>
    BY <1>8 DEF Shutdown, NotifyAll, vars, Inside, history
  <2>2. QED
    BY <1>t, <2>1 DEF Latest
<1>9. QED
  BY <1>1, <1>2, <1>3, <1>4, <1>5, <1>6, <1>7, <1>8 DEF Next

(* The frames of each producer leave in order and at most once, for any     *)
(* number of producers, under every policy.                                 *)
THEOREM OrderKept == Spec => []ProducerOrder
<1>1. Init => ProducerOrder
  <2> SUFFICES ASSUME Init PROVE ProducerOrder
    OBVIOUS
  <2>1. Len(queue) = 0 /\ \A p \in Producers : lastOut[p] = 0 /\ Latest[p] = 0
    BY DEF Init, Latest, Inside
  <2>2. QED
    BY <2>1 DEF ProducerOrder, Ordered
<1>2. QueueInv => TypeOK /\ WaitersApart
  BY DEF QueueInv
<1>3. TypeOK /\ TypeOK' /\ WaitersApart /\ OfferInv /\ OfferInv' /\ ProducerOrder /\ [Next]_vars
         => ProducerOrder'
  BY OrderStep
<1>4. QED
  BY <1>1, <1>2, <1>3, QueueInvariant, OffersBounded, PTL DEF Spec


-----------------------------------------------------------------------------
(* How many of the first n frames of q are p's.  Under Block the frames of a  *)
(* producer are numbered without a gap: BlockLosesNothing is not inductive by *)
(* itself, since the frame a dequeue hands out must be the next one.          *)
Among(q, p, n) == Cardinality({i \in 1..n : q[i].by = p})

NextInLine(q, last) ==
    \A i \in 1..Len(q) : q[i].no = last[q[i].by] + Among(q, q[i].by, i)

AllThere(q, last, count, inside) ==
    \A p \in Producers :
        count[p] = last[p] + Among(q, p, Len(q)) + (IF p \in inside THEN 1 ELSE 0)

BlockInv ==
    policy = "Block" /\ ~shutdown =>
        NextInLine(queue, lastOut) /\ AllThere(queue, lastOut, offered, Inside)

LEMMA AmongFinite ==
    ASSUME NEW q, NEW p, NEW n \in Nat
    PROVE  IsFiniteSet({i \in 1..n : q[i].by = p}) /\ Among(q, p, n) \in Nat
<1>1. IsFiniteSet(1..n)
  BY FS_Interval
<1>2. {i \in 1..n : q[i].by = p} \in SUBSET (1..n)
  OBVIOUS
<1>3. IsFiniteSet({i \in 1..n : q[i].by = p})
  BY <1>1, <1>2, FS_Subset
<1>4. QED
  BY <1>3, FS_CardinalityType DEF Among

(* The count goes up by one at a frame of p's, and not elsewhere.             *)
LEMMA AmongNext ==
    ASSUME NEW q, NEW p, NEW n \in Nat
    PROVE  Among(q, p, n + 1) = Among(q, p, n) + (IF q[n + 1].by = p THEN 1 ELSE 0)
<1> DEFINE S == {i \in 1..n : q[i].by = p}
<1>1. IsFiniteSet(S)
  BY AmongFinite
<1>2. n + 1 \notin S
  OBVIOUS
<1>3. CASE q[n + 1].by = p
  <2>1. {i \in 1..(n + 1) : q[i].by = p} = S \cup {n + 1}
    BY <1>3
  <2>2. Cardinality(S \cup {n + 1}) = Cardinality(S) + 1
    BY <1>1, <1>2, FS_AddElement
  <2>3. QED
    BY <1>3, <2>1, <2>2 DEF Among
<1>4. CASE q[n + 1].by # p
  <2>1. {i \in 1..(n + 1) : q[i].by = p} = S
    BY <1>4
  <2>2. Cardinality(S) \in Nat
    BY <1>1, FS_CardinalityType
  <2>3. QED
    BY <1>4, <2>1, <2>2 DEF Among
<1>5. QED
  BY <1>3, <1>4

(* The count looks at the first n frames only.                                *)
LEMMA AmongSame ==
    ASSUME NEW q, NEW r, NEW p, NEW n \in Nat, \A i \in 1..n : r[i] = q[i]
    PROVE  Among(r, p, n) = Among(q, p, n)
<1>1. {i \in 1..n : r[i].by = p} = {i \in 1..n : q[i].by = p}
  OBVIOUS
<1>2. QED
  BY <1>1 DEF Among

(* Without the first frame every other one stands a place further ahead.      *)
LEMMA AmongTail ==
    ASSUME NEW q, NEW r, NEW p, NEW n \in Nat, NEW m, m = n + 1,
           \A i \in 1..n : r[i] = q[i + 1]
    PROVE  Among(r, p, n) = Among(q, p, m) - (IF q[1].by = p THEN 1 ELSE 0)
<1> DEFINE R == {i \in 1..n : r[i].by = p}
           T == {i \in 2..m : q[i].by = p}
           S == {i \in 1..m : q[i].by = p}
           f == [i \in R |-> i + 1]
<1>1. IsFiniteSet(R) /\ IsFiniteSet(S) /\ Cardinality(R) \in Nat
  <2>1. IsFiniteSet(R)
    BY AmongFinite
  <2>2. m \in Nat
    OBVIOUS
  <2>3. IsFiniteSet(S)
    BY <2>2, AmongFinite
  <2>4. QED
    BY <2>1, <2>3, FS_CardinalityType
<1>2. Cardinality(T) = Cardinality(R)
  <2>1. f \in [R -> T]
    OBVIOUS
  <2>2. \A a, b \in R : f[a] = f[b] => a = b
    OBVIOUS
  <2>3. \A t \in T : \E s \in R : f[s] = t
    <3> SUFFICES ASSUME NEW t \in T PROVE \E s \in R : f[s] = t
      OBVIOUS
    <3>1. t - 1 \in 1..n /\ (t - 1) + 1 = t
      OBVIOUS
    <3>2. t - 1 \in R
      BY <3>1
    <3>3. f[t - 1] = t
      BY <3>1, <3>2
    <3>4. QED
      BY <3>2, <3>3
  <2>4. f \in Bijection(R, T)
    BY <2>1, <2>2, <2>3, Fun_IsBij
  <2>5. ExistsBijection(R, T)
    BY <2>4 DEF ExistsBijection
  <2>6. QED
    BY <1>1, <2>5, FS_Bijection
<1>3. CASE q[1].by = p
  <2>1. T = S \ {1} /\ 1 \in S
    BY <1>3
  <2>2. Cardinality(S \ {1}) = Cardinality(S) - 1
    BY <1>1, <2>1, FS_RemoveElement
  <2>3. QED
    BY <1>2, <1>3, <2>1, <2>2 DEF Among
<1>4. CASE q[1].by # p
  <2>1. T = S
    BY <1>4
  <2>2. Cardinality(S) = Cardinality(R) /\ Cardinality(S) \in Nat
    BY <1>1, <1>2, <2>1
  <2>3. Among(r, p, n) = Cardinality(R) /\ Among(q, p, m) = Cardinality(S)
    BY DEF Among
  <2>4. QED
    BY ONLY <1>4, <2>2, <2>3
<1>5. QED
  BY <1>3, <1>4

(* A producer's frame, the next in number, goes to the end of the queue.      *)
LEMMA AppendKeepsLine ==
    ASSUME NEW q \in Seq(Frames), NEW f \in Frames, NEW last \in [Producers -> Nat],
           NEW count \in [Producers -> Nat], NEW in1 \in SUBSET Producers,
           NEW in2 \in SUBSET Producers, NEW next \in [Producers -> Nat],
           NextInLine(q, last), AllThere(q, last, count, in1),
           f.no = last[f.by] + (Among(q, f.by, Len(q)) + 1),
           next[f.by] = f.no, f.by \notin in2,
           \A r \in Producers : r # f.by => next[r] = count[r] /\ (r \in in1 <=> r \in in2)
    PROVE  NextInLine(Append(q, f), last) /\ AllThere(Append(q, f), last, next, in2)
<1> DEFINE r == Append(q, f)
<1>1. /\ Len(q) \in Nat /\ Len(r) = Len(q) + 1
      /\ \A i \in 1..Len(q) : r[i] = q[i]
      /\ r[Len(q) + 1] = f
      /\ f.by \in Producers /\ f.no \in Nat
  BY DEF Frames
<1>2. \A i \in 1..Len(q) : q[i].by \in Producers /\ q[i].no \in Nat
  BY ElementFields
<1> HIDE DEF r
<1>3. \A p \in Producers, n \in 0..Len(q) : Among(r, p, n) = Among(q, p, n) /\ Among(q, p, n) \in Nat
  <2> SUFFICES ASSUME NEW p \in Producers, NEW n \in 0..Len(q)
               PROVE  Among(r, p, n) = Among(q, p, n) /\ Among(q, p, n) \in Nat
    OBVIOUS
  <2>1. n \in Nat /\ \A i \in 1..n : r[i] = q[i]
    BY <1>1
  <2>2. Among(q, p, n) \in Nat
    BY <2>1, AmongFinite
  <2>3. Among(r, p, n) = Among(q, p, n)
    BY ONLY <2>1, AmongSame
  <2>4. QED
    BY <2>2, <2>3
<1>4. \A p \in Producers :
         Among(r, p, Len(q) + 1) = Among(q, p, Len(q)) + (IF f.by = p THEN 1 ELSE 0)
  <2> SUFFICES ASSUME NEW p \in Producers
               PROVE  Among(r, p, Len(q) + 1) = Among(q, p, Len(q)) + (IF f.by = p THEN 1 ELSE 0)
    OBVIOUS
  <2>1. Among(r, p, Len(q) + 1) = Among(r, p, Len(q)) + (IF r[Len(q) + 1].by = p THEN 1 ELSE 0)
    BY <1>1, AmongNext, SMTT(30)
  <2>2. Len(q) \in 0..Len(q)
    BY <1>1
  <2>3. QED
    BY <1>1, <1>3, <2>1, <2>2
<1>5. NextInLine(r, last)
  <2> SUFFICES ASSUME NEW i \in 1..Len(r)
               PROVE  r[i].no = last[r[i].by] + Among(r, r[i].by, i)
    BY DEF NextInLine
  <2>1. CASE i \in 1..Len(q)
    <3>1. r[i] = q[i] /\ q[i].by \in Producers /\ i \in 0..Len(q)
      BY <1>1, <1>2, <2>1
    <3>2. QED
      BY <1>3, <2>1, <3>1 DEF NextInLine
  <2>2. CASE i = Len(q) + 1
    <3>1. Among(r, f.by, i) = Among(q, f.by, Len(q)) + 1
      BY <1>1, <1>4, <2>2
    <3>2. Among(q, f.by, Len(q)) \in Nat /\ last[f.by] \in Nat
      BY <1>1, <1>3
    <3>3. r[i] = f /\ f.no = last[f.by] + (Among(q, f.by, Len(q)) + 1)
      BY <1>1, <2>2
    <3>4. /\ r[i].no = f.no /\ last[r[i].by] = last[f.by]
          /\ Among(r, r[i].by, i) = Among(q, f.by, Len(q)) + 1
      BY ONLY <3>1, <3>3
    <3>5. QED
      BY ONLY <3>3, <3>4
  <2>3. i \in 1..Len(q) \/ i = Len(q) + 1
    <3>1. Len(q) \in Nat /\ i \in 1..(Len(q) + 1)
      BY <1>1
    <3>2. QED
      BY ONLY <3>1
  <2>4. QED
    BY <2>1, <2>2, <2>3
<1>6. AllThere(r, last, next, in2)
  <2> SUFFICES ASSUME NEW p \in Producers
               PROVE  next[p] = last[p] + Among(r, p, Len(q) + 1)
                                        + (IF p \in in2 THEN 1 ELSE 0)
    BY <1>1 DEF AllThere
  <2>1. Len(q) \in 0..Len(q) /\ Among(q, p, Len(q)) \in Nat /\ last[p] \in Nat
    BY <1>1, <1>3
  <2>2. CASE p = f.by
    BY <1>4, <2>1, <2>2
  <2>3. CASE p # f.by
    BY <1>4, <2>1, <2>3 DEF AllThere
  <2>4. QED
    BY <2>2, <2>3
<1>7. QED
  BY <1>5, <1>6 DEF r

(* The first frame is its producer's next, and leaves the others in line.     *)
LEMMA TakeKeepsLine ==
    ASSUME NEW q \in Seq(Frames), q # <<>>, NEW last \in [Producers -> Nat],
           NEW count \in [Producers -> Nat], NEW inside \in SUBSET Producers,
           NextInLine(q, last), AllThere(q, last, count, inside)
    PROVE  LET next == [last EXCEPT ![Head(q).by] = Head(q).no]
           IN  NextInLine(Tail(q), next) /\ AllThere(Tail(q), next, count, inside)
<1> DEFINE r == Tail(q)
           next == [last EXCEPT ![Head(q).by] = Head(q).no]
<1>1. /\ Len(q) \in Nat /\ Len(q) > 0 /\ Len(r) = Len(q) - 1 /\ Head(q) = q[1]
      /\ \A i \in 1..Len(r) : r[i] = q[i + 1] /\ i + 1 \in 1..Len(q)
      /\ \A i \in 1..Len(q) : q[i].by \in Producers /\ q[i].no \in Nat
  BY ElementFields
<1> HIDE DEF r
<1>2. 1 \in 1..Len(q) /\ q[1].by \in Producers /\ Len(r) \in Nat
  BY <1>1
<1>3. \A p \in Producers, n \in 0..Len(r) :
         /\ Among(r, p, n) = Among(q, p, n + 1) - (IF q[1].by = p THEN 1 ELSE 0)
         /\ Among(q, p, n + 1) \in Nat
  <2> SUFFICES ASSUME NEW p \in Producers, NEW n \in 0..Len(r)
               PROVE  /\ Among(r, p, n) = Among(q, p, n + 1) - (IF q[1].by = p THEN 1 ELSE 0)
                      /\ Among(q, p, n + 1) \in Nat
    OBVIOUS
  <2>1. n \in Nat /\ n + 1 \in Nat /\ \A i \in 1..n : r[i] = q[i + 1]
    BY <1>1, <1>2
  <2>2. Among(q, p, n + 1) \in Nat
    BY <2>1, AmongFinite
  <2>3. Among(r, p, n) = Among(q, p, n + 1) - (IF q[1].by = p THEN 1 ELSE 0)
    <3>1. PICK m : m = n + 1
      OBVIOUS
    <3>2. Among(r, p, n) = Among(q, p, m) - (IF q[1].by = p THEN 1 ELSE 0)
      BY ONLY <2>1, <3>1, AmongTail
    <3>3. QED
      BY ONLY <3>1, <3>2
  <2>4. QED
    BY <2>2, <2>3
<1>4. q[1].no = last[q[1].by] + 1
  <2>1. {i \in 1..1 : q[i].by = q[1].by} = {1}
    OBVIOUS
  <2>2. Among(q, q[1].by, 1) = 1
    BY <2>1, FS_Singleton DEF Among
  <2>3. QED
    BY <1>2, <2>2 DEF NextInLine
<1>5. \A p \in Producers :
         /\ next[p] = last[p] + (IF q[1].by = p THEN 1 ELSE 0)
         /\ last[p] \in Nat
  BY <1>1, <1>2, <1>4
<1> HIDE DEF next
<1>6. NextInLine(r, next)
  <2> SUFFICES ASSUME NEW i \in 1..Len(r)
               PROVE  r[i].no = next[r[i].by] + Among(r, r[i].by, i)
    BY DEF NextInLine
  <2>1. r[i] = q[i + 1] /\ i + 1 \in 1..Len(q) /\ i \in 0..Len(r)
    BY <1>1, <1>2
  <2>2. r[i].by \in Producers
    BY <1>1, <2>1
  <2>3. r[i].no = last[r[i].by] + Among(q, r[i].by, i + 1)
    BY <2>1 DEF NextInLine
  <2>4. next[r[i].by] = last[r[i].by] + (IF q[1].by = r[i].by THEN 1 ELSE 0)
        /\ last[r[i].by] \in Nat
    BY <1>5, <2>2
  <2>5. /\ Among(r, r[i].by, i) = Among(q, r[i].by, i + 1) - (IF q[1].by = r[i].by THEN 1 ELSE 0)
        /\ Among(q, r[i].by, i + 1) \in Nat
    BY <1>3, <2>1, <2>2
  <2>6. QED
    BY ONLY <2>3, <2>4, <2>5
<1>7. AllThere(r, next, count, inside)
  <2> SUFFICES ASSUME NEW p \in Producers
               PROVE  count[p] = next[p] + Among(r, p, Len(r))
                                         + (IF p \in inside THEN 1 ELSE 0)
    BY DEF AllThere
  <2>1. Len(r) \in 0..Len(r) /\ Len(r) + 1 = Len(q)
    BY <1>1, <1>2
  <2>2. count[p] = last[p] + Among(q, p, Len(r) + 1) + (IF p \in inside THEN 1 ELSE 0)
    BY <2>1 DEF AllThere
  <2>3. next[p] = last[p] + (IF q[1].by = p THEN 1 ELSE 0) /\ last[p] \in Nat
    BY <1>5
  <2>4. /\ Among(r, p, Len(r)) = Among(q, p, Len(r) + 1) - (IF q[1].by = p THEN 1 ELSE 0)
        /\ Among(q, p, Len(r) + 1) \in Nat
    BY <1>3, <2>1
  <2>5. QED
    BY ONLY <2>2, <2>3, <2>4
<1>8. QED
  BY <1>6, <1>7 DEF r, next

(* One step per way a frame or a call can go while the policy is Block and    *)
(* nobody has shut the queue down.                                            *)
LEMMA BlockStep ==
    TypeOK /\ TypeOK' /\ WaitersApart /\ BlockInv /\ [Next]_vars => BlockInv'
<1> SUFFICES ASSUME TypeOK, TypeOK', WaitersApart, BlockInv, [Next]_vars,
                    policy' = "Block", ~shutdown'
             PROVE  /\ NextInLine(queue', lastOut')
                    /\ AllThere(queue', lastOut', offered', Inside')
  BY DEF BlockInv
<1>c. policy = "Block" /\ ~shutdown
  <2>1. policy' = policy /\ (shutdown' = shutdown \/ shutdown')
    BY DEF Next, vars, config, EnqueueWithRoom, EnqueueDropLatest, EnqueueDropOldest,
           EnqueueBlock, SpuriousWake, Resume, Dequeue, Shutdown, NotifyAll
  <2>2. QED
    BY <2>1
<1>t. /\ queue \in Seq(Frames) /\ lastOut \in [Producers -> Nat]
      /\ offered \in [Producers -> Nat] /\ offered' \in [Producers -> Nat]
      /\ Inside \in SUBSET Producers /\ Inside' \in SUBSET Producers
      /\ NextInLine(queue, lastOut) /\ AllThere(queue, lastOut, offered, Inside)
      /\ Len(queue) \in Nat
      /\ \A p \in Producers : Among(queue, p, Len(queue)) \in Nat
  <2>1. Len(queue) \in Nat
    BY DEF TypeOK
  <2>2. QED
    BY <1>c, <2>1, AmongFinite DEF TypeOK, BlockInv, Inside
<1>0. ASSUME NEW p \in Producers, NEW f \in Frames, f.by = p, f.no = offered'[p],
             \A r \in Producers \ {p} : offered'[r] = offered[r],
             \/ p \notin Inside /\ Inside' = Inside /\ offered'[p] = offered[p] + 1
             \/ p \in Inside /\ Inside' = Inside \ {p} /\ offered'[p] = offered[p],
             queue' = Append(queue, f), lastOut' = lastOut
      PROVE  /\ NextInLine(queue', lastOut')
             /\ AllThere(queue', lastOut', offered', Inside')
  <2>1. offered[p] = lastOut[p] + Among(queue, p, Len(queue)) + (IF p \in Inside THEN 1 ELSE 0)
    BY <1>t DEF AllThere
  <2>2. lastOut[p] \in Nat /\ Among(queue, p, Len(queue)) \in Nat
    BY <1>t
  <2>3. f.no = lastOut[p] + (Among(queue, p, Len(queue)) + 1)
    <3>1. PICK a \in Nat, l \in Nat : a = Among(queue, p, Len(queue)) /\ l = lastOut[p]
      BY <2>2
    <3>2. offered[p] = l + a + (IF p \in Inside THEN 1 ELSE 0)
      BY ONLY <2>1, <3>1
    <3>3. f.no = offered[p] + (IF p \in Inside THEN 0 ELSE 1)
      <4>1. offered[p] \in Nat
        BY <1>t
      <4>2. QED
        BY <1>0, <4>1
    <3>4. f.no = l + (a + 1)
      BY ONLY <3>2, <3>3
    <3>5. QED
      BY ONLY <3>1, <3>4
  <2>4. /\ p \notin Inside'
        /\ \A r \in Producers : r # p => offered'[r] = offered[r] /\ (r \in Inside <=> r \in Inside')
    BY <1>0
  <2>5. NextInLine(Append(queue, f), lastOut) /\ AllThere(Append(queue, f), lastOut, offered', Inside')
    <3>1. f.no = lastOut[f.by] + (Among(queue, f.by, Len(queue)) + 1)
      BY <1>0, <2>3
    <3>2. offered'[f.by] = f.no /\ f.by \notin Inside'
      BY <1>0, <2>4
    <3>3. \A r \in Producers : r # f.by => offered'[r] = offered[r] /\ (r \in Inside <=> r \in Inside')
      BY <1>0, <2>4
    <3> HIDE DEF NextInLine, AllThere, Among, Inside
    <3>4. f \in Frames
      BY <1>0
    <3>5. QED
      BY ONLY <1>t, <3>1, <3>2, <3>3, <3>4, AppendKeepsLine
  <2>6. QED
    BY <1>0, <2>5
<1>1. ASSUME NEW p \in Producers, EnqueueWithRoom(p)
      PROVE  /\ NextInLine(queue', lastOut')
             /\ AllThere(queue', lastOut', offered', Inside')
  <2> DEFINE f == [by |-> p, no |-> offered'[p]]
  <2>1. f \in Frames /\ f.by = p /\ f.no = offered'[p]
    BY <1>t DEF Frames
  <2>2. /\ p \notin Inside /\ Inside' = Inside /\ offered'[p] = offered[p] + 1
        /\ \A r \in Producers \ {p} : offered'[r] = offered[r]
    BY <1>1, <1>t DEF EnqueueWithRoom, Offer, Inside
  <2>3. queue' = Append(queue, f) /\ lastOut' = lastOut
    BY <1>1 DEF EnqueueWithRoom, Accept
  <2> HIDE DEF f
  <2>4. QED
    BY <1>0, <2>1, <2>2, <2>3
<1>2. ASSUME NEW p \in Producers, EnqueueBlock(p)
      PROVE  /\ NextInLine(queue', lastOut')
             /\ AllThere(queue', lastOut', offered', Inside')
  <2>1. /\ p \notin Inside /\ Inside' = Inside \cup {p}
        /\ offered'[p] = offered[p] + 1
        /\ \A r \in Producers \ {p} : offered'[r] = offered[r]
        /\ queue' = queue /\ lastOut' = lastOut
    BY <1>2, <1>c, <1>t DEF EnqueueBlock, Offer, Inside
  <2>2. AllThere(queue, lastOut, offered', Inside')
    <3> SUFFICES ASSUME NEW r \in Producers
                 PROVE  offered'[r] = lastOut[r] + Among(queue, r, Len(queue))
                                                 + (IF r \in Inside' THEN 1 ELSE 0)
      BY DEF AllThere
    <3>1. offered[r] = lastOut[r] + Among(queue, r, Len(queue)) + (IF r \in Inside THEN 1 ELSE 0)
      BY <1>t DEF AllThere
    <3>2. lastOut[r] \in Nat /\ Among(queue, r, Len(queue)) \in Nat
      BY <1>t
    <3>3. QED
      BY <2>1, <3>1, <3>2
  <2>3. QED
    BY <1>t, <2>1, <2>2
<1>3. ASSUME NEW p \in Producers, Resume(p)
      PROVE  /\ NextInLine(queue', lastOut')
             /\ AllThere(queue', lastOut', offered', Inside')
  <2>1. lastOut' = lastOut /\ offered' = offered /\ p \in Inside
    BY <1>3 DEF Resume, Inside
  <2>2. CASE Full
    <3>1. queue' = queue /\ Inside' = Inside
      BY <1>3, <1>c, <2>2 DEF Resume, Inside
    <3>2. QED
      BY <1>t, <2>1, <3>1
  <2>3. CASE ~Full
    <3> DEFINE f == [by |-> p, no |-> offered'[p]]
    <3>1. f \in Frames /\ f.by = p /\ f.no = offered'[p]
      BY <1>t DEF Frames
    <3>2. queue' = Append(queue, f) /\ Inside' = Inside \ {p}
      BY <1>3, <1>c, <2>1, <2>3 DEF Resume, Accept, Inside, WaitersApart
    <3> HIDE DEF f
    <3>3. QED
      BY <1>0, <2>1, <3>1, <3>2
  <2>4. QED
    BY <2>2, <2>3
<1>4. ASSUME Dequeue
      PROVE  /\ NextInLine(queue', lastOut')
             /\ AllThere(queue', lastOut', offered', Inside')
  <2>1. /\ queue # <<>> /\ queue' = Tail(queue)
        /\ lastOut' = [lastOut EXCEPT ![Head(queue).by] = Head(queue).no]
        /\ offered' = offered /\ Inside' = Inside
    BY <1>4 DEF Dequeue, TakeFront, NotifyOne, Inside
  <2>2. QED
    BY <1>t, <2>1, TakeKeepsLine
<1>5. ASSUME UNCHANGED <<queue, lastOut, offered, Inside>>
      PROVE  /\ NextInLine(queue', lastOut')
             /\ AllThere(queue', lastOut', offered', Inside')
  BY <1>5, <1>t
<1>6. ASSUME (\E p \in Producers : SpuriousWake(p)) \/ NotifyAll \/ UNCHANGED vars
      PROVE  UNCHANGED <<queue, lastOut, offered, Inside>>
  BY <1>6 DEF SpuriousWake, NotifyAll, vars, history, Inside
<1>7. ~ \E p \in Producers : EnqueueDropLatest(p) \/ EnqueueDropOldest(p)
  BY <1>c DEF EnqueueDropLatest, EnqueueDropOldest
<1>8. ~Shutdown
  BY DEF Shutdown
<1>9. QED
  BY <1>1, <1>2, <1>3, <1>4, <1>5, <1>6, <1>7, <1>8 DEF Next

(* Until shutdown a queue under Block loses no frame of any producer,         *)
(* whatever wakes whom (in_process_queue.cpp: enqueue's wait on not_full_).   *)
THEOREM BlockKeepsAll == Spec => []BlockLosesNothing
<1>1. Init => BlockInv
  <2> SUFFICES ASSUME Init PROVE BlockInv
    OBVIOUS
  <2>1. /\ queue = <<>> /\ Inside = {} /\ Len(queue) = 0
        /\ \A p \in Producers : offered[p] = 0 /\ lastOut[p] = 0
    BY DEF Init, Inside
  <2>2. \A p \in Producers : Among(queue, p, 0) = 0
    <3> SUFFICES ASSUME NEW p \in Producers PROVE Among(queue, p, 0) = 0
      OBVIOUS
    <3>1. {i \in 1..0 : queue[i].by = p} = {}
      OBVIOUS
    <3>2. QED
      BY <3>1, FS_EmptySet DEF Among
  <2>3. QED
    BY <2>1, <2>2 DEF BlockInv, NextInLine, AllThere
<1>2. QueueInv => TypeOK /\ WaitersApart
  BY DEF QueueInv
<1>3. TypeOK /\ TypeOK' /\ WaitersApart /\ BlockInv /\ [Next]_vars => BlockInv'
  BY BlockStep
<1>4. BlockInv => BlockLosesNothing
  BY DEF BlockInv, BlockLosesNothing, AllThere, Among
<1>5. QED
  BY <1>1, <1>2, <1>3, <1>4, QueueInvariant, PTL DEF Spec

=============================================================================
