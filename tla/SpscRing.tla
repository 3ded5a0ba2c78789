------------------------------ MODULE SpscRing ------------------------------
(***************************************************************************)
(* RingBufferView / RingBuffer: the lock-free ring that carries samples    *)
(* from one producer thread to one consumer thread                         *)
(* (src/src/ring_buffer_view.h).                                           *)
(*                                                                         *)
(* An operation is split where the other thread can see it: the loads that *)
(* size the transfer, one step per slot copied by memcpy, and the release  *)
(* store of the index.  Each index has one writer, so its owner's relaxed  *)
(* load is exact and only the acquire load of the other index matters; an  *)
(* index read early and used late is the staleness acquire loads allow.    *)
(* A call that transfers nothing (count 0, ring full or empty) returns 0   *)
(* and changes nothing, so it is no step.                                  *)
(***************************************************************************)
EXTENDS Naturals, Sequences

CONSTANTS
    Capacity,    \* slots of the array; one is always left empty
    Values,      \* samples
    MaxRequest   \* bound: the longest run one call asks to push or pop

ASSUME CapacityAssumption == Capacity \in Nat \ {0}
ASSUME RequestAssumption == MaxRequest \in Nat \ {0}

VARIABLES
    head,        \* head_: next slot to write, stored by the producer alone
    tail,        \* tail_: next slot to read, stored by the consumer alone
    buf,         \* data_
    pPc,         \* producer: "idle", or "copy" inside push / push_bulk
    pBatch,      \*   the caller's src array
    pCount,      \*   to_push
    pDone,       \*   values copied into the ring so far
    cPc,         \* consumer: "idle", "copy" (pop / pop_bulk) or "drop" (discard_bulk)
    cCount,      \*   to_pop / to_discard
    cOut,        \*   the caller's out array, filled so far
    cSeen,       \*   what size() last told the consumer, 0 once it has popped
    got          \* what the last completed pop handed to its caller

prodVars == <<head, pPc, pBatch, pCount, pDone>>
consVars == <<tail, cPc, cCount, cOut, cSeen, got>>
vars == <<head, tail, buf, pPc, pBatch, pCount, pDone, cPc, cCount, cOut, cSeen, got>>

Slots == 0..(Capacity - 1)

-----------------------------------------------------------------------------
(* Index arithmetic.  Wrap is x % Capacity for the x < 2 * Capacity that    *)
(* the code computes, and also where the two memcpy chunks of a transfer    *)
(* put its k-th value: at head + k, or at 0 once the array's end is reached.*)

MWrapLate(x) == IF x > Capacity THEN x - Capacity ELSE x

Wrap(x) == IF x >= Capacity THEN x - Capacity ELSE x

Used(h, t) == IF h >= t THEN h - t ELSE Capacity - t + h

MFreeNoGap(h, t) == IF h >= t THEN Capacity - h + t ELSE t - h

Free(h, t) == IF h >= t THEN Capacity - 1 - h + t ELSE t - h - 1

Least(a, b) == IF a <= b THEN a ELSE b

(* The values between tail and head, oldest first. *)
Content == [i \in 1..Used(head, tail) |-> buf[Wrap(tail + i - 1)]]

-----------------------------------------------------------------------------
Init ==
    /\ head = 0 /\ tail = 0
    /\ buf \in [Slots -> Values]
    /\ pPc = "idle" /\ pBatch = <<>> /\ pCount = 0 /\ pDone = 0
    /\ cPc = "idle" /\ cCount = 0 /\ cOut = <<>> /\ cSeen = 0
    /\ got = <<>>

(* push_bulk up to its first memcpy: tail is loaded, the transfer is sized. *)
PushBulk(n, batch) ==
    /\ pPc = "idle"
    /\ Free(head, tail) > 0
    /\ pPc' = "copy"
    /\ pBatch' = batch
    /\ pCount' = Least(n, Free(head, tail))
    /\ pDone' = 0
    /\ UNCHANGED <<head, buf, consVars>>

(* push: the single-value form tests for the full ring by its next index. *)
Push(v) ==
    /\ pPc = "idle"
    /\ Wrap(head + 1) # tail
    /\ pPc' = "copy"
    /\ pBatch' = <<v>>
    /\ pCount' = 1
    /\ pDone' = 0
    /\ UNCHANGED <<head, buf, consVars>>

MCopyInFromChunk ==
    /\ pPc = "copy" /\ pDone < pCount
    /\ buf' = [buf EXCEPT ![Wrap(head + pDone)] =
                   pBatch[(IF head + pDone >= Capacity THEN head + pDone - Capacity
                                                       ELSE pDone) + 1]]
    /\ pDone' = pDone + 1
    /\ UNCHANGED <<head, pPc, pBatch, pCount, consVars>>

(* One slot written by push_bulk's memcpy calls, or push's assignment. *)
CopyIn ==
    /\ pPc = "copy" /\ pDone < pCount
    /\ buf' = [buf EXCEPT ![Wrap(head + pDone)] = pBatch[pDone + 1]]
    /\ pDone' = pDone + 1
    /\ UNCHANGED <<head, pPc, pBatch, pCount, consVars>>

(* A call's locals end with it. *)
ProducerReturns == pPc' = "idle" /\ pBatch' = <<>> /\ pCount' = 0 /\ pDone' = 0
ConsumerReturns == cPc' = "idle" /\ cCount' = 0 /\ cOut' = <<>>

(* The release store of head_, after the copies. *)
Publish ==
    /\ pPc = "copy" /\ pDone = pCount
    /\ head' = Wrap(head + pCount)
    /\ ProducerReturns
    /\ UNCHANGED <<buf, consVars>>

(* size(), called by the consumer to decide how much to pop. *)
Size ==
    /\ cPc = "idle"
    /\ cSeen' = Used(head, tail)
    /\ UNCHANGED <<tail, buf, cPc, cCount, cOut, got, prodVars>>

(* pop_bulk up to its first memcpy: head is loaded, the transfer is sized. *)
PopBulk(n) ==
    /\ cPc = "idle"
    /\ Used(head, tail) > 0
    /\ cPc' = "copy"
    /\ cCount' = Least(n, Used(head, tail))
    /\ cOut' = <<>>
    /\ UNCHANGED <<tail, buf, cSeen, got, prodVars>>

(* pop: the single-value form tests for the empty ring by equal indices. *)
Pop ==
    /\ cPc = "idle"
    /\ head # tail
    /\ cPc' = "copy"
    /\ cCount' = 1
    /\ cOut' = <<>>
    /\ UNCHANGED <<tail, buf, cSeen, got, prodVars>>

(* discard_bulk: sized like a pop, nothing is copied. *)
DiscardBulk(n) ==
    /\ cPc = "idle"
    /\ Used(head, tail) > 0
    /\ cPc' = "drop"
    /\ cCount' = Least(n, Used(head, tail))
    /\ UNCHANGED <<tail, buf, cOut, cSeen, got, prodVars>>

(* One slot read by pop_bulk's memcpy calls, or pop's assignment. *)
CopyOut ==
    /\ cPc = "copy" /\ Len(cOut) < cCount
    /\ cOut' = Append(cOut, buf[Wrap(tail + Len(cOut))])
    /\ UNCHANGED <<tail, buf, cPc, cCount, cSeen, got, prodVars>>

MReleaseFirstChunk ==
    /\ \/ cPc = "copy" /\ Len(cOut) = Least(cCount, Capacity - tail) /\ got' = cOut
       \/ cPc = "drop" /\ UNCHANGED got
    /\ tail' = Wrap(tail + cCount)
    /\ ConsumerReturns
    /\ cSeen' = 0
    /\ UNCHANGED <<buf, prodVars>>

(* The release store of tail_, after the copies. *)
Release ==
    /\ \/ cPc = "copy" /\ Len(cOut) = cCount /\ got' = cOut
       \/ cPc = "drop" /\ UNCHANGED got
    /\ tail' = Wrap(tail + cCount)
    /\ ConsumerReturns
    /\ cSeen' = 0
    /\ UNCHANGED <<buf, prodVars>>

Next ==
    \/ \E n \in 1..MaxRequest : \E batch \in [1..n -> Values] : PushBulk(n, batch)
    \/ \E v \in Values : Push(v)
    \/ CopyIn
    \/ Publish
    \/ Size
    \/ \E n \in 1..MaxRequest : PopBulk(n)
    \/ Pop
    \/ \E n \in 1..MaxRequest : DiscardBulk(n)
    \/ CopyOut
    \/ Release

Spec == Init /\ [][Next]_vars

-----------------------------------------------------------------------------
(* Every variable has its type; both indices address the array. *)
TypeOK ==
    /\ head \in Slots /\ tail \in Slots
    /\ buf \in [Slots -> Values]
    /\ pPc \in {"idle", "copy"}
    /\ pBatch \in Seq(Values)
    /\ pCount \in Nat /\ pDone \in Nat
    /\ cPc \in {"idle", "copy", "drop"}
    /\ cCount \in Nat
    /\ cOut \in Seq(Values) /\ got \in Seq(Values)
    /\ cSeen \in Nat

(* The slots that the running transfer of each side has still to touch. *)
ToWrite == IF pPc = "copy" THEN {Wrap(head + k) : k \in pDone..(pCount - 1)} ELSE {}
ToRead == IF cPc = "copy" THEN {Wrap(tail + k) : k \in Len(cOut)..(cCount - 1)} ELSE {}

(* The memcpy of a push and the memcpy of a pop never meet on a slot: the  *)
(* data itself is not atomic, so an overlap would be a data race and the   *)
(* consumer could read a torn sample (ring_buffer_view.h:41-47, 76-82).    *)
NoSlotRace == ToWrite \cap ToRead = {}

(* size() is a promise to the consumer: until it pops, at least that many  *)
(* samples stay available, whatever the producer does meanwhile.  The      *)
(* callers that size a buffer from it and then pop_bulk exactly that many  *)
(* (decimation_thread.cpp:447-456, sg_main.cpp:149-162) rest on this.      *)
SizeIsPromise == cSeen <= Used(head, tail)

(* The store of head_ makes exactly a prefix of the caller's array visible *)
(* behind what was already there, in its order and across the array's end  *)
(* (the two chunks of ring_buffer_view.h:41-49).                           *)
PushPublishesPrefix ==
    [][head' # head =>
         Content' = [i \in 1..(Len(Content) + pCount) |->
                        IF i <= Len(Content) THEN Content[i]
                                             ELSE pBatch[i - Len(Content)]]]_vars

(* The ring implements a bounded first-in first-out queue of Capacity - 1  *)
(* samples, although neither side ever sees both indices at once.          *)
Fifo == INSTANCE BoundedFifo
            WITH q <- Content, got <- got, Limit <- Capacity - 1

FifoSpec == Fifo!Spec

=============================================================================
