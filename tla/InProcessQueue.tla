--------------------------- MODULE InProcessQueue ---------------------------
(***************************************************************************)
(* InProcessQueue: the bounded queue between two stages of a runtime, with *)
(* a backpressure policy for the full queue (src/src/core/                 *)
(* in_process_queue.cpp).                                                  *)
(*                                                                         *)
(* Every method runs under mutex_ from end to end, so it is one step,      *)
(* except an enqueue that waits on not_full_: it gives the mutex up, is    *)
(* notified (or wakes spuriously), and takes the mutex again in a step of  *)
(* its own.  shutdown() sets the flag under the mutex and notifies after   *)
(* releasing it: two steps.  A dequeue of the empty queue changes nothing. *)
(***************************************************************************)
EXTENDS Naturals, Sequences, FiniteSets

CONSTANTS
    Producers,     \* threads that call enqueue
    Capacities,    \* values given to the constructor, zero included
    MaxOffers      \* bound: frames each producer offers

ASSUME ProducersAssumption == IsFiniteSet(Producers)
ASSUME CapacitiesAssumption == Capacities \subseteq Nat
ASSUME OffersAssumption == MaxOffers \in Nat

Policies == {"DropLatest", "DropOldest", "Block"}

VARIABLES
    policy,        \* policy_
    capacity,      \* capacity_
    queue,         \* queue_
    shutdown,      \* shutdown_
    notifying,     \* shutdown() has still to call notify_all
    waiting,       \* producers inside not_full_.wait
    woken,         \* notified producers that have not got the mutex back yet
    enqueued,      \* total_enqueued_
    dropped,       \* total_dropped_
    offered,       \* history: frames each producer has offered
    refused,       \* history: calls that returned false because of shutdown_
    dequeued,      \* history: frames handed out
    lastOut        \* history: number of each producer's frame handed out last

config == <<policy, capacity>>
history == <<offered, refused, dequeued, lastOut>>
vars == <<config, queue, shutdown, notifying, waiting, woken, enqueued, dropped, history>>

Frames == [by : Producers, no : Nat]

Inside == waiting \cup woken
Full == Len(queue) >= capacity

-----------------------------------------------------------------------------
MEffectiveCapacity(c) == c

(* The constructor never makes a queue that holds nothing. *)
EffectiveCapacity(c) == IF c > 0 THEN c ELSE 1

Init ==
    /\ policy \in Policies
    /\ capacity \in {EffectiveCapacity(c) : c \in Capacities}
    /\ queue = <<>> /\ shutdown = FALSE /\ notifying = FALSE
    /\ waiting = {} /\ woken = {}
    /\ enqueued = 0 /\ dropped = 0 /\ refused = 0 /\ dequeued = 0
    /\ offered = [p \in Producers |-> 0]
    /\ lastOut = [p \in Producers |-> 0]

(* A producer with no call in progress calls enqueue with its next frame. *)
Offer(p) ==
    /\ p \notin Inside
    /\ offered[p] < MaxOffers
    /\ offered' = [offered EXCEPT ![p] = @ + 1]

(* The last two statements of enqueue. *)
Accept(q, frame) ==
    /\ queue' = Append(q, frame)
    /\ enqueued' = enqueued + 1

(* There is room: the policy does not matter, and neither does shutdown_. *)
EnqueueWithRoom(p) ==
    /\ Offer(p)
    /\ ~Full
    /\ Accept(queue, [by |-> p, no |-> offered'[p]])
    /\ UNCHANGED <<config, shutdown, notifying, waiting, woken, dropped, refused, dequeued,
                   lastOut>>

EnqueueDropLatest(p) ==
    /\ Offer(p)
    /\ Full /\ policy = "DropLatest"
    /\ dropped' = dropped + 1
    /\ UNCHANGED <<config, queue, shutdown, notifying, waiting, woken, enqueued, refused,
                   dequeued, lastOut>>

MDropOldestUncounted(p) ==
    /\ Offer(p)
    /\ Full /\ policy = "DropOldest"
    /\ Accept(Tail(queue), [by |-> p, no |-> offered'[p]])
    /\ UNCHANGED <<config, shutdown, notifying, waiting, woken, dropped, refused, dequeued,
                   lastOut>>

EnqueueDropOldest(p) ==
    /\ Offer(p)
    /\ Full /\ policy = "DropOldest"
    /\ Accept(Tail(queue), [by |-> p, no |-> offered'[p]])
    /\ dropped' = dropped + 1
    /\ UNCHANGED <<config, shutdown, notifying, waiting, woken, refused, dequeued, lastOut>>

(* The predicate is evaluated before the first wait: with shutdown_ set the *)
(* call does not wait at all.                                              *)
EnqueueBlock(p) ==
    /\ Offer(p)
    /\ Full /\ policy = "Block"
    /\ IF shutdown THEN refused' = refused + 1 /\ UNCHANGED waiting
                   ELSE waiting' = waiting \cup {p} /\ UNCHANGED refused
    /\ UNCHANGED <<config, queue, shutdown, notifying, woken, enqueued, dropped, dequeued,
                   lastOut>>

(* not_full_.wait may return without a notification. *)
SpuriousWake(p) ==
    /\ p \in waiting
    /\ waiting' = waiting \ {p}
    /\ woken' = woken \cup {p}
    /\ UNCHANGED <<config, queue, shutdown, notifying, enqueued, dropped, history>>

MResumeUnchecked(p) ==
    /\ p \in woken
    /\ woken' = woken \ {p}
    /\ IF shutdown THEN refused' = refused + 1 /\ UNCHANGED <<queue, enqueued>>
                   ELSE Accept(queue, [by |-> p, no |-> offered[p]]) /\ UNCHANGED refused
    /\ UNCHANGED <<config, shutdown, notifying, waiting, dropped, offered, dequeued, lastOut>>

MResumeGivesUp(p) ==
    /\ p \in woken
    /\ woken' = woken \ {p}
    /\ IF Full \/ shutdown THEN refused' = refused + 1 /\ UNCHANGED <<queue, enqueued>>
                          ELSE Accept(queue, [by |-> p, no |-> offered[p]]) /\ UNCHANGED refused
    /\ UNCHANGED <<config, shutdown, notifying, waiting, dropped, offered, dequeued, lastOut>>

(* A woken producer has the mutex again and re-evaluates the predicate: it  *)
(* waits on, gives up because of shutdown_, or goes on to push its frame.   *)
Resume(p) ==
    /\ p \in woken
    /\ woken' = woken \ {p}
    /\ \/ /\ Full /\ ~shutdown
          /\ waiting' = waiting \cup {p}
          /\ UNCHANGED <<queue, enqueued, refused>>
       \/ /\ shutdown
          /\ refused' = refused + 1
          /\ UNCHANGED <<queue, enqueued, waiting>>
       \/ /\ ~Full /\ ~shutdown
          /\ Accept(queue, [by |-> p, no |-> offered[p]])
          /\ UNCHANGED <<waiting, refused>>
    /\ UNCHANGED <<config, shutdown, notifying, dropped, offered, dequeued, lastOut>>

MNotifyWhenEmpty ==
    IF policy = "Block" /\ waiting # {} /\ Len(queue) = 1
    THEN \E p \in waiting : waiting' = waiting \ {p} /\ woken' = woken \cup {p}
    ELSE UNCHANGED <<waiting, woken>>

(* not_full_.notify_one, called by dequeue under the Block policy. *)
NotifyOne ==
    IF policy = "Block" /\ waiting # {}
    THEN \E p \in waiting : waiting' = waiting \ {p} /\ woken' = woken \cup {p}
    ELSE UNCHANGED <<waiting, woken>>

MTakeNewest ==
    LET n == Len(queue) IN
    /\ queue' = SubSeq(queue, 1, n - 1)
    /\ lastOut' = [lastOut EXCEPT ![queue[n].by] = queue[n].no]

(* queue_.front is moved out. *)
TakeFront ==
    /\ queue' = Tail(queue)
    /\ lastOut' = [lastOut EXCEPT ![Head(queue).by] = Head(queue).no]

Dequeue ==
    /\ queue # <<>>
    /\ TakeFront
    /\ dequeued' = dequeued + 1
    /\ NotifyOne
    /\ UNCHANGED <<config, shutdown, notifying, enqueued, dropped, offered, refused>>

Shutdown ==
    /\ shutdown' = TRUE
    /\ notifying' = TRUE
    /\ UNCHANGED <<config, queue, waiting, woken, enqueued, dropped, history>>

MNotifyAllWakesOne ==
    /\ notifying
    /\ notifying' = FALSE
    /\ IF waiting = {} THEN UNCHANGED <<waiting, woken>>
       ELSE \E p \in waiting : waiting' = waiting \ {p} /\ woken' = woken \cup {p}
    /\ UNCHANGED <<config, queue, shutdown, enqueued, dropped, history>>

(* not_full_.notify_all, the end of shutdown(). *)
NotifyAll ==
    /\ notifying
    /\ notifying' = FALSE
    /\ waiting' = {}
    /\ woken' = woken \cup waiting
    /\ UNCHANGED <<config, queue, shutdown, enqueued, dropped, history>>

Next ==
    \/ \E p \in Producers : EnqueueWithRoom(p)
    \/ \E p \in Producers : EnqueueDropLatest(p)
    \/ \E p \in Producers : EnqueueDropOldest(p)
    \/ \E p \in Producers : EnqueueBlock(p)
    \/ \E p \in Producers : SpuriousWake(p)
    \/ \E p \in Producers : Resume(p)
    \/ Dequeue
    \/ Shutdown
    \/ NotifyAll

Spec == Init /\ [][Next]_vars

(* A notified thread gets the mutex in the end, because every method holds  *)
(* it for a bounded time; a caller of shutdown() runs to its end.  Nothing  *)
(* is assumed of producers or of the consumer.                              *)
Fairness == (\A p \in Producers : WF_vars(Resume(p))) /\ WF_vars(NotifyAll)

FairSpec == Spec /\ Fairness

-----------------------------------------------------------------------------
(* Every variable has its type. *)
TypeOK ==
    /\ policy \in Policies
    /\ capacity \in Nat \ {0}
    /\ queue \in Seq(Frames)
    /\ shutdown \in BOOLEAN /\ notifying \in BOOLEAN
    /\ waiting \subseteq Producers /\ woken \subseteq Producers
    /\ enqueued \in Nat /\ dropped \in Nat /\ refused \in Nat /\ dequeued \in Nat
    /\ offered \in [Producers -> Nat]
    /\ lastOut \in [Producers -> Nat]

(* The queue never holds more than its capacity, whichever producers were   *)
(* waiting when a slot came free (in_process_queue.cpp:18, 33).             *)
Bounded == Len(queue) <= capacity

(* The telemetry adds up: every frame that entered is still queued, was     *)
(* handed out or, under DropOldest, was dropped; nothing is counted twice   *)
(* and only DropOldest drops what it had counted in                         *)
(* (in_process_queue.cpp:21, 25-28, 47, 56).                                *)
Accounting ==
    /\ enqueued = dequeued + Len(queue) + (IF policy = "DropOldest" THEN dropped ELSE 0)
    /\ policy = "Block" => dropped = 0
    /\ ~shutdown => refused = 0

(* No wake-up is lost: while a producer waits, every free slot has a woken  *)
(* producer on its way to it, and once shutdown() has returned nobody waits.*)
(* notify_one per dequeue is enough only because of this                    *)
(* (in_process_queue.cpp:33-35, 60-62, 106-112).                            *)
NoLostWakeup ==
    waiting # {} => IF shutdown THEN notifying
                                ELSE Len(queue) + Cardinality(woken) >= capacity

(* The number of the last frame of p whose enqueue has ended. *)
Latest == [p \in Producers |-> IF p \in Inside THEN offered[p] - 1 ELSE offered[p]]

(* Each producer's frames stand in q by number, after the one handed out    *)
(* last and none after the one enqueued latest.                             *)
Ordered(q, last, latest) ==
    /\ \A i, j \in 1..Len(q) : i < j /\ q[i].by = q[j].by => q[i].no < q[j].no
    /\ \A i \in 1..Len(q) : last[q[i].by] < q[i].no /\ q[i].no <= latest[q[i].by]
    /\ \A p \in Producers : last[p] <= latest[p]

(* The frames of one producer leave in the order it offered them, also      *)
(* across waits, drops and wake-ups, and none leaves twice                  *)
(* (in_process_queue.cpp:24-28, 33-48, 56-57).                              *)
ProducerOrder == Ordered(queue, lastOut, Latest)

(* Until shutdown, the Block policy loses no frame: each frame a producer   *)
(* offered was handed out, is queued, or is the one it is waiting with.     *)
BlockLosesNothing ==
    policy = "Block" /\ ~shutdown =>
        \A p \in Producers :
            offered[p] = lastOut[p] + Cardinality({i \in 1..Len(queue) : queue[i].by = p})
                                    + (IF p \in Inside THEN 1 ELSE 0)

(* To its callers this is a queue with atomic operations: each call takes   *)
(* effect in one step between its begin and its end, a slot that comes free *)
(* lets a blocked call end, and shutdown() ends them all, so that a runtime *)
(* can join its workers ("Shutdown all queues to unblock workers",          *)
(* linear_runtime.cpp:72).                                                  *)
Promise == INSTANCE FrameQueue WITH
    Frames <- [by : Producers, no : 1..MaxOffers],
    Capacities <- {EffectiveCapacity(c) : c \in Capacities},
    closed <- shutdown,
    calls <- Inside

QueueSpec == Promise!Spec

=============================================================================
