----------------------------- MODULE FrameQueue -----------------------------
(***************************************************************************)
(* What InProcessQueue promises its callers, without condition variable or *)
(* mutex: a FIFO of bounded length.  A call that finds the queue full acts *)
(* on the policy; a blocked call ends when there is room, or when the      *)
(* queue is closed, and then the frame is refused.  A call that changes    *)
(* nothing (a frame rejected, an empty queue polled) is no step.           *)
(***************************************************************************)
EXTENDS Naturals, Sequences

CONSTANTS
    Producers,     \* callers that put frames
    Frames,        \* the frames, each with the producer it is from
    Capacities     \* the capacities it may have

VARIABLES
    policy,        \* what happens to a frame that finds the queue full
    capacity,
    queue,
    closed,
    calls          \* producers whose call is blocked

vars == <<policy, capacity, queue, closed, calls>>
config == <<policy, capacity>>

Full == Len(queue) >= capacity

Init ==
    /\ policy \in {"DropLatest", "DropOldest", "Block"}
    /\ capacity \in Capacities
    /\ queue = <<>> /\ closed = FALSE /\ calls = {}

Put(p) ==
    /\ p \notin calls /\ ~Full
    /\ \E f \in Frames : f.by = p /\ queue' = Append(queue, f)
    /\ UNCHANGED <<config, closed, calls>>

Replace(p) ==
    /\ Full /\ policy = "DropOldest"
    /\ \E f \in Frames : f.by = p /\ queue' = Append(Tail(queue), f)
    /\ UNCHANGED <<config, closed, calls>>

Block(p) ==
    /\ p \notin calls /\ Full /\ policy = "Block" /\ ~closed
    /\ calls' = calls \cup {p}
    /\ UNCHANGED <<config, queue, closed>>

(* A blocked call ends. *)
Unblock(p) ==
    /\ p \in calls
    /\ calls' = calls \ {p}
    /\ \/ closed /\ UNCHANGED queue
       \/ ~closed /\ ~Full /\ \E f \in Frames : f.by = p /\ queue' = Append(queue, f)
    /\ UNCHANGED <<config, closed>>

Take ==
    /\ queue # <<>>
    /\ queue' = Tail(queue)
    /\ UNCHANGED <<config, closed, calls>>

Close ==
    /\ closed' = TRUE
    /\ UNCHANGED <<config, queue, calls>>

Next ==
    \/ \E p \in Producers : Put(p) \/ Replace(p) \/ Block(p) \/ Unblock(p)
    \/ Take
    \/ Close

(* While a blocked call can end, one does: which one is not promised.  *)
Spec == Init /\ [][Next]_vars /\ WF_vars(\E p \in Producers : Unblock(p))

=============================================================================
