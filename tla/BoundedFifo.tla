---------------------------- MODULE BoundedFifo ----------------------------
(***************************************************************************)
(* What a single-producer single-consumer ring buffer promises its two     *)
(* users: a first-in first-out queue of at most Limit values.  A push      *)
(* appends a run of values at once, a pop returns a run from the front, a  *)
(* discard forgets one.  SpscRing implements this with two indices and a   *)
(* slot array.                                                             *)
(***************************************************************************)
EXTENDS Naturals, Sequences

CONSTANTS
    Values,      \* what the queue holds
    Limit,       \* how many values it can hold
    MaxRequest   \* the longest run one call may push

VARIABLES
    q,           \* the queue, oldest value first
    got          \* what the last completed pop returned

vars == <<q, got>>

Init == q = <<>> /\ got = <<>>

Put(n, run) ==
    /\ Len(q) + n <= Limit
    /\ q' = q \o run
    /\ UNCHANGED got

Take(n) ==
    /\ got' = SubSeq(q, 1, n)
    /\ q' = SubSeq(q, n + 1, Len(q))

Forget(n) ==
    /\ q' = SubSeq(q, n + 1, Len(q))
    /\ UNCHANGED got

Next ==
    \/ \E n \in 1..MaxRequest : \E run \in [1..n -> Values] : Put(n, run)
    \/ \E n \in 1..Len(q) : Take(n)
    \/ \E n \in 1..Len(q) : Forget(n)

Spec == Init /\ [][Next]_vars

=============================================================================
