--------------------------- MODULE MCLinearRuntime ---------------------------
(* Two stages are enough for a worker to be blocked by, starved by and      *)
(* racing its neighbour and the owner; small queues fill at once, and a      *)
(* source that writes two frames in one call overfills a queue of one.       *)
EXTENDS LinearRuntime

MCEntries == {[capacity |-> 1, policy |-> "Block"],
              [capacity |-> 1, policy |-> "DropLatest"],
              [capacity |-> 2, policy |-> "DropOldest"]}

=============================================================================
