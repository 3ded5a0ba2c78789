-------------------------- MODULE MCInProcessQueue --------------------------
(* Three producers can wait on a queue of one or two frames, so a slot can  *)
(* be taken by a producer that never waited while two others are notified;  *)
(* a zero capacity takes the constructor's default.                         *)
EXTENDS InProcessQueue

=============================================================================
