----------------------------- MODULE MCSpscRing -----------------------------
(* A ring of four slots, so that a transfer of up to three starts at any    *)
(* slot, wraps, and is cut to what is free or used.                         *)
EXTENDS SpscRing, TLC

(* The samples are only stored and compared. *)
Symmetry == Permutations(Values)

=============================================================================
