----------------------------- MODULE MCSgProcess -----------------------------
(* Two channels, so that one can be ahead of the other; rings of two samples *)
(* that a large batch overfills; blocks of one and two; two rates, the higher*)
(* one with large batches and no button.  A first life of four samples is    *)
(* long enough for a drop and a sample after it.                             *)
EXTENDS SgProcess

MCBlocks == {1, 2}
MCRates == {1, 2}
MCRateOptions == {1}
MCOptions == {[source |-> "Synthetic", rate |-> 1, block |-> 1],
              [source |-> "File", rate |-> 1, block |-> 2]}
MCTicks == <<4, 1, 1>>

=============================================================================
