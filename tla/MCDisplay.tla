------------------------------ MODULE MCDisplay -------------------------------
(* Two rates, one of them high, with batches that do not divide evenly into  *)
(* the buckets nor into the periods; windows of up to eight samples; the     *)
(* slots and frames of the code.  The rate measured is the lower of the two: *)
(* exact, or what is left of before the change to the higher one.  For a     *)
(* batch of 175 that has the rate 245 by then it gives one sample too few,   *)
(* in buckets of the right size; for one of 245, buckets of a wrong size.    *)
EXTENDS Display

MCRates == {175, 245}
MCPeriod == 175 :> 4 @@ 245 :> 8
MCBatch == 175 :> 5 @@ 245 :> 7
MCMeasured == {175}
MCSpans == {1, 2, 4}

MCOneRate == {175}
MCOnePeriod == 175 :> 4
MCOneBatch == 175 :> 5
MCOneSpan == {2}

=============================================================================
