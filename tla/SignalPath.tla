------------------------------ MODULE SignalPath ------------------------------
(***************************************************************************)
(* The viewer's signal path: the SyntheticSource tiles its period buffer   *)
(* into batches, the DataSourceAdapter gives them their rate, and the      *)
(* DecimationStage reduces them.  The EnvelopeVerifier looks at the result *)
(* and says whether such points can come from such a wave, for a number of *)
(* samples that the viewer works out from the rate the source has measured *)
(* of itself.                                                              *)
(*                                                                         *)
(* One channel stands for all: they have equal lengths and go the same     *)
(* way.  The wave is a ramp, its values far enough apart for the           *)
(* verifier's tolerance to make no difference.  The queues between the     *)
(* stages are LinearRuntime's, pause and stop Viewer's.                    *)
(***************************************************************************)
EXTENDS Integers, Sequences, FiniteSetsExt

CONSTANTS
    Rates,           \* sample rates
    Period,          \* compute_period_length, of each rate
    Batch,           \* samples of a frame, of each rate: BATCH_SIZE_LOW or _HIGH
    Measured,        \* what actual_rate_ can be: a count over some 100 ms, low when the
                     \* source is late, of an earlier rate, or of two
    LttbLimit,       \* kLttbHighRateThreshold
    Target,          \* target_points of the DecimationStage
    MaxFrames        \* bound: frames the source makes

ASSUME SignalAssumption ==
    /\ Rates \subseteq Nat \ {0} /\ Rates # {}
    /\ Period \in [Rates -> Nat \ {0}] /\ Batch \in [Rates -> Nat \ {0}]
    /\ Target \in Nat /\ Target >= 3
    /\ \A r \in Rates : Batch[r] > Target
    /\ Measured \subseteq Nat \ {0}
    /\ \A r, s \in Rates : r % Batch[s] = 0    \* the unit of rates: a reduced one has no fraction

VARIABLES
    src,       \* SyntheticSource: its target, the rate of its period buffer, the position in it
    made,      \* frames it has made
    held,      \* the frame the adapter has read and not yet tagged, or none
    raw,       \* the queue between the stages
    dec,       \* DecimationStage: mode_ and sample_rate_
    out        \* the runtime's output queue

signal == <<src, made, held, raw, dec, out>>

Value(p) == 3 * p

(* The viewer starts at 1 MSPS, the lowest of its rates. *)
SignalInit ==
    /\ src = [target |-> Min(Rates), cached |-> 0, pos |-> 0]
    /\ dec = [mode |-> "MinMax", rate |-> Min(Rates)]
    /\ made = 0 /\ held = <<>> /\ raw = <<>> /\ out = <<>>

-----------------------------------------------------------------------------
(* The place in the new period that has the phase of the old place. *)
KeepPhase(pos, old, new) == ((pos * new) \div old) % new

(* rebuild_period_buffer, when the rate is another. *)
Rebuilt(s) ==
    IF s.cached = s.target THEN s
    ELSE [s EXCEPT !.cached = s.target,
                   !.pos = IF s.cached = 0 THEN 0
                           ELSE KeepPhase(@, Period[s.cached], Period[s.target])]

(* The period buffer repeated, from a position in it. *)
Tiled(rate, pos, n) == [i \in 1..n |-> Value((pos + i - 1) % Period[rate])]

(* read_frame fills a batch at the rate it has loaded ... *)
ReadFrame ==
    /\ held = <<>> /\ made < MaxFrames
    /\ made' = made + 1
    /\ LET s == Rebuilt(src)
           n == Batch[s.cached]
       IN /\ held' = <<[wave |-> s.cached, pts |-> Tiled(s.cached, s.pos, n)]>>
          /\ src' = [s EXCEPT !.pos = (@ + n) % Period[s.cached]]
    /\ UNCHANGED <<raw, dec, out>>

(* ... and after its pacing the adapter gives the frame the rate that is    *)
(* asked for by then.                                                       *)
Tag ==
    /\ held # <<>>
    /\ raw' = Append(raw, [wave |-> held[1].wave, rate |-> src.target, pts |-> held[1].pts])
    /\ held' = <<>>
    /\ UNCHANGED <<src, made, dec, out>>

-----------------------------------------------------------------------------
(* Bucket b of m, over n samples. *)
BucketFirst(b, n, m) == (b * n) \div m + 1
BucketLast(b, n, m) == ((b + 1) * n) \div m

(* The extremes of each bucket. *)
MinMax(pts, target) ==
    LET m == target \div 2
        bucket(b) == {pts[i] : i \in BucketFirst(b, Len(pts), m)..BucketLast(b, Len(pts), m)}
    IN IF Len(pts) <= target THEN pts
       ELSE [j \in 1..2 * m |-> LET in == bucket((j - 1) \div 2)
                                IN IF j % 2 = 1 THEN Min(in) ELSE Max(in)]

(* The first, the last and one sample of each bucket between them; which    *)
(* one is left open.                                                        *)
Lttb(pts, target) ==
    LET n == Len(pts)
        m == target - 2
        inner == [b \in 1..m |-> 2 + ((b - 1) * (n - 2)) \div m .. 1 + (b * (n - 2)) \div m]
    IN IF n <= target THEN {pts}
       ELSE {<<pts[1]>> \o [b \in 1..m |-> pts[pick[b]]] \o <<pts[n]>> :
                 pick \in {f \in [1..m -> 2..n - 1] : \A b \in 1..m : f[b] \in inner[b]}}

EffectiveMode ==
    IF dec.mode = "LTTB" /\ dec.rate >= LttbLimit THEN "MinMax" ELSE dec.mode

Decimated(pts, mode, target) ==
    CASE mode = "MinMax" -> {MinMax(pts, target)}
      [] mode = "LTTB" -> Lttb(pts, target)
      [] OTHER -> {pts}

(* DecimationStage::process: fewer points of the same time have a lower rate. *)
Decimate ==
    /\ raw # <<>>
    /\ raw' = Tail(raw)
    /\ LET f == Head(raw)
           mode == EffectiveMode
       IN \E pts \in Decimated(f.pts, mode, Target) :
              out' = Append(out, [wave |-> f.wave, mode |-> mode, pts |-> pts,
                                  rate |-> (f.rate * Len(pts)) \div Len(f.pts)])
    /\ UNCHANGED <<src, made, held, dec>>

SignalStep == ReadFrame \/ Tag \/ Decimate

-----------------------------------------------------------------------------
(* Commands of the viewer. *)
SetSampleRate(r) ==
    /\ src' = [src EXCEPT !.target = r]
    /\ dec' = [dec EXCEPT !.rate = r]
    /\ UNCHANGED <<made, held, raw, out>>

CycleDecimationMode ==
    /\ dec' = [dec EXCEPT !.mode = CASE @ = "None" -> "MinMax"
                                     [] @ = "MinMax" -> "LTTB"
                                     [] OTHER -> "None"]
    /\ UNCHANGED <<src, made, held, raw, out>>

-----------------------------------------------------------------------------
(* The verifier.                                                            *)

(* raw_spc of the main loop: how many samples the points of f were made     *)
(* from, as far as the rate measured and the rate of f tell; rounded.       *)
RawCount(f, measured) == (2 * measured * Len(f.pts) + f.rate) \div (2 * f.rate)

(* The windows of the period, without those that go across its end. *)
MWindowSet(rate, w) ==
    LET len == Period[rate]
        extremes(S) == <<Value(Min(S)), Value(Max(S))>>
    IN IF w >= len THEN {extremes(0..len - 1)}
       ELSE {extremes(s..s + w - 1) : s \in 0..len - w}

(* build_window_set: the extremes of every window of a period. *)
WindowSet(rate, w) ==
    LET len == Period[rate]
        extremes(S) == <<Value(Min(S)), Value(Max(S))>>
    IN IF w >= len THEN {extremes(0..len - 1)}
       ELSE {extremes({(s + i) % len : i \in 0..w - 1}) : s \in 0..len - 1}

(* verify, for the number of samples the points were made from: each pair   *)
(* is within one of the extremes of a window of either bucket size.         *)
Verifies(pts, rate, samples) ==
    LET m == Len(pts) \div 2
        base == IF samples < m THEN 1 ELSE samples \div m
        known == WindowSet(rate, base) \cup WindowSet(rate, base + 1)
    IN \A b \in 0..m - 1 :
           \E dl, dh \in -1..1 : <<pts[2 * b + 1] + dl, pts[2 * b + 2] + dh>> \in known

(* The verifier raises no false alarm by itself: wherever in its period a    *)
(* batch starts, after changes of rate too, and however the buckets divide   *)
(* it, the points that tiling and MinMax make of it match that period, as    *)
(* long as the count worked out for it gives buckets of the right size; and  *)
(* a rate measured exactly gives the very count.  A count that gives another *)
(* size raises one: the rate measured is low, or still that of earlier       *)
(* batches (synthetic_source.cpp:215, :295, decimator.cpp:95,                *)
(* app_loop.cpp:424, envelope_verifier.cpp:108).                             *)
EnvelopeHolds ==
    \A i \in {j \in 1..Len(out) : out[j].mode = "MinMax"} :
        LET f == out[i]
            buckets == Len(f.pts) \div 2
        IN /\ \E tagged \in Rates : RawCount(f, tagged) = Batch[f.wave]
           /\ \A rate \in Measured :
                  RawCount(f, rate) \div buckets = Batch[f.wave] \div buckets =>
                      Verifies(f.pts, f.wave, RawCount(f, rate))

=============================================================================
