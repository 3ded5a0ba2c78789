-------------------------------- MODULE Display -------------------------------
(***************************************************************************)
(* The passes of the viewer's main loop: the commands and events, the      *)
(* frames of the pipeline into the VisualizationStage, its picture to the  *)
(* GPU, the newest one that has arrived on the screen (app_loop.cpp).      *)
(***************************************************************************)
EXTENDS SignalPath, GpuBuffers, SequencesExt, TLC

CONSTANTS
    Spans,           \* visible_time_span_s_, doubled and halved
    FirstSpan,       \* what it starts with
    SpanUnit,        \* a span, times a rate, has this many per sample
    DisplayPoints,   \* display_target_points_
    MaxCommands      \* bound: commands and steps of the span

ASSUME DisplayAssumption ==
    /\ Spans \subseteq Nat \ {0} /\ FirstSpan \in Spans
    /\ SpanUnit \in Nat \ {0} /\ DisplayPoints \in Nat \ {0, 1}

VARIABLES
    pc,              \* the main thread: "top", "upload", "swap", "draw", "recreate"
    commands,        \* how many there were
    span,
    history,         \* channel_history_
    lastRate,        \* last_sample_rate_hz_
    picture,         \* the window of the last process(), before it is reduced
    fed,             \* ghost: the points that came since the rate changed
    narrowest        \* ghost: the narrowest window they were trimmed for

viz == <<span, history, lastRate, picture, fed, narrowest>>
vars == <<signal, gpuVars, pc, commands, viz>>

Init ==
    /\ SignalInit /\ GpuInit
    /\ pc = "top" /\ commands = 0
    /\ span = FirstSpan /\ history = <<>> /\ lastRate = 0
    /\ picture = <<>> /\ fed = <<>> /\ narrowest = 0

-----------------------------------------------------------------------------
(* VisualizationStage::process.                                             *)

(* Samples of another rate go behind those that are there. *)
MAccumulate(h, f) ==
    [rate |-> f.rate, pts |-> h.pts \o f.pts]

(* A frame of another rate starts the history anew. *)
Accumulate(h, f) ==
    [rate |-> f.rate, pts |-> (IF h.rate \in {0, f.rate} THEN h.pts ELSE <<>>) \o f.pts]

(* What the history would be without a limit, by its definition. *)
Received(f, frames) ==
    LET last == frames[Len(frames)].rate
        old == {i \in 1..Len(frames) : frames[i].rate # last}
        from == IF old = {} THEN 1 ELSE Max(old) + 1
    IN (IF old = {} /\ lastRate \in {0, last} THEN f ELSE <<>>)
       \o FlattenSeq([i \in 1..Len(frames) - from + 1 |-> frames[from + i - 1].pts])

LastOf(s, n) == SubSeq(s, Len(s) - n + 1, Len(s))
Least(a, b) == IF a < b THEN a ELSE b

WindowSamples(rate) == (rate * span) \div SpanUnit

(* All frames of the pipeline go in; a picture comes out of any pass that   *)
(* has a window and samples for it.                                         *)
Process ==
    LET h == FoldLeft(Accumulate, [rate |-> lastRate, pts |-> history], out)
        window == WindowSamples(h.rate)
        kept == LastOf(h.pts, Least(Len(h.pts), 2 * window))
        renewed == \E i \in 1..Len(out) : lastRate # 0 /\ out[i].rate # lastRate
    IN /\ lastRate' = h.rate
       /\ fed' = IF out = <<>> THEN fed ELSE Received(fed, out)
       /\ IF h.rate = 0 \/ window = 0
          THEN history' = h.pts /\ picture' = <<>>
          ELSE history' = kept /\ picture' = LastOf(kept, Least(Len(kept), window))
       /\ narrowest' = IF window = 0 THEN IF renewed THEN 0 ELSE narrowest
                       ELSE IF renewed \/ narrowest = 0 THEN window
                       ELSE Least(narrowest, window)

(* What is uploaded: the picture, reduced for the display. *)
DisplayFrame == MinMax(picture, DisplayPoints)

-----------------------------------------------------------------------------
(* The first half of a pass.                                                *)

Command ==
    /\ pc = "top" /\ commands < MaxCommands
    /\ commands' = commands + 1
    /\ \/ (\E r \in Rates : SetSampleRate(r)) /\ UNCHANGED <<pc, gpuVars>>
       \/ CycleDecimationMode /\ UNCHANGED <<pc, gpuVars>>
    /\ UNCHANGED viz

(* The window has another size, or the vsync another setting. *)
Resized ==
    /\ pc = "top"
    /\ pc' = "recreate"
    /\ UNCHANGED <<signal, gpuVars, commands, viz>>

(* All frames are polled and processed, and the DecimationStage is told the *)
(* rate that was measured, once there is one.                               *)
Feed ==
    /\ pc = "top"
    /\ Process
    /\ out' = <<>>
    /\ \E r \in {dec.rate} \cup Measured : dec' = [dec EXCEPT !.rate = r]
    /\ pc' = IF picture' = <<>> THEN "swap" ELSE "upload"
    /\ UNCHANGED <<src, made, held, raw, gpuVars, commands, span>>

Upload ==
    /\ pc = "upload" /\ DisplayFrame # <<>>
    /\ UploadStreaming
    /\ pc' = "swap"
    /\ UNCHANGED <<signal, commands, viz>>

SwapBuffers ==
    /\ pc = "swap"
    /\ \/ PollSlot /\ UNCHANGED pc
       \/ Swap /\ pc' = "draw"
    /\ UNCHANGED <<signal, commands, viz>>

(* The buttons of the HUD, whose steps stay within the limits. *)
StepSpan ==
    /\ pc = "draw" /\ commands < MaxCommands
    /\ commands' = commands + 1
    /\ \E s \in Spans : s \in {2 * span, span \div 2} /\ span' = s
    /\ UNCHANGED <<signal, gpuVars, pc, history, lastRate, picture, fed, narrowest>>

(* The picture is shown, or the swapchain is out of date before or after. *)
Draw ==
    /\ pc = "draw"
    /\ \/ NoImage /\ pc' \in {"top", "recreate"}
       \/ SubmitDraw /\ pc' \in {"top", "recreate"}
    /\ UNCHANGED <<signal, commands, viz>>

Recreated ==
    /\ pc = "recreate"
    /\ Recreate
    /\ pc' = "top"
    /\ UNCHANGED <<signal, commands, viz>>

Pass ==
    Command \/ Resized \/ Feed \/ Upload \/ SwapBuffers \/ StepSpan \/ Draw \/ Recreated

Next ==
    \/ Pass
    \/ SignalStep /\ UNCHANGED <<gpuVars, pc, commands, viz>>
    \/ Finish /\ UNCHANGED <<signal, pc, commands, viz>>

Spec == Init /\ [][Next]_vars

-----------------------------------------------------------------------------
(* The window shows the newest samples of one density, and no fewer than     *)
(* there are: however frames bunch up, rates change between and within the   *)
(* passes and the span is stepped, only the limit of two windows cuts it     *)
(* short (visualization_stage.cpp:25-33, :78-86, :118-131).                  *)
WindowIsNewest ==
    picture # <<>> /\ pc # "top" =>
        LET n == Len(picture)
        IN /\ n <= Len(fed)
           /\ picture = LastOf(fed, n)
           /\ pc = "upload" => /\ n <= WindowSamples(lastRate)
                               /\ n >= Min({Len(fed), WindowSamples(lastRate), 2 * narrowest})

=============================================================================
