--------------------------- MODULE DecimationThread ---------------------------
(***************************************************************************)
(* DecimationThread, behind DecimationEngine: a coordinator thread and, for*)
(* two channels or more, worker threads, which turn the channels' rings    *)
(* into frames of vertices (src/src/decimation_thread.cpp).  A round: the  *)
(* coordinator raises the generation, every worker drains and decimates    *)
(* its channels and counts itself done, the coordinator gathers the        *)
(* results and puts the frame in front for the owner's try_get_frame.      *)
(*                                                                         *)
(* Both condition variables are waited on with a predicate, under          *)
(* work_mutex_, and every change that can make a predicate true is made    *)
(* under that mutex and notified; so a wait is the guard of a step.  The   *)
(* rings have one consumer each and what size() promised can be popped     *)
(* (module SpscRing), so draining a channel is one step.  A sample is      *)
(* known by its position in its channel's stream.                          *)
(***************************************************************************)
EXTENDS Naturals, Sequences, FiniteSets, Functions

CONSTANTS
    ChannelCounts,   \* numbers of rings start() may be given
    HwWorkers,       \* values of max(1, hardware_concurrency() / 2)
    RingSize,        \* capacity() of every ring: the samples it can hold
    GenerationMod,   \* 2^32 in the code: work_generation_ is a uint32_t
    FastRate,        \* the rate from which LTTB is replaced by MinMax (100 MSPS)
    Modes, Targets, Rates, Spans,   \* values the settings may be given
    MaxSamples,      \* bound: samples that arrive in all rings
    MaxStarts        \* bound: calls of start()

Least(a, b) == IF a < b THEN a ELSE b
Largest(S) == CHOOSE n \in S : \A m \in S : m <= n
Channels == 1..Largest(ChannelCounts)
Workers == 1..Least(Largest(ChannelCounts), 4)

ASSUME CountsAssumption ==
    /\ ChannelCounts \subseteq Nat \ {0}
    /\ \E n \in ChannelCounts : \A m \in ChannelCounts : m <= n
    /\ HwWorkers \subseteq Nat \ {0}
ASSUME SizesAssumption ==
    /\ RingSize \in Nat \ {0} /\ GenerationMod \in Nat \ {0, 1} /\ FastRate \in Nat
    /\ MaxSamples \in Nat /\ MaxStarts \in Nat
ASSUME SettingsAssumption ==
    /\ Modes \subseteq {"None", "MinMax", "LTTB"}
    /\ Targets \subseteq Nat /\ Rates \subseteq Nat /\ Spans \subseteq Nat

VARIABLES
    hw,           \* the machine's HwWorkers
    channels,     \* rings_.size()
    numWorkers,   \* num_workers_
    setting,      \* mode_, target_points_, sample_rate_, visible_time_span_s_
    owner,        \* where the owner is in stop() or try_get_frame()
    running,      \* running_
    stopping,     \* stop_requested_
    generation,   \* work_generation_
    done,         \* done_count_
    exit,         \* workers_exit_
    coord,        \* where the coordinator is
    worker,       \* worker[w]: where it is, last_generation, the settings it has read,
                  \* and its channels still to do
    pushed,       \* pushed[c]: samples that have arrived in ring c
    taken,        \* taken[c]: samples that have left ring c
    hist,         \* hist[c]: history_bufs, the raw window of channel c
    result,       \* result[c]: the size of dec_results, and the last sample it has seen
    perCh,        \* per_ch_vtx_
    frame,        \* the coordinator's frame being gathered
    front,        \* the vertices of each channel in front_buffer_
    newData,      \* new_data_
    got,          \* the vertices of each channel try_get_frame is about to return
    atSignal,     \* history: pushed, when the round was signalled
    starts        \* history: calls of start() so far

settings == <<hw, channels, numWorkers, setting>>
caller == <<owner, running, stopping, starts>>
sync == <<generation, done, exit>>
rings == <<pushed, taken>>
data == <<hist, result>>
output == <<perCh, frame, front, newData, got>>
vars == <<settings, caller, sync, coord, worker, rings, data, output, atSignal>>

NoSetting == [mode |-> "None", target |-> 0, rate |-> 0, span |-> 0]
NoWorker == [pc |-> "none", last |-> 0, unread |-> <<>>, set |-> NoSetting, todo |-> {}]
LoadOrder == <<"mode", "target", "rate", "span">>
NoFrame == [upto |-> <<>>, vtx |-> <<>>]
Nothing == [c \in Channels |-> 0]
NoHistory == [c \in Channels |-> <<>>]
NoResult == [c \in Channels |-> [upto |-> 0, vtx |-> 0]]

Used == 1..channels

-----------------------------------------------------------------------------
(* start() gives one channel no worker, more channels at most four.  *)
NumWorkers(n) == IF n <= 1 THEN 0 ELSE Least(Least(n, hw), 4)

(* Channels are dealt out round-robin. *)
Assigned(w) == {c \in Used : ((c - 1) % numWorkers) + 1 = w}

(* compute_window_samples; 0 stands for no window. *)
Window(s) ==
    IF s.rate = 0 \/ s.span = 0 THEN 0 ELSE Least(s.rate * s.span, RingSize)

(* LTTB is replaced by MinMax at high rates. *)
Effective(s) == IF s.mode = "LTTB" /\ s.rate >= FastRate THEN "MinMax" ELSE s.mode

(* The number of vertices Decimator::decimate makes of n > 0 samples. *)
Vertices(n, mode, target) ==
    CASE mode = "None" -> n
      [] mode = "MinMax" -> IF target < 2 THEN 0 ELSE IF n <= target THEN n ELSE 2 * (target \div 2)
      [] mode = "LTTB" -> IF target < 3 THEN 0 ELSE Least(n, target)

MTrim(s, window) == IF window > 0 THEN SubSeq(s, 1, Least(window, Len(s))) ELSE s

(* The history of a channel after new samples: no more than the window. *)
Trim(s, window) ==
    IF window > 0 THEN SubSeq(s, Len(s) - Least(window, Len(s)) + 1, Len(s)) ELSE s

(* A channel is drained: what does not fit the window is discarded, the     *)
(* rest joins the history.  Without new samples the history stays as it is. *)
Drain(c, window) ==
    LET avail == pushed[c] - taken[c]
        kept  == IF window > 0 THEN Least(avail, window) ELSE avail
    IN  /\ taken' = [taken EXCEPT ![c] = pushed[c]]
        /\ hist' = [hist EXCEPT ![c] =
               IF kept = 0 THEN @
               ELSE Trim(@ \o [i \in 1..kept |-> pushed[c] - kept + i], window)]

Init ==
    /\ hw \in HwWorkers /\ channels = Largest(ChannelCounts) /\ numWorkers = 0
    /\ setting = [mode |-> "None", target |-> 2, rate |-> 0, span |-> 1]
    /\ owner = "idle" /\ running = FALSE /\ stopping = FALSE /\ starts = 0
    /\ generation = 0 /\ done = 0 /\ exit = FALSE
    /\ coord = "none" /\ worker = [w \in Workers |-> NoWorker]
    /\ pushed = Nothing /\ taken = Nothing /\ atSignal = Nothing
    /\ hist = NoHistory /\ result = NoResult
    /\ perCh = 0 /\ frame = NoFrame /\ front = <<>> /\ newData = FALSE /\ got = <<>>

-----------------------------------------------------------------------------
(* The threads that fill the rings. *)
Arrive(c) ==
    /\ FoldFunction(+, 0, pushed) < MaxSamples
    /\ pushed[c] - taken[c] < RingSize
    /\ pushed' = [pushed EXCEPT ![c] = @ + 1]
    /\ UNCHANGED <<settings, caller, sync, coord, worker, taken, data, output, atSignal>>

MStartKeepsStop ==
    /\ owner = "idle" /\ ~running /\ starts < MaxStarts
    /\ starts' = starts + 1
    /\ running' = TRUE
    /\ \E n \in ChannelCounts, mode \in Modes, target \in Targets :
          /\ channels' = n
          /\ numWorkers' = NumWorkers(n)
          /\ setting' = [setting EXCEPT !.mode = mode, !.target = target]
    /\ worker' = [w \in Workers |->
                     [NoWorker EXCEPT !.pc = IF w <= numWorkers' THEN "wait" ELSE "none"]]
    /\ IF numWorkers' > 0 THEN generation' = 0 /\ done' = 0 /\ exit' = FALSE
                          ELSE UNCHANGED sync
    /\ coord' = "top"
    /\ UNCHANGED <<hw, owner, stopping, rings, data, output, atSignal>>

(* start(): no-op while running. *)
Start ==
    /\ owner = "idle" /\ ~running /\ starts < MaxStarts
    /\ starts' = starts + 1
    /\ running' = TRUE /\ stopping' = FALSE
    /\ \E n \in ChannelCounts, mode \in Modes, target \in Targets :
          /\ channels' = n
          /\ numWorkers' = NumWorkers(n)
          /\ setting' = [setting EXCEPT !.mode = mode, !.target = target]
    /\ worker' = [w \in Workers |->
                     [NoWorker EXCEPT !.pc = IF w <= numWorkers' THEN "wait" ELSE "none"]]
    /\ IF numWorkers' > 0 THEN generation' = 0 /\ done' = 0 /\ exit' = FALSE
                          ELSE UNCHANGED sync
    /\ coord' = "top"
    /\ UNCHANGED <<hw, owner, rings, data, output, atSignal>>

(* The setters, and DecimationEngine::start after it has started the thread.*)
SetMode(mode) ==
    /\ owner = "idle"
    /\ setting' = [setting EXCEPT !.mode = mode]
    /\ UNCHANGED <<hw, channels, numWorkers, caller, sync, coord, worker, rings, data, output,
                   atSignal>>

SetTargetPoints(n) ==
    /\ owner = "idle"
    /\ setting' = [setting EXCEPT !.target = n]
    /\ UNCHANGED <<hw, channels, numWorkers, caller, sync, coord, worker, rings, data, output,
                   atSignal>>

SetSampleRate(rate) ==
    /\ owner = "idle"
    /\ setting' = [setting EXCEPT !.rate = rate]
    /\ UNCHANGED <<hw, channels, numWorkers, caller, sync, coord, worker, rings, data, output,
                   atSignal>>

SetVisibleTimeSpan(span) ==
    /\ owner = "idle"
    /\ setting' = [setting EXCEPT !.span = span]
    /\ UNCHANGED <<hw, channels, numWorkers, caller, sync, coord, worker, rings, data, output,
                   atSignal>>

(* stop(): a no-op unless running. *)
Stop ==
    /\ owner = "idle" /\ running
    /\ stopping' = TRUE
    /\ owner' = IF numWorkers > 0 THEN "waking" ELSE "joining"
    /\ UNCHANGED <<settings, running, starts, sync, coord, worker, rings, data, output, atSignal>>

(* stop(): the workers are told to exit. *)
WakeWorkers ==
    /\ owner = "waking"
    /\ exit' = TRUE
    /\ owner' = "joining"
    /\ UNCHANGED <<settings, running, stopping, starts, generation, done, coord, worker, rings,
                   data, output, atSignal>>

(* stop(): the coordinator, then the workers, are joined, and their         *)
(* histories are gone; the front buffer, new_data_ and what the rings still *)
(* hold are left as they are.                                               *)
Join ==
    /\ owner = "joining"
    /\ coord = "ended"
    /\ \A w \in Workers : worker[w].pc \in {"none", "ended"}
    /\ worker' = [w \in Workers |-> NoWorker]
    /\ exit' = FALSE /\ generation' = 0 /\ done' = 0
    /\ hist' = NoHistory /\ result' = NoResult
    /\ numWorkers' = 0 /\ running' = FALSE
    /\ owner' = "idle"
    /\ UNCHANGED <<hw, channels, setting, stopping, starts, coord, rings, output, atSignal>>

(* DecimationEngine::try_get_frame: the frame is taken under mutex_ ... *)
TryGetFrame ==
    /\ owner = "idle" /\ newData
    /\ newData' = FALSE
    /\ got' = front
    /\ front' = <<>>
    /\ owner' = "reading"
    /\ UNCHANGED <<settings, running, stopping, starts, sync, coord, worker, rings, data, perCh,
                   frame, atSignal>>

(* ... and the number of vertices per channel, perCh, is read and returned  *)
(* with it after the mutex is released.                                     *)
ReadVertexCount ==
    /\ owner = "reading"
    /\ got' = <<>>
    /\ owner' = "idle"
    /\ UNCHANGED <<settings, running, stopping, starts, sync, coord, worker, rings, data, perCh,
                   frame, front, newData, atSignal>>

-----------------------------------------------------------------------------
(* The coordinator's loop condition; after the loop of thread_func_multi it *)
(* sets workers_exit_ itself.                                               *)
CheckStop ==
    /\ coord = "top"
    /\ \/ stopping /\ coord' = "ended" /\ exit' = (exit \/ numWorkers > 0)
       \/ ~stopping /\ coord' = "scan" /\ UNCHANGED exit
    /\ UNCHANGED <<settings, caller, generation, done, worker, rings, data, output, atSignal>>

Available == \E c \in Used : pushed[c] > taken[c]

(* No ring has data: sleep and try again. *)
ScanEmpty ==
    /\ coord = "scan" /\ ~Available
    /\ coord' = "top"
    /\ UNCHANGED <<settings, caller, sync, worker, rings, data, output, atSignal>>

MSignalKeepsDone ==
    /\ coord = "scan" /\ Available /\ numWorkers > 0
    /\ generation' = (generation + 1) % GenerationMod
    /\ atSignal' = pushed
    /\ coord' = "waiting"
    /\ UNCHANGED <<settings, caller, done, exit, worker, rings, data, output>>

MSignalNarrow ==
    /\ coord = "scan" /\ Available /\ numWorkers > 0
    /\ generation' = (generation + 1) % 2
    /\ done' = 0
    /\ atSignal' = pushed
    /\ coord' = "waiting"
    /\ UNCHANGED <<settings, caller, exit, worker, rings, data, output>>

(* thread_func_multi: a new generation of work. *)
Signal ==
    /\ coord = "scan" /\ Available /\ numWorkers > 0
    /\ generation' = (generation + 1) % GenerationMod
    /\ done' = 0
    /\ atSignal' = pushed
    /\ coord' = "waiting"
    /\ UNCHANGED <<settings, caller, exit, worker, rings, data, output>>

(* thread_func_multi: all workers are done.  Their results are gathered; a  *)
(* channel with no vertices is given target_points of them.                 *)
Gather ==
    /\ coord = "waiting" /\ done >= numWorkers
    /\ LET Vtx(c) == IF result[c].vtx = 0 THEN setting.target ELSE result[c].vtx
       IN  /\ frame' = [upto |-> [c \in Used |-> result[c].upto], vtx |-> [c \in Used |-> Vtx(c)]]
           /\ perCh' = Vtx(channels)
    /\ coord' = "publish"
    /\ UNCHANGED <<settings, caller, sync, worker, rings, data, front, newData, got, atSignal>>

(* thread_func_single: the one channel is drained ... *)
SingleDrain ==
    /\ coord = "scan" /\ Available /\ numWorkers = 0
    /\ atSignal' = pushed
    /\ Drain(1, Window(setting))
    /\ coord' = "decimate"
    /\ UNCHANGED <<settings, caller, sync, worker, pushed, result, output>>

(* ... and decimated, with the mode and target of this moment. *)
SingleDecimate ==
    /\ coord = "decimate"
    /\ LET n == Vertices(Len(hist[1]), Effective(setting), setting.target)
       IN  /\ frame' = [upto |-> <<taken[1]>>, vtx |-> <<n>>]
           /\ perCh' = n
    /\ coord' = "publish"
    /\ UNCHANGED <<settings, caller, sync, worker, rings, data, front, newData, got, atSignal>>

(* The frame becomes the front buffer. *)
Publish ==
    /\ coord = "publish"
    /\ front' = frame.vtx
    /\ frame' = NoFrame /\ atSignal' = Nothing
    /\ newData' = TRUE
    /\ coord' = "top"
    /\ UNCHANGED <<settings, caller, sync, worker, rings, data, perCh, got>>

-----------------------------------------------------------------------------
MWorkerCountsEarly(w) ==
    /\ worker[w].pc = "wait"
    /\ \/ /\ exit
          /\ worker' = [worker EXCEPT ![w].pc = "ended"]
          /\ UNCHANGED done
       \/ /\ ~exit /\ generation > worker[w].last
          /\ done' = done + 1
          /\ worker' = [worker EXCEPT ![w] =
                 [pc |-> "work", last |-> generation, unread |-> LoadOrder,
                  set |-> NoSetting, todo |-> Assigned(w)]]
    /\ UNCHANGED <<settings, caller, generation, exit, coord, rings, data, output, atSignal>>

(* A worker is woken: it exits, or takes the new generation. *)
WorkerWakes(w) ==
    /\ worker[w].pc = "wait"
    /\ \/ /\ exit
          /\ worker' = [worker EXCEPT ![w].pc = "ended"]
       \/ /\ ~exit /\ generation > worker[w].last
          /\ worker' = [worker EXCEPT ![w] =
                 [pc |-> "work", last |-> generation, unread |-> LoadOrder,
                  set |-> NoSetting, todo |-> Assigned(w)]]
    /\ UNCHANGED <<settings, caller, sync, coord, rings, data, output, atSignal>>

(* The next setting taken as it is now. *)
Loaded(me) ==
    LET k == Head(me.unread)
    IN  [me EXCEPT !.set = [@ EXCEPT ![k] = setting[k]], !.unread = Tail(@)]

(* It loads the settings, four atomics, each at a moment of its own. *)
WorkerLoads(w) ==
    /\ worker[w].pc = "work" /\ worker[w].unread # <<>>
    /\ worker' = [worker EXCEPT ![w] = Loaded(@)]
    /\ UNCHANGED <<settings, caller, sync, coord, rings, data, output, atSignal>>

(* It drains and decimates its next channel. *)
WorkerDecimates(w) ==
    /\ worker[w].pc = "work" /\ worker[w].unread = <<>> /\ worker[w].todo # {}
    /\ LET set == worker[w].set
           c   == CHOOSE n \in worker[w].todo : \A m \in worker[w].todo : n <= m
       IN  /\ worker' = [worker EXCEPT ![w].todo = @ \ {c}]
           /\ Drain(c, Window(set))
           /\ result' = [result EXCEPT ![c] =
                  [upto |-> taken'[c],
                   vtx  |-> IF hist'[c] = <<>> THEN 0
                            ELSE Vertices(Len(hist'[c]), Effective(set), set.target)]]
    /\ UNCHANGED <<settings, caller, sync, coord, pushed, output, atSignal>>

(* It has done all its channels, and counts itself done. *)
WorkerDone(w) ==
    /\ worker[w].pc = "work" /\ worker[w].unread = <<>> /\ worker[w].todo = {}
    /\ done' = done + 1
    /\ worker' = [worker EXCEPT ![w].pc = "wait", ![w].set = NoSetting]
    /\ UNCHANGED <<settings, caller, generation, exit, coord, rings, data, output, atSignal>>

Coordinator ==
    CheckStop \/ ScanEmpty \/ Signal \/ Gather \/ SingleDrain \/ SingleDecimate \/ Publish

Worker(w) == WorkerWakes(w) \/ WorkerLoads(w) \/ WorkerDecimates(w) \/ WorkerDone(w)

(* The steps that end a call of the owner's. *)
OwnerStep == WakeWorkers \/ Join \/ ReadVertexCount

Next ==
    \/ \E c \in Channels : Arrive(c)
    \/ Start
    \/ Stop
    \/ TryGetFrame
    \/ OwnerStep
    \/ \E mode \in Modes : SetMode(mode)
    \/ \E n \in Targets : SetTargetPoints(n)
    \/ \E rate \in Rates : SetSampleRate(rate)
    \/ \E span \in Spans : SetVisibleTimeSpan(span)
    \/ Coordinator
    \/ \E w \in Workers : Worker(w)

Spec == Init /\ [][Next]_vars

(* The threads are scheduled; the owner ends the calls it makes, and need   *)
(* make none.  Nothing is assumed of the data.                              *)
Fairness ==
    WF_vars(Coordinator) /\ WF_vars(OwnerStep) /\ \A w \in Workers : WF_vars(Worker(w))

FairSpec == Spec /\ Fairness

-----------------------------------------------------------------------------
(* The results are the coordinator's to read only between the last worker's *)
(* count and the next generation: outside a round no worker is at work, all *)
(* have seen the last generation, and within it done_count_ is the number   *)
(* of workers that have finished it (decimation_thread.cpp:323-375,         *)
(* 420-486).                                                                *)
RoundsDoNotOverlap ==
    /\ coord # "waiting" => \A w \in Workers : worker[w].pc # "work"
    /\ coord = "waiting" =>
          done = Cardinality({w \in 1..numWorkers :
                                 worker[w].pc # "work" /\ worker[w].last = generation})

(* A frame misses nothing that was in the rings when its round was          *)
(* signalled, from any channel (decimation_thread.cpp:311-375).             *)
FramesAreFresh ==
    coord = "publish" => \A c \in Used : frame.upto[c] >= atSignal[c]

(* The raw window of a channel is one run of consecutive samples, up to the *)
(* last one taken from the ring: discarding, appending and trimming leave   *)
(* no gap inside it, also when the rate or the span changes between rounds  *)
(* (decimation_thread.cpp:447-468).                                         *)
WindowHasNoGap ==
    \A c \in Channels : \A i \in 1..Len(hist[c]) :
        hist[c][i] = taken[c] - Len(hist[c]) + i

(* Between start() and stop() the coordinator and every worker live on: no  *)
(* flag of an earlier run ends a thread of this one                         *)
(* (decimation_thread.cpp:34, 74-79, 116-121, 310, 425).                    *)
RunsUntilStopped ==
    running /\ owner \in {"idle", "reading"} =>
        /\ coord # "ended"
        /\ \A w \in Workers : worker[w].pc \in IF w <= numWorkers THEN {"wait", "work"} ELSE {"none"}

(* A round that no stop() interrupts comes to its end, whatever the number  *)
(* of channels a worker has.                                                *)
RoundsEnd == coord = "waiting" ~> (coord # "waiting" \/ exit)

(* stop() returns: the workers are woken to exit, and then joined, "Wake    *)
(* workers so they can observe exit flag" (decimation_thread.cpp:98).       *)
StopReturns == owner = "waking" ~> ~running

(* Not a property of the code, which returns the count of the last channel, *)
(* read without the lock: that each channel of a frame has as many vertices *)
(* as are returned with it (decimation_engine.h:31-32, decimation_engine.cpp: *)
(* 69-74).                                                                  *)
FrameLayout ==
    [][owner = "reading" /\ owner' = "idle" => \A c \in DOMAIN got : got[c] = perCh]_vars

=============================================================================
