# A TLA+ model of Grebe

Grebe shows waveforms in real time. A signal generator process (`grebe-sg`) or a
source inside the viewer makes 16-bit samples; they pass through rings, queues,
pipes or datagrams, are reduced to as many vertices as the screen has columns,
and are drawn with Vulkan. This directory holds the TLA+ modules that model the
program's own logic, the TLC configurations that check them on small instances,
and the theorems that TLAPS proves about them for every instance.

Line numbers are those of the repository's files; `PROJECT.json` holds the map
from every definition to the lines it stands for.

## 1. The system

### 1.1 How the parts interact

    grebe-sg                                             grebe (viewer)
    DataGenerator / FileReader                           SyntheticSource
      | push_bulk, one ring per channel                    |        \
      v                                                     |         \
    RingBuffer (SPSC) --- sender thread                     |          |
      | send_frame                                          |          |
      v                                                     |          |
    PipeTransport / UdpTransport  ====================> TransportSource |
      ^                                                     |          |
      |  IpcCommand (rate, pause, quit; pipe only)          v          v
      +------------------------------------------------  DataSourceAdapter
                                                            | InProcessQueue
                                       LinearRuntime        v
                                                         DecimationStage
                                                            | InProcessQueue
                                                            v  poll_output
                                              main loop: VisualizationStage
                                                            |
                                              BufferManager -> renderer

The older library pipeline is still part of the sources, though no program
here runs it: `IngestionThread -> RingBuffer per channel -> DecimationThread ->
DecimationEngine::try_get_frame`.

Threads meet in four ways: two atomic indices (the ring), a mutex with a
condition variable (queues, the decimation rounds, the viewer's command queue),
plain atomics for settings (rate, mode, pause, stop flags), and messages between
the two processes.

### 1.2 Components

For each: its state, its operations, what is hard, what makes it correct, and
the module that models it.

**RingBuffer / RingBufferView** (`src/ring_buffer_view.h`, `src/ring_buffer.h`).
State: an array, `head`, `tail`. Operations: `push`, `push_bulk`, `pop`,
`pop_bulk`, `discard_bulk`, `size`. Hard: no lock; each side works with a copy
of the other's index that may be old; a transfer takes two copies when it
crosses the end; one slot stays empty to tell full from empty. Correct when the
two copies never touch one slot, when what `size()` told the consumer can be
popped, and when the whole is a bounded FIFO. *Module `SpscRing`.*

**InProcessQueue** (`src/core/in_process_queue.cpp`). State: a deque, capacity,
policy, the shutdown flag, two counters, the threads waiting on `not_full_`.
Operations: `enqueue` under three policies, `dequeue`, `shutdown`. Hard:
`notify_one` per slot while other producers take slots without waiting, spurious
wake-ups, a shutdown whose flag and notification are two steps. Correct when it
is never overfull, nobody sleeps through a free slot or a shutdown, the counters
add up, and each producer's frames keep their order. *Module `InProcessQueue`.*

**LinearRuntime** (`src/core/linear_runtime.cpp`). State: the stages with their
queue settings, a queue and a worker thread per stage, `stop`, `is_running`.
Operations: `add_stage`, `start`, `stop`, `poll_output`, `poll_latest`, and the
loop of each worker. Hard: workers blocked on full queues when `stop` comes,
workers that have ended on EOS or Error, restart, frames between two queues while
a third drops. Correct when frames never overtake or vanish uncounted, nothing of
an earlier session survives a restart, and `stop` returns with all workers ended.
*Module `LinearRuntime`.*

**DecimationThread / DecimationEngine** (`src/decimation_thread.cpp`,
`src/decimation_engine.cpp`). State: settings, the round's generation, count and
exit flag, per-worker histories and results, the front buffer, the vertex count.
Operations: `start`, `stop`, the setters, `try_get_frame`, the single-channel
loop, coordinator and workers. Hard: a hand-made barrier, settings that change in
mid-round, a stop at any point, a restart. Correct when rounds do not overlap,
always end and give fresh frames of gapless windows, when `stop` returns, and
when a frame comes with the right vertex count. *Module `DecimationThread`.*

**Decimator** (`src/decimator.cpp`). Pure functions: pass-through, MinMax, LTTB.
Correct when MinMax gives each bucket's extremes over buckets that partition the
input, and LTTB keeps the ends and picks one point of each bucket. *The number of
vertices in `DecimationThread`, the values in `SignalPath`.*

**Frames and batches** (`include/grebe/frame.h`, `batch.h`). State: a frame's
header and its payload, owned or borrowed. Correct when a borrowed payload is
never kept beyond the call. *Partly: identity only, in `LinearRuntime`.*

**Stages** (`src/stages/`). `DataSourceAdapter` reads the source and makes one
frame; `DecimationStage` reduces it, with MinMax in place of LTTB at high rates;
`VisualizationStage` (called by the main loop, not by the runtime) keeps a history
per channel over rate and channel changes, trims it, remembers frame boundaries
and cuts the visible window. Correct when the window is one run of the newest
samples of one density, cut short only by the limit. *The first two as choices of
a stage in `LinearRuntime` and with their data in `SignalPath`, the third in
`Display`.*

**IngestionThread, DropCounter** (`src/ingestion_thread.cpp`). Reads frames,
detects sequence gaps, pushes to the rings, counts drops. Correct when whatever a
ring is short of has been reported. *Module `Link`.*

**SyntheticSource** (`src/synthetic_source.cpp`). Makes samples at a rate in real
time, from a period buffer it makes anew for each rate, at the phase it had.
Correct when the samples go on where they were. *Data in `SignalPath`, pause, stop
and the life of the period buffers in `Viewer`.*

**IPC contracts and transports** (`apps/common/ipc/`). Frame headers, commands, a
pipe with partial reads and writes, UDP with batches. Correct when a consumer sees
whole frames, in order for the pipe, and when `close` ends a blocked receive.
*Modules `Transport`, `PipeTransport`, `UdpTransport`, composed in `Link`.*

**Transport stages and TransportSource** (`apps/common/stages/`,
`apps/viewer/transport_source.cpp`). Adapters between transport and source or
stage. *TransportSource in `Link` and `Viewer`.*

**grebe-sg** (`apps/sg/`). DataGenerator or FileReader threads fill the rings, a
sender thread takes equal blocks of every channel and numbers them, a command
reader sets rate, pause and quit, the main thread applies them, flushes the rings
and switches source. Hard: `flush_rings` is a second consumer of the rings.
Correct when blocks of all channels belong to the same instant, gaps are reported,
rings have one producer, and the process ends when asked to. *Module `SgProcess`.*

**Viewer process** (`apps/viewer/main.cpp`, `app_loop.cpp`, `app_command.cpp`,
`process_handle.cpp`). Command queue from the key callback, main loop, start and
end of the child process. Hard: the order of shutdown, which is that of the
destructors too when an exception ends the loop. Correct when the viewer always
ends, uses nothing it has closed and leaves no child; a minimised window, which the
loop waits on, is in the way of the first. *Module `Viewer`; what the
loop does with frames in `Display`.*

**BufferManager** (`apps/viewer/buffer_manager.cpp`). Three GPU buffers, one drawn,
two in transfer, a fence each. Correct when a buffer is not drawn before it has
arrived nor written while it is drawn, and when every fence that is waited for comes.
*Module `GpuBuffers`, with the renderer's frames in flight.*

**ProfileRunner, EnvelopeVerifier, Benchmark** (`apps/viewer/`). A state machine of
scenarios (warm-up, measure, next) and the check of decimated frames against the
envelope of a period, for a number of samples worked out from a measured rate. Correct
when the verifiers look at the present period and raise no false alarm. *Scenarios in
`Viewer`, the verifier in `SignalPath`; statistics are left out.*

**Renderer, swapchain.** A fence and two semaphores per frame in flight; early
returns when the swapchain is out of date. *The fences in `GpuBuffers`.*

**Vulkan context, pipelines, compute decimator, HUD, shaders, CLI, bench programs,
scripts.** Calls into drivers and libraries, text and measurements. *Not modelled:
what they do is decided outside this code. The sender of the UDP benchmark is one
of the two senders of `Link`.*

## 2. The modules

| module | models or proves | extends or instances |
|---|---|---|
| `BoundedFifo` | abstract: a bounded first-in first-out sequence | |
| `SpscRing` | the lock-free ring | `BoundedFifo` (refinement) |
| `SpscRingProofs` | theorems about the ring | `SpscRing` |
| `FrameQueue` | abstract: a queue with a policy and atomic calls | |
| `InProcessQueue` | the queue with its mutex and condition variable | `FrameQueue` (refinement) |
| `InProcessQueueProofs` | theorems about the queue | `InProcessQueue` |
| `LinearRuntime` | stages, workers and queues of a pipeline | relies on what `InProcessQueue` shows |
| `LinearRuntimeProofs` | theorems about the runtime and its frames | `LinearRuntime` |
| `DecimationThread` | coordinator, workers and owner of the decimation | relies on what `SpscRing` shows |
| `DecimationThreadProofs` | theorems about its rounds, frames and windows | `DecimationThread` |
| `SgProcess` | the generator process: source, sender, command reader, window | relies on what `SpscRing` shows |
| `SgProcessProofs` | theorems about its sources and its frames | `SgProcess` |
| `FrameStream` | abstract: what a reliable and a lossy transport promise | |
| `Transport` | frames, and a call in progress at each end | |
| `PipeTransport`, `UdpTransport` | the two transports | `Transport` |
| `Link` | a sender, either transport, the ingestion thread | both transports, `FrameStream` (refinement) |
| `LinkProofs` | theorems about order, loss and the refinement | `Link` |
| `Viewer` | the viewer as a process: start, loop, profiler, shutdown, child | relies on what `LinearRuntime` and `Link` show |
| `SignalPath` | source, adapter, decimation and verifier, with their samples | |
| `GpuBuffers` | slots, frames in flight, and the device's queue | |
| `Display` | the passes of the main loop over both | `SignalPath`, `GpuBuffers` |
| `DisplayProofs` | theorems about the passes, the device and the samples | `Display` |
| `ViewerProofs` | theorems about its start, its end and its verifiers | `Viewer` |
| `MC...` | the instances TLC checks | |

Operators whose names begin with `M` and a capital letter (`MDropOldestUncounted`)
are plausible mistakes: each stands before the operator it could replace, and
`PROJECT.json` ("mutants") says which property notices it. No specification uses
them.

### 2.1 SpscRing

Variables `head`, `tail`, `buf` are the members; `pPc`, `pBatch`, `pCount`,
`pDone` the locals of the producer's call, `cPc`, `cCount`, `cOut` those of the
consumer's, `cSeen` what `size()` last returned. A call is three kinds of step:
the loads and the sizing (`PushBulk`, `Push`, `PopBulk`, `Pop`, `DiscardBulk`), one
step for every slot copied (`CopyIn`, `CopyOut`), the release store (`Publish`,
`Release`). Release and acquire order the copies against the index stores, which
is the order of the steps here; a relaxed load is only used by an index's own
writer. An acquire load may return an old index: that is the state in which the
other side's step has not happened yet, or has happened after the load, and both
are behaviours of the model since every use comes later than its load.

`BoundedFifo` knows a sequence `q` and what the last take returned; the mapping
is `q <- Content`, the samples between `tail` and `head`.

### 2.2 InProcessQueue

A method that holds `mutex_` from its first line to its last is one step. An
`enqueue` that has to wait is: `EnqueueBlock` (into `waiting`), a notification
or a spurious wake-up (into `woken`), `Resume` (the mutex is taken again, the
predicate is evaluated again). `shutdown()` is `Shutdown` and `NotifyAll`. The
history variables `offered`, `refused`, `dequeued`, `lastOut` exist only for the
properties. `total_blocked_ns_` is left out.

`FrameQueue` is the same queue with calls in place of condition variables: a call
is open from its begin to its end and takes effect in one step; its fairness says
that an open call ends when there is room for one, and that all end once the
queue is closed.

### 2.3 LinearRuntime

`queue[w]` is the output of stage `w`, `worker[w]` its thread: where it is, the
frames it holds, and whether its stage said EOS or Error. The owner's `start`,
`stop` and `poll_latest` are several steps, because workers run meanwhile. The
source stage makes numbered frames; every other stage passes on, absorbs, or ends.
`fate` records what became of each frame: it is what makes "no frame is lost
uncounted" a statement. `worker_func` takes references into the vector `workers`
while `start` may still push to it: an access beyond the vector is undefined, and
`Bind` lets it work or crash. Counters of the telemetry are left out. One
thread owns the runtime, as in `main.cpp`.

### 2.4 DecimationThread

`coord` and `worker[w]` are the threads, `generation`, `done`, `exit` the three
variables of the hand-made barrier, `setting` the four atomics, `owner` where the
owner is in `stop` or `try_get_frame`. A sample is its position in its channel's
stream, so `hist[c]` shows at once whether a window has a gap. A frame under
construction records how far into each stream it has seen (`upto`) and how many
vertices each channel got (`vtx`). A worker that wakes loads the four settings one
after the other (`WorkerLoads`), so it may work with two moments' settings. All
changes that can make a wait's predicate true are made under `work_mutex_` and
followed by a notification, so a wait is a guard; where this code can hang, it hangs
on the predicate and not on a lost notification. Draining a channel is one step: what
arrives between `size()` and `pop_bulk` stays for the next round, and `SpscRing` shows
that what `size()` promised is there. The pacing sleep above 500 MSPS delays and
changes nothing.

### 2.5 SgProcess

`src[s]` is a source object with its thread, `sd` the sender's locals, `mn` where
the main thread is, `ui` what it keeps in its own variables; `currentRate`,
`blockSize`, `stopRequested`, `cmdRate`, `cmdToggle` are the atomics. A sample is
the life of its source (every start begins one) and its index in it, so a frame
shows what it is made of. `push_bulk` is one step, since a ring has one producer
(`OneProducer`); `pop_bulk` and `discard_bulk` are two, because two threads
consume: the sender, and the main thread in `flush_rings`. `payload` keeps its cells
from frame to frame as the array does, so a short pop leaves old samples in a
frame. The thread that reads commands is the action `ReadCommand`: it blocks on
nothing, and its join needs no state. A send may fail at any time: a closed pipe, a
socket error, a block too long for a datagram; each ends the process. A process
without a window behaves as one with an idle user. `torn` is a history variable: a
flush has stored `tail` while the sender was among its pops. Left out: waveforms,
frequency, pacing, the measured rate, time stamps, and a file that cannot be opened
(nothing changes then).

### 2.6 Transport, PipeTransport, UdpTransport, Link

A frame is the sequence of its units, the least a system call can pass on by
itself; each knows its frame and its place, so a torn or shifted frame shows. `tx`
and `rx` are the call in progress at each end, with what is left to write or has
been read. `PipeWrite` is a turn of `send_frame`'s loop, cut anywhere; `PipeRead` a
call of `read`, cut anywhere. A sender whose reader is gone dies of SIGPIPE, which
no program here ignores. `UdpTransport` has the batch and its partial `sendmmsg`,
the receive queue, and `close()` in two steps (`closed_`, then the socket) between
any two steps of a receive (`at`). The network, external, loses, reorders and
duplicates datagrams and brings strangers' ones, `MaxFaults` times.

`Link` adds a sender (`snd`: the generator's, which ends on an error, or the
benchmark's, which goes on and flushes at its end) and the `IngestionThread`
(`ing`). Reading a frame, accounting for its number, pushing to one ring and
counting its drops are steps of their own. A sample in a ring is its index in the
sender's stream. The rings' reader, external, takes all there is just before a
push: an earlier moment makes no difference to the thread.

Left out: the Windows branches, failures of `read` other than the end of the pipe,
a restart of the thread, and what it publishes beside the counters.

### 2.7 Viewer

`mn` is the main thread from the spawn to the end of `main`, `worker` the source
worker, `handle` and `child` the `ProcessHandle` and the process it stands for, `pf`
the `ProfileRunner`, `source` the `SyntheticSource`: its `generation` counts the
period buffers it has made, and `pf.generation` says which of them the verifiers point
to. The destructors that run after an exception do the same in the same order, so the
clean-up is one sequence. A write to a child that is gone ends the viewer (`dead`).
The far end may fall silent for good without ending (`silent`): a paused generator, or
a port nobody sends to. In a pass the window may be minimised: the main thread is then
at `"wait"`, inside `glfwWaitEvents`, until an event of the window comes
(`WindowEvent`), which nothing makes come. Left out: the pipeline behind the source
worker, which is `LinearRuntime`'s, and what is drawn.

### 2.8 SignalPath, GpuBuffers, Display

`SignalPath` is the viewer's pipeline with its samples: `src` the source's
settings and its place in the period buffer, `held` a frame read but not yet
tagged with its rate (the adapter does this after the source's pacing, and by
then the rate may be another), `raw` and `out` the queues. The wave is a ramp with
steps of 3, so that the verifier's tolerance of 1 confuses no two samples, and MinMax
and the verifier's windows are the code's arithmetic. LTTB chooses a sample in
each bucket; the area that decides which is left out. Frames remember the rate
they were made at (`wave`), which no code sees. The verifier is not given the number of
samples a frame was made from: the main loop works one out from the rate the source
has measured of itself and the frame's tag (`RawCount`, rounded as in the code), and
that measurement is a number of the set `Measured`, whenever it was taken.

`GpuBuffers` has a slot's fence and `transfer_pending`, the poll of `try_swap` slot by
slot, the frames in flight with their fences, and the device (external): one queue,
whose submissions begin in order and may overlap, since there is no barrier between
them; only their fences are signalled in order. `gpu` holds those whose fences are not
signalled, and any of them may be at work. `Display` is a pass of `run_main_loop` by its
program counter: commands and events, all frames into the `VisualizationStage`
(`Process`), the upload, the poll and swap, a step of the span, the drawing with its
early returns, the swapchain's recreation. `fed` and `narrowest` are ghosts: what
the history would be without its limit, by a definition that does not go frame by
frame, and the narrowest window it has been trimmed for.

Left out: more than one channel, frame boundaries and the debug dump, the sizes of
slots and their growth, the clamping of the span to the rate (the spans of the
instance lie within the limits), noise and chirp, which are not tiled.

## 3. What the runs check

Bounds are constants of the modules, with `\* bound:` beside them.

**`spsc_ring`** (4 slots, requests up to 3, two sample values, 471,360 states).
Transfers start at every slot, cross the end, and are cut to what is free or
used; two interchangeable values suffice to see a sample in the wrong place,
since samples are only copied. `NoSlotRace`: the copies of the two sides never
meet on a slot. `SizeIsPromise`: what `size()` told the consumer is there until it
pops. `PushPublishesPrefix`: a store of `head_` makes a prefix of the caller's
array visible. `FifoSpec`: the refinement. Deadlock is checked.

**`in_process_queue`** (3 producers, capacity given as 0 or 2, 2 frames each, every
policy, 22,827 states). Three producers are needed for a slot to be taken by one
that never waited while two others are on their way. `Bounded`; `Accounting` (the
telemetry counters add up); `NoLostWakeup` (for every free slot a woken
producer, and nobody left asleep by a shutdown); `ProducerOrder`;
`BlockLosesNothing`; `QueueSpec` (the refinement, with its fairness). Deadlock is
checked: `shutdown()` can always be called.

**`linear_runtime`** (2 stages, 3 queue settings for each, 3 frames, 2 in one batch, 2
sessions, about 415,000 states). Two stages are enough for a worker to be starved
by one neighbour and blocked by another, with the owner at the end; queues of
one and two frames are full after one call of the source. `NoOvertaking`,
`EachFrameOnce`, `NothingStale` (across a restart), `StoppedMeansQuiet`,
`BlockedInputsKeepAll` (a stage added with Block gets a Block queue), and
`StopReturns`: `stop()` ends from every state. `CHECK_DEADLOCK FALSE`, because
after the bounded number of sessions, or after the crash of `Bind`, nothing is
left to do.

**`decimation_thread`** (1 and 2 channels; 1 or 2 workers; rings of 2; 3 samples; 2
starts; the mode LTTB at two rates, of which the higher forces MinMax, about
679,000 states). One channel has no worker; two channels have a worker each or
one between them. `RoundsDoNotOverlap`: results are read only when no worker
writes them, and the count means what the coordinator takes it for.
`FramesAreFresh`: a frame has seen all that was in the rings when its round was
signalled. `WindowHasNoGap`: over changes of rate and span. `RunsUntilStopped`: no
flag of an earlier run ends a thread of this one. `RoundsEnd`: a round no stop
interrupts ends.
`CHECK_DEADLOCK FALSE`, because `stop()` can hang, see below, and because the
bounded samples and starts run out.

**`sg_process`** (2 channels, rings of 2 samples, blocks and batches of 1 and 2, a
file of 3 samples, 2 commands or user actions, lives of 4, 1 and 1 samples, about
517,000 states). Two channels, because every hazard here is one channel ahead of
another; four samples in the first life, so that a sample can follow a drop; two
inputs reach every control, both ways of switching, and a command before a switch.
`OneProducer`: two source threads never run together, and none while the rings are
flushed. `EveryGapIsReported`: a frame's `sg_drops_total` covers all that is missing on
all channels up to its last sample (TR-001 §3.3.1 promises that drops are counted and
told to the viewer). `ChannelsStayTogether`: no frame mixes two sources, and its
channels are apart by no more than the reported drops; it is stated for behaviours
without `torn`, see `sg_flush`. `RateIsTheSources`; `StopEndsAll`.
`CHECK_DEADLOCK FALSE`, because the process ends.

**`link`** (2 channels, a header of 2 units, a pipe of 3 units, rings of 3 samples and
blocks of 2, 2 frames by pipe and 3 datagrams, one network fault, bursts of 1 and 2,
a socket that is not bound and a datagram too long, 412,709 states). A pipe
smaller than a frame cuts every frame, and blocks that do not divide the ring make
partial pushes. `StreamSpec` (the refinement: whole frames, in order for a pipe);
`LagIsReported`: a sample in a ring is behind its place by no more than the
channel's drop counter and `sequence_gaps_` tell, whatever is lost, reordered or
duplicated; `BurstKeepsOrder`: batches keep their frames, apart from a failed
`sendmmsg`; `CloseEndsBoth` (liveness). `CHECK_DEADLOCK FALSE`, because both ends end.

**`viewer`** (every mode, two rates, a profile of two scenarios of four frames, whose
verifiers are set up in the third, one frame on its way, two keys, 61,064 states). Two
scenarios are enough for the verifiers of one to meet the rate of the next.
`NoUseAfterClose`; `ChildIsReaped`; `VerifierUsesLiveBuffer`: a verifier is left with
a period buffer that is gone in two ways only, a change of rate the source has not yet
taken when it is set up (ten frames after the command, by timing only) and one asked
for later in the scenario, by a key. Both do happen and nothing in the code is against
them; what the property says is that a late source or a key of an earlier scenario
does not do it. `QuitEnds`: with a far end that sends or is gone, and if every wait
for an event of the window ends (`EventsCome`), the process ends. The premise is
needed: a close or an Esc that is taken at `app_loop.cpp:197-200` in a pass that then
finds its window minimised is looked at only at 196 of the next pass, and this one
waits at 224 for one more event. Without the premise TLC shows the viewer waiting
there for ever. `CHECK_DEADLOCK FALSE`, because it ends.

**`display`** (rates 175 and 245 with periods of 4 and 8 samples and batches of 5 and
7, a measured rate of 175, 4 points, 2 frames, 3 slots, 2 frames in flight, 3 spans, 2
commands, 2,067,336 states). Batches and buckets are no multiples of the periods or of
each other; two frames with two commands make a batch of two rates and a window of the
second. `EnvelopeHolds`: what tiling and MinMax make of the wave is accepted by the
verifier for every count of samples that gives buckets of the right size, and a rate
measured exactly gives the very count. The measurement of the instance is exact, one
sample too low in buckets of the right size (a batch of 5 tagged 245), or that of the
rate before, which gives buckets of a wrong size (a batch of 7). In the last case the
verifier does raise a false alarm: when the condition on the count is dropped TLC
shows it at once. So a measurement that is a little low at a border of the bucket size
(base 34 of the high rates becomes 33 when it is 0.4 % low), or up to 100 ms old after
a change of rate, costs the match rate; TR-001 §4.1 gives 100 % for most
configurations, and puts the rest down to drops. `WindowIsNewest`: the window is the
newest run of one rate's samples, as long as the span and the limit allow;
`DrawnHasArrived`: the slot on show is in no transfer, nor is one drawn from behind a
transfer into it; `FencesComeBack`: a fence that is not signalled has its submission.
Deadlock is checked.

Four runs end in a violation, and are kept as the record of it:

**`decimation_stop`**. "Wake workers so they can observe exit flag"
(`decimation_thread.cpp:98`): `StopReturns` says that `stop()` then returns. When
the flag is set after the coordinator has signalled a round and before a worker
has taken the mutex, the worker leaves its loop without `done_count_++` (line
425), and the coordinator waits for the count (lines 332-337) for ever; so does
`join`. A repair is to wait for `done_count_ >= num_workers_ || workers_exit_`.

**`sg_flush`**. `ring_buffer.h:8` allows one consumer, and `flush_rings`
(`sg_main.cpp:418-423`) is a second one while the sender runs. When the sender has
loaded `tail`, the main thread empties the ring, and the sender then stores its own
`tail`, samples of the old source are back in one ring and not in the other
(`FlushEmptiesRings`); the new source's channels stay shifted. A repair is to let the
sender do the discarding, on a flag it reads at the top of its loop.

**`display_overwrite`** (one rate, one span, no command). "Prefer a slot that's idle (not
draw, not transferring)" (`buffer_manager.cpp:105`), and TR-001 §2.5 has the copy and the
drawing in two slots: `DrawnIsLeftAlone` says that no transfer is submitted while a
drawing from its slot may be at work. It does not hold. When another slot is swapped in,
the one shown before is idle for `find_free_slot`, and the next upload goes to it while
the drawing submitted for it is still in flight; that drawing's fence is awaited only at
`renderer.cpp:68`, later in the pass, and there is no barrier between the two
submissions. `ensure_slot_capacity` may destroy the buffer at that moment. A repair is
to keep with a slot the fence of its last drawing and to wait for it, too.

**`viewer_quit`**. "Close transport to unblock any blocking receive_frame()"
(`main.cpp:241`): but `runtime.stop()`, six lines before, has already waited for the
worker that is inside it. When the far end is alive and silent (a paused generator, a
port nobody sends to), the viewer never ends (`QuitAlwaysEnds`); the receive timeout
of `udp_transport.cpp:276` does not help, since the loop it serves looks at `closed_`
only. A repair is to close the socket, or end the child, before `runtime.stop()`.

Two disagreements no run records. `decimation_engine.h:31-32` describes a frame as
"concatenated per-channel decimated vertices" with one number of "vertices per
channel". The number is that of the last channel, and it is read after the lock that
protects the frame is released (`decimation_engine.cpp:69-74`); `FrameLayout` in
`DecimationThread` states the description, and TLC finds it violated when it is added
to that run. And `runtime.h:63` says that `poll_output` "Returns the latest frame",
and it dequeues the oldest. The main loop depends on the code (`app_loop.cpp:236`), so
it is the comment that is wrong.

### 3.1 Fairness

The ring's properties are safety: none. Queue: a woken producer gets the mutex in
the end (weak fairness of `Resume`), because every method holds it for a bounded
time, and a caller that has set the flag runs on to the notification. Nothing is
assumed of producers or consumers. Runtime: every worker is scheduled, a stage's
`process` returns ("A Stage must respond to the Runtime's stop request within
bounded time", `stage.h:27`), and the owner ends the call it has begun; it need
never make one. Decimation: coordinator and workers are scheduled, the owner ends
its calls, and no data need ever arrive. Generator: the source, the sender and the
main thread are scheduled, and `send_frame` returns, with success or without (a
viewer that neither reads nor closes its pipe holds the process up, and is outside
it); no command need ever come. Link: the sender and the receiver are scheduled;
nothing is assumed of the owner, the network and the rings' reader. Viewer: the main
thread and the worker are scheduled, and a far end that is not silent sends. Nothing is
assumed of the user and the window: the end of a wait for an event is no fairness but
the premise `EventsCome` of the two properties that need it. Display
has safety only. These are weak fairness of threads that
are able to run, which the operating system's scheduler gives.

## 4. What is proved

The assumptions are the named `ASSUME`s of the modules and nothing else. TLC checked
every invariant below on the instance of the module's run before it was proved (the
place `b` of `FlowInv` in `SgProcessProofs` taken from a bounded range). A theorem
holds for every value of the constants, and so for every bound of the runs too: the
number of frames, faults, commands or restarts.

**`SpscRingProofs`** (capacity and request length any positive number, any set of
values). `NoSlotRace` is not inductive: it follows only from how much each side
believes to be free or used. The invariant `RingInv` adds to `TypeOK` that the
producer's transfer is no longer than the free slots now (`PushInv`: what it sized
with an old `tail` has only grown since) and that the copied part of the array
already equals the batch, the same for the consumer (`PopInv`: its transfer is no
longer than the used slots, and `cOut` is the prefix of the content), and
`SizeIsPromise`. Each step of one side leaves the other side's part alone
(`ConsumerUndisturbed`, `ProducerUndisturbed`). From `RingInv`: `TypeCorrect`,
`SizePromiseKept`, `RaceFree` (free slots and used slots of a ring are disjoint:
`FreeNotUsed`), `PushesPublishPrefix` and `RingImplementsFifo` (the full
refinement, `Spec => FifoSpec`, which has no fairness).

**`InProcessQueueProofs`** (any finite set of producers, any capacities, any number
of offers). `QueueInv` is `TypeOK`, `Bounded`, `NoLostWakeup`, `Accounting` and
`WaitersApart`: no producer is waiting and woken at once, without which moving one
from a set to the other would not change the number of the woken by one, and
`NoLostWakeup` is about that number. From it `TypeCorrect`, `NeverOverfull`,
`WakeupsSuffice`, `CountersAddUp`; `OrderKept` by a second induction, on three
lemmas about what appending and dropping do to an ordered queue; and
`QueueImplementsPromise`, that every step of the queue is a step of `FrameQueue` or
a stutter. `BlockLosesNothing` counts frames, and a dequeue takes one from the count
in the queue only if it is the next one of its producer: `BlockInv` says that each
producer's frames in a Block queue are numbered on from the last one handed out
(`NextInLine`), and are as many as were offered and are not inside a call that
waits (`AllThere`). From it `BlockKeepsAll`.

**`LinearRuntimeProofs`** (any number of stages, capacities, policies, frames and
sessions). `StateInv` says what the owner knows of the workers: which of them are
launched or joined (`OwnerKnowsWorkers`), how many frames a worker holds at each of
its places (`HoldsAtItsPlace`), when `poll_latest` has one. From it `Quietness`.
`NoOvertaking` and `EachFrameOnce` are not inductive: a frame polled is behind the
last one only if everything between the stages was. `FlowInv` sees the pipeline as
one line of places, worker, queue, worker, queue, ..., `poll_latest`'s variable, and
says that numbers grow along it (`Ordered`), that each frame in it is of this session
and `"inside"` (`Accounted`), that each frame `"inside"` is in it (`Found`), that the
one polled last is older than all of it, and that the frames made are the first
ones. Every step is one of five operations on the line, each with a lemma. From it
`Order`, `Freshness`, `Conservation`; and `BlockDropsNothing`.

**`DecimationThreadProofs`** (any number of channels and workers, sizes and
restarts, any modulus of the generation). `Rounds` says what the hand-made barrier
relies on: outside a round every worker has finished the last generation, and while
the coordinator waits, `done` is the number of the workers that have finished this
one; `Lifecycle` says which threads live, so that no exit flag survives into a
run. The generation may wrap round: a worker is at most one behind. `Fresh` follows
a frame from the signal to the front buffer: a worker's result has seen its channel
up to `atSignal`, or the channel is still to be done. What a worker has loaded of the
settings so far matters to none of these (`LoadEffect`). From these `RoundsApart`,
`LiveUntilStopped`, `Freshness`; `WindowHasNoGap` is inductive by itself (`Windows`).

**`LinkProofs`** (any frame length, pipe, ring and block size, bursts, channels,
number of frames and of network faults). `LinkInv` has the types and how the calls
at both ends fit the program that made them. Three inductions rest on it.
`BurstInv`: what was emitted and what waits in the batch are one run of numbers,
whose length follows from where the sender is (`BurstOrder`). `LagInv`: each
channel's `pushed + dropped` is the number of its samples handled, the expected
sequence number is no further than received frames and gaps tell, and the newest
sample of a ring is limited by both; without `Counters` a partial push could hide
samples (`Lag`). `StreamInv`: in a pipe the units in the receiver's hand, in the
pipe and still in the sender's hand follow each other without a gap from the last
frame received to the last one sent; in UDP whatever is under way was sent. From it
`Streams`: every step of `Link` is a step of `FrameStream` or a stutter, under
that instance's mapping.

**`SgProcessProofs`** (any number of channels, ring size, blocks, rates, batches,
lives and inputs). `SgTypes` includes that a batch does not go beyond its file's end.
`SwitchInv`: the sources that are not `ui.mode` have no thread, nor has any while
the rings are flushed (`Alone`, hence `ProducersApart`); the rate the sender reads is
the running source's at the loop's top and while the user acts, and then a
generator that is shown runs (`ShownRuns`, without which a rate button could touch a
source that does not; `RateFollows`). What frames hold needs where every sample is:
`FlowInv` says that there is one place `b` in the life of the running source such
that every ring holds samples in order from `b` on, later than their place by at
most what was dropped of that channel (`InOrder`), or from a block further where the
sender has popped; the rows of the frame under way likewise (`Row`); and rings a flush
has passed are empty. `b` moves on with a block sent, and is found anew when a
source starts over flushed rings; it may be negative then, the sender having a frame
of the old life in hand. Until `torn`, every step keeps it; sums over channels are
the library's `SumFunction`, for which the module proves that they grow with their
terms. From it `GapsReported` and `ChannelsTogether`.

**`DisplayProofs`** (two slots or more, any number of frames in flight, any rates,
spans and bounds). `FencesComeBack` is not inductive: when the device finishes a
submission its fence is signalled, and another submission with the same fence would
be left with none. `TransfersMatch` and `DrawsMatch` add that a submission under way
is the only one with its fence and that its fence is not signalled; so a slot whose
fence was waited for, or a frame whose fence was, has no submission left.
`DrawnHasArrived` needs them too (a signalled slot has no transfer queued before the
drawing of it), and `PollIsApart`: what `try_swap` has found stays signalled until it
is shown, because the poll is under way only at `"swap"`, where nothing is uploaded.
Their conjunction with `GpuTypeOK` is `GpuInv`; the upload, the poll, the swap, the
drawing and the device have a lemma each, and `GpuUndisturbed` stands for every step
of the pipeline, the commands and the picture. From it `ArrivesBeforeDrawn` and
`FencesReturn`.

The same module proves what the viewer shows of a wave (any rates, periods, batches
and points). `SignalInv` follows batches through the queues: each is a tiling of the
period of one rate from a place in it, what a `DecimationStage` puts out is what one
of its modes makes of such a batch, and the source's place stays in its period, also
when the period is made anew at the phase it had. The rest is arithmetic about any
divisor: a bucket's size is the quotient or one more (`BucketSize`), a run of samples
across the period's end is one of the verifier's windows (`WindowKnown`), and a ramp's
extremes are those of its places. A count reaches the verifier only as the size of the
buckets it gives (`SameSize`), and of points whose rate was reduced along with them it
is exactly the batch's when the measured rate is the tag's (`CountOfReduced`). From it
`RightCountNoAlarm`; of a count that gives another bucket size nothing is, or could be,
proved.

`WindowIsNewest` (any spans and display sizes too) is about the picture alone.
`PictureInv` adds the history it is cut from: it is the end of what came since the
rate changed, all of that or two of the narrowest windows it was trimmed for, and the
picture is the end of it in turn. A pass folds its frames into the history while
`Received` defines what came by the last change among them, so `FoldIsArrived` has to
show that the two agree. That is an induction over the frames; it is done with sets
of numbers, each of which has a least element (`UpTo`), so that no operator has to be
passed to an induction theorem: the fold and the concatenation are functions of the
number of frames taken (`FoldSteps`, `JoinSteps`), compared number by number. From it
`NewestShown`. `SignalAssumption` asks that the rates are multiples of the batches, a
matter of the unit they are written in: a reduced rate, a `double` in the code and a
quotient of integers here, then has no fraction, so that it is not 0, which would mean
"no rate yet", and the count worked out from it is not wrong for the model's sake.

**`ViewerProofs`** (any kinds of source, rates, scenarios, frames on their way and
keys). `NoUseAfterClose` speaks of a worker in a read and of the end of `main`; it
rests on the order of the clean-up, which `ViewerInv` spells out: the consumer is
there from the launch to the join and in a viewer a signal has ended
(`ConsumerIsThere`), the worker is not before the launch nor after the join
(`WorkerIsOver`). `ChildIsReaped` needs that the `ProcessHandle` knows of every child
it has not waited for (`ChildIsKnown`): `~ProcessHandle` waits only if `pid_` is set
and `exited_` is not. From it `NeverUsedAfterClose` and `ChildAlwaysReaped`, for an
ordinary end, an exception, a failed spawn and a child that ends at any moment.
`VerifierUsesLiveBuffer` is about a source that may make its buffers anew: `LiveInv`
adds that a source counted as settled has nothing new to take (`SettledIsTaken`), and
that the set-up is done once in a scenario, in its fixed frame (`SettledIsReady`);
`BuffersStayLive`, with the two exceptions section 3 names.

Only model-checked: the liveness properties and the fairness half of `QueueSpec`
(fairness and ENABLED are beyond the prover).
The four properties of section 3 that the code violates have no theorem, of course.

## 5. Plan

Done: every component of section 1.2 that holds state of its own, and a theorem for
every safety invariant of the passing runs. Next, in this order:

1. Channels in `Display`: a change of their number, and the layout of the drawn
   buffer against the vertex count of the newest picture (`app_loop.cpp:332`).
2. A restart of `IngestionThread`, and the two transport stages in a runtime.

### Not modelled

The drivers' side of rendering: pipelines, command buffers, shaders, memory, the
compute decimator that only the microbenchmark runs. Text and layout of the HUD and
the window's title. The command line. Waveform arithmetic (floating point), noise,
chirp and pacing: they decide values and times, not what is done with them.
Statistics and CSV output of the profiler, microbenchmarks, the statistics of the
UDP benchmark, build scripts, and the branches for Windows.
