------------------------------ MODULE SgProcess ------------------------------
(***************************************************************************)
(* grebe-sg, the signal generator process (src/apps/sg): a source thread   *)
(* (DataGenerator or FileReader) fills one ring per channel, the sender    *)
(* thread takes an equal block from each and sends them as one frame, the  *)
(* command reader stores the viewer's commands in atomics, and the main    *)
(* thread applies these, reacts to the user, and switches the source.      *)
(*                                                                         *)
(* A sample is the instant it was made at: the life of its source (every   *)
(* start of a source thread begins one) and its index in that life.  The   *)
(* rings have two consumers here, the sender and the main thread's         *)
(* flush_rings, so pop_bulk and discard_bulk are split between the load of *)
(* the indices and the store of tail; the one producer's push_bulk is one  *)
(* step (SpscRing splits it).  Waveforms, time stamps and pacing are left  *)
(* out: a source may make its next batch at any time.                      *)
(***************************************************************************)
EXTENDS Naturals, Functions

CONSTANTS
    NumChannels,     \* opts.num_channels
    Slots,           \* slots of a ring: opts.ring_size + 1
    Options,         \* command lines: [source, rate, block], the rate a file's if
                     \*   the source is a file
    Blocks,          \* block_options: block lengths of the combo box
    MaxBlock,        \* MAX_BLOCK: the longest block the sender has room for
    HasWindow,       \* has_window: without one, no user acts
    Rates,           \* sample rates, as numbers
    RateOptions,     \* rate_options: the rates of the radio buttons
    HighRate,        \* the rate from which a source makes large batches
    BatchLow, BatchHigh,
    FileLength,      \* total_samples of a file
    MaxTicks,        \* bound: samples per channel that each life makes, in order
    MaxInputs        \* bound: commands and user actions, taken together

Sources == {"Synthetic", "File"}

ASSUME SgAssumption ==
    /\ NumChannels \in Nat \ {0} /\ Slots \in Nat \ {0} /\ MaxBlock \in Nat
    /\ Blocks \subseteq 1..MaxBlock /\ HasWindow \in BOOLEAN
    /\ Options \subseteq [source : Sources, rate : Rates, block : Blocks]
    /\ Rates \subseteq Nat \ {0} /\ RateOptions \subseteq Rates
    /\ HighRate \in Nat /\ BatchLow \in Nat \ {0} /\ BatchHigh \in Nat \ {0}
    /\ FileLength \in Nat

VARIABLES
    head, tail, buf, \* per channel: the ring
    dropped,         \* per channel: DropCounter::total_dropped_
    src,             \* the two sources and their threads
    sd,              \* the sender thread
    payload,         \*   its payload array, kept from frame to frame
    frame,           \*   the header of the last frame sent
    cmdRate,         \* cmd_sample_rate, 0 when no command waits
    cmdToggle,       \* cmd_toggle_paused
    mn,              \* the main thread
    ui,              \*   its own state: source_mode, source_sel, rate_sel, ...
    currentRate,     \* current_sample_rate, shared with the sender
    blockSize,       \* block_size, shared with the sender
    stopRequested,   \* stop_requested, shared by all
    inputs,          \* how many commands and user actions there were
    lives,           \* how many source threads were started
    torn             \* a flush has stored tail in the middle of the sender's pops

rings == <<head, tail, buf>>
shared == <<currentRate, blockSize, stopRequested>>
commands == <<cmdRate, cmdToggle>>
sending == <<sd, payload, frame>>
owner == <<mn, ui>>
history == <<inputs, lives, torn>>
vars == <<rings, dropped, src, sending, commands, owner, shared, history>>

Channels == 1..NumChannels
NoSample == [life |-> 0, t |-> 0]
Cells == 0..(NumChannels * MaxBlock - 1)

-----------------------------------------------------------------------------
(* The rings.                                                               *)

Least(a, b) == IF a <= b THEN a ELSE b
Wrap(x) == IF x >= Slots THEN x - Slots ELSE x
Used(c) == IF head[c] >= tail[c] THEN head[c] - tail[c]
                                 ELSE Slots - tail[c] + head[c]
Free(c) == Slots - 1 - Used(c)
TotalDropped == SumFunction(dropped)

(* start() of a source: a new life with its rate; a thread in its loop. *)
Started(rate, loop) ==
    [running |-> TRUE, stop |-> FALSE, paused |-> FALSE, rate |-> rate,
     looping |-> loop, pc |-> "run", ch |-> 1, n |-> 0, pushed |-> 0,
     t |-> 0, pos |-> 0, life |-> lives + 1]

(* A source that has no thread. *)
Off(rate) == [Started(rate, TRUE) EXCEPT !.running = FALSE, !.pc = "none", !.life = 0]

Init ==
    /\ head = [c \in Channels |-> 0] /\ tail = head
    /\ buf = [c \in Channels |-> [i \in 0..(Slots - 1) |-> NoSample]]
    /\ dropped = [c \in Channels |-> 0]
    /\ inputs = 0 /\ lives = 1 /\ torn = FALSE
    /\ stopRequested = FALSE
    /\ \E o \in Options, r \in RateOptions :
         /\ \A q \in RateOptions : r <= q
         /\ ui = [mode |-> o.source, sel |-> o.source, rate |-> r, loop |-> TRUE]
         /\ currentRate = o.rate /\ blockSize = o.block
         /\ src = [s \in Sources |->
                     IF s = o.source THEN [Off(o.rate) EXCEPT !.running = TRUE, !.pc = "run",
                                                              !.life = 1]
                                     ELSE Off(o.rate)]
    /\ sd = [pc |-> "top", ch |-> 1, block |-> 0, newTail |-> 0, total |-> 0]
    /\ payload = [i \in Cells |-> NoSample]
    /\ frame = [block |-> 0, drops |-> 0]
    /\ cmdRate = 0 /\ cmdToggle = FALSE
    /\ mn = [pc |-> "loop", ch |-> 1, newTail |-> 0, op |-> "none", rate |-> 0]

-----------------------------------------------------------------------------
(* A source thread: DataGenerator::thread_func, FileReader::thread_func.    *)

BatchSize(s) == IF src[s].rate >= HighRate THEN BatchHigh ELSE BatchLow

(* A paused source does not see the request to stop. *)
MSourceStopsAwake(s) ==
    /\ src[s].pc = "run" /\ src[s].stop /\ ~src[s].paused
    /\ src' = [src EXCEPT ![s].pc = "none"]

(* The loop's test of stop_requested_. *)
SourceStops(s) ==
    /\ src[s].pc = "run" /\ src[s].stop
    /\ src' = [src EXCEPT ![s].pc = "none"]

(* The end of a file that does not loop: the thread returns by itself. *)
FileEnds(s) ==
    /\ s = "File" /\ src[s].pc = "run" /\ ~src[s].stop /\ ~src[s].paused
    /\ src[s].pos = FileLength /\ ~src[s].looping
    /\ src' = [src EXCEPT ![s].pc = "none"]

(* The size of the next batch; a file starts again when it may, and its     *)
(* last batch is what is left of it.                                        *)
SourceBatch(s) ==
    LET again == s = "File" /\ src[s].pos = FileLength
        pos   == IF again THEN 0 ELSE src[s].pos
        n     == IF s = "File" THEN Least(BatchSize(s), FileLength - pos) ELSE BatchSize(s)
    IN /\ src[s].pc = "run" /\ ~src[s].stop /\ ~src[s].paused
       /\ again => src[s].looping
       /\ src[s].t + n <= MaxTicks[src[s].life]
       /\ src' = [src EXCEPT ![s].pc = "push", ![s].ch = 1, ![s].n = n, ![s].pos = pos]

(* push_bulk of the batch into the next channel's ring: what fits. *)
SourcePush(s) ==
    LET c == src[s].ch
        k == Least(src[s].n, Free(c))
        new == [i \in 0..(k - 1) |-> [life |-> src[s].life, t |-> src[s].t + i]]
    IN /\ src[s].pc = "push"
       /\ buf' = [buf EXCEPT ![c] =
                    [j \in DOMAIN @ |-> IF \E i \in DOMAIN new : Wrap(head[c] + i) = j
                                        THEN new[CHOOSE i \in DOMAIN new : Wrap(head[c] + i) = j]
                                        ELSE @[j]]]
       /\ head' = [head EXCEPT ![c] = Wrap(@ + k)]
       /\ src' = [src EXCEPT ![s].pc = "record", ![s].pushed = k]
       /\ UNCHANGED <<tail, dropped>>

NextPush(r) == [r EXCEPT !.pc = "push", !.ch = @ + 1]

(* Every channel has the batch: the next one begins where it ended. *)
BatchDone(s, r) ==
    [r EXCEPT !.pc = "run", !.t = @ + r.n, !.n = 0, !.pushed = 0,
              !.pos = IF s = "File" THEN @ + r.n ELSE @, !.ch = 1]

(* Drops recorded for the first channel alone. *)
MSourceRecordFirst(s) ==
    /\ src[s].pc = "record"
    /\ dropped' = [dropped EXCEPT ![1] = IF src[s].ch = 1 THEN @ + src[s].n - src[s].pushed ELSE @]
    /\ src' = [src EXCEPT ![s] =
                 IF @.ch < NumChannels THEN NextPush(@)
                 ELSE [@ EXCEPT !.pc = "run", !.t = @ + src[s].n]]
    /\ UNCHANGED rings

(* record_push. *)
SourceRecord(s) ==
    /\ src[s].pc = "record"
    /\ dropped' = [dropped EXCEPT ![src[s].ch] = @ + src[s].n - src[s].pushed]
    /\ src' = [src EXCEPT ![s] = IF @.ch < NumChannels THEN NextPush(@) ELSE BatchDone(s, @)]
    /\ UNCHANGED rings

SourceStep(s) ==
    /\ \/ SourceStops(s) /\ UNCHANGED <<rings, dropped>>
       \/ FileEnds(s) /\ UNCHANGED <<rings, dropped>>
       \/ SourceBatch(s) /\ UNCHANGED <<rings, dropped>>
       \/ SourcePush(s)
       \/ SourceRecord(s)
    /\ UNCHANGED <<sending, commands, owner, shared, history>>

-----------------------------------------------------------------------------
(* The sender thread.                                                       *)

NextPop == IF sd.ch = NumChannels
           THEN [sd EXCEPT !.pc = "send", !.newTail = 0]
           ELSE [sd EXCEPT !.pc = "pop", !.newTail = 0, !.ch = @ + 1]

SenderStops ==
    /\ sd.pc = "top" /\ stopRequested
    /\ sd' = [sd EXCEPT !.pc = "ended"]
    /\ UNCHANGED <<tail, payload, frame, stopRequested>>

(* Every ring holds a block.  The rings are asked one after the other, but  *)
(* only a flush shortens one, and it leaves nothing to find ready.          *)
SenderReady ==
    /\ sd.pc = "top" /\ ~stopRequested
    /\ \A c \in Channels : Used(c) >= blockSize
    /\ sd' = [sd EXCEPT !.pc = "pop", !.ch = 1, !.block = blockSize]
    /\ UNCHANGED <<tail, payload, frame, stopRequested>>

(* pop_bulk up to its store of tail, and the copy of what was popped to the *)
(* channel's place in payload; nothing is stored when the ring is empty.    *)
PopCopy ==
    LET c == sd.ch
        n == Least(sd.block, Used(c))
        at == (c - 1) * sd.block
    IN /\ sd.pc = "pop"
       /\ payload' = [i \in Cells |-> IF i \in at..(at + n - 1)
                                      THEN buf[c][Wrap(tail[c] + i - at)] ELSE payload[i]]
       /\ sd' = IF n = 0 THEN NextPop
                ELSE [sd EXCEPT !.pc = "store", !.newTail = Wrap(tail[c] + n)]
       /\ UNCHANGED <<tail, frame, stopRequested>>

(* pop_bulk's store of tail. *)
PopStore ==
    /\ sd.pc = "store"
    /\ tail' = [tail EXCEPT ![sd.ch] = sd.newTail]
    /\ sd' = NextPop
    /\ UNCHANGED <<payload, frame, stopRequested>>

(* The header is built (first_sample_index is total) and the frame sent.  A *)
(* block too large for a datagram, a closed pipe or a socket error ends the *)
(* process.                                                                 *)
Send(ok) ==
    /\ sd.pc = "send"
    /\ IF ok
       THEN /\ frame' = [block |-> sd.block, drops |-> TotalDropped]
            /\ sd' = [sd EXCEPT !.pc = "top", !.ch = 1, !.block = 0, !.total = @ + sd.block]
            /\ UNCHANGED stopRequested
       ELSE /\ sd' = [sd EXCEPT !.pc = "ended"]
            /\ stopRequested' = TRUE
            /\ UNCHANGED frame
    /\ UNCHANGED <<tail, payload>>

SenderStep ==
    /\ \/ SenderStops
       \/ SenderReady
       \/ PopCopy
       \/ PopStore
       \/ \E ok \in BOOLEAN : Send(ok)
    /\ UNCHANGED <<head, buf, dropped, src, commands, owner, currentRate, blockSize, history>>

-----------------------------------------------------------------------------
(* The command reader thread polls the pipe until stop_requested.           *)

(* A command has come: a new rate (set in the atomic over one not yet       *)
(* taken), a pause or resume, or the order to quit.                         *)
ReadCommand ==
    /\ ~stopRequested /\ inputs < MaxInputs
    /\ inputs' = inputs + 1
    /\ \/ /\ cmdRate' \in Rates
          /\ UNCHANGED <<cmdToggle, stopRequested>>
       \/ /\ cmdToggle' = TRUE
          /\ UNCHANGED <<cmdRate, stopRequested>>
       \/ /\ stopRequested' = TRUE
          /\ UNCHANGED <<cmdRate, cmdToggle>>
    /\ UNCHANGED <<rings, dropped, src, sending, owner, currentRate, blockSize, lives, torn>>

-----------------------------------------------------------------------------
(* The main thread.                                                         *)

(* The rate command heeded whatever the source is. *)
MTakeCommandsAlways ==
    LET heard == cmdRate > 0
        set == IF heard THEN [src EXCEPT !["Synthetic"].rate = cmdRate] ELSE src
    IN /\ mn.pc = "loop" /\ ~stopRequested
       /\ cmdRate' = 0 /\ cmdToggle' = FALSE
       /\ src' = IF cmdToggle THEN [set EXCEPT ![ui.mode].paused = ~@] ELSE set
       /\ currentRate' = IF heard THEN cmdRate ELSE currentRate
       /\ mn' = [mn EXCEPT !.pc = IF HasWindow THEN "gui" ELSE "loop"]
       /\ UNCHANGED <<rings, ui, blockSize, stopRequested, inputs, lives, torn>>

(* A pass begins with the commands: the rate, which only a generator heeds, *)
(* and the pause, for the source there is.                                  *)
TakeCommands ==
    LET heard == cmdRate > 0 /\ ui.mode = "Synthetic"
        set == IF heard THEN [src EXCEPT !["Synthetic"].rate = cmdRate] ELSE src
    IN /\ mn.pc = "loop" /\ ~stopRequested
       /\ cmdRate' = 0 /\ cmdToggle' = FALSE
       /\ src' = IF cmdToggle THEN [set EXCEPT ![ui.mode].paused = ~@] ELSE set
       /\ currentRate' = IF heard THEN cmdRate ELSE currentRate
       /\ ui' = IF heard /\ HasWindow /\ cmdRate \in RateOptions
                THEN [ui EXCEPT !.rate = cmdRate] ELSE ui
       /\ mn' = [mn EXCEPT !.pc = IF HasWindow THEN "gui" ELSE "loop"]
       /\ UNCHANGED <<rings, blockSize, stopRequested, inputs, lives, torn>>

-----------------------------------------------------------------------------
(* What the user does in the window, at most one thing a pass.              *)

BeginStop(op, rate) ==
    /\ src' = [src EXCEPT ![ui.mode].stop = TRUE]
    /\ mn' = [mn EXCEPT !.pc = "stop", !.op = op, !.rate = rate]

(* The source selector; back from a file to the generator it switches. *)
GuiSource ==
    /\ IF ui.sel = "File"
       THEN /\ ui' = [ui EXCEPT !.sel = "Synthetic"]
            /\ IF ui.mode = "File"
               THEN BeginStop("generate", ui.rate)
               ELSE mn' = [mn EXCEPT !.pc = "loop"] /\ UNCHANGED src
       ELSE /\ ui' = [ui EXCEPT !.sel = "File"]
            /\ mn' = [mn EXCEPT !.pc = "loop"] /\ UNCHANGED src
    /\ UNCHANGED <<currentRate, blockSize>>

GuiRate ==
    /\ ui.sel = "Synthetic"
    /\ \E r \in RateOptions :
         /\ src' = [src EXCEPT !["Synthetic"].rate = r]
         /\ currentRate' = r
         /\ ui' = [ui EXCEPT !.rate = r]
    /\ mn' = [mn EXCEPT !.pc = "loop"]
    /\ UNCHANGED blockSize

GuiBlock ==
    /\ ui.sel = "Synthetic"
    /\ blockSize' \in Blocks
    /\ mn' = [mn EXCEPT !.pc = "loop"]
    /\ UNCHANGED <<src, ui, currentRate>>

(* The Pause button, shown for the generator, or for a file once there is one. *)
GuiPause ==
    /\ ui.sel = "File" => ui.mode = "File"
    /\ src' = [src EXCEPT ![ui.sel].paused = ~@]
    /\ mn' = [mn EXCEPT !.pc = "loop"]
    /\ UNCHANGED <<ui, currentRate, blockSize>>

GuiLoop ==
    /\ ui.sel = "File" /\ ui.mode = "File"
    /\ src' = [src EXCEPT !["File"].looping = ~@]
    /\ ui' = [ui EXCEPT !.loop = ~src["File"].looping]
    /\ mn' = [mn EXCEPT !.pc = "loop"]
    /\ UNCHANGED <<currentRate, blockSize>>

(* A file is started beside the generator that still runs. *)
MGuiOpenNoStop ==
    /\ ui.sel = "File"
    /\ \E r \in Rates :
         mn' = [mn EXCEPT !.pc = "flush", !.ch = 1, !.op = "load", !.rate = r]
    /\ UNCHANGED <<src, ui, currentRate, blockSize>>

(* A file that can be played; one that cannot leaves all as it was. *)
GuiOpen ==
    /\ ui.sel = "File"
    /\ \E r \in Rates : BeginStop("load", r)
    /\ UNCHANGED <<ui, currentRate, blockSize>>

GuiIdle ==
    /\ mn.pc = "gui"
    /\ mn' = [mn EXCEPT !.pc = "loop"]
    /\ UNCHANGED <<rings, src, ui, cmdRate, cmdToggle, shared, inputs, lives, torn>>

Gui ==
    /\ mn.pc = "gui" /\ inputs < MaxInputs
    /\ inputs' = inputs + 1
    /\ GuiSource \/ GuiRate \/ GuiBlock \/ GuiPause \/ GuiLoop \/ GuiOpen
    /\ UNCHANGED <<rings, cmdRate, cmdToggle, stopRequested, lives, torn>>

-----------------------------------------------------------------------------
(* The switch of source, and the end of the process.                        *)

(* The loop ends on stop_requested, or when the user closes the window. *)
MainLeaves ==
    /\ mn.pc = "loop" /\ (stopRequested \/ HasWindow)
    /\ stopRequested' = TRUE
    /\ BeginStop("quit", 0)
    /\ UNCHANGED <<rings, ui, cmdRate, cmdToggle, currentRate, blockSize, inputs, lives, torn>>

(* stop() joins the source's thread. *)
Joined ==
    /\ mn.pc = "stop" /\ src[ui.mode].pc = "none"
    /\ src' = [src EXCEPT ![ui.mode].running = FALSE]
    /\ mn' = [mn EXCEPT !.pc = IF mn.op = "quit" THEN "join" ELSE "flush",
                        !.ch = 1]
    /\ UNCHANGED <<rings, ui, cmdRate, cmdToggle, shared, inputs, lives, torn>>

NextFlush == IF mn.ch = NumChannels
             THEN [mn EXCEPT !.pc = "start", !.newTail = 0, !.ch = 1]
             ELSE [mn EXCEPT !.pc = "flush", !.newTail = 0, !.ch = @ + 1]

(* Only the first ring is flushed. *)
MFlushFirst ==
    /\ mn.pc = "flush"
    /\ mn' = IF mn.ch > 1 \/ Used(1) = 0 THEN [mn EXCEPT !.pc = "start"]
             ELSE [mn EXCEPT !.pc = "flushStore", !.newTail = head[1]]
    /\ UNCHANGED <<rings, src, ui, cmdRate, cmdToggle, shared, inputs, lives, torn>>

(* discard_bulk(capacity()) up to its store; none when the ring is empty. *)
FlushLoad ==
    /\ mn.pc = "flush"
    /\ mn' = IF Used(mn.ch) = 0 THEN NextFlush
             ELSE [mn EXCEPT !.pc = "flushStore", !.newTail = head[mn.ch]]
    /\ UNCHANGED <<rings, src, ui, cmdRate, cmdToggle, shared, inputs, lives, torn>>

(* discard_bulk's store of tail, while the sender may be at its own. *)
FlushStore ==
    /\ mn.pc = "flushStore"
    /\ tail' = [tail EXCEPT ![mn.ch] = mn.newTail]
    /\ mn' = NextFlush
    /\ torn' = (torn \/ sd.pc \in {"pop", "store"})
    /\ UNCHANGED <<head, buf, src, ui, cmdRate, cmdToggle, shared, inputs, lives>>

(* The new source starts with fresh rings.  file_reader is given up on the  *)
(* way back to the generator, and replaced by the next file.                *)
StartSource ==
    /\ mn.pc = "start"
    /\ src' = IF mn.op = "load"
              THEN [src EXCEPT !["File"] = Started(mn.rate, ui.loop)]
              ELSE [s \in Sources |-> IF s = "Synthetic" THEN Started(mn.rate, TRUE)
                                                         ELSE Off(mn.rate)]
    /\ ui' = IF mn.op = "load" THEN [ui EXCEPT !.mode = "File", !.sel = "File"]
                               ELSE [ui EXCEPT !.mode = "Synthetic"]
    /\ currentRate' = mn.rate
    /\ lives' = lives + 1
    /\ mn' = [mn EXCEPT !.pc = "loop", !.op = "none", !.rate = 0]
    /\ UNCHANGED <<rings, cmdRate, cmdToggle, blockSize, stopRequested, inputs, torn>>

(* The sender is joined, then the reader: stop_requested is set, and it     *)
(* blocks on nothing.                                                       *)
JoinThreads ==
    /\ mn.pc = "join" /\ sd.pc = "ended"
    /\ mn' = [mn EXCEPT !.pc = "ended"]
    /\ UNCHANGED <<rings, src, ui, cmdRate, cmdToggle, shared, inputs, lives, torn>>

MainStep ==
    /\ \/ TakeCommands
       \/ GuiIdle
       \/ Gui
       \/ MainLeaves
       \/ Joined
       \/ FlushLoad
       \/ FlushStore
       \/ StartSource
       \/ JoinThreads
    /\ UNCHANGED <<dropped, sending>>

Next ==
    \/ \E s \in Sources : SourceStep(s)
    \/ SenderStep
    \/ ReadCommand
    \/ MainStep

Spec == Init /\ [][Next]_vars

(* Every thread that can go on does; send_frame and the dialogs return. *)
FairSpec ==
    /\ Spec
    /\ \A s \in Sources : WF_vars(SourceStep(s))
    /\ WF_vars(SenderStep)
    /\ WF_vars(MainStep)

-----------------------------------------------------------------------------
(* The cell of payload with the i-th sample of channel c in the last frame. *)
SampleOf(c, i) == payload[(c - 1) * frame.block + i]
FrameSent == sd.pc = "top" /\ sd.total > 0
InFrame == 0..(frame.block - 1)

(* The rings have one producer: whatever is switched, loaded or stopped, the *)
(* threads of two sources never run together, and none runs while the main   *)
(* thread flushes the rings.                                                 *)
OneProducer ==
    LET alive == {s \in Sources : src[s].pc # "none"}
    IN /\ alive \subseteq {ui.mode}
       /\ mn.pc \in {"flush", "flushStore", "start", "join", "ended"}
          => alive = {}

(* sg_drops_total is up to date in every frame: a frame of the first source  *)
(* has its samples in order from first_sample_index on, and what is missing  *)
(* on all channels up to its last sample has been counted when it is sent.   *)
EveryGapIsReported ==
    FrameSent /\ lives = 1 /\ ~torn =>
      LET gap(c, i) == SampleOf(c, i).t - (sd.total - frame.block + i)
      IN /\ \A c \in Channels, i \in InFrame :
              /\ SampleOf(c, i).life = 1
              /\ SampleOf(c, i).t >= sd.total - frame.block + i
              /\ i > 0 => gap(c, i) >= gap(c, i - 1)
         /\ SumFunction([c \in Channels |-> gap(c, frame.block - 1)]) <= frame.drops

(* The channels of a frame belong together: no frame mixes two sources, and  *)
(* its channels are apart by no more samples than were reported dropped.     *)
(* It holds through every switch of source, as long as no flush came between *)
(* the loads and stores of the sender's pops.                                *)
ChannelsStayTogether ==
    FrameSent /\ ~torn =>
      \A c, d \in Channels, i \in InFrame :
        /\ SampleOf(c, i).life = SampleOf(d, i).life
        /\ SampleOf(c, i).t <= SampleOf(d, i).t + frame.drops

(* Between two passes of the main loop, the rate that frames carry is the    *)
(* rate of the source that runs, whatever mix of commands, buttons and       *)
(* switches came before.                                                     *)
RateIsTheSources == mn.pc = "loop" => currentRate = src[ui.mode].rate

(* Once anything asks for the end (the window, a command, a closed pipe),    *)
(* the process ends: a paused source, a full ring or a sender that waits for *)
(* samples does not hold it up.                                              *)
StopEndsAll == stopRequested ~> mn.pc = "ended"

(* flush_rings empties the rings: when the new source is about to start, no  *)
(* sample of the old one is left for the sender (sg_main.cpp:418, and one    *)
(* consumer per ring, ring_buffer.h:8).                                      *)
FlushEmptiesRings == mn.pc = "start" => \A c \in Channels : Used(c) = 0

=============================================================================
