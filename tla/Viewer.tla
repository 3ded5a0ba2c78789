-------------------------------- MODULE Viewer --------------------------------
(***************************************************************************)
(* grebe-viewer as a process (apps/viewer): main starts a source (an       *)
(* embedded generator, a child grebe-sg behind two pipes, or a UDP         *)
(* socket), runs the pipeline, loops over commands and frames, and takes   *)
(* all of it down in order.  With --profile the ProfileRunner drives the   *)
(* loop through its scenarios and compares frames with the period buffers  *)
(* of the generator that runs in the pipeline's source worker.             *)
(*                                                                         *)
(* Of the pipeline there is the source worker here (LinearRuntime has the  *)
(* rest), of a transport whether a receive can return (Link has the rest). *)
(* Commands that only change what is drawn are left out, and so is drawing *)
(* itself.  Events of the window come from outside: a minimised viewer     *)
(* waits for one.                                                          *)
(***************************************************************************)
EXTENDS Naturals, Sequences

CONSTANTS
    Modes,           \* of "embedded", "pipe", "udp"
    Rates,           \* the rates of the keys 1..4
    Scenarios,       \* the rates that --profile measures, in order
    SettleFrames,    \* frames of a scenario before the verifiers are set up
    ScenarioFrames,  \* warmup_frames + measure_frames
    PipeFrames,      \* frames the data pipe, or the socket's buffer, holds
    MaxKeys          \* bound: keys the user presses

ASSUME ViewerAssumption ==
    /\ Modes \subseteq {"embedded", "pipe", "udp"}
    /\ Scenarios \in Seq(Rates) /\ Scenarios # <<>>
    /\ SettleFrames \in Nat /\ ScenarioFrames \in Nat \ {0}
    /\ SettleFrames < ScenarioFrames

VARIABLES
    mode, profile,   \* the command line
    mn,              \* the main thread
    closing,         \* glfwWindowShouldClose
    cmds,            \* the AppCommandQueue
    keys,            \* how many keys were pressed
    handle,          \* sg_process: the ProcessHandle's pid_ # 0 and exited_
    child,           \* grebe-sg: "none", "running", "zombie" or "reaped"
    toChild,         \* commands in its stdin
    childRate,       \* the rate it was last told
    data,            \* frames on their way to the viewer
    silent,          \* the far end has no more to send, and does not end either
    transport,       \* the consumer: "none", "open", "closed"
    stopRequested,   \* of the runtime
    worker,          \* the source worker
    source,          \* the SyntheticSource
    pf               \* the ProfileRunner

far == <<child, toChild, childRate, data, silent>>
vars == <<mode, profile, mn, closing, cmds, keys, handle, far, transport,
          stopRequested, worker, source, pf>>

SetRate(r) == [type |-> "rate", rate |-> r]
Quit == [type |-> "quit", rate |-> 0]
TogglePaused == [type |-> "pause", rate |-> 0]

FirstRate == CHOOSE r \in Rates : \A q \in Rates : r <= q

Init ==
    /\ mode \in Modes /\ profile \in BOOLEAN
    /\ mn = [pc |-> "spawn", clean |-> TRUE]
    /\ closing = FALSE /\ cmds = <<>> /\ keys = 0
    /\ handle = [pid |-> FALSE, exited |-> FALSE]
    /\ child = "none" /\ toChild = <<>> /\ childRate = FirstRate
    /\ data = 0 /\ silent = FALSE
    /\ transport = "none" /\ stopRequested = FALSE
    /\ worker = [pc |-> "off", rate |-> 0]
    /\ source = [started |-> FALSE, target |-> FirstRate, cached |-> 0,
                 generation |-> 0, paused |-> FALSE]
    /\ pf = [scenario |-> 1, started |-> FALSE, frame |-> 0, ready |-> FALSE,
             generation |-> 0, settled |-> FALSE, finished |-> FALSE]

-----------------------------------------------------------------------------
(* Start-up.                                                                *)

(* spawn_with_pipes: two pipes and a fork, or nothing at all. *)
SpawnFails ==
    /\ mn.pc = "spawn" /\ mode = "pipe"
    /\ mn' = [pc |-> "gone", clean |-> FALSE]
    /\ UNCHANGED <<handle, child, transport, source>>

(* A child whose exec fails ends by itself, as ChildEnds. *)
Spawn ==
    /\ mn.pc = "spawn"
    /\ mn' = [mn EXCEPT !.pc = "launch"]
    /\ child' = IF mode = "pipe" THEN "running" ELSE "none"
    /\ handle' = [handle EXCEPT !.pid = (mode = "pipe")]
    /\ transport' = IF mode = "embedded" THEN "none" ELSE "open"
    /\ source' = [source EXCEPT !.started = TRUE]

(* runtime.start(). *)
Launch ==
    /\ mn.pc = "launch"
    /\ mn' = [mn EXCEPT !.pc = "loop"]
    /\ worker' = [worker EXCEPT !.pc = "top"]

-----------------------------------------------------------------------------
(* A pass of the main loop.                                                 *)

(* The keys of key_callback: some are dead with a transport. *)
KeyCommands ==
    {Quit} \cup (IF mode = "embedded" THEN {SetRate(r) : r \in Rates} \cup {TogglePaused}
                                      ELSE {})

(* What the window has: nothing of interest, the close button, or a key. *)
Events ==
    \/ UNCHANGED <<closing, cmds, keys>>
    \/ closing' = TRUE /\ UNCHANGED <<cmds, keys>>
    \/ /\ keys < MaxKeys
       /\ keys' = keys + 1
       /\ \E c \in KeyCommands : cmds' = Append(cmds, c)
       /\ UNCHANGED closing

(* A pass begins with the events, once it is known that it is to begin. *)
Poll ==
    /\ mn.pc = "loop" /\ ~closing
    /\ mn' = [mn EXCEPT !.pc = "pass"]
    /\ Events
    /\ UNCHANGED <<source, toChild, pf, stopRequested>>

(* process_commands takes the next command of those drained.  A write to a  *)
(* child that has gone raises SIGPIPE, which nobody handles.                *)
TakeCommand ==
    /\ mn.pc = "pass" /\ cmds # <<>>
    /\ cmds' = Tail(cmds)
    /\ LET c == Head(cmds)
           write == c.type = "rate" /\ mode = "pipe"
       IN /\ closing' = (closing \/ c.type = "quit")
          /\ source' = IF mode # "embedded" THEN source
                       ELSE CASE c.type = "rate" -> [source EXCEPT !.target = c.rate]
                              [] c.type = "pause" -> [source EXCEPT !.paused = ~@]
                              [] OTHER -> source
          /\ toChild' = IF write /\ child = "running" THEN Append(toChild, c.rate) ELSE toChild
          /\ mn' = IF write /\ child # "running" THEN [mn EXCEPT !.pc = "dead"] ELSE mn
          /\ pf' = [pf EXCEPT !.settled = @ /\ ~(c.type = "rate" /\ c.rate # source.target)]
    /\ UNCHANGED <<keys, stopRequested>>

(* The verifiers of the last scenario keep what they point to. *)
MBegun(p) ==
    IF p.started THEN p
    ELSE [p EXCEPT !.started = TRUE, !.frame = 0]

(* The first frame of a scenario, its rate asked for. *)
Begun(p) ==
    IF p.started THEN p
    ELSE [p EXCEPT !.started = TRUE, !.frame = 0, !.ready = FALSE, !.settled = FALSE]

(* The source has taken the rate it was last asked for, and works with no   *)
(* other.                                                                   *)
Settled ==
    /\ source.cached = source.target
    /\ worker.pc = "read" => worker.rate = source.target

(* init_envelope_verifiers, some frames later: pointers into the period     *)
(* buffers of the source (with a transport, into buffers of its own).       *)
Verified(p) ==
    LET q == [p EXCEPT !.settled = IF p.frame = SettleFrames THEN Settled ELSE @]
    IN IF p.ready \/ p.frame < SettleFrames THEN q
       ELSE [q EXCEPT !.ready = TRUE, !.generation = source.generation]

(* on_frame: the frame counted, and the scenario's end. *)
OnFrame(p) ==
    LET q == [Verified(Begun(p)) EXCEPT !.frame = @ + 1]
    IN IF q.frame < ScenarioFrames THEN q
       ELSE [q EXCEPT !.scenario = @ + 1, !.started = FALSE,
                      !.finished = q.scenario = Len(Scenarios)]

(* A frame drawn, after the commands of the pass; the profiler adds its own *)
(* for the next.                                                            *)
Frame ==
    /\ mn.pc = "pass" /\ cmds = <<>> /\ profile /\ ~pf.finished
    /\ mn' = [mn EXCEPT !.pc = "loop"]
    /\ pf' = OnFrame(pf)
    /\ cmds' = (IF pf.started THEN <<>> ELSE <<SetRate(Scenarios[pf.scenario])>>)
               \o (IF pf'.finished THEN <<Quit>> ELSE <<>>)
    /\ UNCHANGED <<closing, keys, source, toChild, stopRequested>>

(* A pass without the profiler: its work is done, there is none, or the     *)
(* window has been resized or has no current image.                         *)
Skip ==
    /\ mn.pc = "pass" /\ cmds = <<>>
    /\ mn' = [mn EXCEPT !.pc = "loop"]
    /\ UNCHANGED <<closing, cmds, keys, source, toChild, pf, stopRequested>>

(* The window is minimised.  With --profile the pass polls once more and is  *)
(* over; without, it waits for an event, also when the window is to close.  *)
Minimised ==
    /\ mn.pc = "pass" /\ cmds = <<>>
    /\ IF profile
       THEN mn' = [mn EXCEPT !.pc = "loop"] /\ Events
       ELSE mn' = [mn EXCEPT !.pc = "wait"] /\ UNCHANGED <<closing, cmds, keys>>
    /\ UNCHANGED <<source, toChild, pf, stopRequested>>

(* An error from the renderer unwinds main. *)
Throws ==
    /\ mn.pc = "pass" /\ cmds = <<>>
    /\ mn' = [pc |-> "join", clean |-> FALSE]
    /\ stopRequested' = TRUE
    /\ UNCHANGED <<closing, cmds, keys, source, toChild, pf>>

Loop ==
    /\ Poll \/ TakeCommand \/ Frame \/ Skip \/ Minimised \/ Throws
    /\ UNCHANGED <<mode, profile, handle, child, childRate, data, silent, transport, worker>>

(* Something happens to a window that is waited for: it is restored, say, or *)
(* closed (once more).  Nothing makes it happen.                            *)
WindowEvent ==
    /\ mn.pc = "wait"
    /\ mn' = [mn EXCEPT !.pc = "loop"]
    /\ Events
    /\ UNCHANGED <<mode, profile, handle, far, transport, stopRequested, worker, source, pf>>

-----------------------------------------------------------------------------
(* Clean-up, by main itself or, after an exception, by its destructors, in  *)
(* the same order: the runtime, the transport, the child.                   *)

(* The transport goes before the worker that may be in it. *)
MLeaveLoop ==
    /\ mn.pc = "loop" /\ closing
    /\ stopRequested' = TRUE
    /\ mn' = [mn EXCEPT !.pc = "close"]
    /\ UNCHANGED <<handle, far, transport, worker, source>>

LeaveLoop ==
    /\ mn.pc = "loop" /\ closing
    /\ stopRequested' = TRUE
    /\ mn' = [mn EXCEPT !.pc = "join"]
    /\ UNCHANGED <<handle, far, transport, worker, source>>

(* runtime.stop() has joined its workers. *)
Join ==
    /\ mn.pc = "join" /\ worker.pc = "ended"
    /\ mn' = [mn EXCEPT !.pc = "close"]
    /\ UNCHANGED <<stopRequested, handle, far, transport, worker, source>>

(* The source is stopped; a pipe's consumer is destroyed, a socket closed. *)
Close ==
    /\ mn.pc = "close"
    /\ transport' = IF transport = "open" THEN "closed" ELSE transport
    /\ source' = [source EXCEPT !.started = FALSE]
    /\ mn' = [mn EXCEPT !.pc = "reap"]
    /\ UNCHANGED <<stopRequested, handle, far, worker>>

(* ~ProcessHandle without its wait. *)
MReap ==
    /\ mn.pc = "reap"
    /\ mn' = [mn EXCEPT !.pc = "gone"]
    /\ child' = IF child = "zombie" THEN "reaped" ELSE child
    /\ handle' = [pid |-> FALSE, exited |-> FALSE]
    /\ UNCHANGED <<stopRequested, toChild, childRate, data, silent, transport, worker, source>>

(* ~ProcessHandle: is_alive() takes the status of a child that has ended;   *)
(* one that runs is sent SIGTERM, which ends it, and waited for.            *)
Reap ==
    /\ mn.pc = "reap"
    /\ mn' = [mn EXCEPT !.pc = "gone"]
    /\ child' = IF handle.pid /\ ~handle.exited THEN "reaped" ELSE child
    /\ handle' = [pid |-> FALSE, exited |-> FALSE]
    /\ UNCHANGED <<stopRequested, toChild, childRate, data, silent, transport, worker, source>>

MainStep ==
    \/ /\ SpawnFails \/ Spawn
       /\ UNCHANGED <<mode, profile, closing, cmds, keys, toChild, childRate, data, silent,
                      stopRequested, worker, pf>>
    \/ /\ Launch
       /\ UNCHANGED <<mode, profile, closing, cmds, keys, handle, far, transport,
                      stopRequested, source, pf>>
    \/ Loop
    \/ /\ LeaveLoop \/ Join \/ Close \/ Reap
       /\ UNCHANGED <<mode, profile, closing, cmds, keys, pf>>

-----------------------------------------------------------------------------
(* The source worker.                                                       *)

WorkerStops ==
    /\ worker.pc = "top" /\ stopRequested
    /\ worker' = [worker EXCEPT !.pc = "ended"]
    /\ UNCHANGED <<data, source>>

(* read_frame is called.  A source that is not started ends the stream.     *)
(* SyntheticSource takes its settings; when paused it returns no data.      *)
WorkerReads ==
    /\ worker.pc = "top" /\ ~stopRequested
    /\ worker' = IF ~source.started THEN [worker EXCEPT !.pc = "ended"]
                 ELSE IF mode = "embedded" /\ source.paused THEN worker
                 ELSE [pc |-> "read", rate |-> source.target]
    /\ UNCHANGED <<data, source>>

(* The generator makes its period buffers anew when the rate has changed. *)
Generate ==
    /\ worker.pc = "read" /\ mode = "embedded"
    /\ source' = IF worker.rate = source.cached THEN source
                 ELSE [source EXCEPT !.cached = worker.rate, !.generation = @ + 1]
    /\ worker' = [pc |-> "top", rate |-> 0]
    /\ UNCHANGED data

(* The end of the pipe is taken for a time without data. *)
MReceive ==
    /\ worker.pc = "read" /\ mode # "embedded"
    /\ \/ /\ data > 0
          /\ data' = data - 1
          /\ worker' = [pc |-> "top", rate |-> 0]
       \/ /\ mode = "udp" /\ transport = "closed"
          /\ worker' = [pc |-> "ended", rate |-> 0]
          /\ UNCHANGED data
    /\ UNCHANGED source

(* receive_frame returns a frame, or the end: of the pipe, or of a closed   *)
(* socket.                                                                  *)
Receive ==
    /\ worker.pc = "read" /\ mode # "embedded"
    /\ \/ /\ data > 0
          /\ data' = data - 1
          /\ worker' = [pc |-> "top", rate |-> 0]
       \/ /\ IF mode = "pipe" THEN data = 0 /\ child # "running" ELSE transport = "closed"
          /\ worker' = [pc |-> "ended", rate |-> 0]
          /\ UNCHANGED data
    /\ UNCHANGED source

WorkerStep ==
    /\ WorkerStops \/ WorkerReads \/ Generate \/ Receive
    /\ UNCHANGED <<mode, profile, mn, closing, cmds, keys, handle, child, toChild, childRate,
                   silent, transport, stopRequested, pf>>

-----------------------------------------------------------------------------
(* The far end: the child, or somebody who sends datagrams.                 *)

FarSends ==
    /\ mode # "embedded" /\ transport # "none" /\ ~silent /\ data < PipeFrames
    /\ mode = "pipe" => child = "running" /\ transport = "open"
    /\ data' = data + 1
    /\ UNCHANGED <<child, toChild, childRate, silent>>

(* Its source is paused, or nobody is there. *)
FarFallsSilent ==
    /\ mode # "embedded" /\ ~silent
    /\ silent' = TRUE
    /\ UNCHANGED <<child, toChild, childRate, data>>

(* The child takes a command, ends by itself or because of its pipe, or dies. *)
ChildCommand ==
    /\ child = "running" /\ toChild # <<>>
    /\ childRate' = Head(toChild) /\ toChild' = Tail(toChild)
    /\ UNCHANGED <<child, data, silent>>

ChildEnds ==
    /\ child = "running"
    /\ child' = "zombie" /\ toChild' = <<>>
    /\ UNCHANGED <<childRate, data, silent>>

FarStep ==
    /\ FarSends \/ FarFallsSilent \/ ChildCommand \/ ChildEnds
    /\ UNCHANGED <<mode, profile, mn, closing, cmds, keys, handle, transport, stopRequested,
                   worker, source, pf>>

Next == MainStep \/ WindowEvent \/ WorkerStep \/ FarStep

Spec == Init /\ [][Next]_vars

(* The threads run on; a far end that is not silent sends.  The user owes   *)
(* the viewer nothing: WindowEvent is not fair.                             *)
FairSpec ==
    /\ Spec
    /\ WF_vars(MainStep)
    /\ WF_vars(WorkerStep)
    /\ WF_vars(FarSends /\ FarStep)

-----------------------------------------------------------------------------
(* No thread is inside a transport whose consumer is gone: however the loop  *)
(* ends (window, key, profiler, exception), the pipe is closed under nobody, *)
(* and when main returns the worker has ended (main.cpp:235-244).            *)
NoUseAfterClose ==
    /\ worker.pc = "read" /\ mode = "pipe" => transport = "open"
    /\ mn.pc = "gone" => worker.pc \in {"off", "ended"}

(* The viewer leaves no grebe-sg behind: when it has ended, by any path, its *)
(* child does not run, and unless a signal ended it, it is no zombie either  *)
(* (process_handle.cpp:20-27).                                               *)
ChildIsReaped ==
    /\ mn.pc \in {"gone", "dead"} => child # "running"
    /\ mn.pc = "gone" => child # "zombie"

(* The verifiers look at buffers that exist.  They lose them in two ways     *)
(* only: a change of rate the source had not yet taken when they were set    *)
(* up, and one asked for after that and before the next scenario.  Nothing   *)
(* of an earlier scenario does it, no late source and no key of then: they   *)
(* are set up anew in each (profiler.cpp:137, :150).                         *)
VerifierUsesLiveBuffer ==
    mode = "embedded" /\ pf.ready /\ pf.settled => pf.generation = source.generation

(* Every wait for an event of the window ends. *)
EventsCome == []<>(mn.pc # "wait")

(* Once the window is to close, the process ends, as long as the far end     *)
(* sends or is gone and no minimised window is left waiting: a pass that has *)
(* taken the close or the quit itself may still wait for one more event      *)
(* (app_loop.cpp:196-200, :224).                                             *)
QuitEnds ==
    EventsCome => (closing ~> mn.pc \in {"gone", "dead"} \/ silent)

(* ... and with a far end that is silent too: closing the transport brings a *)
(* blocking receive_frame back (main.cpp:241, udp_transport.cpp:276).        *)
QuitAlwaysEnds ==
    EventsCome => (closing ~> mn.pc \in {"gone", "dead"})

=============================================================================
