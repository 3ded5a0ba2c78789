----------------------------- MODULE ViewerProofs -----------------------------
(***************************************************************************)
(* Proofs about the start and the end of grebe-viewer, for every kind of   *)
(* source, any rates, scenarios, number of frames on their way and keys.   *)
(*                                                                         *)
(* That nobody is in a transport whose consumer is gone rests on the order *)
(* of the clean-up: from "launch" to "join" the consumer is there          *)
(* (ConsumerIsThere), and from "close" on the worker is not (WorkerIsOver).*)
(* That no child stays rests on the ProcessHandle knowing of every child   *)
(* it has not waited for (ChildIsKnown).                                   *)
(*                                                                         *)
(* That the verifiers point into buffers that exist, where no change of    *)
(* rate is to come, rests on a settled source having nothing new to take   *)
(* (SettledIsTaken), and on the set-up being done once in a scenario       *)
(* (SettledIsReady).                                                       *)
(***************************************************************************)
EXTENDS Viewer, TLAPS

MainPlaces ==
    {"spawn", "launch", "loop", "pass", "wait", "join", "close", "reap", "gone", "dead"}

ViewerTypeOK ==
    /\ mn \in [pc : MainPlaces, clean : BOOLEAN]
    /\ worker.pc \in {"off", "top", "read", "ended"}
    /\ worker = [pc |-> worker.pc, rate |-> worker.rate]
    /\ handle \in [pid : BOOLEAN, exited : BOOLEAN]
    /\ child \in {"none", "running", "zombie", "reaped"}

ConsumerIsThere ==
    mode = "pipe" /\ mn.pc \in {"launch", "loop", "pass", "wait", "join", "dead"} =>
        transport = "open"

WorkerIsOver ==
    /\ mn.pc \in {"spawn", "launch"} => worker.pc = "off"
    /\ mn.pc \in {"close", "reap", "gone"} => worker.pc \in {"off", "ended"}

(* is_alive() is not called while the child may run, so exited_ stays unset. *)
ChildIsKnown ==
    /\ ~handle.exited
    /\ child \in {"running", "zombie"} => handle.pid
    /\ mn.pc = "spawn" => child = "none"

ViewerInv ==
    ViewerTypeOK /\ ConsumerIsThere /\ WorkerIsOver /\ ChildIsKnown /\ ChildIsReaped

-----------------------------------------------------------------------------
LEMMA InitViewerInv == Init => ViewerInv
  BY DEF Init, ViewerInv, ViewerTypeOK, MainPlaces, ConsumerIsThere, WorkerIsOver,
         ChildIsKnown, ChildIsReaped

(* Start-up: a transport and a child, or neither, before there is a worker. *)
LEMMA StartUpKeeps ==
    ASSUME ViewerInv, UNCHANGED <<mode>>,
           \/ (SpawnFails \/ Spawn) /\ UNCHANGED worker
           \/ Launch /\ UNCHANGED <<handle, child, transport>>
    PROVE  ViewerInv'
<1> USE DEF ViewerInv, ViewerTypeOK, MainPlaces, ConsumerIsThere, WorkerIsOver,
            ChildIsKnown, ChildIsReaped
<1>1. CASE SpawnFails /\ UNCHANGED worker
  BY <1>1 DEF SpawnFails
<1>2. CASE Spawn /\ UNCHANGED worker
  <2>1. /\ mn.pc = "spawn" /\ mn' = [mn EXCEPT !.pc = "launch"]
        /\ child' = (IF mode = "pipe" THEN "running" ELSE "none")
        /\ handle' = [handle EXCEPT !.pid = (mode = "pipe")]
        /\ transport' = (IF mode = "embedded" THEN "none" ELSE "open")
        /\ worker' = worker
    BY <1>2 DEF Spawn
  <2>2. mn'.pc = "launch" /\ mn' \in [pc : MainPlaces, clean : BOOLEAN]
    BY <2>1
  <2>3. handle' \in [pid : BOOLEAN, exited : BOOLEAN] /\ ~handle'.exited
    BY <2>1
  <2>4. child' = "running" => handle'.pid
    BY <2>1
  <2>5. QED
    BY <2>1, <2>2, <2>3, <2>4
<1>3. CASE Launch /\ UNCHANGED <<handle, child, transport>>
  BY <1>3 DEF Launch
<1>4. QED
  BY <1>1, <1>2, <1>3

(* A pass of the loop goes on, or waits, or goes to the clean-up, or dies of *)
(* a write to a child that has gone.                                        *)
LEMMA LoopKeeps ==
    ASSUME ViewerInv, Loop
    PROVE  ViewerInv'
<1>1. /\ mode' = mode /\ handle' = handle /\ child' = child
      /\ transport' = transport /\ worker' = worker
  BY DEF Loop
<1>2. /\ mn.pc \in {"loop", "pass"}
      /\ mn' \in [pc : MainPlaces, clean : BOOLEAN]
      /\ mn'.pc \in {"loop", "pass", "wait", "join", "dead"}
      /\ mn'.pc = "dead" => child # "running"
  <2> USE DEF ViewerInv, ViewerTypeOK, MainPlaces
  <2>1. CASE Poll
    BY <2>1 DEF Poll
  <2>2. CASE TakeCommand
    <3>1. mn.pc = "pass"
      BY <2>2 DEF TakeCommand
    <3>2. \/ child # "running" /\ mn' = [mn EXCEPT !.pc = "dead"]
          \/ mn' = mn
      BY <2>2 DEF TakeCommand
    <3>3. QED
      BY <3>1, <3>2
  <2>3. CASE Frame
    BY <2>3 DEF Frame
  <2>4. CASE Skip
    BY <2>4 DEF Skip
  <2>5. CASE Minimised
    BY <2>5 DEF Minimised
  <2>6. CASE Throws
    BY <2>6 DEF Throws
  <2>7. QED
    BY <2>1, <2>2, <2>3, <2>4, <2>5, <2>6 DEF Loop
<1>3. QED
  BY <1>1, <1>2 DEF ViewerInv, ViewerTypeOK, ConsumerIsThere, WorkerIsOver,
                    ChildIsKnown, ChildIsReaped

(* A wait ends in the loop again.                                           *)
LEMMA WindowEventKeeps ==
    ASSUME ViewerInv, WindowEvent
    PROVE  ViewerInv'
<1>1. /\ mn.pc = "wait" /\ mn' = [mn EXCEPT !.pc = "loop"] /\ mode' = mode
      /\ handle' = handle /\ child' = child /\ transport' = transport /\ worker' = worker
  BY DEF WindowEvent, far
<1>2. QED
  BY <1>1 DEF ViewerInv, ViewerTypeOK, MainPlaces, ConsumerIsThere, WorkerIsOver,
              ChildIsKnown, ChildIsReaped

(* The clean-up: joined before the consumer goes, and the child waited for.  *)
LEMMA CleanUpKeeps ==
    ASSUME ViewerInv, mode' = mode, LeaveLoop \/ Join \/ Close \/ Reap
    PROVE  ViewerInv'
<1> USE DEF ViewerInv, ViewerTypeOK, MainPlaces, ConsumerIsThere, WorkerIsOver,
            ChildIsKnown, ChildIsReaped
<1>1. CASE LeaveLoop
  BY <1>1 DEF LeaveLoop, far
<1>2. CASE Join
  BY <1>2 DEF Join, far
<1>3. CASE Close
  BY <1>3 DEF Close, far
<1>4. CASE Reap
  BY <1>4 DEF Reap
<1>5. QED
  BY <1>1, <1>2, <1>3, <1>4

(* The worker moves only between its own places, and has none of them before *)
(* the start and after the join.                                            *)
LEMMA WorkerKeeps ==
    ASSUME ViewerInv, WorkerStep
    PROVE  ViewerInv'
<1>1. /\ mode' = mode /\ mn' = mn /\ handle' = handle /\ child' = child
      /\ transport' = transport
  BY DEF WorkerStep
<1>2. /\ worker.pc \in {"top", "read"}
      /\ worker'.pc \in {"top", "read", "ended"}
      /\ worker' = [pc |-> worker'.pc, rate |-> worker'.rate]
  <2> USE DEF ViewerInv, ViewerTypeOK
  <2>1. CASE WorkerStops
    BY <2>1 DEF WorkerStops
  <2>2. CASE WorkerReads
    BY <2>2 DEF WorkerReads
  <2>3. CASE Generate
    BY <2>3 DEF Generate
  <2>4. CASE Receive
    BY <2>4 DEF Receive
  <2>5. QED
    BY <2>1, <2>2, <2>3, <2>4 DEF WorkerStep
<1>3. QED
  BY <1>1, <1>2 DEF ViewerInv, ViewerTypeOK, MainPlaces, ConsumerIsThere, WorkerIsOver,
                    ChildIsKnown, ChildIsReaped

(* A child that ends is a zombie until it is waited for; it does so only     *)
(* while the handle knows of it.                                            *)
LEMMA FarKeeps ==
    ASSUME ViewerInv, FarStep
    PROVE  ViewerInv'
<1>1. /\ mode' = mode /\ mn' = mn /\ handle' = handle
      /\ transport' = transport /\ worker' = worker
  BY DEF FarStep
<1>2. child' = child \/ (child = "running" /\ child' = "zombie")
  BY DEF FarStep, FarSends, FarFallsSilent, ChildCommand, ChildEnds
<1>3. QED
  BY <1>1, <1>2 DEF ViewerInv, ViewerTypeOK, ConsumerIsThere, WorkerIsOver,
                    ChildIsKnown, ChildIsReaped

LEMMA NextKeepsViewerInv ==
    ASSUME ViewerInv, [Next]_vars
    PROVE  ViewerInv'
<1>1. CASE MainStep
  <2>1. \/ UNCHANGED <<mode>> /\ (SpawnFails \/ Spawn) /\ UNCHANGED worker
        \/ UNCHANGED <<mode>> /\ Launch /\ UNCHANGED <<handle, child, transport>>
        \/ Loop
        \/ mode' = mode /\ (LeaveLoop \/ Join \/ Close \/ Reap)
    BY <1>1 DEF MainStep, far
  <2>2. QED
    BY <2>1, StartUpKeeps, LoopKeeps, CleanUpKeeps
<1>2. CASE WorkerStep
  BY <1>2, WorkerKeeps
<1>3. CASE FarStep
  BY <1>3, FarKeeps
<1>4. CASE WindowEvent
  BY <1>4, WindowEventKeeps
<1>5. CASE UNCHANGED vars
  BY <1>5 DEF vars, far, ViewerInv, ViewerTypeOK, ConsumerIsThere, WorkerIsOver,
              ChildIsKnown, ChildIsReaped
<1>6. QED
  BY <1>1, <1>2, <1>3, <1>4, <1>5 DEF Next

(* Through start-up, loop, clean-up and every way out of them the transport,  *)
(* the worker, the handle and the child keep in step (ViewerInv).            *)
THEOREM ViewerInvariant == Spec => []ViewerInv
<1>1. Init => ViewerInv
  BY InitViewerInv
<1>2. ViewerInv /\ [Next]_vars => ViewerInv'
  BY NextKeepsViewerInv
<1>3. QED
  BY <1>1, <1>2, PTL DEF Spec

(* No worker is inside a pipe's consumer that is destroyed, and none is left  *)
(* when main returns (main.cpp: runtime.stop() before the consumer's reset).  *)
THEOREM NeverUsedAfterClose == Spec => []NoUseAfterClose
<1>1. ViewerInv => NoUseAfterClose
  BY DEF ViewerInv, ViewerTypeOK, MainPlaces, ConsumerIsThere, WorkerIsOver, NoUseAfterClose
<1>2. QED
  BY <1>1, ViewerInvariant, PTL

(* When the viewer has ended its grebe-sg does not run, and is waited for     *)
(* unless a signal ended the viewer (~ProcessHandle).                        *)
THEOREM ChildAlwaysReaped == Spec => []ChildIsReaped
<1>1. ViewerInv => ChildIsReaped
  BY DEF ViewerInv
<1>2. QED
  BY <1>1, ViewerInvariant, PTL


-----------------------------------------------------------------------------
(* That the verifiers' pointers stay good rests on three facts: the source    *)
(* has nothing new to take while they count as settled, so Generate keeps its *)
(* buffers; they count as settled only when they are set up; and they are set *)
(* up once in a scenario, at SettleFrames.                                    *)
Shapes ==
    /\ source = [started |-> source.started, target |-> source.target,
                 cached |-> source.cached, generation |-> source.generation,
                 paused |-> source.paused]
    /\ pf = [scenario |-> pf.scenario, started |-> pf.started, frame |-> pf.frame,
             ready |-> pf.ready, generation |-> pf.generation, settled |-> pf.settled,
             finished |-> pf.finished]
    /\ pf.frame \in Nat

SettledIsTaken == mode = "embedded" /\ pf.settled => Settled

SettledIsReady ==
    /\ pf.settled => pf.ready
    /\ pf.ready /\ pf.started => pf.frame > SettleFrames

LiveInv ==
    ViewerTypeOK /\ Shapes /\ SettledIsTaken /\ SettledIsReady /\ VerifierUsesLiveBuffer

LEMMA InitLiveInv == Init => LiveInv
  BY DEF Init, LiveInv, ViewerTypeOK, MainPlaces, Shapes, SettledIsTaken, SettledIsReady,
         VerifierUsesLiveBuffer

(* A step that leaves the profiler, and what the source has to take, alone.   *)
LEMMA QuietKeepsLive ==
    ASSUME LiveInv, ViewerTypeOK', mode' = mode, pf' = pf,
           source' = [source EXCEPT !.started = source'.started], worker'.pc = "read" => worker' = worker
    PROVE  LiveInv'
<1>1. /\ source'.target = source.target /\ source'.cached = source.cached
      /\ source'.generation = source.generation /\ source'.paused = source.paused
      /\ source' = [started |-> source'.started, target |-> source'.target,
                    cached |-> source'.cached, generation |-> source'.generation,
                    paused |-> source'.paused]
  BY DEF LiveInv, Shapes
<1>2. QED
  BY <1>1 DEF LiveInv, Shapes, SettledIsTaken, Settled, SettledIsReady,
              VerifierUsesLiveBuffer

(* A pause does not touch the buffers, and another rate unsettles the         *)
(* verifiers.                                                                 *)
LEMMA CommandKeepsLive ==
    ASSUME LiveInv, ViewerTypeOK', mode' = mode, worker' = worker, TakeCommand
    PROVE  LiveInv'
<1> DEFINE c == Head(cmds)
<1>1. /\ pf' = [pf EXCEPT !.settled = @ /\ ~(c.type = "rate" /\ c.rate # source.target)]
      /\ source' = IF mode # "embedded" THEN source
                   ELSE CASE c.type = "rate" -> [source EXCEPT !.target = c.rate]
                          [] c.type = "pause" -> [source EXCEPT !.paused = ~@]
                          [] OTHER -> source
  BY DEF TakeCommand
<1> HIDE DEF c
<1>2. /\ pf'.started = pf.started /\ pf'.frame = pf.frame /\ pf'.ready = pf.ready
      /\ pf'.generation = pf.generation
      /\ pf'.settled => pf.settled /\ (c.type = "rate" => c.rate = source.target)
      /\ pf' = [scenario |-> pf'.scenario, started |-> pf'.started, frame |-> pf'.frame,
                ready |-> pf'.ready, generation |-> pf'.generation, settled |-> pf'.settled,
                finished |-> pf'.finished]
  BY <1>1 DEF LiveInv, Shapes
<1>3. /\ source'.generation = source.generation /\ source'.cached = source.cached
      /\ mode = "embedded" /\ (c.type = "rate" => c.rate = source.target)
            => source'.target = source.target
      /\ source' = [started |-> source'.started, target |-> source'.target,
                    cached |-> source'.cached, generation |-> source'.generation,
                    paused |-> source'.paused]
  <2>1. CASE mode # "embedded"
    BY <1>1, <2>1 DEF LiveInv, Shapes
  <2>2. CASE mode = "embedded" /\ c.type = "rate"
    <3>1. source' = [source EXCEPT !.target = c.rate]
      BY <1>1, <2>2
    <3>2. QED
      BY <2>2, <3>1 DEF LiveInv, Shapes
  <2>3. CASE mode = "embedded" /\ c.type = "pause"
    <3>1. source' = [source EXCEPT !.paused = ~@]
      BY <1>1, <2>3
    <3>2. QED
      BY <2>3, <3>1 DEF LiveInv, Shapes
  <2>4. CASE mode = "embedded" /\ c.type \notin {"rate", "pause"}
    <3>1. source' = source
      BY <1>1, <2>4
    <3>2. QED
      BY <2>4, <3>1 DEF LiveInv, Shapes
  <2>5. QED
    BY <2>1, <2>2, <2>3, <2>4
<1>4. QED
  BY <1>2, <1>3 DEF LiveInv, Shapes, SettledIsTaken, Settled, SettledIsReady,
                    VerifierUsesLiveBuffer

(* A frame of the profiler: the verifiers are forgotten when a scenario       *)
(* begins, and set up, on the buffers of now, at SettleFrames.                *)
LEMMA FrameKeepsLive ==
    ASSUME LiveInv, ViewerTypeOK', mode' = mode, worker' = worker, Frame
    PROVE  LiveInv'
<1> DEFINE p == Begun(pf)
           v == Verified(p)
           q == [v EXCEPT !.frame = @ + 1]
<1>1. source' = source /\ pf' = IF q.frame < ScenarioFrames THEN q
                                ELSE [q EXCEPT !.scenario = @ + 1, !.started = FALSE,
                                               !.finished = q.scenario = Len(Scenarios)]
  BY DEF Frame, OnFrame
<1>2. /\ p = [scenario |-> p.scenario, started |-> p.started, frame |-> p.frame,
              ready |-> p.ready, generation |-> p.generation, settled |-> p.settled,
              finished |-> p.finished]
      /\ p.frame \in Nat
      /\ p.settled => pf.settled /\ pf.ready /\ p.ready
      /\ p.ready => pf.ready /\ p.frame > SettleFrames
      /\ p.generation = pf.generation
  <2>1. CASE pf.started
    BY <2>1 DEF Begun, LiveInv, Shapes, SettledIsReady
  <2>2. CASE ~pf.started
    BY <2>2 DEF Begun, LiveInv, Shapes
  <2>3. QED
    BY <2>1, <2>2
<1> HIDE DEF p
<1>s. SettleFrames \in Nat
  BY ViewerAssumption
<1>3. /\ v = [scenario |-> v.scenario, started |-> v.started, frame |-> v.frame,
              ready |-> v.ready, generation |-> v.generation, settled |-> v.settled,
              finished |-> v.finished]
      /\ v.frame = p.frame
      /\ v.ready => v.frame >= SettleFrames
      /\ v.settled => v.ready /\ (mode = "embedded" => Settled /\ v.generation = source.generation)
  <2>1. CASE p.frame = SettleFrames
    <3>1. ~p.ready
      BY <1>2, <1>s, <2>1
    <3>2. v = [[p EXCEPT !.settled = Settled]
                  EXCEPT !.ready = TRUE, !.generation = source.generation]
      BY <1>s, <2>1, <3>1 DEF Verified
    <3>3. v.settled => Settled
      BY <1>2, <3>2
    <3>4. PICK b : b = Settled
      OBVIOUS
    <3>5. v = [scenario |-> p.scenario, started |-> p.started, frame |-> p.frame,
               ready |-> TRUE, generation |-> source.generation, settled |-> b,
               finished |-> p.finished]
      BY <1>2, <3>2, <3>4
    <3>6. /\ v = [scenario |-> v.scenario, started |-> v.started, frame |-> v.frame,
                  ready |-> v.ready, generation |-> v.generation, settled |-> v.settled,
                  finished |-> v.finished]
          /\ v.frame = p.frame /\ v.ready /\ v.generation = source.generation
      BY ONLY <3>5
    <3>7. QED
      BY <1>2, <1>s, <2>1, <3>3, <3>6
  <2>2. CASE p.frame # SettleFrames /\ (p.ready \/ p.frame < SettleFrames)
    <3>1. v = [p EXCEPT !.settled = @]
      BY <2>2 DEF Verified
    <3>2. v = p
      BY <1>2, <3>1
    <3>3. v.settled => (mode = "embedded" => Settled /\ v.generation = source.generation)
      BY <1>2, <3>2 DEF LiveInv, SettledIsTaken, VerifierUsesLiveBuffer
    <3>4. QED
      BY <1>2, <1>s, <3>2, <3>3
  <2>3. CASE p.frame # SettleFrames /\ ~p.ready /\ ~(p.frame < SettleFrames)
    <3>1. v = [[p EXCEPT !.settled = @] EXCEPT !.ready = TRUE, !.generation = source.generation]
      BY <2>3 DEF Verified
    <3>2. v = [scenario |-> p.scenario, started |-> p.started, frame |-> p.frame,
               ready |-> TRUE, generation |-> source.generation, settled |-> p.settled,
               finished |-> p.finished]
      BY <1>2, <3>1
    <3>3. /\ v = [scenario |-> v.scenario, started |-> v.started, frame |-> v.frame,
                  ready |-> v.ready, generation |-> v.generation, settled |-> v.settled,
                  finished |-> v.finished]
          /\ v.frame = p.frame /\ v.ready /\ v.settled = p.settled
      BY ONLY <3>2
    <3>4. ~p.settled /\ v.frame >= SettleFrames
      BY <1>2, <1>s, <2>3, <3>3
    <3>5. QED
      BY <3>3, <3>4
  <2>4. QED
    BY <2>1, <2>2, <2>3
<1> HIDE DEF v
<1>4. /\ pf' = [scenario |-> pf'.scenario, started |-> pf'.started, frame |-> pf'.frame,
                ready |-> pf'.ready, generation |-> pf'.generation, settled |-> pf'.settled,
                finished |-> pf'.finished]
      /\ pf'.frame = v.frame + 1 /\ pf'.ready = v.ready
      /\ pf'.settled = v.settled /\ pf'.generation = v.generation
  <2>1. CASE q.frame < ScenarioFrames
    BY <1>1, <1>3, <2>1
  <2>2. CASE ~(q.frame < ScenarioFrames)
    BY <1>1, <1>3, <2>2
  <2>3. QED
    BY <2>1, <2>2
<1>5. pf'.frame \in Nat /\ (pf'.ready => pf'.frame > SettleFrames)
  BY <1>2, <1>3, <1>4, <1>s
<1>6. Shapes'
  BY <1>1, <1>4, <1>5 DEF LiveInv, Shapes
<1>7. QED
  BY <1>1, <1>3, <1>4, <1>5, <1>6 DEF LiveInv, SettledIsTaken, Settled,
                                      SettledIsReady, VerifierUsesLiveBuffer

(* The worker takes the rate that is asked for, and makes its buffers anew    *)
(* only for another one.                                                      *)
LEMMA WorkerKeepsLive ==
    ASSUME LiveInv, ViewerTypeOK', WorkerStep
    PROVE  LiveInv'
<1>1. mode' = mode /\ pf' = pf
  BY DEF WorkerStep
<1>2. CASE WorkerStops
  BY <1>1, <1>2, QuietKeepsLive DEF WorkerStops, LiveInv, Shapes, ViewerTypeOK
<1>3. CASE WorkerReads
  <2>1. source' = source /\ (worker'.pc = "read" => worker' = worker \/ worker'.rate = source.target)
    BY <1>3 DEF WorkerReads, LiveInv, ViewerTypeOK
  <2>2. QED
    BY <1>1, <2>1 DEF LiveInv, Shapes, SettledIsTaken, Settled, SettledIsReady,
                      VerifierUsesLiveBuffer
<1>4. CASE Generate
  <2>1. worker'.pc = "top" /\ mode = "embedded"
    BY <1>4 DEF Generate
  <2>2. CASE pf.settled
    <3>1. worker.rate = source.cached
      BY <1>4, <2>1, <2>2 DEF Generate, LiveInv, SettledIsTaken, Settled
    <3>2. source' = source
      BY <1>4, <3>1 DEF Generate
    <3>3. QED
      BY <1>1, <2>1, <3>2 DEF LiveInv, Shapes, SettledIsTaken, Settled, SettledIsReady,
                              VerifierUsesLiveBuffer
  <2>3. CASE ~pf.settled
    <3>1. source' = source \/ source' = [source EXCEPT !.cached = worker.rate,
                                                       !.generation = @ + 1]
      BY <1>4 DEF Generate
    <3>2. Shapes'
      BY <1>1, <3>1 DEF LiveInv, Shapes
    <3>3. QED
      BY <1>1, <2>3, <3>2 DEF LiveInv, SettledIsTaken, SettledIsReady, VerifierUsesLiveBuffer
  <2>4. QED
    BY <2>2, <2>3
<1>5. CASE Receive
  <2>1. source' = source /\ worker'.pc # "read"
    BY <1>5 DEF Receive
  <2>2. QED
    BY <1>1, <2>1 DEF LiveInv, Shapes, SettledIsTaken, Settled, SettledIsReady,
                      VerifierUsesLiveBuffer
<1>6. QED
  BY <1>2, <1>3, <1>4, <1>5 DEF WorkerStep

LEMMA NextKeepsLiveInv ==
    ASSUME ViewerInv, ViewerInv', LiveInv, [Next]_vars
    PROVE  LiveInv'
<1>1. ViewerTypeOK /\ ViewerTypeOK'
  BY DEF ViewerInv
<1>s. source = [source EXCEPT !.started = source.started]
  BY DEF LiveInv, Shapes
<1>2. CASE MainStep
  <2>1. CASE SpawnFails \/ Spawn
    <3>1. mode' = mode /\ pf' = pf /\ worker' = worker
      BY <1>2, <2>1 DEF MainStep, SpawnFails, Spawn, Launch, Loop, Poll, TakeCommand, Frame, Skip,
                        Minimised, Throws, LeaveLoop, Join, Close, Reap
    <3>2. source' = source \/ source' = [source EXCEPT !.started = TRUE]
      BY <2>1 DEF SpawnFails, Spawn
    <3>3. source' = [source EXCEPT !.started = source'.started]
      BY <1>s, <3>2 DEF LiveInv, Shapes
    <3>4. QED
      BY <1>1, <3>1, <3>3, QuietKeepsLive
  <2>2. CASE Launch /\ UNCHANGED <<mode, source, pf>>
    <3>1. worker'.pc # "read"
      BY <2>2 DEF Launch, LiveInv, ViewerTypeOK
    <3>2. QED
      BY <1>1, <1>s, <2>2, <3>1, QuietKeepsLive
  <2>3. CASE Loop
    <3>1. mode' = mode /\ worker' = worker
      BY <2>3 DEF Loop
    <3>2. CASE TakeCommand
      BY <1>1, <3>1, <3>2, CommandKeepsLive
    <3>3. CASE Frame
      BY <1>1, <3>1, <3>3, FrameKeepsLive
    <3>4. CASE Poll \/ Skip \/ Minimised \/ Throws
      <4>1. source' = source /\ pf' = pf
        BY <3>4 DEF Poll, Skip, Minimised, Throws
      <4>2. QED
        BY <1>1, <1>s, <3>1, <4>1, QuietKeepsLive
    <3>5. QED
      BY <2>3, <3>2, <3>3, <3>4 DEF Loop
  <2>4. CASE (LeaveLoop \/ Join \/ Close \/ Reap) /\ UNCHANGED <<mode, pf>>
    <3>1. worker' = worker
      BY <2>4 DEF LeaveLoop, Join, Close, Reap
    <3>2. source' = source \/ source' = [source EXCEPT !.started = FALSE]
      BY <2>4 DEF LeaveLoop, Join, Close, Reap
    <3>3. source' = [source EXCEPT !.started = source'.started]
      BY <1>s, <3>2 DEF LiveInv, Shapes
    <3>4. QED
      BY <1>1, <2>4, <3>1, <3>3, QuietKeepsLive
  <2>5. QED
    BY <1>2, <2>1, <2>2, <2>3, <2>4 DEF MainStep
<1>3. CASE WorkerStep
  BY <1>1, <1>3, WorkerKeepsLive
<1>4. CASE FarStep \/ WindowEvent \/ UNCHANGED vars
  <2>1. mode' = mode /\ pf' = pf /\ source' = source /\ worker' = worker
    BY <1>4 DEF FarStep, WindowEvent, vars
  <2>2. QED
    BY <1>1, <1>s, <2>1, QuietKeepsLive
<1>5. QED
  BY <1>2, <1>3, <1>4 DEF Next

(* Only a change of rate that is outstanding when the verifiers are set up,   *)
(* or asked for later in their scenario, makes them look into period buffers  *)
(* the generator has replaced; what was late or pressed in an earlier         *)
(* scenario does not (profiler.cpp, on_frame and init_envelope_verifiers).    *)
THEOREM BuffersStayLive == Spec => []VerifierUsesLiveBuffer
<1>1. Init => LiveInv
  BY InitLiveInv
<1>2. ViewerInv /\ ViewerInv' /\ LiveInv /\ [Next]_vars => LiveInv'
  BY NextKeepsLiveInv
<1>3. LiveInv => VerifierUsesLiveBuffer
  BY DEF LiveInv
<1>4. QED
  BY <1>1, <1>2, <1>3, ViewerInvariant, PTL DEF Spec

=============================================================================
