--------------------------------- MODULE Link ---------------------------------
(***************************************************************************)
(* A sender, a transport of either kind, and the IngestionThread that      *)
(* receives through a TransportSource and fills one ring per channel       *)
(* (src/ingestion_thread.cpp, apps/viewer/transport_source.cpp).  The      *)
(* sender is the sender thread of grebe-sg (apps/sg/sg_main.cpp) or the    *)
(* loop of the throughput benchmark (apps/bench/bench_udp.cpp), which goes *)
(* on after an error and flushes only at its end.                          *)
(*                                                                         *)
(* A frame carries Block samples of each channel; a sample is its index    *)
(* in the sender's stream, first_sample_index and its place added.         *)
(***************************************************************************)
EXTENDS PipeTransport, UdpTransport

CONSTANTS
    Setups,          \* which transport joins which sender, with what sockets
    Block,           \* block_length_samples, the same for all frames
    RingCapacity,    \* what a ring holds: its slots less one
    MaxFrames        \* bound: calls of send_frame, for each kind of transport

ASSUME LinkAssumption ==
    /\ \A s \in Setups : s[2] = "bench" => s[1] = "udp"
    /\ Block \in Nat \ {0} /\ RingCapacity \in Nat \ {0}
    /\ MaxFrames \in [{"pipe", "udp"} -> Nat]

VARIABLES
    driver,          \* which sender this is: "sg" or "bench"
    snd,             \* the sender: its state, and the sequence number it is at
    ing,             \* the ingestion thread: its state and its locals
    ring,            \* per channel: the samples in its ring
    pushed, dropped, \* per channel: its DropCounter
    gaps,            \* sequence_gaps_
    stopRequested    \* stop_requested_ of the thread

samples == <<ring, pushed, dropped>>
ingesting == <<ing, samples, gaps>>
vars == <<kind, calls, histories, pipeVars, udpVars, driver, snd, ingesting, stopRequested>>

Channels == 1..NumChannels

Init ==
    /\ TransportInit /\ PipeInit /\ UdpInit
    /\ driver \in {"sg", "bench"} /\ <<kind, driver, sockets>> \in Setups
    /\ snd = [pc |-> "loop", next |-> 0]
    /\ ing = [pc |-> "off", ch |-> 1, n |-> 0, expected |-> 0]
    /\ ring = [c \in Channels |-> <<>>]
    /\ pushed = [c \in Channels |-> 0] /\ dropped = pushed
    /\ gaps = 0
    /\ stopRequested = FALSE

-----------------------------------------------------------------------------
(* The sender.                                                              *)

SenderCalls ==
    /\ snd.pc = "loop" /\ Len(sent) < MaxFrames[kind]
    /\ CallSend(snd.next)
    /\ snd' = [snd EXCEPT !.pc = "sending"]
    /\ UNCHANGED <<rx, got, pipeVars, udpVars>>

(* A quit, a signal or the benchmark's deadline ends the loop.  What is     *)
(* still in a batch is flushed, by the benchmark or the destructor.         *)
Leaving == IF batch = <<>> THEN "exit" ELSE "flush"

SenderLeaves ==
    /\ snd.pc = "loop"
    /\ snd' = [snd EXCEPT !.pc = Leaving]
    /\ UNCHANGED <<calls, histories, pipeVars, udpVars>>

(* grebe-sg ends on an error.  Its flush() after every frame finds no batch *)
(* to send, for it sets no burst size.                                      *)
SenderReturned ==
    /\ snd.pc = "sending" /\ tx.pc \in {"true", "false"}
    /\ tx' = [tx EXCEPT !.pc = "idle"]
    /\ snd' = [pc |-> IF tx.pc = "true" \/ driver = "bench" THEN "loop" ELSE Leaving,
               next |-> IF tx.pc = "true" THEN snd.next + 1 ELSE snd.next]
    /\ UNCHANGED <<rx, histories, pipeVars, udpVars>>

SenderFlushes ==
    /\ snd.pc = "flush"
    /\ UdpFlush
    /\ snd' = [snd EXCEPT !.pc = "flushing"]
    /\ UNCHANGED <<rx, histories, pipeVars, sockets, consumerVars, closed, bound, faults>>

SenderFlushed ==
    /\ snd.pc = "flushing" /\ tx.pc = "true"
    /\ tx' = [tx EXCEPT !.pc = "idle"]
    /\ snd' = [snd EXCEPT !.pc = "exit"]
    /\ UNCHANGED <<rx, histories, pipeVars, udpVars>>

(* The process ends, and with it its end of the pipe. *)
Gone ==
    /\ snd' = [snd EXCEPT !.pc = "gone"]
    /\ writeOpen' = (kind = "udp")
    /\ UNCHANGED <<calls, histories, pipe, readOpen, udpVars>>

(* It leaves by itself, or in a write to a pipe that has no reader. *)
SenderEnds ==
    /\ snd.pc # "gone" /\ (snd.pc = "exit" \/ PipeBroken)
    /\ Gone

SenderStep ==
    /\ \/ SenderCalls
       \/ SenderLeaves
       \/ SenderReturned
       \/ SenderFlushes
       \/ SenderFlushed
       \/ SenderEnds
       \/ snd.pc # "gone" /\ PipeWrite /\ UNCHANGED <<sent, udpVars, snd>>
       \/ snd.pc # "gone" /\ UdpProduce /\ UNCHANGED <<sent, pipeVars, snd>>
    /\ UNCHANGED <<kind, driver, ingesting, stopRequested>>

(* It is killed, at any point of a frame.  Nobody can tell a sender that    *)
(* has lost its socket from one that has nothing to send.                   *)
SenderKilled ==
    /\ kind = "pipe" /\ snd.pc # "gone"
    /\ Gone
    /\ UNCHANGED <<kind, driver, ingesting, stopRequested>>

-----------------------------------------------------------------------------
(* The ingestion thread.                                                    *)

Start ==
    /\ ing.pc = "off"
    /\ ing' = [ing EXCEPT !.pc = "loop"]
    /\ UNCHANGED <<calls, got, pipeVars, udpVars, samples, gaps>>

(* The loop's test, and read_frame up to its call of the transport. *)
Read ==
    /\ ing.pc = "loop" /\ ~stopRequested
    /\ CallReceive
    /\ ing' = [ing EXCEPT !.pc = "read"]
    /\ UNCHANGED <<tx, got, pipeVars, udpVars, samples, gaps>>

Leave ==
    /\ ing.pc = "loop" /\ stopRequested
    /\ ing' = [ing EXCEPT !.pc = "ended"]
    /\ UNCHANGED <<calls, got, pipeVars, udpVars, samples, gaps>>

(* A transport that is closed is the end of the stream. *)
ReadEnds ==
    /\ ing.pc = "read" /\ rx.pc = "false"
    /\ ing' = [ing EXCEPT !.pc = "ended"]
    /\ rx' = [rx EXCEPT !.pc = "idle"]
    /\ UNCHANGED <<tx, got, pipeVars, udpVars, samples, gaps>>

(* The first frame after the gap taken for a missing one less. *)
MGap(seq) ==
    IF ing.expected = 0 \/ seq = ing.expected THEN 0
    ELSE IF seq > ing.expected THEN seq - ing.expected - 1 ELSE 1

(* What the thread makes of a sequence number that is not the expected one. *)
Gap(seq) ==
    IF ing.expected = 0 \/ seq = ing.expected THEN 0
    ELSE IF seq > ing.expected THEN seq - ing.expected ELSE 1

(* A frame: the sequence number is compared with the one expected. *)
Account ==
    /\ ing.pc = "read" /\ rx.pc = "true"
    /\ gaps' = gaps + Gap(SequenceOf(rx.frame))
    /\ ing' = [ing EXCEPT !.pc = IF HasPayload(rx.frame) THEN "push" ELSE "loop",
                          !.ch = 1, !.expected = SequenceOf(rx.frame) + 1]
    /\ rx' = IF HasPayload(rx.frame) THEN rx ELSE [pc |-> "idle", frame |-> <<>>]
    /\ UNCHANGED <<tx, got, pipeVars, udpVars, samples>>

(* push_bulk to the next channel's ring: what fits. *)
PushBulk ==
    LET c == ing.ch
        free == RingCapacity - Len(ring[c])
        n == IF Block <= free THEN Block ELSE free
    IN /\ ing.pc = "push"
       /\ ring' = [ring EXCEPT ![c] =
                     @ \o [i \in 1..n |-> SequenceOf(rx.frame) * Block + i - 1]]
       /\ ing' = [ing EXCEPT !.pc = "record", !.n = n]
       /\ UNCHANGED <<calls, got, pipeVars, udpVars, pushed, dropped, gaps>>

(* record_push; after the last channel the next frame is read. *)
RecordPush ==
    /\ ing.pc = "record"
    /\ pushed' = [pushed EXCEPT ![ing.ch] = @ + ing.n]
    /\ dropped' = [dropped EXCEPT ![ing.ch] = @ + Block - ing.n]
    /\ IF ing.ch < NumChannels
       THEN ing' = [ing EXCEPT !.pc = "push", !.ch = @ + 1, !.n = 0] /\ UNCHANGED rx
       ELSE /\ ing' = [ing EXCEPT !.pc = "loop", !.ch = 1, !.n = 0]
            /\ rx' = [pc |-> "idle", frame |-> <<>>]
    /\ UNCHANGED <<tx, got, pipeVars, udpVars, ring, gaps>>

ReceiverStep ==
    /\ \/ Start
       \/ Read
       \/ Leave
       \/ ReadEnds
       \/ Account
       \/ PushBulk
       \/ RecordPush
       \/ PipeRead /\ UNCHANGED <<udpVars, ingesting>>
       \/ PipeEof /\ UNCHANGED <<got, udpVars, ingesting>>
       \/ UdpConsume /\ UNCHANGED <<pipeVars, ingesting>>
    /\ UNCHANGED <<kind, sent, driver, snd, stopRequested>>

-----------------------------------------------------------------------------
(* The threads around it.                                                   *)

(* The reader of the rings (external to this module) takes what is there.   *)
(* Only the next push can tell when, so this is just before it.             *)
Drain(c) ==
    /\ ing.pc = "push" /\ ing.ch = c /\ ring[c] # <<>>
    /\ ring' = [ring EXCEPT ![c] = <<>>]
    /\ UNCHANGED <<kind, calls, histories, pipeVars, udpVars, driver, snd, ing,
                   pushed, dropped, gaps, stopRequested>>

(* The thread's owner may stop it and close the socket, in either order and *)
(* at any time, and destroys the pipe's consumer when it has joined the     *)
(* thread.                                                                  *)
Stop ==
    /\ ~stopRequested
    /\ stopRequested' = TRUE
    /\ UNCHANGED <<calls, histories, pipeVars, udpVars>>

Destroy ==
    /\ stopRequested /\ ing.pc = "ended"
    /\ PipeClose
    /\ UNCHANGED <<sent, udpVars, stopRequested>>

OwnerStep ==
    /\ \/ Stop
       \/ Destroy
       \/ UdpClose /\ UNCHANGED <<sent, pipeVars, stopRequested>>
    /\ UNCHANGED <<kind, driver, snd, ingesting>>

(* Nobody looks at the network when the thread has ended. *)
Network ==
    /\ ing.pc # "ended"
    /\ UdpNetwork
    /\ UNCHANGED <<kind, sent, pipeVars, driver, snd, ingesting, stopRequested>>

Next ==
    \/ SenderStep
    \/ SenderKilled
    \/ ReceiverStep
    \/ OwnerStep
    \/ Network
    \/ \E c \in Channels : Drain(c)

Spec == Init /\ [][Next]_vars

(* The two programs go on when they can.  Nothing is assumed of the owner,  *)
(* the network and the rings' reader.                                       *)
FairSpec == Spec /\ WF_vars(SenderStep) /\ WF_vars(ReceiverStep)

-----------------------------------------------------------------------------
Stream == INSTANCE FrameStream WITH reliable <- (kind = "pipe")

(* Either transport keeps the promise of its kind: a pipe hands over the     *)
(* frames in order and whole, through every cut of its reads and writes, a   *)
(* datagram socket only whole frames that were sent (pipe_transport.cpp:75,  *)
(* :174, udp_transport.cpp:353).                                             *)
StreamSpec == Stream!Spec

(* What a ring's reader is short of has been reported: a sample is behind    *)
(* its place in the stream (counted from the first frame received) by no     *)
(* more than the channel's drop counter and the missing frames that          *)
(* sequence_gaps_ tells, however frames are lost, reordered or duplicated    *)
(* and whatever part of a push a full ring takes (ingestion_thread.cpp:53,   *)
(* :72).                                                                     *)
LagIsReported ==
    \A c \in Channels : \A i \in DOMAIN ring[c] :
        LET inHand == IF ing.pc = "record" /\ ing.ch = c THEN ing.n ELSE 0
            place == pushed[c] + inHand - Len(ring[c]) + i - 1
        IN ring[c][i] <= SequenceOf(got[1]) * Block + place
                         + dropped[c] + Block * gaps

(* A batch keeps its order and loses nothing by itself: whatever part of it  *)
(* each sendmmsg takes, the frames sent are 0, 1, 2, ... without a gap or a  *)
(* repetition; and when none is waiting, they are all the frames that        *)
(* send_frame accepted, unless sendmmsg failed (udp_transport.cpp:222-240).  *)
BurstKeepsOrder ==
    kind = "udp" /\ ~lostBatch =>
        /\ \A i \in DOMAIN emitted : emitted[i] = i - 1
        /\ batch = <<>> /\ tx.pc = "idle" => Len(emitted) = snd.next

(* Closing one end ends the other: the thread comes out of receive_frame     *)
(* when its socket is closed under it or the sender's process ends, and a    *)
(* sender does not stay in a write to a reader that is gone                  *)
(* (udp_transport.cpp:318, pipe_transport.cpp:46, :89).                      *)
CloseEndsBoth ==
    /\ (closed \/ ~writeOpen) ~> ing.pc = "ended"
    /\ ~readOpen ~> snd.pc = "gone"

=============================================================================
