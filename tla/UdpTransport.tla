----------------------------- MODULE UdpTransport -----------------------------
(***************************************************************************)
(* UdpProducer and UdpConsumer (apps/common/ipc/udp_transport.cpp): a      *)
(* frame is one datagram, sent at once or, with a burst size above one,    *)
(* put in a batch that sendmmsg sends in one or more calls.  The consumer  *)
(* takes one datagram, or a batch of them into recv_queue_; its receive    *)
(* timeout makes it look at closed_ every half second, and close() may     *)
(* come from another thread at any point of a receive.                     *)
(*                                                                         *)
(* The network is the consumer's socket buffer.  It may lose, duplicate or *)
(* reorder datagrams and bring those of a stranger, MaxFaults times.       *)
(***************************************************************************)
EXTENDS Transport, FiniteSets

CONSTANTS
    Sockets,         \* settings of the two sockets: [open, maxUnits, txBurst, rxBurst],
                     \*   open being which ends could be opened and bound
    MaxFaults        \* bound: what the network does wrong

ASSUME UdpAssumption ==
    /\ Sockets \subseteq [open : SUBSET {"tx", "rx"}, maxUnits : Nat,
                          txBurst : Nat \ {0}, rxBurst : Nat \ {0}]
    /\ MaxFaults \in Nat

VARIABLES
    sockets,         \* the settings
    batch,           \* frames batched by send_frame, those already sent left out
    wire,            \* datagrams in the consumer's socket buffer
    recvQueue,       \* recv_queue_
    at,              \* how far receive_frame is: "loop", "call" or "block"
    closed,          \* closed_
    bound,           \* sock_ >= 0, at the consumer
    faults,          \* how often the network went wrong
    emitted,         \* history: the number of every frame a send call took
    lostBatch        \* history: a batch was given up after sendmmsg failed

producerVars == <<batch, emitted, lostBatch>>
consumerVars == <<recvQueue, at>>
udpVars == <<sockets, producerVars, wire, consumerVars, closed, bound, faults>>

(* What else reaches the port: too short for a header, or no header at all. *)
Strays == {<<>>, [i \in 1..FrameUnits |-> <<0, 0>>]}

UdpInit ==
    /\ sockets \in Sockets
    /\ batch = <<>> /\ wire = <<>> /\ recvQueue = <<>> /\ at = "loop"
    /\ closed = FALSE /\ bound = ("rx" \in sockets.open)
    /\ faults = 0 /\ emitted = <<>> /\ lostBatch = FALSE

-----------------------------------------------------------------------------
(* The producer.                                                            *)

Refused == "tx" \notin sockets.open \/ FrameUnits > sockets.maxUnits

(* A send call takes the first n frames of a sequence. *)
Transmit(frames, n) ==
    /\ wire' = wire \o SubSeq(frames, 1, n)
    /\ emitted' = emitted \o [i \in 1..n |-> SequenceOf(frames[i])]

UdpRefuse ==
    /\ kind = "udp" /\ tx.pc = "in" /\ Refused
    /\ SendReturns(FALSE)
    /\ UNCHANGED <<producerVars, wire>>

(* send_scatter_gather: one datagram, or an error. *)
UdpSendOne(ok) ==
    /\ kind = "udp" /\ tx.pc = "in" /\ ~Refused /\ sockets.txBurst = 1
    /\ SendReturns(ok)
    /\ IF ok THEN Transmit(<<tx.frame>>, 1) ELSE UNCHANGED <<wire, emitted>>
    /\ UNCHANGED <<batch, lostBatch>>

(* The frame joins the batch; a full batch is flushed before the return. *)
UdpEnqueue ==
    /\ kind = "udp" /\ tx.pc = "in" /\ ~Refused /\ sockets.txBurst > 1
    /\ batch' = Append(batch, tx.frame)
    /\ IF Len(batch') >= sockets.txBurst
       THEN tx' = [pc |-> "flush", frame |-> <<>>] ELSE SendReturns(TRUE)
    /\ UNCHANGED <<wire, emitted, lostBatch>>

(* flush(), called between two frames or at the end, has a batch to send. *)
UdpFlush ==
    /\ kind = "udp" /\ tx.pc = "idle" /\ batch # <<>>
    /\ tx' = [tx EXCEPT !.pc = "flush"]
    /\ UNCHANGED <<producerVars, wire>>

(* What was sent by a call that took only part of the batch stays in it. *)
MUdpFlushSome ==
    /\ tx.pc = "flush"
    /\ \E n \in 1..Len(batch) :
         /\ Transmit(batch, n)
         /\ IF n = Len(batch) THEN batch' = <<>> /\ SendReturns(TRUE)
                              ELSE UNCHANGED <<batch, tx>>
    /\ UNCHANGED lostBatch

(* A turn of flush_internal's loop: sendmmsg takes some of the batch. *)
UdpFlushSome ==
    /\ tx.pc = "flush"
    /\ \E n \in 1..Len(batch) :
         /\ Transmit(batch, n)
         /\ batch' = SubSeq(batch, n + 1, Len(batch))
         /\ IF batch' = <<>> THEN SendReturns(TRUE) ELSE UNCHANGED tx
    /\ UNCHANGED lostBatch

(* sendmmsg fails: the loop ends, and the rest of the batch is forgotten by *)
(* a call that returns true all the same.                                   *)
UdpFlushFails ==
    /\ tx.pc = "flush"
    /\ batch' = <<>> /\ lostBatch' = TRUE
    /\ SendReturns(TRUE)
    /\ UNCHANGED <<wire, emitted>>

UdpProduce ==
    /\ \/ UdpRefuse
       \/ \E ok \in BOOLEAN : UdpSendOne(ok)
       \/ UdpEnqueue
       \/ UdpFlushSome
       \/ UdpFlushFails
    /\ UNCHANGED <<rx, got, sockets, consumerVars, closed, bound, faults>>

-----------------------------------------------------------------------------
(* The consumer.                                                            *)

(* A datagram the consumer takes for a frame. *)
IsFrame(d) == Len(d) >= HeaderUnits /\ HasMagic(d)

(* The loop ends when the socket is closed or was never bound. *)
UdpStopped ==
    /\ kind = "udp" /\ rx.pc = "in" /\ at = "loop"
    /\ closed \/ (~bound /\ recvQueue = <<>>)
    /\ ReceiveFails
    /\ UNCHANGED <<wire, consumerVars>>

(* A frame left from the last batch. *)
UdpFromQueue ==
    /\ kind = "udp" /\ rx.pc = "in" /\ at = "loop" /\ ~closed /\ recvQueue # <<>>
    /\ ReceiveReturns(Head(recvQueue))
    /\ recvQueue' = Tail(recvQueue)
    /\ UNCHANGED <<wire, at>>

(* Both tests are past. *)
UdpTests ==
    /\ kind = "udp" /\ rx.pc = "in" /\ at = "loop" /\ ~closed
    /\ recvQueue = <<>> /\ bound
    /\ at' = "call"
    /\ UNCHANGED <<rx, got, wire, recvQueue>>

(* recvfrom or recvmmsg is called: on a socket just closed it fails, and    *)
(* closed_ is set by then.                                                  *)
UdpEnter ==
    /\ rx.pc = "in" /\ at = "call"
    /\ IF bound THEN at' = "block" /\ UNCHANGED <<rx, got>>
                ELSE at' = "loop" /\ ReceiveFails
    /\ UNCHANGED <<wire, recvQueue>>

(* The call returns what there is, up to its burst; what is no frame is     *)
(* skipped.  A close() meanwhile does not disturb it.                       *)
UdpReceive ==
    /\ rx.pc = "in" /\ at = "block" /\ wire # <<>>
    /\ at' = "loop"
    /\ LET n == IF Len(wire) < sockets.rxBurst THEN Len(wire) ELSE sockets.rxBurst
           kept == {i \in 1..n : IsFrame(wire[i])}
       IN /\ wire' = SubSeq(wire, n + 1, Len(wire))
          /\ \E pick \in [1..Cardinality(kept) -> kept] :
               /\ \A i, j \in DOMAIN pick : i < j => pick[i] < pick[j]
               /\ LET frames == [k \in DOMAIN pick |-> wire[pick[k]]]
                  IN IF sockets.rxBurst > 1
                     THEN recvQueue' = frames /\ UNCHANGED <<rx, got>>
                     ELSE /\ UNCHANGED recvQueue
                          /\ IF frames # <<>> THEN ReceiveReturns(frames[1])
                                              ELSE UNCHANGED <<rx, got>>

(* A call on a socket that was closed under it never times out. *)
MUdpTimeout ==
    /\ rx.pc = "in" /\ at = "block" /\ wire = <<>> /\ ~closed
    /\ at' = "loop"
    /\ UNCHANGED <<rx, got, wire, recvQueue>>

(* SO_RCVTIMEO has passed. *)
UdpTimeout ==
    /\ rx.pc = "in" /\ at = "block" /\ wire = <<>>
    /\ at' = "loop"
    /\ UNCHANGED <<rx, got, wire, recvQueue>>

UdpConsume ==
    /\ \/ UdpStopped
       \/ UdpFromQueue
       \/ UdpTests
       \/ UdpEnter
       \/ UdpReceive
       \/ UdpTimeout
    /\ UNCHANGED <<tx, sockets, producerVars, closed, bound, faults>>

(* close() sets closed_, then closes the socket. *)
UdpClose ==
    /\ kind = "udp"
    /\ \/ ~closed /\ closed' = TRUE /\ UNCHANGED bound
       \/ closed /\ bound /\ bound' = FALSE /\ UNCHANGED closed
    /\ UNCHANGED <<calls, got, sockets, producerVars, wire, consumerVars, faults>>

-----------------------------------------------------------------------------
(* The network.                                                             *)

Without(s, i) == SubSeq(s, 1, i - 1) \o SubSeq(s, i + 1, Len(s))

UdpNetwork ==
    /\ kind = "udp" /\ faults < MaxFaults
    /\ faults' = faults + 1
    /\ \/ \E i \in DOMAIN wire : wire' = Without(wire, i)
       \/ \E i \in DOMAIN wire : wire' = <<wire[i]>> \o Without(wire, i) /\ i > 1
       \/ \E i \in DOMAIN wire : wire' = Append(wire, wire[i])
       \/ \E d \in Strays : wire' = Append(wire, d)
    /\ UNCHANGED <<calls, got, sockets, producerVars, consumerVars, closed, bound>>

=============================================================================
