------------------------------ MODULE Transport ------------------------------
(***************************************************************************)
(* ITransportProducer and ITransportConsumer (apps/common/ipc/transport.h) *)
(* as a call in progress at each end, and the frame that passes between.   *)
(*                                                                         *)
(* A frame is the sequence of its units, each <<the frame's number, its    *)
(* place>>: the first HeaderUnits are its header (the magic in the first   *)
(* of them), then comes one block for each channel.  A unit is the least   *)
(* that a system call can pass on by itself.                               *)
(***************************************************************************)
EXTENDS Naturals, Sequences

CONSTANTS
    HeaderUnits,     \* the units of a FrameHeaderV2
    NumChannels      \* channel_count of every frame

ASSUME TransportAssumption ==
    HeaderUnits \in Nat \ {0} /\ NumChannels \in Nat \ {0}

VARIABLES
    kind,            \* "pipe" or "udp"
    tx,              \* the producer's call: its state, and the frame
    rx,              \* the consumer's call: its state, and the frame received
    sent, got        \* history: frames given to send_frame, and received

calls == <<tx, rx>>
histories == <<sent, got>>

FrameUnits == HeaderUnits + NumChannels
WholeFrame(f) == [i \in 1..FrameUnits |-> <<f, i>>]

(* What the consumer reads out of the units it takes for a header. *)
HasMagic(units) == units[1][2] = 1
SequenceOf(frame) == frame[1][1]
HasPayload(units) == Len(units) >= FrameUnits

TransportInit ==
    /\ kind \in {"pipe", "udp"}
    /\ tx = [pc |-> "idle", frame |-> <<>>]
    /\ rx = [pc |-> "idle", frame |-> <<>>]
    /\ sent = <<>> /\ got = <<>>

(* The producer calls send_frame with its f-th frame. *)
CallSend(f) ==
    /\ tx.pc = "idle"
    /\ tx' = [pc |-> "in", frame |-> WholeFrame(f)]
    /\ sent' = Append(sent, WholeFrame(f))

SendReturns(ok) == tx' = [pc |-> IF ok THEN "true" ELSE "false", frame |-> <<>>]

(* The consumer calls receive_frame, and it returns. *)
CallReceive ==
    /\ rx.pc = "idle"
    /\ rx' = [pc |-> "in", frame |-> <<>>]

ReceiveReturns(frame) ==
    /\ rx' = [pc |-> "true", frame |-> frame]
    /\ got' = Append(got, frame)

ReceiveFails ==
    /\ rx' = [pc |-> "false", frame |-> <<>>]
    /\ UNCHANGED got

=============================================================================
