------------------------------ MODULE LinkProofs ------------------------------
(***************************************************************************)
(* Proofs about Link, for any frame and pipe size, any setting of the      *)
(* sockets, any number of frames and of faults of the network.             *)
(*                                                                         *)
(* LinkInv has the types and how the calls at both ends fit together.  On  *)
(* it rest three inductions: BurstInv (sent frames and batch are one run   *)
(* of numbers), LagInv (each channel's samples against its counters) and   *)
(* StreamInv (the units of a pipe, from the sender's hand to the           *)
(* receiver's, are one gapless run).                                       *)
(***************************************************************************)
EXTENDS Link, FiniteSetTheorems, SequenceTheorems, TLAPS

Units == Nat \X Nat
Framed == {d \in Seq(Units) : Len(d) = FrameUnits}
Datagrams == Framed \cup {<<>>}

TxPcs == {"idle", "in", "flush", "true", "false"}
RxPcs == {"idle", "in", "true", "false"}
SndPcs == {"loop", "sending", "flush", "flushing", "exit", "gone"}
IngPcs == {"off", "loop", "read", "push", "record", "ended"}

(* What each end of the transport works on. *)
TransportTypes ==
    /\ kind \in {"pipe", "udp"}
    /\ tx \in [pc : TxPcs, frame : Seq(Units)]
    /\ rx \in [pc : RxPcs, frame : Seq(Units)]
    /\ sent \in Seq(Framed) /\ got \in Seq(Framed)
    /\ pipe \in Seq(Units)

SocketTypes ==
    /\ sockets \in Sockets
    /\ batch \in Seq(Framed) /\ recvQueue \in Seq(Framed)
    /\ wire \in Seq(Datagrams)
    /\ emitted \in Seq(Nat)

ProgramTypes ==
    /\ snd \in [pc : SndPcs, next : Nat]
    /\ ing \in [pc : IngPcs, ch : Channels, n : Nat, expected : Nat]
    /\ ring \in [Channels -> Seq(Nat)]
    /\ pushed \in [Channels -> Nat] /\ dropped \in [Channels -> Nat]
    /\ gaps \in Nat
    /\ ing.n <= Block /\ \A c \in Channels : Len(ring[c]) <= RingCapacity

(* A frame in a call is whole, unless the pipe has taken or given only part *)
(* of it; the socket's states are no pipe's.                                *)
CallsAgree ==
    /\ tx.pc = "in" /\ kind = "udp" => tx.frame \in Framed
    /\ rx.pc = "true" => rx.frame \in Framed
    /\ rx.pc = "in" => Len(rx.frame) < FrameUnits
    /\ kind = "pipe" => tx.pc \notin {"flush", "false"} /\ at = "loop"
    /\ ing.pc \in {"push", "record"} => rx.pc = "true"
    /\ ing.pc \in {"off", "loop", "ended"} => rx.pc = "idle"

LinkInv == TransportTypes /\ SocketTypes /\ ProgramTypes /\ CallsAgree

-----------------------------------------------------------------------------
(* What the steps of the two programs and of the world around them keep.    *)

SenderKeeps == UNCHANGED <<kind, driver, ingesting, stopRequested>>
ProduceKeeps ==
    /\ SenderKeeps
    /\ UNCHANGED <<rx, got, sockets, consumerVars, closed, bound, faults, sent, pipeVars, snd>>
ReceiverKeeps == UNCHANGED <<kind, sent, driver, snd, stopRequested>>
ConsumeKeeps ==
    /\ ReceiverKeeps
    /\ UNCHANGED <<tx, sockets, producerVars, closed, bound, faults, pipeVars, ingesting>>

ProduceStep ==
    \/ UdpRefuse
    \/ \E ok \in BOOLEAN : UdpSendOne(ok)
    \/ UdpEnqueue
    \/ UdpFlushSome
    \/ UdpFlushFails

ConsumeStep ==
    \/ UdpStopped
    \/ UdpFromQueue
    \/ UdpTests
    \/ UdpEnter
    \/ UdpReceive
    \/ UdpTimeout

(* The whole next-state relation, by who takes the step.                    *)
LEMMA Steps ==
    ASSUME [Next]_vars
    PROVE  \/ SenderCalls /\ SenderKeeps
           \/ SenderLeaves /\ SenderKeeps
           \/ SenderReturned /\ SenderKeeps
           \/ SenderFlushes /\ SenderKeeps
           \/ SenderFlushed /\ SenderKeeps
           \/ Gone /\ SenderKeeps /\ (kind = "udp" => snd.pc = "exit")
           \/ PipeWrite /\ SenderKeeps /\ UNCHANGED <<sent, udpVars, snd>>
           \/ ProduceStep /\ ProduceKeeps
           \/ Start /\ ReceiverKeeps
           \/ Read /\ ReceiverKeeps
           \/ Leave /\ ReceiverKeeps
           \/ ReadEnds /\ ReceiverKeeps
           \/ Account /\ ReceiverKeeps
           \/ PushBulk /\ ReceiverKeeps
           \/ RecordPush /\ ReceiverKeeps
           \/ PipeRead /\ ReceiverKeeps /\ UNCHANGED <<udpVars, ingesting>>
           \/ PipeEof /\ ReceiverKeeps /\ UNCHANGED <<got, udpVars, ingesting>>
           \/ ConsumeStep /\ ConsumeKeeps
           \/ OwnerStep
           \/ Network
           \/ \E c \in Channels : Drain(c)
           \/ UNCHANGED vars
<1>1. CASE SenderStep
  BY <1>1 DEF SenderStep, SenderEnds, PipeBroken, UdpProduce, ProduceStep, SenderKeeps, ProduceKeeps
<1>2. CASE SenderKilled
  BY <1>2 DEF SenderKilled, SenderKeeps
<1>3. CASE ReceiverStep
  BY <1>3 DEF ReceiverStep, UdpConsume, ConsumeStep, ReceiverKeeps, ConsumeKeeps
<1>4. QED
  BY <1>1, <1>2, <1>3 DEF Next

-----------------------------------------------------------------------------
(* The sizes, and what a whole frame is.                                    *)
LEMMA Sizes ==
    /\ HeaderUnits \in Nat /\ HeaderUnits > 0
    /\ NumChannels \in Nat /\ NumChannels > 0 /\ Channels = 1..NumChannels
    /\ FrameUnits \in Nat /\ FrameUnits > HeaderUnits
    /\ Block \in Nat /\ Block > 0 /\ RingCapacity \in Nat /\ RingCapacity > 0
BY TransportAssumption, LinkAssumption DEF FrameUnits, Channels

LEMMA WholeFrames ==
    ASSUME NEW f \in Nat
    PROVE  /\ WholeFrame(f) \in Framed /\ WholeFrame(f) \in Seq(Units)
           /\ Len(WholeFrame(f)) = FrameUnits
           /\ \A i \in 1..FrameUnits : WholeFrame(f)[i] = <<f, i>>
           /\ SequenceOf(WholeFrame(f)) = f
<1>1. WholeFrame(f) \in Seq(Units)
  BY Sizes, IsASeq DEF WholeFrame, Units
<1>2. Len(WholeFrame(f)) = FrameUnits
  BY Sizes DEF WholeFrame
<1>3. \A i \in 1..FrameUnits : WholeFrame(f)[i] = <<f, i>>
  BY DEF WholeFrame
<1>4. QED
  BY <1>1, <1>2, <1>3, Sizes DEF Framed, SequenceOf

LEMMA FramedFacts ==
    ASSUME NEW d \in Framed
    PROVE  /\ d \in Seq(Units) /\ Len(d) = FrameUnits /\ d # <<>>
           /\ SequenceOf(d) \in Nat /\ HasPayload(d)
<1>1. d \in Seq(Units) /\ Len(d) = FrameUnits
  BY DEF Framed
<1>2. d[1] \in Units
  BY <1>1, Sizes, ElementOfSeq
<1>3. QED
  BY <1>1, <1>2, Sizes DEF Units, SequenceOf, HasPayload

LEMMA DatagramFacts ==
    /\ Strays \subseteq Datagrams
    /\ \A d \in Datagrams : IsFrame(d) => d \in Framed
<1>1. [i \in 1..FrameUnits |-> <<0, 0>>] \in Framed
  <2> DEFINE stray == [i \in 1..FrameUnits |-> <<0, 0>>]
  <2>1. stray \in Seq(Units)
    BY Sizes, IsASeq DEF Units
  <2>2. Len(stray) = FrameUnits
    BY Sizes
  <2>3. QED
    BY <2>1, <2>2 DEF Framed
<1>2. ASSUME IsFrame(<<>>) PROVE FALSE
  BY <1>2, Sizes DEF IsFrame
<1>3. QED
  BY <1>1, <1>2 DEF Strays, Datagrams

-----------------------------------------------------------------------------
(* Sequences over a set, under the operations of the two programs.          *)
LEMMA Appended ==
    ASSUME NEW S, NEW s \in Seq(S), NEW e \in S
    PROVE  /\ Append(s, e) \in Seq(S)
           /\ Len(Append(s, e)) = Len(s) + 1
           /\ \A i \in 1..Len(s) : Append(s, e)[i] = s[i]
           /\ Append(s, e)[Len(s) + 1] = e
OBVIOUS

LEMMA Cut ==
    ASSUME NEW S, NEW s \in Seq(S), NEW n \in Nat, n <= Len(s)
    PROVE  /\ SubSeq(s, 1, n) \in Seq(S) /\ Len(SubSeq(s, 1, n)) = n
           /\ \A i \in 1..n : SubSeq(s, 1, n)[i] = s[i]
           /\ SubSeq(s, n + 1, Len(s)) \in Seq(S)
           /\ Len(SubSeq(s, n + 1, Len(s))) = Len(s) - n
           /\ \A i \in 1..(Len(s) - n) : SubSeq(s, n + 1, Len(s))[i] = s[n + i]
<1>1. Len(s) \in Nat /\ \A i \in 1..Len(s) : s[i] \in S
  BY ElementOfSeq
<1>2. \A i \in 1..n : s[i] \in S
  BY <1>1
<1>3. \A i \in (n + 1)..Len(s) : s[i] \in S
  BY <1>1
<1>4. /\ SubSeq(s, 1, n) \in Seq(S)
      /\ Len(SubSeq(s, 1, n)) = IF 1 <= n THEN n - 1 + 1 ELSE 0
      /\ \A i \in 1..(n - 1 + 1) : SubSeq(s, 1, n)[i] = s[1 + i - 1]
  BY ONLY <1>2, SubSeqProperties, n \in Nat
<1>5. /\ SubSeq(s, n + 1, Len(s)) \in Seq(S)
      /\ Len(SubSeq(s, n + 1, Len(s))) = IF n + 1 <= Len(s) THEN Len(s) - (n + 1) + 1 ELSE 0
      /\ \A i \in 1..(Len(s) - (n + 1) + 1) : SubSeq(s, n + 1, Len(s))[i] = s[n + 1 + i - 1]
  BY ONLY <1>1, <1>3, SubSeqProperties, n \in Nat
<1>6. Len(SubSeq(s, 1, n)) = n /\ \A i \in 1..n : SubSeq(s, 1, n)[i] = s[i]
  BY ONLY <1>4, n \in Nat
<1>7. Len(SubSeq(s, n + 1, Len(s))) = Len(s) - n
  BY ONLY <1>1, <1>5, n \in Nat, n <= Len(s)
<1>8. \A i \in 1..(Len(s) - n) : SubSeq(s, n + 1, Len(s))[i] = s[n + i]
  BY ONLY <1>1, <1>5, n \in Nat, n <= Len(s)
<1>9. QED
  BY ONLY <1>4, <1>5, <1>6, <1>7, <1>8

LEMMA Joined ==
    ASSUME NEW S, NEW s \in Seq(S), NEW t \in Seq(S)
    PROVE  /\ s \o t \in Seq(S) /\ Len(s \o t) = Len(s) + Len(t)
           /\ \A i \in 1..Len(s) : (s \o t)[i] = s[i]
           /\ \A i \in 1..Len(t) : (s \o t)[Len(s) + i] = t[i]
<1>1. Len(s) \in Nat /\ Len(t) \in Nat
  BY LenProperties
<1>2. /\ s \o t \in Seq(S) /\ Len(s \o t) = Len(s) + Len(t)
      /\ \A i \in 1..Len(s) + Len(t) :
            (s \o t)[i] = IF i <= Len(s) THEN s[i] ELSE t[i - Len(s)]
  BY ConcatProperties
<1>3. \A i \in 1..Len(s) : (s \o t)[i] = s[i]
  BY ONLY <1>1, <1>2
<1>4. \A i \in 1..Len(t) : (s \o t)[Len(s) + i] = t[i]
  <2> TAKE i \in 1..Len(t)
  <2>1. Len(s) + i \in 1..Len(s) + Len(t) /\ ~(Len(s) + i <= Len(s)) /\ (Len(s) + i) - Len(s) = i
    BY ONLY <1>1, i \in 1..Len(t)
  <2>2. QED
    BY ONLY <1>2, <2>1
<1>5. QED
  BY <1>2, <1>3, <1>4

-----------------------------------------------------------------------------
LEMMA InitLinkInv == Init => LinkInv
<1> SUFFICES ASSUME Init PROVE LinkInv
  OBVIOUS
<1> USE DEF Init, TransportInit, PipeInit, UdpInit
<1>1. \A S : <<>> \in Seq(S)
  OBVIOUS
<1>2. TransportTypes
  BY <1>1 DEF TransportTypes, TxPcs, RxPcs
<1>3. SocketTypes
  BY <1>1 DEF SocketTypes
<1>4. ProgramTypes
  BY <1>1, Sizes DEF ProgramTypes, SndPcs, IngPcs
<1>5. CallsAgree
  BY DEF CallsAgree
<1>6. QED
  BY <1>2, <1>3, <1>4, <1>5 DEF LinkInv

(* The sender's steps, those within the transport aside.                    *)
LEMMA SenderStepTypes ==
    ASSUME LinkInv, SenderKeeps,
           SenderCalls \/ SenderLeaves \/ SenderReturned \/ SenderFlushes \/ SenderFlushed \/ Gone
    PROVE  LinkInv'
<1> USE DEF LinkInv, SenderKeeps, calls, histories, pipeVars, udpVars, producerVars,
            consumerVars, ingesting, samples
<1>1. CASE SenderCalls
  <2>1. WholeFrame(snd.next) \in Framed /\ WholeFrame(snd.next) \in Seq(Units)
    BY WholeFrames DEF ProgramTypes
  <2>2. Append(sent, WholeFrame(snd.next)) \in Seq(Framed)
    BY <2>1, Appended DEF TransportTypes
  <2>3. TransportTypes'
    BY <1>1, <2>1, <2>2 DEF SenderCalls, CallSend, TransportTypes, TxPcs
  <2>4. SocketTypes' /\ ProgramTypes'
    BY <1>1 DEF SenderCalls, SocketTypes, ProgramTypes, SndPcs
  <2>5. CallsAgree'
    BY <1>1, <2>1 DEF SenderCalls, CallSend, CallsAgree
  <2>6. QED
    BY <2>3, <2>4, <2>5
<1>2. CASE SenderLeaves
  BY <1>2 DEF SenderLeaves, Leaving, TransportTypes, SocketTypes, ProgramTypes, CallsAgree, SndPcs
<1>3. CASE SenderReturned
  <2>1. TransportTypes' /\ CallsAgree'
    BY <1>3 DEF SenderReturned, TransportTypes, CallsAgree, TxPcs
  <2>2. SocketTypes'
    BY <1>3 DEF SenderReturned, SocketTypes
  <2>3. ProgramTypes'
    BY <1>3 DEF SenderReturned, ProgramTypes, Leaving, SndPcs
  <2>4. QED
    BY <2>1, <2>2, <2>3
<1>4. CASE SenderFlushes
  <2>1. TransportTypes' /\ CallsAgree'
    BY <1>4 DEF SenderFlushes, UdpFlush, TransportTypes, CallsAgree, TxPcs
  <2>2. SocketTypes' /\ ProgramTypes'
    BY <1>4 DEF SenderFlushes, UdpFlush, SocketTypes, ProgramTypes, SndPcs
  <2>3. QED
    BY <2>1, <2>2
<1>5. CASE SenderFlushed
  <2>1. TransportTypes' /\ CallsAgree'
    BY <1>5 DEF SenderFlushed, TransportTypes, CallsAgree, TxPcs
  <2>2. SocketTypes' /\ ProgramTypes'
    BY <1>5 DEF SenderFlushed, SocketTypes, ProgramTypes, SndPcs
  <2>3. QED
    BY <2>1, <2>2
<1>6. CASE Gone
  BY <1>6 DEF Gone, TransportTypes, SocketTypes, ProgramTypes, CallsAgree, SndPcs
<1>7. QED
  BY <1>1, <1>2, <1>3, <1>4, <1>5, <1>6

(* What a turn of writev does: some units go, and the rest stay.            *)
LEMMA WriteParts ==
    ASSUME LinkInv, PipeWrite
    PROVE  \E n \in 1..Len(tx.frame) :
             /\ n \in Nat /\ n <= Len(tx.frame)
             /\ pipe' = pipe \o SubSeq(tx.frame, 1, n)
             /\ Advance(tx.frame, n) \in Seq(Units)
             /\ SubSeq(tx.frame, 1, n) \in Seq(Units)
             /\ \/ /\ Advance(tx.frame, n) = <<>>
                   /\ tx' = [pc |-> "true", frame |-> <<>>]
                \/ /\ Advance(tx.frame, n) # <<>>
                   /\ tx' = [tx EXCEPT !.frame = Advance(tx.frame, n)]
<1>1. tx.frame \in Seq(Units) /\ Len(tx.frame) \in Nat
  BY DEF LinkInv, TransportTypes
<1>2. PICK n \in 1..Len(tx.frame) :
        /\ pipe' = pipe \o SubSeq(tx.frame, 1, n)
        /\ IF Advance(tx.frame, n) = <<>> THEN SendReturns(TRUE)
           ELSE tx' = [tx EXCEPT !.frame = Advance(tx.frame, n)]
  BY DEF PipeWrite
<1>3. n \in Nat /\ n <= Len(tx.frame)
  BY <1>1
<1>4. Advance(tx.frame, n) \in Seq(Units) /\ SubSeq(tx.frame, 1, n) \in Seq(Units)
  BY ONLY <1>1, <1>3, Cut DEF Advance
<1>5. QED
  BY <1>2, <1>3, <1>4 DEF SendReturns

LEMMA PipeWriteTypes ==
    ASSUME LinkInv, PipeWrite, SenderKeeps, UNCHANGED <<sent, udpVars, snd>>
    PROVE  LinkInv'
<1> USE DEF LinkInv, SenderKeeps, calls, histories, pipeVars, udpVars, producerVars,
            consumerVars, ingesting, samples
<1>1. PICK n \in 1..Len(tx.frame) :
        /\ pipe' = pipe \o SubSeq(tx.frame, 1, n)
        /\ Advance(tx.frame, n) \in Seq(Units)
        /\ SubSeq(tx.frame, 1, n) \in Seq(Units)
        /\ \/ tx' = [pc |-> "true", frame |-> <<>>]
           \/ tx' = [tx EXCEPT !.frame = Advance(tx.frame, n)]
  BY WriteParts
<1>2. pipe' \in Seq(Units)
  BY <1>1, Joined DEF TransportTypes
<1>3. tx' \in [pc : TxPcs, frame : Seq(Units)] /\ tx'.pc \in {"in", "true"}
  <2>1. tx \in [pc : TxPcs, frame : Seq(Units)] /\ tx.pc = "in"
    BY DEF PipeWrite, TransportTypes
  <2>2. <<>> \in Seq(Units) /\ "true" \in TxPcs
    BY DEF TxPcs
  <2>3. CASE tx' = [pc |-> "true", frame |-> <<>>]
    BY ONLY <2>2, <2>3
  <2>4. CASE tx' = [tx EXCEPT !.frame = Advance(tx.frame, n)]
    <3> DEFINE rest == Advance(tx.frame, n)
    <3>1. rest \in Seq(Units) /\ tx' = [tx EXCEPT !.frame = rest]
      BY <1>1, <2>4
    <3> HIDE DEF rest
    <3>2. QED
      BY ONLY <2>1, <3>1
  <2>5. QED
    BY <1>1, <2>3, <2>4
<1>4. TransportTypes'
  BY <1>2, <1>3 DEF PipeWrite, TransportTypes
<1>5. SocketTypes' /\ ProgramTypes'
  BY DEF PipeWrite, SocketTypes, ProgramTypes
<1>6. CallsAgree'
  BY <1>3 DEF PipeWrite, CallsAgree
<1>7. QED
  BY <1>4, <1>5, <1>6


(* The producer's steps on a datagram socket.                               *)
LEMMA TransmitTypes ==
    ASSUME NEW frames \in Seq(Framed), NEW n \in Nat, n <= Len(frames),
           wire \in Seq(Datagrams), emitted \in Seq(Nat), Transmit(frames, n)
    PROVE  /\ wire' \in Seq(Datagrams) /\ emitted' \in Seq(Nat)
           /\ Len(emitted') = Len(emitted) + n
           /\ \A i \in 1..Len(emitted) : emitted'[i] = emitted[i]
           /\ \A i \in 1..n : emitted'[Len(emitted) + i] = SequenceOf(frames[i])
<1> DEFINE front == SubSeq(frames, 1, n)
           numbers == [i \in 1..n |-> SequenceOf(frames[i])]
<1>1. front \in Seq(Framed)
  BY ONLY Cut, frames \in Seq(Framed), n \in Nat, n <= Len(frames)
<1>2. front \in Seq(Datagrams)
  BY ONLY <1>1, SeqMonotonic DEF Datagrams
<1>3. \A i \in 1..n : frames[i] \in Framed
  BY ElementOfSeq
<1>4. \A i \in 1..n : SequenceOf(frames[i]) \in Nat
  BY ONLY <1>3, FramedFacts
<1>5. numbers \in Seq(Nat) /\ Len(numbers) = n /\ \A i \in 1..n : numbers[i] = SequenceOf(frames[i])
  BY ONLY <1>4, n \in Nat, IsASeq
<1>6. wire' = wire \o front /\ emitted' = emitted \o numbers
  BY DEF Transmit
<1> HIDE DEF front, numbers
<1>7. wire' \in Seq(Datagrams)
  BY ONLY <1>2, <1>6, Joined, wire \in Seq(Datagrams)
<1>8. /\ emitted' \in Seq(Nat) /\ Len(emitted') = Len(emitted) + n
      /\ \A i \in 1..Len(emitted) : emitted'[i] = emitted[i]
      /\ \A i \in 1..n : emitted'[Len(emitted) + i] = numbers[i]
  <2>1. numbers \in Seq(Nat) /\ Len(numbers) = n /\ emitted' = emitted \o numbers
    BY ONLY <1>5, <1>6
  <2>2. ASSUME NEW t \in Seq(Nat)
        PROVE  /\ emitted \o t \in Seq(Nat)
               /\ Len(emitted \o t) = Len(emitted) + Len(t)
               /\ \A i \in 1..Len(emitted) : (emitted \o t)[i] = emitted[i]
               /\ \A i \in 1..Len(t) : (emitted \o t)[Len(emitted) + i] = t[i]
    <3>1. emitted \in Seq(Nat)
      OBVIOUS
    <3>2. QED
      BY ONLY <2>2, <3>1, Joined
  <2>3. QED
    BY ONLY <2>1, <2>2, Zenon
<1>9. QED
  BY ONLY <1>5, <1>7, <1>8

(* A single frame, as a sequence of frames. *)
LEMMA OneFrame ==
    ASSUME NEW d \in Framed
    PROVE  <<d>> \in Seq(Framed) /\ Len(<<d>>) = 1 /\ <<d>>[1] = d
OBVIOUS

LEMMA ProduceTypes ==
    ASSUME LinkInv, ProduceStep, ProduceKeeps
    PROVE  LinkInv'
<1> USE DEF LinkInv, ProduceKeeps, SenderKeeps, calls, histories, pipeVars, udpVars,
            producerVars, consumerVars, ingesting, samples
<1>1. ProgramTypes'
  BY DEF ProgramTypes
<1>2. ASSUME tx' \in [pc : TxPcs, frame : Seq(Units)] PROVE TransportTypes'
  BY <1>2 DEF TransportTypes
<1>3. ASSUME tx'.pc # "in", kind = "udp" PROVE CallsAgree'
  BY <1>3 DEF CallsAgree
<1>4. \A ok \in BOOLEAN : SendReturns(ok) =>
        tx' \in [pc : TxPcs, frame : Seq(Units)] /\ tx'.pc # "in"
  BY DEF SendReturns, TxPcs
<1>5. tx.pc = "flush" => kind = "udp"
  BY DEF CallsAgree, TransportTypes
<1>6. CASE UdpRefuse
  <2>1. SocketTypes'
    BY <1>6 DEF UdpRefuse, SocketTypes
  <2>2. QED
    BY <1>1, <1>2, <1>3, <1>4, <1>6, <2>1 DEF UdpRefuse
<1>7. ASSUME NEW ok \in BOOLEAN, UdpSendOne(ok) PROVE LinkInv'
  <2>1. tx.frame \in Framed /\ kind = "udp"
    BY <1>7 DEF UdpSendOne, CallsAgree
  <2>2. Transmit(<<tx.frame>>, 1) \/ UNCHANGED <<wire, emitted>>
    BY <1>7 DEF UdpSendOne
  <2>3. wire' \in Seq(Datagrams) /\ emitted' \in Seq(Nat)
    <3>1. CASE Transmit(<<tx.frame>>, 1)
      <4>1. <<tx.frame>> \in Seq(Framed) /\ Len(<<tx.frame>>) = 1
        BY ONLY <2>1, OneFrame
      <4>2. wire \in Seq(Datagrams) /\ emitted \in Seq(Nat) /\ 1 \in Nat /\ 1 <= 1
        BY DEF SocketTypes
      <4>3. QED
        BY ONLY <3>1, <4>1, <4>2, TransmitTypes
    <3>2. CASE UNCHANGED <<wire, emitted>>
      BY <3>2 DEF SocketTypes
    <3>3. QED
      BY <2>2, <3>1, <3>2
  <2>4. SocketTypes'
    BY <1>7, <2>3 DEF UdpSendOne, SocketTypes
  <2>5. QED
    BY <1>1, <1>2, <1>3, <1>4, <1>7, <2>1, <2>4 DEF UdpSendOne
<1>8. CASE UdpEnqueue
  <2>1. tx.frame \in Framed /\ kind = "udp"
    BY <1>8 DEF UdpEnqueue, CallsAgree
  <2>2. batch' \in Seq(Framed)
    BY <1>8, <2>1, Appended DEF UdpEnqueue, SocketTypes
  <2>3. SocketTypes'
    BY <1>8, <2>2 DEF UdpEnqueue, SocketTypes
  <2>4. tx' = [pc |-> "flush", frame |-> <<>>] \/ SendReturns(TRUE)
    BY <1>8 DEF UdpEnqueue
  <2>0. <<>> \in Seq(Units) /\ "flush" \in TxPcs
    BY DEF TxPcs
  <2>5. tx' \in [pc : TxPcs, frame : Seq(Units)] /\ tx'.pc # "in"
    <3>1. CASE SendReturns(TRUE)
      BY ONLY <1>4, <3>1, Zenon
    <3>2. CASE tx' = [pc |-> "flush", frame |-> <<>>]
      BY ONLY <2>0, <3>2
    <3>3. QED
      BY <2>4, <3>1, <3>2
  <2>6. QED
    BY <1>1, <1>2, <1>3, <2>1, <2>3, <2>5
<1>9. CASE UdpFlushSome
  <2>1. PICK n \in 1..Len(batch) :
          /\ Transmit(batch, n)
          /\ batch' = SubSeq(batch, n + 1, Len(batch))
          /\ SendReturns(TRUE) \/ UNCHANGED tx
    BY <1>9 DEF UdpFlushSome
  <2>2. batch \in Seq(Framed) /\ n \in Nat /\ n <= Len(batch)
    BY DEF SocketTypes
  <2>3. batch' \in Seq(Framed)
    BY ONLY <2>1, <2>2, Cut
  <2>4. wire' \in Seq(Datagrams) /\ emitted' \in Seq(Nat)
    BY <2>1, <2>2, TransmitTypes DEF SocketTypes
  <2>5. SocketTypes'
    BY <2>3, <2>4 DEF SocketTypes
  <2>6. tx' \in [pc : TxPcs, frame : Seq(Units)] /\ tx'.pc # "in"
    BY <1>4, <1>9, <2>1 DEF UdpFlushSome, TransportTypes
  <2>7. QED
    BY <1>1, <1>2, <1>3, <1>5, <1>9, <2>5, <2>6 DEF UdpFlushSome
<1>10. CASE UdpFlushFails
  <2>1. SocketTypes'
    BY <1>10 DEF UdpFlushFails, SocketTypes
  <2>2. QED
    BY <1>1, <1>2, <1>3, <1>4, <1>5, <1>10, <2>1 DEF UdpFlushFails
<1>11. QED
  BY <1>6, <1>7, <1>8, <1>9, <1>10 DEF ProduceStep


(* What a call of read does: some units come, and the frame is either not   *)
(* complete, or whole, or found not to be one.                              *)
LEMMA ReadParts ==
    ASSUME LinkInv, PipeRead
    PROVE  \E n \in Nat :
             LET units == rx.frame \o SubSeq(pipe, 1, n)
             IN /\ n > 0 /\ n <= Len(pipe) /\ Len(units) = Len(rx.frame) + n
                /\ Len(units) <= FrameUnits /\ units \in Seq(Units)
                /\ pipe' = Advance(pipe, n) /\ pipe' \in Seq(Units)
                /\ \/ /\ Len(units) >= HeaderUnits /\ ~HasMagic(units)
                      /\ ReceiveFails
                   \/ /\ Len(units) = FrameUnits /\ HasMagic(units)
                      /\ ReceiveReturns(units)
                   \/ /\ Len(units) < FrameUnits
                      /\ rx' = [rx EXCEPT !.frame = units] /\ UNCHANGED got
<1> USE DEF LinkInv, TransportTypes
<1> DEFINE have == Len(rx.frame)
           wanted == IF have < HeaderUnits THEN HeaderUnits - have ELSE FrameUnits - have
           Taken(n) == rx.frame \o SubSeq(pipe, 1, n)
<1>1. have \in Nat /\ have < FrameUnits /\ wanted \in Nat /\ have + wanted <= FrameUnits
  BY Sizes, SMTT(30) DEF PipeRead, CallsAgree
<1>2. PICK n \in 1..wanted :
        /\ n <= Len(pipe) /\ pipe' = Advance(pipe, n)
        /\ IF Len(Taken(n)) >= HeaderUnits /\ ~HasMagic(Taken(n)) THEN ReceiveFails
           ELSE IF Len(Taken(n)) = FrameUnits THEN ReceiveReturns(Taken(n))
           ELSE rx' = [rx EXCEPT !.frame = Taken(n)] /\ UNCHANGED got
  BY DEF PipeRead
<1>3. n \in Nat /\ n > 0 /\ have + n <= FrameUnits
  <2>1. n \in 1..wanted /\ FrameUnits \in Nat
    BY <1>2, Sizes
  <2> HIDE DEF have, wanted
  <2>2. QED
    BY ONLY <1>1, <2>1
<1>4. pipe \in Seq(Units) /\ rx.frame \in Seq(Units)
  OBVIOUS
<1>5. /\ SubSeq(pipe, 1, n) \in Seq(Units) /\ Len(SubSeq(pipe, 1, n)) = n
      /\ pipe' \in Seq(Units)
  BY ONLY <1>2, <1>3, <1>4, Cut DEF Advance
<1>6. Taken(n) \in Seq(Units) /\ Len(Taken(n)) = have + n
  BY ONLY <1>4, <1>5, Joined
<1>7. Len(Taken(n)) <= FrameUnits
  BY <1>3, <1>6
<1>8. \/ Len(Taken(n)) >= HeaderUnits /\ ~HasMagic(Taken(n)) /\ ReceiveFails
      \/ Len(Taken(n)) = FrameUnits /\ HasMagic(Taken(n)) /\ ReceiveReturns(Taken(n))
      \/ /\ Len(Taken(n)) < FrameUnits
         /\ rx' = [rx EXCEPT !.frame = Taken(n)] /\ UNCHANGED got
  <2> HIDE DEF Taken
  <2>1. Len(Taken(n)) \in Nat
    BY <1>6, LenProperties
  <2>2. QED
    BY <1>2, <1>7, <2>1, Sizes
<1>9. QED
  BY <1>2, <1>3, <1>5, <1>6, <1>7, <1>8

(* A call of receive_frame that comes back.                                 *)
LEMMA Returned ==
    ASSUME NEW frame \in Framed, got \in Seq(Framed), ReceiveReturns(frame)
    PROVE  /\ rx' \in [pc : RxPcs, frame : Seq(Units)]
           /\ rx'.pc = "true" /\ rx'.frame = frame
           /\ got' \in Seq(Framed)
<1>1. frame \in Seq(Units) /\ "true" \in RxPcs
  BY FramedFacts DEF RxPcs
<1>2. rx' = [pc |-> "true", frame |-> frame] /\ got' = Append(got, frame)
  BY DEF ReceiveReturns
<1>3. rx' \in [pc : RxPcs, frame : Seq(Units)] /\ rx'.pc = "true" /\ rx'.frame = frame
  BY ONLY <1>1, <1>2
<1>4. QED
  BY ONLY <1>2, <1>3, Appended, frame \in Framed, got \in Seq(Framed)

LEMMA Failed ==
    ASSUME ReceiveFails
    PROVE  /\ rx' \in [pc : RxPcs, frame : Seq(Units)]
           /\ rx'.pc = "false" /\ rx'.frame = <<>> /\ got' = got
<1>1. <<>> \in Seq(Units) /\ "false" \in RxPcs
  BY DEF RxPcs
<1>2. rx' = [pc |-> "false", frame |-> <<>>] /\ got' = got
  BY DEF ReceiveFails
<1>3. QED
  BY ONLY <1>1, <1>2

LEMMA PipeReceiveTypes ==
    ASSUME LinkInv, PipeRead \/ (PipeEof /\ UNCHANGED got), ReceiverKeeps,
           UNCHANGED <<udpVars, ingesting>>
    PROVE  LinkInv'
<1> USE DEF LinkInv, ReceiverKeeps, calls, histories, pipeVars, udpVars, producerVars,
            consumerVars, ingesting, samples
<1>1. SocketTypes' /\ ProgramTypes'
  BY DEF SocketTypes, ProgramTypes
<1>2. kind = "pipe" /\ rx.pc = "in" /\ UNCHANGED tx
  BY DEF PipeRead, PipeEof
<1>3. ASSUME rx' \in [pc : RxPcs, frame : Seq(Units)],
             got' \in Seq(Framed), pipe' \in Seq(Units)
      PROVE  TransportTypes'
  BY <1>2, <1>3 DEF TransportTypes
<1>4. ASSUME rx'.pc = "true" => rx'.frame \in Framed,
             rx'.pc = "in" => Len(rx'.frame) < FrameUnits
      PROVE  CallsAgree'
  BY <1>2, <1>4 DEF CallsAgree
<1>5. got \in Seq(Framed) /\ pipe \in Seq(Units)
  BY DEF TransportTypes
<1>6. CASE PipeRead
  <2> DEFINE Taken(n) == rx.frame \o SubSeq(pipe, 1, n)
  <2>1. PICK n \in Nat :
          /\ Taken(n) \in Seq(Units) /\ pipe' \in Seq(Units)
          /\ \/ ReceiveFails
             \/ Len(Taken(n)) = FrameUnits /\ ReceiveReturns(Taken(n))
             \/ /\ Len(Taken(n)) < FrameUnits
                /\ rx' = [rx EXCEPT !.frame = Taken(n)] /\ UNCHANGED got
    BY <1>6, ReadParts
  <2> HIDE DEF Taken
  <2>2. CASE ReceiveFails
    BY <1>1, <1>3, <1>4, <1>5, <2>1, <2>2, Failed
  <2>3. CASE Len(Taken(n)) = FrameUnits /\ ReceiveReturns(Taken(n))
    <3>1. Taken(n) \in Framed
      BY <2>1, <2>3 DEF Framed
    <3>2. QED
      BY <1>1, <1>3, <1>4, <1>5, <2>1, <2>3, <3>1, Returned
  <2>4. CASE /\ Len(Taken(n)) < FrameUnits
             /\ rx' = [rx EXCEPT !.frame = Taken(n)] /\ UNCHANGED got
    <3>1. rx \in [pc : RxPcs, frame : Seq(Units)]
      BY DEF TransportTypes
    <3>2. rx' \in [pc : RxPcs, frame : Seq(Units)] /\ rx'.pc = "in" /\ rx'.frame = Taken(n)
      BY ONLY <1>2, <2>1, <2>4, <3>1
    <3>3. QED
      BY <1>1, <1>3, <1>4, <1>5, <2>1, <2>4, <3>2
  <2>5. QED
    BY <2>1, <2>2, <2>3, <2>4
<1>7. CASE PipeEof /\ UNCHANGED got
  BY <1>1, <1>3, <1>4, <1>5, <1>7, Failed DEF PipeEof
<1>8. QED
  BY <1>6, <1>7


(* The steps of the ingestion thread, those within the transport aside.     *)
LEMMA IngestTypes ==
    ASSUME LinkInv, ReceiverKeeps,
           Start \/ Read \/ Leave \/ ReadEnds \/ Account \/ PushBulk \/ RecordPush
    PROVE  LinkInv'
<1> USE DEF LinkInv, ReceiverKeeps, calls, histories, pipeVars, udpVars, producerVars,
            consumerVars, ingesting, samples
<1>1. SocketTypes'
  BY DEF SocketTypes, Start, Read, Leave, ReadEnds, Account, PushBulk, RecordPush
<1>2. UNCHANGED <<kind, tx, sent, got, pipe, at>>
  BY DEF Start, Read, Leave, ReadEnds, Account, PushBulk, RecordPush
<1>3. ASSUME rx' \in [pc : RxPcs, frame : Seq(Units)] PROVE TransportTypes'
  BY <1>2, <1>3 DEF TransportTypes
<1>4. <<>> \in Seq(Units) /\ Len(<<>>) = 0 /\ {"idle", "in"} \subseteq RxPcs
  BY DEF RxPcs
<1>5. ing \in [pc : IngPcs, ch : Channels, n : Nat, expected : Nat] /\ 1 \in Channels
  BY Sizes DEF ProgramTypes
<1>6. CASE Start \/ Leave
  <2>1. ProgramTypes' /\ TransportTypes' /\ CallsAgree'
    BY <1>3, <1>6, ZenonT(60) DEF Start, Leave, ProgramTypes, TransportTypes, CallsAgree, IngPcs
  <2>2. QED
    BY <1>1, <2>1
<1>7. CASE Read
  <2>1. ProgramTypes' /\ UNCHANGED samples
    BY <1>7 DEF Read, ProgramTypes, IngPcs
  <2>2. rx' = [pc |-> "in", frame |-> <<>>] /\ ing'.pc = "read"
    BY <1>5, <1>7 DEF Read, CallReceive
  <2>3. TransportTypes' /\ rx'.pc = "in" /\ Len(rx'.frame) = 0
    <3>1. rx' \in [pc : RxPcs, frame : Seq(Units)] /\ rx'.pc = "in" /\ Len(rx'.frame) = 0
      BY ONLY <1>4, <2>2
    <3>2. QED
      BY <1>3, <3>1
  <2>4. CallsAgree'
    BY <1>2, <2>2, <2>3, Sizes DEF CallsAgree
  <2>5. QED
    BY <1>1, <2>1, <2>3, <2>4
<1>8. CASE ReadEnds
  <2>1. rx' = [rx EXCEPT !.pc = "idle"] /\ rx \in [pc : RxPcs, frame : Seq(Units)]
    BY <1>8 DEF ReadEnds, TransportTypes
  <2>2. rx' \in [pc : RxPcs, frame : Seq(Units)] /\ rx'.pc = "idle"
    BY ONLY <1>4, <2>1
  <2>3. ProgramTypes'
    BY <1>8 DEF ReadEnds, ProgramTypes, IngPcs
  <2>4. CallsAgree'
    BY <1>2, <2>2, <2>3, <1>8 DEF ReadEnds, CallsAgree
  <2>5. QED
    BY <1>1, <1>3, <2>2, <2>3, <2>4
<1>9. CASE Account
  <2>1. rx.frame \in Framed
    BY <1>9 DEF Account, CallsAgree
  <2>2. SequenceOf(rx.frame) \in Nat /\ HasPayload(rx.frame)
    BY <2>1, FramedFacts
  <2>3. Gap(SequenceOf(rx.frame)) \in Nat
    BY <1>5, <2>2 DEF Gap
  <2>4. /\ ing' = [ing EXCEPT !.pc = "push", !.ch = 1, !.expected = SequenceOf(rx.frame) + 1]
        /\ rx' = rx /\ gaps' = gaps + Gap(SequenceOf(rx.frame)) /\ rx.pc = "true"
    BY <1>9, <2>2 DEF Account
  <2>5. ing' \in [pc : IngPcs, ch : Channels, n : Nat, expected : Nat]
        /\ ing'.pc = "push" /\ ing'.n = ing.n
    <3>1. SequenceOf(rx.frame) + 1 \in Nat /\ "push" \in IngPcs
      BY <2>2 DEF IngPcs
    <3>2. QED
      BY ONLY <1>5, <2>4, <3>1
  <2>6. ProgramTypes'
    BY <1>9, <2>3, <2>4, <2>5, SMTT(30) DEF Account, ProgramTypes
  <2>7. TransportTypes' /\ CallsAgree'
    BY <1>2, <2>1, <2>4, <2>5 DEF CallsAgree, TransportTypes
  <2>8. QED
    BY <1>1, <2>6, <2>7
<1>10. CASE PushBulk
  <2> DEFINE c == ing.ch
             held == Len(ring[c])
             free == RingCapacity - held
             n == IF Block <= free THEN Block ELSE free
             block == [i \in 1..n |-> SequenceOf(rx.frame) * Block + i - 1]
  <2>1. SequenceOf(rx.frame) \in Nat
    BY <1>10, FramedFacts DEF PushBulk, CallsAgree
  <2>2. c \in Channels /\ ring[c] \in Seq(Nat) /\ Len(ring[c]) <= RingCapacity
    BY <1>5 DEF ProgramTypes
  <2>3. n \in Nat /\ n <= Block /\ Len(ring[c]) + n <= RingCapacity
    <3>1. Len(ring[c]) \in Nat
      BY ONLY <2>2
    <3>2. Block \in Nat /\ RingCapacity \in Nat
      BY Sizes
    <3>3. held \in Nat /\ held <= RingCapacity
      BY <2>2, <3>1
    <3> HIDE DEF c, held
    <3>4. n \in Nat /\ n <= Block /\ held + n <= RingCapacity
      BY ONLY <3>2, <3>3
    <3>5. QED
      BY <3>4 DEF held
  <2>4. block \in Seq(Nat) /\ Len(block) = n
    <3>1. \A i \in 1..n : SequenceOf(rx.frame) * Block + i - 1 \in Nat
      BY <2>1, Sizes
    <3> HIDE DEF n
    <3>2. QED
      BY <2>3, <3>1, IsASeq
  <2>5. /\ ring' = [ring EXCEPT ![c] = ring[c] \o block]
        /\ ing' = [ing EXCEPT !.pc = "record", !.n = n]
        /\ UNCHANGED <<rx, pushed, dropped, gaps>> /\ ing.pc = "push"
    BY <1>10 DEF PushBulk
  <2> HIDE DEF c, n, block
  <2>6. ring[c] \o block \in Seq(Nat) /\ Len(ring[c] \o block) <= RingCapacity
    <3>1. ASSUME NEW s \in Seq(Nat), NEW t \in Seq(Nat)
          PROVE  s \o t \in Seq(Nat) /\ Len(s \o t) = Len(s) + Len(t)
      BY ONLY <3>1, Joined
    <3>2. QED
      BY ONLY <2>2, <2>3, <2>4, <3>1
  <2>7. ring' \in [Channels -> Seq(Nat)] /\ \A d \in Channels : Len(ring'[d]) <= RingCapacity
    <3>1. ring \in [Channels -> Seq(Nat)] /\ \A d \in Channels : Len(ring[d]) <= RingCapacity
      BY DEF ProgramTypes
    <3> DEFINE longer == ring[c] \o block
    <3>2. longer \in Seq(Nat) /\ Len(longer) <= RingCapacity /\ ring' = [ring EXCEPT ![c] = longer]
      BY <2>5, <2>6
    <3> HIDE DEF longer
    <3>3. QED
      BY ONLY <2>2, <3>1, <3>2
  <2>8. ing' \in [pc : IngPcs, ch : Channels, n : Nat, expected : Nat]
        /\ ing'.pc = "record" /\ ing'.n = n
    <3>1. "record" \in IngPcs
      BY DEF IngPcs
    <3>2. QED
      BY ONLY <1>5, <2>3, <2>5, <3>1
  <2>9. ProgramTypes'
    BY <2>3, <2>5, <2>7, <2>8 DEF ProgramTypes
  <2>10. TransportTypes' /\ CallsAgree'
    BY <1>2, <2>5, <2>8 DEF CallsAgree, TransportTypes
  <2>11. QED
    BY <1>1, <2>9, <2>10
<1>11. CASE RecordPush
  <2>1. /\ pushed' = [pushed EXCEPT ![ing.ch] = @ + ing.n]
        /\ dropped' = [dropped EXCEPT ![ing.ch] = @ + Block - ing.n]
        /\ UNCHANGED <<ring, gaps>> /\ ing.pc = "record"
    BY <1>11 DEF RecordPush
  <2>2. pushed' \in [Channels -> Nat] /\ dropped' \in [Channels -> Nat]
    <3>1. ing.ch \in Channels /\ ing.n \in Nat /\ ing.n <= Block /\ Block \in Nat
      BY <1>5, Sizes DEF ProgramTypes
    <3>2. pushed \in [Channels -> Nat] /\ dropped \in [Channels -> Nat]
      BY DEF ProgramTypes
    <3>3. pushed[ing.ch] + ing.n \in Nat /\ dropped[ing.ch] + Block - ing.n \in Nat
      BY ONLY <3>1, <3>2
    <3>4. QED
      BY ONLY <2>1, <3>1, <3>2, <3>3
  <2>3. CASE ing.ch < NumChannels
    <3>1. ing' = [ing EXCEPT !.pc = "push", !.ch = @ + 1, !.n = 0] /\ UNCHANGED rx
      BY <1>11, <2>3 DEF RecordPush
    <3>2. ing.ch + 1 \in Channels /\ "push" \in IngPcs
      BY <1>5, <2>3, Sizes DEF IngPcs
    <3>3. ing' \in [pc : IngPcs, ch : Channels, n : Nat, expected : Nat]
          /\ ing'.pc = "push" /\ ing'.n = 0
      BY ONLY <1>5, <3>1, <3>2
    <3>4. ProgramTypes'
      <4>1. 0 <= Block
        BY Sizes
      <4>2. QED
        BY <2>1, <2>2, <3>3, <4>1 DEF ProgramTypes
    <3>5. TransportTypes' /\ CallsAgree'
      BY <1>2, <2>1, <3>1, <3>3 DEF CallsAgree, TransportTypes
    <3>6. QED
      BY <1>1, <3>4, <3>5
  <2>4. CASE ~(ing.ch < NumChannels)
    <3>1. ing' = [ing EXCEPT !.pc = "loop", !.ch = 1, !.n = 0]
          /\ rx' = [pc |-> "idle", frame |-> <<>>]
      BY <1>11, <2>4 DEF RecordPush
    <3>2. "loop" \in IngPcs
      BY DEF IngPcs
    <3>3. ing' \in [pc : IngPcs, ch : Channels, n : Nat, expected : Nat]
          /\ ing'.pc = "loop" /\ ing'.n = 0
      BY ONLY <1>5, <3>1, <3>2
    <3>4. ProgramTypes'
      <4>1. 0 <= Block
        BY Sizes
      <4>2. QED
        BY <2>1, <2>2, <3>3, <4>1 DEF ProgramTypes
    <3>5. rx' \in [pc : RxPcs, frame : Seq(Units)] /\ rx'.pc = "idle"
      BY ONLY <1>4, <3>1
    <3>6. CallsAgree'
      BY <1>2, <3>3, <3>5 DEF CallsAgree
    <3>7. QED
      BY <1>1, <1>3, <3>4, <3>5, <3>6
  <2>5. QED
    BY <2>3, <2>4
<1>12. QED
  BY <1>6, <1>7, <1>8, <1>9, <1>10, <1>11


(* What a receiving call hands on: frames that were in the buffer.          *)
LEMMA ReceiveParts ==
    ASSUME LinkInv, UdpReceive
    PROVE  \E n \in Nat, frames \in Seq(Framed) :
             /\ n <= Len(wire) /\ wire' = SubSeq(wire, n + 1, Len(wire))
             /\ wire' \in Seq(Datagrams)
             /\ \A k \in 1..Len(frames) : \E i \in 1..Len(wire) :
                    frames[k] = wire[i] /\ IsFrame(wire[i])
             /\ \/ recvQueue' = frames /\ UNCHANGED <<rx, got>>
                \/ /\ UNCHANGED recvQueue
                   /\ \/ Len(frames) > 0 /\ frames[1] \in Framed /\ ReceiveReturns(frames[1])
                      \/ UNCHANGED <<rx, got>>
<1> DEFINE n == IF Len(wire) < sockets.rxBurst THEN Len(wire) ELSE sockets.rxBurst
           kept == {i \in 1..n : IsFrame(wire[i])}
<1>1. wire \in Seq(Datagrams) /\ Len(wire) \in Nat /\ sockets \in Sockets
  BY DEF LinkInv, SocketTypes
<1>2. sockets.rxBurst \in Nat
  BY <1>1, UdpAssumption
<1>3. n \in Nat /\ n <= Len(wire)
  BY <1>1, <1>2
<1>4. wire' = SubSeq(wire, n + 1, Len(wire))
  BY DEF UdpReceive
<1>5. PICK pick \in [1..Cardinality(kept) -> kept] :
        LET frames == [k \in DOMAIN pick |-> wire[pick[k]]]
        IN IF sockets.rxBurst > 1
           THEN recvQueue' = frames /\ UNCHANGED <<rx, got>>
           ELSE /\ UNCHANGED recvQueue
                /\ IF frames # <<>> THEN ReceiveReturns(frames[1]) ELSE UNCHANGED <<rx, got>>
  BY DEF UdpReceive
<1> DEFINE frames == [k \in 1..Cardinality(kept) |-> wire[pick[k]]]
<1>6. DOMAIN pick = 1..Cardinality(kept)
  BY <1>5
<1>7. \/ recvQueue' = frames /\ UNCHANGED <<rx, got>>
      \/ /\ UNCHANGED recvQueue
         /\ \/ frames # <<>> /\ ReceiveReturns(frames[1])
            \/ UNCHANGED <<rx, got>>
  BY <1>5, <1>6, Zenon
<1>8. kept \subseteq 1..n
  OBVIOUS
<1>9. \A i \in kept : i \in 1..Len(wire) /\ IsFrame(wire[i]) /\ wire[i] \in Framed
  <2> TAKE i \in kept
  <2>1. i \in 1..n /\ IsFrame(wire[i])
    OBVIOUS
  <2> HIDE DEF n, kept
  <2>2. i \in 1..Len(wire)
    BY ONLY <1>1, <1>3, <2>1
  <2>3. wire[i] \in Datagrams
    BY ONLY <1>1, <2>2, ElementOfSeq
  <2>4. QED
    BY ONLY <2>1, <2>2, <2>3, DatagramFacts
<1>10. Cardinality(kept) \in Nat
  <2> HIDE DEF n, kept
  <2>1. IsFiniteSet(1..n)
    BY ONLY <1>3, FS_Interval, 1 \in Int, \A m \in Nat : m \in Int
  <2>2. QED
    BY ONLY <1>8, <2>1, FS_Subset, FS_CardinalityType
<1> HIDE DEF n, kept
<1>11. \A k \in 1..Cardinality(kept) : pick[k] \in kept
  BY <1>5
<1>12. \A k \in 1..Cardinality(kept) : wire[pick[k]] \in Framed
  BY ONLY <1>9, <1>11
<1>13. frames \in Seq(Framed) /\ Len(frames) = Cardinality(kept)
  BY ONLY <1>10, <1>12, IsASeq
<1>14. \A k \in 1..Len(frames) : \E i \in 1..Len(wire) :
          frames[k] = wire[i] /\ IsFrame(wire[i])
  <2> TAKE k \in 1..Len(frames)
  <2>1. k \in 1..Cardinality(kept)
    BY <1>13
  <2>2. frames[k] = wire[pick[k]]
    BY <2>1
  <2>3. pick[k] \in 1..Len(wire) /\ IsFrame(wire[pick[k]])
    BY ONLY <1>9, <1>11, <2>1
  <2>4. QED
    BY ONLY <2>2, <2>3
<1> HIDE DEF frames
<1>15. frames # <<>> => Len(frames) > 0 /\ frames[1] \in Framed
  BY ONLY <1>13, LenProperties, EmptySeq, ElementOfSeq
<1>16. wire' \in Seq(Datagrams)
  BY ONLY <1>1, <1>3, <1>4, Cut
<1>17. QED
  BY ONLY <1>3, <1>4, <1>7, <1>13, <1>14, <1>15, <1>16

LEMMA ConsumeTypes ==
    ASSUME LinkInv, ConsumeStep, ConsumeKeeps
    PROVE  LinkInv'
<1> USE DEF LinkInv, ConsumeKeeps, ReceiverKeeps, calls, histories, pipeVars, udpVars,
            producerVars, consumerVars, ingesting, samples
<1>1. ProgramTypes'
  BY DEF ProgramTypes
<1>2. rx.pc = "in" /\ got \in Seq(Framed) /\ recvQueue \in Seq(Framed)
  BY DEF ConsumeStep, UdpStopped, UdpFromQueue, UdpTests, UdpEnter, UdpReceive, UdpTimeout,
         TransportTypes, SocketTypes
<1>3. kind = "udp"
  BY DEF ConsumeStep, UdpStopped, UdpFromQueue, UdpTests, UdpEnter, UdpReceive, UdpTimeout,
         TransportTypes, CallsAgree
<1>4. ASSUME rx' \in [pc : RxPcs, frame : Seq(Units)], got' \in Seq(Framed)
      PROVE  TransportTypes'
  BY <1>4 DEF TransportTypes
<1>5. ASSUME wire' \in Seq(Datagrams), recvQueue' \in Seq(Framed)
      PROVE  SocketTypes'
  BY <1>5 DEF SocketTypes
<1>6. ASSUME rx'.pc = "true" => rx'.frame \in Framed, rx'.pc # "in"
      PROVE  CallsAgree'
  BY <1>2, <1>3, <1>6 DEF CallsAgree
<1>7. ASSUME UNCHANGED <<rx, got>> PROVE TransportTypes' /\ CallsAgree'
  BY <1>3, <1>7 DEF TransportTypes, CallsAgree
<1>8. ASSUME UNCHANGED <<wire, recvQueue>> PROVE SocketTypes'
  BY <1>8 DEF SocketTypes
<1>9. ASSUME ReceiveFails PROVE TransportTypes' /\ CallsAgree'
  BY <1>2, <1>4, <1>6, <1>9, Failed
<1>10. ASSUME NEW frame \in Framed, ReceiveReturns(frame) PROVE TransportTypes' /\ CallsAgree'
  <2>1. /\ rx' \in [pc : RxPcs, frame : Seq(Units)]
        /\ rx'.pc = "true" /\ rx'.frame = frame
        /\ got' \in Seq(Framed)
    BY <1>2, <1>10, Returned
  <2>2. QED
    BY <1>4, <1>6, <2>1
<1>11. CASE UdpStopped
  BY <1>1, <1>8, <1>9, <1>11 DEF UdpStopped
<1>12. CASE UdpFromQueue
  <2>1. recvQueue # <<>> /\ ReceiveReturns(Head(recvQueue)) /\ recvQueue' = Tail(recvQueue)
        /\ UNCHANGED wire
    BY <1>12 DEF UdpFromQueue
  <2>2. Head(recvQueue) \in Framed /\ recvQueue' \in Seq(Framed)
    BY <1>2, <2>1, HeadTailProperties
  <2>3. wire' \in Seq(Datagrams)
    BY <2>1 DEF SocketTypes
  <2>4. QED
    BY <1>1, <1>5, <1>10, <2>1, <2>2, <2>3
<1>13. CASE UdpTests
  BY <1>1, <1>7, <1>8, <1>13 DEF UdpTests
<1>14. CASE UdpEnter
  BY <1>1, <1>7, <1>8, <1>9, <1>14 DEF UdpEnter
<1>15. CASE UdpReceive
  <2>1. PICK frames \in Seq(Framed) :
          /\ wire' \in Seq(Datagrams)
          /\ \/ recvQueue' = frames /\ UNCHANGED <<rx, got>>
             \/ /\ UNCHANGED recvQueue
                /\ \/ frames[1] \in Framed /\ ReceiveReturns(frames[1])
                   \/ UNCHANGED <<rx, got>>
    BY <1>15, ReceiveParts
  <2>2. SocketTypes'
    BY <1>2, <1>5, <2>1
  <2>3. TransportTypes' /\ CallsAgree'
    BY <1>7, <1>10, <2>1
  <2>4. QED
    BY <1>1, <2>2, <2>3
<1>16. CASE UdpTimeout
  BY <1>1, <1>7, <1>8, <1>16 DEF UdpTimeout
<1>17. QED
  BY <1>11, <1>12, <1>13, <1>14, <1>15, <1>16 DEF ConsumeStep

(* What the network does to the buffer: a datagram moves or goes, or one    *)
(* comes that was there before or is a stranger's.                          *)
LEMMA NetworkParts ==
    ASSUME LinkInv, UdpNetwork
    PROVE  /\ wire' \in Seq(Datagrams)
           /\ \A k \in 1..Len(wire') :
                wire'[k] \in Strays \/ \E i \in 1..Len(wire) : wire'[k] = wire[i]
<1> DEFINE From(w) == \A k \in 1..Len(w) :
                        w[k] \in Strays \/ \E i \in 1..Len(wire) : w[k] = wire[i]
<1>1. wire \in Seq(Datagrams) /\ Len(wire) \in Nat /\ DOMAIN wire = 1..Len(wire)
  BY DEF LinkInv, SocketTypes
<1>2. ASSUME NEW d \in Datagrams, d \in Strays \/ \E i \in 1..Len(wire) : d = wire[i]
      PROVE  /\ Append(wire, d) \in Seq(Datagrams) /\ From(Append(wire, d))
  <2>1. /\ Append(wire, d) \in Seq(Datagrams) /\ Len(Append(wire, d)) = Len(wire) + 1
        /\ \A i \in 1..Len(wire) : Append(wire, d)[i] = wire[i]
        /\ Append(wire, d)[Len(wire) + 1] = d
    BY ONLY <1>1, <1>2, Appended
  <2>2. From(Append(wire, d))
    <3> SUFFICES ASSUME NEW k \in 1..Len(Append(wire, d))
                 PROVE  \/ Append(wire, d)[k] \in Strays
                        \/ \E i \in 1..Len(wire) : Append(wire, d)[k] = wire[i]
      OBVIOUS
    <3>1. k \in 1..Len(wire) \/ k = Len(wire) + 1
      BY <1>1, <2>1
    <3>2. QED
      BY <1>2, <2>1, <3>1, Zenon
  <2>3. QED
    BY <2>1, <2>2
<1>3. ASSUME NEW i \in 1..Len(wire)
      PROVE  /\ Without(wire, i) \in Seq(Datagrams)
             /\ From(Without(wire, i)) /\ From(<<wire[i]>> \o Without(wire, i))
             /\ <<wire[i]>> \o Without(wire, i) \in Seq(Datagrams)
  <2> DEFINE front == SubSeq(wire, 1, i - 1)
             back == SubSeq(wire, i + 1, Len(wire))
             rest == front \o back
             one == <<wire[i]>>
  <2>1. i - 1 \in Nat /\ i - 1 <= Len(wire) /\ i \in Nat /\ i <= Len(wire)
    BY <1>1
  <2>2. wire[i] \in Datagrams
    BY <1>1, ElementOfSeq
  <2>3. /\ front \in Seq(Datagrams) /\ Len(front) = i - 1
        /\ \A k \in 1..(i - 1) : front[k] = wire[k]
    BY ONLY <1>1, <2>1, Cut
  <2>4. /\ back \in Seq(Datagrams) /\ Len(back) = Len(wire) - i
        /\ \A k \in 1..(Len(wire) - i) : back[k] = wire[i + k]
    BY ONLY <1>1, <2>1, Cut
  <2>5. one \in Seq(Datagrams) /\ Len(one) = 1 /\ one[1] = wire[i]
    BY <2>2
  <2> HIDE DEF front, back, one
  <2>6. From(front) /\ From(back) /\ From(one)
    <3>1. From(front)
      BY <1>1, <2>1, <2>3
    <3>2. From(back)
      BY <1>1, <2>1, <2>4
    <3>3. From(one)
      BY <2>5
    <3>4. QED
      BY <3>1, <3>2, <3>3
  <2>7. ASSUME NEW s \in Seq(Datagrams), NEW t \in Seq(Datagrams), From(s), From(t)
        PROVE  s \o t \in Seq(Datagrams) /\ From(s \o t)
    <3>1. /\ s \o t \in Seq(Datagrams) /\ Len(s \o t) = Len(s) + Len(t)
          /\ \A k \in 1..Len(s) : (s \o t)[k] = s[k]
          /\ \A k \in 1..Len(t) : (s \o t)[Len(s) + k] = t[k]
      BY ONLY <2>7, Joined
    <3>2. Len(s) \in Nat /\ Len(t) \in Nat
      BY ONLY <2>7, LenProperties
    <3>3. ASSUME NEW k \in 1..Len(s \o t)
          PROVE  (s \o t)[k] \in Strays \/ \E j \in 1..Len(wire) : (s \o t)[k] = wire[j]
      <4>1. CASE k \in 1..Len(s)
        BY <2>7, <3>1, <4>1
      <4>2. CASE k \notin 1..Len(s)
        <5>1. k - Len(s) \in 1..Len(t) /\ Len(s) + (k - Len(s)) = k
          BY ONLY <3>1, <3>2, <3>3, <4>2
        <5>2. (s \o t)[k] = t[k - Len(s)]
          BY ONLY <3>1, <5>1
        <5>3. QED
          BY <2>7, <5>1, <5>2
      <4>3. QED
        BY <4>1, <4>2
    <3>4. QED
      BY <3>1, <3>3
  <2> HIDE DEF From
  <2>8. rest \in Seq(Datagrams) /\ From(rest)
    BY ONLY <2>3, <2>4, <2>6, <2>7
  <2> HIDE DEF rest
  <2>9. one \o rest \in Seq(Datagrams) /\ From(one \o rest)
    BY ONLY <2>5, <2>6, <2>7, <2>8
  <2>10. QED
    BY ONLY <2>8, <2>9 DEF Without, rest, front, back, one
<1>4. \A i \in 1..Len(wire) : wire[i] \in Datagrams
  BY ONLY <1>1, ElementOfSeq
<1>5. \/ \E i \in 1..Len(wire) : wire' = Without(wire, i)
      \/ \E i \in 1..Len(wire) : wire' = <<wire[i]>> \o Without(wire, i)
      \/ \E i \in 1..Len(wire) : wire' = Append(wire, wire[i])
      \/ \E d \in Strays : wire' = Append(wire, d)
  BY <1>1 DEF UdpNetwork
<1>6. wire' \in Seq(Datagrams) /\ From(wire')
  <2> HIDE DEF From
  <2>1. QED
    BY ONLY <1>2, <1>3, <1>4, <1>5, DatagramFacts, Zenon
<1>7. QED
  BY <1>6


LEMMA AroundTypes ==
    ASSUME LinkInv,
           \/ OwnerStep \/ Network \/ (\E c \in Channels : Drain(c)) \/ UNCHANGED vars
    PROVE  LinkInv'
<1> USE DEF LinkInv, calls, histories, pipeVars, udpVars, producerVars, consumerVars,
            ingesting, samples
<1>1. CASE OwnerStep
  BY <1>1 DEF OwnerStep, Stop, Destroy, PipeClose, UdpClose,
              TransportTypes, SocketTypes, ProgramTypes, CallsAgree
<1>2. CASE Network
  <2>1. wire' \in Seq(Datagrams)
    BY <1>2, NetworkParts DEF Network
  <2>2. SocketTypes'
    BY <1>2, <2>1 DEF Network, UdpNetwork, SocketTypes
  <2>3. TransportTypes' /\ ProgramTypes' /\ CallsAgree'
    BY <1>2 DEF Network, UdpNetwork, TransportTypes, ProgramTypes, CallsAgree
  <2>4. QED
    BY <2>2, <2>3
<1>3. ASSUME NEW c \in Channels, Drain(c) PROVE LinkInv'
  <2>1. <<>> \in Seq(Nat) /\ Len(<<>>) = 0 /\ 0 <= RingCapacity
    BY Sizes
  <2>2. ring' = [ring EXCEPT ![c] = <<>>] /\ UNCHANGED <<ing, pushed, dropped, gaps, snd>>
    BY <1>3 DEF Drain
  <2>3. ring' \in [Channels -> Seq(Nat)] /\ \A d \in Channels : Len(ring'[d]) <= RingCapacity
    BY <2>1, <2>2 DEF ProgramTypes
  <2>4. ProgramTypes'
    BY <2>2, <2>3 DEF ProgramTypes
  <2>5. TransportTypes' /\ SocketTypes' /\ CallsAgree'
    BY <1>3 DEF Drain, TransportTypes, SocketTypes, CallsAgree
  <2>6. QED
    BY <2>4, <2>5
<1>4. CASE UNCHANGED vars
  BY <1>4 DEF vars, TransportTypes, SocketTypes, ProgramTypes, CallsAgree
<1>5. QED
  BY <1>1, <1>2, <1>3, <1>4

(* A frame is whole wherever it is one, whatever was cut on its way, and    *)
(* the states of the calls fit those of the programs that make them.        *)
THEOREM CallsKept == Spec => []LinkInv
<1>1. LinkInv /\ [Next]_vars => LinkInv'
  BY Steps, SenderStepTypes, PipeWriteTypes, ProduceTypes, IngestTypes, PipeReceiveTypes,
     ConsumeTypes, AroundTypes, Zenon
<1>2. QED
  BY InitLinkInv, <1>1, PTL DEF Spec

-----------------------------------------------------------------------------
(* Batches.  What was sent and what waits in the batch are one sequence of  *)
(* frames, 0, 1, 2, ...; how many there are follows from where the sender   *)
(* is: a frame in hand is not yet among them, one accepted is counted       *)
(* before the sender knows.                                                 *)

Undelayed == {"loop", "flush", "exit", "gone"}

SenderInCall ==
    /\ snd.pc \in Undelayed => tx.pc = "idle"
    /\ snd.pc = "sending" => tx.pc \in {"in", "flush", "true", "false"}
    /\ snd.pc = "flushing" => tx.pc \in {"flush", "true"}
    /\ sockets.txBurst = 1 => batch = <<>>

Numbered ==
    /\ \A i \in 1..Len(emitted) : emitted[i] = i - 1
    /\ \A i \in 1..Len(batch) : SequenceOf(batch[i]) = Len(emitted) + i - 1

Counted ==
    /\ snd.pc # "sending" \/ tx.pc \in {"in", "false"} => Len(emitted) + Len(batch) = snd.next
    /\ snd.pc = "sending" /\ tx.pc \in {"flush", "true"} =>
          Len(emitted) + Len(batch) = snd.next + 1
    /\ tx.pc = "in" => SequenceOf(tx.frame) = snd.next

BurstInv == kind = "udp" => SenderInCall /\ (~lostBatch => Numbered /\ Counted)

LEMMA InitBurst == Init => BurstInv
BY DEF Init, TransportInit, UdpInit, BurstInv, SenderInCall, Undelayed, Numbered, Counted

LEMMA BurstSender ==
    ASSUME LinkInv, BurstInv, SenderKeeps,
           \/ SenderCalls \/ SenderLeaves \/ SenderReturned \/ SenderFlushes \/ SenderFlushed
           \/ Gone /\ (kind = "udp" => snd.pc = "exit")
    PROVE  BurstInv'
<1> SUFFICES ASSUME kind = "udp"
             PROVE  SenderInCall' /\ (~lostBatch' => Numbered' /\ Counted')
  BY DEF BurstInv, SenderKeeps
<1>1. UNCHANGED <<emitted, batch, lostBatch, sockets>>
  BY DEF SenderCalls, SenderLeaves, SenderReturned, SenderFlushes, UdpFlush, SenderFlushed, Gone,
         udpVars, producerVars
<1>2. SenderInCall /\ (~lostBatch => Numbered /\ Counted)
  BY DEF BurstInv
<1>3. ~lostBatch' => Numbered'
  BY <1>1, <1>2 DEF Numbered
<1>4. snd \in [pc : SndPcs, next : Nat] /\ tx \in [pc : TxPcs, frame : Seq(Units)]
  BY DEF LinkInv, ProgramTypes, TransportTypes
<1> USE DEF Undelayed
<1>5. CASE SenderCalls
  <2>1. /\ tx' = [pc |-> "in", frame |-> WholeFrame(snd.next)]
        /\ snd' = [snd EXCEPT !.pc = "sending"] /\ snd.pc = "loop"
    BY <1>5 DEF SenderCalls, CallSend
  <2>2. /\ tx'.pc = "in" /\ tx'.frame = WholeFrame(snd.next)
        /\ snd'.pc = "sending" /\ snd'.next = snd.next
    BY ONLY <1>4, <2>1
  <2>3. SequenceOf(tx'.frame) = snd.next
    BY <1>4, <2>2, WholeFrames
  <2>4. SenderInCall'
    BY <1>1, <1>2, <2>2 DEF SenderInCall
  <2>5. ~lostBatch' => Counted'
    BY <1>1, <1>2, <2>1, <2>2, <2>3 DEF Counted
  <2>6. QED
    BY <1>3, <2>4, <2>5
<1>6. CASE SenderLeaves
  <2>1. snd.pc = "loop" /\ snd'.pc \in {"exit", "flush"} /\ snd'.next = snd.next /\ UNCHANGED tx
    BY <1>4, <1>6 DEF SenderLeaves, Leaving, calls
  <2>2. QED
    BY <1>1, <1>2, <1>3, <2>1 DEF SenderInCall, Counted
<1>7. CASE SenderReturned
  <2>1. /\ snd.pc = "sending" /\ tx.pc \in {"true", "false"}
        /\ tx'.pc = "idle" /\ tx'.frame = tx.frame
        /\ snd'.pc \in {"loop", "exit", "flush"}
        /\ snd'.next = IF tx.pc = "true" THEN snd.next + 1 ELSE snd.next
    BY <1>4, <1>7 DEF SenderReturned, Leaving
  <2>2. SenderInCall'
    BY <1>1, <1>2, <2>1 DEF SenderInCall
  <2>3. ~lostBatch' => Counted'
    BY <1>1, <1>2, <2>1 DEF Counted
  <2>4. QED
    BY <1>3, <2>2, <2>3
<1>8. CASE SenderFlushes
  <2>1. /\ snd.pc = "flush" /\ snd'.pc = "flushing" /\ snd'.next = snd.next
        /\ tx'.pc = "flush" /\ tx'.frame = tx.frame
    BY <1>4, <1>8 DEF SenderFlushes, UdpFlush
  <2>2. QED
    BY <1>1, <1>2, <1>3, <2>1 DEF SenderInCall, Counted
<1>9. CASE SenderFlushed
  <2>1. /\ snd.pc = "flushing" /\ snd'.pc = "exit" /\ snd'.next = snd.next
        /\ tx'.pc = "idle" /\ tx'.frame = tx.frame
    BY <1>4, <1>9 DEF SenderFlushed
  <2>2. QED
    BY <1>1, <1>2, <1>3, <2>1 DEF SenderInCall, Counted
<1>10. CASE Gone /\ (kind = "udp" => snd.pc = "exit")
  <2>1. snd.pc = "exit" /\ snd'.pc = "gone" /\ snd'.next = snd.next /\ UNCHANGED tx
    BY <1>4, <1>10 DEF Gone, calls
  <2>2. QED
    BY <1>1, <1>2, <1>3, <2>1 DEF SenderInCall, Counted
<1>11. QED
  BY <1>5, <1>6, <1>7, <1>8, <1>9, <1>10

LEMMA BurstProduce ==
    ASSUME LinkInv, BurstInv, ProduceStep, ProduceKeeps
    PROVE  BurstInv'
<1> SUFFICES ASSUME kind = "udp"
             PROVE  SenderInCall' /\ (~lostBatch' => Numbered' /\ Counted')
  BY DEF BurstInv, ProduceKeeps, SenderKeeps
<1>1. SenderInCall /\ (~lostBatch => Numbered /\ Counted)
  BY DEF BurstInv
<1>2. UNCHANGED <<snd, sockets>>
  BY DEF ProduceKeeps
<1>3. /\ snd.next \in Nat /\ snd.pc \in SndPcs /\ tx.pc \in TxPcs
      /\ batch \in Seq(Framed) /\ wire \in Seq(Datagrams) /\ emitted \in Seq(Nat)
      /\ Len(batch) \in Nat /\ Len(emitted) \in Nat
  BY DEF LinkInv, ProgramTypes, TransportTypes, SocketTypes
<1>4. tx.pc \in {"in", "flush"}
  BY DEF ProduceStep, UdpRefuse, UdpSendOne, UdpEnqueue, UdpFlushSome, UdpFlushFails
<1>5. /\ tx.pc = "in" => snd.pc = "sending"
      /\ tx.pc = "flush" => snd.pc \in {"sending", "flushing"}
  BY <1>1, <1>3 DEF SenderInCall, Undelayed, SndPcs
<1>6. \A ok \in BOOLEAN : SendReturns(ok) => tx'.pc = IF ok THEN "true" ELSE "false"
  BY DEF SendReturns
<1>7. ASSUME tx'.pc \in {"flush", "true"}, snd.pc = "flushing" \/ snd.pc = "sending",
             sockets.txBurst = 1 => batch' = <<>>
      PROVE  SenderInCall'
  BY <1>2, <1>7 DEF SenderInCall, Undelayed
<1>8. CASE UdpRefuse
  <2>1. tx.pc = "in" /\ tx'.pc = "false" /\ UNCHANGED <<batch, emitted, lostBatch>>
    BY <1>6, <1>8 DEF UdpRefuse, producerVars
  <2>2. QED
    BY <1>1, <1>2, <1>5, <2>1 DEF SenderInCall, Undelayed, Numbered, Counted
<1>9. ASSUME NEW ok \in BOOLEAN, UdpSendOne(ok)
      PROVE  SenderInCall' /\ (~lostBatch' => Numbered' /\ Counted')
  <2>1. tx.pc = "in" /\ UNCHANGED <<batch, lostBatch>> /\ tx.frame \in Framed /\ batch = <<>>
    BY <1>1, <1>9 DEF UdpSendOne, LinkInv, CallsAgree, SenderInCall
  <2>2. CASE ok
    <3>1. tx'.pc = "true" /\ Transmit(<<tx.frame>>, 1)
      BY <1>6, <1>9, <2>2 DEF UdpSendOne
    <3>2. <<tx.frame>> \in Seq(Framed) /\ Len(<<tx.frame>>) = 1 /\ <<tx.frame>>[1] = tx.frame
      BY ONLY <2>1, OneFrame
    <3>3. /\ Len(emitted') = Len(emitted) + 1
          /\ \A i \in 1..Len(emitted) : emitted'[i] = emitted[i]
          /\ \A i \in 1..1 : emitted'[Len(emitted) + i] = SequenceOf(<<tx.frame>>[i])
      <4>1. 1 \in Nat /\ 1 <= 1
        OBVIOUS
      <4>2. QED
        BY ONLY <1>3, <3>1, <3>2, <4>1, TransmitTypes
    <3>4. emitted'[Len(emitted) + 1] = SequenceOf(tx.frame)
      BY ONLY <3>2, <3>3, 1 \in 1..1
    <3>5. SenderInCall'
      BY <1>5, <1>7, <2>1, <3>1
    <3>6. ASSUME ~lostBatch' PROVE Numbered' /\ Counted'
      <4>1. Numbered /\ Len(emitted) = snd.next /\ SequenceOf(tx.frame) = snd.next /\ Len(batch) = 0
        BY <1>1, <1>5, <2>1, <3>6 DEF Counted
      <4>2. \A i \in 1..Len(emitted') : emitted'[i] = i - 1
        <5> TAKE i \in 1..Len(emitted')
        <5>1. i \in 1..Len(emitted) \/ i = Len(emitted) + 1
          BY <1>3, <3>3
        <5>2. CASE i \in 1..Len(emitted)
          BY <3>3, <4>1, <5>2 DEF Numbered
        <5>3. CASE i = Len(emitted) + 1
          BY <1>3, <3>4, <4>1, <5>3
        <5>4. QED
          BY <5>1, <5>2, <5>3
      <4>3. Numbered'
        BY <2>1, <4>1, <4>2 DEF Numbered
      <4>4. Counted'
        BY <1>2, <1>3, <1>5, <2>1, <3>1, <3>3, <4>1 DEF Counted
      <4>5. QED
        BY <4>3, <4>4
    <3>7. QED
      BY <3>5, <3>6
  <2>3. CASE ~ok
    <3>1. tx'.pc = "false" /\ UNCHANGED emitted
      BY <1>6, <1>9, <2>3 DEF UdpSendOne
    <3>2. QED
      BY <1>1, <1>2, <1>5, <2>1, <3>1 DEF SenderInCall, Undelayed, Numbered, Counted
  <2>4. QED
    BY <2>2, <2>3
<1>10. CASE UdpEnqueue
  <2>1. /\ tx.pc = "in" /\ UNCHANGED <<emitted, lostBatch>> /\ tx.frame \in Framed
        /\ batch' = Append(batch, tx.frame) /\ sockets.txBurst > 1
        /\ tx' = [pc |-> "flush", frame |-> <<>>] \/ SendReturns(TRUE)
    BY <1>10 DEF UdpEnqueue, LinkInv, CallsAgree
  <2>2. tx'.pc \in {"flush", "true"}
    <3>1. CASE SendReturns(TRUE)
      BY <3>1 DEF SendReturns
    <3>2. CASE tx' = [pc |-> "flush", frame |-> <<>>]
      BY ONLY <3>2
    <3>3. QED
      BY <2>1, <3>1, <3>2
  <2>3. /\ Len(batch') = Len(batch) + 1
        /\ \A i \in 1..Len(batch) : batch'[i] = batch[i]
        /\ batch'[Len(batch) + 1] = tx.frame
    BY ONLY <1>3, <2>1, Appended
  <2>4. SenderInCall'
    BY <1>5, <1>7, <2>1, <2>2
  <2>5. ASSUME ~lostBatch' PROVE Numbered' /\ Counted'
    <3>1. /\ Numbered /\ Len(emitted) + Len(batch) = snd.next /\ SequenceOf(tx.frame) = snd.next
      BY <1>1, <1>5, <2>1, <2>5 DEF Counted
    <3>2. \A i \in 1..Len(batch') : SequenceOf(batch'[i]) = Len(emitted) + i - 1
      <4> TAKE i \in 1..Len(batch')
      <4>1. i \in 1..Len(batch) \/ i = Len(batch) + 1
        BY <1>3, <2>3
      <4>2. CASE i \in 1..Len(batch)
        BY <2>3, <3>1, <4>2 DEF Numbered
      <4>3. CASE i = Len(batch) + 1
        BY <1>3, <2>3, <3>1, <4>3
      <4>4. QED
        BY <4>1, <4>2, <4>3
    <3>3. Numbered'
      BY <2>1, <3>1, <3>2 DEF Numbered
    <3>4. Counted'
      BY <1>2, <1>3, <1>5, <2>1, <2>2, <2>3, <3>1 DEF Counted
    <3>5. QED
      BY <3>3, <3>4
  <2>6. QED
    BY <2>4, <2>5
<1>11. CASE UdpFlushSome
  <2>1. PICK n \in 1..Len(batch) :
          /\ Transmit(batch, n)
          /\ batch' = SubSeq(batch, n + 1, Len(batch))
          /\ SendReturns(TRUE) \/ UNCHANGED tx
    BY <1>11 DEF UdpFlushSome
  <2>2. n \in Nat /\ n <= Len(batch) /\ tx.pc = "flush" /\ UNCHANGED lostBatch
    BY <1>3, <1>11 DEF UdpFlushSome
  <2>3. /\ Len(batch') = Len(batch) - n
        /\ \A i \in 1..(Len(batch) - n) : batch'[i] = batch[n + i]
    BY ONLY <1>3, <2>1, <2>2, Cut
  <2>4. /\ Len(emitted') = Len(emitted) + n
        /\ \A i \in 1..Len(emitted) : emitted'[i] = emitted[i]
        /\ \A i \in 1..n : emitted'[Len(emitted) + i] = SequenceOf(batch[i])
    BY ONLY <1>3, <2>1, <2>2, TransmitTypes
  <2>5. tx'.pc \in {"flush", "true"}
    BY <1>6, <2>1, <2>2
  <2>6. sockets.txBurst = 1 => batch' = <<>>
    <3>1. sockets.txBurst = 1 => Len(batch) = 0
      BY <1>1 DEF SenderInCall
    <3>2. QED
      BY <1>3, <2>2, <3>1, <2>1
  <2>7. SenderInCall'
    BY <1>5, <1>7, <2>2, <2>5, <2>6
  <2>8. ASSUME ~lostBatch' PROVE Numbered' /\ Counted'
    <3>1. Numbered /\ Counted
      BY <1>1, <2>2, <2>8
    <3>2. ASSUME NEW i \in 1..Len(emitted') PROVE emitted'[i] = i - 1
      <4>1. CASE i \in 1..Len(emitted)
        BY <2>4, <3>1, <4>1 DEF Numbered
      <4>2. CASE i \notin 1..Len(emitted)
        <5>1. i - Len(emitted) \in 1..n /\ Len(emitted) + (i - Len(emitted)) = i
              /\ i - Len(emitted) \in 1..Len(batch) /\ i \in Int
          BY ONLY <1>3, <2>2, <2>4, <3>2, <4>2
        <5>2. emitted'[i] = SequenceOf(batch[i - Len(emitted)])
          BY ONLY <2>4, <5>1
        <5>3. SequenceOf(batch[i - Len(emitted)]) = Len(emitted) + (i - Len(emitted)) - 1
          BY ONLY <3>1, <5>1 DEF Numbered
        <5>4. QED
          BY ONLY <5>1, <5>2, <5>3
      <4>3. QED
        BY <4>1, <4>2
    <3>3. ASSUME NEW i \in 1..Len(batch')
          PROVE  SequenceOf(batch'[i]) = Len(emitted') + i - 1
      <4>1. i \in 1..(Len(batch) - n) /\ n + i \in 1..Len(batch) /\ i \in Int
        BY ONLY <1>3, <2>2, <2>3, <3>3
      <4>2. SequenceOf(batch'[i]) = Len(emitted) + (n + i) - 1
        BY ONLY <2>3, <3>1, <4>1 DEF Numbered
      <4>3. QED
        BY ONLY <1>3, <2>2, <2>4, <4>1, <4>2
    <3>4. Numbered'
      BY <3>2, <3>3 DEF Numbered
    <3>5. Len(emitted') + Len(batch') = Len(emitted) + Len(batch)
      BY ONLY <1>3, <2>2, <2>3, <2>4
    <3>6. Counted'
      BY <1>2, <1>5, <2>2, <2>5, <3>1, <3>5 DEF Counted
    <3>7. QED
      BY <3>4, <3>6
  <2>9. QED
    BY <2>7, <2>8
<1>12. CASE UdpFlushFails
  <2>1. tx.pc = "flush" /\ tx'.pc = "true" /\ batch' = <<>> /\ lostBatch' = TRUE
    BY <1>6, <1>12 DEF UdpFlushFails
  <2>2. QED
    BY <1>5, <1>7, <2>1
<1>13. QED
  BY <1>8, <1>9, <1>10, <1>11, <1>12 DEF ProduceStep

LEMMA BurstOthers ==
    ASSUME BurstInv, UNCHANGED <<kind, tx, snd, sockets, batch, emitted, lostBatch>>
    PROVE  BurstInv'
BY DEF BurstInv, SenderInCall, Numbered, Counted

LEMMA BurstStep == LinkInv /\ BurstInv /\ [Next]_vars => BurstInv'
<1> SUFFICES ASSUME LinkInv, BurstInv, [Next]_vars PROVE BurstInv'
  OBVIOUS
<1> USE DEF calls, histories, pipeVars, udpVars, producerVars, ingesting, samples
<1>1. CASE PipeWrite /\ SenderKeeps /\ UNCHANGED <<sent, udpVars, snd>>
  BY <1>1 DEF PipeWrite, SenderKeeps, BurstInv
<1>2. CASE /\ ReceiverKeeps
           /\ Start \/ Read \/ Leave \/ ReadEnds \/ Account \/ PushBulk \/ RecordPush
  BY <1>2, BurstOthers
     DEF ReceiverKeeps, Start, Read, Leave, ReadEnds, Account, PushBulk, RecordPush
<1>3. CASE /\ ReceiverKeeps /\ UNCHANGED <<udpVars, ingesting>>
           /\ PipeRead \/ PipeEof
  BY <1>3, BurstOthers DEF ReceiverKeeps, PipeRead, PipeEof
<1>4. CASE ConsumeStep /\ ConsumeKeeps
  BY <1>4, BurstOthers DEF ConsumeKeeps, ReceiverKeeps
<1>5. CASE OwnerStep
  BY <1>5, BurstOthers DEF OwnerStep, Stop, Destroy, PipeClose, UdpClose
<1>6. CASE Network
  BY <1>6, BurstOthers DEF Network, UdpNetwork
<1>7. CASE \E c \in Channels : Drain(c)
  BY <1>7, BurstOthers DEF Drain
<1>8. CASE UNCHANGED vars
  BY <1>8, BurstOthers DEF vars
<1>9. CASE ProduceStep /\ ProduceKeeps
  BY <1>9, BurstProduce
<1>10. CASE \/ SenderCalls /\ SenderKeeps
            \/ SenderLeaves /\ SenderKeeps
            \/ SenderReturned /\ SenderKeeps
            \/ SenderFlushes /\ SenderKeeps
            \/ SenderFlushed /\ SenderKeeps
            \/ Gone /\ SenderKeeps /\ (kind = "udp" => snd.pc = "exit")
  BY <1>10, BurstSender
<1>11. QED
  BY Steps, <1>1, <1>2, <1>3, <1>4, <1>5, <1>6, <1>7, <1>8, <1>9, <1>10, Zenon

(* Whatever part of a batch each sendmmsg takes, the frames that were sent  *)
(* are 0, 1, 2, ... in this order, and all that were accepted when none     *)
(* waits, unless a call failed (udp_transport.cpp:222-240).                 *)
THEOREM BurstOrder == Spec => []BurstKeepsOrder
<1>1. LinkInv /\ BurstInv => BurstKeepsOrder
  <2> SUFFICES ASSUME LinkInv, BurstInv, kind = "udp", ~lostBatch
               PROVE  /\ \A i \in DOMAIN emitted : emitted[i] = i - 1
                      /\ batch = <<>> /\ tx.pc = "idle" => Len(emitted) = snd.next
    BY DEF BurstKeepsOrder
  <2>1. SenderInCall /\ Numbered /\ Counted
    BY DEF BurstInv
  <2>2. DOMAIN emitted = 1..Len(emitted) /\ Len(emitted) \in Nat
    BY DEF LinkInv, SocketTypes
  <2>3. QED
    BY <2>1, <2>2 DEF Numbered, Counted, SenderInCall
<1>2. QED
  BY CallsKept, InitBurst, BurstStep, <1>1, PTL DEF Spec

-----------------------------------------------------------------------------
(* Lag.  The thread expects no more than the first number it saw, the       *)
(* frames it has accounted for since, and the gaps it has reported; each    *)
(* of these frames is a block that a channel's counters have, the frame in  *)
(* hand excepted.                                                           *)

Accounted == IF ing.pc = "read" /\ rx.pc = "true" THEN Len(got) - 1 ELSE Len(got)
Handled(c) == IF ing.pc \in {"push", "record"} /\ ing.ch <= c THEN Accounted - 1 ELSE Accounted
Base == SequenceOf(got[1])
InHand(c) == IF ing.pc = "record" /\ ing.ch = c THEN ing.n ELSE 0
Known(c) == pushed[c] + InHand(c) + dropped[c] + Block * gaps

(* The newest sample a channel's ring can hold. *)
Limit(c) == Base * Block + Known(c) - Len(ring[c])

Expecting ==
    /\ rx.pc = "true" => Len(got) > 0 /\ rx.frame = got[Len(got)]
    /\ Accounted = 0 => ing.expected = 0
    /\ Accounted > 0 => ing.expected > 0 /\ ing.expected <= Base + Accounted + gaps
    /\ ing.pc \in {"push", "record"} => ing.expected = SequenceOf(rx.frame) + 1

Counters == \A c \in Channels : pushed[c] + dropped[c] = Handled(c) * Block

Reported ==
    /\ Len(got) = 0 => \A c \in Channels : ring[c] = <<>>
    /\ \A c \in Channels : \A i \in 1..Len(ring[c]) : ring[c][i] <= Limit(c) + i - 1

LagInv == Expecting /\ Counters /\ Reported

(* The types the arithmetic needs.                                          *)
LEMMA LagTypes ==
    ASSUME LinkInv, LagInv
    PROVE  /\ Len(got) \in Nat /\ Accounted \in Nat /\ gaps \in Nat
           /\ ing.expected \in Nat /\ ing.n \in Nat /\ ing.n <= Block /\ ing.ch \in Channels
           /\ Len(got) > 0 => Base \in Nat
           /\ \A c \in Channels :
                /\ pushed[c] \in Nat /\ dropped[c] \in Nat /\ Handled(c) \in Nat
                /\ InHand(c) \in Nat /\ InHand(c) <= Block /\ Known(c) \in Nat
                /\ Len(ring[c]) \in Nat /\ ring[c] \in Seq(Nat)
           /\ Block * gaps \in Nat
<1>1. got \in Seq(Framed) /\ Len(got) \in Nat /\ gaps \in Nat
  BY DEF LinkInv, TransportTypes, ProgramTypes
<1>2. /\ ing.expected \in Nat /\ ing.n \in Nat /\ ing.n <= Block /\ ing.ch \in Channels
      /\ ing.pc \in IngPcs
  BY DEF LinkInv, ProgramTypes
<1>3. Block * gaps \in Nat /\ Block \in Nat
  BY <1>1, Sizes
<1>4. Accounted \in Nat
  BY <1>1 DEF Accounted, LagInv, Expecting
<1>5. Len(got) > 0 => Base \in Nat
  <2>1. ASSUME Len(got) > 0 PROVE got[1] \in Framed
    BY ONLY <1>1, <2>1, ElementOfSeq
  <2>2. QED
    BY <2>1, FramedFacts DEF Base
<1>6. ing.pc \in {"push", "record"} => Accounted > 0
  BY <1>1 DEF LagInv, Expecting, LinkInv, CallsAgree, Accounted
<1>7. ASSUME NEW c \in Channels
      PROVE  /\ pushed[c] \in Nat /\ dropped[c] \in Nat /\ Handled(c) \in Nat
             /\ InHand(c) \in Nat /\ InHand(c) <= Block /\ Known(c) \in Nat
             /\ Len(ring[c]) \in Nat /\ ring[c] \in Seq(Nat)
  <2>1. pushed[c] \in Nat /\ dropped[c] \in Nat /\ ring[c] \in Seq(Nat)
    BY DEF LinkInv, ProgramTypes
  <2>2. Len(ring[c]) \in Nat
    BY ONLY <2>1, LenProperties
  <2>3. Handled(c) \in Nat
    BY <1>4, <1>6 DEF Handled
  <2>4. InHand(c) \in Nat /\ InHand(c) <= Block
    BY <1>2, <1>3, Sizes DEF InHand
  <2>5. Known(c) \in Nat
    BY ONLY <1>3, <2>1, <2>4 DEF Known
  <2>6. QED
    BY <2>1, <2>2, <2>3, <2>4, <2>5
<1>8. QED
  BY ONLY <1>1, <1>2, <1>3, <1>4, <1>5, <1>7

(* A sample is within its limit as long as the limit does not fall.         *)
LEMMA LimitKept ==
    ASSUME LinkInv, LagInv, LinkInv', UNCHANGED <<got, ring>>,
           \A c \in Channels : Known(c) <= Known(c)' /\ Known(c)' \in Nat
    PROVE  Reported'
<1>1. ASSUME NEW c \in Channels, NEW i \in 1..Len(ring[c])
      PROVE  ring[c][i] <= Limit(c)' + i - 1
  <2>1. ring[c][i] <= Limit(c) + i - 1
    BY DEF LagInv, Reported
  <2>2. Len(got) > 0
    <3>1. Len(ring[c]) > 0 /\ Len(got) \in Nat
      BY LagTypes
    <3>2. ring[c] # <<>>
      BY <3>1
    <3>3. QED
      BY <3>1, <3>2 DEF LagInv, Reported
  <2>3. /\ Base * Block \in Nat /\ Known(c) \in Nat /\ Known(c)' \in Nat /\ Len(ring[c]) \in Nat
        /\ Known(c) <= Known(c)' /\ i \in Nat /\ ring[c][i] \in Nat
    <3>1. Base * Block \in Nat
      <4>1. Base \in Nat /\ Block \in Nat
        BY <2>2, LagTypes, Sizes
      <4>2. QED
        BY ONLY <4>1
    <3>2. ring[c] \in Seq(Nat) /\ Len(ring[c]) \in Nat /\ Known(c) \in Nat
      BY LagTypes
    <3>3. ring[c][i] \in Nat
      BY ONLY <1>1, <3>2, ElementOfSeq
    <3>4. i \in Nat
      BY ONLY <1>1, <3>2
    <3>5. QED
      BY <3>1, <3>2, <3>3, <3>4
  <2>4. Limit(c) = Base * Block + Known(c) - Len(ring[c])
    BY DEF Limit
  <2>5. Limit(c)' = Base * Block + Known(c)' - Len(ring[c])
    BY DEF Limit, Base
  <2>6. QED
    BY ONLY <2>1, <2>3, <2>4, <2>5
<1>2. Len(got) = 0 => \A c \in Channels : ring[c] = <<>>
  BY DEF LagInv, Reported
<1>3. QED
  BY <1>1, <1>2 DEF Reported

LEMMA InitLag == Init => LagInv
<1> SUFFICES ASSUME Init PROVE LagInv
  OBVIOUS
<1>1. /\ got = <<>> /\ rx.pc = "idle" /\ ing.pc = "off" /\ ing.expected = 0
      /\ ring = [c \in Channels |-> <<>>] /\ pushed = [c \in Channels |-> 0]
      /\ dropped = [c \in Channels |-> 0]
  BY DEF Init, TransportInit
<1>2. Accounted = 0 /\ \A c \in Channels : Handled(c) = 0
  BY <1>1 DEF Accounted, Handled
<1>3. Expecting
  BY <1>1, <1>2 DEF Expecting
<1>4. Counters
  BY <1>1, <1>2, Sizes DEF Counters
<1>5. Reported
  BY <1>1 DEF Reported
<1>6. QED
  BY <1>3, <1>4, <1>5 DEF LagInv

(* There is no frame in hand before and after a step.                       *)
LEMMA LagWaiting ==
    ASSUME LinkInv, LagInv, LinkInv', UNCHANGED <<got, samples, gaps>>,
           ing'.expected = ing.expected, rx.pc # "true", rx'.pc # "true"
    PROVE  LagInv'
<1> USE DEF samples
<1>1. Accounted' = Accounted
  BY DEF Accounted
<1>3. ing.pc \notin {"push", "record"} /\ ing'.pc \notin {"push", "record"}
  BY DEF LinkInv, CallsAgree
<1>2. \A c \in Channels : Handled(c)' = Handled(c) /\ Known(c)' = Known(c)
  BY <1>1, <1>3 DEF Handled, Known, InHand
<1>4. Expecting'
  BY <1>1, <1>3 DEF LagInv, Expecting, Base
<1>5. Counters'
  BY <1>2 DEF LagInv, Counters
<1>6. Reported'
  BY <1>2, LagTypes, LimitKept
<1>7. QED
  BY <1>4, <1>5, <1>6 DEF LagInv

(* receive_frame returns a frame, which is not yet accounted for.           *)
LEMMA LagReceived ==
    ASSUME LinkInv, LagInv, LinkInv', UNCHANGED ingesting, rx.pc = "in",
           NEW frame \in Framed, ReceiveReturns(frame)
    PROVE  LagInv'
<1> USE DEF ingesting, samples
<1>1. rx' = [pc |-> "true", frame |-> frame] /\ got' = Append(got, frame)
  BY DEF ReceiveReturns
<1>2. rx'.pc = "true" /\ rx'.frame = frame
  BY ONLY <1>1
<1>3. got \in Seq(Framed) /\ Len(got) \in Nat
  BY DEF LinkInv, TransportTypes
<1>4. /\ Len(got') = Len(got) + 1 /\ got'[Len(got) + 1] = frame
      /\ \A i \in 1..Len(got) : got'[i] = got[i]
  BY ONLY <1>1, <1>3, frame \in Framed, Appended
<1>5. ing.pc = "read"
  BY DEF LinkInv, CallsAgree, ProgramTypes, IngPcs
<1>6. Accounted = Len(got) /\ Accounted' = Len(got)
  BY <1>2, <1>3, <1>4, <1>5 DEF Accounted
<1>7. Len(got) > 0 => Base' = Base
  BY <1>3, <1>4 DEF Base
<1>8. \A c \in Channels : Handled(c)' = Handled(c) /\ Known(c)' = Known(c)
  BY <1>5, <1>6 DEF Handled, Known, InHand
<1>9. Expecting'
  BY <1>2, <1>3, <1>4, <1>5, <1>6, <1>7 DEF LagInv, Expecting
<1>10. Counters'
  BY <1>8 DEF LagInv, Counters
<1>11. Reported'
  <2>1. CASE Len(got) = 0
    BY <1>3, <1>4, <2>1 DEF LagInv, Reported
  <2>2. CASE Len(got) > 0
    BY <1>3, <1>4, <1>7, <1>8, <2>2 DEF LagInv, Reported, Limit
  <2>3. QED
    BY <1>3, <2>1, <2>2
<1>12. QED
  BY <1>9, <1>10, <1>11 DEF LagInv


(* A frame is accounted for: what it is ahead of the expected one goes into *)
(* the gaps.                                                                *)
LEMMA LagAccount ==
    ASSUME LinkInv, LagInv, LinkInv', Account, ReceiverKeeps
    PROVE  LagInv'
<1> DEFINE seq == SequenceOf(rx.frame)
<1>1. rx.pc = "true" /\ ing.pc = "read" /\ rx.frame \in Framed
  BY DEF Account, LinkInv, CallsAgree
<1>2. seq \in Nat /\ HasPayload(rx.frame)
  BY <1>1, FramedFacts
<1>3. ing \in [pc : IngPcs, ch : Channels, n : Nat, expected : Nat]
  BY DEF LinkInv, ProgramTypes
<1>4. /\ ing' = [ing EXCEPT !.pc = "push", !.ch = 1, !.expected = seq + 1]
      /\ gaps' = gaps + Gap(seq)
      /\ UNCHANGED <<rx, got, ring, pushed, dropped>>
  BY <1>2 DEF Account, samples
<1>5. ing'.pc = "push" /\ ing'.ch = 1 /\ ing'.n = ing.n /\ ing'.expected = seq + 1
  BY ONLY <1>3, <1>4
<1>6. Len(got) \in Nat /\ gaps \in Nat /\ ing.expected \in Nat /\ Block \in Nat
  BY LagTypes, Sizes
<1>7. Len(got) > 0 /\ rx.frame = got[Len(got)]
  BY <1>1 DEF LagInv, Expecting
<1>8. Accounted = Len(got) - 1 /\ Accounted' = Len(got)
  BY <1>1, <1>4, <1>5 DEF Accounted
<1>9. Base \in Nat /\ Base' = Base
  BY <1>4, <1>7, LagTypes DEF Base
<1>10. /\ Accounted = 0 => ing.expected = 0
       /\ Accounted > 0 => ing.expected > 0 /\ ing.expected <= Base + Accounted + gaps
  BY DEF LagInv, Expecting
<1>11. Gap(seq) \in Nat /\ seq + 1 <= Base + Len(got) + gaps + Gap(seq)
  <2>1. Gap(seq) = IF ing.expected = 0 \/ seq = ing.expected THEN 0
                   ELSE IF seq > ing.expected THEN seq - ing.expected ELSE 1
    BY DEF Gap
  <2>2. Accounted = 0 => seq = Base
    BY <1>6, <1>7, <1>8 DEF Base
  <2> HIDE DEF seq
  <2>3. Gap(seq) \in Nat
    BY ONLY <1>2, <1>6, <2>1
  <2>4. CASE Accounted = 0
    BY ONLY <1>2, <1>6, <1>7, <1>8, <1>9, <2>2, <2>3, <2>4
  <2>5. CASE Accounted > 0
    BY ONLY <1>2, <1>6, <1>7, <1>8, <1>9, <1>10, <2>1, <2>5
  <2>6. QED
    BY <1>6, <1>7, <1>8, <2>3, <2>4, <2>5
<1>12. Expecting'
  <2>1. /\ rx'.pc = "true" => Len(got') > 0 /\ rx'.frame = got'[Len(got')]
        /\ ing'.expected = SequenceOf(rx'.frame) + 1
    BY <1>4, <1>5, <1>7
  <2>2. Accounted' > 0 /\ ing'.expected > 0 /\ ing'.expected <= Base' + Accounted' + gaps'
    <3> HIDE DEF seq
    <3>1. QED
      BY <1>2, <1>4, <1>5, <1>6, <1>7, <1>8, <1>9, <1>11
  <2>3. Accounted' # 0
    BY <1>6, <1>7, <1>8
  <2>4. QED
    BY <2>1, <2>2, <2>3 DEF Expecting
<1>13. \A c \in Channels : Handled(c)' = Handled(c)
  BY <1>1, <1>5, <1>8, Sizes DEF Handled
<1>14. Counters'
  BY <1>4, <1>13 DEF LagInv, Counters
<1>15. \A c \in Channels : Known(c) <= Known(c)' /\ Known(c)' \in Nat
  <2> TAKE c \in Channels
  <2>1. pushed[c] \in Nat /\ dropped[c] \in Nat
    BY LagTypes
  <2>2. Known(c) = pushed[c] + dropped[c] + Block * gaps
    BY <1>1, <1>6, <2>1 DEF Known, InHand
  <2>3. Known(c)' = pushed[c] + dropped[c] + Block * (gaps + Gap(seq))
    BY <1>4, <1>5, <1>6, <2>1 DEF Known, InHand
  <2>4. Gap(seq) \in Nat
    BY <1>11
  <2>5. Block * gaps \in Nat /\ Block * Gap(seq) \in Nat
        /\ Block * (gaps + Gap(seq)) = Block * gaps + Block * Gap(seq)
    <3> HIDE DEF seq
    <3>1. QED
      BY ONLY <1>6, <2>4
  <2> HIDE DEF seq
  <2>6. QED
    BY ONLY <2>1, <2>2, <2>3, <2>5
<1>16. Reported'
  BY <1>4, <1>15, LimitKept
<1>17. QED
  BY <1>12, <1>14, <1>16 DEF LagInv

(* The newest sample a frame can bring, against what is known of its place. *)
LEMMA Scale ==
    ASSUME NEW a \in Nat, NEW b \in Nat, NEW g \in Nat, NEW m \in Nat, m <= a + b + g
    PROVE  m * Block <= a * Block + b * Block + Block * g
<1>1. Block \in Nat
  BY Sizes
<1>2. PICK d \in Nat : m + d = a + b + g
  <2> WITNESS a + b + g - m \in Nat
  <2>1. QED
    OBVIOUS
<1>3. (m + d) * Block = m * Block + d * Block /\ m * Block \in Nat /\ d * Block \in Nat
  BY ONLY <1>1, m \in Nat, d \in Nat
<1>4. (a + b + g) * Block = a * Block + b * Block + Block * g
  BY ONLY <1>1, a \in Nat, b \in Nat, g \in Nat
<1>5. a * Block + b * Block + Block * g = m * Block + d * Block
  BY ONLY <1>2, <1>3, <1>4
<1>6. QED
  BY ONLY <1>3, <1>5

LEMMA LagPush ==
    ASSUME LinkInv, LagInv, LinkInv', PushBulk, ReceiverKeeps
    PROVE  LagInv'
<1>0. PICK c \in Channels : c = ing.ch
  BY LagTypes
<1> DEFINE seq == SequenceOf(rx.frame)
           held == Len(ring[c])
           free == RingCapacity - held
           n == IF Block <= free THEN Block ELSE free
           block == [i \in 1..n |-> seq * Block + i - 1]
<1>1. /\ ing.pc = "push" /\ ring' = [ring EXCEPT ![c] = ring[c] \o block]
      /\ ing' = [ing EXCEPT !.pc = "record", !.n = n]
      /\ UNCHANGED <<rx, got, pushed, dropped, gaps>>
  BY <1>0 DEF PushBulk, calls
<1>2. rx.frame \in Framed /\ rx.pc = "true"
  BY <1>1 DEF LinkInv, CallsAgree
<1>3. seq \in Nat
  BY <1>2, FramedFacts
<1>4. ing \in [pc : IngPcs, ch : Channels, n : Nat, expected : Nat]
      /\ ring \in [Channels -> Seq(Nat)] /\ Len(ring[c]) <= RingCapacity
  BY <1>0 DEF LinkInv, ProgramTypes
<1>5. c \in Channels /\ ring[c] \in Seq(Nat) /\ held \in Nat /\ held <= RingCapacity
  BY <1>4, LenProperties
<1>6. RingCapacity \in Nat /\ Block \in Nat
  BY Sizes
<1>7. n \in Nat /\ n <= Block
  <2> HIDE DEF held
  <2>1. QED
    BY ONLY <1>5, <1>6
<1> HIDE DEF free, n
<1>8. ing'.pc = "record" /\ ing'.ch = c /\ ing'.n = n /\ ing'.expected = ing.expected
  BY ONLY <1>0, <1>1, <1>4, <1>7
<1>9. Accounted' = Accounted /\ Base' = Base
  BY <1>1, <1>8 DEF Accounted, Base
<1>10. Expecting'
  BY <1>1, <1>8, <1>9 DEF LagInv, Expecting
<1>11. \A d \in Channels : Handled(d)' = Handled(d)
  BY <1>1, <1>8, <1>9 DEF Handled
<1>12. Counters'
  BY <1>1, <1>11 DEF LagInv, Counters
<1>13. Len(got) > 0 /\ Accounted = Len(got) /\ Len(got) \in Nat
  BY <1>1, <1>2, LagTypes DEF LagInv, Expecting, Accounted
<1>14. /\ block \in Seq(Nat) /\ Len(block) = n
       /\ \A i \in 1..n : block[i] = seq * Block + i - 1
  <2> HIDE DEF seq
  <2>1. \A i \in 1..n : seq * Block + i - 1 \in Nat
    BY ONLY <1>3, <1>6, <1>7
  <2>2. QED
    BY ONLY <1>7, <2>1, IsASeq
<1> HIDE DEF block
<1>15. /\ ring[c] \o block \in Seq(Nat) /\ Len(ring[c] \o block) = held + n
       /\ \A i \in 1..held : (ring[c] \o block)[i] = ring[c][i]
       /\ \A i \in 1..n : (ring[c] \o block)[held + i] = block[i]
  <2>1. ASSUME NEW s \in Seq(Nat), NEW t \in Seq(Nat)
        PROVE  /\ s \o t \in Seq(Nat) /\ Len(s \o t) = Len(s) + Len(t)
               /\ \A i \in 1..Len(s) : (s \o t)[i] = s[i]
               /\ \A i \in 1..Len(t) : (s \o t)[Len(s) + i] = t[i]
    BY ONLY <2>1, Joined
  <2>2. QED
    BY ONLY <1>5, <1>14, <2>1 DEF held
<1>16. ring'[c] = ring[c] \o block /\ \A d \in Channels : d # c => ring'[d] = ring[d]
  BY ONLY <1>1, <1>4, <1>5
(* What the counters know of the frame in hand. *)
<1>17. pushed[c] + dropped[c] = (Len(got) - 1) * Block
  <2>1. ing.ch <= c
    BY <1>0, Sizes
  <2>2. Handled(c) = Len(got) - 1
    BY <1>1, <1>13, <2>1 DEF Handled
  <2>3. QED
    BY <2>2 DEF LagInv, Counters
<1>18. seq <= Base + (Len(got) - 1) + gaps
  <2>1. ing.expected = seq + 1 /\ ing.expected <= Base + Accounted + gaps
    BY <1>1, <1>13 DEF LagInv, Expecting
  <2>2. Base \in Nat /\ gaps \in Nat
    BY <1>13, LagTypes
  <2> HIDE DEF seq
  <2>3. QED
    BY ONLY <1>3, <1>13, <2>1, <2>2
<1>19. /\ pushed[c] \in Nat /\ dropped[c] \in Nat /\ Base * Block \in Nat /\ Block * gaps \in Nat
       /\ seq * Block \in Nat
       /\ seq * Block <= Base * Block + pushed[c] + dropped[c] + Block * gaps
  <2>1. /\ pushed[c] \in Nat /\ dropped[c] \in Nat /\ Base \in Nat /\ gaps \in Nat
        /\ Len(got) - 1 \in Nat /\ Block * gaps \in Nat
    BY <1>5, <1>13, LagTypes
  <2> HIDE DEF seq
  <2>2. seq * Block <= Base * Block + (Len(got) - 1) * Block + Block * gaps
    BY ONLY <1>3, <1>18, <2>1, Scale
  <2>3. Base * Block \in Nat /\ seq * Block \in Nat
    BY ONLY <1>3, <1>6, <2>1
  <2>4. QED
    BY ONLY <1>17, <2>1, <2>2, <2>3
<1>20. Known(c)' = pushed[c] + n + dropped[c] + Block * gaps
  BY <1>1, <1>5, <1>8 DEF Known, InHand
<1>21. Known(c) = pushed[c] + dropped[c] + Block * gaps
  BY <1>1, <1>5, <1>19 DEF Known, InHand
<1>22. Limit(c)' = (Base * Block + pushed[c] + dropped[c] + Block * gaps) - held
  <2>1. Limit(c)' = Base * Block + Known(c)' - (held + n)
    BY <1>9, <1>15, <1>16 DEF Limit
  <2> HIDE DEF held
  <2>2. QED
    BY ONLY <1>5, <1>7, <1>19, <1>20, <2>1
<1>23. Limit(c) = Limit(c)'
  <2>1. Limit(c) = Base * Block + Known(c) - held
    BY DEF Limit
  <2> HIDE DEF held
  <2>2. QED
    BY ONLY <1>5, <1>19, <1>21, <1>22, <2>1
<1>24. ASSUME NEW i \in 1..(held + n) PROVE (ring[c] \o block)[i] <= Limit(c)' + i - 1
  <2>1. CASE i \in 1..held
    <3>1. ring[c][i] <= Limit(c) + i - 1
      BY <1>5, <2>1 DEF LagInv, Reported
    <3>2. QED
      BY <1>15, <1>23, <2>1, <3>1
  <2>2. CASE i \notin 1..held
    <3> HIDE DEF held, seq
    <3>1. i - held \in 1..n /\ held + (i - held) = i /\ i \in Nat
      BY ONLY <1>5, <1>7, <1>24, <2>2
    <3>2. (ring[c] \o block)[i] = seq * Block + (i - held) - 1
      BY ONLY <1>14, <1>15, <3>1
    <3> DEFINE first == seq * Block
               known == Base * Block + pushed[c] + dropped[c] + Block * gaps
    <3>3. first \in Nat /\ known \in Nat /\ first <= known
      BY ONLY <1>19
    <3>4. Limit(c)' = known - held /\ (ring[c] \o block)[i] = first + (i - held) - 1
      BY ONLY <1>22, <3>2
    <3> HIDE DEF first, known
    <3>5. first + (i - held) - 1 <= (known - held) + i - 1
      BY ONLY <1>5, <3>1, <3>3
    <3>6. QED
      BY ONLY <3>4, <3>5
  <2>3. QED
    BY <2>1, <2>2
<1>25. ASSUME NEW d \in Channels, d # c, NEW i \in 1..Len(ring'[d])
       PROVE  ring'[d][i] <= Limit(d)' + i - 1
  <2>1. ring'[d] = ring[d] /\ Limit(d)' = Limit(d)
    BY <1>1, <1>8, <1>9, <1>16, <1>25 DEF Limit, Known, InHand
  <2>2. ring[d][i] <= Limit(d) + i - 1
    BY <1>25, <2>1 DEF LagInv, Reported
  <2>3. QED
    BY <2>1, <2>2
<1>26. Reported'
  <2>1. Len(got') # 0
    BY <1>1, <1>13
  <2>2. \A d \in Channels : \A i \in 1..Len(ring'[d]) : ring'[d][i] <= Limit(d)' + i - 1
    BY <1>15, <1>16, <1>24, <1>25
  <2>3. QED
    BY <2>1, <2>2 DEF Reported
<1>27. QED
  BY <1>10, <1>12, <1>26 DEF LagInv


LEMMA LagRecord ==
    ASSUME LinkInv, LagInv, LinkInv', RecordPush, ReceiverKeeps
    PROVE  LagInv'
<1>0. PICK c \in Channels : c = ing.ch
  BY LagTypes
<1>1. /\ ing.pc = "record" /\ UNCHANGED <<got, ring, gaps>>
      /\ pushed' = [pushed EXCEPT ![c] = @ + ing.n]
      /\ dropped' = [dropped EXCEPT ![c] = @ + Block - ing.n]
  BY <1>0 DEF RecordPush
<1>2. /\ ing \in [pc : IngPcs, ch : Channels, n : Nat, expected : Nat]
      /\ pushed \in [Channels -> Nat] /\ dropped \in [Channels -> Nat]
      /\ rx.pc = "true"
  BY <1>1 DEF LinkInv, ProgramTypes, CallsAgree
<1>3. /\ ing'.expected = ing.expected
      /\ \/ ing'.pc = "push" /\ ing'.ch = c + 1 /\ c < NumChannels /\ rx' = rx
         \/ ing'.pc = "loop" /\ rx'.pc = "idle" /\ ~(c < NumChannels)
  <2>1. CASE c < NumChannels
    <3>1. ing' = [ing EXCEPT !.pc = "push", !.ch = @ + 1, !.n = 0] /\ UNCHANGED rx
      BY <1>0, <2>1 DEF RecordPush
    <3>2. ing'.pc = "push" /\ ing'.ch = c + 1 /\ ing'.expected = ing.expected
      BY ONLY <1>0, <1>2, <3>1
    <3>3. QED
      BY <2>1, <3>1, <3>2
  <2>2. CASE ~(c < NumChannels)
    <3>1. /\ ing' = [ing EXCEPT !.pc = "loop", !.ch = 1, !.n = 0]
          /\ rx' = [pc |-> "idle", frame |-> <<>>]
      BY <1>0, <2>2 DEF RecordPush
    <3>2. ing'.pc = "loop" /\ ing'.expected = ing.expected /\ rx'.pc = "idle"
      BY ONLY <1>2, <3>1
    <3>3. QED
      BY <2>2, <3>2
  <2>3. QED
    BY <2>1, <2>2
<1>4. Accounted = Len(got) /\ Accounted' = Len(got) /\ Base' = Base /\ Len(got) \in Nat
      /\ Len(got) > 0
  BY <1>1, <1>2, <1>3, LagTypes DEF Accounted, Base, LagInv, Expecting
<1>5. Expecting'
  BY <1>1, <1>3, <1>4 DEF LagInv, Expecting
<1>6. ing.n \in Nat /\ ing.n <= Block /\ Block \in Nat /\ c \in Nat /\ NumChannels \in Nat
      /\ \A d \in Channels : d \in Nat /\ d <= NumChannels
  BY LagTypes, Sizes, SMTT(30)
<1>7. Handled(c) = Len(got) - 1 /\ Handled(c)' = Len(got)
  <2>1. c <= c /\ ~(c + 1 <= c)
    BY ONLY <1>6
  <2>2. QED
    BY <1>0, <1>1, <1>3, <1>4, <2>1 DEF Handled
<1>8. \A d \in Channels : d # c => Handled(d)' = Handled(d)
  <2> TAKE d \in Channels
  <2>1. HAVE d # c
  <2>2. (c + 1 <= d) <=> (c <= d)
    BY ONLY <1>6, <2>1, d \in Channels
  <2>3. ~(c < NumChannels) => ~(c <= d)
    BY ONLY <1>6, <2>1, d \in Channels
  <2>4. QED
    BY <1>0, <1>1, <1>3, <1>4, <2>2, <2>3 DEF Handled
<1>9. /\ pushed'[c] = pushed[c] + ing.n /\ dropped'[c] = dropped[c] + Block - ing.n
      /\ \A d \in Channels : d # c => pushed'[d] = pushed[d] /\ dropped'[d] = dropped[d]
      /\ pushed[c] \in Nat /\ dropped[c] \in Nat
  BY ONLY <1>1, <1>2, c \in Channels
<1>10. Counters'
  <2>1. ASSUME NEW d \in Channels PROVE pushed'[d] + dropped'[d] = Handled(d)' * Block
    <3>1. CASE d = c
      <4>1. pushed[c] + dropped[c] = (Len(got) - 1) * Block
        BY <1>7 DEF LagInv, Counters
      <4>2. Len(got) * Block = (Len(got) - 1) * Block + Block
        BY ONLY <1>4, <1>6
      <4>3. pushed'[c] + dropped'[c] = pushed[c] + dropped[c] + Block
        BY ONLY <1>6, <1>9
      <4>4. QED
        BY <1>7, <3>1, <4>1, <4>2, <4>3
    <3>2. CASE d # c
      BY <1>8, <1>9, <3>2 DEF LagInv, Counters
    <3>3. QED
      BY <3>1, <3>2
  <2>2. QED
    BY <2>1 DEF Counters
<1>11. ASSUME NEW d \in Channels PROVE Known(d) <= Known(d)' /\ Known(d)' \in Nat
  <2>1. Known(d) \in Nat /\ Block * gaps \in Nat
    BY LagTypes
  <2>2. InHand(d)' = 0
    BY <1>3 DEF InHand
  <2>3. CASE d = c
    <3>1. Known(d) = pushed[c] + ing.n + dropped[c] + Block * gaps
      BY <1>0, <1>1, <2>3 DEF Known, InHand
    <3>2. Known(d)' = (pushed[c] + ing.n) + 0 + (dropped[c] + Block - ing.n) + Block * gaps
      BY <1>1, <1>9, <2>2, <2>3 DEF Known
    <3>3. QED
      BY ONLY <1>6, <1>9, <2>1, <3>1, <3>2
  <2>4. CASE d # c
    <3>1. InHand(d) = 0
      BY <1>0, <2>4 DEF InHand
    <3>2. Known(d)' = Known(d)
      BY <1>1, <1>9, <2>2, <2>4, <3>1 DEF Known
    <3>3. QED
      BY ONLY <2>1, <3>2
  <2>5. QED
    BY <2>3, <2>4
<1>12. Reported'
  BY <1>1, <1>11, LimitKept
<1>13. QED
  BY <1>5, <1>10, <1>12 DEF LagInv

LEMMA LagDrain ==
    ASSUME LinkInv, LagInv, NEW c \in Channels, Drain(c)
    PROVE  LagInv'
<1>1. /\ UNCHANGED <<rx, got, ing, pushed, dropped, gaps>>
      /\ ring' = [ring EXCEPT ![c] = <<>>] /\ ring \in [Channels -> Seq(Nat)]
  BY DEF Drain, calls, histories, LinkInv, ProgramTypes
<1>2. Accounted' = Accounted /\ Base' = Base /\ \A d \in Channels : Handled(d)' = Handled(d)
  BY <1>1 DEF Accounted, Base, Handled
<1>3. Expecting' /\ Counters'
  BY <1>1, <1>2 DEF LagInv, Expecting, Counters
<1>4. ring'[c] = <<>> /\ \A d \in Channels : d # c => ring'[d] = ring[d]
  BY ONLY <1>1, c \in Channels
<1>5. \A d \in Channels : d # c => Limit(d)' = Limit(d)
  BY <1>1, <1>2, <1>4 DEF Limit, Known, InHand
<1>6. ASSUME NEW d \in Channels, NEW i \in 1..Len(ring'[d])
      PROVE  ring'[d][i] <= Limit(d)' + i - 1
  <2>1. d # c
    BY <1>4, <1>6
  <2>2. QED
    BY <1>4, <1>5, <1>6, <2>1 DEF LagInv, Reported
<1>7. Len(got') = 0 => \A d \in Channels : ring'[d] = <<>>
  BY <1>1, <1>4 DEF LagInv, Reported
<1>8. QED
  BY <1>3, <1>6, <1>7 DEF LagInv, Reported

LEMMA LagOthers ==
    ASSUME LagInv, UNCHANGED <<rx, got, ingesting>>
    PROVE  LagInv'
BY DEF ingesting, samples, LagInv, Expecting, Counters, Reported, Accounted, Base, Handled,
       Known, InHand, Limit

LEMMA LagStep == LinkInv /\ LinkInv' /\ LagInv /\ [Next]_vars => LagInv'
<1> SUFFICES ASSUME LinkInv, LinkInv', LagInv, [Next]_vars PROVE LagInv'
  OBVIOUS
<1> USE DEF calls, histories, pipeVars, udpVars, producerVars, consumerVars, ingesting
<1>1. CASE \/ SenderCalls /\ SenderKeeps
           \/ SenderLeaves /\ SenderKeeps
           \/ SenderReturned /\ SenderKeeps
           \/ SenderFlushes /\ SenderKeeps
           \/ SenderFlushed /\ SenderKeeps
           \/ Gone /\ SenderKeeps /\ (kind = "udp" => snd.pc = "exit")
           \/ PipeWrite /\ SenderKeeps /\ UNCHANGED <<sent, udpVars, snd>>
  BY <1>1, LagOthers
     DEF SenderCalls, CallSend, SenderLeaves, SenderReturned, SenderFlushes, SenderFlushed, Gone,
         PipeWrite, SenderKeeps
<1>2. CASE ProduceStep /\ ProduceKeeps
  BY <1>2, LagOthers DEF ProduceKeeps, SenderKeeps
<1>3. CASE OwnerStep \/ Network \/ UNCHANGED vars
  BY <1>3, LagOthers
     DEF OwnerStep, Stop, Destroy, PipeClose, UdpClose, Network, UdpNetwork, vars
<1>4. CASE \E c \in Channels : Drain(c)
  BY <1>4, LagDrain
<1>5. CASE Account /\ ReceiverKeeps
  BY <1>5, LagAccount
<1>6. CASE PushBulk /\ ReceiverKeeps
  BY <1>6, LagPush
<1>7. CASE RecordPush /\ ReceiverKeeps
  BY <1>7, LagRecord
<1>8. CASE (Start \/ Leave) /\ ReceiverKeeps
  <2>1. UNCHANGED <<rx, got, samples, gaps>> /\ rx.pc # "true" /\ ing'.expected = ing.expected
    BY <1>8 DEF Start, Leave, LinkInv, CallsAgree, ProgramTypes
  <2>2. QED
    BY <2>1, LagWaiting
<1>9. CASE Read /\ ReceiverKeeps
  <2>1. UNCHANGED <<got, samples, gaps>> /\ rx.pc # "true" /\ ing'.expected = ing.expected
    BY <1>9 DEF Read, CallReceive, LinkInv, ProgramTypes
  <2>2. rx'.pc # "true"
    BY <1>9 DEF Read, CallReceive
  <2>3. QED
    BY <2>1, <2>2, LagWaiting
<1>10. CASE ReadEnds /\ ReceiverKeeps
  <2>1. UNCHANGED <<got, samples, gaps>> /\ rx.pc # "true" /\ ing'.expected = ing.expected
    BY <1>10 DEF ReadEnds, LinkInv, ProgramTypes
  <2>2. rx'.pc # "true"
    BY <1>10 DEF ReadEnds, LinkInv, TransportTypes
  <2>3. QED
    BY <2>1, <2>2, LagWaiting
<1>11. CASE PipeRead /\ ReceiverKeeps /\ UNCHANGED <<udpVars, ingesting>>
  <2> DEFINE Units_(n) == rx.frame \o SubSeq(pipe, 1, n)
  <2>1. PICK n \in Nat :
          \/ ReceiveFails
          \/ /\ Units_(n) \in Seq(Units) /\ Len(Units_(n)) = FrameUnits
             /\ ReceiveReturns(Units_(n))
          \/ rx' = [rx EXCEPT !.frame = Units_(n)] /\ UNCHANGED got
    BY <1>11, ReadParts
  <2>2. rx.pc = "in" /\ UNCHANGED ingesting
    BY <1>11 DEF PipeRead
  <2> HIDE DEF Units_
  <2>3. CASE ReceiveFails
    BY <2>2, <2>3, Failed, LagWaiting
  <2>4. CASE Units_(n) \in Seq(Units) /\ Len(Units_(n)) = FrameUnits /\ ReceiveReturns(Units_(n))
    <3>1. Units_(n) \in Framed
      BY <2>4 DEF Framed
    <3>2. QED
      BY <2>2, <2>4, <3>1, LagReceived
  <2>5. CASE rx' = [rx EXCEPT !.frame = Units_(n)] /\ UNCHANGED got
    <3>1. rx'.pc = "in"
      BY <2>2, <2>5 DEF LinkInv, TransportTypes
    <3>2. QED
      BY <2>2, <2>5, <3>1, LagWaiting
  <2>6. QED
    BY <2>1, <2>3, <2>4, <2>5
<1>12. CASE PipeEof /\ ReceiverKeeps /\ UNCHANGED <<got, udpVars, ingesting>>
  BY <1>12, Failed, LagWaiting DEF PipeEof
<1>13. CASE ConsumeStep /\ ConsumeKeeps
  <2>1. UNCHANGED ingesting /\ rx.pc = "in"
    BY <1>13 DEF ConsumeKeeps, ConsumeStep, UdpStopped, UdpFromQueue, UdpTests, UdpEnter,
                 UdpReceive, UdpTimeout
  <2>2. \/ UNCHANGED <<rx, got>>
        \/ ReceiveFails
        \/ \E frame \in Framed : ReceiveReturns(frame)
    <3>1. CASE UdpFromQueue
      <4>1. recvQueue \in Seq(Framed) /\ recvQueue # <<>> /\ ReceiveReturns(Head(recvQueue))
        BY <3>1 DEF UdpFromQueue, LinkInv, SocketTypes
      <4>2. Head(recvQueue) \in Framed
        BY ONLY <4>1, HeadTailProperties
      <4>3. QED
        BY <4>1, <4>2
    <3>2. CASE UdpReceive
      BY <3>2, ReceiveParts
    <3>3. CASE UdpStopped \/ UdpTests \/ UdpEnter \/ UdpTimeout
      BY <3>3 DEF UdpStopped, UdpTests, UdpEnter, UdpTimeout
    <3>4. QED
      BY <1>13, <3>1, <3>2, <3>3 DEF ConsumeStep
  <2>3. CASE UNCHANGED <<rx, got>>
    BY <2>1, <2>3, LagOthers
  <2>4. CASE ReceiveFails
    BY <2>1, <2>4, Failed, LagWaiting
  <2>5. CASE \E frame \in Framed : ReceiveReturns(frame)
    BY <2>1, <2>5, LagReceived
  <2>6. QED
    BY <2>2, <2>3, <2>4, <2>5
<1>14. QED
  BY Steps, <1>1, <1>2, <1>3, <1>4, <1>5, <1>6, <1>7, <1>8, <1>9, <1>10, <1>11, <1>12, <1>13, Zenon

(* However frames are lost, reordered or repeated, and whatever a full ring *)
(* takes of a push: what a reader is behind by has been reported            *)
(* (ingestion_thread.cpp:53, :72).                                          *)
THEOREM Lag == Spec => []LagIsReported
<1>1. LinkInv /\ LagInv => LagIsReported
  <2> SUFFICES ASSUME LinkInv, LagInv, NEW c \in Channels, NEW i \in DOMAIN ring[c]
               PROVE  LET inHand == IF ing.pc = "record" /\ ing.ch = c THEN ing.n ELSE 0
                          place == pushed[c] + inHand - Len(ring[c]) + i - 1
                      IN ring[c][i] <= SequenceOf(got[1]) * Block + place
                                       + dropped[c] + Block * gaps
    BY DEF LagIsReported
  <2>1. /\ ring[c] \in Seq(Nat) /\ Len(ring[c]) \in Nat /\ pushed[c] \in Nat /\ dropped[c] \in Nat
        /\ InHand(c) \in Nat /\ Block * gaps \in Nat /\ Len(got) \in Nat
    BY LagTypes
  <2>2. i \in 1..Len(ring[c])
    BY <2>1, LenProperties
  <2>3. ring[c] # <<>> /\ i \in Nat /\ ring[c][i] \in Nat
    BY <2>1, <2>2, ElementOfSeq
  <2>4. Base * Block \in Nat
    <3>1. Len(got) > 0
      BY <2>1, <2>3 DEF LagInv, Reported
    <3>2. Base \in Nat /\ Block \in Nat
      BY <3>1, LagTypes, Sizes
    <3>3. QED
      BY ONLY <3>2
  <2>5. ring[c][i] <= Limit(c) + i - 1
    BY <2>2 DEF LagInv, Reported
  <2>6. Limit(c) = Base * Block + (pushed[c] + InHand(c) + dropped[c] + Block * gaps) - Len(ring[c])
    BY DEF Limit, Known
  <2> DEFINE first == Base * Block
             reported == Block * gaps
             length == Len(ring[c])
             sample == ring[c][i]
             in == InHand(c)
             p == pushed[c]
             d == dropped[c]
  <2>7. /\ sample <= (first + (p + in + d + reported) - length) + i - 1
        /\ first \in Nat /\ reported \in Nat /\ length \in Nat /\ sample \in Nat
        /\ in \in Nat /\ p \in Nat /\ d \in Nat /\ i \in Nat
    BY ONLY <2>1, <2>3, <2>4, <2>5, <2>6
  <2> HIDE DEF first, reported, length, sample, in, p, d
  <2>8. sample <= first + (p + in - length + i - 1) + d + reported
    BY ONLY <2>7
  <2>9. QED
    BY <2>8 DEF first, reported, length, sample, in, p, d, InHand, Base
<1>2. QED
  BY CallsKept, InitLag, LagStep, <1>1, PTL DEF Spec

-----------------------------------------------------------------------------
(* The stream.  A datagram that is a frame is one that was sent.  In a pipe *)
(* every unit has its place in the stream of all frames, and what was       *)
(* received, what is under way and what is still to be written follow each  *)
(* other without a gap, until the stream has ended.                         *)

Sent == {sent[i] : i \in 1..Len(sent)}

DatagramsSent ==
    kind = "udp" =>
        /\ tx.pc = "in" => tx.frame \in Sent
        /\ \A i \in 1..Len(batch) : batch[i] \in Sent
        /\ \A i \in 1..Len(wire) : IsFrame(wire[i]) => wire[i] \in Sent
        /\ \A i \in 1..Len(recvQueue) : recvQueue[i] \in Sent

FrameStart(f) == f * FrameUnits
At(k, unit) == unit \in Nat \X (1..FrameUnits) /\ k = FrameStart(unit[1]) + unit[2] - 1
Placed(k, s) == \A j \in 1..Len(s) : At(k + j - 1, s[j])

InOrder(frames) == \A i \in 1..Len(frames) : frames[i] = WholeFrame(i - 1)

(* The units of the frame that receive_frame is about to complete. *)
Held == IF rx.pc = "in" THEN rx.frame ELSE <<>>
Read0 == FrameStart(Len(got))
Read1 == Read0 + Len(Held)
Read2 == Read1 + Len(pipe)

EndOfStream == rx.pc = "false" \/ ing.pc = "ended"

Streaming ==
    /\ Placed(Read0, Held) /\ Placed(Read1, pipe) /\ Placed(Read2, tx.frame)
    /\ Read2 + Len(tx.frame) = FrameStart(Len(sent))

PipeStream ==
    kind = "pipe" =>
        /\ InOrder(sent) /\ InOrder(got)
        /\ tx.pc # "in" => tx.frame = <<>>
        /\ snd.pc = "loop" => Len(sent) = snd.next /\ tx.pc = "idle"
        /\ snd.pc = "sending" => Len(sent) = snd.next + 1
        /\ EndOfStream \/ Streaming

StreamInv == DatagramsSent /\ PipeStream

LEMMA Starts ==
    ASSUME NEW a \in Nat, NEW b \in Nat
    PROVE  /\ FrameStart(a) \in Nat /\ FrameStart(a + 1) = FrameStart(a) + FrameUnits
           /\ a < b => FrameStart(a) + FrameUnits <= FrameStart(b)
<1>1. FrameUnits \in Nat
  BY Sizes
<1>2. FrameStart(a) \in Nat /\ FrameStart(a + 1) = FrameStart(a) + FrameUnits
  BY ONLY <1>1, a \in Nat DEF FrameStart
<1>3. ASSUME a < b PROVE FrameStart(a) + FrameUnits <= FrameStart(b)
  <2>1. PICK d \in Nat : b = (a + 1) + d
    <3>1. b - (a + 1) \in Nat /\ b = (a + 1) + (b - (a + 1))
      BY <1>3
    <3>2. QED
      BY <3>1
  <2>2. /\ FrameStart(b) = FrameStart(a + 1) + d * FrameUnits /\ d * FrameUnits \in Nat
        /\ FrameStart(a + 1) \in Nat
    BY ONLY <1>1, <2>1, a \in Nat DEF FrameStart
  <2>3. QED
    BY ONLY <1>2, <2>2
<1>4. QED
  BY <1>2, <1>3

(* A place in the stream is that of one unit only. *)
LEMMA PlaceUnique ==
    ASSUME NEW f \in Nat, NEW j \in 1..FrameUnits, NEW unit, At(FrameStart(f) + j - 1, unit)
    PROVE  unit = <<f, j>>
<1>1. /\ unit = <<unit[1], unit[2]>> /\ unit[1] \in Nat /\ unit[2] \in 1..FrameUnits
      /\ FrameStart(f) + j - 1 = FrameStart(unit[1]) + unit[2] - 1
  BY DEF At
<1>2. FrameUnits \in Nat /\ FrameStart(f) \in Nat /\ FrameStart(unit[1]) \in Nat
  BY <1>1, Sizes, Starts
<1>3. ~(f < unit[1])
  <2>1. f < unit[1] => FrameStart(f) + FrameUnits <= FrameStart(unit[1])
    BY ONLY <1>1, Starts, f \in Nat
  <2>2. QED
    BY ONLY <1>1, <1>2, <2>1, j \in 1..FrameUnits
<1>4. ~(unit[1] < f)
  <2>1. unit[1] < f => FrameStart(unit[1]) + FrameUnits <= FrameStart(f)
    BY ONLY <1>1, Starts, f \in Nat
  <2>2. QED
    BY ONLY <1>1, <1>2, <2>1, j \in 1..FrameUnits
<1>5. unit[1] = f
  BY ONLY <1>1, <1>3, <1>4, f \in Nat
<1>6. unit[2] = j
  BY ONLY <1>1, <1>2, <1>5, j \in 1..FrameUnits
<1>7. QED
  BY ONLY <1>1, <1>5, <1>6

LEMMA WholePlaced ==
    ASSUME NEW f \in Nat
    PROVE  Placed(FrameStart(f), WholeFrame(f))
<1>1. Len(WholeFrame(f)) = FrameUnits /\ \A i \in 1..FrameUnits : WholeFrame(f)[i] = <<f, i>>
  BY WholeFrames
<1>2. ASSUME NEW j \in 1..FrameUnits PROVE At(FrameStart(f) + j - 1, <<f, j>>)
  BY DEF At
<1>3. QED
  BY <1>1, <1>2 DEF Placed

LEMMA PlacedWhole ==
    ASSUME NEW f \in Nat, NEW s \in Seq(Units), Placed(FrameStart(f), s)
    PROVE  /\ Len(s) = FrameUnits => s = WholeFrame(f)
           /\ Len(s) >= HeaderUnits => HasMagic(s)
<1>1. ASSUME NEW j \in 1..Len(s), j \in 1..FrameUnits PROVE s[j] = <<f, j>>
  BY <1>1, PlaceUnique DEF Placed
<1>2. ASSUME Len(s) = FrameUnits PROVE s = WholeFrame(f)
  <2>1. /\ WholeFrame(f) \in Seq(Units) /\ Len(WholeFrame(f)) = FrameUnits
        /\ \A i \in 1..FrameUnits : WholeFrame(f)[i] = <<f, i>>
    BY WholeFrames
  <2>2. \A i \in 1..Len(s) : s[i] = WholeFrame(f)[i]
    BY <1>1, <1>2, <2>1
  <2>3. QED
    BY ONLY <1>2, <2>1, <2>2, SeqEqual, s \in Seq(Units)
<1>3. ASSUME Len(s) >= HeaderUnits PROVE HasMagic(s)
  <2>1. 1 \in 1..Len(s) /\ 1 \in 1..FrameUnits
    BY <1>3, Sizes, LenProperties
  <2>2. s[1] = <<f, 1>>
    BY <1>1, <2>1
  <2>3. QED
    BY <2>2 DEF HasMagic
<1>4. QED
  BY <1>2, <1>3

LEMMA PlacedCut ==
    ASSUME NEW k \in Nat, NEW s \in Seq(Units), NEW n \in Nat, n <= Len(s), Placed(k, s)
    PROVE  Placed(k, SubSeq(s, 1, n)) /\ Placed(k + n, SubSeq(s, n + 1, Len(s)))
<1>1. /\ Len(SubSeq(s, 1, n)) = n /\ \A i \in 1..n : SubSeq(s, 1, n)[i] = s[i]
      /\ Len(SubSeq(s, n + 1, Len(s))) = Len(s) - n
      /\ \A i \in 1..(Len(s) - n) : SubSeq(s, n + 1, Len(s))[i] = s[n + i]
  BY Cut
<1>2. Len(s) \in Nat
  BY LenProperties
<1>3. ASSUME NEW j \in 1..n PROVE At(k + j - 1, SubSeq(s, 1, n)[j])
  <2>1. j \in 1..Len(s)
    BY <1>2
  <2>2. QED
    BY <1>1, <2>1 DEF Placed
<1>4. ASSUME NEW j \in 1..(Len(s) - n)
      PROVE  At(k + n + j - 1, SubSeq(s, n + 1, Len(s))[j])
  <2>1. n + j \in 1..Len(s) /\ k + (n + j) - 1 = k + n + j - 1
    BY ONLY <1>2, <1>4, k \in Nat, n \in Nat
  <2>2. At(k + (n + j) - 1, s[n + j])
    BY <2>1 DEF Placed
  <2>3. QED
    BY ONLY <1>1, <1>4, <2>1, <2>2
<1>5. QED
  BY <1>1, <1>3, <1>4 DEF Placed

LEMMA PlacedJoin ==
    ASSUME NEW k \in Nat, NEW s \in Seq(Units), NEW t \in Seq(Units),
           Placed(k, s), Placed(k + Len(s), t)
    PROVE  Placed(k, s \o t)
<1>1. /\ Len(s \o t) = Len(s) + Len(t)
      /\ \A i \in 1..Len(s) : (s \o t)[i] = s[i]
      /\ \A i \in 1..Len(t) : (s \o t)[Len(s) + i] = t[i]
  BY Joined
<1>2. Len(s) \in Nat /\ Len(t) \in Nat
  BY LenProperties
<1>3. ASSUME NEW j \in 1..(Len(s) + Len(t)) PROVE At(k + j - 1, (s \o t)[j])
  <2>1. CASE j \in 1..Len(s)
    BY <1>1, <2>1 DEF Placed
  <2>2. CASE j \notin 1..Len(s)
    <3>1. /\ j - Len(s) \in 1..Len(t) /\ Len(s) + (j - Len(s)) = j
          /\ k + Len(s) + (j - Len(s)) - 1 = k + j - 1
      BY ONLY <1>2, <1>3, <2>2, k \in Nat
    <3>2. At(k + Len(s) + (j - Len(s)) - 1, t[j - Len(s)])
      BY <3>1 DEF Placed
    <3>3. (s \o t)[j] = t[j - Len(s)]
      BY ONLY <1>1, <3>1
    <3>4. QED
      BY ONLY <3>1, <3>2, <3>3
  <2>3. QED
    BY <2>1, <2>2
<1>4. QED
  BY <1>1, <1>3 DEF Placed


LEMMA StraysAreNoFrames == \A d \in Strays : ~IsFrame(d)
<1>1. ~IsFrame(<<>>)
  BY Sizes DEF IsFrame
<1>2. ~IsFrame([i \in 1..FrameUnits |-> <<0, 0>>])
  <2> DEFINE stray == [i \in 1..FrameUnits |-> <<0, 0>>]
  <2>1. stray[1] = <<0, 0>>
    BY Sizes
  <2> HIDE DEF stray
  <2>2. stray[1][2] = 0
    BY ONLY <2>1
  <2>3. ~IsFrame(stray)
    BY <2>2 DEF IsFrame, HasMagic
  <2>4. QED
    BY <2>3 DEF stray
<1>3. QED
  BY <1>1, <1>2 DEF Strays

LEMMA InitStream == Init => StreamInv
<1> SUFFICES ASSUME Init PROVE StreamInv
  OBVIOUS
<1>1. /\ sent = <<>> /\ got = <<>> /\ batch = <<>> /\ wire = <<>> /\ recvQueue = <<>>
      /\ tx.pc = "idle" /\ tx.frame = <<>> /\ rx.pc = "idle" /\ pipe = <<>>
      /\ snd.pc = "loop" /\ snd.next = 0
  BY DEF Init, TransportInit, PipeInit, UdpInit
<1>2. DatagramsSent
  BY <1>1 DEF DatagramsSent
<1>3. /\ Held = <<>> /\ Read0 = FrameStart(0) /\ FrameStart(0) = 0
  BY <1>1, Sizes DEF Held, Read0, FrameStart
<1>4. Streaming
  BY <1>1, <1>3 DEF Streaming, Placed, Read1, Read2
<1>5. PipeStream
  BY <1>1, <1>4 DEF PipeStream, InOrder
<1>6. QED
  BY <1>2, <1>5 DEF StreamInv

(* What was sent stays sent. *)
LEMMA SentGrows ==
    ASSUME LinkInv, LinkInv', [Next]_vars
    PROVE  Sent \subseteq Sent'
<1> USE DEF calls, histories
<1>1. sent' = sent \/ (SenderCalls /\ sent' = Append(sent, WholeFrame(snd.next)))
  BY Steps DEF SenderCalls, CallSend, SenderLeaves, SenderReturned, SenderFlushes, SenderFlushed,
     Gone, ProduceKeeps, ReceiverKeeps, ConsumeKeeps, OwnerStep, Stop, Destroy, PipeClose, Network,
     Drain, vars
<1>2. CASE sent' = sent
  BY <1>2 DEF Sent
<1>3. CASE sent' = Append(sent, WholeFrame(snd.next))
  <2>1. sent \in Seq(Framed) /\ WholeFrame(snd.next) \in Framed /\ Len(sent) \in Nat
    <3>1. snd.next \in Nat /\ sent \in Seq(Framed)
      BY DEF LinkInv, TransportTypes, ProgramTypes
    <3>2. WholeFrame(snd.next) \in Framed
      BY ONLY <3>1, WholeFrames
    <3>3. QED
      BY <3>1, <3>2
  <2>2. Len(sent') = Len(sent) + 1 /\ \A i \in 1..Len(sent) : sent'[i] = sent[i]
    BY ONLY <1>3, <2>1, Appended
  <2>3. \A i \in 1..Len(sent) : i \in 1..Len(sent')
    BY <2>1, <2>2
  <2>4. QED
    BY <2>2, <2>3 DEF Sent
<1>4. QED
  BY <1>1, <1>2, <1>3

(* A datagram is one that was sent after a step that brings nothing new.    *)
LEMMA DatagramsKept ==
    ASSUME DatagramsSent, Sent \subseteq Sent', kind' = kind,
           tx'.pc = "in" => tx'.frame \in Sent' \/ tx' = tx,
           UNCHANGED <<batch, wire, recvQueue>>
    PROVE  DatagramsSent'
<1> SUFFICES ASSUME kind = "udp"
             PROVE  /\ tx'.pc = "in" => tx'.frame \in Sent'
                    /\ \A i \in 1..Len(batch) : batch[i] \in Sent'
                    /\ \A i \in 1..Len(wire) : IsFrame(wire[i]) => wire[i] \in Sent'
                    /\ \A i \in 1..Len(recvQueue) : recvQueue[i] \in Sent'
  BY DEF DatagramsSent
<1>1. /\ tx.pc = "in" => tx.frame \in Sent
      /\ \A i \in 1..Len(batch) : batch[i] \in Sent
      /\ \A i \in 1..Len(wire) : IsFrame(wire[i]) => wire[i] \in Sent
      /\ \A i \in 1..Len(recvQueue) : recvQueue[i] \in Sent
  BY DEF DatagramsSent
<1>2. tx'.pc = "in" => tx'.frame \in Sent'
  BY <1>1
<1>3. QED
  BY <1>1, <1>2

LEMMA TransmitSent ==
    ASSUME NEW S, NEW frames \in Seq(Framed), NEW n \in Nat, n <= Len(frames),
           wire \in Seq(Datagrams), wire' \in Seq(Datagrams), Transmit(frames, n),
           \A i \in 1..Len(frames) : frames[i] \in S,
           \A i \in 1..Len(wire) : IsFrame(wire[i]) => wire[i] \in S
    PROVE  \A i \in 1..Len(wire') : IsFrame(wire'[i]) => wire'[i] \in S
<1> DEFINE front == SubSeq(frames, 1, n)
<1>1. front \in Seq(Framed) /\ Len(front) = n /\ \A i \in 1..n : front[i] = frames[i]
  BY Cut
<1>2. front \in Seq(Datagrams)
  BY ONLY <1>1, SeqMonotonic DEF Datagrams
<1>3. wire' = wire \o front
  BY DEF Transmit
<1>4. \A i \in 1..n : front[i] \in S
  <2>1. Len(frames) \in Nat
    BY LenProperties
  <2>2. \A i \in 1..n : i \in 1..Len(frames)
    BY <2>1
  <2>3. QED
    BY <1>1, <2>2
<1> HIDE DEF front
<1>5. /\ Len(wire') = Len(wire) + n /\ Len(wire) \in Nat
      /\ \A i \in 1..Len(wire) : wire'[i] = wire[i]
      /\ \A i \in 1..n : wire'[Len(wire) + i] = front[i]
  <2>1. /\ Len(wire \o front) = Len(wire) + Len(front)
        /\ \A i \in 1..Len(wire) : (wire \o front)[i] = wire[i]
        /\ \A i \in 1..Len(front) : (wire \o front)[Len(wire) + i] = front[i]
    BY ONLY <1>2, wire \in Seq(Datagrams), Joined
  <2>2. Len(wire) \in Nat
    BY LenProperties
  <2>3. QED
    BY ONLY <1>1, <1>3, <2>1, <2>2
<1>6. ASSUME NEW i \in 1..Len(wire'), IsFrame(wire'[i]) PROVE wire'[i] \in S
  <2>1. CASE i \in 1..Len(wire)
    BY <1>5, <1>6, <2>1
  <2>2. CASE i \notin 1..Len(wire)
    <3>1. i - Len(wire) \in 1..n /\ Len(wire) + (i - Len(wire)) = i
      BY ONLY <1>5, <1>6, <2>2, n \in Nat
    <3>2. wire'[i] = front[i - Len(wire)]
      BY ONLY <1>5, <3>1
    <3>3. QED
      BY ONLY <1>4, <3>1, <3>2
  <2>3. QED
    BY <2>1, <2>2
<1>7. QED
  BY <1>6


LEMMA DatagramsProduce ==
    ASSUME LinkInv, LinkInv', DatagramsSent, Sent' = Sent, ProduceStep, ProduceKeeps
    PROVE  DatagramsSent'
<1> SUFFICES ASSUME kind = "udp" PROVE DatagramsSent'
  BY DEF DatagramsSent, ProduceKeeps, SenderKeeps
<1>1. /\ tx.pc = "in" => tx.frame \in Sent
      /\ \A i \in 1..Len(batch) : batch[i] \in Sent
      /\ \A i \in 1..Len(wire) : IsFrame(wire[i]) => wire[i] \in Sent
      /\ \A i \in 1..Len(recvQueue) : recvQueue[i] \in Sent
  BY DEF DatagramsSent
<1>2. recvQueue' = recvQueue
  BY DEF ProduceKeeps, consumerVars
<1>3. wire \in Seq(Datagrams) /\ wire' \in Seq(Datagrams) /\ batch \in Seq(Framed)
      /\ Len(batch) \in Nat
  BY DEF LinkInv, SocketTypes
<1>4. ASSUME tx'.pc # "in", \A i \in 1..Len(batch') : batch'[i] \in Sent,
             \A i \in 1..Len(wire') : IsFrame(wire'[i]) => wire'[i] \in Sent
      PROVE  DatagramsSent'
  BY <1>1, <1>2, <1>4 DEF DatagramsSent
<1>5. \A ok \in BOOLEAN : SendReturns(ok) => tx'.pc # "in"
  BY DEF SendReturns
<1>6. CASE UdpRefuse
  BY <1>1, <1>4, <1>5, <1>6 DEF UdpRefuse, producerVars
<1>7. ASSUME NEW ok \in BOOLEAN, UdpSendOne(ok) PROVE DatagramsSent'
  <2>1. tx.frame \in Framed /\ tx.frame \in Sent /\ tx'.pc # "in" /\ batch' = batch
    BY <1>1, <1>5, <1>7 DEF UdpSendOne, LinkInv, CallsAgree
  <2>2. CASE Transmit(<<tx.frame>>, 1)
    <3>1. <<tx.frame>> \in Seq(Framed) /\ Len(<<tx.frame>>) = 1 /\ <<tx.frame>>[1] = tx.frame
      BY ONLY <2>1, OneFrame
    <3>2. 1 \in Nat /\ 1 <= 1 /\ \A i \in 1..Len(<<tx.frame>>) : <<tx.frame>>[i] \in Sent
      BY ONLY <2>1, <3>1
    <3>3. \A i \in 1..Len(wire') : IsFrame(wire'[i]) => wire'[i] \in Sent
      BY ONLY <1>1, <1>3, <2>2, <3>1, <3>2, TransmitSent
    <3>4. QED
      BY <1>1, <1>4, <2>1, <3>3
  <2>3. CASE UNCHANGED <<wire, emitted>>
    BY <1>1, <1>4, <2>1, <2>3
  <2>4. QED
    BY <1>7, <2>2, <2>3 DEF UdpSendOne
<1>8. CASE UdpEnqueue
  <2>1. /\ tx.frame \in Framed /\ tx.frame \in Sent /\ wire' = wire
        /\ batch' = Append(batch, tx.frame)
        /\ tx' = [pc |-> "flush", frame |-> <<>>] \/ SendReturns(TRUE)
    BY <1>1, <1>8 DEF UdpEnqueue, LinkInv, CallsAgree
  <2>2. tx'.pc # "in"
    <3>1. CASE SendReturns(TRUE)
      BY <1>5, <3>1
    <3>2. CASE tx' = [pc |-> "flush", frame |-> <<>>]
      BY ONLY <3>2
    <3>3. QED
      BY <2>1, <3>1, <3>2
  <2>3. /\ Len(batch') = Len(batch) + 1 /\ \A i \in 1..Len(batch) : batch'[i] = batch[i]
        /\ batch'[Len(batch) + 1] = tx.frame
    BY ONLY <1>3, <2>1, Appended
  <2>4. ASSUME NEW i \in 1..Len(batch') PROVE batch'[i] \in Sent
    <3>1. i \in 1..Len(batch) \/ i = Len(batch) + 1
      BY <1>3, <2>3
    <3>2. QED
      BY <1>1, <2>1, <2>3, <3>1
  <2>5. QED
    BY <1>1, <1>4, <2>1, <2>2, <2>4
<1>9. CASE UdpFlushSome
  <2>1. PICK n \in 1..Len(batch) :
          /\ Transmit(batch, n)
          /\ batch' = SubSeq(batch, n + 1, Len(batch))
          /\ SendReturns(TRUE) \/ UNCHANGED tx
    BY <1>9 DEF UdpFlushSome
  <2>2. n \in Nat /\ n <= Len(batch) /\ tx.pc = "flush"
    BY <1>3, <1>9 DEF UdpFlushSome
  <2>3. /\ Len(batch') = Len(batch) - n
        /\ \A i \in 1..(Len(batch) - n) : batch'[i] = batch[n + i]
    BY ONLY <1>3, <2>1, <2>2, Cut
  <2>4. \A i \in 1..Len(wire') : IsFrame(wire'[i]) => wire'[i] \in Sent
    BY ONLY <1>1, <1>3, <2>1, <2>2, TransmitSent
  <2>5. ASSUME NEW i \in 1..Len(batch') PROVE batch'[i] \in Sent
    <3>1. i \in 1..(Len(batch) - n) /\ n + i \in 1..Len(batch)
      BY ONLY <1>3, <2>2, <2>3, <2>5
    <3>2. QED
      BY ONLY <1>1, <2>3, <3>1
  <2>6. tx'.pc # "in"
    BY <1>5, <2>1, <2>2
  <2>7. QED
    BY <1>4, <2>4, <2>5, <2>6
<1>10. CASE UdpFlushFails
  <2>1. tx'.pc # "in" /\ batch' = <<>> /\ wire' = wire
    BY <1>5, <1>10 DEF UdpFlushFails
  <2>2. QED
    BY <1>1, <1>4, <2>1
<1>11. QED
  BY <1>6, <1>7, <1>8, <1>9, <1>10 DEF ProduceStep

(* The consumer of datagrams: what it hands over was sent.                  *)
LEMMA DatagramsConsume ==
    ASSUME LinkInv, DatagramsSent, Sent' = Sent, ConsumeStep, ConsumeKeeps
    PROVE  /\ DatagramsSent'
           /\ got' = got \/ \E frame \in Sent : got' = Append(got, frame)
<1>1. kind = "udp" /\ kind' = kind /\ UNCHANGED <<tx, batch>>
  BY DEF ConsumeStep, UdpStopped, UdpFromQueue, UdpTests, UdpEnter, UdpReceive, UdpTimeout,
         LinkInv, TransportTypes, CallsAgree, ConsumeKeeps, ReceiverKeeps, producerVars
<1>2. /\ tx.pc = "in" => tx.frame \in Sent
      /\ \A i \in 1..Len(batch) : batch[i] \in Sent
      /\ \A i \in 1..Len(wire) : IsFrame(wire[i]) => wire[i] \in Sent
      /\ \A i \in 1..Len(recvQueue) : recvQueue[i] \in Sent
  BY <1>1 DEF DatagramsSent
<1>3. ASSUME \A i \in 1..Len(wire') : IsFrame(wire'[i]) => wire'[i] \in Sent,
             \A i \in 1..Len(recvQueue') : recvQueue'[i] \in Sent
      PROVE  DatagramsSent'
  BY <1>1, <1>2, <1>3 DEF DatagramsSent
<1>4. wire \in Seq(Datagrams) /\ Len(wire) \in Nat /\ recvQueue \in Seq(Framed)
      /\ Len(recvQueue) \in Nat
  BY DEF LinkInv, SocketTypes
<1>5. CASE UdpStopped \/ UdpTests \/ UdpEnter \/ UdpTimeout
  BY <1>2, <1>3, <1>5
     DEF UdpStopped, UdpTests, UdpEnter, UdpTimeout, ReceiveFails, consumerVars
<1>6. CASE UdpFromQueue
  <2>1. /\ recvQueue # <<>> /\ recvQueue' = Tail(recvQueue) /\ wire' = wire
        /\ got' = Append(got, Head(recvQueue))
    BY <1>6 DEF UdpFromQueue, ReceiveReturns
  <2>2. /\ Len(recvQueue') = Len(recvQueue) - 1 /\ Head(recvQueue) = recvQueue[1]
        /\ \A i \in 1..Len(recvQueue') : recvQueue'[i] = recvQueue[i + 1]
    BY ONLY <1>4, <2>1, HeadTailProperties
  <2>3. 1 \in 1..Len(recvQueue)
    BY <1>4, <2>1
  <2>4. \A i \in 1..Len(recvQueue') : i + 1 \in 1..Len(recvQueue)
    BY ONLY <1>4, <2>2
  <2>5. QED
    BY <1>2, <1>3, <2>1, <2>2, <2>3, <2>4
<1>7. CASE UdpReceive
  <2>1. PICK n \in Nat, frames \in Seq(Framed) :
          /\ n <= Len(wire) /\ wire' = SubSeq(wire, n + 1, Len(wire))
          /\ \A k \in 1..Len(frames) : \E i \in 1..Len(wire) :
                 frames[k] = wire[i] /\ IsFrame(wire[i])
          /\ \/ recvQueue' = frames /\ UNCHANGED <<rx, got>>
             \/ /\ UNCHANGED recvQueue
                /\ \/ Len(frames) > 0 /\ ReceiveReturns(frames[1])
                   \/ UNCHANGED <<rx, got>>
    BY <1>7, ReceiveParts
  <2>2. /\ Len(wire') = Len(wire) - n
        /\ \A i \in 1..(Len(wire) - n) : wire'[i] = wire[n + i]
    BY ONLY <1>4, <2>1, Cut
  <2>3. ASSUME NEW i \in 1..Len(wire'), IsFrame(wire'[i]) PROVE wire'[i] \in Sent
    <3>1. i \in 1..(Len(wire) - n) /\ n + i \in 1..Len(wire)
      BY ONLY <1>4, <2>1, <2>2, <2>3
    <3>2. QED
      BY ONLY <1>2, <2>2, <2>3, <3>1
  <2>4. \A k \in 1..Len(frames) : frames[k] \in Sent
    BY ONLY <1>2, <2>1
  <2>5. Len(frames) > 0 => 1 \in 1..Len(frames)
    BY LenProperties
  <2>6. \A i \in 1..Len(recvQueue') : recvQueue'[i] \in Sent
    BY <1>2, <2>1, <2>4
  <2>7. got' = got \/ \E frame \in Sent : got' = Append(got, frame)
    BY <2>1, <2>4, <2>5 DEF ReceiveReturns
  <2>8. QED
    BY <1>3, <2>3, <2>6, <2>7
<1>8. QED
  BY <1>5, <1>6, <1>7 DEF ConsumeStep


LEMMA DatagramsNetwork ==
    ASSUME LinkInv, DatagramsSent, Network
    PROVE  DatagramsSent'
<1>1. kind = "udp" /\ kind' = kind /\ UNCHANGED <<tx, batch, recvQueue, sent>>
  BY DEF Network, UdpNetwork, calls, producerVars, consumerVars
<1>2. /\ tx.pc = "in" => tx.frame \in Sent
      /\ \A i \in 1..Len(batch) : batch[i] \in Sent
      /\ \A i \in 1..Len(wire) : IsFrame(wire[i]) => wire[i] \in Sent
      /\ \A i \in 1..Len(recvQueue) : recvQueue[i] \in Sent
  BY <1>1 DEF DatagramsSent
<1>3. \A k \in 1..Len(wire') :
        wire'[k] \in Strays \/ \E i \in 1..Len(wire) : wire'[k] = wire[i]
  BY NetworkParts DEF Network
<1>4. \A k \in 1..Len(wire') : IsFrame(wire'[k]) => wire'[k] \in Sent
  BY ONLY <1>2, <1>3, StraysAreNoFrames
<1>5. Sent' = Sent
  BY <1>1 DEF Sent
<1>6. QED
  BY <1>1, <1>2, <1>4, <1>5 DEF DatagramsSent

(* Both ends of a pipe.                                                     *)
LEMMA PipeTypes ==
    ASSUME LinkInv
    PROVE  /\ sent \in Seq(Framed) /\ Len(sent) \in Nat
           /\ got \in Seq(Framed) /\ Len(got) \in Nat
           /\ pipe \in Seq(Units) /\ Len(pipe) \in Nat
           /\ tx.frame \in Seq(Units) /\ Len(tx.frame) \in Nat
           /\ rx.frame \in Seq(Units) /\ Held \in Seq(Units) /\ Len(Held) \in Nat
           /\ Read0 \in Nat /\ Read1 \in Nat /\ Read2 \in Nat
           /\ snd.next \in Nat
<1>1. /\ sent \in Seq(Framed) /\ got \in Seq(Framed) /\ pipe \in Seq(Units)
      /\ tx.frame \in Seq(Units) /\ rx.frame \in Seq(Units) /\ snd.next \in Nat
  BY DEF LinkInv, TransportTypes, ProgramTypes
<1>2. Held \in Seq(Units)
  BY <1>1 DEF Held
<1>3. /\ Len(sent) \in Nat /\ Len(got) \in Nat /\ Len(pipe) \in Nat
      /\ Len(tx.frame) \in Nat /\ Len(Held) \in Nat
  BY ONLY <1>1, <1>2, LenProperties
<1>4. Read0 \in Nat
  BY <1>3, Starts DEF Read0
<1>5. QED
  BY <1>1, <1>2, <1>3, <1>4 DEF Read1, Read2

(* The sender's calls and returns.                                          *)
LEMMA PipeSender ==
    ASSUME LinkInv, PipeStream, kind = "pipe", SenderKeeps,
           \/ SenderCalls \/ SenderLeaves \/ SenderReturned \/ SenderFlushes \/ SenderFlushed
           \/ Gone
    PROVE  PipeStream'
<1> USE DEF calls, histories, ingesting
<1>1. UNCHANGED <<rx, got, pipe, ing, kind>>
  BY DEF SenderKeeps, SenderCalls, SenderLeaves, SenderReturned, SenderFlushes, UdpFlush,
         SenderFlushed, Gone, pipeVars
<1>2. /\ InOrder(sent) /\ InOrder(got)
      /\ tx.pc # "in" => tx.frame = <<>>
      /\ snd.pc = "loop" => Len(sent) = snd.next /\ tx.pc = "idle"
      /\ snd.pc = "sending" => Len(sent) = snd.next + 1
      /\ EndOfStream \/ Streaming
  BY DEF PipeStream
<1>3. snd \in [pc : SndPcs, next : Nat] /\ tx \in [pc : TxPcs, frame : Seq(Units)]
      /\ tx.pc \notin {"flush", "false"}
  BY DEF LinkInv, ProgramTypes, TransportTypes, CallsAgree
<1>4. EndOfStream' = EndOfStream /\ InOrder(got)'
  BY <1>1, <1>2 DEF EndOfStream, InOrder
<1>5. Held' = Held /\ Read0' = Read0 /\ Read1' = Read1 /\ Read2' = Read2
  BY <1>1 DEF Held, Read0, Read1, Read2
<1>6. ASSUME sent' = sent, tx'.frame = tx.frame PROVE InOrder(sent)' /\ (EndOfStream \/ Streaming)'
  BY <1>1, <1>2, <1>4, <1>5, <1>6 DEF Streaming, InOrder, Placed
<1>7. CASE SenderCalls
  <2>1. /\ tx.pc = "idle" /\ tx' = [pc |-> "in", frame |-> WholeFrame(snd.next)]
        /\ sent' = Append(sent, WholeFrame(snd.next))
        /\ snd.pc = "loop" /\ snd' = [snd EXCEPT !.pc = "sending"]
    BY <1>7 DEF SenderCalls, CallSend
  <2>2. /\ tx'.pc = "in" /\ tx'.frame = WholeFrame(snd.next)
        /\ snd'.pc = "sending" /\ snd'.next = snd.next
    BY ONLY <1>3, <2>1
  <2>3. tx.frame = <<>> /\ Len(sent) = snd.next /\ snd.next \in Nat /\ sent \in Seq(Framed)
    BY <1>2, <2>1, PipeTypes
  <2>4. WholeFrame(snd.next) \in Framed /\ Len(WholeFrame(snd.next)) = FrameUnits
    BY ONLY <2>3, WholeFrames
  <2>5. /\ Len(sent') = Len(sent) + 1 /\ sent'[Len(sent) + 1] = WholeFrame(snd.next)
        /\ \A i \in 1..Len(sent) : sent'[i] = sent[i]
    BY ONLY <2>1, <2>3, <2>4, Appended
  <2>6. InOrder(sent)'
    <3>1. ASSUME NEW i \in 1..Len(sent') PROVE sent'[i] = WholeFrame(i - 1)
      <4>1. CASE i \in 1..Len(sent)
        BY <1>2, <2>5, <4>1 DEF InOrder
      <4>2. CASE i \notin 1..Len(sent)
        <5>1. i = Len(sent) + 1 /\ i - 1 = snd.next
          BY <2>3, <2>5, <4>2
        <5>2. QED
          BY <2>5, <5>1
      <4>3. QED
        BY <4>1, <4>2
    <3>2. QED
      BY <3>1 DEF InOrder
  <2>7. ASSUME Streaming PROVE Streaming'
    <3>1. /\ Placed(Read0, Held) /\ Placed(Read1, pipe)
          /\ Read2 + Len(tx.frame) = FrameStart(Len(sent))
      BY <2>7 DEF Streaming
    <3>2. Read2 \in Nat /\ FrameUnits \in Nat
      BY PipeTypes, Sizes
    <3>3. Len(tx.frame) = 0
      BY <2>3
    <3>4. Read2 = FrameStart(snd.next)
      BY <2>3, <3>1, <3>2, <3>3
    <3>5. Placed(Read2, tx'.frame)
      BY <2>2, <2>3, <3>4, WholePlaced
    <3>6. FrameStart(Len(sent')) = FrameStart(snd.next) + FrameUnits
      BY <2>3, <2>5, Starts
    <3>7. Read2 + Len(tx'.frame) = FrameStart(Len(sent'))
      BY <2>2, <2>4, <3>4, <3>6
    <3>8. QED
      BY <1>1, <1>5, <3>1, <3>5, <3>7 DEF Streaming, Placed
  <2>8. Len(sent') = snd'.next + 1
    BY <2>2, <2>3, <2>5
  <2>9. QED
    BY <1>2, <1>4, <2>2, <2>6, <2>7, <2>8 DEF PipeStream
<1>8. CASE SenderLeaves
  <2>1. snd.pc = "loop" /\ snd'.pc \in {"exit", "flush"} /\ UNCHANGED <<tx, sent>>
    BY <1>3, <1>8 DEF SenderLeaves, Leaving
  <2>2. QED
    BY <1>2, <1>4, <1>6, <2>1 DEF PipeStream
<1>9. CASE SenderReturned
  <2>1. /\ snd.pc = "sending" /\ tx.pc = "true" /\ tx'.pc = "idle" /\ tx'.frame = tx.frame
        /\ snd'.pc = "loop" /\ snd'.next = snd.next + 1 /\ sent' = sent
    BY <1>3, <1>9 DEF SenderReturned, Leaving
  <2>2. QED
    BY <1>2, <1>4, <1>6, <2>1 DEF PipeStream
<1>10. CASE SenderFlushes
  BY <1>10 DEF SenderFlushes, UdpFlush
<1>11. CASE SenderFlushed
  <2>1. /\ snd.pc = "flushing" /\ tx.pc = "true" /\ tx'.pc = "idle" /\ tx'.frame = tx.frame
        /\ snd'.pc = "exit" /\ sent' = sent
    BY <1>3, <1>11 DEF SenderFlushed
  <2>2. QED
    BY <1>2, <1>4, <1>6, <2>1 DEF PipeStream
<1>12. CASE Gone
  <2>1. snd'.pc = "gone" /\ UNCHANGED <<tx, sent>>
    BY <1>3, <1>12 DEF Gone
  <2>2. QED
    BY <1>2, <1>4, <1>6, <2>1 DEF PipeStream
<1>13. QED
  BY <1>7, <1>8, <1>9, <1>10, <1>11, <1>12

(* A turn of writev moves the front of what is left into the pipe.          *)
LEMMA PipeWritten ==
    ASSUME LinkInv, PipeStream, kind = "pipe", PipeWrite, SenderKeeps,
           UNCHANGED <<sent, udpVars, snd>>
    PROVE  PipeStream'
<1> USE DEF calls, histories, ingesting
<1>1. UNCHANGED <<rx, got, sent, ing, kind, snd>> /\ tx.pc = "in"
  BY DEF SenderKeeps, PipeWrite
<1>2. /\ InOrder(sent) /\ InOrder(got)
      /\ snd.pc = "loop" => Len(sent) = snd.next /\ tx.pc = "idle"
      /\ snd.pc = "sending" => Len(sent) = snd.next + 1
      /\ EndOfStream \/ Streaming
  BY DEF PipeStream
<1>3. PICK n \in 1..Len(tx.frame) :
        /\ n \in Nat /\ n <= Len(tx.frame)
        /\ pipe' = pipe \o SubSeq(tx.frame, 1, n)
        /\ \/ /\ Advance(tx.frame, n) = <<>>
              /\ tx' = [pc |-> "true", frame |-> <<>>]
           \/ /\ Advance(tx.frame, n) # <<>>
              /\ tx' = [tx EXCEPT !.frame = Advance(tx.frame, n)]
  BY WriteParts
<1> DEFINE front == SubSeq(tx.frame, 1, n)
           rest == Advance(tx.frame, n)
<1>4. /\ tx.frame \in Seq(Units) /\ pipe \in Seq(Units) /\ Len(pipe) \in Nat
      /\ Len(tx.frame) \in Nat /\ Read1 \in Nat /\ Read2 \in Nat
  BY PipeTypes
<1>5. /\ front \in Seq(Units) /\ Len(front) = n /\ Len(rest) = Len(tx.frame) - n
  BY ONLY <1>3, <1>4, Cut, SMTT(30) DEF Advance
<1> HIDE DEF rest
<1>6. tx'.frame = rest /\ (tx'.pc # "in" => tx'.frame = <<>>)
  <2>1. tx \in [pc : TxPcs, frame : Seq(Units)]
    BY DEF LinkInv, TransportTypes
  <2>2. CASE rest = <<>> /\ tx' = [pc |-> "true", frame |-> <<>>]
    BY ONLY <2>2
  <2>3. CASE tx' = [tx EXCEPT !.frame = rest]
    BY ONLY <1>1, <2>1, <2>3
  <2>4. QED
    BY <1>3, <2>2, <2>3 DEF rest
<1>7. EndOfStream' = EndOfStream
  BY <1>1 DEF EndOfStream
<1>8. ASSUME Streaming PROVE Streaming'
  <2>1. /\ Placed(Read0, Held) /\ Placed(Read1, pipe) /\ Placed(Read2, tx.frame)
        /\ Read2 + Len(tx.frame) = FrameStart(Len(sent))
    BY <1>8 DEF Streaming
  <2>2. Placed(Read2, front) /\ Placed(Read2 + n, rest)
    BY ONLY <1>3, <1>4, <2>1, PlacedCut DEF rest, Advance
  <2>3. Held' = Held /\ Read0' = Read0 /\ Read1' = Read1
    BY <1>1 DEF Held, Read0, Read1
  <2> HIDE DEF front
  <2>4. Len(pipe') = Len(pipe) + n /\ pipe' = pipe \o front
    <3>1. pipe' = pipe \o front
      BY <1>3 DEF front
    <3>2. Len(pipe \o front) = Len(pipe) + Len(front)
      BY ONLY <1>4, <1>5, Joined
    <3>3. QED
      BY <1>5, <3>1, <3>2
  <2>5. Read2' = Read2 + n
    BY <1>3, <1>4, <2>3, <2>4 DEF Read2
  <2>6. Placed(Read1, pipe')
    <3>1. Placed(Read1 + Len(pipe), front)
      BY <2>2 DEF Read2
    <3>2. Placed(Read1, pipe \o front)
      BY ONLY <1>4, <1>5, <2>1, <3>1, PlacedJoin
    <3>3. QED
      BY <2>4, <3>2
  <2>7. Read2' + Len(tx'.frame) = FrameStart(Len(sent))
    <3>1. Len(tx'.frame) = Len(tx.frame) - n /\ Read2 + Len(tx.frame) = FrameStart(Len(sent))
      BY ONLY <1>5, <1>6, <2>1
    <3>2. PICK a \in Nat : a = n
      BY <1>3
    <3>3. PICK b \in Nat : b = Read2
      BY <1>4
    <3>4. PICK c \in Nat : c = Len(tx.frame)
      BY <1>4
    <3>5. (b + a) + (c - a) = b + c
      BY ONLY a \in Nat, b \in Nat, c \in Nat
    <3>6. QED
      BY ONLY <2>5, <3>1, <3>2, <3>3, <3>4, <3>5
  <2>8. Placed(Read2', tx'.frame)
    BY <1>6, <2>2, <2>5
  <2>9. QED
    BY <1>1, <2>1, <2>3, <2>6, <2>7, <2>8 DEF Streaming, Placed
<1>9. snd.pc # "loop"
  BY <1>1, <1>2
<1>10. InOrder(sent)' /\ InOrder(got)'
  BY <1>1, <1>2 DEF InOrder
<1>11. QED
  BY <1>1, <1>2, <1>6, <1>7, <1>8, <1>9, <1>10 DEF PipeStream


LEMMA PipeOthers ==
    ASSUME LinkInv, PipeStream, UNCHANGED <<kind, tx, sent, got, pipe, snd>>,
           EndOfStream' \/ (Held' = Held /\ ~EndOfStream)
    PROVE  PipeStream'
<1> SUFFICES ASSUME kind = "pipe" PROVE PipeStream'
  BY DEF PipeStream
<1>1. /\ InOrder(sent) /\ InOrder(got)
      /\ tx.pc # "in" => tx.frame = <<>>
      /\ snd.pc = "loop" => Len(sent) = snd.next /\ tx.pc = "idle"
      /\ snd.pc = "sending" => Len(sent) = snd.next + 1
      /\ EndOfStream \/ Streaming
  BY DEF PipeStream
<1>2. InOrder(sent)' /\ InOrder(got)'
  BY <1>1 DEF InOrder
<1>3. ASSUME Held' = Held, Streaming PROVE Streaming'
  BY <1>3 DEF Streaming, Read0, Read1, Read2, Placed
<1>4. (EndOfStream \/ Streaming)'
  BY <1>1, <1>3
<1>5. QED
  BY <1>1, <1>2, <1>4 DEF PipeStream

(* The ingestion thread lets the stream as it is, or has seen its end.      *)
LEMMA PipeIngest ==
    ASSUME LinkInv, PipeStream, ReceiverKeeps,
           Start \/ Read \/ Leave \/ ReadEnds \/ Account \/ PushBulk \/ RecordPush
    PROVE  PipeStream'
<1> USE DEF calls, histories, pipeVars, ReceiverKeeps
<1>1. UNCHANGED <<kind, tx, sent, got, pipe, snd>>
  BY DEF Start, Read, Leave, ReadEnds, Account, PushBulk, RecordPush
<1>2. ing \in [pc : IngPcs, ch : Channels, n : Nat, expected : Nat]
      /\ rx \in [pc : RxPcs, frame : Seq(Units)]
      /\ (ing.pc \in {"push", "record"} => rx.pc = "true")
      /\ (ing.pc \in {"off", "loop", "ended"} => rx.pc = "idle")
  BY DEF LinkInv, ProgramTypes, TransportTypes, CallsAgree
<1>3. CASE Leave \/ ReadEnds
  <2>1. ing'.pc = "ended"
    BY <1>2, <1>3 DEF Leave, ReadEnds
  <2>2. QED
    BY <1>1, <2>1, PipeOthers DEF EndOfStream
<1>4. CASE Start \/ PushBulk
  <2>1. Held' = Held /\ ~EndOfStream
    BY <1>2, <1>4 DEF Start, PushBulk, Held, EndOfStream
  <2>2. QED
    BY <1>1, <2>1, PipeOthers
<1>5. CASE Read
  <2>1. rx' = [pc |-> "in", frame |-> <<>>] /\ rx.pc = "idle" /\ ing.pc = "loop"
    BY <1>5 DEF Read, CallReceive
  <2>2. rx'.frame = <<>>
    BY ONLY <2>1
  <2>3. Held' = Held /\ ~EndOfStream
    BY <2>1, <2>2 DEF Held, EndOfStream
  <2>4. QED
    BY <1>1, <2>3, PipeOthers
<1>6. CASE Account \/ RecordPush
  <2>1. rx.pc = "true" /\ ing.pc \in {"read", "record"}
    BY <1>2, <1>6 DEF Account, RecordPush
  <2>2. rx' = rx \/ rx' = [pc |-> "idle", frame |-> <<>>]
    BY <1>6 DEF Account, RecordPush
  <2>3. rx'.pc # "in"
    <3>1. CASE rx' = rx
      BY <2>1, <3>1
    <3>2. CASE rx' = [pc |-> "idle", frame |-> <<>>]
      BY ONLY <3>2
    <3>3. QED
      BY <2>2, <3>1, <3>2
  <2>4. Held' = Held /\ ~EndOfStream
    BY <2>1, <2>3 DEF Held, EndOfStream
  <2>5. QED
    BY <1>1, <2>4, PipeOthers
<1>7. QED
  BY <1>3, <1>4, <1>5, <1>6

(* A read takes the next units; a frame that it completes is the next one   *)
(* of those sent.                                                           *)
LEMMA PipeReadNext ==
    ASSUME LinkInv, PipeStream, kind = "pipe", PipeRead, ReceiverKeeps,
           UNCHANGED <<udpVars, ingesting>>
    PROVE  /\ PipeStream'
           /\ \/ got' = got
              \/ \E i \in 1..Len(sent) : i = Len(got) + 1 /\ got' = Append(got, sent[i])
<1> USE DEF calls, histories, ingesting
<1>1. /\ UNCHANGED <<kind, tx, sent, snd, ing>> /\ rx.pc = "in"
      /\ ing.pc = "read" /\ ing.pc # "ended" /\ ~EndOfStream
  BY DEF PipeRead, ReceiverKeeps, LinkInv, CallsAgree, ProgramTypes, IngPcs, EndOfStream
<1>2. /\ InOrder(sent) /\ InOrder(got)
      /\ tx.pc # "in" => tx.frame = <<>>
      /\ snd.pc = "loop" => Len(sent) = snd.next /\ tx.pc = "idle"
      /\ snd.pc = "sending" => Len(sent) = snd.next + 1
      /\ Streaming
  BY <1>1 DEF PipeStream
<1>3. /\ Placed(Read0, Held) /\ Placed(Read1, pipe) /\ Placed(Read2, tx.frame)
      /\ Read2 + Len(tx.frame) = FrameStart(Len(sent))
  BY <1>2 DEF Streaming
<1>4. /\ sent \in Seq(Framed) /\ Len(sent) \in Nat
      /\ got \in Seq(Framed) /\ Len(got) \in Nat
      /\ pipe \in Seq(Units) /\ Len(pipe) \in Nat /\ Len(tx.frame) \in Nat
      /\ Held \in Seq(Units) /\ Len(Held) \in Nat /\ Held = rx.frame
      /\ Read0 \in Nat /\ Read1 \in Nat /\ Read2 \in Nat
      /\ FrameUnits \in Nat /\ FrameUnits > 0
  BY <1>1, PipeTypes, Sizes DEF Held
<1> DEFINE More(n) == rx.frame \o SubSeq(pipe, 1, n)
<1>5. PICK n \in Nat :
        /\ n <= Len(pipe) /\ Len(More(n)) = Len(rx.frame) + n
        /\ Len(More(n)) <= FrameUnits /\ More(n) \in Seq(Units)
        /\ pipe' = Advance(pipe, n)
        /\ \/ ReceiveFails
           \/ Len(More(n)) = FrameUnits /\ ReceiveReturns(More(n))
           \/ rx' = [rx EXCEPT !.frame = More(n)] /\ UNCHANGED got
  BY ReadParts
<1> DEFINE units == More(n)
<1>6. /\ SubSeq(pipe, 1, n) \in Seq(Units) /\ Len(pipe') = Len(pipe) - n
      /\ Placed(Read1, SubSeq(pipe, 1, n)) /\ Placed(Read1 + n, pipe')
  <2>1. SubSeq(pipe, 1, n) \in Seq(Units) /\ Len(pipe') = Len(pipe) - n
    BY ONLY <1>4, <1>5, Cut, SMTT(30) DEF Advance
  <2>2. Placed(Read1, SubSeq(pipe, 1, n)) /\ Placed(Read1 + n, pipe')
    BY ONLY <1>3, <1>4, <1>5, PlacedCut DEF Advance
  <2>3. QED
    BY <2>1, <2>2
<1>7. Placed(Read0, units)
  <2>1. Placed(Read0 + Len(Held), SubSeq(pipe, 1, n))
    BY <1>6 DEF Read1
  <2>2. Placed(Read0, Held \o SubSeq(pipe, 1, n))
    BY ONLY <1>3, <1>4, <1>6, <2>1, PlacedJoin
  <2>3. QED
    BY <1>4, <2>2
<1>8. Read0 + Len(units) = Read1 + n
  BY <1>4, <1>5 DEF Read1
<1>9. /\ units \in Seq(Units)
      /\ \/ ReceiveFails
         \/ Len(units) = FrameUnits /\ ReceiveReturns(units)
         \/ rx' = [rx EXCEPT !.frame = units] /\ UNCHANGED got
  BY <1>5
<1> HIDE DEF units, More
<1>10. InOrder(sent)'
  BY <1>1, <1>2 DEF InOrder
<1>11. ASSUME InOrder(got)', EndOfStream' \/ Streaming' PROVE PipeStream'
  BY <1>1, <1>2, <1>10, <1>11 DEF PipeStream
<1>12. ASSUME Read0' + Len(Held') = Read1 + n, Placed(Read0', Held') PROVE Streaming'
  <2>1. Read1' = Read1 + n
    BY <1>12 DEF Read1
  <2>2. Read2' = Read2
    BY <1>4, <1>5, <1>6, <2>1 DEF Read2
  <2>3. Placed(Read1', pipe') /\ Placed(Read2', tx'.frame)
    BY <1>1, <1>3, <1>6, <2>1, <2>2
  <2>4. Read2' + Len(tx'.frame) = FrameStart(Len(sent'))
    BY <1>1, <1>3, <2>2
  <2>5. QED
    BY <1>12, <2>3, <2>4 DEF Streaming, Placed
<1>13. CASE ReceiveFails
  <2>1. rx'.pc = "false" /\ got' = got
    BY <1>13, Failed
  <2>2. InOrder(got)'
    BY <1>2, <2>1 DEF InOrder
  <2>3. QED
    BY <1>11, <2>1, <2>2 DEF EndOfStream
<1>14. CASE rx' = [rx EXCEPT !.frame = units] /\ UNCHANGED got
  <2>1. rx \in [pc : RxPcs, frame : Seq(Units)]
    BY DEF LinkInv, TransportTypes
  <2>2. rx'.pc = "in" /\ rx'.frame = units
    BY ONLY <1>1, <1>14, <2>1
  <2>3. Held' = units /\ Read0' = Read0
    BY <1>14, <2>2 DEF Held, Read0
  <2>4. InOrder(got)'
    BY <1>2, <1>14 DEF InOrder
  <2>5. QED
    BY <1>7, <1>8, <1>11, <1>12, <1>14, <2>3, <2>4
<1>15. CASE Len(units) = FrameUnits /\ ReceiveReturns(units)
  <2>1. rx' = [pc |-> "true", frame |-> units] /\ got' = Append(got, units)
    BY <1>15 DEF ReceiveReturns
  <2>2. rx'.pc = "true"
    BY ONLY <2>1
  <2>3. units = WholeFrame(Len(got))
    BY <1>4, <1>7, <1>9, <1>15, PlacedWhole DEF Read0
  <2>4. units \in Framed
    BY <1>9, <1>15 DEF Framed
  <2>5. /\ Len(got') = Len(got) + 1 /\ got'[Len(got) + 1] = units
        /\ \A i \in 1..Len(got) : got'[i] = got[i]
    BY ONLY <1>4, <2>1, <2>4, Appended
  <2>6. InOrder(got)'
    <3>1. ASSUME NEW i \in 1..Len(got') PROVE got'[i] = WholeFrame(i - 1)
      <4>1. CASE i \in 1..Len(got)
        BY <1>2, <2>5, <4>1 DEF InOrder
      <4>2. CASE i \notin 1..Len(got)
        <5>1. i = Len(got) + 1 /\ i - 1 = Len(got)
          BY <1>4, <2>5, <4>2
        <5>2. QED
          BY <2>3, <2>5, <5>1
      <4>3. QED
        BY <4>1, <4>2
    <3>2. QED
      BY <3>1 DEF InOrder
  <2>7. Read0' = Read0 + FrameUnits /\ Held' = <<>> /\ Len(Held') = 0
    BY <1>4, <2>2, <2>5, Starts DEF Read0, Held
  <2>8. Streaming'
    <3>1. Placed(Read0', Held')
      BY <2>7 DEF Placed
    <3>2. Read0' + Len(Held') = Read1 + n
      BY <1>4, <1>8, <1>15, <2>7
    <3>3. QED
      BY <1>12, <3>1, <3>2
  <2>9. Len(got) + 1 \in 1..Len(sent)
    <3>1. Read0 + FrameUnits <= FrameStart(Len(sent))
      <4>1. Read1 + n = Read0 + FrameUnits
        BY <1>8, <1>15
      <4>2. Read2 = Read1 + Len(pipe)
        BY DEF Read2
      <4>3. /\ Len(pipe) \in Nat /\ Len(tx.frame) \in Nat /\ n <= Len(pipe)
            /\ Read0 \in Nat /\ Read1 \in Nat /\ Read2 \in Nat /\ FrameUnits \in Nat
            /\ Read2 + Len(tx.frame) = FrameStart(Len(sent))
        BY ONLY <1>3, <1>4, <1>5
      <4> DEFINE a == Read0 + FrameUnits
                 b == Read1 + n
                 c == Read2
                 d == FrameStart(Len(sent))
      <4>4. a = b
        BY ONLY <4>1
      <4>5. b <= c /\ b \in Nat /\ c \in Nat
        BY ONLY <4>2, <4>3, n \in Nat
      <4>6. c <= d /\ d \in Nat
        <5>1. c <= Read2 + Len(tx.frame) /\ Read2 + Len(tx.frame) \in Nat
          BY ONLY <4>3
        <5>2. QED
          BY ONLY <4>3, <5>1
      <4> HIDE DEF a, b, c, d
      <4>7. a <= d
        BY ONLY <4>4, <4>5, <4>6
      <4>8. QED
        BY <4>7 DEF a, d
    <3>2. ~(Len(sent) < Len(got))
      <4>1. Len(sent) < Len(got) => FrameStart(Len(sent)) + FrameUnits <= Read0
        BY <1>4, Starts DEF Read0
      <4>2. FrameStart(Len(sent)) \in Nat
        BY ONLY <1>4, Starts
      <4>3. QED
        BY ONLY <1>4, <3>1, <4>1, <4>2
    <3>3. Len(sent) # Len(got)
      BY <1>4, <3>1 DEF Read0
    <3>4. QED
      BY <1>4, <3>2, <3>3
  <2>10. sent[Len(got) + 1] = units
    <3>1. (Len(got) + 1) - 1 = Len(got)
      BY <1>4
    <3>2. sent[Len(got) + 1] = WholeFrame((Len(got) + 1) - 1)
      BY <1>2, <2>9 DEF InOrder
    <3>3. QED
      BY <2>3, <3>1, <3>2
  <2>11. PipeStream'
    BY <1>11, <2>6, <2>8
  <2>12. QED
    BY <2>1, <2>9, <2>10, <2>11
<1>16. QED
  BY <1>9, <1>13, <1>14, <1>15


(* Every step keeps the invariant, and gives the programs what FrameStream  *)
(* allows.                                                                  *)
Delivers ==
    \/ got' = got
    \/ \E i \in 1..Len(sent) :
         /\ kind = "pipe" => i = Len(got) + 1
         /\ got' = Append(got, sent[i]) /\ sent' = sent

Sends ==
    \/ sent' = sent
    \/ /\ Len(sent') = Len(sent) + 1
       /\ SubSeq(sent', 1, Len(sent)) = sent
       /\ got' = got

LEMMA StreamStep ==
    ASSUME LinkInv, LinkInv', StreamInv, [Next]_vars
    PROVE  StreamInv' /\ Delivers /\ Sends /\ kind' = kind
<1> USE DEF calls, histories, pipeVars, udpVars, producerVars, consumerVars, ingesting
<1>1. DatagramsSent /\ PipeStream /\ Sent \subseteq Sent'
  BY SentGrows DEF StreamInv
<1>2. ASSUME kind # "pipe", kind' = kind PROVE PipeStream'
  BY <1>2 DEF PipeStream
<1>3. ASSUME kind # "udp", kind' = kind PROVE DatagramsSent'
  BY <1>3 DEF DatagramsSent
<1>4. kind \in {"pipe", "udp"}
  BY DEF LinkInv, TransportTypes
<1>5. CASE /\ SenderKeeps
           /\ \/ SenderCalls \/ SenderLeaves \/ SenderReturned \/ SenderFlushes \/ SenderFlushed
              \/ Gone
  <2>1. kind' = kind /\ got' = got /\ UNCHANGED <<wire, recvQueue, batch>>
    BY <1>5 DEF SenderKeeps, SenderCalls, SenderLeaves, SenderReturned, SenderFlushes, UdpFlush,
                SenderFlushed, Gone
  <2>2. PipeStream'
    BY <1>1, <1>2, <1>4, <1>5, <2>1, PipeSender
  <2>3. CASE SenderCalls
    <3>1. /\ tx' = [pc |-> "in", frame |-> WholeFrame(snd.next)]
          /\ sent' = Append(sent, WholeFrame(snd.next))
      BY <2>3 DEF SenderCalls, CallSend
    <3>2. sent \in Seq(Framed) /\ Len(sent) \in Nat /\ snd.next \in Nat
      BY PipeTypes
    <3>3. WholeFrame(snd.next) \in Framed
      BY ONLY <3>2, WholeFrames
    <3>4. /\ sent' \in Seq(Framed) /\ Len(sent') = Len(sent) + 1
          /\ \A i \in 1..Len(sent) : sent'[i] = sent[i]
          /\ sent'[Len(sent) + 1] = WholeFrame(snd.next)
      BY ONLY <3>1, <3>2, <3>3, Appended
    <3>5. SubSeq(sent', 1, Len(sent)) = sent
      <4>1. Len(sent) <= Len(sent')
        BY <3>2, <3>4
      <4>2. /\ SubSeq(sent', 1, Len(sent)) \in Seq(Framed)
            /\ Len(SubSeq(sent', 1, Len(sent))) = Len(sent)
            /\ \A i \in 1..Len(sent) : SubSeq(sent', 1, Len(sent))[i] = sent'[i]
        BY ONLY <3>2, <3>4, <4>1, Cut
      <4>3. \A i \in 1..Len(SubSeq(sent', 1, Len(sent))) :
              SubSeq(sent', 1, Len(sent))[i] = sent[i]
        BY ONLY <3>4, <4>2
      <4>4. QED
        BY ONLY <3>2, <4>2, <4>3, SeqEqual
    <3>6. tx'.frame \in Sent'
      <4>1. Len(sent) + 1 \in 1..Len(sent')
        BY <3>2, <3>4
      <4>2. tx'.frame = WholeFrame(snd.next)
        BY ONLY <3>1
      <4>3. QED
        BY <3>4, <4>1, <4>2 DEF Sent
    <3>7. DatagramsSent'
      BY <1>1, <2>1, <3>6, DatagramsKept
    <3>8. QED
      BY <2>1, <2>2, <3>4, <3>5, <3>7 DEF StreamInv, Delivers, Sends
  <2>4. CASE ~SenderCalls
    <3>1. sent' = sent
      BY <1>5, <2>4 DEF SenderLeaves, SenderReturned, SenderFlushes, SenderFlushed, Gone
    <3>2. tx'.pc # "in" \/ tx' = tx
      BY <1>5, <2>4 DEF SenderLeaves, SenderReturned, SenderFlushes, UdpFlush, SenderFlushed, Gone,
                        LinkInv, TransportTypes
    <3>3. DatagramsSent'
      BY <1>1, <2>1, <3>2, DatagramsKept
    <3>4. QED
      BY <2>1, <2>2, <3>1, <3>3 DEF StreamInv, Delivers, Sends
  <2>5. QED
    BY <2>3, <2>4
<1>6. CASE PipeWrite /\ SenderKeeps /\ UNCHANGED <<sent, udpVars, snd>>
  <2>1. kind = "pipe" /\ kind' = kind /\ got' = got /\ sent' = sent
    BY <1>6 DEF PipeWrite, SenderKeeps
  <2>2. PipeStream'
    BY <1>1, <1>6, <2>1, PipeWritten
  <2>3. QED
    BY <1>3, <2>1, <2>2 DEF StreamInv, Delivers, Sends
<1>7. CASE ProduceStep /\ ProduceKeeps
  <2>1. kind' = kind /\ got' = got /\ sent' = sent
    BY <1>7 DEF ProduceKeeps, SenderKeeps
  <2>2. kind = "udp"
    BY <1>4, <1>7 DEF ProduceStep, UdpRefuse, UdpSendOne, UdpEnqueue, UdpFlushSome, UdpFlushFails,
                      LinkInv, CallsAgree
  <2>3. DatagramsSent'
    BY <1>1, <1>7, <2>1, DatagramsProduce DEF Sent
  <2>4. QED
    BY <1>2, <2>1, <2>2, <2>3 DEF StreamInv, Delivers, Sends
<1>8. CASE /\ ReceiverKeeps
           /\ Start \/ Read \/ Leave \/ ReadEnds \/ Account \/ PushBulk \/ RecordPush
  <2>1. UNCHANGED <<kind, sent, got, tx, batch, wire, recvQueue>>
    BY <1>8 DEF ReceiverKeeps, Start, Read, Leave, ReadEnds, Account, PushBulk, RecordPush
  <2>2. PipeStream'
    BY <1>1, <1>8, PipeIngest
  <2>3. DatagramsSent'
    BY <1>1, <2>1, DatagramsKept
  <2>4. QED
    BY <2>1, <2>2, <2>3 DEF StreamInv, Delivers, Sends
<1>9. CASE PipeRead /\ ReceiverKeeps /\ UNCHANGED <<udpVars, ingesting>>
  <2>1. kind = "pipe" /\ kind' = kind /\ sent' = sent
    BY <1>9 DEF PipeRead, ReceiverKeeps
  <2>2. /\ PipeStream'
        /\ \/ got' = got
           \/ \E i \in 1..Len(sent) : i = Len(got) + 1 /\ got' = Append(got, sent[i])
    BY <1>1, <1>9, <2>1, PipeReadNext
  <2>3. QED
    BY <1>3, <2>1, <2>2 DEF StreamInv, Delivers, Sends
<1>10. CASE PipeEof /\ ReceiverKeeps /\ UNCHANGED <<got, udpVars, ingesting>>
  <2>1. UNCHANGED <<kind, sent, got, tx, batch, wire, recvQueue, pipe, snd>> /\ EndOfStream'
    BY <1>10, Failed DEF PipeEof, ReceiverKeeps, EndOfStream
  <2>2. PipeStream'
    BY <1>1, <2>1, PipeOthers
  <2>3. DatagramsSent'
    BY <1>1, <2>1, DatagramsKept
  <2>4. QED
    BY <2>1, <2>2, <2>3 DEF StreamInv, Delivers, Sends
<1>11. CASE ConsumeStep /\ ConsumeKeeps
  <2>1. kind = "udp" /\ kind' = kind /\ sent' = sent
    BY <1>4, <1>11 DEF ConsumeStep, UdpStopped, UdpFromQueue, UdpTests, UdpEnter, UdpReceive,
                       UdpTimeout, LinkInv, CallsAgree, ConsumeKeeps, ReceiverKeeps
  <2>2. /\ DatagramsSent'
        /\ got' = got \/ \E frame \in Sent : got' = Append(got, frame)
    BY <1>1, <1>11, <2>1, DatagramsConsume DEF Sent
  <2>3. got' = got \/ \E i \in 1..Len(sent) : got' = Append(got, sent[i])
    BY <2>2 DEF Sent
  <2>4. QED
    BY <1>2, <2>1, <2>2, <2>3 DEF StreamInv, Delivers, Sends
<1>12. CASE Network
  <2>1. kind = "udp" /\ kind' = kind /\ sent' = sent /\ got' = got
    BY <1>12 DEF Network, UdpNetwork
  <2>2. DatagramsSent'
    BY <1>1, <1>12, DatagramsNetwork
  <2>3. QED
    BY <1>2, <2>1, <2>2 DEF StreamInv, Delivers, Sends
<1>13. CASE OwnerStep \/ (\E c \in Channels : Drain(c)) \/ UNCHANGED vars
  <2>1. UNCHANGED <<kind, sent, got, tx, rx, ing, batch, wire, recvQueue, pipe, snd>>
    BY <1>13 DEF OwnerStep, Stop, Destroy, PipeClose, UdpClose, Drain, vars
  <2>2. EndOfStream' \/ (Held' = Held /\ ~EndOfStream)
    BY <2>1 DEF EndOfStream, Held
  <2>3. PipeStream'
    BY <1>1, <2>1, <2>2, PipeOthers
  <2>4. DatagramsSent'
    BY <1>1, <2>1, DatagramsKept
  <2>5. QED
    BY <2>1, <2>3, <2>4 DEF StreamInv, Delivers, Sends
<1>14. QED
  BY Steps, <1>5, <1>6, <1>7, <1>8, <1>9, <1>10, <1>11, <1>12, <1>13, Zenon

(* Either transport keeps its promise: through every cut of the pipe's      *)
(* reads and writes the frames come in order and whole, none left out; a    *)
(* datagram socket hands over whole frames that were sent, whatever the     *)
(* network does (pipe_transport.cpp:75, :174, udp_transport.cpp:353).       *)
THEOREM Streams == Spec => StreamSpec
<1>1. Init => Stream!Init
  BY DEF Init, TransportInit, Stream!Init
<1>2. LinkInv /\ LinkInv' /\ StreamInv /\ [Next]_vars
      => StreamInv' /\ [Stream!Next]_<<kind = "pipe", sent, got>>
  <2> SUFFICES ASSUME LinkInv, LinkInv', StreamInv, [Next]_vars
               PROVE  StreamInv' /\ [Stream!Next]_<<kind = "pipe", sent, got>>
    OBVIOUS
  <2>1. StreamInv' /\ Delivers /\ Sends /\ kind' = kind
    BY StreamStep
  <2>2. (kind = "pipe")' = (kind = "pipe")
    BY <2>1
  <2>3. DOMAIN sent = 1..Len(sent)
    BY DEF LinkInv, TransportTypes
  <2>4. CASE sent' = sent /\ got' = got
    BY <2>1, <2>2, <2>4
  <2>5. CASE /\ Len(sent') = Len(sent) + 1
             /\ SubSeq(sent', 1, Len(sent)) = sent
             /\ got' = got
    <3>1. Stream!Send
      BY <2>2, <2>5 DEF Stream!Send
    <3>2. QED
      BY <2>1, <3>1 DEF Stream!Next
  <2>6. CASE \E i \in 1..Len(sent) :
               /\ kind = "pipe" => i = Len(got) + 1
               /\ got' = Append(got, sent[i]) /\ sent' = sent
    <3>1. Stream!Deliver
      BY <2>2, <2>3, <2>6 DEF Stream!Deliver
    <3>2. QED
      BY <2>1, <3>1 DEF Stream!Next
  <2>7. QED
    BY <2>1, <2>4, <2>5, <2>6 DEF Delivers, Sends
<1>3. QED
  BY CallsKept, InitStream, <1>1, <1>2, PTL DEF Spec, StreamSpec, Stream!Spec

=============================================================================
