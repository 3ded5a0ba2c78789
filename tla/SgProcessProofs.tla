---------------------------- MODULE SgProcessProofs ----------------------------
(***************************************************************************)
(* Proofs about grebe-sg, for any number of channels, ring size, blocks,   *)
(* rates, batches and sequence of commands and user actions.               *)
(*                                                                         *)
(* That two sources never fill the rings together is nearly inductive: the *)
(* switch joins the one before it starts the other.  That the frames carry *)
(* the rate of the source that runs needs two more facts: it holds while   *)
(* the user acts too, and while he does, a generator that is shown is the  *)
(* source that runs (ShownRuns), so the rate buttons do not touch another. *)
(*                                                                         *)
(* What frames hold follows from FlowInv, which says where the samples are *)
(* at every step: each ring has those of the running source in order, the  *)
(* first of them at a place b that is one for all channels (but for the    *)
(* block the sender has popped), or later by at most what was dropped of   *)
(* that channel; the rows of the frame under way likewise.  b moves with a *)
(* frame sent, and is set anew when a source starts over flushed rings.    *)
(***************************************************************************)
EXTENDS SgProcess, TLAPS, FiniteSetTheorems

SourcePlaces == {"run", "push", "record", "none"}
SenderPlaces == {"top", "pop", "store", "send", "ended"}
MainPlaces ==
    {"loop", "gui", "stop", "flush", "flushStore", "start", "join", "ended"}

Slot == 0..(Slots - 1)
Samples == [life : Nat, t : Nat]
SourceStates ==
    [running : BOOLEAN, stop : BOOLEAN, paused : BOOLEAN, rate : Rates, looping : BOOLEAN,
     pc : SourcePlaces, ch : Channels, n : Nat, pushed : Nat, t : Nat, pos : Nat, life : Nat]

RingTypes ==
    /\ head \in [Channels -> Slot] /\ tail \in [Channels -> Slot]
    /\ buf \in [Channels -> [Slot -> Samples]]
    /\ dropped \in [Channels -> Nat]

(* A batch does not go beyond the end of its file, and no more of it is     *)
(* pushed than there is.                                                    *)
BatchFits(r) ==
    /\ r.pos <= FileLength
    /\ r.pc \in {"push", "record"} => r.pos + r.n <= FileLength
FitsIfFile(s, r) == s = "File" => BatchFits(r)

SourceTypes ==
    /\ src \in [Sources -> SourceStates]
    /\ \A s \in Sources :
          /\ src[s].pc = "record" => src[s].pushed <= src[s].n
          /\ FitsIfFile(s, src[s])

SenderTypes ==
    /\ sd \in [pc : SenderPlaces, ch : Channels, block : Nat, newTail : Slot, total : Nat]
    /\ payload \in [Cells -> Samples]
    /\ frame = [block |-> frame.block, drops |-> frame.drops] /\ frame.block \in Nat

MainTypes ==
    /\ ui \in [mode : Sources, sel : Sources, rate : Rates, loop : BOOLEAN]
    /\ mn \in [pc : MainPlaces, ch : Channels, newTail : Slot,
               op : {"none", "load", "generate", "quit"}, rate : Rates \cup {0}]
    /\ mn.pc \in {"flush", "flushStore", "start"} \/ (mn.pc = "stop" /\ mn.op # "quit")
          => mn.rate \in Rates
    /\ currentRate \in Rates /\ blockSize \in Blocks
    /\ cmdRate \in Rates \cup {0} /\ cmdToggle \in BOOLEAN
    /\ lives \in Nat \ {0}
    /\ stopRequested \in BOOLEAN /\ torn \in BOOLEAN

SgTypes == RingTypes /\ SourceTypes /\ SenderTypes /\ MainTypes

-----------------------------------------------------------------------------
(* Arithmetic of a ring: what it holds and what is free are within it.      *)
LEMMA RingArithmetic ==
    ASSUME RingTypes, NEW c \in Channels
    PROVE  /\ Slots \in Nat \ {0}
           /\ head[c] \in Slot /\ tail[c] \in Slot
           /\ Used(c) \in Slot /\ Free(c) \in Slot
           /\ \A k \in 0..Free(c) : Wrap(head[c] + k) \in Slot
           /\ \A k \in 0..Used(c) : Wrap(tail[c] + k) \in Slot
<1>1. Slots \in Nat \ {0} /\ head[c] \in Slot /\ tail[c] \in Slot
  BY SgAssumption DEF RingTypes
<1>2. PICK h, t, n : h = head[c] /\ t = tail[c] /\ n = Slots
  OBVIOUS
<1>3. n \in Nat \ {0} /\ h \in 0..(n - 1) /\ t \in 0..(n - 1)
  BY <1>1, <1>2 DEF Slot
<1>4. Used(c) = IF h >= t THEN h - t ELSE n - t + h
  BY <1>2 DEF Used
<1>5. Used(c) \in 0..(n - 1)
  BY ONLY <1>3, <1>4
<1>6. Free(c) \in 0..(n - 1)
  BY <1>2, <1>3, <1>5 DEF Free
<1>7. \A k \in 0..(n - 1) : Wrap(h + k) \in 0..(n - 1) /\ Wrap(t + k) \in 0..(n - 1)
  BY <1>2, <1>3 DEF Wrap
<1>8. (\A k \in 0..Free(c) : k \in 0..(n - 1)) /\ (\A k \in 0..Used(c) : k \in 0..(n - 1))
  BY <1>3, <1>5, <1>6
<1>9. QED
  BY <1>1, <1>2, <1>5, <1>6, <1>7, <1>8 DEF Slot

LEMMA LeastIsSmaller ==
    ASSUME NEW a \in Nat, NEW b \in Nat
    PROVE  Least(a, b) \in Nat /\ Least(a, b) <= a /\ Least(a, b) <= b
  BY DEF Least

(* A source as it starts, and one that has no thread.                       *)
LEMMA StartedTypes ==
    ASSUME lives \in Nat, NEW r \in Rates, NEW l \in BOOLEAN
    PROVE  /\ Started(r, l) \in SourceStates
           /\ Started(r, l).pc = "run" /\ Started(r, l).pos = 0 /\ Started(r, l).rate = r
           /\ Started(r, l).t = 0 /\ Started(r, l).life = lives + 1
<1>1. 1 \in Channels
  BY SgAssumption DEF Channels
<1>2. QED
  BY <1>1 DEF Started, SourceStates, SourcePlaces

LEMMA OffTypes ==
    ASSUME lives \in Nat, NEW r \in Rates
    PROVE  /\ Off(r) \in SourceStates
           /\ Off(r).pc = "none" /\ Off(r).pos = 0 /\ Off(r).rate = r
<1>1. /\ Started(r, TRUE) \in SourceStates
      /\ Started(r, TRUE).pos = 0 /\ Started(r, TRUE).rate = r
  BY StartedTypes
<1>2. QED
  BY <1>1 DEF Off, SourceStates, SourcePlaces

LEMMA InitTypes == Init => SgTypes
<1> SUFFICES ASSUME Init PROVE SgTypes
  OBVIOUS
<1>c. 1 \in Channels /\ 0 \in Slot /\ NoSample \in Samples /\ 0 \in Nat
  BY SgAssumption DEF Channels, Slot, NoSample, Samples
<1>1. RingTypes
  <2>1. head = [c \in Channels |-> 0] /\ tail = head
        /\ buf = [c \in Channels |-> [i \in 0..(Slots - 1) |-> NoSample]]
        /\ dropped = [c \in Channels |-> 0]
    BY DEF Init
  <2>2. QED
    BY <1>c, <2>1 DEF RingTypes, Slot
<1>2. PICK o \in Options, r \in RateOptions :
         /\ ui = [mode |-> o.source, sel |-> o.source, rate |-> r, loop |-> TRUE]
         /\ currentRate = o.rate /\ blockSize = o.block
         /\ src = [s \in Sources |->
                     IF s = o.source THEN [Off(o.rate) EXCEPT !.running = TRUE, !.pc = "run",
                                                              !.life = 1]
                                     ELSE Off(o.rate)]
  BY DEF Init
<1>3. o.source \in Sources /\ o.rate \in Rates /\ o.block \in Blocks /\ r \in Rates
  BY SgAssumption
<1>4. lives = 1
  BY DEF Init
<1>5. /\ Off(o.rate) \in SourceStates
      /\ Off(o.rate).pc = "none" /\ Off(o.rate).pos = 0
  BY <1>3, <1>4, OffTypes
<1>6. \A s \in Sources :
         /\ src[s] \in SourceStates
         /\ src[s].pc \in {"run", "none"} /\ src[s].pos = 0
  <2> DEFINE on == [Off(o.rate) EXCEPT !.running = TRUE, !.pc = "run", !.life = 1]
  <2>1. on \in SourceStates /\ on.pc = "run" /\ on.pos = 0
    BY <1>5 DEF SourceStates, SourcePlaces
  <2> HIDE DEF on
  <2>2. \A s \in Sources : src[s] = on \/ src[s] = Off(o.rate)
    BY <1>2 DEF on
  <2>3. QED
    BY <1>5, <2>1, <2>2
<1>7. SourceTypes
  <2>1. src \in [Sources -> SourceStates]
    BY <1>2, <1>6
  <2>2. FileLength \in Nat
    BY SgAssumption
  <2>3. QED
    BY <1>6, <2>1, <2>2 DEF SourceTypes, FitsIfFile, BatchFits
<1>8. SenderTypes
  <2>1. sd = [pc |-> "top", ch |-> 1, block |-> 0, newTail |-> 0, total |-> 0]
        /\ payload = [i \in Cells |-> NoSample] /\ frame = [block |-> 0, drops |-> 0]
    BY DEF Init
  <2>2. QED
    BY <1>c, <2>1 DEF SenderTypes, SenderPlaces
<1>9. MainTypes
  <2>1. mn = [pc |-> "loop", ch |-> 1, newTail |-> 0, op |-> "none", rate |-> 0]
        /\ cmdRate = 0 /\ cmdToggle = FALSE /\ stopRequested = FALSE /\ torn = FALSE
    BY DEF Init
  <2>2. ui \in [mode : Sources, sel : Sources, rate : Rates, loop : BOOLEAN]
    BY <1>2, <1>3
  <2>3. mn \in [pc : MainPlaces, ch : Channels, newTail : Slot,
                op : {"none", "load", "generate", "quit"}, rate : Rates \cup {0}]
        /\ mn.pc = "loop"
    BY <1>c, <2>1 DEF MainPlaces
  <2>4. /\ cmdRate \in Rates \cup {0} /\ lives \in Nat \ {0}
        /\ currentRate \in Rates /\ blockSize \in Blocks
    BY <1>2, <1>3, <1>4, <2>1
  <2>5. cmdToggle \in BOOLEAN /\ stopRequested \in BOOLEAN /\ torn \in BOOLEAN
    BY <2>1
  <2>6. QED
    BY <2>2, <2>3, <2>4, <2>5 DEF MainTypes
<1>10. QED
  BY <1>1, <1>7, <1>8, <1>9 DEF SgTypes

-----------------------------------------------------------------------------
(* What a source's step does to its own record; nothing to the other's.     *)
LEMMA SourceMoves ==
    ASSUME SgTypes, NEW s \in Sources, SourceStep(s)
    PROVE  /\ src' = [src EXCEPT ![s] = src'[s]]
           /\ src'[s] \in SourceStates
           /\ src'[s].rate = src[s].rate
           /\ src[s].pc # "none"
           /\ src'[s].pc = "record" => src'[s].pushed <= src'[s].n
           /\ FitsIfFile(s, src'[s])
<1> DEFINE x == src[s]
           y == src'[s]
<1>t. /\ src \in [Sources -> SourceStates] /\ x \in SourceStates
      /\ x.pc = "record" => x.pushed <= x.n
      /\ s = "File" => BatchFits(x)
  BY DEF SgTypes, SourceTypes, FitsIfFile
<1>n. FileLength \in Nat /\ x.pos \in Nat /\ x.n \in Nat /\ 1 \in Channels
  BY <1>t, SgAssumption DEF SourceStates, Channels
<1>1. CASE SourceStops(s) \/ FileEnds(s)
  <2>1. src' = [src EXCEPT ![s].pc = "none"] /\ x.pc = "run"
    BY <1>1 DEF SourceStops, FileEnds
  <2>2. y = [x EXCEPT !.pc = "none"] /\ src' = [src EXCEPT ![s] = y]
    BY <1>t, <2>1
  <2>3. /\ y \in SourceStates /\ y.rate = x.rate /\ y.pc = "none" /\ y.pos = x.pos
    BY <1>t, <2>2 DEF SourceStates, SourcePlaces
  <2>4. QED
    BY <1>t, <2>1, <2>2, <2>3 DEF FitsIfFile, BatchFits
<1>2. CASE SourceBatch(s)
  <2> DEFINE again == s = "File" /\ x.pos = FileLength
             pos == IF again THEN 0 ELSE x.pos
             n == IF s = "File" THEN Least(BatchSize(s), FileLength - pos) ELSE BatchSize(s)
  <2>1. /\ x.pc = "run"
        /\ src' = [src EXCEPT ![s].pc = "push", ![s].ch = 1, ![s].n = n, ![s].pos = pos]
    BY <1>2 DEF SourceBatch
  <2>2. BatchSize(s) \in Nat
    BY SgAssumption DEF BatchSize
  <2>3. pos \in Nat /\ n \in Nat /\ (s = "File" => pos + n <= FileLength)
    <3>1. pos \in Nat /\ (s = "File" => FileLength - pos \in Nat)
      BY <1>n, <1>t DEF BatchFits
    <3>2. CASE s = "File"
      <4>1. n \in Nat /\ n <= FileLength - pos
        BY <2>2, <3>1, <3>2, LeastIsSmaller
      <4>2. QED
        BY <1>n, <3>1, <4>1
    <3>3. CASE s # "File"
      BY <2>2, <3>1, <3>3
    <3>4. QED
      BY <3>2, <3>3
  <2> HIDE DEF pos, n
  <2>4. /\ y = [[[[x EXCEPT !.pc = "push"] EXCEPT !.ch = 1] EXCEPT !.n = n] EXCEPT !.pos = pos]
        /\ src' = [src EXCEPT ![s] = y]
    BY <1>t, <2>1
  <2>5. /\ y \in SourceStates /\ y.rate = x.rate /\ y.pc = "push" /\ y.pos = pos /\ y.n = n
    BY <1>n, <1>t, <2>3, <2>4 DEF SourceStates, SourcePlaces
  <2>6. s = "File" => y.pos <= FileLength /\ y.pos + y.n <= FileLength
    BY <1>n, <2>3, <2>5
  <2>7. QED
    BY <2>1, <2>4, <2>5, <2>6 DEF FitsIfFile, BatchFits
<1>3. CASE SourcePush(s)
  <2> DEFINE k == Least(x.n, Free(x.ch))
  <2>1. x.pc = "push" /\ src' = [src EXCEPT ![s].pc = "record", ![s].pushed = k]
    BY <1>3 DEF SourcePush
  <2>2. k \in Nat /\ k <= x.n
    <3>1. x.ch \in Channels
      BY <1>t DEF SourceStates
    <3>2. Free(x.ch) \in Nat
      BY <3>1, RingArithmetic DEF SgTypes, Slot
    <3>3. QED
      BY <1>n, <3>2, LeastIsSmaller
  <2> HIDE DEF k
  <2>3. y = [[x EXCEPT !.pc = "record"] EXCEPT !.pushed = k] /\ src' = [src EXCEPT ![s] = y]
    BY <1>t, <2>1
  <2>4. /\ y \in SourceStates /\ y.rate = x.rate /\ y.pc = "record" /\ y.pos = x.pos
        /\ y.n = x.n /\ y.pushed = k
    BY <1>n, <1>t, <2>2, <2>3 DEF SourceStates, SourcePlaces
  <2>5. QED
    BY <1>t, <2>1, <2>2, <2>3, <2>4 DEF FitsIfFile, BatchFits
<1>4. CASE SourceRecord(s)
  <2>1. /\ x.pc = "record"
        /\ src' = [src EXCEPT ![s] = IF @.ch < NumChannels THEN NextPush(@)
                                                           ELSE BatchDone(s, @)]
    BY <1>4 DEF SourceRecord
  <2>2. src' = [src EXCEPT ![s] = y]
    BY <1>t, <2>1
  <2>6. y = IF x.ch < NumChannels THEN NextPush(x) ELSE BatchDone(s, x)
    BY <1>t, <2>1
  <2>3. CASE x.ch < NumChannels
    <3>1. y = [x EXCEPT !.pc = "push", !.ch = @ + 1]
      BY ONLY <2>6, <2>3 DEF NextPush
    <3>2. x.ch + 1 \in Channels
      BY <1>t, <2>3, SgAssumption DEF SourceStates, Channels
    <3>3. /\ y \in SourceStates /\ y.rate = x.rate /\ y.pc = "push" /\ y.pos = x.pos /\ y.n = x.n
      BY <1>n, <1>t, <3>1, <3>2, ZenonT(60) DEF SourceStates, SourcePlaces
    <3>4. QED
      BY <1>t, <2>1, <2>2, <3>3 DEF FitsIfFile, BatchFits
  <2>4. CASE ~(x.ch < NumChannels)
    <3> DEFINE pos == IF s = "File" THEN x.pos + x.n ELSE x.pos
    <3>1. y = [x EXCEPT !.pc = "run", !.t = @ + x.n, !.n = 0, !.pushed = 0,
                        !.pos = IF s = "File" THEN @ + x.n ELSE @, !.ch = 1]
      BY ONLY <2>6, <2>4 DEF BatchDone
    <3>4. y = [running |-> x.running, stop |-> x.stop, paused |-> x.paused, rate |-> x.rate,
               looping |-> x.looping, pc |-> "run", ch |-> 1, n |-> 0, pushed |-> 0,
               t |-> x.t + x.n, pos |-> pos, life |-> x.life]
      BY <1>t, <3>1 DEF SourceStates
    <3>2. pos \in Nat /\ x.t + x.n \in Nat /\ (s = "File" => pos <= FileLength)
      BY <1>n, <1>t, <2>1 DEF SourceStates, BatchFits
    <3> HIDE DEF pos
    <3>3. /\ y \in SourceStates /\ y.rate = x.rate /\ y.pc = "run" /\ y.pos = pos
      BY <1>n, <1>t, <3>4, <3>2 DEF SourceStates, SourcePlaces
    <3>5. QED
      BY <1>t, <2>1, <2>2, <3>2, <3>3 DEF FitsIfFile, BatchFits
  <2>5. QED
    BY <2>3, <2>4
<1>5. QED
  BY <1>1, <1>2, <1>3, <1>4 DEF SourceStep

(* What it does to the rings: only a push does anything, to one of them.    *)
Cell(r, i) == [life |-> r.life, t |-> r.t + i]

PushedRow(c, r, k) ==
    [j \in Slot |-> IF \E i \in 0..(k - 1) : Wrap(head[c] + i) = j
                    THEN Cell(r, CHOOSE i \in 0..(k - 1) : Wrap(head[c] + i) = j)
                    ELSE buf[c][j]]

LEMMA PushWrites ==
    ASSUME SgTypes, NEW s \in Sources, SourcePush(s)
    PROVE  LET c == src[s].ch
               k == Least(src[s].n, Free(c))
           IN  /\ c \in Channels /\ k \in 0..Free(c) /\ k <= src[s].n
               /\ buf' = [buf EXCEPT ![c] = PushedRow(c, src[s], k)]
               /\ head' = [head EXCEPT ![c] = Wrap(head[c] + k)]
               /\ PushedRow(c, src[s], k) \in [Slot -> Samples]
               /\ Wrap(head[c] + k) \in Slot
               /\ src' = [src EXCEPT ![s].pc = "record", ![s].pushed = k]
               /\ tail' = tail /\ dropped' = dropped /\ src[s].pc = "push"
<1> DEFINE x == src[s]
           c == x.ch
           k == Least(x.n, Free(c))
           new == [i \in 0..(k - 1) |-> [life |-> x.life, t |-> x.t + i]]
           row(b) == [j \in DOMAIN b |-> IF \E i \in DOMAIN new : Wrap(head[c] + i) = j
                                  THEN new[CHOOSE i \in DOMAIN new : Wrap(head[c] + i) = j]
                                  ELSE b[j]]
<1>1. /\ c \in Channels /\ x.n \in Nat /\ x.life \in Nat /\ x.t \in Nat
      /\ buf \in [Channels -> [Slot -> Samples]] /\ head \in [Channels -> Slot]
  BY DEF SgTypes, RingTypes, SourceTypes, SourceStates
<1>2. Free(c) \in Nat /\ \A i \in 0..Free(c) : Wrap(head[c] + i) \in Slot
  BY <1>1, RingArithmetic DEF SgTypes, Slot
<1>3. k \in 0..Free(c) /\ k <= x.n
  <2>1. k \in Nat /\ k <= Free(c) /\ k <= x.n
    BY <1>1, <1>2, LeastIsSmaller
  <2>2. QED
    BY <1>2, <2>1
<1>4. buf' = [buf EXCEPT ![c] = row(buf[c])]
  BY <1>1 DEF SourcePush
<1>5. /\ head' = [head EXCEPT ![c] = Wrap(head[c] + k)]
      /\ src' = [src EXCEPT ![s].pc = "record", ![s].pushed = k]
      /\ tail' = tail /\ dropped' = dropped /\ x.pc = "push"
  BY <1>1 DEF SourcePush
<1> HIDE DEF k, x
<1>6. DOMAIN buf[c] = Slot /\ DOMAIN new = 0..(k - 1)
  BY <1>1
<1>7. row(buf[c]) = PushedRow(c, x, k)
  <2> SUFFICES ASSUME NEW j \in Slot
               PROVE  row(buf[c])[j] = PushedRow(c, x, k)[j]
    BY <1>6 DEF PushedRow
  <2>1. CASE \E i \in 0..(k - 1) : Wrap(head[c] + i) = j
    <3> DEFINE i == CHOOSE i \in 0..(k - 1) : Wrap(head[c] + i) = j
    <3>1. i \in 0..(k - 1)
      BY <2>1
    <3>2. row(buf[c])[j] = new[i]
      BY <1>6, <2>1
    <3>3. PushedRow(c, x, k)[j] = Cell(x, i)
      BY <2>1 DEF PushedRow
    <3> HIDE DEF i
    <3>4. QED
      BY <3>1, <3>2, <3>3 DEF Cell
  <2>2. CASE ~ \E i \in 0..(k - 1) : Wrap(head[c] + i) = j
    BY <1>6, <2>2 DEF PushedRow
  <2>3. QED
    BY <2>1, <2>2
<1>8. PushedRow(c, x, k) \in [Slot -> Samples]
  <2>1. \A i \in Nat : Cell(x, i) \in Samples
    BY <1>1 DEF Cell, Samples, x
  <2>2. k \in Nat
    BY <1>2, <1>3
  <2>3. \A j \in Slot : buf[c][j] \in Samples
    BY <1>1
  <2>4. \A j \in Slot : PushedRow(c, x, k)[j] \in Samples
    <3> SUFFICES ASSUME NEW j \in Slot PROVE PushedRow(c, x, k)[j] \in Samples
      OBVIOUS
    <3>1. CASE \E i \in 0..(k - 1) : Wrap(head[c] + i) = j
      <4> DEFINE i == CHOOSE i \in 0..(k - 1) : Wrap(head[c] + i) = j
      <4>1. i \in Nat
        BY <2>2, <3>1
      <4>2. PushedRow(c, x, k)[j] = Cell(x, i)
        BY <3>1 DEF PushedRow
      <4> HIDE DEF i
      <4>3. QED
        BY <2>1, <4>1, <4>2
    <3>2. CASE ~ \E i \in 0..(k - 1) : Wrap(head[c] + i) = j
      BY <2>3, <3>2 DEF PushedRow
    <3>3. QED
      BY <3>1, <3>2
  <2>5. QED
    BY <2>4 DEF PushedRow
<1>9. Wrap(head[c] + k) \in Slot
  BY <1>2, <1>3
<1>10. QED
  BY <1>1, <1>3, <1>4, <1>5, <1>7, <1>8, <1>9 DEF x, k


LEMMA SourceKeepsTypes ==
    ASSUME SgTypes, NEW s \in Sources, SourceStep(s)
    PROVE  SgTypes'
<1>1. SourceTypes'
  <2>1. /\ src' = [src EXCEPT ![s] = src'[s]] /\ src'[s] \in SourceStates
        /\ src'[s].pc = "record" => src'[s].pushed <= src'[s].n
        /\ FitsIfFile(s, src'[s])
    BY SourceMoves
  <2>2. src \in [Sources -> SourceStates]
        /\ \A q \in Sources : (src[q].pc = "record" => src[q].pushed <= src[q].n)
                              /\ FitsIfFile(q, src[q])
    BY DEF SgTypes, SourceTypes
  <2>3. src' \in [Sources -> SourceStates] /\ \A q \in Sources \ {s} : src'[q] = src[q]
    BY <2>1, <2>2
  <2>4. QED
    BY <2>1, <2>2, <2>3 DEF SourceTypes
<1>2. RingTypes'
  <2>1. CASE SourcePush(s)
    <3> DEFINE c == src[s].ch
               k == Least(src[s].n, Free(c))
               row == PushedRow(c, src[s], k)
    <3>1. /\ c \in Channels
          /\ buf' = [buf EXCEPT ![c] = row] /\ head' = [head EXCEPT ![c] = Wrap(head[c] + k)]
          /\ row \in [Slot -> Samples] /\ Wrap(head[c] + k) \in Slot
          /\ tail' = tail /\ dropped' = dropped
      BY <2>1, PushWrites
    <3> HIDE DEF c, k, row
    <3>2. QED
      BY <3>1 DEF SgTypes, RingTypes
  <2>2. CASE SourceRecord(s)
    <3>1. /\ head' = head /\ tail' = tail /\ buf' = buf
          /\ dropped' = [dropped EXCEPT ![src[s].ch] = @ + src[s].n - src[s].pushed]
          /\ src[s].pc = "record"
      BY <2>2 DEF SourceRecord, rings
    <3>2. src[s].n \in Nat /\ src[s].pushed \in Nat /\ src[s].pushed <= src[s].n
          /\ src[s].ch \in Channels
      BY <3>1 DEF SgTypes, SourceTypes, SourceStates
    <3>3. dropped[src[s].ch] + src[s].n - src[s].pushed \in Nat
      BY <3>2 DEF SgTypes, RingTypes
    <3>4. QED
      BY <3>1, <3>3 DEF SgTypes, RingTypes
  <2>3. CASE SourceStops(s) \/ FileEnds(s) \/ SourceBatch(s)
    <3>1. UNCHANGED <<rings, dropped>> \/ SourcePush(s) \/ SourceRecord(s)
      BY <2>3 DEF SourceStep
    <3>2. CASE UNCHANGED <<rings, dropped>>
      BY <3>2 DEF SgTypes, RingTypes, rings
    <3>3. QED
      BY <2>1, <2>2, <3>1, <3>2
  <2>4. QED
    BY <2>1, <2>2, <2>3 DEF SourceStep
<1>3. SenderTypes' /\ MainTypes'
  <2>1. UNCHANGED <<sd, payload, frame, cmdRate, cmdToggle, mn, ui, currentRate, blockSize,
                    stopRequested, lives, torn>>
    BY DEF SourceStep, sending, commands, owner, shared, history
  <2>2. QED
    BY <2>1 DEF SgTypes, SenderTypes, MainTypes
<1>4. QED
  BY <1>1, <1>2, <1>3 DEF SgTypes

(* The sender's step: what it pops goes from one ring to one part of payload. *)
LEMMA SenderKeepsTypes ==
    ASSUME SgTypes, SenderStep
    PROVE  SgTypes'
<1>u. UNCHANGED <<head, buf, dropped, src, cmdRate, cmdToggle, mn, ui, currentRate, blockSize,
                  lives, torn>>
  BY DEF SenderStep, commands, owner, history
<1>t. /\ sd \in [pc : SenderPlaces, ch : Channels, block : Nat, newTail : Slot, total : Nat]
      /\ payload \in [Cells -> Samples] /\ tail \in [Channels -> Slot]
      /\ buf \in [Channels -> [Slot -> Samples]]
      /\ frame = [block |-> frame.block, drops |-> frame.drops] /\ frame.block \in Nat
      /\ stopRequested \in BOOLEAN
      /\ blockSize \in Nat /\ 1 \in Channels /\ 0 \in Slot
  <2>1. blockSize \in Blocks /\ Blocks \subseteq 1..MaxBlock /\ MaxBlock \in Nat
    BY SgAssumption DEF SgTypes, MainTypes
  <2>2. blockSize \in Nat
    BY <2>1
  <2>3. 1 \in Channels /\ 0 \in Slot
    BY SgAssumption DEF Channels, Slot
  <2>4. QED
    BY <2>2, <2>3 DEF SgTypes, SenderTypes, RingTypes, MainTypes
<1>n. NextPop \in [pc : SenderPlaces, ch : Channels, block : Nat, newTail : Slot, total : Nat]
  <2>1. CASE sd.ch = NumChannels
    <3>1. NextPop = [sd EXCEPT !.pc = "send", !.newTail = 0]
      BY <2>1 DEF NextPop
    <3>2. QED
      BY <1>t, <3>1 DEF SenderPlaces
  <2>2. CASE sd.ch # NumChannels
    <3>1. NextPop = [[[sd EXCEPT !.pc = "pop"] EXCEPT !.newTail = 0] EXCEPT !.ch = sd.ch + 1]
      BY <1>t, <2>2 DEF NextPop
    <3>2. sd.ch + 1 \in Channels
      BY <1>t, <2>2, SgAssumption DEF Channels
    <3>3. QED
      BY <1>t, <3>1, <3>2 DEF SenderPlaces
  <2>3. QED
    BY <2>1, <2>2
<1>1. /\ sd' \in [pc : SenderPlaces, ch : Channels, block : Nat, newTail : Slot, total : Nat]
      /\ payload' \in [Cells -> Samples] /\ tail' \in [Channels -> Slot]
      /\ frame' = [block |-> frame'.block, drops |-> frame'.drops] /\ frame'.block \in Nat
      /\ stopRequested' \in BOOLEAN
  <2>1. CASE SenderStops
    BY <1>t, <2>1 DEF SenderStops, SenderPlaces
  <2>2. CASE SenderReady
    <3>1. sd' = [[[sd EXCEPT !.pc = "pop"] EXCEPT !.ch = 1] EXCEPT !.block = blockSize]
          /\ UNCHANGED <<tail, payload, frame, stopRequested>>
      BY <1>t, <2>2 DEF SenderReady
    <3>2. QED
      BY <1>t, <3>1 DEF SenderPlaces
  <2>3. CASE PopCopy
    <3> DEFINE c == sd.ch
               n == Least(sd.block, Used(c))
               at == (c - 1) * sd.block
    <3>1. /\ payload' = [i \in Cells |-> IF i \in at..(at + n - 1)
                                         THEN buf[c][Wrap(tail[c] + i - at)] ELSE payload[i]]
          /\ sd' = IF n = 0 THEN NextPop
                   ELSE [sd EXCEPT !.pc = "store", !.newTail = Wrap(tail[c] + n)]
          /\ UNCHANGED <<tail, frame, stopRequested>>
      BY <2>3 DEF PopCopy
    <3>2. c \in Channels /\ sd.block \in Nat /\ Used(c) \in Nat
          /\ \A k \in 0..Used(c) : Wrap(tail[c] + k) \in Slot
      BY <1>t, RingArithmetic DEF SgTypes, Slot
    <3>3. n \in Nat /\ n <= Used(c)
      BY <3>2, LeastIsSmaller
    <3>4. at \in Int
      BY <3>2 DEF Channels
    <3>5. tail[c] \in Nat /\ buf[c] \in [Slot -> Samples]
      BY <1>t, <3>2 DEF Slot
    <3> HIDE DEF c, n, at
    <3>6. \A i \in Cells : i \in at..(at + n - 1) => buf[c][Wrap(tail[c] + i - at)] \in Samples
      <4> SUFFICES ASSUME NEW i \in Cells, i \in at..(at + n - 1)
                   PROVE  buf[c][Wrap(tail[c] + i - at)] \in Samples
        OBVIOUS
      <4>1. i - at \in 0..Used(c) /\ tail[c] + i - at = tail[c] + (i - at)
        BY <3>2, <3>3, <3>4, <3>5
      <4>2. Wrap(tail[c] + i - at) \in Slot
        BY <3>2, <4>1
      <4>3. QED
        BY <3>5, <4>2
    <3>7. payload' \in [Cells -> Samples]
      BY <1>t, <3>1, <3>6
    <3>8. Wrap(tail[c] + n) \in Slot
      BY <3>2, <3>3
    <3>9. sd' \in [pc : SenderPlaces, ch : Channels, block : Nat, newTail : Slot, total : Nat]
      <4>1. CASE n = 0
        BY <1>n, <3>1, <4>1
      <4>2. CASE n # 0
        BY <1>t, <3>1, <3>8, <4>2 DEF SenderPlaces
      <4>3. QED
        BY <4>1, <4>2
    <3>10. QED
      BY <1>t, <3>1, <3>7, <3>9
  <2>4. CASE PopStore
    BY <1>t, <1>n, <2>4 DEF PopStore
  <2>5. ASSUME NEW ok \in BOOLEAN, Send(ok)
        PROVE  /\ sd' \in [pc : SenderPlaces, ch : Channels, block : Nat, newTail : Slot,
                           total : Nat]
               /\ payload' \in [Cells -> Samples] /\ tail' \in [Channels -> Slot]
               /\ frame' = [block |-> frame'.block, drops |-> frame'.drops]
               /\ frame'.block \in Nat /\ stopRequested' \in BOOLEAN
    <3>1. payload' = payload /\ tail' = tail
      BY <2>5 DEF Send
    <3>2. CASE ok
      <4>1. /\ frame' = [block |-> sd.block, drops |-> TotalDropped]
            /\ sd' = [[[[sd EXCEPT !.pc = "top"] EXCEPT !.ch = 1] EXCEPT !.block = 0]
                        EXCEPT !.total = sd.total + sd.block]
            /\ stopRequested' = stopRequested
        BY <1>t, <2>5, <3>2 DEF Send
      <4>2. frame'.block = sd.block /\ frame'.drops = TotalDropped
        BY <4>1
      <4>3. sd.total + sd.block \in Nat /\ sd.block \in Nat
        BY <1>t
      <4>4. sd' \in [pc : SenderPlaces, ch : Channels, block : Nat, newTail : Slot, total : Nat]
        BY <1>t, <4>1, <4>3 DEF SenderPlaces
      <4>5. QED
        BY <1>t, <3>1, <4>1, <4>2, <4>3, <4>4
    <3>3. CASE ~ok
      BY <1>t, <2>5, <3>1, <3>3 DEF Send, SenderPlaces
    <3>4. QED
      BY <3>2, <3>3
  <2>6. QED
    BY <2>1, <2>2, <2>3, <2>4, <2>5 DEF SenderStep
<1>2. QED
  BY <1>1, <1>u DEF SgTypes, RingTypes, SourceTypes, SenderTypes, MainTypes

LEMMA ReaderKeepsTypes ==
    ASSUME SgTypes, ReadCommand
    PROVE  SgTypes'
<1>1. UNCHANGED <<head, tail, buf, dropped, src, sd, payload, frame, mn, ui, currentRate,
                  blockSize, lives, torn>>
  BY DEF ReadCommand, rings, sending, owner
<1>2. cmdRate' \in Rates \cup {0} /\ cmdToggle' \in BOOLEAN /\ stopRequested' \in BOOLEAN
  BY DEF ReadCommand, SgTypes, MainTypes
<1>3. QED
  BY <1>1, <1>2 DEF SgTypes, RingTypes, SourceTypes, SenderTypes, MainTypes


-----------------------------------------------------------------------------
(* What the main thread changes of a source that goes on: its settings, but  *)
(* not where it is in its loop nor what it has made.                        *)
SamePlace(x, y) ==
    /\ y.pc = x.pc /\ y.ch = x.ch /\ y.n = x.n /\ y.pushed = x.pushed
    /\ y.t = x.t /\ y.pos = x.pos /\ y.life = x.life

LEMMA Settings ==
    ASSUME NEW x \in SourceStates, NEW b \in BOOLEAN
    PROVE  /\ LET y == [x EXCEPT !.paused = b]
              IN  y \in SourceStates /\ SamePlace(x, y) /\ y.rate = x.rate
           /\ LET y == [x EXCEPT !.stop = TRUE]
              IN  y \in SourceStates /\ SamePlace(x, y) /\ y.rate = x.rate
           /\ LET y == [x EXCEPT !.looping = b]
              IN  y \in SourceStates /\ SamePlace(x, y) /\ y.rate = x.rate
           /\ LET y == [x EXCEPT !.running = b]
              IN  y \in SourceStates /\ SamePlace(x, y) /\ y.rate = x.rate
<1>2. LET y == [x EXCEPT !.paused = b]
      IN  y \in SourceStates /\ SamePlace(x, y) /\ y.rate = x.rate
  BY DEF SourceStates, SamePlace
<1>3. LET y == [x EXCEPT !.stop = TRUE]
      IN  y \in SourceStates /\ SamePlace(x, y) /\ y.rate = x.rate
  BY DEF SourceStates, SamePlace
<1>4. LET y == [x EXCEPT !.looping = b]
      IN  y \in SourceStates /\ SamePlace(x, y) /\ y.rate = x.rate
  BY DEF SourceStates, SamePlace
<1>5. LET y == [x EXCEPT !.running = b]
      IN  y \in SourceStates /\ SamePlace(x, y) /\ y.rate = x.rate
  BY DEF SourceStates, SamePlace
<1>6. QED
  BY <1>2, <1>3, <1>4, <1>5

LEMMA SettingRate ==
    ASSUME NEW x \in SourceStates, NEW r \in Rates
    PROVE  LET y == [x EXCEPT !.rate = r]
           IN  y \in SourceStates /\ SamePlace(x, y) /\ y.rate = r
  BY DEF SourceStates, SamePlace

(* The sources after a step that sets one thing of one of them.             *)
OneSet(q, r) ==
    /\ src' = [src EXCEPT ![q] = r]
    /\ r \in SourceStates /\ SamePlace(src[q], r)

SourcesGoOn ==
    /\ src' \in [Sources -> SourceStates]
    /\ \A s \in Sources : SamePlace(src[s], src'[s])

LEMMA OneSetGoesOn ==
    ASSUME SgTypes, NEW q \in Sources, NEW r, OneSet(q, r)
    PROVE  SourcesGoOn /\ src'[q] = r /\ \A s \in Sources \ {q} : src'[s] = src[s]
<1>1. src \in [Sources -> SourceStates]
  BY DEF SgTypes, SourceTypes
<1>2. src'[q] = r /\ \A s \in Sources \ {q} : src'[s] = src[s]
  BY <1>1 DEF OneSet
<1>3. src' \in [Sources -> SourceStates]
  BY <1>1 DEF OneSet
<1>4. \A s \in Sources : SamePlace(src[s], src'[s])
  BY <1>2 DEF OneSet, SamePlace
<1>5. QED
  BY <1>2, <1>3, <1>4 DEF SourcesGoOn

LEMMA UnchangedGoesOn ==
    ASSUME SgTypes, src' = src
    PROVE  SourcesGoOn
  BY DEF SgTypes, SourceTypes, SourcesGoOn, SamePlace

RateKept(s) == src'[s].rate = src[s].rate
RatesKept == \A s \in Sources : RateKept(s)

(* The settings of a source, set.                                           *)
LEMMA SetRate ==
    ASSUME SgTypes, NEW r \in Rates, src' = [src EXCEPT !["Synthetic"].rate = r]
    PROVE  SourcesGoOn /\ src'["Synthetic"].rate = r /\ RateKept("File")
<1>1. src \in [Sources -> SourceStates] /\ "Synthetic" \in Sources
  BY DEF SgTypes, SourceTypes, Sources
<1>2. src' = [src EXCEPT !["Synthetic"] = [src["Synthetic"] EXCEPT !.rate = r]]
  BY <1>1
<1>3. OneSet("Synthetic", [src["Synthetic"] EXCEPT !.rate = r])
      /\ [src["Synthetic"] EXCEPT !.rate = r].rate = r
  BY <1>1, <1>2, SettingRate DEF OneSet
<1>4. QED
  BY <1>1, <1>3, OneSetGoesOn DEF RateKept, Sources

LEMMA SetOther ==
    ASSUME SgTypes, NEW q \in Sources, NEW b \in BOOLEAN,
           \/ src' = [src EXCEPT ![q].paused = ~@]
           \/ src' = [src EXCEPT ![q].stop = TRUE]
           \/ src' = [src EXCEPT ![q].looping = ~@]
           \/ src' = [src EXCEPT ![q].running = FALSE]
    PROVE  SourcesGoOn /\ RatesKept
<1>1. src \in [Sources -> SourceStates] /\ src[q] \in SourceStates
      /\ src[q].paused \in BOOLEAN /\ src[q].looping \in BOOLEAN
  BY DEF SgTypes, SourceTypes, SourceStates
<1>2. PICK r : r \in SourceStates /\ SamePlace(src[q], r) /\ r.rate = src[q].rate
               /\ src' = [src EXCEPT ![q] = r]
  <2>1. CASE src' = [src EXCEPT ![q].paused = ~@]
    <3>1. PICK p \in BOOLEAN : p = ~src[q].paused
      BY <1>1
    <3>2. src' = [src EXCEPT ![q] = [src[q] EXCEPT !.paused = p]]
      BY <1>1, <2>1, <3>1
    <3> DEFINE y == [src[q] EXCEPT !.paused = p]
    <3>3. y \in SourceStates /\ SamePlace(src[q], y) /\ y.rate = src[q].rate
      BY <1>1, Settings
    <3> HIDE DEF y
    <3>4. QED
      BY <3>2, <3>3 DEF y
  <2>2. CASE src' = [src EXCEPT ![q].stop = TRUE]
    <3>1. src' = [src EXCEPT ![q] = [src[q] EXCEPT !.stop = TRUE]]
      BY <1>1, <2>2
    <3> DEFINE y == [src[q] EXCEPT !.stop = TRUE]
    <3>2. y \in SourceStates /\ SamePlace(src[q], y) /\ y.rate = src[q].rate
      BY <1>1, Settings
    <3> HIDE DEF y
    <3>3. QED
      BY <3>1, <3>2 DEF y
  <2>3. CASE src' = [src EXCEPT ![q].looping = ~@]
    <3>1. PICK p \in BOOLEAN : p = ~src[q].looping
      BY <1>1
    <3>2. src' = [src EXCEPT ![q] = [src[q] EXCEPT !.looping = p]]
      BY <1>1, <2>3, <3>1
    <3> DEFINE y == [src[q] EXCEPT !.looping = p]
    <3>3. y \in SourceStates /\ SamePlace(src[q], y) /\ y.rate = src[q].rate
      BY <1>1, Settings
    <3> HIDE DEF y
    <3>4. QED
      BY <3>2, <3>3 DEF y
  <2>4. CASE src' = [src EXCEPT ![q].running = FALSE]
    <3>1. src' = [src EXCEPT ![q] = [src[q] EXCEPT !.running = FALSE]]
      BY <1>1, <2>4
    <3> DEFINE y == [src[q] EXCEPT !.running = FALSE]
    <3>2. y \in SourceStates /\ SamePlace(src[q], y) /\ y.rate = src[q].rate
      BY <1>1, Settings
    <3> HIDE DEF y
    <3>3. QED
      BY <3>1, <3>2 DEF y
  <2>5. QED
    BY <2>1, <2>2, <2>3, <2>4
<1>3. SourcesGoOn /\ src'[q] = r /\ \A s \in Sources \ {q} : src'[s] = src[s]
  BY <1>2, OneSetGoesOn DEF OneSet
<1>4. QED
  BY <1>2, <1>3 DEF RatesKept, RateKept


(* A pass takes the commands: a rate that is heard is the rate of the source *)
(* that runs, and of the frames.                                            *)
LEMMA CommandsSet ==
    ASSUME SgTypes, TakeCommands
    PROVE  /\ SourcesGoOn
           /\ \/ RatesKept /\ currentRate' = currentRate
              \/ ui.mode = "Synthetic" /\ currentRate' \in Rates
                 /\ src'["Synthetic"].rate = currentRate'
<1> DEFINE heard == cmdRate > 0 /\ ui.mode = "Synthetic"
           set == IF heard THEN [src EXCEPT !["Synthetic"].rate = cmdRate] ELSE src
<1>1. /\ src' = IF cmdToggle THEN [set EXCEPT ![ui.mode].paused = ~@] ELSE set
      /\ currentRate' = IF heard THEN cmdRate ELSE currentRate
  BY DEF TakeCommands
<1>2. /\ src \in [Sources -> SourceStates] /\ ui.mode \in Sources /\ "Synthetic" \in Sources
      /\ cmdRate \in Rates \cup {0} /\ Rates \subseteq Nat \ {0}
  BY SgAssumption DEF SgTypes, SourceTypes, MainTypes, Sources
<1>3. CASE ~heard /\ ~cmdToggle
  <2>1. src' = src /\ currentRate' = currentRate
    BY <1>1, <1>3
  <2>2. QED
    BY <2>1, UnchangedGoesOn DEF RatesKept, RateKept
<1>4. CASE ~heard /\ cmdToggle
  <2>1. src' = [src EXCEPT ![ui.mode].paused = ~@] /\ currentRate' = currentRate
    BY <1>1, <1>4
  <2>2. QED
    BY <1>2, <2>1, SetOther
<1>5. CASE heard /\ ~cmdToggle
  <2>1. /\ src' = [src EXCEPT !["Synthetic"].rate = cmdRate] /\ currentRate' = cmdRate
        /\ ui.mode = "Synthetic" /\ cmdRate \in Rates
    BY <1>1, <1>2, <1>5
  <2>2. QED
    BY <2>1, SetRate
<1>6. CASE heard /\ cmdToggle
  <2>1. /\ src' = [[src EXCEPT !["Synthetic"].rate = cmdRate] EXCEPT !["Synthetic"].paused = ~@]
        /\ currentRate' = cmdRate /\ ui.mode = "Synthetic" /\ cmdRate \in Rates
    BY <1>1, <1>2, <1>6
  <2> DEFINE x == src["Synthetic"]
             y == [x EXCEPT !.rate = cmdRate]
  <2>2. x \in SourceStates
    BY <1>2
  <2>3. y \in SourceStates /\ SamePlace(x, y) /\ y.rate = cmdRate
    BY <2>1, <2>2, SettingRate
  <2>4. PICK p \in BOOLEAN : p = ~y.paused
    BY <2>3 DEF SourceStates
  <2>5. src' = [src EXCEPT !["Synthetic"] = [y EXCEPT !.paused = p]]
    BY <1>2, <2>1, <2>4
  <2> DEFINE z == [y EXCEPT !.paused = p]
  <2> HIDE DEF y
  <2>6. z \in SourceStates /\ SamePlace(y, z) /\ z.rate = cmdRate
    BY <2>3, Settings
  <2> HIDE DEF z
  <2>7. OneSet("Synthetic", z)
    BY <2>3, <2>5, <2>6 DEF OneSet, SamePlace, z
  <2>8. SourcesGoOn /\ src'["Synthetic"] = z
    BY <1>2, <2>7, OneSetGoesOn
  <2>9. QED
    BY <2>1, <2>6, <2>8
<1>7. QED
  BY <1>3, <1>4, <1>5, <1>6

(* What the user does, and how a switch begins.                             *)
LEMMA StopBegins ==
    ASSUME SgTypes, NEW op, NEW rate, BeginStop(op, rate)
    PROVE  SourcesGoOn /\ RatesKept
<1>1. ui.mode \in Sources
  BY DEF SgTypes, MainTypes
<1>2. QED
  BY <1>1, SetOther DEF BeginStop

LEMMA UserSets ==
    ASSUME SgTypes, Gui
    PROVE  /\ SourcesGoOn
           /\ \/ RatesKept /\ currentRate' = currentRate
              \/ ui.sel = "Synthetic" /\ currentRate' \in Rates /\ RateKept("File")
                 /\ src'["Synthetic"].rate = currentRate' /\ ui'.mode = ui.mode
<1>t. ui \in [mode : Sources, sel : Sources, rate : Rates, loop : BOOLEAN] /\ "File" \in Sources
  BY DEF SgTypes, MainTypes, Sources
<1>1. CASE GuiSource
  <2>1. currentRate' = currentRate /\ (src' = src \/ BeginStop("generate", ui.rate))
    BY <1>1 DEF GuiSource
  <2>2. QED
    BY <2>1, StopBegins, UnchangedGoesOn DEF RatesKept, RateKept
<1>2. CASE GuiRate
  <2>1. PICK r \in RateOptions : /\ src' = [src EXCEPT !["Synthetic"].rate = r]
                                 /\ currentRate' = r /\ ui' = [ui EXCEPT !.rate = r]
                                 /\ ui.sel = "Synthetic"
    BY <1>2 DEF GuiRate
  <2>2. r \in Rates /\ ui'.mode = ui.mode
    BY <1>t, <2>1, SgAssumption
  <2>3. QED
    BY <2>1, <2>2, SetRate
<1>3. CASE GuiBlock
  <2>1. src' = src /\ currentRate' = currentRate
    BY <1>3 DEF GuiBlock
  <2>2. QED
    BY <2>1, UnchangedGoesOn DEF RatesKept, RateKept
<1>4. CASE GuiPause
  <2>1. src' = [src EXCEPT ![ui.sel].paused = ~@] /\ currentRate' = currentRate
    BY <1>4 DEF GuiPause
  <2>2. QED
    BY <1>t, <2>1, SetOther
<1>5. CASE GuiLoop
  <2>1. src' = [src EXCEPT !["File"].looping = ~@] /\ currentRate' = currentRate
    BY <1>5 DEF GuiLoop
  <2>2. QED
    BY <1>t, <2>1, SetOther
<1>6. CASE GuiOpen
  <2>1. currentRate' = currentRate /\ \E r \in Rates : BeginStop("load", r)
    BY <1>6 DEF GuiOpen
  <2>2. QED
    BY <2>1, StopBegins
<1>7. QED
  BY <1>1, <1>2, <1>3, <1>4, <1>5, <1>6 DEF Gui

(* The sources go on through every step of the main thread but one.         *)
LEMMA MainGoesOn ==
    ASSUME SgTypes, MainStep
    PROVE  StartSource \/ SourcesGoOn
<1>1. CASE TakeCommands
  BY <1>1, CommandsSet
<1>2. CASE Gui
  BY <1>2, UserSets
<1>3. CASE GuiIdle \/ FlushLoad \/ FlushStore \/ JoinThreads
  <2>1. src' = src
    BY <1>3 DEF GuiIdle, FlushLoad, FlushStore, JoinThreads
  <2>2. QED
    BY <2>1, UnchangedGoesOn
<1>4. CASE MainLeaves
  BY <1>4, StopBegins DEF MainLeaves
<1>5. CASE Joined
  <2>1. src' = [src EXCEPT ![ui.mode].running = FALSE] /\ ui.mode \in Sources
    BY <1>5 DEF Joined, SgTypes, MainTypes
  <2>2. QED
    BY <2>1, SetOther
<1>6. QED
  BY <1>1, <1>2, <1>3, <1>4, <1>5 DEF MainStep


LEMMA GoingOnKeepsTypes ==
    ASSUME SgTypes, SourcesGoOn
    PROVE  SourceTypes'
  BY DEF SgTypes, SourceTypes, SourcesGoOn, SamePlace, FitsIfFile, BatchFits

MainRecords ==
    [pc : MainPlaces, ch : Channels, newTail : Slot,
     op : {"none", "load", "generate", "quit"}, rate : Rates \cup {0}]

SwitchHasRate(m) ==
    m.pc \in {"flush", "flushStore", "start"} \/ (m.pc = "stop" /\ m.op # "quit")
        => m.rate \in Rates

UiRecords == [mode : Sources, sel : Sources, rate : Rates, loop : BOOLEAN]

LEMMA StopTypes ==
    ASSUME SgTypes, NEW op \in {"load", "generate", "quit"}, NEW rate \in Rates \cup {0},
           op # "quit" => rate \in Rates, BeginStop(op, rate)
    PROVE  mn' \in MainRecords /\ mn'.pc = "stop" /\ mn'.op = op /\ SwitchHasRate(mn')
<1>1. mn \in MainRecords
  BY DEF SgTypes, MainTypes, MainRecords
<1>2. mn' = [[[mn EXCEPT !.pc = "stop"] EXCEPT !.op = op] EXCEPT !.rate = rate]
  BY <1>1 DEF BeginStop
<1>3. mn' \in MainRecords /\ mn'.pc = "stop" /\ mn'.op = op /\ mn'.rate = rate
  BY <1>1, <1>2 DEF MainRecords, MainPlaces
<1>4. QED
  BY <1>3 DEF SwitchHasRate

(* What the main thread's step does to its own state.                       *)
LEMMA MainOwn ==
    ASSUME SgTypes, MainStep
    PROVE  /\ mn' \in MainRecords /\ SwitchHasRate(mn')
           /\ ui' \in UiRecords
           /\ currentRate' \in Rates /\ blockSize' \in Blocks
           /\ cmdRate' \in Rates \cup {0} /\ cmdToggle' \in BOOLEAN
           /\ lives' \in Nat \ {0}
           /\ stopRequested' \in BOOLEAN /\ torn' \in BOOLEAN
           /\ tail' \in [Channels -> Slot] /\ head' = head /\ buf' = buf
<1> DEFINE P == /\ mn' \in MainRecords /\ SwitchHasRate(mn')
                /\ ui' \in UiRecords
                /\ currentRate' \in Rates /\ blockSize' \in Blocks
                /\ cmdRate' \in Rates \cup {0} /\ cmdToggle' \in BOOLEAN
                /\ lives' \in Nat \ {0}
                /\ stopRequested' \in BOOLEAN /\ torn' \in BOOLEAN
                /\ tail' \in [Channels -> Slot] /\ head' = head /\ buf' = buf
<1>t. /\ mn \in MainRecords /\ SwitchHasRate(mn) /\ ui \in UiRecords
      /\ currentRate \in Rates /\ blockSize \in Blocks
      /\ cmdRate \in Rates \cup {0} /\ cmdToggle \in BOOLEAN /\ lives \in Nat \ {0}
      /\ stopRequested \in BOOLEAN /\ torn \in BOOLEAN
      /\ tail \in [Channels -> Slot]
  BY DEF SgTypes, MainTypes, RingTypes, MainRecords, SwitchHasRate, UiRecords
<1>s. ui.mode \in Sources /\ "File" \in Sources /\ "Synthetic" \in Sources
      /\ ui.sel \in Sources /\ ui.rate \in Rates /\ ui.loop \in BOOLEAN
      /\ mn.rate \in Rates \cup {0} /\ mn.ch \in Channels
      /\ src["File"].looping \in BOOLEAN
  BY <1>t DEF UiRecords, MainRecords, Sources, SgTypes, SourceTypes, SourceStates
<1>c. 1 \in Channels /\ 0 \in Slot /\ head[mn.ch] \in Slot /\ Slot \subseteq Nat
  BY <1>s, SgAssumption DEF Channels, Slot, SgTypes, RingTypes
<1>p. ASSUME NEW m, m \in MainRecords, m.pc \in {"loop", "gui", "join", "ended"}
      PROVE  SwitchHasRate(m)
  BY <1>p DEF SwitchHasRate
<1>b. ASSUME NEW pc \in {"loop", "gui", "join", "ended"}, mn' = [mn EXCEPT !.pc = pc]
      PROVE  mn' \in MainRecords /\ SwitchHasRate(mn')
  <2>1. mn' \in MainRecords /\ mn'.pc = pc
    BY <1>b, <1>t DEF MainRecords, MainPlaces
  <2>2. QED
    BY <2>1, <1>p
<1>1. CASE TakeCommands
  <2>1. mn' = [mn EXCEPT !.pc = IF HasWindow THEN "gui" ELSE "loop"]
    BY <1>1 DEF TakeCommands
  <2>2. mn' \in MainRecords /\ SwitchHasRate(mn')
    BY <1>b, <2>1
  <2>3. ui' = ui \/ (ui' = [ui EXCEPT !.rate = cmdRate] /\ cmdRate \in Rates)
    BY <1>1, SgAssumption DEF TakeCommands
  <2>4. ui' \in UiRecords
    BY <1>t, <2>3 DEF UiRecords
  <2>5. currentRate' \in Rates
    <3>1. currentRate' = currentRate \/ (currentRate' = cmdRate /\ cmdRate > 0)
      BY <1>1 DEF TakeCommands
    <3>2. cmdRate \in Rates \cup {0} /\ ~(0 > 0)
      BY <1>t
    <3>3. QED
      BY <1>t, <3>1, <3>2
  <2>6. /\ cmdRate' = 0 /\ cmdToggle' = FALSE
        /\ UNCHANGED <<head, tail, buf, blockSize, stopRequested, lives, torn>>
    BY <1>1 DEF TakeCommands, rings
  <2>7. QED
    BY <1>t, <2>2, <2>4, <2>5, <2>6
<1>2. CASE Gui
  <2>u. UNCHANGED <<head, tail, buf, cmdRate, cmdToggle, stopRequested, lives, torn>>
    BY <1>2 DEF Gui, rings
  <2>1. CASE GuiSource
    <3>1. ui' = [ui EXCEPT !.sel = "Synthetic"] \/ ui' = [ui EXCEPT !.sel = "File"]
      BY <2>1 DEF GuiSource
    <3>2. ui' \in UiRecords
      BY <1>s, <1>t, <3>1 DEF UiRecords
    <3>3. mn' = [mn EXCEPT !.pc = "loop"] \/ BeginStop("generate", ui.rate)
      BY <2>1 DEF GuiSource
    <3>4. mn' \in MainRecords /\ SwitchHasRate(mn')
      <4>1. CASE mn' = [mn EXCEPT !.pc = "loop"]
        BY <1>b, <4>1
      <4>2. CASE BeginStop("generate", ui.rate)
        BY <1>s, <4>2, StopTypes
      <4>3. QED
        BY <3>3, <4>1, <4>2
    <3>5. currentRate' = currentRate /\ blockSize' = blockSize
      BY <2>1 DEF GuiSource
    <3>6. QED
      BY <1>t, <2>u, <3>2, <3>4, <3>5
  <2>2. CASE GuiRate
    <3>1. /\ \E r \in Rates : currentRate' = r /\ ui' = [ui EXCEPT !.rate = r]
          /\ mn' = [mn EXCEPT !.pc = "loop"] /\ blockSize' = blockSize
      BY <2>2, SgAssumption DEF GuiRate
    <3>2. ui' \in UiRecords /\ currentRate' \in Rates
      BY <1>t, <3>1 DEF UiRecords
    <3>3. mn' \in MainRecords /\ SwitchHasRate(mn')
      BY <1>b, <3>1
    <3>4. QED
      BY <1>t, <2>u, <3>1, <3>2, <3>3
  <2>3. CASE GuiBlock \/ GuiPause
    <3>1. /\ mn' = [mn EXCEPT !.pc = "loop"] /\ blockSize' \in Blocks
          /\ currentRate' = currentRate /\ ui' = ui
      BY <1>t, <2>3 DEF GuiBlock, GuiPause
    <3>2. mn' \in MainRecords /\ SwitchHasRate(mn')
      BY <1>b, <3>1
    <3>3. QED
      BY <1>t, <2>u, <3>1, <3>2
  <2>4. CASE GuiLoop
    <3>1. /\ mn' = [mn EXCEPT !.pc = "loop"] /\ blockSize' = blockSize
          /\ currentRate' = currentRate /\ ui' = [ui EXCEPT !.loop = ~src["File"].looping]
      BY <2>4 DEF GuiLoop
    <3>2. mn' \in MainRecords /\ SwitchHasRate(mn')
      BY <1>b, <3>1
    <3>3. PICK l \in BOOLEAN : l = ~src["File"].looping
      BY <1>s
    <3>4. ui' = [ui EXCEPT !.loop = l]
      BY <3>1, <3>3
    <3>5. ui' \in UiRecords
      BY <1>t, <3>4 DEF UiRecords
    <3>6. QED
      BY <1>t, <2>u, <3>1, <3>2, <3>5
  <2>5. CASE GuiOpen
    <3>1. /\ \E r \in Rates : BeginStop("load", r)
          /\ UNCHANGED <<ui, currentRate, blockSize>>
      BY <2>5 DEF GuiOpen
    <3>2. mn' \in MainRecords /\ SwitchHasRate(mn')
      BY <3>1, StopTypes
    <3>3. QED
      BY <1>t, <2>u, <3>1, <3>2
  <2>6. QED
    BY <1>2, <2>1, <2>2, <2>3, <2>4, <2>5 DEF Gui
<1>3. CASE GuiIdle
  <2>1. /\ mn' = [mn EXCEPT !.pc = "loop"]
        /\ UNCHANGED <<head, tail, buf, ui, cmdRate, cmdToggle, currentRate, blockSize,
                       stopRequested, lives, torn>>
    BY <1>3 DEF GuiIdle, rings, shared
  <2>2. QED
    BY <1>b, <1>t, <2>1
<1>4. CASE MainLeaves
  <2>1. /\ stopRequested' = TRUE /\ BeginStop("quit", 0)
        /\ UNCHANGED <<head, tail, buf, ui, cmdRate, cmdToggle, currentRate, blockSize, lives, torn>>
    BY <1>4 DEF MainLeaves, rings
  <2>2. mn' \in MainRecords /\ SwitchHasRate(mn')
    BY <2>1, StopTypes
  <2>3. QED
    BY <1>t, <2>1, <2>2
<1>5. CASE Joined
  <2>1. /\ mn.pc = "stop"
        /\ mn' = [mn EXCEPT !.pc = IF mn.op = "quit" THEN "join" ELSE "flush", !.ch = 1]
        /\ UNCHANGED <<head, tail, buf, ui, cmdRate, cmdToggle, currentRate, blockSize,
                       stopRequested, lives, torn>>
    BY <1>5 DEF Joined, rings, shared
  <2>2. PICK pc : pc = (IF mn.op = "quit" THEN "join" ELSE "flush")
    OBVIOUS
  <2>3. mn' = [[mn EXCEPT !.pc = pc] EXCEPT !.ch = 1] /\ pc \in {"join", "flush"}
    BY <1>t, <2>1, <2>2
  <2>4. mn' \in MainRecords /\ mn'.pc = pc /\ mn'.rate = mn.rate
    BY <1>c, <1>t, <2>3 DEF MainRecords, MainPlaces
  <2>5. SwitchHasRate(mn')
    BY <1>t, <2>1, <2>2, <2>4 DEF SwitchHasRate
  <2>6. QED
    BY <1>t, <2>1, <2>4, <2>5
<1>n. NextFlush \in MainRecords /\ NextFlush.pc \in {"start", "flush"} /\ NextFlush.rate = mn.rate
  <2>1. CASE mn.ch = NumChannels
    <3>1. NextFlush = [[[mn EXCEPT !.pc = "start"] EXCEPT !.newTail = 0] EXCEPT !.ch = 1]
      BY <1>t, <2>1 DEF NextFlush
    <3>2. QED
      BY <1>c, <1>t, <3>1 DEF MainRecords, MainPlaces
  <2>2. CASE mn.ch # NumChannels
    <3>1. NextFlush = [[[mn EXCEPT !.pc = "flush"] EXCEPT !.newTail = 0] EXCEPT !.ch = mn.ch + 1]
      BY <1>t, <2>2 DEF NextFlush
    <3>2. mn.ch + 1 \in Channels
      BY <1>s, <2>2, SgAssumption DEF Channels
    <3>3. QED
      BY <1>c, <1>t, <3>1, <3>2 DEF MainRecords, MainPlaces
  <2>3. QED
    BY <2>1, <2>2
<1>6. CASE FlushLoad
  <2>1. /\ mn.pc = "flush"
        /\ mn' = IF Used(mn.ch) = 0 THEN NextFlush
                 ELSE [mn EXCEPT !.pc = "flushStore", !.newTail = head[mn.ch]]
        /\ UNCHANGED <<head, tail, buf, ui, cmdRate, cmdToggle, currentRate, blockSize,
                       stopRequested, lives, torn>>
    BY <1>6 DEF FlushLoad, rings, shared
  <2>2. mn.rate \in Rates
    BY <1>t, <2>1 DEF SwitchHasRate
  <2>3. CASE Used(mn.ch) = 0
    <3>1. mn' = NextFlush
      BY <2>1, <2>3
    <3>2. SwitchHasRate(mn')
      BY <1>n, <2>2, <3>1 DEF SwitchHasRate
    <3>3. QED
      BY <1>n, <1>t, <2>1, <3>1, <3>2
  <2>4. CASE Used(mn.ch) # 0
    <3>1. mn' = [[mn EXCEPT !.pc = "flushStore"] EXCEPT !.newTail = head[mn.ch]]
      BY <1>t, <2>1, <2>4
    <3>2. mn' \in MainRecords /\ mn'.rate = mn.rate
      BY <1>c, <1>t, <3>1 DEF MainRecords, MainPlaces
    <3>3. SwitchHasRate(mn')
      BY <2>2, <3>2 DEF SwitchHasRate
    <3>4. QED
      BY <1>t, <2>1, <3>2, <3>3
  <2>5. QED
    BY <2>3, <2>4
<1>7. CASE FlushStore
  <2>1. /\ mn.pc = "flushStore" /\ mn' = NextFlush
        /\ tail' = [tail EXCEPT ![mn.ch] = mn.newTail]
        /\ torn' = (torn \/ sd.pc \in {"pop", "store"})
        /\ UNCHANGED <<head, buf, ui, cmdRate, cmdToggle, currentRate, blockSize,
                       stopRequested, lives>>
    BY <1>7 DEF FlushStore, shared
  <2>2. mn.rate \in Rates
    BY <1>t, <2>1 DEF SwitchHasRate
  <2>3. SwitchHasRate(mn')
    BY <1>n, <2>1, <2>2 DEF SwitchHasRate
  <2>4. tail' \in [Channels -> Slot]
    BY <1>t, <2>1 DEF MainRecords
  <2>5. torn' \in BOOLEAN
    BY <2>1
  <2>6. QED
    BY <1>n, <1>t, <2>1, <2>3, <2>4, <2>5
<1>8. CASE StartSource
  <2>1. /\ mn.pc = "start"
        /\ ui' = (IF mn.op = "load" THEN [ui EXCEPT !.mode = "File", !.sel = "File"]
                                    ELSE [ui EXCEPT !.mode = "Synthetic"])
        /\ currentRate' = mn.rate /\ lives' = lives + 1
        /\ mn' = [mn EXCEPT !.pc = "loop", !.op = "none", !.rate = 0]
        /\ UNCHANGED <<head, tail, buf, cmdRate, cmdToggle, blockSize, stopRequested, torn>>
    BY <1>8 DEF StartSource, rings
  <2>2. mn.rate \in Rates /\ lives' \in Nat \ {0}
    BY <1>t, <2>1 DEF SwitchHasRate
  <2>3. ui' \in UiRecords
    <3>1. CASE mn.op = "load"
      <4>1. ui' = [[ui EXCEPT !.mode = "File"] EXCEPT !.sel = "File"]
        BY <1>t, <2>1, <3>1
      <4>2. QED
        BY <1>s, <1>t, <4>1 DEF UiRecords
    <3>2. CASE mn.op # "load"
      <4>1. ui' = [ui EXCEPT !.mode = "Synthetic"]
        BY <2>1, <3>2
      <4>2. QED
        BY <1>s, <1>t, <4>1 DEF UiRecords
    <3>3. QED
      BY <3>1, <3>2
  <2>4. mn' = [[[mn EXCEPT !.pc = "loop"] EXCEPT !.op = "none"] EXCEPT !.rate = 0]
    BY <1>t, <2>1
  <2>5. mn' \in MainRecords /\ mn'.pc = "loop"
    BY <1>t, <2>4 DEF MainRecords, MainPlaces
  <2>6. SwitchHasRate(mn')
    BY <1>p, <2>5
  <2>7. QED
    BY <1>t, <2>1, <2>2, <2>3, <2>5, <2>6
<1>9. CASE JoinThreads
  <2>1. /\ mn' = [mn EXCEPT !.pc = "ended"]
        /\ UNCHANGED <<head, tail, buf, ui, cmdRate, cmdToggle, currentRate, blockSize,
                       stopRequested, lives, torn>>
    BY <1>9 DEF JoinThreads, rings, shared
  <2>2. QED
    BY <1>b, <1>t, <2>1
<1>10. QED
  BY <1>1, <1>2, <1>3, <1>4, <1>5, <1>6, <1>7, <1>8, <1>9 DEF MainStep


LEMMA StartWrites ==
    ASSUME SgTypes, StartSource
    PROVE  /\ src' \in [Sources -> SourceStates]
           /\ \A s \in Sources : src'[s].pc = "record" => src[s].pc = "record" /\ src'[s] = src[s]
           /\ \A s \in Sources : FitsIfFile(s, src'[s])
           /\ currentRate' = mn.rate /\ ui'.mode \in Sources
           /\ src'[ui'.mode].pc = "run" /\ src'[ui'.mode].rate = mn.rate
           /\ src'[ui'.mode].t = 0 /\ src'[ui'.mode].life = lives + 1
           /\ \A s \in Sources : s # ui'.mode => src'[s].pc = "none" \/ src'[s] = src[s]
           /\ ui'.sel = "Synthetic" => ui'.mode = "Synthetic"
<1>t. /\ src \in [Sources -> SourceStates] /\ ui \in UiRecords /\ lives \in Nat
      /\ mn.rate \in Rates /\ ui.loop \in BOOLEAN
      /\ \A s \in Sources : FitsIfFile(s, src[s])
      /\ FileLength \in Nat
  BY SgAssumption DEF SgTypes, SourceTypes, MainTypes, UiRecords, StartSource
<1>1. /\ Started(mn.rate, ui.loop) \in SourceStates
      /\ Started(mn.rate, ui.loop).pc = "run" /\ Started(mn.rate, ui.loop).pos = 0
      /\ Started(mn.rate, ui.loop).rate = mn.rate
      /\ Started(mn.rate, ui.loop).t = 0 /\ Started(mn.rate, ui.loop).life = lives + 1
  BY <1>t, StartedTypes
<1>2. /\ Started(mn.rate, TRUE) \in SourceStates
      /\ Started(mn.rate, TRUE).pc = "run" /\ Started(mn.rate, TRUE).pos = 0
      /\ Started(mn.rate, TRUE).rate = mn.rate
      /\ Started(mn.rate, TRUE).t = 0 /\ Started(mn.rate, TRUE).life = lives + 1
  BY <1>t, StartedTypes
<1>3. /\ Off(mn.rate) \in SourceStates /\ Off(mn.rate).pc = "none" /\ Off(mn.rate).pos = 0
  BY <1>t, OffTypes
<1>r. currentRate' = mn.rate
  BY DEF StartSource
<1>4. CASE mn.op = "load"
  <2>1. src' = [src EXCEPT !["File"] = Started(mn.rate, ui.loop)]
        /\ ui' = [ui EXCEPT !.mode = "File", !.sel = "File"]
    BY <1>4 DEF StartSource
  <2>2. ui'.mode = "File" /\ ui'.sel = "File" /\ "File" \in Sources
    BY <1>t, <2>1 DEF UiRecords, Sources
  <2>3. src'["File"] = Started(mn.rate, ui.loop) /\ \A s \in Sources \ {"File"} : src'[s] = src[s]
    BY <1>t, <2>1, <2>2
  <2>4. src' \in [Sources -> SourceStates]
    BY <1>t, <1>1, <2>1
  <2>5. FitsIfFile("File", src'["File"])
    BY <1>t, <1>1, <2>3 DEF FitsIfFile, BatchFits
  <2>6. QED
    BY <1>r, <1>t, <1>1, <2>2, <2>3, <2>4, <2>5
<1>5. CASE mn.op # "load"
  <2>1. src' = [s \in Sources |-> IF s = "Synthetic" THEN Started(mn.rate, TRUE)
                                                    ELSE Off(mn.rate)]
        /\ ui' = [ui EXCEPT !.mode = "Synthetic"]
    BY <1>5 DEF StartSource
  <2>2. ui'.mode = "Synthetic"
    BY <1>t, <2>1 DEF UiRecords
  <2>3. src'["Synthetic"] = Started(mn.rate, TRUE) /\ src'["File"] = Off(mn.rate)
    BY <2>1 DEF Sources
  <2>4. src' \in [Sources -> SourceStates]
    BY <1>2, <1>3, <2>1 DEF Sources
  <2>5. \A s \in Sources : FitsIfFile(s, src'[s])
    BY <1>t, <1>2, <1>3, <2>3 DEF FitsIfFile, BatchFits, Sources
  <2>6. QED
    BY <1>r, <1>2, <1>3, <2>2, <2>3, <2>4, <2>5 DEF Sources
<1>6. QED
  BY <1>4, <1>5

LEMMA MainKeepsTypes ==
    ASSUME SgTypes, MainStep
    PROVE  SgTypes'
<1>1. UNCHANGED <<dropped, sd, payload, frame>>
  BY DEF MainStep, sending
<1>2. MainTypes' /\ RingTypes'
  BY <1>1, MainOwn DEF SgTypes, RingTypes, MainTypes, MainRecords, SwitchHasRate, UiRecords
<1>3. SourceTypes'
  <2>1. CASE StartSource
    BY <2>1, StartWrites DEF SgTypes, SourceTypes
  <2>2. CASE SourcesGoOn
    BY <2>2, GoingOnKeepsTypes
  <2>3. QED
    BY <2>1, <2>2, MainGoesOn
<1>4. SenderTypes'
  BY <1>1 DEF SgTypes, SenderTypes
<1>5. QED
  BY <1>2, <1>3, <1>4 DEF SgTypes

LEMMA NextKeepsTypes ==
    ASSUME SgTypes, [Next]_vars
    PROVE  SgTypes'
<1>1. CASE UNCHANGED vars
  BY <1>1 DEF vars, rings, sending, commands, owner, shared, history, SgTypes, RingTypes,
              SourceTypes, SenderTypes, MainTypes
<1>2. QED
  BY <1>1, SourceKeepsTypes, SenderKeepsTypes, ReaderKeepsTypes, MainKeepsTypes DEF Next

(* Every part of the process has its type, and batches stay within their file. *)
THEOREM TypesKept == Spec => []SgTypes
<1>1. Init => SgTypes
  BY InitTypes
<1>2. SgTypes /\ [Next]_vars => SgTypes'
  BY NextKeepsTypes
<1>3. QED
  BY <1>1, <1>2, PTL DEF Spec

-----------------------------------------------------------------------------
(* One source at a time, and the rate of the frames.                        *)
Alone ==
    /\ \A s \in Sources : s # ui.mode => src[s].pc = "none"
    /\ mn.pc \in {"flush", "flushStore", "start", "join", "ended"} =>
           \A s \in Sources : src[s].pc = "none"

RateShown == mn.pc \in {"loop", "gui"} => currentRate = src[ui.mode].rate

ShownRuns == mn.pc \in {"loop", "gui"} /\ ui.sel = "Synthetic" => ui.mode = "Synthetic"

SwitchInv == Alone /\ RateShown /\ ShownRuns

LEMMA InitSwitch == Init => SwitchInv
<1> SUFFICES ASSUME Init PROVE SwitchInv
  OBVIOUS
<1>1. PICK o \in Options, r \in RateOptions :
         /\ ui = [mode |-> o.source, sel |-> o.source, rate |-> r, loop |-> TRUE]
         /\ currentRate = o.rate
         /\ src = [s \in Sources |->
                     IF s = o.source THEN [Off(o.rate) EXCEPT !.running = TRUE, !.pc = "run",
                                                              !.life = 1]
                                     ELSE Off(o.rate)]
  BY DEF Init
<1>2. o.source \in Sources /\ o.rate \in Rates /\ lives \in Nat
  BY SgAssumption DEF Init
<1>3. Off(o.rate) \in SourceStates /\ Off(o.rate).pc = "none" /\ Off(o.rate).rate = o.rate
  BY <1>2, OffTypes
<1> DEFINE on == [Off(o.rate) EXCEPT !.running = TRUE, !.pc = "run", !.life = 1]
<1>4. on.rate = o.rate
  BY <1>3 DEF SourceStates
<1>5. src[o.source] = on /\ \A s \in Sources : s # o.source => src[s] = Off(o.rate)
  BY <1>1, <1>2
<1> HIDE DEF on
<1>6. ui.mode = o.source /\ ui.sel = o.source /\ mn.pc = "loop"
  BY <1>1 DEF Init
<1>7. QED
  BY <1>1, <1>3, <1>4, <1>5, <1>6 DEF SwitchInv, Alone, RateShown, ShownRuns

(* A source moves itself, if it has a thread, and keeps its rate.           *)
LEMMA SourceKeepsSwitch ==
    ASSUME SgTypes, SwitchInv, NEW s \in Sources, SourceStep(s)
    PROVE  SwitchInv'
<1>1. src' = [src EXCEPT ![s] = src'[s]] /\ src'[s].rate = src[s].rate /\ src[s].pc # "none"
  BY SourceMoves
<1>2. mn' = mn /\ ui' = ui /\ currentRate' = currentRate
  BY DEF SourceStep, owner, shared
<1>3. \A q \in Sources : q # s => src'[q] = src[q]
  BY <1>1 DEF SgTypes, SourceTypes
<1>4. ui.mode \in Sources
  BY DEF SgTypes, MainTypes
<1>5. QED
  BY <1>1, <1>2, <1>3, <1>4 DEF SwitchInv, Alone, RateShown, ShownRuns

LEMMA MainKeepsSwitch ==
    ASSUME SgTypes, SwitchInv, MainStep
    PROVE  SwitchInv'
<1>t. ui \in UiRecords /\ ui.mode \in Sources /\ mn \in MainRecords
  BY DEF SgTypes, MainTypes, UiRecords, MainRecords
<1>g. ASSUME SourcesGoOn
      PROVE  \A s \in Sources : src'[s].pc = src[s].pc
  BY <1>g DEF SourcesGoOn, SamePlace
<1>1. CASE TakeCommands
  <2>1. mn.pc = "loop" /\ ui'.mode = ui.mode /\ ui'.sel = ui.sel /\ mn'.pc \in {"loop", "gui"}
    BY <1>1, <1>t DEF TakeCommands, UiRecords, MainRecords
  <2>2. /\ SourcesGoOn
        /\ \/ RatesKept /\ currentRate' = currentRate
           \/ ui.mode = "Synthetic" /\ src'["Synthetic"].rate = currentRate'
    BY <1>1, CommandsSet
  <2>3. QED
    BY <1>g, <1>t, <2>1, <2>2 DEF SwitchInv, Alone, RateShown, ShownRuns, RatesKept, RateKept
<1>2. CASE Gui
  <2>0. mn.pc = "gui" /\ ui.mode \in Sources
    BY <1>2, <1>t DEF Gui
  <2>1. /\ SourcesGoOn
        /\ \/ RatesKept /\ currentRate' = currentRate
           \/ ui.sel = "Synthetic" /\ src'["Synthetic"].rate = currentRate'
    BY <1>2, UserSets
  <2>2. src'[ui.mode].rate = currentRate'
    BY <2>0, <2>1 DEF SwitchInv, RateShown, ShownRuns, RatesKept, RateKept
  <2>3. /\ ui'.mode = ui.mode /\ mn'.pc \in {"loop", "stop"}
        /\ mn'.pc = "loop" /\ ui'.sel = "Synthetic" => ui.mode = "Synthetic"
    <3> USE DEF UiRecords, MainRecords
    <3>1. CASE GuiSource
      <4>1. CASE ui.sel = "File"
        <5>1. ui' = [ui EXCEPT !.sel = "Synthetic"]
              /\ IF ui.mode = "File" THEN mn' = [mn EXCEPT !.pc = "stop", !.op = "generate",
                                                           !.rate = ui.rate]
                                     ELSE mn' = [mn EXCEPT !.pc = "loop"]
          BY <3>1, <4>1 DEF GuiSource, BeginStop
        <5>2. ui.mode = "File" => mn'.pc = "stop"
          BY <1>t, <5>1
        <5>3. ui.mode # "File" => mn'.pc = "loop"
          BY <1>t, <5>1
        <5>4. QED
          BY <1>t, <5>1, <5>2, <5>3 DEF Sources
      <4>2. CASE ui.sel # "File"
        <5>1. ui' = [ui EXCEPT !.sel = "File"] /\ mn' = [mn EXCEPT !.pc = "loop"]
          BY <3>1, <4>2 DEF GuiSource
        <5>2. QED
          BY <1>t, <5>1
      <4>3. QED
        BY <4>1, <4>2
    <3>2. CASE GuiRate
      <4>1. mn' = [mn EXCEPT !.pc = "loop"] /\ \E r \in RateOptions : ui' = [ui EXCEPT !.rate = r]
        BY <3>2 DEF GuiRate
      <4>2. QED
        BY <1>t, <2>0, <4>1 DEF SwitchInv, ShownRuns
    <3>3. CASE GuiBlock \/ GuiPause
      <4>1. mn' = [mn EXCEPT !.pc = "loop"] /\ ui' = ui
        BY <3>3 DEF GuiBlock, GuiPause
      <4>2. QED
        BY <1>t, <2>0, <4>1 DEF SwitchInv, ShownRuns
    <3>4. CASE GuiLoop
      <4>1. mn' = [mn EXCEPT !.pc = "loop"] /\ ui' = [ui EXCEPT !.loop = ~src["File"].looping]
        BY <3>4 DEF GuiLoop
      <4>2. QED
        BY <1>t, <2>0, <4>1 DEF SwitchInv, ShownRuns
    <3>5. CASE GuiOpen
      <4>1. ui' = ui /\ \E r \in Rates : mn' = [mn EXCEPT !.pc = "stop", !.op = "load", !.rate = r]
        BY <3>5 DEF GuiOpen, BeginStop
      <4>2. mn'.pc = "stop"
        BY <1>t, <4>1
      <4>3. QED
        BY <4>1, <4>2
    <3>6. QED
      BY <1>2, <3>1, <3>2, <3>3, <3>4, <3>5 DEF Gui
  <2>4. QED
    BY <1>g, <2>1, <2>2, <2>3 DEF SwitchInv, Alone, RateShown, ShownRuns
<1>3. CASE GuiIdle
  <2>1. /\ mn.pc = "gui" /\ mn' = [mn EXCEPT !.pc = "loop"]
        /\ src' = src /\ ui' = ui /\ currentRate' = currentRate
    BY <1>3 DEF GuiIdle, shared
  <2>2. mn'.pc = "loop"
    BY <1>t, <2>1 DEF MainRecords
  <2>3. QED
    BY <2>1, <2>2 DEF SwitchInv, Alone, RateShown, ShownRuns
<1>4. CASE MainLeaves
  <2>1. SourcesGoOn /\ ui' = ui /\ mn' = [mn EXCEPT !.pc = "stop", !.op = "quit", !.rate = 0]
    BY <1>4, StopBegins DEF MainLeaves, BeginStop
  <2>2. mn'.pc = "stop"
    BY <1>t, <2>1 DEF MainRecords
  <2>3. QED
    BY <1>g, <2>1, <2>2 DEF SwitchInv, Alone, RateShown, ShownRuns
<1>5. CASE Joined
  <2>1. /\ mn.pc = "stop" /\ src[ui.mode].pc = "none" /\ ui' = ui
        /\ mn' = [mn EXCEPT !.pc = IF mn.op = "quit" THEN "join" ELSE "flush", !.ch = 1]
        /\ src' = [src EXCEPT ![ui.mode].running = FALSE]
    BY <1>5 DEF Joined
  <2>2. mn'.pc \in {"join", "flush"}
    BY <1>t, <2>1 DEF MainRecords
  <2>3. SourcesGoOn
    BY <1>t, <2>1, SetOther
  <2>4. \A s \in Sources : src'[s].pc = "none"
    BY <1>g, <2>1, <2>3 DEF SwitchInv, Alone
  <2>5. QED
    BY <2>1, <2>2, <2>4 DEF SwitchInv, Alone, RateShown, ShownRuns
<1>6. CASE FlushLoad \/ FlushStore
  <2>1. /\ mn.pc \in {"flush", "flushStore"} /\ ui' = ui /\ src' = src
        /\ mn' = NextFlush \/ mn' = [mn EXCEPT !.pc = "flushStore", !.newTail = head[mn.ch]]
    BY <1>6 DEF FlushLoad, FlushStore
  <2>2. mn'.pc \in {"flush", "flushStore", "start"}
    BY <1>t, <2>1 DEF NextFlush, MainRecords
  <2>3. QED
    BY <2>1, <2>2 DEF SwitchInv, Alone, RateShown, ShownRuns
<1>7. CASE StartSource
  <2>1. /\ mn.pc = "start" /\ mn' = [mn EXCEPT !.pc = "loop", !.op = "none", !.rate = 0]
    BY <1>7 DEF StartSource
  <2>2. mn'.pc = "loop"
    BY <1>t, <2>1 DEF MainRecords
  <2>3. \A s \in Sources : src[s].pc = "none"
    BY <2>1 DEF SwitchInv, Alone
  <2>4. QED
    BY <1>7, <2>2, <2>3, StartWrites DEF SwitchInv, Alone, RateShown, ShownRuns
<1>8. CASE JoinThreads
  <2>1. /\ mn.pc = "join" /\ mn' = [mn EXCEPT !.pc = "ended"] /\ ui' = ui /\ src' = src
    BY <1>8 DEF JoinThreads
  <2>2. mn'.pc = "ended"
    BY <1>t, <2>1 DEF MainRecords
  <2>3. QED
    BY <2>1, <2>2 DEF SwitchInv, Alone, RateShown, ShownRuns
<1>9. QED
  BY <1>1, <1>2, <1>3, <1>4, <1>5, <1>6, <1>7, <1>8 DEF MainStep

LEMMA NextKeepsSwitch ==
    ASSUME SgTypes, SwitchInv, [Next]_vars
    PROVE  SwitchInv'
<1>1. CASE SenderStep \/ ReadCommand \/ UNCHANGED vars
  <2>1. src' = src /\ mn' = mn /\ ui' = ui /\ currentRate' = currentRate
    BY <1>1 DEF SenderStep, ReadCommand, vars, owner, shared
  <2>2. QED
    BY <2>1 DEF SwitchInv, Alone, RateShown, ShownRuns
<1>2. QED
  BY <1>1, SourceKeepsSwitch, MainKeepsSwitch DEF Next

LEMMA SwitchKept == Spec => []SwitchInv
<1>1. Init => SwitchInv
  BY InitSwitch
<1>2. SgTypes /\ SwitchInv /\ [Next]_vars => SwitchInv'
  BY NextKeepsSwitch
<1>3. QED
  BY <1>1, <1>2, TypesKept, PTL DEF Spec

(* The threads of two sources never run together, and none runs while the    *)
(* rings are flushed, whatever is switched (sg_main.cpp, load and generate). *)
THEOREM ProducersApart == Spec => []OneProducer
<1>1. SwitchInv => OneProducer
  BY DEF SwitchInv, Alone, OneProducer
<1>2. QED
  BY <1>1, SwitchKept, PTL

(* Between two passes the rate of the frames is that of the source that runs, *)
(* after any mix of commands, buttons and switches (sg_main.cpp, main loop).  *)
THEOREM RateFollows == Spec => []RateIsTheSources
<1>1. SwitchInv => RateIsTheSources
  BY DEF SwitchInv, RateShown, RateIsTheSources
<1>2. QED
  BY <1>1, SwitchKept, PTL

-----------------------------------------------------------------------------
(* Sums over finite sets, without recursion: SumFunction(f) is the number of *)
(* pairs <<x, i>> with i in 1..f[x].                                         *)
Any(s) == CHOOSE x \in s : TRUE

(* SumFunction adds up the values of f in the order of CHOOSE.               *)
Sums(f, g) ==
    g = [s \in SUBSET DOMAIN f |-> IF s = {} THEN 0 ELSE f[Any(s)] + g[s \ {Any(s)}]]

SumsOf(f) == CHOOSE g : Sums(f, g)

LEMMA SumIs ==
    ASSUME NEW f
    PROVE  SumFunction(f) = SumsOf(f)[DOMAIN f]
  BY DEF SumFunction, SumFunctionOnSet, FoldFunctionOnSet, MapThenFoldSet, Sums, SumsOf, Any

(* As many pairs as the sum over s: a sum without recursion.                 *)
Column(f, x) == {x} \X (1..f[x])
Area(f, s) == {p \in s \X Nat : 1 <= p[2] /\ p[2] <= f[p[1]]}

LEMMA ColumnSize ==
    ASSUME NEW f, NEW x, f[x] \in Nat
    PROVE  IsFiniteSet(Column(f, x)) /\ Cardinality(Column(f, x)) = f[x]
<1>1. PICK n \in Nat : n = f[x]
  OBVIOUS
<1>2. IsFiniteSet(1..n) /\ Cardinality(1..n) = n
  BY FS_Interval
<1>3. IsFiniteSet({x}) /\ Cardinality({x}) = 1
  BY FS_Singleton
<1>4. IsFiniteSet({x} \X (1..n)) /\ Cardinality({x} \X (1..n)) = 1 * n
  BY <1>2, <1>3, FS_Product
<1>5. QED
  BY <1>1, <1>4 DEF Column

(* A finite set cannot be the least one without a property, if the property  *)
(* goes from a set to the set with one more element.                         *)
LEMMA LeastSet ==
    ASSUME NEW S, IsFiniteSet(S), NEW B, B \subseteq SUBSET S, B # {}
    PROVE  \E s \in B : \A r \in B : ~(r \subseteq s /\ r # s)
<1>1. IsWellFoundedOn(StrictSubsetOrdering(S), SUBSET S)
  BY FS_StrictSubsetOrderingWellFounded, FS_FiniteSubsetsOfFinite
<1>2. PICK s \in B : \A r \in B : <<r, s>> \notin StrictSubsetOrdering(S)
  BY <1>1, WFMin
<1>3. QED
  BY <1>2 DEF StrictSubsetOrdering

LEMMA AreaGrows ==
    ASSUME NEW S, NEW f \in [S -> Nat], NEW s \in SUBSET S, NEW x \in s
    PROVE  /\ Area(f, s) = Area(f, s \ {x}) \cup Column(f, x)
           /\ Area(f, s \ {x}) \cap Column(f, x) = {}
<1>1. f[x] \in Nat
  OBVIOUS
<1>2. \A p : p \in Column(f, x) <=> p \in {x} \X Nat /\ 1 <= p[2] /\ p[2] <= f[p[1]]
  BY <1>1 DEF Column
<1>3. \A p : p \in s \X Nat <=> p \in (s \ {x}) \X Nat \/ p \in {x} \X Nat
  OBVIOUS
<1>4. \A p : ~(p \in (s \ {x}) \X Nat /\ p \in {x} \X Nat)
  OBVIOUS
<1>5. QED
  BY <1>2, <1>3, <1>4 DEF Area

LEMMA AreaFinite ==
    ASSUME NEW S, IsFiniteSet(S), NEW f \in [S -> Nat], NEW s \in SUBSET S
    PROVE  IsFiniteSet(Area(f, s))
<1> SUFFICES ASSUME ~IsFiniteSet(Area(f, s)) PROVE FALSE
  OBVIOUS
<1> DEFINE B == {r \in SUBSET S : ~IsFiniteSet(Area(f, r))}
<1>b. B \subseteq SUBSET S /\ B # {}
  OBVIOUS
<1>1. PICK r \in B : \A q \in B : ~(q \subseteq r /\ q # r)
  <2> HIDE DEF B
  <2>1. QED
    BY <1>b, LeastSet
<1>2. CASE r = {}
  <2>1. Area(f, r) = {}
    BY <1>2 DEF Area
  <2>2. QED
    BY <2>1, FS_EmptySet
<1>3. CASE r # {}
  <2>1. PICK x \in r : TRUE
    BY <1>3
  <2>2. r \ {x} \notin B
    BY <1>1
  <2>3. IsFiniteSet(Area(f, r \ {x})) /\ IsFiniteSet(Column(f, x))
    BY <2>2, ColumnSize
  <2>4. Area(f, r) = Area(f, r \ {x}) \cup Column(f, x)
    <3>1. r \in SUBSET S /\ x \in r
      OBVIOUS
    <3>2. QED
      BY ONLY f \in [S -> Nat], <3>1, AreaGrows
  <2>5. IsFiniteSet(Area(f, r \ {x}) \cup Column(f, x))
    BY ONLY <2>3, FS_Union
  <2>6. ~IsFiniteSet(Area(f, r))
    OBVIOUS
  <2>7. QED
    BY <2>4, <2>5, <2>6
<1>4. QED
  BY <1>2, <1>3

LEMMA AreaCounts ==
    ASSUME NEW S, IsFiniteSet(S), NEW f \in [S -> Nat], NEW s \in SUBSET S
    PROVE  /\ Cardinality(Area(f, s)) \in Nat
           /\ s = {} => Cardinality(Area(f, s)) = 0
           /\ \A x \in s : Cardinality(Area(f, s)) = f[x] + Cardinality(Area(f, s \ {x}))
<1>1. IsFiniteSet(Area(f, s))
  BY AreaFinite
<1>2. ASSUME s = {} PROVE Cardinality(Area(f, s)) = 0
  BY <1>2, FS_EmptySet DEF Area
<1>3. ASSUME NEW x \in s
      PROVE  Cardinality(Area(f, s)) = f[x] + Cardinality(Area(f, s \ {x}))
  <2>1. IsFiniteSet(Area(f, s \ {x}))
    BY AreaFinite
  <2>2. IsFiniteSet(Column(f, x)) /\ Cardinality(Column(f, x)) = f[x] /\ f[x] \in Nat
    BY ColumnSize
  <2>3. Cardinality(Area(f, s \ {x})) \in Nat
    BY <2>1, FS_CardinalityType
  <2>4. Cardinality(Area(f, s \ {x}) \cap Column(f, x)) = 0
    BY AreaGrows, FS_EmptySet
  <2>5. Cardinality(Area(f, s)) = Cardinality(Area(f, s \ {x})) + Cardinality(Column(f, x))
                                  - Cardinality(Area(f, s \ {x}) \cap Column(f, x))
    BY <2>1, <2>2, AreaGrows, FS_Union
  <2>6. QED
    BY <2>2, <2>3, <2>4, <2>5
<1>4. QED
  BY <1>1, <1>2, <1>3, FS_CardinalityType

LEMMA SumIsArea ==
    ASSUME NEW S, IsFiniteSet(S), NEW f \in [S -> Nat]
    PROVE  SumFunction(f) = Cardinality(Area(f, S))
<1> DEFINE a == [s \in SUBSET S |-> Cardinality(Area(f, s))]
<1>d. DOMAIN f = S
  OBVIOUS
<1>n. \A s \in SUBSET S : s # {} => Any(s) \in s /\ Any(s) \in S /\ s \ {Any(s)} \in SUBSET S
  BY DEF Any
<1>1. Sums(f, a)
  <2>1. \A s \in SUBSET S : a[s] = IF s = {} THEN 0 ELSE f[Any(s)] + a[s \ {Any(s)}]
    BY <1>n, AreaCounts
  <2>2. QED
    BY <1>d, <2>1 DEF Sums
<1> HIDE DEF a
<1> DEFINE g == SumsOf(f)
<1>2. Sums(f, g)
  BY <1>1 DEF SumsOf
<1> HIDE DEF g
<1>e. ASSUME NEW h, Sums(f, h), NEW s \in SUBSET S
      PROVE  h[s] = IF s = {} THEN 0 ELSE f[Any(s)] + h[s \ {Any(s)}]
  BY <1>d, <1>e DEF Sums
<1>3. \A s \in SUBSET S : g[s] = a[s]
  <2> SUFFICES ASSUME NEW s0 \in SUBSET S, g[s0] # a[s0] PROVE FALSE
    OBVIOUS
  <2> DEFINE B == {s \in SUBSET S : g[s] # a[s]}
  <2>b. B \subseteq SUBSET S /\ B # {}
    OBVIOUS
  <2>1. PICK s \in B : \A q \in B : ~(q \subseteq s /\ q # s)
    <3> HIDE DEF B
    <3>1. QED
      BY <2>b, LeastSet
  <2>2. CASE s = {}
    BY <1>1, <1>2, <1>e, <2>2
  <2>3. CASE s # {}
    <3>1. Any(s) \in s /\ s \ {Any(s)} \in SUBSET S
      BY <1>n, <2>3
    <3>2. g[s \ {Any(s)}] = a[s \ {Any(s)}]
      BY <2>1, <3>1
    <3>3. g[s] = f[Any(s)] + g[s \ {Any(s)}] /\ a[s] = f[Any(s)] + a[s \ {Any(s)}]
      BY <1>1, <1>2, <1>e, <2>3
    <3>4. QED
      BY <3>2, <3>3
  <2>4. QED
    BY <2>2, <2>3
<1>4. a[S] = Cardinality(Area(f, S))
  BY DEF a
<1>5. QED
  BY <1>3, <1>4, <1>d, SumIs DEF g

(* Each part of a sum is at most the sum, and greater parts make no less.    *)
LEMMA SumBounds ==
    ASSUME NEW S, IsFiniteSet(S), NEW f \in [S -> Nat]
    PROVE  SumFunction(f) \in Nat /\ \A x \in S : f[x] <= SumFunction(f)
<1>1. SumFunction(f) = Cardinality(Area(f, S)) /\ Cardinality(Area(f, S)) \in Nat
  BY SumIsArea, AreaCounts
<1>2. ASSUME NEW x \in S PROVE f[x] <= SumFunction(f)
  <2>1. /\ Cardinality(Area(f, S)) = f[x] + Cardinality(Area(f, S \ {x}))
        /\ Cardinality(Area(f, S \ {x})) \in Nat /\ f[x] \in Nat
    BY AreaCounts
  <2>2. QED
    BY <1>1, <2>1
<1>3. QED
  BY <1>1, <1>2

LEMMA SumGrows ==
    ASSUME NEW S, IsFiniteSet(S), NEW f \in [S -> Nat], NEW g \in [S -> Nat],
           \A x \in S : f[x] <= g[x]
    PROVE  SumFunction(f) <= SumFunction(g)
<1>1. Area(f, S) \subseteq Area(g, S)
  <2> SUFFICES ASSUME NEW p \in S \X Nat, 1 <= p[2], p[2] <= f[p[1]]
               PROVE  p[2] <= g[p[1]]
    BY DEF Area
  <2>1. p[1] \in S /\ p[2] \in Nat /\ f[p[1]] \in Nat /\ g[p[1]] \in Nat
    OBVIOUS
  <2>2. QED
    BY <2>1
<1>2. Cardinality(Area(f, S)) <= Cardinality(Area(g, S))
  BY <1>1, AreaFinite, FS_Subset
<1>3. QED
  BY <1>2, SumIsArea

-----------------------------------------------------------------------------
(* Samples, from the rings to the frames.                                    *)

(* The i-th sample of a ring, and where a frame has the i-th of a channel.   *)
Item(c, i) == buf[c][Wrap(tail[c] + i)]
Place(c, k, i) == (c - 1) * k + i

Running == src[ui.mode]

(* What source r has made for a channel: the batch under way, once it was     *)
(* offered to the ring; what of it did not fit counts from its record on.    *)
Offered(r, c) ==
    \/ r.pc = "record" /\ c <= r.ch
    \/ r.pc = "push" /\ c < r.ch
MadeBy(r, c) == r.t + (IF Offered(r, c) THEN r.n ELSE 0)
UncountedBy(r, c) == IF r.pc = "record" /\ c = r.ch THEN r.n - r.pushed ELSE 0

Made(c) == MadeBy(Running, c)
Uncounted(c) == UncountedBy(Running, c)

(* The ring holds samples of the running source in order, the first of them  *)
(* at place b of its life or, by what was dropped, later.                    *)
InOrder(c, b) ==
    /\ b + Used(c) <= Made(c)
    /\ Made(c) <= b + Used(c) + dropped[c] + Uncounted(c)
    /\ \A i \in 0..(Used(c) - 1) :
          /\ Item(c, i).life = lives
          /\ b + i <= Item(c, i).t /\ Item(c, i).t <= b + i + dropped[c]
          /\ Item(c, i).t < Made(c)
          /\ i > 0 => Item(c, i - 1).t < Item(c, i).t

Popping == sd.pc \in {"pop", "store"}
Whole == sd.pc = "send"

(* The flush has passed the ring.                                            *)
Flushed(c) == (mn.pc \in {"flush", "flushStore"} /\ c < mn.ch) \/ mn.pc = "start"

FlushedIsEmpty ==
    /\ \A c \in Channels : Flushed(c) => Used(c) = 0
    /\ mn.pc = "flushStore" => mn.newTail = head[mn.ch]

(* The rings not popped yet still hold the block that was found in them.     *)
StillReady ==
    /\ Popping \/ Whole => sd.block \in Blocks
    /\ Popping => \A c \in Channels : c >= sd.ch => Used(c) >= sd.block
    /\ sd.pc = "store" => sd.newTail = Wrap(tail[sd.ch] + sd.block)

(* What the sender has popped for the frame under way.                       *)
Popped(c) == IF Whole \/ (Popping /\ c < sd.ch) THEN sd.block ELSE 0

RingsFollow(b) ==
    \A c \in Channels : ~Flushed(c) => \E e \in Int : e = b + Popped(c) /\ InOrder(c, e)

(* A channel's k samples in a frame p: of one life, in order, from place b    *)
(* on, none later than by d.                                                 *)
Row(p, c, k, life, b, d) ==
    \A i \in 0..(k - 1) :
        /\ p[Place(c, k, i)].life = life /\ p[Place(c, k, i)].t \in Nat
        /\ b + i <= p[Place(c, k, i)].t /\ p[Place(c, k, i)].t <= b + i + d
        /\ i > 0 => p[Place(c, k, i - 1)].t < p[Place(c, k, i)].t

Copied(c) == c < sd.ch \/ (sd.pc = "store" /\ c = sd.ch)

FrameGrows(b) ==
    Popping => \A c \in Channels : Copied(c) => Row(payload, c, sd.block, lives, b, dropped[c])

(* The frame about to be sent, and the one that was.                         *)
WholeFrom(b, life) ==
    /\ lives = 1 => b = sd.total /\ life = 1
    /\ \A c \in Channels : Row(payload, c, sd.block, life, b, dropped[c])
SentFrom(b, life, d) ==
    /\ lives = 1 => b = sd.total - frame.block /\ life = 1
    /\ SumFunction(d) = frame.drops
    /\ \A c \in Channels : Row(payload, c, frame.block, life, b, d[c])

FrameIsWhole == Whole => \E b \in Int, life \in Nat : WholeFrom(b, life)
FrameIsSent ==
    FrameSent => /\ frame.block \in Blocks
                 /\ \E b \in Int, life \in Nat, d \in [Channels -> Nat] : SentFrom(b, life, d)

LifeRuns == Running.life = lives

Follows(b) == (lives = 1 => b = sd.total) /\ RingsFollow(b) /\ FrameGrows(b)

Aligned == FlushedIsEmpty /\ StillReady /\ FrameIsWhole /\ FrameIsSent /\ \E b \in Int : Follows(b)

(* Until a flush comes between the sender's loads and stores.                *)
FlowInv == LifeRuns /\ (~torn /\ sd.pc # "ended" => Aligned)

-----------------------------------------------------------------------------
(* Indices of a ring.                                                        *)
RingUsed(h, t) == IF h >= t THEN h - t ELSE Slots - t + h

LEMMA RingHolds ==
    ASSUME NEW h \in Slot, NEW t \in Slot, NEW u, u = RingUsed(h, t)
    PROVE  /\ u \in Slot /\ u \in Nat /\ Slots \in Nat \ {0}
           /\ \A i \in 0..(u - 1) : Wrap(t + i) \in Slot
           /\ RingUsed(h, h) = 0
<1>1. PICK n \in Nat \ {0} : n = Slots
  BY SgAssumption
<1>2. h \in 0..(n - 1) /\ t \in 0..(n - 1)
  BY <1>1 DEF Slot
<1>3. QED
  BY <1>1, <1>2 DEF Slot, RingUsed, Wrap

TailPushed(h, t, u, k) ==
    /\ RingUsed(Wrap(h + k), t) = u + k
    /\ \A i \in 0..(u - 1), j \in 0..(k - 1) : Wrap(t + i) # Wrap(h + j)
    /\ \A j \in 0..(k - 1) : Wrap(t + (u + j)) = Wrap(h + j) /\ Wrap(h + j) \in Slot
    /\ \A i, j \in 0..(k - 1) : Wrap(h + i) = Wrap(h + j) => i = j

LEMMA RingPushes ==
    ASSUME NEW h \in Slot, NEW t \in Slot, NEW u, u = RingUsed(h, t),
           NEW k \in 0..(Slots - 1 - u)
    PROVE  TailPushed(h, t, u, k)
<1>1. PICK n \in Nat \ {0} : n = Slots
  BY SgAssumption
<1>2. h \in 0..(n - 1) /\ t \in 0..(n - 1)
  BY <1>1 DEF Slot
<1>3. QED
  BY <1>1, <1>2 DEF Slot, RingUsed, Wrap, TailPushed

LEMMA RingPops ==
    ASSUME NEW h \in Slot, NEW t \in Slot, NEW u, u = RingUsed(h, t), NEW m \in 0..u
    PROVE  /\ Wrap(t + m) \in Slot
           /\ RingUsed(h, Wrap(t + m)) = u - m
           /\ \A i \in 0..(u - m - 1) : Wrap(Wrap(t + m) + i) = Wrap(t + (m + i))
<1>1. PICK n \in Nat \ {0} : n = Slots
  BY SgAssumption
<1>2. h \in 0..(n - 1) /\ t \in 0..(n - 1)
  BY <1>1 DEF Slot
<1>3. QED
  BY <1>1, <1>2 DEF Slot, RingUsed, Wrap

LEMMA UsedIs ==
    ASSUME NEW c
    PROVE  Used(c) = RingUsed(head[c], tail[c]) /\ Used(c)' = RingUsed(head'[c], tail'[c])
  BY DEF Used, RingUsed

(* Places of a frame: within payload, and those of two channels apart.       *)
LEMMA PlacesApart ==
    ASSUME NEW c \in Channels, NEW k \in Nat, k <= MaxBlock
    PROVE  /\ \A i \in 0..(k - 1) : Place(c, k, i) \in Cells
           /\ \A i \in 0..(k - 1) : Place(c, k, i) \in (c - 1) * k .. ((c - 1) * k + k - 1)
           /\ \A i \in 0..(k - 1) : Place(c, k, i) - (c - 1) * k = i
           /\ \A d \in Channels, i \in 0..(k - 1) :
                 d < c => Place(d, k, i) \notin (c - 1) * k .. ((c - 1) * k + k - 1)
<1>1. c \in Nat \ {0} /\ NumChannels \in Nat \ {0} /\ c <= NumChannels /\ MaxBlock \in Nat
  BY SgAssumption DEF Channels
<1>2. PICK at \in Int : at = (c - 1) * k
  BY <1>1
<1>3. at >= 0 /\ at + k <= NumChannels * MaxBlock
  <2>1. PICK e \in Nat : e = c - 1
    BY <1>1
  <2>2. e * k >= 0 /\ (e + 1) * k = e * k + k
    BY <2>1
  <2>3. PICK f \in Nat : f = NumChannels - (e + 1)
    BY <1>1, <2>1
  <2>4. PICK g \in Nat : g = MaxBlock - k
    BY <1>1
  <2>5. NumChannels * MaxBlock = (e + 1) * k + (e + 1) * g + f * MaxBlock
    <3>1. NumChannels * MaxBlock = (e + 1) * MaxBlock + f * MaxBlock
      BY <1>1, <2>1, <2>3
    <3>2. (e + 1) * MaxBlock = (e + 1) * k + (e + 1) * g
      BY <1>1, <2>1, <2>4
    <3>3. QED
      BY <3>1, <3>2
  <2>6. (e + 1) * g >= 0 /\ f * MaxBlock >= 0 /\ (e + 1) * k \in Nat
        /\ (e + 1) * g \in Nat /\ f * MaxBlock \in Nat
    BY <1>1, <2>1, <2>3, <2>4
  <2>7. PICK p, q, r : p = e * k /\ q = (e + 1) * g /\ r = f * MaxBlock
    OBVIOUS
  <2>8. at = p
    BY <1>2, <2>1, <2>7
  <2>9. NumChannels * MaxBlock = p + k + q + r
    BY <2>2, <2>5, <2>7
  <2>10. p \in Nat /\ q \in Nat /\ r \in Nat
    BY <2>1, <2>6, <2>7
  <2>11. QED
    BY <2>8, <2>9, <2>10
<1>4. \A i \in 0..(k - 1) : Place(c, k, i) = at + i
  BY <1>2 DEF Place
<1>5. \A d \in Channels : d < c => (d - 1) * k + k <= at
  <2> SUFFICES ASSUME NEW d \in Channels, d < c PROVE (d - 1) * k + k <= at
    OBVIOUS
  <2>1. d \in Nat \ {0}
    BY DEF Channels
  <2>2. PICK e \in Nat : e = c - 1 - d
    BY <1>1, <2>1
  <2>3. PICK f \in Nat : f = d - 1
    BY <2>1
  <2>4. at = (e + f + 1) * k
    BY <1>1, <1>2, <2>1, <2>2, <2>3
  <2>5. (e + f + 1) * k = e * k + (f * k + k)
    BY <2>2, <2>3
  <2>6. e * k \in Nat /\ f * k \in Nat
    BY <2>2, <2>3
  <2>7. (d - 1) * k = f * k
    BY <2>3
  <2>8. QED
    BY <2>4, <2>5, <2>6, <2>7
<1>6. PICK z \in Nat : z = NumChannels * MaxBlock
  BY <1>1
<1>7. \A i \in 0..(k - 1) : at + i \in 0..(z - 1)
  BY <1>3, <1>6
<1>8. \A d \in Channels, i \in 0..(k - 1) : d < c => Place(d, k, i) < at
  <2> SUFFICES ASSUME NEW d \in Channels, NEW i \in 0..(k - 1), d < c
               PROVE  Place(d, k, i) < at
    OBVIOUS
  <2>1. PICK y \in Int : y = (d - 1) * k
    BY DEF Channels
  <2>2. y + k <= at /\ Place(d, k, i) = y + i
    BY <1>5, <2>1 DEF Place
  <2>3. QED
    BY <2>2
<1>9. \A d \in Channels, i \in 0..(k - 1) : Place(d, k, i) \in Int
  BY DEF Place, Channels
<1>10. QED
  BY <1>2, <1>4, <1>6, <1>7, <1>8, <1>9 DEF Cells

-----------------------------------------------------------------------------
(* What a ring holds, before and after each thing that is done to it.        *)
LEMMA ItemTypes ==
    ASSUME SgTypes, NEW c \in Channels
    PROVE  /\ Used(c) \in Nat
           /\ \A i \in 0..(Used(c) - 1) : Item(c, i) \in Samples
<1>1. head[c] \in Slot /\ tail[c] \in Slot /\ buf[c] \in [Slot -> Samples]
  BY DEF SgTypes, RingTypes
<1>2. PICK u : u = Used(c) /\ u = RingUsed(head[c], tail[c])
  BY UsedIs
<1>3. u \in Nat /\ \A i \in 0..(u - 1) : Wrap(tail[c] + i) \in Slot
  BY <1>1, <1>2, RingHolds
<1>4. QED
  BY <1>1, <1>2, <1>3 DEF Item

(* The other rings are as they were.                                         *)
RingKept(c) ==
    /\ Used(c)' = Used(c)
    /\ \A i \in 0..(Used(c) - 1) : Item(c, i)' = Item(c, i)

LEMMA UntouchedRing ==
    ASSUME NEW c, head'[c] = head[c], tail'[c] = tail[c], buf'[c] = buf[c]
    PROVE  RingKept(c)
  BY DEF RingKept, Used, Item

(* The ring with u samples has k more, the first of source r's batch.        *)
RingPushed(c, u, k, r) ==
    /\ Used(c)' = u + k
    /\ \A i \in 0..(u - 1) : Item(c, i)' = Item(c, i)
    /\ \A j \in 0..(k - 1) : Item(c, u + j)' = Cell(r, j)

LEMMA PushRing ==
    ASSUME SgTypes, NEW s \in Sources, SourcePush(s), NEW r, r = src[s],
           NEW c, c = r.ch, NEW k, k = Least(r.n, Free(c)), NEW u, u = Used(c)
    PROVE  /\ c \in Channels /\ k \in Nat /\ k <= r.n
           /\ RingPushed(c, u, k, r)
           /\ \A d \in Channels : d # c => RingKept(d)
<1>1. /\ c \in Channels /\ k \in 0..Free(c) /\ k <= src[s].n
      /\ buf' = [buf EXCEPT ![c] = PushedRow(c, src[s], k)]
      /\ head' = [head EXCEPT ![c] = Wrap(head[c] + k)] /\ tail' = tail
  BY PushWrites
<1>2. /\ head \in [Channels -> Slot] /\ tail \in [Channels -> Slot]
      /\ buf \in [Channels -> [Slot -> Samples]]
  BY DEF SgTypes, RingTypes
<1>3. PICK h \in Slot, t \in Slot : h = head[c] /\ t = tail[c]
  BY <1>1, <1>2
<1>4. u = RingUsed(h, t)
  BY <1>3, UsedIs
<1>5. k \in 0..(Slots - 1 - u)
  BY <1>1 DEF Free
<1>14. u \in Nat /\ u \in Slot /\ \A i \in 0..(u - 1) : Wrap(t + i) \in Slot
  BY <1>4, RingHolds
<1>6. /\ RingUsed(Wrap(h + k), t) = u + k
      /\ \A i \in 0..(u - 1), j \in 0..(k - 1) : Wrap(t + i) # Wrap(h + j)
      /\ \A j \in 0..(k - 1) : Wrap(t + (u + j)) = Wrap(h + j) /\ Wrap(h + j) \in Slot
      /\ \A i, j \in 0..(k - 1) : Wrap(h + i) = Wrap(h + j) => i = j
  <2>1. TailPushed(h, t, u, k)
    BY <1>4, <1>5, RingPushes
  <2>2. QED
    BY <2>1 DEF TailPushed
<1>7. head'[c] = Wrap(h + k) /\ tail'[c] = t /\ buf'[c] = PushedRow(c, src[s], k)
  BY <1>1, <1>2, <1>3
<1>8. Used(c)' = u + k
  BY <1>6, <1>7, UsedIs
<1>9. k \in Nat
  BY <1>5, <1>14, SgAssumption DEF Slot
<1>10. ASSUME NEW i \in 0..(u - 1) PROVE Item(c, i)' = Item(c, i)
  <2>1. Wrap(t + i) \in Slot /\ ~ \E j \in 0..(k - 1) : Wrap(h + j) = Wrap(t + i)
    BY <1>6, <1>14
  <2>2. PushedRow(c, src[s], k)[Wrap(t + i)] = buf[c][Wrap(t + i)]
    BY <1>3, <2>1 DEF PushedRow
  <2>3. QED
    BY <1>3, <1>7, <2>2 DEF Item
<1>11. ASSUME NEW j \in 0..(k - 1) PROVE Item(c, u + j)' = Cell(src[s], j)
  <2>1. Wrap(t + (u + j)) = Wrap(h + j)
    BY <1>6
  <2>2. Wrap(h + j) \in Slot
    BY <1>6
  <2> DEFINE i == CHOOSE i \in 0..(k - 1) : Wrap(h + i) = Wrap(h + j)
  <2>3. i \in 0..(k - 1) /\ Wrap(h + i) = Wrap(h + j)
    OBVIOUS
  <2>4. i = j
    BY <1>6, <2>3
  <2>5. PushedRow(c, src[s], k)[Wrap(h + j)] = Cell(src[s], i)
    BY <1>3, <2>2 DEF PushedRow
  <2> HIDE DEF i
  <2>6. QED
    BY <1>7, <2>1, <2>4, <2>5 DEF Item
<1>12. ASSUME NEW d \in Channels, d # c PROVE RingKept(d)
  <2>1. head'[d] = head[d] /\ tail'[d] = tail[d] /\ buf'[d] = buf[d]
    BY <1>1, <1>2, <1>12
  <2>2. QED
    BY <2>1, UntouchedRing
<1>13. RingPushed(c, u, k, src[s])
  BY <1>8, <1>10, <1>11 DEF RingPushed
<1>15. QED
  BY <1>1, <1>5, <1>9, <1>12, <1>13

LEMMA PopRing ==
    ASSUME SgTypes, NEW c \in Channels, NEW m \in 0..Used(c),
           tail' = [tail EXCEPT ![c] = Wrap(tail[c] + m)], head' = head, buf' = buf
    PROVE  /\ Used(c)' = Used(c) - m
           /\ \A i \in 0..(Used(c) - m - 1) : Item(c, i)' = Item(c, m + i)
           /\ \A d \in Channels : d # c => RingKept(d)
<1>1. tail \in [Channels -> Slot] /\ head[c] \in Slot /\ tail[c] \in Slot
  BY DEF SgTypes, RingTypes
<1>2. PICK h \in Slot, t \in Slot : h = head[c] /\ t = tail[c]
  BY <1>1
<1>3. tail'[c] = Wrap(t + m) /\ Used(c) = RingUsed(h, t)
  BY <1>1, <1>2, UsedIs
<1>4. /\ RingUsed(h, Wrap(t + m)) = Used(c) - m
      /\ \A i \in 0..(Used(c) - m - 1) : Wrap(Wrap(t + m) + i) = Wrap(t + (m + i))
  BY <1>3, RingPops
<1>5. Used(c)' = Used(c) - m
  BY <1>2, <1>3, <1>4, UsedIs
<1>6. ASSUME NEW i \in 0..(Used(c) - m - 1) PROVE Item(c, i)' = Item(c, m + i)
  BY <1>2, <1>3, <1>4 DEF Item
<1>7. ASSUME NEW d \in Channels, d # c PROVE RingKept(d)
  <2>1. tail'[d] = tail[d]
    BY <1>1, <1>7
  <2>2. QED
    BY <2>1, UntouchedRing
<1>8. QED
  BY <1>5, <1>6, <1>7

LEMMA FlushRing ==
    ASSUME SgTypes, NEW c \in Channels,
           tail' = [tail EXCEPT ![c] = head[c]], head' = head, buf' = buf
    PROVE  /\ Used(c)' = 0
           /\ \A d \in Channels : d # c => RingKept(d)
<1>1. tail \in [Channels -> Slot] /\ head[c] \in Slot
  BY DEF SgTypes, RingTypes
<1>2. tail'[c] = head[c] /\ RingUsed(head[c], head[c]) = 0
  BY <1>1, RingHolds
<1>3. Used(c)' = 0
  BY <1>2, UsedIs
<1>4. ASSUME NEW d \in Channels, d # c PROVE RingKept(d)
  <2>1. tail'[d] = tail[d]
    BY <1>1, <1>4
  <2>2. QED
    BY <2>1, UntouchedRing
<1>5. QED
  BY <1>3, <1>4

-----------------------------------------------------------------------------
(* The order in a ring, through the steps of its source.                     *)
CountsAre(c) ==
    /\ Made(c) \in Nat /\ Uncounted(c) \in Nat /\ dropped[c] \in Nat
    /\ Running \in SourceStates /\ Running.t \in Nat /\ Running.n \in Nat

Counts == \A c \in Channels : CountsAre(c)

LEMMA CountTypes == SgTypes => Counts
<1> SUFFICES ASSUME SgTypes, NEW c \in Channels PROVE CountsAre(c)
  BY DEF Counts
<1>1. ui.mode \in Sources
  BY DEF SgTypes, MainTypes
<1>2. /\ Running \in SourceStates
      /\ Running.pc = "record" => Running.pushed <= Running.n
  BY <1>1 DEF SgTypes, SourceTypes, Running
<1>3. Running.t \in Nat /\ Running.n \in Nat /\ Running.pushed \in Nat
  BY <1>2 DEF SourceStates
<1>4. QED
  BY <1>2, <1>3 DEF Made, MadeBy, Uncounted, UncountedBy, SgTypes, RingTypes, CountsAre

LEMMA CountsNext == SgTypes' => Counts'
  BY CountTypes, PTL

LEMMA OrderStays ==
    ASSUME SgTypes, SgTypes', NEW c \in Channels, NEW b \in Int, InOrder(c, b), RingKept(c),
           lives' = lives, Made(c)' = Made(c), dropped'[c] >= dropped[c],
           dropped'[c] + Uncounted(c)' >= dropped[c] + Uncounted(c)
    PROVE  InOrder(c, b)'
<1>1. PICK u \in Nat : u = Used(c)
  BY ItemTypes
<1>2. Used(c)' = u /\ \A i \in 0..(u - 1) : Item(c, i)' = Item(c, i)
  BY <1>1 DEF RingKept
<1>3. \A i \in 0..(u - 1) : Item(c, i).t \in Nat
  BY <1>1, ItemTypes DEF Samples
<1>4. /\ Made(c) \in Nat /\ Uncounted(c) \in Nat /\ dropped[c] \in Nat
      /\ Uncounted(c)' \in Nat /\ dropped'[c] \in Nat
  <2>1. Made(c) \in Nat /\ Uncounted(c) \in Nat /\ dropped[c] \in Nat
    BY CountTypes DEF Counts, CountsAre
  <2>2. Uncounted(c)' \in Nat /\ dropped'[c] \in Nat
    BY CountsNext DEF Counts, CountsAre
  <2>3. QED
    BY <2>1, <2>2
<1>5. /\ b + u <= Made(c)
      /\ Made(c) <= b + u + dropped[c] + Uncounted(c)
      /\ \A i \in 0..(u - 1) :
            /\ Item(c, i).life = lives
            /\ b + i <= Item(c, i).t /\ Item(c, i).t <= b + i + dropped[c]
            /\ Item(c, i).t < Made(c)
            /\ i > 0 => Item(c, i - 1).t < Item(c, i).t
  BY <1>1 DEF InOrder
<1>6. \A i \in 0..(u - 1) :
            /\ Item(c, i)'.life = lives'
            /\ b + i <= Item(c, i)'.t /\ Item(c, i)'.t <= b + i + dropped'[c]
            /\ Item(c, i)'.t < Made(c)'
            /\ i > 0 => Item(c, i - 1)'.t < Item(c, i)'.t
  <2> SUFFICES ASSUME NEW i \in 0..(u - 1)
               PROVE  /\ Item(c, i)'.life = lives'
                      /\ b + i <= Item(c, i)'.t /\ Item(c, i)'.t <= b + i + dropped'[c]
                      /\ Item(c, i)'.t < Made(c)'
                      /\ i > 0 => Item(c, i - 1)'.t < Item(c, i)'.t
    OBVIOUS
  <2>1. Item(c, i)' = Item(c, i) /\ Item(c, i).t \in Nat
    BY <1>2, <1>3
  <2>2. i > 0 => i - 1 \in 0..(u - 1) /\ Item(c, i - 1)' = Item(c, i - 1)
    BY <1>1, <1>2
  <2>3. QED
    BY <1>4, <1>5, <2>1, <2>2
<1>7. QED
  BY <1>2, <1>4, <1>5, <1>6 DEF InOrder

(* Where a source's step takes it.                                           *)
LEMMA SourceGoes ==
    ASSUME SgTypes, NEW s \in Sources, SourceStep(s), NEW x, x = src[s], NEW y, y = src'[s]
    PROVE  /\ y.life = x.life
           /\ \/ /\ x.pc = "run" /\ y.pc = "none" /\ y.t = x.t
                 /\ UNCHANGED <<rings, dropped>>
              \/ /\ x.pc = "run" /\ y.pc = "push" /\ y.ch = 1 /\ y.t = x.t
                 /\ UNCHANGED <<rings, dropped>>
              \/ /\ SourcePush(s) /\ x.pc = "push" /\ y.pc = "record" /\ y.ch = x.ch
                 /\ y.n = x.n /\ y.t = x.t /\ y.pushed = Least(x.n, Free(x.ch))
                 /\ dropped' = dropped
              \/ /\ x.pc = "record" /\ y.pc = "push" /\ y.ch = x.ch + 1 /\ x.ch < NumChannels
                 /\ y.n = x.n /\ y.t = x.t /\ UNCHANGED rings
                 /\ dropped' = [dropped EXCEPT ![x.ch] = @ + x.n - x.pushed]
              \/ /\ x.pc = "record" /\ y.pc = "run" /\ ~(x.ch < NumChannels)
                 /\ y.t = x.t + x.n /\ UNCHANGED rings
                 /\ dropped' = [dropped EXCEPT ![x.ch] = @ + x.n - x.pushed]
<1>t. src \in [Sources -> SourceStates] /\ x \in SourceStates
  BY DEF SgTypes, SourceTypes
<1>1. CASE SourceStops(s) /\ UNCHANGED <<rings, dropped>>
  <2>1. y = [x EXCEPT !.pc = "none"] /\ x.pc = "run"
    BY <1>t, <1>1 DEF SourceStops
  <2>2. QED
    BY <1>t, <1>1, <2>1 DEF SourceStates
<1>2. CASE FileEnds(s) /\ UNCHANGED <<rings, dropped>>
  <2>1. y = [x EXCEPT !.pc = "none"] /\ x.pc = "run"
    BY <1>t, <1>2 DEF FileEnds
  <2>2. QED
    BY <1>t, <1>2, <2>1 DEF SourceStates
<1>3. CASE SourceBatch(s) /\ UNCHANGED <<rings, dropped>>
  <2>1. x.pc = "run" /\ \E n, pos : y = [[[[x EXCEPT !.pc = "push"] EXCEPT !.ch = 1]
                                          EXCEPT !.n = n] EXCEPT !.pos = pos]
    <3>1. x.pc = "run" /\ \E n, pos : src' = [src EXCEPT ![s].pc = "push", ![s].ch = 1,
                                                         ![s].n = n, ![s].pos = pos]
      BY <1>3 DEF SourceBatch
    <3>2. PICK n, pos : src' = [src EXCEPT ![s].pc = "push", ![s].ch = 1, ![s].n = n,
                                           ![s].pos = pos]
      BY <3>1
    <3>3. y = [[[[x EXCEPT !.pc = "push"] EXCEPT !.ch = 1] EXCEPT !.n = n] EXCEPT !.pos = pos]
      BY <1>t, <3>2
    <3>4. QED
      BY <3>1, <3>3
  <2>2. y.pc = "push" /\ y.ch = 1 /\ y.t = x.t /\ y.life = x.life
    BY <1>t, <2>1 DEF SourceStates
  <2>3. QED
    BY <1>3, <2>1, <2>2
<1>4. CASE SourcePush(s)
  <2>1. PICK k : k = Least(x.n, Free(x.ch))
    OBVIOUS
  <2>2. x.pc = "push" /\ dropped' = dropped
        /\ src' = [src EXCEPT ![s].pc = "record", ![s].pushed = k]
    BY <1>4, <2>1 DEF SourcePush
  <2>3. y = [[x EXCEPT !.pc = "record"] EXCEPT !.pushed = k]
    BY <1>t, <2>2
  <2>4. /\ y.pc = "record" /\ y.ch = x.ch /\ y.n = x.n /\ y.t = x.t /\ y.pushed = k
        /\ y.life = x.life
    BY <1>t, <2>3 DEF SourceStates
  <2>5. QED
    BY <1>4, <2>1, <2>2, <2>4
<1>5. CASE SourceRecord(s)
  <2>1. /\ x.pc = "record" /\ UNCHANGED rings
        /\ dropped' = [dropped EXCEPT ![x.ch] = @ + x.n - x.pushed]
        /\ y = IF x.ch < NumChannels THEN NextPush(x) ELSE BatchDone(s, x)
    BY <1>t, <1>5 DEF SourceRecord
  <2>2. CASE x.ch < NumChannels
    <3>1. y = [[x EXCEPT !.pc = "push"] EXCEPT !.ch = x.ch + 1]
      BY <1>t, <2>1, <2>2 DEF NextPush
    <3>2. /\ y.pc = "push" /\ y.ch = x.ch + 1 /\ y.n = x.n /\ y.t = x.t /\ y.life = x.life
      BY <1>t, <3>1 DEF SourceStates
    <3>3. QED
      BY <2>1, <2>2, <3>2
  <2>3. CASE ~(x.ch < NumChannels)
    <3> DEFINE pos == IF s = "File" THEN x.pos + x.n ELSE x.pos
    <3>1. y = [x EXCEPT !.pc = "run", !.t = @ + x.n, !.n = 0, !.pushed = 0,
                        !.pos = IF s = "File" THEN @ + x.n ELSE @, !.ch = 1]
      BY <2>1, <2>3 DEF BatchDone
    <3>2. y = [running |-> x.running, stop |-> x.stop, paused |-> x.paused, rate |-> x.rate,
               looping |-> x.looping, pc |-> "run", ch |-> 1, n |-> 0, pushed |-> 0,
               t |-> x.t + x.n, pos |-> pos, life |-> x.life]
      BY <1>t, <3>1 DEF SourceStates
    <3> HIDE DEF pos
    <3>3. y.pc = "run" /\ y.t = x.t + x.n /\ y.life = x.life
      BY <3>2
    <3>4. QED
      BY <2>1, <2>3, <3>3
  <2>4. QED
    BY <2>2, <2>3
<1>6. QED
  BY <1>1, <1>2, <1>3, <1>4, <1>5 DEF SourceStep

(* A row stays as it is while its places are not written; d may grow.        *)
LEMMA RowStays ==
    ASSUME NEW p, NEW q, NEW c, NEW k \in Nat, NEW life, NEW b \in Int, NEW d \in Nat, NEW e \in Nat,
           d <= e, Row(p, c, k, life, b, d),
           \A i \in 0..(k - 1) : q[Place(c, k, i)] = p[Place(c, k, i)]
    PROVE  Row(q, c, k, life, b, e)
<1> SUFFICES ASSUME NEW i \in 0..(k - 1)
             PROVE  /\ q[Place(c, k, i)].life = life /\ q[Place(c, k, i)].t \in Nat
                    /\ b + i <= q[Place(c, k, i)].t /\ q[Place(c, k, i)].t <= b + i + e
                    /\ i > 0 => q[Place(c, k, i - 1)].t < q[Place(c, k, i)].t
  BY DEF Row
<1>1. /\ q[Place(c, k, i)] = p[Place(c, k, i)]
      /\ p[Place(c, k, i)].life = life /\ p[Place(c, k, i)].t \in Nat
      /\ b + i <= p[Place(c, k, i)].t /\ p[Place(c, k, i)].t <= b + i + d
      /\ i > 0 => p[Place(c, k, i - 1)].t < p[Place(c, k, i)].t
  BY DEF Row
<1>2. i > 0 => q[Place(c, k, i - 1)] = p[Place(c, k, i - 1)]
  <2>1. i > 0 => i - 1 \in 0..(k - 1)
    OBVIOUS
  <2>2. QED
    BY <2>1
<1>3. PICK t : t = p[Place(c, k, i)].t
  OBVIOUS
<1>4. t \in Nat /\ t <= b + i + d
  BY <1>1, <1>3
<1>5. t <= b + i + e
  BY <1>4
<1>6. QED
  BY <1>1, <1>2, <1>3, <1>5

LEMMA RowsStay ==
    ASSUME NEW p, NEW c, NEW k \in Nat, NEW life, NEW b \in Int, NEW d \in Nat, NEW e \in Nat,
           d <= e, Row(p, c, k, life, b, d)
    PROVE  Row(p, c, k, life, b, e)
  BY RowStays

LEMMA SourceKeepsOrder ==
    ASSUME SgTypes, SgTypes', LifeRuns, NEW s \in Sources, s = ui.mode, SourceStep(s),
           NEW c \in Channels, NEW b \in Int, InOrder(c, b)
    PROVE  /\ InOrder(c, b)' /\ dropped'[c] >= dropped[c]
           /\ Used(c)' >= Used(c) /\ Used(c) \in Nat /\ Used(c)' \in Nat
<1>1. PICK x, y : x = src[s] /\ y = src'[s]
  OBVIOUS
<1>2. /\ Running = x /\ Running' = y /\ lives' = lives /\ x \in SourceStates
      /\ x.t \in Nat /\ x.n \in Nat /\ x.ch \in Channels /\ x.ch \in Nat /\ c \in Nat
  <2>1. Running = x /\ Running' = y /\ lives' = lives
    BY <1>1 DEF Running, SourceStep, owner, history
  <2>2. x \in SourceStates
    BY <1>1 DEF SgTypes, SourceTypes
  <2>3. QED
    BY <2>1, <2>2 DEF SourceStates, Channels
<1>3. PICK u \in Nat : u = Used(c)
  BY ItemTypes
<1>4. dropped[c] \in Nat /\ dropped \in [Channels -> Nat] /\ Uncounted(c) \in Nat /\ Made(c) \in Nat
  BY CountTypes DEF Counts, CountsAre, SgTypes, RingTypes
<1>5. UNCHANGED rings => RingKept(c)
  BY UntouchedRing DEF rings
<1>6. RingKept(c) => Used(c)' = u
  BY <1>3 DEF RingKept
<1>7. CASE x.pc = "run" /\ y.pc \in {"none", "push"} /\ (y.pc = "push" => y.ch = 1) /\ y.t = x.t
           /\ UNCHANGED <<rings, dropped>>
  <2>1. Made(c)' = Made(c) /\ Uncounted(c)' = Uncounted(c)
    BY <1>2, <1>7 DEF Made, MadeBy, Uncounted, UncountedBy, Offered, Channels
  <2>2. InOrder(c, b)'
    BY <1>2, <1>4, <1>5, <1>7, <2>1, OrderStays
  <2>3. QED
    BY <1>3, <1>4, <1>5, <1>6, <1>7, <2>2
<1>8. CASE x.pc = "record" /\ UNCHANGED rings /\ y.pc \in {"push", "run"}
           /\ (y.pc = "push" => y.ch = x.ch + 1 /\ y.n = x.n /\ y.t = x.t)
           /\ (y.pc = "run" => ~(x.ch < NumChannels) /\ y.t = x.t + x.n)
           /\ dropped' = [dropped EXCEPT ![x.ch] = @ + x.n - x.pushed]
  <2>1. Made(c)' = Made(c)
    <3>1. y.pc = "run" => c <= x.ch
      BY <1>2, <1>8, SgAssumption DEF Channels
    <3>2. QED
      BY <1>2, <1>8, <3>1 DEF Made, MadeBy, Offered
  <2>2. Uncounted(c)' = 0
    BY <1>2, <1>8 DEF Uncounted, UncountedBy
  <2>3. x.pushed \in Nat /\ x.pushed <= x.n
    BY <1>1, <1>2, <1>8 DEF SgTypes, SourceTypes, SourceStates
  <2>4. dropped'[c] >= dropped[c] /\ dropped'[c] + Uncounted(c)' >= dropped[c] + Uncounted(c)
    <3>1. CASE c = x.ch
      <4>1. dropped'[c] = dropped[c] + x.n - x.pushed
        BY <1>4, <1>8, <3>1
      <4>2. Uncounted(c) = x.n - x.pushed
        BY <1>2, <1>8, <3>1 DEF Uncounted, UncountedBy
      <4>3. QED
        BY <1>2, <1>4, <2>2, <2>3, <4>1, <4>2
    <3>2. CASE c # x.ch
      <4>1. dropped'[c] = dropped[c]
        BY <1>4, <1>8, <3>2
      <4>2. Uncounted(c) = 0
        BY <1>2, <1>8, <3>2 DEF Uncounted, UncountedBy
      <4>3. QED
        BY <1>4, <2>2, <4>1, <4>2
    <3>3. QED
      BY <3>1, <3>2
  <2>5. InOrder(c, b)'
    BY <1>2, <1>5, <1>8, <2>1, <2>4, OrderStays
  <2>6. QED
    BY <1>3, <1>5, <1>6, <1>8, <2>4, <2>5
<1>9. CASE SourcePush(s) /\ x.pc = "push" /\ y.pc = "record" /\ y.ch = x.ch /\ y.n = x.n
           /\ y.t = x.t /\ y.pushed = Least(x.n, Free(x.ch)) /\ dropped' = dropped
  <2>1. CASE c # x.ch
    <3>1. RingKept(c)
      BY <1>1, <1>9, <2>1, PushRing
    <3>2. Made(c)' = Made(c) /\ Uncounted(c)' = Uncounted(c)
      BY <1>2, <1>9, <2>1 DEF Made, MadeBy, Uncounted, UncountedBy, Offered
    <3>3. InOrder(c, b)'
      BY <1>2, <1>4, <1>9, <3>1, <3>2, OrderStays
    <3>4. QED
      BY <1>3, <1>4, <1>6, <1>9, <3>1, <3>3
  <2>2. CASE c = x.ch
    <3>1. PICK k : k = Least(x.n, Free(c))
      OBVIOUS
    <3>2. /\ k \in Nat /\ k <= x.n /\ Used(c)' = u + k
          /\ \A i \in 0..(u - 1) : Item(c, i)' = Item(c, i)
          /\ \A j \in 0..(k - 1) : Item(c, u + j)' = Cell(x, j)
      <4>1. SourcePush(s) /\ x = src[s] /\ c = x.ch /\ k = Least(x.n, Free(c)) /\ u = Used(c)
        BY <1>1, <1>3, <1>9, <2>2, <3>1
      <4>2. k \in Nat /\ k <= x.n /\ RingPushed(c, u, k, x)
        BY <4>1, PushRing
      <4>3. QED
        BY <4>2 DEF RingPushed
    <3>3. /\ Made(c) = x.t /\ Made(c)' = x.t + x.n
          /\ Uncounted(c) = 0 /\ Uncounted(c)' = x.n - k
      BY <1>2, <1>9, <2>2, <3>1 DEF Made, MadeBy, Uncounted, UncountedBy, Offered
    <3>4. /\ b + u <= x.t /\ x.t <= b + u + dropped[c]
          /\ \A i \in 0..(u - 1) :
                /\ Item(c, i).life = lives /\ Item(c, i).t \in Nat
                /\ b + i <= Item(c, i).t /\ Item(c, i).t <= b + i + dropped[c]
                /\ Item(c, i).t < x.t
                /\ i > 0 => Item(c, i - 1).t < Item(c, i).t
      BY <1>3, <1>4, <3>3, ItemTypes DEF InOrder, Samples
    <3>5. \A j \in 0..(k - 1) : Cell(x, j).life = lives /\ Cell(x, j).t = x.t + j
      BY <1>2 DEF Cell, LifeRuns
    <3>6. ASSUME NEW i \in 0..(u + k - 1)
          PROVE  /\ Item(c, i)'.life = lives
                 /\ b + i <= Item(c, i)'.t /\ Item(c, i)'.t <= b + i + dropped[c]
                 /\ Item(c, i)'.t < x.t + x.n
                 /\ i > 0 => Item(c, i - 1)'.t < Item(c, i)'.t
      <4>1. CASE i \in 0..(u - 1)
        <5>1. Item(c, i)' = Item(c, i) /\ (i > 0 => Item(c, i - 1)' = Item(c, i - 1))
          BY <3>2, <4>1
        <5>2. Item(c, i).t \in Nat /\ Item(c, i).t < x.t
          BY <3>4, <4>1
        <5>3. Item(c, i).t < x.t + x.n
          BY <1>2, <5>2
        <5>4. QED
          BY <3>4, <4>1, <5>1, <5>3
      <4>2. CASE i \notin 0..(u - 1)
        <5>1. PICK j \in 0..(k - 1) : i = u + j
          <6>1. i - u \in 0..(k - 1) /\ i = u + (i - u)
            BY <3>2, <4>2
          <6>2. QED
            BY <6>1
        <5>2. Item(c, i)' = Cell(x, j)
          BY <3>2, <5>1
        <5>3. Item(c, i)'.life = lives /\ Item(c, i)'.t = x.t + j
          BY <3>5, <5>2
        <5>4. i > 0 => Item(c, i - 1)'.t < x.t + j
          <6>1. CASE j = 0
            <7>1. i > 0 => i - 1 \in 0..(u - 1) /\ Item(c, i - 1)' = Item(c, i - 1)
              BY <3>2, <5>1, <6>1
            <7>2. i > 0 => Item(c, i - 1)'.t < x.t
              BY <3>4, <7>1
            <7>3. QED
              BY <1>2, <6>1, <7>2
          <6>2. CASE j > 0
            <7>1. j - 1 \in 0..(k - 1) /\ i - 1 = u + (j - 1)
              BY <3>2, <5>1, <6>2
            <7>2. Item(c, i - 1)' = Cell(x, j - 1)
              BY <3>2, <7>1
            <7>3. Item(c, i - 1)'.t = x.t + (j - 1)
              BY <3>5, <7>1, <7>2
            <7>4. QED
              BY <1>2, <7>3
          <6>3. QED
            BY <6>1, <6>2
        <5>5. b + i <= x.t + j /\ x.t + j <= b + i + dropped[c] /\ x.t + j < x.t + x.n
          BY <1>2, <1>4, <3>2, <3>4, <5>1
        <5>6. QED
          BY <5>3, <5>4, <5>5
      <4>3. QED
        BY <4>1, <4>2
    <3>7. b + (u + k) <= x.t + x.n /\ x.t + x.n <= b + (u + k) + dropped[c] + (x.n - k)
      BY <1>2, <1>4, <3>2, <3>4
    <3>8. InOrder(c, b)'
      <4>1. dropped'[c] = dropped[c] /\ lives' = lives
        BY <1>2, <1>9
      <4>2. QED
        BY <3>2, <3>3, <3>6, <3>7, <4>1 DEF InOrder
    <3>9. QED
      BY <1>3, <1>4, <1>9, <3>2, <3>8
  <2>3. QED
    BY <2>1, <2>2
<1>10. QED
  BY <1>1, <1>7, <1>8, <1>9, SourceGoes

LEMMA SourceGoesTail ==
    ASSUME SgTypes, NEW s \in Sources, SourceStep(s)
    PROVE  tail' = tail
  BY DEF SourceStep, rings, SourcePush, SourceRecord

LEMMA SourceKeepsFlow ==
    ASSUME SgTypes, SgTypes', SwitchInv, FlowInv, NEW s \in Sources, SourceStep(s)
    PROVE  FlowInv'
<1>1. s = ui.mode /\ mn.pc \notin {"flush", "flushStore", "start"}
  <2>1. src[s].pc # "none"
    BY SourceMoves
  <2>2. QED
    BY <2>1 DEF SwitchInv, Alone
<1>2. UNCHANGED <<sd, payload, frame, mn, ui, lives, torn, blockSize>>
  BY DEF SourceStep, sending, owner, history, shared
<1>3. LifeRuns'
  <2>1. src'[s].life = src[s].life
    BY SourceGoes
  <2>2. QED
    BY <1>1, <1>2, <2>1 DEF FlowInv, LifeRuns, Running
<1> SUFFICES ASSUME Aligned PROVE Aligned'
  BY <1>2, <1>3 DEF FlowInv
<1>5. \A c \in Channels : ~Flushed(c) /\ Flushed(c)' = Flushed(c) /\ Popped(c)' = Popped(c)
                          /\ Copied(c)' = Copied(c)
  BY <1>1, <1>2 DEF Flushed, Popped, Copied, Whole, Popping
<1>6. PICK b \in Int : Follows(b)
  BY DEF Aligned
<1>7. ASSUME NEW c \in Channels
      PROVE  /\ \E e \in Int : e = b + Popped(c) /\ InOrder(c, e)'
             /\ dropped'[c] >= dropped[c] /\ Used(c)' >= Used(c)
             /\ Used(c) \in Nat /\ Used(c)' \in Nat
  <2>1. PICK e \in Int : e = b + Popped(c) /\ InOrder(c, e)
    BY <1>5, <1>6 DEF Follows, RingsFollow
  <2>2. QED
    BY <1>1, <2>1, SourceKeepsOrder DEF FlowInv
<1>8. \A c \in Channels : dropped[c] \in Nat /\ dropped'[c] \in Nat
  BY DEF SgTypes, RingTypes
<1>9. sd.block \in Nat
  BY DEF SgTypes, SenderTypes
<1>10. RingsFollow(b)'
  BY <1>5, <1>7 DEF RingsFollow
<1>11. FrameGrows(b)'
  <2> SUFFICES ASSUME Popping, NEW c \in Channels, Copied(c)
               PROVE  Row(payload, c, sd.block, lives, b, dropped'[c])
    BY <1>2, <1>5 DEF FrameGrows, Popping
  <2>1. Row(payload, c, sd.block, lives, b, dropped[c])
    BY <1>6 DEF Follows, FrameGrows
  <2>2. QED
    BY <1>7, <1>8, <1>9, <2>1, RowsStay
<1>12. FrameIsWhole'
  <2> SUFFICES ASSUME Whole PROVE \E l \in Int, life \in Nat : WholeFrom(l, life)'
    BY <1>2 DEF FrameIsWhole, Whole
  <2>1. PICK l \in Int, life \in Nat : WholeFrom(l, life)
    BY DEF Aligned, FrameIsWhole
  <2>2. ASSUME NEW c \in Channels PROVE Row(payload, c, sd.block, life, l, dropped'[c])
    <3>1. Row(payload, c, sd.block, life, l, dropped[c])
      BY <2>1 DEF WholeFrom
    <3>2. QED
      BY <1>7, <1>8, <1>9, <3>1, RowsStay
  <2>3. WholeFrom(l, life)'
    BY <1>2, <2>1, <2>2 DEF WholeFrom
  <2>4. QED
    BY <2>3
<1>13. FrameIsSent' = FrameIsSent
  BY <1>2 DEF FrameIsSent, FrameSent, SentFrom
<1>14. FlushedIsEmpty'
  BY <1>1, <1>2, <1>5 DEF FlushedIsEmpty
<1>15. StillReady'
  <2>1. tail' = tail
    BY SourceGoesTail
  <2>2. sd \in [pc : SenderPlaces, ch : Channels, block : Nat, newTail : Slot, total : Nat]
    BY DEF SgTypes, SenderTypes
  <2>3. \A c \in Channels : Used(c) >= sd.block => Used(c)' >= sd.block
    BY <1>7, <1>9
  <2>4. QED
    BY <1>2, <2>1, <2>3 DEF StillReady, Popping, Whole, Aligned
<1>16. QED
  BY <1>2, <1>6, <1>10, <1>11, <1>12, <1>13, <1>14, <1>15 DEF Aligned, Follows

-----------------------------------------------------------------------------
(* The sender.                                                               *)
LEMMA BlocksFit ==
    ASSUME NEW k \in Blocks
    PROVE  k \in Nat /\ k >= 1 /\ k <= MaxBlock
  BY SgAssumption

LEMMA SameOrder ==
    ASSUME NEW c, NEW e, UNCHANGED <<head, tail, buf, dropped, lives>>,
           Made(c)' = Made(c), Uncounted(c)' = Uncounted(c)
    PROVE  InOrder(c, e)' = InOrder(c, e)
  BY DEF InOrder, Item, Used

LEMMA SenderFixes ==
    ASSUME SenderStep
    PROVE  /\ UNCHANGED <<head, buf, dropped, src, mn, ui, lives, torn, blockSize, Running>>
           /\ \A c : Made(c)' = Made(c) /\ Uncounted(c)' = Uncounted(c)
                     /\ Flushed(c)' = Flushed(c)
<1>1. UNCHANGED <<head, buf, dropped, src, mn, ui, lives, torn, blockSize>>
  BY DEF SenderStep, owner, history
<1>2. Running' = Running
  BY <1>1 DEF Running
<1>3. QED
  BY <1>1, <1>2 DEF Made, Uncounted, Flushed

SenderRecords == [pc : SenderPlaces, ch : Channels, block : Nat, newTail : Slot, total : Nat]

LEMMA ReadyKeepsFlow ==
    ASSUME SgTypes, Aligned, SenderStep, SenderReady
    PROVE  Aligned'
<1>1. /\ UNCHANGED <<head, buf, dropped, src, mn, ui, lives, torn, blockSize, Running>>
      /\ \A c : Made(c)' = Made(c) /\ Uncounted(c)' = Uncounted(c)
                /\ Flushed(c)' = Flushed(c)
  BY SenderFixes
<1>2. UNCHANGED <<tail, payload, frame>> /\ sd.pc = "top"
      /\ \A c \in Channels : Used(c) >= blockSize
  BY DEF SenderReady
<1>3. sd \in SenderRecords /\ blockSize \in Blocks /\ 1 \in Channels
  BY SgAssumption DEF SgTypes, SenderTypes, MainTypes, SenderRecords, Channels
<1>4. sd' = [[[sd EXCEPT !.pc = "pop"] EXCEPT !.ch = 1] EXCEPT !.block = blockSize]
  BY <1>3 DEF SenderReady
<1>5. sd'.pc = "pop" /\ sd'.ch = 1 /\ sd'.block = blockSize /\ sd'.total = sd.total
  BY <1>3, <1>4 DEF SenderRecords
<1>6. \A c \in Channels : Used(c)' = Used(c)
  BY <1>1, <1>2 DEF Used
<1>7. \A c \in Channels : Popped(c) = 0 /\ Popped(c)' = 0 /\ ~Copied(c)'
  <2>1. \A c \in Channels : ~(c < 1)
    BY DEF Channels
  <2>2. QED
    BY <1>2, <1>5, <2>1 DEF Popped, Copied, Whole, Popping
<1>8. PICK b \in Int : Follows(b)
  BY DEF Aligned
<1>9. RingsFollow(b)'
  <2> SUFFICES ASSUME NEW c \in Channels, ~Flushed(c)
               PROVE  \E e \in Int : e = b + Popped(c)' /\ InOrder(c, e)'
    BY <1>1 DEF RingsFollow
  <2>1. PICK e \in Int : e = b + Popped(c) /\ InOrder(c, e)
    BY <1>8 DEF Follows, RingsFollow
  <2>2. InOrder(c, e)'
    BY <1>1, <1>2, <2>1, SameOrder
  <2>3. QED
    BY <1>7, <2>1, <2>2
<1>10. FrameGrows(b)'
  BY <1>7 DEF FrameGrows
<1>11. FlushedIsEmpty'
  BY <1>1, <1>6 DEF FlushedIsEmpty, Aligned
<1>12. StillReady'
  BY <1>2, <1>3, <1>5, <1>6 DEF StillReady, Popping, Whole
<1>13. FrameIsWhole' /\ FrameIsSent'
  BY <1>5 DEF FrameIsWhole, FrameIsSent, Whole, FrameSent
<1>14. QED
  BY <1>1, <1>5, <1>8, <1>9, <1>10, <1>11, <1>12, <1>13 DEF Aligned, Follows

(* The block popped is copied to its channel's place in the frame.           *)
LEMMA CopyKeepsFlow ==
    ASSUME SgTypes, Aligned, SenderStep, PopCopy
    PROVE  Aligned'
<1>1. /\ UNCHANGED <<head, buf, dropped, src, mn, ui, lives, torn, blockSize, Running>>
      /\ \A c : Made(c)' = Made(c) /\ Uncounted(c)' = Uncounted(c)
                /\ Flushed(c)' = Flushed(c)
  BY SenderFixes
<1>2. UNCHANGED <<tail, frame>> /\ sd.pc = "pop"
  BY DEF PopCopy
<1>3. sd \in SenderRecords /\ payload \in [Cells -> Samples]
  BY DEF SgTypes, SenderTypes, SenderRecords
<1>4. PICK c, k : c = sd.ch /\ k = sd.block
  OBVIOUS
<1>5. /\ c \in Channels /\ k \in Blocks /\ k \in Nat /\ k >= 1 /\ k <= MaxBlock
      /\ Used(c) \in Nat /\ Used(c) >= k
  <2>1. c \in Channels /\ k \in Blocks
    BY <1>2, <1>3, <1>4 DEF Aligned, StillReady, Popping, SenderRecords
  <2>2. Used(c) >= k
    <3>1. \A d \in Channels : d >= sd.ch => Used(d) >= sd.block
      BY <1>2 DEF Aligned, StillReady, Popping
    <3>2. QED
      BY <1>4, <2>1, <3>1 DEF Channels
  <2>3. QED
    BY <2>1, <2>2, BlocksFit, ItemTypes
<1>6. Least(k, Used(c)) = k /\ k # 0
  BY <1>5 DEF Least
<1> DEFINE at == (c - 1) * k
<1>7. /\ payload' = [i \in Cells |-> IF i \in at..(at + k - 1)
                                     THEN buf[c][Wrap(tail[c] + i - at)] ELSE payload[i]]
      /\ sd' = [[sd EXCEPT !.pc = "store"] EXCEPT !.newTail = Wrap(tail[c] + k)]
  <2>1. /\ payload' = [i \in Cells |-> IF i \in at..(at + Least(k, Used(c)) - 1)
                                       THEN buf[c][Wrap(tail[c] + i - at)] ELSE payload[i]]
        /\ Least(k, Used(c)) # 0 => sd' = [sd EXCEPT !.pc = "store",
                                                     !.newTail = Wrap(tail[c] + Least(k, Used(c)))]
    BY <1>4 DEF PopCopy
  <2>2. QED
    BY <1>3, <1>6, <2>1
<1>8. /\ sd'.pc = "store" /\ sd'.ch = c /\ sd'.block = k /\ sd'.total = sd.total
      /\ sd'.newTail = Wrap(tail[c] + k)
  BY <1>3, <1>4, <1>7 DEF SenderRecords
<1>9. \A d \in Channels : Used(d)' = Used(d) /\ Popped(d)' = Popped(d)
  BY <1>1, <1>2, <1>4, <1>8 DEF Used, Popped, Popping, Whole
<1>10. PICK b \in Int : Follows(b)
  BY DEF Aligned
<1>11. RingsFollow(b)'
  <2> SUFFICES ASSUME NEW d \in Channels, ~Flushed(d)
               PROVE  \E e \in Int : e = b + Popped(d)' /\ InOrder(d, e)'
    BY <1>1 DEF RingsFollow
  <2>1. PICK e \in Int : e = b + Popped(d) /\ InOrder(d, e)
    BY <1>10 DEF Follows, RingsFollow
  <2>2. InOrder(d, e)'
    BY <1>1, <1>2, <2>1, SameOrder
  <2>3. QED
    BY <1>9, <2>1, <2>2
<1>12. ASSUME NEW d \in Channels, d < c PROVE Row(payload', d, k, lives, b, dropped[d])
  <2>1. Row(payload, d, k, lives, b, dropped[d])
    BY <1>2, <1>4, <1>10, <1>12 DEF Follows, FrameGrows, Popping, Copied
  <2>2. \A i \in 0..(k - 1) : Place(d, k, i) \in Cells /\ Place(d, k, i) \notin at..(at + k - 1)
    BY <1>5, <1>12, PlacesApart
  <2> HIDE DEF at
  <2>3. \A i \in 0..(k - 1) : payload'[Place(d, k, i)] = payload[Place(d, k, i)]
    BY <1>7, <2>2
  <2>4. dropped[d] \in Nat
    BY DEF SgTypes, RingTypes
  <2>5. QED
    BY <1>5, <2>1, <2>3, <2>4, RowStays
<1>13. Row(payload', c, k, lives, b, dropped[c])
  <2>1. ~Flushed(c)
    BY <1>5 DEF Aligned, FlushedIsEmpty
  <2>2. Popped(c) = 0
    BY <1>2, <1>4, <1>5 DEF Popped, Whole, Popping, Channels
  <2>3. InOrder(c, b)
    <3>1. PICK e \in Int : e = b + Popped(c) /\ InOrder(c, e)
      BY <1>5, <1>10, <2>1 DEF Follows, RingsFollow
    <3>2. e = b
      BY <2>2, <3>1
    <3>3. QED
      BY <3>1, <3>2
  <2>4. ASSUME NEW i \in 0..(k - 1) PROVE payload'[Place(c, k, i)] = Item(c, i)
    <3>1. PICK j : j = Place(c, k, i)
      OBVIOUS
    <3>2. j \in Cells /\ j \in at..(at + k - 1) /\ j - at = i
      BY <1>5, <3>1, PlacesApart
    <3>3. at \in Int /\ j \in Int /\ tail[c] \in Int
      BY <1>5, <3>1 DEF Place, Channels, SgTypes, RingTypes, Slot
    <3> HIDE DEF at
    <3>4. payload'[j] = buf[c][Wrap(tail[c] + j - at)]
      BY <1>7, <3>2
    <3>5. tail[c] + j - at = tail[c] + i
      BY <3>2, <3>3
    <3>6. QED
      BY <3>1, <3>4, <3>5 DEF Item
  <2>5. \A i \in 0..(k - 1) :
           /\ Item(c, i).life = lives /\ Item(c, i).t \in Nat
           /\ b + i <= Item(c, i).t /\ Item(c, i).t <= b + i + dropped[c]
           /\ i > 0 => Item(c, i - 1).t < Item(c, i).t
    BY <1>5, <2>3, ItemTypes DEF InOrder, Samples
  <2>6. \A i \in 0..(k - 1) : i > 0 => i - 1 \in 0..(k - 1)
    BY ONLY <1>5
  <2>7. QED
    BY <2>4, <2>5, <2>6 DEF Row
<1>14. FrameGrows(b)'
  <2>1. \A d \in Channels : Copied(d)' => d < c \/ d = c
    BY <1>8 DEF Copied
  <2>2. QED
    BY <1>1, <1>8, <1>12, <1>13, <2>1 DEF FrameGrows
<1>15. FlushedIsEmpty'
  BY <1>1, <1>9 DEF FlushedIsEmpty, Aligned
<1>16. StillReady'
  BY <1>2, <1>4, <1>5, <1>8, <1>9 DEF StillReady, Popping, Whole, Aligned
<1>17. FrameIsWhole' /\ FrameIsSent'
  BY <1>8 DEF FrameIsWhole, FrameIsSent, Whole, FrameSent
<1>18. QED
  BY <1>1, <1>8, <1>10, <1>11, <1>14, <1>15, <1>16, <1>17 DEF Aligned, Follows

(* A ring whose first block goes has its order from a block later on.        *)
LEMMA OrderPopped ==
    ASSUME SgTypes, NEW c \in Channels, NEW e \in Int, InOrder(c, e), NEW k \in Nat, Used(c) >= k,
           Used(c)' = Used(c) - k, \A i \in 0..(Used(c) - k - 1) : Item(c, i)' = Item(c, k + i),
           UNCHANGED <<dropped, lives>>, Made(c)' = Made(c), Uncounted(c)' = Uncounted(c)
    PROVE  InOrder(c, e + k)'
<1>1. PICK u \in Nat : u = Used(c)
  BY ItemTypes
<1>2. Used(c)' = u - k /\ \A i \in 0..(u - k - 1) : Item(c, i)' = Item(c, k + i)
  BY <1>1
<1>3. /\ e + u <= Made(c) /\ Made(c) <= e + u + dropped[c] + Uncounted(c)
      /\ \A i \in 0..(u - 1) :
            /\ Item(c, i).life = lives /\ Item(c, i).t \in Nat
            /\ e + i <= Item(c, i).t /\ Item(c, i).t <= e + i + dropped[c]
            /\ Item(c, i).t < Made(c)
            /\ i > 0 => Item(c, i - 1).t < Item(c, i).t
  BY <1>1, ItemTypes DEF InOrder, Samples
<1>4. Made(c) \in Nat /\ Uncounted(c) \in Nat /\ dropped[c] \in Nat
  BY CountTypes DEF Counts, CountsAre
<1>5. ASSUME NEW i \in 0..(u - k - 1)
      PROVE  /\ Item(c, i)'.life = lives
             /\ (e + k) + i <= Item(c, i)'.t /\ Item(c, i)'.t <= (e + k) + i + dropped[c]
             /\ Item(c, i)'.t < Made(c)
             /\ i > 0 => Item(c, i - 1)'.t < Item(c, i)'.t
  <2>1. PICK j : j = k + i
    OBVIOUS
  <2>2. j \in 0..(u - 1) /\ Item(c, i)' = Item(c, j) /\ e + j = (e + k) + i
    BY <1>1, <1>2, <2>1
  <2>3. i > 0 => i - 1 \in 0..(u - k - 1) /\ k + (i - 1) = j - 1 /\ j > 0
    BY <1>1, <2>1
  <2>4. i > 0 => Item(c, i - 1)' = Item(c, j - 1) /\ j > 0
    <3> SUFFICES ASSUME i > 0 PROVE Item(c, i - 1)' = Item(c, j - 1) /\ j > 0
      OBVIOUS
    <3>1. Item(c, i - 1)' = Item(c, k + (i - 1))
      BY <1>2, <2>3
    <3>2. QED
      BY <2>3, <3>1
  <2>5. /\ Item(c, j).life = lives /\ e + j <= Item(c, j).t
        /\ Item(c, j).t <= e + j + dropped[c] /\ Item(c, j).t < Made(c)
        /\ j > 0 => Item(c, j - 1).t < Item(c, j).t
    BY <1>3, <2>2
  <2>6. QED
    BY <2>2, <2>4, <2>5
<1>6. (e + k) + (u - k) <= Made(c) /\ Made(c) <= (e + k) + (u - k) + dropped[c] + Uncounted(c)
  BY <1>1, <1>3, <1>4
<1>7. QED
  BY <1>2, <1>5, <1>6 DEF InOrder

LEMMA StoreKeepsFlow ==
    ASSUME SgTypes, SgTypes', Aligned, LifeRuns, SenderStep, PopStore
    PROVE  Aligned'
<1>1. /\ UNCHANGED <<head, buf, dropped, src, mn, ui, lives, torn, blockSize, Running>>
      /\ \A c : Made(c)' = Made(c) /\ Uncounted(c)' = Uncounted(c)
                /\ Flushed(c)' = Flushed(c)
  BY SenderFixes
<1>2. UNCHANGED <<payload, frame>> /\ sd.pc = "store"
  BY DEF PopStore
<1>3. sd \in SenderRecords
  BY DEF SgTypes, SenderTypes, SenderRecords
<1>4. PICK c, k : c = sd.ch /\ k = sd.block
  OBVIOUS
<1>5. /\ c \in Channels /\ k \in Blocks /\ k \in Nat /\ k >= 1
      /\ Used(c) \in Nat /\ Used(c) >= k /\ sd.newTail = Wrap(tail[c] + k)
      /\ c \in Nat /\ NumChannels \in Nat /\ c <= NumChannels
      /\ \A d \in Channels : d \in Nat /\ d <= NumChannels
  <2>1. c \in Channels /\ k \in Blocks /\ sd.newTail = Wrap(tail[c] + k)
    BY <1>2, <1>3, <1>4 DEF Aligned, StillReady, Popping, SenderRecords
  <2>2. Used(c) >= k
    <3>1. \A d \in Channels : d >= sd.ch => Used(d) >= sd.block
      BY <1>2 DEF Aligned, StillReady, Popping
    <3>2. QED
      BY <1>4, <2>1, <3>1 DEF Channels
  <2>3. QED
    BY <2>1, <2>2, BlocksFit, ItemTypes, SgAssumption DEF Channels
<1>6. /\ Used(c)' = Used(c) - k
      /\ \A i \in 0..(Used(c) - k - 1) : Item(c, i)' = Item(c, k + i)
      /\ \A d \in Channels : d # c => RingKept(d)
  <2>1. tail' = [tail EXCEPT ![c] = Wrap(tail[c] + k)]
    BY <1>4, <1>5 DEF PopStore
  <2>2. k \in 0..Used(c)
    BY <1>5
  <2>3. QED
    BY <1>1, <1>5, <2>1, <2>2, PopRing
<1>7. /\ sd'.block = k /\ sd'.total = sd.total
      /\ c = NumChannels => sd'.pc = "send" /\ sd'.ch = c
      /\ c # NumChannels => sd'.pc = "pop" /\ sd'.ch = c + 1
  <2>1. CASE c = NumChannels
    <3>1. sd' = [[sd EXCEPT !.pc = "send"] EXCEPT !.newTail = 0]
      BY <1>3, <1>4, <2>1 DEF PopStore, NextPop
    <3>2. QED
      BY <1>3, <1>4, <2>1, <3>1 DEF SenderRecords
  <2>2. CASE c # NumChannels
    <3>1. sd' = [[[sd EXCEPT !.pc = "pop"] EXCEPT !.newTail = 0] EXCEPT !.ch = c + 1]
      BY <1>3, <1>4, <2>2 DEF PopStore, NextPop
    <3>2. QED
      BY <1>3, <1>4, <2>2, <3>1 DEF SenderRecords
  <2>3. QED
    BY <2>1, <2>2
<1>8. \A d \in Channels : /\ d # c => Popped(d)' = Popped(d)
                          /\ Popped(c) = 0 /\ Popped(c)' = k
  <2>1. \A d \in Channels : Popped(d) = IF d < c THEN k ELSE 0
    BY <1>2, <1>4 DEF Popped, Popping, Whole
  <2>2. \A d \in Channels : Popped(d)' = IF d <= c THEN k ELSE 0
    <3>1. CASE c = NumChannels
      BY <1>5, <1>7, <3>1 DEF Popped, Popping, Whole
    <3>2. CASE c # NumChannels
      <4>1. \A d \in Channels : d < c + 1 <=> d <= c
        BY <1>5
      <4>2. QED
        BY <1>7, <3>2, <4>1 DEF Popped, Popping, Whole
    <3>3. QED
      BY <3>1, <3>2
  <2>3. QED
    BY <1>5, <2>1, <2>2
<1>9. PICK b \in Int : Follows(b)
  BY DEF Aligned
<1>10. RingsFollow(b)'
  <2> SUFFICES ASSUME NEW d \in Channels, ~Flushed(d)
               PROVE  \E e \in Int : e = b + Popped(d)' /\ InOrder(d, e)'
    BY <1>1 DEF RingsFollow
  <2>1. PICK e \in Int : e = b + Popped(d) /\ InOrder(d, e)
    BY <1>9 DEF Follows, RingsFollow
  <2>2. CASE d # c
    <3>1. dropped'[d] >= dropped[d]
          /\ dropped'[d] + Uncounted(d)' >= dropped[d] + Uncounted(d)
      BY <1>1, CountTypes DEF Counts, CountsAre
    <3>2. InOrder(d, e)'
      BY <1>1, <1>6, <2>1, <2>2, <3>1, OrderStays
    <3>3. QED
      BY <1>8, <2>1, <2>2, <3>2
  <2>3. CASE d = c
    <3>1. InOrder(c, e + k)'
      BY <1>1, <1>5, <1>6, <2>1, <2>3, OrderPopped
    <3>2. e + k \in Int /\ e + k = b + Popped(d)'
      BY <1>5, <1>8, <2>1, <2>3
    <3>3. QED
      BY <2>3, <3>1, <3>2
  <2>4. QED
    BY <2>2, <2>3
<1>11. \A d \in Channels : d <= c => Row(payload, d, k, lives, b, dropped[d])
  <2>1. \A d \in Channels : d <= c => Copied(d)
    BY <1>2, <1>4, <1>5 DEF Copied
  <2>2. QED
    BY <1>2, <1>4, <1>9, <2>1 DEF Follows, FrameGrows, Popping
<1>12. FrameGrows(b)'
  <2>1. \A d \in Channels : Popping' /\ Copied(d)' => d <= c
    BY <1>5, <1>7 DEF Copied, Popping
  <2>2. QED
    BY <1>1, <1>2, <1>7, <1>11, <2>1 DEF FrameGrows
<1>13. FrameIsWhole'
  <2> SUFFICES ASSUME Whole' PROVE WholeFrom(b, lives)'
    BY <1>1 DEF FrameIsWhole, SgTypes, MainTypes
  <2>1. c = NumChannels
    BY <1>7 DEF Whole
  <2>2. lives = 1 => b = sd.total
    BY <1>9 DEF Follows
  <2>3. \A d \in Channels : Row(payload, d, k, lives, b, dropped[d])
    BY <1>5, <1>11, <2>1
  <2>4. QED
    BY <1>1, <1>2, <1>7, <2>2, <2>3 DEF WholeFrom
<1>14. FrameIsSent'
  BY <1>7 DEF FrameIsSent, FrameSent
<1>15. \A d \in Channels : d # c => Used(d)' = Used(d)
  BY <1>6 DEF RingKept
<1>16. FlushedIsEmpty'
  <2>1. ~Flushed(c)
    BY <1>5 DEF Aligned, FlushedIsEmpty
  <2>2. QED
    BY <1>1, <1>15, <2>1 DEF FlushedIsEmpty, Aligned
<1>17. StillReady'
  <2>1. \A d \in Channels : d >= sd.ch => Used(d) >= sd.block
    BY <1>2 DEF StillReady, Popping, Aligned
  <2>2. \A d \in Channels : d >= c + 1 => Used(d)' >= k
    BY <1>4, <1>5, <1>15, <2>1
  <2>3. QED
    BY <1>5, <1>7, <2>2 DEF StillReady, Popping, Whole
<1>18. QED
  BY <1>1, <1>7, <1>9, <1>10, <1>12, <1>13, <1>14, <1>16, <1>17 DEF Aligned, Follows

LEMMA SendKeepsFlow ==
    ASSUME SgTypes, Aligned, SenderStep, Send(TRUE)
    PROVE  Aligned'
<1>1. /\ UNCHANGED <<head, buf, dropped, src, mn, ui, lives, torn, blockSize, Running>>
      /\ \A c : Made(c)' = Made(c) /\ Uncounted(c)' = Uncounted(c)
                /\ Flushed(c)' = Flushed(c)
  BY SenderFixes
<1>2. UNCHANGED <<tail, payload>> /\ sd.pc = "send"
      /\ frame' = [block |-> sd.block, drops |-> TotalDropped]
  BY DEF Send
<1>3. sd \in SenderRecords /\ sd.total \in Nat /\ sd.block \in Nat
  BY DEF SgTypes, SenderTypes, SenderRecords
<1>4. sd'.pc = "top" /\ sd'.total = sd.total + sd.block
  <2>1. sd' = [[[[sd EXCEPT !.pc = "top"] EXCEPT !.ch = 1] EXCEPT !.block = 0]
               EXCEPT !.total = sd.total + sd.block]
    BY <1>3 DEF Send
  <2>2. QED
    BY <1>3, <2>1 DEF SenderRecords
<1>5. frame'.block = sd.block /\ frame'.drops = SumFunction(dropped) /\ sd.block \in Blocks
  BY <1>2 DEF TotalDropped, Aligned, StillReady, Whole
<1>6. \A c \in Channels : Used(c)' = Used(c) /\ Popped(c) = sd.block /\ Popped(c)' = 0
  BY <1>1, <1>2, <1>4 DEF Used, Popped, Popping, Whole
<1>7. PICK b \in Int : Follows(b)
  BY DEF Aligned
<1>8. PICK l \in Int : l = b + sd.block
  BY <1>3
<1>9. RingsFollow(l)'
  <2> SUFFICES ASSUME NEW c \in Channels, ~Flushed(c)
               PROVE  \E e \in Int : e = l + Popped(c)' /\ InOrder(c, e)'
    BY <1>1 DEF RingsFollow
  <2>1. PICK e \in Int : e = b + Popped(c) /\ InOrder(c, e)
    BY <1>7 DEF Follows, RingsFollow
  <2>2. InOrder(c, e)'
    BY <1>1, <1>2, <2>1, SameOrder
  <2>3. e = l + Popped(c)'
    BY <1>6, <1>8, <2>1
  <2>4. QED
    BY <2>2, <2>3
<1>10. FrameGrows(l)' /\ FrameIsWhole'
  BY <1>4 DEF FrameGrows, Popping, FrameIsWhole, Whole
<1>11. lives' = 1 => l = sd'.total
  BY <1>1, <1>3, <1>4, <1>7, <1>8 DEF Follows
<1>12. FrameIsSent'
  <2>1. PICK a \in Int, life \in Nat : WholeFrom(a, life)
    BY <1>2 DEF Aligned, FrameIsWhole, Whole
  <2>2. dropped \in [Channels -> Nat]
    BY DEF SgTypes, RingTypes
  <2>3. lives = 1 => a = sd'.total - frame'.block /\ life = 1
    BY <1>3, <1>4, <1>5, <2>1 DEF WholeFrom
  <2>4. SentFrom(a, life, dropped)'
    BY <1>1, <1>2, <1>5, <2>1, <2>3 DEF SentFrom, WholeFrom
  <2>5. PICK d \in [Channels -> Nat] : d = dropped
    BY <2>2
  <2>6. SentFrom(a, life, d)'
    BY <1>1, <2>4, <2>5 DEF SentFrom
  <2>7. QED
    BY <1>5, <2>6 DEF FrameIsSent
<1>13. FlushedIsEmpty'
  BY <1>1, <1>6 DEF FlushedIsEmpty, Aligned
<1>14. StillReady'
  BY <1>4 DEF StillReady, Popping, Whole
<1>15. QED
  BY <1>9, <1>10, <1>11, <1>12, <1>13, <1>14 DEF Aligned, Follows

LEMMA SenderKeepsFlow ==
    ASSUME SgTypes, SgTypes', FlowInv, SenderStep
    PROVE  FlowInv'
<1>1. UNCHANGED <<lives, torn, Running>>
  BY SenderFixes
<1>2. LifeRuns'
  BY <1>1 DEF FlowInv, LifeRuns
<1>3. sd \in SenderRecords
  BY DEF SgTypes, SenderTypes, SenderRecords
<1>4. SenderStops \/ Send(FALSE) => sd'.pc = "ended"
  BY <1>3 DEF SenderStops, Send, SenderRecords
<1>5. SenderReady \/ PopCopy \/ PopStore \/ Send(TRUE) => sd.pc # "ended"
  BY DEF SenderReady, PopCopy, PopStore, Send
<1>6. SenderStops \/ SenderReady \/ PopCopy \/ PopStore \/ Send(TRUE) \/ Send(FALSE)
  BY DEF SenderStep
<1>7. QED
  BY <1>1, <1>2, <1>4, <1>5, <1>6, ReadyKeepsFlow, CopyKeepsFlow, StoreKeepsFlow, SendKeepsFlow
     DEF FlowInv

-----------------------------------------------------------------------------
(* The steps that leave what flows as it is: the reader's, and the main      *)
(* thread's but for the flush and the start of a source.                     *)
FlowStays ==
    /\ UNCHANGED <<head, tail, buf, dropped, sd, payload, frame, lives, torn>>
    /\ SamePlace(Running, Running')
    /\ \A c \in Channels : ~Flushed(c) /\ ~Flushed(c)'
    /\ mn'.pc # "flushStore"

LEMMA StaysKeepsFlow ==
    ASSUME FlowInv, FlowStays
    PROVE  FlowInv'
<1>1. /\ UNCHANGED <<head, tail, buf, dropped, sd, payload, frame, lives, torn>>
      /\ \A c \in Channels : ~Flushed(c) /\ ~Flushed(c)'
      /\ mn'.pc # "flushStore"
  BY DEF FlowStays
<1>2. LifeRuns' = LifeRuns
  BY DEF FlowStays, SamePlace, LifeRuns
<1>3. \A c \in Channels : Made(c)' = Made(c) /\ Uncounted(c)' = Uncounted(c)
  BY DEF FlowStays, SamePlace, Made, MadeBy, Offered, Uncounted, UncountedBy
<1>4. \A c \in Channels : Used(c)' = Used(c) /\ Popped(c)' = Popped(c) /\ Copied(c)' = Copied(c)
  BY <1>1 DEF Used, Popped, Copied, Whole, Popping
<1> SUFFICES ASSUME Aligned PROVE Aligned'
  BY <1>1, <1>2 DEF FlowInv
<1>5. PICK b \in Int : Follows(b)
  BY DEF Aligned
<1>6. RingsFollow(b)'
  <2> SUFFICES ASSUME NEW c \in Channels
               PROVE  \E e \in Int : e = b + Popped(c)' /\ InOrder(c, e)'
    BY DEF RingsFollow
  <2>1. PICK e \in Int : e = b + Popped(c) /\ InOrder(c, e)
    BY <1>1, <1>5 DEF Follows, RingsFollow
  <2>2. InOrder(c, e)'
    BY <1>1, <1>3, <2>1, SameOrder
  <2>3. QED
    BY <1>4, <2>1, <2>2
<1>7. FrameGrows(b)' /\ (lives' = 1 => b = sd'.total)
  BY <1>1, <1>4, <1>5 DEF Follows, FrameGrows, Popping
<1>8. FrameIsWhole' /\ FrameIsSent'
  BY <1>1 DEF Aligned, FrameIsWhole, FrameIsSent, Whole, FrameSent, WholeFrom, SentFrom
<1>9. FlushedIsEmpty' /\ StillReady'
  BY <1>1, <1>4 DEF Aligned, FlushedIsEmpty, StillReady, Popping, Whole
<1>10. QED
  BY <1>5, <1>6, <1>7, <1>8, <1>9 DEF Aligned, Follows

LEMMA StutterKeepsFlow ==
    ASSUME FlowInv,
           UNCHANGED <<head, tail, buf, dropped, sd, payload, frame, lives, torn, src, mn, ui>>
    PROVE  FlowInv'
<1>1. UNCHANGED <<head, tail, buf, dropped, sd, payload, frame, lives, torn, src, mn, ui>>
  OBVIOUS
<1>2. Running' = Running
  BY <1>1 DEF Running
<1>3. LifeRuns' = LifeRuns
  BY <1>1, <1>2 DEF LifeRuns
<1>4. \A c : /\ Made(c)' = Made(c) /\ Uncounted(c)' = Uncounted(c) /\ Used(c)' = Used(c)
             /\ Popped(c)' = Popped(c) /\ Copied(c)' = Copied(c) /\ Flushed(c)' = Flushed(c)
  BY <1>1, <1>2 DEF Made, Uncounted, Used, Popped, Copied, Flushed, Whole, Popping
<1>5. \A c, e : InOrder(c, e)' = InOrder(c, e)
  <2> SUFFICES ASSUME NEW c, NEW e PROVE InOrder(c, e)' = InOrder(c, e)
    OBVIOUS
  <2>1. QED
    BY <1>1, <1>4, SameOrder
<1>6. \A b : RingsFollow(b)' = RingsFollow(b)
  BY <1>4, <1>5 DEF RingsFollow
<1>7. \A b : FrameGrows(b)' = FrameGrows(b)
  BY <1>1, <1>4 DEF FrameGrows, Popping
<1>8. \A b : Follows(b)' = Follows(b)
  BY <1>1, <1>6, <1>7 DEF Follows
<1>9. FrameIsWhole' = FrameIsWhole /\ FrameIsSent' = FrameIsSent
  BY <1>1 DEF FrameIsWhole, FrameIsSent, Whole, FrameSent, WholeFrom, SentFrom
<1>10. FlushedIsEmpty' = FlushedIsEmpty /\ StillReady' = StillReady
  BY <1>1, <1>4 DEF FlushedIsEmpty, StillReady, Popping, Whole
<1>11. QED
  BY <1>1, <1>3, <1>8, <1>9, <1>10 DEF FlowInv, Aligned

LEMMA FlushGoes ==
    ASSUME SgTypes, mn' = NextFlush, NEW c, c = mn.ch, mn.pc \in {"flush", "flushStore"}
    PROVE  /\ mn'.pc # "flushStore"
           /\ \A d \in Channels : /\ Flushed(d) <=> d < c
                                  /\ Flushed(d)' <=> d <= c
<1>1. mn \in MainRecords /\ c \in Channels
  BY DEF SgTypes, MainTypes, MainRecords
<1>2. /\ c \in Nat /\ NumChannels \in Nat /\ c <= NumChannels
      /\ \A d \in Channels : d \in Nat /\ d <= NumChannels
  BY <1>1, SgAssumption DEF Channels
<1>3. CASE c = NumChannels
  <2>1. mn' = [[[mn EXCEPT !.pc = "start"] EXCEPT !.newTail = 0] EXCEPT !.ch = 1]
    BY <1>1, <1>3 DEF NextFlush
  <2>2. mn'.pc = "start"
    BY <1>1, <2>1 DEF MainRecords
  <2>3. QED
    BY <1>2, <1>3, <2>2 DEF Flushed
<1>4. CASE c # NumChannels
  <2>1. mn' = [[[mn EXCEPT !.pc = "flush"] EXCEPT !.newTail = 0] EXCEPT !.ch = c + 1]
    BY <1>1, <1>4 DEF NextFlush
  <2>2. mn'.pc = "flush" /\ mn'.ch = c + 1
    BY <1>1, <2>1 DEF MainRecords
  <2>3. \A d \in Channels : d < c + 1 <=> d <= c
    BY <1>2
  <2>4. QED
    BY <2>2, <2>3 DEF Flushed
<1>5. QED
  BY <1>3, <1>4

(* What the flush does not touch.                                            *)
FlushFixes ==
    /\ UNCHANGED <<head, buf, dropped, sd, payload, frame, lives, Running>>
    /\ \A c \in Channels : /\ Made(c)' = Made(c) /\ Uncounted(c)' = Uncounted(c)
                           /\ Popped(c)' = Popped(c)

LEMMA FlushKeeps ==
    ASSUME UNCHANGED <<head, buf, dropped, sd, payload, frame, lives, src, ui>>
    PROVE  /\ FlushFixes
           /\ LifeRuns' = LifeRuns /\ FrameIsWhole' = FrameIsWhole /\ FrameIsSent' = FrameIsSent
           /\ \A b : FrameGrows(b)' = FrameGrows(b)
<1>1. Running' = Running
  BY DEF Running
<1>2. \A c : Made(c)' = Made(c) /\ Uncounted(c)' = Uncounted(c) /\ Popped(c)' = Popped(c)
             /\ Copied(c)' = Copied(c)
  BY <1>1 DEF Made, Uncounted, Popped, Copied, Whole, Popping
<1>3. LifeRuns' = LifeRuns /\ FrameIsWhole' = FrameIsWhole /\ FrameIsSent' = FrameIsSent
  BY <1>1 DEF LifeRuns, FrameIsWhole, FrameIsSent, Whole, FrameSent, WholeFrom, SentFrom
<1>4. \A b : FrameGrows(b)' = FrameGrows(b)
  BY <1>2 DEF FrameGrows, Popping
<1>5. QED
  BY <1>1, <1>2, <1>3, <1>4 DEF FlushFixes

LEMMA LoadKeepsFlow ==
    ASSUME SgTypes, FlowInv, MainStep, FlushLoad
    PROVE  FlowInv'
<1>1. UNCHANGED <<head, tail, buf, dropped, sd, payload, frame, lives, torn, src, ui>>
      /\ mn.pc = "flush"
  BY DEF MainStep, FlushLoad, rings, sending
<1>2. /\ FlushFixes /\ LifeRuns' = LifeRuns
      /\ FrameIsWhole' = FrameIsWhole /\ FrameIsSent' = FrameIsSent
      /\ \A b : FrameGrows(b)' = FrameGrows(b)
  BY <1>1, FlushKeeps
<1> SUFFICES ASSUME Aligned PROVE Aligned'
  BY <1>1, <1>2 DEF FlowInv
<1>3. PICK b \in Int : Follows(b)
  BY DEF Aligned
<1>4. PICK c : c = mn.ch
  OBVIOUS
<1>5. mn \in MainRecords /\ c \in Channels
  BY <1>4 DEF SgTypes, MainTypes, MainRecords
<1>6. \A d \in Channels : Used(d)' = Used(d)
  BY <1>1 DEF Used
<1>7. FlushedIsEmpty' /\ \A d \in Channels : Flushed(d) => Flushed(d)'
  <2>1. CASE Used(c) = 0
    <3>1. mn' = NextFlush
      BY <1>4, <2>1 DEF FlushLoad
    <3>2. /\ mn'.pc # "flushStore"
          /\ \A d \in Channels : (Flushed(d) <=> d < c) /\ (Flushed(d)' <=> d <= c)
      BY <1>1, <1>4, <3>1, FlushGoes
    <3>3. \A d \in Channels : d <= c <=> d < c \/ d = c
      BY <1>5 DEF Channels
    <3>4. \A d \in Channels : Flushed(d) => Used(d) = 0
      BY DEF Aligned, FlushedIsEmpty
    <3>5. \A d \in Channels : Flushed(d)' => Used(d)' = 0
      BY <1>6, <2>1, <3>2, <3>3, <3>4
    <3>6. QED
      BY <3>2, <3>3, <3>5 DEF FlushedIsEmpty
  <2>2. CASE Used(c) # 0
    <3>1. mn' = [[mn EXCEPT !.pc = "flushStore"] EXCEPT !.newTail = head[c]]
      BY <1>4, <1>5, <2>2 DEF FlushLoad
    <3>2. mn'.pc = "flushStore" /\ mn'.newTail = head[c] /\ mn'.ch = c
      BY <1>4, <1>5, <3>1 DEF MainRecords
    <3>3. \A d \in Channels : Flushed(d)' <=> Flushed(d)
      BY <1>1, <1>4, <3>2 DEF Flushed
    <3>4. QED
      BY <1>1, <1>6, <3>2, <3>3 DEF FlushedIsEmpty, Aligned
  <2>3. QED
    BY <2>1, <2>2
<1>8. RingsFollow(b)'
  <2> SUFFICES ASSUME NEW d \in Channels, ~Flushed(d)'
               PROVE  \E e \in Int : e = b + Popped(d)' /\ InOrder(d, e)'
    BY DEF RingsFollow
  <2>1. PICK e \in Int : e = b + Popped(d) /\ InOrder(d, e)
    BY <1>3, <1>7 DEF Follows, RingsFollow
  <2>2. InOrder(d, e)'
    BY <1>1, <1>2, <2>1, SameOrder DEF FlushFixes
  <2>3. QED
    BY <1>2, <2>1, <2>2 DEF FlushFixes
<1>9. StillReady'
  BY <1>1, <1>6 DEF Aligned, StillReady, Popping, Whole
<1>10. QED
  BY <1>1, <1>2, <1>3, <1>7, <1>8, <1>9 DEF Aligned, Follows

(* A flush between two frames, or of a ring the sender is not at, leaves the *)
(* others in order; else it is recorded.                                     *)
LEMMA FlushKeepsFlow ==
    ASSUME SgTypes, SgTypes', FlowInv, MainStep, FlushStore
    PROVE  FlowInv'
<1>1. UNCHANGED <<head, buf, dropped, sd, payload, frame, lives, src, ui>>
      /\ mn.pc = "flushStore" /\ mn' = NextFlush /\ torn' = (torn \/ Popping)
  BY DEF MainStep, FlushStore, sending, Popping
<1>2. /\ FlushFixes /\ LifeRuns' = LifeRuns
      /\ FrameIsWhole' = FrameIsWhole /\ FrameIsSent' = FrameIsSent
      /\ \A b : FrameGrows(b)' = FrameGrows(b)
  BY <1>1, FlushKeeps
<1> SUFFICES ASSUME Aligned, ~Popping PROVE Aligned'
  BY <1>1, <1>2 DEF FlowInv
<1>3. PICK b \in Int : Follows(b)
  BY DEF Aligned
<1>4. PICK c : c = mn.ch
  OBVIOUS
<1>5. c \in Channels /\ mn.newTail = head[c]
  BY <1>1, <1>4 DEF SgTypes, MainTypes, Aligned, FlushedIsEmpty
<1>6. Used(c)' = 0 /\ \A d \in Channels : d # c => RingKept(d)
  <2>1. tail' = [tail EXCEPT ![c] = head[c]]
    BY <1>4, <1>5 DEF FlushStore
  <2>2. QED
    BY <1>1, <1>5, <2>1, FlushRing
<1>7. /\ mn'.pc # "flushStore"
      /\ \A d \in Channels : (Flushed(d) <=> d < c) /\ (Flushed(d)' <=> d <= c)
  BY <1>1, <1>4, FlushGoes
<1>8. \A d \in Channels : d <= c <=> d < c \/ d = c
  BY <1>5 DEF Channels
<1>9. FlushedIsEmpty'
  <2>1. \A d \in Channels : Flushed(d) => Used(d) = 0
    BY DEF Aligned, FlushedIsEmpty
  <2>2. ASSUME NEW d \in Channels, Flushed(d)' PROVE Used(d)' = 0
    <3>1. CASE d = c
      BY <1>6, <3>1
    <3>2. CASE d # c
      BY <1>6, <1>7, <1>8, <2>1, <2>2, <3>2 DEF RingKept
    <3>3. QED
      BY <3>1, <3>2
  <2>3. QED
    BY <1>7, <2>2 DEF FlushedIsEmpty
<1>10. RingsFollow(b)'
  <2> SUFFICES ASSUME NEW d \in Channels, ~Flushed(d)'
               PROVE  \E e \in Int : e = b + Popped(d)' /\ InOrder(d, e)'
    BY DEF RingsFollow
  <2>1. d # c /\ ~Flushed(d)
    BY <1>7, <1>8
  <2>2. PICK e \in Int : e = b + Popped(d) /\ InOrder(d, e)
    BY <1>3, <2>1 DEF Follows, RingsFollow
  <2>3. /\ dropped'[d] = dropped[d] /\ Uncounted(d)' = Uncounted(d) /\ Made(d)' = Made(d)
        /\ lives' = lives /\ Popped(d)' = Popped(d)
    BY <1>1, <1>2 DEF FlushFixes
  <2>4. dropped'[d] >= dropped[d] /\ dropped'[d] + Uncounted(d)' >= dropped[d] + Uncounted(d)
    BY <2>3, CountTypes DEF Counts, CountsAre
  <2>5. InOrder(d, e)'
    BY <1>6, <2>1, <2>2, <2>3, <2>4, OrderStays
  <2>6. QED
    BY <2>2, <2>3, <2>5
<1>11. StillReady'
  BY <1>1 DEF Aligned, StillReady, Popping, Whole
<1>12. QED
  BY <1>1, <1>2, <1>3, <1>9, <1>10, <1>11 DEF Aligned, Follows

(* A new life begins with empty rings, at the place the frame under way left. *)
LEMMA StartKeepsFlow ==
    ASSUME SgTypes, FlowInv, MainStep, StartSource
    PROVE  FlowInv'
<1>1. UNCHANGED <<head, tail, buf, dropped, sd, payload, frame, torn>> /\ mn.pc = "start"
      /\ lives' = lives + 1 /\ lives \in Nat \ {0}
  BY DEF MainStep, StartSource, rings, sending, SgTypes, MainTypes
<1>2. Running'.pc = "run" /\ Running'.t = 0 /\ Running'.life = lives'
  BY <1>1, StartWrites DEF Running
<1>3. mn'.pc = "loop"
  <2>1. mn \in MainRecords /\ mn' = [[[mn EXCEPT !.pc = "loop"] EXCEPT !.op = "none"] EXCEPT !.rate = 0]
    BY DEF SgTypes, MainTypes, MainRecords, StartSource
  <2>2. QED
    BY <2>1 DEF MainRecords
<1> SUFFICES ASSUME Aligned PROVE Aligned'
  BY <1>1, <1>2 DEF FlowInv, LifeRuns
<1>4. \A c \in Channels : Used(c) = 0 /\ Used(c)' = 0
  <2>1. \A c \in Channels : Used(c) = 0
    BY <1>1 DEF Aligned, FlushedIsEmpty, Flushed
  <2>2. QED
    BY <1>1, <2>1 DEF Used
<1>5. sd.ch \in Channels /\ (Popping \/ Whole => sd.block \in Blocks)
  BY DEF SgTypes, SenderTypes, Aligned, StillReady
<1>6. ~Popping
  <2> SUFFICES ASSUME Popping PROVE FALSE
    OBVIOUS
  <2>1. Used(sd.ch) >= sd.block
    BY <1>5 DEF Aligned, StillReady, Channels
  <2>2. QED
    BY <1>4, <1>5, <2>1, BlocksFit
<1>7. \A c : Made(c)' = 0 /\ Uncounted(c)' = 0 /\ ~Flushed(c)' /\ Popped(c)' = Popped(c)
  BY <1>1, <1>2, <1>3
     DEF Made, MadeBy, Offered, Uncounted, UncountedBy, Flushed, Popped, Popping, Whole
<1>8. PICK b \in Int : \A c \in Channels : b + Popped(c) = 0
  <2>1. CASE Whole
    <3>1. -sd.block \in Int /\ \A c \in Channels : -sd.block + Popped(c) = 0
      BY <1>5, <2>1, BlocksFit DEF Popped
    <3>2. QED
      BY <3>1
  <2>2. CASE ~Whole
    <3>1. 0 \in Int /\ \A c \in Channels : 0 + Popped(c) = 0
      BY <1>6, <2>2 DEF Popped
    <3>2. QED
      BY <3>1
  <2>3. QED
    BY <2>1, <2>2
<1>9. \A c \in Channels : InOrder(c, 0)'
  <2> SUFFICES ASSUME NEW c \in Channels PROVE InOrder(c, 0)'
    OBVIOUS
  <2>1. dropped'[c] \in Nat
    BY <1>1 DEF SgTypes, RingTypes
  <2>2. QED
    BY <1>4, <1>7, <2>1 DEF InOrder
<1>10. RingsFollow(b)'
  BY <1>7, <1>8, <1>9 DEF RingsFollow
<1>11. lives' # 1
  BY <1>1
<1>12. FrameGrows(b)' /\ StillReady' /\ FlushedIsEmpty'
  BY <1>1, <1>3, <1>5, <1>6, <1>7 DEF FrameGrows, StillReady, FlushedIsEmpty, Popping, Whole
<1>13. FrameIsWhole'
  <2> SUFFICES ASSUME Whole PROVE \E l \in Int, life \in Nat : WholeFrom(l, life)'
    BY <1>1 DEF FrameIsWhole, Whole
  <2>1. PICK l \in Int, life \in Nat : WholeFrom(l, life)
    BY DEF Aligned, FrameIsWhole
  <2>2. WholeFrom(l, life)'
    BY <1>1, <1>11, <2>1 DEF WholeFrom
  <2>3. QED
    BY <2>2
<1>14. FrameIsSent'
  <2> SUFFICES ASSUME FrameSent
               PROVE  frame.block \in Blocks
                      /\ \E l \in Int, life \in Nat, d \in [Channels -> Nat] : SentFrom(l, life, d)'
    BY <1>1 DEF FrameIsSent, FrameSent
  <2>1. frame.block \in Blocks
        /\ \E l \in Int, life \in Nat, d \in [Channels -> Nat] : SentFrom(l, life, d)
    BY DEF Aligned, FrameIsSent
  <2>2. PICK l \in Int, life \in Nat, d \in [Channels -> Nat] : SentFrom(l, life, d)
    BY <2>1
  <2>3. SentFrom(l, life, d)'
    BY <1>1, <1>11, <2>2 DEF SentFrom
  <2>4. QED
    BY <2>1, <2>3
<1>15. QED
  BY <1>10, <1>11, <1>12, <1>13, <1>14 DEF Aligned, Follows

(* Every other step of the main thread leaves what flows as it is.           *)
MainGoes(m) == \/ m.pc \in {"loop", "gui", "stop", "join", "ended"}
               \/ m.pc = "flush" /\ m.ch = 1

LEMMA MainStays ==
    ASSUME SgTypes, MainStep,
           TakeCommands \/ GuiIdle \/ Gui \/ MainLeaves \/ Joined \/ JoinThreads
    PROVE  FlowStays
<1>t. ui \in UiRecords /\ mn \in MainRecords /\ ui.mode \in Sources
  BY DEF SgTypes, MainTypes, UiRecords, MainRecords
<1>1. UNCHANGED <<head, tail, buf, dropped, sd, payload, frame, lives, torn>>
  BY DEF MainStep, sending, rings, TakeCommands, GuiIdle, Gui, MainLeaves, Joined, JoinThreads
<1>2. SourcesGoOn
  <2>1. CASE ~StartSource
    BY <2>1, MainGoesOn
  <2>2. CASE StartSource
    <3>1. lives' = lives + 1 /\ lives \in Nat
      BY <2>2 DEF StartSource, SgTypes, MainTypes
    <3>2. QED
      BY <1>1, <3>1
  <2>3. QED
    BY <2>1, <2>2
<1>3. ui'.mode = ui.mode /\ mn.pc \in {"loop", "gui", "stop", "join"} /\ MainGoes(mn')
  <2>1. CASE TakeCommands
    <3>1. mn.pc = "loop" /\ mn' = [mn EXCEPT !.pc = IF HasWindow THEN "gui" ELSE "loop"]
          /\ (ui' = ui \/ ui' = [ui EXCEPT !.rate = cmdRate])
      BY <2>1 DEF TakeCommands
    <3>2. ui'.mode = ui.mode
      BY <1>t, <3>1 DEF UiRecords
    <3>3. mn'.pc \in {"loop", "gui"}
      BY <1>t, <3>1 DEF MainRecords
    <3>4. QED
      BY <3>1, <3>2, <3>3 DEF MainGoes
  <2>2. CASE GuiIdle
    <3>1. mn.pc = "gui" /\ mn' = [mn EXCEPT !.pc = "loop"] /\ ui' = ui
      BY <2>2 DEF GuiIdle
    <3>2. mn'.pc = "loop"
      BY <1>t, <3>1 DEF MainRecords
    <3>3. QED
      BY <3>1, <3>2 DEF MainGoes
  <2>3. CASE Gui
    <3>1. mn.pc = "gui"
      BY <2>3 DEF Gui
    <3>2. \/ mn' = [mn EXCEPT !.pc = "loop"]
          \/ \E op, r : mn' = [mn EXCEPT !.pc = "stop", !.op = op, !.rate = r]
      BY <2>3 DEF Gui, GuiSource, GuiRate, GuiBlock, GuiPause, GuiLoop, GuiOpen, BeginStop
    <3>3. mn'.pc \in {"loop", "stop"}
      BY <1>t, <3>2 DEF MainRecords
    <3>4. \/ ui' = ui
          \/ \E v : ui' = [ui EXCEPT !.sel = v] \/ ui' = [ui EXCEPT !.rate = v]
                    \/ ui' = [ui EXCEPT !.loop = v]
      BY <2>3 DEF Gui, GuiSource, GuiRate, GuiBlock, GuiPause, GuiLoop, GuiOpen
    <3>5. ui'.mode = ui.mode
      BY <1>t, <3>4 DEF UiRecords
    <3>6. QED
      BY <3>1, <3>3, <3>5 DEF MainGoes
  <2>4. CASE MainLeaves
    <3>1. mn.pc = "loop" /\ ui' = ui /\ mn' = [mn EXCEPT !.pc = "stop", !.op = "quit", !.rate = 0]
      BY <2>4 DEF MainLeaves, BeginStop
    <3>2. mn'.pc = "stop"
      BY <1>t, <3>1 DEF MainRecords
    <3>3. QED
      BY <3>1, <3>2 DEF MainGoes
  <2>5. CASE Joined
    <3>1. mn.pc = "stop" /\ ui' = ui
          /\ mn' = [mn EXCEPT !.pc = IF mn.op = "quit" THEN "join" ELSE "flush", !.ch = 1]
      BY <2>5 DEF Joined
    <3>2. mn'.pc \in {"join", "flush"} /\ mn'.ch = 1
      BY <1>t, <3>1 DEF MainRecords
    <3>3. QED
      BY <3>1, <3>2 DEF MainGoes
  <2>6. CASE JoinThreads
    <3>1. mn.pc = "join" /\ ui' = ui /\ mn' = [mn EXCEPT !.pc = "ended"]
      BY <2>6 DEF JoinThreads
    <3>2. mn'.pc = "ended"
      BY <1>t, <3>1 DEF MainRecords
    <3>3. QED
      BY <3>1, <3>2 DEF MainGoes
  <2>7. QED
    BY <2>1, <2>2, <2>3, <2>4, <2>5, <2>6
<1>4. SamePlace(Running, Running')
  <2>1. SamePlace(src[ui.mode], src'[ui.mode])
    BY <1>t, <1>2 DEF SourcesGoOn
  <2>2. QED
    BY <1>3, <2>1 DEF Running
<1>5. \A c \in Channels : ~Flushed(c) /\ ~Flushed(c)'
  <2>1. \A c \in Channels : ~(c < 1)
    BY DEF Channels
  <2>2. QED
    BY <1>3, <2>1 DEF Flushed, MainGoes
<1>6. mn'.pc # "flushStore"
  BY <1>3 DEF MainGoes
<1>7. QED
  BY <1>1, <1>4, <1>5, <1>6 DEF FlowStays

LEMMA InitFlow == Init => FlowInv
<1> SUFFICES ASSUME Init PROVE FlowInv
  OBVIOUS
<1>1. PICK o \in Options, r \in RateOptions :
         /\ ui = [mode |-> o.source, sel |-> o.source, rate |-> r, loop |-> TRUE]
         /\ src = [s \in Sources |->
                     IF s = o.source THEN [Off(o.rate) EXCEPT !.running = TRUE, !.pc = "run",
                                                              !.life = 1]
                                     ELSE Off(o.rate)]
  BY DEF Init
<1>2. /\ lives = 1 /\ sd.pc = "top" /\ sd.total = 0 /\ mn.pc = "loop"
      /\ head = [c \in Channels |-> 0] /\ tail = head /\ dropped = [c \in Channels |-> 0]
  BY DEF Init
<1>3. o.source \in Sources /\ o.rate \in Rates
  BY SgAssumption
<1>4. Running.pc = "run" /\ Running.life = 1 /\ Running.t = 0
  <2>1. /\ Started(o.rate, TRUE) \in SourceStates /\ Started(o.rate, TRUE).t = 0
    BY <1>2, <1>3, StartedTypes
  <2>2. Off(o.rate) \in SourceStates /\ Off(o.rate).t = 0
    BY <2>1 DEF Off, SourceStates, SourcePlaces
  <2>3. Running = [Off(o.rate) EXCEPT !.running = TRUE, !.pc = "run", !.life = 1]
    BY <1>1, <1>3 DEF Running
  <2>4. QED
    BY <2>2, <2>3 DEF SourceStates
<1>5. \A c \in Channels : Used(c) = 0
  BY <1>2 DEF Used
<1>6. \A c \in Channels : Made(c) = 0 /\ Uncounted(c) = 0 /\ ~Flushed(c) /\ Popped(c) = 0
  BY <1>2, <1>4 DEF Made, MadeBy, Offered, Uncounted, UncountedBy, Flushed, Popped, Popping, Whole
<1>7. \A c \in Channels : InOrder(c, 0)
  BY <1>2, <1>5, <1>6 DEF InOrder
<1>8. RingsFollow(0)
  BY <1>6, <1>7 DEF RingsFollow
<1>9. FrameGrows(0) /\ StillReady /\ FlushedIsEmpty /\ FrameIsWhole /\ FrameIsSent
  BY <1>2, <1>6 DEF FrameGrows, StillReady, FlushedIsEmpty, FrameIsWhole, FrameIsSent, Popping,
                    Whole, FrameSent
<1>10. Follows(0)
  BY <1>2, <1>8, <1>9 DEF Follows
<1>11. QED
  BY <1>2, <1>4, <1>9, <1>10 DEF FlowInv, LifeRuns, Aligned

LEMMA NextKeepsFlow ==
    ASSUME SgTypes, SgTypes', SwitchInv, FlowInv, [Next]_vars
    PROVE  FlowInv'
<1>1. CASE ReadCommand \/ UNCHANGED vars
  <2>1. UNCHANGED <<head, tail, buf, dropped, sd, payload, frame, lives, torn, src, mn, ui>>
    BY <1>1 DEF ReadCommand, vars, rings, sending, owner, history
  <2>2. QED
    BY <2>1, StutterKeepsFlow
<1>2. CASE MainStep
  <2>1. CASE TakeCommands \/ GuiIdle \/ Gui \/ MainLeaves \/ Joined \/ JoinThreads
    BY <1>2, <2>1, MainStays, StaysKeepsFlow
  <2>2. CASE FlushLoad \/ FlushStore \/ StartSource
    BY <1>2, <2>2, LoadKeepsFlow, FlushKeepsFlow, StartKeepsFlow
  <2>3. QED
    BY <1>2, <2>1, <2>2 DEF MainStep
<1>3. QED
  BY <1>1, <1>2, SourceKeepsFlow, SenderKeepsFlow DEF Next

LEMMA FlowKept == Spec => []FlowInv
<1>1. Init => FlowInv
  BY InitFlow
<1>2. SgTypes /\ SgTypes' /\ SwitchInv /\ FlowInv /\ [Next]_vars => FlowInv'
  BY NextKeepsFlow
<1>3. QED
  BY <1>1, <1>2, TypesKept, SwitchKept, PTL DEF Spec

-----------------------------------------------------------------------------
(* A frame of the first source has its samples in order from                 *)
(* first_sample_index on, and sg_drops_total covers what is missing on all   *)
(* channels up to its last sample (data_generator.cpp, sg_main.cpp).         *)
THEOREM GapsReported == Spec => []EveryGapIsReported
<1>1. SgTypes /\ FlowInv => EveryGapIsReported
  <2> SUFFICES ASSUME SgTypes, FlowInv, FrameSent, lives = 1, ~torn PROVE EveryGapIsReported
    BY DEF EveryGapIsReported
  <2>1. FrameIsSent
    BY DEF FlowInv, Aligned, FrameSent
  <2>2. frame.block \in Blocks
        /\ \E b \in Int, life \in Nat, d \in [Channels -> Nat] : SentFrom(b, life, d)
    BY <2>1 DEF FrameIsSent
  <2>3. PICK b \in Int, life \in Nat, d \in [Channels -> Nat] : SentFrom(b, life, d)
    BY <2>2
  <2>4. PICK k : k = frame.block
    OBVIOUS
  <2>5. /\ k \in Nat /\ k >= 1 /\ b = sd.total - k /\ life = 1 /\ SumFunction(d) = frame.drops
        /\ \A c \in Channels : Row(payload, c, k, 1, b, d[c])
    BY <2>2, <2>3, <2>4, BlocksFit DEF SentFrom
  <2>6. ASSUME NEW c \in Channels, NEW i \in 0..(k - 1)
        PROVE  /\ SampleOf(c, i).life = 1 /\ SampleOf(c, i).t \in Nat
               /\ SampleOf(c, i).t >= b + i /\ SampleOf(c, i).t <= b + i + d[c]
               /\ i > 0 => SampleOf(c, i - 1).t < SampleOf(c, i).t
    <3>1. SampleOf(c, i) = payload[Place(c, k, i)]
          /\ SampleOf(c, i - 1) = payload[Place(c, k, i - 1)]
      BY <2>4 DEF SampleOf, Place
    <3>2. QED
      BY <2>5, <3>1 DEF Row
  <2> DEFINE gap(c, i) == SampleOf(c, i).t - (b + i)
             g == [c \in Channels |-> gap(c, k - 1)]
  <2>7. \A c \in Channels, i \in 0..(k - 1) : i > 0 => gap(c, i) >= gap(c, i - 1)
    <3> SUFFICES ASSUME NEW c \in Channels, NEW i \in 0..(k - 1), i > 0
                 PROVE  gap(c, i) >= gap(c, i - 1)
      OBVIOUS
    <3>1. i - 1 \in 0..(k - 1)
      BY <2>5
    <3>2. PICK x, y : x = SampleOf(c, i).t /\ y = SampleOf(c, i - 1).t
      OBVIOUS
    <3>3. x \in Nat /\ y \in Nat /\ y < x
      BY <2>6, <3>1, <3>2
    <3>4. x - (b + i) >= y - (b + (i - 1))
      BY <3>3
    <3>5. QED
      BY <3>2, <3>4
  <2>8. g \in [Channels -> Nat] /\ \A c \in Channels : g[c] <= d[c]
    <3> SUFFICES ASSUME NEW c \in Channels PROVE gap(c, k - 1) \in Nat /\ gap(c, k - 1) <= d[c]
      OBVIOUS
    <3>1. k - 1 \in 0..(k - 1)
      BY <2>5
    <3>2. PICK x : x = SampleOf(c, k - 1).t
      OBVIOUS
    <3>3. x \in Nat /\ x >= b + (k - 1) /\ x <= b + (k - 1) + d[c]
      BY <2>6, <3>1, <3>2
    <3>4. x - (b + (k - 1)) \in Nat /\ x - (b + (k - 1)) <= d[c]
      BY <2>5, <3>3
    <3>5. QED
      BY <3>2, <3>4
  <2> HIDE DEF g
  <2>9. SumFunction(g) <= frame.drops
    <3>1. IsFiniteSet(Channels)
      BY SgAssumption, FS_Interval DEF Channels
    <3>2. SumFunction(g) <= SumFunction(d)
      BY <2>8, <3>1, SumGrows
    <3>3. QED
      BY <2>5, <3>2
  <2>10. /\ \A c \in Channels, i \in InFrame :
              /\ SampleOf(c, i).life = 1 /\ SampleOf(c, i).t >= sd.total - frame.block + i
              /\ i > 0 => gap(c, i) >= gap(c, i - 1)
         /\ SumFunction([c \in Channels |-> gap(c, frame.block - 1)]) <= frame.drops
    BY <2>4, <2>5, <2>6, <2>7, <2>9 DEF InFrame, g
  <2>11. QED
    BY <2>4, <2>5, <2>10 DEF EveryGapIsReported
<1>2. QED
  BY <1>1, TypesKept, FlowKept, PTL

(* No frame mixes two sources, and its channels are apart by no more samples *)
(* than were reported dropped, through every switch of source (sg_main.cpp,  *)
(* sender_thread_func and flush_rings).                                      *)
THEOREM ChannelsTogether == Spec => []ChannelsStayTogether
<1>1. SgTypes /\ FlowInv => ChannelsStayTogether
  <2> SUFFICES ASSUME SgTypes, FlowInv, FrameSent, ~torn,
                      NEW c \in Channels, NEW d \in Channels, NEW i \in InFrame
               PROVE  /\ SampleOf(c, i).life = SampleOf(d, i).life
                      /\ SampleOf(c, i).t <= SampleOf(d, i).t + frame.drops
    BY DEF ChannelsStayTogether
  <2>1. frame.block \in Blocks
        /\ \E b \in Int, life \in Nat, f \in [Channels -> Nat] : SentFrom(b, life, f)
    BY DEF FlowInv, Aligned, FrameSent, FrameIsSent
  <2>2. PICK b \in Int, life \in Nat, f \in [Channels -> Nat] : SentFrom(b, life, f)
    BY <2>1
  <2>3. PICK k : k = frame.block
    OBVIOUS
  <2>4. k \in Nat /\ i \in 0..(k - 1) /\ i \in Nat
    BY <2>1, <2>3, BlocksFit DEF InFrame
  <2>5. \A e \in Channels :
           /\ SampleOf(e, i).life = life /\ SampleOf(e, i).t \in Nat
           /\ b + i <= SampleOf(e, i).t /\ SampleOf(e, i).t <= b + i + f[e]
    <3>1. \A e \in Channels : SampleOf(e, i) = payload[Place(e, k, i)]
      BY <2>3 DEF SampleOf, Place
    <3>2. \A e \in Channels : Row(payload, e, k, life, b, f[e])
      BY <2>2, <2>3 DEF SentFrom
    <3>3. QED
      BY <2>4, <3>1, <3>2 DEF Row
  <2>6. f[c] <= SumFunction(f) /\ SumFunction(f) \in Nat /\ f[c] \in Nat
    <3>1. IsFiniteSet(Channels)
      BY SgAssumption, FS_Interval DEF Channels
    <3>2. QED
      BY <3>1, SumBounds
  <2>7. SumFunction(f) = frame.drops
    BY <2>2 DEF SentFrom
  <2>8. PICK x, y, s : x = SampleOf(c, i).t /\ y = SampleOf(d, i).t /\ s = frame.drops
    OBVIOUS
  <2>9. x \in Nat /\ y \in Nat /\ s \in Nat /\ x <= b + i + f[c] /\ b + i <= y /\ f[c] <= s
    BY <2>5, <2>6, <2>7, <2>8
  <2>10. x <= y + s
    BY <2>4, <2>6, <2>9
  <2>11. QED
    BY <2>5, <2>8, <2>10
<1>2. QED
  BY <1>1, TypesKept, FlowKept, PTL

=============================================================================
