---------------------------- MODULE DisplayProofs ----------------------------
(***************************************************************************)
(* Proofs about what the passes of the main loop ask of the GPU, for any   *)
(* number of slots and of frames in flight, any rates, spans and bounds,   *)
(* and about the samples in the viewer's signal path.                      *)
(*                                                                         *)
(* FencesComeBack says that a fence which is not signalled has its         *)
(* submission; for a step of the device it must be known too that the      *)
(* submission is the only one with that fence, and that a signalled fence  *)
(* has none: TransfersMatch and DrawsMatch.  DrawnHasArrived holds since a *)
(* slot found by the poll stays signalled until it is shown, which is so   *)
(* because there is no upload while the poll is under way: PollIsApart.    *)
(*                                                                         *)
(* EnvelopeHolds looks at the output only; a step makes it from what the   *)
(* queues before hold, so SignalInv says that every batch on its way is a  *)
(* tiling of one period, whatever the rates in between.  The rest is       *)
(* arithmetic: a bucket has one of two sizes, the extremes of a run of     *)
(* samples, also across the end of the period, are those of a window, and  *)
(* a count matters to the verifier by the size of the buckets it gives.    *)
(*                                                                         *)
(* WindowIsNewest is about the picture; PictureInv adds the history it is  *)
(* cut from: it is the end of what came, all of it or two of the narrowest *)
(* windows.  A pass folds its frames into the history; FoldIsArrived says  *)
(* that the fold leaves what came since the last change of rate.           *)
(***************************************************************************)
EXTENDS Display, WellFoundedInduction, SequenceTheorems, TLAPS

InFlight == 0..FramesInFlight - 1

Submissions ==
    {Transfer(s) : s \in Slots}
        \cup {Drawing(f, s) : f \in InFlight, s \in Slots \cup {-1}}

GpuTypeOK ==
    /\ fence \in [Slots -> BOOLEAN]
    /\ pending \in [Slots -> BOOLEAN]
    /\ drawSlot \in Slots \cup {-1}
    /\ inFlight \in [InFlight -> BOOLEAN]
    /\ current \in InFlight
    /\ poll \in [next : 0..SlotCount, best : Slots \cup {-1}]
    /\ gpu \in Seq(Submissions)

(* A submission still under way is the only one with its fence, and its     *)
(* fence is not signalled; and one that is not signalled has a submission.  *)
TransfersMatch ==
    /\ \A s \in Slots : ~fence[s] => \E i \in 1..Len(gpu) : gpu[i] = Transfer(s)
    /\ \A i \in 1..Len(gpu) : gpu[i].type = "transfer" => ~fence[gpu[i].id]
    /\ \A i, j \in 1..Len(gpu) :
           gpu[i].type = "transfer" /\ gpu[i] = gpu[j] => i = j

DrawsMatch ==
    /\ \A f \in InFlight : ~inFlight[f] =>
           \E i \in 1..Len(gpu) : gpu[i].type = "draw" /\ gpu[i].id = f
    /\ \A i \in 1..Len(gpu) : gpu[i].type = "draw" => ~inFlight[gpu[i].id]
    /\ \A i, j \in 1..Len(gpu) :
           gpu[i].type = "draw" /\ gpu[j].type = "draw" /\ gpu[i].id = gpu[j].id => i = j

(* The poll is under way only between the upload and the drawing, and what  *)
(* it has found is signalled.                                               *)
PollIsApart ==
    /\ pc # "swap" => poll.best = -1
    /\ poll.best >= 0 => fence[poll.best]

GpuInv == GpuTypeOK /\ TransfersMatch /\ DrawsMatch /\ PollIsApart /\ DrawnHasArrived

-----------------------------------------------------------------------------
(* The library's Min of a set of numbers is one of them, and the least.      *)
LEMMA LeastElement ==
    ASSUME NEW S, S \subseteq Nat, S # {}
    PROVE  Min(S) \in S /\ \A y \in S : Min(S) =< y
<1> DEFINE R == {ss \in Nat \X Nat : ss[1] < ss[2]}
<1>1. R = OpToRel(<, Nat)
  BY DEF OpToRel
<1>2. IsWellFoundedOn(R, Nat)
  BY <1>1, NatLessThanWellFounded
<1> HIDE DEF R
<1>3. PICK x \in S : \A y \in S : ~(<<y, x>> \in R)
  BY <1>2, WFMin
<1>4. \A y \in S : x =< y
  <2> TAKE y \in S
  <2>1. <<y, x>> \notin R /\ x \in Nat /\ y \in Nat
    BY <1>3
  <2>2. QED
    BY <2>1 DEF R
<1>5. QED
  BY <1>4 DEF Min

(* The upload goes to a slot, and not to the one that is shown.             *)
LEMMA FreeSlot ==
    ASSUME GpuTypeOK
    PROVE  FindFreeSlot \in Slots /\ FindFreeSlot # drawSlot
<1> DEFINE idle == {s \in Slots \ {drawSlot} : ~pending[s]}
           from == IF idle # {} THEN idle ELSE Slots \ {drawSlot}
<1>1. Slots \ {drawSlot} # {}
  <2>1. 0 \in Slots /\ 1 \in Slots
    BY GpuAssumption DEF Slots
  <2>2. QED
    BY <2>1
<1>2. from # {} /\ from \subseteq Slots \ {drawSlot}
  BY <1>1
<1>3. Slots \subseteq Nat
  BY GpuAssumption DEF Slots
<1>4. Min(from) \in from
  BY <1>2, <1>3, LeastElement
<1>5. FindFreeSlot = Min(from)
  BY DEF FindFreeSlot
<1>6. QED
  BY <1>2, <1>4, <1>5

(* What a submission looks like.                                            *)
LEMMA SubmissionKinds ==
    ASSUME NEW e \in Submissions
    PROVE  \/ e.type = "transfer" /\ e.id \in Slots /\ e = Transfer(e.id)
           \/ e.type = "draw" /\ e.id \in InFlight /\ e.slot \in Slots \cup {-1}
  BY DEF Submissions, Transfer, Drawing

LEMMA TransferFields ==
    ASSUME NEW s
    PROVE  Transfer(s).type = "transfer" /\ Transfer(s).id = s
  BY DEF Transfer

LEMMA DrawingFields ==
    ASSUME NEW f, NEW s
    PROVE  /\ Drawing(f, s).type = "draw" /\ Drawing(f, s).id = f
           /\ Drawing(f, s).slot = s
  BY DEF Drawing

(* The places of a queue that one more is put into, or its first taken from. *)
LEMMA Appended ==
    ASSUME NEW q \in Seq(Submissions), NEW e \in Submissions
    PROVE  /\ Append(q, e) \in Seq(Submissions)
           /\ Len(Append(q, e)) = Len(q) + 1 /\ Len(q) \in Nat
           /\ \A i \in 1..Len(q) : Append(q, e)[i] = q[i]
           /\ Append(q, e)[Len(q) + 1] = e
  OBVIOUS

LEMMA Advanced ==
    ASSUME NEW q \in Seq(Submissions), q # <<>>
    PROVE  /\ Tail(q) \in Seq(Submissions)
           /\ Len(Tail(q)) = Len(q) - 1 /\ Len(q) \in Nat \ {0}
           /\ \A i \in 1..Len(Tail(q)) : Tail(q)[i] = q[i + 1]
           /\ Head(q) = q[1] /\ q[1] \in Submissions
  OBVIOUS

-----------------------------------------------------------------------------
LEMMA InitGpuInv == Init => GpuInv
<1> SUFFICES ASSUME Init PROVE GpuInv
  OBVIOUS
<1> USE DEF Init, GpuInit
<1>1. GpuTypeOK
  BY GpuAssumption DEF GpuTypeOK, Slots, InFlight
<1>2. Len(gpu) = 0
  OBVIOUS
<1>3. TransfersMatch /\ DrawsMatch
  BY <1>2 DEF TransfersMatch, DrawsMatch, InFlight
<1>4. PollIsApart /\ DrawnHasArrived
  BY <1>2 DEF PollIsApart, DrawnHasArrived
<1>5. QED
  BY <1>1, <1>3, <1>4 DEF GpuInv

(* A step that leaves the GPU's state alone, and does not end the poll.     *)
LEMMA GpuUndisturbed ==
    ASSUME GpuInv, UNCHANGED gpuVars, pc = pc' \/ pc # "swap"
    PROVE  GpuInv'
<1> USE DEF gpuVars
<1>1. GpuTypeOK' /\ TransfersMatch' /\ DrawsMatch' /\ DrawnHasArrived'
  BY DEF GpuInv, GpuTypeOK, TransfersMatch, DrawsMatch, DrawnHasArrived
<1>2. PollIsApart'
  BY DEF GpuInv, PollIsApart
<1>3. QED
  BY <1>1, <1>2 DEF GpuInv

(* upload_streaming: the slot's fence is reset and its transfer queued; the  *)
(* slot is not the one shown, and no drawing comes after the transfer yet.  *)
LEMMA UploadKeeps ==
    ASSUME GpuInv, Upload
    PROVE  GpuInv'
<1> DEFINE s == FindFreeSlot
<1> USE DEF GpuInv
<1>1. s \in Slots /\ s # drawSlot
  BY FreeSlot
<1>2. /\ fence[s] /\ fence' = [fence EXCEPT ![s] = FALSE]
      /\ pending' = [pending EXCEPT ![s] = TRUE]
      /\ gpu' = Append(gpu, Transfer(s))
      /\ drawSlot' = drawSlot /\ inFlight' = inFlight
      /\ current' = current /\ poll' = poll
      /\ pc = "upload" /\ pc' = "swap"
  BY DEF Upload, UploadStreaming
<1> HIDE DEF s
<1>3. Transfer(s) \in Submissions /\ gpu \in Seq(Submissions)
  BY <1>1 DEF Submissions, GpuTypeOK
<1>4. /\ gpu' \in Seq(Submissions)
      /\ Len(gpu') = Len(gpu) + 1 /\ Len(gpu) \in Nat
      /\ \A i \in 1..Len(gpu) : gpu'[i] = gpu[i]
      /\ gpu'[Len(gpu) + 1] = Transfer(s)
  BY <1>2, <1>3, Appended
<1>5. GpuTypeOK'
  BY <1>1, <1>2, <1>4 DEF GpuTypeOK
<1>6. \A t \in Slots : fence'[t] = (fence[t] /\ t # s)
  BY <1>1, <1>2 DEF GpuTypeOK
<1>7. \A i \in 1..Len(gpu) : gpu[i].type = "transfer" => gpu[i].id \in Slots /\ gpu[i].id # s
  <2> SUFFICES ASSUME NEW i \in 1..Len(gpu), gpu[i].type = "transfer"
               PROVE  gpu[i].id \in Slots /\ gpu[i].id # s
    OBVIOUS
  <2>1. gpu[i] \in Submissions
    BY <1>3
  <2>2. gpu[i].id \in Slots
    BY <2>1, SubmissionKinds
  <2>3. ~fence[gpu[i].id]
    BY DEF TransfersMatch
  <2>4. QED
    BY <1>2, <2>2, <2>3
<1>8. Transfer(s).type = "transfer" /\ Transfer(s).id = s
  BY TransferFields
<1>9. TransfersMatch'
  <2>1. \A t \in Slots : ~fence'[t] => \E i \in 1..Len(gpu') : gpu'[i] = Transfer(t)
    <3> SUFFICES ASSUME NEW t \in Slots, ~fence'[t]
                 PROVE  \E i \in 1..Len(gpu') : gpu'[i] = Transfer(t)
      OBVIOUS
    <3>1. CASE t = s
      BY <1>4, <3>1
    <3>2. CASE t # s
      <4>1. PICK i \in 1..Len(gpu) : gpu[i] = Transfer(t)
        BY <1>6, <3>2 DEF TransfersMatch
      <4>2. QED
        BY <1>4, <4>1
    <3>3. QED
      BY <3>1, <3>2
  <2>2. \A i \in 1..Len(gpu') : gpu'[i].type = "transfer" => ~fence'[gpu'[i].id]
    <3> SUFFICES ASSUME NEW i \in 1..Len(gpu'), gpu'[i].type = "transfer"
                 PROVE  ~fence'[gpu'[i].id]
      OBVIOUS
    <3>1. CASE i = Len(gpu) + 1
      <4>1. gpu'[i] = Transfer(s)
        BY <1>4, <3>1
      <4>2. gpu'[i].id = s
        BY <4>1, <1>8
      <4>3. ~fence'[s]
        BY <1>1, <1>6
      <4>4. QED
        BY <4>2, <4>3
    <3>2. CASE i # Len(gpu) + 1
      <4>1. i \in 1..Len(gpu) /\ gpu'[i] = gpu[i]
        BY <1>4, <3>2
      <4>2. QED
        BY <1>6, <1>7, <4>1 DEF TransfersMatch
    <3>3. QED
      BY <3>1, <3>2
  <2>3. \A i, j \in 1..Len(gpu') :
            gpu'[i].type = "transfer" /\ gpu'[i] = gpu'[j] => i = j
    <3> SUFFICES ASSUME NEW i \in 1..Len(gpu'), NEW j \in 1..Len(gpu'),
                        gpu'[i].type = "transfer", gpu'[i] = gpu'[j]
                 PROVE  i = j
      OBVIOUS
    <3>1. \A k \in 1..Len(gpu') : k = Len(gpu) + 1 \/ (k \in 1..Len(gpu) /\ gpu'[k] = gpu[k])
      BY <1>4
    <3>2. CASE i \in 1..Len(gpu) /\ j \in 1..Len(gpu)
      BY <1>4, <3>2 DEF TransfersMatch
    <3>3. CASE i = Len(gpu) + 1 /\ j # i
      BY <1>4, <1>7, <1>8, <3>1, <3>3
    <3>4. CASE j = Len(gpu) + 1 /\ j # i
      BY <1>4, <1>7, <1>8, <3>1, <3>4
    <3>5. QED
      BY <3>1, <3>2, <3>3, <3>4
  <2>4. QED
    BY <2>1, <2>2, <2>3 DEF TransfersMatch
<1>10. DrawsMatch'
  <2>1. \A i \in 1..Len(gpu') : gpu'[i].type = "draw" => i \in 1..Len(gpu) /\ gpu'[i] = gpu[i]
    BY <1>4, <1>8
  <2>2. \A f \in InFlight : ~inFlight'[f] =>
            \E i \in 1..Len(gpu') : gpu'[i].type = "draw" /\ gpu'[i].id = f
    <3> SUFFICES ASSUME NEW f \in InFlight, ~inFlight'[f]
                 PROVE  \E i \in 1..Len(gpu') : gpu'[i].type = "draw" /\ gpu'[i].id = f
      OBVIOUS
    <3>1. PICK i \in 1..Len(gpu) : gpu[i].type = "draw" /\ gpu[i].id = f
      BY <1>2 DEF DrawsMatch
    <3>2. QED
      BY <1>4, <3>1
  <2>3. QED
    BY <1>2, <2>1, <2>2 DEF DrawsMatch
<1>11. PollIsApart'
  BY <1>2 DEF PollIsApart
<1>12. DrawnHasArrived'
  <2>1. drawSlot' >= 0 => fence'[drawSlot']
    BY <1>1, <1>2, <1>6 DEF DrawnHasArrived, GpuTypeOK, Slots
  <2>2. \A j \in 1..Len(gpu') : gpu'[j].type = "draw" =>
            \A i \in 1..j - 1 : gpu'[i] # Transfer(gpu'[j].slot)
    <3> SUFFICES ASSUME NEW j \in 1..Len(gpu'), gpu'[j].type = "draw",
                        NEW i \in 1..j - 1
                 PROVE  gpu'[i] # Transfer(gpu'[j].slot)
      OBVIOUS
    <3>1. j \in 1..Len(gpu) /\ gpu'[j] = gpu[j]
      BY <1>4, <1>8
    <3>2. gpu'[i] = gpu[i]
      BY <1>4, <3>1
    <3>3. QED
      BY <3>1, <3>2 DEF DrawnHasArrived
  <2>3. QED
    BY <2>1, <2>2 DEF DrawnHasArrived
<1>13. QED
  BY <1>5, <1>9, <1>10, <1>11, <1>12

(* try_swap looks at a slot: one that has arrived is remembered, and its     *)
(* fence is signalled.                                                      *)
LEMMA PollSlotKeeps ==
    ASSUME GpuInv, pc = "swap", PollSlot, pc' = pc
    PROVE  GpuInv'
<1> DEFINE n == poll.next
           arrived == pending[n] /\ fence[n]
<1> USE DEF GpuInv
<1>1. /\ n \in Slots
      /\ pending' = [pending EXCEPT ![n] = pending[n] /\ ~arrived]
      /\ poll' = [next |-> n + 1, best |-> IF arrived THEN n ELSE poll.best]
      /\ fence' = fence /\ drawSlot' = drawSlot /\ inFlight' = inFlight
      /\ current' = current /\ gpu' = gpu
  BY GpuAssumption DEF PollSlot, GpuTypeOK, Slots
<1>2. GpuTypeOK'
  <2>1. pending' \in [Slots -> BOOLEAN]
    BY <1>1 DEF GpuTypeOK
  <2>2. poll' \in [next : 0..SlotCount, best : Slots \cup {-1}]
    BY <1>1, GpuAssumption DEF GpuTypeOK, Slots
  <2>3. QED
    BY <1>1, <2>1, <2>2 DEF GpuTypeOK
<1>3. TransfersMatch' /\ DrawsMatch' /\ DrawnHasArrived'
  BY <1>1 DEF TransfersMatch, DrawsMatch, DrawnHasArrived
<1>4. PollIsApart'
  BY <1>1 DEF PollIsApart
<1>5. QED
  BY <1>2, <1>3, <1>4

(* The slot found is shown: its fence is signalled, and the drawings queued  *)
(* before keep their slots.                                                 *)
LEMMA SwapKeeps ==
    ASSUME GpuInv, Swap, pc' = "draw"
    PROVE  GpuInv'
<1> USE DEF GpuInv
<1>1. /\ drawSlot' = (IF poll.best >= 0 THEN poll.best ELSE drawSlot)
      /\ poll' = [next |-> 0, best |-> -1]
      /\ fence' = fence /\ pending' = pending /\ inFlight' = inFlight
      /\ current' = current /\ gpu' = gpu
  BY DEF Swap
<1>2. GpuTypeOK'
  <2>1. drawSlot' \in Slots \cup {-1}
    BY <1>1 DEF GpuTypeOK
  <2>2. poll' \in [next : 0..SlotCount, best : Slots \cup {-1}]
    BY <1>1, GpuAssumption
  <2>3. QED
    BY <1>1, <2>1, <2>2 DEF GpuTypeOK
<1>3. TransfersMatch' /\ DrawsMatch'
  BY <1>1 DEF TransfersMatch, DrawsMatch
<1>4. PollIsApart'
  BY <1>1 DEF PollIsApart
<1>5. DrawnHasArrived'
  <2>1. drawSlot' >= 0 => fence'[drawSlot']
    BY <1>1 DEF PollIsApart, DrawnHasArrived
  <2>2. QED
    BY <1>1, <2>1 DEF DrawnHasArrived
<1>6. QED
  BY <1>2, <1>3, <1>4, <1>5

(* A drawing is queued: its frame's fence was signalled, so it is the only   *)
(* one of that frame, and there is no transfer into the slot it shows.      *)
LEMMA SubmitDrawKeeps ==
    ASSUME GpuInv, pc = "draw", SubmitDraw, pc' \in {"top", "recreate"}
    PROVE  GpuInv'
<1> DEFINE e == Drawing(current, drawSlot)
<1> USE DEF GpuInv
<1>1. /\ inFlight[current] /\ inFlight' = [inFlight EXCEPT ![current] = FALSE]
      /\ gpu' = Append(gpu, e)
      /\ current' = (current + 1) % FramesInFlight
      /\ fence' = fence /\ pending' = pending /\ drawSlot' = drawSlot
      /\ poll' = poll
  BY DEF SubmitDraw
<1>2. e.type = "draw" /\ e.id = current /\ e.slot = drawSlot
  BY DrawingFields
<1>3. e \in Submissions /\ gpu \in Seq(Submissions)
  BY DEF Submissions, GpuTypeOK
<1> HIDE DEF e
<1>4. /\ gpu' \in Seq(Submissions)
      /\ Len(gpu') = Len(gpu) + 1 /\ Len(gpu) \in Nat
      /\ \A i \in 1..Len(gpu) : gpu'[i] = gpu[i]
      /\ gpu'[Len(gpu) + 1] = e
  BY <1>1, <1>3, Appended
<1>5. \A k \in 1..Len(gpu') :
          \/ k = Len(gpu) + 1 /\ gpu'[k] = e
          \/ k \in 1..Len(gpu) /\ gpu'[k] = gpu[k]
  BY <1>4
<1>6. GpuTypeOK'
  <2>1. current' \in InFlight
    BY <1>1, GpuAssumption DEF GpuTypeOK, InFlight
  <2>2. QED
    BY <1>1, <1>4, <2>1 DEF GpuTypeOK
<1>7. TransfersMatch'
  <2>1. \A i \in 1..Len(gpu') : gpu'[i].type = "transfer" => i \in 1..Len(gpu) /\ gpu'[i] = gpu[i]
    BY <1>2, <1>5
  <2>2. \A t \in Slots : ~fence'[t] => \E i \in 1..Len(gpu') : gpu'[i] = Transfer(t)
    <3> SUFFICES ASSUME NEW t \in Slots, ~fence'[t]
                 PROVE  \E i \in 1..Len(gpu') : gpu'[i] = Transfer(t)
      OBVIOUS
    <3>1. PICK i \in 1..Len(gpu) : gpu[i] = Transfer(t)
      BY <1>1 DEF TransfersMatch
    <3>2. QED
      BY <1>4, <3>1
  <2>3. \A i \in 1..Len(gpu') : gpu'[i].type = "transfer" => ~fence'[gpu'[i].id]
    BY <1>1, <2>1 DEF TransfersMatch
  <2>4. \A i, j \in 1..Len(gpu') :
            gpu'[i].type = "transfer" /\ gpu'[i] = gpu'[j] => i = j
    BY <2>1 DEF TransfersMatch
  <2>5. QED
    BY <2>2, <2>3, <2>4 DEF TransfersMatch
<1>8. \A f \in InFlight : inFlight'[f] = (inFlight[f] /\ f # current)
  BY <1>1 DEF GpuTypeOK
<1>9. \A i \in 1..Len(gpu) : gpu[i].type = "draw" => gpu[i].id \in InFlight /\ gpu[i].id # current
  <2> SUFFICES ASSUME NEW i \in 1..Len(gpu), gpu[i].type = "draw"
               PROVE  gpu[i].id \in InFlight /\ gpu[i].id # current
    OBVIOUS
  <2>1. gpu[i] \in Submissions
    BY <1>3
  <2>2. gpu[i].id \in InFlight
    BY <2>1, SubmissionKinds
  <2>3. ~inFlight[gpu[i].id]
    BY DEF DrawsMatch
  <2>4. QED
    BY <1>1, <2>2, <2>3
<1>10. DrawsMatch'
  <2>1. \A f \in InFlight : ~inFlight'[f] =>
            \E i \in 1..Len(gpu') : gpu'[i].type = "draw" /\ gpu'[i].id = f
    <3> SUFFICES ASSUME NEW f \in InFlight, ~inFlight'[f]
                 PROVE  \E i \in 1..Len(gpu') : gpu'[i].type = "draw" /\ gpu'[i].id = f
      OBVIOUS
    <3>1. CASE f = current
      <4>1. Len(gpu) + 1 \in 1..Len(gpu')
        BY <1>4
      <4>2. QED
        BY <1>2, <1>4, <3>1, <4>1
    <3>2. CASE f # current
      <4>1. PICK i \in 1..Len(gpu) : gpu[i].type = "draw" /\ gpu[i].id = f
        BY <1>8, <3>2 DEF DrawsMatch
      <4>2. QED
        BY <1>4, <4>1
    <3>3. QED
      BY <3>1, <3>2
  <2>2. \A i \in 1..Len(gpu') : gpu'[i].type = "draw" => ~inFlight'[gpu'[i].id]
    <3> SUFFICES ASSUME NEW i \in 1..Len(gpu'), gpu'[i].type = "draw"
                 PROVE  ~inFlight'[gpu'[i].id]
      OBVIOUS
    <3>1. CASE i = Len(gpu) + 1
      <4>1. gpu'[i].id = current
        BY <1>2, <1>4, <3>1
      <4>2. current \in InFlight
        BY DEF GpuTypeOK
      <4>3. QED
        BY <1>8, <4>1, <4>2
    <3>2. CASE i # Len(gpu) + 1
      <4>1. i \in 1..Len(gpu) /\ gpu'[i] = gpu[i]
        BY <1>5, <3>2
      <4>2. gpu[i].id \in InFlight /\ ~inFlight[gpu[i].id]
        BY <1>9, <4>1 DEF DrawsMatch
      <4>3. QED
        BY <1>8, <4>1, <4>2
    <3>3. QED
      BY <3>1, <3>2
  <2>3. \A i, j \in 1..Len(gpu') :
            gpu'[i].type = "draw" /\ gpu'[j].type = "draw" /\ gpu'[i].id = gpu'[j].id => i = j
    <3> SUFFICES ASSUME NEW i \in 1..Len(gpu'), NEW j \in 1..Len(gpu'),
                        gpu'[i].type = "draw", gpu'[j].type = "draw",
                        gpu'[i].id = gpu'[j].id
                 PROVE  i = j
      OBVIOUS
    <3>1. CASE i \in 1..Len(gpu) /\ j \in 1..Len(gpu)
      BY <1>4, <3>1 DEF DrawsMatch
    <3>2. CASE i = Len(gpu) + 1 /\ j \in 1..Len(gpu)
      <4>1. gpu'[i].id = current /\ gpu'[j] = gpu[j]
        BY <1>2, <1>4, <3>2
      <4>2. QED
        BY <1>9, <3>2, <4>1
    <3>3. CASE j = Len(gpu) + 1 /\ i \in 1..Len(gpu)
      <4>1. gpu'[j].id = current /\ gpu'[i] = gpu[i]
        BY <1>2, <1>4, <3>3
      <4>2. QED
        BY <1>9, <3>3, <4>1
    <3>4. QED
      BY <1>5, <3>1, <3>2, <3>3
  <2>4. QED
    BY <2>1, <2>2, <2>3 DEF DrawsMatch
<1>11. PollIsApart'
  BY <1>1 DEF PollIsApart
<1>12. DrawnHasArrived'
  <2>1. drawSlot' >= 0 => fence'[drawSlot']
    BY <1>1 DEF DrawnHasArrived
  <2>2. \A j \in 1..Len(gpu') : gpu'[j].type = "draw" =>
            \A i \in 1..j - 1 : gpu'[i] # Transfer(gpu'[j].slot)
    <3> SUFFICES ASSUME NEW j \in 1..Len(gpu'), gpu'[j].type = "draw",
                        NEW i \in 1..j - 1
                 PROVE  gpu'[i] # Transfer(gpu'[j].slot)
      OBVIOUS
    <3>1. i \in 1..Len(gpu) /\ gpu'[i] = gpu[i]
      BY <1>4
    <3>2. CASE j \in 1..Len(gpu)
      <4>1. gpu'[j] = gpu[j]
        BY <1>4, <3>2
      <4>2. QED
        BY <3>1, <3>2, <4>1 DEF DrawnHasArrived
    <3>3. CASE j = Len(gpu) + 1
      <4>1. gpu'[j].slot = drawSlot
        BY <1>2, <1>4, <3>3
      <4>2. SUFFICES ASSUME gpu[i] = Transfer(drawSlot) PROVE FALSE
        BY <3>1, <4>1
      <4>3. gpu[i].type = "transfer" /\ gpu[i].id = drawSlot
        BY <4>2, TransferFields
      <4>4. gpu[i] \in Submissions
        BY <1>3, <3>1
      <4>5. drawSlot \in Slots
        BY <4>3, <4>4, SubmissionKinds
      <4>6. fence[drawSlot]
        BY <4>5, GpuAssumption DEF DrawnHasArrived, Slots
      <4>7. QED
        BY <3>1, <4>3, <4>6 DEF TransfersMatch
    <3>4. QED
      BY <1>5, <3>2, <3>3
  <2>3. QED
    BY <2>1, <2>2 DEF DrawnHasArrived
<1>13. QED
  BY <1>6, <1>7, <1>10, <1>11, <1>12

(* The device finishes what it has had longest, and signals its fence: there *)
(* is no other submission with that fence.                                  *)
LEMMA FinishKeeps ==
    ASSUME GpuInv, Finish, pc' = pc
    PROVE  GpuInv'
<1> DEFINE done == gpu[1]
<1> USE DEF GpuInv
<1>1. /\ gpu # <<>> /\ gpu \in Seq(Submissions)
      /\ gpu' = Tail(gpu)
      /\ pending' = pending /\ drawSlot' = drawSlot
      /\ current' = current /\ poll' = poll
  BY DEF Finish, GpuTypeOK
<1>2. /\ gpu' \in Seq(Submissions)
      /\ Len(gpu') = Len(gpu) - 1 /\ Len(gpu) \in Nat \ {0}
      /\ \A i \in 1..Len(gpu') : gpu'[i] = gpu[i + 1]
      /\ Head(gpu) = done /\ done \in Submissions
  BY <1>1, Advanced
<1>3. \/ /\ done.type = "transfer" /\ done.id \in Slots /\ done = Transfer(done.id)
         /\ fence' = [fence EXCEPT ![done.id] = TRUE] /\ inFlight' = inFlight
      \/ /\ done.type = "draw" /\ done.id \in InFlight
         /\ inFlight' = [inFlight EXCEPT ![done.id] = TRUE] /\ fence' = fence
  BY <1>2, SubmissionKinds DEF Finish
<1> HIDE DEF done
<1>4. \A i \in 1..Len(gpu') : i + 1 \in 1..Len(gpu) /\ i + 1 # 1 /\ gpu'[i] = gpu[i + 1]
  BY <1>2
<1>5. \A i \in 1..Len(gpu) : i # 1 => i - 1 \in 1..Len(gpu') /\ gpu'[i - 1] = gpu[i]
  BY <1>2
<1>6. 1 \in 1..Len(gpu) /\ gpu[1] = done
  BY <1>2 DEF done
<1>7. GpuTypeOK'
  BY <1>1, <1>2, <1>3 DEF GpuTypeOK
<1>8. \A t \in Slots : fence[t] => fence'[t]
  BY <1>3 DEF GpuTypeOK
<1>9. TransfersMatch'
  <2>1. \A i, j \in 1..Len(gpu') :
            gpu'[i].type = "transfer" /\ gpu'[i] = gpu'[j] => i = j
    <3> SUFFICES ASSUME NEW i \in 1..Len(gpu'), NEW j \in 1..Len(gpu'),
                        gpu'[i].type = "transfer", gpu'[i] = gpu'[j]
                 PROVE  i = j
      OBVIOUS
    <3>1. i + 1 = j + 1
      BY <1>4 DEF TransfersMatch
    <3>2. QED
      BY <3>1
  <2>2. CASE done.type = "transfer"
    <3>1. done.id \in Slots /\ done = Transfer(done.id)
      BY <1>3, <2>2
    <3>2. \A t \in Slots : fence'[t] = (fence[t] \/ t = done.id)
      BY <1>3, <2>2 DEF GpuTypeOK
    <3>3. \A t \in Slots : ~fence'[t] => \E i \in 1..Len(gpu') : gpu'[i] = Transfer(t)
      <4> SUFFICES ASSUME NEW t \in Slots, ~fence'[t]
                   PROVE  \E i \in 1..Len(gpu') : gpu'[i] = Transfer(t)
        OBVIOUS
      <4>1. PICK i \in 1..Len(gpu) : gpu[i] = Transfer(t)
        BY <3>2 DEF TransfersMatch
      <4>2. done.id # t
        BY <3>2
      <4>3. i # 1
        BY <1>6, <4>1, <4>2, TransferFields
      <4>4. QED
        BY <1>5, <4>1, <4>3
    <3>4. \A i \in 1..Len(gpu') : gpu'[i].type = "transfer" => ~fence'[gpu'[i].id]
      <4> SUFFICES ASSUME NEW i \in 1..Len(gpu'), gpu'[i].type = "transfer"
                   PROVE  ~fence'[gpu'[i].id]
        OBVIOUS
      <4>1. i + 1 \in 1..Len(gpu) /\ i + 1 # 1 /\ gpu'[i] = gpu[i + 1]
        BY <1>4
      <4>2. gpu[i + 1] \in Submissions
        BY <1>1, <4>1
      <4>3. gpu[i + 1].id \in Slots /\ gpu[i + 1] = Transfer(gpu[i + 1].id)
        BY <4>1, <4>2, SubmissionKinds
      <4>4. ~fence[gpu[i + 1].id]
        BY <4>1 DEF TransfersMatch
      <4>5. gpu[i + 1] # gpu[1]
        BY <1>6, <4>1 DEF TransfersMatch
      <4>6. gpu[i + 1].id # done.id
        BY <1>6, <3>1, <4>3, <4>5
      <4>7. QED
        BY <3>2, <4>1, <4>3, <4>4, <4>6
    <3>5. QED
      BY <2>1, <3>3, <3>4 DEF TransfersMatch
  <2>3. CASE done.type = "draw"
    <3>1. fence' = fence
      BY <1>3, <2>3
    <3>2. \A t \in Slots : ~fence'[t] => \E i \in 1..Len(gpu') : gpu'[i] = Transfer(t)
      <4> SUFFICES ASSUME NEW t \in Slots, ~fence'[t]
                   PROVE  \E i \in 1..Len(gpu') : gpu'[i] = Transfer(t)
        OBVIOUS
      <4>1. PICK i \in 1..Len(gpu) : gpu[i] = Transfer(t)
        BY <3>1 DEF TransfersMatch
      <4>2. i # 1
        BY <1>6, <2>3, <4>1, TransferFields
      <4>3. QED
        BY <1>5, <4>1, <4>2
    <3>3. \A i \in 1..Len(gpu') : gpu'[i].type = "transfer" => ~fence'[gpu'[i].id]
      BY <1>4, <3>1 DEF TransfersMatch
    <3>4. QED
      BY <2>1, <3>2, <3>3 DEF TransfersMatch
  <2>4. QED
    BY <1>3, <2>2, <2>3
<1>10. DrawsMatch'
  <2>1. \A i, j \in 1..Len(gpu') :
            gpu'[i].type = "draw" /\ gpu'[j].type = "draw" /\ gpu'[i].id = gpu'[j].id => i = j
    <3> SUFFICES ASSUME NEW i \in 1..Len(gpu'), NEW j \in 1..Len(gpu'),
                        gpu'[i].type = "draw", gpu'[j].type = "draw",
                        gpu'[i].id = gpu'[j].id
                 PROVE  i = j
      OBVIOUS
    <3>1. i + 1 = j + 1
      BY <1>4, SMTT(30) DEF DrawsMatch
    <3>2. QED
      BY <3>1
  <2>2. CASE done.type = "draw"
    <3>1. \A f \in InFlight : inFlight'[f] = (inFlight[f] \/ f = done.id)
      BY <1>3, <2>2 DEF GpuTypeOK
    <3>2. \A f \in InFlight : ~inFlight'[f] =>
              \E i \in 1..Len(gpu') : gpu'[i].type = "draw" /\ gpu'[i].id = f
      <4> SUFFICES ASSUME NEW f \in InFlight, ~inFlight'[f]
                   PROVE  \E i \in 1..Len(gpu') : gpu'[i].type = "draw" /\ gpu'[i].id = f
        OBVIOUS
      <4>1. PICK i \in 1..Len(gpu) : gpu[i].type = "draw" /\ gpu[i].id = f
        BY <3>1 DEF DrawsMatch
      <4>2. i # 1
        BY <1>6, <3>1, <4>1
      <4>3. QED
        BY <1>5, <4>1, <4>2
    <3>3. \A i \in 1..Len(gpu') : gpu'[i].type = "draw" => ~inFlight'[gpu'[i].id]
      <4> SUFFICES ASSUME NEW i \in 1..Len(gpu'), gpu'[i].type = "draw"
                   PROVE  ~inFlight'[gpu'[i].id]
        OBVIOUS
      <4>1. i + 1 \in 1..Len(gpu) /\ i + 1 # 1 /\ gpu'[i] = gpu[i + 1]
        BY <1>4
      <4>2. gpu[i + 1] \in Submissions
        BY <1>1, <4>1
      <4>3. gpu[i + 1].id \in InFlight
        BY <4>1, <4>2, SubmissionKinds
      <4>4. ~inFlight[gpu[i + 1].id]
        BY <4>1 DEF DrawsMatch
      <4>5. gpu[i + 1].id # done.id
        BY <1>6, <2>2, <4>1 DEF DrawsMatch
      <4>6. QED
        BY <3>1, <4>1, <4>3, <4>4, <4>5
    <3>4. QED
      BY <2>1, <3>2, <3>3 DEF DrawsMatch
  <2>3. CASE done.type = "transfer"
    <3>1. inFlight' = inFlight
      BY <1>3, <2>3
    <3>2. \A f \in InFlight : ~inFlight'[f] =>
              \E i \in 1..Len(gpu') : gpu'[i].type = "draw" /\ gpu'[i].id = f
      <4> SUFFICES ASSUME NEW f \in InFlight, ~inFlight'[f]
                   PROVE  \E i \in 1..Len(gpu') : gpu'[i].type = "draw" /\ gpu'[i].id = f
        OBVIOUS
      <4>1. PICK i \in 1..Len(gpu) : gpu[i].type = "draw" /\ gpu[i].id = f
        BY <3>1 DEF DrawsMatch
      <4>2. i # 1
        BY <1>6, <2>3, <4>1
      <4>3. QED
        BY <1>5, <4>1, <4>2
    <3>3. \A i \in 1..Len(gpu') : gpu'[i].type = "draw" => ~inFlight'[gpu'[i].id]
      BY <1>4, <3>1 DEF DrawsMatch
    <3>4. QED
      BY <2>1, <3>2, <3>3 DEF DrawsMatch
  <2>4. QED
    BY <1>3, <2>2, <2>3
<1>11. PollIsApart'
  <2>1. poll.best >= 0 => poll.best \in Slots
    BY GpuAssumption DEF GpuTypeOK, Slots
  <2>2. QED
    BY <1>1, <1>8, <2>1 DEF PollIsApart
<1>12. DrawnHasArrived'
  <2>1. drawSlot >= 0 => drawSlot \in Slots
    BY GpuAssumption DEF GpuTypeOK, Slots
  <2>2. drawSlot' >= 0 => fence'[drawSlot']
    BY <1>1, <1>8, <2>1 DEF DrawnHasArrived
  <2>3. \A j \in 1..Len(gpu') : gpu'[j].type = "draw" =>
            \A i \in 1..j - 1 : gpu'[i] # Transfer(gpu'[j].slot)
    <3> SUFFICES ASSUME NEW j \in 1..Len(gpu'), gpu'[j].type = "draw",
                        NEW i \in 1..j - 1
                 PROVE  gpu'[i] # Transfer(gpu'[j].slot)
      OBVIOUS
    <3>1. j + 1 \in 1..Len(gpu) /\ gpu'[j] = gpu[j + 1]
      BY <1>4
    <3>2. i + 1 \in 1..(j + 1) - 1 /\ gpu'[i] = gpu[i + 1]
      BY <1>2
    <3>3. QED
      BY <3>1, <3>2 DEF DrawnHasArrived
  <2>4. QED
    BY <2>2, <2>3 DEF DrawnHasArrived
<1>13. QED
  BY <1>7, <1>9, <1>10, <1>11, <1>12

-----------------------------------------------------------------------------
LEMMA NextKeepsGpuInv ==
    ASSUME GpuInv, [Next]_vars
    PROVE  GpuInv'
<1>1. CASE Command
  BY <1>1, GpuUndisturbed DEF Command, CycleDecimationMode
<1>2. CASE Resized
  BY <1>2, GpuUndisturbed DEF Resized
<1>3. CASE Feed
  BY <1>3, GpuUndisturbed DEF Feed
<1>4. CASE Upload
  BY <1>4, UploadKeeps
<1>5. CASE SwapBuffers
  <2>1. pc = "swap" /\ ((PollSlot /\ pc' = pc) \/ (Swap /\ pc' = "draw"))
    BY <1>5 DEF SwapBuffers
  <2>2. CASE PollSlot /\ pc' = pc
    BY <2>1, <2>2, PollSlotKeeps
  <2>3. CASE Swap /\ pc' = "draw"
    BY <2>3, SwapKeeps
  <2>4. QED
    BY <2>1, <2>2, <2>3
<1>6. CASE StepSpan
  BY <1>6, GpuUndisturbed DEF StepSpan
<1>7. CASE Draw
  <2>1. CASE NoImage
    BY <1>7, <2>1, GpuUndisturbed DEF Draw, NoImage
  <2>2. CASE SubmitDraw
    BY <1>7, <2>2, SubmitDrawKeeps DEF Draw
  <2>3. QED
    BY <1>7, <2>1, <2>2 DEF Draw
<1>8. CASE Recreated
  BY <1>8, GpuUndisturbed DEF Recreated, Recreate
<1>9. CASE SignalStep /\ UNCHANGED <<gpuVars, pc, commands, viz>>
  BY <1>9, GpuUndisturbed
<1>10. CASE Finish /\ UNCHANGED <<signal, pc, commands, viz>>
  BY <1>10, FinishKeeps
<1>11. CASE UNCHANGED vars
  BY <1>11, GpuUndisturbed DEF vars
<1>12. QED
  BY <1>1, <1>2, <1>3, <1>4, <1>5, <1>6, <1>7, <1>8, <1>9, <1>10, <1>11 DEF Next, Pass

(* The passes of the loop and the device keep the slots, the fences and the  *)
(* queue in step (GpuInv), for every number of slots and frames in flight.  *)
THEOREM GpuInvariant == Spec => []GpuInv
<1>1. Init => GpuInv
  BY InitGpuInv
<1>2. GpuInv /\ [Next]_vars => GpuInv'
  BY NextKeepsGpuInv
<1>3. QED
  BY <1>1, <1>2, PTL DEF Spec

(* What is drawn has arrived: no transfer goes to the slot on show, and no   *)
(* drawing is queued behind a transfer into its own slot.  The reverse, a   *)
(* transfer queued behind a drawing of its slot, does happen                *)
(* (buffer_manager.cpp: find_free_slot, upload_streaming, try_swap).        *)
THEOREM ArrivesBeforeDrawn == Spec => []DrawnHasArrived
<1>1. GpuInv => DrawnHasArrived
  BY DEF GpuInv
<1>2. QED
  BY <1>1, GpuInvariant, PTL

(* A fence that is not signalled belongs to a submission the device still    *)
(* has, so the waits of upload_streaming and draw_frame, which have no      *)
(* timeout, end with the device.                                            *)
THEOREM FencesReturn == Spec => []FencesComeBack
<1>1. GpuInv => FencesComeBack
  BY DEF GpuInv, GpuTypeOK, TransfersMatch, DrawsMatch, FencesComeBack
<1>2. QED
  BY <1>1, GpuInvariant, PTL

-----------------------------------------------------------------------------
(* Quotient and remainder of any divisor, and that there are no others.     *)
LEMMA DivMod ==
    ASSUME NEW a \in Int, NEW n \in Nat \ {0}
    PROVE  /\ a \div n \in Int /\ a % n \in 0..n - 1
           /\ a = n * (a \div n) + (a % n)
  OBVIOUS

LEMMA Between ==
    ASSUME NEW n \in Nat \ {0}, NEW d \in Int, n * d < n, n * d > 0 - n
    PROVE  d = 0
<1>1. CASE d >= 1
  <2>1. n * d >= n * 1
    BY <1>1
  <2> QED
    BY <2>1
<1>2. CASE d =< -1
  <2>1. n * d =< n * (-1)
    BY <1>2
  <2> QED
    BY <2>1
<1> QED
  BY <1>1, <1>2

LEMMA ModUnique ==
    ASSUME NEW a \in Int, NEW n \in Nat \ {0}, NEW q \in Int, NEW r \in 0..n - 1,
           a = n * q + r
    PROVE  a % n = r /\ a \div n = q
<1>1. /\ a \div n \in Int /\ a % n \in 0..n - 1
      /\ a = n * (a \div n) + (a % n)
  BY DivMod
<1>2. PICK e \in Int : e = a \div n
  BY <1>1
<1>3. PICK s \in 0..n - 1 : s = a % n
  BY <1>1
<1>4. n * q + r = n * e + s
  BY <1>1, <1>2, <1>3
<1>5. n * (q - e) = n * q - n * e
  OBVIOUS
<1>6. n * (q - e) < n /\ n * (q - e) > 0 - n
  BY <1>4, <1>5
<1>7. q - e = 0
  BY <1>6, Between
<1> QED
  BY <1>2, <1>3, <1>4, <1>7

(* To go on from a place in a period is to go on from its remainder.       *)
LEMMA ModShift ==
    ASSUME NEW a \in Int, NEW k \in Int, NEW n \in Nat \ {0}
    PROVE  ((a % n) + k) % n = (a + k) % n
<1>1. PICK q \in Int, r \in 0..n - 1 : a = n * q + r /\ a % n = r
  BY DivMod
<1>2. PICK p \in Int, s \in 0..n - 1 : r + k = n * p + s /\ (r + k) % n = s
  <2>1. r + k \in Int
    OBVIOUS
  <2> QED
    BY <2>1, DivMod
<1>3. a + k = n * (q + p) + s
  <2>1. n * (q + p) = n * q + n * p
    OBVIOUS
  <2> QED
    BY <1>1, <1>2, <2>1
<1>4. (a + k) % n = s
  <2>1. a + k \in Int /\ q + p \in Int
    OBVIOUS
  <2>2. PICK c \in Int : c = a + k
    BY <2>1
  <2>3. PICK d \in Int : d = q + p
    BY <2>1
  <2>4. c = n * d + s
    BY <1>3, <2>2, <2>3
  <2>5. c % n = s
    BY <2>4, ModUnique
  <2> QED
    BY <2>2, <2>5
<1> QED
  BY <1>1, <1>2, <1>4

(* The library's Max of a set that ends is one of its elements, the last.   *)
LEMMA GreatestElement ==
    ASSUME NEW B \in Nat, NEW S, S \subseteq 0..B, S # {}
    PROVE  Max(S) \in S /\ \A y \in S : y =< Max(S)
<1> DEFINE T == {B - x : x \in S}
<1>1. T \subseteq Nat /\ T # {}
  <2>1. \A x \in S : B - x \in Nat
    OBVIOUS
  <2>2. \A t \in T : t \in Nat
    BY <2>1
  <2>3. PICK x \in S : TRUE
    OBVIOUS
  <2>4. B - x \in T
    OBVIOUS
  <2>5. QED
    BY <2>2, <2>4
<1>2. Min(T) \in T /\ \A t \in T : Min(T) =< t
  BY <1>1, LeastElement
<1>3. PICK x \in S : Min(T) = B - x
  BY <1>2
<1>4. \A y \in S : y =< x
  <2> TAKE y \in S
  <2>1. B - x =< B - y
    BY <1>2, <1>3
  <2>2. QED
    BY <2>1
<1>5. QED
  BY <1>4 DEF Max

(* The buckets MinMax makes lie in the batch and have one of the two sizes  *)
(* the verifier builds its windows for (decimator.cpp:95).                  *)
LEMMA BucketSize ==
    ASSUME NEW n \in Nat, NEW m \in Nat \ {0}, n >= m, NEW b \in 0..m - 1
    PROVE  LET w == BucketLast(b, n, m) - BucketFirst(b, n, m) + 1
           IN  /\ BucketFirst(b, n, m) \in 1..n
               /\ BucketLast(b, n, m) \in 1..n
               /\ w \in Nat \ {0}
               /\ w \in {n \div m, n \div m + 1}
<1>1. b * n \in Int /\ (b + 1) * n \in Int /\ (b + 1) * n = b * n + n
  OBVIOUS
<1>2. PICK x \in Int, r \in 0..m - 1 : b * n = m * x + r /\ (b * n) \div m = x
  BY <1>1, DivMod
<1>3. PICK y \in Int, s \in 0..m - 1 : (b + 1) * n = m * y + s /\ ((b + 1) * n) \div m = y
  BY <1>1, DivMod
<1>4. PICK q \in Int, t \in 0..m - 1 : n = m * q + t /\ n \div m = q
  BY DivMod
<1>5. y - x \in {q, q + 1}
  <2>1. m * (y - x - q) = m * y - m * x - m * q
    OBVIOUS
  <2>2. m * (y - x - q) = r + t - s
    BY <1>1, <1>2, <1>3, <1>4, <2>1
  <2>3. m * (y - x - q) > 0 - m /\ m * (y - x - q) < 2 * m
    BY <2>2
  <2>4. y - x - q = 0 \/ y - x - q = 1
    <3>1. CASE y - x - q =< -1
      <4>1. m * (y - x - q) =< m * (-1)
        BY <3>1
      <4>2. QED
        BY <2>3, <4>1
    <3>2. CASE y - x - q >= 2
      <4>1. m * (y - x - q) >= m * 2
        BY <3>2
      <4>2. QED
        BY <2>3, <4>1
    <3>3. QED
      BY <3>1, <3>2
  <2>5. QED
    BY <2>4
<1>6. q >= 1
  <2>1. CASE q =< 0
    <3>1. m * q =< 0
      BY <2>1
    <3>2. QED
      BY <1>4, <3>1
  <2>2. QED
    BY <2>1
<1>7. x >= 0
  <2>1. b * n >= 0
    OBVIOUS
  <2>2. CASE x =< -1
    <3>1. m * x =< m * (-1)
      BY <2>2
    <3>2. QED
      BY <1>2, <2>1, <3>1
  <2>3. QED
    BY <2>2
<1>8. y =< n
  <2>1. (b + 1) * n =< m * n
    OBVIOUS
  <2>2. CASE y >= n + 1
    <3>1. m * y >= m * (n + 1)
      BY <2>2
    <3>2. m * (n + 1) = m * n + m
      OBVIOUS
    <3>3. QED
      BY <1>3, <2>1, <3>1, <3>2
  <2>3. QED
    BY <2>2
<1>9. QED
  BY <1>2, <1>3, <1>4, <1>5, <1>6, <1>7, <1>8 DEF BucketFirst, BucketLast

(* On a ramp the extremes of the samples are the samples of the extremes.   *)
LEMMA ExtremesOfValues ==
    ASSUME NEW n \in Nat, NEW R, R \subseteq 0..n, R # {}
    PROVE  /\ Min({Value(r) : r \in R}) = Value(Min(R))
           /\ Max({Value(r) : r \in R}) = Value(Max(R))
<1> DEFINE V == {Value(r) : r \in R}
<1>1. R \subseteq Nat
  OBVIOUS
<1>2. Min(R) \in R /\ \A r \in R : Min(R) =< r
  BY <1>1, LeastElement
<1>3. Max(R) \in R /\ \A r \in R : r =< Max(R)
  BY GreatestElement
<1>4. V \subseteq 0..3 * n /\ V # {} /\ 3 * n \in Nat
  <2>1. \A r \in R : Value(r) \in 0..3 * n
    BY DEF Value
  <2>2. \A v \in V : v \in 0..3 * n
    BY <2>1
  <2>3. PICK r \in R : TRUE
    OBVIOUS
  <2>4. Value(r) \in V
    OBVIOUS
  <2>5. QED
    BY <2>2, <2>4
<1>5. V \subseteq Nat
  BY <1>4
<1>6. Min(V) \in V /\ \A v \in V : Min(V) =< v
  BY <1>4, <1>5, LeastElement
<1>7. Max(V) \in V /\ \A v \in V : v =< Max(V)
  BY <1>4, GreatestElement
<1>8. Value(Min(R)) \in V /\ Value(Max(R)) \in V
  BY <1>2, <1>3
<1>9. \A v \in V : Value(Min(R)) =< v /\ v =< Value(Max(R))
  <2> TAKE v \in V
  <2>1. PICK r \in R : v = Value(r)
    OBVIOUS
  <2>2. PICK lo \in Nat, hi \in Nat : lo = Min(R) /\ hi = Max(R)
    BY <1>1, <1>2, <1>3
  <2>3. lo =< r /\ r =< hi /\ r \in Nat
    BY <1>1, <1>2, <1>3, <2>2
  <2>4. QED
    BY <2>1, <2>2, <2>3 DEF Value
<1> HIDE DEF V
<1>10. Min(V) = Value(Min(R))
  <2>1. PICK x \in V, y \in V : x = Min(V) /\ y = Value(Min(R))
    BY <1>6, <1>8
  <2>2. x =< y /\ y =< x
    BY ONLY <1>6, <1>9, <2>1
  <2>3. QED
    BY <1>5, <2>1, <2>2
<1>11. Max(V) = Value(Max(R))
  <2>1. PICK x \in V, y \in V : x = Max(V) /\ y = Value(Max(R))
    BY <1>7, <1>8
  <2>2. x =< y /\ y =< x
    BY ONLY <1>7, <1>9, <2>1
  <2>3. QED
    BY <1>5, <2>1, <2>2
<1>12. QED
  BY <1>10, <1>11 DEF V

(* A window no shorter than the period sees all of it.                      *)
LEMMA WholePeriod ==
    ASSUME NEW n \in Nat \ {0}, NEW w \in Nat, w >= n, NEW a \in Nat
    PROVE  {(a + k) % n : k \in 0..w - 1} = 0..n - 1
<1>1. \A k \in 0..w - 1 : (a + k) % n \in 0..n - 1
  BY DivMod
<1>2. ASSUME NEW r \in 0..n - 1
      PROVE  \E k \in 0..w - 1 : (a + k) % n = r
  <2>1. PICK k \in 0..n - 1 : k = (r - a) % n
    <3>1. r - a \in Int
      OBVIOUS
    <3>2. QED
      BY <3>1, DivMod
  <2>2. (k + a) % n = ((r - a) + a) % n
    <3>1. r - a \in Int /\ a \in Int
      OBVIOUS
    <3>2. QED
      BY <2>1, <3>1, ModShift
  <2>3. (r - a) + a = r /\ k + a = a + k
    OBVIOUS
  <2>4. r % n = r
    <3>1. r = n * 0 + r /\ r \in Int
      OBVIOUS
    <3>2. QED
      BY <3>1, ModUnique
  <2>5. (a + k) % n = r
    BY <2>2, <2>3, <2>4
  <2>6. k \in 0..w - 1
    OBVIOUS
  <2>7. QED
    BY <2>5, <2>6
<1>3. QED
  BY <1>1, <1>2

(* The places of a period that w samples from place a on are of. *)
Places(rate, a, w) == {(a + k) % Period[rate] : k \in 0..w - 1}

(* Wherever a run of samples starts, also across the end of the period,     *)
(* build_window_set has its extremes (envelope_verifier.cpp:108).           *)
LEMMA WindowKnown ==
    ASSUME NEW rate \in Rates, NEW w \in Nat \ {0}, NEW a \in Nat
    PROVE  LET R == Places(rate, a, w)
           IN  /\ R \subseteq 0..Period[rate] - 1 /\ R # {}
               /\ <<Value(Min(R)), Value(Max(R))>> \in WindowSet(rate, w)
<1> DEFINE R == Places(rate, a, w)
           len == Period[rate]
<1>1. len \in Nat \ {0}
  BY SignalAssumption
<1> HIDE DEF len
<1>2. R = {(a + k) % len : k \in 0..w - 1}
  BY DEF Places, len
<1>3. \A k \in 0..w - 1 : (a + k) % len \in 0..len - 1
  BY <1>1, DivMod
<1> HIDE DEF R
<1>4. R \subseteq 0..len - 1
  BY <1>2, <1>3
<1>5. R # {}
  <2>1. 0 \in 0..w - 1
    OBVIOUS
  <2>2. (a + 0) % len \in R
    BY <1>2, <2>1
  <2>3. QED
    BY <2>2
<1>6. <<Value(Min(R)), Value(Max(R))>> \in WindowSet(rate, w)
  <2>1. CASE w >= len
    <3>1. R = 0..len - 1
      BY <1>1, <1>2, <2>1, WholePeriod
    <3>2. WindowSet(rate, w) = {<<Value(Min(0..len - 1)), Value(Max(0..len - 1))>>}
      BY <2>1 DEF WindowSet, len
    <3>3. QED
      BY <3>1, <3>2
  <2>2. CASE ~(w >= len)
    <3> DEFINE run(t) == {(t + i) % len : i \in 0..w - 1}
    <3>1. PICK s \in 0..len - 1 : s = a % len
      BY <1>1, DivMod
    <3>2. \A k \in 0..w - 1 : (s + k) % len = (a + k) % len
      <4> TAKE k \in 0..w - 1
      <4>1. a \in Int /\ k \in Int
        OBVIOUS
      <4>2. QED
        BY <1>1, <3>1, <4>1, ModShift
    <3>3. R = run(s)
      BY <1>2, <3>2
    <3>4. WindowSet(rate, w) = {<<Value(Min(run(t))), Value(Max(run(t)))>> : t \in 0..len - 1}
      BY <2>2 DEF WindowSet, len
    <3> HIDE DEF run
    <3>5. QED
      BY <3>1, <3>3, <3>4
  <2>3. QED
    BY <2>1, <2>2
<1>7. QED
  BY <1>4, <1>5, <1>6 DEF R, len

(* So it has those of any bucket of a batch that was tiled from any place.  *)
LEMMA TiledBucket ==
    ASSUME NEW rate \in Rates, NEW pos \in Nat, NEW lo \in 1..Batch[rate],
           NEW hi \in 1..Batch[rate], NEW w \in Nat \ {0}, w = hi - lo + 1
    PROVE  LET in == {Tiled(rate, pos, Batch[rate])[i] : i \in lo..hi}
           IN  /\ <<Min(in), Max(in)>> \in WindowSet(rate, w)
               /\ Min(in) \in Int /\ Max(in) \in Int
<1>1. PICK n \in Nat \ {0} : n = Period[rate]
  BY SignalAssumption
<1>2. PICK a \in Nat : a = pos + lo - 1
  BY SignalAssumption
<1> DEFINE R == Places(rate, a, w)
           in == {Tiled(rate, pos, Batch[rate])[i] : i \in lo..hi}
<1>3. \A i \in lo..hi : /\ Tiled(rate, pos, Batch[rate])[i] = Value((a + (i - lo)) % Period[rate])
                        /\ i - lo \in 0..w - 1
  <2> TAKE i \in lo..hi
  <2>1. pos + i - 1 = a + (i - lo) /\ i - lo \in 0..w - 1 /\ i \in 1..Batch[rate]
    BY <1>2, SignalAssumption
  <2>2. Tiled(rate, pos, Batch[rate])[i] = Value((pos + i - 1) % Period[rate])
    BY <2>1 DEF Tiled
  <2>3. QED
    BY <2>1, <2>2
<1>4. \A k \in 0..w - 1 : \E i \in lo..hi : i - lo = k
  <2> TAKE k \in 0..w - 1
  <2>1. lo + k \in lo..hi /\ (lo + k) - lo = k
    BY SignalAssumption
  <2>2. QED
    BY <2>1
<1>5. in = {Value(r) : r \in R}
  <2>1. \A x \in in : \E r \in R : x = Value(r)
    BY <1>3 DEF Places
  <2>2. \A r \in R : \E i \in lo..hi : Value(r) = Tiled(rate, pos, Batch[rate])[i]
    <3> SUFFICES ASSUME NEW k \in 0..w - 1
                 PROVE  \E i \in lo..hi :
                            Value((a + k) % Period[rate]) = Tiled(rate, pos, Batch[rate])[i]
      BY DEF Places
    <3>1. PICK i \in lo..hi : i - lo = k
      BY <1>4
    <3>2. QED
      BY <1>3, <3>1
  <2>3. QED
    BY <2>1, <2>2
<1>6. /\ R \subseteq 0..Period[rate] - 1 /\ R # {}
      /\ <<Value(Min(R)), Value(Max(R))>> \in WindowSet(rate, w)
  BY WindowKnown
<1>7. R \subseteq 0..n - 1 /\ n - 1 \in Nat
  BY <1>1, <1>6
<1> HIDE DEF R, in
<1>8. Min(in) = Value(Min(R)) /\ Max(in) = Value(Max(R))
  BY <1>5, <1>6, <1>7, ExtremesOfValues
<1>9. /\ <<Min(in), Max(in)>> \in WindowSet(rate, w)
      /\ Min(in) \in Int /\ Max(in) \in Int
  <2>1. R \subseteq Nat
    BY <1>7
  <2>2. Min(R) \in R /\ Max(R) \in R
    <3>1. Min(R) \in R
      BY <1>6, <2>1, LeastElement
    <3>2. Max(R) \in R
      BY <1>6, <1>7, GreatestElement
    <3>3. QED
      BY <3>1, <3>2
  <2>3. \A z \in Int : Value(z) \in Int
    BY DEF Value
  <2>4. QED
    <3>1. \A e \in R : e \in Int
      BY <2>1
    <3>2. Min(R) \in Int /\ Max(R) \in Int
      BY <2>2, <3>1
    <3>3. QED
      BY <1>6, <1>8, <2>3, <3>2
<1>10. QED
  BY <1>9 DEF in

(* Counts that give m buckets of the same size.                             *)
SameSize(c, n, m) == c \div m = n \div m

(* The verifier accepts what MinMax makes of a tiled batch, for any count    *)
(* that gives buckets of the same size.                                     *)
LEMMA EnvelopeOfTiled ==
    ASSUME NEW rate \in Rates, NEW pos \in Nat, NEW x,
           x = MinMax(Tiled(rate, pos, Batch[rate]), Target),
           NEW c \in Nat, SameSize(c, Batch[rate], Len(x) \div 2)
    PROVE  Verifies(x, rate, c)
<1>1. PICK n \in Nat : n = Batch[rate] /\ n > Target
  BY SignalAssumption
<1>2. PICK m \in Nat \ {0} : m = Target \div 2 /\ 2 * m =< Target
  BY SignalAssumption
<1> DEFINE wave == Tiled(rate, pos, Batch[rate])
           pts == MinMax(wave, Target)
           in(b) == {wave[i] : i \in BucketFirst(b, n, m)..BucketLast(b, n, m)}
<1>3. Len(wave) = n
  BY <1>1 DEF Tiled
<1> HIDE DEF wave
<1>4. pts = [j \in 1..2 * m |-> IF j % 2 = 1 THEN Min(in((j - 1) \div 2))
                                ELSE Max(in((j - 1) \div 2))]
  BY <1>1, <1>2, <1>3, SignalAssumption DEF MinMax
<1> HIDE DEF pts
<1>5. Len(pts) = 2 * m /\ Len(pts) \div 2 = m
  BY <1>4
<1>6. ~(n < m) /\ n >= m /\ n \div m \in Nat \ {0}
  <2>1. n >= m
    BY <1>1, <1>2, SignalAssumption
  <2>2. /\ n \div m \in Int /\ n % m \in 0..m - 1
        /\ n = m * (n \div m) + (n % m)
    BY DivMod
  <2>3. PICK q \in Int : q = n \div m /\ n < m * q + m
    BY <2>2
  <2>4. CASE q =< 0
    <3>1. m * q =< 0
      BY <2>4
    <3>2. QED
      BY <2>1, <2>3, <3>1
  <2>5. QED
    BY <2>1, <2>3, <2>4
<1>7. \A b \in 0..m - 1 :
          /\ <<pts[2 * b + 1], pts[2 * b + 2]>>
                 \in WindowSet(rate, n \div m) \cup WindowSet(rate, n \div m + 1)
          /\ pts[2 * b + 1] \in Int /\ pts[2 * b + 2] \in Int
  <2> TAKE b \in 0..m - 1
  <2>1. /\ 2 * b + 1 \in 1..2 * m /\ (2 * b + 1) % 2 = 1 /\ ((2 * b + 1) - 1) \div 2 = b
        /\ 2 * b + 2 \in 1..2 * m /\ (2 * b + 2) % 2 = 0 /\ ((2 * b + 2) - 1) \div 2 = b
    OBVIOUS
  <2>2. pts[2 * b + 1] = Min(in(b)) /\ pts[2 * b + 2] = Max(in(b))
    <3>1. PICK i \in 1..2 * m, j \in 1..2 * m :
              /\ i = 2 * b + 1 /\ i % 2 = 1 /\ (i - 1) \div 2 = b
              /\ j = 2 * b + 2 /\ j % 2 = 0 /\ (j - 1) \div 2 = b
      BY <2>1
    <3>2. pts[i] = Min(in((i - 1) \div 2)) /\ pts[j] = Max(in((j - 1) \div 2))
      BY <1>4, <3>1
    <3>3. QED
      BY <3>1, <3>2
  <2>3. PICK lo \in 1..n, hi \in 1..n, w \in Nat \ {0} :
            /\ lo = BucketFirst(b, n, m) /\ hi = BucketLast(b, n, m)
            /\ w = hi - lo + 1 /\ w \in {n \div m, n \div m + 1}
    BY <1>6, BucketSize
  <2>4. /\ <<Min(in(b)), Max(in(b))>> \in WindowSet(rate, w)
        /\ Min(in(b)) \in Int /\ Max(in(b)) \in Int
    <3> USE DEF wave
    <3>1. LET S == {wave[i] : i \in lo..hi}
          IN  /\ <<Min(S), Max(S)>> \in WindowSet(rate, w)
              /\ Min(S) \in Int /\ Max(S) \in Int
      BY <1>1, <2>3, TiledBucket
    <3>2. QED
      BY <2>3, <3>1
  <2>5. QED
    BY <2>2, <2>3, <2>4
<1>8. Verifies(pts, rate, c)
  <2>1. PICK k \in Nat \ {0} : k = n \div m
    BY <1>6
  <2>2. c \div m = k
    <3>1. SameSize(c, n, m)
      BY <1>1, <1>5 DEF pts, wave
    <3>2. QED
      BY <2>1, <3>1 DEF SameSize
  <2>3. ~(c < m)
    <3>1. c < m => c \div m = 0
      OBVIOUS
    <3>2. QED
      BY <2>1, <2>2, <3>1
  <2>4. \A b \in 0..m - 1 : pts[2 * b + 1] + 0 = pts[2 * b + 1] /\ pts[2 * b + 2] + 0 = pts[2 * b + 2]
    <3> TAKE b \in 0..m - 1
    <3>1. PICK u \in Int, v \in Int : u = pts[2 * b + 1] /\ v = pts[2 * b + 2]
      BY <1>7
    <3>2. u + 0 = u /\ v + 0 = v
      OBVIOUS
    <3>3. QED
      BY <3>1, <3>2
  <2>5. \A b \in 0..m - 1 : <<pts[2 * b + 1] + 0, pts[2 * b + 2] + 0>>
                                  \in WindowSet(rate, k) \cup WindowSet(rate, k + 1)
    BY <1>7, <2>1, <2>4
  <2>6. Verifies(pts, rate, c)
             <=> LET known == WindowSet(rate, k) \cup WindowSet(rate, k + 1)
                 IN \A b \in 0..m - 1 : \E dl, dh \in -1..1 :
                        <<pts[2 * b + 1] + dl, pts[2 * b + 2] + dh>> \in known
    BY <1>5, <2>2, <2>3 DEF Verifies
  <2>7. 0 \in -1..1
    OBVIOUS
  <2>8. QED
    BY <2>5, <2>6, <2>7
<1>9. QED
  BY <1>8 DEF pts, wave

(* What is made of a tiled batch are samples.                                *)
LEMMA TiledIsInts ==
    ASSUME NEW rate \in Rates, NEW pos \in Nat
    PROVE  /\ Tiled(rate, pos, Batch[rate]) \in Seq(Int)
           /\ Len(Tiled(rate, pos, Batch[rate])) = Batch[rate]
<1>1. PICK n \in Nat \ {0}, d \in Nat \ {0} : n = Batch[rate] /\ d = Period[rate]
  BY SignalAssumption
<1>2. \A i \in 1..n : Value((pos + i - 1) % d) \in Int
  <2> TAKE i \in 1..n
  <2>1. PICK v \in Int : v = (pos + i - 1) % d
    BY DivMod
  <2>2. QED
    BY <2>1 DEF Value
<1> DEFINE value(i) == Value((pos + i - 1) % d)
<1>3. \A i \in 1..n : value(i) \in Int
  BY <1>2
<1>4. Tiled(rate, pos, n) = [i \in 1..n |-> value(i)]
  BY <1>1 DEF Tiled
<1> HIDE DEF value
<1>5. QED
  BY <1>1, <1>3, <1>4

LEMMA MinMaxIsInts ==
    ASSUME NEW rate \in Rates, NEW pos \in Nat
    PROVE  /\ MinMax(Tiled(rate, pos, Batch[rate]), Target) \in Seq(Int)
           /\ MinMax(Tiled(rate, pos, Batch[rate]), Target) # <<>>
<1>1. PICK n \in Nat : n = Batch[rate] /\ n > Target
  BY SignalAssumption
<1>2. PICK m \in Nat \ {0} : m = Target \div 2 /\ 2 * m =< Target
  BY SignalAssumption
<1> DEFINE wave == Tiled(rate, pos, Batch[rate])
           pts == MinMax(wave, Target)
           in(b) == {wave[i] : i \in BucketFirst(b, n, m)..BucketLast(b, n, m)}
<1>3. Len(wave) = n
  BY <1>1 DEF Tiled
<1> HIDE DEF wave
<1>4. pts = [j \in 1..2 * m |-> IF j % 2 = 1 THEN Min(in((j - 1) \div 2))
                                ELSE Max(in((j - 1) \div 2))]
  BY <1>1, <1>2, <1>3, SignalAssumption DEF MinMax
<1>5. n >= m
  BY <1>1, <1>2, SignalAssumption
<1>6. ASSUME NEW b \in 0..m - 1
      PROVE  Min(in(b)) \in Int /\ Max(in(b)) \in Int
  <2>1. PICK lo \in 1..n, hi \in 1..n, w \in Nat \ {0} :
            /\ lo = BucketFirst(b, n, m) /\ hi = BucketLast(b, n, m) /\ w = hi - lo + 1
    BY <1>5, BucketSize
  <2>2. LET S == {Tiled(rate, pos, Batch[rate])[i] : i \in lo..hi}
        IN  Min(S) \in Int /\ Max(S) \in Int
    BY <1>1, <2>1, TiledBucket
  <2>3. QED
    BY <2>1, <2>2 DEF wave
<1> HIDE DEF in
<1>7. ASSUME NEW j \in 1..2 * m
      PROVE  (IF j % 2 = 1 THEN Min(in((j - 1) \div 2)) ELSE Max(in((j - 1) \div 2))) \in Int
  <2>1. PICK b \in 0..m - 1 : b = (j - 1) \div 2
    OBVIOUS
  <2>2. QED
    BY <1>6, <2>1
<1> DEFINE value(j) == IF j % 2 = 1 THEN Min(in((j - 1) \div 2)) ELSE Max(in((j - 1) \div 2))
<1>8. pts = [j \in 1..2 * m |-> value(j)] /\ \A j \in 1..2 * m : value(j) \in Int
  BY <1>4, <1>7
<1> HIDE DEF value, pts
<1>9. PICK k \in Nat \ {0} : k = 2 * m
  OBVIOUS
<1>10. pts \in Seq(Int) /\ Len(pts) = k
  BY <1>8, <1>9
<1>11. pts # <<>>
  BY <1>9, <1>10
<1>12. QED
  BY <1>10, <1>11 DEF pts, wave

(* The rate of l points made of n samples.                                  *)
Reduced(r, l, n) == (r * l) \div n
Divides(n, r) == (r % n) = 0

LEMMA Multiple ==
    ASSUME NEW r \in Nat \ {0}, NEW n \in Nat \ {0}, Divides(n, r)
    PROVE  \E k \in Nat \ {0} : r = n * k
<1>1. r \div n \in Int /\ r = n * (r \div n) + (r % n)
  BY DivMod
<1>2. PICK k \in Int : r = n * k
  BY <1>1 DEF Divides
<1>3. k <= 0 => n * k <= 0
  OBVIOUS
<1>4. k > 0
  BY <1>2, <1>3
<1>5. QED
  BY <1>2, <1>4

RoundsTo(r, l, n) ==
    \E a \in Nat \ {0} : Reduced(r, l, n) = a /\ (2 * r * l + a) \div (2 * a) = n

LEMMA Rounded ==
    ASSUME NEW n \in Nat \ {0}, NEW k \in Nat \ {0}, NEW l \in Nat \ {0}
    PROVE  RoundsTo(n * k, l, n)
<1>1. PICK a \in Nat \ {0} : a = k * l
  OBVIOUS
<1>2. (n * k) * l = n * a
  BY <1>1
<1>3. (n * a) \div n = a
  OBVIOUS
<1>4. 2 * (n * k) * l + a = (2 * a) * n + a
  BY <1>2
<1>5. PICK d \in Nat \ {0} : d = 2 * a /\ a < d
  OBVIOUS
<1>6. (d * n + a) \div d = n
  BY <1>5
<1>7. QED
  BY <1>2, <1>3, <1>4, <1>5, <1>6 DEF RoundsTo, Reduced

(* The count of points whose rate was reduced with them: it is that of the   *)
(* batch, when the rate measured is the one the batch was tagged with.      *)
LEMMA CountOfReduced ==
    ASSUME NEW r \in Nat \ {0}, NEW n \in Nat \ {0}, Divides(n, r),
           NEW f, NEW l \in Nat \ {0}, Len(f.pts) = l, f.rate = Reduced(r, l, n)
    PROVE  f.rate \in Nat \ {0} /\ RawCount(f, r) = n
<1>1. PICK k \in Nat \ {0} : r = n * k
  BY Multiple
<1>2. RoundsTo(r, l, n)
  BY <1>1, Rounded
<1>3. PICK a \in Nat \ {0} : f.rate = a /\ (2 * r * l + a) \div (2 * a) = n
  BY <1>2 DEF RoundsTo
<1>4. RawCount(f, r) = (2 * r * l + a) \div (2 * a)
  BY <1>3 DEF RawCount
<1>5. QED
  BY <1>3, <1>4

-----------------------------------------------------------------------------
(* What goes through the queues.                                            *)

Modes == {"None", "MinMax", "LTTB"}

SourceStates ==
    {s \in [target : Rates, cached : Rates \cup {0}, pos : Nat] :
        s.cached # 0 => s.pos \in 0..Period[s.cached] - 1}

(* What a batch can be: the period, tiled from any place in it.             *)
Tilings(rate) == {Tiled(rate, p, Batch[rate]) : p \in 0..Period[rate] - 1}

ReadFrames == UNION {[wave : {w}, pts : Tilings(w)] : w \in Rates}

RawFrames == UNION {[wave : {w}, rate : Rates, pts : Tilings(w)] : w \in Rates}

Reductions(rate, mode) == UNION {Decimated(t, mode, Target) : t \in Tilings(rate)}

(* What the DecimationStage can put out, in any of its modes.                *)
Outputs(w, m, r) ==
    {[wave |-> w, mode |-> m, pts |-> x, rate |-> (r * Len(x)) \div Batch[w]] :
        x \in Reductions(w, m)}

OutFrames == UNION {Outputs(w, m, r) : w \in Rates, m \in Modes, r \in Rates}

(* What is in a queue is a tiling of the period of one rate, or what a      *)
(* DecimationStage can make of one; the source is at a place of its period. *)
SignalInv ==
    /\ src \in SourceStates
    /\ dec \in [mode : Modes, rate : Rates \cup Measured]
    /\ held = <<>> \/ \E f \in ReadFrames : held = <<f>>
    /\ raw \in Seq(RawFrames)
    /\ out \in Seq(OutFrames)

(* A rebuilt period has the rate asked for, and a place within it.          *)
LEMMA Rebuilding ==
    ASSUME NEW s \in SourceStates
    PROVE  Rebuilt(s) \in SourceStates /\ Rebuilt(s).cached = s.target
                                       /\ Rebuilt(s).target = s.target
<1>1. s.target \in Rates /\ s.cached \in Rates \cup {0} /\ s.pos \in Nat
  BY DEF SourceStates
<1>2. CASE s.cached = s.target
  BY <1>2 DEF Rebuilt
<1>3. CASE s.cached # s.target
  <2>1. PICK new \in Nat \ {0} : new = Period[s.target]
    BY <1>1, SignalAssumption
  <2>2. PICK p \in 0..new - 1 : p = IF s.cached = 0 THEN 0
                                    ELSE KeepPhase(s.pos, Period[s.cached], Period[s.target])
    <3>1. CASE s.cached # 0
      <4>1. PICK old \in Nat \ {0} : old = Period[s.cached]
        BY <1>1, <3>1, SignalAssumption
      <4>2. (s.pos * new) \div old \in Int
        <5>1. s.pos * new \in Int
          BY <1>1
        <5>2. QED
          BY <5>1, DivMod
      <4>3. ((s.pos * new) \div old) % new \in 0..new - 1
        BY <4>2, DivMod
      <4>4. QED
        BY <2>1, <3>1, <4>1, <4>3 DEF KeepPhase
    <3>2. QED
      BY <3>1
  <2>3. Rebuilt(s) = [s EXCEPT !.cached = s.target, !.pos = p]
    BY <1>3, <2>2 DEF Rebuilt
  <2>4. /\ Rebuilt(s) \in [target : Rates, cached : Rates \cup {0}, pos : Nat]
        /\ Rebuilt(s).pos = p
        /\ Rebuilt(s).cached = s.target /\ Rebuilt(s).target = s.target
    <3>1. p \in Nat
      BY <2>1
    <3>2. s \in [target : Rates, cached : Rates \cup {0}, pos : Nat]
      BY DEF SourceStates
    <3>3. QED
      BY <1>1, <2>3, <3>1, <3>2
  <2>5. QED
    BY <2>1, <2>4 DEF SourceStates
<1>4. QED
  BY <1>2, <1>3

LEMMA ReadKeeps ==
    ASSUME SignalInv, ReadFrame
    PROVE  SignalInv'
<1> DEFINE s == Rebuilt(src)
           n == Batch[s.cached]
<1>1. /\ s \in SourceStates /\ s.cached = src.target /\ s.target = src.target
      /\ src.target \in Rates
  <2>1. src \in SourceStates /\ src.target \in Rates
    BY DEF SignalInv, SourceStates
  <2>2. QED
    BY <2>1, Rebuilding
<1>2. /\ held' = <<[wave |-> s.cached, pts |-> Tiled(s.cached, s.pos, n)]>>
      /\ src' = [s EXCEPT !.pos = (s.pos + n) % Period[s.cached]]
      /\ raw' = raw /\ dec' = dec /\ out' = out
  BY DEF ReadFrame
<1> HIDE DEF s
<1>3. PICK w \in Rates : w = s.cached /\ w # 0
  BY <1>1, SignalAssumption
<1>4. s.pos \in 0..Period[w] - 1 /\ s.pos \in Nat /\ s.target \in Rates
  BY <1>1, <1>3 DEF SourceStates
<1>5. held' = <<[wave |-> w, pts |-> Tiled(w, s.pos, Batch[w])]>>
  BY <1>2, <1>3
<1>6. [wave |-> w, pts |-> Tiled(w, s.pos, Batch[w])] \in ReadFrames
  <2>1. Tiled(w, s.pos, Batch[w]) \in Tilings(w)
    BY <1>4 DEF Tilings
  <2>2. QED
    BY <2>1 DEF ReadFrames
<1>7. src' \in SourceStates
  <2>1. PICK len \in Nat \ {0}, k \in Nat : len = Period[w] /\ k = Batch[w]
    BY SignalAssumption
  <2>2. PICK p \in 0..len - 1 : p = (s.pos + k) % len
    BY <1>4, <2>1, DivMod
  <2>3. src' = [s EXCEPT !.pos = p]
    BY <1>2, <1>3, <2>1, <2>2
  <2>4. QED
    BY <1>1, <1>3, <1>4, <2>1, <2>3 DEF SourceStates
<1>8. QED
  BY <1>2, <1>5, <1>6, <1>7 DEF SignalInv

LEMMA TagKeeps ==
    ASSUME SignalInv, Tag
    PROVE  SignalInv'
<1>1. PICK f \in ReadFrames : held = <<f>>
  BY DEF SignalInv, Tag
<1>2. PICK w \in Rates : f \in [wave : {w}, pts : Tilings(w)]
  BY DEF ReadFrames
<1>3. src.target \in Rates
  BY DEF SignalInv, SourceStates
<1> DEFINE g == [wave |-> f.wave, rate |-> src.target, pts |-> f.pts]
<1>4. g \in RawFrames
  <2>1. f.wave = w /\ f.pts \in Tilings(w)
    BY <1>2
  <2>2. QED
    BY <1>3, <2>1 DEF RawFrames
<1>5. raw' = Append(raw, g) /\ held' = <<>> /\ src' = src /\ dec' = dec /\ out' = out
  BY <1>1 DEF Tag
<1> HIDE DEF g
<1>6. raw' \in Seq(RawFrames)
  BY <1>4, <1>5 DEF SignalInv
<1>7. QED
  BY <1>5, <1>6 DEF SignalInv

LEMMA DecimateKeeps ==
    ASSUME SignalInv, Decimate
    PROVE  SignalInv'
<1> DEFINE f == Head(raw)
<1>1. raw \in Seq(RawFrames) /\ raw # <<>> /\ raw' = Tail(raw)
      /\ src' = src /\ held' = held /\ dec' = dec
  BY DEF Decimate, SignalInv
<1>2. f \in RawFrames /\ raw' \in Seq(RawFrames)
  BY <1>1
<1>3. PICK x \in Decimated(f.pts, EffectiveMode, Target) :
          out' = Append(out, [wave |-> f.wave, mode |-> EffectiveMode, pts |-> x,
                              rate |-> (f.rate * Len(x)) \div Len(f.pts)])
  BY DEF Decimate
<1> HIDE DEF f
<1>4. PICK w \in Rates : f \in [wave : {w}, rate : Rates, pts : Tilings(w)]
  BY <1>2 DEF RawFrames
<1>5. f.wave = w /\ f.rate \in Rates /\ f.pts \in Tilings(w)
  BY <1>4
<1>6. Len(f.pts) = Batch[w]
  <2>1. Batch[w] \in Nat
    BY SignalAssumption
  <2>2. QED
    BY <1>5, <2>1 DEF Tilings, Tiled
<1>7. EffectiveMode \in Modes
  <2>1. dec.mode \in Modes
    BY DEF SignalInv
  <2>2. QED
    BY <2>1 DEF EffectiveMode, Modes
<1>8. PICK m \in Modes : m = EffectiveMode
  BY <1>7
<1> DEFINE g == [wave |-> w, mode |-> m, pts |-> x, rate |-> (f.rate * Len(x)) \div Batch[w]]
<1>9. out' = Append(out, g)
  BY <1>3, <1>5, <1>6, <1>8
<1>10. g \in OutFrames
  <2>1. x \in Reductions(w, m)
    BY <1>3, <1>5, <1>8 DEF Reductions
  <2>2. PICK r \in Rates : g = [wave |-> w, mode |-> m, pts |-> x,
                                rate |-> (r * Len(x)) \div Batch[w]]
    BY <1>5
  <2>3. g \in Outputs(w, m, r)
    BY <2>1, <2>2 DEF Outputs
  <2>4. QED
    BY <2>3 DEF OutFrames
<1> HIDE DEF g
<1>11. out' \in Seq(OutFrames)
  BY <1>9, <1>10 DEF SignalInv
<1>12. QED
  BY <1>1, <1>2, <1>11 DEF SignalInv

LEMMA SetRateKeeps ==
    ASSUME SignalInv, NEW r \in Rates, SetSampleRate(r)
    PROVE  SignalInv'
<1>1. /\ src' = [src EXCEPT !.target = r] /\ dec' = [dec EXCEPT !.rate = r]
      /\ held' = held /\ raw' = raw /\ out' = out
  BY DEF SetSampleRate
<1>2. src' \in SourceStates
  BY <1>1 DEF SignalInv, SourceStates
<1>3. dec' \in [mode : Modes, rate : Rates \cup Measured]
  BY <1>1 DEF SignalInv
<1>4. QED
  BY <1>1, <1>2, <1>3 DEF SignalInv

LEMMA CycleKeeps ==
    ASSUME SignalInv, CycleDecimationMode
    PROVE  SignalInv'
<1>1. PICK m \in Modes : dec' = [dec EXCEPT !.mode = m]
  BY DEF CycleDecimationMode, Modes, SignalInv
<1>2. src' = src /\ held' = held /\ raw' = raw /\ out' = out
  BY DEF CycleDecimationMode
<1>3. dec' \in [mode : Modes, rate : Rates \cup Measured]
  BY <1>1 DEF SignalInv
<1>4. QED
  BY <1>2, <1>3 DEF SignalInv

LEMMA Member ==
    ASSUME NEW S, NEW q \in Seq(S), NEW i \in 1..Len(q)
    PROVE  q[i] \in S
  OBVIOUS

LEMMA CountIsNat ==
    ASSUME NEW f, NEW a \in Nat \ {0}, f.rate = a, NEW l \in Nat, Len(f.pts) = l,
           NEW r \in Nat
    PROVE  RawCount(f, r) \in Nat
<1>1. PICK c \in Nat, d \in Nat \ {0} : c = 2 * r * l + a /\ d = 2 * a
  OBVIOUS
<1>2. c \div d \in Nat
  OBVIOUS
<1>3. QED
  BY <1>1, <1>2 DEF RawCount

(* What the invariant says of a frame at the end of the pipeline.           *)
LEMMA EnvelopeOfFrame ==
    ASSUME NEW f \in OutFrames, f.mode = "MinMax"
    PROVE  /\ \E tagged \in Rates : RawCount(f, tagged) = Batch[f.wave]
           /\ \A rate \in Measured :
                  RawCount(f, rate) \div (Len(f.pts) \div 2)
                          = Batch[f.wave] \div (Len(f.pts) \div 2) =>
                      Verifies(f.pts, f.wave, RawCount(f, rate))
<1>1. PICK w \in Rates, m \in Modes, r \in Rates : \E x \in Reductions(w, m) :
          f = [wave |-> w, mode |-> m, pts |-> x, rate |-> (r * Len(x)) \div Batch[w]]
  BY DEF OutFrames, Outputs
<1>2. PICK x \in Reductions(w, m) :
          /\ f.wave = w /\ f.pts = x /\ m = "MinMax"
          /\ f.rate = (r * Len(x)) \div Batch[w]
  BY <1>1
<1>3. PICK t \in Tilings(w) : x \in Decimated(t, "MinMax", Target)
  BY <1>2 DEF Reductions
<1>4. x = MinMax(t, Target)
  BY <1>3 DEF Decimated
<1>5. PICK p \in 0..Period[w] - 1 : t = Tiled(w, p, Batch[w])
  BY DEF Tilings
<1>6. p \in Nat
  BY SignalAssumption
<1>7. PICK l \in Nat \ {0} : l = Len(f.pts)
  <2>1. x \in Seq(Int) /\ x # <<>>
    BY <1>4, <1>5, <1>6, MinMaxIsInts
  <2>2. QED
    BY <1>2, <2>1
<1>8. r \in Nat \ {0} /\ Batch[w] \in Nat \ {0} /\ (r % Batch[w]) = 0
  BY SignalAssumption
<1>9. f.rate \in Nat \ {0} /\ RawCount(f, r) = Batch[w]
  <2>1. PICK n \in Nat \ {0} : n = Batch[w]
    BY <1>8
  <2>2. Divides(n, r) /\ f.rate = Reduced(r, l, n) /\ Len(f.pts) = l
    BY <1>2, <1>7, <1>8, <2>1 DEF Divides, Reduced
  <2>3. r \in Nat \ {0}
    BY <1>8
  <2>4. QED
    BY <2>1, <2>2, <2>3, CountOfReduced
<1>10. ASSUME NEW rate \in Measured,
              RawCount(f, rate) \div (Len(f.pts) \div 2)
                  = Batch[f.wave] \div (Len(f.pts) \div 2)
       PROVE  Verifies(f.pts, f.wave, RawCount(f, rate))
  <2>1. rate \in Nat
    BY SignalAssumption
  <2>2. PICK c \in Nat : c = RawCount(f, rate)
    BY <1>7, <1>9, <2>1, CountIsNat
  <2>3. SameSize(c, Batch[w], Len(x) \div 2)
    BY <1>2, <1>10, <2>2 DEF SameSize
  <2>4. Verifies(x, w, c)
    BY <1>4, <1>5, <1>6, <2>3, EnvelopeOfTiled
  <2>5. QED
    BY <1>2, <2>2, <2>4
<1>11. QED
  BY <1>2, <1>9, <1>10

LEMMA InvGivesEnvelope == SignalInv => EnvelopeHolds
<1> SUFFICES ASSUME SignalInv, NEW i \in 1..Len(out), out[i].mode = "MinMax"
             PROVE  /\ \E tagged \in Rates : RawCount(out[i], tagged) = Batch[out[i].wave]
                    /\ \A rate \in Measured :
                           RawCount(out[i], rate) \div (Len(out[i].pts) \div 2)
                                   = Batch[out[i].wave] \div (Len(out[i].pts) \div 2) =>
                               Verifies(out[i].pts, out[i].wave, RawCount(out[i], rate))
  BY DEF EnvelopeHolds
<1>1. out[i] \in OutFrames
  <2>1. out \in Seq(OutFrames)
    BY DEF SignalInv
  <2>2. QED
    BY <2>1, Member
<1>2. QED
  BY <1>1, EnvelopeOfFrame

LEMMA InitSignalInv == Init => SignalInv
<1> SUFFICES ASSUME Init PROVE SignalInv
  OBVIOUS
<1>1. /\ src = [target |-> Min(Rates), cached |-> 0, pos |-> 0]
      /\ dec = [mode |-> "MinMax", rate |-> Min(Rates)]
      /\ held = <<>> /\ raw = <<>> /\ out = <<>>
  BY DEF Init, SignalInit
<1>2. Min(Rates) \in Rates
  <2>1. Rates \subseteq Nat /\ Rates # {}
    BY SignalAssumption
  <2>2. QED
    BY <2>1, LeastElement
<1>3. src \in SourceStates
  BY <1>1, <1>2 DEF SourceStates
<1>4. dec \in [mode : Modes, rate : Rates \cup Measured]
  BY <1>1, <1>2 DEF Modes
<1>5. QED
  BY <1>1, <1>3, <1>4 DEF SignalInv

(* The pass takes all that is there, and tells the stage a rate.            *)
LEMMA FeedKeeps ==
    ASSUME SignalInv, Feed
    PROVE  SignalInv'
<1>1. src' = src /\ held' = held /\ raw' = raw /\ out' = <<>>
  BY DEF Feed
<1>2. PICK r \in Rates \cup Measured : dec' = [dec EXCEPT !.rate = r]
  <2>1. dec.rate \in Rates \cup Measured
    BY DEF SignalInv
  <2>2. QED
    BY <2>1 DEF Feed
<1>3. dec' \in [mode : Modes, rate : Rates \cup Measured]
  BY <1>2 DEF SignalInv
<1>4. QED
  BY <1>1, <1>3 DEF SignalInv

LEMMA SignalUndisturbed ==
    ASSUME SignalInv, UNCHANGED signal
    PROVE  SignalInv'
  BY DEF SignalInv, signal

LEMMA NextKeepsSignalInv ==
    ASSUME SignalInv, [Next]_vars
    PROVE  SignalInv'
<1>1. CASE Command
  <2>1. CASE \E r \in Rates : SetSampleRate(r)
    BY <2>1, SetRateKeeps
  <2>2. CASE CycleDecimationMode
    BY <2>2, CycleKeeps
  <2>3. QED
    BY <1>1, <2>1, <2>2 DEF Command
<1>2. CASE Feed
  BY <1>2, FeedKeeps
<1>3. CASE SignalStep
  BY <1>3, ReadKeeps, TagKeeps, DecimateKeeps DEF SignalStep
<1>4. CASE Resized \/ Upload \/ SwapBuffers \/ StepSpan \/ Draw \/ Recreated
  <2>1. UNCHANGED signal
    BY <1>4 DEF Resized, Upload, SwapBuffers, StepSpan, Draw, Recreated
  <2>2. QED
    BY <2>1, SignalUndisturbed
<1>5. CASE Finish /\ UNCHANGED <<signal, pc, commands, viz>>
  BY <1>5, SignalUndisturbed
<1>6. CASE UNCHANGED vars
  BY <1>6, SignalUndisturbed DEF vars
<1>7. QED
  BY <1>1, <1>2, <1>3, <1>4, <1>5, <1>6 DEF Next, Pass

(* Whatever the rates, periods, batches and the number of points, and        *)
(* wherever in its period a batch starts, what tiling and MinMax make of it *)
(* matches the windows the verifier builds for every count of samples that  *)
(* gives buckets of the right size; and the count is the very one when the  *)
(* rate measured is the one the frame was tagged with.  Of a count that     *)
(* gives another size nothing is said: such a count raises false alarms     *)
(* (synthetic_source.cpp:215, decimator.cpp:95, app_loop.cpp:424-431,       *)
(* envelope_verifier.cpp:108).                                              *)
THEOREM RightCountNoAlarm == Spec => []EnvelopeHolds
<1>1. Init => SignalInv
  BY InitSignalInv
<1>2. SignalInv /\ [Next]_vars => SignalInv'
  BY NextKeepsSignalInv
<1>3. QED
  BY <1>1, <1>2, InvGivesEnvelope, PTL DEF Spec

-----------------------------------------------------------------------------
(* The folds.  The numbers in a set with a first one and the next of each are *)
(* all numbers from it on; so what is made of the frames one after the other *)
(* can be spoken of frame by frame, without induction over data.             *)

(* What holds of the first number and is passed on from each to the next.   *)
LEMMA UpTo ==
    ASSUME NEW m \in Nat, NEW n \in Int, NEW S, m \in S,
           \A k \in m..n - 1 : k \in S => k + 1 \in S
    PROVE  m..n \subseteq S
<1> DEFINE B == (m..n) \ S
<1> SUFFICES ASSUME B # {} PROVE FALSE
  OBVIOUS
<1>1. B \subseteq Nat
  OBVIOUS
<1>2. PICK k \in B : \A j \in B : k =< j
  <2> HIDE DEF B
  <2>1. Min(B) \in B /\ \A j \in B : Min(B) =< j
    BY <1>1, LeastElement
  <2>2. QED
    BY <2>1
<1>3. k # m /\ k \in m..n
  OBVIOUS
<1>4. k - 1 \in m..n - 1 /\ (k - 1) + 1 = k /\ ~(k =< k - 1) /\ k - 1 \in m..n
  BY <1>3
<1>5. k - 1 \in S
  BY <1>2, <1>4
<1>6. QED
  BY <1>4, <1>5

LEMMA TopOf ==
    ASSUME NEW k \in Nat, NEW s, s \subseteq 1..k, k \in s
    PROVE  Max(s) = k
<1>1. s \subseteq 0..k /\ s # {}
  OBVIOUS
<1>2. Max(s) \in s /\ \A y \in s : y =< Max(s)
  BY <1>1, GreatestElement
<1>3. PICK x \in s : x = Max(s)
  BY <1>2
<1>4. k =< x /\ x \in 1..k
  BY <1>2, <1>3
<1>5. QED
  BY <1>3, <1>4

(* FoldLeft(Accumulate, base, frames) takes the frames by number, the last   *)
(* outermost; all of it for the first k frames is h[k].                      *)
Folds(frames, base, n, g) ==
    g = [s \in SUBSET (1..n) |-> IF s = {} THEN base
                                 ELSE Accumulate(g[s \ {Max(s)}], frames[Max(s)])]

Steps(frames, base, n, h) ==
    /\ h[0] = base
    /\ \A k \in 1..n : h[k] = Accumulate(h[k - 1], frames[k])

LEMMA FoldExists ==
    ASSUME NEW frames, NEW base, NEW n \in Nat
    PROVE  \E g : Folds(frames, base, n, g)
<1> DEFINE S == {k \in 0..n : \E g : Folds(frames, base, k, g)}
<1>1. 0 \in S
  <2> DEFINE g == [s \in SUBSET (1..0) |-> base]
  <2>1. \A s \in SUBSET (1..0) : s = {}
    OBVIOUS
  <2>2. Folds(frames, base, 0, g)
    BY <2>1 DEF Folds
  <2>3. QED
    BY <2>2
<1>2. ASSUME NEW k \in 0..n - 1, k \in S
      PROVE  k + 1 \in S
  <2>1. PICK g : Folds(frames, base, k, g)
    BY <1>2
  <2> DEFINE value(s) == IF s \subseteq 1..k THEN g[s] ELSE Accumulate(g[s \ {k + 1}], frames[k + 1])
             h == [s \in SUBSET (1..k + 1) |-> value(s)]
             goal(s) == IF s = {} THEN base ELSE Accumulate(h[s \ {Max(s)}], frames[Max(s)])
  <2>2. ASSUME NEW s \in SUBSET (1..k + 1)
        PROVE  value(s) = goal(s)
    <3>1. CASE s = {}
      <4>1. g[s] = base
        BY <2>1, <3>1 DEF Folds
      <4>2. QED
        BY <3>1, <4>1
    <3>2. CASE s # {} /\ s \subseteq 1..k
      <4>1. Max(s) \in s
        <5>1. s \subseteq 0..k
          BY <3>2
        <5>2. k \in Nat
          OBVIOUS
        <5>3. QED
          BY <3>2, <5>1, <5>2, GreatestElement
      <4>2. g[s] = Accumulate(g[s \ {Max(s)}], frames[Max(s)])
        BY <2>1, <3>2 DEF Folds
      <4>3. h[s \ {Max(s)}] = g[s \ {Max(s)}]
        BY <3>2
      <4>4. QED
        BY <3>2, <4>2, <4>3
    <3>3. CASE ~(s \subseteq 1..k)
      <4>1. k + 1 \in s
        <5>1. \A x \in 1..k + 1 : x # k + 1 => x \in 1..k
          OBVIOUS
        <5>2. QED
          BY <3>3, <5>1
      <4>2. Max(s) = k + 1
        <5>1. k + 1 \in Nat /\ s \subseteq 1..k + 1
          OBVIOUS
        <5>2. PICK j \in Nat : j = k + 1
          BY <5>1
        <5>3. QED
          BY <4>1, <5>1, <5>2, TopOf
      <4>3. s \ {k + 1} \subseteq 1..k
        OBVIOUS
      <4>4. h[s \ {k + 1}] = g[s \ {k + 1}]
        BY <4>3
      <4>5. QED
        BY <3>3, <4>1, <4>2, <4>4
    <3>4. QED
      BY <3>1, <3>2, <3>3
  <2>3. Folds(frames, base, k + 1, h)
    BY <2>2 DEF Folds
  <2>4. QED
    BY <2>3
<1>3. \A k \in 0..n - 1 : k \in S => k + 1 \in S
  BY <1>2
<1> HIDE DEF S
<1>4. n \in S
  BY <1>1, <1>3, UpTo
<1>5. QED
  BY <1>4 DEF S

LEMMA FoldSteps ==
    ASSUME NEW frames, NEW n \in Nat, DOMAIN frames = 1..n, NEW base
    PROVE  \E h : Steps(frames, base, n, h) /\ FoldLeft(Accumulate, base, frames) = h[n]
<1> DEFINE g == CHOOSE f : Folds(frames, base, n, f)
           h == [k \in 0..n |-> g[1..k]]
<1>1. FoldLeft(Accumulate, base, frames) = g[1..n]
  BY DEF FoldLeft, MapThenFoldSet, Folds
<1>2. Folds(frames, base, n, g)
  BY FoldExists
<1> HIDE DEF g
<1>3. g[1..0] = base
  BY <1>2 DEF Folds
<1>4. ASSUME NEW k \in 1..n
      PROVE  g[1..k] = Accumulate(g[1..k - 1], frames[k])
  <2>1. 1..k \in SUBSET (1..n) /\ 1..k # {} /\ k \in 1..k /\ k \in Nat
    OBVIOUS
  <2>2. Max(1..k) = k
    BY <2>1, TopOf
  <2>3. (1..k) \ {k} = 1..k - 1
    OBVIOUS
  <2>4. g[1..k] = Accumulate(g[(1..k) \ {Max(1..k)}], frames[Max(1..k)])
    BY <1>2, <2>1 DEF Folds
  <2>5. QED
    BY <2>2, <2>3, <2>4
<1>5. Steps(frames, base, n, h)
  BY <1>3, <1>4 DEF Steps
<1>6. h[n] = g[1..n]
  OBVIOUS
<1>7. QED
  BY <1>1, <1>5, <1>6

(* FlattenSeq puts them one behind the other.                                *)
Joins(seqs, n, g) == g = [i \in 1..n |-> IF i = 1 THEN seqs[i] ELSE g[i - 1] \o seqs[i]]

LEMMA JoinFirst ==
    ASSUME NEW seqs, NEW n \in Nat, n >= 1, NEW g, Joins(seqs, n, g)
    PROVE  g[1] = seqs[1]
<1>1. 1 \in 1..n
  OBVIOUS
<1>2. QED
  BY <1>1 DEF Joins

LEMMA JoinNext ==
    ASSUME NEW seqs, NEW n \in Nat, NEW g, Joins(seqs, n, g), NEW i \in 2..n
    PROVE  g[i] = g[i - 1] \o seqs[i]
<1>1. i \in 1..n /\ i # 1
  OBVIOUS
<1>2. QED
  BY <1>1 DEF Joins

LEMMA JoinExists ==
    ASSUME NEW seqs, NEW n \in Nat, n >= 1
    PROVE  \E g : Joins(seqs, n, g)
<1> DEFINE S == {k \in 1..n : \E g : Joins(seqs, k, g)}
<1>1. 1 \in S
  <2> DEFINE g == [i \in 1..1 |-> seqs[i]]
  <2>1. Joins(seqs, 1, g)
    BY DEF Joins
  <2>2. QED
    BY <2>1
<1>2. ASSUME NEW k \in 1..n - 1, k \in S
      PROVE  k + 1 \in S
  <2>1. PICK g : Joins(seqs, k, g)
    BY <1>2
  <2> DEFINE h == [i \in 1..k + 1 |-> IF i = k + 1 THEN g[k] \o seqs[i] ELSE g[i]]
  <2>2. ASSUME NEW i \in 1..k + 1
        PROVE  h[i] = IF i = 1 THEN seqs[i] ELSE h[i - 1] \o seqs[i]
    <3>1. CASE i = k + 1
      <4>1. i - 1 = k /\ k \in 1..k + 1 /\ k # k + 1 /\ i # 1
        BY <3>1
      <4>2. h[k] = g[k]
        BY <4>1
      <4>3. h[i] = g[k] \o seqs[i]
        BY <3>1
      <4>4. QED
        BY <4>1, <4>2, <4>3
    <3>2. CASE i = 1
      <4>1. g[1] = seqs[1]
        <5>1. k \in Nat /\ k >= 1
          OBVIOUS
        <5>2. QED
          BY <2>1, <5>1, JoinFirst
      <4>2. QED
        BY <3>2, <4>1
    <3>3. CASE i # k + 1 /\ i # 1
      <4>1. g[i] = g[i - 1] \o seqs[i]
        <5>1. i \in 2..k /\ k \in Nat
          BY <3>3
        <5>2. QED
          BY <2>1, <5>1, JoinNext
      <4>2. h[i] = g[i] /\ h[i - 1] = g[i - 1]
        BY <3>3
      <4>3. QED
        BY <3>3, <4>1, <4>2
    <3>4. QED
      BY <3>1, <3>2, <3>3
  <2>3. h = [i \in 1..k + 1 |-> IF i = 1 THEN seqs[i] ELSE h[i - 1] \o seqs[i]]
    BY <2>2
  <2>4. Joins(seqs, k + 1, h)
    BY <2>3 DEF Joins
  <2>5. k + 1 \in 1..n
    OBVIOUS
  <2>6. QED
    BY <2>4, <2>5
<1>3. \A k \in 1..n - 1 : k \in S => k + 1 \in S
  BY <1>2
<1> HIDE DEF S
<1>4. n \in S
  BY <1>1, <1>3, UpTo
<1>5. QED
  BY <1>4 DEF S

LEMMA JoinSteps ==
    ASSUME NEW seqs, NEW n \in Nat, Len(seqs) = n, n >= 1
    PROVE  \E g : /\ g[1] = seqs[1]
                  /\ \A i \in 2..n : g[i] = g[i - 1] \o seqs[i]
                  /\ FlattenSeq(seqs) = g[n]
<1> DEFINE g == CHOOSE f : Joins(seqs, n, f)
<1>1. FlattenSeq(seqs) = g[n]
  BY DEF FlattenSeq, Joins
<1>2. Joins(seqs, n, g)
  BY JoinExists
<1> HIDE DEF g
<1>3. g[1] = seqs[1] /\ \A i \in 2..n : g[i] = g[i - 1] \o seqs[i]
  <2>1. g[1] = seqs[1]
    BY <1>2, JoinFirst
  <2>2. \A i \in 2..n : g[i] = g[i - 1] \o seqs[i]
    BY <1>2, JoinNext
  <2>3. QED
    BY <2>1, <2>2
<1>4. QED
  BY <1>1, <1>3

-----------------------------------------------------------------------------
(* The end of a sequence, element by element.                                *)
Suffix(a, b) ==
    /\ Len(a) <= Len(b)
    /\ \A i \in 1..Len(a) : a[i] = b[Len(b) - Len(a) + i]

LEMMA ConcatThree ==
    ASSUME NEW a \in Seq(Int), NEW b \in Seq(Int), NEW c \in Seq(Int)
    PROVE  (a \o b) \o c = a \o (b \o c)
  BY SMTT(40)

LEMMA LastOfShape ==
    ASSUME NEW a \in Seq(Int), NEW n \in 0..Len(a)
    PROVE  LastOf(a, n) \in Seq(Int) /\ Len(LastOf(a, n)) = n /\ Suffix(LastOf(a, n), a)
<1>1. PICK k \in Nat : k = Len(a)
  OBVIOUS
<1>2. k - n + 1 \in 1..k + 1 /\ k \in k - n..k /\ n \in 0..k
  BY <1>1
<1>3. SubSeq(a, k - n + 1, k) = [i \in 1..n |-> a[k - n + i]]
  <2>1. \A i \in 1..n : k - n + 1 + i - 1 = k - n + i
    BY <1>1
  <2>2. k - (k - n + 1) + 1 = n
    BY <1>1
  <2>3. SubSeq(a, k - n + 1, k) = [i \in 1..(k - (k - n + 1) + 1) |-> a[i + (k - n + 1) - 1]]
    BY <1>2
  <2>4. \A i \in 1..n : i + (k - n + 1) - 1 = k - n + i
    BY <1>1
  <2>5. QED
    BY <2>2, <2>3, <2>4
<1>4. \A i \in 1..n : k - n + i \in 1..k
  BY <1>1
<1> DEFINE b == [i \in 1..n |-> a[k - n + i]]
<1>5. b \in Seq(Int) /\ Len(b) = n /\ \A i \in 1..n : b[i] = a[k - n + i]
  BY <1>1, <1>4
<1>6. LastOf(a, n) = b
  BY <1>1, <1>3 DEF LastOf
<1> HIDE DEF b
<1>7. Suffix(b, a)
  BY <1>1, <1>5 DEF Suffix
<1>8. QED
  BY <1>5, <1>6, <1>7

LEMMA SuffixIsLast ==
    ASSUME NEW a \in Seq(Int), NEW b \in Seq(Int), Suffix(a, b)
    PROVE  Len(a) <= Len(b) /\ a = LastOf(b, Len(a))
<1>1. Len(a) \in 0..Len(b) /\ Len(a) <= Len(b)
  BY DEF Suffix
<1> DEFINE c == LastOf(b, Len(a))
<1>2. c \in Seq(Int) /\ Len(c) = Len(a) /\ Suffix(c, b)
  BY <1>1, LastOfShape
<1> HIDE DEF c
<1>3. \A i \in 1..Len(a) : a[i] = c[i]
  BY <1>2 DEF Suffix
<1>4. a = c
  BY <1>2, <1>3, SeqEqual
<1>5. QED
  BY <1>1, <1>4 DEF c

LEMMA SuffixTrans ==
    ASSUME NEW a \in Seq(Int), NEW b \in Seq(Int), NEW c \in Seq(Int),
           Suffix(a, b), Suffix(b, c)
    PROVE  Suffix(a, c)
<1>1. PICK k \in Nat, l \in Nat, m \in Nat : k = Len(a) /\ l = Len(b) /\ m = Len(c)
  OBVIOUS
<1>2. k <= l /\ l <= m
  BY <1>1 DEF Suffix
<1>3. ASSUME NEW i \in 1..k PROVE a[i] = c[m - k + i]
  <2>1. PICK j \in 1..l : j = l - k + i
    BY <1>2
  <2>2. a[i] = b[j]
    BY <1>1, <2>1 DEF Suffix
  <2>3. b[j] = c[m - l + j]
    BY <1>1 DEF Suffix
  <2>4. m - l + j = m - k + i
    BY <2>1
  <2>5. QED
    BY <2>2, <2>3, <2>4
<1>4. QED
  BY <1>1, <1>2, <1>3 DEF Suffix

LEMMA SuffixConcat ==
    ASSUME NEW a \in Seq(Int), NEW b \in Seq(Int), NEW c \in Seq(Int), Suffix(a, b)
    PROVE  Suffix(a \o c, b \o c)
<1>1. PICK k \in Nat, l \in Nat, m \in Nat : k = Len(a) /\ l = Len(b) /\ m = Len(c)
  OBVIOUS
<1>2. k <= l
  BY <1>1 DEF Suffix
<1> DEFINE x == a \o c
           y == b \o c
<1>3. /\ Len(x) = k + m
      /\ \A i \in 1..k + m : x[i] = IF i <= k THEN a[i] ELSE c[i - k]
  BY <1>1, ConcatProperties
<1>4. /\ Len(y) = l + m
      /\ \A i \in 1..l + m : y[i] = IF i <= l THEN b[i] ELSE c[i - l]
  BY <1>1, ConcatProperties
<1> HIDE DEF x, y
<1>5. ASSUME NEW i \in 1..k + m PROVE x[i] = y[(l + m) - (k + m) + i]
  <2>1. PICK j \in 1..l + m : j = (l + m) - (k + m) + i /\ j = l - k + i
    BY <1>2
  <2>2. CASE i <= k
    <3>1. j <= l /\ i \in 1..k
      BY <2>1, <2>2
    <3>2. a[i] = b[l - k + i]
      BY <1>1, <3>1 DEF Suffix
    <3>3. QED
      BY <1>3, <1>4, <2>1, <2>2, <3>1, <3>2
  <2>3. CASE ~(i <= k)
    <3>1. ~(j <= l) /\ j - l = i - k
      BY <2>1, <2>3
    <3>2. x[i] = c[i - k] /\ y[j] = c[j - l]
      BY <1>3, <1>4, <2>3, <3>1
    <3>3. QED
      BY <2>1, <3>1, <3>2
  <2>4. QED
    BY <2>2, <2>3
<1>6. Suffix(x, y)
  BY <1>2, <1>3, <1>4, <1>5 DEF Suffix
<1>7. QED
  BY <1>6 DEF x, y

-----------------------------------------------------------------------------
(* The frames of one pass: those before the last change of rate, the first    *)
(* one after it, and all that came from it on.                               *)
Older(frames) == {i \in 1..Len(frames) : frames[i].rate # frames[Len(frames)].rate}
From(frames) == IF Older(frames) = {} THEN 1 ELSE Max(Older(frames)) + 1
Newest(frames) ==
    [i \in 1..Len(frames) - From(frames) + 1 |-> frames[From(frames) + i - 1].pts]

(* Nothing changed the rate since there was one of r.                        *)
GoesOn(r, frames) == Older(frames) = {} /\ r \in {0, frames[Len(frames)].rate}

Arrived(s, r, frames) == (IF GoesOn(r, frames) THEN s ELSE <<>>) \o FlattenSeq(Newest(frames))

LEMMA ReceivedIsArrived ==
    ASSUME NEW f, NEW frames
    PROVE  Received(f, frames) = Arrived(f, lastRate, frames)
  BY DEF Received, Arrived, GoesOn, Newest, From, Older

Delivered == {f \in [wave : Rates, mode : Modes, rate : Nat \ {0}, pts : Seq(Int)] : f.pts # <<>>}

LEMMA FromProperties ==
    ASSUME NEW frames \in Seq(Delivered), NEW n \in Nat, n = Len(frames), n >= 1,
           NEW c, c = From(frames)
    PROVE  /\ c \in 1..n
           /\ \A i \in c..n : frames[i].rate = frames[n].rate
           /\ Older(frames) # {} => c > 1 /\ frames[c - 1].rate # frames[n].rate
           /\ Older(frames) = {} => c = 1
<1>1. CASE Older(frames) = {}
  BY <1>1 DEF From, Older
<1>2. CASE Older(frames) # {}
  <2>1. Older(frames) \subseteq 0..n
    BY DEF Older
  <2>2. PICK k \in Older(frames) : k = Max(Older(frames)) /\ \A y \in Older(frames) : y =< k
    BY <1>2, <2>1, GreatestElement
  <2>3. k \in 1..n /\ frames[k].rate # frames[n].rate /\ k # n
    BY <2>2 DEF Older
  <2>4. c = k + 1 /\ c - 1 = k /\ c > 1 /\ c \in 1..n
    BY <1>2, <2>2, <2>3 DEF From
  <2>5. \A i \in c..n : i \in 1..n /\ ~(i =< k)
    BY <2>3, <2>4
  <2>6. \A i \in c..n : frames[i].rate = frames[n].rate
    BY <2>2, <2>5 DEF Older
  <2>7. QED
    BY <1>2, <2>3, <2>4, <2>6
<1>3. QED
  BY <1>1, <1>2

(* The fold leaves what has arrived since the last change of rate.           *)
LEMMA FoldIsArrived ==
    ASSUME NEW frames \in Seq(Delivered), Len(frames) >= 1,
           NEW r \in Nat, NEW s \in Seq(Int)
    PROVE  /\ FoldLeft(Accumulate, [rate |-> r, pts |-> s], frames)
                  = [rate |-> frames[Len(frames)].rate, pts |-> Arrived(s, r, frames)]
           /\ FlattenSeq(Newest(frames)) \in Seq(Int)
<1>1. PICK n \in Nat : n = Len(frames) /\ n >= 1 /\ DOMAIN frames = 1..n
  OBVIOUS
<1>2. PICK c \in 1..n : c = From(frames)
  BY <1>1, FromProperties
<1>3. PICK last \in Nat \ {0} : last = frames[n].rate
  <2>1. frames[n] \in Delivered
    BY <1>1
  <2>2. QED
    BY <2>1 DEF Delivered
<1> DEFINE base == [rate |-> r, pts |-> s]
<1>4. PICK h : Steps(frames, base, n, h) /\ FoldLeft(Accumulate, base, frames) = h[n]
  BY <1>1, FoldSteps
<1>5. PICK m \in Nat : m = n - c + 1 /\ m >= 1
  OBVIOUS
<1>6. /\ Len(Newest(frames)) = m
      /\ \A i \in 1..m : Newest(frames)[i] = frames[c + i - 1].pts
  BY <1>1, <1>2, <1>5 DEF Newest
<1>7. PICK t : /\ t[1] = Newest(frames)[1]
               /\ \A i \in 2..m : t[i] = t[i - 1] \o Newest(frames)[i]
               /\ FlattenSeq(Newest(frames)) = t[m]
  BY <1>5, <1>6, JoinSteps
<1>8. /\ \A i \in c..n : frames[i].rate = last
      /\ Older(frames) # {} => c > 1 /\ frames[c - 1].rate # last
      /\ Older(frames) = {} => c = 1
  <2>1. /\ \A i \in c..n : frames[i].rate = frames[n].rate
        /\ Older(frames) # {} => c > 1 /\ frames[c - 1].rate # frames[n].rate
        /\ Older(frames) = {} => c = 1
    BY <1>1, <1>2, FromProperties
  <2>2. QED
    BY <1>3, <2>1
<1>9. \A k \in 1..n : /\ h[k].rate = frames[k].rate
                      /\ h[k].pts = (IF h[k - 1].rate \in {0, frames[k].rate} THEN h[k - 1].pts
                                     ELSE <<>>) \o frames[k].pts
                      /\ h[k] = [rate |-> h[k].rate, pts |-> h[k].pts]
  <2> TAKE k \in 1..n
  <2>1. h[k] = Accumulate(h[k - 1], frames[k])
    BY <1>4 DEF Steps
  <2> DEFINE q == (IF h[k - 1].rate \in {0, frames[k].rate} THEN h[k - 1].pts ELSE <<>>)
                     \o frames[k].pts
  <2>2. h[k] = [rate |-> frames[k].rate, pts |-> q]
    BY <2>1 DEF Accumulate
  <2> HIDE DEF q
  <2>3. h[k].rate = frames[k].rate /\ h[k].pts = q
    BY <2>2
  <2>4. QED
    BY <2>2, <2>3 DEF q
<1>10. \A k \in 1..n : frames[k].rate \in Nat \ {0} /\ frames[k].pts \in Seq(Int)
  <2>1. \A k \in 1..n : frames[k] \in Delivered
    BY <1>1
  <2>2. QED
    BY <2>1 DEF Delivered
<1> DEFINE p == IF GoesOn(r, frames) THEN s ELSE <<>>
<1>11. p \in Seq(Int)
  OBVIOUS
<1>12. p = IF h[c - 1].rate \in {0, last} THEN h[c - 1].pts ELSE <<>>
  <2>1. CASE Older(frames) = {}
    <3>1. c - 1 = 0 /\ h[0] = base
      BY <1>4, <1>8, <2>1 DEF Steps
    <3>2. h[c - 1].rate = r /\ h[c - 1].pts = s
      BY <3>1
    <3>3. QED
      BY <1>1, <1>3, <2>1, <3>2 DEF GoesOn
  <2>2. CASE Older(frames) # {}
    <3>1. c - 1 \in 1..n /\ frames[c - 1].rate # last
      BY <1>8, <2>2
    <3>2. h[c - 1].rate \notin {0, last}
      BY <1>9, <1>10, <3>1
    <3>3. QED
      BY <2>2, <3>2 DEF GoesOn
  <2>3. QED
    BY <2>1, <2>2
<1> HIDE DEF p
<1> DEFINE S == {i \in 1..m : /\ h[c + i - 1].rate = last
                              /\ t[i] \in Seq(Int) /\ h[c + i - 1].pts = p \o t[i]}
<1>13. 1 \in S
  <2>1. c + 1 - 1 = c /\ c \in c..n /\ 1 \in 1..m
    BY <1>5
  <2>2. h[c].rate = last /\ h[c].pts = p \o frames[c].pts
    BY <1>8, <1>9, <1>12, <2>1
  <2>3. t[1] = frames[c].pts
    BY <1>6, <1>7, <2>1
  <2>4. t[1] \in Seq(Int)
    BY <1>10, <2>3
  <2>5. QED
    BY <2>1, <2>2, <2>3, <2>4
<1>14. ASSUME NEW i \in 1..m - 1, i \in S
       PROVE  i + 1 \in S
  <2>1. PICK k \in 1..n : k = c + i /\ k \in c..n
    BY <1>5
  <2>2. k - 1 = c + i - 1 /\ c + (i + 1) - 1 = k /\ i + 1 \in 2..m /\ i + 1 \in 1..m
        /\ (i + 1) - 1 = i
    BY <1>5, <2>1
  <2>3. h[k - 1].rate = last /\ t[i] \in Seq(Int) /\ h[k - 1].pts = p \o t[i]
    BY <1>14, <2>2
  <2>4. h[k].rate = last /\ h[k].pts = (p \o t[i]) \o frames[k].pts
    <3>1. frames[k].rate = last
      BY <1>8, <2>1
    <3>2. QED
      BY <1>9, <2>3, <3>1
  <2>5. t[i + 1] = t[i] \o frames[k].pts
    BY <1>6, <1>7, <2>2
  <2>6. frames[k].pts \in Seq(Int)
    BY <1>10
  <2>7. (p \o t[i]) \o frames[k].pts = p \o (t[i] \o frames[k].pts)
    <3>1. PICK x \in Seq(Int), y \in Seq(Int), z \in Seq(Int) :
              x = p /\ y = t[i] /\ z = frames[k].pts
      BY <1>11, <2>3, <2>6
    <3>2. (x \o y) \o z = x \o (y \o z)
      BY ConcatThree
    <3>3. QED
      BY <3>1, <3>2
  <2>8. t[i] \o frames[k].pts \in Seq(Int)
    BY <2>3, <2>6, ConcatProperties
  <2>9. QED
    BY <2>2, <2>4, <2>5, <2>7, <2>8
<1>15. \A i \in 1..m - 1 : i \in S => i + 1 \in S
  BY <1>14
<1>16. m \in S
  <2> HIDE DEF S
  <2>1. 1..m \subseteq S
    <3>1. 1 \in Nat /\ m \in Int
      BY <1>5
    <3>2. QED
      BY <1>13, <1>15, <3>1, UpTo
  <2>2. QED
    BY <1>5, <2>1
<1>17. c + m - 1 = n
  BY <1>5
<1>18. h[n].rate = last /\ t[m] \in Seq(Int) /\ h[n].pts = p \o t[m]
  BY <1>16, <1>17
<1>19. h[n] = [rate |-> last, pts |-> p \o t[m]]
  <2>1. n \in 1..n
    BY <1>1
  <2>2. QED
    BY <1>9, <1>18, <2>1
<1>20. Arrived(s, r, frames) = p \o t[m]
  BY <1>7 DEF Arrived, p
<1>21. QED
  BY <1>1, <1>3, <1>4, <1>7, <1>18, <1>19, <1>20

-----------------------------------------------------------------------------
(* What is delivered has samples, and a rate.                                *)
LEMMA LttbIsInts ==
    ASSUME NEW p \in Seq(Int), Len(p) > Target, NEW x \in Lttb(p, Target)
    PROVE  x \in Seq(Int) /\ x # <<>>
<1>1. PICK n \in Nat, m \in Nat : n = Len(p) /\ m = Target - 2 /\ n >= 3 /\ n > Target
  BY SignalAssumption
<1>2. PICK pick \in [1..m -> 2..n - 1] :
          x = <<p[1]>> \o [b \in 1..m |-> p[pick[b]]] \o <<p[n]>>
  <2>1. ~(n <= Target)
    BY <1>1, SignalAssumption
  <2>2. QED
    BY <1>1, <2>1 DEF Lttb
<1>3. \A i \in 1..n : p[i] \in Int
  BY <1>1
<1>4. \A b \in 1..m : p[pick[b]] \in Int
  BY <1>3
<1> DEFINE y == [b \in 1..m |-> p[pick[b]]]
<1>5. y \in Seq(Int)
  BY <1>4
<1>6. p[1] \in Int /\ p[n] \in Int
  BY <1>1, <1>3
<1> HIDE DEF y
<1>7. PICK a \in Int, c \in Int : a = p[1] /\ c = p[n]
  BY <1>6
<1>8. <<a>> \o y \o <<c>> \in Seq(Int) /\ <<a>> \o y \o <<c>> # <<>>
  BY <1>5
<1>9. QED
  BY <1>2, <1>7, <1>8 DEF y

LEMMA RateStays ==
    ASSUME NEW r \in Nat \ {0}, NEW b \in Nat \ {0}, b <= r, NEW k \in Nat \ {0}
    PROVE  (r * k) \div b \in Nat \ {0}
<1>1. r * k >= b
  <2>1. r * k >= r * 1
    OBVIOUS
  <2>2. QED
    BY <2>1
<1>2. PICK a \in Nat : a = r * k /\ a >= b
  BY <1>1
<1>3. PICK q \in Int, z \in 0..b - 1 : q = a \div b /\ a = b * q + z
  BY DivMod
<1>4. q >= 1
  <2>1. CASE q <= 0
    <3>1. b * q <= 0
      BY <2>1
    <3>2. QED
      BY <1>2, <1>3, <3>1
  <2>2. QED
    BY <2>1
<1>5. QED
  BY <1>2, <1>3, <1>4

LEMMA OutputDelivered == OutFrames \subseteq Delivered
<1> SUFFICES ASSUME NEW f \in OutFrames PROVE f \in Delivered
  OBVIOUS
<1>1. PICK w \in Rates, m \in Modes, r \in Rates : \E x \in Reductions(w, m) :
          f = [wave |-> w, mode |-> m, pts |-> x, rate |-> (r * Len(x)) \div Batch[w]]
  BY DEF OutFrames, Outputs
<1>2. PICK x \in Reductions(w, m) :
          f = [wave |-> w, mode |-> m, pts |-> x, rate |-> (r * Len(x)) \div Batch[w]]
  BY <1>1
<1>3. PICK t \in Tilings(w) : x \in Decimated(t, m, Target)
  BY DEF Reductions
<1>4. PICK p \in 0..Period[w] - 1 : t = Tiled(w, p, Batch[w])
  BY DEF Tilings
<1>5. p \in Nat
  BY SignalAssumption
<1>6. t \in Seq(Int) /\ Len(t) = Batch[w] /\ Len(t) > Target /\ t # <<>>
  <2>1. t \in Seq(Int) /\ Len(t) = Batch[w]
    BY <1>4, <1>5, TiledIsInts
  <2>2. Batch[w] > Target /\ Target >= 3 /\ Target \in Nat /\ Batch[w] \in Nat
    BY SignalAssumption
  <2>3. QED
    BY <2>1, <2>2
<1>7. x \in Seq(Int) /\ x # <<>>
  <2>1. CASE m = "MinMax"
    <3>1. x = MinMax(t, Target)
      BY <1>3, <2>1 DEF Decimated
    <3>2. QED
      BY <1>4, <1>5, <3>1, MinMaxIsInts
  <2>2. CASE m = "LTTB"
    <3>1. x \in Lttb(t, Target)
      BY <1>3, <2>2 DEF Decimated
    <3>2. QED
      BY <1>6, <3>1, LttbIsInts
  <2>3. CASE m \notin {"MinMax", "LTTB"}
    <3>1. x = t
      BY <1>3, <2>3 DEF Decimated
    <3>2. QED
      BY <1>6, <3>1
  <2>4. QED
    BY <2>1, <2>2, <2>3
<1>8. PICK k \in Nat \ {0} : k = Len(x)
  BY <1>7
<1>9. (r * k) \div Batch[w] \in Nat \ {0}
  <2>1. Batch[w] \in Nat \ {0} /\ Batch[w] <= r /\ r \in Nat \ {0}
    BY SignalAssumption
  <2>2. QED
    BY <2>1, RateStays
<1>10. f \in [wave : Rates, mode : Modes, rate : Nat \ {0}, pts : Seq(Int)] /\ f.pts # <<>>
  BY <1>2, <1>7, <1>8, <1>9
<1>11. QED
  BY <1>10 DEF Delivered

-----------------------------------------------------------------------------
(* The history is the end of what came, all of it or two windows at least;  *)
(* so the picture is too, and as long as its window allows.                 *)
PictureTypeOK ==
    /\ span \in Spans /\ lastRate \in Nat /\ narrowest \in Nat
    /\ history \in Seq(Int) /\ fed \in Seq(Int) /\ picture \in Seq(Int)

(* What is enough: all of f, or two of the narrowest windows.               *)
Enough(h, f, narrow) == Len(h) >= Len(f) \/ (narrow > 0 /\ Len(h) >= 2 * narrow)

Grown(h, f, narrow) == Suffix(h, f) /\ Enough(h, f, narrow)

PictureInv ==
    /\ PictureTypeOK
    /\ Grown(history, fed, narrowest)
    /\ Suffix(picture, fed)
    /\ pc = "upload" => /\ Len(picture) <= WindowSamples(lastRate)
                        /\ \/ Len(picture) >= Len(fed)
                           \/ Len(picture) >= WindowSamples(lastRate)
                           \/ Len(picture) >= 2 * narrowest

LEMMA WindowIsNat ==
    ASSUME NEW r \in Nat, span \in Spans
    PROVE  WindowSamples(r) \in Nat /\ (r = 0 => WindowSamples(r) = 0)
<1>1. PICK u \in Nat \ {0}, s \in Nat : u = SpanUnit /\ s = span
  BY DisplayAssumption
<1>2. PICK a \in Nat : a = r * s /\ (r = 0 => a = 0)
  OBVIOUS
<1>3. a \div u \in Nat /\ (a = 0 => a \div u = 0)
  OBVIOUS
<1>4. QED
  BY <1>1, <1>2, <1>3 DEF WindowSamples

LEMMA InvGivesNewest == PictureInv => WindowIsNewest
<1> SUFFICES ASSUME PictureInv PROVE WindowIsNewest
  OBVIOUS
<1>1. PICK n \in Nat, k \in Nat : n = Len(picture) /\ k = Len(fed)
  BY DEF PictureInv, PictureTypeOK
<1>2. n <= Len(fed) /\ picture = LastOf(fed, n)
  BY <1>1, SuffixIsLast DEF PictureInv, PictureTypeOK
<1>3. PICK w \in Nat, d \in Nat : w = WindowSamples(lastRate) /\ d = 2 * narrowest
  BY WindowIsNat DEF PictureInv, PictureTypeOK
<1>4. ASSUME pc = "upload"
      PROVE  n <= w /\ n >= Min({k, w, d})
  <2>1. n <= w /\ (n >= k \/ n >= w \/ n >= d)
    BY <1>1, <1>3, <1>4 DEF PictureInv
  <2>2. PICK S : S = {k, w, d}
    OBVIOUS
  <2>3. S \subseteq Nat /\ S # {}
    BY <2>2
  <2>4. Min(S) \in S /\ \A y \in S : Min(S) =< y
    BY <2>3, LeastElement
  <2>5. PICK x \in S : x = Min(S)
    BY <2>4
  <2>6. x \in Nat /\ x =< k /\ x =< w /\ x =< d
    BY <2>2, <2>4, <2>5
  <2>7. QED
    BY <2>1, <2>2, <2>5, <2>6
<1>5. QED
  BY <1>1, <1>2, <1>3, <1>4 DEF WindowIsNewest

LEMMA SuffixSelf ==
    ASSUME NEW a \in Seq(Int)
    PROVE  Suffix(a, a)
  BY DEF Suffix

(* With the frames of a pass.                                               *)
LEMMA FeedGrows ==
    ASSUME out \in Seq(Delivered), out # <<>>, PictureInv,
           NEW h, h = FoldLeft(Accumulate, [rate |-> lastRate, pts |-> history], out),
           NEW narrow, narrow = IF \E i \in 1..Len(out) : lastRate # 0 /\ out[i].rate # lastRate
                                THEN 0 ELSE narrowest
    PROVE  /\ h.rate \in Nat /\ h.pts \in Seq(Int) /\ narrow \in Nat
           /\ Received(fed, out) \in Seq(Int)
           /\ Grown(h.pts, Received(fed, out), narrow)
<1> DEFINE renewed == \E i \in 1..Len(out) : lastRate # 0 /\ out[i].rate # lastRate
<1>1. PICK n \in Nat : n = Len(out) /\ n >= 1
  OBVIOUS
<1>2. PICK last \in Nat \ {0} : last = out[n].rate
  <2>1. out[n] \in Delivered
    BY <1>1
  <2>2. QED
    BY <2>1 DEF Delivered
<1>3. lastRate \in Nat /\ history \in Seq(Int) /\ fed \in Seq(Int) /\ narrowest \in Nat
      /\ Grown(history, fed, narrowest)
  BY DEF PictureInv, PictureTypeOK
<1>4. PICK j \in Seq(Int) : j = FlattenSeq(Newest(out))
  BY <1>1, FoldIsArrived, <1>3
<1>5. h = [rate |-> last, pts |-> Arrived(history, lastRate, out)]
  BY <1>1, <1>2, <1>3, FoldIsArrived
<1>6. Received(fed, out) = Arrived(fed, lastRate, out)
  BY ReceivedIsArrived
<1>7. h.rate = last /\ h.pts = Arrived(history, lastRate, out) /\ narrow \in Nat
  BY <1>3, <1>5
<1>8. CASE GoesOn(lastRate, out)
  <2>1. h.pts = history \o j /\ Received(fed, out) = fed \o j
    BY <1>4, <1>6, <1>7, <1>8 DEF Arrived
  <2>2. Suffix(history \o j, fed \o j)
    BY <1>3, SuffixConcat DEF Grown
  <2>3. ~renewed
    <3> SUFFICES ASSUME NEW i \in 1..n, lastRate # 0, out[i].rate # lastRate PROVE FALSE
      BY <1>1
    <3>1. lastRate = out[n].rate /\ Older(out) = {}
      BY <1>1, <1>8 DEF GoesOn
    <3>2. i \in Older(out)
      BY <1>1, <3>1 DEF Older
    <3>3. QED
      BY <3>1, <3>2
  <2>4. Enough(history \o j, fed \o j, narrowest)
    <3>1. PICK a \in Nat, b \in Nat, c \in Nat :
              /\ a = Len(history) /\ b = Len(fed) /\ c = Len(j)
              /\ Len(history \o j) = a + c /\ Len(fed \o j) = b + c
      BY <1>3, ConcatProperties
    <3>2. a >= b \/ (narrowest > 0 /\ a >= 2 * narrowest)
      BY <1>3, <3>1 DEF Grown, Enough
    <3>3. a + c >= b + c \/ (narrowest > 0 /\ a + c >= 2 * narrowest)
      BY <1>3, <3>2
    <3>4. QED
      BY <3>1, <3>3 DEF Enough
  <2>5. narrow = narrowest
    BY <2>3
  <2>6. history \o j \in Seq(Int) /\ fed \o j \in Seq(Int)
    BY <1>3, ConcatProperties
  <2>7. QED
    BY <1>2, <1>7, <2>1, <2>2, <2>4, <2>5, <2>6 DEF Grown
<1>9. CASE ~GoesOn(lastRate, out)
  <2>1. h.pts = <<>> \o j /\ Received(fed, out) = <<>> \o j
    BY <1>4, <1>6, <1>7, <1>9 DEF Arrived
  <2>2. PICK x \in Seq(Int) : x = <<>> \o j
    OBVIOUS
  <2>3. Suffix(x, x) /\ Enough(x, x, narrow)
    <3>1. Len(x) \in Nat
      OBVIOUS
    <3>2. Suffix(x, x) /\ Len(x) >= Len(x)
      BY <3>1, SuffixSelf
    <3>3. QED
      BY <3>2 DEF Enough
  <2>4. QED
    BY <1>2, <1>7, <2>1, <2>2, <2>3 DEF Grown
<1>10. QED
  BY <1>8, <1>9

(* What is kept of it, and the picture.                                     *)
Trim(p, n) == LastOf(p, Least(Len(p), n))
Narrower(narrow, w) == IF narrow = 0 THEN w ELSE Least(narrow, w)

LEMMA Trimmed ==
    ASSUME NEW p \in Seq(Int), NEW f \in Seq(Int), NEW narrow \in Nat, Grown(p, f, narrow),
           NEW w \in Nat, w # 0,
           NEW least, least = Narrower(narrow, w),
           NEW kept, kept = Trim(p, 2 * w), NEW pic, pic = Trim(kept, w)
    PROVE  /\ kept \in Seq(Int) /\ pic \in Seq(Int) /\ least \in Nat
           /\ Grown(kept, f, least) /\ Suffix(pic, f)
           /\ Len(pic) <= w
           /\ Len(pic) >= Len(f) \/ Len(pic) >= w \/ Len(pic) >= 2 * least
<1>1. PICK a \in Nat, b \in Nat : a = Len(p) /\ b = Len(f)
  OBVIOUS
<1>2. PICK c \in 0..a : c = Least(a, 2 * w) /\ c <= 2 * w /\ c \in {a, 2 * w}
  BY DEF Least
<1>3. kept \in Seq(Int) /\ Len(kept) = c /\ Suffix(kept, p)
  BY <1>1, <1>2, LastOfShape DEF Trim
<1>4. PICK d \in 0..c : d = Least(c, w) /\ d <= w /\ d \in {c, w}
  BY DEF Least
<1>5. pic \in Seq(Int) /\ Len(pic) = d /\ Suffix(pic, kept)
  BY <1>3, <1>4, LastOfShape DEF Trim
<1>6. Suffix(p, f) /\ (a >= b \/ (narrow > 0 /\ a >= 2 * narrow))
  BY <1>1 DEF Grown, Enough
<1>7. Suffix(kept, f)
  BY <1>3, <1>6, SuffixTrans
<1>8. Suffix(pic, f)
  BY <1>3, <1>5, <1>7, SuffixTrans
<1>9. least \in Nat /\ least > 0 /\ least <= w /\ (narrow > 0 => least <= narrow)
  BY DEF Least, Narrower
<1>10. c >= b \/ c >= 2 * least
  BY <1>2, <1>6, <1>9
<1>11. d >= b \/ d >= w \/ d >= 2 * least
  BY <1>4, <1>10
<1>12. Enough(kept, f, least)
  <2>1. Len(f) = b /\ Len(kept) = c /\ least > 0
    BY <1>1, <1>3, <1>9
  <2>2. Len(kept) >= Len(f) \/ (least > 0 /\ Len(kept) >= 2 * least)
    BY <1>10, <2>1
  <2>3. QED
    BY <2>2 DEF Enough
<1>13. QED
  BY <1>1, <1>3, <1>4, <1>5, <1>7, <1>8, <1>9, <1>11, <1>12 DEF Grown

(* Without frames nothing changes.                                          *)
LEMMA NothingFed ==
    ASSUME out = <<>>, PictureInv,
           NEW h, h = FoldLeft(Accumulate, [rate |-> lastRate, pts |-> history], out)
    PROVE  h.rate = lastRate /\ h.pts = history
<1>1. DOMAIN out = 1..0 /\ 0 \in Nat
  OBVIOUS
<1>2. PICK g : Steps(out, [rate |-> lastRate, pts |-> history], 0, g) /\ h = g[0]
  BY <1>1, FoldSteps
<1>3. h = [rate |-> lastRate, pts |-> history]
  BY <1>2 DEF Steps
<1>4. QED
  BY <1>3

(* A pass takes in what came and makes its picture.                         *)
LEMMA ProcessKeeps ==
    ASSUME SignalInv, PictureInv, Feed
    PROVE  PictureInv'
<1> DEFINE h == FoldLeft(Accumulate, [rate |-> lastRate, pts |-> history], out)
           renewed == \E i \in 1..Len(out) : lastRate # 0 /\ out[i].rate # lastRate
           narrow == IF renewed THEN 0 ELSE narrowest
           window == WindowSamples(h.rate)
           kept == LastOf(h.pts, Least(Len(h.pts), 2 * window))
           pic == LastOf(kept, Least(Len(kept), window))
           f == IF out = <<>> THEN fed ELSE Received(fed, out)
           least == IF narrow = 0 THEN window ELSE Least(narrow, window)
<1>1. /\ lastRate' = h.rate
      /\ fed' = f
      /\ IF h.rate = 0 \/ window = 0
         THEN history' = h.pts /\ picture' = <<>>
         ELSE history' = kept /\ picture' = pic
      /\ narrowest' = IF window = 0 THEN narrow
                      ELSE IF renewed \/ narrowest = 0 THEN window
                      ELSE Least(narrowest, window)
      /\ pc' = (IF picture' = <<>> THEN "swap" ELSE "upload")
      /\ span' = span
  BY DEF Feed, Process
<1>2. narrowest' = IF window = 0 THEN narrow ELSE least
  BY <1>1
<1>3. out \in Seq(Delivered)
  <2>1. out \in Seq(OutFrames)
    BY DEF SignalInv
  <2>2. QED
    BY <2>1, OutputDelivered
<1>4. /\ h.rate \in Nat /\ h.pts \in Seq(Int) /\ narrow \in Nat /\ f \in Seq(Int)
      /\ Grown(h.pts, f, narrow)
  <2>1. CASE out = <<>>
    <3>1. h.rate = lastRate /\ h.pts = history
      BY <2>1, NothingFed
    <3>2. narrow = narrowest /\ f = fed
      BY <2>1
    <3> HIDE DEF h, narrow, f
    <3>3. QED
      BY <3>1, <3>2 DEF PictureInv, PictureTypeOK
  <2>2. CASE out # <<>>
    <3>1. f = Received(fed, out)
      BY <2>2
    <3> HIDE DEF f
    <3>2. QED
      BY <1>3, <2>2, <3>1, FeedGrows
  <2>3. QED
    BY <2>1, <2>2
<1>5. span \in Spans
  BY DEF PictureInv, PictureTypeOK
<1> HIDE DEF h, f, narrow, renewed
<1>6. window \in Nat /\ (h.rate = 0 => window = 0)
  BY <1>4, <1>5, WindowIsNat
<1>7. WindowSamples(lastRate)' = window
  BY <1>1 DEF WindowSamples
<1> HIDE DEF window, least, kept, pic
<1>8. CASE window = 0
  <2>1. history' = h.pts /\ picture' = <<>> /\ narrowest' = narrow /\ pc' = "swap"
    BY <1>1, <1>2, <1>8
  <2>2. Suffix(<<>>, f)
    BY <1>4 DEF Suffix
  <2>3. PictureTypeOK'
    BY <1>1, <1>4, <1>5, <2>1 DEF PictureTypeOK
  <2>4. Grown(history, fed, narrowest)'
    BY <1>1, <1>4, <2>1 DEF Grown, Suffix, Enough
  <2>5. Suffix(picture, fed)'
    BY <1>1, <2>1, <2>2 DEF Suffix
  <2>6. QED
    BY <2>1, <2>3, <2>4, <2>5 DEF PictureInv
<1>9. CASE window # 0
  <2>1. history' = kept /\ picture' = pic /\ narrowest' = least
    BY <1>1, <1>2, <1>6, <1>9
  <2>2. /\ kept \in Seq(Int) /\ pic \in Seq(Int) /\ least \in Nat
        /\ Grown(kept, f, least) /\ Suffix(pic, f)
        /\ Len(pic) <= window
        /\ Len(pic) >= Len(f) \/ Len(pic) >= window \/ Len(pic) >= 2 * least
    <3>1. kept = Trim(h.pts, 2 * window) /\ pic = Trim(kept, window)
          /\ least = Narrower(narrow, window)
      BY DEF kept, pic, least, Trim, Narrower
    <3>2. window \in Nat /\ window # 0
      BY <1>6, <1>9
    <3>3. QED
      BY <1>4, <3>1, <3>2, Trimmed
  <2>3. PictureTypeOK'
    BY <1>1, <1>4, <1>5, <2>1, <2>2 DEF PictureTypeOK
  <2>4. Grown(history, fed, narrowest)'
    BY <1>1, <2>1, <2>2 DEF Grown, Suffix, Enough
  <2>5. Suffix(picture, fed)'
    BY <1>1, <2>1, <2>2 DEF Suffix
  <2>6. /\ Len(picture') <= window
        /\ \/ Len(picture') >= Len(fed')
           \/ Len(picture') >= window
           \/ Len(picture') >= 2 * narrowest'
    BY <1>1, <2>1, <2>2
  <2>7. QED
    BY <1>7, <2>3, <2>4, <2>5, <2>6 DEF PictureInv
<1>10. QED
  BY <1>8, <1>9

LEMMA PictureUndisturbed ==
    ASSUME PictureInv, UNCHANGED <<history, lastRate, picture, fed, narrowest>>,
           span' \in Spans, pc' = "upload" => pc = "upload" /\ span' = span
    PROVE  PictureInv'
<1>1. PictureTypeOK'
  BY DEF PictureInv, PictureTypeOK
<1>2. Grown(history, fed, narrowest)' /\ Suffix(picture, fed)'
  BY DEF PictureInv, Grown, Suffix, Enough
<1>3. pc' = "upload" => WindowSamples(lastRate)' = WindowSamples(lastRate)
  BY DEF WindowSamples
<1>4. QED
  BY <1>1, <1>2, <1>3 DEF PictureInv

LEMMA InitPictureInv == Init => PictureInv
<1> SUFFICES ASSUME Init PROVE PictureInv
  OBVIOUS
<1>1. /\ pc = "top" /\ span = FirstSpan /\ history = <<>> /\ lastRate = 0
      /\ picture = <<>> /\ fed = <<>> /\ narrowest = 0
  BY DEF Init
<1>2. PictureTypeOK
  BY <1>1, DisplayAssumption DEF PictureTypeOK
<1>3. Suffix(<<>>, <<>>)
  BY DEF Suffix
<1>4. Enough(<<>>, <<>>, 0)
  BY DEF Enough
<1>5. QED
  BY <1>1, <1>2, <1>3, <1>4 DEF PictureInv, Grown

LEMMA NextKeepsPictureInv ==
    ASSUME SignalInv, PictureInv, [Next]_vars
    PROVE  PictureInv'
<1>1. span \in Spans
  BY DEF PictureInv, PictureTypeOK
<1>2. CASE Feed
  BY <1>2, ProcessKeeps
<1>3. CASE Command \/ Resized \/ Upload \/ SwapBuffers \/ Draw \/ Recreated
  <2>1. UNCHANGED viz /\ (pc' = "upload" => pc = "upload")
    BY <1>3 DEF Command, Resized, Upload, SwapBuffers, Draw, Recreated
  <2>2. QED
    BY <1>1, <2>1, PictureUndisturbed DEF viz
<1>4. CASE StepSpan
  BY <1>4, PictureUndisturbed DEF StepSpan
<1>5. CASE UNCHANGED <<pc, viz>>
  BY <1>1, <1>5, PictureUndisturbed DEF viz
<1>6. CASE SignalStep /\ UNCHANGED <<gpuVars, pc, commands, viz>>
  BY <1>5, <1>6
<1>7. CASE Finish /\ UNCHANGED <<signal, pc, commands, viz>>
  BY <1>5, <1>7
<1>8. CASE UNCHANGED vars
  BY <1>5, <1>8 DEF vars
<1>9. QED
  BY <1>2, <1>3, <1>4, <1>6, <1>7, <1>8 DEF Next, Pass

(* Whatever the rates and the spans, and however frames bunch up and rates   *)
(* change between and within the passes, the picture is the newest samples  *)
(* of one density, and only the limit of two windows cuts it short          *)
(* (visualization_stage.cpp:25-33, :78-86, :118-131).                       *)
THEOREM NewestShown == Spec => []WindowIsNewest
<1> DEFINE Inv == SignalInv /\ PictureInv
<1>1. Init => Inv
  BY InitSignalInv, InitPictureInv
<1>2. Inv /\ [Next]_vars => Inv'
  BY NextKeepsSignalInv, NextKeepsPictureInv
<1>3. Inv => WindowIsNewest
  BY InvGivesNewest
<1>4. QED
  BY <1>1, <1>2, <1>3, PTL DEF Spec

=============================================================================
