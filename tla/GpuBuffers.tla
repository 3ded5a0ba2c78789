------------------------------ MODULE GpuBuffers ------------------------------
(***************************************************************************)
(* What a pass of the viewer's loop asks of the GPU (BufferManager and     *)
(* Renderer): the upload of a picture into a slot that is not shown, the   *)
(* poll for slots that have arrived, the drawing of the one shown.         *)
(*                                                                         *)
(* The device is external: one queue.  Its submissions begin in order, but *)
(* without a barrier between them they may overlap; only their fences are  *)
(* signalled in order, each when its submission and all before it are      *)
(* over.  So any of those in gpu, whose fences are not signalled, may be   *)
(* at work.                                                                *)
(***************************************************************************)
EXTENDS Integers, Sequences, FiniteSetsExt

CONSTANTS
    SlotCount,       \* SLOT_COUNT
    FramesInFlight   \* MAX_FRAMES_IN_FLIGHT

ASSUME GpuAssumption ==
    /\ SlotCount \in Nat /\ SlotCount >= 2
    /\ FramesInFlight \in Nat \ {0}

VARIABLES
    fence,           \* of each slot: transfer_fence is signalled
    pending,         \* of each slot: transfer_pending
    drawSlot,        \* draw_slot_, or -1
    inFlight,        \* in_flight_fences_: signalled
    current,         \* current_frame_
    poll,            \* try_swap on its way: the next slot, and the best so far
    gpu              \* submissions whose fence is not signalled, in order

Slots == 0..SlotCount - 1

gpuVars == <<fence, pending, drawSlot, inFlight, current, poll, gpu>>

Transfer(s) == [type |-> "transfer", id |-> s, slot |-> s]
Drawing(f, s) == [type |-> "draw", id |-> f, slot |-> s]

GpuInit ==
    /\ fence = [s \in Slots |-> TRUE] /\ pending = [s \in Slots |-> FALSE]
    /\ drawSlot = -1
    /\ inFlight = [f \in 0..FramesInFlight - 1 |-> TRUE] /\ current = 0
    /\ poll = [next |-> 0, best |-> -1]
    /\ gpu = <<>>

-----------------------------------------------------------------------------
(* All slots busy: the first is taken, shown or not. *)
MFindFreeSlot ==
    IF \E s \in Slots \ {drawSlot} : ~pending[s]
    THEN Min({s \in Slots \ {drawSlot} : ~pending[s]})
    ELSE 0

(* A slot that is neither shown nor in transfer, or else the first that is  *)
(* not shown.                                                               *)
FindFreeSlot ==
    LET idle == {s \in Slots \ {drawSlot} : ~pending[s]}
    IN Min(IF idle # {} THEN idle ELSE Slots \ {drawSlot})

(* upload_streaming, once the slot's last transfer is over. *)
UploadStreaming ==
    LET s == FindFreeSlot
    IN /\ fence[s]
       /\ fence' = [fence EXCEPT ![s] = FALSE]
       /\ pending' = [pending EXCEPT ![s] = TRUE]
       /\ gpu' = Append(gpu, Transfer(s))
       /\ UNCHANGED <<drawSlot, inFlight, current, poll>>

(* try_swap looks at the slots one by one, while the device goes on ... *)
PollSlot ==
    /\ poll.next < SlotCount
    /\ LET arrived == pending[poll.next] /\ fence[poll.next]
       IN /\ pending' = [pending EXCEPT ![poll.next] = @ /\ ~arrived]
          /\ poll' = [next |-> poll.next + 1,
                      best |-> IF arrived THEN poll.next ELSE poll.best]
    /\ UNCHANGED <<fence, drawSlot, inFlight, current, gpu>>

(* ... and shows the last one it found. *)
Swap ==
    /\ poll.next = SlotCount
    /\ drawSlot' = IF poll.best >= 0 THEN poll.best ELSE drawSlot
    /\ poll' = [next |-> 0, best |-> -1]
    /\ UNCHANGED <<fence, pending, inFlight, current, gpu>>

-----------------------------------------------------------------------------
(* The frame's fence reset before an image is acquired. *)
MNoImage ==
    /\ inFlight[current]
    /\ inFlight' = [inFlight EXCEPT ![current] = FALSE]
    /\ UNCHANGED <<fence, pending, drawSlot, current, poll, gpu>>

(* draw_frame waits for the frame before last, and finds the swapchain out  *)
(* of date ...                                                              *)
NoImage ==
    /\ inFlight[current]
    /\ UNCHANGED gpuVars

(* ... or submits, and presents; the next frame is the other one, whether   *)
(* the picture could be presented or not.                                   *)
SubmitDraw ==
    /\ inFlight[current]
    /\ inFlight' = [inFlight EXCEPT ![current] = FALSE]
    /\ gpu' = Append(gpu, Drawing(current, drawSlot))
    /\ current' = (current + 1) % FramesInFlight
    /\ UNCHANGED <<fence, pending, drawSlot, poll>>

(* Swapchain::recreate begins with vkDeviceWaitIdle. *)
Recreate ==
    /\ gpu = <<>>
    /\ UNCHANGED gpuVars

(* The device signals the oldest fence. *)
Finish ==
    /\ gpu # <<>>
    /\ gpu' = Tail(gpu)
    /\ LET done == Head(gpu)
       IN IF done.type = "transfer"
          THEN fence' = [fence EXCEPT ![done.id] = TRUE] /\ UNCHANGED inFlight
          ELSE inFlight' = [inFlight EXCEPT ![done.id] = TRUE] /\ UNCHANGED fence
    /\ UNCHANGED <<pending, drawSlot, current, poll>>

-----------------------------------------------------------------------------
(* What is drawn has arrived: no transfer writes the slot on show, and no    *)
(* drawing is submitted while a transfer into its slot may be at work,       *)
(* however late the device is and whatever the polling has seen              *)
(* (buffer_manager.cpp:104-118, :209-225).                                   *)
DrawnHasArrived ==
    /\ drawSlot >= 0 => fence[drawSlot]
    /\ \A j \in 1..Len(gpu) : gpu[j].type = "draw" =>
           \A i \in 1..j - 1 : gpu[i] # Transfer(gpu[j].slot)

(* ... and the reverse, "a slot that's idle (not draw, not transferring)"    *)
(* (buffer_manager.cpp:105) is taken for an upload: no transfer is submitted *)
(* while a drawing of its slot may be at work.  An upload waits only for the *)
(* slot's last transfer, and a slot is left out only while it is on show, so *)
(* this does not hold.                                                       *)
DrawnIsLeftAlone ==
    \A j \in 1..Len(gpu) : gpu[j].type = "transfer" =>
        \A i \in 1..j - 1 : gpu[i].type = "draw" => gpu[i].slot # gpu[j].slot

(* Every wait without a timeout ends: a fence that is not signalled belongs  *)
(* to a submission the device still has, through resets, early returns and   *)
(* swapchains out of date (renderer.cpp:68-83, buffer_manager.cpp:172-199).  *)
FencesComeBack ==
    /\ \A s \in Slots : ~fence[s] => \E i \in 1..Len(gpu) : gpu[i] = Transfer(s)
    /\ \A f \in DOMAIN inFlight : ~inFlight[f] =>
           \E i \in 1..Len(gpu) : gpu[i].type = "draw" /\ gpu[i].id = f

=============================================================================
