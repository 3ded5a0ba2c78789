----------------------------- MODULE FrameStream -----------------------------
(***************************************************************************)
(* What a transport promises the two programs it joins: a frame arrives    *)
(* whole or not at all, and is one that was sent.  A stream that is        *)
(* reliable delivers the frames in the order they were sent, none twice    *)
(* and none left out in between; a lossy one delivers any, in any order.   *)
(***************************************************************************)
EXTENDS Sequences, Naturals

VARIABLES
    reliable,   \* which of the two promises is made, for good
    sent,       \* the frames given to send_frame, in order
    got         \* the frames that receive_frame has returned, in order

Init == reliable \in BOOLEAN /\ sent = <<>> /\ got = <<>>

Send ==
    /\ Len(sent') = Len(sent) + 1
    /\ SubSeq(sent', 1, Len(sent)) = sent
    /\ UNCHANGED <<reliable, got>>

Deliver ==
    \E i \in DOMAIN sent :
        /\ reliable => i = Len(got) + 1
        /\ got' = Append(got, sent[i])
        /\ UNCHANGED <<reliable, sent>>

Next == Send \/ Deliver

Spec == Init /\ [][Next]_<<reliable, sent, got>>

=============================================================================
