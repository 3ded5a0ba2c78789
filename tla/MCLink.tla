------------------------------- MODULE MCLink -------------------------------
(* Three frames of two header units and two blocks, through a pipe of three  *)
(* units or sockets with and without batches; a ring that takes one frame    *)
(* and a half, so that a push is cut short; one fault of the network.        *)
EXTENDS Link

Open(burst) == [open |-> {"tx", "rx"}, maxUnits |-> 4, txBurst |-> burst, rxBurst |-> burst]
TooSmall == [Open(1) EXCEPT !.maxUnits = 3, !.open = {"tx"}]
MCSockets == {Open(1), Open(2), TooSmall}
MCSetups == {<<"pipe", "sg", Open(1)>>, <<"udp", "sg", Open(1)>>,
             <<"udp", "bench", Open(2)>>, <<"udp", "bench", TooSmall>>}

MCMaxFrames == [pipe |-> 2, udp |-> 3]

=============================================================================
