------------------------------ MODULE MCViewer ------------------------------
(* Three kinds of source, two rates, two scenarios of four frames whose      *)
(* verifiers are set up in the third; two keys.                              *)
EXTENDS Viewer

MCModes == {"embedded", "pipe", "udp"}
MCUdp == {"udp"}
MCRates == {1, 2}
MCScenarios == <<1, 2>>

=============================================================================
