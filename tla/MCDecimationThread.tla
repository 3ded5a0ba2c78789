------------------------- MODULE MCDecimationThread -------------------------
(* One channel takes the path without workers.  Two channels have a worker   *)
(* each, or one worker between them, as the machine has it: the rounds, the  *)
(* wake-ups and the order of two channels in one worker all occur.  Three    *)
(* samples make up to three rounds before and after a restart, so the        *)
(* generation stays below GenerationMod = 8, as it does for days with 2^32.  *)
(* Rate 0 is a window not set yet, rate 1 a window of one sample, smaller    *)
(* than what a ring holds, so that samples are discarded and trimmed.  At    *)
(* rate 1 = FastRate the mode LTTB is replaced by MinMax; at rate 0 it makes *)
(* no vertices of two points, so that a channel without vertices occurs.     *)
EXTENDS DecimationThread

=============================================================================
