--------------------------- MODULE MCInputWatchdog ---------------------------
(* Instances of InputWatchdog for TLC: inputs are model values.               *)
EXTENDS InputWatchdog

CONSTANTS k, h, b, g
=============================================================================
