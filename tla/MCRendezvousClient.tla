------------------------- MODULE MCRendezvousClient -------------------------
(* Instances of RendezvousClient for TLC: the constants are plain values.     *)
EXTENDS RendezvousClient
=============================================================================
