----------------------------- MODULE MCVideoGate ------------------------------
(* VideoGate for TLC: the native engine's queue and a deeper one.            *)
EXTENDS VideoGate

===============================================================================
