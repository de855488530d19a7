----------------------------- MODULE MCRouterPorts -----------------------------
(* Hosts behind one router: model values and the symmetry. *)
EXTENDS RouterPorts, TLC

Alike == Permutations(Hosts) \cup Permutations(Ports) \cup Permutations(Addresses)
===============================================================================
