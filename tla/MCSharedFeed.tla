----------------------------- MODULE MCSharedFeed -----------------------------
(* The shared feed with model values for slots and worker processes. *)
EXTENDS SharedFeed, TLC

TwoSlots == Permutations(Slots)
===============================================================================
