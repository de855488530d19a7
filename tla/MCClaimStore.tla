---------------------------- MODULE MCClaimStore ----------------------------
(* Instances of ClaimStore for TLC. *)
EXTENDS ClaimStore, TLC

\* One place in the store and a disk that may fail, with and without the delay.
Failing == [cap : {1}, delayed : BOOLEAN, fails : {TRUE}]
\* Places for all, and a disk that takes what it is given.
GoodDisk == [cap : {0}, delayed : BOOLEAN, fails : {FALSE}]

\* Ids, owners, handlers and timers are interchangeable among themselves.
Symmetry == Permutations(Ids) \cup Permutations(Owners)
              \cup Permutations(Requests) \cup Permutations(Timers)
=============================================================================
