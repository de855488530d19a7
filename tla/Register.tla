------------------------------- MODULE Register -------------------------------
(***************************************************************************)
(* What the introduction server promises to the owners of identifiers,     *)
(* without requests, goroutines, flags or locks.                           *)
(*                                                                         *)
(* An owner who holds no identifier takes one that is free; it stays       *)
(* theirs until they give it up, or, as long as no host was seen on it,    *)
(* until it is forgotten.  The book is saved from copies, one at a time,   *)
(* and a restart takes it back to what was saved last: to a page it once   *)
(* was, and never to an older one than a restart before it would have.     *)
(***************************************************************************)
CONSTANTS Ids, Owners, Nobody

VARIABLES
  book,    \* who holds each id, and whether a host was seen on it
  saved,   \* the book a restart finds
  copies   \* the copies of the book on their way to be saved

vars == <<book, saved, copies>>

Free == [owner |-> Nobody, used |-> FALSE]
Blank == [i \in Ids |-> Free]

Init == book = Blank /\ saved = Blank /\ copies = {}

\* Any ids nobody was ever seen on, forgotten together.
Unused == {i \in Ids : book[i].owner # Nobody /\ ~book[i].used}
Without(gone) == [i \in Ids |-> IF i \in gone THEN Free ELSE book[i]]

Forget ==
  /\ \E gone \in SUBSET Unused : book' = Without(gone)
  /\ UNCHANGED <<saved, copies>>

\* Room may be made for a claim first.  An id somebody holds is never taken.
Claim(i, o) ==
  /\ book[i] = Free
  /\ \A j \in Ids : book[j].owner # o
  /\ \E gone \in SUBSET Unused :
       book' = [Without(gone) EXCEPT ![i] = [owner |-> o, used |-> FALSE]]
  /\ UNCHANGED <<saved, copies>>

Use(i) ==
  /\ book[i].owner # Nobody
  /\ book' = [book EXCEPT ![i].used = TRUE]
  /\ UNCHANGED <<saved, copies>>

GiveUp(i) ==
  /\ book[i].owner # Nobody
  /\ book' = [book EXCEPT ![i] = Free]
  /\ UNCHANGED <<saved, copies>>

Copy ==
  /\ copies = {}
  /\ copies' = {book}
  /\ UNCHANGED <<book, saved>>

Save ==
  /\ copies = {saved'}
  /\ copies' = {}
  /\ UNCHANGED book

\* The copy is lost, and nothing else.
Lose ==
  /\ copies' = {}
  /\ UNCHANGED <<book, saved>>

Restart ==
  /\ book' = saved
  /\ copies' = {}
  /\ UNCHANGED saved

Next ==
  \/ Forget \/ Copy \/ Save \/ Lose \/ Restart
  \/ \E i \in Ids : Use(i) \/ GiveUp(i) \/ \E o \in Owners : Claim(i, o)

Spec == Init /\ [][Next]_vars
===============================================================================
