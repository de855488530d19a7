----------------------------- MODULE Switchboard -----------------------------
(***************************************************************************)
(* What the introduction server promises to the hosts that hold a line and *)
(* to the browsers that ask for one, without goroutines, locks or sockets. *)
(*                                                                         *)
(* Each identifier has one line on the board at most, the last one plugged *)
(* in.  A line that falls has left the board first, and takes nobody new.  *)
(* A browser calls once, on a line of the id it asked for; a line has so   *)
(* many places; a browser without a place is hung up.                      *)
(***************************************************************************)
EXTENDS Naturals, FiniteSets

CONSTANTS Ids, Lines, Browsers, LineId, WantedId, MaxSessions, NoLine

VARIABLES
  board,    \* the line reached under each id
  plugged,  \* the lines that were ever put on the board
  fallen,   \* the lines that fell
  places,   \* the browsers who have a place on each line
  call      \* each browser's one call: none yet, on, over

vars == <<board, plugged, fallen, places, call>>

Init ==
  /\ board = [i \in Ids |-> NoLine]
  /\ plugged = {}
  /\ fallen = {}
  /\ places = [l \in Lines |-> {}]
  /\ call = [b \in Browsers |-> "none"]

\* The newest line takes the id, and is never put there again.
Plug(l) ==
  /\ l \notin plugged
  /\ plugged' = plugged \cup {l}
  /\ board' = [board EXCEPT ![LineId[l]] = l]
  /\ UNCHANGED <<fallen, places, call>>

Unplug(l) ==
  /\ board[LineId[l]] = l
  /\ board' = [board EXCEPT ![LineId[l]] = NoLine]
  /\ UNCHANGED <<plugged, fallen, places, call>>

\* A line falls once, when nobody can find it any more, and everybody on it
\* loses their place together.
Fall(l) ==
  /\ l \in plugged \ fallen
  /\ board[LineId[l]] # l
  /\ fallen' = fallen \cup {l}
  /\ places' = [places EXCEPT ![l] = {}]
  /\ UNCHANGED <<board, plugged, call>>

PutThrough(b, l) ==
  /\ call[b] = "none"
  /\ l \in plugged \ fallen
  /\ LineId[l] = WantedId[b]
  /\ Cardinality(places[l]) < MaxSessions
  /\ call' = [call EXCEPT ![b] = "on"]
  /\ places' = [places EXCEPT ![l] = @ \cup {b}]
  /\ UNCHANGED <<board, plugged, fallen>>

TurnAway(b) ==
  /\ call[b] = "none"
  /\ call' = [call EXCEPT ![b] = "over"]
  /\ UNCHANGED <<board, plugged, fallen, places>>

\* The host ends the call, or does not get through to the browser.
LosesPlace(b, l) ==
  /\ b \in places[l]
  /\ places' = [places EXCEPT ![l] = @ \ {b}]
  /\ UNCHANGED <<board, plugged, fallen, call>>

\* The call is over, and its place is free.
HangUp(b) ==
  /\ call[b] = "on"
  /\ call' = [call EXCEPT ![b] = "over"]
  /\ places' = [l \in Lines |-> places[l] \ {b}]
  /\ UNCHANGED <<board, plugged, fallen>>

Next ==
  \/ \E l \in Lines : Plug(l) \/ Unplug(l) \/ Fall(l)
  \/ \E b \in Browsers : TurnAway(b) \/ HangUp(b)
  \/ \E b \in Browsers, l \in Lines : PutThrough(b, l) \/ LosesPlace(b, l)

Calls == Init /\ [][Next]_vars

\* Whoever lost the place, with the line or alone, is hung up.
HasNoPlace(b) == \A l \in Lines : b \notin places[l]
EverybodyIsHungUp == \A b \in Browsers : call[b] = "on" /\ HasNoPlace(b) ~> call[b] = "over"

Spec == Calls /\ EverybodyIsHungUp
===============================================================================
