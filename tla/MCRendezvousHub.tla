--------------------------- MODULE MCRendezvousHub ---------------------------
(* An instance of RendezvousHub for TLC: every line and every browser is      *)
(* about one identifier, which is where they meet.                            *)
EXTENDS RendezvousHub

CONSTANTS OneId, FirstLine, FirstBrowser

AllOnOneId == [l \in Lines |-> OneId]
AllWantOneId == [b \in Browsers |-> OneId]

\* Connections are interchangeable: the one that comes first gets the first name.
\* Hosts that never connect and browsers that never get to look up change nothing for
\* the others, and every browser does get there.
FirstComesFirst ==
  /\ \A l \in Lines : host[l] = "new" /\ host'[l] # "new" => l = FirstLine \/ host[FirstLine] # "new"
  /\ \A b \in Browsers :
       peer[b] = "new" /\ peer'[b] # "new" => b = FirstBrowser \/ peer[FirstBrowser] # "new"
=============================================================================
