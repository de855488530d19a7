---------------------------- MODULE RendezvousHub ----------------------------
(***************************************************************************)
(* The introduction server's hub (mw-rendezvous/hub.go) with the two       *)
(* handlers that use it, handleHost and handlePeer (main.go).              *)
(*                                                                         *)
(* A host line and a browser are each one WebSocket and the goroutine that *)
(* reads it; a line is reached from its own handler, from every browser's, *)
(* from the goroutine that hangs it up when a newer connection displaced   *)
(* it, and from the timers of closeLater.  What runs under one lock is one *)
(* step; what a handler does between two locks interleaves.                *)
(*                                                                         *)
(* Payloads are opaque to the server and left out: what is modelled is who *)
(* may speak to whom, and what each side is told of the other.             *)
(***************************************************************************)
EXTENDS Naturals, FiniteSets

CONSTANTS
  Ids,          \* identifiers
  Lines,        \* host connections, each used once
  Browsers,     \* browser connections, each used once
  LineId,       \* the id each host connection asks for, already authenticated
  WantedId,     \* the id each browser asks for
  MaxSessions,  \* MW_RDV_MAX_SESSIONS
  NoLine

ASSUME NoLineAssumption == NoLine \notin Lines
ASSUME IdsAssumption == LineId \in [Lines -> Ids] /\ WantedId \in [Browsers -> Ids]
ASSUME MaxSessionsAssumption == MaxSessions \in Nat \ {0}
ASSUME SocketsDistinct == Lines \cap Browsers = {}
ASSUME FinitelyManyBrowsers == IsFiniteSet(Browsers)

VARIABLES
  current,    \* hub.lines
  newest,     \* history: the last line registered for each id
  sessions,   \* hostLine.sessions
  gone,       \* hostLine.gone
  host,       \* where each line's handler stands
  relayTo,    \* the browser whose message a line's handler is delivering
  hanger,     \* the goroutine hanging up a displaced line
  cut,        \* the sessions shutdown() handed to a line's handler
  cutOff,     \* the sessions it handed to a displaced line's goroutine
  peer,       \* where each browser's handler stands
  lineOf,     \* the line a browser's handler looked up
  wire,       \* the server's end of each socket
  closing,    \* closeLater of each browser's session
  hostSees    \* the browsers the host believes are there

vars == <<current, newest, sessions, gone, host, relayTo, hanger, cut, cutOff, peer,
          lineOf, wire, closing, hostSees>>

HostSteps == {"new", "reading", "relaying", "leaving", "unregistered", "hanging", "done"}
PeerSteps == {"new", "found", "added", "opened", "reading", "done"}
Sockets == Lines \cup Browsers

TypeOK ==
  /\ current \in [Ids -> Lines \cup {NoLine}]
  /\ newest \in [Ids -> Lines \cup {NoLine}]
  /\ sessions \in [Lines -> SUBSET Browsers]
  /\ gone \in [Lines -> BOOLEAN]
  /\ host \in [Lines -> HostSteps]
  /\ relayTo \in [Lines -> SUBSET Browsers]
  /\ hanger \in [Lines -> {"none", "called", "hanging", "done"}]
  /\ cut \in [Lines -> SUBSET Browsers]
  /\ cutOff \in [Lines -> SUBSET Browsers]
  /\ peer \in [Browsers -> PeerSteps]
  /\ lineOf \in [Browsers -> Lines \cup {NoLine}]
  /\ wire \in [Sockets -> {"open", "cut", "dead"}]
  /\ closing \in [Browsers -> {"no", "waiting", "sending"}]
  /\ hostSees \in SUBSET Browsers

Init ==
  /\ current = [i \in Ids |-> NoLine]
  /\ newest = [i \in Ids |-> NoLine]
  /\ sessions = [l \in Lines |-> {}]
  /\ gone = [l \in Lines |-> FALSE]
  /\ host = [l \in Lines |-> "new"]
  /\ relayTo = [l \in Lines |-> {}]
  /\ hanger = [l \in Lines |-> "none"]
  /\ cut = [l \in Lines |-> {}]
  /\ cutOff = [l \in Lines |-> {}]
  /\ peer = [b \in Browsers |-> "new"]
  /\ lineOf = [b \in Browsers |-> NoLine]
  /\ wire = [c \in Sockets |-> "open"]
  /\ closing = [b \in Browsers |-> "no"]
  /\ hostSees = {}

HubVars == <<current, newest>>
CutVars == <<cut, cutOff>>
LineVars == <<sessions, gone, host, relayTo, hanger, CutVars>>
PeerVars == <<peer, lineOf>>
ToldVars == <<closing, hostSees>>

-----------------------------------------------------------------------------
\* wsConn.write: a socket the other end has left may swallow a frame or refuse
\* it; one that was closed here refuses it.
CanSend(c) == wire[c] \in {"open", "cut"}
CanFail(c) == wire[c] \in {"cut", "dead"}

\* The other end leaves, or the path to it goes silent.
Cut(c) ==
  /\ wire[c] = "open"
  /\ wire' = [wire EXCEPT ![c] = "cut"]
  /\ UNCHANGED <<HubVars, LineVars, PeerVars, ToldVars>>

\* sendHost(close): the host hears of it when the write goes through.
TellClose(l, b) ==
  \/ CanSend(l) /\ hostSees' = hostSees \ {b}
  \/ CanFail(l) /\ UNCHANGED hostSees

-----------------------------------------------------------------------------
(* handleHost, and the goroutine of a displaced line *)

\* register() puts the newest line in place, whatever was there.
Placed(l) == [current EXCEPT ![LineId[l]] = l]

\* register(), and hangUpLine started on the line it displaced.
Register(l) ==
  LET i == LineId[l] IN
  /\ host[l] = "new"
  /\ current' = Placed(l)
  /\ newest' = [newest EXCEPT ![i] = l]
  /\ hanger' = IF current[i] = NoLine THEN hanger
               ELSE [hanger EXCEPT ![current[i]] = "called"]
  /\ host' = [host EXCEPT ![l] = "reading"]
  /\ UNCHANGED <<sessions, gone, relayTo, CutVars, PeerVars, wire, ToldVars>>

\* The host answers a browser it was told of: the session is looked up, then
\* written to with no lock held.
HostSpeaks(l, b) ==
  /\ host[l] = "reading"
  /\ wire[l] = "open"
  /\ b \in hostSees /\ b \in sessions[l]
  /\ host' = [host EXCEPT ![l] = "relaying"]
  /\ relayTo' = [relayTo EXCEPT ![l] = {b}]
  /\ UNCHANGED <<HubVars, sessions, gone, hanger, CutVars, PeerVars, wire, ToldVars>>

RelayReturns(l) ==
  /\ host' = [host EXCEPT ![l] = "reading"]
  /\ relayTo' = [relayTo EXCEPT ![l] = {}]

RelayDelivers(l, b) ==
  /\ b \in relayTo[l]
  /\ CanSend(b)
  /\ RelayReturns(l)
  /\ UNCHANGED <<HubVars, sessions, gone, hanger, CutVars, PeerVars, wire, ToldVars>>

\* The browser is wedged or gone: dropped, the host told unless somebody else
\* dropped it first, its socket closed.
RelayFails(l, b) ==
  /\ b \in relayTo[l]
  /\ CanFail(b)
  /\ RelayReturns(l)
  /\ sessions' = [sessions EXCEPT ![l] = @ \ {b}]
  /\ IF b \in sessions[l] THEN TellClose(l, b) ELSE UNCHANGED hostSees
  /\ wire' = [wire EXCEPT ![b] = "dead"]
  /\ UNCHANGED <<HubVars, gone, hanger, CutVars, PeerVars, closing>>

\* The host ends a session: dropped, and its browser's socket closed.
HostCloses(l, b) ==
  /\ host[l] = "reading"
  /\ wire[l] = "open"
  /\ b \in hostSees /\ b \in sessions[l]
  /\ sessions' = [sessions EXCEPT ![l] = @ \ {b}]
  /\ wire' = [wire EXCEPT ![b] = "dead"]
  /\ hostSees' = hostSees \ {b}
  /\ UNCHANGED <<HubVars, gone, host, relayTo, hanger, CutVars, PeerVars, closing>>

\* ReadMessage fails and the deferred clean-up starts.
HostReadFails(l) ==
  /\ host[l] = "reading"
  /\ wire[l] # "open"
  /\ host' = [host EXCEPT ![l] = "leaving"]
  /\ UNCHANGED <<HubVars, sessions, gone, relayTo, hanger, CutVars, PeerVars, wire, ToldVars>>

\* Mutant: a line on its way out takes its id with it, whoever holds it.
WithoutLookingAtWho(l) == TRUE
\* unregister(): only the line still in place.
StillCurrent(l) == current[LineId[l]] = l

Unregister(l) ==
  /\ host[l] = "leaving"
  /\ current' = IF StillCurrent(l) THEN [current EXCEPT ![LineId[l]] = NoLine] ELSE current
  /\ host' = [host EXCEPT ![l] = "unregistered"]
  /\ UNCHANGED <<newest, sessions, gone, relayTo, hanger, CutVars, PeerVars, wire, ToldVars>>

\* shutdown(): the line is marked gone, and its sessions are the caller's to
\* hang up.
Shutdown(l) ==
  /\ gone' = [gone EXCEPT ![l] = TRUE]
  /\ sessions' = [sessions EXCEPT ![l] = {}]

\* Mutant: the clean-up shuts the line down and leaves it in the hub.
StillInTheHub(l) == host[l] = "leaving"
OutOfTheHub(l) == host[l] = "unregistered"

HandlerShutdown(l) ==
  /\ OutOfTheHub(l)
  /\ Shutdown(l)
  /\ cut' = [cut EXCEPT ![l] = sessions[l]]
  /\ host' = [host EXCEPT ![l] = "hanging"]
  /\ UNCHANGED <<HubVars, relayTo, hanger, cutOff, PeerVars, wire, ToldVars>>

HangerShutdown(l) ==
  /\ hanger[l] = "called"
  /\ Shutdown(l)
  /\ cutOff' = [cutOff EXCEPT ![l] = sessions[l]]
  /\ hanger' = [hanger EXCEPT ![l] = "hanging"]
  /\ UNCHANGED <<HubVars, host, relayTo, cut, PeerVars, wire, ToldVars>>

\* One session hung up: "host-gone", then its socket.
HandlerHangsUp(l, b) ==
  /\ b \in cut[l]
  /\ cut' = [cut EXCEPT ![l] = @ \ {b}]
  /\ wire' = [wire EXCEPT ![b] = "dead"]
  /\ UNCHANGED <<HubVars, sessions, gone, host, relayTo, hanger, cutOff, PeerVars, ToldVars>>

HangerHangsUp(l, b) ==
  /\ b \in cutOff[l]
  /\ cutOff' = [cutOff EXCEPT ![l] = @ \ {b}]
  /\ wire' = [wire EXCEPT ![b] = "dead"]
  /\ UNCHANGED <<HubVars, sessions, gone, host, relayTo, hanger, cut, PeerVars, ToldVars>>

\* All hung up: the line's own socket.
HandlerReturns(l) ==
  /\ host[l] = "hanging"
  /\ cut[l] = {}
  /\ host' = [host EXCEPT ![l] = "done"]
  /\ wire' = [wire EXCEPT ![l] = "dead"]
  /\ UNCHANGED <<HubVars, sessions, gone, relayTo, hanger, CutVars, PeerVars, ToldVars>>

HangerReturns(l) ==
  /\ hanger[l] = "hanging"
  /\ cutOff[l] = {}
  /\ hanger' = [hanger EXCEPT ![l] = "done"]
  /\ wire' = [wire EXCEPT ![l] = "dead"]
  /\ UNCHANGED <<HubVars, sessions, gone, host, relayTo, CutVars, PeerVars, ToldVars>>

-----------------------------------------------------------------------------
(* handlePeer *)

\* The handler returns and the browser's socket is closed.
PeerReturns(b) ==
  /\ peer' = [peer EXCEPT ![b] = "done"]
  /\ wire' = [wire EXCEPT ![b] = "dead"]

\* hub.line(), after the upgrade: nobody there is "offline".
LookUp(b) ==
  LET l == current[WantedId[b]] IN
  /\ peer[b] = "new"
  /\ \/ /\ l = NoLine
        /\ PeerReturns(b)
        /\ UNCHANGED lineOf
     \/ /\ l # NoLine
        /\ peer' = [peer EXCEPT ![b] = "found"]
        /\ lineOf' = [lineOf EXCEPT ![b] = l]
        /\ UNCHANGED wire
  /\ UNCHANGED <<HubVars, LineVars, ToldVars>>

\* Mutant: addSession counts places but does not look at the line.
RoomOnAnyLine(l) == Cardinality(sessions[l]) < MaxSessions
Accepts(l) == ~gone[l] /\ Cardinality(sessions[l]) < MaxSessions

\* addSession(): "offline" down a line that shut down since, "busy" down a full
\* one.
AddSession(b) ==
  LET l == lineOf[b] IN
  /\ peer[b] = "found"
  /\ \/ /\ Accepts(l)
        /\ sessions' = [sessions EXCEPT ![l] = @ \cup {b}]
        /\ peer' = [peer EXCEPT ![b] = "added"]
        /\ UNCHANGED wire
     \/ /\ ~Accepts(l)
        /\ PeerReturns(b)
        /\ UNCHANGED sessions
  /\ UNCHANGED <<HubVars, gone, host, relayTo, hanger, CutVars, lineOf, ToldVars>>

\* Mutant: the session of a browser that is refused stays on the line.
SlotForgotten(b) == sessions' = sessions
\* Mutant: the wrong map: the line's entry goes, with every session on it.
LineDropped(b) == sessions' = [l \in Lines \ {lineOf[b]} |-> sessions[l]]
\* dropSession() of a browser's own session.
DropOwn(b) == sessions' = [sessions EXCEPT ![lineOf[b]] = @ \ {b}]

\* The host is told of the browser.
SendOpen(b) ==
  LET l == lineOf[b] IN
  /\ peer[b] = "added"
  /\ CanSend(l)
  /\ peer' = [peer EXCEPT ![b] = "opened"]
  /\ hostSees' = hostSees \cup {b}
  /\ UNCHANGED <<HubVars, LineVars, lineOf, wire, closing>>

\* Its line does not take the frame: the browser is refused.
SendOpenFails(b) ==
  LET l == lineOf[b] IN
  /\ peer[b] = "added"
  /\ CanFail(l)
  /\ DropOwn(b)
  /\ PeerReturns(b)
  /\ UNCHANGED <<HubVars, gone, host, relayTo, hanger, CutVars, lineOf, ToldVars>>

\* The browser is told the host is there, and its messages are read.
SendReady(b) ==
  /\ peer[b] = "opened"
  /\ CanSend(b)
  /\ peer' = [peer EXCEPT ![b] = "reading"]
  /\ UNCHANGED <<HubVars, LineVars, lineOf, wire, ToldVars>>

\* The browser is gone already: its session is dropped and the host told, whether
\* or not somebody dropped it, and told, before.
SendReadyFails(b) ==
  /\ peer[b] = "opened"
  /\ CanFail(b)
  /\ DropOwn(b)
  /\ TellClose(lineOf[b], b)
  /\ PeerReturns(b)
  /\ UNCHANGED <<HubVars, gone, host, relayTo, hanger, CutVars, lineOf, closing>>

\* Mutant: the word to the host is given only by the relay that found it gone.
NothingLater(b) == closing' = closing
\* closeLater(), for a session nobody dropped before its handler did.
CloseLater(b) ==
  closing' = IF b \in sessions[lineOf[b]] THEN [closing EXCEPT ![b] = "waiting"] ELSE closing

\* The read loop ends: the browser left, or a frame could not be relayed.
PeerLeaves(b) ==
  /\ peer[b] = "reading"
  /\ wire[b] # "open" \/ CanFail(lineOf[b])
  /\ DropOwn(b)
  /\ CloseLater(b)
  /\ PeerReturns(b)
  /\ UNCHANGED <<HubVars, gone, host, relayTo, hanger, CutVars, lineOf, hostSees>>

\* closeLater's timer: alive(), then the frame.
CloseTimer(b) ==
  /\ closing[b] = "waiting"
  /\ closing' = [closing EXCEPT ![b] = IF gone[lineOf[b]] THEN "no" ELSE "sending"]
  /\ UNCHANGED <<HubVars, LineVars, PeerVars, wire, hostSees>>

CloseSent(b) ==
  /\ closing[b] = "sending"
  /\ closing' = [closing EXCEPT ![b] = "no"]
  /\ TellClose(lineOf[b], b)
  /\ UNCHANGED <<HubVars, LineVars, PeerVars, wire>>

-----------------------------------------------------------------------------
HostStep(l) ==
  \/ Register(l) \/ HostReadFails(l) \/ Unregister(l)
  \/ HandlerShutdown(l) \/ HangerShutdown(l) \/ HandlerReturns(l) \/ HangerReturns(l)
  \/ \E b \in Browsers : \/ HostSpeaks(l, b) \/ RelayDelivers(l, b) \/ RelayFails(l, b)
                         \/ HostCloses(l, b)
                         \/ HandlerHangsUp(l, b) \/ HangerHangsUp(l, b)

PeerStep(b) ==
  \/ LookUp(b) \/ AddSession(b) \/ SendOpen(b) \/ SendOpenFails(b)
  \/ SendReady(b) \/ SendReadyFails(b) \/ PeerLeaves(b)
  \/ CloseTimer(b) \/ CloseSent(b)

Next ==
  \/ \E l \in Lines : HostStep(l)
  \/ \E b \in Browsers : PeerStep(b)
  \/ \E c \in Sockets : Cut(c)

\* What each goroutine and timer does once nothing holds it back.
HandlerRuns(l) ==
  \/ HostReadFails(l) \/ Unregister(l) \/ HandlerShutdown(l) \/ HandlerReturns(l)
  \/ \E b \in Browsers : HandlerHangsUp(l, b) \/ RelayDelivers(l, b) \/ RelayFails(l, b)
HangerRuns(l) ==
  HangerShutdown(l) \/ HangerReturns(l) \/ \E b \in Browsers : HangerHangsUp(l, b)
PeerRuns(b) ==
  \/ LookUp(b) \/ AddSession(b) \/ SendOpen(b) \/ SendOpenFails(b) \/ SendReady(b)
  \/ SendReadyFails(b) \/ (PeerLeaves(b) /\ wire[b] # "open")
TimerRuns(b) == CloseTimer(b) \/ CloseSent(b)

\* Goroutines and timers run.  A host that connects, speaks or leaves and a
\* browser that leaves are up to the other end; a silent socket is noticed by
\* the read deadline every ping renews.
Fairness ==
  /\ \A l \in Lines : WF_vars(HandlerRuns(l)) /\ WF_vars(HangerRuns(l))
  /\ \A b \in Browsers : WF_vars(PeerRuns(b)) /\ WF_vars(TimerRuns(b))

Spec == Init /\ [][Next]_vars
FairSpec == Spec /\ Fairness

-----------------------------------------------------------------------------
Bridged == {"added", "opened", "reading"}

\* No browser is left waiting on a line that will never answer: as long as its
\* handler runs and its socket is up, its session is on a line that is up, or is
\* among those being hung up (addSession, shutdown).
NobodyStranded ==
  \A b \in Browsers :
    peer[b] \in Bridged /\ wire[b] # "dead"
      => LET l == lineOf[b] IN \/ b \in sessions[l] /\ ~gone[l]
                              \/ b \in cut[l] \cup cutOff[l]

\* A place on a line is held by a browser whose handler still runs: none is ever
\* leaked, so "busy" means what it says (dropSession).
NoPlaceLeaked ==
  \A l \in Lines : \A b \in sessions[l] : lineOf[b] = l /\ peer[b] \in Bridged

\* "The new connection wins": the last line registered for an id is the one
\* browsers reach, until it goes itself, whatever the lines it displaced do on
\* their way out (register, unregister).
NewestLineIsReached ==
  \A i \in Ids : newest[i] # NoLine /\ host[newest[i]] \in {"reading", "relaying", "leaving"}
    => current[i] = newest[i]

\* A host that was told of a browser is told when it is over: as long as it still
\* believes in a browser that left, the word is on its way (closeLater), unless its
\* line is down, or going down.
EndIsOnItsWay ==
  \A b \in Browsers :
    b \in hostSees /\ peer[b] = "done"
      => closing[b] # "no" \/ wire[lineOf[b]] # "open" \/ gone[lineOf[b]]

\* The line a browser finds is never one already shut down: a line leaves the hub
\* before it is (handleHost's clean-up order, hangUpLine after register).
HubHoldsLiveLines == \A i \in Ids : current[i] # NoLine => ~gone[current[i]]

\* What makes the four of them inductive.  A line in place is its id's, its own
\* handler has not given up on it and nobody hangs it up; one that shut down did
\* so in its clean-up or was hung up, and has no session left.
LineInPlace(i, l) ==
  /\ LineId[l] = i
  /\ host[l] \in {"reading", "relaying", "leaving"}
  /\ hanger[l] = "none"
LinesInPlace ==
  /\ \A i \in Ids : current[i] # NoLine => LineInPlace(i, current[i])
  /\ \A i \in Ids : newest[i] # NoLine => LineId[newest[i]] = i
  /\ \A l \in Lines : host[l] = "new" => hanger[l] = "none"
  /\ \A l \in Lines :
       gone[l] => host[l] \in {"hanging", "done"} \/ hanger[l] \in {"hanging", "done"}

\* Sessions are cut by whoever shut the line down, and by nobody before that.
CutOnce ==
  \A l \in Lines :
    /\ gone[l] => sessions[l] = {}
    /\ cut[l] # {} => host[l] = "hanging"
    /\ cutOff[l] # {} => hanger[l] = "hanging"

\* A handler that delivers a message is where it delivers it.
RelaysInPlace == \A l \in Lines : relayTo[l] # {} => host[l] = "relaying"

\* A browser past the look-up has a line.
BridgedHaveALine == \A b \in Browsers : peer[b] \in Bridged \cup {"found"} => lineOf[b] \in Lines

\* A browser that found a line found one of the id it asked for, put in place.
FoundIsAsked ==
  \A b \in Browsers : peer[b] \in Bridged \cup {"found"} =>
    LineId[lineOf[b]] = WantedId[b] /\ host[lineOf[b]] # "new"

\* A browser the host believes in was announced to it, and as long as the word of its
\* end is not on its way the session is there to give it.
Announced == {"opened", "reading", "done"}
SessionStands(b) == b \in sessions[lineOf[b]] \/ gone[lineOf[b]]
HostIsTold ==
  /\ \A b \in hostSees :
       /\ peer[b] \in Announced /\ lineOf[b] \in Lines
       /\ SessionStands(b) \/ closing[b] # "no" \/ wire[lineOf[b]] # "open"
  /\ \A b \in Browsers : peer[b] = "added" => SessionStands(b)
  /\ \A l \in Lines : \A b \in relayTo[l] : peer[b] \in Announced

HubInvariant ==
  /\ TypeOK
  /\ LinesInPlace
  /\ RelaysInPlace
  /\ CutOnce
  /\ BridgedHaveALine
  /\ FoundIsAsked
  /\ HostIsTold
  /\ NobodyStranded
  /\ NoPlaceLeaked
  /\ NewestLineIsReached
  /\ HubHoldsLiveLines

-----------------------------------------------------------------------------
(* The switchboard this hub is. *)

\* A line is on the board when it is in the hub, and fallen once shut down; a call
\* lasts as long as the browser's handler has added its session and not returned.
Plugged == {l \in Lines : host[l] # "new"}
Fallen == {l \in Lines : gone[l]}
CallOf(b) ==
  IF peer[b] \in {"new", "found"} THEN "none" ELSE IF peer[b] \in Bridged THEN "on" ELSE "over"

Board == INSTANCE Switchboard
           WITH board <- current, plugged <- Plugged, fallen <- Fallen, places <- sessions,
                call <- [b \in Browsers |-> CallOf(b)]

\* The hub is a switchboard, whatever its handlers, hangers and timers interleave:
\* shutting a line down is one event for all its browsers, a line is off the board
\* before it falls, a place given back twice is given back once, and whoever lost
\* the place is hung up (hub.go; the clean-ups of handleHost and handlePeer).
ActsAsASwitchboard == Board!Spec

\* A session's end is told once (dropSession: "so the caller can avoid sending a
\* duplicate close toward the host"): a handler that will tell it finds its session.
EndToldOnce ==
  \A b \in Browsers : peer[b] = "opened" /\ CanFail(b) =>
    b \in UNION {sessions[lineOf[b]], cut[lineOf[b]], cutOff[lineOf[b]]} \/ gone[lineOf[b]]
=============================================================================
