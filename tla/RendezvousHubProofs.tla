------------------------- MODULE RendezvousHubProofs -------------------------
(***************************************************************************)
(* RendezvousHub for every number of identifiers, lines, browsers and      *)
(* sessions per line.                                                      *)
(*                                                                         *)
(* The four properties are conjuncts of HubInvariant; each conjunct is     *)
(* carried over a step by a lemma of its own, from the ones it needs.      *)
(***************************************************************************)
EXTENDS RendezvousHub, TLAPS

USE NoLineAssumption, IdsAssumption, SocketsDistinct

-----------------------------------------------------------------------------
(* Type correctness. *)

\* A step about a line keeps the types.
LEMMA LineStepTyped ==
  ASSUME TypeOK, NEW l \in Lines,
         \/ Register(l) \/ HostReadFails(l) \/ Unregister(l)
         \/ HandlerShutdown(l) \/ HangerShutdown(l) \/ HandlerReturns(l) \/ HangerReturns(l)
  PROVE  TypeOK'
<1> USE DEF TypeOK, HubVars, CutVars, LineVars, PeerVars, ToldVars, HostSteps, Sockets
<1>1. CASE Register(l)
  <2>1. LineId[l] \in Ids
    OBVIOUS
  <2>2. current' \in [Ids -> Lines \cup {NoLine}] /\ newest' \in [Ids -> Lines \cup {NoLine}]
    BY <1>1, <2>1 DEF Register, Placed
  <2>3. hanger' \in [Lines -> {"none", "called", "hanging", "done"}]
    BY <1>1, <2>1 DEF Register
  <2> QED
    BY <1>1, <2>2, <2>3 DEF Register
<1>2. CASE HostReadFails(l)
  BY <1>2 DEF HostReadFails
<1>3. CASE Unregister(l)
  BY <1>3 DEF Unregister, StillCurrent
<1>4. CASE HandlerShutdown(l)
  BY <1>4 DEF HandlerShutdown, Shutdown
<1>5. CASE HangerShutdown(l)
  BY <1>5 DEF HangerShutdown, Shutdown
<1>6. CASE HandlerReturns(l)
  BY <1>6 DEF HandlerReturns
<1>7. CASE HangerReturns(l)
  BY <1>7 DEF HangerReturns
<1> QED
  BY <1>1, <1>2, <1>3, <1>4, <1>5, <1>6, <1>7

\* A host's frame that is passed on keeps the types.
LEMMA RelayStepTyped ==
  ASSUME TypeOK, NEW l \in Lines, NEW b \in Browsers,
         \/ HostSpeaks(l, b) \/ RelayDelivers(l, b) \/ RelayFails(l, b)
         \/ HostCloses(l, b) \/ HandlerHangsUp(l, b) \/ HangerHangsUp(l, b)
  PROVE  TypeOK'
<1> USE DEF HubVars, CutVars, LineVars, PeerVars, ToldVars, HostSteps, Sockets
<1>1. CASE HostSpeaks(l, b)
  BY <1>1 DEF HostSpeaks, TypeOK
<1>2. CASE RelayDelivers(l, b)
  BY <1>2 DEF RelayDelivers, RelayReturns, TypeOK
<1>3. CASE RelayFails(l, b)
  BY <1>3 DEF RelayFails, RelayReturns, TellClose, TypeOK
<1>4. CASE HostCloses(l, b)
  BY <1>4 DEF HostCloses, TypeOK
<1>5. CASE HandlerHangsUp(l, b)
  BY <1>5 DEF HandlerHangsUp, TypeOK
<1>6. CASE HangerHangsUp(l, b)
  BY <1>6 DEF HangerHangsUp, TypeOK
<1> QED
  BY <1>1, <1>2, <1>3, <1>4, <1>5, <1>6

\* A step about a browser keeps the types.
LEMMA PeerStepTyped ==
  ASSUME TypeOK, BridgedHaveALine, NEW b \in Browsers, PeerStep(b)
  PROVE  TypeOK'
<1> USE DEF HubVars, CutVars, LineVars, PeerVars, ToldVars, PeerSteps, Sockets
<1>1. CASE LookUp(b)
  <2>1. current[WantedId[b]] \in Lines \cup {NoLine}
    BY DEF TypeOK
  <2> QED
    BY <1>1, <2>1 DEF LookUp, PeerReturns, TypeOK
<1>2. CASE AddSession(b)
  <2>1. sessions[lineOf[b]] \cup {b} \in SUBSET Browsers
    BY <1>2 DEF AddSession, BridgedHaveALine, TypeOK
  <2>2. sessions' \in [Lines -> SUBSET Browsers]
    BY <1>2, <2>1 DEF AddSession, TypeOK
  <2>3. peer' \in [Browsers -> PeerSteps] /\ wire' \in [Sockets -> {"open", "cut", "dead"}]
    BY <1>2 DEF AddSession, PeerReturns, TypeOK
  <2> QED
    BY <1>2, <2>2, <2>3 DEF AddSession, TypeOK
<1>3. CASE SendOpen(b)
  BY <1>3 DEF SendOpen, TypeOK
<1>4. CASE SendOpenFails(b)
  BY <1>4 DEF SendOpenFails, DropOwn, PeerReturns, TypeOK
<1>5. CASE SendReady(b)
  BY <1>5 DEF SendReady, TypeOK
<1>6. CASE SendReadyFails(b)
  BY <1>6 DEF SendReadyFails, DropOwn, TellClose, PeerReturns, TypeOK
<1>7. CASE PeerLeaves(b)
  BY <1>7 DEF PeerLeaves, DropOwn, CloseLater, PeerReturns, TypeOK
<1>8. CASE CloseTimer(b)
  BY <1>8 DEF CloseTimer, TypeOK
<1>9. CASE CloseSent(b)
  BY <1>9 DEF CloseSent, TellClose, TypeOK
<1> QED
  BY <1>1, <1>2, <1>3, <1>4, <1>5, <1>6, <1>7, <1>8, <1>9 DEF PeerStep

\* So does every step.
LEMMA TypeStep == HubInvariant /\ [Next]_vars => TypeOK'
<1> SUFFICES ASSUME HubInvariant, [Next]_vars PROVE TypeOK'
  OBVIOUS
<1>1. TypeOK /\ BridgedHaveALine
  BY DEF HubInvariant
<1>2. ASSUME NEW l \in Lines, HostStep(l) PROVE TypeOK'
  BY <1>1, <1>2, LineStepTyped, RelayStepTyped DEF HostStep
<1>3. ASSUME NEW b \in Browsers, PeerStep(b) PROVE TypeOK'
  BY <1>1, <1>3, PeerStepTyped
<1>4. ASSUME NEW c \in Sockets, Cut(c) PROVE TypeOK'
  BY <1>1, <1>4 DEF Cut, TypeOK, HubVars, CutVars, LineVars, PeerVars, ToldVars
<1>5. CASE UNCHANGED vars
  BY <1>1, <1>5 DEF TypeOK, vars
<1> QED
  BY <1>2, <1>3, <1>4, <1>5 DEF Next

-----------------------------------------------------------------------------
(* The hub: which line is in place. *)

\* What the lemmas of this part read.
Places == <<current, newest, host, hanger, gone>>

\* A line that takes its id's place leaves the one it displaces to its hanger.
LEMMA RegisterKeepsPlaces ==
  ASSUME TypeOK, LinesInPlace, NewestLineIsReached, NEW l \in Lines, Register(l)
  PROVE  LinesInPlace' /\ NewestLineIsReached'
<1> DEFINE i == LineId[l]
<1> USE DEF Register, Placed
<1>1. /\ i \in Ids
      /\ current' = [current EXCEPT ![i] = l]
      /\ newest' = [newest EXCEPT ![i] = l]
      /\ host' = [host EXCEPT ![l] = "reading"]
      /\ gone' = gone
  OBVIOUS
<1>2. host[l] = "new" /\ hanger[l] = "none"
  BY DEF LinesInPlace
<1>3. \A j \in Ids : current[j] # l
  BY <1>2 DEF LinesInPlace, LineInPlace
<1>4. \A m \in Lines : m # current[i] => hanger'[m] = hanger[m]
  BY <1>1 DEF TypeOK
<1>5. current[i] # NoLine => hanger'[current[i]] = "called"
  BY <1>1 DEF TypeOK
<1>6. hanger'[l] = "none"
  BY <1>2, <1>3, <1>4, <1>1
<1>7. ASSUME NEW j \in Ids, current'[j] # NoLine PROVE LineInPlace(j, current[j])'
  <2>1. CASE j = i
    BY <1>1, <1>6, <2>1 DEF TypeOK, LineInPlace
  <2>2. CASE j # i
    <3>1. current'[j] = current[j] /\ current[j] # NoLine /\ current[j] \in Lines
      BY <1>1, <1>7, <2>2 DEF TypeOK
    <3>2. LineInPlace(j, current[j])
      BY <3>1 DEF LinesInPlace
    <3>3. current[j] # current[i]
      BY <3>1, <3>2, <2>2, <1>1 DEF LinesInPlace, LineInPlace
    <3>4. hanger'[current[j]] = "none"
      BY <1>4, <3>1, <3>2, <3>3 DEF LineInPlace
    <3> QED
      BY <1>1, <1>3, <3>1, <3>2, <3>4 DEF LineInPlace, TypeOK
  <2> QED
    BY <2>1, <2>2
<1>8. ASSUME NEW j \in Ids, newest'[j] # NoLine PROVE LineId[newest'[j]] = j
  BY <1>1, <1>8 DEF TypeOK, LinesInPlace
<1>9. ASSUME NEW m \in Lines, host'[m] = "new" PROVE hanger'[m] = "none"
  <2>1. m # l /\ host[m] = "new"
    BY <1>1, <1>9 DEF TypeOK
  <2>2. m # current[i]
    BY <2>1, <1>1 DEF LinesInPlace, LineInPlace
  <2> QED
    BY <1>4, <2>1, <2>2 DEF LinesInPlace
<1>10. ASSUME NEW m \in Lines, gone'[m]
       PROVE  host'[m] \in {"hanging", "done"} \/ hanger'[m] \in {"hanging", "done"}
  <2>1. host[m] \in {"hanging", "done"} \/ hanger[m] \in {"hanging", "done"}
    BY <1>1, <1>10 DEF LinesInPlace
  <2>2. m # l
    BY <2>1, <1>2
  <2>3. m # current[i]
    BY <2>1, <1>1 DEF LinesInPlace, LineInPlace
  <2> QED
    BY <1>1, <1>4, <2>1, <2>2, <2>3 DEF TypeOK
<1>11. NewestLineIsReached'
  BY <1>1, <1>2 DEF NewestLineIsReached, LinesInPlace, TypeOK
<1> QED
  BY <1>7, <1>8, <1>9, <1>10, <1>11 DEF LinesInPlace

\* The other steps of a line's handler and of its hanger: nobody is put in
\* place, and a line leaves its place no later than its handler's clean-up.
LEMMA LineStepKeepsPlaces ==
  ASSUME TypeOK, LinesInPlace, NewestLineIsReached, NEW l \in Lines,
         \/ HostReadFails(l) \/ Unregister(l)
         \/ HandlerShutdown(l) \/ HangerShutdown(l) \/ HandlerReturns(l) \/ HangerReturns(l)
  PROVE  LinesInPlace' /\ NewestLineIsReached'
<1> USE DEF TypeOK, HubVars, LinesInPlace, LineInPlace, NewestLineIsReached
<1>1. CASE HostReadFails(l)
  BY <1>1 DEF HostReadFails
<1>2. CASE Unregister(l)
  BY <1>2 DEF Unregister, StillCurrent
<1>3. CASE HandlerShutdown(l)
  BY <1>3 DEF HandlerShutdown, OutOfTheHub, Shutdown
<1>4. CASE HangerShutdown(l)
  BY <1>4 DEF HangerShutdown, Shutdown
<1>5. CASE HandlerReturns(l)
  BY <1>5 DEF HandlerReturns
<1>6. CASE HangerReturns(l)
  BY <1>6 DEF HangerReturns
<1> QED
  BY <1>1, <1>2, <1>3, <1>4, <1>5, <1>6

\* A handler goes back and forth between reading and relaying in its place.
LEMMA RelayStepKeepsPlaces ==
  ASSUME TypeOK, LinesInPlace, NewestLineIsReached, RelaysInPlace,
         NEW l \in Lines, NEW b \in Browsers,
         HostSpeaks(l, b) \/ RelayDelivers(l, b) \/ RelayFails(l, b)
  PROVE  LinesInPlace' /\ NewestLineIsReached'
<1>1. /\ UNCHANGED <<current, newest, hanger, gone>>
      /\ host[l] \in {"reading", "relaying"}
      /\ \E at \in {"reading", "relaying"} : host' = [host EXCEPT ![l] = at]
  BY DEF HostSpeaks, RelayDelivers, RelayFails, RelayReturns, HubVars, RelaysInPlace
<1> QED
  BY <1>1 DEF TypeOK, LinesInPlace, LineInPlace, NewestLineIsReached

\* Steps that touch no line's place leave the places as they were.
LEMMA RestKeepsPlaces ==
  ASSUME LinesInPlace, NewestLineIsReached, UNCHANGED Places
  PROVE  LinesInPlace' /\ NewestLineIsReached'
BY DEF Places, LinesInPlace, LineInPlace, NewestLineIsReached

\* No line of the hub has shut down: it would have left its place before.
LEMMA PlacesAreLive ==
  ASSUME TypeOK, LinesInPlace
  PROVE  HubHoldsLiveLines
BY DEF TypeOK, LinesInPlace, LineInPlace, HubHoldsLiveLines

\* Every step keeps a line in place alive and its id's.
LEMMA PlacesStep ==
  HubInvariant /\ [Next]_vars => LinesInPlace' /\ NewestLineIsReached' /\ HubHoldsLiveLines'
<1> SUFFICES ASSUME HubInvariant, [Next]_vars
             PROVE  LinesInPlace' /\ NewestLineIsReached' /\ HubHoldsLiveLines'
  OBVIOUS
<1>1. TypeOK /\ LinesInPlace /\ NewestLineIsReached /\ RelaysInPlace
  BY DEF HubInvariant
<1>2. LinesInPlace' /\ NewestLineIsReached'
  <2> USE DEF Places, HubVars, LineVars
  <2>1. ASSUME NEW l \in Lines, HostStep(l) PROVE LinesInPlace' /\ NewestLineIsReached'
    <3>1. CASE Register(l)
      BY <1>1, <3>1, RegisterKeepsPlaces
    <3>2. CASE \/ HostReadFails(l) \/ Unregister(l) \/ HandlerShutdown(l)
               \/ HangerShutdown(l) \/ HandlerReturns(l) \/ HangerReturns(l)
      BY <1>1, <3>2, LineStepKeepsPlaces
    <3>3. ASSUME NEW b \in Browsers, HostSpeaks(l, b) \/ RelayDelivers(l, b) \/ RelayFails(l, b)
          PROVE  LinesInPlace' /\ NewestLineIsReached'
      BY <1>1, <3>3, RelayStepKeepsPlaces
    <3>4. ASSUME NEW b \in Browsers,
                 HostCloses(l, b) \/ HandlerHangsUp(l, b) \/ HangerHangsUp(l, b)
          PROVE  UNCHANGED Places
      BY <3>4 DEF HostCloses, HandlerHangsUp, HangerHangsUp
    <3> QED
      BY <1>1, <2>1, <3>1, <3>2, <3>3, <3>4, RestKeepsPlaces DEF HostStep
  <2>2. ASSUME NEW b \in Browsers, PeerStep(b) PROVE UNCHANGED Places
    BY <2>2 DEF PeerStep, LookUp, AddSession, SendOpen, SendOpenFails, SendReady,
                SendReadyFails, PeerLeaves, CloseTimer, CloseSent
  <2>3. ASSUME NEW x \in Sockets, Cut(x) PROVE UNCHANGED Places
    BY <2>3 DEF Cut
  <2>4. UNCHANGED vars => UNCHANGED Places
    BY DEF vars
  <2> QED
    BY <1>1, <2>1, <2>2, <2>3, <2>4, RestKeepsPlaces DEF Next
<1>3. TypeOK'
  BY TypeStep
<1>4. HubHoldsLiveLines'
  <2>1. TypeOK /\ LinesInPlace => HubHoldsLiveLines
    BY PlacesAreLive
  <2> QED
    BY <1>2, <1>3 DEF TypeOK, LinesInPlace, LineInPlace, HubHoldsLiveLines
<1> QED
  BY <1>2, <1>4

-----------------------------------------------------------------------------
(* The sessions: who is bridged on what. *)

\* What the lemmas of this part say of the sessions.
SessionsKept ==
  /\ RelaysInPlace
  /\ CutOnce
  /\ BridgedHaveALine
  /\ NoPlaceLeaked
  /\ NobodyStranded

\* A line's shutdown takes its sessions once; its other steps take none.
LEMMA LineStepKeepsSessions ==
  ASSUME TypeOK, LinesInPlace, SessionsKept, NEW l \in Lines,
         \/ Register(l) \/ HostReadFails(l) \/ Unregister(l)
         \/ HandlerShutdown(l) \/ HangerShutdown(l) \/ HandlerReturns(l) \/ HangerReturns(l)
  PROVE  SessionsKept'
<1> USE DEF TypeOK, SessionsKept, HubVars, CutVars, PeerVars, ToldVars
<1>0. UNCHANGED <<PeerVars, ToldVars>>
  BY DEF Register, HostReadFails, Unregister, HandlerShutdown, HangerShutdown,
         HandlerReturns, HangerReturns
<1>1. RelaysInPlace'
  BY DEF Register, HostReadFails, Unregister, HandlerShutdown, HangerShutdown,
         HandlerReturns, HangerReturns, OutOfTheHub, RelaysInPlace
<1>2. CutOnce'
  <2>1. CASE Register(l)
    <3> DEFINE d == current[LineId[l]]
    <3>1. \A m \in Lines : hanger'[m] = IF m = d THEN "called" ELSE hanger[m]
      BY <2>1 DEF Register
    <3>2. d # NoLine => hanger[d] = "none"
      BY DEF LinesInPlace, LineInPlace
    <3>3. \A m \in Lines : host[m] = "hanging" => host'[m] = "hanging"
      BY <2>1 DEF Register
    <3> QED
      BY <2>1, <3>1, <3>2, <3>3 DEF Register, CutOnce
  <2>2. CASE HostReadFails(l) \/ Unregister(l)
    BY <2>2 DEF HostReadFails, Unregister, CutOnce, LineVars
  <2>3. CASE HandlerShutdown(l)
    BY <2>3 DEF HandlerShutdown, OutOfTheHub, Shutdown, CutOnce
  <2>4. CASE HangerShutdown(l)
    BY <2>4 DEF HangerShutdown, Shutdown, CutOnce
  <2>5. CASE HandlerReturns(l)
    BY <2>5 DEF HandlerReturns, CutOnce
  <2>6. CASE HangerReturns(l)
    BY <2>6 DEF HangerReturns, CutOnce
  <2> QED
    BY <2>1, <2>2, <2>3, <2>4, <2>5, <2>6
<1>3. BridgedHaveALine'
  BY <1>0 DEF BridgedHaveALine
<1>4. \A m \in Lines : sessions'[m] \subseteq sessions[m]
  BY DEF Register, HostReadFails, Unregister, HandlerShutdown, HangerShutdown,
         HandlerReturns, HangerReturns, Shutdown
<1>5. NoPlaceLeaked'
  BY <1>0, <1>4 DEF NoPlaceLeaked
<1>7. NobodyStranded'
  <2> SUFFICES ASSUME NEW b \in Browsers, (peer[b] \in Bridged)', (wire[b] # "dead")'
               PROVE  LET m == lineOf[b]
                      IN  \/ b \in sessions'[m] /\ ~gone'[m]
                          \/ b \in cut'[m] \cup cutOff'[m]
    BY <1>0 DEF NobodyStranded
  <2> DEFINE m == lineOf[b]
  <2>1. m \in Lines /\ wire[b] # "dead" /\ peer[b] \in Bridged
    BY <1>0 DEF BridgedHaveALine, Register, HostReadFails, Unregister, HandlerShutdown,
                HangerShutdown, HandlerReturns, HangerReturns, Sockets
  <2>2. \/ b \in sessions[m] /\ ~gone[m]
        \/ b \in cut[m] \cup cutOff[m]
    BY <2>1 DEF NobodyStranded
  <2>3. CASE UNCHANGED <<sessions, gone, cut, cutOff>>
    BY <2>2, <2>3
  <2>4. CASE HandlerShutdown(l)
    BY <2>1, <2>2, <2>4 DEF HandlerShutdown, OutOfTheHub, Shutdown, CutOnce
  <2>5. CASE HangerShutdown(l)
    BY <2>1, <2>2, <2>5 DEF HangerShutdown, Shutdown, CutOnce
  <2> QED
    BY <2>3, <2>4, <2>5 DEF Register, HostReadFails, Unregister, HandlerReturns, HangerReturns
<1> QED
  BY <1>1, <1>2, <1>3, <1>5, <1>7

\* A host that ends a session, or does not get through, gives its place back.
LEMMA RelayStepKeepsSessions ==
  ASSUME TypeOK, SessionsKept, NEW l \in Lines, NEW b \in Browsers,
         \/ HostSpeaks(l, b) \/ RelayDelivers(l, b) \/ RelayFails(l, b)
         \/ HostCloses(l, b) \/ HandlerHangsUp(l, b) \/ HangerHangsUp(l, b)
  PROVE  SessionsKept'
<1> USE DEF TypeOK, SessionsKept, HubVars, CutVars, PeerVars, ToldVars
<1>0. UNCHANGED <<PeerVars, closing, gone, hanger>>
  BY DEF HostSpeaks, RelayDelivers, RelayFails, HostCloses, HandlerHangsUp, HangerHangsUp,
         RelayReturns
<1>1. RelaysInPlace'
  BY DEF HostSpeaks, RelayDelivers, RelayFails, HostCloses, HandlerHangsUp, HangerHangsUp,
         RelayReturns, RelaysInPlace
<1>2. /\ \A m \in Lines : /\ sessions'[m] \subseteq sessions[m]
                          /\ cut'[m] \subseteq cut[m] /\ cutOff'[m] \subseteq cutOff[m]
      /\ \A a \in Browsers \ {b} : /\ wire'[a] = wire[a]
                                   /\ \A m \in Lines : /\ a \in sessions[m] => a \in sessions'[m]
                                                       /\ a \in cut[m] => a \in cut'[m]
                                                       /\ a \in cutOff[m] => a \in cutOff'[m]
  <2>1. CASE HostSpeaks(l, b) \/ RelayDelivers(l, b)
    BY <2>1 DEF HostSpeaks, RelayDelivers
  <2>2. CASE RelayFails(l, b)
    BY <2>2 DEF RelayFails, Sockets
  <2>3. CASE HostCloses(l, b)
    BY <2>3 DEF HostCloses, Sockets
  <2>4. CASE HandlerHangsUp(l, b)
    BY <2>4 DEF HandlerHangsUp, Sockets
  <2>5. CASE HangerHangsUp(l, b)
    BY <2>5 DEF HangerHangsUp, Sockets
  <2> QED
    BY <2>1, <2>2, <2>3, <2>4, <2>5
<1>3. \A m \in Lines : host[m] = "hanging" => host'[m] = "hanging"
  BY DEF HostSpeaks, RelayDelivers, RelayFails, HostCloses, HandlerHangsUp, HangerHangsUp,
         RelayReturns, RelaysInPlace
<1>4. CutOnce'
  BY <1>0, <1>2, <1>3 DEF CutOnce
<1>5. BridgedHaveALine'
  BY <1>0 DEF BridgedHaveALine
<1>6. NoPlaceLeaked'
  BY <1>0, <1>2 DEF NoPlaceLeaked
<1>7. wire'[b] = "dead" \/ UNCHANGED <<sessions, cut, cutOff, wire>>
  BY DEF HostSpeaks, RelayDelivers, RelayFails, HostCloses, HandlerHangsUp, HangerHangsUp,
         RelayReturns, Sockets
<1>8. NobodyStranded'
  <2> SUFFICES ASSUME NEW a \in Browsers, (peer[a] \in Bridged)', (wire[a] # "dead")'
               PROVE  LET m == lineOf[a]
                      IN  \/ a \in sessions'[m] /\ ~gone'[m]
                          \/ a \in cut'[m] \cup cutOff'[m]
    BY <1>0 DEF NobodyStranded
  <2>1. lineOf[a] \in Lines
    BY <1>0 DEF BridgedHaveALine
  <2>2. CASE a = b
    BY <1>0, <1>7, <2>2 DEF NobodyStranded
  <2>3. CASE a # b
    BY <1>0, <1>2, <2>1, <2>3 DEF NobodyStranded
  <2> QED
    BY <2>2, <2>3
<1> QED
  BY <1>1, <1>4, <1>5, <1>6, <1>8

\* A browser's own handler: its line and its place change only under its feet.
LEMMA PeerStepKeepsSessions ==
  ASSUME TypeOK, SessionsKept, NEW b \in Browsers, PeerStep(b)
  PROVE  SessionsKept'
<1> USE DEF TypeOK, SessionsKept, HubVars, LineVars, CutVars, PeerVars, ToldVars
<1>0. UNCHANGED <<gone, host, relayTo, hanger, cut, cutOff>>
  BY DEF PeerStep, LookUp, AddSession, SendOpen, SendOpenFails, SendReady, SendReadyFails,
         PeerLeaves, CloseTimer, CloseSent
<1>1. RelaysInPlace'
  BY <1>0 DEF RelaysInPlace
<1>2. /\ \A a \in Browsers \ {b} : /\ peer'[a] = peer[a] /\ lineOf'[a] = lineOf[a]
                                   /\ wire'[a] = wire[a]
      /\ \A a \in Browsers \ {b}, m \in Lines : a \in sessions'[m] <=> a \in sessions[m]
  <2>1. CASE LookUp(b)
    BY <2>1 DEF LookUp, PeerReturns, Sockets
  <2>2. CASE AddSession(b)
    BY <2>2 DEF AddSession, PeerReturns, Sockets
  <2>3. CASE SendOpen(b) \/ SendReady(b)
    BY <2>3 DEF SendOpen, SendReady
  <2>4. CASE SendOpenFails(b)
    BY <2>4 DEF SendOpenFails, DropOwn, PeerReturns, Sockets
  <2>5. CASE SendReadyFails(b)
    BY <2>5 DEF SendReadyFails, DropOwn, PeerReturns, Sockets
  <2>6. CASE PeerLeaves(b)
    BY <2>6 DEF PeerLeaves, DropOwn, CloseLater, PeerReturns, Sockets
  <2>7. CASE CloseTimer(b)
    BY <2>7 DEF CloseTimer
  <2>8. CASE CloseSent(b)
    BY <2>8 DEF CloseSent
  <2> QED
    BY <2>1, <2>2, <2>3, <2>4, <2>5, <2>6, <2>7, <2>8 DEF PeerStep
\* What becomes of b itself, for each way its handler moves.
<1>3. \/ /\ peer'[b] \in Bridged /\ lineOf'[b] = lineOf[b] /\ lineOf[b] \in Lines
         /\ wire'[b] = wire[b]
         /\ \/ /\ peer[b] = "found" /\ ~gone[lineOf[b]] /\ b \in sessions'[lineOf[b]]
               /\ \A m \in Lines : m # lineOf[b] => sessions'[m] = sessions[m]
            \/ peer[b] \in Bridged /\ sessions' = sessions
      \/ /\ peer'[b] \in {"found", "done"} /\ peer[b] \in {"new", "found"}
         /\ sessions' = sessions
         /\ peer'[b] = "found" => lineOf'[b] \in Lines
      \/ /\ peer'[b] = "done" /\ peer[b] \in Bridged \cup {"done"}
         /\ \A m \in Lines : b \notin sessions'[m]
      \/ UNCHANGED <<peer, lineOf, sessions, wire>>
  <2>1. CASE LookUp(b)
    BY <2>1 DEF LookUp, PeerReturns
  <2>2. CASE AddSession(b)
    BY <2>2 DEF AddSession, Accepts, PeerReturns, BridgedHaveALine, Bridged
  <2>3. CASE SendOpen(b)
    BY <2>3 DEF SendOpen, BridgedHaveALine, Bridged
  <2>4. CASE SendReady(b)
    BY <2>4 DEF SendReady, BridgedHaveALine, Bridged
  <2>5. CASE SendOpenFails(b)
    BY <2>5 DEF SendOpenFails, DropOwn, PeerReturns, NoPlaceLeaked, Bridged
  <2>6. CASE SendReadyFails(b)
    BY <2>6 DEF SendReadyFails, DropOwn, PeerReturns, NoPlaceLeaked, Bridged
  <2>7. CASE PeerLeaves(b)
    BY <2>7 DEF PeerLeaves, DropOwn, PeerReturns, NoPlaceLeaked, Bridged
  <2>8. CASE CloseTimer(b) \/ CloseSent(b)
    BY <2>8 DEF CloseTimer, CloseSent
  <2> QED
    BY <2>1, <2>2, <2>3, <2>4, <2>5, <2>6, <2>7, <2>8 DEF PeerStep
<1>4. CutOnce'
  <2>1. \A m \in Lines : gone[m] => b \notin sessions'[m]
    BY <1>2, <1>3 DEF CutOnce
  <2>2. \A m \in Lines : sessions'[m] \subseteq sessions[m] \cup {b}
    BY DEF PeerStep, LookUp, AddSession, SendOpen, SendOpenFails, SendReady, SendReadyFails,
           PeerLeaves, CloseTimer, CloseSent, DropOwn
  <2> QED
    BY <1>0, <2>1, <2>2 DEF CutOnce
<1>5. BridgedHaveALine'
  BY <1>2, <1>3 DEF BridgedHaveALine, Bridged
<1>6. NoPlaceLeaked'
  <2>1. ASSUME NEW m \in Lines, b \in sessions'[m]
        PROVE  lineOf'[b] = m /\ peer'[b] \in Bridged
    BY <1>3, <2>1 DEF NoPlaceLeaked, Bridged
  <2>2. \A m \in Lines : sessions'[m] \subseteq Browsers
    BY DEF PeerStep, LookUp, AddSession, SendOpen, SendOpenFails, SendReady, SendReadyFails,
           PeerLeaves, CloseTimer, CloseSent, DropOwn
  <2> QED
    BY <1>2, <2>1, <2>2 DEF NoPlaceLeaked
<1>7. NobodyStranded'
  <2> SUFFICES ASSUME NEW a \in Browsers, (peer[a] \in Bridged)', (wire[a] # "dead")'
               PROVE  LET m == lineOf'[a]
                      IN  \/ a \in sessions'[m] /\ ~gone'[m]
                          \/ a \in cut'[m] \cup cutOff'[m]
    BY DEF NobodyStranded
  <2>1. CASE a # b
    BY <1>0, <1>2, <2>1 DEF NobodyStranded, BridgedHaveALine
  <2>2. CASE a = b
    BY <1>0, <1>3, <2>2 DEF NobodyStranded, Bridged
  <2> QED
    BY <2>1, <2>2
<1> QED
  BY <1>1, <1>4, <1>5, <1>6, <1>7

\* Every step keeps the sessions with the handlers that run them.
LEMMA SessionsStep == HubInvariant /\ [Next]_vars => SessionsKept'
<1> SUFFICES ASSUME HubInvariant, [Next]_vars PROVE SessionsKept'
  OBVIOUS
<1>1. TypeOK /\ LinesInPlace /\ SessionsKept
  BY DEF HubInvariant, SessionsKept
<1>2. ASSUME NEW l \in Lines, HostStep(l) PROVE SessionsKept'
  BY <1>1, <1>2, LineStepKeepsSessions, RelayStepKeepsSessions DEF HostStep
<1>3. ASSUME NEW b \in Browsers, PeerStep(b) PROVE SessionsKept'
  BY <1>1, <1>3, PeerStepKeepsSessions
<1>4. ASSUME NEW c \in Sockets, Cut(c) PROVE SessionsKept'
  <2>1. /\ UNCHANGED <<LineVars, PeerVars, ToldVars>>
        /\ \A b \in Browsers : wire'[b] # "dead" => wire[b] # "dead"
    BY <1>1, <1>4 DEF Cut, TypeOK, Sockets
  <2> QED
    BY <1>1, <2>1 DEF LineVars, CutVars, PeerVars, ToldVars, SessionsKept, RelaysInPlace, CutOnce,
                      BridgedHaveALine, NoPlaceLeaked, NobodyStranded
<1>5. CASE UNCHANGED vars
  BY <1>1, <1>5 DEF vars, SessionsKept, RelaysInPlace, CutOnce, BridgedHaveALine,
                    NoPlaceLeaked, NobodyStranded
<1> QED
  BY <1>2, <1>3, <1>4, <1>5 DEF Next

-----------------------------------------------------------------------------
(* What the host is told, and which line a browser found. *)

\* A line's steps leave a host that is told, or a line that is down.
LEMMA LineStepKeepsTold ==
  ASSUME TypeOK, HostIsTold, FoundIsAsked, BridgedHaveALine, NEW l \in Lines, HostStep(l)
  PROVE  HostIsTold' /\ FoundIsAsked'
<1> USE DEF TypeOK, HubVars, CutVars, LineVars, PeerVars, ToldVars, Sockets
<1>1. UNCHANGED <<PeerVars, closing>>
  BY DEF HostStep, Register, HostReadFails, Unregister, HandlerShutdown, HangerShutdown,
         HandlerReturns, HangerReturns, HostSpeaks, RelayDelivers, RelayFails, HostCloses,
         HandlerHangsUp, HangerHangsUp
<1>2. \A m \in Lines : host[m] # "new" => host'[m] # "new"
  BY DEF HostStep, Register, HostReadFails, Unregister, HandlerShutdown, HangerShutdown,
         HandlerReturns, HangerReturns, HostSpeaks, RelayDelivers, RelayFails, RelayReturns,
         HostCloses, HandlerHangsUp, HangerHangsUp
<1>3. FoundIsAsked'
  BY <1>1, <1>2 DEF FoundIsAsked, BridgedHaveALine
\* A line that is down stays down; a session goes with its line, or the host knows.
<1>4. \A m \in Lines : /\ wire[m] # "open" => wire'[m] # "open"
                       /\ gone[m] => gone'[m]
  BY DEF HostStep, Register, HostReadFails, Unregister, HandlerShutdown, HangerShutdown,
         HandlerReturns, HangerReturns, HostSpeaks, RelayDelivers, RelayFails, RelayReturns,
         HostCloses, HandlerHangsUp, HangerHangsUp, Shutdown
<1>5. \A m \in Lines : relayTo'[m] \subseteq relayTo[m] \cup hostSees
  <2>1. ASSUME NEW b \in Browsers, HostSpeaks(l, b) PROVE \A m \in Lines : relayTo'[m] \subseteq relayTo[m] \cup hostSees
    BY <2>1 DEF HostSpeaks
  <2>2. ASSUME NEW b \in Browsers, RelayDelivers(l, b) \/ RelayFails(l, b) PROVE \A m \in Lines : relayTo'[m] \subseteq relayTo[m] \cup hostSees
    BY <2>2 DEF RelayDelivers, RelayFails, RelayReturns
  <2>3. CASE UNCHANGED relayTo
    BY <2>3
  <2> QED
    BY <2>1, <2>2, <2>3
       DEF HostStep, Register, HostReadFails, Unregister, HandlerShutdown, HangerShutdown,
           HandlerReturns, HangerReturns, HostCloses, HandlerHangsUp, HangerHangsUp
<1> DEFINE GoneWithItsLineOrKnown ==
      /\ hostSees' \subseteq hostSees
      /\ \A m \in Lines : \A a \in sessions[m] :
           \/ a \in sessions'[m] \/ gone'[m]
           \/ peer[a] \in Announced /\ (wire[m] # "open" \/ a \notin hostSees')
<1>6. GoneWithItsLineOrKnown
  <2>1. CASE HandlerShutdown(l) \/ HangerShutdown(l)
    BY <2>1 DEF HandlerShutdown, HangerShutdown, Shutdown
  <2>2. ASSUME NEW b \in Browsers, RelayFails(l, b)
        PROVE  GoneWithItsLineOrKnown
    BY <2>2 DEF RelayFails, TellClose, CanFail, HostIsTold
  <2>3. ASSUME NEW b \in Browsers, HostCloses(l, b)
        PROVE  GoneWithItsLineOrKnown
    BY <2>3 DEF HostCloses, HostIsTold
  <2>4. CASE UNCHANGED <<hostSees, sessions>>
    BY <2>4
  <2> QED
    BY <2>1, <2>2, <2>3, <2>4
       DEF HostStep, Register, HostReadFails, Unregister, HandlerReturns, HangerReturns,
           HostSpeaks, RelayDelivers, HandlerHangsUp, HangerHangsUp
<1>7. ASSUME NEW b \in Browsers, lineOf[b] \in Lines, SessionStands(b)
      PROVE  SessionStands(b)' \/ (peer[b] \in Announced /\ (wire[lineOf[b]] # "open" \/ b \notin hostSees'))
  BY <1>1, <1>4, <1>6, <1>7 DEF SessionStands
<1>8. ASSUME NEW b \in hostSees'
      PROVE  /\ peer'[b] \in Announced /\ lineOf'[b] \in Lines
             /\ SessionStands(b)' \/ closing'[b] # "no" \/ wire'[lineOf'[b]] # "open"
  BY <1>1, <1>4, <1>6, <1>7 DEF HostIsTold
<1>9. ASSUME NEW b \in Browsers, peer'[b] = "added" PROVE SessionStands(b)'
  BY <1>1, <1>7, <1>9 DEF HostIsTold, BridgedHaveALine, Bridged, Announced
<1>10. HostIsTold'
  BY <1>1, <1>5, <1>8, <1>9 DEF HostIsTold
<1> QED
  BY <1>3, <1>10

\* A browser's end is on its way to the host before its session goes.
LEMMA PeerStepKeepsTold ==
  ASSUME TypeOK, HostIsTold, FoundIsAsked, LinesInPlace, BridgedHaveALine, NoPlaceLeaked,
         NEW b \in Browsers, PeerStep(b)
  PROVE  HostIsTold' /\ FoundIsAsked'
<1> USE DEF TypeOK, HubVars, CutVars, LineVars, PeerVars, ToldVars, Sockets
<1>1. UNCHANGED <<host, gone, relayTo>>
  BY DEF PeerStep, LookUp, AddSession, SendOpen, SendOpenFails, SendReady, SendReadyFails,
         PeerLeaves, CloseTimer, CloseSent
<1> DEFINE Told(a) ==
        /\ a \in hostSees =>
             /\ peer[a] \in Announced /\ lineOf[a] \in Lines
             /\ SessionStands(a) \/ closing[a] # "no" \/ wire[lineOf[a]] # "open"
        /\ peer[a] = "added" => SessionStands(a)
        /\ \A m \in Lines : a \in relayTo[m] => peer[a] \in Announced
      Asked(a) ==
        peer[a] \in Bridged \cup {"found"} =>
          LineId[lineOf[a]] = WantedId[a] /\ host[lineOf[a]] # "new"
<1>2. \A a \in Browsers : Told(a) /\ Asked(a)
  BY DEF HostIsTold, FoundIsAsked
\* The others are where they were.
<1>3. ASSUME NEW a \in Browsers \ {b} PROVE Told(a)' /\ Asked(a)'
  <2>1. /\ peer'[a] = peer[a] /\ lineOf'[a] = lineOf[a] /\ closing'[a] = closing[a]
        /\ a \in hostSees' <=> a \in hostSees
        /\ \A m \in Lines : wire'[m] = wire[m] /\ (a \in sessions[m] => a \in sessions'[m])
    <3>1. CASE SendReadyFails(b) \/ CloseSent(b)
      BY <3>1 DEF SendReadyFails, CloseSent, TellClose, DropOwn, PeerReturns
    <3>2. CASE LookUp(b) \/ AddSession(b)
      BY <3>2 DEF LookUp, AddSession, PeerReturns
    <3>3. CASE SendOpen(b) \/ SendOpenFails(b) \/ SendReady(b)
      BY <3>3 DEF SendOpen, SendOpenFails, SendReady, DropOwn, PeerReturns
    <3>4. CASE PeerLeaves(b) \/ CloseTimer(b)
      BY <3>4 DEF PeerLeaves, CloseTimer, CloseLater, DropOwn, PeerReturns
    <3> QED
      BY <3>1, <3>2, <3>3, <3>4 DEF PeerStep
  <2> QED
    BY <1>1, <1>2, <2>1 DEF SessionStands, BridgedHaveALine, Bridged
\* b itself.
<1>4. Told(b)' /\ Asked(b)'
  <2>1. Told(b) /\ Asked(b)
    BY <1>2
  <2> USE DEF Announced, SessionStands, Bridged
  <2>2. CASE LookUp(b)
    BY <1>1, <2>1, <2>2 DEF LookUp, PeerReturns, LinesInPlace, LineInPlace
  <2>3. CASE AddSession(b)
    <3>1. lineOf' = lineOf /\ hostSees' = hostSees /\ b \notin hostSees /\ lineOf[b] \in Lines
      BY <2>1, <2>3 DEF AddSession, BridgedHaveALine
    <3>2. peer'[b] = "done" \/ (peer'[b] = "added" /\ b \in sessions'[lineOf[b]])
      BY <2>3, <3>1 DEF AddSession, PeerReturns
    <3> QED
      BY <1>1, <2>1, <2>3, <3>1, <3>2 DEF AddSession
  <2>4. CASE SendOpen(b)
    BY <1>1, <2>1, <2>4 DEF SendOpen, BridgedHaveALine
  <2>5. CASE SendOpenFails(b)
    BY <1>1, <2>1, <2>5 DEF SendOpenFails, DropOwn, PeerReturns
  <2>6. CASE SendReady(b)
    BY <1>1, <2>1, <2>6 DEF SendReady
  <2>7. CASE SendReadyFails(b)
    BY <1>1, <2>1, <2>7 DEF SendReadyFails, TellClose, CanFail, DropOwn, PeerReturns,
                            BridgedHaveALine
  <2>8. CASE PeerLeaves(b)
    BY <1>1, <2>1, <2>8 DEF PeerLeaves, CloseLater, DropOwn, PeerReturns, BridgedHaveALine
  <2>9. CASE CloseTimer(b)
    BY <1>1, <2>1, <2>9 DEF CloseTimer
  <2>10. CASE CloseSent(b)
    BY <1>1, <2>1, <2>10 DEF CloseSent, TellClose, CanFail
  <2> QED
    BY <2>2, <2>3, <2>4, <2>5, <2>6, <2>7, <2>8, <2>9, <2>10 DEF PeerStep
<1>5. hostSees' \subseteq Browsers
  BY PeerStepTyped DEF PeerStep, LookUp, AddSession, SendOpen, SendOpenFails, SendReady,
                       SendReadyFails, PeerLeaves, CloseTimer, CloseSent, TellClose
<1>6. \A a \in Browsers : Told(a)' /\ Asked(a)'
  BY <1>3, <1>4
<1>7. \A m \in Lines : relayTo'[m] \subseteq Browsers
  BY <1>1
<1>8. FoundIsAsked'
  BY <1>6 DEF FoundIsAsked
<1> HIDE DEF TypeOK
<1> QED
  BY <1>5, <1>6, <1>7, <1>8 DEF HostIsTold

\* Every step keeps the host told and the browser on a line of the id it asked for.
LEMMA ToldStep == HubInvariant /\ [Next]_vars => HostIsTold' /\ FoundIsAsked'
<1> SUFFICES ASSUME HubInvariant, [Next]_vars PROVE HostIsTold' /\ FoundIsAsked'
  OBVIOUS
<1>1. /\ TypeOK /\ HostIsTold /\ FoundIsAsked /\ LinesInPlace
      /\ BridgedHaveALine /\ NoPlaceLeaked
  BY DEF HubInvariant
<1>2. ASSUME NEW l \in Lines, HostStep(l) PROVE HostIsTold' /\ FoundIsAsked'
  BY <1>1, <1>2, LineStepKeepsTold
<1>3. ASSUME NEW b \in Browsers, PeerStep(b) PROVE HostIsTold' /\ FoundIsAsked'
  BY <1>1, <1>3, PeerStepKeepsTold
<1>4. ASSUME NEW c \in Sockets, Cut(c) PROVE HostIsTold' /\ FoundIsAsked'
  BY <1>1, <1>4 DEF Cut, LineVars, PeerVars, ToldVars, Sockets, TypeOK, HostIsTold,
                      SessionStands, FoundIsAsked
<1>5. CASE UNCHANGED vars
  BY <1>1, <1>5 DEF vars, HostIsTold, SessionStands, FoundIsAsked
<1> QED
  BY <1>2, <1>3, <1>4, <1>5 DEF Next

-----------------------------------------------------------------------------
(* The theorems. *)

\* A hub nobody reached yet.
LEMMA HubStarts == Init => HubInvariant
BY DEF Init, HubInvariant, TypeOK, HostSteps, PeerSteps, LinesInPlace, LineInPlace,
       RelaysInPlace, CutOnce, BridgedHaveALine, HostIsTold, FoundIsAsked,
       Bridged, NobodyStranded,
       NoPlaceLeaked, NewestLineIsReached, HubHoldsLiveLines

\* Every step keeps the invariant.
LEMMA HubStep == HubInvariant /\ [Next]_vars => HubInvariant'
BY TypeStep, PlacesStep, SessionsStep, ToldStep DEF HubInvariant, SessionsKept

\* Whatever the hosts, the browsers and the order of the clean-ups, the
\* inductive invariant of the hub holds.
THEOREM HubCorrect == Spec => []HubInvariant
BY HubStarts, HubStep, PTL DEF Spec

\* Type correctness.
THEOREM HubTyped == Spec => []TypeOK
<1>1. HubInvariant => TypeOK
  BY DEF HubInvariant
<1> QED
  BY <1>1, HubCorrect, PTL

\* No browser waits on a line that shut down (addSession, shutdown).
THEOREM NoBrowserIsStranded == Spec => []NobodyStranded
<1>1. HubInvariant => NobodyStranded
  BY DEF HubInvariant
<1> QED
  BY <1>1, HubCorrect, PTL

\* Every place taken on a line is a running handler's (addSession, dropSession).
THEOREM PlacesAreHandlers == Spec => []NoPlaceLeaked
<1>1. HubInvariant => NoPlaceLeaked
  BY DEF HubInvariant
<1> QED
  BY <1>1, HubCorrect, PTL

\* The newest line of an id is the one reached, whatever the displaced ones do
\* on their way out (register, unregister).
THEOREM NewestLineWins == Spec => []NewestLineIsReached
<1>1. HubInvariant => NewestLineIsReached
  BY DEF HubInvariant
<1> QED
  BY <1>1, HubCorrect, PTL

\* No line found in the hub has been shut down (handleHost's clean-up order).
THEOREM LinesFoundAreLive == Spec => []HubHoldsLiveLines
<1>1. HubInvariant => HubHoldsLiveLines
  BY DEF HubInvariant
<1> QED
  BY <1>1, HubCorrect, PTL

\* A host that believes in a browser that left will hear of its end, unless its line
\* goes down (RelayFails, SendReadyFails, closeLater).
THEOREM HostHearsTheEnd == Spec => []EndIsOnItsWay
<1>1. HubInvariant => EndIsOnItsWay
  BY DEF HubInvariant, HostIsTold, SessionStands, NoPlaceLeaked, EndIsOnItsWay, Bridged
<1> QED
  BY <1>1, HubCorrect, PTL

-----------------------------------------------------------------------------
(* The hub implements the switchboard. *)

\* A hub nobody reached yet is a switchboard nobody reached.
LEMMA SwitchboardStarts == Init => Board!Init
BY DEF Init, Board!Init, Plugged, Fallen, CallOf

\* A line's step plugs, unplugs or fells it, or shows nothing.
LEMMA LineStepOnTheBoard ==
  ASSUME HubInvariant, NEW l \in Lines, HostStep(l)
  PROVE  [Board!Next]_(Board!vars)
<1> USE DEF HubVars, CutVars, LineVars, PeerVars, ToldVars
<1>0. /\ TypeOK /\ LinesInPlace /\ CutOnce /\ NoPlaceLeaked /\ RelaysInPlace
  BY DEF HubInvariant
<1>1. UNCHANGED peer
  BY DEF HostStep, Register, HostReadFails, Unregister, HandlerShutdown, HangerShutdown,
         HandlerReturns, HangerReturns, HostSpeaks, RelayDelivers, RelayFails, HostCloses,
         HandlerHangsUp, HangerHangsUp
<1>2. UNCHANGED [b \in Browsers |-> CallOf(b)]
  BY <1>1 DEF CallOf
<1>3. CASE Register(l)
  <2>1. Plugged' = Plugged \cup {l} /\ l \notin Plugged /\ Fallen' = Fallen
    BY <1>0, <1>3 DEF Register, Plugged, Fallen, TypeOK
  <2>2. Board!Plug(l)
    BY <1>2, <1>3, <2>1 DEF Register, Placed, Board!Plug
  <2> QED
    BY <2>2 DEF Board!Next
<1>4. CASE Unregister(l)
  <2>1. UNCHANGED <<Plugged, Fallen, sessions>>
    BY <1>0, <1>4 DEF Unregister, Plugged, Fallen, TypeOK
  <2>2. CASE StillCurrent(l)
    <3>1. Board!Unplug(l)
      BY <1>2, <1>4, <2>1, <2>2 DEF Unregister, StillCurrent, Board!Unplug
    <3> QED
      BY <3>1 DEF Board!Next
  <2>3. CASE ~StillCurrent(l)
    BY <1>2, <1>4, <2>1, <2>3 DEF Unregister, Board!vars
  <2> QED
    BY <2>2, <2>3
<1>5. CASE HandlerShutdown(l) \/ HangerShutdown(l)
  <2>1. UNCHANGED current /\ Shutdown(l)
    BY <1>5 DEF HandlerShutdown, HangerShutdown
  <2>2. host[l] # "new" /\ current[LineId[l]] # l /\ Plugged' = Plugged
    BY <1>0, <1>5 DEF HandlerShutdown, HangerShutdown, OutOfTheHub, LinesInPlace, LineInPlace,
                      Plugged, TypeOK
  <2>3. Fallen' = Fallen \cup {l}
    BY <1>0, <2>1 DEF Shutdown, Fallen, TypeOK
  <2>4. CASE gone[l]
    <3>1. Fallen' = Fallen /\ sessions' = sessions
      BY <1>0, <2>1, <2>3, <2>4 DEF Fallen, CutOnce, Shutdown, TypeOK
    <3> QED
      BY <1>2, <2>1, <2>2, <3>1 DEF Board!vars
  <2>5. CASE ~gone[l]
    <3>1. Board!Fall(l)
      BY <1>2, <2>1, <2>2, <2>3, <2>5 DEF Board!Fall, Plugged, Fallen, Shutdown
    <3> QED
      BY <3>1 DEF Board!Next
  <2> QED
    BY <2>4, <2>5
<1>6. ASSUME NEW b \in Browsers, RelayFails(l, b) \/ HostCloses(l, b)
      PROVE  [Board!Next]_(Board!vars)
  <2>1. UNCHANGED <<current, Plugged, Fallen>>
    BY <1>0, <1>6 DEF RelayFails, RelayReturns, HostCloses, RelaysInPlace, Plugged, Fallen, TypeOK
  <2>2. sessions' = [sessions EXCEPT ![l] = @ \ {b}]
    BY <1>6 DEF RelayFails, HostCloses
  <2>3. CASE b \in sessions[l]
    <3>1. Board!LosesPlace(b, l)
      BY <1>2, <2>1, <2>2, <2>3 DEF Board!LosesPlace
    <3> QED
      BY <3>1 DEF Board!Next
  <2>4. CASE b \notin sessions[l]
    <3>1. sessions' = sessions
      BY <1>0, <2>2, <2>4 DEF TypeOK
    <3> QED
      BY <1>2, <2>1, <3>1 DEF Board!vars
  <2> QED
    BY <2>3, <2>4
<1>7. CASE \/ HostReadFails(l) \/ HandlerReturns(l) \/ HangerReturns(l)
           \/ \E b \in Browsers : \/ HostSpeaks(l, b) \/ RelayDelivers(l, b)
                                  \/ HandlerHangsUp(l, b) \/ HangerHangsUp(l, b)
  <2>1. UNCHANGED <<current, Plugged, Fallen, sessions>>
    BY <1>0, <1>7 DEF HostReadFails, HandlerReturns, HangerReturns, HostSpeaks, RelayDelivers,
                      RelayReturns, HandlerHangsUp, HangerHangsUp, RelaysInPlace, Plugged,
                      Fallen, TypeOK
  <2> QED
    BY <1>2, <2>1 DEF Board!vars
<1> QED
  BY <1>3, <1>4, <1>5, <1>6, <1>7 DEF HostStep

\* A browser's step is put through, turned away or hung up, or shows nothing.
LEMMA PeerStepOnTheBoard ==
  ASSUME HubInvariant, NEW b \in Browsers, PeerStep(b)
  PROVE  [Board!Next]_(Board!vars)
<1> USE DEF HubVars, CutVars, LineVars, PeerVars, ToldVars
<1>0. /\ TypeOK /\ LinesInPlace /\ NoPlaceLeaked /\ BridgedHaveALine /\ FoundIsAsked
  BY DEF HubInvariant
<1>1. UNCHANGED <<current, Plugged, Fallen>>
  BY DEF PeerStep, LookUp, AddSession, SendOpen, SendOpenFails, SendReady, SendReadyFails,
         PeerLeaves, CloseTimer, CloseSent, Plugged, Fallen
<1> DEFINE Calling == [a \in Browsers |-> CallOf(a)]
\* A handler's step turns its browser away, hangs it up, or changes nothing of its call.
<1>2. ASSUME NEW c \in PeerSteps, peer' = [peer EXCEPT ![b] = c], NEW v, CallOf(b)' = v
      PROVE  Calling' = [Calling EXCEPT ![b] = v]
  <2>1. ASSUME NEW a \in Browsers PROVE CallOf(a)' = IF a = b THEN v ELSE CallOf(a)
    BY <1>0, <1>2 DEF CallOf, TypeOK
  <2> QED
    BY <2>1
<1>3. Calling[b] = CallOf(b)
  OBVIOUS
<1>4. CASE LookUp(b)
  <2>1. CASE peer' = [peer EXCEPT ![b] = "done"]
    <3>1. Calling' = [Calling EXCEPT ![b] = "over"] /\ Calling[b] = "none"
      BY <1>0, <1>2, <1>4, <2>1 DEF LookUp, CallOf, Bridged, PeerSteps, TypeOK
    <3>2. Board!TurnAway(b)
      BY <1>1, <1>4, <3>1 DEF LookUp, Board!TurnAway
    <3> QED
      BY <3>2 DEF Board!Next
  <2>2. CASE peer' = [peer EXCEPT ![b] = "found"]
    <3>1. Calling' = Calling
      BY <1>0, <1>2, <1>4, <2>2 DEF LookUp, CallOf, Bridged, PeerSteps, TypeOK
    <3> QED
      BY <1>1, <1>4, <3>1 DEF LookUp, Board!vars
  <2> QED
    BY <1>4, <2>1, <2>2 DEF LookUp, PeerReturns
<1>5. CASE AddSession(b)
  <2> DEFINE l == lineOf[b]
  <2>1. CASE peer' = [peer EXCEPT ![b] = "added"] /\ Accepts(l)
    <3>1. l \in Lines /\ l \in Plugged \ Fallen /\ LineId[l] = WantedId[b]
      BY <1>0, <1>5, <2>1 DEF AddSession, BridgedHaveALine, FoundIsAsked, Accepts, Plugged, Fallen
    <3>2. Calling' = [Calling EXCEPT ![b] = "on"] /\ Calling[b] = "none"
      <4>1. CallOf(b)' = "on"
        BY <1>0, <2>1 DEF CallOf, Bridged, TypeOK
      <4>2. Calling[b] = "none"
        BY <1>5 DEF AddSession, CallOf
      <4> QED
        BY <1>2, <2>1, <4>1, <4>2 DEF PeerSteps
    <3>3. sessions' = [sessions EXCEPT ![l] = @ \cup {b}]
      BY <1>5, <2>1 DEF AddSession
    <3>4. Board!PutThrough(b, l)
      <4>1. Board!Cardinality(sessions[l]) < MaxSessions
        BY <2>1, Zenon DEF Accepts, Cardinality, Board!Cardinality
      <4> HIDE DEF l
      <4> QED
        BY <1>1, <3>1, <3>2, <3>3, <4>1 DEF Board!PutThrough
    <3> QED
      BY <3>1, <3>4 DEF Board!Next
  <2>2. CASE peer' = [peer EXCEPT ![b] = "done"] /\ ~Accepts(l)
    <3>1. Calling' = [Calling EXCEPT ![b] = "over"] /\ Calling[b] = "none"
      BY <1>0, <1>2, <1>5, <2>2 DEF AddSession, CallOf, Bridged, PeerSteps, TypeOK
    <3>2. Board!TurnAway(b)
      BY <1>1, <1>5, <2>2, <3>1 DEF AddSession, Board!TurnAway
    <3> QED
      BY <3>2 DEF Board!Next
  <2> QED
    BY <1>5, <2>1, <2>2 DEF AddSession, PeerReturns
<1>6. CASE SendOpenFails(b) \/ SendReadyFails(b) \/ PeerLeaves(b)
  <2>1. peer[b] \in Bridged /\ peer' = [peer EXCEPT ![b] = "done"] /\ DropOwn(b)
    BY <1>6 DEF SendOpenFails, SendReadyFails, PeerLeaves, PeerReturns, Bridged
  <2>2. Calling' = [Calling EXCEPT ![b] = "over"] /\ Calling[b] = "on"
    BY <1>0, <1>2, <2>1 DEF CallOf, Bridged, PeerSteps, TypeOK
  <2>3. sessions' = [l \in Lines |-> sessions[l] \ {b}]
    <3>1. ASSUME NEW m \in Lines PROVE sessions'[m] = sessions[m] \ {b}
      BY <1>0, <2>1 DEF DropOwn, NoPlaceLeaked, TypeOK
    <3>2. sessions' = [m \in Lines |-> sessions'[m]]
      BY <1>0, <2>1 DEF DropOwn, TypeOK
    <3> QED
      BY <3>1, <3>2
  <2>4. Board!HangUp(b)
    BY <1>1, <2>2, <2>3 DEF Board!HangUp
  <2> QED
    BY <2>4 DEF Board!Next
<1>7. CASE SendOpen(b) \/ SendReady(b) \/ CloseTimer(b) \/ CloseSent(b)
  <2>1. UNCHANGED sessions
    BY <1>7 DEF SendOpen, SendReady, CloseTimer, CloseSent
  <2>2. Calling' = Calling
    <3>1. CASE SendOpen(b) \/ SendReady(b)
      BY <1>0, <1>2, <3>1 DEF SendOpen, SendReady, CallOf, Bridged, PeerSteps, TypeOK
    <3>2. CASE CloseTimer(b) \/ CloseSent(b)
      BY <3>2 DEF CloseTimer, CloseSent, CallOf
    <3> QED
      BY <1>7, <3>1, <3>2
  <2> QED
    BY <1>1, <2>1, <2>2 DEF Board!vars
<1> QED
  BY <1>4, <1>5, <1>6, <1>7 DEF PeerStep

\* Every step is a step of the switchboard or shows nothing.
LEMMA SwitchboardStep == HubInvariant /\ [Next]_vars => [Board!Next]_(Board!vars)
<1> SUFFICES ASSUME HubInvariant, [Next]_vars PROVE [Board!Next]_(Board!vars)
  OBVIOUS
<1>1. ASSUME NEW c \in Sockets, Cut(c) PROVE UNCHANGED Board!vars
  BY <1>1 DEF Cut, HubVars, LineVars, PeerVars, Board!vars, Plugged, Fallen, CallOf
<1>2. UNCHANGED vars => UNCHANGED Board!vars
  BY DEF vars, Board!vars, Plugged, Fallen, CallOf
<1> QED
  BY <1>1, <1>2, LineStepOnTheBoard, PeerStepOnTheBoard DEF Next

\* The hub does nothing the switchboard would not, for every number of hosts, browsers
\* and places: handlers, hangers and timers in any order show each host and each
\* browser one board (hub.go, handleHost, handlePeer).
THEOREM HubIsASwitchboard == Spec => Board!Calls
<1>1. HubInvariant /\ [Next]_vars => [Board!Next]_(Board!vars)
  BY SwitchboardStep
<1> QED
  BY <1>1, SwitchboardStarts, HubCorrect, PTL DEF Spec, Board!Calls
=============================================================================
