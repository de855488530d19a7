------------------------- MODULE InputWatchdogProofs --------------------------
(***************************************************************************)
(* InputWatchdog for all inputs, channels and modes.  The first part is    *)
(* about input handled on the watchdog's own thread (MediaTrackRelay,      *)
(* StreamRelay): what is under way is exactly what separates the host from *)
(* what is believed held.  The second follows one input that was let go of *)
(* on its way to the host, on one thread or on two.                        *)
(***************************************************************************)
EXTENDS InputWatchdog, TLAPS

USE InputsAssumption, ModesAssumption

\* The events E are what separates the host, where d is down, from t, which the
\* watchdog believes held: each moves an input to where it is believed to be, and
\* none is missing.
Due(E, t, d) ==
  /\ t \subseteq Inputs /\ d \subseteq Inputs /\ E \subseteq Inputs \X BOOLEAN
  /\ \A i \in Inputs : <<i, TRUE>> \in E => i \in t
  /\ \A i \in Inputs : <<i, FALSE>> \in E => i \notin t
  /\ \A i \in t \ d : <<i, TRUE>> \in E
  /\ \A i \in d \ t : <<i, FALSE>> \in E

Note1 == [type : {"down", "up"}, input : Inputs]
State1 == [type : {"state"}, inputs : SUBSET (Keys \cup Buttons)]

HandlerShape ==
  \/ handler \in [at : {"idle", "send"}, events : SUBSET (Inputs \X BOOLEAN)]
  \/ handler \in [at : {"note"}, events : {{}}, msg : Note1]
  \/ handler \in [at : {"sync"}, events : {{}}, msg : State1]

Underway ==
  IF handler.at = "send" THEN handler.events
  ELSE IF dog.at = "send" THEN dog.events ELSE {}

\* A guest who lost the keyboard: what is still believed held is about to be let
\* go, and no message of theirs under way presses anything but a pad.
RightsHold ==
  ~allowed => /\ handler.at = "note" => handler.msg.input \in Pads
              /\ releaseDue \/ dog.at = "long" \/ tracked \subseteq Pads

WatchdogInvariant ==
  /\ held \subseteq Inputs
  /\ channel \in Seq(Messages)
  /\ HandlerShape
  /\ dog \in [at : DogSteps, events : SUBSET (Inputs \X {FALSE})]
  /\ handler.at = "idle" \/ dog.at = "idle"
  /\ Due(Underway, tracked, down)
  /\ RightsHold

-----------------------------------------------------------------------------
\* An event sent is one less to send.
LEMMA ApplyKeeps ==
  ASSUME NEW E, NEW t, Due(E, t, down), NEW e \in E, Apply(e)
  PROVE  Due(E \ {e}, t, down')
<1>1. PICK i \in Inputs, press \in BOOLEAN : e = <<i, press>>
  BY DEF Due
<1>2. CASE e = <<i, TRUE>>
  <2>1. down' = down \cup {i}
    BY <1>2 DEF Apply
  <2> QED
    BY <1>2, <2>1 DEF Due
<1>3. CASE e = <<i, FALSE>>
  <2>1. down' = down \ {i}
    BY <1>3 DEF Apply
  <2> QED
    BY <1>3, <2>1 DEF Due
<1> QED
  BY <1>1, <1>2, <1>3

\* With no event to send the host holds what is believed held, and conversely.
LEMMA NothingDue ==
  ASSUME NEW t \in SUBSET Inputs, NEW d \in SUBSET Inputs
  PROVE  Due({}, t, d) <=> d = t
BY DEF Due

\* What a set of events holds.
LEMMA EventHas ==
  ASSUME NEW S, NEW press \in BOOLEAN, NEW i, NEW p \in BOOLEAN
  PROVE  <<i, p>> \in Event(S, press) <=> i \in S /\ p = press
<1>1. ASSUME <<i, p>> \in Event(S, press)  PROVE  i \in S /\ p = press
  <2>1. PICK j \in S : <<i, p>> = <<j, press>>
    BY <1>1 DEF Event
  <2>2. i = j /\ p = press
    BY <2>1, Zenon
  <2> QED
    BY <2>2
<1>2. ASSUME i \in S, p = press  PROVE  <<i, p>> \in Event(S, press)
  BY <1>2, Zenon DEF Event
<1> QED
  BY <1>1, <1>2

\* And of what sort its events are.
LEMMA EventTyped ==
  ASSUME NEW S \in SUBSET Inputs, NEW press \in BOOLEAN
  PROVE  Event(S, press) \subseteq Inputs \X {press} /\ Event(S, press) \subseteq Inputs \X BOOLEAN
BY DEF Event

\* A set of events that presses what is in t and not in d, and lets go of what is
\* in d and not in t, and does nothing but that, is due between them.
LEMMA WhatIsDue ==
  ASSUME NEW t \in SUBSET Inputs, NEW d \in SUBSET Inputs,
         NEW E \in SUBSET (Inputs \X BOOLEAN), NEW new \in SUBSET t, NEW gone,
         gone \cap t = {}, t \ d \subseteq new, d \ t \subseteq gone,
         \A i : (<<i, TRUE>> \in E <=> i \in new) /\ (<<i, FALSE>> \in E <=> i \in gone)
  PROVE  Due(E, t, d)
<1>1. \A i \in Inputs : <<i, TRUE>> \in E => i \in t
  OBVIOUS
<1>2. \A i \in Inputs : <<i, FALSE>> \in E => i \notin t
  OBVIOUS
<1>3. (\A i \in t \ d : <<i, TRUE>> \in E) /\ (\A i \in d \ t : <<i, FALSE>> \in E)
  OBVIOUS
<1> QED
  BY <1>1, <1>2, <1>3 DEF Due

\* One input pressed, which was perhaps held already.
LEMMA PressDue ==
  ASSUME NEW t \in SUBSET Inputs, NEW i \in Inputs, NEW E,
         E = Event({i}, TRUE) \/ (E = {} /\ i \in t)
  PROVE  Due(E, t \cup {i}, t)
<1>1. CASE E = Event({i}, TRUE)
  <2>1. \A j : <<j, TRUE>> \in E <=> j \in {i}
    BY <1>1, EventHas
  <2>2. \A j : <<j, FALSE>> \in E <=> j \in {}
    BY <1>1, EventHas
  <2>3. E \subseteq Inputs \X BOOLEAN
    BY <1>1, EventTyped
  <2> QED
    BY <2>1, <2>2, <2>3, WhatIsDue
<1>2. CASE E = {} /\ i \in t
  BY <1>2 DEF Due
<1> QED
  BY <1>1, <1>2

\* One let go.
LEMMA LetGoDue ==
  ASSUME NEW t \in SUBSET Inputs, NEW i \in Inputs
  PROVE  Due(Event({i}, FALSE), t \ {i}, t)
<1> DEFINE E == Event({i}, FALSE)
<1>1. \A j : (<<j, TRUE>> \in E <=> j \in {}) /\ (<<j, FALSE>> \in E <=> j \in {i})
  BY EventHas
<1>2. E \subseteq Inputs \X BOOLEAN
  BY EventTyped
<1> HIDE DEF E
<1>3. Due(E, t \ {i}, t)
  BY <1>1, <1>2, WhatIsDue
<1> QED
  BY <1>3 DEF E

\* A claim of the heartbeat's: what it no longer holds goes, what it holds comes.
LEMMA ClaimDue ==
  ASSUME NEW t \in SUBSET Inputs, NEW claimed \in SUBSET (Keys \cup Buttons)
  PROVE  Due(Event((t \ Pads) \ claimed, FALSE) \cup Event(claimed \ (t \ Pads), TRUE),
             claimed \cup (t \cap Pads), t)
<1> DEFINE gone == (t \ Pads) \ claimed
           new == claimed \ (t \ Pads)
           all == claimed \cup (t \cap Pads)
           E == Event(gone, FALSE) \cup Event(new, TRUE)
<1>1. /\ gone \subseteq Inputs /\ new \subseteq Inputs /\ all \subseteq Inputs
      /\ gone \cap all = {} /\ new \subseteq all /\ all \ t \subseteq new /\ t \ all \subseteq gone
  BY DEF Inputs
<1> HIDE DEF gone, new, all
<1>2. E \subseteq Inputs \X BOOLEAN
  <2>1. Event(gone, FALSE) \subseteq Inputs \X BOOLEAN
    BY <1>1, EventTyped
  <2>2. Event(new, TRUE) \subseteq Inputs \X BOOLEAN
    BY <1>1, EventTyped
  <2> QED
    BY <2>1, <2>2
<1>3. \A i : <<i, TRUE>> \in E <=> i \in new
  BY EventHas
<1>4. \A i : <<i, FALSE>> \in E <=> i \in gone
  BY EventHas
<1> HIDE DEF E
<1>5. Due(E, all, t)
  <2>1. \A i \in Inputs : <<i, TRUE>> \in E => i \in all
    BY <1>1, <1>3, Zenon
  <2>2. \A i \in Inputs : <<i, FALSE>> \in E => i \notin all
    BY <1>1, <1>4, Zenon
  <2>3. \A i \in all \ t : <<i, TRUE>> \in E
    BY <1>1, <1>3, Zenon
  <2>4. \A i \in t \ all : <<i, FALSE>> \in E
    BY <1>1, <1>4, Zenon
  <2> QED
    BY <1>1, <1>2, <2>1, <2>2, <2>3, <2>4 DEF Due
<1> QED
  BY <1>5 DEF E, gone, new, all

\* A release.
LEMMA ReleaseDue ==
  ASSUME NEW t \in SUBSET Inputs, NEW gone \in SUBSET t
  PROVE  Due(Event(gone, FALSE), t \ gone, t) /\ Event(gone, FALSE) \subseteq Inputs \X {FALSE}
<1> DEFINE E == Event(gone, FALSE)
<1>1. \A j : (<<j, TRUE>> \in E <=> j \in {}) /\ (<<j, FALSE>> \in E <=> j \in gone)
  BY EventHas
<1>2. E \subseteq Inputs \X BOOLEAN /\ E \subseteq Inputs \X {FALSE}
  BY EventTyped
<1> HIDE DEF E
<1>3. Due(E, t \ gone, t)
  BY <1>1, <1>2, WhatIsDue
<1> QED
  BY <1>2, <1>3 DEF E

\* The steps that touch neither what is held nor what handles it.
LEMMA OutsideKeeps ==
  ASSUME WatchdogInvariant,
         UNCHANGED <<tracked, down, handler, dog>>, held' \subseteq Inputs,
         channel' \in Seq(Messages), allowed' = allowed, releaseDue' = releaseDue
  PROVE  WatchdogInvariant'
BY DEF WatchdogInvariant, HandlerShape, Underway, RightsHold

\* What the user does puts messages on their way and touches nothing else.
LEMMA BrowserKeeps ==
  ASSUME WatchdogInvariant, User \/ Beat  PROVE  WatchdogInvariant'
<1>1. CASE Beat
  <2>1. [type |-> "state", inputs |-> held \ Pads] \in Messages
    BY DEF Messages, WatchdogInvariant, Inputs
  <2>2. channel' \in Seq(Messages)
    BY <1>1, <2>1 DEF Beat, Post, WatchdogInvariant
  <2> QED
    BY <1>1, <2>2, OutsideKeeps DEF Beat, State, Policy, WatchdogInvariant
<1>2. ASSUME NEW i \in Inputs, Press(i) \/ Repeat(i) \/ LetGo(i)
      PROVE  WatchdogInvariant'
  <2>1. \A t \in {"down", "up"} : [type |-> t, input |-> i] \in Messages
    BY DEF Messages
  <2>2. channel' \in Seq(Messages) /\ held' \subseteq Inputs
    BY <1>2, <2>1 DEF Press, Repeat, LetGo, Post, Browser, WatchdogInvariant
  <2> QED
    BY <1>2, <2>2, OutsideKeeps DEF Press, Repeat, LetGo, State, Policy
<1> QED
  BY <1>1, <1>2 DEF User

\* A message taken in changes only the handler, and none that is let through
\* gives a guest without rights more than a pad.
LEMMA ReceiveKeeps ==
  ASSUME WatchdogInvariant, ~OwnThread, Receive  PROVE  WatchdogInvariant'
<1> USE DEF WatchdogInvariant
<1> DEFINE m == Head(channel)
<1>1. dog.at = "idle" /\ handler.at = "idle" /\ Due({}, tracked, down)
  BY DEF Receive, HandlerMayRun, Underway
<1>2. m \in Messages /\ channel' \in Seq(Messages)
  BY DEF Receive
<1>3. m \in Note1 \cup State1 /\ (m.type = "state" <=> m \in State1)
  BY <1>2 DEF Messages, Note1, State1
<1> HIDE DEF m
<1>4. handler' = IF ~Allowed(m) THEN Idle
                 ELSE [at |-> IF m.type = "state" THEN "sync" ELSE "note",
                       events |-> {}, msg |-> m]
  BY DEF Receive, m
<1>5. HandlerShape' /\ handler'.at # "send" /\ dog' = dog
  BY <1>3, <1>4 DEF HandlerShape, Idle, Receive
<1>6. Due(Underway, tracked, down)'
  BY <1>1, <1>5 DEF Underway, Receive, State
<1>7. RightsHold'
  BY <1>3, <1>4 DEF RightsHold, Receive, State, Policy, Allowed, Idle, Note1, State1
<1> QED
  BY <1>1, <1>2, <1>5, <1>6, <1>7 DEF Receive, State, Browser

\* A press or a release noted leaves at most its own event to send.
LEMMA NoteKeeps ==
  ASSUME WatchdogInvariant, Note  PROVE  WatchdogInvariant'
<1> USE DEF WatchdogInvariant
<1> DEFINE i == handler.msg.input
           press == handler.msg.type = "down"
           sent == IF Forward(i, press) THEN {<<i, press>>} ELSE {}
<1>1. handler.at = "note" /\ i \in Inputs /\ dog.at = "idle" /\ Due({}, tracked, down)
  BY DEF Note, HandlerShape, Note1, Underway
<1>2. down = tracked /\ tracked \subseteq Inputs
  BY <1>1, NothingDue DEF Due
<1>3. /\ tracked' = (IF press THEN tracked \cup {i} ELSE tracked \ {i})
      /\ handler' = [at |-> "send", events |-> sent]
      /\ UNCHANGED <<held, channel, dog, down, allowed, releaseDue>>
  BY DEF Note, Browser, Policy
<1>4. ~allowed => i \in Pads
  BY <1>1 DEF RightsHold
<1> HIDE DEF i
<1>5. Due(sent, tracked', down')
  <2>1. CASE press
    <3>1. sent = Event({i}, TRUE) \/ (sent = {} /\ i \in tracked)
      BY <2>1 DEF Forward, Event
    <3> HIDE DEF sent
    <3> QED
      BY <1>1, <1>2, <1>3, <2>1, <3>1, PressDue
  <2>2. CASE ~press
    <3>1. sent = Event({i}, FALSE)
      BY <2>2 DEF Forward, Event
    <3> HIDE DEF sent
    <3> QED
      BY <1>1, <1>2, <1>3, <2>2, <3>1, LetGoDue
  <2> QED
    BY <2>1, <2>2
<1> HIDE DEF sent
<1>6. sent \subseteq Inputs \X BOOLEAN
  BY <1>5 DEF Due
<1>7. RightsHold'
  BY <1>1, <1>3, <1>4 DEF RightsHold
<1> HIDE DEF press
<1>8. HandlerShape' /\ Underway' = sent /\ dog'.at = "idle"
  BY <1>1, <1>3, <1>6 DEF HandlerShape, Underway
<1> QED
  BY <1>3, <1>5, <1>7, <1>8

\* A heartbeat's claim leaves the events by which it differs from what was held.
LEMMA SyncKeeps ==
  ASSUME WatchdogInvariant, Sync  PROVE  WatchdogInvariant'
<1> USE DEF WatchdogInvariant
<1> DEFINE claimed == Filtered(handler.msg.inputs)
           mine == tracked \ Pads
           sent == Event(mine \ claimed, FALSE) \cup Event(claimed \ mine, TRUE)
<1>1. /\ handler.at = "sync" /\ handler.msg.inputs \subseteq Keys \cup Buttons
      /\ dog.at = "idle" /\ Due({}, tracked, down)
  BY DEF Sync, HandlerShape, State1, Underway
<1>2. down = tracked /\ tracked \subseteq Inputs
  BY <1>1, NothingDue DEF Due
<1>3. claimed \subseteq Keys \cup Buttons /\ (~allowed => claimed = {})
  BY <1>1 DEF Filtered
<1>4. /\ tracked' = claimed \cup (tracked \cap Pads)
      /\ handler' = [at |-> "send", events |-> sent]
      /\ UNCHANGED <<held, channel, dog, down, allowed, releaseDue>>
  BY DEF Sync, Browser, Policy
<1> HIDE DEF claimed
<1>5. Due(sent, tracked', down')
  BY <1>2, <1>3, <1>4, ClaimDue
<1>6. RightsHold'
  BY <1>1, <1>3, <1>4 DEF RightsHold
<1> HIDE DEF sent
<1>7. sent \subseteq Inputs \X BOOLEAN
  BY <1>5 DEF Due
<1>8. HandlerShape' /\ Underway' = sent /\ dog'.at = "idle"
  BY <1>1, <1>4, <1>7 DEF HandlerShape, Underway
<1> QED
  BY <1>4, <1>5, <1>6, <1>8

\* The handler sends one event after another.
LEMMA HandlerSendsKeeps ==
  ASSUME WatchdogInvariant, HandlerSends  PROVE  WatchdogInvariant'
<1> USE DEF WatchdogInvariant
<1>1. /\ handler.at = "send" /\ Due(handler.events, tracked, down) /\ dog.at = "idle"
      /\ handler \in [at : {"idle", "send"}, events : SUBSET (Inputs \X BOOLEAN)]
  BY DEF HandlerSends, HandlerShape, Underway
<1>2. UNCHANGED <<held, channel, dog, tracked, allowed, releaseDue>>
  BY DEF HandlerSends, Browser, State, Policy
<1>3. ASSUME NEW e \in handler.events, Apply(e),
             handler' = [handler EXCEPT !.events = handler.events \ {e}]
      PROVE  WatchdogInvariant'
  <2>1. Due(handler.events \ {e}, tracked, down')
    BY <1>1, <1>3, ApplyKeeps
  <2>2. handler'.at = "send" /\ handler'.events = handler.events \ {e} /\ HandlerShape'
    BY <1>1, <1>3 DEF HandlerShape
  <2>3. Due(Underway, tracked, down)' /\ RightsHold'
    BY <1>1, <1>2, <2>1, <2>2 DEF Underway, RightsHold
  <2> QED
    BY <1>1, <1>2, <2>2, <2>3
<1>4. CASE handler.events = {} /\ handler' = Idle /\ UNCHANGED down
  BY <1>1, <1>2, <1>4 DEF Idle, HandlerShape, Underway, RightsHold
<1> QED
  BY <1>3, <1>4 DEF HandlerSends

-----------------------------------------------------------------------------
(* The watchdog's thread.                                                  *)

\* A release that begins, by the timer or for a policy, has taken nothing yet.
LEMMA TickKeeps ==
  ASSUME WatchdogInvariant, ~OwnThread, Tick \/ ReleaseHeldInputs  PROVE  WatchdogInvariant'
<1> USE DEF WatchdogInvariant
<1>1. dog.at = "idle" /\ handler.at = "idle"
  BY DEF Tick, ReleaseHeldInputs, DogMayRun
<1>2. /\ UNCHANGED <<held, channel, handler, tracked, down, allowed>>
      /\ dog' \in [at : {"long", "short"}, events : {{}}]
      /\ releaseDue' = releaseDue \/ dog'.at = "long"
  BY DEF Tick, ReleaseHeldInputs, Browser, State, Policy
<1>3. dog' \in [at : DogSteps, events : SUBSET (Inputs \X {FALSE})] /\ dog'.at # "send"
  BY <1>2 DEF DogSteps
<1>4. HandlerShape'
  BY <1>2 DEF HandlerShape
<1>5. Due(Underway, tracked, down)'
  BY <1>1, <1>2, <1>3 DEF Underway
<1>6. RightsHold'
  BY <1>1, <1>2 DEF RightsHold
<1> QED
  BY <1>1, <1>2, <1>3, <1>4, <1>5, <1>6

\* What is taken from the believed is what the host is to be told of.
LEMMA CollectKeeps ==
  ASSUME WatchdogInvariant, Collect  PROVE  WatchdogInvariant'
<1> USE DEF WatchdogInvariant
<1> DEFINE gone == Goes(dog.at = "long")
<1>1. dog.at \in {"short", "long"} /\ handler.at = "idle" /\ Due({}, tracked, down)
  BY DEF Collect, Underway
<1>2. down = tracked /\ tracked \subseteq Inputs
  BY <1>1, NothingDue DEF Due
<1>3. gone \subseteq tracked /\ (dog.at = "long" => gone = tracked)
  BY DEF Goes
<1>4. /\ tracked' = tracked \ gone /\ dog' = [at |-> "send", events |-> Event(gone, FALSE)]
      /\ UNCHANGED <<held, channel, handler, down, allowed, releaseDue>>
  BY DEF Collect, Erased, Browser, Policy
<1> HIDE DEF gone
<1>5. Due(Event(gone, FALSE), tracked', down') /\ Event(gone, FALSE) \subseteq Inputs \X {FALSE}
  BY <1>2, <1>3, <1>4, ReleaseDue
<1>6. RightsHold'
  BY <1>1, <1>3, <1>4 DEF RightsHold
<1>7. dog' \in [at : DogSteps, events : SUBSET (Inputs \X {FALSE})] /\ dog'.at = "send"
  BY <1>4, <1>5 DEF DogSteps
<1>8. HandlerShape' /\ handler'.at = "idle"
  BY <1>1, <1>4 DEF HandlerShape
<1>9. Due(Underway, tracked, down)'
  BY <1>4, <1>5, <1>7, <1>8 DEF Underway
<1> QED
  BY <1>4, <1>6, <1>7, <1>8, <1>9

\* The watchdog's thread sends one release after another.
LEMMA DogSendsKeeps ==
  ASSUME WatchdogInvariant, DogSends  PROVE  WatchdogInvariant'
<1> USE DEF WatchdogInvariant
<1>1. dog.at = "send" /\ handler.at = "idle" /\ Due(dog.events, tracked, down)
  BY DEF DogSends, Underway
<1>2. UNCHANGED <<held, channel, handler, tracked, allowed, releaseDue>>
  BY DEF DogSends, Browser, State, Policy
<1>3. HandlerShape'
  BY <1>2 DEF HandlerShape
<1>4. ASSUME NEW e \in dog.events, Apply(e), dog' = [dog EXCEPT !.events = dog.events \ {e}]
      PROVE  WatchdogInvariant'
  <2>1. Due(dog.events \ {e}, tracked, down')
    BY <1>1, <1>4, ApplyKeeps
  <2>2. /\ dog' \in [at : DogSteps, events : SUBSET (Inputs \X {FALSE})]
        /\ dog'.at = "send" /\ dog'.events = dog.events \ {e}
    BY <1>1, <1>4
  <2>3. Due(Underway, tracked, down)' /\ RightsHold'
    BY <1>1, <1>2, <2>1, <2>2 DEF Underway, RightsHold
  <2> QED
    BY <1>1, <1>2, <1>3, <2>2, <2>3
<1>5. CASE dog.events = {} /\ dog' = Idle /\ UNCHANGED down
  BY <1>1, <1>2, <1>3, <1>5 DEF Idle, DogSteps, Underway, RightsHold
<1> QED
  BY <1>4, <1>5 DEF DogSends

\* A policy that changes queues its release with it.
LEMMA PolicyKeeps ==
  ASSUME WatchdogInvariant, SetInputPolicy  PROVE  WatchdogInvariant'
<1>1. UNCHANGED <<held, channel, handler, dog, tracked, down>> /\ releaseDue' /\ handler.at = "idle"
  BY DEF SetInputPolicy, Browser, State
<1>2. RightsHold'
  BY <1>1 DEF RightsHold
<1> QED
  BY <1>1, <1>2 DEF WatchdogInvariant, HandlerShape, Underway

-----------------------------------------------------------------------------
\* Nothing is held at first.
LEMMA WatchdogInit == Init => WatchdogInvariant
<1> SUFFICES ASSUME Init  PROVE  WatchdogInvariant
  OBVIOUS
<1>1. HandlerShape /\ dog \in [at : DogSteps, events : SUBSET (Inputs \X {FALSE})]
  BY DEF Init, HandlerShape, Idle, DogSteps
<1>2. Due({}, tracked, down)
  BY NothingDue DEF Init
<1> QED
  BY <1>1, <1>2 DEF Init, WatchdogInvariant, Idle, Underway, RightsHold

\* Every step keeps the invariant, where one thread takes them all.
LEMMA WatchdogStep ==
  ASSUME ~OwnThread  PROVE  WatchdogInvariant /\ [Next]_vars => WatchdogInvariant'
<1> SUFFICES ASSUME WatchdogInvariant, [Next]_vars  PROVE  WatchdogInvariant'
  OBVIOUS
<1>1. CASE User \/ Beat
  BY <1>1, BrowserKeeps
<1>2. CASE Handler
  BY <1>2, ReceiveKeeps, NoteKeeps, SyncKeeps, HandlerSendsKeeps DEF Handler
<1>3. CASE TimePasses \/ ArmRuns \/ LinkDies
  <2>1. UNCHANGED <<tracked, down, handler, dog, held, channel, allowed, releaseDue>>
    BY <1>3 DEF TimePasses, ArmRuns, LinkDies, Browser, State, Policy
  <2> QED
    BY <2>1, OutsideKeeps DEF WatchdogInvariant
<1>4. CASE Tick \/ ReleaseHeldInputs \/ Collect \/ DogSends
  BY <1>4, TickKeeps, CollectKeeps, DogSendsKeeps
<1>5. CASE SetInputPolicy
  BY <1>5, PolicyKeeps
<1>6. CASE UNCHANGED vars
  <2>1. UNCHANGED <<tracked, down, handler, dog, held, channel, allowed, releaseDue>>
    BY <1>6 DEF vars
  <2> QED
    BY <2>1, OutsideKeeps DEF WatchdogInvariant
<1> QED
  BY <1>1, <1>2, <1>3, <1>4, <1>5, <1>6 DEF Next, Dog

\* On one thread, what is under way is exactly what separates the host from what
\* the watchdog believes held, in every reachable state.
THEOREM WatchdogCorrect == ASSUME ~OwnThread  PROVE  Spec => []WatchdogInvariant
BY WatchdogInit, WatchdogStep, PTL DEF Spec

\* On one thread, the watchdog knows what the host holds whenever it is at rest.
THEOREM WatchdogKnows == ASSUME ~OwnThread  PROVE  Spec => []TrackedIsHeld
<1>1. WatchdogInvariant => TrackedIsHeld
  BY NothingDue DEF WatchdogInvariant, TrackedIsHeld, Quiet, Underway, Due
<1> QED
  BY <1>1, WatchdogCorrect, PTL

\* On one thread, a guest whose keyboard was taken holds nothing but pads once the
\* release is over, whatever their heartbeat claims.
THEOREM WatchdogRevokes == ASSUME ~OwnThread  PROVE  Spec => []RevokedHoldsNothing
<1>1. WatchdogInvariant => RevokedHoldsNothing
  BY NothingDue DEF WatchdogInvariant, RevokedHoldsNothing, Quiet, Underway, Due, RightsHold
<1> QED
  BY <1>1, WatchdogCorrect, PTL

-----------------------------------------------------------------------------
(* What was let go of, on one thread or on two.                            *)

\* A message that would press the input.
Presses(m, i) ==
  \/ m.type = "down" /\ m.input = i
  \/ m.type = "state" /\ i \in m.inputs
LetsGo(m, i) == m.type = "up" /\ m.input = i

\* The last that the messages q say of the input is that it was let go.
EndsUp(q, i) ==
  \E n \in 1 .. Len(q) : LetsGo(q[n], i) /\ \A j \in n + 1 .. Len(q) : ~Presses(q[j], i)
\* They do not press it.
Silent(q, i) == \A n \in 1 .. Len(q) : ~Presses(q[n], i)

\* The handler has its release in hand, or nothing that presses it.
UpInHand(i) ==
  \/ handler.at = "note" /\ LetsGo(handler.msg, i)
  \/ handler.at = "send" /\ <<i, FALSE>> \in handler.events /\ <<i, TRUE>> \notin handler.events
NoPress(i) ==
  /\ handler.at \in {"note", "sync"} => ~Presses(handler.msg, i)
  /\ <<i, TRUE>> \notin handler.events

\* A guest who lost the keyboard may have let go unheard: the release queued with
\* their rights does it for them.
AboutToGo(i) ==
  /\ ~allowed
  /\ releaseDue \/ dog.at = "long" \/ (dog.at = "send" /\ <<i, FALSE>> \in dog.events)

\* Where an input that the user does not hold stands: its release is on its way,
\* or in hand, or it is up on the host or about to be.
OnItsWayUp(i) ==
  \/ EndsUp(channel, i)
  \/ /\ Silent(channel, i)
     /\ UpInHand(i) \/ (NoPress(i) /\ (i \notin down \/ AboutToGo(i)))

DogShape == dog \in [at : DogSteps, events : SUBSET (Inputs \X {FALSE})]
Shape ==
  /\ held \subseteq Inputs /\ channel \in Seq(Messages) /\ HandlerShape /\ DogShape
  /\ down \subseteq Inputs /\ tracked \subseteq Inputs
  /\ MayRevoke \/ allowed = TRUE

LetGoInvariant == Shape /\ \A i \in Inputs \ held : OnItsWayUp(i)

\* Where rights change, one thread does everything, and what it knows may be used.
Known == ~MayRevoke \/ (~OwnThread /\ WatchdogInvariant)

\* A message that does not press the input changes nothing of what is said of it.
LEMMA AppendKeeps ==
  ASSUME NEW q \in Seq(Messages), NEW m \in Messages, NEW i, ~Presses(m, i)
  PROVE  /\ EndsUp(q, i) => EndsUp(Append(q, m), i)
         /\ Silent(q, i) => Silent(Append(q, m), i)
<1> DEFINE r == Append(q, m)
<1>1. /\ Len(q) \in Nat /\ Len(r) = Len(q) + 1 /\ r[Len(q) + 1] = m
      /\ \A n \in 1 .. Len(q) : r[n] = q[n]
  OBVIOUS
<1> HIDE DEF r
<1>2. ASSUME EndsUp(q, i)  PROVE  EndsUp(r, i)
  <2>1. PICK n \in 1 .. Len(q) :
          LetsGo(q[n], i) /\ \A j \in n + 1 .. Len(q) : ~Presses(q[j], i)
    BY <1>2 DEF EndsUp
  <2>2. n \in 1 .. Len(r) /\ LetsGo(r[n], i)
    BY <1>1, <2>1
  <2>3. ASSUME NEW j \in n + 1 .. Len(r)  PROVE  ~Presses(r[j], i)
    <3>1. j \in n + 1 .. Len(q) \/ j = Len(q) + 1
      BY <1>1, <2>1
    <3>2. j \in n + 1 .. Len(q) => j \in 1 .. Len(q)
      BY <1>1, <2>1
    <3> QED
      BY <1>1, <2>1, <3>1, <3>2
  <2> QED
    BY <2>2, <2>3 DEF EndsUp
<1>3. ASSUME Silent(q, i)  PROVE  Silent(r, i)
  <2>1. ASSUME NEW j \in 1 .. Len(r)  PROVE  ~Presses(r[j], i)
    <3>1. j \in 1 .. Len(q) \/ j = Len(q) + 1
      BY <1>1
    <3> QED
      BY <1>1, <1>3, <3>1 DEF Silent
  <2> QED
    BY <2>1 DEF Silent
<1> QED
  BY <1>2, <1>3 DEF r

\* A release that is posted is the last that is said.
LEMMA AppendEnds ==
  ASSUME NEW q \in Seq(Messages), NEW m \in Messages, NEW i, LetsGo(m, i)
  PROVE  EndsUp(Append(q, m), i)
<1> DEFINE r == Append(q, m)
           n == Len(q) + 1
<1>1. n \in 1 .. Len(r) /\ r[n] = m /\ Len(r) = n
  OBVIOUS
<1>2. \A j \in n + 1 .. Len(r) : FALSE
  BY <1>1
<1> QED
  BY <1>1, <1>2 DEF EndsUp

\* The first message is taken in: its release may be in it, and what presses it is not
\* in what is left.
LEMMA TailKeeps ==
  ASSUME NEW q \in Seq(Messages), q # <<>>, NEW i
  PROVE  /\ EndsUp(q, i) => \/ EndsUp(Tail(q), i)
                            \/ LetsGo(Head(q), i) /\ Silent(Tail(q), i)
         /\ Silent(q, i) => Silent(Tail(q), i) /\ ~Presses(Head(q), i)
<1> DEFINE r == Tail(q)
<1>1. /\ Len(q) \in Nat /\ Len(q) >= 1 /\ Len(r) = Len(q) - 1 /\ Head(q) = q[1]
      /\ \A n \in 1 .. Len(r) : r[n] = q[n + 1]
  OBVIOUS
<1> HIDE DEF r
<1>2. ASSUME EndsUp(q, i)
      PROVE  EndsUp(r, i) \/ (LetsGo(Head(q), i) /\ Silent(r, i))
  <2>1. PICK n \in 1 .. Len(q) :
          LetsGo(q[n], i) /\ \A j \in n + 1 .. Len(q) : ~Presses(q[j], i)
    BY <1>2 DEF EndsUp
  <2>2. ASSUME NEW j \in n .. Len(r)  PROVE  ~Presses(r[j], i)
    <3>1. j \in 1 .. Len(r) /\ j + 1 \in n + 1 .. Len(q)
      BY <1>1, <2>1
    <3> QED
      BY <1>1, <2>1, <3>1
  <2>3. CASE n = 1
    BY <1>1, <2>1, <2>2, <2>3 DEF Silent
  <2>4. CASE n > 1
    <3>1. n - 1 \in 1 .. Len(r) /\ (n - 1) + 1 = n
      BY <1>1, <2>1, <2>4
    <3>2. LetsGo(r[n - 1], i)
      BY <1>1, <2>1, <3>1
    <3> QED
      BY <2>2, <3>1, <3>2 DEF EndsUp
  <2> QED
    BY <2>1, <2>3, <2>4
<1>3. ASSUME Silent(q, i)  PROVE  Silent(r, i) /\ ~Presses(Head(q), i)
  <2>1. \A n \in 1 .. Len(r) : n + 1 \in 1 .. Len(q)
    BY <1>1
  <2> QED
    BY <1>1, <1>3, <2>1 DEF Silent
<1> QED
  BY <1>2, <1>3 DEF r

\* What the user does is told after all that was told before.
LEMMA BrowserLetsGo ==
  ASSUME LetGoInvariant, User \/ Beat  PROVE  LetGoInvariant'
<1>1. /\ UNCHANGED <<handler, dog, down, tracked, allowed, releaseDue>>
      /\ held \subseteq Inputs /\ channel \in Seq(Messages)
  BY DEF User, Beat, Press, Repeat, LetGo, State, Policy, Browser, LetGoInvariant, Shape
<1>2. ASSUME NEW m \in Messages, channel' = Append(channel, m), held' \subseteq Inputs,
             \A i \in Inputs \ held' :
               ~Presses(m, i) /\ (i \notin held \/ LetsGo(m, i))
      PROVE  LetGoInvariant'
  <2>1. Shape'
    <3>1. channel' \in Seq(Messages)
      BY <1>1, <1>2
    <3>2. HandlerShape' /\ DogShape'
      BY <1>1 DEF LetGoInvariant, Shape, HandlerShape, DogShape
    <3> QED
      BY <1>1, <1>2, <3>1, <3>2 DEF LetGoInvariant, Shape
  <2>2. ASSUME NEW i \in Inputs \ held'  PROVE  OnItsWayUp(i)'
    <3>1. CASE LetsGo(m, i)
      BY <1>1, <1>2, <3>1, AppendEnds DEF OnItsWayUp
    <3>2. CASE i \notin held
      <4>1. ~Presses(m, i) /\ OnItsWayUp(i)
        BY <1>2, <2>2, <3>2 DEF LetGoInvariant
      <4>2. /\ EndsUp(channel, i) => EndsUp(channel', i)
            /\ Silent(channel, i) => Silent(channel', i)
        BY <1>1, <1>2, <4>1, AppendKeeps
      <4> QED
        BY <1>1, <4>1, <4>2 DEF OnItsWayUp, UpInHand, NoPress, AboutToGo
    <3> QED
      BY <1>2, <2>2, <3>1, <3>2
  <2> QED
    BY <2>1, <2>2 DEF LetGoInvariant
<1>3. CASE Beat
  <2> DEFINE m == [type |-> "state", inputs |-> held \ Pads]
  <2>1. m \in Messages /\ channel' = Append(channel, m) /\ held' = held
    BY <1>1, <1>3 DEF Beat, Post, Messages, Inputs
  <2>2. \A i \in Inputs \ held' : ~Presses(m, i)
    BY <2>1 DEF Presses
  <2> QED
    BY <1>1, <1>2, <2>1, <2>2
<1>4. ASSUME NEW k \in Inputs, Press(k) \/ Repeat(k)  PROVE  LetGoInvariant'
  <2> DEFINE m == [type |-> "down", input |-> k]
  <2>1. /\ m \in Messages /\ channel' = Append(channel, m) /\ held' = held \cup {k}
    BY <1>1, <1>4 DEF Press, Repeat, Post, Messages, Browser
  <2>2. \A i \in Inputs \ held' : ~Presses(m, i) /\ i \notin held
    BY <2>1 DEF Presses
  <2> QED
    BY <1>1, <1>2, <2>1, <2>2
<1>5. ASSUME NEW k \in Inputs, LetGo(k)  PROVE  LetGoInvariant'
  <2> DEFINE m == [type |-> "up", input |-> k]
  <2>1. /\ m \in Messages /\ channel' = Append(channel, m) /\ held' = held \ {k}
    BY <1>1, <1>5 DEF LetGo, Post, Messages
  <2>2. \A i \in Inputs \ held' : ~Presses(m, i) /\ (i \notin held \/ LetsGo(m, i))
    BY <2>1 DEF Presses, LetsGo
  <2> QED
    BY <1>1, <1>2, <2>1, <2>2
<1> QED
  BY <1>3, <1>4, <1>5 DEF User

\* The steps that touch nothing an input's release waits for.
LEMMA OutsideLetsGo ==
  ASSUME LetGoInvariant,
         UNCHANGED <<held, channel, handler, dog, down, tracked, allowed, releaseDue>>
  PROVE  LetGoInvariant'
BY DEF LetGoInvariant, Shape, HandlerShape, DogShape, OnItsWayUp, UpInHand, NoPress, AboutToGo

\* A release taken in is in hand, or is dropped for want of rights: then what it
\* would have let go is not believed held, or is about to be released.
LEMMA ReceiveLetsGo ==
  ASSUME LetGoInvariant, Known, Receive  PROVE  LetGoInvariant'
<1> DEFINE m == Head(channel)
<1>1. /\ handler.at = "idle" /\ channel # <<>> /\ channel \in Seq(Messages)
      /\ channel' = Tail(channel) /\ channel' \in Seq(Messages) /\ m \in Messages
      /\ UNCHANGED <<held, dog, down, tracked, allowed, releaseDue>>
  BY DEF Receive, Browser, State, Policy, LetGoInvariant, Shape
<1>2. m \in Note1 \cup State1 /\ (m.type = "state" <=> m \in State1)
  BY <1>1 DEF Messages, Note1, State1
<1>3. ASSUME NEW i \in Inputs
      PROVE  /\ EndsUp(channel, i) => \/ EndsUp(channel', i)
                                      \/ LetsGo(m, i) /\ Silent(channel', i)
             /\ Silent(channel, i) => Silent(channel', i) /\ ~Presses(m, i)
  BY <1>1, TailKeeps
<1> HIDE DEF m
<1>4. handler' = IF ~Allowed(m) THEN Idle
                 ELSE [at |-> IF m.type = "state" THEN "sync" ELSE "note",
                       events |-> {}, msg |-> m]
  BY DEF Receive, m
<1>5. /\ handler'.events = {} /\ handler'.at # "send"
      /\ handler'.at \in {"note", "sync"} => handler'.msg = m
      /\ Allowed(m) /\ m.type # "state" => handler'.at = "note" /\ handler'.msg = m
      /\ ~Allowed(m) => handler'.at = "idle"
  BY <1>4 DEF Idle
<1>6. Shape'
  <2>1. HandlerShape'
    BY <1>2, <1>4 DEF HandlerShape, Idle
  <2> QED
    BY <1>1, <2>1 DEF LetGoInvariant, Shape, DogShape
<1>7. ASSUME NEW i \in Inputs \ held'  PROVE  OnItsWayUp(i)'
  <2>1. OnItsWayUp(i)
    BY <1>1 DEF LetGoInvariant
  <2>2. CASE EndsUp(channel', i)
    BY <2>2 DEF OnItsWayUp
  <2>3. CASE LetsGo(m, i) /\ Silent(channel', i) /\ Allowed(m)
    <3>1. UpInHand(i)'
      BY <1>5, <2>3 DEF UpInHand, LetsGo
    <3> QED
      BY <2>3, <3>1 DEF OnItsWayUp
  <2>4. CASE LetsGo(m, i) /\ Silent(channel', i) /\ ~Allowed(m)
    <3>1. ~allowed /\ i \notin Pads /\ MayRevoke
      BY <2>4 DEF Allowed, LetsGo, LetGoInvariant, Shape
    <3>2. ~OwnThread /\ WatchdogInvariant /\ dog.at = "idle"
      BY <3>1 DEF Known, Receive, HandlerMayRun
    <3>3. down = tracked
      BY <1>1, <3>2, NothingDue DEF WatchdogInvariant, Underway, Due
    <3>4. i \in down => releaseDue
      BY <1>1, <3>1, <3>2, <3>3 DEF WatchdogInvariant, RightsHold
    <3>5. NoPress(i)' /\ (i \notin down' \/ AboutToGo(i)')
      BY <1>1, <1>5, <2>4, <3>1, <3>4 DEF NoPress, AboutToGo
    <3> QED
      BY <2>4, <3>5 DEF OnItsWayUp
  <2>5. CASE Silent(channel, i) /\ UpInHand(i)
    BY <1>1, <2>5 DEF UpInHand
  <2>6. CASE Silent(channel, i) /\ NoPress(i) /\ (i \notin down \/ AboutToGo(i))
    <3>1. Silent(channel', i) /\ ~Presses(m, i)
      BY <1>3, <2>6
    <3>2. NoPress(i)'
      BY <1>5, <3>1 DEF NoPress
    <3>3. i \notin down' \/ AboutToGo(i)'
      BY <1>1, <2>6 DEF AboutToGo
    <3> QED
      BY <3>1, <3>2, <3>3 DEF OnItsWayUp
  <2> QED
    BY <1>3, <2>1, <2>2, <2>3, <2>4, <2>5, <2>6 DEF OnItsWayUp
<1> QED
  BY <1>6, <1>7 DEF LetGoInvariant

\* A release noted is sent whatever was believed, and nothing else presses.
LEMMA NoteLetsGo ==
  ASSUME LetGoInvariant, Note  PROVE  LetGoInvariant'
<1> DEFINE k == handler.msg.input
           press == handler.msg.type = "down"
           sent == IF Forward(k, press) THEN {<<k, press>>} ELSE {}
<1>1. handler.at = "note" /\ k \in Inputs /\ handler.msg.type \in {"down", "up"}
  BY DEF Note, LetGoInvariant, Shape, HandlerShape, Note1
<1>2. /\ tracked' = (IF press THEN tracked \cup {k} ELSE tracked \ {k})
      /\ handler' = [at |-> "send", events |-> sent]
      /\ UNCHANGED <<held, channel, dog, down, allowed, releaseDue>>
  BY DEF Note, Browser, Policy
<1>3. ASSUME NEW i \in Inputs
      PROVE  /\ LetsGo(handler.msg, i) => <<i, FALSE>> \in sent /\ <<i, TRUE>> \notin sent
             /\ ~Presses(handler.msg, i) => <<i, TRUE>> \notin sent
  <2>1. CASE LetsGo(handler.msg, i)
    <3>1. k = i /\ press = FALSE
      BY <2>1 DEF LetsGo
    <3>2. sent = {<<i, FALSE>>}
      BY <3>1 DEF Forward
    <3> QED
      BY <3>2, <2>1 DEF LetsGo, Presses
  <2>2. CASE ~Presses(handler.msg, i) /\ ~LetsGo(handler.msg, i)
    <3>1. k # i
      BY <1>1, <2>2 DEF Presses, LetsGo
    <3> QED
      BY <2>2, <3>1
  <2>3. CASE Presses(handler.msg, i) /\ ~LetsGo(handler.msg, i)
    BY <2>3
  <2> QED
    BY <2>1, <2>2, <2>3
<1>4. sent \subseteq Inputs \X BOOLEAN
  <2>1. k \in Inputs /\ press \in BOOLEAN
    BY <1>1
  <2> HIDE DEF k, press
  <2>2. <<k, press>> \in Inputs \X BOOLEAN
    BY <2>1
  <2> QED
    BY <2>2
<1> HIDE DEF sent, press, k
<1>5. Shape'
  <2>1. HandlerShape'
    BY <1>2, <1>4 DEF HandlerShape
  <2>2. tracked' \subseteq Inputs
    BY <1>1, <1>2 DEF LetGoInvariant, Shape
  <2> QED
    BY <1>2, <2>1, <2>2 DEF LetGoInvariant, Shape, DogShape
<1>6. ASSUME NEW i \in Inputs \ held'  PROVE  OnItsWayUp(i)'
  <2>1. OnItsWayUp(i)
    BY <1>2 DEF LetGoInvariant
  <2>2. CASE UpInHand(i)
    <3>1. UpInHand(i)'
      BY <1>1, <1>2, <1>3, <2>2 DEF UpInHand
    <3> QED
      BY <1>2, <2>1, <3>1 DEF OnItsWayUp
  <2>3. CASE NoPress(i) /\ (i \notin down \/ AboutToGo(i))
    <3>1. NoPress(i)'
      BY <1>1, <1>2, <1>3, <2>3 DEF NoPress
    <3> QED
      BY <1>2, <2>1, <2>3, <3>1 DEF OnItsWayUp, AboutToGo
  <2> QED
    BY <1>2, <2>1, <2>2, <2>3 DEF OnItsWayUp
<1> QED
  BY <1>5, <1>6 DEF LetGoInvariant

\* A heartbeat presses nothing but what it claims.
LEMMA SyncLetsGo ==
  ASSUME LetGoInvariant, Sync  PROVE  LetGoInvariant'
<1> DEFINE claimed == Filtered(handler.msg.inputs)
           mine == tracked \ Pads
           sent == Event(mine \ claimed, FALSE) \cup Event(claimed \ mine, TRUE)
<1>1. /\ handler.at = "sync" /\ handler.msg.inputs \subseteq Keys \cup Buttons
      /\ handler.msg.type = "state" /\ tracked \subseteq Inputs
  BY DEF Sync, LetGoInvariant, Shape, HandlerShape, State1
<1>2. claimed \subseteq handler.msg.inputs /\ claimed \subseteq Inputs /\ mine \subseteq Inputs
  BY <1>1 DEF Filtered, Inputs
<1>3. /\ tracked' = claimed \cup (tracked \cap Pads)
      /\ handler' = [at |-> "send", events |-> sent]
      /\ UNCHANGED <<held, channel, dog, down, allowed, releaseDue>>
  BY DEF Sync, Browser, Policy
<1> HIDE DEF claimed, mine
<1>4. ASSUME NEW i, <<i, TRUE>> \in sent  PROVE  i \in handler.msg.inputs
  <2>1. <<i, TRUE>> \notin Event(mine \ claimed, FALSE)
    BY EventHas
  <2>2. i \in claimed \ mine
    BY <1>4, <2>1, EventHas
  <2> QED
    BY <1>2, <2>2
<1>5. sent \subseteq Inputs \X BOOLEAN
  <2>1. /\ Event(mine \ claimed, FALSE) \subseteq Inputs \X BOOLEAN
        /\ Event(claimed \ mine, TRUE) \subseteq Inputs \X BOOLEAN
    BY <1>2, EventTyped
  <2> QED
    BY <2>1
<1> HIDE DEF sent
<1>6. Shape'
  <2>1. HandlerShape'
    BY <1>3, <1>5 DEF HandlerShape
  <2>2. tracked' \subseteq Inputs
    BY <1>1, <1>2, <1>3
  <2> QED
    BY <1>3, <2>1, <2>2 DEF LetGoInvariant, Shape, DogShape
<1>7. ASSUME NEW i \in Inputs \ held'  PROVE  OnItsWayUp(i)'
  <2>1. OnItsWayUp(i)
    BY <1>3 DEF LetGoInvariant
  <2>2. CASE EndsUp(channel, i)
    BY <1>3, <2>2 DEF OnItsWayUp
  <2>3. CASE Silent(channel, i) /\ NoPress(i) /\ (i \notin down \/ AboutToGo(i))
    <3>1. NoPress(i)'
      BY <1>1, <1>3, <1>4, <2>3 DEF NoPress, Presses
    <3> QED
      BY <1>3, <2>3, <3>1 DEF OnItsWayUp, AboutToGo
  <2> QED
    BY <1>1, <2>1, <2>2, <2>3 DEF OnItsWayUp, UpInHand
<1> QED
  BY <1>6, <1>7 DEF LetGoInvariant

\* Two events are the same when they are of one input, one way.
LEMMA SamePair ==
  ASSUME NEW i, NEW j, NEW p, NEW q, <<i, p>> = <<j, q>>  PROVE  i = j /\ p = q
BY Zenon

\* What an event of a release is.
LEMMA ReleaseIs ==
  ASSUME NEW e \in Inputs \X {FALSE}  PROVE  \E i \in Inputs : e = <<i, FALSE>>
<1> DEFINE way == {FALSE}
<1>1. e \in Inputs \X way
  OBVIOUS
<1> HIDE DEF way
<1>2. PICK i \in Inputs, press \in way : e = <<i, press>>
  BY <1>1
<1>3. press = FALSE
  BY Zenon DEF way
<1> QED
  BY <1>2, <1>3, Zenon

\* An event sent by the handler is one it has no more in hand.
LEMMA HandlerSendsLetsGo ==
  ASSUME LetGoInvariant, HandlerSends  PROVE  LetGoInvariant'
<1>1. /\ handler.at = "send" /\ down \subseteq Inputs
      /\ handler \in [at : {"idle", "send"}, events : SUBSET (Inputs \X BOOLEAN)]
  BY DEF HandlerSends, LetGoInvariant, Shape, HandlerShape
<1>2. UNCHANGED <<held, channel, dog, tracked, allowed, releaseDue>>
  BY DEF HandlerSends, Browser, State, Policy
<1>3. ASSUME NEW e \in handler.events, Apply(e),
             handler' = [handler EXCEPT !.events = handler.events \ {e}]
      PROVE  LetGoInvariant'
  <2>1. handler'.at = "send" /\ handler'.events = handler.events \ {e} /\ HandlerShape'
    BY <1>1, <1>3 DEF HandlerShape
  <2>2. PICK k \in Inputs, press \in BOOLEAN : e = <<k, press>>
    BY <1>1
  <2>3. down' = IF press THEN down \cup {k} ELSE down \ {k}
    BY <1>3, <2>2 DEF Apply
  <2>4. Shape'
    BY <1>1, <1>2, <2>1, <2>3 DEF LetGoInvariant, Shape, DogShape
  <2>5. ASSUME NEW i \in Inputs \ held'  PROVE  OnItsWayUp(i)'
    <3>1. OnItsWayUp(i)
      BY <1>2 DEF LetGoInvariant
    <3>2. CASE EndsUp(channel, i)
      BY <1>2, <3>2 DEF OnItsWayUp
    <3>3. CASE Silent(channel, i) /\ UpInHand(i)
      <4>1. <<i, FALSE>> \in handler.events /\ <<i, TRUE>> \notin handler.events
        BY <1>1, <3>3 DEF UpInHand
      <4>2. CASE e = <<i, FALSE>>
        <5>1. k = i /\ press = FALSE
          BY <2>2, <4>2, SamePair
        <5>2. i \notin down' /\ NoPress(i)'
          BY <2>1, <2>3, <4>1, <5>1 DEF NoPress
        <5> QED
          BY <1>2, <3>3, <5>2 DEF OnItsWayUp
      <4>3. CASE e # <<i, FALSE>>
        <5>1. UpInHand(i)'
          BY <2>1, <4>1, <4>3 DEF UpInHand
        <5> QED
          BY <1>2, <3>3, <5>1 DEF OnItsWayUp
      <4> QED
        BY <4>2, <4>3
    <3>4. CASE Silent(channel, i) /\ NoPress(i) /\ (i \notin down \/ AboutToGo(i))
      <4>1. NoPress(i)' /\ ~(k = i /\ press = TRUE)
        BY <1>3, <2>1, <2>2, <3>4 DEF NoPress
      <4>2. i \notin down => i \notin down'
        BY <2>2, <2>3, <4>1
      <4> QED
        BY <1>2, <3>4, <4>1, <4>2 DEF OnItsWayUp, AboutToGo
    <3> QED
      BY <3>1, <3>2, <3>3, <3>4 DEF OnItsWayUp
  <2> QED
    BY <2>4, <2>5 DEF LetGoInvariant
<1>4. ASSUME handler.events = {}, handler' = Idle, UNCHANGED down
      PROVE  LetGoInvariant'
  <2>1. handler'.at = "idle" /\ handler'.events = {} /\ HandlerShape'
    BY <1>4 DEF Idle, HandlerShape
  <2>2. Shape'
    BY <1>2, <1>4, <2>1 DEF LetGoInvariant, Shape, DogShape
  <2>3. ASSUME NEW i \in Inputs \ held'  PROVE  OnItsWayUp(i)'
    <3>1. OnItsWayUp(i) /\ ~UpInHand(i) /\ NoPress(i)'
      BY <1>1, <1>2, <1>4, <2>1 DEF LetGoInvariant, UpInHand, NoPress
    <3> QED
      BY <1>2, <1>4, <3>1 DEF OnItsWayUp, AboutToGo
  <2> QED
    BY <2>2, <2>3 DEF LetGoInvariant
<1> QED
  BY <1>3, <1>4 DEF HandlerSends

\* A step of the watchdog's thread, or one that changes the rights, presses nothing
\* and goes on with what it was about to release.
LEMMA DogLetsGo ==
  ASSUME LetGoInvariant, UNCHANGED <<held, channel, handler>>, DogShape',
         tracked' \subseteq Inputs, down' \subseteq down, MayRevoke \/ allowed' = TRUE,
         \A i \in Inputs : i \in down' /\ AboutToGo(i) => AboutToGo(i)'
  PROVE  LetGoInvariant'
<1>1. Shape'
  <2>1. HandlerShape'
    BY DEF LetGoInvariant, Shape, HandlerShape
  <2> QED
    BY <2>1 DEF LetGoInvariant, Shape
<1>2. ASSUME NEW i \in Inputs \ held'  PROVE  OnItsWayUp(i)'
  <2>1. OnItsWayUp(i) /\ (UpInHand(i) => UpInHand(i)') /\ (NoPress(i) => NoPress(i)')
    BY DEF LetGoInvariant, UpInHand, NoPress
  <2> QED
    BY <2>1 DEF OnItsWayUp
<1> QED
  BY <1>1, <1>2 DEF LetGoInvariant

\* Every step of the watchdog's thread is such a step.
LEMMA DogStepLetsGo ==
  ASSUME LetGoInvariant, Known, Tick \/ ReleaseHeldInputs \/ Collect \/ DogSends
  PROVE  LetGoInvariant'
<1>1. DogShape /\ tracked \subseteq Inputs /\ (MayRevoke \/ allowed = TRUE)
  BY DEF LetGoInvariant, Shape
<1>2. CASE Tick \/ ReleaseHeldInputs
  <2>1. /\ dog.at = "idle" /\ dog' \in [at : {"long", "short"}, events : {{}}]
        /\ UNCHANGED <<held, channel, handler, tracked, down, allowed>>
        /\ releaseDue' = releaseDue \/ dog'.at = "long"
    BY <1>2 DEF Tick, ReleaseHeldInputs, Browser, State, Policy
  <2>2. DogShape'
    BY <2>1 DEF DogShape, DogSteps
  <2>3. ASSUME NEW i \in Inputs, AboutToGo(i)  PROVE  AboutToGo(i)'
    BY <2>1, <2>3 DEF AboutToGo
  <2> QED
    BY <1>1, <2>1, <2>2, <2>3, DogLetsGo
<1>3. CASE Collect
  <2> DEFINE gone == Goes(dog.at = "long")
  <2>1. /\ dog.at \in {"short", "long"} /\ tracked' = tracked \ gone
        /\ dog' = [at |-> "send", events |-> Event(gone, FALSE)]
        /\ UNCHANGED <<held, channel, handler, down, allowed, releaseDue>>
    BY <1>3 DEF Collect, Erased, Browser, Policy
  <2>2. gone \subseteq tracked /\ (dog.at = "long" => gone = tracked)
    BY DEF Goes
  <2> HIDE DEF gone
  <2>3. DogShape'
    <3>1. Event(gone, FALSE) \subseteq Inputs \X {FALSE}
      BY <1>1, <2>2, EventTyped
    <3> QED
      BY <2>1, <3>1 DEF DogShape, DogSteps
  <2>4. ASSUME NEW i \in Inputs, i \in down', AboutToGo(i)  PROVE  AboutToGo(i)'
    <3>1. CASE dog.at = "long"
      <4>1. ~OwnThread /\ WatchdogInvariant /\ handler.at = "idle"
        BY <1>1, <2>4, <3>1 DEF Known, AboutToGo, WatchdogInvariant
      <4>2. down = tracked
        BY <3>1, <4>1, NothingDue DEF WatchdogInvariant, Underway, Due
      <4>3. <<i, FALSE>> \in Event(gone, FALSE)
        BY <2>1, <2>2, <2>4, <3>1, <4>2, EventHas
      <4> QED
        BY <2>1, <2>4, <4>3 DEF AboutToGo
    <3>2. CASE dog.at # "long"
      BY <2>1, <2>4, <3>2 DEF AboutToGo
    <3> QED
      BY <3>1, <3>2
  <2> QED
    BY <1>1, <2>1, <2>3, <2>4, DogLetsGo
<1>4. CASE DogSends
  <2>1. /\ dog.at = "send" /\ UNCHANGED <<held, channel, handler, tracked, allowed, releaseDue>>
    BY <1>4 DEF DogSends, Browser, State, Policy
  <2>2. ASSUME NEW e \in dog.events, Apply(e), dog' = [dog EXCEPT !.events = dog.events \ {e}]
        PROVE  LetGoInvariant'
    <3>1. DogShape' /\ dog'.at = "send" /\ dog'.events = dog.events \ {e}
      BY <1>1, <2>1, <2>2 DEF DogShape
    <3>2. PICK k \in Inputs : e = <<k, FALSE>>
      <4>1. e \in Inputs \X {FALSE}
        BY <1>1 DEF DogShape
      <4> QED
        BY <4>1, ReleaseIs
    <3>3. down' = down \ {k}
      BY <2>2, <3>2 DEF Apply
    <3>4. ASSUME NEW i \in Inputs, i \in down', AboutToGo(i)  PROVE  AboutToGo(i)'
      BY <2>1, <3>1, <3>2, <3>3, <3>4 DEF AboutToGo
    <3> QED
      BY <1>1, <2>1, <3>1, <3>3, <3>4, DogLetsGo
  <2>3. ASSUME dog.events = {}, dog' = Idle, UNCHANGED down  PROVE  LetGoInvariant'
    <3>1. DogShape'
      BY <2>3 DEF Idle, DogShape, DogSteps
    <3>2. ASSUME NEW i \in Inputs, AboutToGo(i)  PROVE  AboutToGo(i)'
      BY <2>1, <2>3, <3>2 DEF AboutToGo
    <3> QED
      BY <1>1, <2>1, <2>3, <3>1, <3>2, DogLetsGo
  <2> QED
    BY <1>4, <2>2, <2>3 DEF DogSends
<1> QED
  BY <1>2, <1>3, <1>4

\* Rights change only while no release is due or under way.
LEMMA PolicyLetsGo ==
  ASSUME LetGoInvariant, SetInputPolicy  PROVE  LetGoInvariant'
<1>1. /\ UNCHANGED <<held, channel, handler, dog, tracked, down>> /\ MayRevoke
      /\ \A i \in Inputs : ~AboutToGo(i)
  BY DEF SetInputPolicy, Browser, State, AboutToGo
<1>2. DogShape' /\ tracked' \subseteq Inputs
  BY <1>1 DEF LetGoInvariant, Shape, DogShape
<1> QED
  BY <1>1, <1>2, DogLetsGo

\* Nothing is pressed at first.
LEMMA LetGoInit == Init => LetGoInvariant
<1> SUFFICES ASSUME Init  PROVE  LetGoInvariant
  OBVIOUS
<1>1. HandlerShape /\ DogShape
  BY DEF Init, HandlerShape, Idle, DogShape, DogSteps
<1>2. Shape
  BY <1>1 DEF Init, Shape
<1>3. ASSUME NEW i \in Inputs  PROVE  OnItsWayUp(i)
  BY DEF Init, Idle, OnItsWayUp, Silent, NoPress
<1> QED
  BY <1>2, <1>3 DEF LetGoInvariant

\* Every step leaves what was let go of on its way up.
LEMMA LetGoStep ==
  ASSUME LetGoInvariant, Known, [Next]_vars  PROVE  LetGoInvariant'
<1>1. CASE User \/ Beat
  BY <1>1, BrowserLetsGo
<1>2. CASE Handler
  BY <1>2, ReceiveLetsGo, NoteLetsGo, SyncLetsGo, HandlerSendsLetsGo DEF Handler
<1>3. CASE TimePasses \/ ArmRuns \/ LinkDies
  <2>1. UNCHANGED <<held, channel, handler, dog, down, tracked, allowed, releaseDue>>
    BY <1>3 DEF TimePasses, ArmRuns, LinkDies, Browser, State, Policy
  <2> QED
    BY <2>1, OutsideLetsGo
<1>4. CASE Tick \/ ReleaseHeldInputs \/ Collect \/ DogSends
  BY <1>4, DogStepLetsGo
<1>5. CASE SetInputPolicy
  BY <1>5, PolicyLetsGo
<1>6. CASE UNCHANGED vars
  <2>1. UNCHANGED <<held, channel, handler, dog, down, tracked, allowed, releaseDue>>
    BY <1>6 DEF vars
  <2> QED
    BY <2>1, OutsideLetsGo
<1> QED
  BY <1>1, <1>2, <1>3, <1>4, <1>5, <1>6 DEF Next, Dog

\* Whatever the watchdog's thread was releasing meanwhile, a user who has let go of
\* everything has let go on the host: on one thread, and on two as long as the
\* owner does not change the user's rights.
THEOREM WatchdogLetsGo ==
  ASSUME ~OwnThread \/ ~MayRevoke  PROVE  Spec => []LetGoMeansUp
<1>1. LetGoInvariant => LetGoMeansUp
  <2> SUFFICES ASSUME LetGoInvariant, Quiet, channel = <<>>, held = {}, allowed
               PROVE  down = {}
    BY DEF LetGoMeansUp
  <2>1. ASSUME NEW i \in down  PROVE  FALSE
    <3>1. OnItsWayUp(i)
      BY DEF LetGoInvariant, Shape
    <3> QED
      BY <3>1 DEF OnItsWayUp, EndsUp, UpInHand, AboutToGo, Quiet
  <2> QED
    BY <2>1
<1>2. CASE ~MayRevoke
  <2>1. LetGoInvariant /\ [Next]_vars => LetGoInvariant'
    BY <1>2, LetGoStep DEF Known
  <2> QED
    BY <1>1, <2>1, LetGoInit, PTL DEF Spec
<1>3. CASE ~OwnThread
  <2>1. WatchdogInvariant /\ LetGoInvariant /\ [Next]_vars => LetGoInvariant'
    BY <1>3, LetGoStep DEF Known
  <2>2. Spec => []WatchdogInvariant
    BY <1>3, WatchdogCorrect
  <2> QED
    BY <1>1, <2>1, <2>2, LetGoInit, PTL DEF Spec
<1> QED
  BY <1>2, <1>3
-----------------------------------------------------------------------------
(* Types, on one thread or on two. *)

Flags == {owed, shortFired, longFired, seen, buttonsHold, timer, armDue, allowed,
          releaseDue, dead}
HoldsButtons == buttonsHold => tracked \cap Buttons # {}

Typed ==
  /\ Flags \subseteq BOOLEAN /\ HoldsButtons
  /\ held \subseteq Inputs /\ tracked \subseteq Inputs /\ down \subseteq Inputs
  /\ channel \in Seq(Messages) /\ Len(channel) <= MaxQueue /\ silence \in 0..2
  /\ HandlerShape /\ DogShape

\* An event sent presses or releases an input.
LEMMA ApplyTyped ==
  ASSUME down \subseteq Inputs, NEW e \in Inputs \X BOOLEAN, Apply(e)
  PROVE  down' \subseteq Inputs
BY DEF Apply

\* What a step does not touch, it leaves typed.
LEMMA RestTyped ==
  ASSUME Typed, UNCHANGED <<held, channel, silence, tracked, buttonsHold, down, handler, dog>>,
         Flags' \subseteq BOOLEAN
  PROVE  Typed'
BY DEF Typed, HoldsButtons, HandlerShape, DogShape

\* The user's messages fit in the channel.
LEMMA BrowserTyped ==
  ASSUME Typed, User \/ Beat  PROVE  Typed'
<1>1. ASSUME NEW m \in Messages, Post(m), held' \subseteq Inputs, owed' \in BOOLEAN,
             UNCHANGED <<Clock, State, timer, armDue, handler, dog, down, Policy, dead>>
      PROVE  Typed'
  <2>1. channel' \in Seq(Messages) /\ Len(channel') <= MaxQueue
    BY <1>1 DEF Post, Typed
  <2> QED
    BY <1>1, <2>1 DEF Typed, Flags, HoldsButtons, HandlerShape, DogShape, Clock, State, Policy
<1>2. CASE Beat
  <2>1. [type |-> "state", inputs |-> held \ Pads] \in Messages
    BY DEF Messages, Typed, Inputs
  <2> QED
    BY <1>1, <1>2, <2>1 DEF Beat, Typed, Flags
<1>3. ASSUME NEW i \in Inputs, Press(i) \/ Repeat(i) \/ LetGo(i)  PROVE  Typed'
  <2>1. \A t \in {"down", "up"} : [type |-> t, input |-> i] \in Messages
    BY DEF Messages
  <2> QED
    BY <1>1, <1>3, <2>1 DEF Press, Repeat, LetGo, Browser, Typed, Flags
<1> QED
  BY <1>2, <1>3 DEF User

\* A message taken in is a note or a claim.
LEMMA ReceiveTyped ==
  ASSUME Typed, Receive  PROVE  Typed'
<1> DEFINE m == Head(channel)
<1>1. m \in Messages /\ channel' \in Seq(Messages) /\ Len(channel') <= MaxQueue
  BY DEF Receive, Typed
<1>2. m \in Note1 \cup State1 /\ (m.type = "state" <=> m \in State1)
  BY <1>1 DEF Messages, Note1, State1
<1> HIDE DEF m
<1>3. handler' = IF ~Allowed(m) THEN Idle
                 ELSE [at |-> IF m.type = "state" THEN "sync" ELSE "note",
                       events |-> {}, msg |-> m]
  BY DEF Receive, m
<1>4. HandlerShape'
  BY <1>2, <1>3 DEF HandlerShape, Idle
<1>5. /\ silence' = 0 /\ shortFired' = FALSE /\ longFired' = FALSE
      /\ UNCHANGED <<held, owed, seen, tracked, buttonsHold, timer, armDue, dog, down,
                     allowed, releaseDue, dead>>
  BY DEF Receive, NoteClientAlive, Browser, State, Policy
<1>6. Flags' \subseteq BOOLEAN
  BY <1>5 DEF Typed, Flags
<1>7. HoldsButtons' /\ DogShape'
  BY <1>5 DEF Typed, HoldsButtons, DogShape
<1> QED
  BY <1>1, <1>4, <1>5, <1>6, <1>7 DEF Typed

\* What a press, a release or a claim leaves believed held, it leaves typed.
LEMMA NoteTyped ==
  ASSUME Typed, Note \/ Sync  PROVE  Typed'
<1>1. /\ timer' \in BOOLEAN /\ armDue' \in BOOLEAN /\ seen' \in BOOLEAN
      /\ UNCHANGED <<Browser, channel, Clock, dog, down, Policy, dead>>
  BY DEF Note, Sync, Arm, Typed, Flags
<1>2. ASSUME NEW sent \in SUBSET (Inputs \X BOOLEAN), handler' = [at |-> "send", events |-> sent],
             tracked' \subseteq Inputs, buttonsHold' \in BOOLEAN, HoldsButtons'
      PROVE  Typed'
  <2>1. HandlerShape'
    BY <1>2 DEF HandlerShape
  <2> QED
    BY <1>1, <1>2, <2>1 DEF Typed, Flags, DogShape, Browser, Clock, Policy
<1>3. CASE Note
  <2> DEFINE i == handler.msg.input
             press == handler.msg.type = "down"
             sent == IF Forward(i, press) THEN {<<i, press>>} ELSE {}
  <2>1. i \in Inputs /\ press \in BOOLEAN
    BY <1>3 DEF Note, Typed, HandlerShape, Note1
  <2>2. /\ tracked' = (IF press THEN tracked \cup {i} ELSE tracked \ {i})
        /\ buttonsHold' = NextHold(tracked', press /\ i \in Buttons /\ Gaming)
        /\ handler' = [at |-> "send", events |-> sent]
    BY <1>3 DEF Note
  <2> HIDE DEF i, press
  <2>3. tracked' \subseteq Inputs /\ sent \in SUBSET (Inputs \X BOOLEAN)
    BY <2>1, <2>2 DEF Typed
  <2>4. buttonsHold' \in BOOLEAN /\ HoldsButtons'
    BY <2>2 DEF NextHold, HoldsButtons
  <2> HIDE DEF sent
  <2> QED
    BY <1>2, <2>2, <2>3, <2>4
<1>4. CASE Sync
  <2> DEFINE claimed == Filtered(handler.msg.inputs)
             mine == tracked \ Pads
             sent == Event(mine \ claimed, FALSE) \cup Event(claimed \ mine, TRUE)
  <2>1. claimed \subseteq Keys \cup Buttons
    BY <1>4 DEF Sync, Typed, HandlerShape, State1, Filtered
  <2>2. /\ tracked' = claimed \cup (tracked \cap Pads)
        /\ handler' = [at |-> "send", events |-> sent]
        /\ buttonsHold' = (claimed \cap Buttons # {} /\ Gaming)
    BY <1>4 DEF Sync
  <2> HIDE DEF claimed
  <2>3. tracked' \subseteq Inputs /\ sent \in SUBSET (Inputs \X BOOLEAN)
    <3>1. mine \ claimed \in SUBSET Inputs /\ claimed \ mine \in SUBSET Inputs
      BY <2>1 DEF Typed, Inputs
    <3>2. /\ Event(mine \ claimed, FALSE) \subseteq Inputs \X BOOLEAN
          /\ Event(claimed \ mine, TRUE) \subseteq Inputs \X BOOLEAN
      BY <3>1, EventTyped
    <3> QED
      BY <2>1, <2>2, <3>2 DEF Typed, Inputs
  <2>4. buttonsHold' \in BOOLEAN /\ HoldsButtons'
    BY <2>2 DEF HoldsButtons
  <2> HIDE DEF sent
  <2> QED
    BY <1>2, <2>2, <2>3, <2>4
<1> QED
  BY <1>3, <1>4

\* What either thread sends concerns inputs.
LEMMA SendTyped ==
  ASSUME Typed, HandlerSends \/ DogSends  PROVE  Typed'
<1>1. UNCHANGED <<Browser, channel, Clock, State, armDue, Policy, dead>> /\ timer' \in BOOLEAN
  BY DEF HandlerSends, DogSends, Typed, Flags
<1>2. ASSUME HandlerShape', DogShape', down' \subseteq Inputs  PROVE  Typed'
  BY <1>1, <1>2 DEF Typed, Flags, HoldsButtons, Browser, Clock, State, Policy
<1>3. CASE HandlerSends
  <2>1. dog' = dog /\ handler.at = "send"
    BY <1>3 DEF HandlerSends
  <2>2. handler \in [at : {"idle", "send"}, events : SUBSET (Inputs \X BOOLEAN)]
    BY <2>1 DEF Typed, HandlerShape
  <2>3. HandlerShape' /\ DogShape'
    <3>1. ASSUME NEW e, handler' = [handler EXCEPT !.events = handler.events \ {e}]
          PROVE  HandlerShape'
      BY <2>2, <3>1 DEF HandlerShape
    <3>2. ASSUME handler' = Idle  PROVE  HandlerShape'
      BY <3>2 DEF HandlerShape, Idle
    <3>3. HandlerShape'
      BY <1>3, <3>1, <3>2 DEF HandlerSends
    <3> QED
      BY <2>1, <3>3 DEF DogShape, Typed
  <2>4. down' \subseteq Inputs
    BY <1>3, <2>2, ApplyTyped DEF HandlerSends, Typed
  <2> QED
    BY <1>2, <2>3, <2>4
<1>4. CASE DogSends
  <2>1. handler' = handler /\ dog \in [at : DogSteps, events : SUBSET (Inputs \X {FALSE})]
    BY <1>4 DEF DogSends, Typed, DogShape
  <2>2. HandlerShape' /\ DogShape'
    <3>1. ASSUME NEW e, dog' = [dog EXCEPT !.events = dog.events \ {e}]
          PROVE  DogShape'
      BY <2>1, <3>1 DEF DogShape
    <3>2. ASSUME dog' = Idle  PROVE  DogShape'
      BY <3>2 DEF DogShape, DogSteps, Idle
    <3>3. DogShape'
      BY <1>4, <3>1, <3>2 DEF DogSends
    <3> QED
      BY <2>1, <3>3 DEF HandlerShape, Typed
  <2>3. down' \subseteq Inputs
    BY <1>4, <2>1, ApplyTyped DEF DogSends, Typed
  <2> QED
    BY <1>2, <2>2, <2>3
<1> QED
  BY <1>3, <1>4

\* A release that starts, and what it takes.
LEMMA DogTyped ==
  ASSUME Typed, Tick \/ ReleaseHeldInputs \/ Collect  PROVE  Typed'
<1>1. CASE Tick \/ ReleaseHeldInputs
  <2>1. /\ dog' \in [at : {"long", "short"}, events : {{}}]
        /\ UNCHANGED <<held, owed, channel, silence, seen, tracked, buttonsHold, timer, armDue,
                       handler, down, allowed, dead>>
        /\ shortFired' \in {shortFired, TRUE} /\ longFired' \in {longFired, TRUE}
        /\ releaseDue' \in {releaseDue, FALSE}
    <3>1. CASE Tick
      <4>1. UNCHANGED <<held, owed, channel, silence, seen, tracked, buttonsHold, timer, armDue,
                        handler, down, allowed, releaseDue, dead>>
        BY <3>1 DEF Tick, Browser, State, Policy
      <4>2. dog' \in [at : {"long", "short"}, events : {{}}]
        BY <3>1 DEF Tick
      <4>3. shortFired' = TRUE /\ (longFired' = TRUE \/ longFired' = longFired)
        BY <3>1, Zenon DEF Tick
      <4> QED
        BY <4>1, <4>2, <4>3
    <3>2. CASE ReleaseHeldInputs
      BY <3>2 DEF ReleaseHeldInputs, Browser, Clock, State
    <3> QED
      BY <1>1, <3>1, <3>2
  <2>2. DogShape'
    BY <2>1 DEF DogShape, DogSteps
  <2>3. Flags' \subseteq BOOLEAN
    BY <2>1 DEF Typed, Flags
  <2> QED
    BY <2>1, <2>2, <2>3 DEF Typed, HoldsButtons, HandlerShape
<1>2. CASE Collect
  <2> DEFINE gone == Goes(dog.at = "long")
  <2>1. /\ tracked' = tracked \ gone /\ buttonsHold' = (buttonsHold /\ gone \cap Buttons = {})
        /\ dog' = [at |-> "send", events |-> Event(gone, FALSE)]
        /\ UNCHANGED <<Browser, channel, Clock, seen, timer, armDue, handler, down, Policy, dead>>
    BY <1>2 DEF Collect, Erased
  <2>2. gone \subseteq tracked
    BY DEF Goes
  <2> HIDE DEF gone
  <2>3. DogShape'
    <3>1. Event(gone, FALSE) \subseteq Inputs \X {FALSE}
      BY <2>2, EventTyped DEF Typed
    <3> QED
      BY <2>1, <3>1 DEF DogShape, DogSteps
  <2>4. buttonsHold' \in BOOLEAN /\ HoldsButtons'
    BY <2>1, <2>2 DEF HoldsButtons, Typed, Flags
  <2> QED
    BY <2>1, <2>3, <2>4 DEF Typed, Flags, HandlerShape, Browser, Clock, Policy
<1> QED
  BY <1>1, <1>2

\* Type correctness, on one thread or on two: in particular buttons are kept through
\* a stall only while one is believed held, and the watchdog's thread only releases.
THEOREM WatchdogTyped == Spec => []TypeOK
<1>1. Init => Typed
  <2> SUFFICES ASSUME Init  PROVE  Typed
    OBVIOUS
  <2>1. HandlerShape /\ DogShape
    BY DEF Init, HandlerShape, Idle, DogShape, DogSteps
  <2>2. Flags \subseteq BOOLEAN /\ HoldsButtons
    BY DEF Init, Flags, HoldsButtons
  <2> QED
    BY <2>1, <2>2 DEF Init, Typed
<1>2. Typed /\ [Next]_vars => Typed'
  <2> SUFFICES ASSUME Typed, [Next]_vars  PROVE  Typed'
    OBVIOUS
  <2>1. CASE Handler
    BY <2>1, ReceiveTyped, NoteTyped, SendTyped DEF Handler
  <2>2. CASE Dog
    <3>1. CASE ArmRuns
      BY <3>1, RestTyped DEF ArmRuns, Browser, Clock, State, Policy, Typed, Flags
    <3> QED
      BY <2>2, <3>1, DogTyped, SendTyped DEF Dog
  <2>3. CASE TimePasses
    <3>1. silence' \in 0..2
      BY <2>3 DEF TimePasses, Typed
    <3> QED
      BY <2>3, <3>1 DEF TimePasses, Browser, State, Policy, Typed, Flags, HoldsButtons,
                        HandlerShape, DogShape
  <2>4. CASE SetInputPolicy \/ LinkDies
    BY <2>4, RestTyped DEF SetInputPolicy, LinkDies, Browser, Clock, State, Policy, Typed, Flags
  <2>5. CASE UNCHANGED vars
    BY <2>5, RestTyped DEF vars, Typed, Flags
  <2> QED
    BY <2>1, <2>2, <2>3, <2>4, <2>5, BrowserTyped DEF Next
<1>3. Typed => TypeOK
  <2> SUFFICES ASSUME Typed  PROVE  TypeOK
    OBVIOUS
  <2>1. /\ handler.at \in HandlerSteps /\ handler.events \subseteq Inputs \X BOOLEAN
        /\ dog.at \in DogSteps /\ dog.events \subseteq Inputs \X {FALSE}
    BY DEF Typed, HandlerShape, DogShape, HandlerSteps
  <2> QED
    BY <2>1 DEF Typed, Flags, HoldsButtons, TypeOK
<1> QED
  BY <1>1, <1>2, <1>3, PTL DEF Spec
=============================================================================
