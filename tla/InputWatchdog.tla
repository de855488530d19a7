---------------------------- MODULE InputWatchdog ----------------------------
(***************************************************************************)
(* The input dead-man switch (streaming/InputWatchdog.cpp) between the     *)
(* relay that feeds it and the engine that puts inputs on the wire.        *)
(*                                                                         *)
(* The browser's input channel is ordered and reliable: a stall delays     *)
(* what it carries, and a pressed key stays down on the host meanwhile.    *)
(* The watchdog remembers what it let through, releases it when the        *)
(* channel falls silent, and takes back from the heartbeat what the user   *)
(* still holds.                                                            *)
(*                                                                         *)
(* Its state is under one mutex; the events go to the engine outside it.   *)
(* MediaTrackRelay and StreamRelay handle input on the watchdog's own      *)
(* thread; DataChannelRelay handles it on the thread that received it.     *)
(* Each lock section is one step and each event sent another.              *)
(***************************************************************************)
EXTENDS Naturals, Sequences, FiniteSets

CONSTANTS
  Keys, HoldKeys,   \* keys, and those marked to survive a short stall
  Buttons, Pads,    \* mouse buttons, and gamepads (held: off their rest position)
  Gaming,           \* the client's gaming mode: a held button is aim or fire
  OwnThread,        \* whether input is handled on a thread of its own
  ForwardsRepeats,  \* whether the engine forwards auto-repeat (native: yes, GameStream: no)
  MayRevoke,        \* whether the owner changes the guest's rights meanwhile
  MaxQueue          \* bound: messages the channel holds back

Inputs == Keys \cup Buttons \cup Pads

ASSUME InputsAssumption ==
  /\ HoldKeys \subseteq Keys
  /\ Keys \cap Buttons = {} /\ Keys \cap Pads = {} /\ Buttons \cap Pads = {}
ASSUME ModesAssumption ==
  {Gaming, OwnThread, ForwardsRepeats, MayRevoke} \subseteq BOOLEAN /\ MaxQueue \in Nat

VARIABLES
  held,         \* the browser: what the user holds
  owed,         \* its closing beat is yet to be sent (_lastBeatHadState)
  channel,      \* messages on their way
  silence,      \* since the last message: 0 fresh, 1 past kStaleMs, 2 past kStaleHoldMs
  shortFired, longFired,   \* m_ShortFired, m_LongFired
  seen,         \* m_HeartbeatSeen
  tracked,      \* m_HeldKeys, m_HeldButtons, m_ActivePads
  buttonsHold,  \* m_HeldButtonsHold
  timer,        \* m_Timer runs
  armDue,       \* an arm() hopped to the watchdog's thread
  handler,      \* the handler of one message
  dog,          \* the watchdog's thread: a tick, or a release asked of it
  down,         \* the host: what is pressed there
  allowed,      \* m_InputPolicy.keyboardMouse
  releaseDue,   \* the release a policy change queued
  dead          \* the link carries nothing any more

vars == <<held, owed, channel, silence, shortFired, longFired, seen, tracked, buttonsHold,
          timer, armDue, handler, dog, down, allowed, releaseDue, dead>>

Messages ==
  [type : {"down", "up"}, input : Inputs] \cup [type : {"state"}, inputs : SUBSET (Keys \cup Buttons)]

(* The events a thread has still to send, and where it stands.             *)
Event(inputs, press) == {<<i, press>> : i \in inputs}
Idle == [at |-> "idle", events |-> {}]
HandlerSteps == {"idle", "note", "sync", "send"}
DogSteps == {"idle", "short", "long", "send"}

(* Also what the code means by its members: buttons are kept through a     *)
(* stall only while one is held, and the watchdog's thread only releases.  *)
TypeOK ==
  /\ held \subseteq Inputs /\ owed \in BOOLEAN
  /\ channel \in Seq(Messages) /\ Len(channel) <= MaxQueue
  /\ silence \in 0..2 /\ shortFired \in BOOLEAN /\ longFired \in BOOLEAN
  /\ seen \in BOOLEAN /\ tracked \subseteq Inputs /\ buttonsHold \in BOOLEAN
  /\ buttonsHold => tracked \cap Buttons # {}
  /\ timer \in BOOLEAN /\ armDue \in BOOLEAN
  /\ handler.at \in HandlerSteps /\ handler.events \subseteq Inputs \X BOOLEAN
  /\ dog.at \in DogSteps /\ dog.events \subseteq Inputs \X {FALSE}
  /\ down \subseteq Inputs /\ allowed \in BOOLEAN /\ releaseDue \in BOOLEAN /\ dead \in BOOLEAN

Init ==
  /\ held = {} /\ owed = FALSE /\ channel = <<>>
  /\ silence = 0 /\ shortFired = FALSE /\ longFired = FALSE /\ seen = FALSE
  /\ tracked = {} /\ buttonsHold = FALSE /\ timer = FALSE /\ armDue = FALSE
  /\ handler = Idle /\ dog = Idle
  /\ down = {} /\ allowed = TRUE /\ releaseDue = FALSE /\ dead = FALSE

Browser == <<held, owed>>
Clock == <<silence, shortFired, longFired>>
State == <<seen, tracked, buttonsHold>>
Policy == <<allowed, releaseDue>>

---------------------------------------------------------------------------
(* The browser.                                                            *)

Post(m) == Len(channel) < MaxQueue /\ channel' = Append(channel, m)

Press(i) ==
  /\ i \notin held /\ Post([type |-> "down", input |-> i])
  /\ held' = held \cup {i}
  /\ UNCHANGED <<owed, Clock, State, timer, armDue, handler, dog, down, Policy, dead>>

(* The keyboard's auto-repeat, or a pad held where it is and moving.       *)
Repeat(i) ==
  /\ i \in held \ Buttons /\ Post([type |-> "down", input |-> i])
  /\ UNCHANGED <<Browser, Clock, State, timer, armDue, handler, dog, down, Policy, dead>>

LetGo(i) ==
  /\ i \in held /\ Post([type |-> "up", input |-> i])
  /\ held' = held \ {i}
  /\ UNCHANGED <<owed, Clock, State, timer, armDue, handler, dog, down, Policy, dead>>

(* The heartbeat: while something is held, and once after.                 *)
Beat ==
  /\ held # {} \/ owed
  /\ Post([type |-> "state", inputs |-> held \ Pads])
  /\ owed' = (held # {})
  /\ UNCHANGED <<held, Clock, State, timer, armDue, handler, dog, down, Policy, dead>>

---------------------------------------------------------------------------
(* The message handler.  Where it shares the watchdog's thread, neither    *)
(* starts before the other has returned.                                   *)

HandlerMayRun == OwnThread \/ dog.at = "idle"
DogMayRun == OwnThread \/ handler.at = "idle"

\* Mutant: from another thread the timer is left as it is.
ArmHere ==
  IF OwnThread THEN UNCHANGED <<timer, armDue>>
  ELSE timer' = (seen' /\ tracked' # {}) /\ UNCHANGED armDue
(* arm(): at once on the watchdog's thread, else hopped to it.             *)
Arm ==
  IF OwnThread THEN armDue' = TRUE /\ UNCHANGED timer
  ELSE timer' = (seen' /\ tracked' # {}) /\ UNCHANGED armDue

NoteClientAlive == silence' = 0 /\ shortFired' = FALSE /\ longFired' = FALSE

(* InputMsg::allowed: the gamepad is a right of its own, never taken here. *)
Allowed(m) == allowed \/ m.type = "state" \/ m.input \in Pads

Receive ==
  /\ HandlerMayRun /\ handler.at = "idle" /\ channel # <<>> /\ ~dead
  /\ channel' = Tail(channel)
  /\ NoteClientAlive
  /\ handler' = IF ~Allowed(Head(channel)) THEN Idle
                ELSE [at |-> IF Head(channel).type = "state" THEN "sync" ELSE "note",
                      events |-> {}, msg |-> Head(channel)]
  /\ UNCHANGED <<Browser, State, timer, armDue, dog, down, Policy, dead>>

\* Mutant: a release of what the watchdog does not hold is not forwarded.
ForwardTracked(i, press) == press # (i \in tracked)
\* Mutant: noteKey() says of a release, too, whether the key was held.
RepeatEitherWay(i, press) == i \notin Keys \/ i \notin tracked
(* A press of a key already held is a repeat, which the host makes itself; *)
(* a release always goes.                                                  *)
Forward(i, press) == ForwardsRepeats \/ i \notin Keys \/ ~press \/ i \notin tracked

(* The buttons are kept through a stall together, while one is held.       *)
NextHold(rest, aim) == Buttons \cap rest # {} /\ (buttonsHold \/ aim)

Note ==
  /\ handler.at = "note"
  /\ LET i == handler.msg.input
         press == handler.msg.type = "down"
     IN  /\ tracked' = IF press THEN tracked \cup {i} ELSE tracked \ {i}
         /\ buttonsHold' = NextHold(tracked', press /\ i \in Buttons /\ Gaming)
         /\ handler' = [at |-> "send",
                        events |-> IF Forward(i, press) THEN {<<i, press>>} ELSE {}]
  /\ UNCHANGED seen /\ Arm
  /\ UNCHANGED <<Browser, channel, Clock, dog, down, Policy, dead>>

\* Mutant: the heartbeat is believed whatever the guest may do.
Unfiltered(inputs) == inputs
(* filterHeldState                                                         *)
Filtered(inputs) == IF allowed THEN inputs ELSE {}

Sync ==
  /\ handler.at = "sync"
  /\ LET claimed == Filtered(handler.msg.inputs)
         mine == tracked \ Pads
     IN  /\ tracked' = claimed \cup (tracked \cap Pads)
         /\ handler' = [at |-> "send",
                        events |-> Event(mine \ claimed, FALSE) \cup Event(claimed \ mine, TRUE)]
         /\ buttonsHold' = (claimed \cap Buttons # {} /\ Gaming)
  /\ seen' = TRUE /\ Arm
  /\ UNCHANGED <<Browser, channel, Clock, dog, down, Policy, dead>>

Apply(e) == down' = IF e[2] THEN down \cup {e[1]} ELSE down \ {e[1]}

HandlerSends ==
  /\ handler.at = "send"
  /\ \/ \E e \in handler.events :
          Apply(e) /\ handler' = [handler EXCEPT !.events = @ \ {e}]
     \/ handler.events = {} /\ handler' = Idle /\ UNCHANGED down
  /\ UNCHANGED <<Browser, channel, Clock, State, timer, armDue, dog, Policy, dead>>

---------------------------------------------------------------------------
(* The watchdog's thread.                                                  *)

(* A message is handled in less than the short period.                     *)
TimePasses ==
  /\ handler.at = "idle"
  /\ silence < 2 /\ silence' = silence + 1
  /\ UNCHANGED <<Browser, channel, shortFired, longFired, State, timer, armDue, handler,
                 dog, down, Policy, dead>>

ArmRuns ==
  /\ armDue /\ dog.at = "idle"
  /\ armDue' = FALSE /\ timer' = (seen /\ tracked # {})
  /\ UNCHANGED <<Browser, channel, Clock, State, handler, dog, down, Policy, dead>>

LongDue == silence = 2 /\ ~longFired
ShortDue == ~LongDue /\ silence >= 1 /\ ~shortFired

(* The tick decides under the lock and releases in a section of its own.   *)
Tick ==
  /\ timer /\ DogMayRun /\ dog.at = "idle"
  /\ \/ LongDue /\ longFired' = TRUE /\ dog' = [at |-> "long", events |-> {}]
     \/ ShortDue /\ UNCHANGED longFired /\ dog' = [at |-> "short", events |-> {}]
  /\ shortFired' = TRUE
  /\ UNCHANGED <<Browser, channel, silence, State, timer, armDue, handler, down, Policy, dead>>

\* Mutant: the long period spares what the short one spares.
GoesShort(all) == {i \in tracked : i \in Keys \ HoldKeys \/ (i \in Buttons /\ ~buttonsHold)}
Goes(all) ==
  {i \in tracked : all \/ i \in Keys \ HoldKeys \/ (i \in Buttons /\ ~buttonsHold)}

\* Mutant: what is released is still believed held.
StillTracked(gone) == tracked
Erased(gone) == tracked \ gone

Collect ==
  /\ dog.at \in {"short", "long"}
  /\ LET gone == Goes(dog.at = "long")
     IN  /\ tracked' = Erased(gone)
         /\ buttonsHold' = (buttonsHold /\ gone \cap Buttons = {})
         /\ dog' = [at |-> "send", events |-> Event(gone, FALSE)]
  /\ UNCHANGED <<Browser, channel, Clock, seen, timer, armDue, handler, down, Policy, dead>>

(* The sinks, then arm() on the thread itself.                             *)
DogSends ==
  /\ dog.at = "send"
  /\ \/ /\ \E e \in dog.events : Apply(e) /\ dog' = [dog EXCEPT !.events = @ \ {e}]
        /\ UNCHANGED timer
     \/ /\ dog.events = {} /\ dog' = Idle
        /\ timer' = (seen /\ tracked # {}) /\ UNCHANGED down
  /\ UNCHANGED <<Browser, channel, Clock, State, armDue, handler, Policy, dead>>

---------------------------------------------------------------------------
(* The owner gives or takes the keyboard and the mouse.  The setter takes  *)
(* the lock a message is handled under; the release is queued behind it.   *)

SetInputPolicy ==
  /\ MayRevoke /\ dog.at = "idle" /\ handler.at = "idle" /\ ~releaseDue
  /\ allowed' = ~allowed /\ releaseDue' = TRUE
  /\ UNCHANGED <<Browser, channel, Clock, State, timer, armDue, handler, dog, down, dead>>

ReleaseHeldInputs ==
  /\ releaseDue /\ DogMayRun /\ dog.at = "idle"
  /\ releaseDue' = FALSE
  /\ dog' = [at |-> "long", events |-> {}]
  /\ UNCHANGED <<Browser, channel, Clock, State, timer, armDue, handler, down, allowed, dead>>

LinkDies ==
  /\ ~dead /\ dead' = TRUE
  /\ UNCHANGED <<Browser, channel, Clock, State, timer, armDue, handler, dog, down, Policy>>

User == \E i \in Inputs : Press(i) \/ Repeat(i) \/ LetGo(i)
Handler == Receive \/ Note \/ Sync \/ HandlerSends
Dog == ArmRuns \/ Tick \/ Collect \/ DogSends \/ ReleaseHeldInputs

Next == User \/ Beat \/ Handler \/ TimePasses \/ Dog \/ SetInputPolicy \/ LinkDies

Spec == Init /\ [][Next]_vars

(* The threads run and the browser beats every 100 ms.  A tick is due      *)
(* again and again while the timer runs.                                   *)
Fairness ==
  /\ WF_vars(Handler) /\ WF_vars(TimePasses) /\ WF_vars(ArmRuns) /\ WF_vars(Tick)
  /\ WF_vars(Collect) /\ WF_vars(DogSends) /\ WF_vars(ReleaseHeldInputs) /\ SF_vars(Beat)

FairSpec == Spec /\ Fairness

---------------------------------------------------------------------------
(* What the watchdog owes.                                                 *)

Quiet == handler.at = "idle" /\ dog.at = "idle"

(* The watchdog knows what the host holds: nothing is pressed there that   *)
(* it would not release, and nothing it believes held was let go.          *)
TrackedIsHeld == Quiet => down = tracked

(* A user who has let go of everything has let go on the host, whatever    *)
(* the watchdog's thread was releasing meanwhile: a stuck key would stay.  *)
LetGoMeansUp ==
  Quiet /\ channel = <<>> /\ held = {} /\ allowed => down = {}

(* A guest whose keyboard was taken holds no key and no button, though its *)
(* heartbeat goes on claiming them and its releases are dropped.           *)
RevokedHoldsNothing == Quiet /\ ~allowed /\ ~releaseDue => down \subseteq Pads

(* What the user goes on holding comes back on the host after every        *)
(* release the watchdog made of it, as long as the link carries anything.  *)
HeldComesBack ==
  \A i \in Keys \cup Buttons : <>[](~dead /\ i \in held /\ allowed) => []<>(i \in down)

(* A link that dies is noticed whatever thread armed the timer: all that   *)
(* the watchdog holds is let go.                                           *)
DeadLinkIsNoticed == <>(dead /\ seen) => <>[](tracked = {})

(* And then nothing is pressed on the host.                                *)
NothingOutlivesTheLink == <>(dead /\ seen) => <>[](down = {})
=============================================================================
