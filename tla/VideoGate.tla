------------------------------ MODULE VideoGate ------------------------------
(***************************************************************************)
(* A picture's way from the engine to the browser over the video channel   *)
(* (streaming/DataChannelRelay.cpp, FrameSender.cpp, SendBacklog.h), for a *)
(* stream that repairs a hole in its pictures with a keyframe.             *)
(*                                                                         *)
(* Three threads meet under the relay's video lock: the engine's, which    *)
(* hands over each picture it encodes; the one that hears the browser's    *)
(* requests; and the relay's own, which sends the keyframe that was held   *)
(* back until the channel opened.  Behind them a sender thread empties a   *)
(* short queue, from which a newer picture may push older ones out.        *)
(*                                                                         *)
(* A picture is what the others make of it: a keyframe, or a delta that    *)
(* needs the picture encoded just before it.  `cut` says what is missing   *)
(* before it: nothing, wire ids the browser notices ("gap"), or a picture  *)
(* that was never given an id, which nothing on the wire shows ("silent"). *)
(***************************************************************************)
EXTENDS Naturals, SequencesExt

CONSTANTS
  kMaxQueued,  \* pictures the sender's queue may hold
  Depths,      \* what maxQueuedDeltas may be: how many of them deltas
  Floor,       \* pictures the transport keeps and still counts as drained
  MaxWire,     \* bound: pictures handed to the transport at a time
  MaxLost,     \* bound: pictures the link loses
  MaxKeys      \* bound: keyframes waiting in the sender's queue

ASSUME LimitsAssumption ==
  kMaxQueued \in Nat \ {0} /\ Depths \subseteq Nat /\ {Floor, MaxWire, MaxLost, MaxKeys} \subseteq Nat

VARIABLES
  relay,    \* DataChannelRelay's members under its video lock, and its sender's queue
  depth,    \* m_MaxQueuedDeltas
  channel,  \* the video channel: closed, open with the held keyframe's call queued, open
  wire,     \* pictures handed to the transport, oldest first
  missing,  \* the browser's next picture follows one the link lost
  lost,     \* how many it lost
  sees,     \* the browser's decoder: nothing yet, a picture, or no valid reference
  quiet,    \* its last request is too recent for another
  request,  \* a request is on its way to the relay
  still     \* the host encodes on damage, and its screen does not move

vars == <<relay, depth, channel, wire, missing, lost, sees, quiet, request, still>>
Browser == <<missing, lost, sees, quiet, request>>

Picture == [key : BOOLEAN, cut : {"no", "gap", "silent"}]

(* after: where the last picture encoded went: to the queue ("sent"), into  *)
(* the held keyframe ("held"), to the queue ahead of the held keyframe      *)
(* ("early"), or nowhere ("cut").  tail: what ails the last picture queued. *)
Relay ==
  [awaiting : BOOLEAN,   \* m_AwaitingIdr: deltas wait for a keyframe
   waits : BOOLEAN,      \* m_IdrWaitsForDrain: requests wait for the buffer
   cooling : BOOLEAN,    \* m_IdrCooldownTimer has yet to run out
   asked : BOOLEAN,      \* the engine was asked for a keyframe
   backlog : {"drained", "young", "old"},
   held : BOOLEAN,       \* m_HaveBufferedKeyframe
   fresher : BOOLEAN,    \* m_NewKeyframeArrived
   after : {"sent", "held", "early", "cut"},
   tail : {"whole", "evicted", "dropped", "early"},
   queue : Seq(Picture)]

TypeOK ==
  /\ relay \in Relay /\ depth \in Depths
  /\ channel \in {"closed", "opened", "open"}
  /\ wire \in Seq(Picture) /\ lost \in 0..MaxLost
  /\ {missing, quiet, request, still} \subseteq BOOLEAN
  /\ sees \in {"nothing", "picture", "broken"}

Init ==
  /\ relay = [awaiting |-> FALSE, waits |-> FALSE, cooling |-> FALSE, asked |-> FALSE,
              backlog |-> "drained", held |-> FALSE, fresher |-> FALSE,
              after |-> "sent", tail |-> "whole", queue |-> <<>>]
  /\ depth \in Depths
  /\ channel = "closed"
  /\ wire = <<>>
  /\ missing = FALSE /\ lost = 0
  /\ sees = "nothing" /\ quiet = FALSE /\ request = FALSE
  /\ still = FALSE

(***************************************************************************)
(* What the relay does with a picture.  Each operator takes its members R  *)
(* and returns what becomes of them.                                       *)
(***************************************************************************)
\* sendIdrRequestThrottled: the length of the cooldown is left out.
Ask(R) ==
  IF R.waits \/ R.cooling THEN R ELSE [R EXCEPT !.cooling = TRUE, !.asked = TRUE]

\* Mutant: the wait outlives the drain it was for.
AskStillWaiting(R) == Ask([R EXCEPT !.cooling = FALSE])
\* requestIdrOnDrain
AskOnDrain(R) == Ask([R EXCEPT !.waits = FALSE, !.cooling = FALSE])

\* SendBacklog::note: a window opens with the first sample above the floor.
Sample(R) ==
  [R EXCEPT !.backlog = IF Len(wire) <= Floor THEN "drained"
                        ELSE IF @ = "drained" THEN "young" ELSE @]
Shed(R) == R.backlog = "old"

\* A picture that goes no further, and the gate closed for those that follow.
Close(R) == [R EXCEPT !.awaiting = TRUE, !.after = "cut"]
CloseUntilDrained(R) == [Close(R) EXCEPT !.waits = TRUE]

\* A delta while the gate is closed: the buffer is sampled here too.
Gated(R) ==
  LET S == Close(Sample(R))
  IN IF S.waits THEN (IF S.backlog = "drained" THEN AskOnDrain(S) ELSE S)
     ELSE IF Shed(S) THEN CloseUntilDrained(S)
     ELSE Ask(S)

---------------------------------------------------------------------------
(* FrameSender::push *)
Deltas(q) == {i \in DOMAIN q : ~q[i].key}

\* The oldest delta goes; whatever is behind it shows its missing id.
EvictOldest(q) ==
  LET i == CHOOSE n \in Deltas(q) : \A m \in Deltas(q) : n <= m
  IN [RemoveAt(q, i) EXCEPT ![i].cut = "gap"]
Evict(q, n) ==
  LET after[m \in 0..n] == IF m = 0 THEN q ELSE EvictOldest(after[m - 1])
  IN after[n]

\* How many deltas make way for p: for want of room, and for want of depth.
Least(a, b) == IF a <= b THEN a ELSE b
Above(a, b) == IF a > b THEN a - b ELSE 0
Evictions(q, p) ==
  LET deltas == Cardinality(Deltas(q))
      room == Least(Above(Len(q) + 1, kMaxQueued), deltas)
      keep == IF p.key \/ depth = 0 THEN 0 ELSE depth - 1
      deep == IF depth < kMaxQueued THEN Above(deltas, keep) ELSE 0
  IN IF room > deep THEN room ELSE deep

\* A hole that no keyframe behind it mends.
Unmended(q) ==
  \E i \in DOMAIN q : q[i].cut = "gap" /\ \A m \in i..Len(q) : ~q[m].key

\* Mutant: the hole is left to the browser to find.
PushOnly(R, p, ailment) ==
  [R EXCEPT !.queue = Evict(Append(R.queue, p), Evictions(R.queue, p)),
            !.tail = IF p.key THEN "whole" ELSE IF Evictions(R.queue, p) > 0 THEN "evicted" ELSE @]
\* The end of sendFragmented: an eviction closes the gate and asks.
Push(R, p, ailment) ==
  LET n == Evictions(R.queue, p)
      q == Evict(Append(R.queue, p), n)
      S == [R EXCEPT !.queue = q,
                     !.tail = IF p.key THEN "whole"
                              ELSE IF n > 0 /\ Unmended(q) THEN "evicted"
                              ELSE IF p.cut = "silent" THEN ailment ELSE @]
  IN IF n > 0 THEN Ask([S EXCEPT !.awaiting = TRUE]) ELSE S

---------------------------------------------------------------------------
(* sendFragmented *)

\* What a delta misses that follows a picture which went there.
AilmentAfter(where) == IF where = "cut" THEN "dropped" ELSE "early"

SendDelta(R) ==
  LET S == Sample(R)
  IN IF Shed(S) THEN CloseUntilDrained(S)
     ELSE Push([S EXCEPT !.after = "sent"],
               [key |-> FALSE, cut |-> IF R.after = "sent" THEN "no" ELSE "silent"],
               AilmentAfter(R.after))

\* Mutant: the gate opens, and requests go on waiting for the buffer.
OpenGateOnly(R) == [R EXCEPT !.awaiting = FALSE, !.backlog = "drained"]
\* A keyframe goes through: a fresh start.
OpenGate(R) == [R EXCEPT !.awaiting = FALSE, !.waits = FALSE, !.backlog = "drained"]

SendKeyframe(R, after) ==
  LET S == Sample(R)
  IN IF Shed(S) THEN CloseUntilDrained(S)
     ELSE Push([OpenGate(S) EXCEPT !.after = after], [key |-> TRUE, cut |-> "no"], "early")

---------------------------------------------------------------------------
(* handleVideoFrame, on the engine's thread, as soon as a picture is encoded *)

HoldKeyframe(R) == [R EXCEPT !.held = TRUE, !.fresher = FALSE, !.after = "held"]

HandleKeyframe(R) ==
  IF channel = "closed" THEN HoldKeyframe(R)
  ELSE SendKeyframe([R EXCEPT !.fresher = @ \/ R.held], "sent")

HandleDelta(R) ==
  IF channel = "closed" THEN Ask(Close(R))
  ELSE IF R.awaiting THEN Gated(R)
  ELSE SendDelta(R)

\* The engine makes a keyframe when it was asked, and when it pleases; asked for
\* one on a still screen it moves the pointer, so as to have something to encode.
EncodeKeyframe ==
  /\ relay.asked \/ ~still
  /\ Len(relay.queue) - Cardinality(Deltas(relay.queue)) < MaxKeys
  /\ relay' = HandleKeyframe([relay EXCEPT !.asked = FALSE])
  /\ UNCHANGED <<depth, channel, wire, Browser, still>>
EncodeDelta ==
  /\ ~still
  /\ relay' = HandleDelta(relay)
  /\ UNCHANGED <<depth, channel, wire, Browser, still>>

\* The screen stops, or moves again.  A host that encodes a still screen now and
\* then, as the native one does, is one whose screen never stops.
ScreenStops ==
  /\ ~still /\ still' = TRUE
  /\ UNCHANGED <<relay, depth, channel, wire, Browser>>
ScreenMoves ==
  /\ still /\ still' = FALSE
  /\ UNCHANGED <<relay, depth, channel, wire, Browser>>

---------------------------------------------------------------------------
(* The relay's thread and the requests it hears *)

\* The channel is open from here on; the held keyframe's turn is queued.
ChannelOpens ==
  /\ channel = "closed"
  /\ channel' = "opened"
  /\ UNCHANGED <<relay, depth, wire, Browser, still>>

\* Held back while pictures were dropped behind it, it opens nothing.  A delta
\* that found the channel open before it is ahead of it on the wire.
SendHeld(R) ==
  LET S == SendKeyframe(R, IF R.after = "held" THEN "sent"
                           ELSE IF R.after = "cut" THEN "cut" ELSE "early")
  IN IF R.awaiting THEN Ask([S EXCEPT !.awaiting = TRUE]) ELSE S

SendBufferedKeyframe ==
  /\ channel = "opened"
  /\ channel' = "open"
  /\ LET R == IF relay.held /\ ~relay.fresher THEN SendHeld(relay) ELSE relay
     IN relay' = IF relay.held THEN [R EXCEPT !.held = FALSE, !.fresher = FALSE] ELSE R
  /\ UNCHANGED <<depth, wire, Browser, still>>

RequestArrives ==
  /\ request /\ request' = FALSE
  /\ relay' = Ask([relay EXCEPT !.awaiting = TRUE])
  /\ UNCHANGED <<depth, channel, wire, missing, lost, sees, quiet, still>>

CooldownEnds ==
  /\ relay.cooling
  /\ relay' = [relay EXCEPT !.cooling = FALSE]
  /\ UNCHANGED <<depth, channel, wire, Browser, still>>

\* The window has been open for longer than kToleranceMs.
BacklogAges ==
  /\ relay.backlog = "young"
  /\ relay' = [relay EXCEPT !.backlog = "old"]
  /\ UNCHANGED <<depth, channel, wire, Browser, still>>

---------------------------------------------------------------------------
(* The sender's thread, the link, the browser *)

SendJob ==
  /\ relay.queue # <<>> /\ Len(wire) < MaxWire
  /\ wire' = Append(wire, Head(relay.queue))
  /\ relay' = [relay EXCEPT !.queue = Tail(@)]
  /\ UNCHANGED <<depth, channel, Browser, still>>

\* A picture whose lifetime ran out in the transport.
LinkLoses ==
  /\ wire # <<>> /\ lost < MaxLost
  /\ wire' = Tail(wire) /\ missing' = TRUE /\ lost' = lost + 1
  /\ UNCHANGED <<relay, depth, channel, sees, quiet, request, still>>

\* Ids are missing between the last picture seen and this one.
Gap(p) == sees # "nothing" /\ (missing \/ p.cut = "gap")
Decodes(p) == p.key \/ (sees = "picture" /\ ~Gap(p) /\ p.cut # "silent")

\* A keyframe is wanted at a gap, at a delta the decoder stumbles on, and for as
\* long as no reference is valid; one that is decoded ends the quiet.
Receive ==
  /\ wire # <<>>
  /\ wire' = Tail(wire) /\ missing' = FALSE
  /\ LET p == Head(wire)
         asks == (Gap(p) \/ (~Decodes(p) /\ sees # "nothing")) /\ ~quiet
     IN /\ sees' = IF Decodes(p) THEN "picture" ELSE "broken"
        /\ request' = (request \/ asks)
        /\ quiet' = (~p.key /\ (quiet \/ asks))
  /\ UNCHANGED <<relay, depth, channel, lost, still>>

QuietEnds ==
  /\ quiet /\ quiet' = FALSE
  /\ UNCHANGED <<relay, depth, channel, wire, missing, lost, sees, request, still>>

Next ==
  \/ EncodeKeyframe \/ EncodeDelta \/ ScreenStops \/ ScreenMoves
  \/ ChannelOpens \/ SendBufferedKeyframe
  \/ RequestArrives \/ CooldownEnds \/ BacklogAges
  \/ SendJob \/ LinkLoses \/ Receive \/ QuietEnds

Spec == Init /\ [][Next]_vars

(* The threads run, the timers end, the channel opens, the link carries    *)
(* what it is given; a host encodes a screen that moves and makes the      *)
(* keyframe it was asked for.  Nothing makes a screen move.                *)
Fairness ==
  /\ WF_vars(EncodeDelta) /\ WF_vars(relay.asked /\ EncodeKeyframe)
  /\ WF_vars(ChannelOpens) /\ WF_vars(SendBufferedKeyframe)
  /\ WF_vars(RequestArrives) /\ WF_vars(CooldownEnds)
  /\ WF_vars(SendJob) /\ WF_vars(Receive) /\ WF_vars(QuietEnds)

FairSpec == Spec /\ Fairness

---------------------------------------------------------------------------
(* Properties *)

\* Requests are put off until the buffer drains only while the gate is closed: it
\* is the gate that looks at the buffer, so behind an open one a request would be
\* put off for good.
NoWaitBehindAnOpenGate == relay.waits => relay.awaiting

\* Whatever the relay threw away, nothing that needs it goes to the wire while the
\* gate is open: the last picture queued misses no picture that was evicted or
\* dropped, or the gate is closed and a keyframe is the next thing queued.
HoleShutsTheGate == relay.tail \in {"evicted", "dropped"} => relay.awaiting

\* A browser without a picture gets one, or the host's screen comes to a stop.
PictureComesBack == sees # "picture" ~> sees = "picture" \/ still

\* The wait for the buffer ends: not a property of the code on a still screen, where
\* no delta looks at the buffer and every request is put off.  See the README.
WaitEnds == relay.waits ~> ~relay.waits

\* No delta reaches the wire whose reference is not there before it: not a property
\* of the code, one may slip ahead of the held keyframe.  See the README.
NothingEarly == relay.tail # "early"
==============================================================================
