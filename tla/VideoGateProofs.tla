--------------------------- MODULE VideoGateProofs ----------------------------
(***************************************************************************)
(* VideoGate for every length of queue, depth, floor and bound.  The gate's *)
(* promises rest on the relay's flags alone: what the queue holds is left   *)
(* open, so nothing here depends on what the evictions leave in it.         *)
(***************************************************************************)
EXTENDS VideoGate, TLAPS

\* A relay's members, whatever its queue holds.
Shaped(R) ==
  R \in [awaiting : BOOLEAN, waits : BOOLEAN, cooling : BOOLEAN, asked : BOOLEAN,
         backlog : {"drained", "young", "old"}, held : BOOLEAN, fresher : BOOLEAN,
         after : {"sent", "held", "early", "cut"},
         tail : {"whole", "evicted", "dropped", "early"}, queue : {R.queue}]

\* Why the gate must be closed: a request waits for the buffer, the last picture
\* encoded went nowhere, or the last one queued misses something thrown away.
Closed(R) == R.waits \/ R.after = "cut" \/ R.tail \in {"evicted", "dropped"}
Sound(R) == Shaped(R) /\ (Closed(R) => R.awaiting)

-----------------------------------------------------------------------------
(* What each operator does to it. *)

\* A closed gate is sound, whatever calls for it.
LEMMA ClosedIsSound ==
  ASSUME NEW R, Shaped(R), R.awaiting  PROVE  Sound(R)
BY DEF Sound

\* A request for a keyframe leaves the gate as it was.
LEMMA AskKeeps ==
  ASSUME NEW R, Shaped(R)
  PROVE  Shaped(Ask(R)) /\ Ask(R).awaiting = R.awaiting /\ (Sound(R) => Sound(Ask(R)))
<1>1. CASE Ask(R) = R
  BY <1>1
<1>2. CASE Ask(R) = [R EXCEPT !.cooling = TRUE, !.asked = TRUE]
  BY <1>2 DEF Shaped, Sound, Closed
<1> QED
  BY <1>1, <1>2 DEF Ask

\* Closing it is sound.
LEMMA CloseIsSound ==
  ASSUME NEW R, Shaped(R)
  PROVE  /\ Sound(Close(R)) /\ Close(R).awaiting
         /\ Sound(CloseUntilDrained(R)) /\ CloseUntilDrained(R).awaiting
BY DEF Shaped, Sound, Closed, Close, CloseUntilDrained

\* A sample of the buffer concerns nothing else.
LEMMA SampleKeeps ==
  ASSUME NEW R, Shaped(R)
  PROVE  /\ Shaped(Sample(R)) /\ (Sound(R) => Sound(Sample(R)))
         /\ Sample(R).awaiting = R.awaiting /\ Sample(R).after = R.after
BY DEF Shaped, Sound, Closed, Sample

\* A delta at the closed gate leaves it closed.
LEMMA GatedIsSound ==
  ASSUME NEW R, Shaped(R)
  PROVE  Sound(Gated(R))
<1> DEFINE S == Close(Sample(R))
<1>1. Shaped(S) /\ Sound(S) /\ S.awaiting
  BY SampleKeeps, CloseIsSound DEF Sound
<1>2. Sound(CloseUntilDrained(S))
  BY <1>1, CloseIsSound
<1>3. Sound(Ask(S))
  BY <1>1, AskKeeps
<1>4. Sound(AskOnDrain(S))
  <2> DEFINE T == [S EXCEPT !.waits = FALSE, !.cooling = FALSE]
  <2>1. Shaped(T) /\ T.awaiting
    BY <1>1 DEF Shaped
  <2>2. Sound(T)
    BY <2>1, ClosedIsSound
  <2> QED
    BY <2>1, <2>2, AskKeeps DEF AskOnDrain
<1> HIDE DEF S
<1>5. Gated(R) \in {AskOnDrain(S), S, CloseUntilDrained(S), Ask(S)}
  BY DEF Gated, S
<1> QED
  BY <1>1, <1>2, <1>3, <1>4, <1>5

\* A push that evicts closes the gate; one that does not leaves the gate as it was,
\* and is sound if the picture that goes in misses nothing that was thrown away.
LEMMA PushKeeps ==
  ASSUME NEW R, Shaped(R), NEW p, NEW ailment \in {"dropped", "early"}
  PROVE  /\ Shaped(Push(R, p, ailment))
         /\ Sound(R) /\ ailment # "dropped" => Sound(Push(R, p, ailment))
         /\ p.key /\ ~R.waits /\ R.after # "cut" => Sound(Push(R, p, ailment))
<1> DEFINE n == Evictions(R.queue, p)
           q == Evict(Append(R.queue, p), n)
           S == [R EXCEPT !.queue = q,
                          !.tail = IF p.key THEN "whole"
                                   ELSE IF n > 0 /\ Unmended(q) THEN "evicted"
                                   ELSE IF p.cut = "silent" THEN ailment ELSE @]
           T == [S EXCEPT !.awaiting = TRUE]
<1> HIDE DEF n, q
<1>1. Shaped(S) /\ Shaped(T) /\ T.awaiting
  BY DEF Shaped
<1>2. Shaped(Ask(T)) /\ Sound(Ask(T))
  BY <1>1, ClosedIsSound, AskKeeps
<1>3. ASSUME Sound(R), ailment # "dropped", ~(n > 0)
      PROVE  Sound(S)
  BY <1>1, <1>3 DEF Sound, Closed, Shaped
<1>4. ASSUME p.key, ~R.waits, R.after # "cut"
      PROVE  Sound(S)
  BY <1>1, <1>4 DEF Sound, Closed, Shaped
<1>5. Push(R, p, ailment) = IF n > 0 THEN Ask(T) ELSE S
  BY DEF Push, n, q
<1> HIDE DEF S, T
<1> QED
  BY <1>1, <1>2, <1>3, <1>4, <1>5

\* A delta at the open gate: the one before it was not thrown away.
LEMMA SendDeltaIsSound ==
  ASSUME NEW R, Sound(R), ~R.awaiting
  PROVE  Sound(SendDelta(R))
<1> DEFINE S == Sample(R)
           T == [S EXCEPT !.after = "sent"]
           p == [key |-> FALSE, cut |-> IF R.after = "sent" THEN "no" ELSE "silent"]
<1>1. Shaped(R) /\ R.after # "cut"
  BY DEF Sound, Closed
<1>2. Sound(S) /\ Shaped(S)
  BY <1>1, SampleKeeps
<1>3. Sound(T) /\ Shaped(T)
  BY <1>2 DEF Sound, Closed, Shaped
<1>4. AilmentAfter(R.after) = "early"
  BY <1>1 DEF AilmentAfter
<1> HIDE DEF S, T, p
<1>5. Sound(Push(T, p, "early"))
  BY <1>3, PushKeeps
<1>6. Sound(CloseUntilDrained(S))
  BY <1>2, CloseIsSound
<1> QED
  BY <1>4, <1>5, <1>6 DEF SendDelta, S, T, p

\* A keyframe opens the gate; the held one, sent though what was encoded after it
\* went nowhere, opens it too soon.
LEMMA SendKeyframeKeeps ==
  ASSUME NEW R, Shaped(R), NEW after \in {"sent", "early", "cut"}
  PROVE  /\ Shaped(SendKeyframe(R, after))
         /\ after # "cut" => Sound(SendKeyframe(R, after))
<1> DEFINE S == Sample(R)
           T == [OpenGate(S) EXCEPT !.after = after]
           p == [key |-> TRUE, cut |-> "no"]
<1>1. Shaped(S)
  BY SampleKeeps
<1>2. Shaped(T) /\ ~T.waits /\ T.after = after
  BY <1>1 DEF Shaped, OpenGate
<1>3. p.key
  OBVIOUS
<1> HIDE DEF S, T, p
<1>4. /\ Shaped(Push(T, p, "early"))
      /\ after # "cut" => Sound(Push(T, p, "early"))
  BY <1>2, <1>3, PushKeeps
<1>5. Sound(CloseUntilDrained(S)) /\ Shaped(CloseUntilDrained(S))
  BY <1>1, CloseIsSound DEF Sound
<1> QED
  BY <1>4, <1>5 DEF SendKeyframe, S, T, p

-----------------------------------------------------------------------------
(* The steps. *)

\* A delta, whatever it finds.
LEMMA HandleDeltaIsSound ==
  ASSUME NEW R, Sound(R)
  PROVE  Sound(HandleDelta(R))
<1>1. Shaped(R)
  BY DEF Sound
<1>2. Sound(Ask(Close(R)))
  BY <1>1, CloseIsSound, AskKeeps DEF Sound
<1>3. Sound(Gated(R))
  BY <1>1, GatedIsSound
<1>4. CASE ~R.awaiting
  BY <1>2, <1>4, SendDeltaIsSound DEF HandleDelta
<1>5. CASE R.awaiting
  BY <1>2, <1>3, <1>5 DEF HandleDelta
<1> QED
  BY <1>1, <1>4, <1>5 DEF Shaped

\* A keyframe of the engine's, whatever it finds.
LEMMA HandleKeyframeIsSound ==
  ASSUME NEW R, Sound(R)
  PROVE  Sound(HandleKeyframe(R))
<1> DEFINE S == [R EXCEPT !.fresher = R.fresher \/ R.held]
<1>1. Shaped(R)
  BY DEF Sound
<1>2. Sound(HoldKeyframe(R))
  BY <1>1 DEF Sound, Closed, Shaped, HoldKeyframe
<1>3. Shaped(S)
  BY <1>1 DEF Shaped
<1>4. Sound(SendKeyframe(S, "sent"))
  BY <1>3, SendKeyframeKeeps
<1> QED
  BY <1>2, <1>4 DEF HandleKeyframe

\* The held keyframe leaves a gate closed that was closed.
LEMMA SendHeldIsSound ==
  ASSUME NEW R, Sound(R)
  PROVE  Sound(SendHeld(R))
<1> DEFINE after == IF R.after = "held" THEN "sent" ELSE IF R.after = "cut" THEN "cut" ELSE "early"
           S == SendKeyframe(R, after)
           T == [S EXCEPT !.awaiting = TRUE]
<1>1. Shaped(R) /\ (R.after = "cut" => R.awaiting)
  BY DEF Sound, Closed
<1>2. after \in {"sent", "early", "cut"} /\ (after = "cut" => R.awaiting)
  BY <1>1
<1> HIDE DEF after
<1>3. Shaped(S) /\ (after # "cut" => Sound(S))
  BY <1>1, <1>2, SendKeyframeKeeps
<1> HIDE DEF S
<1>4. Shaped(T) /\ T.awaiting
  BY <1>3 DEF Shaped
<1>5. Sound(Ask(T))
  BY <1>4, ClosedIsSound, AskKeeps
<1>6. SendHeld(R) = IF R.awaiting THEN Ask(T) ELSE S
  BY DEF SendHeld, S, after
<1> HIDE DEF T
<1> QED
  BY <1>2, <1>3, <1>5, <1>6

-----------------------------------------------------------------------------
GateInvariant == Sound(relay)

\* The relay begins sound.
THEOREM GateInit == Init => GateInvariant
BY DEF Init, GateInvariant, Sound, Shaped, Closed

\* The held keyframe's turn.
LEMMA SendBufferedKeyframeKeeps ==
  ASSUME GateInvariant, SendBufferedKeyframe  PROVE  GateInvariant'
<1> DEFINE R == IF relay.held /\ ~relay.fresher THEN SendHeld(relay) ELSE relay
<1>1. Sound(relay)
  BY DEF GateInvariant
<1>2. Sound(R)
  BY <1>1, SendHeldIsSound
<1>3. relay' = IF relay.held THEN [R EXCEPT !.held = FALSE, !.fresher = FALSE] ELSE R
  BY DEF SendBufferedKeyframe
<1> HIDE DEF R
<1>4. Sound([R EXCEPT !.held = FALSE, !.fresher = FALSE])
  BY <1>2 DEF Sound, Shaped, Closed
<1> QED
  BY <1>2, <1>3, <1>4 DEF GateInvariant

\* A browser's request closes the gate.
LEMMA RequestArrivesKeeps ==
  ASSUME GateInvariant, RequestArrives  PROVE  GateInvariant'
<1> DEFINE T == [relay EXCEPT !.awaiting = TRUE]
<1>1. Shaped(T) /\ T.awaiting
  BY DEF GateInvariant, Sound, Shaped
<1>2. Sound(Ask(T))
  BY <1>1, ClosedIsSound, AskKeeps
<1> QED
  BY <1>2 DEF RequestArrives, GateInvariant

\* A picture of the engine's thread.
LEMMA EncodeKeeps ==
  ASSUME GateInvariant, EncodeKeyframe \/ EncodeDelta  PROVE  GateInvariant'
<1> DEFINE S == [relay EXCEPT !.asked = FALSE]
<1>1. Sound(relay) /\ Sound(S)
  BY DEF GateInvariant, Sound, Shaped, Closed
<1>2. Sound(HandleDelta(relay)) /\ Sound(HandleKeyframe(S))
  BY <1>1, HandleDeltaIsSound, HandleKeyframeIsSound
<1> QED
  BY <1>2 DEF EncodeKeyframe, EncodeDelta, GateInvariant

\* Every step keeps it.
LEMMA GateStep == GateInvariant /\ [Next]_vars => GateInvariant'
<1> SUFFICES ASSUME GateInvariant, [Next]_vars  PROVE  GateInvariant'
  OBVIOUS
<1>1. CASE EncodeKeyframe \/ EncodeDelta
  BY <1>1, EncodeKeeps
<1>2. CASE SendBufferedKeyframe
  BY <1>2, SendBufferedKeyframeKeeps
<1>3. CASE RequestArrives
  BY <1>3, RequestArrivesKeeps
<1>4. CASE CooldownEnds
  BY <1>4 DEF CooldownEnds, GateInvariant, Sound, Shaped, Closed
<1>5. CASE BacklogAges
  BY <1>5 DEF BacklogAges, GateInvariant, Sound, Shaped, Closed
<1>6. CASE SendJob
  BY <1>6 DEF SendJob, GateInvariant, Sound, Shaped, Closed
<1>7. CASE UNCHANGED relay
  BY <1>7 DEF GateInvariant
<1> QED
  BY <1>1, <1>2, <1>3, <1>4, <1>5, <1>6, <1>7
     DEF Next, vars, ChannelOpens, LinkLoses, Receive, QuietEnds, ScreenStops, ScreenMoves

\* In every reachable state, whatever calls for a closed gate finds it closed: the
\* members the relay keeps under its lock agree with what it threw away.
THEOREM GateCorrect == Spec => []GateInvariant
BY GateInit, GateStep, PTL DEF Spec

\* No request waits for the buffer behind a gate that is open, and so never looks.
THEOREM GateNeverWaitsOpen == Spec => []NoWaitBehindAnOpenGate
<1>1. GateInvariant => NoWaitBehindAnOpenGate
  BY DEF GateInvariant, Sound, Closed, NoWaitBehindAnOpenGate
<1> QED
  BY <1>1, GateCorrect, PTL

\* A delta whose reference the relay threw away is never queued behind an open gate.
THEOREM GateShutsOnAHole == Spec => []HoleShutsTheGate
<1>1. GateInvariant => HoleShutsTheGate
  BY DEF GateInvariant, Sound, Closed, HoleShutsTheGate
<1> QED
  BY <1>1, GateCorrect, PTL
=============================================================================
