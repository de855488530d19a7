------------------------ MODULE RendezvousClientProofs ------------------------
(***************************************************************************)
(* RendezvousClient for every number of failures, redraws, faults and      *)
(* restarts, every set of stalled families, and every order of its events. *)
(***************************************************************************)
EXTENDS RendezvousClient, TLAPS

USE ModesAssumption, StalledAssumption, CountsAssumption

\* What the object's members say together: every attempt is accounted for, one
\* under way belongs to a client that is on and trusts its claim, and a line that
\* was up owes nothing.
Sound(d) ==
  /\ d \in ClientType /\ d.failures < ReclaimAfter
  /\ d.tries = d.failures + (IF d.opening THEN 1 ELSE 0)
  /\ d.racing => d.opening
  /\ d.opening => d.running /\ d.claimed /\ ~d.everUp
  /\ d.everUp => d.failures = 0
  /\ d.retry => d.running

\* How they agree with the socket s and the claim in flight r.  The last clause is
\* of a switch that does not come back while a socket is still connecting.
Wired(d, s, r) ==
  /\ d.racing => s = "unconnected"
  /\ d.opening => s \in {"unconnected", "connecting"}
  /\ d.claimed => r = "none"
  /\ s = "connecting" => d.opening
  /\ s \in {"connected", "closing"} => d.everUp
  /\ s = "connected" => d.running
  /\ ~QuickRestart /\ s = "doomed" => ~d.running

\* Something will call the client back.
Awaited(d, s, r) ==
  d.retry \/ r # "none" \/ d.opening \/ s = "connected" \/ (s = "closing" /\ d.everUp)

\* What surrounds the object.
Around ==
  /\ sock \in Sockets /\ reply \in Answers \cup {"none", "sent"}
  /\ held \in {"none", "ours", "idTaken", "ownerHasOther"}
  /\ serves \in BOOLEAN /\ silent \in BOOLEAN /\ pong \in BOOLEAN /\ gaveUp \in BOOLEAN
  /\ faults \in 0..MaxFaults /\ toggles \in 0..MaxToggles

ClientInvariant ==
  /\ Around /\ Sound(c) /\ Wired(c, sock, reply)
  /\ ~QuickRestart /\ c.running /\ ~c.halted /\ ~gaveUp => Awaited(c, sock, reply)

-----------------------------------------------------------------------------
(* What the object's functions make of its members. *)

\* The members that the functions which end an attempt leave alone.
Alike(d, e) ==
  /\ e.running = d.running /\ e.halted = d.halted /\ e.everUp = d.everUp
  /\ e.claimed => d.claimed
  /\ e.redraws = d.redraws

\* A retry is scheduled while the client is on, and nothing else changes.
LEMMA RetryKeeps ==
  ASSUME NEW d \in ClientType
  PROVE  /\ ScheduleRetry(d) \in ClientType
         /\ ScheduleRetry(d).retry = (d.retry \/ d.running)
         /\ Alike(d, ScheduleRetry(d)) /\ ScheduleRetry(d).claimed = d.claimed
         /\ ScheduleRetry(d).opening = d.opening /\ ScheduleRetry(d).racing = d.racing
         /\ ScheduleRetry(d).failures = d.failures /\ ScheduleRetry(d).tries = d.tries
         /\ ScheduleRetry(d).redraws = d.redraws
BY DEF ScheduleRetry, ClientType, Alike

\* A failed attempt is counted once, and asks for a retry.
LEMMA AttemptFailedKeeps ==
  ASSUME NEW d, Sound(d)
  PROVE  /\ Sound(AttemptFailed(d)) /\ Alike(d, AttemptFailed(d))
         /\ ~AttemptFailed(d).opening
         /\ d.opening \/ d.retry => AttemptFailed(d).retry
<1> USE DEF Sound, ClientType, Alike
<1>1. CASE ~d.opening
  BY <1>1 DEF AttemptFailed, InAttempt
<1>2. CASE d.opening
  <2> DEFINE a == AbandonAttempt(d)
             n == IF a.failures < ReclaimAfter THEN a.failures + 1 ELSE a.failures
             e == [a EXCEPT !.failures = 0, !.tries = 0, !.claimed = FALSE]
             f == [a EXCEPT !.failures = n]
  <2>1. /\ a \in ClientType /\ ~a.opening /\ ~a.racing /\ a.failures = d.failures
        /\ a.tries = d.failures + 1 /\ a.running /\ ~a.everUp /\ a.halted = d.halted
        /\ a.claimed = d.claimed /\ a.redraws = d.redraws
    BY <1>2 DEF AbandonAttempt
  <2>2. n = d.failures + 1 /\ n \in 0..ReclaimAfter
    BY <2>1
  <2>3. AttemptFailed(d) = ScheduleRetry(IF Reclaims(n) THEN e ELSE f)
    BY <1>2 DEF AttemptFailed, InAttempt
  <2> HIDE DEF a, n
  <2>4. CASE Reclaims(n)
    <3>1. AttemptFailed(d) = ScheduleRetry(e)
      BY <2>3, <2>4
    <3>2. /\ e \in ClientType /\ ~e.opening /\ ~e.racing /\ e.failures = 0 /\ e.tries = 0
          /\ e.running /\ ~e.everUp /\ e.halted = d.halted /\ ~e.claimed /\ e.redraws = d.redraws
      <4>1. 0 \in 0..ReclaimAfter
        OBVIOUS
      <4>3. e \in ClientType
        BY <4>1, <2>1
      <4>2. /\ ~e.opening /\ ~e.racing /\ e.failures = 0 /\ e.tries = 0
            /\ e.running /\ ~e.everUp /\ e.halted = d.halted /\ ~e.claimed /\ e.redraws = d.redraws
        BY <2>1
      <4> QED
        BY <4>2, <4>3
    <3> HIDE DEF e
    <3> QED
      BY <3>1, <3>2, <1>2, RetryKeeps
  <2>5. CASE ~Reclaims(n)
    <3>1. AttemptFailed(d) = ScheduleRetry(f)
      BY <2>3, <2>5
    <3>2. n < ReclaimAfter
      BY <2>2, <2>5 DEF Reclaims
    <3>3. /\ f \in ClientType /\ ~f.opening /\ ~f.racing /\ f.failures = n /\ f.tries = n
          /\ f.running /\ ~f.everUp /\ f.halted = d.halted /\ f.claimed = d.claimed
          /\ f.redraws = d.redraws
      BY <2>1, <2>2
    <3> HIDE DEF f
    <3> QED
      BY <3>1, <3>2, <3>3, <1>2, RetryKeeps
  <2> QED
    BY <2>4, <2>5
<1> QED
  BY <1>1, <1>2

\* A line that goes off leaves the members in agreement, and the attempt as it was.
LEMMA LineOffKeeps ==
  ASSUME NEW d, Sound(d)
  PROVE  /\ Sound(LineOff(d)) /\ Alike(d, LineOff(d))
         /\ LineOff(d).opening = d.opening /\ LineOff(d).retry = d.retry
         /\ LineOff(d).racing = d.racing
BY DEF LineOff, Sound, ClientType, Alike

\* A socket that went away is told of: the attempt it was, or the line, is retried
\* unless the client was halted.
LEMMA OnDisconnectedKeeps ==
  ASSUME NEW d, Sound(d)
  PROVE  /\ Sound(OnDisconnected(d)) /\ Alike(d, OnDisconnected(d))
         /\ OnDisconnected(d).opening => d.opening /\ d.halted
         /\ ~d.halted /\ d.running /\ (d.opening \/ d.everUp \/ d.retry) => OnDisconnected(d).retry
<1>1. CASE d.halted
  <2>1. OnDisconnected(d) = LineOff(d)
    BY <1>1 DEF OnDisconnected, RefusedInWords
  <2> QED
    BY <1>1, <2>1, LineOffKeeps
<1>2. CASE ~d.halted /\ ~d.everUp
  <2>1. OnDisconnected(d) = AttemptFailed(LineOff(d))
    BY <1>2 DEF OnDisconnected, RefusedInWords
  <2>2. Sound(LineOff(d)) /\ Alike(d, LineOff(d)) /\ LineOff(d).opening = d.opening
        /\ LineOff(d).retry = d.retry
    BY LineOffKeeps
  <2> QED
    BY <1>2, <2>1, <2>2, AttemptFailedKeeps DEF Alike
<1>3. CASE ~d.halted /\ d.everUp
  <2> DEFINE o == LineOff(d)
             e == [o EXCEPT !.failures = 0]
  <2>1. OnDisconnected(d) = ScheduleRetry(e)
    BY <1>3 DEF OnDisconnected, RefusedInWords
  <2>2. Sound(o) /\ Alike(d, o) /\ o.opening = d.opening /\ o.everUp
    BY <1>3, LineOffKeeps DEF Alike
  <2> HIDE DEF o
  <2>3. /\ o \in ClientType /\ o.failures = 0 /\ o.tries = 0 /\ ~o.opening /\ ~o.racing
    BY <2>2 DEF Sound, ClientType
  <2>4. e = o
    BY <2>3 DEF ClientType
  <2>5. 0 < ReclaimAfter
    OBVIOUS
  <2> HIDE DEF e
  <2> QED
    <3>1. o \in ClientType /\ OnDisconnected(d) = ScheduleRetry(o)
      BY <2>1, <2>3, <2>4
    <3>2. /\ OnDisconnected(d) \in ClientType /\ Alike(o, OnDisconnected(d))
          /\ OnDisconnected(d).opening = o.opening /\ OnDisconnected(d).racing = o.racing
          /\ OnDisconnected(d).failures = o.failures /\ OnDisconnected(d).tries = o.tries
          /\ OnDisconnected(d).retry = (o.retry \/ o.running)
      BY <3>1, RetryKeeps
    <3>3. Sound(OnDisconnected(d))
      BY <2>2, <2>3, <2>5, <3>2 DEF Sound, Alike
    <3>4. Alike(d, OnDisconnected(d))
      BY <2>2, <3>2 DEF Alike
    <3>5. ~OnDisconnected(d).opening /\ (d.running => OnDisconnected(d).retry)
      BY <2>2, <2>3, <3>2 DEF Alike
    <3> QED
      BY <3>3, <3>4, <3>5
<1> QED
  BY <1>1, <1>2, <1>3 DEF Sound, ClientType
-----------------------------------------------------------------------------
(* The claim and the opening. *)

\* An attempt that begins, raced or by name.
LEMMA OpenLineKeeps ==
  ASSUME NEW d, Sound(d), d.claimed, sock \in Sockets, faults \in 0..MaxFaults, OpenLine(d)
  PROVE  /\ Sound(c') /\ sock' \in Sockets /\ faults' \in 0..MaxFaults
         /\ \/ ~CanOpen(d) /\ c' = d /\ sock' = sock
            \/ /\ CanOpen(d) /\ c'.opening /\ c'.claimed /\ c'.running /\ ~c'.everUp
               /\ sock' \in {"unconnected", "connecting"} /\ (c'.racing => sock' = "unconnected")
<1>1. CASE ~CanOpen(d)
  BY <1>1 DEF OpenLine
<1>2. CASE CanOpen(d)
  <2> DEFINE begun == [d EXCEPT !.opening = TRUE, !.everUp = FALSE, !.winner = NoFamily,
                                !.racing = d.pinned,
                                !.tries = IF @ < ReclaimAfter THEN @ + 1 ELSE @]
             doomed == [begun EXCEPT !.failSoon = TRUE]
  <2>1. d \in ClientType /\ d.running /\ ~d.opening /\ sock = "unconnected"
        /\ d.tries = d.failures /\ d.tries + 1 \in 0..ReclaimAfter /\ d.tries < ReclaimAfter
    BY <1>2 DEF CanOpen, Sound, ClientType
  <2>2. begun \in ClientType
    BY <2>1 DEF ClientType
  <2>3. /\ begun.opening /\ ~begun.everUp /\ begun.racing = d.pinned /\ begun.running
        /\ begun.claimed = d.claimed /\ begun.failures = d.failures /\ begun.tries = d.tries + 1
    BY <2>1 DEF ClientType
  <2>4. \/ c' = begun /\ sock' = (IF d.pinned THEN sock ELSE "connecting") /\ faults' = faults
        \/ ~d.pinned /\ Spend /\ c' = doomed /\ sock' = sock
    BY <1>2 DEF OpenLine
  <2> HIDE DEF begun
  <2>5. doomed \in ClientType /\ doomed.opening = begun.opening /\ doomed.everUp = begun.everUp
        /\ doomed.racing = begun.racing /\ doomed.running = begun.running
        /\ doomed.claimed = begun.claimed /\ doomed.failures = begun.failures
        /\ doomed.tries = begun.tries
    BY <2>2 DEF ClientType
  <2> HIDE DEF doomed
  <2>6. CASE c' = begun /\ sock' = (IF d.pinned THEN sock ELSE "connecting") /\ faults' = faults
    BY <1>2, <2>1, <2>2, <2>3, <2>6 DEF Sound, Sockets
  <2>7. CASE ~d.pinned /\ Spend /\ c' = doomed /\ sock' = sock
    <3>1. Sound(doomed)
      BY <2>1, <2>3, <2>5 DEF Sound
    <3>2. faults' \in 0..MaxFaults
      BY <2>7 DEF Spend
    <3>3. doomed.opening /\ doomed.claimed /\ doomed.running /\ ~doomed.everUp /\ ~doomed.racing
      BY <2>1, <2>3, <2>5, <2>7
    <3> QED
      BY <1>2, <2>1, <2>7, <3>1, <3>2, <3>3
  <2> QED
    BY <2>4, <2>6, <2>7
<1> QED
  BY <1>1, <1>2

\* A client that is on claims or opens, or has something to wait for.
LEMMA ClaimOrOpenKeeps ==
  ASSUME NEW d, Sound(d), Wired(d, sock, reply), d.running, Around, ClaimOrOpen(d)
  PROVE  /\ Sound(c') /\ Wired(c', sock', reply')
         /\ sock' \in Sockets /\ faults' \in 0..MaxFaults
         /\ reply' \in Answers \cup {"none", "sent"}
         /\ ~QuickRestart /\ ~c'.halted => Awaited(c', sock', reply')
<1>1. CASE d.claimed
  <2>1. OpenLine(d) /\ reply' = reply /\ reply = "none"
    BY <1>1 DEF ClaimOrOpen, Wired
  <2>2. /\ Sound(c') /\ sock' \in Sockets /\ faults' \in 0..MaxFaults
        /\ \/ ~CanOpen(d) /\ c' = d /\ sock' = sock
           \/ /\ CanOpen(d) /\ c'.opening /\ c'.claimed /\ c'.running /\ ~c'.everUp
              /\ sock' \in {"unconnected", "connecting"} /\ (c'.racing => sock' = "unconnected")
    BY <1>1, <2>1, OpenLineKeeps DEF Around
  <2>3. CASE ~CanOpen(d) /\ c' = d /\ sock' = sock
    BY <2>1, <2>2, <2>3 DEF CanOpen, Wired, Awaited, Sockets, Around
  <2>4. CASE /\ c'.opening /\ c'.claimed /\ c'.running /\ ~c'.everUp
             /\ sock' \in {"unconnected", "connecting"} /\ (c'.racing => sock' = "unconnected")
    BY <2>1, <2>2, <2>4 DEF Wired, Awaited, Around
  <2> QED
    BY <2>2, <2>3, <2>4
<1>2. CASE ~d.claimed
  <2>1. /\ c' = d /\ sock' = sock /\ faults' = faults
        /\ reply' = IF reply = "none" /\ d.running /\ ~d.halted THEN "sent" ELSE reply
    BY <1>2 DEF ClaimOrOpen, Claim
  <2> QED
    BY <1>2, <2>1 DEF Wired, Awaited, Around
<1> QED
  BY <1>1, <1>2

-----------------------------------------------------------------------------
(* One lemma per handler. *)

\* The owner's switch.
LEMMA StartKeeps == ASSUME ClientInvariant, Start  PROVE  ClientInvariant'
<1> DEFINE d == [c EXCEPT !.running = TRUE, !.halted = FALSE]
<1>1. Sound(d) /\ d.running
  BY DEF ClientInvariant, Sound, ClientType
<1>2. Wired(d, sock, reply)
  BY DEF ClientInvariant, Wired, Start, Sound, ClientType
<1>3. ClaimOrOpen(d)
  BY DEF Start
<1> HIDE DEF d
<1>4. /\ Sound(c') /\ Wired(c', sock', reply')
      /\ sock' \in Sockets /\ faults' \in 0..MaxFaults
      /\ reply' \in Answers \cup {"none", "sent"}
      /\ ~QuickRestart /\ ~c'.halted => Awaited(c', sock', reply')
  BY <1>1, <1>2, <1>3, ClaimOrOpenKeeps DEF ClientInvariant
<1>5. Around'
  <2>1. toggles' \in 0..MaxToggles
    BY DEF Around, ClientInvariant, Start
  <2> QED
    BY <1>4, <2>1 DEF Around, ClientInvariant, Start, ServerSame, WireSame
<1> QED
  BY <1>4, <1>5 DEF ClientInvariant

\* The retry timer claims, or opens the line.
LEMMA RetryFiresKeeps == ASSUME ClientInvariant, RetryFires  PROVE  ClientInvariant'
<1> DEFINE d == [c EXCEPT !.retry = FALSE]
<1>1. CASE c.running
  <2>1. Sound(d) /\ d.running
    BY <1>1 DEF ClientInvariant, Sound, ClientType
  <2>2. Wired(d, sock, reply)
    BY DEF ClientInvariant, Wired, Sound, ClientType
  <2>3. ClaimOrOpen(d)
    BY DEF RetryFires
  <2> HIDE DEF d
  <2>4. /\ Sound(c') /\ Wired(c', sock', reply')
        /\ sock' \in Sockets /\ faults' \in 0..MaxFaults
        /\ reply' \in Answers \cup {"none", "sent"}
        /\ ~QuickRestart /\ ~c'.halted => Awaited(c', sock', reply')
    BY <2>1, <2>2, <2>3, ClaimOrOpenKeeps DEF ClientInvariant
  <2>5. Around'
    BY <2>4 DEF Around, ClientInvariant, RetryFires, ServerSame, WireSame
  <2> QED
    BY <2>4, <2>5 DEF ClientInvariant
<1>2. CASE ~c.running
  BY <1>2 DEF ClientInvariant, Sound, RetryFires
<1> QED
  BY <1>1, <1>2

\* stop() takes everything down.
LEMMA StopKeeps == ASSUME ClientInvariant, Stop  PROVE  ClientInvariant'
<1> DEFINE d == [c EXCEPT !.running = FALSE, !.retry = FALSE, !.keepAlive = FALSE,
                          !.watchdog = FALSE, !.online = FALSE]
           a == [d EXCEPT !.opening = FALSE, !.racing = FALSE]
           e == [a EXCEPT !.tries = IF d.opening THEN a.tries - 1 ELSE a.tries]
<1>1. d \in ClientType /\ ~d.running /\ ~d.retry /\ d.opening = c.opening /\ d.tries = c.tries
      /\ d.failures = c.failures /\ d.claimed = c.claimed /\ d.everUp = c.everUp
  BY DEF ClientInvariant, Sound, ClientType
<1>2. c' = e /\ sock' = Closed(sock) /\ reply' = reply
  BY DEF Stop, DropAttempt, AbandonAttempt
<1> HIDE DEF d
<1>3. a \in ClientType /\ ~a.running /\ ~a.retry /\ ~a.opening /\ ~a.racing /\ a.tries = c.tries
      /\ a.failures = c.failures /\ a.claimed = c.claimed /\ a.everUp = c.everUp
  BY <1>1 DEF ClientType
<1> HIDE DEF a
<1>4. (IF d.opening THEN a.tries - 1 ELSE a.tries) = c.failures /\ c.failures \in 0..ReclaimAfter
      /\ c.failures < ReclaimAfter
  BY <1>1, <1>3 DEF ClientInvariant, Sound, ClientType
<1>5. e \in ClientType /\ ~e.running /\ ~e.retry /\ ~e.opening /\ ~e.racing /\ e.tries = c.failures
      /\ e.failures = c.failures /\ e.claimed = c.claimed /\ e.everUp = c.everUp
  BY <1>3, <1>4 DEF ClientType
<1> HIDE DEF e
<1>6. Sound(c')
  BY <1>2, <1>4, <1>5 DEF ClientInvariant, Sound
<1>7. Wired(c', sock', reply')
  BY <1>2, <1>5 DEF ClientInvariant, Wired, Closed, Around, Sockets
<1>8. Around'
  BY <1>2 DEF ClientInvariant, Around, Closed, Sockets, Stop, ServerSame, WireSame, BoundsSame
<1> QED
  BY <1>2, <1>5, <1>6, <1>7, <1>8 DEF ClientInvariant

\* start() claims first.
LEMMA RestartKeeps == ASSUME ClientInvariant, Restart  PROVE  ClientInvariant'
<1>1. Sound(c') /\ ~c'.running /\ ~c'.opening /\ ~c'.racing
  BY DEF ClientInvariant, Restart, Idle, Sound, ClientType
<1>2. Around'
  <2>1. toggles' \in 0..MaxToggles
    BY DEF Around, ClientInvariant, Restart
  <2> QED
    BY <2>1 DEF ClientInvariant, Around, Restart, ServerSame, Sockets
<1> QED
  BY <1>1, <1>2 DEF ClientInvariant, Wired, Restart

\* The claim.
LEMMA ClaimingKeeps ==
  ASSUME ClientInvariant, ServerClaims \/ ClaimLost  PROVE  ClientInvariant'
<1>1. c' = c /\ sock' = sock /\ gaveUp' = gaveUp /\ reply = "sent" /\ reply' # "none"
  BY DEF ClientInvariant, Around, ServerClaims, ClaimLost, Verdict
<1>2. Around'
  BY DEF ClientInvariant, Around, ServerClaims, ClaimLost, Verdict, Spend, WireSame, BoundsSame, Answers
<1> QED
  BY <1>1, <1>2 DEF ClientInvariant, Wired, Awaited

\* The server's answer: accepted, refused for good, another's id, or none.
LEMMA ClaimAnsweredKeeps == ASSUME ClientInvariant, ClaimAnswered  PROVE  ClientInvariant'
<1> USE DEF ClientInvariant
<1>1. reply # "none" /\ reply' = "none" /\ ~c.claimed /\ ~c.opening
  BY DEF ClaimAnswered, Answers, Wired, Sound
<1>2. serves' = serves /\ toggles' = toggles /\ silent' = silent /\ pong' = pong
  BY DEF ClaimAnswered, WireSame
<1>3. CASE ~c.running /\ UNCHANGED <<c, sock, held, faults, gaveUp>>
  BY <1>1, <1>2, <1>3 DEF Around, Wired
<1>4. CASE /\ c.running /\ reply = "ok"
           /\ OpenLine([c EXCEPT !.claimed = TRUE]) /\ UNCHANGED <<held, gaveUp>>
  <2> DEFINE d == [c EXCEPT !.claimed = TRUE]
  <2>1. Sound(d) /\ d.claimed /\ d.running /\ ~d.opening /\ d.halted = c.halted
        /\ d.everUp = c.everUp /\ d.racing = c.racing
    BY <1>1, <1>4 DEF Sound, ClientType
  <2>2. OpenLine(d)
    BY <1>4
  <2> HIDE DEF d
  <2>3. /\ Sound(c') /\ sock' \in Sockets /\ faults' \in 0..MaxFaults
        /\ \/ ~CanOpen(d) /\ c' = d /\ sock' = sock
           \/ /\ CanOpen(d) /\ c'.opening /\ c'.claimed /\ c'.running /\ ~c'.everUp
              /\ sock' \in {"unconnected", "connecting"} /\ (c'.racing => sock' = "unconnected")
    BY <2>1, <2>2, OpenLineKeeps DEF Around
  <2>4. Wired(c', sock', reply')
    BY <1>1, <1>4, <2>1, <2>3 DEF Wired
  <2>5. ~QuickRestart /\ ~c'.halted => Awaited(c', sock', reply')
    BY <1>1, <1>4, <2>1, <2>3 DEF Wired, Awaited, CanOpen, Around, Sockets
  <2>6. Around'
    BY <1>1, <1>2, <1>4, <2>3 DEF Around
  <2> QED
    BY <2>3, <2>4, <2>5, <2>6
<1>5. CASE /\ c.running /\ reply \in {"idTaken", "ownerHasOther"} /\ MayRedraw(c)
           /\ c' = Redraw(c)
           /\ held' \in {"none"} \cup (IF reply = "idTaken" THEN {"ownerHasOther"} ELSE {})
           /\ UNCHANGED <<sock, faults, gaveUp>>
  <2> DEFINE d == [c EXCEPT !.claimed = FALSE, !.redraws = @ + 1]
  <2>1. c.redraws + 1 \in 0..MaxRedraws
    BY <1>5 DEF MayRedraw, Sound, ClientType
  <2>2. /\ d \in ClientType /\ ~d.claimed /\ d.running /\ ~d.opening /\ ~d.racing
        /\ d.everUp = c.everUp /\ d.failures = c.failures /\ d.tries = c.tries
    BY <1>1, <1>5, <2>1 DEF Sound, ClientType
  <2>3. c' = ScheduleRetry(d)
    BY <1>5 DEF Redraw
  <2>6. Sound(d)
    BY <1>1, <2>2 DEF Sound
  <2> HIDE DEF d
  <2>4. Sound(c') /\ c'.retry /\ ~c'.claimed /\ ~c'.opening /\ ~c'.racing /\ c'.running
        /\ c'.everUp = c.everUp
    BY <2>2, <2>3, <2>6, RetryKeeps DEF Sound, Alike
  <2>5. Around'
    BY <1>1, <1>2, <1>5 DEF Around
  <2> QED
    BY <1>1, <1>5, <2>4, <2>5 DEF Wired, Awaited
<1>6. CASE /\ c.running /\ reply \in {"idTaken", "ownerHasOther"} /\ ~MayRedraw(c)
           /\ gaveUp' = TRUE
           /\ UNCHANGED <<c, sock, held, faults>>
  BY <1>1, <1>2, <1>6 DEF Around, Wired
<1>7. CASE /\ c.running /\ reply \in {"limited", "failed"}
           /\ c' = ScheduleRetry(c) /\ UNCHANGED <<sock, held, faults, gaveUp>>
  <2>1. Sound(c') /\ c'.retry /\ ~c'.claimed /\ ~c'.opening /\ ~c'.racing /\ c'.running
        /\ c'.everUp = c.everUp
    BY <1>1, <1>7, RetryKeeps DEF Sound, Alike
  <2>2. Around'
    BY <1>1, <1>2, <1>7 DEF Around
  <2> QED
    BY <1>1, <1>7, <2>1, <2>2 DEF Wired, Awaited
<1>8. CASE /\ c.running /\ reply = "unsupported"
           /\ c' = Halt(c) /\ UNCHANGED <<sock, held, faults, gaveUp>>
  <2>1. Sound(c') /\ c'.halted /\ ~c'.claimed /\ ~c'.opening /\ ~c'.racing /\ c'.running
        /\ c'.everUp = c.everUp
    BY <1>1, <1>8 DEF Halt, Sound, ClientType
  <2>2. Around'
    BY <1>1, <1>2, <1>8 DEF Around
  <2> QED
    BY <1>1, <1>8, <2>1, <2>2 DEF Wired
<1> QED
  BY <1>3, <1>4, <1>5, <1>6, <1>7, <1>8 DEF ClaimAnswered

-----------------------------------------------------------------------------
(* The attempt and the line.  Most handlers end in a socket that is gone. *)

\* A client that was told its socket went away, or its attempt failed.
LEMMA GoneKeeps ==
  ASSUME ClientInvariant, Around', Sound(c'), sock' = "unconnected", reply' = reply,
         c'.claimed => c.claimed,
         ~QuickRestart /\ c'.running /\ ~c'.halted => c'.retry
  PROVE  ClientInvariant'
BY DEF ClientInvariant, Wired, Awaited, Around, Sound

\* The family that won has its socket opened.
LEMMA OnRaceWonKeeps == ASSUME ClientInvariant, OnRaceWon  PROVE  ClientInvariant'
<1> USE DEF ClientInvariant
<1>1. PICK f \in Families : c' = [c EXCEPT !.racing = FALSE, !.winner = f]
  <2>1. c.lead \in Families \cup {NoFamily}
    BY DEF Sound, ClientType
  <2> QED
    BY <2>1 DEF OnRaceWon
<1>2. Sound(c') /\ c'.opening /\ ~c'.racing /\ c'.running /\ c'.claimed = c.claimed
  BY <1>1 DEF OnRaceWon, Sound, ClientType
<1>3. Around'
  BY DEF OnRaceWon, Around, Sockets, ServerSame, WireSame, BoundsSame
<1> QED
  BY <1>2, <1>3 DEF OnRaceWon, Wired, Awaited

\* No family answered: the attempt failed.
LEMMA OnRaceLostKeeps == ASSUME ClientInvariant, OnRaceLost  PROVE  ClientInvariant'
<1> USE DEF ClientInvariant
<1>1. Sound(c') /\ Alike(c, c') /\ ~c'.opening /\ c'.retry
  BY AttemptFailedKeeps DEF OnRaceLost, Sound
<1>2. Around'
  BY DEF OnRaceLost, Around, ServerSame, WireSame, Spend
<1>3. sock = "unconnected" /\ sock' = sock /\ reply' = reply
  BY DEF OnRaceLost, Wired
<1> QED
  BY <1>1, <1>2, <1>3 DEF Wired, Awaited, Alike, Sound

\* The upgrade went through: the line is up.
LEMMA OnConnectedKeeps == ASSUME ClientInvariant, OnConnected  PROVE  ClientInvariant'
<1> USE DEF ClientInvariant
<1>1. c.opening /\ c.running /\ c.claimed /\ ~c.racing
  BY DEF OnConnected, Wired, Sound
<1>2. 0 \in 0..ReclaimAfter /\ 0 < ReclaimAfter
  OBVIOUS
<1>3. c' \in ClientType
  BY <1>2 DEF OnConnected, Sound, ClientType
<1>4. /\ ~c'.opening /\ c'.failures = 0 /\ c'.tries = 0 /\ c'.everUp /\ c'.running
      /\ c'.racing = c.racing /\ c'.claimed = c.claimed /\ c'.retry = c.retry
  BY <1>1 DEF OnConnected, Sound, ClientType
<1>5. Sound(c')
  BY <1>1, <1>2, <1>3, <1>4 DEF Sound
<1>6. Around'
  BY DEF OnConnected, Around, Sockets, ServerSame, BoundsSame
<1> QED
  BY <1>1, <1>4, <1>5, <1>6 DEF OnConnected, Wired, Awaited

\* The upgrade failed before it was up.
LEMMA LineRefusedKeeps == ASSUME ClientInvariant, LineRefused  PROVE  ClientInvariant'
<1> USE DEF ClientInvariant
<1>1. PICK soon \in BOOLEAN :
        c' = OnDisconnected([c EXCEPT !.failSoon = c.failSoon \/ (soon /\ c.opening)])
  BY DEF LineRefused
<1> DEFINE d == [c EXCEPT !.failSoon = c.failSoon \/ (soon /\ c.opening)]
<1>2. Sound(d) /\ Alike(c, d) /\ d.opening
  BY DEF LineRefused, Wired, Sound, ClientType, Alike
<1> HIDE DEF d
<1>3. c' = OnDisconnected(d)
  BY <1>1 DEF d
<1>4. Sound(c') /\ Alike(d, c') /\ (~d.halted /\ d.running => c'.retry)
  BY <1>2, <1>3, OnDisconnectedKeeps
<1>5. Around' /\ sock' = "unconnected" /\ reply' = reply
  BY DEF LineRefused, Around, Sockets, ServerSame, WireSame, Spend
<1> QED
  BY <1>2, <1>4, <1>5, GoneKeeps DEF Alike

\* The attempt took too long: it fails, and its socket is aborted.
LEMMA OnOpenTimeoutKeeps == ASSUME ClientInvariant, OnOpenTimeout  PROVE  ClientInvariant'
<1> USE DEF ClientInvariant
<1> DEFINE d == [c EXCEPT !.lead = NextLead(c)]
           e == AttemptFailed(d)
<1>1. NextLead(c) \in Families \cup {NoFamily}
  <2>1. \E f \in Families : f # c.winner
    BY DEF Families
  <2> QED
    BY <2>1 DEF NextLead, Sound, ClientType
<1>2. Sound(d) /\ Alike(c, d) /\ d.opening
  BY <1>1 DEF OnOpenTimeout, Sound, ClientType, Alike
<1>3. c' = e \/ c' = OnDisconnected(e)
  BY DEF OnOpenTimeout, TimedOut
<1> HIDE DEF d
<1>4. Sound(e) /\ Alike(d, e) /\ e.retry
  BY <1>2, AttemptFailedKeeps
<1> HIDE DEF e
<1>5. Sound(OnDisconnected(e)) /\ Alike(e, OnDisconnected(e))
      /\ (~e.halted /\ e.running => OnDisconnected(e).retry)
  BY <1>4, OnDisconnectedKeeps
<1>6. Around' /\ sock' = "unconnected" /\ reply' = reply
  BY DEF OnOpenTimeout, Around, Sockets, ServerSame, WireSame, Spend
<1> QED
  BY <1>2, <1>3, <1>4, <1>5, <1>6, GoneKeeps DEF Alike

\* Also a line the server drops.
LEMMA HangUpKeeps ==
  ASSUME ClientInvariant, NEW d, Sound(d), Alike(c, d), d.opening = c.opening,
         c' = OnDisconnected(d), sock # "unconnected", sock' = "unconnected",
         reply' = reply, Around'
  PROVE  ClientInvariant'
<1>1. /\ Sound(c') /\ Alike(d, c')
      /\ (~d.halted /\ d.running /\ (d.opening \/ d.everUp) => c'.retry)
  BY OnDisconnectedKeeps
<1>2. ~QuickRestart /\ c.running => c.opening \/ c.everUp
  BY DEF ClientInvariant, Around, Sockets, Wired
<1> QED
  BY <1>1, <1>2, GoneKeeps DEF Alike

\* A socket that went away: it had closed, or its line was dropped.
LEMMA SocketClosedKeeps ==
  ASSUME ClientInvariant, SocketClosed \/ LineDropped  PROVE  ClientInvariant'
<1>1. /\ c' = OnDisconnected(c) /\ sock # "unconnected" /\ sock' = "unconnected"
      /\ reply' = reply
  BY DEF SocketClosed, LineDropped
<1>2. Around'
  BY DEF ClientInvariant, SocketClosed, LineDropped, Around, Sockets, ServerSame, WireSame,
         BoundsSame, Spend
<1>3. Sound(c) /\ Alike(c, c)
  BY DEF ClientInvariant, Alike
<1> QED
  BY <1>1, <1>2, <1>3, HangUpKeeps

\* The queued failure of an attempt runs, if it is still the one.
LEMMA FailSoonRunsKeeps == ASSUME ClientInvariant, FailSoonRuns  PROVE  ClientInvariant'
<1> USE DEF ClientInvariant
<1> DEFINE d == [c EXCEPT !.failSoon = FALSE]
<1>1. Sound(d) /\ Alike(c, d) /\ d.opening = c.opening /\ d.racing = c.racing
      /\ d.retry = c.retry /\ d.claimed = c.claimed
  BY DEF Sound, ClientType, Alike
<1>2. c' = (IF sock = "unconnected" THEN AttemptFailed(d) ELSE d)
  BY DEF FailSoonRuns
<1> HIDE DEF d
<1>3. Around' /\ sock' = sock /\ reply' = reply /\ gaveUp' = gaveUp
  BY DEF FailSoonRuns, Around, ServerSame, WireSame, BoundsSame
<1>4. CASE sock = "unconnected"
  <2>1. /\ Sound(c') /\ Alike(d, c') /\ ~c'.opening /\ (d.opening \/ d.retry => c'.retry)
    BY <1>1, <1>2, <1>4, AttemptFailedKeeps
  <2> QED
    BY <1>1, <1>3, <1>4, <2>1 DEF Wired, Awaited, Alike, Sound
<1>5. CASE sock # "unconnected"
  BY <1>1, <1>2, <1>3, <1>5 DEF Wired, Awaited, Alike
<1> QED
  BY <1>4, <1>5

\* The queued abort runs, and ends the line if it is up.
LEMMA AbortSoonRunsKeeps == ASSUME ClientInvariant, AbortSoonRuns  PROVE  ClientInvariant'
<1> DEFINE d == [c EXCEPT !.abortSoon = FALSE]
<1>1. Sound(d) /\ Alike(c, d) /\ d.opening = c.opening /\ d.racing = c.racing
      /\ d.retry = c.retry /\ d.claimed = c.claimed
  BY DEF ClientInvariant, Sound, ClientType, Alike
<1>2. /\ c' = (IF sock = "connected" THEN OnDisconnected(d) ELSE d)
      /\ sock' = (IF sock = "connected" THEN "unconnected" ELSE sock)
  BY DEF AbortSoonRuns
<1> HIDE DEF d
<1>3. Around' /\ reply' = reply /\ gaveUp' = gaveUp
  BY <1>2 DEF ClientInvariant, AbortSoonRuns, Around, Sockets, ServerSame, WireSame, BoundsSame
<1>4. CASE sock = "connected"
  BY <1>1, <1>2, <1>3, <1>4, HangUpKeeps
<1>5. CASE sock # "connected"
  BY <1>1, <1>2, <1>3, <1>5 DEF ClientInvariant, Wired, Awaited, Alike
<1> QED
  BY <1>4, <1>5

\* A line that did not answer in time is taken down.
LEMMA OnWatchdogKeeps == ASSUME ClientInvariant, OnWatchdog  PROVE  ClientInvariant'
<1> DEFINE d == [c EXCEPT !.watchdog = FALSE]
<1>1. Sound(d) /\ Alike(c, d) /\ d.opening = c.opening /\ d.racing = c.racing
      /\ d.retry = c.retry /\ d.claimed = c.claimed
  BY DEF ClientInvariant, Sound, ClientType, Alike
<1>2. c' = (IF sock # "unconnected" THEN OnDisconnected(d) ELSE d) /\ sock' = "unconnected"
  BY DEF OnWatchdog
<1> HIDE DEF d
<1>3. Around' /\ reply' = reply /\ gaveUp' = gaveUp
  BY <1>2 DEF ClientInvariant, OnWatchdog, Around, Sockets, ServerSame, WireSame, BoundsSame
<1>4. CASE sock # "unconnected"
  BY <1>1, <1>2, <1>3, <1>4, HangUpKeeps
<1>5. CASE sock = "unconnected"
  BY <1>1, <1>2, <1>3, <1>5 DEF ClientInvariant, Wired, Awaited, Alike
<1> QED
  BY <1>4, <1>5

\* What changes only members nothing here speaks of, or halts a line that is up.
LEMMA LineKeeps ==
  ASSUME ClientInvariant,
         OnErrorFrame \/ LineFailsOpen \/ LineGoesSilent \/ OnKeepAlive \/ OnPong
  PROVE  ClientInvariant'
<1>1. /\ Sound(c') /\ c'.opening = c.opening /\ c'.racing = c.racing /\ c'.claimed = c.claimed
      /\ c'.everUp = c.everUp /\ c'.running = c.running
      /\ (c'.retry = c.retry /\ c'.halted = c.halted) \/ c'.halted
  <2>1. CASE OnErrorFrame
    BY <2>1 DEF OnErrorFrame, Halt, ClientInvariant, Sound, ClientType
  <2>2. CASE LineFailsOpen
    BY <2>2 DEF LineFailsOpen, ClientInvariant, Sound, ClientType
  <2>3. CASE LineGoesSilent
    BY <2>3 DEF LineGoesSilent, ClientInvariant
  <2>4. CASE OnKeepAlive
    BY <2>4 DEF OnKeepAlive, ClientInvariant, Sound, ClientType
  <2>5. CASE OnPong
    BY <2>5 DEF OnPong, ClientInvariant, Sound, ClientType
  <2> QED
    BY <2>1, <2>2, <2>3, <2>4, <2>5
<1>2. Around' /\ sock' = sock /\ reply' = reply /\ gaveUp' = gaveUp
  <2> USE DEF ClientInvariant, Around, ServerSame, WireSame, BoundsSame
  <2>1. CASE OnErrorFrame
    BY <2>1 DEF OnErrorFrame
  <2>2. CASE LineFailsOpen \/ LineGoesSilent
    <3>1. faults' \in 0..MaxFaults
      BY <2>2 DEF LineFailsOpen, LineGoesSilent, Spend
    <3> QED
      BY <2>2, <3>1 DEF LineFailsOpen, LineGoesSilent
  <2>3. CASE OnKeepAlive \/ OnPong
    <3>1. pong' \in BOOLEAN
      BY <2>3 DEF OnKeepAlive, OnPong
    <3> QED
      BY <2>3, <3>1 DEF OnKeepAlive, OnPong
  <2> QED
    BY <2>1, <2>2, <2>3
<1> QED
  BY <1>1, <1>2 DEF ClientInvariant, Wired, Awaited

\* What the server and the network do by themselves.
LEMMA ServerKeeps == ASSUME ClientInvariant, Server  PROVE  ClientInvariant'
<1>1. c' = c /\ sock' = sock /\ reply' = reply /\ gaveUp' = gaveUp
  BY DEF Server, ServerForgets, ServerFindsAnother, ServerRedeployed
<1>2. Around'
  <2>1. faults' \in 0..MaxFaults
    BY DEF ClientInvariant, Around, Server, ServerForgets, ServerFindsAnother, ServerRedeployed,
           Spend
  <2>2. silent' \in BOOLEAN /\ pong' \in BOOLEAN
    BY DEF Server, ServerForgets, ServerFindsAnother, ServerRedeployed, CutLine
  <2>3. serves' \in BOOLEAN /\ held' \in {"none", "ours", "idTaken", "ownerHasOther"}
    BY DEF ClientInvariant, Around, Server, ServerForgets, ServerFindsAnother, ServerRedeployed
  <2> QED
    BY <1>1, <2>1, <2>2, <2>3 DEF ClientInvariant, Around, Server, ServerForgets,
       ServerFindsAnother, ServerRedeployed
<1> QED
  BY <1>1, <1>2 DEF ClientInvariant, Wired, Awaited

-----------------------------------------------------------------------------
(* Together. *)

\* A client just switched on.
LEMMA ClientInit == Init => ClientInvariant
<1> SUFFICES ASSUME Init  PROVE  ClientInvariant
  OBVIOUS
<1>1. PICK pinned \in BOOLEAN, claimed \in BOOLEAN, dials \in Families \cup {NoFamily} :
        c = Idle(pinned, dials, claimed)
  BY DEF Init
<1>2. Sound(c) /\ ~c.running /\ ~c.opening /\ ~c.racing
  BY <1>1 DEF Idle, Sound, ClientType
<1>3. Around
  <2>1. faults \in 0..MaxFaults /\ toggles \in 0..MaxToggles
    BY DEF Init
  <2> QED
    BY <2>1 DEF Init, Around, Sockets
<1> QED
  BY <1>2, <1>3 DEF Init, ClientInvariant, Wired

\* Every step keeps the invariant.
LEMMA ClientStep == ClientInvariant /\ [Next]_vars => ClientInvariant'
<1> SUFFICES ASSUME ClientInvariant, [Next]_vars  PROVE  ClientInvariant'
  OBVIOUS
<1>1. CASE Start \/ Stop \/ Restart \/ RetryFires
  BY <1>1, StartKeeps, StopKeeps, RestartKeeps, RetryFiresKeeps
<1>2. CASE Claiming
  BY <1>2, ClaimingKeeps, ClaimAnsweredKeeps DEF Claiming
<1>3. CASE Opening
  BY <1>3, OnRaceWonKeeps, OnRaceLostKeeps, OnConnectedKeeps, LineRefusedKeeps,
     OnOpenTimeoutKeeps, SocketClosedKeeps, FailSoonRunsKeeps DEF Opening
<1>4. CASE Holding
  BY <1>4, SocketClosedKeeps, LineKeeps, AbortSoonRunsKeeps, OnWatchdogKeeps DEF Holding
<1>5. CASE Server
  BY <1>5, ServerKeeps
<1>6. CASE UNCHANGED vars
  BY <1>6 DEF vars, ClientInvariant, Around, Wired, Awaited
<1> QED
  BY <1>1, <1>2, <1>3, <1>4, <1>5, <1>6 DEF Next

\* In every reachable state the members agree with one another, with the socket
\* and with the claim in flight.
THEOREM ClientCorrect == Spec => []ClientInvariant
BY ClientInit, ClientStep, PTL DEF Spec

\* The members stay within their sets: the failures stop at the re-claim, the
\* redraws at their bound.
THEOREM ClientTyped == Spec => []TypeOK
<1>1. ClientInvariant => TypeOK
  BY DEF ClientInvariant, Sound, Around, TypeOK
<1> QED
  BY <1>1, ClientCorrect, PTL

\* Every attempt that failed was counted once, whichever handler came first to
\* report it; an attempt the owner stopped was not.
THEOREM ClientCountsOnce == Spec => []EveryAttemptCountsOnce
<1>1. ClientInvariant => EveryAttemptCountsOnce
  BY DEF ClientInvariant, Sound, EveryAttemptCountsOnce
<1> QED
  BY <1>1, ClientCorrect, PTL

\* While the switch does not come back under a connecting socket, a client that is
\* on and was not refused for good always has something left to wake it.
THEOREM ClientNeverStuck ==
  ASSUME ~QuickRestart  PROVE  Spec => []NeverStuck
<1>1. ClientInvariant => NeverStuck
  BY DEF ClientInvariant, Awaited, Trying, NeverStuck, Pending
<1> QED
  BY <1>1, ClientCorrect, PTL

-----------------------------------------------------------------------------
(* An identifier is given up only when the server holds another's claim on  *)
(* it, or another one for this credential.                                  *)

\* A refusal on its way back still stands: only a claim could overturn it.
RefusalStands == reply \in {"idTaken", "ownerHasOther"} => held # "ours"

\* Nothing overturns a refusal before it is read.
LEMMA RefusalStep == ClientInvariant /\ RefusalStands /\ [Next]_vars => RefusalStands'
<1> SUFFICES ASSUME ClientInvariant, RefusalStands, [Next]_vars  PROVE  RefusalStands'
  OBVIOUS
<1> USE DEF RefusalStands
<1>1. CASE reply' \notin {"idTaken", "ownerHasOther"}
  BY <1>1
<1>2. CASE reply' = reply /\ held' = held
  BY <1>2
<1>3. CASE Start \/ RetryFires
  BY <1>3 DEF Start, RetryFires, ClaimOrOpen, Claim, ServerSame
<1>4. CASE Restart
  BY <1>4 DEF Restart
<1>5. CASE ServerClaims
  BY <1>5 DEF ServerClaims, Verdict, ClientInvariant, Around
<1>6. CASE ClaimLost \/ ClaimAnswered
  BY <1>6 DEF ClaimLost, ClaimAnswered
<1>7. CASE Server
  BY <1>7 DEF Server, ServerForgets, ServerFindsAnother, ServerRedeployed
<1>8. CASE Stop \/ Opening
  BY <1>2, <1>8 DEF Stop, Opening, OnRaceWon, OnRaceLost, OnConnected, LineRefused,
     OnOpenTimeout, SocketClosed, FailSoonRuns, ServerSame
<1>9. CASE Holding
  BY <1>2, <1>9 DEF Holding, LineDropped, OnErrorFrame, LineFailsOpen, AbortSoonRuns,
     LineGoesSilent, OnKeepAlive, OnPong, OnWatchdog, ServerSame
<1>10. CASE UNCHANGED vars
  BY <1>2, <1>10 DEF vars
<1> QED
  BY <1>3, <1>4, <1>5, <1>6, <1>7, <1>8, <1>9, <1>10 DEF Next, Claiming

\* Opening a line redraws nothing.
LEMMA OpenLineRedraws ==
  ASSUME NEW d \in ClientType, OpenLine(d)  PROVE  c'.redraws = d.redraws
<1> DEFINE begun == [d EXCEPT !.opening = TRUE, !.everUp = FALSE, !.winner = NoFamily,
                              !.racing = d.pinned,
                              !.tries = IF @ < ReclaimAfter THEN @ + 1 ELSE @]
<1>1. c' \in {d, begun, [begun EXCEPT !.failSoon = TRUE]}
  BY DEF OpenLine
<1>2. begun.redraws = d.redraws /\ [begun EXCEPT !.failSoon = TRUE].redraws = begun.redraws
  BY DEF ClientType
<1> HIDE DEF begun
<1> QED
  BY <1>1, <1>2

\* The handlers of the switch and of the retry.
LEMMA SwitchRedraws ==
  ASSUME ClientInvariant, Start \/ Stop \/ RetryFires  PROVE  c'.redraws = c.redraws
<1> USE DEF ClientInvariant, Sound
<1>1. CASE Start
  <2> DEFINE d == [c EXCEPT !.running = TRUE, !.halted = FALSE]
  <2>1. d \in ClientType /\ d.redraws = c.redraws
    BY DEF ClientType
  <2>2. OpenLine(d) \/ c' = d
    BY <1>1 DEF Start, ClaimOrOpen, Claim
  <2> HIDE DEF d
  <2> QED
    BY <2>1, <2>2, OpenLineRedraws
<1>2. CASE RetryFires
  <2> DEFINE d == [c EXCEPT !.retry = FALSE]
  <2>1. d \in ClientType /\ d.redraws = c.redraws
    BY DEF ClientType
  <2>2. OpenLine(d) \/ c' = d
    BY <1>2 DEF RetryFires, ClaimOrOpen, Claim
  <2> HIDE DEF d
  <2> QED
    BY <2>1, <2>2, OpenLineRedraws
<1>3. CASE Stop
  <2> DEFINE d == [c EXCEPT !.running = FALSE, !.retry = FALSE, !.keepAlive = FALSE,
                            !.watchdog = FALSE, !.online = FALSE]
             a == [d EXCEPT !.opening = FALSE, !.racing = FALSE]
  <2>1. d \in ClientType /\ d.redraws = c.redraws /\ a.redraws = d.redraws
    BY DEF ClientType
  <2>2. c' = [a EXCEPT !.tries = IF d.opening THEN a.tries - 1 ELSE a.tries]
    BY <1>3 DEF Stop, DropAttempt, AbandonAttempt
  <2> HIDE DEF d
  <2>3. a \in ClientType
    BY <2>1 DEF ClientType
  <2> HIDE DEF a
  <2> QED
    BY <2>1, <2>2, <2>3 DEF ClientType
<1> QED
  BY <1>1, <1>2, <1>3

\* Those of the attempt and of the line.
LEMMA EventsRedraw ==
  ASSUME ClientInvariant, Opening \/ Holding  PROVE  c'.redraws = c.redraws
<1> USE DEF ClientInvariant
<1>1. CASE OnRaceWon \/ OnConnected \/ OnErrorFrame \/ LineFailsOpen \/ LineGoesSilent
           \/ OnKeepAlive \/ OnPong
  <2>1. c \in ClientType
    BY DEF Sound
  <2>2. CASE OnRaceWon \/ OnPong
    BY <2>1, <2>2 DEF OnRaceWon, OnPong, ClientType
  <2>3. CASE OnConnected \/ OnErrorFrame \/ LineFailsOpen \/ LineGoesSilent \/ OnKeepAlive
    BY <2>1, <2>3 DEF OnConnected, OnErrorFrame, Halt, LineFailsOpen, LineGoesSilent,
       OnKeepAlive, ClientType
  <2> QED
    BY <1>1, <2>2, <2>3
<1>2. CASE OnRaceLost
  BY <1>2, AttemptFailedKeeps DEF OnRaceLost, Alike
<1>3. CASE SocketClosed \/ LineDropped
  BY <1>3, OnDisconnectedKeeps DEF SocketClosed, LineDropped, Alike
<1>4. CASE LineRefused
  <2>1. PICK soon \in BOOLEAN :
          c' = OnDisconnected([c EXCEPT !.failSoon = c.failSoon \/ (soon /\ c.opening)])
    BY <1>4 DEF LineRefused
  <2> DEFINE d == [c EXCEPT !.failSoon = c.failSoon \/ (soon /\ c.opening)]
  <2>2. Sound(d) /\ d.redraws = c.redraws
    BY DEF Sound, ClientType
  <2> HIDE DEF d
  <2> QED
    BY <2>1, <2>2, OnDisconnectedKeeps DEF Alike, d
<1>5. CASE OnOpenTimeout
  <2> DEFINE d == [c EXCEPT !.lead = NextLead(c)]
             e == AttemptFailed(d)
  <2>1. \E f \in Families : f # c.winner
    BY DEF Families
  <2>2. NextLead(c) \in Families \cup {NoFamily}
    BY <2>1 DEF NextLead, Sound, ClientType
  <2>3. Sound(d) /\ d.redraws = c.redraws
    BY <2>2 DEF Sound, ClientType
  <2>4. c' = e \/ c' = OnDisconnected(e)
    BY <1>5 DEF OnOpenTimeout, TimedOut
  <2> HIDE DEF d
  <2>5. Sound(e) /\ e.redraws = d.redraws
    BY <2>3, AttemptFailedKeeps DEF Alike
  <2> HIDE DEF e
  <2> QED
    BY <2>3, <2>4, <2>5, OnDisconnectedKeeps DEF Alike
<1>6. CASE FailSoonRuns
  <2> DEFINE d == [c EXCEPT !.failSoon = FALSE]
  <2>1. Sound(d) /\ d.redraws = c.redraws
    BY DEF Sound, ClientType
  <2>2. c' \in {d, AttemptFailed(d)}
    BY <1>6 DEF FailSoonRuns
  <2> HIDE DEF d
  <2> QED
    BY <2>1, <2>2, AttemptFailedKeeps DEF Alike
<1>7. CASE AbortSoonRuns \/ OnWatchdog
  <2> DEFINE d == [c EXCEPT !.abortSoon = FALSE]
             e == [c EXCEPT !.watchdog = FALSE]
  <2>1. Sound(d) /\ d.redraws = c.redraws /\ Sound(e) /\ e.redraws = c.redraws
    BY DEF Sound, ClientType
  <2>2. c' \in {d, OnDisconnected(d), e, OnDisconnected(e)}
    BY <1>7 DEF AbortSoonRuns, OnWatchdog
  <2> HIDE DEF d, e
  <2> QED
    BY <2>1, <2>2, OnDisconnectedKeeps DEF Alike
<1> QED
  BY <1>1, <1>2, <1>3, <1>4, <1>5, <1>6, <1>7 DEF Opening, Holding

\* An answer to a claim redraws when it refuses, and while redraws are left.
LEMMA AnswerRedraws ==
  ASSUME ClientInvariant, ClaimAnswered, c'.redraws = c.redraws + 1
  PROVE  reply \in {"idTaken", "ownerHasOther"} /\ MayRedraw(c)
<1>1. c \in ClientType /\ c.redraws + 1 # c.redraws
  BY DEF ClientInvariant, Sound, ClientType
<1>2. c' # c
  BY <1>1
<1>3. ASSUME OpenLine([c EXCEPT !.claimed = TRUE])  PROVE  c'.redraws = c.redraws
  <2> DEFINE d == [c EXCEPT !.claimed = TRUE]
  <2>1. d \in ClientType /\ d.redraws = c.redraws
    BY <1>1 DEF ClientType
  <2> QED
    BY <1>3, <2>1, OpenLineRedraws
<1>4. ScheduleRetry(c).redraws = c.redraws /\ Halt(c).redraws = c.redraws
  BY <1>1 DEF ScheduleRetry, Halt, ClientType
<1> QED
  BY <1>1, <1>2, <1>3, <1>4 DEF ClaimAnswered

\* The step that redraws an id reads a refusal that stands.
LEMMA RedrawStep ==
  ASSUME ClientInvariant, RefusalStands, [Next]_vars, c'.redraws = c.redraws + 1
  PROVE  held # "ours" /\ c.redraws < MaxRedraws
<1>1. c.redraws + 1 # c.redraws /\ c.redraws + 1 # 0
  BY DEF ClientInvariant, Sound, ClientType
<1>2. c'.redraws # c.redraws /\ c' # c
  BY <1>1
<1>3. ~(Start \/ Stop \/ RetryFires \/ Opening \/ Holding)
  BY <1>2, SwitchRedraws, EventsRedraw
<1>4. ~Restart
  BY <1>1 DEF Restart, Idle
<1>5. ~(ServerClaims \/ ClaimLost \/ Server \/ UNCHANGED vars)
  BY <1>2 DEF ServerClaims, ClaimLost, Server, ServerForgets, ServerFindsAnother,
     ServerRedeployed, vars
<1>6. ClaimAnswered
  BY <1>3, <1>4, <1>5 DEF Next, Claiming
<1> QED
  BY <1>6, AnswerRedraws DEF RefusalStands, MayRedraw

\* An identifier is redrawn only while the server does not hold it for this
\* instance, and a bounded number of times in one life of the process.
THEOREM ClientKeepsItsId == Spec => OurIdIsKept
<1>1. Init => RefusalStands
  BY DEF Init, RefusalStands
<1>2. ClientInvariant /\ RefusalStands /\ [Next]_vars =>
        [c'.redraws = c.redraws + 1 => held # "ours" /\ c.redraws < MaxRedraws]_vars
  BY RedrawStep
<1> QED
  BY <1>1, <1>2, ClientCorrect, RefusalStep, PTL DEF Spec, OurIdIsKept
=============================================================================
