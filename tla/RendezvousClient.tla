-------------------------- MODULE RendezvousClient --------------------------
(***************************************************************************)
(* The instance's side of the introduction server (network/                *)
(* RendezvousClient.cpp): claim an identifier, hold one line, come back    *)
(* after every failure, and stop only when told to or refused in words.    *)
(*                                                                         *)
(* One Qt thread runs every handler to its end, so a handler is one step;  *)
(* what interleaves is their order: replies, socket events, timers, the    *)
(* zero-delay lambdas of onSocketError and the owner's switch.  The        *)
(* handlers are operators on the record of the object's members, applied   *)
(* in the order the code calls them.                                       *)
(*                                                                         *)
(* The server is what its answers depend on: who holds the identifier and  *)
(* whether it speaks this build's revision.  Delays, the random jitter and *)
(* the identifiers' digits are left out.                                   *)
(***************************************************************************)
EXTENDS Naturals

CONSTANTS
  CanPin,        \* whether the Qt loaded lets the line be raced: the answers considered
  Stalled,       \* the address families whose TLS or upgrade never completes
  QuickRestart,  \* whether the switch may come back while a socket is connecting
  ReclaimAfter,  \* kReclaimAfterFailures
  MaxRedraws,    \* kMaxIdentityRedraws
  MaxFaults,     \* bound: how often the server or the network misbehaves
  MaxToggles     \* bound: how often the owner starts the line, or the process dies

Families == {"IPv4", "IPv6"}

ASSUME ModesAssumption == CanPin \subseteq BOOLEAN /\ QuickRestart \in BOOLEAN
ASSUME StalledAssumption == Stalled \subseteq Families
ASSUME CountsAssumption ==
  ReclaimAfter \in Nat \ {0} /\ MaxRedraws \in Nat /\ MaxFaults \in Nat /\ MaxToggles \in Nat

VARIABLES
  c,        \* the members of RendezvousClient that decide anything
  sock,     \* m_Socket.state(); "doomed" is connecting with a close requested
  reply,    \* the claim in flight: m_Claiming is reply # "none"
  held,     \* what the server's store says of this instance
  serves,   \* whether the server speaks this build's protocol revision
  silent,   \* a connected line that carries nothing any more
  pong,     \* a pong is on its way
  faults,   \* misbehaviours left
  toggles,  \* starts and restarts left
  gaveUp    \* history: the last claim's refusal was final

vars == <<c, sock, reply, held, serves, silent, pong, faults, toggles, gaveUp>>

NoFamily == "none"

ClientType ==
  [pinned : BOOLEAN,  \* canPinLine(), the same for good
   dials : Families \cup {NoFamily},  \* what Qt dials first for a line that goes by name
   running : BOOLEAN, halted : BOOLEAN, claimed : BOOLEAN,
   opening : BOOLEAN, racing : BOOLEAN, everUp : BOOLEAN, online : BOOLEAN,
   failures : 0..ReclaimAfter, redraws : 0..MaxRedraws,
   retry : BOOLEAN, keepAlive : BOOLEAN, watchdog : BOOLEAN,
   winner : Families \cup {NoFamily}, lead : Families \cup {NoFamily},
   failSoon : BOOLEAN, abortSoon : BOOLEAN,
   tries : 0..ReclaimAfter]  \* history: the attempts c.failures should account for

Sockets == {"unconnected", "connecting", "doomed", "connected", "closing"}
Answers == {"ok", "idTaken", "ownerHasOther", "limited", "unsupported", "failed"}

(* What this type says the code never assigns outside these sets: the      *)
(* failures stop at the re-claim and the redraws at their bound.           *)
TypeOK ==
  /\ c \in ClientType /\ c.failures < ReclaimAfter
  /\ sock \in Sockets
  /\ reply \in Answers \cup {"none", "sent"}
  /\ held \in {"none", "ours", "idTaken", "ownerHasOther"}
  /\ serves \in BOOLEAN /\ silent \in BOOLEAN /\ pong \in BOOLEAN /\ gaveUp \in BOOLEAN
  /\ faults \in 0..MaxFaults /\ toggles \in 0..MaxToggles

Idle(pinned, dials, claimed) ==
  [pinned |-> pinned, dials |-> dials, running |-> FALSE, halted |-> FALSE, claimed |-> claimed,
   opening |-> FALSE, racing |-> FALSE, everUp |-> FALSE, online |-> FALSE,
   failures |-> 0, redraws |-> 0,
   retry |-> FALSE, keepAlive |-> FALSE, watchdog |-> FALSE,
   winner |-> NoFamily, lead |-> NoFamily, failSoon |-> FALSE, abortSoon |-> FALSE,
   tries |-> 0]

(* A settings file may say claimed when the server no longer agrees: a     *)
(* restored backup, a store that was lost.                                 *)
Init ==
  /\ \E pinned \in CanPin, claimed \in BOOLEAN :
       \E dials \in IF pinned THEN {NoFamily} ELSE Families : c = Idle(pinned, dials, claimed)
  /\ sock = "unconnected" /\ reply = "none"
  /\ held \in {"none", "ours", "idTaken", "ownerHasOther"}
  /\ serves \in BOOLEAN
  /\ silent = FALSE /\ pong = FALSE /\ gaveUp = FALSE
  /\ faults = MaxFaults /\ toggles = MaxToggles

Spend == faults > 0 /\ faults' = faults - 1
ServerSame == UNCHANGED <<held, serves>>
WireSame == UNCHANGED <<silent, pong>>
BoundsSame == UNCHANGED <<faults, toggles>>

---------------------------------------------------------------------------
(* The object's own functions.                                             *)

ScheduleRetry(d) == [d EXCEPT !.retry = @ \/ d.running]

AbandonAttempt(d) == [d EXCEPT !.opening = FALSE, !.racing = FALSE]

\* Mutant: a failure is counted whoever reports it, and however often.
FailAnyTime(d) == d.running
InAttempt(d) == d.opening

\* Mutant: the claim is trusted whatever the line says.
NeverReclaim(n) == n < 0
Reclaims(n) == n >= ReclaimAfter

AttemptFailed(d) ==
  IF ~InAttempt(d) THEN d
  ELSE LET a == AbandonAttempt(d)
           n == IF a.failures < ReclaimAfter THEN a.failures + 1 ELSE a.failures
       IN  ScheduleRetry(IF Reclaims(n)
                         THEN [a EXCEPT !.failures = 0, !.tries = 0, !.claimed = FALSE]
                         ELSE [a EXCEPT !.failures = n])

LineOff(d) == [d EXCEPT !.keepAlive = FALSE, !.watchdog = FALSE, !.online = FALSE]

RefusedInWords(d) == d.halted

OnDisconnected(d) ==
  CASE RefusedInWords(d) -> LineOff(d)
    [] ~RefusedInWords(d) /\ ~d.everUp -> AttemptFailed(LineOff(d))
    [] OTHER -> ScheduleRetry([LineOff(d) EXCEPT !.failures = 0])

Halt(d) == [d EXCEPT !.halted = TRUE, !.retry = FALSE]

CanOpen(d) == d.running /\ ~d.halted /\ ~d.opening /\ sock = "unconnected"

(* openLine() returns without a word unless CanOpen.  A line that goes by  *)
(* name is opened at once, and a URL Qt will not open is an error and      *)
(* nothing else: the socket stays where it is.                             *)
OpenLine(d) ==
  IF ~CanOpen(d) THEN c' = d /\ UNCHANGED <<sock, faults>>
  ELSE LET begun == [d EXCEPT !.opening = TRUE, !.everUp = FALSE,
                              !.winner = NoFamily, !.racing = d.pinned,
                              !.tries = IF @ < ReclaimAfter THEN @ + 1 ELSE @]
       IN  \/ /\ c' = begun
              /\ sock' = IF d.pinned THEN sock ELSE "connecting"
              /\ UNCHANGED faults
           \/ /\ ~d.pinned /\ Spend
              /\ c' = [begun EXCEPT !.failSoon = TRUE]
              /\ UNCHANGED sock

Claim(d) ==
  /\ c' = d
  /\ reply' = IF reply = "none" /\ d.running /\ ~d.halted THEN "sent" ELSE reply

ClaimOrOpen(d) ==
  IF d.claimed THEN OpenLine(d) /\ UNCHANGED reply
  ELSE Claim(d) /\ UNCHANGED <<sock, faults>>

---------------------------------------------------------------------------
(* The owner's switch, and the process.                                    *)

Start ==
  /\ toggles > 0 /\ toggles' = toggles - 1
  /\ ~c.running
  /\ QuickRestart \/ sock # "doomed"
  /\ ClaimOrOpen([c EXCEPT !.running = TRUE, !.halted = FALSE])
  /\ gaveUp' = FALSE
  /\ ServerSame /\ WireSame

(* close() on a socket still connecting waits for the connection: Qt keeps *)
(* it connecting and hangs up when it comes through.                       *)
Closed(s) ==
  CASE s = "connecting" -> "doomed"
    [] s = "connected" -> "closing"
    [] OTHER -> s

DropAttempt(d) ==
  [AbandonAttempt(d) EXCEPT !.tries = IF d.opening THEN @ - 1 ELSE @]

Stop ==
  /\ c.running
  /\ c' = DropAttempt([c EXCEPT !.running = FALSE, !.retry = FALSE, !.keepAlive = FALSE,
                                !.watchdog = FALSE, !.online = FALSE])
  /\ sock' = Closed(sock)
  /\ UNCHANGED <<reply, gaveUp>>
  /\ ServerSame /\ WireSame /\ BoundsSame

(* The process dies and comes back: the settings survive, the rest not.    *)
Restart ==
  /\ toggles > 0 /\ toggles' = toggles - 1
  /\ c' = Idle(c.pinned, c.dials, c.claimed)
  /\ sock' = "unconnected" /\ reply' = "none"
  /\ silent' = FALSE /\ pong' = FALSE /\ gaveUp' = FALSE
  /\ UNCHANGED faults /\ ServerSame

RetryFires ==
  /\ c.retry
  /\ ClaimOrOpen([c EXCEPT !.retry = FALSE])
  /\ UNCHANGED <<toggles, gaveUp>> /\ ServerSame /\ WireSame

---------------------------------------------------------------------------
(* The claim.  The server's answer is decided when it handles the request  *)
(* and read when the reply arrives.                                        *)

\* Mutant: an identifier already claimed is refused to its owner too.
VerdictOnceOnly ==
  CASE ~serves -> "unsupported" [] held = "none" -> "ok" [] OTHER -> "idTaken"
Verdict ==
  IF ~serves THEN "unsupported" ELSE IF held \in {"none", "ours"} THEN "ok" ELSE held

ServerClaims ==
  /\ reply = "sent"
  /\ reply' = Verdict
  /\ held' = IF Verdict = "ok" THEN "ours" ELSE held
  /\ UNCHANGED <<c, sock, serves, gaveUp>> /\ WireSame /\ BoundsSame

(* Unreachable, cut by its transfer timeout, an error page, or refused for *)
(* its rate: the store may have granted it all the same.                   *)
ClaimLost ==
  /\ reply = "sent" /\ Spend
  /\ reply' \in {"failed", "limited"}
  /\ held' \in {held} \cup (IF reply' = "failed" /\ Verdict = "ok" THEN {"ours"} ELSE {})
  /\ UNCHANGED <<c, sock, serves, toggles, gaveUp>> /\ WireSame

MayRedraw(d) == d.redraws < MaxRedraws

(* setRendezvousId() clears the claimed flag.  With the credential kept, a *)
(* fresh identifier is free, but the credential may hold another one.      *)
Redraw(d) ==
  ScheduleRetry([d EXCEPT !.claimed = FALSE, !.redraws = @ + 1])

ClaimAnswered ==
  /\ reply \in Answers
  /\ reply' = "none"
  /\ \/ ~c.running /\ UNCHANGED <<c, sock, held, faults, gaveUp>>
     \/ /\ c.running /\ reply = "ok"
        /\ OpenLine([c EXCEPT !.claimed = TRUE]) /\ UNCHANGED <<held, gaveUp>>
     \/ /\ c.running /\ reply \in {"idTaken", "ownerHasOther"} /\ MayRedraw(c)
        /\ c' = Redraw(c)
        /\ held' \in {"none"} \cup (IF reply = "idTaken" THEN {"ownerHasOther"} ELSE {})
        /\ UNCHANGED <<sock, faults, gaveUp>>
     \/ /\ c.running /\ reply \in {"idTaken", "ownerHasOther"} /\ ~MayRedraw(c)
        /\ gaveUp' = TRUE
        /\ UNCHANGED <<c, sock, held, faults>>
     \/ /\ c.running /\ reply \in {"limited", "failed"}
        /\ c' = ScheduleRetry(c) /\ UNCHANGED <<sock, held, faults, gaveUp>>
     \/ /\ c.running /\ reply = "unsupported"
        /\ c' = Halt(c) /\ UNCHANGED <<sock, held, faults, gaveUp>>
  /\ UNCHANGED <<serves, toggles>> /\ WireSame

---------------------------------------------------------------------------
(* The attempt: lookup and race, then the socket.                          *)

(* The race is over in time unless the network is at fault.  The family    *)
(* asked to lead has the head start and wins while its TCP answers.        *)
OnRaceWon ==
  /\ c.racing
  /\ \E f \in IF c.lead = NoFamily THEN Families ELSE {c.lead} :
       c' = [c EXCEPT !.racing = FALSE, !.winner = f]
  /\ sock' = "connecting"
  /\ UNCHANGED <<reply, gaveUp>> /\ ServerSame /\ WireSame /\ BoundsSame

(* Also onResolved() with no address at all.                               *)
OnRaceLost ==
  /\ c.racing /\ Spend
  /\ c' = AttemptFailed(c)
  /\ UNCHANGED <<sock, reply, toggles, gaveUp>> /\ ServerSame /\ WireSame

(* A raced line goes to the address that won; by name, Qt goes to the same *)
(* one at every attempt.                                                   *)
Dialled == IF c.pinned THEN c.winner ELSE c.dials
Reaches == Dialled \notin Stalled

OnConnected ==
  /\ sock = "connecting" /\ Reaches /\ held = "ours"
  /\ sock' = "connected"
  /\ c' = [c EXCEPT !.opening = FALSE, !.lead = NoFamily, !.failures = 0, !.tries = 0,
                    !.everUp = TRUE, !.keepAlive = TRUE, !.online = TRUE]
  /\ silent' = FALSE /\ pong' = FALSE
  /\ UNCHANGED <<reply, gaveUp>> /\ ServerSame /\ BoundsSame

(* The handshake is refused: the server holds no such claim, or is down.   *)
(* Qt reports the error, with the lambda it leaves, and then disconnected. *)
LineRefused ==
  /\ sock = "connecting" /\ Reaches
  /\ \/ held # "ours" /\ UNCHANGED faults
     \/ held = "ours" /\ Spend
  /\ sock' = "unconnected"
  /\ \E soon \in BOOLEAN :
       c' = OnDisconnected([c EXCEPT !.failSoon = @ \/ (soon /\ c.opening)])
  /\ UNCHANGED <<reply, toggles, gaveUp>> /\ ServerSame /\ WireSame

(* A family that won the race and then stalled does not lead the next one. *)
NextLead(d) ==
  IF d.winner = NoFamily THEN d.lead ELSE CHOOSE f \in Families : f # d.winner

\* Mutant: the timeout leaves the counting and the retry to disconnected().
TimedOutQuietly(d) == AbandonAttempt(d)
TimedOut(d) == AttemptFailed(d)

(* An attempt that could come up has the time to: the timeout finds one    *)
(* that stalled, or costs a fault.  abort() may say disconnected.          *)
OnOpenTimeout ==
  /\ c.opening
  /\ \/ sock = "connecting" /\ ~Reaches /\ UNCHANGED faults
     \/ Spend
  /\ LET failed == TimedOut([c EXCEPT !.lead = NextLead(c)])
     IN  \/ sock = "unconnected" /\ c' = failed
         \/ sock # "unconnected" /\ c' \in {failed, OnDisconnected(failed)}
  /\ sock' = "unconnected"
  /\ UNCHANGED <<reply, toggles, gaveUp>> /\ ServerSame /\ WireSame

(* A socket that was told to close is done with it.                        *)
SocketClosed ==
  /\ sock \in {"doomed", "closing"}
  /\ sock' = "unconnected"
  /\ c' = OnDisconnected(c)
  /\ UNCHANGED <<reply, gaveUp>> /\ ServerSame /\ WireSame /\ BoundsSame

(* The zero-delay lambda of an error before the connection.                *)
FailSoonRuns ==
  /\ c.failSoon
  /\ LET d == [c EXCEPT !.failSoon = FALSE]
     IN  c' = IF sock = "unconnected" THEN AttemptFailed(d) ELSE d
  /\ UNCHANGED <<sock, reply, gaveUp>> /\ ServerSame /\ WireSame /\ BoundsSame

---------------------------------------------------------------------------
(* The line that is up.                                                    *)

(* The server hangs up; with the error frame it owed, or on its own.       *)
LineDropped ==
  /\ sock = "connected"
  /\ \/ c.halted /\ UNCHANGED faults
     \/ Spend
  /\ sock' = "unconnected"
  /\ c' = OnDisconnected(c)
  /\ UNCHANGED <<reply, toggles, gaveUp>> /\ ServerSame /\ WireSame

(* onTextMessage, the one frame without a session: the revision is not     *)
(* served.                                                                 *)
OnErrorFrame ==
  /\ sock = "connected" /\ ~serves /\ ~silent /\ ~c.halted
  /\ c' = Halt(c)
  /\ UNCHANGED <<sock, reply, gaveUp>> /\ ServerSame /\ WireSame /\ BoundsSame

(* An error on an open line that Qt follows with nothing: TLS says goodbye *)
(* and TCP stays.                                                          *)
LineFailsOpen ==
  /\ sock = "connected" /\ Spend
  /\ silent' = TRUE /\ pong' = FALSE
  /\ c' = [c EXCEPT !.abortSoon = TRUE]
  /\ UNCHANGED <<sock, reply, toggles, gaveUp>> /\ ServerSame

AbortSoonRuns ==
  /\ c.abortSoon
  /\ LET d == [c EXCEPT !.abortSoon = FALSE]
     IN  c' = IF sock = "connected" THEN OnDisconnected(d) ELSE d
  /\ sock' = IF sock = "connected" THEN "unconnected" ELSE sock
  /\ UNCHANGED <<reply, gaveUp>> /\ ServerSame /\ WireSame /\ BoundsSame

(* Cut without a word: a NAT entry dropped, a Wi-Fi gone.                  *)
LineGoesSilent ==
  /\ sock = "connected" /\ ~silent /\ Spend
  /\ silent' = TRUE /\ pong' = FALSE
  /\ UNCHANGED <<c, sock, reply, toggles, gaveUp>> /\ ServerSame

(* Also the ping of onClockTick() at wake-up.                              *)
OnKeepAlive ==
  /\ c.keepAlive
  /\ c' = [c EXCEPT !.watchdog = TRUE]
  /\ pong' = (pong \/ (sock = "connected" /\ ~silent))
  /\ UNCHANGED <<sock, reply, silent, gaveUp>> /\ ServerSame /\ BoundsSame

OnPong ==
  /\ pong /\ pong' = FALSE
  /\ c' = IF sock = "connected" THEN [c EXCEPT !.watchdog = FALSE] ELSE c
  /\ UNCHANGED <<sock, reply, silent, gaveUp>> /\ ServerSame /\ BoundsSame

(* A line that is alive answers within the pong timeout.                   *)
OnWatchdog ==
  /\ c.watchdog /\ ~pong
  /\ LET d == [c EXCEPT !.watchdog = FALSE]
     IN  c' = IF sock # "unconnected" THEN OnDisconnected(d) ELSE d
  /\ sock' = "unconnected"
  /\ UNCHANGED <<reply, gaveUp>> /\ ServerSame /\ WireSame /\ BoundsSame

---------------------------------------------------------------------------
(* The server: it loses its store, another instance is found to hold the   *)
(* identifier, its revision changes with a deployment.                     *)


(* Each is a restart of the server, which carries the line no further.     *)
CutLine == silent' = (silent \/ sock = "connected") /\ pong' = FALSE

ServerForgets ==
  /\ held # "none" /\ Spend
  /\ held' = "none" /\ CutLine
  /\ UNCHANGED <<c, sock, reply, serves, toggles, gaveUp>>

ServerFindsAnother ==
  /\ held \in {"none", "ours"} /\ Spend
  /\ held' \in {"idTaken", "ownerHasOther"} /\ CutLine
  /\ UNCHANGED <<c, sock, reply, serves, toggles, gaveUp>>

ServerRedeployed ==
  /\ Spend
  /\ serves' = ~serves /\ CutLine
  /\ UNCHANGED <<c, sock, reply, held, toggles, gaveUp>>

Claiming == ServerClaims \/ ClaimLost \/ ClaimAnswered
Opening == OnRaceWon \/ OnRaceLost \/ OnConnected \/ LineRefused \/ OnOpenTimeout
           \/ SocketClosed \/ FailSoonRuns
Holding == LineDropped \/ OnErrorFrame \/ LineFailsOpen \/ AbortSoonRuns \/ LineGoesSilent
           \/ OnKeepAlive \/ OnPong \/ OnWatchdog
Server == ServerForgets \/ ServerFindsAnother \/ ServerRedeployed

Next == Start \/ Stop \/ Restart \/ RetryFires \/ Claiming \/ Opening \/ Holding \/ Server

Spec == Init /\ [][Next]_vars

(* The event loop delivers what is due, timers fire, the server answers    *)
(* what reaches it.  Nobody has to flip the switch, and faults may stop.   *)
Fairness ==
  /\ WF_vars(RetryFires) /\ WF_vars(ServerClaims) /\ WF_vars(ClaimAnswered)
  /\ WF_vars(OnRaceWon) /\ WF_vars(OnConnected) /\ WF_vars(LineRefused)
  /\ WF_vars(OnOpenTimeout) /\ WF_vars(SocketClosed) /\ WF_vars(FailSoonRuns)
  /\ WF_vars(OnErrorFrame) /\ WF_vars(AbortSoonRuns)
  /\ WF_vars(OnKeepAlive) /\ WF_vars(OnPong) /\ WF_vars(OnWatchdog)

FairSpec == Spec /\ Fairness

---------------------------------------------------------------------------
(* What the client owes.                                                   *)

Trying == c.running /\ ~c.halted

(* Something is on its way that will call the client back: a retry, a      *)
(* reply, an attempt with its timeout, or a socket that will disconnect    *)
(* after having been up.                                                   *)
Pending ==
  \/ c.retry \/ reply # "none" \/ c.opening \/ sock = "connected"
  \/ sock = "closing" /\ c.everUp

(* A client that is on and was not refused for good always has something   *)
(* left to wake it: no order of errors, timeouts and switches ends in a    *)
(* silence nobody will break (the failure told in attemptFailed()).        *)
NeverStuck == Trying /\ ~gaveUp => Pending

(* Every attempt that did not come up is counted once, whoever reports it: *)
(* the race, the error, the disconnection or the timeout; and an attempt   *)
(* the owner stopped is not counted.                                       *)
EveryAttemptCountsOnce == c.tries = c.failures + (IF c.opening THEN 1 ELSE 0)

(* A credential draws a bounded number of identities in one life of the    *)
(* process, however often the owner flips the switch; and it never leaves  *)
(* an identifier the server holds for it.                                  *)
OurIdIsKept ==
  [][c'.redraws = c.redraws + 1 => held # "ours" /\ c.redraws < MaxRedraws]_vars

(* There is a way through: for a raced line any family that does not       *)
(* stall, for a line by name the one Qt dials.                             *)
WayThrough == IF c.pinned THEN Stalled # Families ELSE c.dials \notin Stalled

(* When the switch stays on, the server has neither refused for good nor   *)
(* halted the client and there is a way through, the line ends up and      *)
(* stays up: after lost claims, refused lines, silent cuts, races won by   *)
(* a family that stalls.                                                   *)
ComesBack ==
  <>[](Trying /\ ~gaveUp /\ WayThrough) => <>[](c.online /\ ~silent /\ held = "ours")

(* The same of every line that could be reached by one of the families:    *)
(* what the race is there for, and what a line by name does not have.      *)
ComesBackByName ==
  <>[](Trying /\ ~gaveUp /\ Stalled # Families)
    => <>[](c.online /\ ~silent /\ held = "ours")

(* What RendezvousClient.h says of start(): it claims, then holds the      *)
(* line.  As NeverStuck, but even a socket that has yet to fail counts as  *)
(* something to wait for.                                                  *)
StartHoldsTheLine == Trying /\ ~gaveUp => Pending \/ sock # "unconnected"

(* What RendezvousClient.h says of lastError(): a client that stopped      *)
(* trying says why, and only halt() does.                                  *)
QuietMeansHalted == c.running /\ ~Pending => c.halted
=============================================================================
