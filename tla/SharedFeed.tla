------------------------------ MODULE SharedFeed ------------------------------
(***************************************************************************)
(* The guests' shared feed (backend/src/streaming/SharedFeed.cpp): one     *)
(* worker process captures and encodes the owner's display for every       *)
(* guest, each guest's own worker carries its pictures to a browser.       *)
(*                                                                         *)
(* Everything here runs on the server's main thread: a step is a slot, a   *)
(* timer or a route.  What interleaves is the rest: the worker processes,  *)
(* whose end is heard in two parts (`ended`, then `exited`), and the joins *)
(* of main.cpp, which wait for a process to go and for the router to       *)
(* answer between taking a place on the feed and starting on it.           *)
(*                                                                         *)
(* A spec keeps what two guests are compared by: the display (app), the    *)
(* height and whether the browser needs H.264.                             *)
(***************************************************************************)
EXTENDS Naturals, FiniteSets

CONSTANTS
  Slots,         \* the players' slots
  Workers,       \* worker processes alive at a time (a bound)
  Apps,          \* displays the owner may show
  Heights,       \* heights the owner may pick
  Codecs,        \* whether a joining browser needs H.264: a subset of BOOLEAN
  kMaxFailures,
  Happens,       \* which of Events this run lets happen
  None

Events == {"ownerStops",         \* the owner ends the players' sessions
           "launchFails",        \* a worker process cannot be started
           "joinsReplace",       \* a slot is joined while its worker still runs
           "joinRefused",        \* a join is refused on its way to the feed
           "joinsOverlap",       \* a slot is joined again before its join is over (once)
           "leaveWhileJoining",  \* a slot is stopped before its join is over
           "sentAway"}           \* a guest's share expires or is locked as they watch

ASSUME NoneAssumption == None \notin Workers
ASSUME FailuresAssumption == kMaxFailures \in Nat \ {0}
ASSUME HappensAssumption == Happens \subseteq Events
ASSUME FiniteAssumption == IsFiniteSet(Slots) /\ IsFiniteSet(Workers)
ASSUME ShowsAssumption == Apps # {} /\ Codecs # {} /\ Codecs \subseteq BOOLEAN

VARIABLES
  feed,    \* SharedFeed's members
  proc,    \* the feed's worker processes, as the server hears of them
  height,  \* ShareManager::feedHeight
  join,    \* the newest join of each slot
  late,    \* the specs of superseded joins that have yet to run
  wants,   \* what the newest join of each slot asked for
  ticket,  \* the pipe each slot's newest join was given: none, the feed's or an older one
  guest,     \* each slot's own worker: none, on the feed, or encoding alone
  forgotten  \* the slots still counted for a guest who was sent away

vars == <<feed, proc, height, join, late, wants, ticket, guest, forgotten>>

Specs == [app: Apps, height: Heights, h264: Codecs]
\* A pipe's number is used again once no process has it.
Pipes == 1..(Cardinality(Workers) + 1)

TypeOK ==
  /\ feed \in [worker: Workers \cup {None}, pipe: Pipes \cup {0}, spec: Specs,
               guests: SUBSET Slots, idle: BOOLEAN, restart: BOOLEAN, resizing: BOOLEAN,
               failures: 0..kMaxFailures, failed: BOOLEAN]
  /\ proc \in [Workers -> [st: {"free", "up", "down", "gone"}, pipe: Pipes \cup {0},
                           heard: BOOLEAN, again: BOOLEAN]]
  /\ height \in Heights
  /\ join \in [Slots -> {"no", "waiting", "claiming"}]
  /\ late \in [Slots -> SUBSET Specs]
  /\ wants \in [Slots -> Specs]
  /\ ticket \in [Slots -> {"none", "this", "older"}]
  /\ guest \in [Slots -> {"none", "fed", "alone"}]
  /\ forgotten \subseteq feed.guests

AnySpec == CHOOSE s \in Specs : TRUE
NoProcess == [st |-> "free", pipe |-> 0, heard |-> FALSE, again |-> FALSE]

Init ==
  /\ feed = [worker |-> None, pipe |-> 0, spec |-> AnySpec, guests |-> {}, idle |-> FALSE,
             restart |-> FALSE, resizing |-> FALSE, failures |-> 0, failed |-> FALSE]
  /\ proc = [w \in Workers |-> NoProcess]
  /\ height \in Heights
  /\ join = [s \in Slots |-> "no"]
  /\ late = [s \in Slots |-> {}]
  /\ wants = [s \in Slots |-> AnySpec]
  /\ ticket = [s \in Slots |-> "none"]
  /\ guest = [s \in Slots |-> "none"]
  /\ forgotten = {}

(***************************************************************************)
(* The methods of the class.  Each takes the feed and its processes as a   *)
(* record F and returns what becomes of them.                              *)
(***************************************************************************)
Now == [feed |-> feed, proc |-> proc]

Due(f) == f.restart \/ f.resizing

\* A worker whose end is asked for is not heard of by onEnded.
AskToQuit(ps, w, again) == [ps EXCEPT ![w].heard = FALSE, ![w].again = again]

StopWorker(F) ==
  [feed |-> [F.feed EXCEPT !.idle = FALSE, !.restart = FALSE, !.worker = None],
   proc |-> IF F.feed.worker = None THEN F.proc ELSE AskToQuit(F.proc, F.feed.worker, FALSE)]

\* Mutant: the guests told to rejoin stay counted on the new feed.
RetireCounted(F) == StopWorker(F)
RetireForCodec(F) == [StopWorker(F) EXCEPT !.feed.guests = {}]

FreeWorkers(ps) == {w \in Workers : ps[w].st = "free"}

\* What launch() may come to; the process is taken from those not running.
Launch(F) ==
  LET w == CHOOSE x \in FreeWorkers(F.proc) : TRUE
      started == [ok |-> TRUE,
                  feed |-> [F.feed EXCEPT !.worker = w],
                  proc |-> [F.proc EXCEPT ![w] = [st |-> "up", pipe |-> F.feed.pipe,
                                                  heard |-> TRUE, again |-> FALSE]]]
  IN {started} \cup (IF "launchFails" \in Happens
                     THEN {[ok |-> FALSE, feed |-> F.feed, proc |-> F.proc]} ELSE {})

UsedPipes == {feed.pipe} \cup {proc[w].pipe : w \in {x \in Workers : proc[x].st # "free"}}
NewPipe == CHOOSE p \in Pipes : p \notin UsedPipes

SameFeed(a, b) == a.app = b.app /\ a.height = b.height

Refused(F) == {[ok |-> FALSE, feed |-> F.feed, proc |-> F.proc]}
Seated(F, s) == [ok |-> TRUE, feed |-> [F.feed EXCEPT !.guests = @ \cup {s}], proc |-> F.proc]

\* Mutant: any guest is sent to the feed that relaunches.
JoinAnyWait(F, spec, s) == {Seated(F, s)}

\* Mutant: a guest who comes while the feed relaunches is not counted.
JoinUncounted(F, spec, s) == {[ok |-> TRUE, feed |-> F.feed, proc |-> F.proc]}

\* While a relaunch is due: in with those who wait, or alone.
JoinTheWait(F, spec, s) ==
  IF SameFeed(spec, F.feed.spec) /\ (spec.h264 => F.feed.spec.h264)
  THEN {Seated(F, s)} ELSE Refused(F)

\* A new feed, for a guest who found none running.
Begin(F, spec, s) ==
  LET fresh == [F EXCEPT !.feed.spec = spec, !.feed.pipe = NewPipe, !.feed.failures = 0]
  IN {IF l.ok THEN Seated(l, s) ELSE l : l \in Launch(fresh)}

\* A feed runs that does not serve this guest: it makes room, or the guest is refused.
MakeRoom(F, spec, others) ==
  IF F.feed.worker = None THEN F
  ELSE IF ~SameFeed(spec, F.feed.spec) THEN StopWorker(F)
  ELSE IF spec.h264 /\ ~F.feed.spec.h264
       THEN (IF others = {} THEN StopWorker(F) ELSE RetireForCodec(F))
  ELSE F

\* Mutant: another display's guest takes the feed from those who watch it.
AcquireAnyway(F, spec, s) ==
  LET room == [MakeRoom(F, spec, F.feed.guests \ {s}) EXCEPT !.feed.idle = FALSE]
  IN IF F.feed.failed THEN Refused(F)
     ELSE IF F.feed.worker = None /\ Due(F.feed) THEN JoinTheWait(F, spec, s)
     ELSE IF room.feed.worker = None THEN Begin(room, spec, s)
     ELSE {Seated(room, s)}
Acquire(F, spec, s) ==
  LET f == F.feed
      others == f.guests \ {s}
      room == [MakeRoom(F, spec, others) EXCEPT !.feed.idle = FALSE]
  IN IF f.failed THEN Refused(F)
     ELSE IF f.worker = None /\ Due(f) THEN JoinTheWait(F, spec, s)
     ELSE IF f.worker # None /\ ~SameFeed(spec, f.spec) /\ others # {} THEN Refused(F)
     ELSE IF room.feed.worker = None THEN Begin(room, spec, s)
     ELSE {Seated(room, s)}

\* Mutant: a guest who leaves starts no timer.
ReleaseQuietly(f, s) == [f EXCEPT !.guests = @ \ {s}]
Release(f, s) ==
  LET left == f.guests \ {s}
  IN [f EXCEPT !.guests = left,
               !.idle = f.idle \/ (s \in f.guests /\ left = {} /\ f.worker # None)]

Reset(F) ==
  LET G == StopWorker(F)
  IN [G EXCEPT !.feed.guests = {}, !.feed.resizing = FALSE, !.feed.failed = FALSE,
               !.feed.failures = 0]

\* Mutant: nobody relaunches the feed once the old worker is gone.
ResizeOnly(F, h) ==
  LET G == [F EXCEPT !.feed.spec.height = h]
  IN IF h = F.feed.spec.height \/ F.feed.worker = None THEN G
     ELSE [StopWorker(G) EXCEPT !.feed.resizing = F.feed.guests # {}]

\* Mutant: the relaunch does not wait for the old worker to be gone.
ResizeSoon(F, h) ==
  LET G == [F EXCEPT !.feed.spec.height = h]
  IN IF h = F.feed.spec.height \/ F.feed.worker = None THEN G
     ELSE [StopWorker(G) EXCEPT !.feed.restart = F.feed.guests # {}]
Resize(F, h) ==
  LET G == [F EXCEPT !.feed.spec.height = h]
      w == F.feed.worker
  IN IF h = F.feed.spec.height THEN F
     ELSE IF w = None THEN G
     ELSE IF F.feed.guests = {} THEN StopWorker(G)
     ELSE [feed |-> [G.feed EXCEPT !.worker = None, !.idle = FALSE, !.resizing = TRUE],
           proc |-> AskToQuit(G.proc, w, TRUE)]

\* Mutant: the guests wait, and no relaunch is on its way.
OnEndedIdle(f, healthy) == [f EXCEPT !.worker = None]

\* onEnded, for a worker that ran kHealthyMs or did not.
OnEnded(f, healthy) ==
  LET n == (IF healthy THEN 0 ELSE f.failures) + 1
  IN IF f.guests = {} THEN [f EXCEPT !.worker = None]
     ELSE IF n >= kMaxFailures
     THEN [f EXCEPT !.worker = None, !.failures = n, !.failed = TRUE, !.guests = {}]
     ELSE [f EXCEPT !.worker = None, !.failures = n, !.restart = TRUE]

Becomes(F) == feed' = F.feed /\ proc' = F.proc

\* A slot that is let go of, with the rest or alone, is no longer counted for anybody.
StillForgotten == forgotten' = forgotten \cap feed'.guests

(***************************************************************************)
(* The feed's worker processes.                                            *)
(***************************************************************************)
\* The publisher stops and the pipe closes: the capture ended, a crash, or
\* the end that was asked for.
Goes(w) ==
  /\ proc[w].st = "up"
  /\ proc' = [proc EXCEPT ![w].st = "down"]
  /\ UNCHANGED <<feed, height, join, late, wants, ticket, guest, forgotten>>

\* The guests of a feed given up on leave, and rejoin on their own.
Detached(gone) == guest' = [s \in Slots |-> IF s \in gone THEN "none" ELSE guest[s]]

HearEnded(w) ==
  /\ proc[w].st = "down"
  /\ proc' = [proc EXCEPT ![w].st = "gone"]
  /\ \E healthy \in BOOLEAN :
       feed' = IF proc[w].heard /\ w = feed.worker THEN OnEnded(feed, healthy) ELSE feed
  /\ Detached(IF feed'.failed /\ ~feed.failed THEN feed.guests ELSE {})
  /\ StillForgotten
  /\ UNCHANGED <<height, join, late, wants, ticket>>

\* The process is gone.  After a resize, the feed starts again at the new height.
HearExited(w) ==
  /\ proc[w].st = "gone"
  /\ LET gone == [proc EXCEPT ![w] = NoProcess]
         f == [feed EXCEPT !.resizing = FALSE]
     IN IF ~proc[w].again THEN Becomes([feed |-> feed, proc |-> gone])
        ELSE IF f.worker = None /\ f.guests # {} /\ ~f.failed
        THEN \E l \in Launch([feed |-> f, proc |-> gone]) : Becomes(l)
        ELSE Becomes([feed |-> f, proc |-> gone])
  /\ StillForgotten
  /\ UNCHANGED <<height, join, late, wants, ticket, guest>>

(***************************************************************************)
(* The feed's timers.                                                      *)
(***************************************************************************)
IdleTimer ==
  /\ feed.idle
  /\ Becomes(IF feed.guests # {} THEN [Now EXCEPT !.feed.idle = FALSE] ELSE StopWorker(Now))
  /\ StillForgotten
  /\ UNCHANGED <<height, join, late, wants, ticket, guest>>

RestartTimer ==
  /\ feed.restart
  /\ FreeWorkers(proc) # {}
  /\ LET F == [Now EXCEPT !.feed.restart = FALSE]
     IN IF feed.guests = {} \/ feed.worker # None THEN Becomes(F)
        ELSE \E l \in Launch(F) : Becomes(l)
  /\ StillForgotten
  /\ UNCHANGED <<height, join, late, wants, ticket, guest>>

(***************************************************************************)
(* The owner.                                                              *)
(***************************************************************************)
PickHeight(h) ==
  /\ h # height
  /\ height' = h
  /\ Becomes(Resize(Now, h))
  /\ StillForgotten
  /\ UNCHANGED <<join, late, wants, ticket, guest>>

EndPlayerSessions ==
  /\ "ownerStops" \in Happens
  /\ guest' = [s \in Slots |-> "none"]
  /\ Becomes(Reset(Now))
  /\ StillForgotten
  /\ UNCHANGED <<height, join, late, wants, ticket>>

(***************************************************************************)
(* The guests (main.cpp, startPlayerStream and stopPlayerStream).          *)
(***************************************************************************)
\* The join route and the head of startPlayerStream: the slot's worker, if
\* any, is detached without leaving the feed, and what it held waits there.
AskToJoin(s, app, h264) ==
  /\ join[s] = "no" \/ ("joinsOverlap" \in Happens /\ late[s] = {})
  /\ guest[s] = "none" \/ "joinsReplace" \in Happens
  /\ join' = [join EXCEPT ![s] = "waiting"]
  /\ late' = [late EXCEPT ![s] = IF join[s] = "waiting" THEN @ \cup {wants[s]} ELSE @]
  /\ wants' = [wants EXCEPT ![s] = [app |-> app, height |-> height, h264 |-> h264]]
  /\ guest' = [guest EXCEPT ![s] = "none"]
  /\ ticket' = [ticket EXCEPT ![s] = "none"]
  /\ UNCHANGED <<feed, proc, height, forgotten>>

\* No transport left, or the virtual display could not be turned on.
RefuseJoin(s) ==
  /\ "joinRefused" \in Happens
  /\ join[s] = "waiting"
  /\ join' = [join EXCEPT ![s] = "no"]
  /\ wants' = [wants EXCEPT ![s] = AnySpec]
  /\ UNCHANGED <<feed, proc, height, late, ticket, guest, forgotten>>

\* A new pipe makes every ticket handed out before it an old one.
Outdated ==
  [s \in Slots |-> IF feed'.pipe # feed.pipe /\ ticket[s] = "this" THEN "older" ELSE ticket[s]]

\* The slot's previous process is gone: joinFeed, then the router is asked.
JoinFeed(s) ==
  /\ join[s] = "waiting"
  /\ FreeWorkers(proc) # {}
  /\ join' = [join EXCEPT ![s] = "claiming"]
  /\ \E a \in Acquire(Now, wants[s], s) :
       /\ Becomes(a)
       /\ ticket' = [Outdated EXCEPT ![s] = IF a.ok THEN "this" ELSE "none"]
       /\ forgotten' = (forgotten \cap feed'.guests) \ (IF a.ok THEN {s} ELSE {})
  /\ UNCHANGED <<height, late, wants, guest>>

\* The same, for a join a newer one superseded: it takes its place on the
\* feed, and is stood down when the router has answered.
LateJoinFeed(s, spec) ==
  /\ spec \in late[s]
  /\ FreeWorkers(proc) # {}
  /\ late' = [late EXCEPT ![s] = @ \ {spec}]
  /\ \E a \in Acquire(Now, spec, s) : Becomes(a) /\ ticket' = Outdated
  /\ StillForgotten
  /\ UNCHANGED <<height, join, wants, guest>>

\* The router has answered: the guest's worker starts, on the feed if it can
\* be started as the feed runs, else with an encoder of its own.
StartWorker(s) ==
  /\ join[s] = "claiming"
  /\ join' = [join EXCEPT ![s] = "no"]
  /\ \/ /\ ticket[s] # "none"
        /\ guest' = [guest EXCEPT ![s] = "fed"]
        /\ UNCHANGED <<feed, ticket>>
     \/ /\ guest' = [guest EXCEPT ![s] = "alone"]
        /\ feed' = IF ticket[s] # "none" THEN Release(feed, s) ELSE feed
        /\ ticket' = [ticket EXCEPT ![s] = "none"]
  /\ StillForgotten
  /\ UNCHANGED <<proc, height, late, wants>>

\* The guest's worker ended on its own, or the slot was stopped: by the guest,
\* or by the owner.
GuestGoes(s) ==
  /\ guest[s] # "none"
  /\ guest' = [guest EXCEPT ![s] = "none"]
  /\ ticket' = [ticket EXCEPT ![s] = "none"]
  /\ wants' = [wants EXCEPT ![s] = AnySpec]
  /\ feed' = Release(feed, s)
  /\ StillForgotten
  /\ UNCHANGED <<proc, height, join, late>>

\* playerMustDisconnect: the guest's worker is detached, its end unheard of, and
\* the slot keeps its place on the feed.
SentAway(s) ==
  /\ "sentAway" \in Happens
  /\ guest[s] # "none"
  /\ guest' = [guest EXCEPT ![s] = "none"]
  /\ ticket' = [ticket EXCEPT ![s] = "none"]
  /\ wants' = [wants EXCEPT ![s] = AnySpec]
  /\ forgotten' = forgotten \cup ({s} \cap feed.guests)
  /\ UNCHANGED <<feed, proc, height, join, late>>

\* stopPlayerStream on a slot without a worker: one that has yet to start, or
\* one that was sent away.
LeaveEarly(s) ==
  /\ \/ "leaveWhileJoining" \in Happens /\ join[s] # "no"
     \/ "sentAway" \in Happens /\ join[s] = "no"
  /\ guest[s] = "none"
  /\ feed' = Release(feed, s)
  /\ StillForgotten
  /\ UNCHANGED <<proc, height, join, late, wants, ticket, guest>>

Next ==
  \/ \E w \in Workers : Goes(w) \/ HearEnded(w) \/ HearExited(w)
  \/ IdleTimer
  \/ RestartTimer
  \/ \E h \in Heights : PickHeight(h)
  \/ EndPlayerSessions
  \/ \E s \in Slots :
       \/ \E app \in Apps, h264 \in Codecs : AskToJoin(s, app, h264)
       \/ RefuseJoin(s)
       \/ JoinFeed(s)
       \/ \E spec \in Specs : LateJoinFeed(s, spec)
       \/ StartWorker(s)
       \/ GuestGoes(s)
       \/ SentAway(s)
       \/ LeaveEarly(s)

(***************************************************************************)
(* Fairness: the timers fire, an event of a process is heard, a worker     *)
(* asked to quit goes (killed after five seconds), and a join runs once    *)
(* the previous process is gone and the router has answered or timed out.  *)
(* Nothing makes a worker die, a guest come or a guest leave.              *)
(***************************************************************************)
AskedToGo(w) == proc[w].st = "up" /\ ~proc[w].heard

Fairness ==
  /\ WF_vars(IdleTimer)
  /\ WF_vars(RestartTimer)
  /\ \A w \in Workers :
       WF_vars(AskedToGo(w) /\ Goes(w)) /\ WF_vars(HearEnded(w)) /\ WF_vars(HearExited(w))
  /\ \A s \in Slots : WF_vars(JoinFeed(s)) /\ WF_vars(StartWorker(s))

Spec == Init /\ [][Next]_vars
FairSpec == Spec /\ Fairness

(***************************************************************************)
(* Properties.                                                             *)
(***************************************************************************)
\* A feed with nobody on it is about to stop: whatever happened since, its
\* idle timer runs.
NobodyMeansIdle == feed.worker # None /\ feed.guests = {} => feed.idle

\* Guests who are on the running feed watch the display they were invited
\* to, in a codec their browser decodes, whoever joined since.
FeedSuitsItsGuests ==
  \A s \in Slots :
    guest[s] = "fed" /\ feed.worker # None /\ ticket[s] = "this" =>
      wants[s].app = feed.spec.app /\ (wants[s].h264 => feed.spec.h264)

\* Whoever watches the running feed is counted on it, so it never stops for
\* want of guests under somebody's eyes.
WatchedIsCounted ==
  \A s \in Slots :
    guest[s] = "fed" /\ feed.worker # None /\ ticket[s] = "this" => s \in feed.guests

\* Whoever is counted has a worker on this feed or a join under way: a feed
\* is not kept up for a guest who never made it in, or who has left by any way
\* but one.  Guests sent away by their share stay counted, until their slot is
\* let go of or takes its place on the feed again (main.cpp:2714).
CountedIsComing ==
  \A s \in feed.guests \ forgotten :
    join[s] # "no" \/ (guest[s] = "fed" /\ ticket[s] = "this")

\* At most one process publishes under a pipe's name.
OneFeedPerPipe ==
  \A v, w \in Workers :
    v # w /\ proc[v].st = "up" /\ proc[w].st = "up" => proc[v].pipe # proc[w].pipe

\* Guests of a feed that is down have it on its way: none of them waits for
\* a worker that nothing will start.
WaitIsNotInVain == feed.worker = None /\ feed.guests # {} => Due(feed)

\* Guests on a feed that runs or is due are not left behind on its pipe: the
\* pipe changes under them only when the feed goes H.264, and then they are told.
GuestsKeepTheirPipe ==
  [][feed'.pipe # feed.pipe =>
       \/ ~feed.spec.h264 /\ feed'.spec.h264
       \/ \A s \in feed.guests : ~(guest[s] = "fed" /\ ticket[s] = "this")]_vars

\* Guests whose feed is down get it back, or are no longer on it.
FeedComesBack == feed.worker = None /\ feed.guests # {} ~> feed.worker # None \/ feed.guests = {}

\* A feed that nobody watches and nobody is joining stops.
Deserted == \A s \in Slots : guest[s] # "fed" /\ join[s] = "no"
DesertedStops == []([]Deserted => <>(feed.worker = None))
===============================================================================
