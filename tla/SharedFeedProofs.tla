--------------------------- MODULE SharedFeedProofs ---------------------------
(***************************************************************************)
(* SharedFeed for every number of slots, workers, displays, heights and    *)
(* failures, and every order of joins, ends and timers.                    *)
(***************************************************************************)
EXTENDS SharedFeed, FiniteSetTheorems, TLAPS

USE NoneAssumption, HappensAssumption

IsFeed(f) ==
  f \in [worker : Workers \cup {None}, pipe : {f.pipe}, spec : {f.spec}, guests : SUBSET Slots,
         idle : BOOLEAN, restart : BOOLEAN, resizing : BOOLEAN, failures : {f.failures},
         failed : BOOLEAN]

IsProc(p) == p \in [st : {p.st}, pipe : {p.pipe}, heard : {p.heard}, again : {p.again}]
IsProcs(ps) == ps = [w \in Workers |-> ps[w]] /\ \A w \in Workers : IsProc(ps[w])

\* A feed that runs for nobody is about to stop, and one given up on has neither
\* guests nor a worker.
Sound(f) ==
  /\ IsFeed(f)
  /\ f.worker # None /\ f.guests = {} => f.idle
  /\ f.failed => f.guests = {} /\ f.worker = None

\* Guests of a feed that is down have it on its way.
NotInVain(f) == f.worker = None /\ f.guests # {} => Due(f)

Launches == "launchFails" \notin Happens

FeedInvariant == Sound(feed) /\ IsProcs(proc)

-----------------------------------------------------------------------------
(* What the methods of the class make of the feed.                         *)

\* A worker asked to quit goes on as it was until it is heard of.
LEMMA AskKeeps ==
  ASSUME NEW ps, IsProcs(ps), NEW w \in Workers, NEW again
  PROVE  IsProcs(AskToQuit(ps, w, again)) /\ FreeWorkers(AskToQuit(ps, w, again)) = FreeWorkers(ps)
<1> DEFINE asked == [ps[w] EXCEPT !.heard = FALSE, !.again = again]
<1>1. IsProc(asked) /\ asked.st = ps[w].st
  BY DEF IsProcs, IsProc
<1>2. AskToQuit(ps, w, again) = [ps EXCEPT ![w] = asked]
  BY DEF AskToQuit, IsProcs
<1> HIDE DEF asked
<1> QED
  BY <1>1, <1>2 DEF IsProcs, FreeWorkers

\* A feed that stops keeps its guests, for whoever stopped it to answer for.
LEMMA StopMakes ==
  ASSUME NEW F, F = [feed |-> F.feed, proc |-> F.proc], IsFeed(F.feed), IsProcs(F.proc)
  PROVE  /\ StopWorker(F) = [feed |-> StopWorker(F).feed, proc |-> StopWorker(F).proc]
         /\ StopWorker(F).feed = [F.feed EXCEPT !.idle = FALSE, !.restart = FALSE, !.worker = None]
         /\ IsFeed(StopWorker(F).feed) /\ IsProcs(StopWorker(F).proc)
         /\ FreeWorkers(StopWorker(F).proc) = FreeWorkers(F.proc)
BY AskKeeps DEF StopWorker, IsFeed

\* A launch starts a process that was not running, or changes nothing.
LEMMA LaunchMakes ==
  ASSUME NEW F, IsFeed(F.feed), IsProcs(F.proc), FreeWorkers(F.proc) # {}, NEW l \in Launch(F)
  PROVE  /\ IsProcs(l.proc) /\ l.ok \in BOOLEAN /\ (Launches => l.ok)
         /\ l.ok => \E w \in Workers : l.feed = [F.feed EXCEPT !.worker = w]
         /\ ~l.ok => l.feed = F.feed
<1> DEFINE w == CHOOSE x \in FreeWorkers(F.proc) : TRUE
           procs == [F.proc EXCEPT ![w] = [st |-> "up", pipe |-> F.feed.pipe,
                                           heard |-> TRUE, again |-> FALSE]]
           started == [ok |-> TRUE, feed |-> [F.feed EXCEPT !.worker = w], proc |-> procs]
           same == [ok |-> FALSE, feed |-> F.feed, proc |-> F.proc]
<1>1. w \in Workers
  BY DEF FreeWorkers
<1>2. l = started \/ (~Launches /\ l = same)
  BY DEF Launch, Launches
<1>3. IsProcs(procs)
  <2>1. IsProc([st |-> "up", pipe |-> F.feed.pipe, heard |-> TRUE, again |-> FALSE])
    BY DEF IsProc
  <2> HIDE DEF w
  <2> QED
    BY <1>1, <2>1 DEF IsProcs
<1>4. CASE l = started
  BY <1>1, <1>3, <1>4
<1>5. CASE ~Launches /\ l = same
  BY <1>5
<1> QED
  BY <1>2, <1>4, <1>5

\* A guest who leaves is off the feed, which then waits for its timer.
LEMMA ReleaseKeeps ==
  ASSUME NEW f, Sound(f), NEW s \in Slots
  PROVE  /\ Sound(Release(f, s)) /\ (NotInVain(f) => NotInVain(Release(f, s)))
         /\ Release(f, s).guests = f.guests \ {s}
BY DEF Sound, IsFeed, NotInVain, Due, Release

\* A launch on a feed that has guests or is about to.
LEMMA BeginKeeps ==
  ASSUME NEW f, NEW ps, NEW F, F = [feed |-> f, proc |-> ps], Sound(f), IsProcs(ps),
         FreeWorkers(ps) # {}, f.worker = None, f.failed = FALSE,
         NEW spec, NEW s \in Slots, NEW a \in Begin(F, spec, s)
  PROVE  /\ Sound(a.feed) /\ IsProcs(a.proc) /\ a.ok \in BOOLEAN
         /\ \A x : x \in a.feed.guests <=> x \in f.guests \/ (a.ok /\ x = s)
         /\ Launches => NotInVain(a.feed)
<1> DEFINE fresh == [F EXCEPT !.feed.spec = spec, !.feed.pipe = NewPipe, !.feed.failures = 0]
<1>1. PICK l \in Launch(fresh) : a = IF l.ok THEN Seated(l, s) ELSE l
  BY DEF Begin
<1>2. /\ fresh.proc = ps
      /\ fresh.feed = [f EXCEPT !.spec = spec, !.pipe = NewPipe, !.failures = 0]
  OBVIOUS
<1> HIDE DEF fresh
<1>3. IsFeed(fresh.feed) /\ fresh.feed.guests = f.guests /\ ~fresh.feed.failed
  BY <1>2 DEF IsFeed, Sound
<1>4. /\ IsProcs(l.proc) /\ l.ok \in BOOLEAN /\ (Launches => l.ok)
      /\ l.ok => \E w \in Workers : l.feed = [fresh.feed EXCEPT !.worker = w]
      /\ ~l.ok => l.feed = fresh.feed
  BY <1>2, <1>3, LaunchMakes
<1>5. CASE l.ok
  <2>1. PICK w \in Workers : l.feed = [fresh.feed EXCEPT !.worker = w]
    BY <1>4, <1>5
  <2>2. a.ok /\ a.proc = l.proc /\ a.feed = [l.feed EXCEPT !.guests = @ \cup {s}]
    BY <1>1, <1>5 DEF Seated
  <2>3. /\ a.feed = [fresh.feed EXCEPT !.worker = w, !.guests = f.guests \cup {s}]
        /\ w # None /\ s \in a.feed.guests
    BY <1>3, <2>1, <2>2 DEF IsFeed
  <2>4. IsFeed(a.feed) /\ a.feed.worker = w /\ ~a.feed.failed
    <3>1. f.guests \cup {s} \in SUBSET Slots
      BY DEF Sound, IsFeed
    <3>2. w \in Workers \cup {None}
      OBVIOUS
    <3>3. IsFeed(a.feed) /\ a.feed.worker = w /\ a.feed.failed = fresh.feed.failed
      BY <1>3, <2>3, <3>1, <3>2 DEF IsFeed
    <3> QED
      BY <1>3, <3>3
  <2>5. \A x : x \in a.feed.guests <=> x \in f.guests \/ x = s
    BY <1>3, <2>3 DEF IsFeed
  <2>6. a.feed.guests # {}
    BY <2>5
  <2> QED
    BY <1>4, <2>2, <2>3, <2>4, <2>5, <2>6 DEF Sound, NotInVain
<1>6. CASE ~l.ok
  BY <1>1, <1>2, <1>3, <1>4, <1>6 DEF Sound, IsFeed
<1> QED
  BY <1>4, <1>5, <1>6

\* A place on the feed, running or due.
LEMMA SeatedKeeps ==
  ASSUME NEW f, NEW ps, NEW F, F = [feed |-> f, proc |-> ps], IsFeed(f), IsProcs(ps),
         f.worker # None \/ Due(f), f.failed = FALSE, NEW s \in Slots,
         NEW a, a = Seated(F, s)
  PROVE  /\ Sound(a.feed) /\ IsProcs(a.proc) /\ a.ok = TRUE /\ NotInVain(a.feed)
         /\ a.feed = [f EXCEPT !.guests = f.guests \cup {s}]
<1> DEFINE g == [f EXCEPT !.guests = f.guests \cup {s}]
<1>1. a = [ok |-> TRUE, feed |-> g, proc |-> ps]
  BY DEF Seated
<1>2. IsFeed(g) /\ \A x : x \in g.guests <=> x \in f.guests \/ x = s
  BY DEF IsFeed
<1>3. /\ g.worker = f.worker /\ g.failed = f.failed /\ g.pipe = f.pipe
      /\ g.restart = f.restart /\ g.resizing = f.resizing
  BY DEF IsFeed
<1> HIDE DEF g
<1>4. /\ Sound(a.feed) /\ IsProcs(a.proc) /\ a.ok = TRUE /\ NotInVain(a.feed)
      /\ a.feed = g
  BY <1>1, <1>2, <1>3 DEF Sound, NotInVain, Due
<1> QED
  BY <1>4 DEF g

\* What acquire() makes of the feed: whoever is let in is counted, nobody else
\* comes or goes but with a new pipe, which has the newcomer alone.
LEMMA AcquireKeeps ==
  ASSUME FeedInvariant, FreeWorkers(proc) # {}, NEW spec, NEW s \in Slots,
         NEW a \in Acquire(Now, spec, s)
  PROVE  /\ Sound(a.feed) /\ IsProcs(a.proc) /\ a.ok \in BOOLEAN
         /\ a.ok => s \in a.feed.guests
         /\ a.feed.guests \subseteq feed.guests \cup {s}
         /\ ~a.ok => a.feed.guests \subseteq feed.guests
         /\ Launches /\ NotInVain(feed) =>
              NotInVain(a.feed) /\ (a.feed.pipe # feed.pipe => a.feed.guests \subseteq {s})
<1> DEFINE others == feed.guests \ {s}
           stopped == StopWorker(Now)
           made == MakeRoom(Now, spec, others)
           room == [made EXCEPT !.feed.idle = FALSE]
<1>1. Now = [feed |-> feed, proc |-> proc] /\ Sound(feed) /\ IsProcs(proc) /\ IsFeed(feed)
  BY DEF Now, FeedInvariant, Sound
<1>2. CASE a \in Refused(Now)
  <2>1. a.ok = FALSE /\ a.feed = feed /\ a.proc = proc
    BY <1>2 DEF Refused, Now
  <2> QED
    BY <1>1, <2>1
<1>3. CASE a = Seated(Now, s) /\ ~feed.failed /\ Due(feed)
  <2>1. feed.failed = FALSE
    BY <1>1, <1>3 DEF IsFeed
  <2>2. Sound(a.feed) /\ IsProcs(a.proc) /\ a.ok = TRUE /\ NotInVain(a.feed)
    BY <1>1, <1>3, <2>1, SeatedKeeps
  <2>3. a.feed = [feed EXCEPT !.guests = feed.guests \cup {s}]
    BY <1>3 DEF Seated, Now
  <2>4. a.feed.guests = feed.guests \cup {s} /\ a.feed.pipe = feed.pipe
    BY <1>1, <2>3 DEF IsFeed
  <2> QED
    BY <2>2, <2>4
<1>4. CASE /\ ~feed.failed /\ ~(feed.worker = None /\ Due(feed))
           /\ feed.worker # None /\ ~SameFeed(spec, feed.spec) => others = {}
           /\ a \in IF room.feed.worker = None THEN Begin(room, spec, s) ELSE {Seated(room, s)}
  <2>2. /\ stopped = [feed |-> stopped.feed, proc |-> stopped.proc]
        /\ stopped.feed = [feed EXCEPT !.idle = FALSE, !.restart = FALSE, !.worker = None]
        /\ IsFeed(stopped.feed) /\ IsProcs(stopped.proc)
        /\ FreeWorkers(stopped.proc) = FreeWorkers(proc)
    BY <1>1, StopMakes DEF Now
  <2>1. \/ made = Now
        \/ \E left \in SUBSET (feed.guests \cap {s}) :
             made = [feed |-> [stopped.feed EXCEPT !.guests = left], proc |-> stopped.proc]
    <3>1. \/ made = Now
          \/ made = stopped /\ others = {}
          \/ made = [stopped EXCEPT !.feed.guests = {}]
      BY <1>4 DEF MakeRoom, RetireForCodec, Now
    <3> HIDE DEF stopped, made
    <3>2. CASE made = stopped /\ others = {}
      <4>1. stopped.feed = [stopped.feed EXCEPT !.guests = feed.guests]
        BY <1>1, <2>2 DEF IsFeed
      <4>2. feed.guests \in SUBSET (feed.guests \cap {s})
        BY <3>2
      <4> QED
        BY <2>2, <3>2, <4>1, <4>2
    <3>3. CASE made = [stopped EXCEPT !.feed.guests = {}]
      <4>1. made = [feed |-> [stopped.feed EXCEPT !.guests = {}], proc |-> stopped.proc]
        BY <2>2, <3>3
      <4> QED
        BY <4>1
    <3> QED
      BY <3>1, <3>2, <3>3
  <2> HIDE DEF stopped, made
  <2>3. room = [made EXCEPT !.feed.idle = FALSE]
    OBVIOUS
  <2> HIDE DEF room
  <2>4. CASE made = Now
    <3>1. /\ room = [feed |-> room.feed, proc |-> room.proc] /\ room.proc = proc
          /\ room.feed = [feed EXCEPT !.idle = FALSE]
      BY <2>3, <2>4 DEF Now
    <3>2. /\ IsFeed(room.feed) /\ room.feed.worker = feed.worker /\ room.feed.failed = FALSE
          /\ room.feed.guests = feed.guests /\ room.feed.pipe = feed.pipe
      BY <1>1, <1>4, <3>1 DEF IsFeed
    <3>3. CASE feed.worker = None
      <4>1. a \in Begin(room, spec, s) /\ Sound(room.feed)
        BY <1>4, <3>2, <3>3 DEF Sound
      <4>2. /\ Sound(a.feed) /\ IsProcs(a.proc) /\ a.ok \in BOOLEAN
            /\ \A x : x \in a.feed.guests <=> x \in room.feed.guests \/ (a.ok /\ x = s)
            /\ Launches => NotInVain(a.feed)
        BY <1>1, <3>1, <3>2, <3>3, <4>1, BeginKeeps
      <4>3. NotInVain(feed) => feed.guests = {}
        BY <1>4, <3>3 DEF NotInVain
      <4> QED
        BY <3>2, <4>2, <4>3
    <3>4. CASE feed.worker # None
      <4>1. a = Seated(room, s)
        BY <1>4, <3>2, <3>4
      <4>2. Sound(a.feed) /\ IsProcs(a.proc) /\ a.ok = TRUE /\ NotInVain(a.feed)
        BY <1>1, <3>1, <3>2, <3>4, <4>1, SeatedKeeps
      <4>3. a.feed = [room.feed EXCEPT !.guests = room.feed.guests \cup {s}]
        BY <4>1 DEF Seated
      <4>4. a.feed.guests = feed.guests \cup {s} /\ a.feed.pipe = feed.pipe
        BY <3>2, <4>3 DEF IsFeed
      <4> QED
        BY <4>2, <4>4
    <3> QED
      BY <3>3, <3>4
  <2>5. ASSUME NEW left \in SUBSET (feed.guests \cap {s}),
               made = [feed |-> [stopped.feed EXCEPT !.guests = left], proc |-> stopped.proc]
        PROVE  /\ Sound(a.feed) /\ IsProcs(a.proc) /\ a.ok \in BOOLEAN
               /\ \A x : x \in a.feed.guests <=> x \in left \/ (a.ok /\ x = s)
               /\ Launches => NotInVain(a.feed)
    <3>0. room.feed = [stopped.feed EXCEPT !.guests = left, !.idle = FALSE]
      BY <2>3, <2>5
    <3>1. room = [feed |-> room.feed, proc |-> room.proc] /\ room.proc = stopped.proc
      BY <2>3, <2>5
    <3>2. /\ IsFeed(room.feed) /\ room.feed.worker = None /\ room.feed.failed = feed.failed
          /\ room.feed.guests = left
      BY <1>1, <2>2, <2>5, <3>0 DEF IsFeed
    <3>3. a \in Begin(room, spec, s) /\ Sound(room.feed) /\ room.feed.failed = FALSE
      BY <1>4, <3>2 DEF Sound
    <3>4. IsProcs(room.proc) /\ FreeWorkers(room.proc) # {}
      BY <2>2, <3>1
    <3> HIDE <2>5, <3>0
    <3>5. /\ Sound(a.feed) /\ IsProcs(a.proc) /\ a.ok \in BOOLEAN
          /\ \A x : x \in a.feed.guests <=> x \in room.feed.guests \/ (a.ok /\ x = s)
          /\ Launches => NotInVain(a.feed)
      BY <3>1, <3>2, <3>3, <3>4, BeginKeeps
    <3> QED
      BY <3>2, <3>5
  <2> QED
    BY <2>1, <2>4, <2>5
<1> QED
  BY <1>2, <1>3, <1>4 DEF Acquire, JoinTheWait, Now

\* The steps in which the feed's own guests stay, or all go.
Kept(f, g) ==
  /\ Sound(g)
  /\ Launches /\ NotInVain(f) => NotInVain(g)
  /\ g.guests = {} \/ (g.guests = f.guests /\ g.pipe = f.pipe)

\* A stopped feed whose guests go with it.
LEMMA StopForNobody ==
  ASSUME FeedInvariant, NEW g, IsFeed(g), g.worker = None, g.guests = {}
  PROVE  Kept(feed, g)
BY DEF Kept, Sound, NotInVain

\* A relaunch, for the guests who wait for it.
LEMMA RelaunchKeeps ==
  ASSUME FeedInvariant, NEW f, IsFeed(f), NEW ps, IsProcs(ps), FreeWorkers(ps) # {},
         f.worker = None, f.guests = feed.guests, f.guests # {}, f.pipe = feed.pipe,
         f.failed = FALSE, NEW l \in Launch([feed |-> f, proc |-> ps])
  PROVE  Kept(feed, l.feed) /\ IsProcs(l.proc)
<1> DEFINE F == [feed |-> f, proc |-> ps]
<1>1. F.feed = f /\ F.proc = ps
  OBVIOUS
<1> HIDE DEF F
<1>2. /\ IsProcs(l.proc) /\ l.ok \in BOOLEAN /\ (Launches => l.ok)
      /\ l.ok => \E w \in Workers : l.feed = [F.feed EXCEPT !.worker = w]
      /\ ~l.ok => l.feed = F.feed
  BY <1>1, LaunchMakes DEF F
<1>3. ASSUME NEW w \in Workers, l.feed = [f EXCEPT !.worker = w]
      PROVE  Kept(feed, l.feed)
  <2>1. /\ IsFeed(l.feed) /\ l.feed.worker # None /\ l.feed.guests = feed.guests
        /\ l.feed.failed = FALSE /\ l.feed.pipe = feed.pipe
    BY <1>3 DEF IsFeed
  <2> QED
    BY <2>1 DEF Kept, Sound, NotInVain
<1>4. CASE ~l.ok
  BY <1>1, <1>2, <1>4 DEF Kept, Sound
<1> QED
  BY <1>1, <1>2, <1>3, <1>4

\* Another height: the worker is asked to go, or the feed waits for it.
LEMMA ResizeKeeps ==
  ASSUME FeedInvariant, NEW h, NEW F, F = Resize(Now, h)
  PROVE  Kept(feed, F.feed) /\ IsProcs(F.proc)
<1> DEFINE g == [feed EXCEPT !.spec.height = h]
           G == [feed |-> g, proc |-> proc]
<1>1. IsFeed(g) /\ g = [feed EXCEPT !.spec = g.spec]
  BY DEF FeedInvariant, Sound, IsFeed
<1>2. [Now EXCEPT !.feed.spec.height = h] = G
  BY DEF Now
<1> HIDE DEF g
<1>3. /\ g.worker = feed.worker /\ g.guests = feed.guests /\ g.pipe = feed.pipe
      /\ g.idle = feed.idle /\ g.restart = feed.restart /\ g.resizing = feed.resizing
      /\ g.failed = feed.failed
  BY <1>1 DEF FeedInvariant, Sound, IsFeed
<1>4. CASE F = Now
  BY <1>4 DEF Now, FeedInvariant, Kept
<1>5. CASE F = G
  BY <1>1, <1>3, <1>5 DEF FeedInvariant, Sound, Kept, NotInVain, Due
<1>6. CASE F = StopWorker(G) /\ feed.guests = {}
  <2>1. /\ F.feed = [g EXCEPT !.idle = FALSE, !.restart = FALSE, !.worker = None]
        /\ IsFeed(F.feed) /\ IsProcs(F.proc)
    <3>1. G = [feed |-> G.feed, proc |-> G.proc] /\ G.feed = g /\ G.proc = proc
      OBVIOUS
    <3>2. IsFeed(StopWorker(G).feed) /\ IsProcs(StopWorker(G).proc)
      BY <1>1, <3>1, StopMakes DEF FeedInvariant
    <3>3. StopWorker(G).feed = [g EXCEPT !.idle = FALSE, !.restart = FALSE, !.worker = None]
      BY <3>1 DEF StopWorker
    <3> QED
      BY <1>6, <3>2, <3>3
  <2>2. F.feed.worker = None /\ F.feed.guests = {}
    BY <1>1, <1>3, <1>6, <2>1 DEF IsFeed
  <2> QED
    BY <2>1, <2>2, StopForNobody
<1>7. CASE /\ feed.worker # None
           /\ F = [feed |-> [g EXCEPT !.worker = None, !.idle = FALSE, !.resizing = TRUE],
                   proc |-> AskToQuit(proc, feed.worker, TRUE)]
  <2>1. F.feed = [g EXCEPT !.worker = None, !.idle = FALSE, !.resizing = TRUE] /\ IsProcs(F.proc)
    <3>1. feed.worker \in Workers
      BY <1>7 DEF FeedInvariant, Sound, IsFeed
    <3>2. IsProcs(AskToQuit(proc, feed.worker, TRUE))
      BY <3>1, AskKeeps DEF FeedInvariant
    <3>3. /\ F.feed = [g EXCEPT !.worker = None, !.idle = FALSE, !.resizing = TRUE]
          /\ F.proc = AskToQuit(proc, feed.worker, TRUE)
      BY <1>7
    <3> QED
      BY <3>2, <3>3
  <2>2. /\ IsFeed(F.feed) /\ F.feed.guests = feed.guests /\ F.feed.pipe = feed.pipe
        /\ F.feed.worker = None /\ F.feed.resizing = TRUE /\ F.feed.failed = feed.failed
    BY <1>1, <1>3, <2>1 DEF IsFeed
  <2> QED
    BY <2>1, <2>2 DEF Kept, FeedInvariant, Sound, NotInVain, Due
<1> QED
  BY <1>2, <1>4, <1>5, <1>6, <1>7 DEF Resize, Now

\* reset() leaves the feed without guests.
LEMMA ResetKeeps ==
  ASSUME FeedInvariant, NEW F, F = Reset(Now)
  PROVE  Kept(feed, F.feed) /\ IsProcs(F.proc) /\ F.feed.guests = {}
<1> DEFINE G == StopWorker(Now)
<1>1. /\ G = [feed |-> G.feed, proc |-> G.proc] /\ IsFeed(G.feed) /\ IsProcs(G.proc)
      /\ G.feed = [feed EXCEPT !.idle = FALSE, !.restart = FALSE, !.worker = None]
  BY StopMakes DEF Now, FeedInvariant, Sound
<1>2. G.feed.worker = None
  BY <1>1 DEF FeedInvariant, Sound, IsFeed
<1>3. F = [G EXCEPT !.feed.guests = {}, !.feed.resizing = FALSE, !.feed.failed = FALSE,
                    !.feed.failures = 0]
  BY DEF Reset
<1> HIDE DEF G
<1>4. /\ F.proc = G.proc
      /\ F.feed = [G.feed EXCEPT !.guests = {}, !.resizing = FALSE, !.failed = FALSE, !.failures = 0]
  BY <1>1, <1>3
<1>5. IsFeed(F.feed) /\ F.feed.worker = None /\ F.feed.guests = {}
  BY <1>1, <1>2, <1>4 DEF IsFeed
<1> QED
  BY <1>1, <1>4, <1>5, StopForNobody

\* A worker that ended is relaunched for its guests, or given up.
LEMMA OnEndedKeeps ==
  ASSUME FeedInvariant, NEW healthy \in BOOLEAN, NEW f, f = OnEnded(feed, healthy)
  PROVE  Kept(feed, f) /\ (~f.failed \/ feed.failed => f.guests = feed.guests)
<1>1. IsFeed(feed)
  BY DEF FeedInvariant, Sound
<1>2. CASE feed.guests = {} /\ f = [feed EXCEPT !.worker = None]
  <2>1. IsFeed(f) /\ f.worker = None /\ f.guests = {} /\ f.failed = feed.failed
    BY <1>1, <1>2 DEF IsFeed
  <2> QED
    BY <1>2, <2>1, StopForNobody
<1>3. ASSUME NEW n, f = [feed EXCEPT !.worker = None, !.failures = n, !.failed = TRUE, !.guests = {}]
      PROVE  Kept(feed, f) /\ (~f.failed \/ feed.failed => f.guests = feed.guests)
  <2>1. IsFeed(f) /\ f.worker = None /\ f.guests = {} /\ f.failed = TRUE
    BY <1>1, <1>3 DEF IsFeed
  <2> QED
    BY <2>1, StopForNobody DEF FeedInvariant, Sound
<1>4. ASSUME NEW n, f = [feed EXCEPT !.worker = None, !.failures = n, !.restart = TRUE]
      PROVE  Kept(feed, f) /\ f.guests = feed.guests
  <2>1. /\ IsFeed(f) /\ f.worker = None /\ f.guests = feed.guests /\ f.failed = feed.failed
        /\ f.restart = TRUE /\ f.pipe = feed.pipe
    BY <1>1, <1>4 DEF IsFeed
  <2> QED
    BY <2>1 DEF FeedInvariant, Kept, Sound, NotInVain, Due
<1> QED
  BY <1>2, <1>3, <1>4 DEF OnEnded

-----------------------------------------------------------------------------
(* What the steps make of it.                                              *)

FeedStep == Kept(feed, feed') /\ IsProcs(proc')

\* A worker goes, and its end is heard in two parts.
LEMMA ProcessKeeps ==
  ASSUME FeedInvariant, NEW w \in Workers, Goes(w) \/ HearEnded(w) \/ HearExited(w)
  PROVE  FeedStep
<1>1. CASE Goes(w)
  <2>1. IsProc([proc[w] EXCEPT !.st = "down"])
    BY DEF FeedInvariant, IsProcs, IsProc
  <2>2. proc' = [proc EXCEPT ![w] = [proc[w] EXCEPT !.st = "down"]] /\ feed' = feed
    BY <1>1 DEF Goes
  <2> HIDE <1>1
  <2> QED
    BY <2>1, <2>2 DEF FeedStep, Kept, FeedInvariant, IsProcs
<1>2. CASE HearEnded(w)
  <2>1. IsProc([proc[w] EXCEPT !.st = "gone"])
    BY DEF FeedInvariant, IsProcs, IsProc
  <2>2. proc' = [proc EXCEPT ![w] = [proc[w] EXCEPT !.st = "gone"]]
    BY <1>2 DEF HearEnded
  <2>3. IsProcs(proc')
    BY <2>1, <2>2 DEF FeedInvariant, IsProcs
  <2>4. PICK healthy \in BOOLEAN : feed' = feed \/ feed' = OnEnded(feed, healthy)
    BY <1>2 DEF HearEnded
  <2>5. Kept(feed, feed')
    BY <2>4, OnEndedKeeps DEF Kept, FeedInvariant
  <2> QED
    BY <2>3, <2>5 DEF FeedStep
<1>3. CASE HearExited(w)
  <2> DEFINE gone == [proc EXCEPT ![w] = NoProcess]
             f == [feed EXCEPT !.resizing = FALSE]
  <2>1. IsProcs(gone) /\ w \in FreeWorkers(gone)
    BY DEF FeedInvariant, IsProcs, IsProc, FreeWorkers, NoProcess
  <2>2. /\ IsFeed(f) /\ f.worker = feed.worker /\ f.guests = feed.guests /\ f.pipe = feed.pipe
        /\ f.failed = feed.failed /\ f.idle = feed.idle
    BY DEF FeedInvariant, Sound, IsFeed
  <2>3. CASE feed' = feed /\ proc' = gone
    BY <2>1, <2>3 DEF FeedStep, Kept, FeedInvariant
  <2>4. CASE /\ feed.worker = None /\ feed.guests # {} /\ ~feed.failed
             /\ \E l \in Launch([feed |-> f, proc |-> gone]) : feed' = l.feed /\ proc' = l.proc
    <3>1. PICK l \in Launch([feed |-> f, proc |-> gone]) : feed' = l.feed /\ proc' = l.proc
      BY <2>4
    <3>2. f.failed = FALSE
      BY <2>2, <2>4 DEF IsFeed
    <3> HIDE DEF f, gone
    <3>3. Kept(feed, l.feed) /\ IsProcs(l.proc)
      BY <2>1, <2>2, <2>4, <3>2, RelaunchKeeps
    <3> QED
      BY <3>1, <3>3 DEF FeedStep
  <2>5. CASE /\ ~(feed.worker = None /\ feed.guests # {} /\ ~feed.failed)
             /\ feed' = f /\ proc' = gone
    <3>1. Sound(f)
      BY <2>2 DEF FeedInvariant, Sound
    <3> HIDE DEF f, gone
    <3> QED
      BY <2>1, <2>2, <2>5, <3>1 DEF FeedStep, Kept, FeedInvariant, Sound, NotInVain
  <2> QED
    BY <1>3, <2>2, <2>3, <2>4, <2>5 DEF HearExited, Becomes
<1> QED
  BY <1>1, <1>2, <1>3

\* The idle timer stops a feed for nobody; the restart timer relaunches one for its guests.
LEMMA TimerKeeps ==
  ASSUME FeedInvariant, IdleTimer \/ RestartTimer  PROVE  FeedStep
<1>1. CASE IdleTimer
  <2>1. CASE feed.guests # {}
    <3>1. feed' = [feed EXCEPT !.idle = FALSE] /\ proc' = proc
      BY <1>1, <2>1 DEF IdleTimer, Becomes, Now
    <3>2. /\ IsFeed(feed') /\ feed'.worker = feed.worker /\ feed'.guests = feed.guests
          /\ feed'.pipe = feed.pipe /\ feed'.failed = feed.failed
          /\ feed'.restart = feed.restart /\ feed'.resizing = feed.resizing
      BY <3>1 DEF FeedInvariant, Sound, IsFeed
    <3> QED
      BY <2>1, <3>1, <3>2 DEF FeedStep, Kept, FeedInvariant, Sound, NotInVain, Due
  <2>2. CASE feed.guests = {}
    <3>1. feed' = StopWorker(Now).feed /\ proc' = StopWorker(Now).proc
      BY <1>1, <2>2 DEF IdleTimer, Becomes
    <3>2. /\ IsFeed(feed') /\ IsProcs(proc')
          /\ feed' = [feed EXCEPT !.idle = FALSE, !.restart = FALSE, !.worker = None]
      BY <3>1, StopMakes DEF Now, FeedInvariant, Sound
    <3>3. feed'.worker = None /\ feed'.guests = {}
      BY <2>2, <3>2 DEF FeedInvariant, Sound, IsFeed
    <3> QED
      BY <3>2, <3>3, StopForNobody DEF FeedStep
  <2> QED
    BY <2>1, <2>2
<1>2. CASE RestartTimer
  <2> DEFINE f == [feed EXCEPT !.restart = FALSE]
  <2>1. /\ IsFeed(f) /\ f.worker = feed.worker /\ f.guests = feed.guests /\ f.pipe = feed.pipe
        /\ f.failed = feed.failed /\ f.idle = feed.idle
    BY DEF FeedInvariant, Sound, IsFeed
  <2>2. [Now EXCEPT !.feed.restart = FALSE] = [feed |-> f, proc |-> proc]
    <3>1. \A b : [Now EXCEPT !.feed.restart = b] = [feed |-> [feed EXCEPT !.restart = b], proc |-> proc]
      BY DEF Now
    <3> QED
      BY <3>1, Zenon
  <2>3. CASE feed.guests = {} \/ feed.worker # None
    <3>1. feed' = f /\ proc' = proc
      BY <1>2, <2>2, <2>3 DEF RestartTimer, Becomes
    <3> HIDE DEF f
    <3> QED
      BY <2>1, <2>3, <3>1 DEF FeedStep, Kept, FeedInvariant, Sound, NotInVain
  <2>4. CASE feed.guests # {} /\ feed.worker = None
    <3>1. PICK l \in Launch([feed |-> f, proc |-> proc]) : feed' = l.feed /\ proc' = l.proc
      BY <1>2, <2>2, <2>4 DEF RestartTimer, Becomes
    <3>2. f.failed = FALSE /\ FreeWorkers(proc) # {}
      BY <1>2, <2>1, <2>4 DEF RestartTimer, FeedInvariant, Sound, IsFeed
    <3> HIDE DEF f
    <3>3. Kept(feed, l.feed) /\ IsProcs(l.proc)
      BY <2>1, <2>4, <3>2, RelaunchKeeps DEF FeedInvariant
    <3> QED
      BY <3>1, <3>3 DEF FeedStep
  <2> QED
    BY <2>3, <2>4
<1> QED
  BY <1>1, <1>2

\* The owner's steps.
LEMMA OwnerKeeps ==
  ASSUME FeedInvariant,
         \/ \E h \in Heights : PickHeight(h)
         \/ EndPlayerSessions
  PROVE  FeedStep
<1>1. CASE \E h \in Heights : PickHeight(h)
  <2>1. PICK h \in Heights : feed' = Resize(Now, h).feed /\ proc' = Resize(Now, h).proc
    BY <1>1 DEF PickHeight, Becomes
  <2> QED
    BY <2>1, ResizeKeeps DEF FeedStep
<1>2. CASE EndPlayerSessions
  <2>1. feed' = Reset(Now).feed /\ proc' = Reset(Now).proc
    BY <1>2 DEF EndPlayerSessions, Becomes
  <2> QED
    BY <2>1, ResetKeeps DEF FeedStep
<1> QED
  BY <1>1, <1>2

\* The guests' steps that take the feed no further than a place given back.
Given(s) == feed' = feed \/ feed' = Release(feed, s)

\* A guest who goes: the place may be given back.
LEMMA GuestKeeps ==
  ASSUME FeedInvariant, NEW s \in Slots, Given(s), proc' = proc
  PROVE  /\ Sound(feed') /\ IsProcs(proc') /\ (NotInVain(feed) => NotInVain(feed'))
         /\ feed'.guests \subseteq feed.guests
         /\ feed' # feed => s \notin feed'.guests
BY ReleaseKeeps DEF FeedInvariant, Given

\* A join that reaches the feed, in its turn or late.
LEMMA JoinKeeps ==
  ASSUME FeedInvariant, NEW s \in Slots, JoinFeed(s) \/ \E spec \in Specs : LateJoinFeed(s, spec)
  PROVE  /\ Sound(feed') /\ IsProcs(proc')
         /\ Launches /\ NotInVain(feed) => NotInVain(feed')
<1>1. FreeWorkers(proc) # {}
  BY DEF JoinFeed, LateJoinFeed
<1>2. PICK spec : \E a \in Acquire(Now, spec, s) : feed' = a.feed /\ proc' = a.proc
  BY DEF JoinFeed, LateJoinFeed, Becomes
<1>3. PICK a \in Acquire(Now, spec, s) : feed' = a.feed /\ proc' = a.proc
  BY <1>2
<1>4. /\ Sound(a.feed) /\ IsProcs(a.proc)
      /\ Launches /\ NotInVain(feed) => NotInVain(a.feed)
  BY <1>1, AcquireKeeps
<1> QED
  BY <1>3, <1>4

\* A feed nobody asked for.
LEMMA FeedStarts == Init => FeedInvariant /\ NotInVain(feed)
<1> SUFFICES ASSUME Init  PROVE  FeedInvariant /\ NotInVain(feed)
  OBVIOUS
<1>1. IsFeed(feed) /\ feed.worker = None /\ feed.guests = {}
  BY DEF Init, IsFeed
<1>2. IsProcs(proc)
  BY DEF Init, IsProcs, IsProc, NoProcess
<1> QED
  BY <1>1, <1>2 DEF FeedInvariant, Sound, NotInVain

\* Every step keeps the invariant, and with launches that succeed the wait is not in vain.
LEMMA FeedSteps ==
  FeedInvariant /\ [Next]_vars =>
    FeedInvariant' /\ (Launches /\ NotInVain(feed) => NotInVain(feed)')
<1> SUFFICES ASSUME FeedInvariant, [Next]_vars
             PROVE  /\ Sound(feed') /\ IsProcs(proc')
                    /\ Launches /\ NotInVain(feed) => NotInVain(feed')
  BY DEF FeedInvariant
<1>1. CASE \E w \in Workers : Goes(w) \/ HearEnded(w) \/ HearExited(w)
  BY <1>1, ProcessKeeps DEF FeedStep, Kept
<1>2. CASE IdleTimer \/ RestartTimer
  BY <1>2, TimerKeeps DEF FeedStep, Kept
<1>3. CASE (\E h \in Heights : PickHeight(h)) \/ EndPlayerSessions
  BY <1>3, OwnerKeeps DEF FeedStep, Kept
<1>4. ASSUME NEW s \in Slots, JoinFeed(s) \/ \E spec \in Specs : LateJoinFeed(s, spec)
      PROVE  /\ Sound(feed') /\ IsProcs(proc')
             /\ Launches /\ NotInVain(feed) => NotInVain(feed')
  BY <1>4, JoinKeeps
<1>5. ASSUME NEW s \in Slots,
             \/ \E app \in Apps, h264 \in Codecs : AskToJoin(s, app, h264)
             \/ RefuseJoin(s) \/ StartWorker(s) \/ GuestGoes(s) \/ SentAway(s)
             \/ LeaveEarly(s)
      PROVE  /\ Sound(feed') /\ IsProcs(proc')
             /\ Launches /\ NotInVain(feed) => NotInVain(feed')
  <2>1. Given(s) /\ proc' = proc
    BY <1>5 DEF AskToJoin, RefuseJoin, StartWorker, GuestGoes, SentAway, LeaveEarly, Given
  <2> QED
    BY <2>1, GuestKeeps
<1>6. CASE UNCHANGED vars
  BY <1>6 DEF vars, FeedInvariant
<1> QED
  BY <1>1, <1>2, <1>3, <1>4, <1>5, <1>6 DEF Next

-----------------------------------------------------------------------------
\* The members of the class agree with one another whatever happens: a feed given
\* up on has neither guests nor a worker, and one that runs for nobody has its idle timer on.
THEOREM FeedCorrect == Spec => []FeedInvariant
BY FeedStarts, FeedSteps, PTL DEF Spec

\* A feed with nobody on it is about to stop, whatever was joined, refused,
\* superseded or ended on the way.
THEOREM FeedIdlesForNobody == Spec => []NobodyMeansIdle
<1>1. FeedInvariant => NobodyMeansIdle
  BY DEF FeedInvariant, Sound, NobodyMeansIdle
<1> QED
  BY <1>1, FeedCorrect, PTL

\* Where worker processes can be started, guests of a feed that is down have its
\* relaunch on the way.
THEOREM FeedIsOnItsWay == ASSUME Launches  PROVE  Spec => []WaitIsNotInVain
<1>1. Init => FeedInvariant /\ NotInVain(feed)
  BY FeedStarts
<1>2. FeedInvariant /\ NotInVain(feed) /\ [Next]_vars => (FeedInvariant /\ NotInVain(feed))'
  BY FeedSteps
<1>3. NotInVain(feed) <=> WaitIsNotInVain
  BY DEF NotInVain, WaitIsNotInVain
<1> QED
  BY <1>1, <1>2, <1>3, PTL DEF Spec

-----------------------------------------------------------------------------
(* Who is counted, where joins come one at a time and run to their end.    *)

OrderlyJoins == Happens \subseteq {"ownerStops", "sentAway"}

\* Whoever is counted holds a ticket of this feed, on the way to a worker or with
\* one, unless they were sent away since; none of their joins was superseded.
CountedHoldATicket ==
  /\ join \in [Slots -> {"no", "waiting", "claiming"}]
  /\ ticket \in [Slots -> {"none", "this", "older"}]
  /\ guest \in [Slots -> {"none", "fed", "alone"}]
  /\ late = [s \in Slots |-> {}]
  /\ \A s \in feed.guests \ forgotten :
       /\ ticket[s] = "this"
       /\ join[s] = "claiming" \/ (join[s] = "no" /\ guest[s] = "fed")

\* Nobody new is counted, and nobody counted changes.
LEMMA CountedStays ==
  ASSUME CountedHoldATicket, late' = late,
         feed'.guests \ forgotten' \subseteq feed.guests \ forgotten,
         join' \in [Slots -> {"no", "waiting", "claiming"}],
         ticket' \in [Slots -> {"none", "this", "older"}],
         guest' \in [Slots -> {"none", "fed", "alone"}],
         \A s \in feed'.guests \ forgotten' :
           join'[s] = join[s] /\ ticket'[s] = ticket[s] /\ guest'[s] = guest[s]
  PROVE  CountedHoldATicket'
BY DEF CountedHoldATicket

\* A join counts its slot and gives it a ticket of this feed.
LEMMA CountedJoin ==
  ASSUME FeedInvariant, NotInVain(feed), CountedHoldATicket, OrderlyJoins,
         NEW s \in Slots, JoinFeed(s)
  PROVE  CountedHoldATicket'
<1>1. PICK a \in Acquire(Now, wants[s], s) :
        /\ feed' = a.feed
        /\ ticket' = [Outdated EXCEPT ![s] = IF a.ok THEN "this" ELSE "none"]
        /\ forgotten' = (forgotten \cap feed'.guests) \ (IF a.ok THEN {s} ELSE {})
  BY DEF JoinFeed, Becomes
<1>2. /\ a.ok \in BOOLEAN /\ (a.ok => s \in a.feed.guests)
      /\ a.feed.guests \subseteq feed.guests \cup {s}
      /\ ~a.ok => a.feed.guests \subseteq feed.guests
      /\ a.feed.pipe # feed.pipe => a.feed.guests \subseteq {s}
  <2>1. FreeWorkers(proc) # {} /\ Launches
    BY DEF JoinFeed, OrderlyJoins, Launches
  <2> QED
    BY <2>1, AcquireKeeps
<1>3. s \notin feed.guests \ forgotten /\ join[s] = "waiting"
  BY DEF CountedHoldATicket, JoinFeed
<1>4. /\ join' = [join EXCEPT ![s] = "claiming"] /\ guest' = guest /\ late' = late
  BY DEF JoinFeed
<1>5. /\ ticket' \in [Slots -> {"none", "this", "older"}]
      /\ ticket'[s] = IF a.ok THEN "this" ELSE "none"
      /\ \A t \in Slots \ {s} : feed'.pipe = feed.pipe => ticket'[t] = ticket[t]
  BY <1>1 DEF Outdated, CountedHoldATicket
<1>6. ASSUME NEW t \in feed'.guests \ forgotten'
      PROVE  /\ ticket'[t] = "this"
             /\ join'[t] = "claiming" \/ (join'[t] = "no" /\ guest'[t] = "fed")
  <2>1. CASE t = s
    <3>1. a.ok
      BY <1>1, <1>2, <1>3, <1>6, <2>1
    <3> QED
      BY <1>4, <1>5, <2>1, <3>1 DEF CountedHoldATicket
  <2>2. CASE t # s
    <3>1. t \in feed.guests \ forgotten /\ t \in Slots /\ feed'.pipe = feed.pipe
      BY <1>1, <1>2, <1>6, <2>2 DEF FeedInvariant, Sound, IsFeed
    <3> QED
      BY <1>4, <1>5, <2>2, <3>1 DEF CountedHoldATicket
  <2> QED
    BY <2>1, <2>2
<1> QED
  BY <1>4, <1>5, <1>6 DEF CountedHoldATicket

\* Every step keeps a ticket with whoever is counted.
LEMMA CountedStep ==
  ASSUME OrderlyJoins
  PROVE  FeedInvariant /\ NotInVain(feed) /\ CountedHoldATicket /\ [Next]_vars
           => CountedHoldATicket'
<1> SUFFICES ASSUME FeedInvariant, NotInVain(feed), CountedHoldATicket, [Next]_vars
             PROVE  CountedHoldATicket'
  OBVIOUS
<1>1. ASSUME NEW w \in Workers, Goes(w) \/ HearEnded(w) \/ HearExited(w)
      PROVE  CountedHoldATicket'
  <2>1. Kept(feed, feed') /\ UNCHANGED <<join, late, ticket>>
    BY <1>1, ProcessKeeps DEF FeedStep, Goes, HearEnded, HearExited
  <2>2. guest' = guest \/ (guest' = [s \in Slots |-> IF s \in feed.guests THEN "none" ELSE guest[s]]
                            /\ feed'.guests = {})
    <3>1. CASE HearEnded(w)
      <4>1. Detached(IF feed'.failed /\ ~feed.failed THEN feed.guests ELSE {})
        BY <3>1 DEF HearEnded
      <4>2. CASE feed'.failed /\ ~feed.failed
        BY <2>1, <4>1, <4>2 DEF Detached, Kept, Sound
      <4>3. CASE ~(feed'.failed /\ ~feed.failed)
        BY <4>1, <4>3 DEF Detached, CountedHoldATicket
      <4> QED
        BY <4>2, <4>3
    <3> QED
      BY <1>1, <3>1 DEF Goes, HearExited
  <2>3. feed'.guests \ forgotten' \subseteq feed.guests \ forgotten
    BY <1>1, <2>1 DEF Kept, Goes, HearEnded, HearExited, StillForgotten
  <2> QED
    BY <2>1, <2>2, <2>3, CountedStays DEF CountedHoldATicket
<1>2. CASE IdleTimer \/ RestartTimer
  <2>1. Kept(feed, feed') /\ UNCHANGED <<join, late, ticket, guest>>
    BY <1>2, TimerKeeps DEF FeedStep, IdleTimer, RestartTimer
  <2>2. feed'.guests \ forgotten' \subseteq feed.guests \ forgotten
    BY <1>2, <2>1 DEF Kept, IdleTimer, RestartTimer, StillForgotten
  <2> QED
    BY <2>1, <2>2, CountedStays DEF CountedHoldATicket
<1>3. CASE \E h \in Heights : PickHeight(h)
  <2>1. Kept(feed, feed') /\ UNCHANGED <<join, late, ticket, guest>>
    BY <1>3, OwnerKeeps DEF FeedStep, PickHeight
  <2>2. feed'.guests \ forgotten' \subseteq feed.guests \ forgotten
    BY <1>3, <2>1 DEF Kept, PickHeight, StillForgotten
  <2> QED
    BY <2>1, <2>2, CountedStays DEF CountedHoldATicket
<1>4. CASE EndPlayerSessions
  <2>1. feed'.guests = {}
    BY <1>4, ResetKeeps DEF EndPlayerSessions, Becomes
  <2> QED
    BY <1>4, <2>1, CountedStays DEF CountedHoldATicket, EndPlayerSessions
<1>5. ASSUME NEW s \in Slots, JoinFeed(s)  PROVE  CountedHoldATicket'
  BY <1>5, CountedJoin
<1>6. ASSUME NEW s \in Slots, NEW app \in Apps, NEW h264 \in Codecs, AskToJoin(s, app, h264)
      PROVE  CountedHoldATicket'
  <2>1. join[s] = "no" /\ guest[s] = "none" /\ s \notin feed.guests \ forgotten
    BY <1>6 DEF AskToJoin, OrderlyJoins, CountedHoldATicket
  <2>2. late' = late
    BY <1>6, <2>1 DEF AskToJoin, CountedHoldATicket
  <2> QED
    <3>1. /\ join' = [join EXCEPT ![s] = "waiting"] /\ guest' = [guest EXCEPT ![s] = "none"]
          /\ ticket' = [ticket EXCEPT ![s] = "none"]
          /\ feed' = feed /\ forgotten' = forgotten
      BY <1>6 DEF AskToJoin
    <3> QED
      BY <2>1, <2>2, <3>1 DEF CountedHoldATicket
<1>7. ASSUME NEW s \in Slots, StartWorker(s)  PROVE  CountedHoldATicket'
  <2>1. /\ join[s] = "claiming" /\ join' = [join EXCEPT ![s] = "no"] /\ late' = late
        /\ forgotten' = forgotten \cap feed'.guests
        /\ \/ ticket[s] # "none" /\ guest' = [guest EXCEPT ![s] = "fed"] /\ UNCHANGED <<feed, ticket>>
           \/ /\ guest' = [guest EXCEPT ![s] = "alone"]
              /\ ticket' = [ticket EXCEPT ![s] = "none"]
              /\ feed' = IF ticket[s] # "none" THEN Release(feed, s) ELSE feed
    BY <1>7 DEF StartWorker, StillForgotten
  <2>2. CASE guest' = [guest EXCEPT ![s] = "fed"] /\ UNCHANGED <<feed, ticket>>
    BY <2>1, <2>2 DEF CountedHoldATicket
  <2>3. CASE /\ guest' = [guest EXCEPT ![s] = "alone"] /\ ticket' = [ticket EXCEPT ![s] = "none"]
             /\ feed' = IF ticket[s] # "none" THEN Release(feed, s) ELSE feed
    <3>1. Release(feed, s).guests = feed.guests \ {s}
      BY ReleaseKeeps DEF FeedInvariant
    <3>2. CASE ticket[s] # "none"
      <4>1. feed'.guests = feed.guests \ {s}
        BY <2>3, <3>1, <3>2
      <4> QED
        BY <2>1, <2>3, <4>1, CountedStays DEF CountedHoldATicket
    <3>3. CASE ticket[s] = "none"
      <4>1. feed' = feed /\ s \notin feed.guests \ forgotten
        BY <2>3, <3>3 DEF CountedHoldATicket
      <4>2. feed'.guests \ forgotten' = feed.guests \ forgotten
        BY <2>1, <4>1
      <4> QED
        BY <2>1, <2>3, <4>1, <4>2, CountedStays DEF CountedHoldATicket
    <3> QED
      BY <3>2, <3>3
  <2> QED
    BY <2>1, <2>2, <2>3
<1>8. ASSUME NEW s \in Slots, GuestGoes(s)  PROVE  CountedHoldATicket'
  <2>1. feed'.guests = feed.guests \ {s}
    BY <1>8, ReleaseKeeps DEF GuestGoes, FeedInvariant
  <2>2. feed'.guests \ forgotten' = (feed.guests \ forgotten) \ {s}
    BY <1>8, <2>1 DEF GuestGoes, StillForgotten
  <2> QED
    BY <1>8, <2>2, CountedStays DEF GuestGoes, CountedHoldATicket
<1>9. ASSUME NEW s \in Slots, SentAway(s)  PROVE  CountedHoldATicket'
  <2>1. feed'.guests \ forgotten' = (feed.guests \ forgotten) \ {s}
    BY <1>9 DEF SentAway
  <2> QED
    BY <1>9, <2>1, CountedStays DEF SentAway, CountedHoldATicket
<1>10. ASSUME NEW s \in Slots, LeaveEarly(s)  PROVE  CountedHoldATicket'
  <2>1. /\ join[s] = "no" /\ guest[s] = "none" /\ feed' = Release(feed, s)
        /\ forgotten' = forgotten \cap feed'.guests /\ UNCHANGED <<join, late, ticket, guest>>
    BY <1>10 DEF LeaveEarly, OrderlyJoins, StillForgotten
  <2>2. feed'.guests = feed.guests \ {s}
    BY <2>1, ReleaseKeeps DEF FeedInvariant
  <2>3. feed'.guests \ forgotten' \subseteq feed.guests \ forgotten
    BY <2>1, <2>2
  <2> QED
    BY <2>1, <2>3, CountedStays DEF CountedHoldATicket
<1>11. CASE UNCHANGED vars
  BY <1>11 DEF vars, CountedHoldATicket
<1>12. ASSUME NEW s \in Slots
       PROVE  /\ ~RefuseJoin(s)
              /\ \A spec \in Specs : ~LateJoinFeed(s, spec)
  BY DEF RefuseJoin, LateJoinFeed, OrderlyJoins, CountedHoldATicket
<1> QED
  BY <1>1, <1>2, <1>3, <1>4, <1>5, <1>6, <1>7, <1>8, <1>9, <1>10, <1>11, <1>12 DEF Next

\* Where joins come one at a time and run to their end, a feed is never kept up for
\* a guest who has neither a worker on it nor a join under way, but one whom their
\* share sent away.
THEOREM FeedCountsWhoComes ==
  ASSUME OrderlyJoins  PROVE  Spec => []CountedIsComing
<1>1. Init => CountedHoldATicket
  BY DEF Init, CountedHoldATicket
<1>2. FeedInvariant /\ NotInVain(feed) /\ [Next]_vars => (FeedInvariant /\ NotInVain(feed))'
  BY FeedSteps DEF OrderlyJoins, Launches
<1>3. CountedHoldATicket => CountedIsComing
  BY DEF CountedHoldATicket, CountedIsComing
<1> QED
  BY <1>1, <1>2, <1>3, FeedStarts, CountedStep, PTL DEF Spec

-----------------------------------------------------------------------------
(* What a join finds on the feed it was given.                             *)

\* There is a name for another pipe as long as a worker can be started: those in
\* use are the feed's own and one per process that runs.
LEMMA NewPipeIsNew ==
  ASSUME FreeWorkers(proc) # {}
  PROVE  NewPipe \in Pipes /\ NewPipe \notin UsedPipes
<1>1. Cardinality(Workers) \in Nat /\ IsFiniteSet(Workers)
  BY FiniteAssumption, FS_CardinalityType
<1>2. IsFiniteSet(Pipes) /\ Cardinality(Workers) < Cardinality(Pipes)
  BY <1>1, FS_Interval DEF Pipes
<1>3. ASSUME Pipes \subseteq UsedPipes  PROVE FALSE
  <2>1. PICK free \in Workers : proc[free].st = "free"
    BY DEF FreeWorkers
  <2> DEFINE owner == [p \in Pipes |-> IF p = feed.pipe THEN free
                                       ELSE CHOOSE w \in Workers : proc[w].st # "free" /\ proc[w].pipe = p]
  <2>2. ASSUME NEW p \in Pipes, p # feed.pipe
        PROVE  owner[p] \in Workers /\ proc[owner[p]].st # "free" /\ proc[owner[p]].pipe = p
    <3>1. \E w \in Workers : proc[w].st # "free" /\ proc[w].pipe = p
      BY <1>3, <2>2 DEF UsedPipes
    <3> QED
      BY <2>2, <3>1
  <2>3. ASSUME NEW p \in Pipes, p = feed.pipe  PROVE owner[p] = free
    BY <2>3
  <2>4. owner \in [Pipes -> Workers]
    BY <2>2, <2>3
  <2> HIDE DEF owner
  <2>5. PICK p, q \in Pipes : p # q /\ owner[p] = owner[q]
    BY <1>1, <1>2, <2>4, FS_PigeonHole
  <2> QED
    BY <2>1, <2>2, <2>3, <2>5
<1> QED
  BY <1>3 DEF NewPipe

\* A guest may watch what the feed shows.
Suits(spec, f) == spec.app = f.spec.app /\ (spec.h264 => f.spec.h264)

\* The guest is let in on the feed as it is, running or due.
SeatedAs(a, spec, s) ==
  /\ a.ok = TRUE /\ a.proc = proc /\ Suits(spec, feed)
  /\ feed.failed = FALSE /\ (feed.worker # None \/ Due(feed))
  /\ a.feed.guests = feed.guests \cup {s}
  /\ a.feed.pipe = feed.pipe /\ a.feed.spec = feed.spec /\ a.feed.failed = FALSE
  /\ a.feed.worker = feed.worker /\ a.feed.restart = feed.restart
  /\ a.feed.resizing = feed.resizing /\ a.feed.failures = feed.failures

\* The processes once the feed's worker, if any, was asked to quit.
Retired == IF feed.worker = None THEN proc ELSE AskToQuit(proc, feed.worker, FALSE)
Published(ps, w) ==
  [ps EXCEPT ![w] = [st |-> "up", pipe |-> NewPipe, heard |-> TRUE, again |-> FALSE]]

\* The guest begins a feed of their own, which may not start.
BegunAs(a, spec, s) ==
  /\ feed.failed = FALSE /\ (feed.worker = None => ~Due(feed))
  /\ feed.worker = None \/ feed.guests \ {s} = {} \/ (~feed.spec.h264 /\ spec.h264)
  /\ a.feed.pipe = NewPipe /\ a.feed.spec = spec /\ a.feed.failed = FALSE
  /\ a.feed.restart = FALSE /\ a.feed.resizing = feed.resizing /\ a.feed.failures = 0
  /\ \/ a.ok = FALSE /\ ~Launches /\ a.feed.worker = None /\ a.proc = Retired
     \/ /\ a.ok = TRUE /\ s \in a.feed.guests
        /\ \E w \in FreeWorkers(proc) :
             a.feed.worker = w /\ a.proc = Published(Retired, w)

\* A feed f that was down, begun by a guest beside the processes ps.
BegunFrom(f, ps, a, spec, s) ==
  /\ a.feed.pipe = NewPipe /\ a.feed.spec = spec /\ a.feed.failed = f.failed
  /\ a.feed.restart = f.restart /\ a.feed.resizing = f.resizing /\ a.feed.failures = 0
  /\ \/ a.ok = FALSE /\ ~Launches /\ a.feed.worker = None /\ a.proc = ps
     \/ /\ a.ok = TRUE /\ s \in a.feed.guests
        /\ \E w \in FreeWorkers(proc) :
             a.feed.worker = w /\ a.proc = Published(ps, w)

\* A new feed as begun by a guest, on the processes F leaves.
LEMMA BeginMakes ==
  ASSUME NEW f, IsFeed(f), NEW ps, IsProcs(ps), FreeWorkers(ps) = FreeWorkers(proc),
         FreeWorkers(proc) # {}, f.worker = None, NEW F, F = [feed |-> f, proc |-> ps],
         NEW spec, NEW s \in Slots, NEW a \in Begin(F, spec, s)
  PROVE  BegunFrom(f, ps, a, spec, s)
<1> DEFINE fresh == [F EXCEPT !.feed.spec = spec, !.feed.pipe = NewPipe, !.feed.failures = 0]
           g == [f EXCEPT !.spec = spec, !.pipe = NewPipe, !.failures = 0]
           w == CHOOSE x \in FreeWorkers(fresh.proc) : TRUE
           procs == Published(ps, w)
<1>1. PICK l \in Launch(fresh) : a = IF l.ok THEN Seated(l, s) ELSE l
  BY DEF Begin
<1>2. fresh.feed = g /\ fresh.proc = ps
  OBVIOUS
<1>3. /\ IsFeed(g) /\ g.pipe = NewPipe /\ g.spec = spec /\ g.failed = f.failed
      /\ g.restart = f.restart /\ g.resizing = f.resizing /\ g.worker = None /\ g.failures = 0
      /\ g.guests \in SUBSET Slots
  BY DEF IsFeed
<1>4. w \in FreeWorkers(proc)
  BY <1>2
<1>5. \/ l = [ok |-> TRUE, feed |-> [g EXCEPT !.worker = w], proc |-> procs]
      \/ ~Launches /\ l = [ok |-> FALSE, feed |-> g, proc |-> ps]
  <2> HIDE DEF fresh, g
  <2>1. \/ l = [ok |-> TRUE, feed |-> [fresh.feed EXCEPT !.worker = w],
               proc |-> [fresh.proc EXCEPT ![w] = [st |-> "up", pipe |-> fresh.feed.pipe,
                                                   heard |-> TRUE, again |-> FALSE]]]
        \/ ~Launches /\ l = [ok |-> FALSE, feed |-> fresh.feed, proc |-> fresh.proc]
    BY <1>1, Zenon DEF Launch, Launches
  <2> QED
    BY <1>2, <1>3, <2>1 DEF Published
<1> HIDE DEF g, w, procs, fresh
<1>6. CASE l = [ok |-> TRUE, feed |-> [g EXCEPT !.worker = w], proc |-> procs]
  <2>1. /\ a.ok = TRUE /\ a.proc = procs
        /\ a.feed = [[g EXCEPT !.worker = w] EXCEPT !.guests = @ \cup {s}]
    BY <1>1, <1>6 DEF Seated
  <2>2. /\ a.feed.pipe = g.pipe /\ a.feed.spec = g.spec /\ a.feed.failed = g.failed
        /\ a.feed.restart = g.restart /\ a.feed.resizing = g.resizing /\ a.feed.worker = w
        /\ a.feed.failures = g.failures
        /\ s \in a.feed.guests
    BY <1>3, <2>1 DEF IsFeed
  <2> QED
    BY <1>3, <1>4, <2>1, <2>2 DEF procs, BegunFrom
<1>7. CASE ~Launches /\ l = [ok |-> FALSE, feed |-> g, proc |-> ps]
  BY <1>1, <1>3, <1>7 DEF BegunFrom
<1> QED
  BY <1>5, <1>6, <1>7

\* What acquire() comes to: a refusal that changes nothing, a place on the feed as
\* it is, or a feed begun on a pipe of its own.
LEMMA AcquireMakes ==
  ASSUME FeedInvariant, FreeWorkers(proc) # {}, NEW spec, NEW s \in Slots,
         NEW a \in Acquire(Now, spec, s)
  PROVE  \/ a.ok = FALSE /\ a.feed = feed /\ a.proc = proc
         \/ SeatedAs(a, spec, s)
         \/ BegunAs(a, spec, s)
<1> DEFINE others == feed.guests \ {s}
           stopped == StopWorker(Now)
           made == MakeRoom(Now, spec, others)
           room == [made EXCEPT !.feed.idle = FALSE]
<1>1. /\ Now = [feed |-> feed, proc |-> proc] /\ Now.feed = feed /\ Now.proc = proc
      /\ IsFeed(feed) /\ IsProcs(proc)
  BY DEF Now, FeedInvariant, Sound
<1>2. CASE a \in Refused(Now)
  BY <1>1, <1>2 DEF Refused
<1>3. CASE /\ ~feed.failed /\ Due(feed) /\ Suits(spec, feed) /\ a = Seated(Now, s)
  <2>1. a.ok = TRUE /\ a.proc = proc /\ a.feed = [feed EXCEPT !.guests = @ \cup {s}]
    BY <1>1, <1>3 DEF Seated
  <2>2. /\ a.feed.guests = feed.guests \cup {s} /\ feed.failed = FALSE
        /\ a.feed.pipe = feed.pipe /\ a.feed.spec = feed.spec /\ a.feed.failed = feed.failed
        /\ a.feed.worker = feed.worker /\ a.feed.restart = feed.restart
        /\ a.feed.resizing = feed.resizing /\ a.feed.failures = feed.failures
    BY <1>1, <1>3, <2>1 DEF IsFeed
  <2> QED
    BY <1>3, <2>1, <2>2 DEF SeatedAs
<1>4. CASE /\ ~feed.failed /\ ~(feed.worker = None /\ Due(feed))
           /\ feed.worker # None /\ ~SameFeed(spec, feed.spec) => others = {}
           /\ a \in IF room.feed.worker = None THEN Begin(room, spec, s) ELSE {Seated(room, s)}
  <2>1. feed.failed = FALSE
    BY <1>1, <1>4 DEF IsFeed
  <2>2. CASE made = Now /\ feed.worker # None /\ Suits(spec, feed)
    <3>1. room.feed = [feed EXCEPT !.idle = FALSE] /\ room.proc = proc
      BY <1>1, <2>2
    <3> HIDE DEF room, made
    <3>2. /\ IsFeed(room.feed) /\ room.feed.worker = feed.worker /\ room.feed.guests = feed.guests
          /\ room.feed.pipe = feed.pipe /\ room.feed.spec = feed.spec
          /\ room.feed.failed = feed.failed /\ room.feed.restart = feed.restart
          /\ room.feed.resizing = feed.resizing /\ room.feed.failures = feed.failures
      BY <1>1, <3>1 DEF IsFeed
    <3>3. a = Seated(room, s)
      BY <1>4, <2>2, <3>2
    <3>4. a.ok = TRUE /\ a.proc = proc /\ a.feed = [room.feed EXCEPT !.guests = @ \cup {s}]
      BY <3>1, <3>3 DEF Seated
    <3>5. /\ a.feed.guests = room.feed.guests \cup {s}
          /\ a.feed.pipe = room.feed.pipe /\ a.feed.spec = room.feed.spec
          /\ a.feed.failed = room.feed.failed /\ a.feed.worker = room.feed.worker
          /\ a.feed.restart = room.feed.restart /\ a.feed.resizing = room.feed.resizing
          /\ a.feed.failures = room.feed.failures
      BY <3>2, <3>4 DEF IsFeed
    <3> QED
      BY <2>1, <2>2, <3>2, <3>4, <3>5 DEF SeatedAs
  <2>3. CASE made = Now /\ feed.worker = None
    <3>0. \A b : [Now EXCEPT !.feed.idle = b] = [feed |-> [feed EXCEPT !.idle = b], proc |-> proc]
      BY <1>1
    <3>1. room = [feed |-> [feed EXCEPT !.idle = FALSE], proc |-> proc]
      BY <2>3, <3>0, Zenon
    <3> DEFINE f == [feed EXCEPT !.idle = FALSE]
    <3>2. /\ IsFeed(f) /\ f.worker = None /\ f.failed = feed.failed
          /\ f.restart = feed.restart /\ f.resizing = feed.resizing
      BY <1>1, <2>3 DEF IsFeed
    <3>3. a \in Begin(room, spec, s) /\ room = [feed |-> f, proc |-> proc]
      BY <1>4, <2>3, <3>1, <3>2
    <3> HIDE DEF f, room
    <3>4. feed.restart = FALSE
      BY <1>1, <1>4, <2>3 DEF Due, IsFeed
    <3>5. BegunFrom(f, proc, a, spec, s)
      BY <1>1, <3>2, <3>3, BeginMakes
    <3>6. Retired = proc
      BY <2>3 DEF Retired
    <3>7. BegunAs(a, spec, s)
      BY <1>4, <2>1, <2>3, <3>2, <3>4, <3>5, <3>6 DEF BegunAs, BegunFrom
    <3> QED
      BY <3>7
  <2>4. ASSUME NEW left, left \in SUBSET Slots, feed.worker # None,
               others = {} \/ (~feed.spec.h264 /\ spec.h264),
               made = [feed |-> [stopped.feed EXCEPT !.guests = left], proc |-> stopped.proc]
        PROVE  BegunAs(a, spec, s)
    <3> DEFINE f == [stopped.feed EXCEPT !.guests = left, !.idle = FALSE]
    <3>1. /\ stopped.feed = [feed EXCEPT !.idle = FALSE, !.restart = FALSE, !.worker = None]
          /\ IsFeed(stopped.feed) /\ IsProcs(stopped.proc)
          /\ FreeWorkers(stopped.proc) = FreeWorkers(proc)
      BY <1>1, StopMakes
    <3>2. stopped.proc = Retired
      BY <1>1 DEF StopWorker, Retired
    <3> HIDE DEF stopped
    <3>3. room = [feed |-> f, proc |-> stopped.proc]
      <4> DEFINE g(b) == [feed |-> [stopped.feed EXCEPT !.guests = left, !.idle = b], proc |-> stopped.proc]
      <4>1. \A b : [made EXCEPT !.feed.idle = b] = g(b)
        <5> HIDE DEF made
        <5> QED
          BY <2>4
      <4> QED
        BY <4>1, Zenon
    <3>4. /\ IsFeed(f) /\ f.worker = None /\ f.failed = feed.failed
          /\ f.restart = FALSE /\ f.resizing = feed.resizing
      BY <1>1, <2>4, <3>1 DEF IsFeed
    <3> HIDE DEF f
    <3>5. a \in Begin(room, spec, s)
      BY <1>4, <3>3, <3>4
    <3> HIDE DEF room
    <3>6. BegunFrom(f, Retired, a, spec, s)
      BY <3>1, <3>2, <3>3, <3>4, <3>5, BeginMakes
    <3> QED
      BY <2>1, <2>4, <3>4, <3>6 DEF BegunAs, BegunFrom
  <2>5. stopped = [feed |-> stopped.feed, proc |-> stopped.proc] /\ IsFeed(stopped.feed)
        /\ stopped.feed.guests = feed.guests
    <3>1. /\ stopped = [feed |-> stopped.feed, proc |-> stopped.proc] /\ IsFeed(stopped.feed)
          /\ stopped.feed = [feed EXCEPT !.idle = FALSE, !.restart = FALSE, !.worker = None]
      BY <1>1, StopMakes
    <3> HIDE DEF stopped
    <3> QED
      BY <1>1, <3>1 DEF IsFeed
  <2>6. CASE made = stopped /\ feed.worker # None /\ others = {}
    <3> HIDE DEF stopped, made
    <3>1. stopped.feed = [stopped.feed EXCEPT !.guests = feed.guests]
      BY <2>5 DEF IsFeed
    <3>2. made = [feed |-> [stopped.feed EXCEPT !.guests = feed.guests], proc |-> stopped.proc]
      BY <2>5, <2>6, <3>1
    <3> QED
      BY <1>1, <2>4, <2>6, <3>2 DEF IsFeed
  <2>7. CASE /\ made = [stopped EXCEPT !.feed.guests = {}] /\ feed.worker # None
             /\ ~feed.spec.h264 /\ spec.h264
    <3> HIDE DEF stopped, made
    <3>1. made = [feed |-> [stopped.feed EXCEPT !.guests = {}], proc |-> stopped.proc]
      BY <2>5, <2>7
    <3>2. {} \in SUBSET Slots
      OBVIOUS
    <3> QED
      BY <2>4, <2>7, <3>1, <3>2
  <2> QED
    BY <1>1, <1>4, <2>2, <2>3, <2>6, <2>7 DEF MakeRoom, RetireForCodec, SameFeed, Suits
<1> QED
  BY <1>1, <1>2, <1>3, <1>4 DEF Acquire, JoinTheWait, SameFeed, Suits

\* The same pipe, display and codec.
SameShow(f, g) == g.pipe = f.pipe /\ g.spec.app = f.spec.app /\ g.spec.h264 = f.spec.h264

\* A feed that runs, is due or has guests, and was not given up on.
Alive(f) == ~f.failed /\ (f.worker # None \/ Due(f) \/ f.guests # {})

\* The failures are as before, forgotten, or one more of a feed not given up on.
SameFailures(f, g) == g.failures = f.failures /\ g.failed = f.failed
Counts(f, g) ==
  \/ SameFailures(f, g)
  \/ g.failures = 0 /\ g.failed = FALSE
  \/ /\ ~f.failed /\ g.failures \in {1, f.failures + 1}
     /\ IF g.failures >= kMaxFailures THEN g.failed = TRUE ELSE g.failed = f.failed

\* Nobody is lost from a feed that lives on, and it shows the same.
Steady(f, g) ==
  /\ SameShow(f, g) /\ g.spec \in Specs /\ Counts(f, g)
  /\ Alive(g) => Alive(f) /\ g.guests = f.guests

\* A feed stopped by its owner or its timer.
LEMMA StopIsSteady ==
  ASSUME FeedInvariant, feed.spec \in Specs,
         NEW g, g = [feed EXCEPT !.idle = FALSE, !.restart = FALSE, !.worker = None]
  PROVE  /\ IsFeed(g) /\ g.pipe = feed.pipe /\ g.spec = feed.spec /\ g.guests = feed.guests
         /\ g.failed = feed.failed /\ g.resizing = feed.resizing
         /\ g.worker = None /\ g.restart = FALSE /\ g.failures = feed.failures
BY DEF FeedInvariant, Sound, IsFeed

\* A worker that goes, and what is heard of it.
LEMMA ProcessIsSteady ==
  ASSUME FeedInvariant, feed.spec \in Specs,
         NEW w \in Workers, Goes(w) \/ HearEnded(w) \/ HearExited(w)
  PROVE  Steady(feed, feed')
<1>1. IsFeed(feed) /\ IsProcs(proc)
  BY DEF FeedInvariant, Sound
<1>2. CASE feed' = feed
  BY <1>2 DEF Steady, SameShow, Counts, SameFailures
<1>3. ASSUME w = feed.worker, NEW healthy \in BOOLEAN, feed' = OnEnded(feed, healthy)
      PROVE  Steady(feed, feed')
  <2>1. feed.worker # None
    BY <1>3
  <2>2. CASE feed' = [feed EXCEPT !.worker = None]
    <3>1. /\ SameShow(feed, feed') /\ feed'.spec = feed.spec /\ feed'.guests = feed.guests
          /\ SameFailures(feed, feed')
      BY <1>1, <2>2 DEF IsFeed, SameShow, SameFailures
    <3> QED
      BY <2>1, <3>1 DEF Steady, Alive, Counts, SameFailures
  <2>3. ~feed.failed
    BY <2>1 DEF FeedInvariant, Sound
  <2>4. ASSUME NEW n \in {1, feed.failures + 1}, n >= kMaxFailures,
               feed' = [feed EXCEPT !.worker = None, !.failures = n, !.failed = TRUE, !.guests = {}]
        PROVE  Steady(feed, feed')
    <3>1. /\ SameShow(feed, feed') /\ feed'.spec = feed.spec /\ feed'.failed = TRUE
          /\ feed'.failures = n
      BY <1>1, <2>4 DEF IsFeed, SameShow
    <3> QED
      BY <2>3, <2>4, <3>1 DEF Steady, Alive, Counts
  <2>5. ASSUME NEW n \in {1, feed.failures + 1}, ~(n >= kMaxFailures),
               feed' = [feed EXCEPT !.worker = None, !.failures = n, !.restart = TRUE]
        PROVE  Steady(feed, feed')
    <3>1. /\ SameShow(feed, feed') /\ feed'.spec = feed.spec /\ feed'.guests = feed.guests
          /\ feed'.failed = feed.failed /\ feed'.failures = n
      BY <1>1, <2>5 DEF IsFeed, SameShow
    <3> QED
      BY <2>1, <2>3, <2>5, <3>1 DEF Steady, Alive, Counts
  <2> DEFINE n == (IF healthy THEN 0 ELSE feed.failures) + 1
  <2>6. n \in {1, feed.failures + 1}
    OBVIOUS
  <2>7. \/ feed' = [feed EXCEPT !.worker = None]
        \/ /\ n >= kMaxFailures
           /\ feed' = [feed EXCEPT !.worker = None, !.failures = n, !.failed = TRUE, !.guests = {}]
        \/ /\ ~(n >= kMaxFailures)
           /\ feed' = [feed EXCEPT !.worker = None, !.failures = n, !.restart = TRUE]
    BY <1>3 DEF OnEnded
  <2> HIDE DEF n
  <2> QED
    BY <2>2, <2>4, <2>5, <2>6, <2>7
<1>4. CASE HearExited(w) /\ feed' # feed
  <2> DEFINE gone == [proc EXCEPT ![w] = NoProcess]
             f == [feed EXCEPT !.resizing = FALSE]
             F == [feed |-> f, proc |-> gone]
  <2>1. IsProcs(gone) /\ w \in FreeWorkers(gone)
    BY <1>1 DEF IsProcs, IsProc, FreeWorkers, NoProcess
  <2>2. /\ IsFeed(f) /\ f.worker = feed.worker /\ f.guests = feed.guests /\ f.pipe = feed.pipe
        /\ f.failed = feed.failed /\ f.spec = feed.spec /\ f.restart = feed.restart
        /\ f.resizing = FALSE /\ f.failures = feed.failures
    BY <1>1 DEF IsFeed
  <2>3. CASE feed' = f
    BY <2>2, <2>3 DEF Steady, SameShow, Alive, Due, Counts, SameFailures
  <2>4. CASE feed.guests # {} /\ ~feed.failed /\ \E l \in Launch(F) : feed' = l.feed
    <3>1. PICK l \in Launch(F) : feed' = l.feed
      BY <2>4
    <3>2. F.feed = f /\ F.proc = gone
      OBVIOUS
    <3> HIDE DEF f, gone, F
    <3> HIDE <2>4
    <3>0. IsFeed(F.feed) /\ IsProcs(F.proc) /\ FreeWorkers(F.proc) # {}
      BY <2>1, <2>2, <3>2
    <3>5. /\ l.ok => \E x \in Workers : l.feed = [F.feed EXCEPT !.worker = x]
          /\ ~l.ok => l.feed = F.feed
      BY <3>0, LaunchMakes
    <3>3. feed' = f \/ \E x \in Workers : feed' = [f EXCEPT !.worker = x]
      BY <3>1, <3>2, <3>5
    <3>4. /\ feed'.guests = feed.guests /\ feed'.pipe = feed.pipe /\ feed'.spec = feed.spec
          /\ SameFailures(feed, feed')
      BY <2>2, <3>3 DEF IsFeed, SameFailures
    <3> QED
      BY <2>4, <3>4 DEF Steady, SameShow, Alive, Counts
  <2> QED
    BY <1>4, <2>2, <2>3, <2>4 DEF HearExited, Becomes
<1> QED
  BY <1>2, <1>3, <1>4 DEF Goes, HearEnded, HearExited

\* The feed's own timers.
LEMMA TimerIsSteady ==
  ASSUME FeedInvariant, feed.spec \in Specs, IdleTimer \/ RestartTimer
  PROVE  Steady(feed, feed')
<1>1. IsFeed(feed) /\ IsProcs(proc) /\ Now.feed = feed
  BY DEF FeedInvariant, Sound, Now
<1>2. CASE feed' = [feed EXCEPT !.idle = FALSE]
  <2>1. /\ feed'.guests = feed.guests /\ feed'.pipe = feed.pipe /\ feed'.spec = feed.spec
        /\ feed'.failed = feed.failed /\ feed'.worker = feed.worker
        /\ feed'.restart = feed.restart /\ feed'.resizing = feed.resizing
        /\ feed'.failures = feed.failures
    BY <1>1, <1>2 DEF IsFeed
  <2> QED
    BY <2>1 DEF Steady, SameShow, Alive, Due, Counts, SameFailures
<1>3. CASE feed' = [feed EXCEPT !.idle = FALSE, !.restart = FALSE, !.worker = None]
  BY <1>3, StopIsSteady DEF Steady, SameShow, Alive, Due, Counts, SameFailures
<1>4. CASE RestartTimer
  <2> DEFINE f == [feed EXCEPT !.restart = FALSE]
             F == [Now EXCEPT !.feed.restart = FALSE]
  <2>1. /\ IsFeed(f) /\ f.worker = feed.worker /\ f.guests = feed.guests /\ f.pipe = feed.pipe
        /\ f.failed = feed.failed /\ f.spec = feed.spec /\ f.restart = FALSE
        /\ f.resizing = feed.resizing /\ f.failures = feed.failures
    BY <1>1 DEF IsFeed
  <2>2. F.feed = f /\ F.proc = proc
    <3>1. \A b : [Now EXCEPT !.feed.restart = b] = [feed |-> [feed EXCEPT !.restart = b], proc |-> proc]
      BY DEF Now
    <3>2. F = [feed |-> f, proc |-> proc]
      BY <3>1, Zenon
    <3> HIDE DEF F, f
    <3> QED
      BY <3>2
  <2>3. feed' = F.feed \/ (feed.guests # {} /\ \E l \in Launch(F) : feed' = l.feed)
    BY <1>4 DEF RestartTimer, Becomes
  <2> HIDE DEF F, f
  <2>4. FreeWorkers(proc) # {}
    BY <1>4 DEF RestartTimer
  <2>5. CASE feed' = F.feed
    BY <2>1, <2>2, <2>5 DEF Steady, SameShow, Alive, Due, Counts, SameFailures
  <2>6. CASE feed.guests # {} /\ \E l \in Launch(F) : feed' = l.feed
    <3>1. feed' = f \/ \E x \in Workers : feed' = [f EXCEPT !.worker = x]
      BY <1>1, <2>1, <2>2, <2>4, <2>6, LaunchMakes
    <3>2. /\ feed'.guests = feed.guests /\ feed'.pipe = feed.pipe /\ feed'.spec = feed.spec
          /\ SameFailures(feed, feed')
      BY <2>1, <3>1 DEF IsFeed, SameFailures
    <3> QED
      BY <2>6, <3>2 DEF Steady, SameShow, Alive, Counts, SameFailures
  <2> QED
    BY <2>3, <2>5, <2>6
<1> QED
  BY <1>1, <1>2, <1>3, <1>4 DEF IdleTimer, Becomes, StopWorker, Now

\* The owner picks a height or ends everything.
LEMMA OwnerIsSteady ==
  ASSUME FeedInvariant, feed.spec \in Specs,
         \/ \E h \in Heights : PickHeight(h)
         \/ EndPlayerSessions
  PROVE  Steady(feed, feed')
<1>1. IsFeed(feed) /\ IsProcs(proc) /\ Now = [feed |-> feed, proc |-> proc]
  BY DEF FeedInvariant, Sound, Now
<1>2. ASSUME NEW h \in Heights, feed' = Resize(Now, h).feed
      PROVE  Steady(feed, feed')
  <2> DEFINE g == [feed EXCEPT !.spec.height = h]
             G == [feed |-> g, proc |-> proc]
  <2>1. g = [feed EXCEPT !.spec = [feed.spec EXCEPT !.height = h]]
    OBVIOUS
  <2>2. /\ IsFeed(g) /\ g.spec = [feed.spec EXCEPT !.height = h] /\ g.pipe = feed.pipe
        /\ g.guests = feed.guests /\ g.failed = feed.failed /\ g.worker = feed.worker
        /\ g.restart = feed.restart /\ g.resizing = feed.resizing /\ g.failures = feed.failures
    BY <1>1, <2>1 DEF IsFeed
  <2>3. g.spec \in Specs /\ g.spec.app = feed.spec.app /\ g.spec.h264 = feed.spec.h264
    BY <2>2 DEF Specs
  <2>4. [Now EXCEPT !.feed.spec.height = h] = G
    BY DEF Now
  <2> HIDE DEF g
  <2>5. \/ feed' = feed \/ feed' = g
        \/ feed' = [g EXCEPT !.idle = FALSE, !.restart = FALSE, !.worker = None] /\ feed.worker # None
        \/ feed' = [g EXCEPT !.worker = None, !.idle = FALSE, !.resizing = TRUE] /\ feed.worker # None
    BY <1>1, <1>2, <2>4 DEF Resize, StopWorker
  <2>6. feed' = feed \/ /\ feed'.spec = g.spec /\ feed'.pipe = feed.pipe
                        /\ feed'.guests = feed.guests /\ SameFailures(feed, feed')
                        /\ feed.worker # None \/ (/\ feed'.worker = feed.worker
                                                  /\ feed'.restart = feed.restart
                                                  /\ feed'.resizing = feed.resizing)
    BY <2>2, <2>5 DEF IsFeed, SameFailures
  <2> QED
    BY <2>3, <2>6 DEF Steady, SameShow, Alive, Due, Counts, SameFailures
<1>3. CASE feed' = Reset(Now).feed
  <2> DEFINE G == StopWorker(Now)
  <2>1. /\ G = [feed |-> G.feed, proc |-> G.proc] /\ IsFeed(G.feed)
        /\ G.feed.pipe = feed.pipe /\ G.feed.spec = feed.spec
        /\ G.feed.worker = None /\ G.feed.restart = FALSE
    <3>1. /\ G = [feed |-> G.feed, proc |-> G.proc] /\ IsFeed(G.feed)
          /\ G.feed = [feed EXCEPT !.idle = FALSE, !.restart = FALSE, !.worker = None]
      BY <1>1, StopMakes
    <3> HIDE DEF G
    <3> QED
      BY <1>1, <3>1 DEF IsFeed
  <2>2. Reset(Now) = [G EXCEPT !.feed.guests = {}, !.feed.resizing = FALSE, !.feed.failed = FALSE,
                               !.feed.failures = 0]
    BY DEF Reset
  <2> HIDE DEF G
  <2>3. feed' = [G.feed EXCEPT !.guests = {}, !.resizing = FALSE, !.failed = FALSE, !.failures = 0]
    BY <1>3, <2>1, <2>2
  <2>4. /\ feed'.spec = feed.spec /\ feed'.pipe = feed.pipe /\ feed'.guests = {}
        /\ feed'.worker = None /\ feed'.restart = FALSE /\ feed'.resizing = FALSE
        /\ feed'.failed = FALSE /\ feed'.failures = 0
    BY <2>1, <2>3 DEF IsFeed
  <2> QED
    BY <2>4 DEF Steady, SameShow, Alive, Due, Counts
<1> QED
  BY <1>2, <1>3 DEF PickHeight, EndPlayerSessions, Becomes

\* A place given back takes nothing else from the feed.
LEMMA ReleaseIsSteady ==
  ASSUME FeedInvariant, feed.spec \in Specs, NEW s \in Slots, Given(s)
  PROVE  /\ SameShow(feed, feed') /\ feed'.spec \in Specs
         /\ Alive(feed') => Alive(feed)
         /\ feed'.guests = feed.guests \/ feed'.guests = feed.guests \ {s}
<1>1. IsFeed(feed)
  BY DEF FeedInvariant, Sound
<1>2. CASE feed' = Release(feed, s)
  <2>1. /\ feed'.spec = feed.spec /\ feed'.pipe = feed.pipe /\ feed'.guests = feed.guests \ {s}
        /\ feed'.worker = feed.worker /\ feed'.restart = feed.restart
        /\ feed'.resizing = feed.resizing /\ feed'.failed = feed.failed
    BY <1>1, <1>2 DEF Release, IsFeed
  <2> QED
    BY <2>1 DEF SameShow, Alive, Due
<1>3. CASE feed' = feed
  BY <1>3 DEF SameShow
<1> QED
  BY <1>2, <1>3 DEF Given

\* The slots hold what they may hold.
SlotsTyped ==
  /\ feed.spec \in Specs /\ height \in Heights
  /\ join \in [Slots -> {"no", "waiting", "claiming"}]
  /\ late \in [Slots -> SUBSET Specs]
  /\ wants \in [Slots -> Specs]
  /\ ticket \in [Slots -> {"none", "this", "older"}]
  /\ guest \in [Slots -> {"none", "fed", "alone"}]

\* A join on its way to the feed has left what it held behind; a ticket of the
\* feed's pipe is a ticket for what the feed shows.
TicketsSuit ==
  \A s \in Slots :
    /\ join[s] = "waiting" => ticket[s] = "none" /\ guest[s] = "none"
    /\ ticket[s] = "this" => Suits(wants[s], feed)

TicketInvariant == FeedInvariant /\ SlotsTyped /\ TicketsSuit

\* Whoever has a ticket of the feed's pipe, and a worker on it or a join under
\* way, is counted as long as the feed lives.
ComerIsCounted(s) ==
  ticket[s] = "this" /\ (guest[s] = "fed" \/ join[s] = "claiming") => s \in feed.guests
TicketsAreCounted == Alive(feed) => \A s \in Slots : ComerIsCounted(s)

\* Nobody is taken off the feed before their join is over.
JoinsRunOn == "leaveWhileJoining" \notin Happens

\* The steps of the feed itself, which leave the slots' joins and tickets alone.
LEMMA FeedStepSuits ==
  ASSUME TicketInvariant, Steady(feed, feed'), height' \in Heights,
         UNCHANGED <<join, late, wants, ticket>>,
         guest' \in [Slots -> {"none", "fed", "alone"}],
         \A s \in Slots : guest'[s] \in {"none", guest[s]}
  PROVE  SlotsTyped' /\ TicketsSuit' /\ (TicketsAreCounted => TicketsAreCounted')
<1>1. SlotsTyped'
  BY DEF TicketInvariant, SlotsTyped, Steady
<1>2. TicketsSuit'
  BY DEF TicketInvariant, TicketsSuit, Steady, SameShow, Suits
<1>3. ASSUME TicketsAreCounted, Alive(feed'), NEW s \in Slots  PROVE ComerIsCounted(s)'
  BY <1>3 DEF TicketsAreCounted, Steady, ComerIsCounted
<1> QED
  BY <1>1, <1>2, <1>3 DEF TicketsAreCounted

\* A join that reaches the feed: its ticket suits it and it is counted, and a new
\* pipe makes every other ticket an old one.
LEMMA JoinSuits ==
  ASSUME TicketInvariant, NEW s \in Slots, JoinFeed(s)
  PROVE  SlotsTyped' /\ TicketsSuit' /\ (TicketsAreCounted => TicketsAreCounted')
<1>1. PICK a \in Acquire(Now, wants[s], s) :
        feed' = a.feed /\ ticket' = [Outdated EXCEPT ![s] = IF a.ok THEN "this" ELSE "none"]
  BY DEF JoinFeed, Becomes
<1>2. /\ FreeWorkers(proc) # {} /\ join' = [join EXCEPT ![s] = "claiming"]
      /\ UNCHANGED <<height, late, wants, guest>> /\ join[s] = "waiting"
  BY DEF JoinFeed
<1>3. \/ a.ok = FALSE /\ a.feed = feed /\ a.proc = proc
      \/ SeatedAs(a, wants[s], s)
      \/ BegunAs(a, wants[s], s)
  BY <1>1, <1>2, AcquireMakes DEF TicketInvariant
<1>4. NewPipe # feed.pipe
  BY <1>2, NewPipeIsNew DEF UsedPipes
<1>5. /\ ticket' \in [Slots -> {"none", "this", "older"}]
      /\ ticket'[s] = IF a.ok THEN "this" ELSE "none"
      /\ \A t \in Slots \ {s} : /\ feed'.pipe = feed.pipe => ticket'[t] = ticket[t]
                                /\ feed'.pipe # feed.pipe => ticket'[t] # "this"
                                /\ ticket[t] = "none" => ticket'[t] = "none"
  BY <1>1 DEF Outdated, TicketInvariant, SlotsTyped
<1>6. feed'.spec \in Specs
  BY <1>1, <1>3 DEF SeatedAs, BegunAs, TicketInvariant, SlotsTyped
<1>7. SlotsTyped'
  BY <1>2, <1>5, <1>6 DEF TicketInvariant, SlotsTyped
<1>8. \/ feed'.spec = feed.spec /\ feed'.pipe = feed.pipe
      \/ feed'.pipe # feed.pipe
  BY <1>1, <1>3, <1>4 DEF SeatedAs, BegunAs
<1>9. a.ok => Suits(wants[s], feed')
  BY <1>1, <1>3 DEF SeatedAs, BegunAs, Suits
<1>10. ASSUME NEW t \in Slots
       PROVE  /\ join'[t] = "waiting" => ticket'[t] = "none" /\ guest'[t] = "none"
              /\ ticket'[t] = "this" => Suits(wants'[t], feed')
  <2>1. CASE t = s
    BY <1>2, <1>5, <1>9, <2>1 DEF TicketInvariant, SlotsTyped
  <2>2. CASE t # s
    <3>1. join'[t] = "waiting" => ticket'[t] = "none" /\ guest'[t] = "none"
      BY <1>2, <1>5, <2>2 DEF TicketInvariant, TicketsSuit, SlotsTyped
    <3>2. ticket'[t] = "this" => ticket[t] = "this" /\ feed'.spec = feed.spec
      BY <1>5, <1>8, <2>2
    <3> QED
      BY <1>2, <3>1, <3>2 DEF TicketInvariant, TicketsSuit, Suits
  <2> QED
    BY <2>1, <2>2
<1>11. ASSUME TicketsAreCounted, Alive(feed'), NEW t \in Slots  PROVE ComerIsCounted(t)'
  <2>1. CASE feed'.pipe # feed.pipe
    <3>1. a.ok => s \in feed'.guests
      BY <1>1, <1>3 DEF SeatedAs, BegunAs
    <3> QED
      BY <1>5, <2>1, <3>1 DEF ComerIsCounted
  <2>2. CASE a.ok = FALSE /\ feed' = feed
    BY <1>2, <1>5, <1>11, <2>2 DEF ComerIsCounted, TicketsAreCounted, TicketInvariant, SlotsTyped
  <2>3. CASE SeatedAs(a, wants[s], s)
    <3>1. Alive(feed) /\ feed'.guests = feed.guests \cup {s} /\ feed'.pipe = feed.pipe
      BY <1>1, <2>3 DEF SeatedAs, Alive
    <3> QED
      BY <1>2, <1>5, <1>11, <3>1 DEF ComerIsCounted, TicketsAreCounted, TicketInvariant, SlotsTyped
  <2> QED
    BY <1>1, <1>3, <1>4, <2>1, <2>2, <2>3 DEF BegunAs
<1> QED
  BY <1>7, <1>10, <1>11 DEF TicketsSuit, TicketsAreCounted

\* The same for a join a newer one superseded, which gets no ticket.
LEMMA LateJoinSuits ==
  ASSUME TicketInvariant, NEW s \in Slots, NEW spec \in Specs, LateJoinFeed(s, spec)
  PROVE  SlotsTyped' /\ TicketsSuit' /\ (TicketsAreCounted => TicketsAreCounted')
<1>1. PICK a \in Acquire(Now, spec, s) : feed' = a.feed /\ ticket' = Outdated
  BY DEF LateJoinFeed, Becomes
<1>2. /\ FreeWorkers(proc) # {} /\ late' = [late EXCEPT ![s] = @ \ {spec}]
      /\ UNCHANGED <<height, join, wants, guest>>
  BY DEF LateJoinFeed
<1>3. \/ a.ok = FALSE /\ a.feed = feed /\ a.proc = proc
      \/ SeatedAs(a, spec, s)
      \/ BegunAs(a, spec, s)
  BY <1>1, <1>2, AcquireMakes DEF TicketInvariant
<1>4. NewPipe # feed.pipe
  BY <1>2, NewPipeIsNew DEF UsedPipes
<1>5. /\ ticket' \in [Slots -> {"none", "this", "older"}]
      /\ \A t \in Slots : /\ feed'.pipe = feed.pipe => ticket'[t] = ticket[t]
                          /\ feed'.pipe # feed.pipe => ticket'[t] # "this"
                          /\ ticket[t] = "none" => ticket'[t] = "none"
  BY <1>1 DEF Outdated, TicketInvariant, SlotsTyped
<1>6. \/ feed'.pipe # feed.pipe /\ feed'.spec = spec
      \/ feed' = feed
      \/ /\ Alive(feed) /\ feed'.guests = feed.guests \cup {s} /\ feed'.spec = feed.spec
         /\ feed'.pipe = feed.pipe
  BY <1>1, <1>3, <1>4 DEF SeatedAs, BegunAs, Alive
<1>7. SlotsTyped'
  BY <1>2, <1>5, <1>6 DEF TicketInvariant, SlotsTyped
<1>8. ASSUME NEW t \in Slots
      PROVE  /\ join'[t] = "waiting" => ticket'[t] = "none" /\ guest'[t] = "none"
             /\ ticket'[t] = "this" => Suits(wants'[t], feed')
  <2>1. ticket'[t] = "this" => ticket[t] = "this" /\ feed'.spec = feed.spec
    BY <1>5, <1>6
  <2> QED
    BY <1>2, <1>5, <2>1 DEF TicketInvariant, TicketsSuit, Suits
<1>9. ASSUME TicketsAreCounted, Alive(feed'), NEW t \in Slots  PROVE ComerIsCounted(t)'
  BY <1>2, <1>5, <1>6, <1>9 DEF ComerIsCounted, TicketsAreCounted
<1> QED
  BY <1>7, <1>8, <1>9 DEF TicketsSuit, TicketsAreCounted

\* The steps of one slot that take no place on the feed.
LEMMA SlotSuits ==
  ASSUME TicketInvariant, NEW s \in Slots,
         \/ \E app \in Apps, h264 \in Codecs : AskToJoin(s, app, h264)
         \/ RefuseJoin(s) \/ StartWorker(s) \/ GuestGoes(s) \/ SentAway(s)
             \/ LeaveEarly(s)
  PROVE  /\ SlotsTyped' /\ TicketsSuit'
         /\ JoinsRunOn /\ TicketsAreCounted => TicketsAreCounted'
<1>1. Given(s) /\ feed.spec \in Specs
  BY DEF AskToJoin, RefuseJoin, StartWorker, GuestGoes, SentAway, LeaveEarly, Given, TicketInvariant, SlotsTyped
<1>2. /\ SameShow(feed, feed') /\ feed'.spec \in Specs
      /\ Alive(feed') => Alive(feed)
      /\ feed'.guests = feed.guests \/ feed'.guests = feed.guests \ {s}
  BY <1>1, ReleaseIsSteady DEF TicketInvariant
<1>3. ASSUME NEW app \in Apps, NEW h264 \in Codecs, AskToJoin(s, app, h264)
      PROVE  SlotsTyped' /\ TicketsSuit' /\ (TicketsAreCounted => TicketsAreCounted')
  <2>1. /\ join' = [join EXCEPT ![s] = "waiting"] /\ guest' = [guest EXCEPT ![s] = "none"]
        /\ ticket' = [ticket EXCEPT ![s] = "none"] /\ feed' = feed /\ height' = height
        /\ wants' = [wants EXCEPT ![s] = [app |-> app, height |-> height, h264 |-> h264]]
        /\ late' = [late EXCEPT ![s] = IF join[s] = "waiting" THEN @ \cup {wants[s]} ELSE @]
    BY <1>3 DEF AskToJoin
  <2>2. [app |-> app, height |-> height, h264 |-> h264] \in Specs
    BY DEF Specs, TicketInvariant, SlotsTyped
  <2>3. SlotsTyped'
    BY <2>1, <2>2 DEF TicketInvariant, SlotsTyped
  <2>4. TicketsSuit'
    BY <2>1 DEF TicketInvariant, SlotsTyped, TicketsSuit
  <2>5. TicketsAreCounted => TicketsAreCounted'
    BY <2>1 DEF TicketInvariant, SlotsTyped, TicketsAreCounted, ComerIsCounted
  <2> QED
    BY <2>3, <2>4, <2>5
<1>4. CASE RefuseJoin(s)
  <2>1. /\ join' = [join EXCEPT ![s] = "no"] /\ join[s] = "waiting"
        /\ wants' = [wants EXCEPT ![s] = AnySpec]
        /\ UNCHANGED <<feed, height, late, ticket, guest>>
    BY <1>4 DEF RefuseJoin
  <2>2. AnySpec \in Specs
    BY DEF AnySpec, TicketInvariant, SlotsTyped
  <2>3. SlotsTyped'
    BY <2>1, <2>2 DEF TicketInvariant, SlotsTyped
  <2>4. TicketsSuit'
    BY <2>1 DEF TicketInvariant, SlotsTyped, TicketsSuit
  <2>5. TicketsAreCounted => TicketsAreCounted'
    BY <2>1 DEF TicketInvariant, SlotsTyped, TicketsAreCounted, ComerIsCounted
  <2> QED
    BY <2>3, <2>4, <2>5
<1>5. CASE StartWorker(s)
  <2>1. /\ join' = [join EXCEPT ![s] = "no"] /\ join[s] = "claiming"
        /\ UNCHANGED <<height, late, wants>>
        /\ \/ guest' = [guest EXCEPT ![s] = "fed"] /\ UNCHANGED <<feed, ticket>>
           \/ guest' = [guest EXCEPT ![s] = "alone"] /\ ticket' = [ticket EXCEPT ![s] = "none"]
    BY <1>5 DEF StartWorker
  <2>2. SlotsTyped'
    BY <1>2, <2>1 DEF TicketInvariant, SlotsTyped
  <2>3. TicketsSuit'
    BY <1>2, <2>1 DEF TicketInvariant, SlotsTyped, TicketsSuit, SameShow, Suits
  <2>4. TicketsAreCounted => TicketsAreCounted'
    BY <1>2, <2>1 DEF TicketInvariant, SlotsTyped, TicketsAreCounted, ComerIsCounted
  <2> QED
    BY <2>2, <2>3, <2>4
<1>6. CASE GuestGoes(s)
  <2>1. /\ guest' = [guest EXCEPT ![s] = "none"] /\ ticket' = [ticket EXCEPT ![s] = "none"]
        /\ wants' = [wants EXCEPT ![s] = AnySpec] /\ UNCHANGED <<height, join, late>>
    BY <1>6 DEF GuestGoes
  <2>2. AnySpec \in Specs
    BY DEF AnySpec, TicketInvariant, SlotsTyped
  <2>3. SlotsTyped'
    BY <1>2, <2>1, <2>2 DEF TicketInvariant, SlotsTyped
  <2>4. TicketsSuit'
    BY <1>2, <2>1 DEF TicketInvariant, SlotsTyped, TicketsSuit, SameShow, Suits
  <2>5. TicketsAreCounted => TicketsAreCounted'
    BY <1>2, <2>1 DEF TicketInvariant, SlotsTyped, TicketsAreCounted, ComerIsCounted
  <2> QED
    BY <2>3, <2>4, <2>5
<1>7. CASE LeaveEarly(s)
  <2>1. /\ UNCHANGED <<height, join, late, wants, ticket, guest>>
        /\ JoinsRunOn => guest[s] = "none" /\ join[s] = "no"
    BY <1>7 DEF LeaveEarly, JoinsRunOn
  <2>2. SlotsTyped' /\ TicketsSuit'
    BY <1>2, <2>1 DEF TicketInvariant, SlotsTyped, TicketsSuit, SameShow, Suits
  <2>3. JoinsRunOn /\ TicketsAreCounted => TicketsAreCounted'
    BY <1>2, <2>1 DEF TicketsAreCounted, ComerIsCounted
  <2> QED
    BY <2>2, <2>3
<1>8. CASE SentAway(s)
  <2>1. /\ guest' = [guest EXCEPT ![s] = "none"] /\ ticket' = [ticket EXCEPT ![s] = "none"]
        /\ wants' = [wants EXCEPT ![s] = AnySpec] /\ UNCHANGED <<feed, height, join, late>>
    BY <1>8 DEF SentAway
  <2>2. AnySpec \in Specs
    BY DEF AnySpec, TicketInvariant, SlotsTyped
  <2>3. SlotsTyped'
    BY <2>1, <2>2 DEF TicketInvariant, SlotsTyped
  <2>4. TicketsSuit'
    BY <2>1 DEF TicketInvariant, SlotsTyped, TicketsSuit
  <2>5. TicketsAreCounted => TicketsAreCounted'
    BY <2>1 DEF TicketInvariant, SlotsTyped, TicketsAreCounted, ComerIsCounted
  <2> QED
    BY <2>3, <2>4, <2>5
<1> QED
  BY <1>3, <1>4, <1>5, <1>6, <1>7, <1>8

\* Tickets suit their holders through every step, and where joins run on to their
\* end, the holders are counted.
LEMMA TicketSteps ==
  TicketInvariant /\ [Next]_vars =>
    TicketInvariant' /\ (JoinsRunOn /\ TicketsAreCounted => TicketsAreCounted')
<1> SUFFICES ASSUME TicketInvariant, [Next]_vars
             PROVE  /\ SlotsTyped' /\ TicketsSuit'
                    /\ JoinsRunOn /\ TicketsAreCounted => TicketsAreCounted'
  BY FeedSteps DEF TicketInvariant
<1>1. feed.spec \in Specs /\ FeedInvariant
      /\ guest \in [Slots -> {"none", "fed", "alone"}] /\ height \in Heights
  BY DEF TicketInvariant, SlotsTyped
<1>2. ASSUME NEW w \in Workers, Goes(w) \/ HearEnded(w) \/ HearExited(w)
      PROVE  SlotsTyped' /\ TicketsSuit' /\ (TicketsAreCounted => TicketsAreCounted')
  <2>1. Steady(feed, feed')
    BY <1>1, <1>2, ProcessIsSteady
  <2>2. UNCHANGED <<height, join, late, wants, ticket>>
    BY <1>2 DEF Goes, HearEnded, HearExited
  <2>3. guest' = guest \/ \E gone : Detached(gone)
    BY <1>2 DEF Goes, HearEnded, HearExited
  <2>4. /\ guest' \in [Slots -> {"none", "fed", "alone"}]
        /\ \A s \in Slots : guest'[s] \in {"none", guest[s]}
    BY <1>1, <2>3 DEF Detached
  <2> QED
    BY <1>1, <2>1, <2>2, <2>4, FeedStepSuits
<1>3. CASE IdleTimer \/ RestartTimer
  <2>1. Steady(feed, feed')
    BY <1>1, <1>3, TimerIsSteady
  <2>2. UNCHANGED <<height, join, late, wants, ticket, guest>>
    BY <1>3 DEF IdleTimer, RestartTimer
  <2> QED
    BY <1>1, <2>1, <2>2, FeedStepSuits
<1>4. CASE \E h \in Heights : PickHeight(h)
  <2>1. Steady(feed, feed')
    BY <1>1, <1>4, OwnerIsSteady
  <2>2. UNCHANGED <<join, late, wants, ticket, guest>> /\ height' \in Heights
    BY <1>4 DEF PickHeight
  <2> QED
    BY <1>1, <2>1, <2>2, FeedStepSuits
<1>5. CASE EndPlayerSessions
  <2>1. Steady(feed, feed')
    BY <1>1, <1>5, OwnerIsSteady
  <2>2. UNCHANGED <<height, join, late, wants, ticket>> /\ guest' = [s \in Slots |-> "none"]
    BY <1>5 DEF EndPlayerSessions
  <2> QED
    BY <1>1, <2>1, <2>2, FeedStepSuits
<1>6. ASSUME NEW s \in Slots, JoinFeed(s) \/ \E spec \in Specs : LateJoinFeed(s, spec)
      PROVE  SlotsTyped' /\ TicketsSuit' /\ (TicketsAreCounted => TicketsAreCounted')
  BY <1>6, JoinSuits, LateJoinSuits
<1>7. ASSUME NEW s \in Slots,
             \/ \E app \in Apps, h264 \in Codecs : AskToJoin(s, app, h264)
             \/ RefuseJoin(s) \/ StartWorker(s) \/ GuestGoes(s) \/ SentAway(s)
             \/ LeaveEarly(s)
      PROVE  /\ SlotsTyped' /\ TicketsSuit'
             /\ JoinsRunOn /\ TicketsAreCounted => TicketsAreCounted'
  BY <1>7, SlotSuits
<1>8. CASE UNCHANGED vars
  BY <1>8 DEF vars, TicketInvariant, SlotsTyped, TicketsSuit, TicketsAreCounted, ComerIsCounted
<1> QED
  BY <1>2, <1>3, <1>4, <1>5, <1>6, <1>7, <1>8 DEF Next

\* Nobody has a ticket at first.
LEMMA TicketStarts == Init => TicketInvariant /\ TicketsAreCounted
<1> SUFFICES ASSUME Init  PROVE TicketInvariant /\ TicketsAreCounted
  OBVIOUS
<1>1. AnySpec \in Specs
  <2>1. \E app \in Apps, h264 \in Codecs : [app |-> app, height |-> height, h264 |-> h264] \in Specs
    BY ShowsAssumption DEF Init, Specs
  <2> QED
    BY <2>1 DEF AnySpec
<1>2. SlotsTyped
  BY <1>1 DEF Init, SlotsTyped
<1> QED
  BY <1>2, FeedStarts DEF Init, TicketInvariant, TicketsSuit, TicketsAreCounted, ComerIsCounted

\* Guests on the running feed watch the display they were invited to in a codec
\* their browser decodes, whatever joins, ends, leaves or fails to start.
THEOREM FeedSuitsWhoWatches == Spec => []FeedSuitsItsGuests
<1>1. TicketInvariant => FeedSuitsItsGuests
  BY DEF TicketInvariant, TicketsSuit, FeedSuitsItsGuests, Suits
<1> QED
  BY <1>1, TicketStarts, TicketSteps, PTL DEF Spec

\* Where no slot is stopped before its join is over, whoever watches the running
\* feed is counted on it: it never stops for want of guests under their eyes.
THEOREM FeedCountsWhoWatches ==
  ASSUME JoinsRunOn  PROVE  Spec => []WatchedIsCounted
<1>1. TicketInvariant /\ TicketsAreCounted => WatchedIsCounted
  <2>1. feed.worker # None /\ FeedInvariant => Alive(feed)
    BY DEF Alive, FeedInvariant, Sound
  <2> QED
    BY <2>1 DEF TicketInvariant, FeedInvariant, TicketsAreCounted, ComerIsCounted, WatchedIsCounted
<1> QED
  BY <1>1, TicketStarts, TicketSteps, PTL DEF Spec

JoinsTakeTurns == "joinsOverlap" \notin Happens

\* No join was superseded by a newer one of its slot.
NoneSuperseded == late = [s \in Slots |-> {}]

\* Joins that take turns supersede none.
LEMMA TurnsSupersedeNone ==
  ASSUME JoinsTakeTurns
  PROVE  SlotsTyped /\ NoneSuperseded /\ [Next]_vars => NoneSuperseded'
<1> SUFFICES ASSUME SlotsTyped, NoneSuperseded, [Next]_vars  PROVE NoneSuperseded'
  OBVIOUS
<1>1. ASSUME NEW s \in Slots, NEW app \in Apps, NEW h264 \in Codecs, AskToJoin(s, app, h264)
      PROVE  NoneSuperseded'
  <2>1. late' = [late EXCEPT ![s] = late[s]]
    BY <1>1 DEF AskToJoin, JoinsTakeTurns
  <2> QED
    BY <2>1 DEF NoneSuperseded
<1>2. ASSUME NEW s \in Slots, NEW spec \in Specs  PROVE ~LateJoinFeed(s, spec)
  BY DEF LateJoinFeed, NoneSuperseded
<1>3. CASE late' = late
  BY <1>3 DEF NoneSuperseded
<1> QED
  BY <1>1, <1>2, <1>3 DEF Next, vars, Goes, HearEnded, HearExited, IdleTimer, RestartTimer,
       PickHeight, EndPlayerSessions, RefuseJoin, JoinFeed, StartWorker, GuestGoes, SentAway, LeaveEarly

\* Where worker processes can be started and a slot's joins take turns, the pipe
\* never changes under guests who watch, but for those told that the feed goes H.264.
THEOREM FeedKeepsItsPipe ==
  ASSUME Launches, JoinsTakeTurns  PROVE  Spec => GuestsKeepTheirPipe
<1> DEFINE Inv == TicketInvariant /\ NotInVain(feed) /\ NoneSuperseded
           Keeps == feed'.pipe # feed.pipe =>
                      \/ ~feed.spec.h264 /\ feed'.spec.h264
                      \/ \A s \in feed.guests : ~(guest[s] = "fed" /\ ticket[s] = "this")
<1>1. Init => Inv
  BY TicketStarts, FeedStarts DEF Init, NoneSuperseded
<1>2. Inv /\ [Next]_vars => Inv'
  BY TicketSteps, FeedSteps, TurnsSupersedeNone DEF TicketInvariant
<1>3. Inv /\ [Next]_vars => [Keeps]_vars
  <2> SUFFICES ASSUME Inv, [Next]_vars  PROVE Keeps \/ UNCHANGED vars
    OBVIOUS
  <2>1. FeedInvariant /\ feed.spec \in Specs
    BY DEF TicketInvariant, SlotsTyped
  <2>2. ASSUME NEW s \in Slots, JoinFeed(s)  PROVE Keeps
    <3>1. PICK a \in Acquire(Now, wants[s], s) : feed' = a.feed
      BY <2>2 DEF JoinFeed, Becomes
    <3>2. FreeWorkers(proc) # {} /\ join[s] = "waiting"
      BY <2>2 DEF JoinFeed
    <3>3. feed'.pipe = feed.pipe \/ BegunAs(a, wants[s], s)
      BY <2>1, <3>1, <3>2, AcquireMakes DEF SeatedAs
    <3>4. CASE BegunAs(a, wants[s], s)
      <4>1. \/ feed.guests = {} \/ feed.guests \subseteq {s}
            \/ ~feed.spec.h264 /\ feed'.spec.h264
        BY <3>1, <3>4 DEF BegunAs, NotInVain
      <4>2. ticket[s] = "none"
        BY <3>2 DEF TicketInvariant, TicketsSuit
      <4> QED
        BY <4>1, <4>2
    <3> QED
      BY <3>3, <3>4
  <2>3. ASSUME NEW s \in Slots, NEW spec \in Specs  PROVE ~LateJoinFeed(s, spec)
    BY DEF LateJoinFeed, NoneSuperseded
  <2>4. ASSUME NEW s \in Slots,
               \/ \E app \in Apps, h264 \in Codecs : AskToJoin(s, app, h264)
               \/ RefuseJoin(s) \/ StartWorker(s) \/ GuestGoes(s) \/ SentAway(s)
             \/ LeaveEarly(s)
        PROVE  Keeps
    <3>1. Given(s)
      BY <2>4 DEF AskToJoin, RefuseJoin, StartWorker, GuestGoes, SentAway, LeaveEarly, Given
    <3> QED
      BY <2>1, <3>1, ReleaseIsSteady DEF SameShow
  <2>5. ASSUME NEW w \in Workers, Goes(w) \/ HearEnded(w) \/ HearExited(w)  PROVE Keeps
    BY <2>1, <2>5, ProcessIsSteady DEF Steady, SameShow
  <2>6. CASE IdleTimer \/ RestartTimer
    BY <2>1, <2>6, TimerIsSteady DEF Steady, SameShow
  <2>7. CASE (\E h \in Heights : PickHeight(h)) \/ EndPlayerSessions
    BY <2>1, <2>7, OwnerIsSteady DEF Steady, SameShow
  <2> HIDE DEF Keeps
  <2> QED
    BY <2>2, <2>3, <2>4, <2>5, <2>6, <2>7 DEF Next
<1> QED
  BY <1>1, <1>2, <1>3, PTL DEF Spec, GuestsKeepTheirPipe

-----------------------------------------------------------------------------
(* Who publishes on which pipe.                                            *)

ProcType == [st : {"free", "up", "down", "gone"}, pipe : Pipes \cup {0},
             heard : BOOLEAN, again : BOOLEAN]
ProcsTyped == feed.pipe \in Pipes \cup {0} /\ proc \in [Workers -> ProcType]

\* The feed's worker is a process that is heard of, on the feed's pipe, and nothing
\* else is due.
OwnWorker ==
  feed.worker # None =>
    /\ feed.restart = FALSE /\ feed.resizing = FALSE
    /\ proc[feed.worker].heard = TRUE /\ proc[feed.worker].again = FALSE
    /\ proc[feed.worker].st \in {"up", "down"} /\ proc[feed.worker].pipe = feed.pipe

\* One process at most is to start the feed again, the one a resize waits for.
OneAgain ==
  /\ ~(feed.restart /\ feed.resizing)
  /\ \A w \in Workers : proc[w].again = TRUE => feed.resizing = TRUE /\ proc[w].pipe = feed.pipe
  /\ \A v, w \in Workers : proc[v].again = TRUE /\ proc[w].again = TRUE => v = w

\* While the feed runs or is due, nobody else is left on its pipe.
PipeIsClear ==
  feed.worker # None \/ Due(feed) =>
    \A w \in Workers :
      proc[w].st = "up" /\ proc[w].pipe = feed.pipe => w = feed.worker \/ proc[w].again = TRUE

PipeInvariant == OwnWorker /\ OneAgain /\ PipeIsClear /\ OneFeedPerPipe

\* The processes qs are ps but for w, which goes unheard.
Asked(ps, qs, w, again) ==
  /\ qs \in [Workers -> ProcType]
  /\ \A v \in Workers \ {w} : qs[v] = ps[v]
  /\ qs[w].st = ps[w].st /\ qs[w].pipe = ps[w].pipe
  /\ qs[w].heard = FALSE /\ qs[w].again = again

\* A process asked to quit keeps its state and its pipe.
LEMMA AskMakes ==
  ASSUME NEW ps \in [Workers -> ProcType], NEW w \in Workers, NEW again \in BOOLEAN,
         NEW qs, qs = AskToQuit(ps, w, again)
  PROVE  Asked(ps, qs, w, again)
<1> DEFINE asked == [ps[w] EXCEPT !.heard = FALSE, !.again = again]
<1>1. /\ asked \in ProcType /\ asked.st = ps[w].st /\ asked.pipe = ps[w].pipe
      /\ asked.heard = FALSE /\ asked.again = again
  BY DEF ProcType
<1>2. qs = [ps EXCEPT ![w] = asked]
  BY DEF AskToQuit
<1> HIDE DEF asked
<1> QED
  BY <1>1, <1>2 DEF Asked

\* The feed's worker, if any, retires: nothing is due that was not.
LEMMA RetireKeepsPipes ==
  ASSUME IsFeed(feed), ProcsTyped, proc' = Retired, feed'.worker = None, feed'.restart = FALSE,
         feed'.resizing = feed.resizing, feed'.pipe = feed.pipe
  PROVE  ProcsTyped' /\ (PipeInvariant => PipeInvariant')
<1>1. CASE feed.worker = None
  BY <1>1 DEF Retired, ProcsTyped, PipeInvariant, OwnWorker, OneAgain, PipeIsClear, Due, OneFeedPerPipe
<1>2. CASE feed.worker # None
  <2>1. feed.worker \in Workers /\ proc' = AskToQuit(proc, feed.worker, FALSE)
    BY <1>2 DEF IsFeed, Retired
  <2>2. /\ proc' \in [Workers -> ProcType]
        /\ \A v \in Workers \ {feed.worker} : proc'[v] = proc[v]
        /\ proc'[feed.worker].st = proc[feed.worker].st
        /\ proc'[feed.worker].pipe = proc[feed.worker].pipe
        /\ proc'[feed.worker].again = FALSE
    <3>1. Asked(proc, proc', feed.worker, FALSE)
      BY <2>1, AskMakes DEF ProcsTyped
    <3> QED
      BY <3>1 DEF Asked
  <2>3. PipeInvariant => OwnWorker' /\ OneAgain' /\ PipeIsClear'
    BY <1>2, <2>2 DEF PipeInvariant, OwnWorker, OneAgain, PipeIsClear, Due
  <2>4. PipeInvariant => OneFeedPerPipe'
    BY <2>2 DEF PipeInvariant, OneFeedPerPipe
  <2> QED
    BY <2>2, <2>3, <2>4 DEF ProcsTyped, PipeInvariant
<1> QED
  BY <1>1, <1>2

\* A resize under the guests' eyes: the worker retires, to be started again.
LEMMA ResizeKeepsPipes ==
  ASSUME IsFeed(feed), ProcsTyped, feed.worker # None,
         proc' = AskToQuit(proc, feed.worker, TRUE), feed'.worker = None,
         feed'.restart = feed.restart, feed'.resizing = TRUE, feed'.pipe = feed.pipe
  PROVE  ProcsTyped' /\ (PipeInvariant => PipeInvariant')
<1>1. feed.worker \in Workers
  BY DEF IsFeed
<1>2. /\ proc' \in [Workers -> ProcType]
      /\ \A v \in Workers \ {feed.worker} : proc'[v] = proc[v]
      /\ proc'[feed.worker].st = proc[feed.worker].st
      /\ proc'[feed.worker].pipe = proc[feed.worker].pipe
      /\ proc'[feed.worker].again = TRUE
  <2>1. Asked(proc, proc', feed.worker, TRUE)
    BY <1>1, AskMakes DEF ProcsTyped
  <2> QED
    BY <2>1 DEF Asked
<1>3. PipeInvariant => OwnWorker' /\ OneAgain'
  <2> SUFFICES ASSUME PipeInvariant  PROVE OneAgain'
    BY DEF OwnWorker
  <2>1. feed.restart = FALSE /\ feed.resizing = FALSE /\ proc[feed.worker].pipe = feed.pipe
    BY DEF PipeInvariant, OwnWorker
  <2>2. \A w \in Workers : w # feed.worker => proc'[w].again # TRUE
    BY <1>2, <2>1 DEF PipeInvariant, OneAgain
  <2> QED
    BY <1>1, <1>2, <2>1, <2>2 DEF OneAgain
<1>4. PipeInvariant => PipeIsClear'
  BY <1>1, <1>2 DEF PipeInvariant, PipeIsClear, Due
<1>5. PipeInvariant => OneFeedPerPipe'
  <2>1. \A v \in Workers : proc'[v].st = proc[v].st /\ proc'[v].pipe = proc[v].pipe
    BY <1>1, <1>2
  <2> SUFFICES ASSUME PipeInvariant, NEW u \in Workers, NEW v \in Workers, u # v,
                      proc'[u].st = "up", proc'[v].st = "up"
               PROVE  proc'[u].pipe # proc'[v].pipe
    BY DEF OneFeedPerPipe
  <2>2. proc[u].st = "up" /\ proc[v].st = "up"
    BY <2>1
  <2>3. proc[u].pipe # proc[v].pipe
    BY <2>2 DEF PipeInvariant, OneFeedPerPipe
  <2> QED
    BY <2>1, <2>3
<1> QED
  BY <1>2, <1>3, <1>4, <1>5 DEF ProcsTyped, PipeInvariant

\* The same worker on the same pipe, and nothing due that was not.
LEMMA SameKeepsPipes ==
  ASSUME ProcsTyped, proc' = proc, feed'.worker = feed.worker, feed'.pipe = feed.pipe,
         feed'.restart \in {feed.restart, FALSE}, feed'.resizing = feed.resizing
  PROVE  ProcsTyped' /\ (PipeInvariant => PipeInvariant')
BY DEF ProcsTyped, PipeInvariant, OwnWorker, OneAgain, PipeIsClear, Due, OneFeedPerPipe

\* A process that did not run publishes on the feed's pipe, or could not be started.
Relaunched(f, ps) ==
  \/ feed' = f /\ proc' = ps
  \/ \E w \in FreeWorkers(ps) :
       /\ feed' = [f EXCEPT !.worker = w]
       /\ proc' = [ps EXCEPT ![w] = [st |-> "up", pipe |-> f.pipe, heard |-> TRUE, again |-> FALSE]]

\* Nobody publishes on the feed's pipe, nor two on another, and none is to start it.
NobodyOn(ps) ==
  /\ \A w \in Workers : ps[w].again = FALSE
  /\ \A w \in Workers : ps[w].st = "up" => ps[w].pipe # feed.pipe
  /\ \A v, w \in Workers :
       v # w /\ ps[v].st = "up" /\ ps[w].st = "up" => ps[v].pipe # ps[w].pipe

\* A launch starts a process of the type, on the feed's pipe.
LEMMA RelaunchIsTyped ==
  ASSUME NEW f, IsFeed(f), NEW ps \in [Workers -> ProcType], Relaunched(f, ps),
         f.pipe = feed.pipe, f.pipe \in Pipes \cup {0}
  PROVE  ProcsTyped'
<1>1. CASE feed' = f /\ proc' = ps
  BY <1>1 DEF ProcsTyped
<1>2. ASSUME NEW w \in Workers, feed' = [f EXCEPT !.worker = w],
             proc' = [ps EXCEPT ![w] = [st |-> "up", pipe |-> f.pipe, heard |-> TRUE, again |-> FALSE]]
      PROVE  ProcsTyped'
  <2>1. feed'.pipe = f.pipe
    BY <1>2 DEF IsFeed
  <2>2. [st |-> "up", pipe |-> f.pipe, heard |-> TRUE, again |-> FALSE] \in ProcType
    BY DEF ProcType
  <2> QED
    BY <1>2, <2>1, <2>2 DEF ProcsTyped
<1> QED
  BY <1>1, <1>2 DEF Relaunched, FreeWorkers

\* A launch on a pipe that nobody publishes on.
LEMMA RelaunchKeepsPipes ==
  ASSUME NEW f, IsFeed(f), NEW ps \in [Workers -> ProcType], Relaunched(f, ps),
         f.pipe = feed.pipe, f.worker = None, f.restart = FALSE, f.resizing = FALSE, NobodyOn(ps)
  PROVE  PipeInvariant'
<1>1. CASE feed' = f /\ proc' = ps
  BY <1>1 DEF PipeInvariant, OwnWorker, OneAgain, PipeIsClear, Due, OneFeedPerPipe, NobodyOn
<1>2. ASSUME NEW w \in Workers, feed' = [f EXCEPT !.worker = w],
             proc' = [ps EXCEPT ![w] = [st |-> "up", pipe |-> f.pipe, heard |-> TRUE, again |-> FALSE]]
      PROVE  PipeInvariant'
  <2>1. /\ feed'.worker = w /\ feed'.pipe = feed.pipe
        /\ feed'.restart = FALSE /\ feed'.resizing = FALSE
    BY <1>2 DEF IsFeed
  <2>2. /\ \A v \in Workers \ {w} : proc'[v] = ps[v]
        /\ proc'[w].st = "up" /\ proc'[w].pipe = feed.pipe
        /\ proc'[w].heard = TRUE /\ proc'[w].again = FALSE
    BY <1>2
  <2>3. OwnWorker'
    BY <2>1, <2>2 DEF OwnWorker
  <2>4. OneAgain'
    BY <2>1, <2>2 DEF OneAgain, NobodyOn
  <2>5. PipeIsClear'
    BY <2>1, <2>2 DEF PipeIsClear, NobodyOn
  <2>6. OneFeedPerPipe'
    BY <2>2 DEF OneFeedPerPipe, NobodyOn
  <2> QED
    BY <2>3, <2>4, <2>5, <2>6 DEF PipeInvariant
<1> QED
  BY <1>1, <1>2 DEF Relaunched, FreeWorkers

\* What a launch may come to.
LEMMA LaunchRelaunches ==
  ASSUME NEW F, FreeWorkers(F.proc) # {}, NEW l \in Launch(F), Becomes(l)
  PROVE  Relaunched(F.feed, F.proc)
<1> DEFINE w == CHOOSE x \in FreeWorkers(F.proc) : TRUE
<1>1. w \in FreeWorkers(F.proc)
  OBVIOUS
<1>2. \/ l = [ok |-> TRUE, feed |-> [F.feed EXCEPT !.worker = w],
              proc |-> [F.proc EXCEPT ![w] = [st |-> "up", pipe |-> F.feed.pipe,
                                              heard |-> TRUE, again |-> FALSE]]]
      \/ l = [ok |-> FALSE, feed |-> F.feed, proc |-> F.proc]
  BY Zenon DEF Launch
<1> HIDE DEF w
<1>3. CASE l = [ok |-> FALSE, feed |-> F.feed, proc |-> F.proc]
  BY <1>3 DEF Becomes, Relaunched
<1>4. CASE l = [ok |-> TRUE, feed |-> [F.feed EXCEPT !.worker = w],
                proc |-> [F.proc EXCEPT ![w] = [st |-> "up", pipe |-> F.feed.pipe,
                                                heard |-> TRUE, again |-> FALSE]]]
  <2>1. /\ feed' = [F.feed EXCEPT !.worker = w]
        /\ proc' = [F.proc EXCEPT ![w] = [st |-> "up", pipe |-> F.feed.pipe,
                                           heard |-> TRUE, again |-> FALSE]]
    BY <1>4 DEF Becomes
  <2> QED
    BY <1>1, <2>1 DEF Relaunched
<1> QED
  BY <1>2, <1>3, <1>4

NeverStopped == "ownerStops" \notin Happens

\* The pipes' part of the invariant through one step.
PipesKept == ProcsTyped' /\ (NeverStopped /\ PipeInvariant => PipeInvariant')

\* A worker that goes keeps its pipe until it is gone.
LEMMA GoesKeepsPipes ==
  ASSUME FeedInvariant, ProcsTyped, NEW w \in Workers, Goes(w)
  PROVE  PipesKept
<1> DEFINE p == [proc[w] EXCEPT !.st = "down"]
<1>1. /\ p \in ProcType /\ p.st = "down" /\ p.pipe = proc[w].pipe
      /\ p.heard = proc[w].heard /\ p.again = proc[w].again
  BY DEF ProcsTyped, ProcType
<1>2. proc' = [proc EXCEPT ![w] = p] /\ feed' = feed
  BY DEF Goes
<1> HIDE DEF p
<1>3. ProcsTyped'
  BY <1>1, <1>2 DEF ProcsTyped
<1>4. PipeInvariant => OwnWorker'
  BY <1>1, <1>2, <1>3 DEF PipeInvariant, OwnWorker, ProcsTyped, FeedInvariant, Sound, IsFeed
<1>5. PipeInvariant => OneAgain' /\ PipeIsClear' /\ OneFeedPerPipe'
  BY <1>1, <1>2 DEF PipeInvariant, OneAgain, PipeIsClear, OneFeedPerPipe, Due, ProcsTyped
<1> QED
  BY <1>3, <1>4, <1>5 DEF PipesKept, PipeInvariant

\* The feed's worker ended: nobody is on its pipe any more.
LEMMA EndedKeepsPipes ==
  ASSUME FeedInvariant, ProcsTyped, NEW w \in Workers, HearEnded(w)
  PROVE  PipesKept
<1> DEFINE p == [proc[w] EXCEPT !.st = "gone"]
<1>1. /\ p \in ProcType /\ p.st = "gone" /\ p.pipe = proc[w].pipe
      /\ p.heard = proc[w].heard /\ p.again = proc[w].again
  BY DEF ProcsTyped, ProcType
<1>2. proc' = [proc EXCEPT ![w] = p] /\ proc[w].st = "down"
  BY DEF HearEnded
<1>3. PICK healthy \in BOOLEAN :
        feed' = IF proc[w].heard /\ w = feed.worker THEN OnEnded(feed, healthy) ELSE feed
  BY DEF HearEnded
<1> HIDE DEF p
<1>4. IsFeed(feed)
  BY DEF FeedInvariant, Sound
<1>5. CASE feed' = feed /\ (feed.worker = w => proc[w].heard # TRUE)
  <2>1. ProcsTyped'
    BY <1>1, <1>2, <1>5 DEF ProcsTyped
  <2>2. PipeInvariant => OwnWorker'
    BY <1>1, <1>2, <1>4, <1>5 DEF PipeInvariant, OwnWorker, ProcsTyped, IsFeed
  <2>3. PipeInvariant => OneAgain' /\ PipeIsClear' /\ OneFeedPerPipe'
    BY <1>1, <1>2, <1>5 DEF PipeInvariant, OneAgain, PipeIsClear, OneFeedPerPipe, Due, ProcsTyped
  <2> QED
    BY <2>1, <2>2, <2>3 DEF PipesKept, PipeInvariant
<1>6. CASE w = feed.worker /\ feed' = OnEnded(feed, healthy)
  <2>1. /\ feed'.worker = None /\ feed'.pipe = feed.pipe /\ feed'.resizing = feed.resizing
    BY <1>4, <1>6 DEF OnEnded, IsFeed
  <2>2. ProcsTyped'
    BY <1>1, <1>2, <2>1 DEF ProcsTyped
  <2>3. feed.worker = w /\ w # None
    BY <1>6
  <2> SUFFICES ASSUME PipeInvariant  PROVE OneAgain' /\ PipeIsClear' /\ OneFeedPerPipe'
    BY <2>1, <2>2 DEF PipesKept, PipeInvariant, OwnWorker
  <2>4. feed.resizing = FALSE /\ \A v \in Workers : proc[v].again # TRUE
    BY <2>3 DEF PipeInvariant, OwnWorker, OneAgain
  <2>5. \A v \in Workers : proc'[v].again # TRUE
    BY <1>1, <1>2, <2>4 DEF ProcsTyped
  <2>6. OneAgain'
    BY <2>1, <2>4, <2>5 DEF OneAgain
  <2>7. \A v \in Workers : proc'[v].st = "up" => v # w /\ proc'[v] = proc[v]
    BY <1>1, <1>2 DEF ProcsTyped
  <2>8. PipeIsClear'
    BY <2>1, <2>3, <2>4, <2>7 DEF PipeIsClear, PipeInvariant
  <2>9. OneFeedPerPipe'
    BY <2>7 DEF OneFeedPerPipe, PipeInvariant
  <2> QED
    BY <2>6, <2>8, <2>9
<1>7. proc[w].heard \in BOOLEAN
  BY DEF ProcsTyped, ProcType
<1> QED
  BY <1>3, <1>5, <1>6, <1>7

\* A process is gone; the one a resize waited for starts the feed again.
LEMMA ExitedKeepsPipes ==
  ASSUME FeedInvariant, ProcsTyped, NEW w \in Workers, HearExited(w)
  PROVE  PipesKept
<1> DEFINE gone == [proc EXCEPT ![w] = NoProcess]
           f == [feed EXCEPT !.resizing = FALSE]
           F == [feed |-> f, proc |-> gone]
<1>1. IsFeed(feed) /\ proc[w].st = "gone" /\ proc[w].again \in BOOLEAN
  BY DEF FeedInvariant, Sound, HearExited, ProcsTyped, ProcType
<1>2. NoProcess \in ProcType /\ NoProcess.st = "free" /\ NoProcess.again = FALSE
  BY DEF NoProcess, ProcType
<1>3. /\ gone \in [Workers -> ProcType] /\ \A v \in Workers \ {w} : gone[v] = proc[v]
      /\ gone[w].st = "free" /\ gone[w].again = FALSE
  BY <1>2 DEF ProcsTyped
<1>4. /\ IsFeed(f) /\ f.worker = feed.worker /\ f.pipe = feed.pipe /\ f.restart = feed.restart
      /\ f.resizing = FALSE
  BY <1>1 DEF IsFeed
<1>5. \/ proc[w].again = FALSE /\ feed' = feed /\ proc' = gone
      \/ proc[w].again = TRUE /\ feed' = f /\ proc' = gone
      \/ /\ proc[w].again = TRUE /\ feed.worker = None
         /\ \E l \in Launch(F) : Becomes(l)
  BY <1>1, <1>4 DEF HearExited, Becomes
<1>6. F.feed = f /\ F.proc = gone
  OBVIOUS
<1> HIDE DEF gone, f, F
<1>7. CASE proc[w].again = FALSE /\ feed' = feed /\ proc' = gone
  <2>1. ProcsTyped'
    BY <1>3, <1>7 DEF ProcsTyped
  <2>2. PipeInvariant => OwnWorker'
    BY <1>1, <1>3, <1>7 DEF PipeInvariant, OwnWorker, IsFeed
  <2>3. PipeInvariant => OneAgain' /\ PipeIsClear' /\ OneFeedPerPipe'
    BY <1>3, <1>7 DEF PipeInvariant, OneAgain, PipeIsClear, OneFeedPerPipe, Due
  <2> QED
    BY <2>1, <2>2, <2>3 DEF PipesKept, PipeInvariant
<1>8. ASSUME PipeInvariant, proc[w].again = TRUE
      PROVE  feed.worker = None /\ feed.restart = FALSE /\ NobodyOn(gone)
  <2>1. /\ feed.worker = None /\ feed.resizing = TRUE
        /\ \A v \in Workers \ {w} : proc[v].again # TRUE
    BY <1>1, <1>8 DEF PipeInvariant, OwnWorker, OneAgain
  <2>2. feed.restart = FALSE
    BY <1>1, <2>1, <1>8 DEF PipeInvariant, OneAgain, IsFeed
  <2>3. \A v \in Workers \ {w} : proc[v].again = FALSE
    BY <2>1 DEF ProcsTyped, ProcType
  <2>4. \A v \in Workers \ {w} : proc[v].st = "up" => proc[v].pipe # feed.pipe
    BY <1>8, <2>1, <2>3 DEF PipeInvariant, PipeIsClear, Due
  <2>5. \A v \in Workers : gone[v].again = FALSE
    BY <1>3, <2>3
  <2>6. \A v \in Workers : gone[v].st = "up" => v # w /\ gone[v] = proc[v]
    BY <1>3
  <2> QED
    BY <1>8, <2>1, <2>2, <2>4, <2>5, <2>6 DEF NobodyOn, PipeInvariant, OneFeedPerPipe
<1>9. CASE proc[w].again = TRUE /\ (Relaunched(f, gone))
  <2>1. ProcsTyped'
    BY <1>3, <1>4, <1>9, RelaunchIsTyped DEF ProcsTyped
  <2>2. ASSUME PipeInvariant  PROVE PipeInvariant'
    BY <1>3, <1>4, <1>8, <1>9, <2>2, RelaunchKeepsPipes DEF ProcsTyped
  <2> QED
    BY <2>1, <2>2 DEF PipesKept
<1>10. CASE proc[w].again = TRUE /\ \E l \in Launch(F) : Becomes(l)
  <2>1. FreeWorkers(F.proc) # {}
    BY <1>3, <1>6 DEF FreeWorkers
  <2> QED
    BY <1>6, <1>9, <1>10, <2>1, LaunchRelaunches
<1>11. CASE proc[w].again = TRUE /\ feed' = f /\ proc' = gone
  BY <1>9, <1>11 DEF Relaunched
<1> QED
  BY <1>5, <1>7, <1>10, <1>11

\* The feed's timers: one stops it, the other starts it again.
LEMMA TimerKeepsPipes ==
  ASSUME FeedInvariant, ProcsTyped, IdleTimer \/ RestartTimer
  PROVE  PipesKept
<1>1. IsFeed(feed) /\ Now = [feed |-> feed, proc |-> proc]
  BY DEF FeedInvariant, Sound, Now
<1>2. CASE IdleTimer /\ feed.guests # {}
  <2>1. feed' = [feed EXCEPT !.idle = FALSE] /\ proc' = proc
    BY <1>1, <1>2 DEF IdleTimer, Becomes
  <2>2. /\ feed'.worker = feed.worker /\ feed'.pipe = feed.pipe
        /\ feed'.restart = feed.restart /\ feed'.resizing = feed.resizing
    BY <1>1, <2>1 DEF IsFeed
  <2> QED
    BY <2>1, <2>2, SameKeepsPipes DEF PipesKept
<1>3. CASE IdleTimer /\ feed.guests = {}
  <2>1. /\ feed' = [feed EXCEPT !.idle = FALSE, !.restart = FALSE, !.worker = None]
        /\ proc' = Retired
    BY <1>1, <1>3 DEF IdleTimer, Becomes, StopWorker, Retired
  <2>2. /\ feed'.worker = None /\ feed'.pipe = feed.pipe
        /\ feed'.restart = FALSE /\ feed'.resizing = feed.resizing
    BY <1>1, <2>1 DEF IsFeed
  <2> QED
    BY <1>1, <2>1, <2>2, RetireKeepsPipes DEF PipesKept
<1>4. CASE RestartTimer
  <2> DEFINE f == [feed EXCEPT !.restart = FALSE]
             F == [Now EXCEPT !.feed.restart = FALSE]
  <2>1. /\ IsFeed(f) /\ f.worker = feed.worker /\ f.pipe = feed.pipe /\ f.restart = FALSE
        /\ f.resizing = feed.resizing
    BY <1>1 DEF IsFeed
  <2>2. F.feed = f /\ F.proc = proc
    <3>1. \A b : [Now EXCEPT !.feed.restart = b] = [feed |-> [feed EXCEPT !.restart = b], proc |-> proc]
      BY DEF Now
    <3>2. F = [feed |-> f, proc |-> proc]
      BY <3>1, Zenon
    <3> HIDE DEF F, f
    <3> QED
      BY <3>2
  <2>3. \/ feed' = f /\ proc' = proc
        \/ feed.worker = None /\ \E l \in Launch(F) : Becomes(l)
    BY <1>4, <2>2 DEF RestartTimer, Becomes
  <2>4. feed.restart = TRUE /\ FreeWorkers(F.proc) # {}
    BY <1>1, <1>4, <2>2 DEF RestartTimer, IsFeed
  <2> HIDE DEF F, f
  <2>5. CASE feed' = f /\ proc' = proc
    BY <2>1, <2>5, SameKeepsPipes DEF PipesKept
  <2>6. CASE feed.worker = None /\ \E l \in Launch(F) : Becomes(l)
    <3>1. Relaunched(f, proc)
      BY <2>2, <2>4, <2>6, LaunchRelaunches
    <3>2. ProcsTyped'
      BY <2>1, <3>1, RelaunchIsTyped DEF ProcsTyped
    <3>3. ASSUME PipeInvariant  PROVE PipeInvariant'
      <4>1. feed.resizing = FALSE
        BY <1>1, <2>4, <3>3 DEF PipeInvariant, OneAgain, IsFeed
      <4>2. \A w \in Workers : proc[w].again = FALSE
        BY <3>3, <4>1 DEF PipeInvariant, OneAgain, ProcsTyped, ProcType
      <4>3. NobodyOn(proc)
        BY <2>4, <2>6, <3>3, <4>2 DEF PipeInvariant, PipeIsClear, Due, OneFeedPerPipe, NobodyOn
      <4> QED
        BY <2>1, <2>6, <3>1, <4>1, <4>3, RelaunchKeepsPipes DEF ProcsTyped
    <3> QED
      BY <3>2, <3>3 DEF PipesKept
  <2> QED
    BY <2>3, <2>5, <2>6
<1> QED
  BY <1>2, <1>3, <1>4

\* The owner picks a height: the worker is stopped, to be started again or not.
LEMMA PickKeepsPipes ==
  ASSUME FeedInvariant, ProcsTyped, NEW h \in Heights, PickHeight(h)
  PROVE  PipesKept
<1> DEFINE g == [feed EXCEPT !.spec.height = h]
           G == [feed |-> g, proc |-> proc]
<1>1. IsFeed(feed) /\ Now = [feed |-> feed, proc |-> proc] /\ Now.feed = feed /\ Now.proc = proc
  BY DEF FeedInvariant, Sound, Now
<1>2. /\ IsFeed(g) /\ g.worker = feed.worker /\ g.pipe = feed.pipe
      /\ g.restart = feed.restart /\ g.resizing = feed.resizing
  BY <1>1 DEF IsFeed
<1>3. [Now EXCEPT !.feed.spec.height = h] = G
  BY <1>1
<1> HIDE DEF g
<1>4. \/ feed' \in {feed, g} /\ proc' = proc
      \/ /\ feed' = [g EXCEPT !.idle = FALSE, !.restart = FALSE, !.worker = None]
         /\ proc' = Retired
      \/ /\ feed' = [g EXCEPT !.worker = None, !.idle = FALSE, !.resizing = TRUE]
         /\ proc' = AskToQuit(proc, feed.worker, TRUE) /\ feed.worker # None
  <2> DEFINE again == [g EXCEPT !.worker = None, !.idle = FALSE, !.resizing = TRUE]
  <2>1. feed' = Resize(Now, h).feed /\ proc' = Resize(Now, h).proc
    BY DEF PickHeight, Becomes
  <2>2. \/ Resize(Now, h) \in {Now, G}
        \/ Resize(Now, h) = StopWorker(G)
        \/ /\ Resize(Now, h) = [feed |-> again, proc |-> AskToQuit(proc, feed.worker, TRUE)]
           /\ feed.worker # None
    BY <1>1, <1>3 DEF Resize
  <2> HIDE DEF again
  <2>3. CASE Resize(Now, h) \in {Now, G}
    <3>1. G.feed = g /\ G.proc = proc
      OBVIOUS
    <3> HIDE DEF G
    <3>2. feed' \in {feed, g} /\ proc' = proc
      BY <1>1, <2>1, <2>3, <3>1
    <3> QED
      BY <3>2
  <2>4. CASE Resize(Now, h) = StopWorker(G)
    <3>1. G.feed = g /\ G.proc = proc
      OBVIOUS
    <3>2. /\ StopWorker(G).feed = [g EXCEPT !.idle = FALSE, !.restart = FALSE, !.worker = None]
          /\ StopWorker(G).proc = Retired
      BY <1>2, <3>1 DEF StopWorker, Retired
    <3> QED
      BY <2>1, <2>4, <3>2
  <2>5. CASE /\ Resize(Now, h) = [feed |-> again, proc |-> AskToQuit(proc, feed.worker, TRUE)]
             /\ feed.worker # None
    <3>1. feed' = again /\ proc' = AskToQuit(proc, feed.worker, TRUE) /\ feed.worker # None
      BY <2>1, <2>5
    <3> QED
      BY <3>1 DEF again
  <2> QED
    BY <2>2, <2>3, <2>4, <2>5
<1>5. CASE feed' \in {feed, g} /\ proc' = proc
  BY <1>2, <1>5, SameKeepsPipes DEF PipesKept
<1>6. CASE /\ feed' = [g EXCEPT !.idle = FALSE, !.restart = FALSE, !.worker = None]
           /\ proc' = Retired
  <2>1. /\ feed'.worker = None /\ feed'.pipe = feed.pipe
        /\ feed'.restart = FALSE /\ feed'.resizing = feed.resizing
    BY <1>2, <1>6 DEF IsFeed
  <2> QED
    BY <1>1, <1>6, <2>1, RetireKeepsPipes DEF PipesKept
<1>7. CASE /\ feed' = [g EXCEPT !.worker = None, !.idle = FALSE, !.resizing = TRUE]
           /\ proc' = AskToQuit(proc, feed.worker, TRUE) /\ feed.worker # None
  <2>1. /\ feed'.worker = None /\ feed'.pipe = feed.pipe
        /\ feed'.restart = feed.restart /\ feed'.resizing = TRUE
    BY <1>2, <1>7 DEF IsFeed
  <2> QED
    BY <1>1, <1>7, <2>1, ResizeKeepsPipes DEF PipesKept
<1> QED
  BY <1>4, <1>5, <1>6, <1>7

\* The owner's end of everything, of which only the types are kept: the process a
\* resize waited for is forgotten, and will start the feed again all the same.
LEMMA EndKeepsTypes ==
  ASSUME FeedInvariant, ProcsTyped, EndPlayerSessions
  PROVE  PipesKept
<1> DEFINE G == StopWorker(Now)
<1>1. IsFeed(feed) /\ IsProcs(proc) /\ Now = [feed |-> feed, proc |-> proc]
  BY DEF FeedInvariant, Sound, Now
<1>2. /\ G = [feed |-> G.feed, proc |-> G.proc] /\ IsFeed(G.feed) /\ G.feed.pipe = feed.pipe
      /\ G.proc = Retired
  <2>1. G.feed = [feed EXCEPT !.idle = FALSE, !.restart = FALSE, !.worker = None]
        /\ G.proc = Retired /\ G = [feed |-> G.feed, proc |-> G.proc] /\ IsFeed(G.feed)
    BY <1>1, StopMakes DEF StopWorker, Retired
  <2> HIDE DEF G
  <2> QED
    BY <1>1, <2>1 DEF IsFeed
<1>3. feed' = Reset(Now).feed /\ proc' = Reset(Now).proc
  BY DEF EndPlayerSessions, Becomes
<1>4. Reset(Now) = [G EXCEPT !.feed.guests = {}, !.feed.resizing = FALSE, !.feed.failed = FALSE,
                             !.feed.failures = 0]
  BY DEF Reset
<1> HIDE DEF G
<1>5. /\ feed' = [G.feed EXCEPT !.guests = {}, !.resizing = FALSE, !.failed = FALSE, !.failures = 0]
      /\ proc' = Retired
  BY <1>2, <1>3, <1>4
<1>6. feed'.pipe = feed.pipe
  BY <1>2, <1>5 DEF IsFeed
<1>7. proc' \in [Workers -> ProcType]
  <2>1. CASE feed.worker # None
    <3>1. feed.worker \in Workers /\ proc' = AskToQuit(proc, feed.worker, FALSE)
      BY <1>1, <1>5, <2>1 DEF IsFeed, Retired
    <3>2. Asked(proc, proc', feed.worker, FALSE)
      BY <3>1, AskMakes DEF ProcsTyped
    <3> QED
      BY <3>2 DEF Asked
  <2> QED
    BY <1>5, <2>1 DEF Retired, ProcsTyped
<1> QED
  BY <1>6, <1>7 DEF PipesKept, ProcsTyped, NeverStopped, EndPlayerSessions

\* A join: the feed as it is, or a worker on a pipe that nobody uses.
LEMMA JoinKeepsPipes ==
  ASSUME FeedInvariant, ProcsTyped, NEW s \in Slots,
         JoinFeed(s) \/ \E spec \in Specs : LateJoinFeed(s, spec)
  PROVE  PipesKept
<1>1. IsFeed(feed) /\ FreeWorkers(proc) # {}
  BY DEF FeedInvariant, Sound, JoinFeed, LateJoinFeed
<1>2. PICK spec : \E a \in Acquire(Now, spec, s) : Becomes(a)
  BY DEF JoinFeed, LateJoinFeed
<1>3. PICK a \in Acquire(Now, spec, s) : feed' = a.feed /\ proc' = a.proc
  BY <1>2 DEF Becomes
<1>4. \/ a.ok = FALSE /\ a.feed = feed /\ a.proc = proc
      \/ SeatedAs(a, spec, s)
      \/ BegunAs(a, spec, s)
  BY <1>1, AcquireMakes
<1>5. CASE \/ a.ok = FALSE /\ a.feed = feed /\ a.proc = proc
           \/ SeatedAs(a, spec, s)
  BY <1>3, <1>5, SameKeepsPipes DEF SeatedAs, PipesKept
<1>6. CASE BegunAs(a, spec, s)
  <2>1. NewPipe \in Pipes /\ NewPipe \notin UsedPipes
    BY <1>1, NewPipeIsNew
  <2>2. /\ Retired \in [Workers -> ProcType]
        /\ \A w \in Workers : /\ Retired[w].st = proc[w].st /\ Retired[w].pipe = proc[w].pipe
                              /\ Retired[w].again \in {proc[w].again, FALSE}
    <3>1. CASE feed.worker # None
      <4>1. feed.worker \in Workers /\ Retired = AskToQuit(proc, feed.worker, FALSE)
        BY <1>1, <3>1 DEF IsFeed, Retired
      <4>2. Asked(proc, Retired, feed.worker, FALSE)
        BY <4>1, AskMakes DEF ProcsTyped
      <4> QED
        BY <4>1, <4>2 DEF Asked
    <3> QED
      BY <3>1 DEF Retired, ProcsTyped
  <2>3. /\ feed'.pipe = NewPipe /\ feed'.restart = FALSE /\ feed'.resizing = feed.resizing
        /\ feed.worker = None => feed.restart = FALSE /\ feed.resizing = FALSE
    BY <1>1, <1>3, <1>6 DEF BegunAs, Due, IsFeed
  <2>4. PipeInvariant => /\ feed'.resizing = FALSE
                         /\ \A w \in Workers : Retired[w].again = FALSE
    <3>1. PipeInvariant => feed.resizing = FALSE
      BY <2>3 DEF PipeInvariant, OwnWorker
    <3> QED
      BY <2>2, <2>3, <3>1 DEF PipeInvariant, OneAgain, ProcsTyped, ProcType
  <2>5. \A w \in Workers : proc[w].st = "up" => proc[w].pipe # NewPipe
    BY <2>1 DEF UsedPipes
  <2>6. CASE feed'.worker = None /\ proc' = Retired
    <3>1. ProcsTyped' /\ (PipeInvariant => OwnWorker' /\ OneAgain' /\ PipeIsClear')
      BY <2>1, <2>2, <2>3, <2>4, <2>6 DEF ProcsTyped, OwnWorker, OneAgain, PipeIsClear, Due
    <3>2. PipeInvariant => OneFeedPerPipe'
      BY <2>2, <2>6 DEF OneFeedPerPipe, PipeInvariant
    <3> QED
      BY <3>1, <3>2 DEF PipesKept, PipeInvariant
  <2>7. ASSUME NEW w \in FreeWorkers(proc), feed'.worker = w, proc' = Published(Retired, w)
        PROVE  PipesKept
    <3>1. [st |-> "up", pipe |-> NewPipe, heard |-> TRUE, again |-> FALSE] \in ProcType
      BY <2>1 DEF ProcType
    <3>2. /\ w \in Workers /\ proc' \in [Workers -> ProcType]
          /\ \A v \in Workers \ {w} : proc'[v] = Retired[v]
          /\ proc'[w].st = "up" /\ proc'[w].pipe = NewPipe
          /\ proc'[w].heard = TRUE /\ proc'[w].again = FALSE
      BY <2>2, <2>7, <3>1 DEF Published, FreeWorkers
    <3>3. ProcsTyped'
      BY <2>1, <2>3, <3>2 DEF ProcsTyped
    <3>4. PipeInvariant => OwnWorker' /\ OneAgain'
      BY <2>3, <2>4, <2>7, <3>2 DEF OwnWorker, OneAgain
    <3>7. \A v \in Workers \ {w} : proc'[v].st = proc[v].st /\ proc'[v].pipe = proc[v].pipe
      BY <2>2, <3>2
    <3>5. PipeIsClear'
      BY <2>3, <2>5, <2>7, <3>7 DEF PipeIsClear
    <3>6. PipeInvariant => OneFeedPerPipe'
      <4> SUFFICES ASSUME PipeInvariant, NEW u \in Workers, NEW v \in Workers, u # v,
                          proc'[u].st = "up", proc'[v].st = "up"
                   PROVE  proc'[u].pipe # proc'[v].pipe
        BY DEF OneFeedPerPipe
      <4>1. CASE u # w /\ v # w
        BY <3>7, <4>1 DEF OneFeedPerPipe, PipeInvariant
      <4>2. CASE u = w \/ v = w
        BY <2>5, <3>2, <3>7, <4>2
      <4> QED
        BY <4>1, <4>2
    <3> QED
      BY <3>3, <3>4, <3>5, <3>6 DEF PipesKept, PipeInvariant
  <2> QED
    BY <1>3, <1>6, <2>6, <2>7 DEF BegunAs
<1> QED
  BY <1>4, <1>5, <1>6

\* A place given back, or a step of a slot alone.
LEMMA SlotKeepsPipes ==
  ASSUME FeedInvariant, ProcsTyped, NEW s \in Slots,
         \/ \E app \in Apps, h264 \in Codecs : AskToJoin(s, app, h264)
         \/ RefuseJoin(s) \/ StartWorker(s) \/ GuestGoes(s) \/ SentAway(s)
             \/ LeaveEarly(s)
  PROVE  PipesKept
<1>1. Given(s) /\ proc' = proc
  BY DEF AskToJoin, RefuseJoin, StartWorker, GuestGoes, SentAway, LeaveEarly, Given
<1>2. /\ feed'.worker = feed.worker /\ feed'.pipe = feed.pipe
      /\ feed'.restart = feed.restart /\ feed'.resizing = feed.resizing
  BY <1>1 DEF Given, Release, FeedInvariant, Sound, IsFeed
<1> QED
  BY <1>1, <1>2, SameKeepsPipes DEF PipesKept

\* Every step keeps the processes' types, and where the owner ends nothing, who
\* publishes where.
LEMMA PipeSteps ==
  FeedInvariant /\ ProcsTyped /\ [Next]_vars => PipesKept
<1> SUFFICES ASSUME FeedInvariant, ProcsTyped, [Next]_vars  PROVE PipesKept
  OBVIOUS
<1>1. ASSUME NEW w \in Workers, Goes(w) \/ HearEnded(w) \/ HearExited(w)  PROVE PipesKept
  BY <1>1, GoesKeepsPipes, EndedKeepsPipes, ExitedKeepsPipes
<1>2. CASE IdleTimer \/ RestartTimer
  BY <1>2, TimerKeepsPipes
<1>3. CASE (\E h \in Heights : PickHeight(h)) \/ EndPlayerSessions
  BY <1>3, PickKeepsPipes, EndKeepsTypes
<1>4. ASSUME NEW s \in Slots, JoinFeed(s) \/ \E spec \in Specs : LateJoinFeed(s, spec)
      PROVE  PipesKept
  BY <1>4, JoinKeepsPipes
<1>5. ASSUME NEW s \in Slots,
             \/ \E app \in Apps, h264 \in Codecs : AskToJoin(s, app, h264)
             \/ RefuseJoin(s) \/ StartWorker(s) \/ GuestGoes(s) \/ SentAway(s)
             \/ LeaveEarly(s)
      PROVE  PipesKept
  BY <1>5, SlotKeepsPipes
<1>6. CASE UNCHANGED vars
  BY <1>6, SameKeepsPipes DEF vars, PipesKept
<1> QED
  BY <1>1, <1>2, <1>3, <1>4, <1>5, <1>6 DEF Next

\* Where the owner never ends the sessions under the feed, at most one process
\* publishes under a pipe's name, through every resize, relaunch and join.
THEOREM FeedPublishesAlone ==
  ASSUME NeverStopped  PROVE  Spec => []OneFeedPerPipe
<1>1. Init => ProcsTyped /\ PipeInvariant
  <2> SUFFICES ASSUME Init  PROVE ProcsTyped /\ PipeInvariant
    OBVIOUS
  <2>1. /\ feed.worker = None /\ feed.pipe = 0 /\ feed.restart = FALSE /\ feed.resizing = FALSE
        /\ \A w \in Workers : proc[w] = NoProcess
        /\ proc = [w \in Workers |-> NoProcess]
    BY DEF Init
  <2>2. NoProcess \in ProcType /\ NoProcess.st = "free" /\ NoProcess.again = FALSE
    BY DEF NoProcess, ProcType
  <2> QED
    BY <2>1, <2>2 DEF ProcsTyped, PipeInvariant, OwnWorker, OneAgain, PipeIsClear, OneFeedPerPipe
<1>2. FeedInvariant /\ ProcsTyped /\ PipeInvariant /\ [Next]_vars
        => (FeedInvariant /\ ProcsTyped /\ PipeInvariant)'
  BY FeedSteps, PipeSteps DEF PipesKept
<1>3. PipeInvariant => OneFeedPerPipe
  BY DEF PipeInvariant
<1> QED
  BY <1>1, <1>2, <1>3, FeedStarts, PTL DEF Spec

\* Failures in a row are counted up to the limit, and a feed at the limit is one
\* that was given up on.
FailuresCounted ==
  /\ feed.failures \in 0..kMaxFailures
  /\ ~feed.failed => feed.failures < kMaxFailures

\* A worker's end counts one failure or starts the count again, a new pipe starts
\* it again, and nothing else touches it.
LEMMA FailuresStep ==
  FailuresCounted /\ TicketInvariant /\ [Next]_vars => FailuresCounted'
<1> SUFFICES ASSUME FailuresCounted, TicketInvariant, [Next]_vars  PROVE FailuresCounted'
  OBVIOUS
<1>1. FeedInvariant /\ feed.spec \in Specs /\ kMaxFailures \in Nat \ {0}
  BY FailuresAssumption DEF TicketInvariant, SlotsTyped
<1>2. CASE Counts(feed, feed')
  <2>1. CASE SameFailures(feed, feed')
    BY <2>1 DEF FailuresCounted, SameFailures
  <2>2. CASE feed'.failures = 0 /\ feed'.failed = FALSE
    BY <1>1, <2>2 DEF FailuresCounted
  <2>3. CASE /\ ~feed.failed /\ feed'.failures \in {1, feed.failures + 1}
             /\ IF feed'.failures >= kMaxFailures
                THEN feed'.failed = TRUE ELSE feed'.failed = feed.failed
    <3>1. feed.failures \in Nat /\ feed.failures < kMaxFailures
      BY <1>1, <2>3 DEF FailuresCounted
    <3>2. feed'.failures \in Nat /\ feed'.failures <= kMaxFailures
      BY <1>1, <2>3, <3>1
    <3> QED
      BY <1>1, <2>3, <3>2 DEF FailuresCounted
  <2> QED
    BY <1>2, <2>1, <2>2, <2>3 DEF Counts
<1>3. ASSUME NEW w \in Workers, Goes(w) \/ HearEnded(w) \/ HearExited(w)
      PROVE  FailuresCounted'
  BY <1>1, <1>2, <1>3, ProcessIsSteady DEF Steady
<1>4. CASE IdleTimer \/ RestartTimer
  BY <1>1, <1>2, <1>4, TimerIsSteady DEF Steady
<1>5. CASE (\E h \in Heights : PickHeight(h)) \/ EndPlayerSessions
  BY <1>1, <1>2, <1>5, OwnerIsSteady DEF Steady
<1>6. ASSUME NEW s \in Slots, JoinFeed(s) \/ \E spec \in Specs : LateJoinFeed(s, spec)
      PROVE  FailuresCounted'
  <2>1. IsFeed(feed) /\ FreeWorkers(proc) # {}
    BY <1>1, <1>6 DEF FeedInvariant, Sound, JoinFeed, LateJoinFeed
  <2>2. PICK spec : \E a \in Acquire(Now, spec, s) : Becomes(a)
    BY <1>6 DEF JoinFeed, LateJoinFeed
  <2>3. PICK a \in Acquire(Now, spec, s) : feed' = a.feed
    BY <2>2 DEF Becomes
  <2>4. \/ a.ok = FALSE /\ a.feed = feed /\ a.proc = proc
        \/ SeatedAs(a, spec, s)
        \/ BegunAs(a, spec, s)
    BY <1>1, <2>1, AcquireMakes
  <2>5. feed' = feed \/ SameFailures(feed, feed') \/ (feed'.failures = 0 /\ feed'.failed = FALSE)
    BY <2>3, <2>4 DEF SeatedAs, BegunAs, SameFailures
  <2> QED
    BY <1>2, <2>5 DEF FailuresCounted, Counts
<1>7. ASSUME NEW s \in Slots,
             \/ \E app \in Apps, h264 \in Codecs : AskToJoin(s, app, h264)
             \/ RefuseJoin(s) \/ StartWorker(s) \/ GuestGoes(s) \/ SentAway(s)
             \/ LeaveEarly(s)
      PROVE  FailuresCounted'
  <2>1. Given(s)
    BY <1>7 DEF AskToJoin, RefuseJoin, StartWorker, GuestGoes, SentAway, LeaveEarly, Given
  <2>2. feed'.failures = feed.failures /\ feed'.failed = feed.failed
    BY <1>1, <2>1 DEF Given, Release, FeedInvariant, Sound, IsFeed
  <2> QED
    BY <2>2 DEF FailuresCounted
<1>8. CASE UNCHANGED vars
  BY <1>8 DEF vars, FailuresCounted
<1> QED
  BY <1>3, <1>4, <1>5, <1>6, <1>7, <1>8 DEF Next

\* Only slots that are counted are remembered as sent away.
ForgottenAreCounted == forgotten \subseteq feed.guests

LEMMA ForgottenStep ==
  ForgottenAreCounted /\ [Next]_vars => ForgottenAreCounted'
<1> SUFFICES ASSUME ForgottenAreCounted, [Next]_vars  PROVE ForgottenAreCounted'
  OBVIOUS
<1>1. CASE StillForgotten \/ UNCHANGED <<feed, forgotten>>
  BY <1>1 DEF ForgottenAreCounted, StillForgotten
<1>2. ASSUME NEW w \in Workers, Goes(w) \/ HearEnded(w) \/ HearExited(w)
      PROVE  ForgottenAreCounted'
  BY <1>1, <1>2 DEF Goes, HearEnded, HearExited
<1>3. CASE IdleTimer \/ RestartTimer \/ (\E h \in Heights : PickHeight(h)) \/ EndPlayerSessions
  BY <1>1, <1>3 DEF IdleTimer, RestartTimer, PickHeight, EndPlayerSessions
<1>4. ASSUME NEW s \in Slots, JoinFeed(s)  PROVE ForgottenAreCounted'
  BY <1>4 DEF JoinFeed, ForgottenAreCounted
<1>5. ASSUME NEW s \in Slots, SentAway(s)  PROVE ForgottenAreCounted'
  BY <1>5 DEF SentAway, ForgottenAreCounted
<1>6. ASSUME NEW s \in Slots,
             \/ \E app \in Apps, h264 \in Codecs : AskToJoin(s, app, h264)
             \/ RefuseJoin(s) \/ StartWorker(s) \/ GuestGoes(s) \/ LeaveEarly(s)
             \/ \E spec \in Specs : LateJoinFeed(s, spec)
      PROVE  ForgottenAreCounted'
  BY <1>1, <1>6 DEF AskToJoin, RefuseJoin, StartWorker, GuestGoes, LeaveEarly, LateJoinFeed
<1>7. CASE UNCHANGED vars
  BY <1>1, <1>7 DEF vars
<1> QED
  BY <1>2, <1>3, <1>4, <1>5, <1>6, <1>7 DEF Next

\* Type correctness, with nothing assumed of what happens: in particular a worker
\* never runs under a pipe that does not exist, and failures in a row never pass
\* the limit at which the feed is given up on.
THEOREM FeedTyped == Spec => []TypeOK
<1>1. Init => FailuresCounted /\ ProcsTyped /\ ForgottenAreCounted
  <2> SUFFICES ASSUME Init  PROVE FailuresCounted /\ ProcsTyped /\ ForgottenAreCounted
    OBVIOUS
  <2>1. /\ feed.pipe = 0 /\ feed.failures = 0 /\ proc = [w \in Workers |-> NoProcess]
        /\ forgotten = {}
    BY DEF Init
  <2>2. NoProcess \in ProcType
    BY DEF NoProcess, ProcType
  <2> QED
    BY <2>1, <2>2, FailuresAssumption DEF FailuresCounted, ProcsTyped, ForgottenAreCounted
<1>2. FailuresCounted /\ ProcsTyped /\ TicketInvariant /\ [Next]_vars
        => (FailuresCounted /\ ProcsTyped)'
  BY FailuresStep, PipeSteps DEF TicketInvariant, PipesKept
<1>3. FailuresCounted /\ ProcsTyped /\ TicketInvariant /\ ForgottenAreCounted => TypeOK
  <2> SUFFICES ASSUME FailuresCounted, ProcsTyped, TicketInvariant, ForgottenAreCounted
               PROVE  TypeOK
    OBVIOUS
  <2>1. feed \in [worker: Workers \cup {None}, pipe: Pipes \cup {0}, spec: Specs,
                  guests: SUBSET Slots, idle: BOOLEAN, restart: BOOLEAN, resizing: BOOLEAN,
                  failures: 0..kMaxFailures, failed: BOOLEAN]
    BY DEF TicketInvariant, FeedInvariant, Sound, IsFeed, SlotsTyped, ProcsTyped, FailuresCounted
  <2> QED
    BY <2>1 DEF TypeOK, TicketInvariant, SlotsTyped, ProcsTyped, ProcType, ForgottenAreCounted
<1> QED
  BY <1>1, <1>2, <1>3, TicketStarts, TicketSteps, ForgottenStep, PTL DEF Spec
===============================================================================
