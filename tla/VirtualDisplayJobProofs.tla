----------------------- MODULE VirtualDisplayJobProofs -----------------------
(***************************************************************************)
(* VirtualDisplayJob for every number of launches, modes and faults, for   *)
(* both methods, and every order of requests, runs and timers.             *)
(***************************************************************************)
EXTENDS VirtualDisplayJob, TLAPS, SequenceTheorems, FiniteSetTheorems

Jobs ==
  [guests : GuestsAre, phase : {"idle", "waiting", "running"}, request : Requests \cup {NoRequest},
   asked : Modes \cup {"none"}, callers : SUBSET Launches, queue : Seq(Pending),
   active : Modes \cup {"none"}, runs : Seq(Requests),
   verdict : {"none", "ok", "notAppeared", "failed"}, exiting : BOOLEAN,
   launch : [Launches -> {"out", "asked", "dropped", "clear", "on"}]]

\* Behind which operations of the queue a launch waits.
Queued(q, l) == \E n \in DOMAIN q : l \in q[n].callers
Once(q, l) == \A m, n \in DOMAIN q : l \in q[m].callers /\ l \in q[n].callers => m = n

Waits(j, l) == j.launch[l] \in {"asked", "dropped"}

\* A launch that waits does so in one place, and nobody else does.
Placed(j) ==
  \A l \in Launches :
    /\ Once(j.queue, l)
    /\ Waits(j, l) => (l \in j.callers <=> ~Queued(j.queue, l))
    /\ ~Waits(j, l) => l \notin j.callers /\ ~Queued(j.queue, l)

\* Nobody waits on a job at rest; one at work has a request.
Rests(j) ==
  /\ j.phase = "idle" => j.callers = {} /\ j.queue = <<>>
  /\ j.phase # "idle" => j.request \in Requests

Good(j) == j \in Jobs /\ Rests(j) /\ Placed(j)

-----------------------------------------------------------------------------
(* What the class's functions make of the members.                         *)

\* A run asked for.
LEMMA DispatchMakes ==
  ASSUME NEW j \in Jobs, j.request \in Requests, NEW k, k = Dispatch(j)
  PROVE  /\ k \in Jobs /\ k.phase \in {"waiting", "running"}
         /\ k.queue = j.queue /\ k.callers = j.callers
         /\ k.launch = j.launch /\ k.request = j.request
<1>1. CASE Method = "task"
  BY <1>1 DEF Jobs, Dispatch
<1>2. CASE Method # "task"
  <2>1. Append(j.runs, j.request) \in Seq(Requests)
    BY DEF Jobs
  <2>2. k = [j EXCEPT !.phase = "running", !.runs = Append(j.runs, j.request)]
    BY <1>2 DEF Dispatch, Jobs
  <2> QED
    BY <2>1, <2>2 DEF Jobs
<1> QED
  BY <1>1, <1>2

\* A job that goes on with the same launches waiting in the same places.
LEMMA GoodAlike ==
  ASSUME NEW j, NEW k \in Jobs, Good(j), k.phase # "idle", k.request \in Requests,
         k.queue = j.queue, k.callers = j.callers, k.launch = j.launch
  PROVE  Good(k)
BY DEF Good, Rests, Placed, Waits

\* What becomes of the launches that are answered.
Told(j, ok) ==
  [l \in Launches |-> IF l \notin j.callers THEN j.launch[l]
                      ELSE IF j.launch[l] = "asked" /\ ok THEN "clear" ELSE "out"]

\* Whoever waited behind the operation waits no more.
LEMMA AnswerMakes ==
  ASSUME NEW j \in Jobs, NEW ok \in BOOLEAN, NEW k, k = Answer([j EXCEPT !.phase = "idle"], ok)
  PROVE  /\ k \in Jobs /\ k.phase = "idle" /\ k.callers = {} /\ k.queue = j.queue
         /\ k.runs = j.runs
         /\ \A l \in Launches \ j.callers : k.launch[l] = j.launch[l]
         /\ \A l \in j.callers : k.launch[l] \in {"clear", "out"}
         /\ \A l \in j.callers : j.launch[l] # "asked" => k.launch[l] = "out"
<1>1. Told(j, ok) \in [Launches -> {"out", "asked", "dropped", "clear", "on"}]
  BY DEF Told, Jobs
<1>2. /\ \A l \in Launches \ j.callers : Told(j, ok)[l] = j.launch[l]
      /\ \A l \in j.callers : Told(j, ok)[l] \in {"clear", "out"}
      /\ \A l \in j.callers : j.launch[l] # "asked" => Told(j, ok)[l] = "out"
  BY DEF Told, Jobs
<1>3. k = [j EXCEPT !.phase = "idle", !.callers = {}, !.launch = Told(j, ok)]
  BY DEF Answer, Told, Jobs
<1>4. /\ k \in Jobs /\ k.phase = "idle" /\ k.callers = {} /\ k.queue = j.queue
      /\ k.launch = Told(j, ok) /\ k.runs = j.runs
  BY <1>1, <1>3 DEF Jobs
<1> QED
  BY <1>2, <1>4

\* The operation at the head of the queue begins.
LEMMA StartNextMakes ==
  ASSUME NEW j \in Jobs, j.queue # <<>>, NEW k, k = StartNext(j)
  PROVE  /\ k \in Jobs /\ k.phase # "idle" /\ k.request \in Requests
         /\ k.callers = Head(j.queue).callers /\ k.queue = Tail(j.queue)
         /\ k.launch = j.launch /\ k.request.verb = Head(j.queue).verb
<1> DEFINE p == Head(j.queue)
           b == [j EXCEPT !.queue = Tail(j.queue), !.request = RequestOf(p),
                          !.callers = p.callers, !.asked = "none"]
<1>1. p \in Pending /\ Tail(j.queue) \in Seq(Pending)
  BY DEF Jobs
<1>2. RequestOf(p) \in Requests /\ RequestOf(p).verb = p.verb /\ p.callers \in SUBSET Launches
  BY <1>1 DEF RequestOf, Pending, Requests
<1>3. k = Dispatch(b)
  BY DEF StartNext, Jobs
<1>4. /\ b \in Jobs /\ b.queue = Tail(j.queue) /\ b.request = RequestOf(p)
      /\ b.callers = p.callers /\ b.launch = j.launch
  <2> HIDE DEF p
  <2> QED
    BY <1>1, <1>2 DEF Jobs
<1> HIDE DEF b
<1> QED
  BY <1>2, <1>3, <1>4, DispatchMakes

\* The launches that wait, once the first operation of the queue leaves it.
LEMMA QueueAdvances ==
  ASSUME NEW q \in Seq(Pending), q # <<>>, NEW l, Once(q, l)
  PROVE  /\ Once(Tail(q), l)
         /\ Queued(q, l) <=> l \in Head(q).callers \/ Queued(Tail(q), l)
         /\ l \in Head(q).callers => ~Queued(Tail(q), l)
<1>1. /\ Len(q) \in Nat /\ Len(q) >= 1 /\ DOMAIN q = 1..Len(q) /\ Head(q) = q[1]
      /\ DOMAIN Tail(q) = 1..(Len(q) - 1) /\ \A n \in 1..(Len(q) - 1) : Tail(q)[n] = q[n + 1]
  OBVIOUS
<1>2. \A n \in DOMAIN Tail(q) : n + 1 \in DOMAIN q /\ n + 1 # 1 /\ Tail(q)[n] = q[n + 1]
  BY <1>1
<1>3. Once(Tail(q), l)
  <2> SUFFICES ASSUME NEW m \in DOMAIN Tail(q), NEW n \in DOMAIN Tail(q),
                      l \in Tail(q)[m].callers, l \in Tail(q)[n].callers
               PROVE  m = n
    BY DEF Once
  <2>1. m + 1 = n + 1
    BY <1>2 DEF Once
  <2> QED
    BY <2>1, <1>1
<1>4. l \in Head(q).callers => ~Queued(Tail(q), l)
  BY <1>1, <1>2 DEF Once, Queued
<1>5. l \in Head(q).callers \/ Queued(Tail(q), l) => Queued(q, l)
  BY <1>1, <1>2 DEF Queued
<1>6. ASSUME Queued(q, l), l \notin Head(q).callers
      PROVE  Queued(Tail(q), l)
  <2>1. PICK n \in DOMAIN q : l \in q[n].callers
    BY <1>6 DEF Queued
  <2>2. n # 1 /\ n \in 1..Len(q)
    BY <1>1, <1>6, <2>1
  <2>3. n - 1 \in DOMAIN Tail(q) /\ Tail(q)[n - 1] = q[(n - 1) + 1] /\ (n - 1) + 1 = n
    BY <1>1, <2>2
  <2> QED
    BY <2>1, <2>3 DEF Queued
<1> QED
  BY <1>3, <1>4, <1>5, <1>6

\* The next operation begins with those who wait behind it.
LEMMA StartNextGood ==
  ASSUME NEW a \in Jobs, Placed(a), a.phase = "idle", a.callers = {}
  PROVE  Good(StartNext(a))
<1> DEFINE k == StartNext(a)
<1>1. CASE a.queue = <<>>
  BY <1>1 DEF StartNext, Good, Rests
<1>2. CASE a.queue # <<>>
  <2>1. /\ k \in Jobs /\ k.phase # "idle" /\ k.request \in Requests
        /\ k.callers = Head(a.queue).callers /\ k.queue = Tail(a.queue)
        /\ k.launch = a.launch
    BY <1>2, StartNextMakes
  <2> HIDE DEF k
  <2>2. Placed(k)
    <3> SUFFICES ASSUME NEW l \in Launches
                 PROVE  /\ Once(k.queue, l)
                        /\ Waits(k, l) => (l \in k.callers <=> ~Queued(k.queue, l))
                        /\ ~Waits(k, l) => l \notin k.callers /\ ~Queued(k.queue, l)
      BY DEF Placed
    <3>1. a.queue \in Seq(Pending) /\ Once(a.queue, l)
      BY DEF Jobs, Placed
    <3>2. /\ Once(Tail(a.queue), l)
          /\ Queued(a.queue, l) <=> l \in Head(a.queue).callers \/ Queued(Tail(a.queue), l)
          /\ l \in Head(a.queue).callers => ~Queued(Tail(a.queue), l)
      BY <1>2, <3>1, QueueAdvances
    <3>3. /\ Waits(a, l) => (l \in a.callers <=> ~Queued(a.queue, l))
          /\ ~Waits(a, l) => ~Queued(a.queue, l)
      BY DEF Placed
    <3>4. Waits(k, l) <=> Waits(a, l)
      BY <2>1 DEF Waits
    <3> QED
      BY <2>1, <3>2, <3>3, <3>4
  <2>3. Good(k)
    BY <2>1, <2>2 DEF Good, Rests
  <2> QED
    BY <2>3 DEF k
<1> QED
  BY <1>1, <1>2

\* The end of an operation leaves whoever waits in one place.
LEMMA SettleGood ==
  ASSUME NEW j, Good(j), NEW ok \in BOOLEAN
  PROVE  Good(Settle(j, ok))
<1> DEFINE a == Answer([j EXCEPT !.phase = "idle"], ok)
<1>1. j \in Jobs /\ Placed(j)
  BY DEF Good
<1>2. /\ a \in Jobs /\ a.phase = "idle" /\ a.callers = {} /\ a.queue = j.queue
      /\ \A l \in Launches \ j.callers : a.launch[l] = j.launch[l]
      /\ \A l \in j.callers : a.launch[l] \in {"clear", "out"}
  BY <1>1, AnswerMakes
<1>3. Settle(j, ok) = StartNext(a)
  BY DEF Settle
<1> HIDE DEF a
<1>4. ASSUME NEW l \in Launches
      PROVE  /\ Once(a.queue, l)
             /\ Waits(a, l) => (l \in a.callers <=> ~Queued(a.queue, l))
             /\ ~Waits(a, l) => l \notin a.callers /\ ~Queued(a.queue, l)
  <2>1. CASE l \in j.callers
    BY <1>1, <1>2, <2>1 DEF Placed, Waits
  <2>2. CASE l \notin j.callers
    BY <1>1, <1>2, <2>2 DEF Placed, Waits
  <2> QED
    BY <2>1, <2>2
<1>5. Placed(a)
  BY <1>4 DEF Placed
<1> QED
  BY <1>2, <1>3, <1>5, StartNextGood

\* What no launch waits by may change.
LEMMA GoodStill ==
  ASSUME NEW j, NEW k \in Jobs, Good(j), k.phase = j.phase, k.request = j.request,
         k.queue = j.queue, k.callers = j.callers, k.launch = j.launch
  PROVE  Good(k)
BY DEF Good, Rests, Placed, Waits

\* A mode that fails falls back: the same launches wait for another mode.
LEMMA FallBackMakes ==
  ASSUME NEW j, Good(j), NEW why, FallsBack(j, why), NEW k, k = Fail(j, why)
  PROVE  /\ k \in Jobs /\ k.phase # "idle" /\ k.request \in Requests /\ k.request.verb = "activate"
         /\ k.queue = j.queue /\ k.callers = j.callers /\ k.launch = j.launch
<1> DEFINE b == [j EXCEPT !.asked = AskedMode(j), !.request.mode = "default"]
<1>1. j \in Jobs /\ j.request \in Requests /\ j.request.verb = "activate"
  BY DEF Good, Jobs, FallsBack, NoRequest
<1>2. AskedMode(j) \in Modes \cup {"none"}
  BY <1>1 DEF AskedMode, Jobs, Requests
<1>3. /\ [j.request EXCEPT !.mode = "default"] \in Requests
      /\ [j.request EXCEPT !.mode = "default"].verb = "activate"
  BY <1>1, LaunchesAssumption DEF Requests
<1>4. b = [j EXCEPT !.asked = AskedMode(j), !.request = [j.request EXCEPT !.mode = "default"]]
  BY <1>1 DEF Jobs
<1>5. /\ b \in Jobs /\ b.request = [j.request EXCEPT !.mode = "default"] /\ b.queue = j.queue
      /\ b.callers = j.callers /\ b.launch = j.launch
  BY <1>1, <1>2, <1>3, <1>4 DEF Jobs
<1>6. k = Dispatch(b)
  BY DEF Fail
<1> HIDE DEF b
<1>7. /\ k \in Jobs /\ k.phase # "idle" /\ k.queue = j.queue /\ k.callers = j.callers
      /\ k.launch = j.launch /\ k.request = b.request
  BY <1>3, <1>5, <1>6, DispatchMakes
<1> QED
  BY <1>3, <1>5, <1>7

\* A run that fails: the mode falls back, or the operation is over.
LEMMA FailGood ==
  ASSUME NEW j, Good(j), NEW why
  PROVE  Good(Fail(j, why))
<1>1. CASE FallsBack(j, why)
  BY <1>1, FallBackMakes, GoodAlike
<1>2. CASE ~FallsBack(j, why)
  BY <1>2, SettleGood DEF Fail
<1> QED
  BY <1>1, <1>2

\* What is active once a run did what was asked; the rest is as it was.
LEMMA ActiveMakes ==
  ASSUME NEW j, Good(j)
  PROVE  \E b \in Jobs :
           /\ Succeed(j) = Settle(b, TRUE)
           /\ b.phase = j.phase /\ b.request = j.request /\ b.queue = j.queue
           /\ b.callers = j.callers /\ b.launch = j.launch /\ b.runs = j.runs
<1> DEFINE active == CASE j.request.verb = "activate" -> AskedMode(j)
                       [] j.request.verb = "deactivate" -> "none"
                       [] OTHER -> j.active
           b == [j EXCEPT !.active = active]
<1>1. j \in Jobs
  BY DEF Good
<1>2. active \in Modes \cup {"none"}
  BY <1>1 DEF AskedMode, Jobs, Requests, NoRequest
<1>3. Succeed(j) = Settle(b, TRUE)
  BY <1>1 DEF Succeed, Jobs
<1> HIDE DEF active
<1>4. /\ b \in Jobs /\ b.phase = j.phase /\ b.request = j.request /\ b.queue = j.queue
      /\ b.callers = j.callers /\ b.launch = j.launch /\ b.runs = j.runs
  BY <1>1, <1>2 DEF Jobs
<1> HIDE DEF b
<1> QED
  BY <1>3, <1>4

\* A run that did what was asked.
LEMMA SucceedGood ==
  ASSUME NEW j, Good(j)
  PROVE  Good(Succeed(j))
<1>1. PICK b \in Jobs :
        /\ Succeed(j) = Settle(b, TRUE)
        /\ b.phase = j.phase /\ b.request = j.request /\ b.queue = j.queue
        /\ b.callers = j.callers /\ b.launch = j.launch
  BY ActiveMakes
<1> QED
  BY <1>1, GoodStill, SettleGood

\* A verdict that reaches the job.
LEMMA HandleResultGood ==
  ASSUME NEW j, Good(j), NEW verdict
  PROVE  Good(HandleResult(j, verdict))
BY FailGood, SucceedGood DEF HandleResult

-----------------------------------------------------------------------------
(* Asking for an operation.                                                *)

\* The launches c are to wait and do so nowhere yet.
Missing(j, c) ==
  /\ j \in Jobs /\ Rests(j) /\ c \in SUBSET Launches
  /\ \A l \in Launches :
       /\ Once(j.queue, l)
       /\ l \in c => Waits(j, l) /\ l \notin j.callers /\ ~Queued(j.queue, l)
       /\ l \notin c /\ Waits(j, l) => (l \in j.callers <=> ~Queued(j.queue, l))
       /\ ~Waits(j, l) => l \notin j.callers /\ ~Queued(j.queue, l)

\* They wait with those of the operation at work.
LEMMA JoinCurrentGood ==
  ASSUME NEW j, NEW c, Missing(j, c), j.phase # "idle"
  PROVE  Good([j EXCEPT !.callers = @ \cup c])
<1> DEFINE k == [j EXCEPT !.callers = @ \cup c]
<1>1. /\ k \in Jobs /\ k.phase = j.phase /\ k.queue = j.queue /\ k.launch = j.launch
      /\ k.request = j.request /\ \A l : l \in k.callers <=> l \in j.callers \/ l \in c
  BY DEF Missing, Jobs
<1> HIDE DEF k
<1>2. Placed(k)
  BY <1>1 DEF Missing, Placed, Waits
<1>3. Rests(k)
  BY <1>1 DEF Missing, Rests
<1>4. Good(k)
  BY <1>1, <1>2, <1>3 DEF Good
<1> QED
  BY <1>4 DEF k

\* They wait with those of the last operation queued.
LEMMA JoinLastGood ==
  ASSUME NEW j, NEW c, Missing(j, c), j.queue # <<>>
  PROVE  Good(JoinLast(j, c))
<1> DEFINE n == Len(j.queue)
           p == [j.queue[n] EXCEPT !.callers = @ \cup c]
           q == [j.queue EXCEPT ![n] = p]
           k == JoinLast(j, c)
<1>1. j \in Jobs /\ j.queue \in Seq(Pending) /\ c \in SUBSET Launches
  BY DEF Missing, Jobs
<1>2. n \in DOMAIN j.queue /\ j.queue[n] \in Pending
  BY <1>1
<1>3. p \in Pending /\ \A l : l \in p.callers <=> l \in j.queue[n].callers \/ l \in c
  BY <1>1, <1>2 DEF Pending
<1>4. k = [j EXCEPT !.queue = q]
  BY <1>1, <1>2 DEF JoinLast, Jobs
<1> HIDE DEF p
<1>5. /\ q \in Seq(Pending) /\ DOMAIN q = DOMAIN j.queue /\ q[n] = p
      /\ \A m \in DOMAIN q : m # n => q[m] = j.queue[m]
  BY <1>1, <1>2, <1>3
<1> HIDE DEF n, q
<1>6. /\ k \in Jobs /\ k.queue = q /\ k.phase = j.phase /\ k.request = j.request
      /\ k.callers = j.callers /\ k.launch = j.launch
  BY <1>1, <1>4, <1>5 DEF Jobs
<1> HIDE DEF k
<1>7. ASSUME NEW l \in Launches, l \notin c
      PROVE  \A m \in DOMAIN q : l \in q[m].callers <=> l \in j.queue[m].callers
  BY <1>3, <1>5, <1>7
<1>8. ASSUME NEW l \in Launches, l \in c
      PROVE  \A m \in DOMAIN q : l \in q[m].callers <=> m = n
  <2>1. \A m \in DOMAIN j.queue : l \notin j.queue[m].callers
    BY <1>8 DEF Missing, Queued
  <2> QED
    BY <1>3, <1>5, <1>8, <2>1
<1>9. ASSUME NEW l \in Launches
      PROVE  /\ Once(q, l)
             /\ l \notin c => (Queued(q, l) <=> Queued(j.queue, l))
             /\ l \in c => Queued(q, l)
  <2>1. CASE l \in c
    BY <1>2, <1>5, <1>8, <2>1 DEF Once, Queued
  <2>2. CASE l \notin c
    <3>1. Once(j.queue, l)
      BY DEF Missing
    <3> QED
      BY <1>5, <1>7, <2>2, <3>1 DEF Once, Queued
  <2> QED
    BY <2>1, <2>2
<1>10. Placed(k)
  BY <1>6, <1>9 DEF Missing, Placed, Waits
<1>11. Rests(k)
  BY <1>2, <1>5, <1>6 DEF Missing, Rests
<1> QED
  BY <1>6, <1>10, <1>11 DEF Good, k

\* An operation of their own, at the end of the queue or at once.
LEMMA AppendGood ==
  ASSUME NEW j, NEW verb \in Verbs, NEW mode \in Modes \cup {"none"}, NEW exclusive \in BOOLEAN,
         NEW c, Missing(j, c), NEW k,
         k = [j EXCEPT !.queue = Append(@, [verb |-> verb, mode |-> mode,
                                            exclusive |-> exclusive, callers |-> c])]
  PROVE  /\ k.phase # "idle" => Good(k)
         /\ k.phase = "idle" => Good(StartNext(k))
<1> DEFINE p == [verb |-> verb, mode |-> mode, exclusive |-> exclusive, callers |-> c]
           q == Append(j.queue, p)
<1>1. j \in Jobs /\ j.queue \in Seq(Pending) /\ c \in SUBSET Launches
  BY DEF Missing, Jobs
<1>2. p \in Pending /\ p.callers = c
  BY <1>1 DEF Pending
<1>3. k = [j EXCEPT !.queue = q]
  BY <1>1 DEF Jobs
<1> HIDE DEF p
<1>4. /\ q \in Seq(Pending) /\ DOMAIN q = 1..(Len(j.queue) + 1) /\ DOMAIN j.queue = 1..Len(j.queue)
      /\ Len(j.queue) \in Nat /\ q[Len(j.queue) + 1] = p
      /\ \A m \in DOMAIN j.queue : q[m] = j.queue[m]
  BY <1>1, <1>2
<1> HIDE DEF q
<1>5. /\ k \in Jobs /\ k.queue = q /\ k.phase = j.phase /\ k.request = j.request
      /\ k.callers = j.callers /\ k.launch = j.launch
  BY <1>1, <1>3, <1>4 DEF Jobs
<1>6. ASSUME NEW l \in Launches
      PROVE  /\ Once(q, l)
             /\ l \notin c => (Queued(q, l) <=> Queued(j.queue, l))
             /\ l \in c => Queued(q, l)
  <2>1. \A m \in DOMAIN q : m \in DOMAIN j.queue \/ m = Len(j.queue) + 1
    BY <1>4
  <2>2. Len(j.queue) + 1 \in DOMAIN q /\ \A m \in DOMAIN j.queue : m \in DOMAIN q
    BY <1>4
  <2>3. CASE l \in c
    <3>1. \A m \in DOMAIN j.queue : l \notin j.queue[m].callers
      BY <2>3 DEF Missing, Queued
    <3> QED
      BY <1>2, <1>4, <2>1, <2>2, <2>3, <3>1 DEF Once, Queued
  <2>4. CASE l \notin c
    <3>1. Once(j.queue, l)
      BY DEF Missing
    <3>2. \A m \in DOMAIN q : l \in q[m].callers <=> m \in DOMAIN j.queue /\ l \in j.queue[m].callers
      BY <1>2, <1>4, <2>1, <2>4
    <3> HIDE DEF p
    <3>3. Once(q, l)
      BY <3>1, <3>2 DEF Once
    <3>4. Queued(q, l) <=> Queued(j.queue, l)
      BY <2>2, <3>2 DEF Queued
    <3> QED
      BY <2>4, <3>3, <3>4
  <2> QED
    BY <2>3, <2>4
<1>7. Placed(k)
  BY <1>5, <1>6 DEF Missing, Placed, Waits
<1>8. CASE k.phase # "idle"
  <2>1. Rests(k)
    BY <1>5, <1>8 DEF Missing, Rests
  <2> QED
    BY <1>5, <1>7, <1>8, <2>1 DEF Good
<1>9. CASE k.phase = "idle"
  <2>1. k.callers = {}
    BY <1>5, <1>9 DEF Missing, Rests
  <2> QED
    BY <1>5, <1>7, <1>9, <2>1, StartNextGood
<1> QED
  BY <1>8, <1>9

\* The operation is joined or queued.
LEMMA EnqueueGood ==
  ASSUME NEW j, NEW verb \in Verbs, NEW mode \in Modes \cup {"none"}, NEW exclusive \in BOOLEAN,
         NEW c, Missing(j, c)
  PROVE  Good(Enqueue(j, verb, mode, exclusive, c))
<1>1. CASE Running(j) /\ j.queue = <<>> /\ j.request.verb = verb /\ AskedMode(j) = mode
  BY <1>1, JoinCurrentGood DEF Enqueue, Running
<1>2. CASE /\ ~(Running(j) /\ j.queue = <<>> /\ j.request.verb = verb /\ AskedMode(j) = mode)
           /\ j.queue # <<>> /\ Same(Last(j.queue), verb, mode)
  BY <1>2, JoinLastGood DEF Enqueue
<1>3. CASE /\ ~(Running(j) /\ j.queue = <<>> /\ j.request.verb = verb /\ AskedMode(j) = mode)
           /\ ~(j.queue # <<>> /\ Same(Last(j.queue), verb, mode))
  <2> DEFINE k == [j EXCEPT !.queue = Append(@, [verb |-> verb, mode |-> mode,
                                                 exclusive |-> exclusive, callers |-> c])]
  <2>1. Enqueue(j, verb, mode, exclusive, c) = IF Running(k) THEN k ELSE StartNext(k)
    BY <1>3 DEF Enqueue
  <2>2. /\ k.phase # "idle" => Good(k)
        /\ k.phase = "idle" => Good(StartNext(k))
    BY AppendGood
  <2> QED
    BY <2>1, <2>2 DEF Running
<1> QED
  BY <1>1, <1>2, <1>3

\* A launch that asks waits nowhere yet.
LEMMA AskedMisses ==
  ASSUME NEW l \in Launches, Good(d), d.launch[l] = "out"
  PROVE  Missing([d EXCEPT !.launch[l] = "asked"], {l})
<1> DEFINE j == [d EXCEPT !.launch[l] = "asked"]
<1>1. d \in Jobs /\ Placed(d) /\ Rests(d)
  BY DEF Good
<1>2. /\ j \in Jobs /\ j.phase = d.phase /\ j.request = d.request /\ j.queue = d.queue
      /\ j.callers = d.callers /\ j.launch[l] = "asked"
      /\ \A o \in Launches : o # l => j.launch[o] = d.launch[o]
  BY <1>1 DEF Jobs
<1> HIDE DEF j
<1>3. Missing(j, {l})
  BY <1>1, <1>2 DEF Missing, Placed, Waits, Rests
<1> QED
  BY <1>3 DEF j

\* Nobody asks: the display is switched for whoever waits elsewhere.
LEMMA NobodyMisses ==
  ASSUME Good(d)
  PROVE  Missing(d, {})
BY DEF Good, Missing, Placed

\* The operations the launches and the timers ask.
LEMMA ActivateGood ==
  ASSUME NEW l \in Launches, NEW mode \in Modes, Good(d), d.launch[l] = "out"
  PROVE  Good(Activate(l, mode))
<1> DEFINE j == [d EXCEPT !.launch[l] = "asked"]
<1>1. d \in Jobs /\ Placed(d) /\ Rests(d)
  BY DEF Good
<1>2. CASE ReadyIn(mode)
  <2> DEFINE k == [d EXCEPT !.launch[l] = "clear"]
  <2>1. /\ k \in Jobs /\ k.phase = d.phase /\ k.request = d.request /\ k.queue = d.queue
        /\ k.callers = d.callers /\ k.launch[l] = "clear"
        /\ \A o \in Launches : o # l => k.launch[o] = d.launch[o]
    BY <1>1 DEF Jobs
  <2>2. Activate(l, mode) = k
    BY <1>2 DEF Activate
  <2> HIDE DEF k
  <2>3. Placed(k)
    BY <1>1, <2>1 DEF Placed, Waits
  <2> QED
    BY <1>1, <2>1, <2>2, <2>3 DEF Good, Rests
<1>3. CASE ~ReadyIn(mode)
  <2>1. Missing(j, {l})
    BY AskedMisses
  <2>2. OthersGoOff(l) \in BOOLEAN
    BY LaunchesAssumption DEF OthersGoOff
  <2> HIDE DEF j
  <2>3. Good(Enqueue(j, "activate", mode, OthersGoOff(l), {l}))
    BY <2>1, <2>2, EnqueueGood DEF Verbs
  <2> QED
    BY <1>3, <2>3 DEF Activate, j
<1> QED
  BY <1>2, <1>3

\* A guest asks.
LEMMA ActivateIfOffGood ==
  ASSUME NEW l \in Launches, NEW mode \in Modes, Good(d), d.launch[l] = "out"
  PROVE  Good(ActivateIfOff(l, mode))
<1> DEFINE j == [d EXCEPT !.launch[l] = "asked"]
<1>1. d \in Jobs /\ Placed(d) /\ Rests(d)
  BY DEF Good
<1>2. Missing(j, {l}) /\ j.queue = d.queue /\ j.phase = d.phase
  BY <1>1, AskedMisses DEF Jobs
<1>3. CASE d.queue # <<>> /\ KeepsItOn(Last(d.queue).verb)
  <2>1. ActivateIfOff(l, mode) = JoinLast(j, {l})
    BY <1>3 DEF ActivateIfOff, Quiet
  <2> HIDE DEF j
  <2> QED
    BY <1>2, <1>3, <2>1, JoinLastGood
<1>4. CASE d.queue = <<>> /\ Running(d) /\ KeepsItOn(d.request.verb)
  <2>1. ActivateIfOff(l, mode) = [j EXCEPT !.callers = @ \cup {l}]
    BY <1>4 DEF ActivateIfOff, Quiet
  <2> HIDE DEF j
  <2> QED
    BY <1>2, <1>4, <2>1, JoinCurrentGood DEF Running
<1>5. CASE Quiet /\ display # "off" /\ OthersDueBack
  <2>1. ActivateIfOff(l, mode) = Enqueue(j, "othersBack", "none", FALSE, {l})
    BY <1>5 DEF ActivateIfOff, Quiet
  <2> HIDE DEF j
  <2> QED
    BY <1>2, <2>1, EnqueueGood DEF Verbs
<1>6. CASE Quiet /\ display # "off" /\ ~OthersDueBack
  <2> DEFINE k == [d EXCEPT !.launch[l] = "clear"]
  <2>1. /\ k \in Jobs /\ k.phase = d.phase /\ k.request = d.request /\ k.queue = d.queue
        /\ k.callers = d.callers /\ k.launch[l] = "clear"
        /\ \A o \in Launches : o # l => k.launch[o] = d.launch[o]
    BY <1>1 DEF Jobs
  <2>2. ActivateIfOff(l, mode) = k
    BY <1>6 DEF ActivateIfOff, Quiet
  <2> HIDE DEF k
  <2>3. Placed(k)
    BY <1>1, <2>1 DEF Placed, Waits
  <2> QED
    BY <1>1, <2>1, <2>2, <2>3 DEF Good, Rests
<1>7. CASE /\ ~(d.queue # <<>> /\ KeepsItOn(Last(d.queue).verb))
           /\ ~(d.queue = <<>> /\ Running(d) /\ KeepsItOn(d.request.verb))
           /\ ~(Quiet /\ display # "off" /\ OthersDueBack)
           /\ ~(Quiet /\ display # "off" /\ ~OthersDueBack)
  <2>1. ActivateIfOff(l, mode) = Activate(l, mode)
    BY <1>7 DEF ActivateIfOff
  <2> QED
    BY <2>1, ActivateGood
<1> QED
  BY <1>3, <1>4, <1>5, <1>6, <1>7

\* The display is switched off.
LEMMA DeactivateGood ==
  ASSUME Good(d)
  PROVE  Good(Deactivate)
BY NobodyMisses, EnqueueGood DEF Deactivate, Verbs

-----------------------------------------------------------------------------
(* The steps.                                                              *)

\* A launch that goes from one state of not waiting, or of waiting, to another.
LEMMA MovesOn ==
  ASSUME NEW l \in Launches, Good(d), NEW v \in {"out", "dropped", "clear", "on"},
         v = "dropped" <=> Waits(d, l)
  PROVE  Good([d EXCEPT !.launch[l] = v])
<1> DEFINE k == [d EXCEPT !.launch[l] = v]
<1>1. d \in Jobs /\ Placed(d) /\ Rests(d)
  BY DEF Good
<1>2. /\ k \in Jobs /\ k.phase = d.phase /\ k.request = d.request /\ k.queue = d.queue
      /\ k.callers = d.callers /\ k.launch[l] = v
      /\ \A o \in Launches : o # l => k.launch[o] = d.launch[o]
  BY <1>1 DEF Jobs
<1> HIDE DEF k
<1>3. Placed(k)
  BY <1>1, <1>2 DEF Placed, Waits
<1>4. Good(k)
  BY <1>1, <1>2, <1>3 DEF Good, Rests
<1> QED
  BY <1>4 DEF k

\* The runs without the one that ended.
LEMMA RunsShorten ==
  ASSUME NEW runs \in Seq(Requests), NEW n \in DOMAIN runs
  PROVE  RemoveAt(runs, n) \in Seq(Requests)
<1>1. /\ SubSeq(runs, 1, n - 1) \in Seq(Requests)
      /\ SubSeq(runs, n + 1, Len(runs)) \in Seq(Requests)
  OBVIOUS
<1> QED
  BY <1>1 DEF RemoveAt

\* A run's end, as the job hears of it.
LEMMA ReportedGood ==
  ASSUME Good(d), NEW n \in DOMAIN d.runs, NEW verdict \in {"ok", "notAppeared", "failed"}
  PROVE  Good(Reported(n, verdict))
<1> DEFINE runs == RemoveAt(d.runs, n)
           j == [d EXCEPT !.runs = runs]
<1>1. d \in Jobs
  BY DEF Good
<1>2. runs \in Seq(Requests)
  BY <1>1, RunsShorten DEF Jobs
<1> HIDE DEF runs
<1>3. /\ j \in Jobs /\ j.phase = d.phase /\ j.request = d.request /\ j.queue = d.queue
      /\ j.callers = d.callers /\ j.launch = d.launch
  BY <1>1, <1>2 DEF Jobs
<1>4. Reported(n, verdict) = IF Method = "task" THEN [j EXCEPT !.verdict = verdict, !.exiting = TRUE]
                             ELSE HandleResult(j, verdict)
  BY DEF Reported, runs
<1> HIDE DEF j
<1>5. Good(j)
  BY <1>3, GoodStill
<1>6. Good([j EXCEPT !.verdict = verdict, !.exiting = TRUE])
  <2> DEFINE k == [j EXCEPT !.verdict = verdict, !.exiting = TRUE]
  <2>1. /\ k \in Jobs /\ k.phase = j.phase /\ k.request = j.request /\ k.queue = j.queue
        /\ k.callers = j.callers /\ k.launch = j.launch
    BY <1>3 DEF Jobs
  <2> HIDE DEF k
  <2>2. Good(k)
    BY <1>5, <2>1, GoodStill
  <2> QED
    BY <2>2 DEF k
<1> QED
  BY <1>4, <1>5, <1>6, HandleResultGood

\* What a run may say.
LEMMA VerdictsAre ==
  ASSUME NEW q \in Requests, NEW o \in Outcomes(q)
  PROVE  o.verdict \in {"ok", "notAppeared", "failed"}
BY DEF Outcomes, Requests, Verbs

\* At first nobody asks.
LEMMA InitGood == Init => Good(d)
<1> SUFFICES ASSUME Init
             PROVE  Good(d)
  OBVIOUS
<1>1. PICK guests \in GuestsAre :
        d = [guests |-> guests, phase |-> "idle", request |-> NoRequest,
             asked |-> "none", callers |-> {},
             queue |-> <<>>, active |-> "none", runs |-> <<>>, verdict |-> "none",
             exiting |-> FALSE, launch |-> [l \in Launches |-> "out"]]
  BY DEF Init
<1>2. d \in Jobs
  BY <1>1 DEF Jobs
<1> QED
  BY <1>1, <1>2 DEF Good, Rests, Placed, Waits, Once, Queued

\* A launch asks, is superseded, takes the display or leaves it.
LEMMA LaunchKeeps ==
  ASSUME Good(d), NEW l \in Launches, Ask(l) \/ Supersede(l) \/ StartWorker(l) \/ StreamEnds(l)
  PROVE  Good(d)'
<1>1. CASE Ask(l)
  <2>1. PICK mode \in Modes : d' = IF l \in Owners THEN Activate(l, mode) ELSE ActivateIfOff(l, mode)
    BY <1>1 DEF Ask
  <2>2. d.launch[l] = "out"
    BY <1>1 DEF Ask
  <2>3. Good(Activate(l, mode)) /\ Good(ActivateIfOff(l, mode))
    BY <2>2, ActivateGood, ActivateIfOffGood
  <2> QED
    BY <2>1, <2>3
<1>2. CASE Supersede(l)
  <2>1. CASE d.launch[l] = "asked"
    <3>1. d' = [d EXCEPT !.launch[l] = "dropped"]
      BY <1>2, <2>1 DEF Supersede, Good, Jobs
    <3>2. Good([d EXCEPT !.launch[l] = "dropped"])
      BY <2>1, MovesOn DEF Waits
    <3> QED
      BY <3>1, <3>2
  <2>2. CASE d.launch[l] = "clear"
    <3>1. d' = [d EXCEPT !.launch[l] = "out"]
      BY <1>2, <2>2 DEF Supersede, Good, Jobs
    <3>2. Good([d EXCEPT !.launch[l] = "out"])
      BY <2>2, MovesOn DEF Waits
    <3> QED
      BY <3>1, <3>2
  <2> QED
    BY <1>2, <2>1, <2>2 DEF Supersede
<1>3. CASE StartWorker(l)
  <2>1. Good([d EXCEPT !.launch[l] = "on"])
    BY <1>3, MovesOn DEF StartWorker, Waits
  <2> QED
    BY <1>3, <2>1 DEF StartWorker
<1>4. CASE StreamEnds(l)
  <2>1. Good([d EXCEPT !.launch[l] = "out"])
    BY <1>4, MovesOn DEF StreamEnds, Waits
  <2> QED
    BY <1>4, <2>1 DEF StreamEnds
<1> QED
  BY <1>1, <1>2, <1>3, <1>4

\* A grace ends, or what was closing has closed.
LEMMA TimerKeeps ==
  ASSUME Good(d), Timers
  PROVE  Good(d)'
<1>1. Good(Deactivate) /\ Good(Enqueue(d, "othersBack", "none", FALSE, {}))
  BY DeactivateGood, NobodyMisses, EnqueueGood DEF Verbs
<1>2. \/ d' = d
      \/ d' = Deactivate
      \/ d' = Enqueue(d, "othersBack", "none", FALSE, {})
  BY DEF Timers, GraceEnds, CloseSettles
<1> QED
  BY <1>1, <1>2

\* The helper's runs end.
LEMMA HelperKeeps ==
  ASSUME Good(d), Helper
  PROVE  Good(d)'
<1>1. d \in Jobs
  BY DEF Good
<1>2. CASE HelperFinishes
  <2>1. PICK n \in DOMAIN d.runs : \E o \in Outcomes(d.runs[n]) : d' = Reported(n, o.verdict)
    BY <1>2 DEF HelperFinishes
  <2>2. d.runs[n] \in Requests
    BY <1>1 DEF Jobs
  <2> QED
    BY <2>1, <2>2, VerdictsAre, ReportedGood
<1>3. CASE HelperFails
  BY <1>3, ReportedGood DEF HelperFails
<1>4. CASE HelperDies
  <2>1. d' \in Jobs
    <3>1. d' = [d EXCEPT !.runs = <<>>]
      BY <1>4 DEF HelperDies
    <3>2. <<>> \in Seq(Requests)
      OBVIOUS
    <3> QED
      BY <1>1, <3>1, <3>2 DEF Jobs
  <2> QED
    BY <1>1, <1>4, <2>1, GoodStill DEF HelperDies, Jobs
<1>5. CASE HelperExits
  <2>1. d' \in Jobs
    BY <1>1, <1>5 DEF HelperExits, Jobs
  <2> QED
    BY <1>1, <1>5, <2>1, GoodStill DEF HelperExits, Jobs
<1> QED
  BY <1>2, <1>3, <1>4, <1>5 DEF Helper

\* The job asks for its run, and hears of it or gives it up.
LEMMA JobKeeps ==
  ASSUME Good(d), Job
  PROVE  Good(d)'
<1>1. d \in Jobs /\ (d.phase # "idle" => d.request \in Requests)
  BY DEF Good, Rests
<1>2. CASE StartTask
  <2>1. <<d.request>> \in Seq(Requests) /\ d.phase = "waiting"
    BY <1>1, <1>2 DEF StartTask
  <2>2. d' = [d EXCEPT !.phase = "running", !.runs = <<d.request>>]
    BY <1>2 DEF StartTask
  <2>3. /\ d' \in Jobs /\ d'.phase = "running" /\ d'.request = d.request /\ d'.queue = d.queue
        /\ d'.callers = d.callers /\ d'.launch = d.launch
    BY <1>1, <2>1, <2>2 DEF Jobs
  <2> QED
    BY <1>1, <2>1, <2>3, GoodAlike
<1>3. CASE StartTaskAnyway
  <2>1. /\ d' \in Jobs /\ d'.phase = "running" /\ d'.request = d.request /\ d'.queue = d.queue
        /\ d'.callers = d.callers /\ d'.launch = d.launch /\ d.phase = "waiting"
    BY <1>1, <1>3 DEF StartTaskAnyway, Jobs
  <2> QED
    BY <1>1, <2>1, GoodAlike
<1>4. CASE PollResult
  <2> DEFINE j == [d EXCEPT !.verdict = "none"]
  <2>1. /\ j \in Jobs /\ j.phase = d.phase /\ j.request = d.request /\ j.queue = d.queue
        /\ j.callers = d.callers /\ j.launch = d.launch
    BY <1>1 DEF Jobs
  <2>2. d' = HandleResult(j, d.verdict)
    BY <1>4 DEF PollResult
  <2> HIDE DEF j
  <2>3. Good(j)
    BY <2>1, GoodStill
  <2> QED
    BY <2>2, <2>3, HandleResultGood
<1>5. CASE DeadlineFires
  BY <1>5, FailGood DEF DeadlineFires
<1> QED
  BY <1>2, <1>3, <1>4, <1>5 DEF Job

-----------------------------------------------------------------------------
(* Every launch that waits is at one place, and nobody waits on a job at   *)
(* rest, whatever was joined, superseded, given up or fell back.           *)
JobInvariant == Good(d)

\* The job's members are of their types, and every launch that waits has its place.
THEOREM JobCorrect == Spec => []JobInvariant
<1>1. Init => JobInvariant
  BY InitGood DEF JobInvariant
<1>2. JobInvariant /\ [Next]_vars => JobInvariant'
  <2>1. ASSUME JobInvariant, Next
        PROVE  JobInvariant'
    BY <2>1, LaunchKeeps, TimerKeeps, HelperKeeps, JobKeeps DEF Next, JobInvariant
  <2>2. ASSUME JobInvariant, UNCHANGED vars
        PROVE  JobInvariant'
    BY <2>2 DEF vars, JobInvariant
  <2> QED
    BY <2>1, <2>2
<1> QED
  BY <1>1, <1>2, PTL DEF Spec

(* Whoever waits for the display waits in one place, behind one operation: *)
(* the queue's joins never lose a launch and never answer one twice        *)
(* (VirtualDisplayJob.cpp, enqueue, settle and startNext).                 *)
THEOREM JobHoldsOnce == Spec => []HeldOnce
<1>1. JobInvariant => HeldOnce
  <2> SUFFICES ASSUME JobInvariant, NEW l \in Launches
               PROVE  IF d.launch[l] \in {"asked", "dropped"}
                      THEN \/ l \in d.callers /\ Running(d) /\ Waiting(l) = {}
                           \/ l \notin d.callers /\ Cardinality(Waiting(l)) = 1
                      ELSE l \notin d.callers /\ Waiting(l) = {}
    BY DEF HeldOnce
  <2>1. /\ Once(d.queue, l)
        /\ Waits(d, l) => (l \in d.callers <=> ~Queued(d.queue, l))
        /\ ~Waits(d, l) => l \notin d.callers /\ ~Queued(d.queue, l)
        /\ d.phase = "idle" => d.callers = {}
    BY DEF JobInvariant, Good, Placed, Rests
  <2>2. Waiting(l) = {} <=> ~Queued(d.queue, l)
    BY DEF Waiting, Queued
  <2>3. ASSUME Queued(d.queue, l)
        PROVE  Cardinality(Waiting(l)) = 1
    <3>1. PICK n \in DOMAIN d.queue : l \in d.queue[n].callers
      BY <2>3 DEF Queued
    <3>2. Waiting(l) = {n}
      BY <2>1, <3>1 DEF Waiting, Once
    <3> QED
      BY <3>2, FS_Singleton
  <2> QED
    BY <2>1, <2>2, <2>3 DEF Waits, Running
<1> QED
  BY <1>1, JobCorrect, PTL

-----------------------------------------------------------------------------
(* The switching off comes last.                                           *)

\* But for x, nobody holds the display, and whoever still asks for it waits behind
\* the n first operations of the queue.
Unheld(j, n, x) ==
  \A l \in Launches \ x :
    /\ j.launch[l] \notin {"clear", "on"}
    /\ j.launch[l] = "asked" => l \notin j.callers /\ \A m \in 1..n : l \notin j.queue[m].callers

\* A switching off, under way or queued, is for a display that nobody holds and
\* that nobody is to be told ready before it, but for x.
OffIsLast(j, x) ==
  /\ j.phase # "idle" /\ j.request.verb = "deactivate" => Unheld(j, 0, x)
  /\ \A n \in DOMAIN j.queue : j.queue[n].verb = "deactivate" => Unheld(j, n, x)

\* Nobody streams the display, or is about to.
LEMMA NobodyHolds ==
  ASSUME NEW j \in Jobs, NEW x, \A l \in Launches \ x : j.launch[l] \notin {"asked", "clear", "on"}
  PROVE  OffIsLast(j, x)
BY DEF OffIsLast, Unheld

\* The same launches wait in the same places, behind the same operations.
LEMMA OffIsLastStill ==
  ASSUME NEW j, NEW k, NEW x, OffIsLast(j, x), k.queue = j.queue, k.callers = j.callers, k.launch = j.launch,
         k.phase # "idle" /\ k.request.verb = "deactivate" =>
           j.phase # "idle" /\ j.request.verb = "deactivate"
  PROVE  OffIsLast(k, x)
BY DEF OffIsLast, Unheld

\* The next operation begins.
LEMMA StartNextLast ==
  ASSUME NEW a \in Jobs, NEW x, OffIsLast(a, x), a.phase = "idle", a.callers = {}
  PROVE  OffIsLast(StartNext(a), x)
<1> DEFINE k == StartNext(a)
           q == a.queue
<1>1. CASE a.queue = <<>>
  BY <1>1 DEF StartNext
<1>2. CASE a.queue # <<>>
  <2>1. /\ k.callers = Head(q).callers /\ k.queue = Tail(q) /\ k.launch = a.launch
    BY <1>2, StartNextMakes
  <2>2. k.request.verb = Head(q).verb
    BY <1>2, StartNextMakes
  <2>3. /\ q \in Seq(Pending) /\ Len(q) \in Nat /\ Len(q) >= 1 /\ DOMAIN q = 1..Len(q)
        /\ Head(q) = q[1] /\ DOMAIN Tail(q) = 1..(Len(q) - 1)
        /\ \A n \in 1..(Len(q) - 1) : Tail(q)[n] = q[n + 1]
    BY <1>2 DEF Jobs
  <2> HIDE DEF k, q
  <2>4. \A n \in DOMAIN q : q[n].verb = "deactivate" => Unheld(a, n, x)
    BY DEF OffIsLast, q
  <2>5. ASSUME Head(q).verb = "deactivate"
        PROVE  Unheld(k, 0, x)
    <3>1. 1 \in DOMAIN q /\ 1 \in 1..1
      BY <2>3
    <3>2. Unheld(a, 1, x)
      BY <2>3, <2>4, <2>5, <3>1
    <3>3. \A l \in Launches \ x : a.launch[l] = "asked" => l \notin q[1].callers
      BY <3>1, <3>2 DEF Unheld, q
    <3> QED
      BY <2>1, <2>3, <3>2, <3>3 DEF Unheld
  <2>6. ASSUME NEW n \in DOMAIN Tail(q), Tail(q)[n].verb = "deactivate"
        PROVE  Unheld(k, n, x)
    <3>1. n + 1 \in DOMAIN q /\ q[n + 1].verb = "deactivate" /\ n \in Nat /\ n \in 1..(Len(q) - 1)
      BY <2>3, <2>6
    <3>2. Unheld(a, n + 1, x)
      BY <2>4, <3>1
    <3>3. ASSUME NEW l \in Launches \ x, a.launch[l] = "asked"
          PROVE  l \notin Head(q).callers /\ \A m \in 1..n : l \notin Tail(q)[m].callers
      <4>1. \A m \in 1..(n + 1) : l \notin q[m].callers
        BY <3>2, <3>3 DEF Unheld, q
      <4>2. 1 \in 1..(n + 1) /\ \A m \in 1..n : m + 1 \in 1..(n + 1) /\ Tail(q)[m] = q[m + 1]
        BY <2>3, <3>1
      <4> QED
        BY <2>3, <4>1, <4>2
    <3> QED
      BY <2>1, <3>2, <3>3 DEF Unheld
  <2>7. OffIsLast(k, x)
    BY <2>1, <2>2, <2>5, <2>6 DEF OffIsLast
  <2> QED
    BY <2>7 DEF k
<1> QED
  BY <1>1, <1>2

\* The end of an operation tells nobody that the display is ready before it is
\* switched off.
LEMMA SettleLast ==
  ASSUME NEW j, NEW x, Good(j), OffIsLast(j, x), NEW ok \in BOOLEAN
  PROVE  OffIsLast(Settle(j, ok), x)
<1> DEFINE a == Answer([j EXCEPT !.phase = "idle"], ok)
<1>1. j \in Jobs
  BY DEF Good
<1>2. /\ a \in Jobs /\ a.phase = "idle" /\ a.callers = {} /\ a.queue = j.queue
      /\ \A l \in Launches \ j.callers : a.launch[l] = j.launch[l]
      /\ \A l \in j.callers : j.launch[l] # "asked" => a.launch[l] = "out"
      /\ \A l \in j.callers : a.launch[l] \in {"clear", "out"}
  BY <1>1, AnswerMakes
<1>3. Settle(j, ok) = StartNext(a)
  BY DEF Settle
<1> HIDE DEF a
<1>4. ASSUME NEW n \in DOMAIN j.queue, j.queue[n].verb = "deactivate"
      PROVE  Unheld(a, n, x)
  <2>1. Unheld(j, n, x)
    BY <1>4 DEF OffIsLast
  <2> SUFFICES ASSUME NEW l \in Launches \ x
               PROVE  /\ a.launch[l] \notin {"clear", "on"}
                      /\ a.launch[l] = "asked" =>
                           l \notin a.callers /\ \A m \in 1..n : l \notin a.queue[m].callers
    BY DEF Unheld
  <2>2. CASE l \in j.callers
    BY <1>2, <2>1, <2>2 DEF Unheld
  <2>3. CASE l \notin j.callers
    BY <1>2, <2>1, <2>3 DEF Unheld
  <2> QED
    BY <2>2, <2>3
<1>5. OffIsLast(a, x)
  BY <1>2, <1>4 DEF OffIsLast
<1> QED
  BY <1>2, <1>3, <1>5, StartNextLast

\* A verdict that reaches the job, or the lack of one.
LEMMA HandleResultLast ==
  ASSUME NEW j, NEW x, Good(j), OffIsLast(j, x), NEW why
  PROVE  OffIsLast(Fail(j, why), x) /\ OffIsLast(HandleResult(j, why), x)
<1>1. ASSUME FallsBack(j, why)
      PROVE  OffIsLast(Fail(j, why), x)
  BY <1>1, FallBackMakes, OffIsLastStill
<1>2. ASSUME ~FallsBack(j, why)
      PROVE  OffIsLast(Fail(j, why), x)
  BY <1>2, SettleLast DEF Fail
<1>3. OffIsLast(Succeed(j), x)
  <2>1. PICK b \in Jobs :
          /\ Succeed(j) = Settle(b, TRUE)
          /\ b.phase = j.phase /\ b.request = j.request /\ b.queue = j.queue
          /\ b.callers = j.callers /\ b.launch = j.launch
    BY ActiveMakes
  <2>2. Good(b) /\ OffIsLast(b, x)
    BY <2>1, GoodStill, OffIsLastStill
  <2> QED
    BY <2>1, <2>2, SettleLast
<1>4. OffIsLast(Fail(j, why), x)
  BY <1>1, <1>2
<1> QED
  BY <1>3, <1>4 DEF HandleResult

\* The launches c, who are not told anything yet, wait behind an operation that
\* keeps the display on.
LEMMA JoinLastLast ==
  ASSUME NEW j, NEW c, NEW x, Missing(j, c), OffIsLast(j, x), j.queue # <<>>,
         Last(j.queue).verb # "deactivate"
  PROVE  OffIsLast(JoinLast(j, c), x)
<1> DEFINE n == Len(j.queue)
           p == [j.queue[n] EXCEPT !.callers = @ \cup c]
           q == [j.queue EXCEPT ![n] = p]
           k == JoinLast(j, c)
<1>1. j \in Jobs /\ j.queue \in Seq(Pending) /\ c \in SUBSET Launches
  BY DEF Missing, Jobs
<1>2. n \in DOMAIN j.queue /\ j.queue[n] \in Pending /\ Last(j.queue) = j.queue[n]
  BY <1>1 DEF Last
<1>3. p.verb = j.queue[n].verb
  BY <1>2 DEF Pending
<1>4. k = [j EXCEPT !.queue = q]
  BY <1>1, <1>2 DEF JoinLast, Jobs
<1> HIDE DEF p
<1>5. /\ DOMAIN q = 1..n /\ DOMAIN j.queue = 1..n /\ n \in Nat /\ q[n] = p
      /\ \A m \in 1..n : m # n => q[m] = j.queue[m]
  BY <1>1, <1>2
<1> HIDE DEF n, q
<1>6. /\ k.queue = q /\ k.phase = j.phase /\ k.request = j.request
      /\ k.callers = j.callers /\ k.launch = j.launch
  BY <1>1, <1>4 DEF Jobs
<1> HIDE DEF k
<1>7. ASSUME NEW m \in DOMAIN q, q[m].verb = "deactivate"
      PROVE  Unheld(k, m, x)
  <2>1. m # n /\ q[m] = j.queue[m] /\ m \in DOMAIN j.queue
    BY <1>2, <1>3, <1>5, <1>7
  <2>2. Unheld(j, m, x)
    BY <1>7, <2>1 DEF OffIsLast
  <2>3. \A i \in 1..m : q[i] = j.queue[i]
    BY <1>5, <2>1
  <2> QED
    BY <1>6, <2>2, <2>3 DEF Unheld
<1>8. k.phase # "idle" /\ k.request.verb = "deactivate" => Unheld(k, 0, x)
  BY <1>6 DEF OffIsLast, Unheld
<1>9. OffIsLast(k, x)
  BY <1>6, <1>7, <1>8 DEF OffIsLast
<1> QED
  BY <1>9 DEF k

\* They wait behind the operation at work, which keeps the display on.
LEMMA JoinCurrentLast ==
  ASSUME NEW j, NEW c, NEW x, Missing(j, c), j.queue = <<>>, j.request.verb # "deactivate"
  PROVE  OffIsLast([j EXCEPT !.callers = @ \cup c], x)
<1> DEFINE k == [j EXCEPT !.callers = @ \cup c]
<1>1. k.queue = <<>> /\ k.request = j.request
  BY DEF Missing, Jobs
<1> HIDE DEF k
<1>2. OffIsLast(k, x)
  BY <1>1 DEF OffIsLast
<1> QED
  BY <1>2 DEF k

\* They wait behind an operation of their own, which keeps the display on.
LEMMA AppendLast ==
  ASSUME NEW j, NEW verb \in Verbs, NEW mode \in Modes \cup {"none"}, NEW exclusive \in BOOLEAN,
         NEW c, NEW x, Missing(j, c), OffIsLast(j, x), verb # "deactivate", NEW k,
         k = [j EXCEPT !.queue = Append(@, [verb |-> verb, mode |-> mode,
                                            exclusive |-> exclusive, callers |-> c])]
  PROVE  /\ k.phase # "idle" => OffIsLast(k, x)
         /\ k.phase = "idle" => OffIsLast(StartNext(k), x)
<1> DEFINE p == [verb |-> verb, mode |-> mode, exclusive |-> exclusive, callers |-> c]
           q == Append(j.queue, p)
<1>1. j \in Jobs /\ j.queue \in Seq(Pending) /\ c \in SUBSET Launches
  BY DEF Missing, Jobs
<1>2. p \in Pending /\ p.verb = verb
  BY <1>1 DEF Pending
<1>3. k = [j EXCEPT !.queue = q]
  BY <1>1 DEF Jobs
<1> HIDE DEF p
<1>4. /\ q \in Seq(Pending) /\ DOMAIN q = 1..(Len(j.queue) + 1) /\ DOMAIN j.queue = 1..Len(j.queue)
      /\ Len(j.queue) \in Nat /\ q[Len(j.queue) + 1] = p
      /\ \A m \in DOMAIN j.queue : q[m] = j.queue[m]
  BY <1>1, <1>2
<1> HIDE DEF q
<1>5. /\ k \in Jobs /\ k.queue = q /\ k.phase = j.phase /\ k.request = j.request
      /\ k.callers = j.callers /\ k.launch = j.launch
  BY <1>1, <1>3, <1>4 DEF Jobs
<1>6. ASSUME NEW m \in DOMAIN q, q[m].verb = "deactivate"
      PROVE  Unheld(k, m, x)
  <2>1. m \in DOMAIN j.queue /\ q[m] = j.queue[m]
    <3>1. m # Len(j.queue) + 1
      BY <1>2, <1>4, <1>6
    <3> QED
      BY <1>4, <3>1
  <2>2. Unheld(j, m, x)
    BY <1>6, <2>1 DEF OffIsLast
  <2>3. \A i \in 1..m : q[i] = j.queue[i]
    BY <1>4, <2>1
  <2> QED
    BY <1>5, <2>2, <2>3 DEF Unheld
<1>7. k.phase # "idle" /\ k.request.verb = "deactivate" => Unheld(k, 0, x)
  BY <1>5 DEF OffIsLast, Unheld
<1>8. OffIsLast(k, x)
  BY <1>5, <1>6, <1>7 DEF OffIsLast
<1>9. ASSUME k.phase = "idle"
      PROVE  OffIsLast(StartNext(k), x)
  <2>1. k.callers = {}
    BY <1>5, <1>9 DEF Missing, Rests
  <2> QED
    BY <1>5, <1>8, <1>9, <2>1, StartNextLast
<1> QED
  BY <1>8, <1>9

\* What keeps the display on comes after every switching off.
LEMMA EnqueueLast ==
  ASSUME NEW j, NEW verb \in Verbs, NEW mode \in Modes \cup {"none"}, NEW exclusive \in BOOLEAN,
         NEW c, NEW x, Missing(j, c), OffIsLast(j, x), verb # "deactivate"
  PROVE  OffIsLast(Enqueue(j, verb, mode, exclusive, c), x)
<1>1. CASE Running(j) /\ j.queue = <<>> /\ j.request.verb = verb /\ AskedMode(j) = mode
  BY <1>1, JoinCurrentLast DEF Enqueue
<1>2. CASE /\ ~(Running(j) /\ j.queue = <<>> /\ j.request.verb = verb /\ AskedMode(j) = mode)
           /\ j.queue # <<>> /\ Same(Last(j.queue), verb, mode)
  BY <1>2, JoinLastLast DEF Enqueue, Same
<1>3. CASE /\ ~(Running(j) /\ j.queue = <<>> /\ j.request.verb = verb /\ AskedMode(j) = mode)
           /\ ~(j.queue # <<>> /\ Same(Last(j.queue), verb, mode))
  <2> DEFINE k == [j EXCEPT !.queue = Append(@, [verb |-> verb, mode |-> mode,
                                                 exclusive |-> exclusive, callers |-> c])]
  <2>1. Enqueue(j, verb, mode, exclusive, c) = IF Running(k) THEN k ELSE StartNext(k)
    BY <1>3 DEF Enqueue
  <2>2. /\ k.phase # "idle" => OffIsLast(k, x)
        /\ k.phase = "idle" => OffIsLast(StartNext(k), x)
    BY AppendLast
  <2> QED
    BY <2>1, <2>2 DEF Running
<1> QED
  BY <1>1, <1>2, <1>3

\* A launch asks: it is behind no switching off yet.
LEMMA AskedLast ==
  ASSUME NEW l \in Launches, NEW x, Good(d), OffIsLast(d, x), d.launch[l] = "out"
  PROVE  OffIsLast([d EXCEPT !.launch[l] = "asked"], x \ {l})
<1> DEFINE j == [d EXCEPT !.launch[l] = "asked"]
<1>1. d \in Jobs /\ Placed(d)
  BY DEF Good
<1>2. /\ j.phase = d.phase /\ j.request = d.request /\ j.queue = d.queue /\ j.callers = d.callers
      /\ j.launch[l] = "asked" /\ \A o \in Launches : o # l => j.launch[o] = d.launch[o]
  BY <1>1 DEF Jobs
<1>3. l \notin d.callers /\ \A m \in DOMAIN d.queue : l \notin d.queue[m].callers
  BY <1>1 DEF Placed, Waits, Queued
<1> HIDE DEF j
<1>4. ASSUME NEW n \in Nat, n <= Len(d.queue), Unheld(d, n, x)
      PROVE  Unheld(j, n, x \ {l})
  <2>1. \A m \in 1..n : m \in DOMAIN d.queue
    BY <1>1, <1>4 DEF Jobs
  <2> QED
    BY <1>2, <1>3, <1>4, <2>1 DEF Unheld
<1>5. DOMAIN d.queue = 1..Len(d.queue) /\ Len(d.queue) \in Nat
  BY <1>1 DEF Jobs
<1>6. OffIsLast(j, x \ {l})
  <2>1. /\ 0 \in Nat /\ 0 <= Len(d.queue)
        /\ \A n \in DOMAIN d.queue : n \in Nat /\ n <= Len(d.queue)
    BY <1>5
  <2>2. \A n \in DOMAIN j.queue : j.queue[n].verb = "deactivate" => Unheld(j, n, x \ {l})
    BY <1>2, <1>4, <2>1 DEF OffIsLast
  <2>3. j.phase # "idle" /\ j.request.verb = "deactivate" => Unheld(j, 0, x \ {l})
    BY <1>2, <1>4, <2>1 DEF OffIsLast
  <2> QED
    BY <2>2, <2>3 DEF OffIsLast
<1> QED
  BY <1>6 DEF j

\* What it asks for, whoever asks.
LEMMA AskingLast ==
  ASSUME NEW l \in Launches, NEW mode \in Modes, NEW x, Good(d), OffIsLast(d, x), d.launch[l] = "out"
  PROVE  OffIsLast(Activate(l, mode), x \ {l}) /\ OffIsLast(ActivateIfOff(l, mode), x \ {l})
<1> DEFINE j == [d EXCEPT !.launch[l] = "asked"]
           k == [d EXCEPT !.launch[l] = "clear"]
<1>1. d \in Jobs
  BY DEF Good
<1>2. Missing(j, {l}) /\ OffIsLast(j, x \ {l}) /\ j.queue = d.queue /\ j.phase = d.phase
      /\ j.request = d.request
  BY <1>1, AskedMisses, AskedLast DEF Jobs
<1>3. ASSUME Quiet
      PROVE  OffIsLast(k, x \ {l})
  <2>1. k.phase = "idle" /\ k.queue = <<>>
    BY <1>1, <1>3 DEF Quiet, Running, Jobs
  <2> HIDE DEF k
  <2> QED
    BY <2>1 DEF OffIsLast
<1>4. OthersGoOff(l) \in BOOLEAN
  BY LaunchesAssumption DEF OthersGoOff
<1>5. OffIsLast(Activate(l, mode), x \ {l})
  <2>1. CASE ReadyIn(mode)
    BY <1>3, <2>1 DEF Activate, ReadyIn
  <2>2. CASE ~ReadyIn(mode)
    <3>1. Activate(l, mode) = Enqueue(j, "activate", mode, OthersGoOff(l), {l})
      BY <2>2 DEF Activate
    <3> HIDE DEF j
    <3> QED
      BY <1>2, <1>4, <3>1, EnqueueLast DEF Verbs
  <2> QED
    BY <2>1, <2>2
<1>6. OffIsLast(ActivateIfOff(l, mode), x \ {l})
  <2>1. CASE d.queue # <<>> /\ KeepsItOn(Last(d.queue).verb)
    <3>1. ActivateIfOff(l, mode) = JoinLast(j, {l})
      BY <2>1 DEF ActivateIfOff, Quiet
    <3> HIDE DEF j
    <3> QED
      BY <1>2, <2>1, <3>1, JoinLastLast DEF KeepsItOn
  <2>2. CASE d.queue = <<>> /\ Running(d) /\ KeepsItOn(d.request.verb)
    <3>1. ActivateIfOff(l, mode) = [j EXCEPT !.callers = @ \cup {l}]
      BY <2>2 DEF ActivateIfOff, Quiet
    <3> HIDE DEF j
    <3> QED
      BY <1>2, <2>2, <3>1, JoinCurrentLast DEF KeepsItOn
  <2>3. CASE Quiet /\ display # "off" /\ OthersDueBack
    <3>1. ActivateIfOff(l, mode) = Enqueue(j, "othersBack", "none", FALSE, {l})
      BY <2>3 DEF ActivateIfOff, Quiet
    <3>2. /\ "othersBack" \in Verbs /\ "othersBack" # "deactivate"
          /\ "none" \in Modes \cup {"none"} /\ FALSE \in BOOLEAN
      BY DEF Verbs
    <3> HIDE DEF j
    <3>3. ASSUME NEW y, y = x \ {l}
          PROVE  OffIsLast(Enqueue(j, "othersBack", "none", FALSE, {l}), y)
      <4>1. OffIsLast(j, y) /\ Missing(j, {l})
        BY <1>2, <3>3
      <4> QED
        BY <3>2, <4>1, EnqueueLast
    <3> QED
      BY <3>1, <3>3
  <2>4. CASE Quiet /\ display # "off" /\ ~OthersDueBack
    BY <1>3, <2>4 DEF ActivateIfOff, Quiet
  <2>5. CASE /\ ~(d.queue # <<>> /\ KeepsItOn(Last(d.queue).verb))
             /\ ~(d.queue = <<>> /\ Running(d) /\ KeepsItOn(d.request.verb))
             /\ ~(Quiet /\ display # "off" /\ OthersDueBack)
             /\ ~(Quiet /\ display # "off" /\ ~OthersDueBack)
    BY <1>5, <2>5 DEF ActivateIfOff
  <2> QED
    BY <2>1, <2>2, <2>3, <2>4, <2>5
<1> QED
  BY <1>5, <1>6

\* Switching off tells no launch anything.
LEMMA DeactivateTells ==
  ASSUME Good(d)
  PROVE  Deactivate.launch = d.launch
<1> DEFINE k == [d EXCEPT !.queue = Append(@, [verb |-> "deactivate", mode |-> "none",
                                               exclusive |-> FALSE, callers |-> {}])]
<1>1. d \in Jobs
  BY DEF Good
<1>2. [d EXCEPT !.callers = @ \cup {}].launch = d.launch /\ JoinLast(d, {}).launch = d.launch
  BY <1>1 DEF Jobs, JoinLast
<1>3. k \in Jobs /\ k.launch = d.launch /\ k.queue # <<>>
  <2> DEFINE p == [verb |-> "deactivate", mode |-> "none", exclusive |-> FALSE, callers |-> {}]
             q == Append(d.queue, p)
  <2>1. q \in Seq(Pending) /\ q # <<>>
    <3>1. p \in Pending
      BY DEF Pending, Verbs
    <3>2. d.queue \in Seq(Pending)
      BY <1>1 DEF Jobs
    <3> HIDE DEF p
    <3> QED
      BY <3>1, <3>2
  <2>2. k = [d EXCEPT !.queue = q]
    BY <1>1 DEF Jobs
  <2> HIDE DEF q
  <2> QED
    BY <1>1, <2>1, <2>2 DEF Jobs
<1>4. StartNext(k).launch = d.launch
  <2> HIDE DEF k
  <2> QED
    BY <1>3, StartNextMakes
<1>5. \/ Deactivate = d
      \/ Deactivate = [d EXCEPT !.callers = @ \cup {}]
      \/ Deactivate = JoinLast(d, {})
      \/ Deactivate = k
      \/ Deactivate = StartNext(k)
  BY DEF Deactivate, Enqueue
<1> HIDE DEF k
<1> QED
  BY <1>2, <1>3, <1>4, <1>5

\* A timer that ends finds nobody on the display, and remembers who is on the way
\* to it, or leaves the display on.
LEMMA TimerLast ==
  ASSUME Good(d), OffIsLast(d, caught), Timers
  PROVE  OffIsLast(d, caught)'
<1>1. ASSUME ~InUse, caught' = UnderWay
      PROVE  OffIsLast(Deactivate, caught') /\ OffIsLast(d, caught')
  <2>1. \A l \in Launches \ caught' : d.launch[l] \notin {"asked", "clear", "on"}
    BY <1>1 DEF UnderWay, InUse, On
  <2>2. Deactivate \in Jobs /\ Deactivate.launch = d.launch /\ d \in Jobs
    BY DeactivateGood, DeactivateTells DEF Good
  <2> HIDE DEF Deactivate
  <2> QED
    BY <2>1, <2>2, NobodyHolds
<1>2. OffIsLast(Enqueue(d, "othersBack", "none", FALSE, {}), caught)
  BY NobodyMisses, EnqueueLast DEF Verbs
<1>3. \/ (d' = d \/ d' = Enqueue(d, "othersBack", "none", FALSE, {})) /\ caught' = caught
      \/ (d' = d \/ d' = Deactivate) /\ ~InUse /\ caught' = UnderWay
  BY DEF Timers, GraceEnds, CloseSettles, StaysOn
<1> QED
  BY <1>1, <1>2, <1>3

\* A launch asks, is superseded, takes the display or leaves it.
LEMMA LaunchLast ==
  ASSUME Good(d), OffIsLast(d, caught), NEW l \in Launches,
         Ask(l) \/ Supersede(l) \/ StartWorker(l) \/ StreamEnds(l)
  PROVE  OffIsLast(d, caught)'
<1>1. CASE Ask(l)
  <2>1. PICK mode \in Modes : d' = IF l \in Owners THEN Activate(l, mode) ELSE ActivateIfOff(l, mode)
    BY <1>1 DEF Ask
  <2>2. d.launch[l] = "out"
    BY <1>1 DEF Ask
  <2>3. /\ OffIsLast(Activate(l, mode), caught \ {l})
        /\ OffIsLast(ActivateIfOff(l, mode), caught \ {l})
    BY <2>2, AskingLast
  <2>4. caught' = caught \ {l}
    BY <1>1 DEF Ask
  <2> QED
    BY <2>1, <2>3, <2>4
<1>2. CASE Supersede(l) \/ StartWorker(l) \/ StreamEnds(l)
  <2>1. d \in Jobs
    BY DEF Good
  <2>2. /\ d'.phase = d.phase /\ d'.request = d.request /\ d'.queue = d.queue
        /\ d'.callers = d.callers /\ \A o \in Launches : o # l => d'.launch[o] = d.launch[o]
        /\ d'.launch[l] # "asked"
        /\ d'.launch[l] \in {"clear", "on"} => d.launch[l] \in {"clear", "on"}
        /\ caught' = caught \/ (caught' = caught \ {l} /\ d'.launch[l] \notin {"clear", "on"})
    <3>1. PICK v \in {"out", "dropped", "on"} :
            /\ d' = [d EXCEPT !.launch[l] = v]
            /\ v = "on" => d.launch[l] = "clear" /\ caught' = caught
            /\ v # "on" => caught' = caught \ {l}
      BY <1>2, <2>1 DEF Supersede, StartWorker, StreamEnds
    <3> QED
      BY <2>1, <3>1 DEF Jobs
  <2>3. \A n : Unheld(d, n, caught) => Unheld(d', n, caught')
    BY <2>2 DEF Unheld
  <2> QED
    BY <2>2, <2>3 DEF OffIsLast
<1> QED
  BY <1>1, <1>2

\* The helper's runs end, and the job hears of them or gives them up.
LEMMA RunLast ==
  ASSUME Good(d), OffIsLast(d, caught), Helper \/ Job
  PROVE  OffIsLast(d, caught)'
<1>1. d \in Jobs
  BY DEF Good
<1>8. caught' = caught
  BY DEF Helper, HelperFinishes, HelperFails, HelperDies, HelperExits,
         Job, StartTask, StartTaskAnyway, PollResult, DeadlineFires
<1> SUFFICES OffIsLast(d', caught)
  BY <1>8
<1>2. ASSUME NEW n \in DOMAIN d.runs, NEW verdict \in {"ok", "notAppeared", "failed"}
      PROVE  OffIsLast(Reported(n, verdict), caught)
  <2> DEFINE runs == RemoveAt(d.runs, n)
             j == [d EXCEPT !.runs = runs]
  <2>1. runs \in Seq(Requests)
    BY <1>1, RunsShorten DEF Jobs
  <2>2. Reported(n, verdict) = IF Method = "task" THEN [j EXCEPT !.verdict = verdict, !.exiting = TRUE]
                               ELSE HandleResult(j, verdict)
    BY DEF Reported
  <2> HIDE DEF runs
  <2>3. /\ j \in Jobs /\ j.phase = d.phase /\ j.request = d.request /\ j.queue = d.queue
        /\ j.callers = d.callers /\ j.launch = d.launch
    BY <1>1, <2>1 DEF Jobs
  <2> HIDE DEF j
  <2>4. Good(j) /\ OffIsLast(j, caught)
    BY <2>3, GoodStill, OffIsLastStill
  <2>5. OffIsLast([j EXCEPT !.verdict = verdict, !.exiting = TRUE], caught)
    <3> DEFINE k == [j EXCEPT !.verdict = verdict, !.exiting = TRUE]
    <3>1. /\ k.phase = j.phase /\ k.request = j.request /\ k.queue = j.queue
          /\ k.callers = j.callers /\ k.launch = j.launch
      BY <2>3 DEF Jobs
    <3> HIDE DEF k
    <3>2. OffIsLast(k, caught)
      BY <2>4, <3>1, OffIsLastStill
    <3> QED
      BY <3>2 DEF k
  <2> QED
    BY <2>2, <2>4, <2>5, HandleResultLast
<1>3. CASE HelperFinishes
  <2>1. PICK n \in DOMAIN d.runs : \E o \in Outcomes(d.runs[n]) : d' = Reported(n, o.verdict)
    BY <1>3 DEF HelperFinishes
  <2>2. d.runs[n] \in Requests
    BY <1>1 DEF Jobs
  <2> QED
    BY <1>2, <2>1, <2>2, VerdictsAre
<1>4. CASE HelperFails
  BY <1>2, <1>4 DEF HelperFails
<1>5. CASE HelperDies \/ HelperExits \/ StartTask \/ StartTaskAnyway
  <2>1. /\ d'.request = d.request /\ d'.queue = d.queue /\ d'.callers = d.callers
        /\ d'.launch = d.launch /\ (d.phase = "idle" => d'.phase = "idle")
    BY <1>1, <1>5 DEF HelperDies, HelperExits, StartTask, StartTaskAnyway, Jobs
  <2>2. OffIsLast(d', caught)
    BY <2>1, OffIsLastStill
  <2> QED
    BY <2>2
<1>6. CASE PollResult
  <2> DEFINE j == [d EXCEPT !.verdict = "none"]
  <2>1. /\ j \in Jobs /\ j.phase = d.phase /\ j.request = d.request /\ j.queue = d.queue
        /\ j.callers = d.callers /\ j.launch = d.launch
    BY <1>1 DEF Jobs
  <2>2. d' = HandleResult(j, d.verdict)
    BY <1>6 DEF PollResult
  <2> HIDE DEF j
  <2>3. Good(j) /\ OffIsLast(j, caught)
    BY <2>1, GoodStill, OffIsLastStill
  <2> QED
    BY <2>2, <2>3, HandleResultLast
<1>7. CASE DeadlineFires
  BY <1>7, HandleResultLast DEF DeadlineFires
<1> QED
  BY <1>3, <1>4, <1>5, <1>6, <1>7 DEF Helper, Job

(* "goes off only once nothing streams it, judged when its grace runs out" *)
(* (main.cpp): no switching off is under way under a stream, nor under a   *)
(* launch told to go ahead, unless that launch was under way already when  *)
(* the delay that decided it found no stream (VirtualDisplayJob.cpp, the   *)
(* timers, enqueue and settle).                                            *)
THEOREM JobSwitchesOffLast == Spec => []OffOnlyUnwatched
<1>1. Init => OffIsLast(d, caught)
  <2>1. ASSUME Init
        PROVE  d.phase = "idle" /\ d.queue = <<>>
    BY <2>1 DEF Init
  <2> QED
    BY <2>1 DEF OffIsLast
<1>2. JobInvariant /\ OffIsLast(d, caught) /\ [Next]_vars => OffIsLast(d, caught)'
  <2>1. ASSUME JobInvariant, OffIsLast(d, caught), Next
        PROVE  OffIsLast(d, caught)'
    BY <2>1, LaunchLast, TimerLast, RunLast DEF Next, JobInvariant
  <2>2. ASSUME OffIsLast(d, caught), UNCHANGED vars
        PROVE  OffIsLast(d, caught)'
    BY <2>2 DEF vars
  <2> QED
    BY <2>1, <2>2
<1>3. OffIsLast(d, caught) => OffOnlyUnwatched
  BY DEF OffIsLast, OffOnlyUnwatched, Unheld, Running, Holding
<1> QED
  BY <1>1, <1>2, <1>3, JobCorrect, PTL DEF Spec

-----------------------------------------------------------------------------
(* Ready means on.                                                         *)

\* A job follows its runs, as long as none was given up at work: the run under way
\* is of its request, and there is no other.
Follows(j) ==
  IF Method = "task"
  THEN /\ j.phase # "running" => j.runs = <<>>
       /\ j.phase = "waiting" => j.verdict = "none"
       /\ j.phase = "running" => j.runs = <<>> \/ (j.runs = <<j.request>> /\ j.verdict = "none")
  ELSE /\ j.phase # "waiting"
       /\ j.runs = IF j.phase = "running" THEN <<j.request>> ELSE <<>>

\* So it does when it is at rest or has just asked for a run.
JustAsked(j) == Follows(j) /\ (Method = "task" => j.phase # "running")

\* The run that said "ok" left the display on until the job reads it.
ShownOnceOk(j, shown) ==
  Method = "task" /\ j.phase = "running" /\ j.verdict = "ok" /\ j.request.verb = "activate" =>
    shown # "off"

\* Nobody waits for a switching off.
NobodyWaitsForOff(j) ==
  /\ j.phase # "idle" /\ j.request.verb = "deactivate" => j.callers = {}
  /\ \A n \in DOMAIN j.queue : j.queue[n].verb = "deactivate" => j.queue[n].callers = {}

ReadyInvariant ==
  /\ NobodyWaitsForOff(d)
  /\ late = FALSE => Follows(d) /\ ShownOnceOk(d, display)

SameRun(j, k) ==
  k.phase = j.phase /\ k.request = j.request /\ k.runs = j.runs /\ k.verdict = j.verdict

\* A request that is dispatched has the only run, or waits for one.
LEMMA DispatchFollows ==
  ASSUME NEW j \in Jobs, j.request \in Requests, j.runs = <<>>, NEW k, k = Dispatch(j)
  PROVE  JustAsked(k)
<1>1. CASE Method = "task"
  <2>1. k.phase = "waiting" /\ k.verdict = "none" /\ k.runs = <<>>
    BY <1>1 DEF Jobs, Dispatch
  <2> QED
    BY <1>1, <2>1 DEF JustAsked, Follows
<1>2. CASE Method # "task"
  <2>1. Append(j.runs, j.request) = <<j.request>>
    OBVIOUS
  <2>2. k = [j EXCEPT !.phase = "running", !.runs = Append(j.runs, j.request)]
    BY <1>2 DEF Dispatch, Jobs
  <2>3. k.phase = "running" /\ k.runs = <<j.request>> /\ k.request = j.request
    BY <2>1, <2>2 DEF Jobs
  <2> QED
    BY <1>2, <2>3 DEF JustAsked, Follows
<1> QED
  BY <1>1, <1>2

\* So has the next of the queue, asked for when the last run is over.
LEMMA StartNextFollows ==
  ASSUME NEW j \in Jobs, j.phase = "idle", j.runs = <<>>
  PROVE  JustAsked(StartNext(j))
<1> DEFINE p == Head(j.queue)
           b == [j EXCEPT !.queue = Tail(j.queue), !.request = RequestOf(p),
                          !.callers = p.callers, !.asked = "none"]
           k == StartNext(j)
<1>1. CASE j.queue = <<>>
  BY <1>1 DEF StartNext, JustAsked, Follows
<1>2. CASE j.queue # <<>>
  <2>1. p \in Pending /\ Tail(j.queue) \in Seq(Pending)
    BY <1>2 DEF Jobs
  <2>2. RequestOf(p) \in Requests /\ p.callers \in SUBSET Launches
    BY <2>1 DEF RequestOf, Pending, Requests
  <2>3. k = Dispatch(b)
    BY <1>2 DEF StartNext, Jobs
  <2>4. b \in Jobs /\ b.request = RequestOf(p) /\ b.runs = <<>>
    <3> HIDE DEF p
    <3> QED
      BY <2>1, <2>2 DEF Jobs
  <2> HIDE DEF b, k
  <2>5. JustAsked(k)
    BY <2>2, <2>3, <2>4, DispatchFollows
  <2> QED
    BY <2>5 DEF k
<1> QED
  BY <1>1, <1>2

\* So has the one asked for once the last was answered.
LEMMA SettleFollows ==
  ASSUME NEW j \in Jobs, j.runs = <<>>, NEW ok \in BOOLEAN
  PROVE  JustAsked(Settle(j, ok))
<1> DEFINE a == Answer([j EXCEPT !.phase = "idle"], ok)
<1>1. a \in Jobs /\ a.phase = "idle" /\ a.runs = j.runs
  BY AnswerMakes
<1>2. Settle(j, ok) = StartNext(a)
  BY DEF Settle
<1> HIDE DEF a
<1> QED
  BY <1>1, <1>2, StartNextFollows

\* A verdict that ends the one run, or a run that ended without one.
LEMMA HandleResultFollows ==
  ASSUME NEW j, Good(j), j.runs = <<>>, NEW why
  PROVE  JustAsked(Fail(j, why)) /\ JustAsked(HandleResult(j, why))
<1>1. j \in Jobs
  BY DEF Good
<1>2. ASSUME FallsBack(j, why)
      PROVE  JustAsked(Fail(j, why))
  <2> DEFINE b == [j EXCEPT !.asked = AskedMode(j), !.request.mode = "default"]
             k == Fail(j, why)
  <2>1. j.request \in Requests
    BY <1>1, <1>2 DEF Jobs, FallsBack, NoRequest
  <2>2. AskedMode(j) \in Modes \cup {"none"}
    BY <1>1, <2>1 DEF AskedMode, Jobs, Requests
  <2>3. [j.request EXCEPT !.mode = "default"] \in Requests
    BY <2>1, LaunchesAssumption DEF Requests
  <2>4. b = [j EXCEPT !.asked = AskedMode(j), !.request = [j.request EXCEPT !.mode = "default"]]
    BY <1>1 DEF Jobs
  <2>5. b \in Jobs /\ b.request \in Requests /\ b.runs = <<>>
    BY <1>1, <2>2, <2>3, <2>4 DEF Jobs
  <2>6. k = Dispatch(b)
    BY <1>2 DEF Fail
  <2> HIDE DEF b, k
  <2>7. JustAsked(k)
    BY <2>5, <2>6, DispatchFollows
  <2> QED
    BY <2>7 DEF k
<1>3. ASSUME ~FallsBack(j, why)
      PROVE  JustAsked(Fail(j, why))
  BY <1>1, <1>3, SettleFollows DEF Fail
<1>4. JustAsked(Succeed(j))
  <2>1. PICK b \in Jobs : Succeed(j) = Settle(b, TRUE) /\ b.runs = j.runs
    BY ActiveMakes
  <2> QED
    BY <2>1, SettleFollows
<1>5. JustAsked(Fail(j, why))
  BY <1>2, <1>3
<1> QED
  BY <1>4, <1>5 DEF HandleResult

\* Who is told to go ahead when an operation is over: whoever waited behind it, if it
\* went well or was the return of the other displays.
LEMMA HandleResultTells ==
  ASSUME NEW j, Good(j), NEW why, NEW l \in Launches, j.launch[l] \notin {"clear", "on"}
  PROVE  /\ Fail(j, why).launch[l] \in {"clear", "on"} => j.request.verb = "othersBack"
         /\ HandleResult(j, why).launch[l] \in {"clear", "on"} =>
              l \in j.callers /\ (why = "ok" \/ j.request.verb = "othersBack")
<1>1. j \in Jobs
  BY DEF Good
<1>2. ASSUME NEW b \in Jobs, b.callers = j.callers, b.launch = j.launch, NEW ok \in BOOLEAN,
             Settle(b, ok).launch[l] \in {"clear", "on"}
      PROVE  ok /\ l \in j.callers
  <2> DEFINE a == Answer([b EXCEPT !.phase = "idle"], ok)
  <2>1. a \in Jobs /\ a.launch = Told(b, ok)
    <3>1. a.launch = Told(b, ok)
      BY <1>2 DEF Answer, Told, Jobs
    <3> QED
      BY <3>1, AnswerMakes
  <2>2. Settle(b, ok) = StartNext(a)
    BY DEF Settle
  <2> HIDE DEF a
  <2>3. StartNext(a).launch = a.launch
    <3>1. CASE a.queue = <<>>
      BY <3>1 DEF StartNext
    <3>2. CASE a.queue # <<>>
      BY <2>1, <3>2, StartNextMakes
    <3> QED
      BY <3>1, <3>2
  <2> QED
    BY <1>2, <2>1, <2>2, <2>3 DEF Told
<1>3. Fail(j, why).launch[l] \in {"clear", "on"} =>
        l \in j.callers /\ j.request.verb = "othersBack"
  <2>1. CASE FallsBack(j, why)
    <3>1. Fail(j, why).launch = j.launch
      BY <2>1, FallBackMakes
    <3> QED
      BY <3>1
  <2>2. CASE ~FallsBack(j, why)
    BY <1>1, <1>2, <2>2 DEF Fail
  <2> QED
    BY <2>1, <2>2
<1>4. Succeed(j).launch[l] \in {"clear", "on"} => l \in j.callers
  <2>1. PICK b \in Jobs :
          /\ Succeed(j) = Settle(b, TRUE)
          /\ b.callers = j.callers /\ b.launch = j.launch
    BY ActiveMakes
  <2> QED
    BY <1>2, <2>1
<1> QED
  BY <1>3, <1>4 DEF HandleResult

\* Asking for an operation tells nobody anything, and leaves the run as it is or asks
\* for the first.
LEMMA EnqueueMakes ==
  ASSUME NEW j, NEW verb \in Verbs, NEW mode \in Modes \cup {"none"}, NEW exclusive \in BOOLEAN,
         NEW c \in SUBSET Launches, j \in Jobs, NEW k, k = Enqueue(j, verb, mode, exclusive, c)
  PROVE  /\ k.launch = j.launch
         /\ SameRun(j, k) \/ (j.phase = "idle" /\ (j.runs = <<>> => JustAsked(k)))
<1> DEFINE p == [verb |-> verb, mode |-> mode, exclusive |-> exclusive, callers |-> c]
           q == Append(j.queue, p)
           b == [j EXCEPT !.queue = q]
<1>1. [j EXCEPT !.callers = @ \cup c].launch = j.launch /\ SameRun(j, [j EXCEPT !.callers = @ \cup c])
  BY DEF Jobs, SameRun
<1>2. JoinLast(j, c).launch = j.launch /\ SameRun(j, JoinLast(j, c))
  BY DEF Jobs, JoinLast, SameRun
<1>3. q \in Seq(Pending) /\ q # <<>>
  <2>1. p \in Pending
    BY DEF Pending
  <2>2. j.queue \in Seq(Pending)
    BY DEF Jobs
  <2> HIDE DEF p
  <2>3. q \in Seq(Pending)
    BY <2>1, <2>2
  <2>4. Len(q) = Len(j.queue) + 1 /\ Len(j.queue) \in Nat
    BY <2>2
  <2> QED
    BY <2>3, <2>4
<1>4. [j EXCEPT !.queue = Append(@, p)] = b
  BY DEF Jobs
<1>5. \/ k = [j EXCEPT !.callers = @ \cup c]
      \/ k = JoinLast(j, c)
      \/ k = IF Running(b) THEN b ELSE StartNext(b)
  BY <1>4 DEF Enqueue
<1> HIDE DEF p, q
<1>6. b \in Jobs /\ b.launch = j.launch /\ SameRun(j, b) /\ b.queue # <<>>
  BY <1>3 DEF Jobs, SameRun
<1> HIDE DEF b
<1>7. CASE k = b
  BY <1>6, <1>7
<1>8. CASE k = StartNext(b) /\ ~Running(b)
  <2>1. k.launch = j.launch
    BY <1>6, <1>8, StartNextMakes
  <2>2. j.phase = "idle" /\ b.phase = "idle" /\ b.runs = j.runs
    BY <1>6, <1>8 DEF Running, SameRun
  <2> QED
    BY <1>6, <1>8, <2>1, <2>2, StartNextFollows
<1> QED
  BY <1>1, <1>2, <1>5, <1>7, <1>8

\* What follows lets nobody wait for a switching off.
LEMMA StartNextOff ==
  ASSUME NEW a \in Jobs, a.phase = "idle", NobodyWaitsForOff(a)
  PROVE  NobodyWaitsForOff(StartNext(a))
<1> DEFINE k == StartNext(a)
           q == a.queue
<1>1. CASE a.queue = <<>>
  BY <1>1 DEF StartNext
<1>2. CASE a.queue # <<>>
  <2>1. k.callers = Head(q).callers /\ k.queue = Tail(q)
    BY <1>2, StartNextMakes
  <2>2. k.request.verb = Head(q).verb
    BY <1>2, StartNextMakes
  <2>3. /\ 1 \in DOMAIN q /\ Head(q) = q[1] /\ DOMAIN Tail(q) = 1..(Len(q) - 1)
        /\ \A n \in 1..(Len(q) - 1) : Tail(q)[n] = q[n + 1] /\ n + 1 \in DOMAIN q
    BY <1>2 DEF Jobs
  <2> HIDE DEF k
  <2>4. NobodyWaitsForOff(k)
    BY <2>1, <2>2, <2>3 DEF NobodyWaitsForOff
  <2> QED
    BY <2>4 DEF k
<1> QED
  BY <1>1, <1>2

\* A verdict leads to no launch waiting for a switching off.
LEMMA HandleResultOff ==
  ASSUME NEW j, Good(j), NobodyWaitsForOff(j), NEW why
  PROVE  NobodyWaitsForOff(Fail(j, why)) /\ NobodyWaitsForOff(HandleResult(j, why))
<1>1. j \in Jobs
  BY DEF Good
<1>2. ASSUME NEW b \in Jobs, b.queue = j.queue, NEW ok \in BOOLEAN
      PROVE  NobodyWaitsForOff(Settle(b, ok))
  <2> DEFINE a == Answer([b EXCEPT !.phase = "idle"], ok)
  <2>1. a \in Jobs /\ a.phase = "idle" /\ a.queue = b.queue
    BY AnswerMakes
  <2>2. Settle(b, ok) = StartNext(a)
    BY DEF Settle
  <2> HIDE DEF a
  <2>3. NobodyWaitsForOff(a)
    BY <1>2, <2>1 DEF NobodyWaitsForOff
  <2> QED
    BY <2>1, <2>2, <2>3, StartNextOff
<1>3. NobodyWaitsForOff(Fail(j, why))
  <2>1. CASE FallsBack(j, why)
    <3>1. /\ Fail(j, why).request.verb = "activate" /\ Fail(j, why).queue = j.queue
      BY <2>1, FallBackMakes
    <3> QED
      BY <3>1 DEF NobodyWaitsForOff
  <2>2. CASE ~FallsBack(j, why)
    BY <1>1, <1>2, <2>2 DEF Fail
  <2> QED
    BY <2>1, <2>2
<1>4. NobodyWaitsForOff(Succeed(j))
  <2>1. PICK b \in Jobs : Succeed(j) = Settle(b, TRUE) /\ b.queue = j.queue
    BY ActiveMakes
  <2> QED
    BY <1>2, <2>1
<1> QED
  BY <1>3, <1>4 DEF HandleResult

\* Nor does joining the last of the queue, which is no switching off.
LEMMA JoinLastOff ==
  ASSUME NEW j \in Jobs, NEW c \in SUBSET Launches, j.queue # <<>>, NobodyWaitsForOff(j),
         c = {} \/ Last(j.queue).verb # "deactivate"
  PROVE  NobodyWaitsForOff(JoinLast(j, c))
<1> DEFINE n == Len(j.queue)
           p == [j.queue[n] EXCEPT !.callers = @ \cup c]
           q == [j.queue EXCEPT ![n] = p]
           k == JoinLast(j, c)
<1>1. j.queue \in Seq(Pending)
  BY DEF Jobs
<1>2. n \in DOMAIN j.queue /\ j.queue[n] \in Pending /\ Last(j.queue) = j.queue[n]
  BY <1>1 DEF Last
<1>3. p.verb = j.queue[n].verb /\ p.callers = j.queue[n].callers \cup c
  BY <1>2 DEF Pending
<1>4. k = [j EXCEPT !.queue = q]
  BY <1>1, <1>2 DEF JoinLast, Jobs
<1> HIDE DEF p
<1>5. /\ DOMAIN q = DOMAIN j.queue /\ q[n] = p
      /\ \A m \in DOMAIN q : m # n => q[m] = j.queue[m]
  BY <1>1, <1>2
<1> HIDE DEF n, q
<1>6. k.queue = q /\ k.phase = j.phase /\ k.request = j.request /\ k.callers = j.callers
  BY <1>1, <1>4 DEF Jobs
<1> HIDE DEF k
<1>7. \A m \in DOMAIN q : q[m].verb = "deactivate" => q[m].callers = {}
  BY <1>2, <1>3, <1>5 DEF NobodyWaitsForOff
<1>8. NobodyWaitsForOff(k)
  BY <1>6, <1>7 DEF NobodyWaitsForOff
<1> QED
  BY <1>8 DEF k

\* Nor does joining the one under way, which is none either.
LEMMA JoinCurrentOff ==
  ASSUME NEW j \in Jobs, NEW c \in SUBSET Launches, NobodyWaitsForOff(j),
         c = {} \/ j.request.verb # "deactivate"
  PROVE  NobodyWaitsForOff([j EXCEPT !.callers = @ \cup c])
<1> DEFINE k == [j EXCEPT !.callers = @ \cup c]
<1>1. /\ k.queue = j.queue /\ k.phase = j.phase /\ k.request = j.request
      /\ k.callers = j.callers \cup c
  BY DEF Jobs
<1> HIDE DEF k
<1>2. NobodyWaitsForOff(k)
  BY <1>1 DEF NobodyWaitsForOff
<1> QED
  BY <1>2 DEF k

\* Nor does queueing: a launch waits for what it asked, which is no switching off.
LEMMA EnqueueOff ==
  ASSUME NEW j \in Jobs, NEW verb \in Verbs, NEW mode \in Modes \cup {"none"},
         NEW exclusive \in BOOLEAN, NEW c \in SUBSET Launches, NobodyWaitsForOff(j),
         c = {} \/ verb # "deactivate"
  PROVE  NobodyWaitsForOff(Enqueue(j, verb, mode, exclusive, c))
<1> DEFINE p == [verb |-> verb, mode |-> mode, exclusive |-> exclusive, callers |-> c]
           q == Append(j.queue, p)
           b == [j EXCEPT !.queue = q]
<1>1. CASE Running(j) /\ j.queue = <<>> /\ j.request.verb = verb /\ AskedMode(j) = mode
  BY <1>1, JoinCurrentOff DEF Enqueue
<1>2. CASE /\ ~(Running(j) /\ j.queue = <<>> /\ j.request.verb = verb /\ AskedMode(j) = mode)
           /\ j.queue # <<>> /\ Same(Last(j.queue), verb, mode)
  BY <1>2, JoinLastOff DEF Enqueue, Same
<1>3. CASE /\ ~(Running(j) /\ j.queue = <<>> /\ j.request.verb = verb /\ AskedMode(j) = mode)
           /\ ~(j.queue # <<>> /\ Same(Last(j.queue), verb, mode))
  <2>1. [j EXCEPT !.queue = Append(@, p)] = b
    BY DEF Jobs
  <2>2. Enqueue(j, verb, mode, exclusive, c) = IF Running(b) THEN b ELSE StartNext(b)
    BY <1>3, <2>1 DEF Enqueue
  <2>3. j.queue \in Seq(Pending) /\ p \in Pending /\ p.verb = verb /\ p.callers = c
    BY DEF Jobs, Pending
  <2> HIDE DEF p
  <2>4. /\ q \in Seq(Pending) /\ q[Len(j.queue) + 1] = p
        /\ \A m \in DOMAIN q : m = Len(j.queue) + 1 \/ (m \in DOMAIN j.queue /\ q[m] = j.queue[m])
    BY <2>3
  <2> HIDE DEF q
  <2>5. /\ b \in Jobs /\ b.queue = q /\ b.phase = j.phase /\ b.request = j.request
        /\ b.callers = j.callers
    BY <2>4 DEF Jobs
  <2> HIDE DEF b
  <2>6. NobodyWaitsForOff(b)
    BY <2>3, <2>4, <2>5 DEF NobodyWaitsForOff
  <2> QED
    BY <2>2, <2>5, <2>6, StartNextOff DEF Running
<1> QED
  BY <1>1, <1>2, <1>3

\* What becomes of the job when it is asked for something.
AskedWell(k) ==
  /\ NobodyWaitsForOff(k)
  /\ SameRun(d, k) \/ (d.phase = "idle" /\ (d.runs = <<>> => JustAsked(k)))
  /\ \A l \in Launches : ~Holding(l) /\ k.launch[l] \in {"clear", "on"} => display # "off"

\* Whoever is told at once finds the display on; whoever waits does so behind an
\* operation that keeps it on.
LEMMA AskingReady ==
  ASSUME NEW l \in Launches, NEW mode \in Modes, Good(d), NobodyWaitsForOff(d), d.launch[l] = "out"
  PROVE  AskedWell(Activate(l, mode)) /\ AskedWell(ActivateIfOff(l, mode))
<1> DEFINE j == [d EXCEPT !.launch[l] = "asked"]
           k == [d EXCEPT !.launch[l] = "clear"]
<1>1. d \in Jobs
  BY DEF Good
<1>2. /\ j \in Jobs /\ j.queue = d.queue /\ j.phase = d.phase /\ j.request = d.request
      /\ j.callers = d.callers /\ SameRun(d, j) /\ j.runs = d.runs
      /\ j.launch[l] = "asked" /\ \A o \in Launches : o # l => j.launch[o] = d.launch[o]
  BY <1>1 DEF Jobs, SameRun
<1>3. ASSUME display # "off"
      PROVE  AskedWell(k)
  <2>1. /\ k.queue = d.queue /\ k.phase = d.phase /\ k.request = d.request
        /\ k.callers = d.callers /\ SameRun(d, k)
    BY <1>1 DEF Jobs, SameRun
  <2> HIDE DEF k
  <2> QED
    BY <1>3, <2>1 DEF AskedWell, NobodyWaitsForOff
<1> HIDE DEF j
<1>4. NobodyWaitsForOff(j)
  BY <1>2 DEF NobodyWaitsForOff
<1>5. ASSUME NEW a, a.launch = j.launch, NobodyWaitsForOff(a),
             SameRun(j, a) \/ (j.phase = "idle" /\ (j.runs = <<>> => JustAsked(a)))
      PROVE  AskedWell(a)
  <2>1. SameRun(j, a) => SameRun(d, a)
    BY <1>2 DEF SameRun
  <2>2. \A o \in Launches : ~Holding(o) => a.launch[o] \notin {"clear", "on"}
    BY <1>2, <1>5 DEF Holding
  <2> QED
    BY <1>2, <1>5, <2>1, <2>2 DEF AskedWell
<1>6. ASSUME NEW verb \in Verbs, verb # "deactivate", NEW m \in Modes \cup {"none"},
             NEW exclusive \in BOOLEAN
      PROVE  AskedWell(Enqueue(j, verb, m, exclusive, {l}))
  <2> DEFINE a == Enqueue(j, verb, m, exclusive, {l})
  <2>1. /\ a.launch = j.launch
        /\ SameRun(j, a) \/ (j.phase = "idle" /\ (j.runs = <<>> => JustAsked(a)))
    BY <1>2, EnqueueMakes
  <2>2. NobodyWaitsForOff(a)
    BY <1>2, <1>4, <1>6, EnqueueOff
  <2> HIDE DEF a
  <2>3. AskedWell(a)
    BY <1>5, <2>1, <2>2
  <2> QED
    BY <2>3 DEF a
<1>7. AskedWell(Activate(l, mode))
  <2>1. CASE ReadyIn(mode)
    BY <1>3, <2>1 DEF Activate, ReadyIn
  <2>2. CASE ~ReadyIn(mode)
    <3>1. Activate(l, mode) = Enqueue(j, "activate", mode, OthersGoOff(l), {l})
      BY <2>2 DEF Activate, j
    <3>2. OthersGoOff(l) \in BOOLEAN
      BY LaunchesAssumption DEF OthersGoOff
    <3> QED
      BY <1>6, <3>1, <3>2 DEF Verbs
  <2> QED
    BY <2>1, <2>2
<1>8. AskedWell(ActivateIfOff(l, mode))
  <2>1. CASE d.queue # <<>> /\ KeepsItOn(Last(d.queue).verb)
    <3>1. ActivateIfOff(l, mode) = JoinLast(j, {l})
      BY <2>1 DEF ActivateIfOff, Quiet, j
    <3>2. NobodyWaitsForOff(JoinLast(j, {l}))
      BY <1>2, <1>4, <2>1, JoinLastOff DEF KeepsItOn
    <3>3. JoinLast(j, {l}).launch = j.launch /\ SameRun(j, JoinLast(j, {l}))
      BY <1>2 DEF Jobs, JoinLast, SameRun
    <3> QED
      BY <1>5, <3>1, <3>2, <3>3
  <2>2. CASE d.queue = <<>> /\ Running(d) /\ KeepsItOn(d.request.verb)
    <3> DEFINE a == [j EXCEPT !.callers = @ \cup {l}]
    <3>1. ActivateIfOff(l, mode) = a
      BY <2>2 DEF ActivateIfOff, Quiet, j
    <3>2. NobodyWaitsForOff(a)
      BY <1>2, <1>4, <2>2, JoinCurrentOff DEF KeepsItOn
    <3>3. a.launch = j.launch /\ SameRun(j, a)
      BY <1>2 DEF Jobs, SameRun
    <3> HIDE DEF a
    <3> QED
      BY <1>5, <3>1, <3>2, <3>3
  <2>3. CASE Quiet /\ display # "off" /\ OthersDueBack
    <3>1. ActivateIfOff(l, mode) = Enqueue(j, "othersBack", "none", FALSE, {l})
      BY <2>3 DEF ActivateIfOff, Quiet, j
    <3> QED
      BY <1>6, <3>1 DEF Verbs
  <2>4. CASE Quiet /\ display # "off" /\ ~OthersDueBack
    BY <1>3, <2>4 DEF ActivateIfOff, Quiet
  <2>5. CASE /\ ~(d.queue # <<>> /\ KeepsItOn(Last(d.queue).verb))
             /\ ~(d.queue = <<>> /\ Running(d) /\ KeepsItOn(d.request.verb))
             /\ ~(Quiet /\ display # "off" /\ OthersDueBack)
             /\ ~(Quiet /\ display # "off" /\ ~OthersDueBack)
    BY <1>7, <2>5 DEF ActivateIfOff
  <2> QED
    BY <2>1, <2>2, <2>3, <2>4, <2>5
<1> QED
  BY <1>7, <1>8

\* A launch that a step tells to go ahead finds the display on.
ToldWhenOn ==
  \A l \in Launches : ~Holding(l) /\ Holding(l)' =>
    display' # "off" \/ late \/ d.request.verb = "othersBack"

\* The steps of the launches and the timers only ask the job, or tell it nothing.
LEMMA AskReady ==
  ASSUME ReadyInvariant, AskedWell(d'), display' = display, late' = late
  PROVE  ReadyInvariant' /\ ToldWhenOn
<1>1. ASSUME late' = FALSE
      PROVE  Follows(d') /\ ShownOnceOk(d', display')
  <2>1. Follows(d) /\ ShownOnceOk(d, display)
    BY <1>1 DEF ReadyInvariant
  <2>2. CASE SameRun(d, d')
    BY <2>1, <2>2 DEF SameRun, Follows, ShownOnceOk
  <2>3. CASE d.phase = "idle" /\ (d.runs = <<>> => JustAsked(d'))
    <3>1. d.runs = <<>>
      BY <2>1, <2>3 DEF Follows
    <3> QED
      BY <2>3, <3>1 DEF JustAsked, ShownOnceOk
  <2> QED
    BY <2>2, <2>3 DEF AskedWell
<1>2. ToldWhenOn
  BY DEF AskedWell, ToldWhenOn, Holding
<1> QED
  BY <1>1, <1>2 DEF ReadyInvariant, AskedWell

\* A launch that asks, is superseded, starts or ends.
LEMMA LaunchReady ==
  ASSUME Good(d), ReadyInvariant, NEW l \in Launches,
         Ask(l) \/ Supersede(l) \/ StartWorker(l) \/ StreamEnds(l)
  PROVE  ReadyInvariant' /\ ToldWhenOn
<1>1. d \in Jobs /\ NobodyWaitsForOff(d)
  BY DEF Good, ReadyInvariant
<1>2. display' = display /\ late' = late
  BY DEF Ask, Supersede, StartWorker, StreamEnds
<1>3. CASE Ask(l)
  <2>1. PICK mode \in Modes : d' = IF l \in Owners THEN Activate(l, mode) ELSE ActivateIfOff(l, mode)
    BY <1>3 DEF Ask
  <2>2. AskedWell(Activate(l, mode)) /\ AskedWell(ActivateIfOff(l, mode))
    BY <1>1, <1>3, AskingReady DEF Ask
  <2> QED
    BY <1>2, <2>1, <2>2, AskReady
<1>4. CASE Supersede(l) \/ StartWorker(l) \/ StreamEnds(l)
  <2>1. PICK v \in {"out", "dropped", "on"} :
          d' = [d EXCEPT !.launch[l] = v] /\ (v = "on" => d.launch[l] = "clear")
    BY <1>1, <1>4 DEF Supersede, StartWorker, StreamEnds
  <2>2. /\ d'.phase = d.phase /\ d'.request = d.request /\ d'.queue = d.queue
        /\ d'.callers = d.callers /\ SameRun(d, d')
        /\ d'.launch[l] = v /\ \A o \in Launches : o # l => d'.launch[o] = d.launch[o]
    BY <1>1, <2>1 DEF Jobs, SameRun
  <2>3. \A o \in Launches : ~Holding(o) => d'.launch[o] \notin {"clear", "on"}
    BY <2>1, <2>2 DEF Holding
  <2>4. AskedWell(d')
    BY <1>1, <2>2, <2>3 DEF AskedWell, NobodyWaitsForOff
  <2> QED
    BY <1>2, <2>4, AskReady
<1> QED
  BY <1>3, <1>4

\* A timer asks for operations that nobody waits for, and tells nobody.
LEMMA TimerReady ==
  ASSUME Good(d), ReadyInvariant, Timers
  PROVE  ReadyInvariant' /\ ToldWhenOn
<1>1. d \in Jobs /\ NobodyWaitsForOff(d)
  BY DEF Good, ReadyInvariant
<1>2. display' = display /\ late' = late
  BY DEF Timers, GraceEnds, CloseSettles
<1>3. AskedWell(d)
  BY <1>1 DEF AskedWell, SameRun, Holding
<1>4. ASSUME NEW verb \in {"othersBack", "deactivate"}
      PROVE  AskedWell(Enqueue(d, verb, "none", FALSE, {}))
  <2> DEFINE a == Enqueue(d, verb, "none", FALSE, {})
  <2>1. /\ a.launch = d.launch
        /\ SameRun(d, a) \/ (d.phase = "idle" /\ (d.runs = <<>> => JustAsked(a)))
    BY <1>1, EnqueueMakes DEF Verbs
  <2>2. NobodyWaitsForOff(a)
    BY <1>1, EnqueueOff DEF Verbs
  <2> HIDE DEF a
  <2>3. AskedWell(a)
    BY <2>1, <2>2 DEF AskedWell, Holding
  <2> QED
    BY <2>3 DEF a
<1>5. \/ d' = d
      \/ d' = Deactivate
      \/ d' = Enqueue(d, "othersBack", "none", FALSE, {})
  BY DEF Timers, GraceEnds, CloseSettles
<1>6. AskedWell(Deactivate)
  BY <1>3, <1>4 DEF Deactivate
<1> QED
  BY <1>2, <1>3, <1>4, <1>5, <1>6, AskReady

\* The runs without the only one.
LEMMA OnlyRunEnds ==
  ASSUME NEW q, NEW n \in DOMAIN <<q>>
  PROVE  RemoveAt(<<q>>, n) = <<>> /\ <<q>>[n] = q
<1>1. n = 1 /\ Len(<<q>>) = 1 /\ <<q>>[n] = q
  OBVIOUS
<1>2. SubSeq(<<q>>, 1, 0) = <<>> /\ SubSeq(<<q>>, 2, 1) = <<>>
  OBVIOUS
<1> QED
  BY <1>1, <1>2 DEF RemoveAt

\* A run ends: where the job hears of it at once, whoever is told has the display.
LEMMA ReportedReady ==
  ASSUME Good(d), ReadyInvariant, NEW n \in DOMAIN d.runs,
         NEW verdict \in {"ok", "notAppeared", "failed"}, d' = Reported(n, verdict), late' = late,
         verdict = "ok" /\ d.runs[n].verb = "activate" => display' # "off"
  PROVE  ReadyInvariant' /\ ToldWhenOn
<1> DEFINE runs == RemoveAt(d.runs, n)
           j == [d EXCEPT !.runs = runs]
           k == [j EXCEPT !.verdict = verdict, !.exiting = TRUE]
<1>1. d \in Jobs
  BY DEF Good
<1>2. runs \in Seq(Requests)
  BY <1>1, RunsShorten DEF Jobs
<1>3. ASSUME late = FALSE
      PROVE  /\ d.phase = "running" /\ d.runs[n] = d.request /\ runs = <<>>
             /\ Method = "task" => d.verdict = "none"
  <2>1. Follows(d) /\ d.runs # <<>>
    BY <1>3 DEF ReadyInvariant
  <2>2. d.runs = <<d.request>> /\ d.phase = "running" /\ (Method = "task" => d.verdict = "none")
    BY <2>1 DEF Follows
  <2> QED
    BY <2>2, OnlyRunEnds
<1>4. d' = IF Method = "task" THEN k ELSE HandleResult(j, verdict)
  BY DEF Reported
<1> HIDE DEF runs
<1>5. /\ j \in Jobs /\ j.phase = d.phase /\ j.request = d.request /\ j.queue = d.queue
      /\ j.callers = d.callers /\ j.launch = d.launch /\ j.runs = runs
  BY <1>1, <1>2 DEF Jobs
<1>6. /\ k.phase = d.phase /\ k.request = d.request /\ k.queue = d.queue /\ k.verdict = verdict
      /\ k.callers = d.callers /\ k.launch = d.launch /\ k.runs = runs
  <2> HIDE DEF j
  <2> QED
    BY <1>5 DEF Jobs
<1> HIDE DEF j, k
<1>7. Good(j) /\ NobodyWaitsForOff(j)
  BY <1>5, GoodStill DEF ReadyInvariant, NobodyWaitsForOff
<1>8. CASE Method = "task"
  <2>1. NobodyWaitsForOff(d')
    BY <1>4, <1>6, <1>8 DEF ReadyInvariant, NobodyWaitsForOff
  <2>2. ASSUME late = FALSE
        PROVE  Follows(d') /\ ShownOnceOk(d', display')
    BY <1>3, <1>4, <1>6, <1>8, <2>2 DEF Follows, ShownOnceOk
  <2>3. ToldWhenOn
    BY <1>4, <1>6, <1>8 DEF ToldWhenOn, Holding
  <2> QED
    BY <2>1, <2>2, <2>3 DEF ReadyInvariant
<1>9. CASE Method # "task"
  <2>1. NobodyWaitsForOff(d')
    BY <1>4, <1>7, <1>9, HandleResultOff
  <2>2. ASSUME late = FALSE
        PROVE  Follows(d') /\ ShownOnceOk(d', display')
    <3>1. JustAsked(d')
      BY <1>3, <1>4, <1>5, <1>7, <1>9, <2>2, HandleResultFollows
    <3> QED
      BY <1>9, <3>1 DEF JustAsked, ShownOnceOk
  <2>3. ASSUME NEW l \in Launches, ~Holding(l), Holding(l)', ~late, d.request.verb # "othersBack"
        PROVE  display' # "off"
    <3>1. l \in j.callers /\ (verdict = "ok" \/ j.request.verb = "othersBack")
      BY <1>4, <1>5, <1>7, <1>9, <2>3, HandleResultTells DEF Holding
    <3>2. d.phase # "idle" /\ d.request.verb # "deactivate" /\ d.request \in Requests
      BY <1>5, <3>1 DEF Good, Rests, ReadyInvariant, NobodyWaitsForOff
    <3>3. d.request.verb = "activate" /\ verdict = "ok"
      BY <1>5, <2>3, <3>1, <3>2 DEF Requests, Verbs
    <3>4. late = FALSE => d.runs[n] = d.request
      BY <1>3
    <3> QED
      BY <2>3, <3>3, <3>4
  <2> QED
    BY <2>1, <2>2, <2>3 DEF ReadyInvariant, ToldWhenOn
<1> QED
  BY <1>8, <1>9

\* The steps of the helper, and what the job hears of it.
LEMMA HelperReady ==
  ASSUME Good(d), ReadyInvariant, Helper
  PROVE  ReadyInvariant' /\ ToldWhenOn
<1>1. d \in Jobs
  BY DEF Good
<1>2. CASE HelperFinishes
  <2>1. PICK n \in DOMAIN d.runs : \E o \in Outcomes(d.runs[n]) :
          d' = Reported(n, o.verdict) /\ display' = o.effect.display
    BY <1>2 DEF HelperFinishes
  <2>2. PICK o \in Outcomes(d.runs[n]) :
          d' = Reported(n, o.verdict) /\ display' = o.effect.display
    BY <2>1
  <2>3. d.runs[n] \in Requests
    BY <1>1 DEF Jobs
  <2>4. o.verdict \in {"ok", "notAppeared", "failed"}
    BY <2>3, VerdictsAre
  <2>5. o.verdict = "ok" /\ d.runs[n].verb = "activate" => o.effect.display = d.runs[n].mode
    BY DEF Outcomes
  <2>6. d.runs[n].mode # "off"
    BY <2>3, LaunchesAssumption DEF Requests
  <2>7. late' = late
    BY <1>2 DEF HelperFinishes
  <2> QED
    BY <2>2, <2>4, <2>5, <2>6, <2>7, ReportedReady
<1>3. CASE HelperFails
  <2>1. PICK n \in DOMAIN d.runs : d' = Reported(n, "failed")
    BY <1>3 DEF HelperFails
  <2>2. late' = late
    BY <1>3 DEF HelperFails
  <2> QED
    BY <2>1, <2>2, ReportedReady
<1>4. CASE HelperDies \/ HelperExits
  <2>1. /\ d'.phase = d.phase /\ d'.request = d.request /\ d'.queue = d.queue
        /\ d'.callers = d.callers /\ d'.launch = d.launch /\ d'.verdict = d.verdict
        /\ d'.runs = d.runs \/ (d'.runs = <<>> /\ Method = "task")
        /\ display' = display /\ late' = late
    BY <1>1, <1>4 DEF HelperDies, HelperExits, Jobs
  <2>2. NobodyWaitsForOff(d')
    BY <2>1 DEF ReadyInvariant, NobodyWaitsForOff
  <2>3. ASSUME late' = FALSE
        PROVE  Follows(d') /\ ShownOnceOk(d', display')
    BY <2>1, <2>3 DEF ReadyInvariant, Follows, ShownOnceOk
  <2> QED
    BY <2>1, <2>2, <2>3 DEF ReadyInvariant, ToldWhenOn, Holding
<1> QED
  BY <1>2, <1>3, <1>4 DEF Helper

\* The job's own steps: whoever it tells is told by a run's verdict.
LEMMA JobReady ==
  ASSUME Good(d), ReadyInvariant, Job
  PROVE  ReadyInvariant' /\ ToldWhenOn
<1>1. d \in Jobs /\ NobodyWaitsForOff(d) /\ Rests(d)
  BY DEF Good, ReadyInvariant
<1>2. CASE StartTask \/ StartTaskAnyway
  <2>1. /\ d.phase = "waiting" /\ d'.phase = "running" /\ d'.request = d.request
        /\ d'.queue = d.queue /\ d'.callers = d.callers /\ d'.launch = d.launch
        /\ d'.verdict = d.verdict /\ display' = display
        /\ late' = TRUE \/ (late' = late /\ d'.runs = <<d.request>>)
    BY <1>1, <1>2 DEF StartTask, StartTaskAnyway, Jobs
  <2>2. NobodyWaitsForOff(d')
    BY <1>1, <2>1 DEF NobodyWaitsForOff
  <2>3. ASSUME late' = FALSE
        PROVE  Follows(d') /\ ShownOnceOk(d', display')
    BY <2>1, <2>3 DEF ReadyInvariant, Follows, ShownOnceOk
  <2> QED
    BY <2>1, <2>2, <2>3 DEF ReadyInvariant, ToldWhenOn, Holding
<1>3. CASE PollResult
  <2> DEFINE j == [d EXCEPT !.verdict = "none"]
  <2>1. /\ j \in Jobs /\ j.phase = d.phase /\ j.request = d.request /\ j.queue = d.queue
        /\ j.callers = d.callers /\ j.launch = d.launch /\ j.runs = d.runs
    BY <1>1 DEF Jobs
  <2>2. /\ d' = HandleResult(j, d.verdict) /\ Method = "task" /\ d.phase = "running"
        /\ d.verdict # "none" /\ display' = display /\ late' = late
    BY <1>3 DEF PollResult
  <2> HIDE DEF j
  <2>3. Good(j) /\ NobodyWaitsForOff(j)
    BY <1>1, <2>1, GoodStill DEF NobodyWaitsForOff
  <2>4. NobodyWaitsForOff(d')
    BY <2>2, <2>3, HandleResultOff
  <2>5. ASSUME late = FALSE
        PROVE  Follows(d') /\ ShownOnceOk(d', display')
    <3>1. j.runs = <<>>
      BY <2>1, <2>2, <2>5 DEF ReadyInvariant, Follows
    <3>2. JustAsked(d')
      BY <2>2, <2>3, <3>1, HandleResultFollows
    <3> QED
      BY <2>2, <3>2 DEF JustAsked, ShownOnceOk
  <2>6. ASSUME NEW l \in Launches, ~Holding(l), Holding(l)', ~late,
               d.request.verb # "othersBack"
        PROVE  display' # "off"
    <3>1. l \in j.callers /\ d.verdict = "ok"
      BY <2>1, <2>2, <2>3, <2>6, HandleResultTells DEF Holding
    <3>2. d.request.verb # "deactivate" /\ d.request \in Requests
      BY <1>1, <2>1, <2>2, <3>1 DEF Rests, NobodyWaitsForOff
    <3>3. d.request.verb = "activate"
      BY <2>6, <3>2 DEF Requests, Verbs
    <3> QED
      BY <2>2, <2>6, <3>1, <3>3 DEF ReadyInvariant, ShownOnceOk
  <2> QED
    BY <2>2, <2>4, <2>5, <2>6 DEF ReadyInvariant, ToldWhenOn
<1>4. CASE DeadlineFires
  <2>1. /\ d' = Fail(d, "noAnswer") /\ display' = display
        /\ late' = TRUE \/ (late' = late /\ d.runs = <<>>)
    BY <1>4 DEF DeadlineFires
  <2>2. NobodyWaitsForOff(d')
    BY <1>1, <2>1, HandleResultOff
  <2>3. ASSUME late' = FALSE
        PROVE  Follows(d') /\ ShownOnceOk(d', display')
    <3>1. JustAsked(d')
      BY <2>1, <2>3, HandleResultFollows
    <3> QED
      BY <3>1 DEF JustAsked, ShownOnceOk
  <2>4. ToldWhenOn
    BY <2>1, HandleResultTells DEF ToldWhenOn, Holding
  <2> QED
    BY <2>2, <2>3, <2>4 DEF ReadyInvariant
<1> QED
  BY <1>2, <1>3, <1>4 DEF Job

(* Whoever is told that the display is ready finds it on, for both methods, *)
(* whatever was joined, superseded, failed or fell back, and however early  *)
(* a grace ends (VirtualDisplayJob.cpp, settle and the launches it answers; *)
(* a run given up at work and the return of the other displays excepted).   *)
THEOREM JobTellsWhenOn == Spec => ReadyMeansOn
<1>1. Init => ReadyInvariant
  <2> SUFFICES ASSUME Init
               PROVE  ReadyInvariant
    OBVIOUS
  <2>1. d.phase = "idle" /\ d.queue = <<>> /\ d.runs = <<>>
    BY DEF Init
  <2> QED
    BY <2>1 DEF ReadyInvariant, NobodyWaitsForOff, Follows, ShownOnceOk
<1>2. JobInvariant /\ ReadyInvariant /\ [Next]_vars => ReadyInvariant' /\ ToldWhenOn
  <2>1. ASSUME JobInvariant, ReadyInvariant, Next
        PROVE  ReadyInvariant' /\ ToldWhenOn
    BY <2>1, LaunchReady, TimerReady, HelperReady, JobReady DEF Next, JobInvariant
  <2>2. ASSUME ReadyInvariant, UNCHANGED vars
        PROVE  ReadyInvariant' /\ ToldWhenOn
    <3>1. ReadyInvariant'
      BY <2>2 DEF vars, ReadyInvariant
    <3>2. ToldWhenOn
      BY <2>2 DEF vars, ToldWhenOn, Holding
    <3> QED
      BY <3>1, <3>2
  <2> QED
    BY <2>1, <2>2
<1>3. Spec => [][ToldWhenOn]_vars
  BY <1>1, <1>2, JobCorrect, PTL DEF Spec
<1> QED
  BY <1>3 DEF ToldWhenOn, ReadyMeansOn
-----------------------------------------------------------------------------
(* Types: a display that is on is in a mode somebody asked for.            *)

\* Whatever switches the display on names its mode.
NamesItsMode(r) == r.verb = "activate" => r.mode \in Modes
Named(j) ==
  /\ NamesItsMode(j.request)
  /\ \A n \in DOMAIN j.queue : NamesItsMode(j.queue[n])
  /\ \A n \in DOMAIN j.runs : NamesItsMode(j.runs[n])

\* What says nothing of requests, queue or runs changes nothing of it.
LEMMA NamedStill ==
  ASSUME NEW j, NEW k, Named(j), k.request = j.request, k.queue = j.queue, k.runs = j.runs
  PROVE  Named(k)
BY DEF Named

\* A request dispatched is one more run.
LEMMA DispatchNamed ==
  ASSUME NEW j \in Jobs, Named(j)  PROVE  Named(Dispatch(j))
<1> DEFINE k == Dispatch(j)
           q == Append(j.runs, j.request)
<1>1. CASE Method = "task"
  <2>1. k.request = j.request /\ k.queue = j.queue /\ k.runs = j.runs
    BY <1>1 DEF Dispatch, Jobs
  <2> QED
    BY <2>1, NamedStill
<1>2. CASE Method # "task"
  <2>1. k = [j EXCEPT !.phase = "running", !.runs = q]
    BY <1>2 DEF Dispatch, Jobs
  <2>2. \A n \in DOMAIN q : q[n] = j.request \/ (n \in DOMAIN j.runs /\ q[n] = j.runs[n])
    BY DEF Jobs
  <2> HIDE DEF q
  <2>3. k.request = j.request /\ k.queue = j.queue /\ k.runs = q
    BY <2>1 DEF Jobs
  <2> HIDE DEF k
  <2>4. Named(k)
    BY <2>2, <2>3 DEF Named
  <2> QED
    BY <2>4 DEF k
<1> QED
  BY <1>1, <1>2

\* The next of the queue becomes the request.
LEMMA StartNextNamed ==
  ASSUME NEW j \in Jobs, Named(j)  PROVE  Named(StartNext(j))
<1> DEFINE p == Head(j.queue)
           q == Tail(j.queue)
           b == [j EXCEPT !.queue = q, !.request = RequestOf(p), !.callers = p.callers,
                          !.asked = "none"]
<1>1. CASE j.queue = <<>>
  BY <1>1 DEF StartNext
<1>2. CASE j.queue # <<>>
  <2>1. p \in Pending /\ q \in Seq(Pending)
    BY <1>2 DEF Jobs
  <2>2. /\ RequestOf(p) \in Requests /\ p.callers \in SUBSET Launches
        /\ RequestOf(p).verb = p.verb /\ RequestOf(p).mode = p.mode
    BY <2>1 DEF RequestOf, Pending, Requests
  <2>3. StartNext(j) = Dispatch(b)
    BY <1>2 DEF StartNext, Jobs
  <2>4. /\ 1 \in DOMAIN j.queue /\ p = j.queue[1]
        /\ \A n \in DOMAIN q : n + 1 \in DOMAIN j.queue /\ q[n] = j.queue[n + 1]
    BY <1>2 DEF Jobs
  <2> HIDE DEF p, q
  <2>5. b \in Jobs /\ b.request = RequestOf(p) /\ b.queue = q /\ b.runs = j.runs
    BY <2>1, <2>2 DEF Jobs
  <2> HIDE DEF b
  <2>6. Named(b)
    BY <2>2, <2>4, <2>5 DEF Named, NamesItsMode
  <2> QED
    BY <2>3, <2>5, <2>6, DispatchNamed
<1> QED
  BY <1>1, <1>2

\* A verdict: the mode falls back on the default, or the next of the queue begins.
LEMMA HandleResultNamed ==
  ASSUME NEW j, Good(j), Named(j), NEW why
  PROVE  Named(Fail(j, why)) /\ Named(HandleResult(j, why))
<1>1. j \in Jobs
  BY DEF Good
<1>2. ASSUME NEW b \in Jobs, b.request = j.request, b.queue = j.queue, b.runs = j.runs,
             NEW ok \in BOOLEAN
      PROVE  Named(Settle(b, ok))
  <2> DEFINE c == [b EXCEPT !.phase = "idle"]
             a == Answer(c, ok)
  <2>1. a \in Jobs
    BY AnswerMakes
  <2>2. a.request = b.request /\ a.queue = b.queue /\ a.runs = b.runs
    <3>1. c.request = b.request /\ c.queue = b.queue /\ c.runs = b.runs /\ c \in Jobs
      BY DEF Jobs
    <3> HIDE DEF c
    <3> QED
      BY <3>1 DEF Answer, Jobs
  <2>3. Settle(b, ok) = StartNext(a)
    BY DEF Settle
  <2> HIDE DEF a
  <2>4. Named(a)
    BY <1>2, <2>2, NamedStill
  <2> QED
    BY <2>1, <2>3, <2>4, StartNextNamed
<1>3. Named(Fail(j, why))
  <2>1. CASE FallsBack(j, why)
    <3> DEFINE r == [j.request EXCEPT !.mode = "default"]
               b == [j EXCEPT !.asked = AskedMode(j), !.request = r]
    <3>1. j.request \in Requests
      BY <1>1, <2>1 DEF Jobs, FallsBack, NoRequest
    <3>2. r \in Requests /\ r.mode \in Modes
      BY <3>1, LaunchesAssumption DEF Requests
    <3>3. AskedMode(j) \in Modes \cup {"none"}
      BY <1>1, <3>1 DEF AskedMode, Jobs, Requests
    <3>4. [j EXCEPT !.asked = AskedMode(j), !.request.mode = "default"] = b
      BY <1>1 DEF Jobs
    <3>5. Fail(j, why) = Dispatch(b)
      BY <2>1, <3>4 DEF Fail
    <3> HIDE DEF r
    <3>6. b \in Jobs /\ b.request = r /\ b.queue = j.queue /\ b.runs = j.runs
      BY <1>1, <3>2, <3>3 DEF Jobs
    <3> HIDE DEF b
    <3>7. Named(b)
      BY <3>2, <3>6 DEF Named, NamesItsMode
    <3> QED
      BY <3>5, <3>6, <3>7, DispatchNamed
  <2>2. CASE ~FallsBack(j, why)
    BY <1>1, <1>2, <2>2 DEF Fail
  <2> QED
    BY <2>1, <2>2
<1>4. Named(Succeed(j))
  <2>1. PICK b \in Jobs : /\ Succeed(j) = Settle(b, TRUE)
                          /\ b.request = j.request /\ b.queue = j.queue /\ b.runs = j.runs
    BY ActiveMakes
  <2> QED
    BY <1>2, <2>1
<1> QED
  BY <1>3, <1>4 DEF HandleResult

\* Who joins the last of the queue asks for what it asks for.
LEMMA JoinLastNamed ==
  ASSUME NEW j \in Jobs, NEW c \in SUBSET Launches, j.queue # <<>>, Named(j)
  PROVE  Named(JoinLast(j, c))
<1> DEFINE n == Len(j.queue)
           p == [j.queue[n] EXCEPT !.callers = @ \cup c]
           q == [j.queue EXCEPT ![n] = p]
           k == JoinLast(j, c)
<1>1. n \in DOMAIN j.queue /\ j.queue[n] \in Pending /\ j.queue \in Seq(Pending)
  BY DEF Jobs
<1>2. p.verb = j.queue[n].verb /\ p.mode = j.queue[n].mode
  BY <1>1 DEF Pending
<1>3. k = [j EXCEPT !.queue = q]
  BY <1>1 DEF JoinLast, Jobs
<1> HIDE DEF p
<1>4. /\ DOMAIN q = DOMAIN j.queue /\ q[n] = p
      /\ \A m \in DOMAIN q : m # n => q[m] = j.queue[m]
  BY <1>1
<1> HIDE DEF n, q
<1>5. k.queue = q /\ k.request = j.request /\ k.runs = j.runs
  BY <1>3 DEF Jobs
<1> HIDE DEF k
<1>6. Named(k)
  BY <1>1, <1>2, <1>4, <1>5 DEF Named, NamesItsMode
<1> QED
  BY <1>6 DEF k

\* Asking for an operation that names its mode.
LEMMA EnqueueNamed ==
  ASSUME NEW j \in Jobs, NEW verb \in Verbs, NEW mode \in Modes \cup {"none"},
         NEW exclusive \in BOOLEAN, NEW c \in SUBSET Launches, Named(j),
         verb = "activate" => mode \in Modes
  PROVE  Named(Enqueue(j, verb, mode, exclusive, c))
<1> DEFINE p == [verb |-> verb, mode |-> mode, exclusive |-> exclusive, callers |-> c]
           q == Append(j.queue, p)
           b == [j EXCEPT !.queue = q]
           a == [j EXCEPT !.callers = @ \cup c]
<1>1. Named(a)
  <2>1. a.request = j.request /\ a.queue = j.queue /\ a.runs = j.runs
    BY DEF Jobs
  <2> HIDE DEF a
  <2> QED
    BY <2>1, NamedStill
<1>2. [j EXCEPT !.queue = Append(@, p)] = b
  BY DEF Jobs
<1>3. \/ Enqueue(j, verb, mode, exclusive, c) = a
      \/ j.queue # <<>> /\ Enqueue(j, verb, mode, exclusive, c) = JoinLast(j, c)
      \/ Enqueue(j, verb, mode, exclusive, c) \in {b, StartNext(b)}
  BY <1>2 DEF Enqueue
<1>4. j.queue \in Seq(Pending) /\ p \in Pending /\ p.verb = verb /\ p.mode = mode
  BY DEF Jobs, Pending
<1> HIDE DEF p, a
<1>5. /\ q \in Seq(Pending)
      /\ \A m \in DOMAIN q : q[m] = p \/ (m \in DOMAIN j.queue /\ q[m] = j.queue[m])
  BY <1>4
<1> HIDE DEF q
<1>6. b \in Jobs /\ b.queue = q /\ b.request = j.request /\ b.runs = j.runs
  BY <1>5 DEF Jobs
<1> HIDE DEF b
<1>7. Named(b)
  BY <1>4, <1>5, <1>6 DEF Named, NamesItsMode
<1> QED
  BY <1>1, <1>3, <1>6, <1>7, JoinLastNamed, StartNextNamed

\* A launch asks for a mode there is, or joins who did.
LEMMA AskingNamed ==
  ASSUME NEW l \in Launches, NEW mode \in Modes, Good(d), Named(d)
  PROVE  Named(Activate(l, mode)) /\ Named(ActivateIfOff(l, mode))
<1> DEFINE j == [d EXCEPT !.launch[l] = "asked"]
           k == [d EXCEPT !.launch[l] = "clear"]
           a == [j EXCEPT !.callers = @ \cup {l}]
<1>1. d \in Jobs
  BY DEF Good
<1>2. j \in Jobs /\ j.request = d.request /\ j.queue = d.queue /\ j.runs = d.runs
  BY <1>1 DEF Jobs
<1>3. k.request = d.request /\ k.queue = d.queue /\ k.runs = d.runs
  BY <1>1 DEF Jobs
<1>4. Activate(l, mode) \in {k, Enqueue(j, "activate", mode, OthersGoOff(l), {l})}
  BY DEF Activate
<1> DEFINE e == Enqueue(j, "othersBack", "none", FALSE, {l})
           g == Activate(l, mode)
           t == JoinLast(j, {l})
           c1 == d.queue # <<>> /\ KeepsItOn(Last(d.queue).verb)
           c2 == d.queue = <<>> /\ Running(d) /\ KeepsItOn(d.request.verb)
           c3 == Quiet /\ display # "off" /\ OthersDueBack
           c4 == Quiet /\ display # "off" /\ ~OthersDueBack
<1>5. ActivateIfOff(l, mode) =
        CASE c1 -> t [] c2 -> a [] c3 -> e [] c4 -> k [] OTHER -> g
  BY DEF ActivateIfOff
<1>12. c1 => d.queue # <<>>
  OBVIOUS
<1> HIDE DEF j, k
<1>6. Named(j) /\ Named(k)
  BY <1>2, <1>3, NamedStill
<1>7. Named(a)
  <2>1. a.request = j.request /\ a.queue = j.queue /\ a.runs = j.runs
    BY <1>2 DEF Jobs
  <2> HIDE DEF a
  <2> QED
    BY <1>6, <2>1, NamedStill
<1> HIDE DEF a
<1>8. OthersGoOff(l) \in BOOLEAN
  BY LaunchesAssumption DEF OthersGoOff
<1>9. /\ Named(Enqueue(j, "activate", mode, OthersGoOff(l), {l}))
      /\ Named(Enqueue(j, "othersBack", "none", FALSE, {l}))
  BY <1>2, <1>6, <1>8, EnqueueNamed DEF Verbs
<1>10. Named(Activate(l, mode))
  BY <1>4, <1>6, <1>9
<1>11. c1 => Named(t)
  BY <1>2, <1>6, <1>12, JoinLastNamed
<1>13. Named(e) /\ Named(g)
  BY <1>9, <1>10
<1> HIDE DEF e, g, t, c1, c2, c3, c4
<1>14. \/ c1 /\ ActivateIfOff(l, mode) = t
       \/ ActivateIfOff(l, mode) \in {a, e, k, g}
  BY <1>5
<1> QED
  BY <1>6, <1>7, <1>10, <1>11, <1>13, <1>14

\* A run less.
LEMMA RunsLeft ==
  ASSUME NEW runs \in Seq(Requests), NEW n \in DOMAIN runs
  PROVE  \A m \in DOMAIN RemoveAt(runs, n) : \E i \in DOMAIN runs : RemoveAt(runs, n)[m] = runs[i]
<1> DEFINE a == SubSeq(runs, 1, n - 1)
           b == SubSeq(runs, n + 1, Len(runs))
<1>1. n \in 1..Len(runs) /\ Len(runs) \in Nat /\ DOMAIN runs = 1..Len(runs)
  OBVIOUS
<1>2. /\ a \in Seq(Requests) /\ Len(a) = n - 1
      /\ \A m \in 1..(n - 1) : a[m] = runs[m]
  BY <1>1
<1>3. /\ b \in Seq(Requests) /\ Len(b) = Len(runs) - n
      /\ \A m \in 1..(Len(runs) - n) : b[m] = runs[n + m]
  BY <1>1
<1>4. RemoveAt(runs, n) = a \o b
  BY DEF RemoveAt
<1> HIDE DEF a, b
<1>8. /\ a \o b \in Seq(Requests) /\ Len(a \o b) = Len(a) + Len(b)
      /\ \A m \in 1..(Len(a) + Len(b)) :
           (a \o b)[m] = IF m <= Len(a) THEN a[m] ELSE b[m - Len(a)]
  BY <1>2, <1>3, ConcatProperties
<1>9. Len(a) + Len(b) = Len(runs) - 1
  BY <1>1, <1>2, <1>3
<1>10. DOMAIN (a \o b) = 1..(Len(runs) - 1)
  BY <1>8, <1>9
<1>5. /\ \A m \in 1..(n - 1) : (a \o b)[m] = a[m]
      /\ \A m \in n..(Len(runs) - 1) : (a \o b)[m] = b[m - (n - 1)]
  <2>1. ASSUME NEW m \in 1..(n - 1)  PROVE  (a \o b)[m] = a[m]
    BY <1>1, <1>2, <1>8, <1>9
  <2>2. ASSUME NEW m \in n..(Len(runs) - 1)  PROVE  (a \o b)[m] = b[m - (n - 1)]
    BY <1>1, <1>2, <1>8, <1>9
  <2> QED
    BY <2>1, <2>2
<1> SUFFICES ASSUME NEW m \in 1..(Len(runs) - 1)
             PROVE  \E i \in DOMAIN runs : (a \o b)[m] = runs[i]
  BY <1>4, <1>10
<1>6. CASE m < n
  BY <1>1, <1>2, <1>5, <1>6
<1>7. CASE m >= n
  <2>3. m \in n..(Len(runs) - 1) /\ m - (n - 1) \in 1..(Len(runs) - n)
    BY <1>1, <1>7
  <2>1. (a \o b)[m] = b[m - (n - 1)] /\ m - (n - 1) \in 1..(Len(runs) - n)
    BY <1>5, <2>3
  <2>2. b[m - (n - 1)] = runs[n + (m - (n - 1))] /\ n + (m - (n - 1)) \in DOMAIN runs
    BY <1>1, <1>3, <2>1
  <2> QED
    BY <2>1, <2>2
<1>11. m < n \/ m >= n
  BY <1>1
<1> QED
  BY <1>6, <1>7, <1>11

\* A run's end.
LEMMA ReportedNamed ==
  ASSUME Good(d), Named(d), NEW n \in DOMAIN d.runs,
         NEW verdict \in {"ok", "notAppeared", "failed"}
  PROVE  Named(Reported(n, verdict))
<1> DEFINE runs == RemoveAt(d.runs, n)
           j == [d EXCEPT !.runs = runs]
           k == [j EXCEPT !.verdict = verdict, !.exiting = TRUE]
<1>1. d \in Jobs
  BY DEF Good
<1>2. runs \in Seq(Requests)
  BY <1>1, RunsShorten DEF Jobs
<1>3. \A m \in DOMAIN runs : \E i \in DOMAIN d.runs : runs[m] = d.runs[i]
  BY <1>1, RunsLeft DEF Jobs
<1>4. Reported(n, verdict) = IF Method = "task" THEN k ELSE HandleResult(j, verdict)
  BY DEF Reported
<1> HIDE DEF runs
<1>5. /\ j \in Jobs /\ j.phase = d.phase /\ j.request = d.request /\ j.queue = d.queue
      /\ j.callers = d.callers /\ j.launch = d.launch /\ j.runs = runs
  BY <1>1, <1>2 DEF Jobs
<1> HIDE DEF j
<1>6. k.request = j.request /\ k.queue = j.queue /\ k.runs = j.runs
  BY <1>5 DEF Jobs
<1> HIDE DEF k
<1>7. Named(j)
  BY <1>3, <1>5 DEF Named
<1>8. Named(k)
  BY <1>6, <1>7, NamedStill
<1>9. Good(j)
  BY <1>5, GoodStill
<1> QED
  BY <1>4, <1>7, <1>8, <1>9, HandleResultNamed

\* Every step names the modes it asks for.
LEMMA NamedStep ==
  Good(d) /\ Named(d) /\ [Next]_vars => Named(d)'
<1> SUFFICES ASSUME Good(d), Named(d), [Next]_vars  PROVE  Named(d')
  OBVIOUS
<1>1. d \in Jobs
  BY DEF Good
<1>2. ASSUME d'.request = d.request, d'.queue = d.queue, d'.runs \in {d.runs, <<>>}
      PROVE  Named(d')
  BY <1>2 DEF Named
<1>3. ASSUME NEW l \in Launches, Ask(l)  PROVE  Named(d')
  BY <1>3, AskingNamed DEF Ask
<1>4. ASSUME NEW l \in Launches, Supersede(l) \/ StartWorker(l) \/ StreamEnds(l)
      PROVE  Named(d')
  <2>1. PICK v : d' = [d EXCEPT !.launch[l] = v]
    BY <1>1, <1>4 DEF Supersede, StartWorker, StreamEnds
  <2> QED
    BY <1>1, <1>2, <2>1 DEF Jobs
<1>5. CASE Helper
  <2>1. CASE HelperFinishes
    <3>1. PICK n \in DOMAIN d.runs : \E o \in Outcomes(d.runs[n]) : d' = Reported(n, o.verdict)
      BY <2>1 DEF HelperFinishes
    <3>2. d.runs[n] \in Requests
      BY <1>1 DEF Jobs
    <3> QED
      BY <3>1, <3>2, VerdictsAre, ReportedNamed
  <2>2. CASE HelperFails
    BY <2>2, ReportedNamed DEF HelperFails
  <2>3. CASE HelperDies \/ HelperExits
    BY <1>1, <1>2, <2>3 DEF HelperDies, HelperExits, Jobs
  <2> QED
    BY <1>5, <2>1, <2>2, <2>3 DEF Helper
<1>6. CASE Job
  <2>1. CASE StartTask
    <3>1. d' = [d EXCEPT !.phase = "running", !.runs = <<d.request>>]
      BY <2>1 DEF StartTask
    <3>2. d'.request = d.request /\ d'.queue = d.queue /\ d'.runs = <<d.request>>
      BY <1>1, <3>1 DEF Jobs
    <3> QED
      BY <3>2 DEF Named
  <2>2. CASE StartTaskAnyway
    BY <1>1, <1>2, <2>2 DEF StartTaskAnyway, Jobs
  <2>3. CASE PollResult
    <3> DEFINE j == [d EXCEPT !.verdict = "none"]
    <3>1. /\ j \in Jobs /\ j.phase = d.phase /\ j.request = d.request /\ j.queue = d.queue
          /\ j.callers = d.callers /\ j.launch = d.launch /\ j.runs = d.runs
      BY <1>1 DEF Jobs
    <3>2. d' = HandleResult(j, d.verdict)
      BY <2>3 DEF PollResult
    <3> HIDE DEF j
    <3>3. Good(j) /\ Named(j)
      BY <3>1, GoodStill, NamedStill
    <3> QED
      BY <3>2, <3>3, HandleResultNamed
  <2>4. CASE DeadlineFires
    BY <2>4, HandleResultNamed DEF DeadlineFires
  <2> QED
    BY <1>6, <2>1, <2>2, <2>3, <2>4 DEF Job
<1>7. CASE Timers
  <2>1. /\ Named(Enqueue(d, "othersBack", "none", FALSE, {}))
        /\ Named(Enqueue(d, "deactivate", "none", FALSE, {}))
    BY <1>1, EnqueueNamed DEF Verbs
  <2> QED
    BY <1>7, <2>1 DEF Timers, GraceEnds, CloseSettles, Deactivate
<1>8. CASE UNCHANGED vars
  BY <1>2, <1>8 DEF vars
<1> QED
  BY <1>3, <1>4, <1>5, <1>6, <1>7, <1>8 DEF Next

\* The rest of the state.
RestTyped ==
  /\ {grace, closing, opened, alone, late} \subseteq BOOLEAN
  /\ display \in Modes \cup {"off"}
  /\ faults \in 0..MaxFaults /\ caught \subseteq Launches

\* The display takes the mode of a request that names one.
LEMMA RestStep ==
  Good(d) /\ Named(d) /\ RestTyped /\ [Next]_vars => RestTyped'
<1> SUFFICES ASSUME Good(d), Named(d), RestTyped, [Next]_vars  PROVE  RestTyped'
  OBVIOUS
<1> USE DEF RestTyped
<1>1. d \in Jobs /\ MaxFaults \in Nat
  BY LaunchesAssumption DEF Good
<1>2. ASSUME NEW l \in Launches, Ask(l) \/ Supersede(l) \/ StartWorker(l) \/ StreamEnds(l)
      PROVE  RestTyped'
  BY <1>2 DEF Ask, Supersede, StartWorker, StreamEnds
<1>3. CASE HelperFinishes
  <2>1. PICK n \in DOMAIN d.runs : \E o \in Outcomes(d.runs[n]) :
          display' = o.effect.display /\ alone' = o.effect.alone
    BY <1>3 DEF HelperFinishes
  <2>2. d.runs[n] \in Requests /\ NamesItsMode(d.runs[n])
    BY <1>1 DEF Jobs, Named
  <2>3. PICK o \in Outcomes(d.runs[n]) : display' = o.effect.display /\ alone' = o.effect.alone
    BY <2>1
  <2>4. o.effect.display \in Modes \cup {"off"} /\ o.effect.alone \in BOOLEAN
    <3> DEFINE q == d.runs[n]
    <3>1. /\ q.mode \in Modes \cup {"none"} /\ q.exclusive \in BOOLEAN /\ q.verb \in Verbs
          /\ q.verb = "activate" => q.mode \in Modes
      BY <2>2 DEF NamesItsMode, Requests
    <3> HIDE DEF q
    <3>2. o \in Outcomes(q)
      BY <2>3 DEF q
    <3>3. CASE q.verb = "activate"
      <4> DEFINE same == [display |-> display, alone |-> alone]
                 on(a) == [effect |-> [display |-> q.mode, alone |-> a], verdict |-> "ok"]
                 no == [effect |-> [same EXCEPT !.display = "off"], verdict |-> "notAppeared"]
      <4>1. o = no \/ \E a \in {q.exclusive, alone} : o = on(a)
        BY <3>2, <3>3 DEF Outcomes
      <4>2. /\ \A a : on(a).effect.display = q.mode /\ on(a).effect.alone = a
            /\ no.effect.display = "off" /\ no.effect.alone = alone
        OBVIOUS
      <4> HIDE DEF on, no
      <4> QED
        BY <3>1, <3>3, <4>1, <4>2
    <3>4. CASE q.verb = "othersBack"
      <4> DEFINE same == [display |-> display, alone |-> alone]
                 bad == [effect |-> same, verdict |-> "failed"]
                 back == [effect |-> [same EXCEPT !.alone = FALSE], verdict |-> "ok"]
      <4>1. o \in {bad, back}
        BY <3>2, <3>4 DEF Outcomes
      <4>2. /\ bad.effect.display = display /\ bad.effect.alone = alone
            /\ back.effect.display = display /\ back.effect.alone = FALSE
        OBVIOUS
      <4> HIDE DEF bad, back
      <4> QED
        BY <4>1, <4>2
    <3>5. CASE q.verb = "deactivate"
      <4> DEFINE off == [effect |-> [display |-> "off", alone |-> FALSE], verdict |-> "ok"]
      <4>1. o = off
        BY <3>2, <3>5 DEF Outcomes
      <4>2. off.effect.display = "off" /\ off.effect.alone = FALSE
        OBVIOUS
      <4> HIDE DEF off
      <4> QED
        BY <4>1, <4>2
    <3> QED
      BY <3>1, <3>3, <3>4, <3>5 DEF Verbs
  <2>5. UNCHANGED <<grace, closing, opened, faults, late, caught>>
    BY <1>3 DEF HelperFinishes
  <2> QED
    BY <2>3, <2>4, <2>5
<1>4. CASE HelperFails \/ HelperDies \/ HelperExits
  BY <1>1, <1>4 DEF HelperFails, HelperDies, HelperExits
<1>5. CASE Job
  <2>1. UNCHANGED <<grace, closing, opened, display, alone, caught>>
    BY <1>5 DEF Job, StartTask, StartTaskAnyway, PollResult, DeadlineFires
  <2>2. /\ late' = late \/ late' = TRUE
        /\ faults' = faults \/ (faults < MaxFaults /\ faults' = faults + 1)
    <3>1. CASE StartTask \/ PollResult
      BY <3>1 DEF StartTask, PollResult
    <3>2. CASE StartTaskAnyway
      BY <3>2 DEF StartTaskAnyway
    <3>3. CASE DeadlineFires
      BY <3>3 DEF DeadlineFires
    <3> QED
      BY <1>5, <3>1, <3>2, <3>3 DEF Job
  <2>3. faults' \in 0..MaxFaults
    BY <1>1, <2>2
  <2> QED
    BY <2>1, <2>2, <2>3
<1>6. CASE Timers
  <2>1. UNCHANGED <<display, alone, faults, late>>
    BY <1>6 DEF Timers, GraceEnds, CloseSettles
  <2>2. caught' = caught \/ caught' = UnderWay
    BY <1>6 DEF Timers, GraceEnds, CloseSettles
  <2>3. /\ grace' \in {grace, FALSE} /\ closing' \in {closing, TRUE, FALSE}
        /\ opened' \in {opened, FALSE}
    BY <1>6 DEF Timers, GraceEnds, CloseSettles
  <2> QED
    BY <2>1, <2>2, <2>3 DEF UnderWay
<1>7. CASE UNCHANGED vars
  BY <1>7 DEF vars
<1> QED
  BY <1>2, <1>3, <1>4, <1>5, <1>6, <1>7 DEF Next, Helper

(* Type correctness: in particular the display is never on without a mode  *)
(* that a launch asked for or fell back on, whatever was joined.           *)
THEOREM JobTyped == Spec => []TypeOK
<1>1. Init => Named(d) /\ RestTyped
  <2> SUFFICES ASSUME Init  PROVE  Named(d) /\ RestTyped
    OBVIOUS
  <2>1. d.request = NoRequest /\ d.queue = <<>> /\ d.runs = <<>>
    BY DEF Init
  <2>2. Named(d)
    BY <2>1 DEF Named, NamesItsMode, NoRequest
  <2>3. /\ grace = FALSE /\ closing = FALSE /\ opened = FALSE
        /\ display = "off" /\ alone = FALSE /\ faults = 0 /\ late = FALSE /\ caught = {}
    BY DEF Init
  <2>4. 0 \in 0..MaxFaults
    BY LaunchesAssumption
  <2>5. RestTyped
    BY <2>3, <2>4 DEF RestTyped
  <2> QED
    BY <2>2, <2>5
<1>2. JobInvariant /\ Named(d) /\ RestTyped /\ [Next]_vars => (Named(d) /\ RestTyped)'
  BY NamedStep, RestStep DEF JobInvariant
<1>3. JobInvariant /\ RestTyped => TypeOK
  BY DEF JobInvariant, Good, Jobs, RestTyped, TypeOK
<1> QED
  BY <1>1, <1>2, <1>3, JobCorrect, PTL DEF Spec
=============================================================================
