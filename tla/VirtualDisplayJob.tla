------------------------- MODULE VirtualDisplayJob -------------------------
(***************************************************************************)
(* The virtual display: VirtualDisplayJob.cpp on the main thread, the      *)
(* launches of main.cpp that ask it for the display, and the elevated      *)
(* helper (VirtualDisplayApply.cpp) that switches it.                      *)
(*                                                                         *)
(* A launch is one /start or one join: it asks for the display, waits for  *)
(* the answer, asks the router, and only then puts its worker in its slot. *)
(* The operators on d are the class's functions, applied in the order the  *)
(* code calls them.                                                        *)
(***************************************************************************)
EXTENDS Naturals, Sequences, FiniteSets, SequencesExt

CONSTANTS
  Launches,         \* of signed-in devices and of invited players
  GuestsAre,        \* which of them may be the guests' (one choice per run)
  Modes,            \* the modes a launch may ask; "default" is one of them
  Method,           \* "task" (installer's task) or "elevated" (a child)
  Exclusive,        \* the option: the other displays off under the owner
  Failing,          \* the verbs whose run may fail for a reason of its own
  MaxFaults         \* bound: runs that fail, die or are given up too soon

Verbs == {"activate", "othersBack", "deactivate"}

ASSUME LaunchesAssumption ==
  /\ IsFiniteSet(Launches) /\ GuestsAre \subseteq SUBSET Launches
  /\ "default" \in Modes /\ "none" \notin Modes /\ "off" \notin Modes
  /\ Method \in {"task", "elevated"} /\ Exclusive \in BOOLEAN
  /\ Failing \subseteq Verbs /\ MaxFaults \in Nat

VARIABLES
  d,        \* the job's members, and what became of each launch (launch)
  grace,    \* m_Release is active
  closing,  \* a single shot of kCloseSettleMs is pending
  opened,   \* something was opened on the display (m_BeforeRelease)
  display,  \* the device: "off" or its mode
  alone,    \* the other displays are off (the others-off file)
  faults,
  late,     \* a run was given up while it was at work
  caught    \* history: launches under way as a delay found no stream

vars == <<d, grace, closing, opened, display, alone, faults, late, caught>>

----------------------------------------------------------------------------
(* Who streams the display, as main.cpp answers it.                        *)
Guests == d.guests
Owners == Launches \ d.guests

On(s) == \E l \in s : d.launch[l] = "on"
InUse == On(Launches)

OthersDueBack == alone /\ ~On(Owners)

\* The owner's operation puts the other displays out unless a guest is on.
OthersGoOff(l) == l \in Owners /\ Exclusive /\ (~On(Guests) \/ alone)

----------------------------------------------------------------------------
(* The job. A run is one helper process at work on a request.              *)
NoRequest == [verb |-> "none", mode |-> "none", exclusive |-> FALSE]
Requests == [verb : Verbs, mode : Modes \cup {"none"}, exclusive : BOOLEAN]
Pending == [verb : Verbs, mode : Modes \cup {"none"}, exclusive : BOOLEAN, callers : SUBSET Launches]

RequestOf(p) == [verb |-> p.verb, mode |-> p.mode, exclusive |-> p.exclusive]

Running(j) == j.phase # "idle"

\* The task is asked for once its last run is over; a child starts at once.
Dispatch(j) ==
  IF Method = "task" THEN [j EXCEPT !.phase = "waiting", !.verdict = "none"]
  ELSE [j EXCEPT !.phase = "running", !.runs = Append(@, j.request)]

StartNext(j) ==
  IF j.queue = <<>> THEN j
  ELSE Dispatch([j EXCEPT !.queue = Tail(@), !.request = RequestOf(Head(j.queue)),
                          !.callers = Head(j.queue).callers, !.asked = "none"])

\* Mutant: whoever waited on a display that did not come is forgotten.
AnswerOnlyGood(j, ok) ==
  [j EXCEPT !.callers = {},
            !.launch = [l \in Launches |->
               IF l \notin j.callers \/ ~ok THEN @[l]
               ELSE IF @[l] = "asked" THEN "clear" ELSE "out"]]
\* A launch superseded while it waited is dropped by its own callback.
Answer(j, ok) ==
  [j EXCEPT !.callers = {},
            !.launch = [l \in Launches |->
               IF l \notin j.callers THEN @[l]
               ELSE IF @[l] = "asked" /\ ok THEN "clear" ELSE "out"]]

Settle(j, ok) == StartNext(Answer([j EXCEPT !.phase = "idle"], ok))

\* What a join compares: while a mode falls back, the mode first asked.
AskedMode(j) == IF j.asked = "none" THEN j.request.mode ELSE j.asked

FallsBack(j, why) ==
  j.request.verb = "activate" /\ why = "notAppeared" /\ j.request.mode # "default"

\* Mutant: whoever waited is told to go ahead, whatever failed.
FailGoesAhead(j, why) ==
  IF FallsBack(j, why)
  THEN Dispatch([j EXCEPT !.asked = AskedMode(j), !.request.mode = "default"])
  ELSE Settle(j, TRUE)
Fail(j, why) ==
  IF FallsBack(j, why)
  THEN Dispatch([j EXCEPT !.asked = AskedMode(j), !.request.mode = "default"])
  ELSE Settle(j, j.request.verb = "othersBack")

Succeed(j) ==
  Settle([j EXCEPT !.active = CASE j.request.verb = "activate" -> AskedMode(j)
                                [] j.request.verb = "deactivate" -> "none"
                                [] OTHER -> @], TRUE)

HandleResult(j, verdict) == IF verdict = "ok" THEN Succeed(j) ELSE Fail(j, verdict)

----------------------------------------------------------------------------
(* Asking for an operation.                                                *)
Same(p, verb, mode) == p.verb = verb /\ p.mode = mode

JoinLast(j, callers) == [j EXCEPT !.queue[Len(j.queue)].callers = @ \cup callers]

Enqueue(j, verb, mode, exclusive, callers) ==
  IF Running(j) /\ j.queue = <<>> /\ j.request.verb = verb /\ AskedMode(j) = mode
  THEN [j EXCEPT !.callers = @ \cup callers]
  ELSE IF j.queue # <<>> /\ Same(Last(j.queue), verb, mode) THEN JoinLast(j, callers)
  ELSE LET k == [j EXCEPT !.queue = Append(@, [verb |-> verb, mode |-> mode,
                                  exclusive |-> exclusive, callers |-> callers])]
       IN  IF Running(k) THEN k ELSE StartNext(k)

Quiet == ~Running(d) /\ d.queue = <<>>

ReadyIn(mode) == Quiet /\ display # "off" /\ d.active = mode

Activate(l, mode) ==
  IF ReadyIn(mode) THEN [d EXCEPT !.launch[l] = "clear"]
  ELSE Enqueue([d EXCEPT !.launch[l] = "asked"], "activate", mode, OthersGoOff(l), {l})

KeepsItOn(verb) == verb \in {"activate", "othersBack"}

\* A guest takes the display as it is, or as it is about to be.
ActivateIfOff(l, mode) ==
  LET j == [d EXCEPT !.launch[l] = "asked"]
  IN  CASE d.queue # <<>> /\ KeepsItOn(Last(d.queue).verb) -> JoinLast(j, {l})
        [] d.queue = <<>> /\ Running(d) /\ KeepsItOn(d.request.verb) ->
             [j EXCEPT !.callers = @ \cup {l}]
        [] Quiet /\ display # "off" /\ OthersDueBack ->
             Enqueue(j, "othersBack", "none", FALSE, {l})
        [] Quiet /\ display # "off" /\ ~OthersDueBack -> [d EXCEPT !.launch[l] = "clear"]
        [] OTHER -> Activate(l, mode)

\* Mutant: an operation that runs is left to its end.
DeactivateWhenIdle ==
  IF Running(d) \/ display = "off" THEN d
  ELSE Enqueue(d, "deactivate", "none", FALSE, {})
Deactivate ==
  IF Quiet /\ display = "off" THEN d
  ELSE Enqueue(d, "deactivate", "none", FALSE, {})

----------------------------------------------------------------------------
Init ==
  /\ \E guests \in GuestsAre :
     d = [guests |-> guests, phase |-> "idle", request |-> NoRequest,
          asked |-> "none", callers |-> {},
          queue |-> <<>>, active |-> "none", runs |-> <<>>, verdict |-> "none",
          exiting |-> FALSE, launch |-> [l \in Launches |-> "out"]]
  /\ grace = FALSE /\ closing = FALSE /\ opened = FALSE
  /\ display = "off" /\ alone = FALSE /\ faults = 0 /\ late = FALSE /\ caught = {}

\* A /start or a join whose slot's previous process is gone.
Ask(l) ==
  /\ d.launch[l] = "out"
  /\ grace' = FALSE
  /\ \E mode \in Modes : d' = IF l \in Owners THEN Activate(l, mode) ELSE ActivateIfOff(l, mode)
  /\ caught' = caught \ {l}
  /\ UNCHANGED <<closing, opened, display, alone, faults, late>>

\* The same slot launches again, on this display or on another: the launch
\* under way is dropped when its answer comes.
Supersede(l) ==
  /\ d.launch[l] \in {"asked", "clear"}
  /\ d' = [d EXCEPT !.launch[l] = IF @ = "asked" THEN "dropped" ELSE "out"]
  /\ caught' = caught \ {l}
  /\ UNCHANGED <<grace, closing, opened, display, alone, faults, late>>

\* The router answered: the worker is in its slot.
StartWorker(l) ==
  /\ d.launch[l] = "clear"
  /\ d' = [d EXCEPT !.launch[l] = "on"]
  /\ opened' \in {opened, TRUE}
  /\ UNCHANGED <<grace, closing, display, alone, faults, late, caught>>

\* The stream ends, by whichever door: the slot is cleared, then
\* releaseSoon().
StreamEnds(l) ==
  /\ d.launch[l] = "on"
  /\ d' = [d EXCEPT !.launch[l] = "out"]
  /\ grace' = TRUE /\ caught' = caught \ {l}
  /\ UNCHANGED <<closing, opened, display, alone, faults, late>>

\* Mutant: the grace does not ask whether a stream still shows the display.
EndsAnyway == FALSE
StaysOn == InUse

\* Mutant: the owner gone, the other displays stay off under the guest.
NothingDue == FALSE
BackUnderTheGuest == OthersDueBack

\* It asks for the streams only: who is on the way is not one yet.
UnderWay == {l \in Launches : d.launch[l] \in {"asked", "clear"}}

GraceEnds ==
  /\ grace
  /\ grace' = FALSE
  /\ \/ /\ StaysOn
        /\ d' = IF BackUnderTheGuest THEN Enqueue(d, "othersBack", "none", FALSE, {}) ELSE d
        /\ UNCHANGED <<closing, opened, caught>>
     \/ /\ ~StaysOn /\ opened
        /\ opened' = FALSE /\ closing' = TRUE /\ caught' = UnderWay
        /\ d' = d
     \/ /\ ~StaysOn /\ ~opened
        /\ d' = Deactivate /\ caught' = UnderWay
        /\ UNCHANGED <<closing, opened>>
  /\ UNCHANGED <<display, alone, faults, late>>

\* What was opened has had its time to close. deactivate() stops m_Release.
CloseSettles ==
  /\ closing
  /\ closing' = FALSE
  /\ \/ InUse /\ UNCHANGED <<d, grace, caught>>
     \/ ~InUse /\ d' = Deactivate /\ caught' = UnderWay /\ grace' = FALSE
  /\ UNCHANGED <<opened, display, alone, faults, late>>

----------------------------------------------------------------------------
(* The helper. A run's verdict: "ok", "notAppeared" or "failed".           *)
TaskBusy == d.runs # <<>> \/ d.exiting

\* schtasks /Run, once the last run is over.
StartTask ==
  /\ d.phase = "waiting" /\ ~TaskBusy
  /\ d' = [d EXCEPT !.phase = "running", !.runs = <<d.request>>]
  /\ UNCHANGED <<grace, closing, opened, display, alone, faults, late, caught>>

\* A run still going after ten seconds: started all the same, which a task
\* that runs ignores.
StartTaskAnyway ==
  /\ d.phase = "waiting" /\ TaskBusy
  /\ faults < MaxFaults /\ faults' = faults + 1 /\ late' = TRUE
  /\ d' = [d EXCEPT !.phase = "running"]
  /\ UNCHANGED <<grace, closing, opened, display, alone, caught>>

\* What a run of the request makes of the displays, and its verdict. Putting
\* the others out, or the layout with them back, may fail and leave them as
\* they are; a display that does not appear is switched off.
Outcomes(q) ==
  LET same == [display |-> display, alone |-> alone]
      Told(effect, verdict) == [effect |-> effect, verdict |-> verdict]
  IN  CASE q.verb = "activate" ->
             {Told([display |-> q.mode, alone |-> a], "ok") : a \in {q.exclusive, alone}}
               \cup {Told([same EXCEPT !.display = "off"], "notAppeared")}
        [] q.verb = "othersBack" ->
             {IF alone /\ display = "off" THEN Told(same, "failed")
              ELSE Told([same EXCEPT !.alone = FALSE], "ok")}
        [] q.verb = "deactivate" -> {Told([display |-> "off", alone |-> FALSE], "ok")}

\* The run's end reaches the job: by the result file, or by its own exit.
Reported(n, verdict) ==
  LET j == [d EXCEPT !.runs = RemoveAt(@, n)]
  IN  IF Method = "task" THEN [j EXCEPT !.verdict = verdict, !.exiting = TRUE]
      ELSE HandleResult(j, verdict)

HelperFinishes ==
  \E n \in DOMAIN d.runs : \E o \in Outcomes(d.runs[n]) :
    /\ display' = o.effect.display /\ alone' = o.effect.alone
    /\ d' = Reported(n, o.verdict)
    /\ UNCHANGED <<grace, closing, opened, faults, late, caught>>

HelperFails ==
  \E n \in DOMAIN d.runs :
    /\ d.runs[n].verb \in Failing
    /\ faults < MaxFaults /\ faults' = faults + 1
    /\ d' = Reported(n, "failed")
    /\ UNCHANGED <<grace, closing, opened, display, alone, late, caught>>

\* The task's process ends without a verdict: nobody tells the job.
HelperDies ==
  /\ Method = "task" /\ d.runs # <<>> /\ d.runs[1].verb \in Failing
  /\ faults < MaxFaults /\ faults' = faults + 1
  /\ d' = [d EXCEPT !.runs = <<>>]
  /\ UNCHANGED <<grace, closing, opened, display, alone, late, caught>>

\* The process exits after it wrote its verdict.
HelperExits ==
  /\ d.exiting
  /\ d' = [d EXCEPT !.exiting = FALSE]
  /\ UNCHANGED <<grace, closing, opened, display, alone, faults, late, caught>>

\* The poll reads the verdict and takes the file away.
PollResult ==
  /\ Method = "task" /\ d.phase = "running" /\ d.verdict # "none"
  /\ d' = HandleResult([d EXCEPT !.verdict = "none"], d.verdict)
  /\ UNCHANGED <<grace, closing, opened, display, alone, faults, late, caught>>

DeadlineFires ==
  /\ d.phase = "running" /\ d.verdict = "none"
  /\ \/ d.runs = <<>> /\ UNCHANGED <<faults, late>>
     \/ d.runs # <<>> /\ faults < MaxFaults /\ faults' = faults + 1 /\ late' = TRUE
  /\ d' = Fail(d, "noAnswer")
  /\ UNCHANGED <<grace, closing, opened, display, alone, caught>>

Helper == HelperFinishes \/ HelperFails \/ HelperDies \/ HelperExits
Job == StartTask \/ StartTaskAnyway \/ PollResult \/ DeadlineFires
Timers == GraceEnds \/ CloseSettles

Next ==
  \/ \E l \in Launches : Ask(l) \/ Supersede(l) \/ StartWorker(l) \/ StreamEnds(l)
  \/ Helper \/ Job \/ Timers

Spec == Init /\ [][Next]_vars

\* Nothing is assumed of whoever launches or stops a stream, nor of the router
\* that a launch waits for.
Fairness ==
  /\ WF_vars(HelperFinishes) /\ WF_vars(HelperExits)
  /\ WF_vars(StartTask) /\ WF_vars(PollResult) /\ WF_vars(DeadlineFires)
  /\ WF_vars(GraceEnds) /\ WF_vars(CloseSettles)

FairSpec == Spec /\ Fairness

----------------------------------------------------------------------------
(* Properties                                                              *)
TypeOK ==
  /\ d \in [guests : GuestsAre, phase : {"idle", "waiting", "running"}, request : Requests \cup {NoRequest},
            asked : Modes \cup {"none"}, callers : SUBSET Launches, queue : Seq(Pending),
            active : Modes \cup {"none"}, runs : Seq(Requests),
            verdict : {"none", "ok", "notAppeared", "failed"}, exiting : BOOLEAN,
            launch : [Launches -> {"out", "asked", "dropped", "clear", "on"}]]
  /\ {grace, closing, opened, alone, late} \subseteq BOOLEAN
  /\ display \in Modes \cup {"off"}
  /\ faults \in 0..MaxFaults /\ caught \subseteq Launches

Waiting(l) == {n \in DOMAIN d.queue : l \in d.queue[n].callers}

(* Whoever waits for the display waits in one place, behind one operation, *)
(* whatever was joined, superseded or fell back: no launch is answered     *)
(* twice and none is forgotten.                                            *)
HeldOnce ==
  \A l \in Launches :
    IF d.launch[l] \in {"asked", "dropped"}
    THEN \/ l \in d.callers /\ Running(d) /\ Waiting(l) = {}
         \/ l \notin d.callers /\ Cardinality(Waiting(l)) = 1
    ELSE l \notin d.callers /\ Waiting(l) = {}

Holding(l) == d.launch[l] \in {"clear", "on"}

(* "goes off only once nothing streams it, judged when its grace runs out"  *)
(* (main.cpp): no switching off is under way under a stream, nor under a    *)
(* launch told that the display is ready, unless that launch was already    *)
(* under way when the delay that decided it ran out. So a take-over whose   *)
(* stream has begun, and a launch that asks once the display is going, are  *)
(* safe, whatever was joined, superseded or fell back in between.           *)
OffOnlyUnwatched ==
  Running(d) /\ d.request.verb = "deactivate" => \A l \in Launches : Holding(l) => l \in caught

(* Nor under that launch: not a property of the code, whose delays ask for  *)
(* the streams only. See the README.                                        *)
OffOnlyUnneeded ==
  Running(d) /\ d.request.verb = "deactivate" => \A l \in Launches : ~Holding(l)

(* A launch told that the display is ready finds it on, whoever it joined,  *)
(* whatever fell back, unless a run was given up at work (its verdict then  *)
(* answers the next) or it joined the return of the other displays.         *)
ReadyMeansOn ==
  [][\A l \in Launches : ~Holding(l) /\ Holding(l)' =>
       display' # "off" \/ late \/ d.request.verb = "othersBack"]_vars

(* A grace that runs ends with the display off, unless somebody streams it  *)
(* or is coming, or a run was given up: a switching off that fails is not   *)
(* tried again.                                                             *)
LastOneTurnsItOff == grace ~> late \/ display = "off" \/ \E l \in Launches : d.launch[l] # "out"

(* The owner's streams gone, the displays they put out come back, for the   *)
(* guests who stay and for nobody, unless the guest who stays was still     *)
(* under way when the grace found no stream and closed what was opened.     *)
OthersComeBack ==
  alone /\ grace ~> (\/ ~alone \/ late \/ display = "off" \/ \E l \in Owners : d.launch[l] # "out"
                    \/ \E l \in caught : d.launch[l] = "on")

(* For that guest too: not a property of the code. See the README.          *)
OthersAlwaysComeBack ==
  alone /\ grace ~> (~alone \/ late \/ display = "off" \/ \E l \in Owners : d.launch[l] # "out")

(* Nobody streams it and nobody is coming: not a property of the code, a    *)
(* launch superseded by one on another display arms no grace. See the       *)
(* README.                                                                  *)
NobodyLeavesItOn ==
  LET nobody == \A l \in Launches : d.launch[l] = "out"
  IN  nobody ~> display = "off" \/ ~nobody

(* "with a guest on it, the owner's stream leaves them on" (the header):    *)
(* not a property of the code; the choice is made when the operation is     *)
(* queued. See the README.                                                  *)
GuestKeepsTheOthers == [][~alone /\ alone' => ~On(Guests)]_vars
=============================================================================
