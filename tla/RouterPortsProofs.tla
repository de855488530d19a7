-------------------------- MODULE RouterPortsProofs --------------------------
(***************************************************************************)
(* RouterPorts for every number of hosts, ports, addresses and restarts.   *)
(***************************************************************************)
EXTENDS RouterPorts, TLAPS

USE NoneAssumption, BoundsAssumption

-----------------------------------------------------------------------------
\* A step: what host h does, on port p where it takes one, or the router's loss of p.
StepOf(h, p) ==
  \/ Start(h) \/ Crash(h)
  \/ BeginClaim(h) \/ Write(h) \/ Check(h) \/ TakeOff(h) \/ PutBack(h) \/ NothingLeft(h)
  \/ PassOver(h, p) \/ Read(h, p)
  \/ BeginRenew(h) \/ Renewed(h) \/ RemoveOld(h) \/ Anew(h) \/ RenewDone(h) \/ Renew(h, p)
  \/ BeginQuit(h) \/ Gone(h) \/ Release(h, p) \/ ReleaseNext(h, p)
  \/ RouterTurns \/ RouterForgets(p)

-----------------------------------------------------------------------------
(* Types. *)

\* A job that begins, and one that goes a step further, are jobs.
LEMMA JobBegins ==
  ASSUME TypeOK, NEW h \in Hosts, NEW step \in Steps, NEW left \in SUBSET Ports,
         Begins(h, step, left)
  PROVE  job' \in [Hosts -> Jobs]
BY DEF TypeOK, Begins, Job, Jobs

\* A job that moves on within its claim keeps its shape.
LEMMA JobGoesOn ==
  ASSUME TypeOK, NEW h \in Hosts, NEW j \in Jobs, job' = [job EXCEPT ![h] = j]
  PROVE  job' \in [Hosts -> Jobs]
BY DEF TypeOK

\* What writing an entry, renewing one and judging the renewal make of the host's job.
LEMMA WriteMoves ==
  ASSUME TypeOK, NEW h \in Hosts, Write(h)
  PROVE  /\ \A g \in Hosts \ {h} : job'[g] = job[g]
         /\ \/ Accepted(h, job[h].at) /\ job'[h].step = "check" /\ job'[h].at = job[h].at
            \/ Rejected(h, job[h].at) /\ job'[h].step = "try"
<1>1. CASE Rejected(h, job[h].at) /\ TriesNext(h)
  BY <1>1 DEF TypeOK, TriesNext, Begins, Job
<1>2. CASE /\ Accepted(h, job[h].at)
           /\ job' = [job EXCEPT ![h] = [job[h] EXCEPT !.step = "check", !.saw = None,
                                                     !.mine = table[job[h].at] = addr[h]]]
  <2>1. job'[h].step = "check" /\ job'[h].at = job[h].at
    BY <1>2 DEF TypeOK, Jobs
  <2>2. \A g \in Hosts \ {h} : job'[g] = job[g]
    BY <1>2 DEF TypeOK
  <2> QED
    BY <1>2, <2>1, <2>2
<1> QED
  BY <1>1, <1>2 DEF Write

\* A renewal that writes the next hole works on a hole that is held.
LEMMA RenewMoves ==
  ASSUME TypeOK, NEW h \in Hosts, NEW p \in Ports, Renew(h, p)
  PROVE  /\ \A g \in Hosts \ {h} : job'[g] = job[g]
         /\ Rewritten(h, p)
         /\ job'[h].step = "renewed" /\ job'[h].at = p
         /\ job'[h].left = job[h].left \ {p} /\ job'[h].lost = job[h].lost
<1>1. PICK mine \in {FALSE, table[p] = addr[h]} :
        job' = [job EXCEPT ![h] = [job[h] EXCEPT !.step = "renewed", !.at = p, !.left = @ \ {p},
                                            !.mine = mine]]
  BY DEF Renew
<1>2. /\ \A g \in Hosts \ {h} : job'[g] = job[g]
      /\ job'[h].step = "renewed" /\ job'[h].at = p
      /\ job'[h].left = job[h].left \ {p} /\ job'[h].lost = job[h].lost
  BY <1>1 DEF TypeOK, Jobs
<1>3. Rewritten(h, p)
  BY DEF Renew
<1> QED
  BY <1>2, <1>3

\* A renewal that goes on to the next hole remembers what it found lost.
LEMMA NextHoleMoves ==
  ASSUME TypeOK, NEW h \in Hosts, NEW found, NextHole(h, found)
  PROVE  /\ \A g \in Hosts \ {h} : job'[g] = job[g]
         /\ job'[h].step = "renew" /\ job'[h].left = job[h].left
         /\ job'[h].lost = job[h].lost \cup found
BY DEF TypeOK, Jobs, NextHole

\* What a renewal makes of the entry it read back.
LEMMA RenewedMoves ==
  ASSUME TypeOK, NEW h \in Hosts, Renewed(h)
  PROVE  /\ \A g \in Hosts \ {h} : job'[g] = job[g]
         /\ job'[h].left = job[h].left
         /\ \/ /\ job'[h].step = "renew" /\ job'[h].lost = job[h].lost \cup {job[h].at}
               /\ ~LeadsHere(h, Entry(job[h].at))
            \/ job'[h].step = "renew" /\ job'[h].lost = job[h].lost
            \/ /\ job'[h].step = "removeOld" /\ job'[h].lost = job[h].lost
               /\ job'[h].at = job[h].at
<1>1. CASE ~LeadsHere(h, Entry(job[h].at)) /\ NextHole(h, {job[h].at})
  BY <1>1, NextHoleMoves
<1>2. CASE NextHole(h, {})
  <2>1. job[h].lost \cup {} = job[h].lost
    OBVIOUS
  <2> QED
    BY <1>2, <2>1, NextHoleMoves
<1>3. CASE Goes(h, "removeOld")
  BY <1>3 DEF TypeOK, Jobs, Goes
<1> QED
  BY <1>1, <1>2, <1>3 DEF Renewed

\* A step keeps the types.
LEMMA StepTyped ==
  ASSUME TypeOK, JobsKeepToTheirPorts, NEW h \in Hosts, NEW p \in Ports,
         StepOf(h, p)
  PROVE  TypeOK'
<1>1. CASE Start(h)
  <2>1. job' \in [Hosts -> Jobs]
    <3>1. Begins(h, "idle", {})
      BY <1>1 DEF Start, Ends
    <3>2. {} \in SUBSET Ports /\ "idle" \in Steps
      BY DEF TypeOK, Jobs, Steps, ClaimSteps, RenewSteps
    <3> QED
      BY <3>1, <3>2, JobBegins
  <2>2. starts' \in 0..MaxStarts
    BY <1>1 DEF TypeOK, Start
  <2>3. addr' \in [Hosts -> Addresses]
    BY <1>1 DEF TypeOK, Start
  <2>4. prev' \in [Hosts -> Addresses \cup {None}]
    BY <1>1 DEF TypeOK, Start
  <2> QED
    BY <1>1, <2>1, <2>2, <2>3, <2>4 DEF TypeOK, Start
<1>2. CASE Crash(h)
  <2>1. job' \in [Hosts -> Jobs]
    <3>1. Begins(h, "off", {})
      BY <1>2 DEF Crash
    <3>2. {} \in SUBSET Ports /\ "off" \in Steps
      BY DEF TypeOK, Jobs, Steps, ClaimSteps, RenewSteps
    <3> QED
      BY <3>1, <3>2, JobBegins
  <2> QED
    BY <1>2, <2>1 DEF TypeOK, hostVars, Crash
<1>3. CASE BeginClaim(h)
  <2>1. job' \in [Hosts -> Jobs]
    <3>1. Begins(h, "try", Ports \ held[h])
      BY <1>3 DEF BeginClaim
    <3>2. Ports \ held[h] \in SUBSET Ports /\ "try" \in Steps
      BY DEF TypeOK, Jobs, Steps, ClaimSteps, RenewSteps
    <3> QED
      BY <3>1, <3>2, JobBegins
  <2> QED
    BY <1>3, <2>1 DEF TypeOK, hostVars, BeginClaim
<1>4. CASE Write(h)
  <2> DEFINE q == job[h].at
             checked == [job[h] EXCEPT !.step = "check", !.saw = None, !.mine = table[q] = addr[h]]
  <2>1. q \in Ports /\ job[h] \in Jobs
    BY <1>4 DEF TypeOK, JobsKeepToTheirPorts, Write, At, ClaimSteps
  <2>2. checked \in Jobs
    <3>1. (table[q] = addr[h]) \in BOOLEAN
      OBVIOUS
    <3> QED
      BY <2>1, <3>1 DEF Jobs, Steps, ClaimSteps
  <2>3. job' \in [Hosts -> Jobs]
    <3>1. CASE job' = [job EXCEPT ![h] = [job[h] EXCEPT !.step = "check", !.saw = None,
                                                  !.mine = table[q] = addr[h]]]
      BY <2>2, <3>1, JobGoesOn DEF TypeOK
    <3>2. CASE TriesNext(h)
      BY <2>1, <3>2, JobBegins DEF TriesNext, Jobs, Steps, ClaimSteps
    <3> QED
      BY <1>4, <3>1, <3>2 DEF Write
  <2>4. table' \in [Ports -> Addresses \cup {None}] /\ stray' \subseteq Ports
    BY <1>4, <2>1 DEF TypeOK, Write, Accepted, Rejected, Rewritten, LeftBehind, Repointed
  <2> QED
    BY <1>4, <2>3, <2>4 DEF TypeOK, hostVars, Write
<1>5. CASE Check(h)
  <2>1. job[h] \in Jobs /\ job[h].at \in Ports
    BY <1>5 DEF TypeOK, JobsKeepToTheirPorts, Check, At, ClaimSteps
  <2>2. job' \in [Hosts -> Jobs]
    <3>1. CASE TriesNext(h)
      BY <2>1, <3>1, JobBegins DEF TriesNext, Jobs, Steps, ClaimSteps
    <3>2. CASE Obtains(h)
      BY <3>2, JobBegins DEF Obtains, Ends, Steps
    <3>3. CASE Goes(h, "remove")
      <4>1. [job[h] EXCEPT !.step = "remove"] \in Jobs
        BY <2>1 DEF Jobs, Steps, ClaimSteps
      <4> QED
        BY <3>3, <4>1, JobGoesOn DEF Goes, TypeOK
    <3> QED
      BY <1>5, <3>1, <3>2, <3>3 DEF Check
  <2>3. held' \in [Hosts -> SUBSET Ports]
    BY <1>5, <2>1 DEF TypeOK, Check, Obtains
  <2> QED
    BY <1>5, <2>2, <2>3 DEF TypeOK, hostVars, Check
<1>6. CASE TakeOff(h)
  <2> DEFINE j == [job[h] EXCEPT !.step = "again"]
  <2>1. j \in Jobs
    <3>1. job[h] \in Jobs
      BY <1>6 DEF TypeOK, Jobs, TakeOff, Goes
    <3> QED
      BY <3>1 DEF TypeOK, Jobs, Steps, ClaimSteps, RenewSteps
  <2>2. job' = [job EXCEPT ![h] = j]
    BY <1>6 DEF TypeOK, Jobs, TakeOff, Goes
  <2>3. job' \in [Hosts -> Jobs]
    BY <2>1, <2>2, JobGoesOn
  <2>4. job[h].at \in Ports
    BY <1>6 DEF TypeOK, JobsKeepToTheirPorts, TakeOff, At, ClaimSteps
  <2> QED
    BY <1>6, <2>3, <2>4 DEF TypeOK, hostVars, TakeOff, TakenOff, Removed
<1>7. CASE PutBack(h)
  <2>1. job[h] \in Jobs /\ job[h].at \in Ports
    BY <1>7 DEF TypeOK, JobsKeepToTheirPorts, PutBack, At, ClaimSteps
  <2>2. job' \in [Hosts -> Jobs]
    <3>1. CASE TriesNext(h)
      BY <2>1, <3>1, JobBegins DEF TriesNext, Jobs, Steps, ClaimSteps
    <3>2. CASE Obtains(h)
      BY <3>2, JobBegins DEF Obtains, Ends, Steps
    <3> QED
      BY <1>7, <3>1, <3>2 DEF PutBack
  <2>3. held' \in [Hosts -> SUBSET Ports]
    BY <1>7, <2>1 DEF TypeOK, PutBack, Obtains
  <2>4. table' \in [Ports -> Addresses \cup {None}] /\ stray' \subseteq Ports
    BY <1>7, <2>1 DEF TypeOK, PutBack, Accepted, Rejected, Rewritten, LeftBehind, Repointed
  <2> QED
    BY <1>7, <2>2, <2>3, <2>4 DEF TypeOK, hostVars, PutBack
<1>8. CASE NothingLeft(h)
  <2>1. job' \in [Hosts -> Jobs]
    <3>1. Begins(h, "idle", {})
      BY <1>8 DEF NothingLeft, Ends
    <3>2. {} \in SUBSET Ports /\ "idle" \in Steps
      BY DEF TypeOK, Jobs, Steps, ClaimSteps, RenewSteps
    <3> QED
      BY <3>1, <3>2, JobBegins
  <2> QED
    BY <1>8, <2>1 DEF TypeOK, hostVars, NothingLeft, Ends
<1>9. CASE PassOver(h, p)
  <2> DEFINE j == [job[h] EXCEPT !.left = @ \ {p}]
  <2>1. j \in Jobs
    <3>1. job[h] \in Jobs /\ job[h].left \ {p} \subseteq Ports
      BY <1>9 DEF TypeOK, Jobs, PassOver
    <3> QED
      BY <3>1 DEF TypeOK, Jobs, Steps, ClaimSteps, RenewSteps
  <2>2. job' = [job EXCEPT ![h] = j]
    BY <1>9 DEF TypeOK, Jobs, PassOver
  <2>3. job' \in [Hosts -> Jobs]
    BY <2>1, <2>2, JobGoesOn
  <2> QED
    BY <1>9, <2>3 DEF TypeOK, hostVars, PassOver
<1>10. CASE Read(h, p)
  <2> DEFINE j == [job[h] EXCEPT !.step = "write", !.at = p, !.left = @ \ {p},
                            !.saw = Entry(p)]
  <2>1. j \in Jobs
    <3>1. job[h] \in Jobs /\ job[h].left \ {p} \subseteq Ports /\ Entry(p) \in Addresses \cup {None}
      BY <1>10 DEF TypeOK, Jobs, Read, Entry
    <3> QED
      BY <3>1 DEF TypeOK, Jobs, Steps, ClaimSteps, RenewSteps
  <2>2. job' = [job EXCEPT ![h] = j]
    BY <1>10 DEF TypeOK, Read
  <2>3. job' \in [Hosts -> Jobs]
    BY <2>1, <2>2, JobGoesOn
  <2> QED
    BY <1>10, <2>3 DEF TypeOK, hostVars, Read
<1>11. CASE BeginRenew(h)
  <2>1. job' \in [Hosts -> Jobs]
    <3>1. PICK S \in {held[h]} \cup {{q} : q \in held[h]} : Begins(h, "renew", S)
      BY <1>11 DEF BeginRenew
    <3>2. S \in SUBSET Ports /\ "renew" \in Steps
      BY DEF TypeOK, Steps, ClaimSteps, RenewSteps
    <3> QED
      BY <3>1, <3>2, JobBegins
  <2> QED
    BY <1>11, <2>1 DEF TypeOK, hostVars, BeginRenew
<1>12. CASE Renewed(h)
  <2>1. job[h] \in Jobs /\ job[h].at \in Ports
    BY <1>12 DEF TypeOK, JobsKeepToTheirPorts, Renewed, At, RenewSteps
  <2>2. job' \in [Hosts -> Jobs]
    <3>1. [job[h] EXCEPT !.step = "removeOld"] \in Jobs
      BY <2>1 DEF Jobs, Steps, RenewSteps
    <3>2. ASSUME NEW found \in SUBSET Ports
          PROVE  [job[h] EXCEPT !.step = "renew", !.at = None, !.mine = FALSE,
                                !.lost = @ \cup found] \in Jobs
      <4>1. job[h].lost \cup found \subseteq Ports
        BY <2>1 DEF Jobs
      <4> QED
        BY <2>1, <4>1 DEF Jobs, Steps, RenewSteps
    <3>3. ASSUME NEW found \in SUBSET Ports, NextHole(h, found)
          PROVE  job' \in [Hosts -> Jobs]
      <4> DEFINE j == [job[h] EXCEPT !.step = "renew", !.at = None, !.mine = FALSE,
                                     !.lost = @ \cup found]
      <4>1. j \in Jobs
        BY <3>2
      <4>2. job' = [job EXCEPT ![h] = j]
        BY <3>3 DEF NextHole
      <4> HIDE DEF j
      <4> QED
        BY <4>1, <4>2, JobGoesOn
    <3>4. CASE NextHole(h, {job[h].at}) \/ NextHole(h, {})
      BY <2>1, <3>3, <3>4
    <3>5. CASE Goes(h, "removeOld")
      BY <3>1, <3>5, JobGoesOn DEF Goes, TypeOK
    <3> QED
      BY <1>12, <3>4, <3>5 DEF Renewed
  <2> QED
    BY <1>12, <2>2 DEF TypeOK, hostVars, Renewed
<1>13. CASE RemoveOld(h)
  <2> DEFINE j == [job[h] EXCEPT !.step = "anew"]
  <2>1. j \in Jobs
    <3>1. job[h] \in Jobs
      BY <1>13 DEF TypeOK, Jobs, RemoveOld, Goes
    <3> QED
      BY <3>1 DEF TypeOK, Jobs, Steps, ClaimSteps, RenewSteps
  <2>2. job' = [job EXCEPT ![h] = j]
    BY <1>13 DEF TypeOK, Jobs, RemoveOld, Goes
  <2>3. job' \in [Hosts -> Jobs]
    BY <2>1, <2>2, JobGoesOn
  <2>4. job[h].at \in Ports
    BY <1>13 DEF TypeOK, JobsKeepToTheirPorts, RemoveOld, At, RenewSteps
  <2> QED
    BY <1>13, <2>3, <2>4 DEF TypeOK, hostVars, RemoveOld, TakenOff, Removed
<1>14. CASE Anew(h)
  <2> DEFINE j == [job[h] EXCEPT !.step = "renew", !.at = None, !.mine = FALSE,
                            !.lost = @ \cup {}]
  <2>1. j \in Jobs
    <3>1. job[h] \in Jobs /\ job[h].lost \cup {} \subseteq Ports
      BY <1>14 DEF TypeOK, Jobs, Anew, NextHole
    <3> QED
      BY <3>1 DEF TypeOK, Jobs, Steps, ClaimSteps, RenewSteps
  <2>2. job' = [job EXCEPT ![h] = j]
    BY <1>14 DEF TypeOK, Anew, NextHole
  <2>3. job' \in [Hosts -> Jobs]
    BY <2>1, <2>2, JobGoesOn
  <2>4. table' \in [Ports -> Addresses \cup {None}] /\ stray' \subseteq Ports
    BY <1>14 DEF TypeOK, Anew, Accepted, Rejected, Rewritten, LeftBehind, Repointed
  <2> QED
    BY <1>14, <2>3, <2>4 DEF TypeOK, hostVars, Anew
<1>15. CASE RenewDone(h)
  <2>1. job' \in [Hosts -> Jobs]
    <3>1. Begins(h, "idle", {})
      BY <1>15 DEF RenewDone, Ends
    <3>2. {} \in SUBSET Ports /\ "idle" \in Steps
      BY DEF TypeOK, Jobs, Steps, ClaimSteps, RenewSteps
    <3> QED
      BY <3>1, <3>2, JobBegins
  <2> QED
    BY <1>15, <2>1 DEF TypeOK, hostVars, RenewDone, Ends
<1>16. CASE Renew(h, p)
  <2>1. PICK mine \in {FALSE, table[p] = addr[h]} :
          job' = [job EXCEPT ![h] = [job[h] EXCEPT !.step = "renewed", !.at = p, !.left = @ \ {p},
                                              !.mine = mine]]
    BY <1>16 DEF Renew
  <2> DEFINE j == [job[h] EXCEPT !.step = "renewed", !.at = p, !.left = @ \ {p},
                                 !.mine = mine]
  <2>2. j \in Jobs
    <3>1. job[h] \in Jobs /\ job[h].left \ {p} \subseteq Ports
      BY DEF TypeOK, Jobs
    <3>2. mine \in BOOLEAN
      OBVIOUS
    <3> QED
      BY <3>1, <3>2 DEF Jobs, Steps, RenewSteps
  <2>3. job' \in [Hosts -> Jobs]
    <3>1. job' = [job EXCEPT ![h] = j]
      BY <2>1
    <3> HIDE DEF j
    <3> QED
      BY <3>1, <2>2, JobGoesOn
  <2>4. table' \in [Ports -> Addresses \cup {None}] /\ stray' \subseteq Ports
    BY <1>16 DEF TypeOK, Renew, Accepted, Rejected, Rewritten, LeftBehind, Repointed
  <2> QED
    BY <1>16, <2>3, <2>4 DEF TypeOK, hostVars, Renew
<1>17. CASE BeginQuit(h)
  <2>1. job' \in [Hosts -> Jobs]
    <3>1. Begins(h, "quit", held[h])
      BY <1>17 DEF BeginQuit
    <3>2. held[h] \in SUBSET Ports /\ "quit" \in Steps
      BY DEF TypeOK, Jobs, Steps, ClaimSteps, RenewSteps
    <3> QED
      BY <3>1, <3>2, JobBegins
  <2> QED
    BY <1>17, <2>1 DEF TypeOK, hostVars, BeginQuit
<1>18. CASE Gone(h)
  <2>1. job' \in [Hosts -> Jobs]
    <3>1. Begins(h, "off", {})
      BY <1>18 DEF Gone
    <3>2. {} \in SUBSET Ports /\ "off" \in Steps
      BY DEF TypeOK, Jobs, Steps, ClaimSteps, RenewSteps
    <3> QED
      BY <3>1, <3>2, JobBegins
  <2> QED
    BY <1>18, <2>1 DEF TypeOK, hostVars, Gone
<1>19. CASE Release(h, p)
  BY <1>19 DEF TypeOK, hostVars, Release, EntryRemoved, Removed, Kept, LeftBehind
<1>20. CASE ReleaseNext(h, p)
  <2> DEFINE j == [job[h] EXCEPT !.left = @ \ {p}]
  <2>1. j \in Jobs
    <3>1. job[h] \in Jobs /\ job[h].left \ {p} \subseteq Ports
      BY <1>20 DEF TypeOK, Jobs, ReleaseNext
    <3> QED
      BY <3>1 DEF TypeOK, Jobs, Steps, ClaimSteps, RenewSteps
  <2>2. job' = [job EXCEPT ![h] = j]
    BY <1>20 DEF TypeOK, Jobs, ReleaseNext
  <2>3. job' \in [Hosts -> Jobs]
    BY <2>1, <2>2, JobGoesOn
  <2> QED
    BY <1>20, <2>3 DEF TypeOK, hostVars, ReleaseNext, EntryRemoved, Removed, Kept, LeftBehind
<1>21. CASE RouterForgets(p)
  BY <1>21 DEF TypeOK, hostVars, RouterForgets, Removed
<1>22. CASE RouterTurns
  BY <1>22 DEF TypeOK, hostVars, RouterTurns
<1> QED
  BY <1>1, <1>2, <1>3, <1>4, <1>5, <1>6, <1>7, <1>8, <1>9, <1>10, <1>11, <1>12, <1>13, <1>14, <1>15, <1>16, <1>17, <1>18, <1>19, <1>20, <1>21, <1>22
     DEF StepOf

\* A step keeps a job within its ports.
LEMMA StepKeepsJobs ==
  ASSUME TypeOK, JobsKeepToTheirPorts, NEW h \in Hosts, NEW p \in Ports,
         StepOf(h, p)
  PROVE  JobsKeepToTheirPorts'
<1> USE DEF TypeOK, Jobs, hostVars, Steps, ClaimSteps, RenewSteps, JobsKeepToTheirPorts, At, MayWrite
<1> SUFFICES ASSUME NEW g \in Hosts
             PROVE  /\ At(g, "off")' => held'[g] = {}
                    /\ At(g, "quit")' => job'[g].left = held'[g]
                    /\ At(g, "write")' => MayWrite(g, job[g].saw)'
                    /\ job'[g].step \in RenewSteps => job'[g].left \subseteq held'[g]
                    /\ job'[g].step \in RenewSteps \ {"renew"} => job'[g].at \in held'[g] \ job'[g].left
                    /\ job'[g].step \in ClaimSteps => job'[g].left \cap held'[g] = {}
                    /\ job'[g].step \in ClaimSteps \ {"try"} => job'[g].at \in Ports \ held'[g]
  OBVIOUS
<1>1. CASE Start(h)
  BY <1>1 DEF Start, At, Goes, Ends, Begins, Job, Running
<1>2. CASE Crash(h)
  BY <1>2 DEF Crash, Begins, Job, Running
<1>3. CASE BeginClaim(h)
  BY <1>3 DEF BeginClaim, At, Begins, Job
<1>4. CASE Write(h)
  <2>1. CASE TriesNext(h)
    BY <1>4, <2>1 DEF Write, TriesNext, Begins, Job
  <2>2. CASE job' = [job EXCEPT ![h] = [job[h] EXCEPT !.step = "check", !.saw = None,
                                       !.mine = table[job[h].at] = addr[h]]]
    <3>1. job'[h].step = "check" /\ job'[h].at = job[h].at
      BY <2>2
    <3> QED
      BY <1>4, <2>2, <3>1 DEF Write
  <2> QED
    BY <1>4, <2>1, <2>2 DEF Write
<1>5. CASE Check(h)
  <2>1. \/ job' = [job EXCEPT ![h] = Job("try", job[h].left)] /\ held' = held
        \/ /\ job' = [job EXCEPT ![h] = Job("idle", {})]
           /\ held' = [held EXCEPT ![h] = @ \cup {job[h].at}]
        \/ job' = [job EXCEPT ![h].step = "remove"] /\ held' = held
    BY <1>5 DEF Check, TriesNext, Begins, Obtains, Ends, Goes
  <2>2. addr' = addr /\ prev' = prev /\ job[h].step = "check"
    BY <1>5 DEF Check
  <2>3. CASE g # h
    BY <2>1, <2>2, <2>3
  <2>4. CASE g = h
    BY <2>1, <2>2, <2>4 DEF Job
  <2> QED
    BY <2>3, <2>4
<1>6. CASE TakeOff(h)
  BY <1>6 DEF TakeOff, At, TakenOff, Removed, Goes
<1>7. CASE PutBack(h)
  BY <1>7 DEF PutBack, At, Accepted, Rejected, Rewritten, LeftBehind, Repointed, Obtains, TriesNext, Begins, Ends, Job
<1>8. CASE NothingLeft(h)
  BY <1>8 DEF NothingLeft, At, Ends, Begins, Job
<1>9. CASE PassOver(h, p)
  BY <1>9 DEF PassOver, At
<1>10. CASE Read(h, p)
  BY <1>10 DEF Read, At, MayWrite, Entry
<1>11. CASE BeginRenew(h)
  BY <1>11 DEF BeginRenew, At, Begins, Job
<1>12. CASE Renewed(h)
  <2>1. ASSUME NEW found, NextHole(h, found)
        PROVE  job'[h].step = "renew" /\ job'[h].left = job[h].left
    BY <2>1 DEF NextHole
  <2>2. CASE Goes(h, "removeOld")
    BY <1>12, <2>2 DEF Renewed, Goes
  <2>3. CASE NextHole(h, {job[h].at}) \/ NextHole(h, {})
    <3>1. job'[h].step = "renew" /\ job'[h].left = job[h].left
      BY <2>1, <2>3
    <3>2. g # h => job'[g] = job[g]
      BY <2>3 DEF NextHole
    <3> QED
      BY <1>12, <3>1, <3>2 DEF Renewed
  <2> QED
    BY <1>12, <2>2, <2>3 DEF Renewed
<1>13. CASE RemoveOld(h)
  BY <1>13 DEF RemoveOld, At, TakenOff, Removed, Goes
<1>14. CASE Anew(h)
  BY <1>14 DEF Anew, At, Accepted, Rejected, Rewritten, LeftBehind, Repointed, NextHole
<1>15. CASE RenewDone(h)
  BY <1>15 DEF RenewDone, At, Ends, Begins, Job
<1>16. CASE Renew(h, p)
  <2>1. PICK mine \in {FALSE, table[p] = addr[h]} :
          job' = [job EXCEPT ![h] = [job[h] EXCEPT !.step = "renewed", !.at = p, !.left = @ \ {p},
                                              !.mine = mine]]
    BY <1>16 DEF Renew
  <2>2. /\ job'[h].step = "renewed" /\ job'[h].at = p /\ job'[h].left = job[h].left \ {p}
        /\ g # h => job'[g] = job[g]
    BY <2>1
  <2> QED
    BY <1>16, <2>2 DEF Renew, At
<1>17. CASE BeginQuit(h)
  BY <1>17 DEF BeginQuit, At, Begins, Job
<1>18. CASE Gone(h)
  BY <1>18 DEF Gone, At, Begins, Job
<1>19. CASE Release(h, p)
  BY <1>19 DEF Release, At, EntryRemoved, Removed, Kept, LeftBehind
<1>20. CASE ReleaseNext(h, p)
  <2>1. /\ job'[h].step = "quit" /\ job'[h].left = job[h].left \ {p}
        /\ g # h => job'[g] = job[g]
    BY <1>20 DEF ReleaseNext, At
  <2>2. held'[h] = held[h] \ {p} /\ (g # h => held'[g] = held[g])
    BY <1>20 DEF ReleaseNext
  <2> QED
    BY <1>20, <2>1, <2>2 DEF ReleaseNext, At
<1>21. CASE RouterForgets(p)
  BY <1>21 DEF RouterForgets, Removed
<1>22. CASE RouterTurns
  BY <1>22 DEF RouterTurns
<1> QED
  BY <1>1, <1>2, <1>3, <1>4, <1>5, <1>6, <1>7, <1>8, <1>9, <1>10, <1>11, <1>12, <1>13, <1>14, <1>15, <1>16, <1>17, <1>18, <1>19, <1>20, <1>21, <1>22
     DEF StepOf

\* The only step that gives an address gives a free one.
LEMMA StepKeepsAddresses ==
  ASSUME TypeOK, AddressesApart, NEW h \in Hosts, NEW p \in Ports,
         StepOf(h, p)
  PROVE  AddressesApart'
<1> USE DEF TypeOK, Jobs, hostVars, Steps, ClaimSteps, RenewSteps, AddressesApart, Running
<1>1. CASE Start(h)
  BY <1>1 DEF Start, At, Goes, Ends, Begins, Job, Running
<1>2. CASE Crash(h)
  BY <1>2 DEF Crash, Begins, Job, Running
<1>3. CASE BeginClaim(h)
  BY <1>3 DEF BeginClaim, At, Begins, Job
<1>4. CASE Write(h)
  BY <1>4 DEF Write, At, Accepted, Rejected, Rewritten, LeftBehind, Repointed, TriesNext, Begins, Job
<1>5. CASE Check(h)
  BY <1>5 DEF Check, At, TriesNext, Begins, Job, Obtains, Ends, Goes, LeadsHere, Entry
<1>6. CASE TakeOff(h)
  BY <1>6 DEF TakeOff, At, TakenOff, Removed, Goes
<1>7. CASE PutBack(h)
  BY <1>7 DEF PutBack, At, Accepted, Rejected, Rewritten, LeftBehind, Repointed, Obtains, TriesNext, Begins, Ends, Job
<1>8. CASE NothingLeft(h)
  BY <1>8 DEF NothingLeft, At, Ends, Begins, Job
<1>9. CASE PassOver(h, p)
  BY <1>9 DEF PassOver, At
<1>10. CASE Read(h, p)
  BY <1>10 DEF Read, At, MayWrite, Entry
<1>11. CASE BeginRenew(h)
  BY <1>11 DEF BeginRenew, At, Begins, Job
<1>12. CASE Renewed(h)
  BY <1>12 DEF Renewed, At, NextHole, LeadsHere, Entry, Goes
<1>13. CASE RemoveOld(h)
  BY <1>13 DEF RemoveOld, At, TakenOff, Removed, Goes
<1>14. CASE Anew(h)
  BY <1>14 DEF Anew, At, Accepted, Rejected, Rewritten, LeftBehind, Repointed, NextHole
<1>15. CASE RenewDone(h)
  BY <1>15 DEF RenewDone, At, Ends, Begins, Job
<1>16. CASE Renew(h, p)
  BY <1>16 DEF Renew, At, Accepted, Rejected, Rewritten, LeftBehind, Repointed
<1>17. CASE BeginQuit(h)
  BY <1>17 DEF BeginQuit, At, Begins, Job
<1>18. CASE Gone(h)
  BY <1>18 DEF Gone, At, Begins, Job
<1>19. CASE Release(h, p)
  BY <1>19 DEF Release, At, EntryRemoved, Removed, Kept, LeftBehind
<1>20. CASE ReleaseNext(h, p)
  BY <1>20 DEF ReleaseNext, At, EntryRemoved, Removed, Kept, LeftBehind
<1>21. CASE RouterForgets(p)
  BY <1>21 DEF RouterForgets, Removed
<1>22. CASE RouterTurns
  BY <1>22 DEF RouterTurns
<1> QED
  BY <1>1, <1>2, <1>3, <1>4, <1>5, <1>6, <1>7, <1>8, <1>9, <1>10, <1>11, <1>12, <1>13, <1>14, <1>15, <1>16, <1>17, <1>18, <1>19, <1>20, <1>21, <1>22
     DEF StepOf

\* An entry leaves its host only into nobody's hands, or a dead process's.
LEMMA StepKeepsEntries ==
  ASSUME TypeOK, AddressesApart, JobsKeepToTheirPorts, LostStaysLost, EntriesAreCounted, NEW h \in Hosts, NEW p \in Ports,
         StepOf(h, p)
  PROVE  EntriesAreCounted'
<1> USE DEF TypeOK, Jobs, hostVars, Steps, ClaimSteps, RenewSteps, AddressesApart, JobsKeepToTheirPorts, LostStaysLost, EntriesAreCounted, At, Running, Counts
<1> SUFFICES ASSUME NEW q \in Ports, q \notin stray', table'[q] # None
             PROVE  \E g \in Hosts : Running(g)' /\ table'[q] = addr'[g] /\ Counts(g, q)'
  OBVIOUS
<1>1. CASE Start(h)
  BY <1>1 DEF Start, At, Goes, Ends, Begins, Job, Running
<1>2. CASE Crash(h)
  BY <1>2 DEF Crash, Begins, Job, Running
<1>3. CASE BeginClaim(h)
  BY <1>3 DEF BeginClaim, At, Begins, Job
<1>4. CASE Write(h)
  <2> DEFINE r == job[h].at
  <2>1. r \in Ports /\ job[h].step = "write" /\ held' = held /\ addr' = addr
    BY <1>4 DEF Write
  <2>2. \A g \in Hosts \ {h} : job'[g] = job[g]
    BY <1>4, WriteMoves
  <2>3. CASE Rejected(h, r) /\ job'[h].step = "try"
    <3>1. table'[q] = table[q] /\ q \notin stray
      BY <2>1, <2>3 DEF Rejected, LeftBehind
    <3> QED
      BY <2>1, <2>2, <2>3, <3>1
  <2>4. CASE Accepted(h, r) /\ job'[h].step = "check" /\ job'[h].at = r
    <3>1. CASE Repointed(h, r) /\ q = r
      BY <2>1, <2>4, <3>1 DEF Repointed
    <3>2. CASE (Repointed(h, r) /\ q # r) \/ UNCHANGED <<table, stray>>
      <4>1. q \notin stray /\ table'[q] = table[q]
        BY <2>1, <3>2 DEF Repointed
      <4> QED
        BY <2>1, <2>2, <2>4, <4>1
    <3> QED
      BY <2>4, <3>1, <3>2 DEF Accepted
  <2> QED
    BY <1>4, <2>3, <2>4, WriteMoves
<1>5. CASE Check(h)
  BY <1>5 DEF Check, At, TriesNext, Begins, Job, Obtains, Ends, Goes, LeadsHere, Entry
<1>6. CASE TakeOff(h)
  BY <1>6 DEF TakeOff, At, TakenOff, Removed, Goes
<1>7. CASE PutBack(h)
  <2> DEFINE r == job[h].at
  <2>1. r \in Ports /\ job[h].step = "again" /\ addr' = addr
    BY <1>7 DEF PutBack
  <2>2. \A g \in Hosts \ {h} : job'[g] = job[g] /\ held'[g] = held[g]
    BY <1>7 DEF PutBack, Obtains, TriesNext, Begins, Ends
  <2>3. CASE Accepted(h, r) /\ Obtains(h)
    <3>1. job'[h].step = "idle" /\ held'[h] = held[h] \cup {r}
      BY <2>3 DEF Obtains, Ends, Begins, Job
    <3>2. CASE Repointed(h, r) /\ q = r
      BY <2>1, <3>1, <3>2 DEF Repointed
    <3>3. CASE (Repointed(h, r) /\ q # r) \/ UNCHANGED <<table, stray>>
      <4>1. q \notin stray /\ table'[q] = table[q]
        BY <2>1, <3>3 DEF Repointed
      <4> QED
        BY <2>1, <2>2, <3>1, <4>1
    <3> QED
      BY <2>3, <3>2, <3>3 DEF Accepted
  <2>4. CASE Rejected(h, r) /\ TriesNext(h) /\ UNCHANGED held
    <3>1. job'[h].step = "try" /\ held' = held
      BY <2>4 DEF TriesNext, Begins, Job
    <3>2. q \notin stray /\ table'[q] = table[q] /\ (q = r => table[q] # addr[h])
      BY <2>1, <2>4 DEF Rejected, LeftBehind
    <3> QED
      BY <2>1, <2>2, <3>1, <3>2
  <2> QED
    BY <1>7, <2>3, <2>4 DEF PutBack
<1>8. CASE NothingLeft(h)
  BY <1>8 DEF NothingLeft, At, Ends, Begins, Job
<1>9. CASE PassOver(h, p)
  BY <1>9 DEF PassOver, At
<1>10. CASE Read(h, p)
  BY <1>10 DEF Read, At, MayWrite, Entry
<1>11. CASE BeginRenew(h)
  BY <1>11 DEF BeginRenew, At, Begins, Job
<1>12. CASE Renewed(h)
  <2>1. table' = table /\ held' = held /\ addr' = addr /\ stray' = stray /\ job[h].step = "renewed"
    BY <1>12 DEF Renewed
  <2>2. job'[h].step \in {"renew", "removeOld"} /\ \A g \in Hosts \ {h} : job'[g] = job[g]
    BY <1>12, RenewedMoves
  <2> QED
    BY <2>1, <2>2
<1>13. CASE RemoveOld(h)
  BY <1>13 DEF RemoveOld, At, TakenOff, Removed, Goes
<1>14. CASE Anew(h)
  BY <1>14 DEF Anew, At, Accepted, Rejected, Rewritten, LeftBehind, Repointed, NextHole
<1>15. CASE RenewDone(h)
  BY <1>15 DEF RenewDone, At, Ends, Begins, Job
<1>16. CASE Renew(h, p)
  <2>1. held' = held /\ addr' = addr /\ job[h].step = "renew" /\ p \in held[h]
    BY <1>16 DEF Renew
  <2>2. job'[h].step = "renewed" /\ \A g \in Hosts \ {h} : job'[g] = job[g]
    BY <1>16, RenewMoves
  <2>3. CASE Repointed(h, p) /\ q = p
    BY <2>1, <2>2, <2>3 DEF Repointed
  <2>4. CASE (Repointed(h, p) /\ q # p) \/ UNCHANGED <<table, stray>>
    <3>1. q \notin stray /\ table'[q] = table[q]
      BY <2>4 DEF Repointed
    <3> QED
      BY <2>1, <2>2, <3>1
  <2> QED
    BY <1>16, <2>3, <2>4, RenewMoves DEF Rewritten
<1>17. CASE BeginQuit(h)
  BY <1>17 DEF BeginQuit, At, Begins, Job
<1>18. CASE Gone(h)
  BY <1>18 DEF Gone, At, Begins, Job
<1>19. CASE Release(h, p)
  BY <1>19 DEF Release, At, EntryRemoved, Removed, Kept, LeftBehind
<1>20. CASE ReleaseNext(h, p)
  BY <1>20 DEF ReleaseNext, At, EntryRemoved, Removed, Kept, LeftBehind
<1>21. CASE RouterForgets(p)
  BY <1>21 DEF RouterForgets, Removed
<1>22. CASE RouterTurns
  BY <1>22 DEF RouterTurns
<1> QED
  BY <1>1, <1>2, <1>3, <1>4, <1>5, <1>6, <1>7, <1>8, <1>9, <1>10, <1>11, <1>12, <1>13, <1>14, <1>15, <1>16, <1>17, <1>18, <1>19, <1>20, <1>21, <1>22
     DEF StepOf

\* Only a host itself makes an entry lead to it again.
LEMMA StepKeepsLost ==
  ASSUME TypeOK, AddressesApart, JobsKeepToTheirPorts, LostStaysLost, NEW h \in Hosts, NEW p \in Ports,
         StepOf(h, p)
  PROVE  LostStaysLost'
<1> USE DEF TypeOK, Jobs, hostVars, Steps, ClaimSteps, RenewSteps, AddressesApart, JobsKeepToTheirPorts, LostStaysLost, At, Running
<1> SUFFICES ASSUME NEW g \in Hosts, job'[g].step \in RenewSteps, NEW q \in job'[g].lost
             PROVE  /\ table'[q] # addr'[g]
                    /\ q \notin job'[g].left /\ (job'[g].step # "renew" => q # job'[g].at)
  OBVIOUS
<1>1. CASE Start(h)
  BY <1>1 DEF Start, At, Goes, Ends, Begins, Job, Running
<1>2. CASE Crash(h)
  BY <1>2 DEF Crash, Begins, Job, Running
<1>3. CASE BeginClaim(h)
  BY <1>3 DEF BeginClaim, At, Begins, Job
<1>4. CASE Write(h)
  <2> DEFINE r == job[h].at
  <2>1. r \in Ports /\ addr' = addr /\ job[h].step = "write"
    BY <1>4 DEF Write
  <2>2. g # h /\ job'[g] = job[g]
    BY <1>4, WriteMoves
  <2>3. Accepted(h, r) \/ Rejected(h, r)
    BY <1>4, WriteMoves
  <2>4. table'[q] = table[q] \/ table'[q] = addr[h]
    BY <2>1, <2>2, <2>3 DEF Accepted, Rejected, Rewritten, LeftBehind, Repointed
  <2>5. Running(h) /\ Running(g)
    BY <2>1, <2>2
  <2> QED
    BY <2>1, <2>2, <2>4, <2>5
<1>5. CASE Check(h)
  BY <1>5 DEF Check, At, TriesNext, Begins, Job, Obtains, Ends, Goes, LeadsHere, Entry
<1>6. CASE TakeOff(h)
  BY <1>6 DEF TakeOff, At, TakenOff, Removed, Goes
<1>7. CASE PutBack(h)
  BY <1>7 DEF PutBack, At, Accepted, Rejected, Rewritten, LeftBehind, Repointed, Obtains, TriesNext, Begins, Ends, Job
<1>8. CASE NothingLeft(h)
  BY <1>8 DEF NothingLeft, At, Ends, Begins, Job
<1>9. CASE PassOver(h, p)
  BY <1>9 DEF PassOver, At
<1>10. CASE Read(h, p)
  BY <1>10 DEF Read, At, MayWrite, Entry
<1>11. CASE BeginRenew(h)
  BY <1>11 DEF BeginRenew, At, Begins, Job
<1>12. CASE Renewed(h)
  <2>1. table' = table /\ addr' = addr /\ job[h].step = "renewed"
    BY <1>12 DEF Renewed
  <2>2. \A k \in Hosts \ {h} : job'[k] = job[k]
    BY <1>12, RenewedMoves
  <2>3. CASE g # h
    BY <2>1, <2>2, <2>3
  <2>4. CASE g = h
    <3>1. q \in job[h].lost \/ (q = job[h].at /\ ~LeadsHere(h, Entry(q)))
      BY <1>12, <2>4, RenewedMoves
    <3>2. table[q] # addr[h]
      BY <2>1, <3>1 DEF LeadsHere, Entry
    <3>3. job'[h].left = job[h].left
      BY <1>12, RenewedMoves
    <3>4. q \notin job[h].left
      BY <2>1, <2>4, <3>1
    <3>5. job'[h].step # "renew" => q # job'[h].at
      BY <1>12, <2>1, <2>4, RenewedMoves
    <3> QED
      BY <2>1, <2>4, <3>2, <3>3, <3>4, <3>5
  <2> QED
    BY <2>3, <2>4
<1>13. CASE RemoveOld(h)
  BY <1>13 DEF RemoveOld, At, TakenOff, Removed, Goes
<1>14. CASE Anew(h)
  BY <1>14 DEF Anew, At, Accepted, Rejected, Rewritten, LeftBehind, Repointed, NextHole
<1>15. CASE RenewDone(h)
  BY <1>15 DEF RenewDone, At, Ends, Begins, Job
<1>16. CASE Renew(h, p)
  <2>1. addr' = addr /\ job[h].step = "renew" /\ p \in job[h].left
    BY <1>16 DEF Renew
  <2>2. \A k \in Hosts \ {h} : job'[k] = job[k]
    BY <1>16, RenewMoves
  <2>3. table'[q] = table[q] \/ (q = p /\ table'[q] = addr[h])
    BY <1>16, RenewMoves DEF Accepted, Rejected, Rewritten, LeftBehind, Repointed
  <2>4. CASE g # h
    <3>1. job[g].step # "off" /\ addr[g] # addr[h]
      BY <2>1, <2>2, <2>4
    <3> QED
      BY <2>1, <2>2, <2>3, <2>4, <3>1
  <2>5. CASE g = h
    BY <1>16, <2>1, <2>3, <2>5, RenewMoves
  <2> QED
    BY <2>4, <2>5
<1>17. CASE BeginQuit(h)
  BY <1>17 DEF BeginQuit, At, Begins, Job
<1>18. CASE Gone(h)
  BY <1>18 DEF Gone, At, Begins, Job
<1>19. CASE Release(h, p)
  BY <1>19 DEF Release, At, EntryRemoved, Removed, Kept, LeftBehind
<1>20. CASE ReleaseNext(h, p)
  BY <1>20 DEF ReleaseNext, At, EntryRemoved, Removed, Kept, LeftBehind
<1>21. CASE RouterForgets(p)
  BY <1>21 DEF RouterForgets, Removed
<1>22. CASE RouterTurns
  BY <1>22 DEF RouterTurns
<1> QED
  BY <1>1, <1>2, <1>3, <1>4, <1>5, <1>6, <1>7, <1>8, <1>9, <1>10, <1>11, <1>12, <1>13, <1>14, <1>15, <1>16, <1>17, <1>18, <1>19, <1>20, <1>21, <1>22
     DEF StepOf

\* A step upsets a port that is in order only as Upset says.
LEMMA StepStaysInOrder ==
  ASSUME TypeOK, AddressesApart, JobsKeepToTheirPorts, NEW h \in Hosts, NEW p \in Ports,
         StepOf(h, p), NEW q \in Ports, InOrder(q)
  PROVE  InOrder(q)' \/ Upset(q)
<1> SUFFICES ASSUME NEW g \in Hosts, q \in held'[g], table'[q] # addr'[g]
             PROVE  Upset(q)
  BY DEF InOrder
<1> USE DEF TypeOK, Jobs, hostVars, Steps, ClaimSteps, RenewSteps, AddressesApart, JobsKeepToTheirPorts, At, Running, InOrder
<1> DEFINE r == job[h].at
<1>0. ASSUME r = q, job'[h] # job[h],
             \/ At(h, "removeOld")
             \/ At(h, "write") /\ (table[q] # job[h].saw \/ table[q] = prev[h])
             \/ At(h, "check") /\ Entry(q) = None
             \/ At(h, "remove") /\ table[q] # addr[h]
             \/ At(h, "again") /\ table[q] \notin {None, addr[h]}
      PROVE  Upset(q)
  BY <1>0 DEF Upset
<1>1. CASE Start(h)
  BY <1>1 DEF Start, Ends, Begins, Job
<1>2. CASE Crash(h)
  BY <1>2 DEF Crash, Begins, Job
<1>3. CASE BeginClaim(h)
  BY <1>3 DEF BeginClaim
<1>4. CASE Write(h)
  <2>1. r \in Ports /\ job[h].step = "write" /\ held' = held /\ addr' = addr /\ job'[h] # job[h]
    BY <1>4, WriteMoves DEF Write
  <2>2. table'[q] = table[q] \/ (q = r /\ table'[q] = addr[h])
    BY <1>4, <2>1, WriteMoves DEF Accepted, Rejected, Repointed
  <2>3. table[q] = addr[g] /\ q = r /\ g # h
    BY <2>1, <2>2
  <2>4. table[q] # addr[h] /\ table[q] # None
    BY <2>1, <2>3
  <2> QED
    BY <2>1, <2>3, <2>4, <1>0 DEF MayWrite
<1>5. CASE Check(h)
  <2>1. job[h].step = "check" /\ table' = table /\ addr' = addr
    BY <1>5 DEF Check
  <2>2. LeadsHere(h, Entry(r)) /\ Obtains(h)
    BY <1>5, <2>1 DEF Check
  <2>3. q = r /\ g = h /\ table[q] # addr[h] /\ job'[h].step = "idle"
    BY <2>1, <2>2 DEF Obtains, Ends, Begins, Job
  <2> QED
    BY <2>1, <2>2, <2>3, <1>0 DEF LeadsHere, Entry
<1>6. CASE TakeOff(h)
  <2>1. job[h].step = "remove" /\ job'[h].step = "again" /\ held' = held /\ addr' = addr
    BY <1>6 DEF TakeOff, Goes
  <2>2. r \in Ports \ held[h] /\ (q # r => table'[q] = table[q])
    BY <1>6, <2>1 DEF TakeOff, TakenOff, Removed
  <2>3. q = r /\ table[q] = addr[g] /\ g # h
    BY <2>1, <2>2
  <2>4. table[q] # addr[h]
    BY <2>1, <2>3
  <2> QED
    BY <2>1, <2>3, <2>4, <1>0
<1>7. CASE PutBack(h)
  <2>1. r \in Ports \ held[h] /\ job[h].step = "again" /\ addr' = addr
    BY <1>7 DEF PutBack
  <2>2. job'[h].step \in {"idle", "try"}
    BY <1>7 DEF PutBack, Obtains, TriesNext, Begins, Ends, Job
  <2>3. q # r => table'[q] = table[q] /\ held'[g] \cap {q} = held[g] \cap {q}
    BY <1>7, <2>1 DEF PutBack, Accepted, Rejected, Repointed, Obtains
  <2>4. q = r
    BY <2>1, <2>3
  <2>5. table[q] \notin {None, addr[h]}
    <3>1. CASE g = h
      BY <1>7, <2>1, <2>4, <3>1 DEF PutBack, Accepted, Repointed, Obtains
    <3>2. CASE g # h
      <4>1. q \in held[g] /\ table[q] = addr[g]
        BY <1>7, <3>2 DEF PutBack, Obtains
      <4> QED
        BY <2>1, <3>2, <4>1
    <3> QED
      BY <3>1, <3>2
  <2> QED
    BY <2>1, <2>2, <2>4, <2>5, <1>0
<1>8. CASE NothingLeft(h)
  BY <1>8 DEF NothingLeft
<1>9. CASE PassOver(h, p)
  BY <1>9 DEF PassOver
<1>10. CASE Read(h, p)
  BY <1>10 DEF Read
<1>11. CASE BeginRenew(h)
  BY <1>11 DEF BeginRenew
<1>12. CASE Renewed(h)
  BY <1>12 DEF Renewed
<1>13. CASE RemoveOld(h)
  <2>1. job[h].step = "removeOld" /\ job'[h].step = "anew" /\ held' = held /\ addr' = addr
    BY <1>13 DEF RemoveOld, Goes
  <2>2. q # r => table'[q] = table[q]
    BY <1>13, <2>1 DEF RemoveOld, TakenOff, Removed
  <2> QED
    BY <2>1, <2>2, <1>0
<1>14. CASE Anew(h)
  <2>1. r \in held[h] /\ job[h].step = "anew" /\ held' = held /\ addr' = addr
    BY <1>14 DEF Anew
  <2>2. table'[q] = table[q] \/ (q = r /\ table'[q] = addr[h])
    BY <1>14, <2>1 DEF Anew, Rewritten, Repointed
  <2> QED
    BY <2>1, <2>2
<1>15. CASE RenewDone(h)
  BY <1>15 DEF RenewDone
<1>16. CASE Renew(h, p)
  <2>1. p \in held[h] /\ job[h].step = "renew" /\ held' = held /\ addr' = addr
    BY <1>16 DEF Renew
  <2>2. table'[q] = table[q] \/ (q = p /\ table'[q] = addr[h])
    BY <1>16, RenewMoves DEF Rewritten, Repointed
  <2> QED
    BY <2>1, <2>2
<1>17. CASE BeginQuit(h)
  BY <1>17 DEF BeginQuit
<1>18. CASE Gone(h)
  BY <1>18 DEF Gone
<1>19. CASE Release(h, p)
  <2>1. p \in held[h] /\ job[h].step = "idle" /\ addr' = addr
    BY <1>19 DEF Release
  <2>2. q # p => table'[q] = table[q]
    BY <1>19 DEF Release, EntryRemoved, Removed, Kept
  <2>3. held' = [held EXCEPT ![h] = @ \ {p}]
    BY <1>19 DEF Release
  <2> QED
    BY <2>1, <2>2, <2>3
<1>20. CASE ReleaseNext(h, p)
  <2>1. p \in held[h] /\ job[h].step = "quit" /\ addr' = addr
    BY <1>20 DEF ReleaseNext
  <2>2. q # p => table'[q] = table[q]
    BY <1>20 DEF ReleaseNext, EntryRemoved, Removed, Kept
  <2>3. held' = [held EXCEPT ![h] = @ \ {p}]
    BY <1>20 DEF ReleaseNext
  <2> QED
    BY <2>1, <2>2, <2>3
<1>21. CASE RouterForgets(p)
  <2>1. CASE p = q
    BY <1>21, <2>1 DEF Upset
  <2>2. CASE p # q
    BY <1>21, <2>2 DEF RouterForgets, Removed
  <2> QED
    BY <2>1, <2>2
<1>22. CASE RouterTurns
  BY <1>22 DEF RouterTurns
<1> QED
  BY <1>1, <1>2, <1>3, <1>4, <1>5, <1>6, <1>7, <1>8, <1>9, <1>10, <1>11, <1>12, <1>13, <1>14, <1>15, <1>16, <1>17, <1>18, <1>19, <1>20, <1>21, <1>22
     DEF StepOf

-----------------------------------------------------------------------------
(* The invariant. *)

\* It holds at the start: no worker has begun and every entry is left from before.
LEMMA InitInvariant == Init => PortsInvariant
<1> SUFFICES ASSUME Init PROVE PortsInvariant
  OBVIOUS
<1>1. \A h \in Hosts : job[h] = Job("idle", {}) /\ held[h] = {}
  BY DEF Init
<1>2. TypeOK
  <2>1. Job("idle", {}) \in Jobs
    BY DEF Job, Jobs, Steps
  <2>2. job \in [Hosts -> Jobs]
    BY <2>1 DEF Init
  <2> QED
    BY <2>2 DEF Init, TypeOK
<1>3. AddressesApart
  BY DEF Init, AddressesApart
<1>4. JobsKeepToTheirPorts
  BY <1>1 DEF JobsKeepToTheirPorts, Job, At, ClaimSteps, RenewSteps
<1>6. EntriesAreCounted
  BY DEF Init, EntriesAreCounted
<1>7. LostStaysLost
  BY <1>1 DEF LostStaysLost, Job, RenewSteps
<1> QED
  BY <1>2, <1>3, <1>4, <1>6, <1>7 DEF PortsInvariant

\* A step of a host, on some port, and a loss of the router's keep it.
LEMMA StepKeepsInvariant ==
  ASSUME PortsInvariant, NEW h \in Hosts, NEW p \in Ports,
         StepOf(h, p)
  PROVE  PortsInvariant'
BY StepTyped, StepKeepsJobs, StepKeepsAddresses, StepKeepsEntries, StepKeepsLost
   DEF PortsInvariant

\* So does a step that changes nothing.
LEMMA StutterKeepsInvariant == PortsInvariant /\ UNCHANGED vars => PortsInvariant'
<1> SUFFICES ASSUME PortsInvariant, UNCHANGED vars PROVE PortsInvariant'
  OBVIOUS
<1>1. /\ table' = table /\ addr' = addr /\ prev' = prev /\ starts' = starts
      /\ held' = held /\ job' = job /\ stray' = stray
  BY DEF vars, hostVars
<1>2. TypeOK' /\ AddressesApart'
  BY <1>1 DEF PortsInvariant, TypeOK, AddressesApart, Running, vars
<1>3. JobsKeepToTheirPorts'
  BY <1>1 DEF PortsInvariant, JobsKeepToTheirPorts, At, MayWrite
<1>5. EntriesAreCounted'
  BY <1>1 DEF PortsInvariant, EntriesAreCounted, Running, Counts
<1>6. LostStaysLost'
  BY <1>1 DEF PortsInvariant, LostStaysLost
<1> QED
  BY <1>2, <1>3, <1>5, <1>6 DEF PortsInvariant

\* The invariant holds in every state, however many hosts interleave their requests and
\* whatever earlier lives left on the router (RouterPortCore's jobs and the router).
THEOREM PortsCorrect == Spec => []PortsInvariant
<1>1. Init => PortsInvariant
  BY InitInvariant
<1>2. PortsInvariant /\ [Next]_vars => PortsInvariant'
  <2>1. ASSUME PortsInvariant, Next PROVE PortsInvariant'
    <3>1. \E h \in Hosts, p \in Ports : StepOf(h, p)
      BY <2>1, SomeAssumption DEF Next, Claiming, Renewing, Releasing, StepOf
    <3> QED
      BY <2>1, <3>1, StepKeepsInvariant
  <2> QED
    BY <2>1, StutterKeepsInvariant
<1> QED
  BY <1>1, <1>2, PTL DEF Spec

-----------------------------------------------------------------------------
\* The types of the router's table and of what the hosts keep.
THEOREM PortsTyped == Spec => []TypeOK
<1>1. PortsInvariant => TypeOK
  BY DEF PortsInvariant
<1> QED
  BY <1>1, PortsCorrect, PTL

\* A port in order stays in order but for the causes the property names, whatever the
\* hosts interleave and whatever the router does (RouterPortCore's jobs).
THEOREM PortsStayInOrder == Spec => StaysInOrder
<1>1. PortsInvariant /\ [Next]_vars =>
        [\A p \in Ports : InOrder(p) => InOrder(p)' \/ Upset(p)]_vars
  <2> SUFFICES ASSUME PortsInvariant, Next, NEW q \in Ports, InOrder(q)
               PROVE  InOrder(q)' \/ Upset(q)
    OBVIOUS
  <2>1. PICK h \in Hosts : \E p \in Ports : StepOf(h, p)
    BY SomeAssumption DEF Next, Claiming, Renewing, Releasing, StepOf
  <2>2. PICK p \in Ports : StepOf(h, p)
    BY <2>1
  <2> QED
    BY <2>2, StepStaysInOrder DEF PortsInvariant
<1> QED
  BY <1>1, PortsCorrect, PTL DEF Spec, StaysInOrder

\* Two hosts hold one port only where the port is out of order: its entry leads to one
\* of them at most, since they share no address (RouterPortCore.h:55).
THEOREM PortsSharedOutOfOrder ==
  Spec => [](\A g, h \in Hosts : g # h => \A p \in held[g] \cap held[h] : ~InOrder(p))
<1>1. PortsInvariant =>
        \A g, h \in Hosts : g # h => \A p \in held[g] \cap held[h] : ~InOrder(p)
  <2> SUFFICES ASSUME PortsInvariant, NEW g \in Hosts, NEW h \in Hosts, g # h,
                      NEW p \in held[g] \cap held[h], InOrder(p)
               PROVE  FALSE
    OBVIOUS
  <2>1. table[p] = addr[g] /\ table[p] = addr[h]
    BY DEF InOrder
  <2>2. Running(g) /\ Running(h)
    BY DEF PortsInvariant, JobsKeepToTheirPorts, At, Running
  <2> QED
    BY <2>1, <2>2 DEF PortsInvariant, AddressesApart
<1> QED
  BY <1>1, PortsCorrect, PTL

\* No entry to a running host is forgotten (RouterPortCore's releases, renewals and given
\* up claims) but by a refused removal or a write carried out against its answer: the host
\* it is counted by is the one it leads to.
THEOREM PortsLeakNoHole == Spec => []NoHoleLeaks
<1>1. PortsInvariant => NoHoleLeaks
  <2> SUFFICES ASSUME PortsInvariant, NEW h \in Hosts, NEW p \in Ports \ stray,
                      Running(h), table[p] = addr[h]
               PROVE  Counts(h, p)
    BY DEF NoHoleLeaks
  <2>1. table[p] # None
    BY DEF PortsInvariant, TypeOK
  <2>2. PICK g \in Hosts : Running(g) /\ table[p] = addr[g] /\ Counts(g, p)
    BY <2>1 DEF PortsInvariant, EntriesAreCounted
  <2> QED
    BY <2>2 DEF PortsInvariant, AddressesApart
<1> QED
  BY <1>1, PortsCorrect, PTL

=============================================================================
