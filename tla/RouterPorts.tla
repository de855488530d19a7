----------------------------- MODULE RouterPorts -----------------------------
(***************************************************************************)
(* The holes hosts open in their router (backend/src/network,              *)
(* RouterPortCore.cpp): several MoonlightWeb hosts, one router, and the    *)
(* rule that nobody takes what a neighbour holds.                          *)
(*                                                                         *)
(* A host's jobs run one after the other on its worker thread; each is     *)
(* several requests to the router, and those of two hosts interleave: one  *)
(* request is one step.                                                    *)
(*                                                                         *)
(* A candidate is any port not yet tried: the remembered ports come first, *)
(* which makes the order differ from host to host.                         *)
(***************************************************************************)
EXTENDS Naturals, FiniteSets

CONSTANTS
  Hosts,      \* MoonlightWeb hosts on the network
  Ports,      \* external ports a hole may have
  Addresses,  \* addresses the router leases
  HeldCap,    \* holes one host holds at most (kTunnelPortCap and its slots)
  MaxStarts,  \* restarts (a bound)
  None

ASSUME NoneAssumption == None \notin Addresses \cup Ports
ASSUME SomeAssumption == Hosts # {} /\ Ports # {}
ASSUME BoundsAssumption == HeldCap \in Nat /\ MaxStarts \in Nat

VARIABLES
  table,    \* the router's UDP entries: the address each port is forwarded to
  answers,  \* the router answers a query; one that fails reads as "no entry"
  addr,     \* the address the router gave each host
  prev,     \* the address its remembered ports were obtained under (m_PreviousLan)
  starts,   \* restarts so far
  held,     \* the external ports of RouterPortCore::m_Held
  job,      \* where each worker stands in its job, and that job's locals
  stray     \* history: entries left behind by a process that died, kept against a
            \* removal, or made though the answer was a refusal

hostVars == <<addr, prev, starts>>
vars == <<table, answers, hostVars, held, job, stray>>

ClaimSteps == {"try", "write", "check", "remove", "again"}
RenewSteps == {"renew", "renewed", "removeOld", "anew"}
Steps == {"off", "idle", "quit"} \cup ClaimSteps \cup RenewSteps

\* at: the port the job is at; left: those it has still to go through; saw: the entry
\* read before the write; mine: the entry was this host's before the write; lost: the
\* holes found to lead elsewhere.
Job(step, left) ==
  [step |-> step, at |-> None, left |-> left, saw |-> None, mine |-> FALSE, lost |-> {}]

Jobs == [step: Steps, at: Ports \cup {None}, left: SUBSET Ports,
         saw: Addresses \cup {None}, mine: BOOLEAN, lost: SUBSET Ports]

TypeOK ==
  /\ table \in [Ports -> Addresses \cup {None}]
  /\ answers \in BOOLEAN
  /\ addr \in [Hosts -> Addresses]
  /\ prev \in [Hosts -> Addresses \cup {None}]
  /\ starts \in 0..MaxStarts
  /\ held \in [Hosts -> SUBSET Ports]
  /\ job \in [Hosts -> Jobs]
  /\ stray \subseteq Ports

Running(h) == job[h].step # "off"

\* Every host just started; what earlier lives left on the router, and under which
\* address, is anything.
Init ==
  /\ table \in [Ports -> Addresses \cup {None}]
  /\ answers \in BOOLEAN
  /\ addr \in {f \in [Hosts -> Addresses] : \A g, h \in Hosts : g # h => f[g] # f[h]}
  /\ prev \in [Hosts -> Addresses \cup {None}]
  /\ starts = 0
  /\ held = [h \in Hosts |-> {}]
  /\ job = [h \in Hosts |-> Job("idle", {})]
  /\ stray = {p \in Ports : table[p] # None}

-----------------------------------------------------------------------------
(* The router *)

\* GetSpecificPortMappingEntry, as entryOf() reports it.
Entry(p) == IF answers THEN table[p] ELSE None

\* AddPortMapping, accepted: the entry is repointed, or left as it was although the
\* answer says otherwise; ...
Repointed(h, p) ==
  /\ table' = [table EXCEPT ![p] = addr[h]]
  /\ stray' = stray \ {p}
Accepted(h, p) == Repointed(h, p) \/ (table[p] # None /\ UNCHANGED <<table, stray>>)

\* An entry to a host that goes on without it.
LeftBehind(h, p) == stray' = IF table'[p] = addr[h] THEN stray \cup {p} ELSE stray

\* ... or refused, or carried out and its answer lost: a claim gives the port up.
Rejected(h, p) ==
  /\ UNCHANGED table \/ table' = [table EXCEPT ![p] = addr[h]]
  /\ LeftBehind(h, p)

\* The same request for a hole that is held, whatever the answer.
Rewritten(h, p) == Repointed(h, p) \/ UNCHANGED <<table, stray>>

\* DeletePortMapping, carried out; ...
Removed(p) ==
  /\ table' = [table EXCEPT ![p] = None]
  /\ stray' = stray \ {p}
\* ... or refused, which no caller looks at.
Kept(h, p) == UNCHANGED table /\ LeftBehind(h, p)
TakenOff(p) == Removed(p) \/ UNCHANGED <<table, stray>>

\* The router loses an entry: a reboot, a lease run out.
RouterForgets(p) ==
  /\ table[p] # None
  /\ Removed(p)
  /\ UNCHANGED <<answers, hostVars, held, job>>

\* Its queries fail for a while, or no longer.
RouterTurns ==
  /\ answers' = ~answers
  /\ UNCHANGED <<table, hostVars, held, job, stray>>

-----------------------------------------------------------------------------
(* The process *)

At(h, step) == job[h].step = step
Goes(h, step) == job' = [job EXCEPT ![h].step = step]
Begins(h, step, left) == job' = [job EXCEPT ![h] = Job(step, left)]
Ends(h) == Begins(h, "idle", {})

\* It died, and its entries stay.
Crash(h) ==
  /\ Running(h)
  /\ Begins(h, "off", {})
  /\ held' = [held EXCEPT ![h] = {}]
  /\ stray' = stray \cup {p \in Ports : table[p] = addr[h]}
  /\ UNCHANGED <<table, answers, hostVars>>

\* It comes up again, at an address nobody uses.
Start(h) ==
  /\ At(h, "off")
  /\ starts < MaxStarts
  /\ starts' = starts + 1
  /\ Ends(h)
  /\ \E a \in Addresses : /\ \A g \in Hosts \ {h} : Running(g) => addr[g] # a
                          /\ addr' = [addr EXCEPT ![h] = a]
  /\ prev' = [prev EXCEPT ![h] = addr[h]]
  /\ UNCHANGED <<table, answers, held, stray>>

-----------------------------------------------------------------------------
(* claim() *)

\* Every port this host does not hold is a candidate.
BeginClaim(h) ==
  /\ At(h, "idle")
  /\ Cardinality(held[h]) < HeldCap
  /\ Begins(h, "try", Ports \ held[h])
  /\ UNCHANGED <<table, answers, hostVars, held, stray>>

\* Mutant: an entry is written over, whoever it leads to.
AnyEntry(h, e) == TRUE
\* An entry this host may write: none, its own, or one that leads to the address
\* it had before.
MayWrite(h, e) == e \in {None, addr[h], prev[h]}

\* tryOne(): a port taken on this machine or led to a neighbour is passed over; ...
PassOver(h, p) ==
  /\ At(h, "try")
  /\ p \in job[h].left
  /\ job' = [job EXCEPT ![h].left = @ \ {p}]
  /\ UNCHANGED <<table, answers, hostVars, held, stray>>

\* ... another is written, once its entry was read.
Read(h, p) ==
  /\ At(h, "try")
  /\ p \in job[h].left
  /\ MayWrite(h, Entry(p))
  /\ job' = [job EXCEPT ![h] = [job[h] EXCEPT !.step = "write", !.at = p, !.left = @ \ {p},
                                         !.saw = Entry(p)]]
  /\ UNCHANGED <<table, answers, hostVars, held, stray>>

TriesNext(h) == Begins(h, "try", job[h].left)

Write(h) ==
  LET p == job[h].at IN
  /\ At(h, "write")
  /\ \/ /\ Accepted(h, p)
        /\ job' = [job EXCEPT ![h] = [job[h] EXCEPT !.step = "check", !.saw = None,
                                               !.mine = table[p] = addr[h]]]
     \/ Rejected(h, p) /\ TriesNext(h)
  /\ UNCHANGED <<answers, hostVars, held>>

\* Mutant: the write is taken at its word.
NotReadBack(h, e) == TRUE
\* What is read back: nothing (or a router that does not say), or ours.
LeadsHere(h, e) == e \in {None, addr[h]}

Obtains(h) ==
  /\ held' = [held EXCEPT ![h] = @ \cup {job[h].at}]
  /\ Ends(h)

\* The write is read back.  An entry that was ours before it may still run on its
\* old lease: it is removed and made again.
Check(h) ==
  LET p == job[h].at IN
  /\ At(h, "check")
  /\ \/ ~LeadsHere(h, Entry(p)) /\ TriesNext(h) /\ UNCHANGED held
     \/ LeadsHere(h, Entry(p)) /\ Obtains(h)
     \/ Entry(p) = addr[h] /\ job[h].mine /\ Goes(h, "remove") /\ UNCHANGED held
  /\ UNCHANGED <<table, answers, hostVars, stray>>

TakeOff(h) ==
  /\ At(h, "remove")
  /\ TakenOff(job[h].at)
  /\ Goes(h, "again")
  /\ UNCHANGED <<answers, hostVars, held>>

PutBack(h) ==
  /\ At(h, "again")
  /\ \/ Accepted(h, job[h].at) /\ Obtains(h)
     \/ Rejected(h, job[h].at) /\ TriesNext(h) /\ UNCHANGED held
  /\ UNCHANGED <<answers, hostVars>>

NothingLeft(h) ==
  /\ At(h, "try")
  /\ job[h].left = {}
  /\ Ends(h)
  /\ UNCHANGED <<table, answers, hostVars, held, stray>>

-----------------------------------------------------------------------------
(* renew() and rewrite(): all that is held at the half hour, or one hole before it
   is used again *)

BeginRenew(h) ==
  /\ At(h, "idle")
  /\ \E S \in {held[h]} \cup {{p} : p \in held[h]} : S # {} /\ Begins(h, "renew", S)
  /\ UNCHANGED <<table, answers, hostVars, held, stray>>

\* The entry is written before it is read.
Renew(h, p) ==
  /\ At(h, "renew")
  /\ p \in job[h].left
  /\ Rewritten(h, p)
  /\ \E mine \in {FALSE, table[p] = addr[h]} :
       job' = [job EXCEPT ![h] = [job[h] EXCEPT !.step = "renewed", !.at = p, !.left = @ \ {p},
                                         !.mine = mine]]
  /\ UNCHANGED <<answers, hostVars, held>>

NextHole(h, found) ==
  job' = [job EXCEPT ![h] = [job[h] EXCEPT !.step = "renew", !.at = None, !.mine = FALSE,
                                      !.lost = @ \cup found]]

\* It leads to another machine: the hole is lost.  It is ours on its old lease: it is
\* made again.
Renewed(h) ==
  LET p == job[h].at IN
  /\ At(h, "renewed")
  /\ \/ ~LeadsHere(h, Entry(p)) /\ NextHole(h, {p})
     \/ LeadsHere(h, Entry(p)) /\ NextHole(h, {})
     \/ Entry(p) = addr[h] /\ job[h].mine /\ Goes(h, "removeOld")
  /\ UNCHANGED <<table, answers, hostVars, held, stray>>

RemoveOld(h) ==
  /\ At(h, "removeOld")
  /\ TakenOff(job[h].at)
  /\ Goes(h, "anew")
  /\ UNCHANGED <<answers, hostVars, held>>

Anew(h) ==
  /\ At(h, "anew")
  /\ Rewritten(h, job[h].at)
  /\ NextHole(h, {})
  /\ UNCHANGED <<answers, hostVars, held>>

\* What was lost is dropped.
RenewDone(h) ==
  /\ At(h, "renew")
  /\ job[h].left = {}
  /\ held' = [held EXCEPT ![h] = @ \ job[h].lost]
  /\ Ends(h)
  /\ UNCHANGED <<table, answers, hostVars, stray>>

-----------------------------------------------------------------------------
(* release() and releaseAll() *)

\* Mutant: the hole is struck off the list and stays on the router.
StruckOnly(h, p) == UNCHANGED <<table, stray>>
\* The entry is removed, whoever it leads to by now; a refusal is not looked at.
EntryRemoved(h, p) == Removed(p) \/ Kept(h, p)

Release(h, p) ==
  /\ At(h, "idle")
  /\ p \in held[h]
  /\ EntryRemoved(h, p)
  /\ held' = [held EXCEPT ![h] = @ \ {p}]
  /\ UNCHANGED <<answers, hostVars, job>>

BeginQuit(h) ==
  /\ At(h, "idle")
  /\ Begins(h, "quit", held[h])
  /\ UNCHANGED <<table, answers, hostVars, held, stray>>

ReleaseNext(h, p) ==
  /\ At(h, "quit")
  /\ p \in job[h].left
  /\ EntryRemoved(h, p)
  /\ held' = [held EXCEPT ![h] = @ \ {p}]
  /\ job' = [job EXCEPT ![h].left = @ \ {p}]
  /\ UNCHANGED <<answers, hostVars>>

Gone(h) ==
  /\ At(h, "quit")
  /\ job[h].left = {}
  /\ Begins(h, "off", {})
  /\ UNCHANGED <<table, answers, hostVars, held, stray>>

-----------------------------------------------------------------------------
Claiming(h) ==
  \/ BeginClaim(h) \/ Write(h) \/ Check(h) \/ TakeOff(h) \/ PutBack(h) \/ NothingLeft(h)
  \/ \E p \in Ports : PassOver(h, p) \/ Read(h, p)
Renewing(h) ==
  \/ BeginRenew(h) \/ Renewed(h) \/ RemoveOld(h) \/ Anew(h) \/ RenewDone(h)
  \/ \E p \in Ports : Renew(h, p)
Releasing(h) ==
  \/ BeginQuit(h) \/ Gone(h)
  \/ \E p \in Ports : Release(h, p) \/ ReleaseNext(h, p)

Next ==
  \/ \E h \in Hosts : Start(h) \/ Crash(h) \/ Claiming(h) \/ Renewing(h) \/ Releasing(h)
  \/ RouterTurns
  \/ \E p \in Ports : RouterForgets(p)

Spec == Init /\ [][Next]_vars

-----------------------------------------------------------------------------
\* A port in order: its entry leads to whoever holds it.
InOrder(p) == \A h \in Hosts : p \in held[h] => table[p] = addr[h]

\* What may upset it, as far as RouterPortCore can tell: the router loses the entry, or
\* host h ...
Upset(p) ==
  \/ RouterForgets(p)
  \/ \E h \in Hosts :
       /\ job[h].at = p /\ job'[h] # job[h]
       /\ \* ... takes its own entry off to make it again,
          \/ At(h, "removeOld")
          \* writes over an entry that is not what it read (the entry changed, or the
          \* query failed), or that leads to the address h had before,
          \/ At(h, "write") /\ (table[p] # job[h].saw \/ table[p] = prev[h])
          \* reads nothing back,
          \/ At(h, "check") /\ Entry(p) = None
          \* takes off, or makes again, an entry that changed hands since it read it.
          \/ At(h, "remove") /\ table[p] # addr[h]
          \/ At(h, "again") /\ table[p] \notin {None, addr[h]}

\* "The rule that nobody takes what a neighbour holds" (RouterPortCore.h:55), as far as
\* the code keeps it: whatever the hosts interleave, a port in order stays so but for
\* the causes above.  Two hosts that both find a number free do not upset it as long
\* as the first has not read its write back when the second writes.
StaysInOrder == [][\A p \in Ports : InOrder(p) => InOrder(p)' \/ Upset(p)]_vars

\* While its job is on port p, or its list has it, a host counts on the entry of p.
Counts(h, p) ==
  p \in held[h] \/ (job[h].step \in {"check", "remove", "again"} /\ job[h].at = p)

\* No hole is left behind but by a crash or by the router: an entry that leads to a
\* running host is one its worker holds or is about to, unless a process died on it, a
\* removal was refused or a write was carried out against its answer.
NoHoleLeaks ==
  \A h \in Hosts, p \in Ports \ stray :
    Running(h) /\ table[p] = addr[h] => Counts(h, p)

-----------------------------------------------------------------------------
\* What the two rest on. The router gives no address twice.
AddressesApart ==
  \A g, h \in Hosts : g # h /\ Running(g) /\ Running(h) => addr[g] # addr[h]

\* A job works on what its kind may: a claim on an entry it may write, and on no hole
\* it holds, a renewal on holes that are held, a quit on all of them; a process that is
\* off holds none.
JobsKeepToTheirPorts ==
  \A h \in Hosts :
    /\ At(h, "off") => held[h] = {}
    /\ At(h, "quit") => job[h].left = held[h]
    /\ At(h, "write") => MayWrite(h, job[h].saw)
    /\ job[h].step \in RenewSteps => job[h].left \subseteq held[h]
    /\ job[h].step \in RenewSteps \ {"renew"} => job[h].at \in held[h] \ job[h].left
    /\ job[h].step \in ClaimSteps => job[h].left \cap held[h] = {}
    /\ job[h].step \in ClaimSteps \ {"try"} => job[h].at \in Ports \ held[h]

\* Whatever nobody left behind is a running host's.
EntriesAreCounted ==
  \A p \in Ports \ stray :
    table[p] # None => \E h \in Hosts : Running(h) /\ table[p] = addr[h] /\ Counts(h, p)

\* A hole found lost stays lost until the renewal drops it.
LostStaysLost ==
  \A h \in Hosts : job[h].step \in RenewSteps =>
    \A p \in job[h].lost :
      /\ table[p] # addr[h]
      /\ p \notin job[h].left /\ (job[h].step # "renew" => p # job[h].at)

PortsInvariant ==
  /\ TypeOK /\ AddressesApart /\ JobsKeepToTheirPorts
  /\ EntriesAreCounted /\ LostStaysLost

=============================================================================
