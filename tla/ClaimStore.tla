----------------------------- MODULE ClaimStore -----------------------------
(***************************************************************************)
(* The claim store of the introduction server (mw-rendezvous/store.go) and *)
(* the requests that use it (handleClaim and the first half of handleHost  *)
(* in main.go).                                                            *)
(*                                                                         *)
(* The map id -> owner is guarded by one mutex (s.mu): every operation on  *)
(* it is one step here.  It reaches the disk through write(), whose two    *)
(* halves are two steps, because s.mu is released between the snapshot and *)
(* the rename and requests go on meanwhile.  A crash can fall anywhere.    *)
(*                                                                         *)
(* An owner stands for the HMAC of its token; a claim's timestamps are the *)
(* two questions the code asks of them: is it past unusedTTL (old), has a  *)
(* host ever held a line on it (seen).                                     *)
(***************************************************************************)
EXTENDS Integers, FiniteSets

CONSTANTS
  Ids,          \* identifiers hosts may claim
  Owners,       \* owner fingerprints
  Nobody,       \* the owner of an unclaimed id
  Requests,     \* HTTP handler goroutines
  Timers,       \* goroutines of time.AfterFunc
  Expires,      \* unusedTTL > 0
  Settings      \* the servers considered: MW_RDV_MAX_CLAIMS (0: no cap), whether
                \* flushDelay > 0, and whether the disk may refuse a write

ASSUME NobodyAssumption == Nobody \notin Owners
ASSUME FinitelyManyIds == IsFiniteSet(Ids)
ASSUME ExpiresAssumption == Expires \in BOOLEAN
ASSUME SettingsAssumption == Settings \subseteq [cap: Nat, delayed: BOOLEAN, fails: BOOLEAN]
ASSUME GoroutinesDistinct == Requests \cap Timers = {}

VARIABLES
  setting,       \* the server's, for good
  claims,        \* s.claims
  disk,          \* the file, as newClaimStore would read it
  dirty,         \* s.dirty
  scheduled,     \* s.scheduled
  prunedLately,  \* less than pruneEvery since s.lastPrune
  writing,       \* the goroutines between write()'s snapshot and its end
  body,          \* the snapshot each of them took
  req,           \* the handlers' program counters and locals
  released       \* history: the ids given up since the process started

vars == <<setting, claims, disk, dirty, scheduled, prunedLately, writing, body, req, released>>

Writers == Requests \cup Timers

Claim == [owner: Owners \cup {Nobody}, old: BOOLEAN, seen: BOOLEAN]
NoClaim == [owner |-> Nobody, old |-> FALSE, seen |-> FALSE]
Store == [Ids -> Claim]
Empty == [i \in Ids |-> NoClaim]

Steps == {"claim", "upgraded", "held", "flush", "write"}
Busy == [at: Steps, kind: {"claim", "release", "host"}, id: Ids, owner: Owners]
Idle == [at |-> "idle", kind |-> "none", id |-> Nobody, owner |-> Nobody]

TypeOK ==
  /\ setting \in Settings
  /\ claims \in Store
  /\ disk \in Store
  /\ dirty \in BOOLEAN
  /\ scheduled \in BOOLEAN
  /\ prunedLately \in BOOLEAN
  /\ writing \in [Writers -> BOOLEAN]
  /\ body \in [Writers -> Store]
  /\ req \in [Requests -> Busy \cup {Idle}]
  /\ released \in SUBSET Ids

\* newClaimStore with no file on disk: nothing claimed, nothing to write.
Init ==
  /\ setting \in Settings
  /\ claims = Empty
  /\ disk = Empty
  /\ dirty = FALSE
  /\ scheduled = FALSE
  /\ prunedLately = FALSE
  /\ writing = [w \in Writers |-> FALSE]
  /\ body = [w \in Writers |-> Empty]
  /\ req = [r \in Requests |-> Idle]
  /\ released = {}

-----------------------------------------------------------------------------
Held(s) == {i \in Ids : s[i].owner # Nobody}
Owns(s, i, o) == s[i].owner = o
\* Mutant: the walk forgets to ask whether a host ever held a line.
UnusedIgnoringSeen(c) == c.owner # Nobody /\ c.old
Unused(c) == c.owner # Nobody /\ ~c.seen /\ c.old

\* Mutant: one token may hold any number of ids.
AnyNumberOfIds(i, o) == FALSE
HoldsOther(i, o) == \E j \in Ids \ {i} : Owns(claims, j, o)

\* pruneLocked: what the walk leaves, when it runs.
PruneRuns == Expires /\ ~prunedLately
Pruned(s) == IF PruneRuns
             THEN [i \in Ids |-> IF Unused(s[i]) THEN NoClaim ELSE s[i]]
             ELSE s

\* Mutant: off by one at the cap.
FullOnePast(s) == setting.cap > 0 /\ Cardinality(Held(s)) > setting.cap
Full(s) == setting.cap > 0 /\ Cardinality(Held(s)) >= setting.cap

Goto(r, step) == req' = [req EXCEPT ![r].at = step]
Answer(r) == req' = [req EXCEPT ![r] = Idle]
Enter(r, step, kind, i, o) ==
  /\ req[r] = Idle
  /\ req' = [req EXCEPT ![r] = [at |-> step, kind |-> kind, id |-> i, owner |-> o]]
\* What a handler does once its flush() returned: hold the line, or answer.
AfterFlush(r) == IF req[r].kind = "host" THEN Goto(r, "held") ELSE Answer(r)

DiskVars == <<disk, scheduled, writing, body>>
MemoryVars == <<claims, dirty, prunedLately, released>>

-----------------------------------------------------------------------------
\* handleClaim, POST, up to the claim: the budget it may be refused by first
\* reads owns() but changes nothing in the store.
ClaimArrives(r, i, o) ==
  /\ Enter(r, "claim", "claim", i, o)
  /\ UNCHANGED <<setting, MemoryVars, DiskVars>>

\* The claims claim() answers without touching the store: the id is this
\* owner's already, or somebody else's, or this owner holds another one.
ClaimRefused(r) ==
  LET i == req[r].id
      o == req[r].owner
  IN /\ req[r].at = "claim"
     /\ \/ claims[i].owner # Nobody
        \/ HoldsOther(i, o)
     /\ Answer(r)
     /\ UNCHANGED <<setting, MemoryVars, DiskVars>>

\* claim() for an owner and an id both free: prune, then the cap, then the row.
\* A claim refused for the cap still leaves what the prune dropped, and marks
\* the store dirty, without anybody flushing it.
ClaimNew(r) ==
  LET i == req[r].id
      o == req[r].owner
      kept == Pruned(claims)
      full == Full(kept)
  IN /\ req[r].at = "claim"
     /\ claims[i].owner = Nobody
     /\ ~HoldsOther(i, o)
     /\ prunedLately' = (prunedLately \/ PruneRuns)
     /\ claims' = IF full THEN kept
                  ELSE [kept EXCEPT ![i] = [owner |-> o, old |-> FALSE, seen |-> FALSE]]
     /\ dirty' = (dirty \/ ~full \/ kept # claims)
     /\ IF full THEN Answer(r) ELSE Goto(r, "flush")
     /\ UNCHANGED <<setting, released, DiskVars>>

\* handleClaim, DELETE: release() of an id this owner holds.
Release(r, i, o) ==
  /\ Enter(r, "flush", "release", i, o)
  /\ Owns(claims, i, o)
  /\ claims' = [claims EXCEPT ![i] = NoClaim]
  /\ dirty' = TRUE
  /\ released' = released \cup {i}
  /\ UNCHANGED <<setting, prunedLately, DiskVars>>

\* handleHost up to the upgrade: owns() decides on the handshake.
HostHandshake(r, i, o) ==
  /\ Enter(r, "upgraded", "host", i, o)
  /\ Owns(claims, i, o)
  /\ UNCHANGED <<setting, MemoryVars, DiskVars>>

\* touch() on an id no longer claimed, or seen within the hour: nothing.
TouchNothing(r) ==
  LET i == req[r].id IN
  /\ req[r].at = "upgraded"
  /\ claims[i].owner = Nobody \/ claims[i].seen
  /\ Goto(r, "held")
  /\ UNCHANGED <<setting, MemoryVars, DiskVars>>

\* touch() that records the line; a seen stamp over an hour old is renewed.
Touch(r) ==
  LET i == req[r].id IN
  /\ req[r].at = "upgraded"
  /\ claims[i].owner # Nobody
  /\ claims' = [claims EXCEPT ![i].seen = TRUE]
  /\ dirty' = TRUE
  /\ Goto(r, "flush")
  /\ UNCHANGED <<setting, prunedLately, released, DiskVars>>

\* The line falls and handleHost returns.
LineFalls(r) ==
  /\ req[r].at = "held"
  /\ Answer(r)
  /\ UNCHANGED <<setting, MemoryVars, DiskVars>>

-----------------------------------------------------------------------------
\* Mutant: a flush during a write counts on that write.
ScheduleUnlessWriting == scheduled' = (scheduled \/ \A w \in Writers : ~writing[w])
Schedule == scheduled' = TRUE

\* flush() with a delay: one write for the burst.
FlushLater(r) ==
  /\ setting.delayed
  /\ req[r].at = "flush"
  /\ Schedule
  /\ AfterFlush(r)
  /\ UNCHANGED <<setting, MemoryVars, disk, writing, body>>

\* Mutant: writes do not wait for each other.
WritesOverlap == TRUE
\* writeMu, held across a whole write.
WriteLockFree == \A w \in Writers : ~writing[w]

\* write(), first half, by the AfterFunc goroutine or, without a delay, by the
\* handler: the snapshot, under s.mu.  A clean store ends the write there.
Snapshot(w) ==
  /\ WriteLockFree
  /\ ~writing[w]
  /\ scheduled' = FALSE
  /\ writing' = [writing EXCEPT ![w] = dirty]
  /\ body' = IF dirty THEN [body EXCEPT ![w] = claims] ELSE body
  /\ dirty' = FALSE
  /\ UNCHANGED <<setting, claims, disk, prunedLately, released>>

TimerSnapshot(t) ==
  /\ scheduled
  /\ Snapshot(t)
  /\ UNCHANGED req

HandlerSnapshot(r) ==
  /\ ~setting.delayed
  /\ req[r].at = "flush"
  /\ Snapshot(r)
  /\ IF dirty THEN Goto(r, "write") ELSE AfterFlush(r)

Return(w) ==
  /\ writing' = [writing EXCEPT ![w] = FALSE]
  /\ body' = [body EXCEPT ![w] = Empty]
  /\ IF w \in Requests THEN AfterFlush(w) ELSE UNCHANGED req
  /\ UNCHANGED <<setting, claims, scheduled, prunedLately, released>>

\* write(), second half: the rename is what replaces the file, at once.
Rename(w) ==
  /\ writing[w]
  /\ disk' = body[w]
  /\ Return(w)
  /\ UNCHANGED dirty

\* markDirty.
MarkDirty == dirty' = TRUE

\* write(), second half, when the directory, the file or the rename fails.
WriteFails(w) ==
  /\ setting.fails
  /\ writing[w]
  /\ MarkDirty
  /\ Return(w)
  /\ UNCHANGED disk

-----------------------------------------------------------------------------
\* unusedTTL has passed since every copy of the claim on i was created.
Aged(s, i) == IF s[i].owner = Nobody THEN s ELSE [s EXCEPT ![i].old = TRUE]
TTLPasses(i) ==
  /\ Expires
  /\ claims[i].owner # Nobody \/ disk[i].owner # Nobody
  /\ claims' = Aged(claims, i)
  /\ disk' = Aged(disk, i)
  /\ body' = [w \in Writers |-> Aged(body[w], i)]
  /\ UNCHANGED <<setting, dirty, scheduled, prunedLately, writing, req, released>>

\* pruneEvery has passed since the last walk.
MinutePasses ==
  /\ prunedLately
  /\ prunedLately' = FALSE
  /\ UNCHANGED <<setting, claims, dirty, released, req, DiskVars>>

\* The process dies and is started again on the file: newClaimStore.
Crash ==
  /\ claims' = disk
  /\ dirty' = FALSE
  /\ scheduled' = FALSE
  /\ prunedLately' = FALSE
  /\ writing' = [w \in Writers |-> FALSE]
  /\ req' = [r \in Requests |-> Idle]
  /\ body' = [w \in Writers |-> Empty]
  /\ released' = {}
  /\ UNCHANGED <<setting, disk>>

RequestStep(r) ==
  \/ \E i \in Ids, o \in Owners :
       ClaimArrives(r, i, o) \/ Release(r, i, o) \/ HostHandshake(r, i, o)
  \/ ClaimRefused(r) \/ ClaimNew(r)
  \/ TouchNothing(r) \/ Touch(r) \/ LineFalls(r)
  \/ FlushLater(r) \/ HandlerSnapshot(r)

Next ==
  \/ \E r \in Requests : RequestStep(r)
  \/ \E t \in Timers : TimerSnapshot(t)
  \/ \E w \in Writers : Rename(w) \/ WriteFails(w)
  \/ \E i \in Ids : TTLPasses(i)
  \/ MinutePasses
  \/ Crash

\* Handlers and timers run; nothing says that a client calls, that a line falls,
\* that time reaches a limit, that the disk fails or that the process dies.
Fairness ==
  /\ \A r \in Requests : /\ WF_vars(ClaimRefused(r) \/ ClaimNew(r))
                         /\ WF_vars(TouchNothing(r) \/ Touch(r))
                         /\ WF_vars(FlushLater(r) \/ HandlerSnapshot(r))
  /\ WF_vars(\E t \in Timers : TimerSnapshot(t))
  /\ \A w \in Writers : WF_vars(Rename(w))

Spec == Init /\ [][Next]_vars
FairSpec == Spec /\ Fairness

-----------------------------------------------------------------------------
\* "One line per owner": no owner ever holds two ids, in memory or in what a
\* restart would load, so that no restart hands an owner a second one (claim()).
SingleId(s) == \A i, j \in Ids : s[i].owner # Nobody /\ s[i].owner = s[j].owner => i = j
OneIdPerOwner == SingleId(claims) /\ SingleId(disk)

\* The store never grows past its cap, on disk neither (claim()).
WithinCap == setting.cap > 0 => /\ Cardinality(Held(claims)) <= setting.cap
                                /\ Cardinality(Held(disk)) <= setting.cap

\* A store that believes itself written is: whatever is newer than the file is
\* either still marked dirty or in the snapshot being written, and two writes
\* never land in the reverse order of their snapshots (write(), markDirty()).
CleanMeansWritten ==
  ~dirty => IF \E w \in Writers : writing[w]
            THEN \A w \in Writers : writing[w] => body[w] = claims
            ELSE disk = claims

\* An id a host was seen on, as far as the file knows, is that owner's until the
\* owner itself gives it up: no walk for unused ids, no crash and no write that
\* lands late takes it away (pruneLocked(), touch(), write()).
SeenIdIsKept ==
  \A i \in Ids \ released :
     disk[i].seen => Owns(claims, i, disk[i].owner) /\ claims[i].seen

\* What makes the three of them inductive: one write at a time, and the snapshot
\* being written obeys the rules the store and the file obey.
OneWriteAtATime == \A v, w \in Writers : writing[v] /\ writing[w] => v = w
KeptIn(s) == \A i \in Ids \ released :
               s[i].seen => Owns(claims, i, s[i].owner) /\ claims[i].seen
SeenIsOwned(s) == \A i \in Ids : s[i].seen => s[i].owner # Nobody
SnapshotsObey ==
  \A w \in Writers :
    /\ SeenIsOwned(body[w])
    /\ SingleId(body[w])
    /\ writing[w] => KeptIn(body[w])
StoreInvariant ==
  /\ TypeOK
  /\ OneWriteAtATime
  /\ SnapshotsObey
  /\ SeenIsOwned(claims) /\ SeenIsOwned(disk)
  /\ OneIdPerOwner
  /\ SeenIdIsKept
  /\ CleanMeansWritten

\* A claim that was accepted reaches the file, or is given up before it does,
\* as long as no write fails (flush(), write()).
AcceptedReachesDisk ==
  \A i \in Ids : claims[i].owner # Nobody ~> \/ disk[i].owner # Nobody
                                             \/ claims[i].owner = Nobody

\* "A line held: the id is in use, and never let go of as unused" (handleHost):
\* the id of a line that is up is its host's, unless the owner gave it up.
HeldLineIsClaimed ==
  \A r \in Requests : req[r].at = "held" /\ req[r].id \notin released
     => Owns(claims, req[r].id, req[r].owner)

-----------------------------------------------------------------------------
\* The store as a register: what it says of owners and of hosts seen, the file
\* as what is saved, and the snapshots being written as its copies.
BookOf(s) == [i \in Ids |-> [owner |-> s[i].owner, used |-> s[i].seen]]
Copies == {BookOf(body[w]) : w \in {v \in Writers : writing[v]}}

Reg == INSTANCE Register WITH book <- BookOf(claims), saved <- BookOf(disk), copies <- Copies

\* Whatever requests, timers and writes meet, and wherever the process dies, the
\* store is a register of owned ids: each of claim(), release(), touch(), the
\* snapshot and the rename is one step of it, and nothing else changes it.
ActsAsARegister == Reg!Spec
=============================================================================
