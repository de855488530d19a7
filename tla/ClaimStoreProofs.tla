-------------------------- MODULE ClaimStoreProofs --------------------------
(***************************************************************************)
(* ClaimStore for every number of ids, owners, handlers and timers.        *)
(***************************************************************************)
EXTENDS ClaimStore, FiniteSetTheorems, TLAPS

USE NobodyAssumption, GoroutinesDistinct

\* The snapshot and step definitions every case of Next unfolds.
LEMMA EmptyIsAStore == Empty \in Store /\ NoClaim \in Claim
BY DEF Empty, Store, Claim, NoClaim

\* The walk for unused ids, and time, leave a store a store.
LEMMA PrunedIsAStore ==
  ASSUME NEW s \in Store
  PROVE  Pruned(s) \in Store
BY EmptyIsAStore DEF Pruned, Store

\* Ageing keeps a store a store.
LEMMA AgedIsAStore ==
  ASSUME NEW s \in Store, NEW i \in Ids
  PROVE  Aged(s, i) \in Store
BY DEF Aged, Store, Claim

\* What the writing half of a request's or a timer's goroutine leaves of the
\* handlers' locals.
LEMMA AfterFlushTyped ==
  ASSUME TypeOK, NEW r \in Requests, AfterFlush(r)
  PROVE  req' \in [Requests -> Busy \cup {Idle}]
BY DEF TypeOK, AfterFlush, Goto, Answer, Busy, Steps, Idle

\* Every step keeps the types.
LEMMA TypeStep == TypeOK /\ [Next]_vars => TypeOK'
<1> SUFFICES ASSUME TypeOK, [Next]_vars PROVE TypeOK'
  OBVIOUS
<1> USE EmptyIsAStore
<1>1. ASSUME NEW r \in Requests, NEW i \in Ids, NEW o \in Owners,
             ClaimArrives(r, i, o) \/ Release(r, i, o) \/ HostHandshake(r, i, o)
      PROVE  TypeOK'
  <2>1. req' \in [Requests -> Busy \cup {Idle}]
    BY <1>1 DEF TypeOK, ClaimArrives, Release, HostHandshake, Enter, Busy, Steps
  <2>2. claims' \in Store
    BY <1>1 DEF TypeOK, ClaimArrives, Release, HostHandshake, MemoryVars, Store
  <2> QED
    BY <1>1, <2>1, <2>2 DEF TypeOK, ClaimArrives, Release, HostHandshake, MemoryVars, DiskVars
<1>2. ASSUME NEW r \in Requests, ClaimRefused(r) \/ TouchNothing(r) \/ LineFalls(r)
      PROVE  TypeOK'
  BY <1>2 DEF TypeOK, ClaimRefused, TouchNothing, LineFalls, MemoryVars, DiskVars,
              Goto, Answer, Busy, Steps, Idle
<1>3. ASSUME NEW r \in Requests, ClaimNew(r) PROVE TypeOK'
  <2>1. Pruned(claims) \in Store
    BY PrunedIsAStore DEF TypeOK
  <2>2. req[r] \in Busy
    BY <1>3 DEF ClaimNew, TypeOK, Idle
  <2>3. claims' \in Store
    BY <1>3, <2>1, <2>2 DEF ClaimNew, Store, Claim, Busy
  <2>4. req' \in [Requests -> Busy \cup {Idle}]
    BY <1>3, <2>2 DEF ClaimNew, TypeOK, Goto, Answer, Busy, Steps, Idle
  <2>5. dirty' \in BOOLEAN /\ prunedLately' \in BOOLEAN
    BY <1>3 DEF ClaimNew, TypeOK, PruneRuns
  <2> QED
    BY <1>3, <2>3, <2>4, <2>5 DEF TypeOK, ClaimNew, DiskVars
<1>4. ASSUME NEW r \in Requests, Touch(r) PROVE TypeOK'
  <2>1. req[r] \in Busy
    BY <1>4 DEF Touch, TypeOK, Idle
  <2> DEFINE i == req[r].id
  <2>2. i \in Ids /\ claims[i] \in Claim
    BY <2>1 DEF Busy, TypeOK, Store
  <2>3. [claims[i] EXCEPT !.seen = TRUE] \in Claim
    BY <2>2 DEF Claim
  <2>4. claims' \in Store
    BY <1>4, <2>2, <2>3 DEF Touch, TypeOK, Store
  <2>5. req' \in [Requests -> Busy \cup {Idle}]
    BY <1>4, <2>1 DEF Touch, TypeOK, Goto, Busy, Steps
  <2> QED
    BY <1>4, <2>4, <2>5 DEF TypeOK, Touch, DiskVars
<1>5. ASSUME NEW r \in Requests, FlushLater(r) PROVE TypeOK'
  BY <1>5, AfterFlushTyped DEF TypeOK, FlushLater, Schedule, MemoryVars
<1>6. ASSUME NEW r \in Requests, HandlerSnapshot(r) PROVE TypeOK'
  <2>1. req' \in [Requests -> Busy \cup {Idle}]
    <3>1. CASE dirty
      BY <1>6, <3>1 DEF HandlerSnapshot, Goto, TypeOK, Busy, Steps, Idle
    <3>2. CASE ~dirty
      BY <1>6, <3>2, AfterFlushTyped DEF HandlerSnapshot
    <3> QED BY <3>1, <3>2
  <2> QED
    BY <1>6, <2>1 DEF TypeOK, HandlerSnapshot, Snapshot, Writers
<1>7. ASSUME NEW t \in Timers, TimerSnapshot(t) PROVE TypeOK'
  BY <1>7 DEF TypeOK, TimerSnapshot, Snapshot, Writers
<1>8. ASSUME NEW w \in Writers, Rename(w) \/ WriteFails(w) PROVE TypeOK'
  <2>1. writing' \in [Writers -> BOOLEAN] /\ body' \in [Writers -> Store]
    BY <1>8 DEF Rename, WriteFails, Return, TypeOK
  <2>2. req' \in [Requests -> Busy \cup {Idle}]
    BY <1>8, AfterFlushTyped DEF Rename, WriteFails, Return, TypeOK
  <2>3. disk' \in Store /\ dirty' \in BOOLEAN
    BY <1>8 DEF Rename, WriteFails, MarkDirty, TypeOK
  <2> QED
    BY <1>8, <2>1, <2>2, <2>3 DEF Rename, WriteFails, Return, TypeOK
<1>9. ASSUME NEW i \in Ids, TTLPasses(i) PROVE TypeOK'
  BY <1>9, AgedIsAStore DEF TypeOK, TTLPasses
<1>10. CASE MinutePasses \/ Crash
  BY <1>10 DEF TypeOK, MinutePasses, Crash, DiskVars, Idle
<1>11. CASE UNCHANGED vars
  BY <1>11 DEF TypeOK, vars
<1> QED
  BY <1>1, <1>2, <1>3, <1>4, <1>5, <1>6, <1>7, <1>8, <1>9, <1>10, <1>11
     DEF Next, RequestStep

-----------------------------------------------------------------------------
\* What a step that touches neither the store, nor the file, nor a write keeps.
StorePart == <<claims, disk, dirty, writing, body, released>>
StoreRules == /\ OneWriteAtATime /\ SnapshotsObey
              /\ SeenIsOwned(claims) /\ SeenIsOwned(disk)
              /\ OneIdPerOwner /\ SeenIdIsKept /\ CleanMeansWritten

\* What touches neither store, file nor snapshot keeps the rules.
LEMMA RulesUntouched == StoreRules /\ UNCHANGED StorePart => StoreRules'
BY DEF StoreRules, StorePart, OneWriteAtATime, SnapshotsObey, SeenIsOwned, SingleId, KeptIn,
       Owns, OneIdPerOwner, SeenIdIsKept, CleanMeansWritten

\* The DELETE of an id by its owner.
LEMMA RulesRelease ==
  ASSUME TypeOK, StoreRules, NEW r \in Requests, NEW i \in Ids, NEW o \in Owners,
         Release(r, i, o)
  PROVE  StoreRules'
<1> USE DEF Release, StoreRules, DiskVars
<1>1. /\ claims' = [claims EXCEPT ![i] = NoClaim] /\ released' = released \cup {i} /\ dirty'
      /\ disk' = disk /\ body' = body /\ writing' = writing
  OBVIOUS
<1>2. \A j \in Ids : claims'[j] = IF j = i THEN NoClaim ELSE claims[j]
  BY <1>1 DEF TypeOK, Store
<1>3. SeenIsOwned(claims)' /\ SeenIsOwned(disk)'
  BY <1>1, <1>2 DEF SeenIsOwned, NoClaim
<1>4. OneIdPerOwner'
  BY <1>1, <1>2 DEF OneIdPerOwner, SingleId, NoClaim
<1>5. SeenIdIsKept'
  BY <1>1, <1>2 DEF SeenIdIsKept, Owns
<1>6. SnapshotsObey'
  BY <1>1, <1>2 DEF SnapshotsObey, SeenIsOwned, SingleId, KeptIn, Owns
<1> QED
  BY <1>1, <1>3, <1>4, <1>5, <1>6 DEF OneWriteAtATime, CleanMeansWritten

\* What the walk for unused ids leaves of a claim.
LEMMA PrunedKeeps ==
  ASSUME NEW s \in Store, NEW j \in Ids
  PROVE  /\ Pruned(s)[j] = s[j] \/ Pruned(s)[j] = NoClaim
         /\ s[j].seen => Pruned(s)[j] = s[j]
BY DEF Pruned, Unused, NoClaim

\* A claim of a free id by an owner that holds none, with the walk before it.
LEMMA RulesClaimNew ==
  ASSUME TypeOK, StoreRules, NEW r \in Requests, ClaimNew(r)
  PROVE  StoreRules'
<1> DEFINE i == req[r].id
           o == req[r].owner
           kept == Pruned(claims)
           row == [owner |-> o, old |-> FALSE, seen |-> FALSE]
<1>1. req[r] \in Busy
  BY DEF ClaimNew, TypeOK, Idle
<1>2. i \in Ids /\ o \in Owners /\ kept \in Store
  BY <1>1, PrunedIsAStore DEF Busy, TypeOK
<1>3. /\ claims[i].owner = Nobody /\ ~HoldsOther(i, o)
      /\ claims' = kept \/ claims' = [kept EXCEPT ![i] = row]
      /\ claims' = claims \/ dirty'
      /\ dirty => dirty'
      /\ disk' = disk /\ body' = body /\ writing' = writing /\ released' = released
  BY DEF ClaimNew, DiskVars, TypeOK
<1>4. \A j \in Ids : \/ claims'[j] = claims[j]
                     \/ claims'[j] = NoClaim /\ ~claims[j].seen
                     \/ j = i /\ claims'[j] = row
  BY <1>2, <1>3, PrunedKeeps DEF TypeOK, Store
<1>5. ~claims[i].seen
  BY <1>2, <1>3 DEF StoreRules, SeenIsOwned
<1> HIDE DEF kept, row
<1>6. SeenIsOwned(claims)' /\ SeenIsOwned(disk)'
  BY <1>3, <1>4 DEF SeenIsOwned, NoClaim, StoreRules, row
<1>7. OneIdPerOwner'
  <2>1. ASSUME NEW j \in Ids, NEW k \in Ids, claims'[j].owner # Nobody,
               claims'[j].owner = claims'[k].owner
        PROVE  j = k
    BY <1>2, <1>3, <1>4, <2>1 DEF OneIdPerOwner, SingleId, NoClaim, StoreRules, row, HoldsOther, Owns
  <2> QED BY <1>3, <2>1 DEF OneIdPerOwner, SingleId, StoreRules
<1>8. \A j \in Ids : claims[j].seen => claims'[j] = claims[j]
  BY <1>4, <1>5
<1>9. SeenIdIsKept'
  BY <1>3, <1>8 DEF SeenIdIsKept, Owns, StoreRules
<1>10. SnapshotsObey'
  BY <1>3, <1>8 DEF SnapshotsObey, SeenIsOwned, SingleId, KeptIn, Owns, StoreRules
<1>11. CleanMeansWritten'
  BY <1>3 DEF CleanMeansWritten, StoreRules
<1> QED
  BY <1>3, <1>6, <1>7, <1>9, <1>10, <1>11 DEF StoreRules, OneWriteAtATime

\* A host's line recorded on its id.
LEMMA RulesTouch ==
  ASSUME TypeOK, StoreRules, NEW r \in Requests, Touch(r)
  PROVE  StoreRules'
<1> DEFINE i == req[r].id
<1>1. i \in Ids
  BY DEF Touch, TypeOK, Idle, Busy
<1>2. /\ claims' = [claims EXCEPT ![i].seen = TRUE] /\ claims[i].owner # Nobody /\ dirty'
      /\ disk' = disk /\ body' = body /\ writing' = writing /\ released' = released
  BY DEF Touch, DiskVars
<1>3. \A j \in Ids : /\ claims'[j].owner = claims[j].owner
                     /\ claims'[j].seen = (claims[j].seen \/ j = i)
  BY <1>1, <1>2 DEF TypeOK, Store, Claim
<1>4. SeenIsOwned(claims)' /\ SeenIsOwned(disk)'
  BY <1>2, <1>3 DEF SeenIsOwned, StoreRules
<1>5. OneIdPerOwner' /\ SeenIdIsKept' /\ SnapshotsObey'
  BY <1>2, <1>3 DEF OneIdPerOwner, SingleId, SeenIdIsKept, SnapshotsObey, SeenIsOwned, KeptIn,
                    Owns, StoreRules
<1> QED
  BY <1>2, <1>4, <1>5 DEF StoreRules, OneWriteAtATime, CleanMeansWritten

\* write() takes its snapshot: whoever writes, alone.
LEMMA RulesSnapshot ==
  ASSUME TypeOK, StoreRules, NEW w \in Writers, Snapshot(w), released' = released
  PROVE  StoreRules'
<1> USE DEF StoreRules, Snapshot, WriteLockFree
<1>1. CASE ~dirty
  BY <1>1, RulesUntouched DEF StorePart, TypeOK
<1>2. CASE dirty
  <2>1. /\ writing' = [writing EXCEPT ![w] = TRUE] /\ body' = [body EXCEPT ![w] = claims]
        /\ \A v \in Writers : writing'[v] <=> v = w
        /\ body'[w] = claims /\ \A v \in Writers \ {w} : body'[v] = body[v]
        /\ claims' = claims /\ disk' = disk /\ ~dirty'
    BY <1>2 DEF TypeOK
  <2>2. OneWriteAtATime' /\ CleanMeansWritten'
    BY <2>1 DEF OneWriteAtATime, CleanMeansWritten
  <2>3. SnapshotsObey'
    BY <2>1 DEF SnapshotsObey, SeenIsOwned, SingleId, KeptIn, Owns, OneIdPerOwner
  <2> QED
    BY <2>1, <2>2, <2>3 DEF SeenIsOwned, OneIdPerOwner, SingleId, SeenIdIsKept, Owns
<1> QED
  BY <1>1, <1>2 DEF TypeOK

\* The write ends, and the goroutine that made it moves on.
LEMMA RulesWriteEnds ==
  ASSUME TypeOK, StoreRules, NEW w \in Writers, Rename(w) \/ WriteFails(w)
  PROVE  StoreRules'
<1> USE DEF StoreRules
<1>1. /\ writing[w] /\ writing' = [writing EXCEPT ![w] = FALSE]
      /\ body' = [body EXCEPT ![w] = Empty]
      /\ claims' = claims /\ released' = released
      /\ \/ disk' = body[w] /\ (dirty' <=> dirty)
         \/ disk' = disk /\ dirty'
  BY DEF Rename, WriteFails, Return, MarkDirty
<1>2. \A v \in Writers : ~writing'[v]
  BY <1>1 DEF OneWriteAtATime, TypeOK
<1>3. /\ body'[w] = Empty
      /\ \A v \in Writers \ {w} : body'[v] = body[v]
  BY <1>1 DEF TypeOK
<1>4. SnapshotsObey'
  BY <1>1, <1>2, <1>3 DEF SnapshotsObey, SeenIsOwned, SingleId, Empty, NoClaim
<1>5. SeenIsOwned(disk)' /\ OneIdPerOwner'
  BY <1>1 DEF SnapshotsObey, SeenIsOwned, OneIdPerOwner, SingleId
<1>6. SeenIdIsKept'
  BY <1>1 DEF SeenIdIsKept, SnapshotsObey, KeptIn, Owns
<1>7. CleanMeansWritten'
  BY <1>1, <1>2 DEF CleanMeansWritten
<1> QED
  BY <1>1, <1>2, <1>4, <1>5, <1>6, <1>7 DEF OneWriteAtATime, SeenIsOwned

\* Time makes a claim old and nothing else.
LEMMA AgedKeeps ==
  ASSUME NEW s \in Store, NEW i \in Ids, NEW j \in Ids
  PROVE  Aged(s, i)[j].owner = s[j].owner /\ Aged(s, i)[j].seen = s[j].seen
BY DEF Aged, Store, Claim

\* Time that passes ages the store and its copies, and gives no owner an id.
LEMMA RulesAge ==
  ASSUME TypeOK, StoreRules, NEW i \in Ids, TTLPasses(i)
  PROVE  StoreRules'
<1> USE DEF StoreRules
<1>1. /\ claims' = Aged(claims, i) /\ disk' = Aged(disk, i)
      /\ \A w \in Writers : body'[w] = Aged(body[w], i)
      /\ dirty' = dirty /\ writing' = writing /\ released' = released
  BY DEF TTLPasses
<1>2. \A j \in Ids : /\ claims'[j].owner = claims[j].owner /\ claims'[j].seen = claims[j].seen
                     /\ disk'[j].owner = disk[j].owner /\ disk'[j].seen = disk[j].seen
                     /\ \A w \in Writers : /\ body'[w][j].owner = body[w][j].owner
                                            /\ body'[w][j].seen = body[w][j].seen
  BY <1>1, AgedKeeps DEF TypeOK
<1>3. /\ SeenIsOwned(claims)' /\ SeenIsOwned(disk)' /\ OneIdPerOwner' /\ SeenIdIsKept'
  BY <1>1, <1>2 DEF SeenIsOwned, OneIdPerOwner, SingleId, SeenIdIsKept, Owns
<1>4. SnapshotsObey'
  BY <1>1, <1>2 DEF SnapshotsObey, SeenIsOwned, SingleId, KeptIn, Owns
<1>5. CleanMeansWritten'
  BY <1>1 DEF CleanMeansWritten
<1> QED
  BY <1>1, <1>3, <1>4, <1>5 DEF OneWriteAtATime

\* A crash brings back the file, which obeys the rules.
LEMMA RulesCrash == TypeOK /\ StoreRules /\ Crash => StoreRules'
<1> SUFFICES ASSUME TypeOK, StoreRules, Crash PROVE StoreRules'
  OBVIOUS
<1> USE DEF StoreRules, Crash
<1>1. \A w \in Writers : body'[w] = Empty /\ ~writing'[w]
  OBVIOUS
<1>2. SnapshotsObey'
  BY <1>1 DEF SnapshotsObey, SeenIsOwned, SingleId, Empty, NoClaim
<1> QED
  BY <1>1, <1>2 DEF OneWriteAtATime, SeenIsOwned, OneIdPerOwner, SingleId, SeenIdIsKept, Owns,
                    CleanMeansWritten

\* The whole inductive step.
LEMMA StoreStep == StoreInvariant /\ [Next]_vars => StoreInvariant'
<1> SUFFICES ASSUME StoreInvariant, [Next]_vars PROVE StoreInvariant'
  OBVIOUS
<1>1. TypeOK /\ StoreRules
  BY DEF StoreInvariant, StoreRules
<1>2. TypeOK'
  BY <1>1, TypeStep
<1>3. ASSUME NEW r \in Requests, RequestStep(r) PROVE StoreRules'
  <2>1. CASE \E i \in Ids, o \in Owners : ClaimArrives(r, i, o) \/ HostHandshake(r, i, o)
    BY <1>1, <2>1, RulesUntouched DEF ClaimArrives, HostHandshake, MemoryVars, DiskVars, StorePart
  <2>2. CASE \E i \in Ids, o \in Owners : Release(r, i, o)
    BY <1>1, <2>2, RulesRelease
  <2>3. CASE ClaimRefused(r) \/ TouchNothing(r) \/ LineFalls(r) \/ FlushLater(r)
    BY <1>1, <2>3, RulesUntouched
       DEF ClaimRefused, TouchNothing, LineFalls, FlushLater, MemoryVars, DiskVars, StorePart
  <2>4. CASE ClaimNew(r)
    BY <1>1, <2>4, RulesClaimNew
  <2>5. CASE Touch(r)
    BY <1>1, <2>5, RulesTouch
  <2>6. CASE HandlerSnapshot(r)
    BY <1>1, <2>6, RulesSnapshot DEF HandlerSnapshot, Snapshot, Writers
  <2> QED
    BY <1>3, <2>1, <2>2, <2>3, <2>4, <2>5, <2>6 DEF RequestStep
<1>4. ASSUME NEW t \in Timers, TimerSnapshot(t) PROVE StoreRules'
  BY <1>1, <1>4, RulesSnapshot DEF TimerSnapshot, Snapshot, Writers
<1>5. ASSUME NEW w \in Writers, Rename(w) \/ WriteFails(w) PROVE StoreRules'
  BY <1>1, <1>5, RulesWriteEnds
<1>6. ASSUME NEW i \in Ids, TTLPasses(i) PROVE StoreRules'
  BY <1>1, <1>6, RulesAge
<1>7. ASSUME MinutePasses PROVE StoreRules'
  BY <1>1, <1>7, RulesUntouched DEF MinutePasses, DiskVars, StorePart
<1>8. ASSUME Crash PROVE StoreRules'
  BY <1>1, <1>8, RulesCrash
<1>9. ASSUME UNCHANGED vars PROVE StoreRules'
  BY <1>1, <1>9, RulesUntouched DEF vars, StorePart
<1>10. StoreRules'
  BY <1>3, <1>4, <1>5, <1>6, <1>7, <1>8, <1>9 DEF Next
<1> QED
  BY <1>2, <1>10 DEF StoreInvariant, StoreRules

\* An empty store.
LEMMA StoreInit == Init => StoreInvariant
<1> SUFFICES ASSUME Init PROVE StoreInvariant
  OBVIOUS
<1>1. TypeOK
  BY EmptyIsAStore DEF Init, TypeOK
<1>2. StoreRules
  BY DEF Init, StoreRules, OneWriteAtATime, SnapshotsObey, SeenIsOwned, SingleId, OneIdPerOwner,
         SeenIdIsKept, CleanMeansWritten, Owns, Empty, NoClaim
<1> QED
  BY <1>1, <1>2 DEF StoreInvariant, StoreRules

\* Every reachable state obeys the store's rules.
THEOREM StoreCorrect == Spec => []StoreInvariant
BY StoreInit, StoreStep, PTL DEF Spec

\* The store's variables keep their types.
THEOREM StoreTyped == Spec => []TypeOK
<1>1. StoreInvariant => TypeOK
  BY DEF StoreInvariant
<1> QED BY <1>1, StoreCorrect, PTL

\* claim(): one id per owner, in memory and on file, whatever crashes.
THEOREM OwnersHoldOneId == Spec => []OneIdPerOwner
<1>1. StoreInvariant => OneIdPerOwner
  BY DEF StoreInvariant
<1> QED BY <1>1, StoreCorrect, PTL

\* write(): nothing newer than the file is ever forgotten, however writes,
\* requests and failures interleave.
THEOREM NothingUnwrittenIsForgotten == Spec => []CleanMeansWritten
<1>1. StoreInvariant => CleanMeansWritten
  BY DEF StoreInvariant
<1> QED BY <1>1, StoreCorrect, PTL

\* touch() and pruneLocked(): an id the file knows as used stays its owner's.
THEOREM SeenIdsAreKept == Spec => []SeenIdIsKept
<1>1. StoreInvariant => SeenIdIsKept
  BY DEF StoreInvariant
<1> QED BY <1>1, StoreCorrect, PTL

-----------------------------------------------------------------------------
(* The cap.  It is only asked before a row is added, so it must hold of    *)
(* every copy the store may come back from: the file, and the snapshots on *)
(* their way to it.                                                        *)
Fits(s) == setting.cap > 0 => Cardinality(Held(s)) <= setting.cap
EveryCopyFits == Fits(claims) /\ Fits(disk) /\ \A w \in Writers : Fits(body[w])

\* What the cap counts is a finite set.
LEMMA HeldIsFinite ==
  ASSUME NEW s
  PROVE  IsFiniteSet(Held(s)) /\ Cardinality(Held(s)) \in Nat
<1>1. Held(s) \in SUBSET Ids
  BY DEF Held
<1>2. IsFiniteSet(Held(s))
  BY <1>1, FinitelyManyIds, FS_Subset
<1> QED
  BY <1>2, FS_CardinalityType

\* A store with no more ids claimed fits where the other did.
LEMMA SmallerFits ==
  ASSUME TypeOK, NEW s, NEW t, Held(t) \subseteq Held(s), Fits(s), setting' = setting
  PROVE  setting'.cap > 0 => Cardinality(Held(t)) <= setting'.cap
<1>1. Cardinality(Held(t)) <= Cardinality(Held(s))
  BY HeldIsFinite, FS_Subset
<1>2. setting.cap \in Nat
  BY SettingsAssumption DEF TypeOK
<1> QED
  BY <1>1, <1>2, HeldIsFinite DEF Fits

\* No row is within every cap.
LEMMA EmptyFits == TypeOK => Fits(Empty)
<1> SUFFICES ASSUME TypeOK PROVE Fits(Empty)
  OBVIOUS
<1>1. Held(Empty) = {}
  BY DEF Held, Empty, NoClaim
<1>2. setting.cap \in Nat
  BY SettingsAssumption DEF TypeOK
<1> QED
  BY <1>1, <1>2, FS_EmptySet DEF Fits

\* claim() adds its row only below the cap, and counts after the walk.
LEMMA ClaimNewFits ==
  ASSUME TypeOK, Fits(claims), NEW r \in Requests, ClaimNew(r)
  PROVE  Fits(claims)'
<1> DEFINE i == req[r].id
           kept == Pruned(claims)
<1>1. setting' = setting /\ setting.cap \in Nat /\ kept \in Store
  BY PrunedIsAStore, SettingsAssumption DEF ClaimNew, TypeOK
<1>2. Held(kept) \subseteq Held(claims)
  <2>1. \A j \in Ids : kept[j] = claims[j] \/ kept[j] = NoClaim
    BY PrunedKeeps DEF TypeOK
  <2> HIDE DEF kept
  <2> QED
    BY <2>1 DEF Held, NoClaim
<1>3. CASE Full(kept)
  <2>1. claims' = kept
    BY <1>3 DEF ClaimNew
  <2> HIDE DEF kept
  <2> QED
    BY <1>1, <1>2, <2>1, SmallerFits DEF Fits, Held
<1>4. CASE ~Full(kept)
  <2> SUFFICES ASSUME setting.cap > 0 PROVE Cardinality(Held(claims')) <= setting.cap
    BY <1>1 DEF Fits, Held
  <2>1. claims' = [kept EXCEPT ![i] = [owner |-> req[r].owner, old |-> FALSE, seen |-> FALSE]]
    BY <1>4 DEF ClaimNew
  <2>2. ~(Cardinality(Held(kept)) >= setting.cap)
    BY <1>4 DEF Full
  <2> HIDE DEF kept
  <2>3. Held(claims') \subseteq Held(kept) \cup {i}
    BY <1>1, <2>1 DEF Held, Store
  <2>4. /\ IsFiniteSet(Held(kept) \cup {i})
        /\ Cardinality(Held(kept) \cup {i}) <= Cardinality(Held(kept)) + 1
    <3>1. /\ IsFiniteSet(Held(kept) \cup {i})
          /\ Cardinality(Held(kept) \cup {i}) = IF i \in Held(kept) THEN Cardinality(Held(kept))
                                                ELSE Cardinality(Held(kept)) + 1
      BY HeldIsFinite, FS_AddElement
    <3> QED
      BY <3>1, HeldIsFinite
  <2>5. /\ Cardinality(Held(claims')) <= Cardinality(Held(kept) \cup {i})
        /\ Cardinality(Held(claims')) \in Nat /\ Cardinality(Held(kept)) \in Nat
        /\ Cardinality(Held(kept) \cup {i}) \in Nat
    BY <2>3, <2>4, HeldIsFinite, FS_Subset, FS_CardinalityType
  <2> QED
    BY <1>1, <2>2, <2>4, <2>5
<1> QED
  BY <1>3, <1>4

\* Every step keeps every copy within the cap.
LEMMA CapStep == TypeOK /\ EveryCopyFits /\ [Next]_vars => EveryCopyFits'
<1> SUFFICES ASSUME TypeOK, EveryCopyFits, [Next]_vars PROVE EveryCopyFits'
  OBVIOUS
<1>1. setting' = setting
  BY DEF Next, RequestStep, ClaimArrives, Release, HostHandshake, ClaimRefused, ClaimNew,
         TouchNothing, Touch, LineFalls, FlushLater, HandlerSnapshot, TimerSnapshot, Snapshot,
         Rename, WriteFails, Return, TTLPasses, MinutePasses, Crash, vars
\* It is enough to know where each copy of the step comes from.
<1>2. ASSUME NEW s, Fits(s) PROVE setting'.cap > 0 => Cardinality(Held(s)) <= setting'.cap
  BY <1>1, <1>2 DEF Fits
<1>3. ASSUME Fits(claims)',
             disk' = disk \/ \E w \in Writers : disk' = body[w],
             \A w \in Writers : body'[w] \in {body[w], claims, Empty}
      PROVE  EveryCopyFits'
  BY <1>1, <1>3, EmptyFits DEF EveryCopyFits, Fits, Held
<1>4. ASSUME Held(claims') \subseteq Held(claims) PROVE Fits(claims)'
  BY <1>1, <1>4, SmallerFits DEF EveryCopyFits, Fits, Held
<1>5. ASSUME NEW r \in Requests, RequestStep(r) PROVE EveryCopyFits'
  <2>1. CASE ClaimNew(r)
    BY <1>3, <2>1, ClaimNewFits DEF ClaimNew, DiskVars, EveryCopyFits
  <2>2. CASE \E i \in Ids, o \in Owners : Release(r, i, o)
    <3>1. Held(claims') \subseteq Held(claims)
      BY <2>2 DEF Release, Held, TypeOK, Store, NoClaim
    <3> QED
      BY <1>3, <1>4, <2>2, <3>1 DEF Release, DiskVars
  <2>3. CASE Touch(r)
    <3>1. Held(claims') \subseteq Held(claims)
      BY <2>3 DEF Touch, Held, TypeOK, Store, Claim
    <3> QED
      BY <1>3, <1>4, <2>3, <3>1 DEF Touch, DiskVars
  <2>4. CASE HandlerSnapshot(r)
    BY <1>3, <1>4, <2>4 DEF HandlerSnapshot, Snapshot, Writers, TypeOK
  <2>5. CASE \/ \E i \in Ids, o \in Owners : ClaimArrives(r, i, o) \/ HostHandshake(r, i, o)
             \/ ClaimRefused(r) \/ TouchNothing(r) \/ LineFalls(r) \/ FlushLater(r)
    <3>1. claims' = claims /\ disk' = disk /\ body' = body
      BY <2>5 DEF ClaimArrives, HostHandshake, ClaimRefused, TouchNothing, LineFalls, FlushLater,
                  MemoryVars, DiskVars
    <3> QED
      BY <1>3, <1>4, <3>1
  <2> QED
    BY <1>5, <2>1, <2>2, <2>3, <2>4, <2>5 DEF RequestStep
<1>6. ASSUME NEW t \in Timers, TimerSnapshot(t) PROVE EveryCopyFits'
  BY <1>3, <1>4, <1>6 DEF TimerSnapshot, Snapshot, Writers, TypeOK
<1>7. ASSUME NEW w \in Writers, Rename(w) \/ WriteFails(w) PROVE EveryCopyFits'
  BY <1>3, <1>4, <1>7 DEF Rename, WriteFails, Return, TypeOK
<1>8. ASSUME NEW i \in Ids, TTLPasses(i) PROVE EveryCopyFits'
  <2>1. ASSUME NEW s \in Store PROVE Held(Aged(s, i)) = Held(s)
    BY AgedKeeps DEF Held
  <2>2. ASSUME NEW s \in Store, Fits(s)
        PROVE  setting'.cap > 0 => Cardinality(Held(Aged(s, i))) <= setting'.cap
    BY <1>1, <2>1, <2>2 DEF Fits
  <2>3. \A w \in Writers : body'[w] = Aged(body[w], i) /\ body[w] \in Store
    BY <1>8 DEF TTLPasses, TypeOK
  <2>4. claims' = Aged(claims, i) /\ disk' = Aged(disk, i) /\ claims \in Store /\ disk \in Store
    BY <1>8 DEF TTLPasses, TypeOK
  <2> QED
    BY <2>2, <2>3, <2>4 DEF EveryCopyFits, Fits, Held
<1>9. CASE MinutePasses \/ UNCHANGED vars
  BY <1>3, <1>4, <1>9 DEF MinutePasses, DiskVars, vars
<1>10. CASE Crash
  <2>1. Fits(claims)'
    BY <1>1, <1>10 DEF Crash, EveryCopyFits, Fits, Held
  <2> QED
    BY <1>3, <1>10, <2>1 DEF Crash
<1> QED
  BY <1>5, <1>6, <1>7, <1>8, <1>9, <1>10 DEF Next

\* claim(): the store never holds more ids than its cap, and neither does the
\* file, whatever crashes and whichever snapshot lands.
THEOREM StoreWithinItsCap == Spec => []WithinCap
<1>1. Init => TypeOK /\ EveryCopyFits
  <2> SUFFICES ASSUME Init PROVE TypeOK /\ EveryCopyFits
    OBVIOUS
  <2>1. TypeOK
    BY StoreInit DEF StoreInvariant
  <2> QED
    BY <2>1, EmptyFits DEF Init, EveryCopyFits
<1>2. TypeOK /\ EveryCopyFits /\ [Next]_vars => TypeOK' /\ EveryCopyFits'
  BY TypeStep, CapStep
<1>3. EveryCopyFits => WithinCap
  BY DEF EveryCopyFits, Fits, WithinCap
<1> QED
  BY <1>1, <1>2, <1>3, PTL DEF Spec

-----------------------------------------------------------------------------
(* The store is a register of owned ids.                                   *)

\* A step that leaves store, file and writes alone leaves the register alone.
LEMMA RegisterUntouched ==
  ASSUME UNCHANGED <<claims, disk, writing, body>>
  PROVE  UNCHANGED Reg!vars
BY DEF Reg!vars, BookOf, Copies

\* A store with nothing in it is a blank register.
LEMMA RegisterStarts == Init => Reg!Init
<1> SUFFICES ASSUME Init  PROVE Reg!Init
  OBVIOUS
<1>1. BookOf(Empty) = Reg!Blank
  BY DEF BookOf, Empty, NoClaim, Reg!Blank, Reg!Free
<1>2. claims = Empty /\ disk = Empty /\ \A w \in Writers : ~writing[w]
  BY DEF Init
<1>3. Copies = {}
  BY <1>2 DEF Copies
<1> QED
  BY <1>1, <1>2, <1>3 DEF Reg!Init

\* What the requests ask of the store while no write begins or ends.
LEMMA WritesGoOn ==
  ASSUME UNCHANGED DiskVars
  PROVE  BookOf(disk)' = BookOf(disk) /\ Copies' = Copies
BY DEF DiskVars, BookOf, Copies

\* The walk forgets ids that nobody was seen on.
LEMMA WalkForgets ==
  ASSUME TypeOK
  PROVE  \E gone \in SUBSET Reg!Unused : BookOf(Pruned(claims)) = Reg!Without(gone)
<1> DEFINE gone == {i \in Ids : PruneRuns /\ Unused(claims[i])}
<1>1. gone \subseteq Reg!Unused
  BY DEF Unused, Reg!Unused, BookOf
<1>2. \A i \in Ids : Pruned(claims)[i] = IF i \in gone THEN NoClaim ELSE claims[i]
  BY DEF Pruned, TypeOK, Store
<1> HIDE DEF gone
<1>3. BookOf(Pruned(claims)) = Reg!Without(gone)
  <2>1. \A i \in Ids : [owner |-> Pruned(claims)[i].owner, used |-> Pruned(claims)[i].seen] =
                        IF i \in gone THEN Reg!Free ELSE BookOf(claims)[i]
    <3> SUFFICES ASSUME NEW i \in Ids
                 PROVE  [owner |-> Pruned(claims)[i].owner, used |-> Pruned(claims)[i].seen] =
                          IF i \in gone THEN Reg!Free ELSE BookOf(claims)[i]
      OBVIOUS
    <3>1. CASE i \in gone
      <4>1. Pruned(claims)[i] = NoClaim
        BY <1>2, <3>1
      <4>2. NoClaim.owner = Nobody /\ NoClaim.seen = FALSE
        BY DEF NoClaim
      <4> QED
        BY <3>1, <4>1, <4>2 DEF Reg!Free
    <3>2. CASE i \notin gone
      <4>1. Pruned(claims)[i] = claims[i]
        BY <1>2, <3>2
      <4>2. BookOf(claims)[i] = [owner |-> claims[i].owner, used |-> claims[i].seen]
        BY DEF BookOf
      <4> QED
        BY <3>2, <4>1, <4>2
    <3> QED
      BY <3>1, <3>2
  <2> QED
    BY <2>1, Zenon DEF BookOf, Reg!Without
<1> QED
  BY <1>1, <1>3

\* claim(): the walk alone where the cap refuses, and the row after it otherwise.
LEMMA ClaimIsOne ==
  ASSUME StoreInvariant, NEW r \in Requests, ClaimNew(r)
  PROVE  Reg!Next
<1> DEFINE i == req[r].id
           o == req[r].owner
           kept == Pruned(claims)
           row == [owner |-> o, old |-> FALSE, seen |-> FALSE]
<1>1. TypeOK /\ req[r] \in Busy
  BY DEF ClaimNew, StoreInvariant, TypeOK, Idle
<1>2. i \in Ids /\ o \in Owners /\ kept \in Store
  BY <1>1, PrunedIsAStore DEF Busy, TypeOK
<1>3. BookOf(disk)' = BookOf(disk) /\ Copies' = Copies
  BY WritesGoOn DEF ClaimNew
<1>4. PICK gone \in SUBSET Reg!Unused : BookOf(kept) = Reg!Without(gone)
  BY <1>1, WalkForgets
<1>5. CASE Full(kept)
  <2>1. claims' = kept
    BY <1>5 DEF ClaimNew
  <2>2. Reg!Forget
    BY <1>3, <1>4, <2>1 DEF Reg!Forget
  <2> QED
    BY <2>2 DEF Reg!Next
<1>6. CASE ~Full(kept)
  <2>1. claims' = [kept EXCEPT ![i] = row] /\ claims[i].owner = Nobody /\ ~HoldsOther(i, o)
    BY <1>6 DEF ClaimNew
  <2> HIDE DEF kept
  <2>2. BookOf(claims') = [BookOf(kept) EXCEPT ![i] = [owner |-> o, used |-> FALSE]]
    BY <1>2, <2>1 DEF BookOf, Store
  <2>3. BookOf(claims)[i] = Reg!Free
    <3>1. claims[i].seen = FALSE
      BY <1>1, <1>2, <2>1 DEF StoreInvariant, SeenIsOwned, TypeOK, Store, Claim
    <3> QED
      BY <1>2, <2>1, <3>1 DEF BookOf, Reg!Free
  <2>4. \A j \in Ids : BookOf(claims)[j].owner # o
    BY <1>2, <2>1 DEF BookOf, HoldsOther, Owns
  <2>5. BookOf(claims') = [Reg!Without(gone) EXCEPT ![i] = [owner |-> o, used |-> FALSE]]
    BY <1>4, <2>2
  <2>6. Reg!Claim(i, o)
    BY <1>3, <1>4, <2>3, <2>4, <2>5 DEF Reg!Claim
  <2> QED
    BY <1>2, <2>6 DEF Reg!Next
<1> QED
  BY <1>5, <1>6

\* release() and touch().
LEMMA ReleaseAndTouchAreOne ==
  ASSUME TypeOK, NEW r \in Requests,
         (\E i \in Ids, o \in Owners : Release(r, i, o)) \/ Touch(r)
  PROVE  Reg!Next
<1>1. CASE \E i \in Ids, o \in Owners : Release(r, i, o)
  <2>1. PICK i \in Ids, o \in Owners : Release(r, i, o)
    BY <1>1
  <2>2. claims' = [claims EXCEPT ![i] = NoClaim] /\ claims[i].owner # Nobody
    BY <2>1 DEF Release, Owns
  <2>3. BookOf(claims') = [BookOf(claims) EXCEPT ![i] = Reg!Free]
    BY <2>2 DEF BookOf, TypeOK, Store, NoClaim, Reg!Free
  <2>4. BookOf(claims)[i].owner # Nobody
    BY <2>2 DEF BookOf
  <2>5. BookOf(disk)' = BookOf(disk) /\ Copies' = Copies
    BY <2>1, WritesGoOn DEF Release
  <2>6. Reg!GiveUp(i)
    BY <2>3, <2>4, <2>5 DEF Reg!GiveUp
  <2> QED
    BY <2>6 DEF Reg!Next
<1>2. CASE Touch(r)
  <2> DEFINE i == req[r].id
  <2>1. i \in Ids
    BY <1>2 DEF Touch, TypeOK, Idle, Busy
  <2>2. claims' = [claims EXCEPT ![i].seen = TRUE] /\ claims[i].owner # Nobody
    BY <1>2 DEF Touch
  <2>3. \A j \in Ids : /\ claims'[j].owner = claims[j].owner
                       /\ claims'[j].seen = IF j = i THEN TRUE ELSE claims[j].seen
    BY <2>1, <2>2 DEF TypeOK, Store, Claim
  <2>4. BookOf(claims') = [BookOf(claims) EXCEPT ![i].used = TRUE]
    BY <2>1, <2>3 DEF BookOf
  <2>5. BookOf(claims)[i].owner # Nobody
    BY <2>1, <2>2 DEF BookOf
  <2>6. BookOf(disk)' = BookOf(disk) /\ Copies' = Copies
    BY <1>2, WritesGoOn DEF Touch
  <2>7. Reg!Use(i)
    BY <2>4, <2>5, <2>6 DEF Reg!Use
  <2> QED
    BY <2>1, <2>7 DEF Reg!Next
<1> QED
  BY <1>1, <1>2

\* The snapshot is the only copy on its way, and it is of the store of now.
LEMMA SnapshotIsOne ==
  ASSUME TypeOK, NEW w \in Writers, Snapshot(w)
  PROVE  [Reg!Next]_(Reg!vars)
<1>1. CASE ~dirty
  <2>1. UNCHANGED <<claims, disk, writing, body>>
    BY <1>1 DEF Snapshot, WriteLockFree, TypeOK
  <2> QED
    BY <2>1, RegisterUntouched
<1>2. CASE dirty
  <2>1. /\ \A v \in Writers : ~writing[v]
        /\ \A v \in Writers : writing'[v] <=> v = w
        /\ body'[w] = claims /\ claims' = claims /\ disk' = disk
    BY <1>2 DEF Snapshot, WriteLockFree, TypeOK
  <2>2. Copies = {}
    BY <2>1 DEF Copies
  <2>3. Copies' = {BookOf(claims)}
    <3>1. {v \in Writers : writing'[v]} = {w}
      BY <2>1
    <3>2. Copies' = {BookOf(body'[v]) : v \in {w}}
      BY <3>1 DEF Copies, BookOf
    <3> QED
      BY <2>1, <3>2
  <2>4. BookOf(claims)' = BookOf(claims) /\ BookOf(disk)' = BookOf(disk)
    BY <2>1 DEF BookOf
  <2>5. Reg!Copy
    BY <2>2, <2>3, <2>4 DEF Reg!Copy
  <2> QED
    BY <2>5 DEF Reg!Next
<1> QED
  BY <1>1, <1>2

\* The rename saves the one copy there is; a write that fails loses it.
LEMMA WriteEndsIsOne ==
  ASSUME TypeOK, OneWriteAtATime, NEW w \in Writers, Rename(w) \/ WriteFails(w)
  PROVE  Reg!Next
<1>1. /\ writing[w] /\ claims' = claims
      /\ \A v \in Writers : ~writing'[v]
  BY DEF Rename, WriteFails, Return, OneWriteAtATime, TypeOK
<1>2. Copies' = {} /\ BookOf(claims)' = BookOf(claims)
  BY <1>1 DEF Copies, BookOf
<1>3. Copies = {BookOf(body[w])}
  <2>1. {v \in Writers : writing[v]} = {w}
    BY <1>1 DEF OneWriteAtATime
  <2> QED
    BY <2>1 DEF Copies
<1>4. CASE Rename(w)
  <2>1. BookOf(disk)' = BookOf(body[w])
    BY <1>4 DEF Rename, BookOf
  <2>2. Reg!Save
    BY <1>2, <1>3, <2>1 DEF Reg!Save
  <2> QED
    BY <2>2 DEF Reg!Next
<1>5. CASE WriteFails(w)
  <2>1. BookOf(disk)' = BookOf(disk)
    BY <1>5 DEF WriteFails, BookOf
  <2>2. Reg!Lose
    BY <1>2, <2>1 DEF Reg!Lose
  <2> QED
    BY <2>2 DEF Reg!Next
<1> QED
  BY <1>4, <1>5

\* Time changes nothing that the register says.
LEMMA TimeIsNone ==
  ASSUME TypeOK, NEW i \in Ids, TTLPasses(i)
  PROVE  UNCHANGED Reg!vars
<1>1. ASSUME NEW s \in Store  PROVE BookOf(Aged(s, i)) = BookOf(s)
  <2>1. \A j \in Ids : /\ Aged(s, i)[j].owner = s[j].owner
                       /\ Aged(s, i)[j].seen = s[j].seen
    BY AgedKeeps
  <2> QED
    BY <2>1 DEF BookOf
<1>2. /\ claims \in Store /\ disk \in Store /\ body \in [Writers -> Store]
      /\ claims' = Aged(claims, i) /\ disk' = Aged(disk, i) /\ writing' = writing
      /\ \A w \in Writers : body'[w] = Aged(body[w], i)
  BY DEF TypeOK, TTLPasses
<1>3. \A w \in Writers : BookOf(body'[w]) = BookOf(body[w])
  BY <1>1, <1>2
<1>4. Copies' = Copies
  <2> DEFINE now == {v \in Writers : writing[v]}
  <2>1. Copies' = {BookOf(body'[w]) : w \in now}
    BY <1>2 DEF Copies, BookOf
  <2>2. Copies = {BookOf(body[w]) : w \in now}
    BY DEF Copies
  <2> HIDE DEF now
  <2>3. now \subseteq Writers
    BY DEF now
  <2> QED
    BY <1>3, <2>1, <2>2, <2>3
<1>5. BookOf(claims)' = BookOf(claims) /\ BookOf(disk)' = BookOf(disk)
  BY <1>1, <1>2 DEF BookOf
<1> QED
  BY <1>4, <1>5 DEF Reg!vars

\* A restart finds what was saved, and no write under way.
LEMMA CrashIsOne == Crash => Reg!Next
<1> SUFFICES ASSUME Crash  PROVE Reg!Next
  OBVIOUS
<1>1. claims' = disk /\ disk' = disk /\ \A w \in Writers : ~writing'[w]
  BY DEF Crash
<1>2. Copies' = {}
  BY <1>1 DEF Copies
<1>3. BookOf(claims)' = BookOf(disk) /\ BookOf(disk)' = BookOf(disk)
  BY <1>1 DEF BookOf
<1>4. Reg!Restart
  BY <1>2, <1>3 DEF Reg!Restart
<1> QED
  BY <1>4 DEF Reg!Next

\* Every step of the server is a step of the register, or changes nothing there.
LEMMA RegisterStep == StoreInvariant /\ [Next]_vars => [Reg!Next]_(Reg!vars)
<1> SUFFICES ASSUME StoreInvariant, [Next]_vars  PROVE [Reg!Next]_(Reg!vars)
  OBVIOUS
<1>1. TypeOK /\ OneWriteAtATime
  BY DEF StoreInvariant
<1>2. ASSUME NEW r \in Requests, RequestStep(r)  PROVE [Reg!Next]_(Reg!vars)
  <2>1. CASE \/ \E i \in Ids, o \in Owners : ClaimArrives(r, i, o) \/ HostHandshake(r, i, o)
             \/ ClaimRefused(r) \/ TouchNothing(r) \/ LineFalls(r) \/ FlushLater(r)
    <3>1. UNCHANGED <<claims, disk, writing, body>>
      BY <2>1 DEF ClaimArrives, HostHandshake, ClaimRefused, TouchNothing, LineFalls, FlushLater,
                  MemoryVars, DiskVars
    <3> QED
      BY <3>1, RegisterUntouched
  <2>2. CASE ClaimNew(r)
    BY <2>2, ClaimIsOne
  <2>3. CASE (\E i \in Ids, o \in Owners : Release(r, i, o)) \/ Touch(r)
    BY <1>1, <2>3, ReleaseAndTouchAreOne
  <2>4. CASE HandlerSnapshot(r)
    BY <1>1, <2>4, SnapshotIsOne DEF HandlerSnapshot, Writers
  <2> QED
    BY <1>2, <2>1, <2>2, <2>3, <2>4 DEF RequestStep
<1>3. ASSUME NEW t \in Timers, TimerSnapshot(t)  PROVE [Reg!Next]_(Reg!vars)
  BY <1>1, <1>3, SnapshotIsOne DEF TimerSnapshot, Writers
<1>4. ASSUME NEW w \in Writers, Rename(w) \/ WriteFails(w)  PROVE [Reg!Next]_(Reg!vars)
  BY <1>1, <1>4, WriteEndsIsOne
<1>5. ASSUME NEW i \in Ids, TTLPasses(i)  PROVE [Reg!Next]_(Reg!vars)
  BY <1>1, <1>5, TimeIsNone
<1>6. CASE MinutePasses \/ UNCHANGED vars
  BY <1>6, RegisterUntouched DEF MinutePasses, DiskVars, vars
<1>7. CASE Crash
  BY <1>7, CrashIsOne
<1> QED
  BY <1>2, <1>3, <1>4, <1>5, <1>6, <1>7 DEF Next

\* The store implements the register: whatever requests, timers, writes and crashes
\* meet, its owners see a book of ids where each change is one step.
THEOREM StoreIsARegister == Spec => ActsAsARegister
BY RegisterStarts, RegisterStep, StoreCorrect, PTL DEF Spec, ActsAsARegister, Reg!Spec
=============================================================================
