# MoonlightWeb: formal models

MoonlightWeb lets a browser play what a PC streams (GameStream hosts, or the
native engine shipped with it). An *instance* runs on or next to that PC; the
*introduction server* lets a browser on the internet find an instance that has no
public address. This directory models the concurrent core of both in TLA+, checks
the models with TLC and proves theorems about them with TLAPS.

Every definition is translated from the source at this commit. `PROJECT.json`
says which lines each definition stands for, which property is about which hazard,
and, for every property, a plausible bug of the code that it catches (a
"mutant": an operator kept next to the definition it would replace).

    tlc -workers 2 -config Hub.cfg MCRendezvousHub.tla
    tlapm ClaimStoreProofs.tla

## 1. The system

### Components

| Component | Source | State it keeps | Operations |
|---|---|---|---|
| Introduction server: claim store | `deploy/powerdns/mw-rendezvous/store.go`, `main.go` (claims) | id → owner with its age, the file, `dirty`, `scheduled`, the writes in progress | claim, release, owns, touch, prune, flush, write, reload |
| Introduction server: hub | `hub.go`, `main.go` (lines, browsers), `ws.go` | the line of each id, the sessions bridged on each line, the lines gone | register, unregister, shutdown, hang up; look up, add/drop session, relay, delayed close |
| Instance's line | `backend/src/network/RendezvousClient.cpp` | the claimed flag, the attempt (race, socket), failures, redraws, timers | start, stop, claim, open, race, time out, retry, ping, notice |
| Input watchdog | `backend/src/streaming/InputWatchdog.cpp`, the relays, `MoonlightShim.cpp` | what is held, when the client was last heard, the timer | note a press/release, heartbeat, tick, release, change of rights |
| Guests' shared feed | `backend/src/streaming/SharedFeed.cpp`, the joins of `main.cpp` | the feed's worker, pipe, spec, guests, timers, failures; each slot's join and worker | acquire, release, resize, reset, relaunch, give up; join, stand down, start, leave |
| Router's ports | `network/RouterPortCore.cpp`, `RouterPortAllocator.cpp` | the entries held, the router's table shared with the neighbours | claim, renew, release, rediscover |
| Virtual display | `backend/VirtualDisplayJob.cpp`, the launches of `main.cpp`, the elevated helper | the queue of operations, who waits behind each, the release grace, the displays | activate, deactivate, bring the others back, poll, time out, fall back |
| Sending pictures | `streaming/DataChannelRelay.cpp`, `FrameSender.cpp`, `SendBacklog.h` | the gate, the held keyframe, the request's cooldown, a bounded queue and its evictions | relay a picture, push, evict, send, ask for a keyframe |
| Sharing | `server/ShareManager.cpp` | three rows: token, PIN, bound device, expiry, failures | activate, join, resume, revoke, expire |
| Control tunnel | `server/ControlTunnel.cpp` | one attempt per introduced browser | offer, answer, expire, close |
| Access | `server/AuthManager.cpp`, `ConnectionGuard.cpp`, `PhonePairing.cpp`… | sessions, PIN failures and delays, connections per address | log in, expire, refuse |
| Streams | `streaming/Session.cpp`, `SignalingServer.cpp`, relays, `WorkerService.cpp`, `StreamWorkerHost.cpp` | one worker process per stream, its channels | start, negotiate, relay, quit |
| Hosts, updates, HTTP, native engine, pages, DNS | the rest of `src/` | | |

The first eight are modelled (section 2). The others are listed in
`PROJECT.json` with the reason each is not; section 6 says which come next.

### How they interact

- The instance **claims** an identifier from the introduction server over HTTPS
  and then **holds a line** (a WebSocket) under it. A browser opens its own
  WebSocket on that identifier; the server bridges the two, one JSON frame at a
  time. The server is one Go process: a goroutine per connection, a mutex for the
  store, one for the hub, one per line's sessions, none held while it writes to a
  socket or to the disk.
- Inside the instance everything but media runs on one Qt thread: handlers do
  not interleave, but what they start (replies, sockets, zero-delay lambdas,
  timers, child processes) comes back in any order.
- A stream runs in a worker process. Its input comes through WebRTC on a thread
  of the relay, or on the main thread, and passes the **watchdog** on its way to
  the engine.
- The guests of a shared stream watch **one feed**, a worker that publishes on a
  named pipe; each guest's worker subscribes to it. Joining crosses two waits: the
  slot's previous process must be gone, and the router must have answered.
- A launch on the **virtual display** waits behind a queue of operations, each a
  run of an elevated helper that reports through a file, before it asks the router
  for its hole. Several hosts **share one router**, whose table is all they know of
  one another.
- A **picture** is handed over on the engine's thread, queued under the relay's
  video lock and sent by a thread of its own; requests for a keyframe come back
  from the browser on a third.

### What is hard in this code

A lock released between a decision and its effect (store writes, sessions,
watchdog); clean-ups from two goroutines in either order; a reply, a timer and a
socket event that each end the same attempt; an answer lost after the server
acted on it; a process's end heard in two parts, after its successor was
started; a join superseded while it waits; a table read in one request and written
in another; a run given up that still ends; a picture thrown away that others
need. `PROJECT.json`, `hazards`, lists each
at its line, with the properties that would catch it going wrong.

### What makes each component correct

| Component | Correct means |
|---|---|
| Claim store | one id per owner, across restarts; the cap; a used id is never lost to a prune, a late write or a crash; what was accepted reaches the file |
| Hub | no browser waits on a line that fell; no place leaks; the newest line is the one reached; both ends learn of the end |
| Instance's line | it always comes back, and only when it should; each attempt counts once; it keeps its id |
| Watchdog | what the host holds is what the watchdog would release; silence lets go; what the user still holds comes back |
| Shared feed | whoever watches is counted, whoever is counted is coming; a feed for nobody stops; a feed that died comes back; nobody's pipe is pulled |
| Router's ports | a port whose entry leads to its holder stays so, but for what the protocol cannot see; no entry that leads to a running host is forgotten by it |
| Virtual display | whoever waits is answered once; what is streamed is not switched off; what nobody streams is; the owner's other displays come back |
| Sending pictures | nothing that needs a picture thrown away is sent while the gate is open; no request is put off for good; a browser without a picture gets one |

## 2. The modules

| Module | Models | Checked by | Proved in |
|---|---|---|---|
| `ClaimStore` | `store.go`, `handleClaim`, the start of `handleHost` | `MCClaimStore` | `ClaimStoreProofs` |
| `Register` | what the store promises, as an abstract specification | instantiated by `ClaimStore` as `Reg` | `ClaimStoreProofs` |
| `RendezvousHub` | `hub.go`, the rest of `handleHost`, `handlePeer` | `MCRendezvousHub` | `RendezvousHubProofs` |
| `Switchboard` | what the hub promises, as an abstract specification | instantiated by `RendezvousHub` as `Board` | `RendezvousHubProofs` |
| `RendezvousClient` | `RendezvousClient.cpp` and the server as it sees it | `MCRendezvousClient` | `RendezvousClientProofs` |
| `InputWatchdog` | `InputWatchdog.cpp`, the handlers that feed it, the engine's filter | `MCInputWatchdog` | `InputWatchdogProofs` |
| `SharedFeed` | `SharedFeed.cpp`, `startPlayerStream`/`stopPlayerStream` | `MCSharedFeed` | `SharedFeedProofs` |
| `RouterPorts` | `RouterPortCore.cpp` of several hosts, and their router | `MCRouterPorts` | `RouterPortsProofs` |
| `VirtualDisplayJob` | `VirtualDisplayJob.cpp`, the launches, the helper | `MCVirtualDisplayJob` | `VirtualDisplayJobProofs` |
| `VideoGate` | the video part of `DataChannelRelay.cpp`, `FrameSender.cpp`, `SendBacklog.h`, the browser's decoder | `MCVideoGate` | `VideoGateProofs` |

Each `...Proofs` module EXTENDS the module it is about. An MC module only declares
model values, the settings considered and the symmetry; no definition is replaced.

### `ClaimStore`

One step per critical section of `s.mu`. `write()` is two steps, the snapshot
(`Snapshot`) and the rename (`Rename`) or the failure (`WriteFails`), because
`s.mu` is free in between; `writeMu`, held across both, is `WriteLockFree`. A handler
is a program counter and its locals (`req`); with a delay the flush only
schedules (`FlushLater`), without one the handler writes itself. `Crash` drops
everything but the file. An owner stands for its token's HMAC; time stamps are
reduced to the two questions the code asks: past `unusedTTL` (`old`), and seen
with a line (`seen`). `setting` holds the server's configuration, chosen once.
Left out: the budgets per address (they refuse before the store is reached) and
the `quota` table; reading a file that is damaged.

### `Register`

The promise to the owners of ids, without requests, goroutines or flags: a free id goes
to an owner who holds none, and stays theirs until they give it up, or until it is
forgotten while no host was ever seen on it; the book is saved from one copy at a time,
and a restart takes it back to what was saved last, so never to an older page than an
earlier restart would have. `ClaimStore` maps its own state to it (`Reg`): the owner and
`seen` of each row are the book, the file what is saved, the snapshots being written the
copies. Two writes under way would be two copies, which the register never has; the delay,
the dirty flag, the handlers and the passing of time are not seen in it. The cap is left to
`WithinCap`.

### `RendezvousHub`

A connection is a socket (`wire`: open, cut, dead) and its handler's program
counter. Sends are nondeterministic between success and failure once the other
end is cut (`CanSend`, `CanFail`): a write to a peer that just left may still go
through. A displaced line has a second actor, its `hangUpLine` goroutine, so that
`HandlerShutdown` and `HangerShutdown` both exist and may come in either order;
the deferred clean-up of `handleHost` is three steps (unregister, shut down, hang
up). `closeLater` is a timer of its own. The rate limits inside a session and the
frames' contents are left out.

`FirstComesFirst`, an action constraint of `MCRendezvousHub`, names connections in
the order they come. TLC's symmetry is unsound under liveness; this is not, since
connections are interchangeable, and one that never comes, or comes and never
looks anything up, changes nothing for the others.

### `Switchboard`

The promise, without goroutines, locks or sockets: one line per identifier, the
last plugged in; a line leaves the board before it falls; a fall is one event for
everybody on it; a browser calls once, on a line with room for it. Its liveness is
one formula: a browser whose call is on and who has no place is hung up.
`RendezvousHub` maps its own state to it (`Board`): a browser before its session is
added has not called, a place is a session, a line has fallen once `shutdown()`
marked it gone. `ActsAsASwitchboard`, which is `Board!Spec`, is checked whole by TLC;
its safety part is proved.

### `RendezvousClient`

Each Qt handler is one action; the class's own functions (`AttemptFailed`,
`OnDisconnected`, `OpenLine`, `Halt`…) are operators on the record of members,
applied in the order the code calls them. `sock` is the socket's state;
`"doomed"` is a connecting socket on which `close()` was called, which Qt keeps
connecting until the connection comes through or fails. The server is reduced to
what it would answer (`held`, `serves`). Misbehaviours of the network or the
server (a lost reply, a race lost, a dropped line, a write that fails) each spend
one of `MaxFaults`; after the last one everything answers in time, so that
coming back can be asked. A family in `Stalled` wins its race and then never
completes its upgrade: that is not a fault, it may happen on every attempt. A line
that goes by name (`pinned` is false) has no race: Qt dials the same first address at
every attempt (`dials`, chosen once). Timeouts fire only on attempts that stalled or at the cost of a fault. Left out:
the delays and their jitter, a claim whose timeout passed but whose reply is
handled all the same.

### `InputWatchdog`

Each section under the watchdog's mutex is one step, each event it then sends
another. `OwnThread` says whether input is handled on a thread of its own
(`DataChannelRelay`) or on the watchdog's (`MediaTrackRelay`, `StreamRelay`);
`ForwardsRepeats` whether the engine lets the keyboard's auto-repeat through
(the native one does, GameStream's wrapper drops a press of a key already held);
`Gaming` and `HoldKeys` what a short stall may keep. The page is the environment:
it presses, repeats, releases, and beats while something is held and once after
(`StreamView.js`). Whether a key survives a short stall is fixed per key here;
the code takes it from each message. A message is handled within the short
period (`TimePasses` waits for the handler).

### `SharedFeed`

The class's methods take the feed and its processes as a record and return what
becomes of them; `launch()` may fail where the run says so, so they return sets.
A worker process goes (`Goes`), is heard of as `ended` (`HearEnded`), then as
`exited` (`HearExited`). A join is `AskToJoin` (the route, and the slot's worker
detached), `JoinFeed` (the previous process gone: `joinFeed()`, then the router
is asked), `StartWorker` (the answer). Joins a newer one superseded wait in
`late` and still pass through `joinFeed()` (`LateJoinFeed`). Pipe numbers only
grow in the code; here a number is used again once no process holds it, and a
guest's `ticket` is on this pipe or an older one. A guest leaves (`GuestGoes`) and gives
the place back, or their share expires or is locked (`SentAway`): the slot is then
detached without it, and stays counted for nobody until the slot is let go of or takes
its place again; `forgotten` remembers which. `Happens` names the events a run lets
happen, so that one question can be asked without the noise of another.

### `RouterPorts`

One request to the router is one step, so the jobs of two hosts interleave
between a read and the write it decided. The router may accept a write and leave
the entry as it was, refuse it, carry it out and have its answer lost, refuse a removal
(which no caller looks at), fail to answer queries for a while (`answers`; the code
reads that as "no entry"), or lose an entry at any time. `prev` is the address
the remembered ports were obtained under, whose entries a host may write over.
`stray` is history: the entries a dead process, a refused removal or a write carried out
against its answer left behind. Left out: the TCP entries, the lease's length and
its latch, the second pass after two failures, the order of candidates (any
order), discovery, and the mirror of the list on the main thread.

### `VirtualDisplayJob`

The class's functions are operators on one record, `d`, which also holds what
became of each launch: it has `asked`, was `dropped` by a newer one, is `clear` to
go on, is `on`. The helper is a run per request; a task (`Method = "task"`) writes a
verdict that the job polls, a child (`"elevated"`) reports by its exit. A run may
fail, die without a verdict, or be given up at its deadline and end all the same. An
activation may fail to put the other displays out, or to bring back the layout they
were in. The grace and the closing delay may end at any moment of a launch, and ask for
the streams only; `caught` remembers the launches that were under way then. Left out: the
stages of a service, macOS's display in the process, Linux's in the stream, the
installation, the refusals before a run starts (folded into `HelperFails`), the
graces' lengths, and the modes beyond two.

### `VideoGate`

The relay's members under its video lock are one record; each of the three
threads that take the lock is a set of actions. A picture is a keyframe or a delta,
and says what is missing before it: nothing, ids the browser notices (a `gap`), or a
picture that never had an id (`silent`). `tail` says what ails the last picture
queued, `after` where the last one encoded went. The sender's queue, the transport,
a link that loses pictures and the browser's decoder with its own throttle of
requests close the loop. `still` is a screen that does not move on a host that encodes on
damage (GameStream, `MoonlightShim.h:181-198`): it encodes nothing then, but the keyframe it
was asked for, for which the pointer is nudged. The native host encodes a still screen too
(`WindowsSession.cpp:2261-2288`), so its `still` never comes. Left out: streams that ride a hole out with other means
than a keyframe, the RTP track, pacing, fragments, the cooldown's growth, the
second throttle of `WebRtcDataChannel`, and stopping.

## 3. Runs

The runs cover every action of their modules between them.

| Run | Bounds | Distinct states | Shows |
|---|---|---|---|
| `claims_safety` | 2 ids, 2 owners, 2 handlers, 1 timer, cap 1, delayed or not, writes fail | 828 k | `WithinCap` `SeenIdIsKept` `CleanMeansWritten` `ActsAsARegister` |
| `claims_live` | 2 ids, 1 owner, 2 handlers, no cap, delayed or not | 310 k | `OneIdPerOwner` `AcceptedReachesDisk` |
| `hub` | 1 id, 2 lines, 2 browsers, one session per line | 123 k | `TypeOK` `NobodyStranded` `NoPlaceLeaked` `NewestLineIsReached` `EndIsOnItsWay` `ActsAsASwitchboard` |
| `client_line` | 3 faults, 2 starts or restarts, IPv6 stalls, re-claim after 2, 2 redraws, raced or by name | 129 k | `NeverStuck` `EveryAttemptCountsOnce` `OurIdIsKept` `ComesBack` |
| `watchdog_one_thread` | a key, a hold key, a button, a pad; queue of 1 and the message handled; gaming; rights change | 293 k | `TrackedIsHeld` `RevokedHoldsNothing` `HeldComesBack` `NothingOutlivesTheLink` |
| `watchdog_own_thread` | a key, a button; queue of 2; native engine | 120 k | `LetGoMeansUp` `DeadLinkIsNoticed` |
| `feed_safety` | 2 slots, 2 workers, every event | 523 k | `NobodyMeansIdle` |
| `feed_displays` | 2 slots, 2 displays, H.264 or any codec, the owner stops, guests are sent away | 1.80 M | `FeedSuitsItsGuests` `WatchedIsCounted` `CountedIsComing` `GuestsKeepTheirPipe` |
| `feed_rebuild` | 2 slots, 2 heights, worker deaths, guests are sent away | 627 k | `OneFeedPerPipe` `WaitIsNotInVain` `FeedComesBack` |
| `ports` | 2 hosts, 2 ports, 2 addresses, 1 restart, any table at first, a router that forgets, refuses and does not answer | 1.07 M | `NoHoleLeaks` `StaysInOrder` |
| `vdisplay` | 2 launches, an owner's and a guest's, 2 modes, the installer's task, 1 fault, delays that end at any time | 553 k | `HeldOnce` `OffOnlyUnwatched` `ReadyMeansOn` `LastOneTurnsItOff` `OthersComeBack` |
| `video_gate` | queue of 2, depth 1 or 2, 1 picture in transport, 1 lost, 1 keyframe queued, a screen that stops | 192 k | `NoWaitBehindAnOpenGate` `HoleShutsTheGate` `PictureComesBack` |

**Why the bounds are enough for the question.** Two of everything that meets: two
writers and two requests for the write's order, a third goroutine for the timer;
a line and the one that displaces it, with a browser found on the first and one
on the second; a slot and another for "the others"; two worker processes because
a feed is never replaced by more than one at a time, and a third pipe number so
that a pipe is never confused with the one before. One id suffices in the hub:
nothing in it relates two ids. The cap and the sessions per line are at one, so
that the limit is met by the second. The client's counters are at the smallest
value that separates "first" from "again". Two hosts, two ports and two addresses
let each take what the other held, under the address the other had. Two launches
are one that waits and one that streams, joins or supersedes it, one of them a guest's since the owner's other displays are
his doing (with two of the owner's devices, `GuestsAre = {{}}`, the run passes as well);
one fault is one run given up, whose late verdict meets one operation after it. The sender's queue
of two is the native engine's, at depths on either side of its limit. The runs of
the feed leave out, each, the events section 4 shows their properties fail under;
`feed_safety` has them all.

The faults of `vdisplay` strike activations of the task method; `HeldOnce`,
`OffOnlyUnwatched` and `ReadyMeansOn` are proved for both methods and for failures of every
verb. `OffOnlyUnwatched` excuses the launches that were under way when the delay that
decided the switching off ran out, `OthersComeBack` a guest who was, and no other:
section 4 shows both. `ComesBack` asks for a way through: a family that does not stall, for
a line that goes by name the one it dials. `PictureComesBack` says that a browser without a
picture gets one or the screen has stopped. `CountedIsComing` leaves out guests sent away.

**Deadlock** is not checked where the system may stop: nobody calls, the budgets
of faults and starts are spent, the link is dead. The runs of the feed and of the pictures
check it.

**Fairness.** What the scheduler or a timer guarantees, and nothing of what the
other end decides: goroutines and Qt handlers that are ready run; timers that are
armed fire; a socket that fell silent is noticed by its deadline; a worker asked
to quit is killed after five seconds; a join runs once its wait is over (the
router's answer has a timeout); the display's helper ends or its deadline fires, its
task's process exits (a launch that was told may wait for the router as long as it likes);
the relay's threads run, the channel opens, and a host encodes
while its screen moves and makes the keyframe it was asked for, moving or not; a screen
that stopped need not move again. The disk is fair only in the run where writes do
not fail. The page's heartbeat is strongly fair (`SF_vars(Beat)`): it is sent
every 100 ms, and a full channel delays it but does not stop it. Nothing is
assumed of hosts that call, browsers that leave, guests, owners, deaths and
faults.

## 4. What the models show that the code's comments do not

Each row is a property that is in a module, and that the code does not have. None
is part of a run; the last column says how to see TLC find the behaviour.

| What | Where | To see it |
|---|---|---|
| A key can stay pressed for good, against `InputWatchdog.h:37-42` ("A stuck key also outlives a link…"). `release()` takes what it will release out of the held set under the lock and tells the engine outside it; with input on a thread of its own, a press noted before the collection and sent after the release stays down on the host and out of the held set. If the link dies there, nothing releases it | `InputWatchdog.cpp:206` | `NothingOutlivesTheLink`: `Keys = {k}`, the other inputs empty, `Gaming = FALSE`, `OwnThread = TRUE`, `ForwardsRepeats = FALSE`, `MayRevoke = FALSE`, `MaxQueue = 2`, `FairSpec` |
| The same press, sent after the release of a rights change, is down and in nobody's set; where the rights are then taken again before the user lets go, the message that lets go is dropped, and the release that follows knows of nothing to let go | `InputWatchdog.cpp:206`, `Session.cpp:1088-1122` | `LetGoMeansUp`, `watchdog_own_thread`'s instance with `MayRevoke = TRUE` |
| A heartbeat between the collection and its sinks re-presses a key that the late release then lets go; GameStream's filter drops its repeats | `InputWatchdog.cpp:206` | `HeldComesBack`, `OwnThread = TRUE`, `ForwardsRepeats = FALSE` |
| A feed can capture for nobody: `startPlayerStream` detaches the slot's worker, whose end was to give its place back, before the checks that can still refuse the join | `main.cpp:5792`, `SharedFeed.h:108` | `DesertedStops`, `Happens = {"joinsReplace", "joinRefused"}`, `FairSpec` |
| So it can when a guest's share expires or is locked: `playerMustDisconnect` detaches the worker and with it the handler that was to release the slot, which stays counted until it is used again | `main.cpp:2714` (2616, 6162) | `DesertedStops`, `Happens = {"sentAway"}`, `FairSpec` |
| A worker of an earlier share exits late and its handler relaunches the new share's feed on a pipe still in use | `SharedFeed.cpp:225` | `OneFeedPerPipe`, `Happens = {"ownerStops"}`, two heights |
| A relaunch whose process cannot start arms nothing and its guests wait for their own deadline | `SharedFeed.cpp:39` | `WaitIsNotInVain`, `Happens = {"launchFails"}` |
| A superseded join still calls `acquire()` and may replace the feed its successor watches; so may a launch that fails | `main.cpp:6226` | `GuestsKeepTheirPipe` or `CountedIsComing`, `Happens = {"joinsOverlap"}` (the first also `{"launchFails"}`), two displays |
| A slot stopped while its join waits leaves the feed and then starts on it | `main.cpp:5697` | `WatchedIsCounted`, `Happens = {"leaveWhileJoining"}` |
| A line can be held on an id pruned between `owns()` and `touch()`, against "A line held: the id is in use" (`main.go:359`) | `main.go:337-360` | `HeldLineIsClaimed` in `claims_safety`'s instance |
| A session's end can be told twice, against `dropSession`'s comment (`hub.go:161`) | `main.go:481` | `EndToldOnce` in `hub`'s instance |
| `start()` within the closing of a connecting socket opens nothing and nothing wakes it | `RendezvousClient.cpp:436` | `StartHoldsTheLine`, `QuickRestart = TRUE` |
| A line that goes by name onto an address whose TLS stalls stays down for good, though the other family would answer: every attempt dials the same first address | `RendezvousClient.cpp:466`, `:558` | `ComesBackByName` in `client_line`'s instance |
| A client out of redraws stops trying and `lastError()` is empty, against `RendezvousClient.h:113` | `RendezvousClient.cpp:376` | `QuietMeansHalted`, `MaxRedraws` small |
| The display goes off under a stream that is starting, against "goes off only once nothing streams it": a launch whose worker is not in its slot does not count, and what a grace or the closing delay finds is what streams then. The grace is 4 s, an activation waits for the monitor for up to 10 | `VirtualDisplayJob.cpp:115`, `:131` | `OffOnlyUnneeded` in `vdisplay`'s instance |
| The owner's other displays stay off under a guest, against the header: the grace that ends while the guest's worker has yet to start finds no stream and closes what was opened; the closing delay finds the guest's, and returns without asking whether the others are due back | `VirtualDisplayJob.cpp:131-134` | `OthersAlwaysComeBack` in `vdisplay`'s instance |
| The owner's other displays go off with a guest on, against the header: the choice is made when the operation is queued | `VirtualDisplayJob.cpp:216` | `GuestKeepsTheOthers` |
| The display stays on for nobody: a launch superseded by one on another display arms no grace, and a switching off that fails is not tried again | `main.cpp:6270`, `VirtualDisplayJob.cpp:385` | `NobodyLeavesItOn` |
| A delta of the engine's thread goes out between the channel's opening and the queued call that sends the held keyframe, ahead of the picture it refers to; the browser stumbles once and asks | `DataChannelRelay.cpp:1283`, `:1762-1777` | `NothingEarly` |
| On a screen that stops, a request put off until the buffer drains is put off for as long: only a delta samples the buffer, and every later request of the browser is put off with it | `DataChannelRelay.cpp:1690-1697`, `:3286` | `WaitEnds` in `video_gate`'s instance |

More are visible in the definitions, and are why a property says what it says
and no more:

- A run of the display's helper given up at its deadline still ends, and its
  verdict is taken for that of the operation that runs by then
  (`VirtualDisplayJob.cpp:685`, against its comment at 71-74): `late` in `ReadyMeansOn` and
  `LastOneTurnsItOff`.
- The others' return that fails is answered as if it had not, also where the display
  is off (`VirtualDisplayJob.cpp:418`): the last disjunct of `ReadyMeansOn`.
- A router query that fails is read as "no entry" (`RouterPortCore.cpp:97`), and the
  neighbour's entry is then written over; so is an entry of the address the host had
  before, which the router may have given to a neighbour (`:192-194`). A write that
  nothing reads back is kept. `Upset` lists these causes, each of them needed, and
  `StaysInOrder` says there are no others.
- Once a port is out of order, two hosts may hold it, and each renewal writes the entry
  before it reads whose it is (`:260`), each release removes it whoever it leads to
  (`:331`): nothing brings it back in order. `PortsSharedOutOfOrder` says that two hosts
  hold one port in no other way.
- A removal the router refuses is not looked at, and the hole is struck off the list all
  the same (`:144`, `:331`): `stray` in `NoHoleLeaks`.
- A keyframe that makes room in the sender's queue by evicting deltas closes the gate
  it just opened and asks for another (`DataChannelRelay.cpp:2705-2707`, against
  `FrameSender.cpp:133-134`): `Push`.

## 5. Theorems

TLC checks small instances; the theorems hold for every number of ids, owners,
goroutines, lines, browsers, slots, hosts, ports, launches, and every bound. They
assume what the modules' `ASSUME`s say: special values are not members of the sets
they stand out of, goroutines and sockets of different kinds are different, sets that
are counted are finite, bounds are numbers, there is something to show
(`ShowsAssumption`). Where a theorem needs a setting, the
setting is its own `ASSUME`, and section 4 shows what happens without it.

**`ClaimStoreProofs`.** `StoreCorrect`: `Spec => []StoreInvariant`, and from it
`OwnersHoldOneId`, `NothingUnwrittenIsForgotten`, `SeenIdsAreKept`, `StoreTyped`.
The three properties are not inductive by themselves, because what a crash brings
back may be a snapshot that is being written now: the invariant adds that one
write is under way at a time (`OneWriteAtATime`, `writeMu`) and that every snapshot
obeys the rules the store obeys (`SnapshotsObey`), also relative to the store of
now. The file then obeys them when the rename lands, and the store does when a
crash reloads it. Each action has a lemma. `StoreWithinItsCap` is a separate
argument over `EveryCopyFits`: the cap is asked once, when a row is added, so it
must hold of the file and of the snapshots too, and every other step copies one
of those or takes rows away. `StoreIsARegister` is the whole refinement, `Spec =>
ActsAsARegister`: a `claim()` that walks and adds its row is one `Claim` (of an id that is
free, by `SeenIsOwned`), one the cap refuses is a `Forget`, and a rename saves the only copy
there is (by `OneWriteAtATime`).

**`RendezvousHubProofs`.** `HubCorrect`: `Spec => []HubInvariant`, and from it
`NoBrowserIsStranded`, `PlacesAreHandlers`, `NewestLineWins`, `LinesFoundAreLive`,
`HostHearsTheEnd`, `HubTyped`. The invariant adds: a line in place is its id's, its
handler is not past its clean-up and nobody hangs it up (`LinesInPlace`, so that
whoever shuts a line down finds it out of the hub already); sessions are handed to
whoever shut the line down, once (`CutOnce`, so that the second of the two clean-ups
finds none and overwrites nothing); a handler relays from its place
(`RelaysInPlace`); a browser past the look-up has found a line of its id
(`FoundIsAsked`); and a host that believes in a browser has its session still, or is
about to be told, or is down (`HostIsTold`). `HubIsASwitchboard` proves the refinement's
safety half, `Spec => Board!Calls`: the initial states map to initial states, and under
`HubInvariant` every step of a handler, a hanger or a timer is a step of the
switchboard or changes nothing it shows. That everybody is hung up stays with TLC.

**`RendezvousClientProofs`.** `ClientCorrect`, then `ClientTyped`, `ClientCountsOnce`,
`ClientNeverStuck`, `ClientKeepsItsId`. The invariant says what the members say together
(`Sound`: attempts are failures plus the one under way; a race belongs to an attempt),
how they agree with the socket and the claim in flight (`Wired`), and that something
will call the client back (`Awaited`). The last, and `ClientNeverStuck`, assume
`~QuickRestart`. `ClientKeepsItsId` is an action property; its own invariant is that a
refusal stands (`RefusalStands`) until the claim it answers is read.

**`InputWatchdogProofs`.** `WatchdogCorrect`, then `WatchdogKnows` and `WatchdogRevokes`, where
input and the watchdog share a thread (`~OwnThread`). What the host holds and what the
watchdog believes held differ while events are under way; the invariant says that
those events are exactly the difference (`Due`), and that rights taken away are
waiting to be applied or applied (`RightsHold`). At rest nothing is due. `WatchdogTyped`
needs neither. `WatchdogLetsGo` is for both threadings and assumes
`~OwnThread \/ ~MayRevoke`; with both, TLC finds the behaviour of section 4. On two threads
nothing the watchdog believes can be used, so the invariant (`LetGoInvariant`) speaks of the
host and the way to it only: the last that the channel says of an input the user does not
hold is its release; or the thread that handles messages has that release in hand; or nothing
on the way presses it, and it is up (`OnItsWayUp`). Where rights
change, on one thread, the message that lets go may be dropped, and the proof then uses
`WatchdogInvariant` to say that the release queued with the change collects the input
(`AboutToGo`, `Known`).

**`SharedFeedProofs`.** Three theorems assume nothing of what happens. `FeedIdlesForNobody`,
from `FeedCorrect`. `FeedSuitsWhoWatches`: whoever joins, leaves or fails to start, the
running feed shows its guests what they were invited to, in a codec they decode; its
invariant, `TicketInvariant`, says that a ticket of the feed's pipe is a ticket for what the
feed shows (`TicketsSuit`), because a feed changes what it shows only with its pipe,
except towards H.264, which suits everybody. `FeedTyped`: failures in a row stay below the
limit until the feed is given up on (`FailuresCounted`), and slots counted for guests who were
sent away are counted.

The others exclude events, the ones section 4 shows them fail under:

| Theorem | Assumes | Invariant |
|---|---|---|
| `FeedIsOnItsWay` | a process that is launched starts | guests of a feed that is down have its relaunch armed (`NotInVain`) |
| `FeedCountsWhoComes` | joins come one at a time, run to their end and start their process (`OrderlyJoins`: of the events, only the owner's stops and guests sent away) | whoever is counted and was not sent away holds a ticket of this feed (`CountedHoldATicket`) |
| `FeedCountsWhoWatches` | no slot is stopped while it joins (`JoinsRunOn`) | whoever holds a ticket of this pipe and watches, or is claiming their place, is counted while the feed lives (`TicketsAreCounted`) |
| `FeedKeepsItsPipe` | a process that is launched starts, a slot's joins take turns (`JoinsTakeTurns`) | `TicketInvariant`, `NotInVain`, no superseded join is under way |
| `FeedPublishesAlone` | the owner does not stop the sessions under the feed (`NeverStopped`) | one worker at most is to be relaunched, on the feed's pipe and during a resize (`OneAgain`); the feed's worker publishes on its pipe (`OwnWorker`); and while the feed runs or is due nobody else is left there (`PipeIsClear`) |

**`RouterPortsProofs`.** `PortsCorrect`, then `PortsTyped`, `PortsStayInOrder`,
`PortsSharedOutOfOrder`, `PortsLeakNoHole`. The invariant: hosts that run have addresses
of their own (`AddressesApart`); a claim works on an entry it may write, a renewal and a quit on
holes that are held (`JobsKeepToTheirPorts`); an entry nobody left behind leads to a running
host, which counts it (`EntriesAreCounted`); and a hole found lost was (`LostStaysLost`).
`PortsStayInOrder` takes the jobs' steps one by one from there. None assumes anything of the
router's answers.

**`VirtualDisplayJobProofs`.** `JobCorrect`, then `JobHoldsOnce`, for both methods and
failures of every verb, late verdicts included. The invariant, `Good`, says that a job at
rest has no queue and no callers (`Rests`) and that a launch waits in one place if it waits
and nowhere else (`Placed`). `Enqueue` is met half-way, with a launch that is to wait
and does not yet (`Missing`). The invariant of `JobSwitchesOffLast` (`OffIsLast`) says that
a switching off, queued or under way, finds a display that nobody holds but the launches
under way when it was decided, and that whoever asks for it meanwhile waits behind it;
it assumes nothing of how long a launch takes. For `JobTellsWhenOn`, the action
property `ReadyMeansOn`, `ReadyInvariant` says that, as long as no run was
given up at work, the run and the verdict are those of the operation under way (`Follows`), an
operation that brings the display on and was reported done finds it on (`ShownOnceOk`), and
nobody waits behind a switching off (`NobodyWaitsForOff`). `JobTyped` adds that an operation
that brings the display on names a mode (`Named`), through fallbacks and joins: the display is
never on in no mode.

**`VideoGateProofs`.** `GateCorrect`, then `GateNeverWaitsOpen` and `GateShutsOnAHole`. The
invariant, `Sound`, gathers whatever calls for a closed gate (a request that waits for
the buffer, a last picture that went nowhere, a last picture queued that misses one
evicted or dropped) and says that the gate is closed then. It needs nothing of the
queue's contents.

**Only model-checked.** Every invariant and every action property of the runs is proved.
What stays with TLC is liveness, and with it whatever needs `ENABLED`: `AcceptedReachesDisk`,
`ComesBack`, `HeldComesBack`, `NothingOutlivesTheLink`, `DeadLinkIsNoticed`, `FeedComesBack`,
`LastOneTurnsItOff`, `OthersComeBack`, `PictureComesBack`, and in `ActsAsASwitchboard` that
everybody is hung up. `VideoGate`'s `TypeOK` is no run's property and not proved either: the
queue it types is what `Evict`, a recursive function, makes of it, and that takes an induction
over data. No module uses `RECURSIVE`.

## 6. Plan

Done, in this order: the claim store and the hub, because every introduction
passes through them from many goroutines; the instance's line, which must never
stop for good; the watchdog, the one place where a lost step means a key held on
somebody's PC; the shared feed, the densest state of the instance's main thread;
the switchboard and its refinement; the register and its; the router's ports, the virtual display and the
pictures' gate, each with a hazard of several actors; and a module of proofs for each.

Next:

1. `ShareRows` (`ShareManager`): one device per activation, whatever expires or is
   revoked while a join is in flight; composed with `SharedFeed`'s joins.
2. `ControlTunnel` and `LineKeeper` (the page's own line); with them the composition
   of client, store and hub into one introduction.
3. The feed's frames between processes (`FeedPublisher`, `FeedSubscriber`), as the pipe
   that `SharedFeed` takes for granted and the source that `VideoGate` does.
4. Proofs: abstract specifications for the feed (a pipe that guests come to and leave) and
   for the router's ports (a table with one holder per port), and that the components
   implement them, from the invariants of section 5.

## 7. What is not modelled

The native engine (capture, encoding, injection), WebRTC and the media, HTTP
parsing and settings, certificates, discovery and pairing, updates, pages and
packaging: pure I/O, drivers, data conversion, or dialogues with programs that are
not in this repository. `PROJECT.json`, `components`, gives each with its reason.
The models stand for the concurrent core, a small part of the lines: most of the
tree is vendored headers, platform code and the browser's application. No component is
marked as modelled whole: each leaves out what its section says.

Delays are not numbers anywhere: a timer may fire once armed, and the models do
not show what the choice of a delay prevents, except where it is said (a message
is handled within the short period, an attempt that can succeed has the time to).
