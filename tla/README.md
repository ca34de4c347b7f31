# EEBuster: verification development

TLA+ models of the EEBUS testbench in `src/internal` and `src/cmd`, checked with
TLC, and theorems about them proved with TLAPS. `PROJECT.json` says which lines
each definition stands for, which run checks which property, which mutation of
the code each property rejects, and which hazards of the code are covered.

1. The system and its parts
2. What is modelled, module by module
3. The runs: what they check, their bounds, their fairness
4. What is proved, and how
5. Disagreements between the code and what it says of itself
6. What is not modelled, and the plan

---------------------------------------------------------------------------

## 1. The system and its parts

One Go process plays the energy manager (CEM) towards real or simulated EEBUS
devices, shows what they do on a dashboard and runs test cases against them. The
EEBUS protocol itself is done by three vendored libraries: ship-go (connections
and pairing), spine-go (the data model and its messages), eebus-go (use cases).
They call back into the testbench from goroutines of their own.

| Part | State it keeps | Operations | What is hard | What makes it correct |
|---|---|---|---|---|
| Heartbeat (`eebusgo/heartbeat.go`, spine-go's heartbeat manager) | stop channel, cadence, whether the stack's manager is still used, the published heartbeat | Start, Stop, SetCadence, a sender goroutine | old goroutines wake up late; two senders in sequence | one sender, announcing the cadence in force; a stopped one ends |
| Test-run manager (`testrun/manager.go`) | the run in progress, its context, copies in memory, the reports folder | start, Cancel, Get, RunAndWait, the run's goroutine | cancel, disconnection and failed writes at any step; a crash | one run at a time; the record is truthful, stable and held somewhere |
| Run samplers and checks (`testrun/checks.go`, `collect.go`) | a cursor into the trace, counters, an overrun flag | one sample after each test case, the run-level verdicts | a ring that is overwritten or cleared between samples | a check without overrun saw every frame |
| Scenario runner (`scenario/scenario.go`, `steps.go`, `requirements.go`) | the peer, the queue of steps, the verdict | select, wait, check, step, expand, finally | the device list changes; a cancel between any two steps | the verdict is what the steps say; what was set is released; the right device |
| Trust store (`truststore`) | SKIs in memory and in a file | Load, Add, Remove, SKIs | a save that fails after the memory changed | memory and file agree; what was trusted survives a restart |
| Trust handlers, start-up, certificate recovery (`httpapi`, `serve.go`, `trustwatch.go`) | the hub's registrations, recoveries in progress | trust, untrust, deny, connect, restore, recover | all of them interleave on one SKI | a connection is remembered; a stored SKI comes back; a recovery registers what it cleared |
| Simulated station (`simulator/simulator.go`) | followed limit, its timer and generation, the guard's last heartbeat, failsafe | approve, follow, expire, report, tick | three kinds of goroutine, with the mutex released between read and use | only approved limits count; each ends; every write is answered |
| Simulated vehicle (`simulator/ev.go`) | obligations, recommendations, guard, battery | apply, tick, guard events | every event of the guard has a handler goroutine; values are published after the mutex is released | the safe current when the guard falls silent; a curtailment arrives and stays |
| Trace store and conformance sessions (`trace`, `conformance`) | a ring of 2000 frames, sequence numbers, a session per peer | Add, Recent, Clear | checks and publishing happen outside the lock | cursors see each frame once |
| Tracer feed (`tracerfeed`) | history, clients with queues of 256 lines | accept, register, Publish, Close | a client that attaches while frames arrive or while it closes | the replay neither misses nor repeats a frame |
| Event bus (`eebusgo/eventbus.go`) | a ring, subscribers | Publish, Recent, Subscribe, Clear | sends outside the lock | a subscriber sees events it had room for, once |
| Pairing (`eebusgo/handler.go`) | pending, visible and known devices | the hub's callbacks, deny | callbacks in any order | what is offered for approval is still waiting |
| Static peers (`staticmdns`) and announcement (`announce`, `netfilter`) | peers, callback, started; what is announced | Start, SetPeers, Shutdown; announce, unannounce | lists copied and delivered outside the lock | configured peers keep being offered; removed ones are not |
| Stack lifecycle (`eebusgo/stack.go`, `boot.go`) | running, the service | Start, Stop, Trust, Untrust | restart of the library's parts | started means announced and reachable |
| Use-case access (`eebusgo/*.go`) | none of its own | reads and writes of remote data, forced reads with a deadline | a late answer after the deadline | limits reach the phase they were meant for |
| Configuration, HTTP API, scenario catalog, report, telemetry, log buffer, identity, tables, command line, dashboard | the current config; two rings under one mutex | pure functions, I/O, single critical sections | the reload of a running process | |

How they interact. An HTTP handler or the dashboard starts a run; the manager's
goroutine executes each test case with a scenario runner, which uses the HTTP API
of the same process, as an external client would. Between test cases the samplers
poll the trace. A handler or the library's callback changes the hub's
registrations and then the trust store; start-up reads the store back into the
hub. Use-case handlers and test steps start, stop and re-pace the heartbeat. A
simulated station is an EEBUS device in the same process and only meets the rest
through the stack.

Shared state is guarded by one mutex per component. What makes the system hard is
what happens between two critical sections: a goroutine that was told to stop and
has not noticed, a value read and used after its lock was released, one of two
steps failing, and the end of the process.

---------------------------------------------------------------------------

## 2. What is modelled, module by module

Every action is one critical section of the code, or one step outside any; where
the code lets go of its mutex the model has two actions. Outcomes the code takes
from elsewhere (a file write, what a device answers) are chosen freely.

### Heartbeat (`Heartbeat.tla`)

| Model | Code |
|---|---|
| `stop`, `started`, `closed` | `Heartbeat.stop` as the number of the channel; senders started; channels closed |
| `cadence`, `paced` | `cadence`, and that SetCadence took over from the stack's manager |
| `channel`, `mgrClosed`, `loop` | spine-go's `stopHeartbeatC` and the goroutines of `updateHeartbeatData` |
| `sender`, `announced` | the goroutines of `run`: where each stands, the timeout it captured |
| `data` | the published heartbeat: counter, timeout, and which sender it came from |
| `StartManager`, `StartPaced`, `Stop`, `SetCadence` | the operations, each under `h.mu` |
| `Tick`, `Send`, `Return` | a sender's ticker, `send` under `h.mu`, its return |
| `LoopFirst`, `LoopTick`, `LoopPublish`, `LoopReturn` | the manager's loop: the counter is taken in one step and the data set in another |

Time is abstracted to durations that are compared; a ticker ticks whenever it likes.

### Test runs (`TestRun.tla`, `RunLifecycle.tla`)

`TestRun` is the manager. Each `update` of the record is one action: it changes the
record and writes it, to the file, or to memory when there is no folder or the write
fails. `Start`, `Cancel` and `Crash` fit between any two. `Identify`, `Applicable`,
`BeginCase`, `EndCase`, `SkipCase`, `CleanupOn`, `CleanupCase`, `Finish`, `WriteHTML`
and `Release` are `execute` from top to bottom. A crash keeps the folder and nothing
else. What the record contains beside results and status is left out.

`RunLifecycle` is what a client relies on: one slot, a verdict given once and while
the run holds the slot, cancelled exactly when a cancel came before it, lost only by
a crash. `TestRun` implements it with `slot <- active`, `wished <- cancelled`, and a
run's status as its state (a run still running in the record of a dead process is
"lost"). That mapping shows what the code leaves to its clients: nothing closes the
record of a run the process died in, its file says "running" for good.

### Test cases (`TestCase.tla`)

The runner on one scenario: `AwaitPeer` (one poll of the wait for the peer), `Lead`
(the leading `wait_connected`), `Check` (requirements), `StopAtCancel`, `ForEach`
(expansion of a loop in the slice being walked), `BeginStep` and `EndStep`,
`LeaveSteps`, `FinallyStep`, `End`. Devices are listed, connect and vanish
(`DevicesChange`) and the cancel comes (`Cancel`) at any moment. A scenario is the
sequence of its kinds of steps; what a step asserts is a chosen outcome.

### Trust (`Trust.tla`)

`mem`, `file`, `dirty` and `unread` are the store; `known`, `trusted` and `connected` are what
is used of the hub, external code modelled from how the testbench calls it:
registering makes a trusted entry, unregistering removes it, and a device that waits
for approval has an entry that is not trusted. `Boot`, `TrustNext`, `Restore` and
`Serve` are `serve.go`, with devices dialling in (`Connect`, `Knock`) as soon as the
stack is up. `Load` reads the file, or finds it unreadable or damaged: the start-up goes
on with an empty store then, and the file stays as it is until the first save
(`unread`); a later start may read it again. `HandleTrust`/`HandleUntrust` are the hub's half of a request and
`Answer` the store's half. `Conflict`, `RecoverUntrust`, `RecoverTrust` and `Cooled`
are the recovery from a re-issued certificate, with its sleep and its cooldown.
`Crash` ends the process anywhere and keeps the file.

### Simulated station (`SimStation.tla`)

Without a vehicle. The library starts one goroutine per write that asks for approval
(`approver[i]`) and one per applied write (`update[i]`); `expiry[g]` is the timer
started for limit generation g and `clock` the one-second tick. Each handler is cut
where it takes and releases `d.mu`:

- approval: `ReadGuard` | `ListPending` | `Decide` per pending write
- a new limit: `ReadLimit` | `Store` | `ReportUpdate` (compute, publish)
- expiry: `Fire` (generation check) | `ExpiryRead` | `ExpirySet` | `ExpiryClear` | `ReportExpiry`
- tick: `TickLimit` | `TickDecide` | `TickReport`

`pub` is the limit in the stack's data, `reported` the power in MPC. `written`,
`approved` are histories. A failsafe write is one action with its approval. Absolute
end times, the library's own approval timeout and the split over the phases are left
out.

### Simulated vehicle (`SimVehicle.tla`)

| Model | Code |
|---|---|
| `lc`, `caps` | the limits in the vehicle's load control; obligations and recommendations as picked up last |
| `share`, `stationA` | the station's limit per phase, and the one the vehicle took at its last tick |
| `guard`, `guardSeen`, `guardFailed` | the installed guard, the age of its last heartbeat (`Never`: none), its announced state |
| `away` | only for a property: the age of the last heartbeat, whatever became of the guard |
| `cem`, `handler[k]` | the CEM with its announced state; the goroutine of the guard's k-th event |
| `clock`, `second` | the station's loop and its ticker: `Tick`, `PickUp` (applyWrittenLimits), `TakeShare`, `Charge`, `Compute`, `PublishDraw`, `Meter`, `PublishPower` |
| `report[k]` | reportPower in the goroutine of the k-th limit event: `ReportCompute`, `ReportPublish` |
| `published`, `metered` | the current in the vehicle's and in the station's measurements |
| `ChargingCurrent` | chargingCurrentA: what is wanted, held at the safe current, paused under the minimum |
| `Install`, `Remove`, `Recognise`, `NoteBeat`, `AskState`, `StoreState` | guardAppeared, guardGone, isGuard, guardHeartbeat, guardState, cut where they take and release the mutex |

Left out: two of the three phases (computed alike), fractions of an ampere, how fast
the battery fills (any tick that draws may fill it), and more than one CEM. The two
kinds of limit are read in one step, and a round of the clock takes less than a second.

### Records and run checks (`FrameTrace.tla`, `EventBus.tla`, `RunChecks.tla`)

`FrameTrace` and `EventBus` are the two bounded records. Each module keeps everything
that was ever recorded (`log`, `events`); the ring is what is above `Floor` or
`EvFloor`, and `cut` or `evCut` is where a user cleared it. `Number` and `Post` are the
critical sections of Add and Publish.

`RunChecks` is what a run makes of them:

| Model | Code |
|---|---|
| `run`, `case` | where the run's goroutine stands, and at which test case |
| `sampling`, `page[w]` | the ticker beside it; the answer a sampler is evaluating, which it holds the tracker's mutex for |
| `start`, `tracker` | ConditionsStart; the conformanceTracker: cursor, counts, overrun |
| `now`, `began`, `windows` | the wall clock in ticks; StartedAt of the current test case; what `interruptions` makes of those that are over |
| `drops` | each disconnection with the number and the time of its event, and, only for the property, whether it came before the run or in an interrupting test case |
| `Ts`, `Planned` | the whole second an event is stamped with; its comparison with the windows, a second wider on both sides |
| `Recent`, `Unplanned` | EventBus.Recent with level, SKI and limit; countDisconnects |
| `NextTestCase`, `Progress` | the next test case, and the `run_progress` event the manager publishes before it, which the request returns too |
| `Sample`/`Evaluate` | the request (which may fail) and the counting of its answer, by either goroutine |
| `TickerStops` | the ticker notices the end, perhaps after one more tick |
| `Check` | conformanceCheck and connectionCheck, whose request for the events may fail |
| `AddFrame`, `Announce`, `Disconnect`, `Reconnect`, `ClearTrace`, `ClearBus` | the stack's goroutines and the user |

A frame is the goroutine that added it and whether it has an error. A request for
frames returns up to 2000, the size of their ring. The request for events returns the
newest 2000 lifecycle events of the device (`EventLimit`) out of a ring of 5000
(`RingSize`), which findings and everything else of the stack fill too. The tick stands
for the hundredth of a second test cases are timed in; what is nearer is not told apart.
The heartbeat monitor samples in the same way with another filter and is not modelled
again. Left out are the rule counts, a run without a device, which fails the
connection check, and the other lifecycle events of the device (its service, its pairing, a cancel):
they take room in the ring and in the request as a reconnection and the progress do.

### From a frame to its followers (`TracerFeed.tla`, `Capture.tla`)

`TracerFeed` is the live feed: `Accept`, `Register` (history and registration under one
mutex), `Deliver`, `Drained`, `WriteFails` and `Deregister` (a client's goroutine),
`Greet` (a UDP peer), `Publish`, `Close`. `client[c]` holds the replay, the channel and
what was written; lines are positions of `fed`, everything published so far.

`Capture` composes it with `FrameTrace` and `EventBus`, as `trace.Store.Add` and its
caller do: `AddFrame` numbers a frame, `HandOver` passes it to the feed outside the
store's mutex, `Announce` publishes the finding, and each source finishes a frame
before its next one (`Busy`). Whether the check finds something is chosen. Clearing is
only in `RunChecks`: it changes nothing that is passed on. A datagram read just before
Close registers a peer nothing is sent to any more; that is left out.

---------------------------------------------------------------------------

## 3. The runs

Bounded models may stop when their bounds are used up, so deadlock is checked only in
`heartbeat` and the two `trust` runs, which never stop.

| Run | Question | Bounds | States |
|---|---|---|---|
| `heartbeat` | one sender, the cadence in force, nothing due is lost, nothing stopped lives on | 2 senders, 2 manager loops, counter to 3, three requests (one refused) | 23 000 |
| `testrun` | what one record says and which copy holds it | 1 run of up to 3 test cases (one cleanup), any write may fail, 1 crash | 41 000 |
| `testrun_two` | one at a time, each ends, the lifecycle | 2 runs in memory, 1 crash | 127 000 |
| `testcase` | the verdict, finally steps, the right device, the end | 4 scenarios, 2 devices, loops over 2 items | 46 000 |
| `trust` | memory, file, hub and restarts | 2 devices (1 in the config), 1 client, any save and any load may fail, any number of crashes | 426 000 |
| `station` | approval, following, expiry, reporting | 2 writes (refused or timed), the guard comes and goes, 1 failsafe write | 124 000 |
| `vehicle` | the safe current, and that a curtailment arrives | 1 value to write, 2 writes, 2 events of the guard, a timeout of 1 s | 310 000 |
| `checks` | counting over a ring, and the verdicts | 2 frames in a ring of 1, 4 events in a ring of 3 of which 2 are asked for, 5 ticks of half a second, 2 test cases (the second interrupting), 1 disconnection; frames only at time 0, and one at most beside the disconnection | 1 650 000 |
| `feed` | replay, order, streams, shutdown | 2 sources, 3 frames, a history of 2, queues of 1, 1 tracer, 1 peer, 1 stream | 968 000 |
| `trust_persisted`, `station_expiry`, `vehicle_away` | section 5 | as `trust`, `station` and `vehicle` | stop at the counterexample |

Why the bounds are enough. Two senders and two loops give a goroutine that was
replaced and one that replaced it, on both sides of the take-over. Three test cases
are one to run, one after it and a cleanup one; the second run is only there for
what one run can do to the next. Loops of two items separate a loop's own items from
the steps after it; the four scenarios have each shape the bundled ones have. Two
devices tell one SKI's recovery from another's start-up. A second limit is what an
expiry of the first can disturb; in `station` the guard waits until a write has taken
effect (`Patient`), which keeps two approvals from sharing the list of pending writes;
the expiry run drops that, and the overlap is covered in general by the theorems
`PendingIsHandled` and `RefusedHasNoEffect`. The rings of `checks` are one frame and
one event shorter than what is recorded, so a frame and an event are evicted, the
boundary of the overrun is met, and both samplers have something to count twice. A
request returns fewer events than the ring has, so an event is missed without being
evicted. Two ticks to a second are enough for a time that is not a whole second, and five
of them for a drop more than a second beside the interrupting test case. Frames and time
matter to different checks, so they are not explored together (`Room`); the theorems
have no such bound. Three
frames against a history of two and a channel of one give the feed a line that left
the history, one replayed, one queued and one lost. Two events of the guard are its
arrival and one thing more, a heartbeat above all; that longer sequences of events
change nothing about a silent guard is proved (`SilenceIsSafe`).

Invariants worth explaining:

- `LatestKept`: while the process lives the whole record is in the file or in memory,
  whichever writes failed; every other copy is an earlier state of the same record.
- `RestIsNotRun`, `CleanupRuns`: a cancel or a lost device ends the regular test cases
  but not the cleanup group.
- `VerdictSound`, `VerdictStands`: a passed test case ran every step of every loop; a
  verdict that is not passed is never changed, also not by a finally step.
- `ConnectedIsStored`: a device that connects during the start-up is remembered, which
  depends on the callback being set before the stack starts.
- `OnlyApprovedCounts`: no value reaches the published limit, the followed limit or the
  reported power but by an approved write.
- `CountedOnce`: the tracker's counts are those of the frames themselves, unless it says
  `overrun` or a user cleared the trace during the run.
- `StoreSynced`: memory and file agree; what may come between them is a save that failed,
  or a file that could not be read while the store is still empty.
- `ConnectionSound`: the connection check's verdict against what happened. A passed check
  hides a disconnection of the run only if it came within two seconds of an interrupting
  test case, or was lost to the ring or to the limit of the request.
- `SeamlessReplay`, `StreamGapless`: what a follower got, is getting and has queued is
  exactly what was published since it attached, unless its channel was full.
- `SourceOrder`: frames may overtake each other on their way to the feed, but not those
  of one connection and direction.
- `SafeWhenSilent`: between two rounds of the clock a vehicle whose guard is silent for
  longer than the timeout draws at most its safe current.
- `CurtailmentReaches`: a limit ends up in both measurements whatever older value is
  still waiting to be published.

Fairness. Go's scheduler runs every goroutine that can run, which is weak fairness of
each goroutine's next step. Stronger assumptions are named here:

- `heartbeat`: a sender returns once its channel is closed (`SF` on `Return`): its
  `select` chooses at random among ready cases, so it cannot take the ticker for ever.
  A manager loop gets the library's mutex in the end (`SF`), and returns likewise.
- `testrun_two`, `testcase`: weak fairness of the run's goroutine and of the runner;
  every wait in them has a deadline and every request a timeout. Nothing is assumed of
  devices or of the user.
- `trust`: the main goroutine goes on with the start-up and a recovery wakes up from
  its sleep. Devices, clients, conflicts and crashes need not come.
- `station`: approval, update and expiry goroutines go on, and a timer fires. The
  guard need neither write nor send heartbeats, and the tick need not tick.
- `feed`: a client's goroutine goes on, which means that its tracer reads or the write
  to it fails. The code sets no deadline for the write: a tracer that keeps its
  connection and stops reading holds its goroutine, and is assumed away here. Nobody
  need attach, and Close need not come.
- `vehicle`: time passes, the clock's loop runs, and the goroutine of a limit's report
  goes on. The guard and the CEM need do nothing.
- `checks` claims no liveness and assumes none.

---------------------------------------------------------------------------

## 4. What is proved

For all values of the constants, from the assumptions declared in each module
(`ConstantsOK` and the like, which TLC evaluates on the instances above). Each proof
is an inductive invariant, one lemma per action, and a theorem that combines them.

| Theorem | Property |
|---|---|
| `HeartbeatProofs!TypeCorrect`, `OneSenderAtATime`, `SenderHasCadence`, `PacedBeats`, `CadencePreservesRunning` | `TypeOK`, `OneSender`, `SenderKeepsCadence`, `BeatsFollowCadence`, `CadenceKeepsRunning` |
| `TestRunProofs!TypeCorrect`, `OneRunAtATime`, `FinalRecordSound`, `RestNotRun`, `CleanupAlways`, `LatestAlwaysKept`, `ReportIsStable` | `TypeOK`, `OneRun`, `StatusSound`, `RestIsNotRun`, `CleanupRuns`, `LatestKept`, `ReportStable` |
| `TestRunProofs!Implements` | `Spec => Lifecycle!Spec`: the manager implements `RunLifecycle` |
| `TrustProofs!TypeCorrect`, `StoreInStep`, `ConnectedRemembered`, `StoreRestored` | `TypeOK`, `StoreSynced`, `ConnectedIsStored`, `ServesRestored` |
| `RunChecksProofs!TypeCorrect`, `SamplersExclude`, `FramesCountedOnce`, `ConnectionJudged` | `TypeOK`, one sampler at a time, `CountedOnce`, `ConnectionSound` |
| `CaptureProofs!TypeCorrect`, `SourcesInOrder`, `ReplaySeamless`, `StreamsGapless` | `TypeOK`, `SourceOrder`, `SeamlessReplay`, `StreamGapless` |
| `SimVehicleProofs!TypeCorrect`, `SilenceIsSafe` | `TypeOK`, `SafeWhenSilent` |
| `TestCaseProofs!TypeCorrect`, `VerdictIsSound`, `FinallyAlwaysRuns`, `RightDeviceOnly`, `VerdictNeverRevised` | `TypeOK`, `VerdictSound`, `FinallyRuns`, `RightDevice`, `VerdictStands` |
| `SimStationProofs!TypeCorrect`, `RefusedHasNoEffect`, `FollowedLimitHasTimer`, `PendingIsHandled` | `TypeOK`, `OnlyApprovedCounts`, `TimerStillAhead`, `PendingHasHandler` |

`SenderKeepsCadence`, `CadenceKeepsRunning`, `ServesRestored`, `TimerStillAhead` and
`PendingHasHandler` are only theorems, no run repeats them. The last three are the safety
behind liveness that TLC checks (`StoredIsRestored`, `TimedLimitEnds`,
`EveryWriteDecided`): what is due always has somebody left to do it. Every invariant and
every action property of a passing run is a theorem.

The arguments:

- Heartbeat. `TypeOK /\ OneSender /\ SenderKeepsCadence` is inductive. `OneSender`
  carries the rest: it says of every goroutine ever started whether its channel is
  closed. A beat can only come from the goroutine whose channel is still the current
  one, because `send` compares them under the mutex; so it announces the timeout in
  force.
- Test runs. `IInv` joins the properties with four facts they need: a run that has not
  started has left no trace (`NotStarted`), where the goroutine stands says what the
  record holds (`Stage`), and a result not_run is explained by a cancel or a
  disconnection (`Explained`). `StatusSound` follows where the verdict is given, since
  `finalStatus` looks at the same record. The refinement follows step by step: Start is
  Begin, Cancel is WishCancel, Finish is GiveVerdict, Release is Free, Crash is Die,
  and everything else leaves slot, status and wishes alone.
- Trust. `StoreSynced` needs that every save writes the whole memory, that a store whose
  file was not read is empty until something is added, and that adding saves; and
  `DownIsClean` that a dead process holds nothing. `ConnectedIsStored` is inductive with
  `greeting` kept apart: a connection is either still to be reported, or in the store,
  or was removed from it later. For the start-up, `Restoring`: what the loop over the store
  has passed is trusted, or a recovery took it back and waits; a device that connects
  meanwhile is registered before the store learns of it; requests only come later.
- Run checks. `CountedOnce` is inductive with three facts about an answer under
  evaluation: only one sampler has one (`OneHolder`), it was asked from the cursor as it
  still stands and the ring it came from had lost no more than its size or a clear
  explains (`PagesCurrent`), and the cursor is between the run's start and the newest
  frame (`CursorInLog`). Counting is then a split of an interval of numbers
  (`Split`, from the library's facts about cardinalities). For the connection check
  `Recorded` says that every disconnection is in the log under its number and not in the
  future (`DropsLogged`), that the run's start separates those before it from the others
  (`StartBetween`), and that one in an interrupting test case lies in a recorded window or
  in the one that is open (`PurposeInWindow`). The rest is arithmetic: a whole second is
  at most a second before its event (`WholeSecond`), so what `Planned` accepts is near an
  interruption and what it rejects is in none (`PlannedMeans`).
- Feed. For every client, what it got, is given and has queued is one sequence, which
  its own goroutine only moves along (`Moved`) and Publish only extends by the newest
  line (`FollowsNext`). A frame not yet handed over is the newest of its source
  (`OnePending`), so what was fed of a source before is older. For the bus, no two
  publishers send the same event (`SendsApart`), so an event of a stream is in one place.
- Vehicle. `SafeRound` follows the clock: what it has computed, has to publish and
  published is within the safe current if the guard was silent when the round began, and
  a guard that falls silent during a round is met by the next one. Handlers can
  only end the silence, by a heartbeat, an installation or a removal.
- Test cases. What ran and what the queue still leads to always add up to the work of the
  whole scenario (`NothingLost`): `Work` counts the kinds in a queue, a loop as its items,
  and two queues one behind the other have the work of both (`WorkConcat`, from the
  cardinality of a union of places). An empty queue then means that everything ran.
  `Stage` says that nothing was begun before the steps and that a test case is only left
  with a verdict or an empty queue, `FinallyLast` that the results of the finally steps
  are the last ones, as many as are gone from `left`, and `Explained` that the verdict is
  what the results so far say. `PeerChosen` keeps the selected device through the wait.
- Station. Every limit somebody holds, published, followed or between two steps of a
  goroutine, was approved, or is such a one deactivated (`LimitsGranted`); every power
  about to be published comes from one, from a failsafe value or from the baseline
  (`PowersJustified`). Approvals are never taken back, so both only grow (`Grows`). Each
  stored update counted one generation (`OneGenerationEach`), so there are no more timers
  than writes. `ExpiryAhead`: the expiry of the latest generation is not over while a limit
  is followed. An older expiry that overtakes it deactivates the limit, or drops the timer
  the station holds, but the timer itself still fires. `PendingHasHandler` is inductive
  with the types alone.

Only model-checked: liveness (`DueBeatGoesOut`, `StoppedGoroutinesReturn`,
`EveryRunEnds`, `CaseEnds`, `StoredIsRestored`, `RecoveryRegisters`,
`EveryWriteDecided`, `TimedLimitEnds`, `CloseEnds`, `CurtailmentReaches`), which TLAPS
does not treat under fairness. A proof of one would need `ENABLED` and a chain of
steps each of which happens in the end.

---------------------------------------------------------------------------

## 5. Disagreements between the code and what it says of itself

Three have a run in which TLC finds the counterexample.

- `trust_persisted`: trusting again after a failed save is answered `persisted: true`,
  and nothing was saved.
- `station_expiry`: an expiry that passed its generation check deactivates the limit
  written and stored meanwhile, which the generation is there to prevent.
- `vehicle_away`: a vehicle whose guard was heard and then disconnected goes back to its
  full current and stays there, although `ev_test.go` says that it holds its safe current
  "once the guard's heartbeat has stayed away for more than guardTimeout after having
  been seen". A guard that stays connected and falls silent is met (`SafeWhenSilent`).

The others were met while modelling and can be read in the models; no run states them.

- SetCadence does not wait for a loop of the library's manager that already took its
  counter; that loop's beat comes after higher ones, although "the counter never runs
  backwards" (`LoopPublish`).
- One failed write leaves a copy in memory that Get serves for good, also when the final
  record is in the file, although RunAndWait "returns its final record".
- A cancel that ends the wait for the peer, or the leading `wait_connected`, gives a
  failed test case, although "the test case is reported as not run" (`AwaitPeer`, `Lead`).
- The recovery registers a device that is only held for approval, although "Only SKIs we
  already trust are recovered" (`Conflict`).
- The connection check passes a device although it disconnected in the run, where
  `docs/21-test-report.md` has the check fail for it: when the event was evicted from a ring
  that frames with findings fill too; when it is older than the newest 2000 lifecycle
  events of the device, which the progress of the run counts among; and when it came close
  to an interrupting test case, since whole seconds are compared with a window a second
  wider on both sides (`Unplanned`; `ConnectionSound` says exactly what can be hidden).
- A trust file that is damaged or cannot be read gives an empty store, which
  `truststore.go` says and `TestLoadToleratesCorruptFile` tests. The first change saved
  after that replaces the file, also when it was readable again by then: a connection of
  one device is enough to forget the others for good (`Load`, `Save`). `StoredIsRestored`
  speaks of what Load put into memory.
- A station limited to 0 W gives the vehicle a share of 0 A, which stands for no limit
  (`Wanted`).
- Handlers of the guard's state overlap, so the older announcement may be kept, and a
  late one is stored after the guard left (`StoreState`).
- A trace cleared during a run takes frames from the tracker without an overrun.
- A tracer accepted before Close and registered after it is never disconnected
  (`Register`, `Close`).
- A run aborted for a lost connection may hold a passed test case where
  `docs/21-test-report.md` says the test case fails (`EndCase`, with the device gone).
- A runner that could not read the config selects the only connected device although
  `configPeers`'s comment says it does not guess (`ReadConfig`, `SelectPeer`).

---------------------------------------------------------------------------

## 6. What is not modelled, and the plan

Not worth a model: the HTTP API beyond the handlers above (decode, call, encode),
telemetry and the log buffer (each operation is one critical section), the report's
renderings, the identity, the tables, the command line, the dashboard (pure or I/O),
and the inside of the vendored libraries. `internal/openapi/assets` holds minified
builds of Redoc and Swagger UI, the only JavaScript files of the repository: third-party
viewers of the API description that are embedded and served as files. The program is
written in Go, and all definitions stand for Go code.

Still to be modelled:

1. Conformance sessions: the correlation of requests and answers and the counter window,
   with frames checked outside the store's lock. The models above choose what a frame is
   found to violate.
2. Pairing (pending, visible and known devices under the hub's callbacks) and static
   peers (reload, start, shutdown), with the announcement.
3. Forced reads and the late answer after their deadline.
4. Pure algorithms against reference definitions: which test cases are applicable and in
   which order, the matching of limits to phases, the heartbeat check's longest gap.
