------------------------------ MODULE Heartbeat ------------------------------
(***************************************************************************)
(* The heartbeat of the testbench's CEM entity, which LPC, LPP, OPEV and   *)
(* OSCEV share (internal/eebusgo/heartbeat.go).  Until a cadence is set    *)
(* the stack's own heartbeat manager (vendored spine-go) sends it;         *)
(* SetCadence stops that manager for good and sends from a goroutine of    *)
(* its own, the paced sender.                                              *)
(*                                                                         *)
(* Every operation of the Heartbeat holds its mutex throughout, so each is *)
(* one action.  A sender goroutine waits in a select between its ticker    *)
(* and its stop channel and takes the mutex only to publish: taking a tick *)
(* and publishing the beat are two steps, with any operation in between.   *)
(* The manager's goroutine likewise takes its next counter in one step and *)
(* publishes it in another.                                                *)
(*                                                                         *)
(* Abstracted: wall-clock time (a ticker may fire whenever its goroutine   *)
(* waits), the timestamp of a beat and lastSent, the subscribers' notify.  *)
(***************************************************************************)
EXTENDS Integers, FiniteSets

CONSTANTS
    Second,      \* one second in the model's time unit
    MaxPeriod,   \* maxHeartbeatPeriod, an hour in the code
    Requests,    \* the cadences asked for: records of interval and timeout
    DefaultTimeout, \* DefaultHeartbeatTimeout, what the manager announces
    MaxSenders,  \* bound: how many paced senders are ever started
    MaxLoops,    \* bound: how many manager loops are ever started
    MaxCounter   \* bound: no tick is taken once this counter is reached

ASSUME ConstantsOK ==
    /\ Second \in Nat \ {0}
    /\ MaxPeriod \in Nat /\ MaxPeriod >= Second
    /\ Requests \subseteq [interval : Int, timeout : Int]
    /\ DefaultTimeout \in (3 * Second)..MaxPeriod
    /\ MaxSenders \in Nat /\ MaxLoops \in Nat \ {0} /\ MaxCounter \in Nat

Senders == 1..MaxSenders
Loops   == 1..MaxLoops

VARIABLES
    paced,     \* SetCadence has succeeded once
    cadence,   \* interval and timeout in force
    stop,      \* the stop channel held by the Heartbeat, 0 for nil
    sender,    \* sender[i]: where the goroutine run(stop = i) stands
    announced, \* announced[i]: the timeout that goroutine was started with
    started,   \* number of paced senders started so far
    closed,    \* the senders' stop channels that were closed
    channel,   \* the manager's stop channel, named after its loop
    mgrClosed, \* the manager's stop channels that were closed
    loop,      \* loop[i]: where the manager's goroutine with channel i stands
    taken,     \* taken[i]: the counter it took last
    heartBeatNum, \* the manager's own counter
    data       \* the heartbeat data of the DeviceDiagnosis feature

vars == <<paced, cadence, stop, sender, announced, started, closed,
          channel, mgrClosed, loop, taken, heartBeatNum, data>>
pacedVars   == <<cadence, stop, sender, announced, started, closed>>
managerVars == <<channel, mgrClosed, loop, taken, heartBeatNum>>

Cadence == [interval : Second..MaxPeriod, timeout : Second..MaxPeriod]

\* "none": not started; "first": about to publish its first beat; "wait": in
\* the select; "tick": took a tick, about to publish; "done": returned.
SenderPC == {"none", "first", "wait", "tick", "done"}
\* "first": about to lock for the first beat; "held": has the first beat's
\* counter and the lock; "wait": in the select; "taken": took a tick and a
\* counter, about to lock; "done": returned.
LoopPC == {"none", "first", "held", "wait", "taken", "done"}

TypeOK ==
    /\ paced \in BOOLEAN
    /\ cadence \in Cadence
    /\ stop \in 0..MaxSenders
    /\ sender \in [Senders -> SenderPC]
    /\ announced \in [Senders -> Second..MaxPeriod]
    /\ started \in 0..MaxSenders
    /\ closed \in SUBSET Senders
    /\ channel \in Loops
    /\ mgrClosed \in SUBSET Loops
    /\ loop \in [Loops -> LoopPC]
    /\ taken \in [Loops -> Nat]
    /\ heartBeatNum \in Nat
    /\ data \in [counter : Nat, timeout : Second..MaxPeriod, by : 0..MaxSenders]

-----------------------------------------------------------------------------
(* Cadence rules *)

\* The manager's rule: two seconds less than the timeout, when that is more.
defaultInterval(timeout) ==
    IF timeout > 2 * Second THEN timeout - 2 * Second ELSE timeout

\* The cadence a request asks for: an interval of 0 takes the default rule.
Asked(r) == [interval |-> IF r.interval = 0 THEN defaultInterval(r.timeout)
                                            ELSE r.interval,
             timeout  |-> r.timeout]

\* Mutant: checks the timeout and forgets the interval.
AcceptedTimeoutOnly(r) == r.timeout \in Second..MaxPeriod

Accepted(r) == Asked(r) \in Cadence

-----------------------------------------------------------------------------
(* The state after boot: setting the manager's feature published counter 1
   and started its first loop, whose own first beat is still to come. *)
Init ==
    /\ paced = FALSE
    /\ cadence = [interval |-> defaultInterval(DefaultTimeout),
                  timeout  |-> DefaultTimeout]
    /\ stop = 0
    /\ sender = [i \in Senders |-> "none"]
    /\ announced = [i \in Senders |-> DefaultTimeout]
    /\ started = 0
    /\ closed = {}
    /\ channel = 1
    /\ mgrClosed = {}
    /\ loop = [i \in Loops |-> IF i = 1 THEN "first" ELSE "none"]
    /\ taken = [i \in Loops |-> 0]
    /\ heartBeatNum = 1
    /\ data = [counter |-> 1, timeout |-> DefaultTimeout, by |-> 0]

IsHeartbeatRunning == channel \notin mgrClosed

\* startLocked of a sender announcing the timeout of cadence c.
StartLocked(c) ==
    /\ started < MaxSenders
    /\ started' = started + 1 /\ stop' = started + 1
    /\ sender' = [sender EXCEPT ![started + 1] = "first"]
    /\ announced' = [announced EXCEPT ![started + 1] = c.timeout]

\* StartHeartbeat of the manager always closes a running loop's channel and
\* starts a new loop.
StartManager ==
    /\ ~paced
    /\ channel < MaxLoops
    /\ mgrClosed' = mgrClosed \cup {channel}
    /\ channel' = channel + 1
    /\ loop' = [loop EXCEPT ![channel + 1] = "first"]
    /\ UNCHANGED <<paced, pacedVars, taken, heartBeatNum, data>>

StartPaced ==
    /\ paced /\ stop = 0
    /\ StartLocked(cadence)
    /\ UNCHANGED <<paced, cadence, closed, managerVars, data>>

\* stopLocked closes the channel of the current sender, if there is one.
StopLocked == IF stop = 0 THEN closed ELSE closed \cup {stop}

Stop ==
    IF paced
    THEN /\ closed' = StopLocked
         /\ stop' = 0
         /\ UNCHANGED <<paced, cadence, sender, announced, started, managerVars, data>>
    ELSE /\ mgrClosed' = mgrClosed \cup {channel}
         /\ UNCHANGED <<paced, pacedVars, channel, loop, taken, heartBeatNum, data>>

\* Whoever sends is stopped, nowClosed being the stop channels closed by then,
\* and a sender takes over when the heartbeat was running.
TakeOver(r, running, nowClosed) ==
    /\ paced' = TRUE
    /\ mgrClosed' = IF paced THEN mgrClosed ELSE mgrClosed \cup {channel}
    /\ closed' = nowClosed
    /\ cadence' = Asked(r)
    /\ IF running THEN StartLocked(Asked(r))
                  ELSE stop' = 0 /\ UNCHANGED <<sender, announced, started>>
    /\ UNCHANGED <<channel, loop, taken, heartBeatNum, data>>

\* Mutant: replaces the sender without stopping it.
SetCadenceLeavesSender(r) == Accepted(r) /\ TakeOver(r, stop # 0, closed)

\* A request out of range is refused and changes nothing.
SetCadence(r) ==
    /\ Accepted(r)
    /\ TakeOver(r, IF paced THEN stop # 0 ELSE IsHeartbeatRunning, StopLocked)

-----------------------------------------------------------------------------
(* The paced sender: run and send *)

Send(i, current) ==
    /\ sender[i] \in {"first", "tick"}
    /\ sender' = [sender EXCEPT ![i] = "wait"]
    /\ data' = IF current
               THEN [counter |-> data.counter + 1, timeout |-> announced[i], by |-> i]
               ELSE data
    /\ UNCHANGED <<paced, cadence, stop, announced, started, closed, managerVars>>

\* Mutants: send without its test, and with the test the wrong way round.
PublishUnguarded(i) == Send(i, TRUE)
PublishInverted(i) == Send(i, stop # i)

\* send: the feature's counter plus one, unless the sender was stopped or
\* replaced since.
Publish(i) == Send(i, stop = i)

\* The select may take a tick that is ready although the channel is closed too.
Tick(i) ==
    /\ sender[i] = "wait"
    /\ data.counter < MaxCounter
    /\ sender' = [sender EXCEPT ![i] = "tick"]
    /\ UNCHANGED <<paced, cadence, stop, announced, started, closed, managerVars, data>>

Return(i) ==
    /\ sender[i] = "wait"
    /\ i \in closed
    /\ sender' = [sender EXCEPT ![i] = "done"]
    /\ UNCHANGED <<paced, cadence, stop, announced, started, closed, managerVars, data>>

-----------------------------------------------------------------------------
(* The manager's loop: updateHeartbeatData *)

Locked == \E i \in Loops : loop[i] = "held"

\* The first beat takes its counter with the lock held ...
LoopFirst(i) ==
    /\ loop[i] = "first" /\ ~Locked
    /\ heartBeatNum' = heartBeatNum + 1
    /\ loop' = [loop EXCEPT ![i] = "held"]
    /\ taken' = [taken EXCEPT ![i] = heartBeatNum + 1]
    /\ UNCHANGED <<paced, pacedVars, channel, mgrClosed, data>>

\* ... a later one before it asks for the lock.
LoopTick(i) ==
    /\ loop[i] = "wait"
    /\ heartBeatNum < MaxCounter
    /\ heartBeatNum' = heartBeatNum + 1
    /\ loop' = [loop EXCEPT ![i] = "taken"]
    /\ taken' = [taken EXCEPT ![i] = heartBeatNum + 1]
    /\ UNCHANGED <<paced, pacedVars, channel, mgrClosed, data>>

\* SetData with no look at the stop channel.
LoopPublish(i) ==
    /\ \/ loop[i] = "held"
       \/ loop[i] = "taken" /\ ~Locked
    /\ loop' = [loop EXCEPT ![i] = "wait"]
    /\ data' = [counter |-> taken[i], timeout |-> DefaultTimeout, by |-> 0]
    /\ UNCHANGED <<paced, pacedVars, channel, mgrClosed, taken, heartBeatNum>>

LoopReturn(i) ==
    /\ loop[i] = "wait"
    /\ i \in mgrClosed
    /\ loop' = [loop EXCEPT ![i] = "done"]
    /\ UNCHANGED <<paced, pacedVars, channel, mgrClosed, taken, heartBeatNum, data>>

-----------------------------------------------------------------------------
Next ==
    \/ StartManager
    \/ StartPaced
    \/ Stop
    \/ \E r \in Requests : SetCadence(r)
    \/ \E i \in Senders : Publish(i) \/ Tick(i) \/ Return(i)
    \/ \E i \in Loops : LoopFirst(i) \/ LoopTick(i) \/ LoopPublish(i) \/ LoopReturn(i)

Spec == Init /\ [][Next]_vars

\* The Go scheduler runs every runnable goroutine and grants the mutexes in
\* bounded time; select picks at random among its ready cases, so a closed
\* channel that is ready again and again is taken at last.
Fairness ==
    /\ \A i \in Senders : WF_vars(Publish(i)) /\ SF_vars(Return(i))
    /\ \A i \in Loops : SF_vars(LoopFirst(i) \/ LoopPublish(i)) /\ SF_vars(LoopReturn(i))

FairSpec == Spec /\ Fairness

-----------------------------------------------------------------------------
(* Properties *)

Running == IF paced THEN stop # 0 ELSE IsHeartbeatRunning

\* At most one goroutine is entitled to go on sending: every paced sender but
\* the one the Heartbeat holds has had its channel closed, every manager loop
\* but the newest too, and once a cadence was set all of the manager's loops.
\* So Stop and SetCadence leave no second sender behind, whatever interleaves.
OneSender ==
    /\ stop # 0 => paced /\ stop = started
    /\ \A i \in Senders : /\ i <= started <=> sender[i] # "none"
                          /\ i <= started /\ i # stop <=> i \in closed
    /\ \A i \in Loops : /\ i <= channel <=> loop[i] # "none"
                        /\ i < channel \/ (i = channel /\ paced) => i \in mgrClosed
    /\ data.by <= started

\* The timeout the current sender captured when it was started is still the
\* one in force, so State never reports a cadence other than the one sent.
SenderKeepsCadence ==
    stop # 0 => announced[stop] = cadence.timeout

\* A beat of the paced sender announces the timeout in force, comes from the
\* sender started last and never follows a beat of a younger one, however long
\* its goroutine was held up between its tick and the mutex.
BeatsFollowCadence ==
    [][data' # data /\ data'.by # 0 =>
         /\ paced /\ data'.by = started /\ data'.by >= data.by
         /\ data'.timeout = cadence.timeout]_vars

\* A heartbeat that runs before a cadence is set runs after it, and one that
\* was stopped stays stopped (SetCadence's comment), also when the manager is
\* what ran or was stopped.
CadenceKeepsRunning ==
    [][cadence' # cadence \/ paced' # paced => (Running' <=> Running)]_vars

\* A beat that is due, the first of a started sender or one a tick asked for,
\* is published unless the sender is stopped or replaced before.
DueBeatGoesOut ==
    \A i \in Senders : stop = i /\ sender[i] \in {"first", "tick"}
                          ~> data.by = i \/ stop # i

\* No goroutine of a stopped heartbeat lives on: a paced sender that is no longer
\* the current one returns, and so does every loop of the manager that was
\* replaced or that SetCadence took over from.
StoppedGoroutinesReturn ==
    /\ \A i \in Senders : i <= started /\ i # stop ~> sender[i] = "done"
    /\ \A i \in Loops : i < channel \/ (i = channel /\ paced) ~> loop[i] = "done"
=============================================================================
