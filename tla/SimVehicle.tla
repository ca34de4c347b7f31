------------------------------ MODULE SimVehicle ------------------------------
(***************************************************************************)
(* The vehicle plugged into the simulated station                          *)
(* (internal/simulator/ev.go, and the parts of simulator.go that drive and *)
(* meter it): from the limits a CEM writes and the Energy Guard's          *)
(* heartbeat to the current the vehicle publishes and the station meters.  *)
(*                                                                         *)
(* The station's clock is one goroutine.  spine-go runs the vehicle's      *)
(* event handler in a new goroutine for every event, and the station's     *)
(* limit events run in theirs, so all of them overlap; the vehicle's mutex *)
(* covers only what is one action here.                                    *)
(*                                                                         *)
(* Abstracted: one of the phases, which are computed alike; whole amperes; *)
(* the battery, which may be full after any tick that draws; one CEM, and  *)
(* a guard object that outlives its connection answers with the state      *)
(* announced last.  A round of the clock takes less than a second.         *)
(***************************************************************************)
EXTENDS Integers

CONSTANTS
    MinCurrent, MaxCurrent,  \* cfg.MinCurrentA, cfg.MaxCurrentA
    Caps,        \* currents written as obligations and recommendations
    Shares,      \* the station's limit per phase, 0 where none is active
    Timeout,     \* guardTimeout, in seconds
    MaxWrites,   \* bound: limits written
    MaxEvents    \* bound: events of the guard

ASSUME VehicleAssumption ==
    /\ MinCurrent \in Nat \ {0} /\ MaxCurrent \in Nat /\ MinCurrent <= MaxCurrent
    /\ Caps \subseteq Nat /\ Shares \subseteq Nat /\ 0 \in Shares
    /\ Timeout \in Nat /\ MaxWrites \in Nat /\ MaxEvents \in Nat

VARIABLES
    lc,         \* the published limits, as the CEM wrote them
    caps,       \* obligations and recommendations, as picked up last
    share,      \* the station's limit per phase
    writes,     \* limits written so far
    stationA, finished,
    guard,      \* whether a guard is installed
    guardSeen,  \* seconds since its heartbeat arrived; Never when it is zero
    guardFailed,
    away,       \* seconds since a heartbeat was handled, whatever became of the guard
    cem,        \* the CEM: whether it is there, and the state it announced
    handler,    \* handler[k]: the goroutine of the guard's k-th event
    second,     \* the ticker's next tick is due
    clock,      \* the station's clock: run's loop
    report,     \* report[k]: reportPower after the k-th limit of the station
    published,  \* the current in the vehicle's measurements
    metered     \* the current in the station's measurements

drawVars == <<caps, stationA, finished, published>>
guardVars == <<guard, guardSeen, guardFailed, away>>
inputVars == <<lc, share, writes>>
vars == <<drawVars, guardVars, inputVars, cem, handler, second, clock, report, metered>>

Never == -1
Ages == {Never} \cup 0 .. Timeout + 1
Currents == {0} \cup MinCurrent .. MaxCurrent
Cap == [on : BOOLEAN, value : Caps \cup {MaxCurrent}]
NoCap == [on |-> FALSE, value |-> MaxCurrent]
Kinds == {"obligation", "recommendation"}
Writes == 1 .. MaxWrites
Events == 1 .. MaxEvents
Job == [at : {"none", "compute", "publish", "done"}, current : Currents]
NoJob == [at |-> "none", current |-> 0]

TypeOK ==
    /\ lc \in [Kinds -> Cap] /\ caps \in [Kinds -> Cap]
    /\ share \in Shares /\ stationA \in Shares
    /\ writes \in 0 .. MaxWrites
    /\ finished \in BOOLEAN /\ guard \in BOOLEAN /\ guardFailed \in BOOLEAN /\ second \in BOOLEAN
    /\ guardSeen \in Ages /\ away \in Ages
    /\ cem \in [present : BOOLEAN, failed : BOOLEAN]
    /\ handler \in [Events -> [at : {"none", "subscribe", "leave", "beat", "note", "state", "get",
                                     "read", "store", "done"}, failed : BOOLEAN]]
    /\ clock \in [at : {"wait", "pickUp", "share", "tick", "compute", "publish", "meter", "report"},
                  share : Shares, current : Currents]
    /\ report \in [Writes -> Job]
    /\ published \in Currents /\ metered \in Currents

Init ==
    /\ lc = [k \in Kinds |-> NoCap] /\ caps = [k \in Kinds |-> NoCap]
    /\ share = 0 /\ stationA = 0 /\ writes = 0
    /\ finished = FALSE /\ guard = FALSE /\ guardFailed = FALSE /\ second = FALSE
    /\ guardSeen = Never /\ away = Never
    /\ cem = [present |-> FALSE, failed |-> FALSE]
    /\ handler = [k \in Events |-> [at |-> "none", failed |-> FALSE]]
    /\ clock = [at |-> "wait", share |-> 0, current |-> 0]
    /\ report = [k \in Writes |-> NoJob]
    /\ published = MaxCurrent /\ metered = MaxCurrent

-----------------------------------------------------------------------------
(* What the vehicle draws *)

Lower(a, b) == IF a < b THEN a ELSE b
Capped(cap, want) == IF cap.on THEN Lower(cap.value, want) ELSE want

\* Mutant: only a failure the guard announces counts, not its silence.
GuardMissingFailed == guardFailed
GuardMissing == guardFailed \/ guardSeen > Timeout

\* Mutant: the obligation is one of the things only a trusted CEM may say.
WantedTrusting(stationLimit) ==
    LET asked == IF GuardMissing THEN MaxCurrent
                 ELSE Capped(caps["obligation"], Capped(caps["recommendation"], MaxCurrent))
    IN  IF stationLimit > 0 THEN Lower(stationLimit, asked) ELSE asked
Wanted(stationLimit) ==
    LET asked  == IF GuardMissing THEN MaxCurrent ELSE Capped(caps["recommendation"], MaxCurrent)
        capped == Capped(caps["obligation"], asked)
    IN  IF stationLimit > 0 THEN Lower(stationLimit, capped) ELSE capped

\* Without a trustworthy guard the vehicle holds its safe current, the minimum.
Held(stationLimit) ==
    IF GuardMissing THEN Lower(MinCurrent, Wanted(stationLimit)) ELSE Wanted(stationLimit)

\* Mutant: what is below the minimum is drawn.
PausedUnderMinimum(want) == IF finished THEN 0 ELSE want
Paused(want) == IF finished \/ want < MinCurrent THEN 0 ELSE want

\* chargingCurrentA: below the minimum the vehicle pauses.
ChargingCurrent(stationLimit) == Paused(Held(stationLimit))

-----------------------------------------------------------------------------
(* The station's clock *)

\* A second passes.
Second ==
    /\ ~second /\ clock.at = "wait" /\ second' = TRUE
    /\ guardSeen' = IF guardSeen = Never THEN Never ELSE Lower(guardSeen + 1, Timeout + 1)
    /\ away' = IF away = Never THEN Never ELSE Lower(away + 1, Timeout + 1)
    /\ UNCHANGED <<drawVars, guard, guardFailed, inputVars, cem, handler, clock, report, metered>>

Step(from, to) == clock.at = from /\ clock' = [clock EXCEPT !.at = to]
ClockAlone == UNCHANGED <<guardVars, inputVars, cem, handler, report>>

Tick ==
    /\ second /\ second' = FALSE /\ Step("wait", "pickUp")
    /\ ClockAlone /\ UNCHANGED <<drawVars, metered>>

\* applyWrittenLimits
PickUp ==
    /\ Step("pickUp", "share") /\ caps' = lc
    /\ ClockAlone /\ UNCHANGED <<stationA, finished, published, metered, second>>

\* stationLimitPerPhaseA
TakeShare ==
    /\ clock.at = "share" /\ clock' = [clock EXCEPT !.at = "tick", !.share = share]
    /\ ClockAlone /\ UNCHANGED <<drawVars, metered, second>>

\* tick's part under the mutex: what the vehicle draws now may fill the battery.
Charge ==
    /\ Step("tick", "compute") /\ stationA' = clock.share
    /\ finished' \in {finished, finished \/ ChargingCurrent(clock.share) > 0}
    /\ ClockAlone /\ UNCHANGED <<caps, published, metered, second>>

\* publish: computed under the mutex, published after it.
Compute ==
    /\ clock.at = "compute"
    /\ clock' = [clock EXCEPT !.at = "publish", !.current = ChargingCurrent(stationA)]
    /\ ClockAlone /\ UNCHANGED <<drawVars, metered, second>>

PublishDraw ==
    /\ Step("publish", "meter") /\ published' = clock.current
    /\ ClockAlone /\ UNCHANGED <<caps, stationA, finished, metered, second>>

\* reportPower, which computes once more.
Meter ==
    /\ clock.at = "meter"
    /\ clock' = [clock EXCEPT !.at = "report", !.current = ChargingCurrent(stationA)]
    /\ ClockAlone /\ UNCHANGED <<drawVars, metered, second>>

PublishPower ==
    /\ Step("report", "wait") /\ metered' = clock.current
    /\ ClockAlone /\ UNCHANGED <<drawVars, second>>

ClockStep == Tick \/ PickUp \/ TakeShare \/ Charge \/ Compute \/ PublishDraw \/ Meter \/ PublishPower

-----------------------------------------------------------------------------
(* Limits *)

\* The CEM writes an obligation or a recommendation.
WriteCap(kind, cap) ==
    /\ writes < MaxWrites /\ writes' = writes + 1 /\ cap # lc[kind]
    /\ lc' = [lc EXCEPT ![kind] = cap]
    /\ UNCHANGED <<drawVars, guardVars, share, cem, handler, second, clock, report, metered>>

\* The station's limit changes (see SimStation), and its event goroutine reports.
ChangeShare(s) ==
    /\ writes < MaxWrites /\ writes' = writes + 1 /\ s # share
    /\ share' = s
    /\ report' = [report EXCEPT ![writes + 1].at = "compute"]
    /\ UNCHANGED <<drawVars, guardVars, lc, cem, handler, second, clock, metered>>

ReportCompute(k) ==
    /\ report[k].at = "compute"
    /\ report' = [report EXCEPT ![k] = [at |-> "publish", current |-> ChargingCurrent(stationA)]]
    /\ UNCHANGED <<drawVars, guardVars, inputVars, cem, handler, second, clock, metered>>

ReportPublish(k) ==
    /\ report[k].at = "publish"
    /\ report' = [report EXCEPT ![k] = [at |-> "done", current |-> 0]]
    /\ metered' = report[k].current
    /\ UNCHANGED <<drawVars, guardVars, inputVars, cem, handler, second, clock>>

-----------------------------------------------------------------------------
(* The Energy Guard *)

\* An event starts the next handler.
Raise(at, c) ==
    /\ \E k \in Events :
          /\ handler[k].at = "none" /\ \A j \in 1 .. k - 1 : handler[j].at # "none"
          /\ handler' = [handler EXCEPT ![k].at = at]
    /\ cem' = c
    /\ UNCHANGED <<drawVars, guardVars, inputVars, second, clock, report, metered>>

Appear == ~cem.present /\ Raise("subscribe", [present |-> TRUE, failed |-> FALSE])
Leave == cem.present /\ Raise("leave", [cem EXCEPT !.present = FALSE])
Beat == cem.present /\ Raise("beat", cem)
Announce == cem.present /\ Raise("state", [cem EXCEPT !.failed = ~cem.failed])

Handled(k, at) == handler' = [handler EXCEPT ![k].at = at]
GuardAlone == UNCHANGED <<drawVars, inputVars, cem, second, clock, report, metered>>

\* guardAppeared: the subscription may fail; the guard is installed after it.
Install(k) ==
    /\ handler[k].at = "subscribe" /\ Handled(k, "done")
    /\ \/ guard' = TRUE /\ guardSeen' = Never /\ guardFailed' = FALSE /\ UNCHANGED away
       \/ UNCHANGED guardVars
    /\ GuardAlone

\* guardGone
Remove(k) ==
    /\ handler[k].at = "leave" /\ Handled(k, "done")
    /\ IF guard THEN guard' = FALSE /\ guardSeen' = Never /\ guardFailed' = FALSE /\ UNCHANGED away
                ELSE UNCHANGED guardVars
    /\ GuardAlone

\* isGuard, and guardHeartbeat with the mutex taken again.
Recognise(k, from, to) ==
    /\ handler[k].at = from /\ Handled(k, IF guard THEN to ELSE "done")
    /\ GuardAlone /\ UNCHANGED guardVars

NoteBeat(k) ==
    /\ handler[k].at = "note" /\ Handled(k, "done")
    /\ guardSeen' = 0 /\ away' = 0
    /\ GuardAlone /\ UNCHANGED <<guard, guardFailed>>

\* guardState: the guard is read under the mutex, asked without it, and what it
\* announced is stored under it again.
AskState(k) ==
    /\ handler[k].at = "read"
    /\ handler' = [handler EXCEPT ![k] = [at |-> "store", failed |-> cem.failed]]
    /\ GuardAlone /\ UNCHANGED guardVars

StoreState(k) ==
    /\ handler[k].at = "store" /\ Handled(k, "done")
    /\ guardFailed' = handler[k].failed
    /\ GuardAlone /\ UNCHANGED <<guard, guardSeen, away>>

Handle(k) ==
    \/ Install(k) \/ Remove(k) \/ Recognise(k, "beat", "note") \/ NoteBeat(k)
    \/ Recognise(k, "state", "get") \/ Recognise(k, "get", "read") \/ AskState(k) \/ StoreState(k)

Next ==
    \/ Second \/ ClockStep
    \/ \E kind \in Kinds, cap \in Cap : WriteCap(kind, cap)
    \/ \E s \in Shares : ChangeShare(s)
    \/ \E k \in Writes : ReportCompute(k) \/ ReportPublish(k)
    \/ Appear \/ Leave \/ Beat \/ Announce
    \/ \E k \in Events : Handle(k)

\* Time passes, and the clock's and the reports' goroutines run.
Spec ==
    /\ Init /\ [][Next]_vars
    /\ WF_vars(Second \/ ClockStep)
    /\ WF_vars(\E k \in Writes : ReportCompute(k) \/ ReportPublish(k))

-----------------------------------------------------------------------------
(* Properties *)

\* Between two rounds of the clock.
Settled == clock.at = "wait" /\ ~second

\* OPEV-005: with an installed guard that was heard and then silent for longer
\* than the timeout, the vehicle draws no more than its safe current from the
\* next round of the clock on, whatever handlers run meanwhile.
SafeWhenSilent == Settled /\ guardSeen > Timeout => published <= MinCurrent

\* What curtails the vehicle reaches what it publishes and what the station
\* meters: a written obligation, and a limit of the station above zero, unless
\* it is replaced; and once nothing changes any more the two agree, although
\* older reports may be published after newer ones ("cannot drift apart").
CurtailmentReaches ==
    /\ \A c \in Caps :
          lc["obligation"] = [on |-> TRUE, value |-> c]
              ~> lc["obligation"] # [on |-> TRUE, value |-> c] \/ (published <= c /\ metered <= c)
    /\ \A s \in Shares \ {0} : share = s ~> share # s \/ (published <= s /\ metered <= s)
    /\ <>[](metered = published)

\* Stated by a test of the vehicle, and not so: once the guard's heartbeat has
\* stayed away for longer than the timeout after having been seen, the vehicle
\* holds its safe current.
SafeWhenAway == Settled /\ away > Timeout => published <= MinCurrent
=============================================================================
