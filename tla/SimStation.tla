----------------------------- MODULE SimStation -----------------------------
(* The simulated station of internal/simulator/simulator.go, without a        *)
(* vehicle: how a consumption limit written by the energy guard is approved,  *)
(* followed, expired and reported.                                            *)
(*                                                                            *)
(* The stack (eebus-go, spine-go) starts a goroutine for each write that asks *)
(* for approval and one for each data update, so the station's handlers run   *)
(* side by side; the station's mutex covers only the parts written as one     *)
(* action.  What the stack publishes of the limit is pub.                     *)
EXTENDS Integers, Sequences

CONSTANTS Limits,     \* the limits the guard writes, refused ones among them
          Failsafes,  \* failsafe consumption limits the guard writes
          Baseline,   \* baselineW
          MaxWrites,  \* bound: limit writes
          Patient     \* the guard writes again only once its write took effect

Limit == [value : Int, active : BOOLEAN, timed : BOOLEAN]
NoLimit == [value |-> 0, active |-> FALSE, timed |-> FALSE]

ASSUME LimitsAssumption == Limits \subseteq Limit /\ Failsafes \subseteq Nat
ASSUME BaselineAssumption == Baseline \in Nat
ASSUME WritesAssumption == MaxWrites \in Nat /\ Patient \in BOOLEAN

Writes == 1..MaxWrites

VARIABLES
  written,      \* the guard's writes, in order
  pending,      \* LPC.pendingLimits: writes not yet approved or denied
  approved,     \* writes that were approved
  approver,     \* onLPCEvent(LimitWriteApprovalRequired), one per write
  pub,          \* the limit in the stack's published data
  update,       \* onLPCEvent(DataUpdateLimit), one per approved write
  followed,     \* limitW and limitActive
  limitGen,
  limitTimer,   \* the generation of the timer the station holds, or 0
  expiry,       \* expireLimit(gen), one per generation
  guard,        \* the guard's heartbeat: never seen, here, or gone for too long
  failsafe, failsafeW,
  pubFailsafe,  \* the published failsafe consumption limit
  clock,        \* run's one-second tick
  reported      \* the power in MPC

guardVars == <<guard, failsafe, failsafeW, pubFailsafe, clock>>
writeVars == <<written, pending, approved, approver>>
timerVars == <<limitGen, limitTimer, expiry>>
vars == <<writeVars, pub, update, followed, timerVars, guardVars, reported>>

Goroutine(stages) == [at : stages, limit : Limit, power : Int]
Idle == [at |-> "none", limit |-> NoLimit, power |-> 0]
Done == [Idle EXCEPT !.at = "done"]
NoApprover == [at |-> "none", noGuard |-> FALSE, todo |-> {}]

TypeOK ==
  /\ written \in Seq(Limit) /\ Len(written) <= MaxWrites
  /\ pending \subseteq 1..Len(written) /\ approved \subseteq 1..Len(written) \ pending
  /\ approver \in [Writes -> [at : {"none", "guard", "list", "loop", "done"},
                              noGuard : BOOLEAN, todo : SUBSET Writes]]
  /\ pub \in Limit /\ followed \in [value : Int, active : BOOLEAN]
  /\ update \in [Writes -> Goroutine({"none", "read", "store", "report", "publish", "done"})]
  /\ limitGen \in 0..MaxWrites /\ limitTimer \in 0..limitGen
  /\ expiry \in [Writes -> Goroutine({"none", "armed", "read", "set", "clear",
                                      "report", "publish", "done"})]
  /\ guard \in {"never", "here", "gone"}
  /\ failsafe \in BOOLEAN /\ failsafeW \in Nat /\ pubFailsafe \in Nat
  /\ clock \in Goroutine({"none", "decide", "report", "publish"})
  /\ reported \in Nat

Init ==
  /\ written = <<>> /\ pending = {} /\ approved = {}
  /\ approver = [i \in Writes |-> NoApprover]
  /\ pub = NoLimit /\ followed = [value |-> 0, active |-> FALSE]
  /\ update = [i \in Writes |-> Idle]
  /\ limitGen = 0 /\ limitTimer = 0
  /\ expiry = [g \in Writes |-> Idle]
  /\ guard = "never"
  /\ pubFailsafe = Baseline \div 2 /\ failsafe = FALSE /\ failsafeW = 0
  /\ clock = Idle
  /\ reported = Baseline

Settled == \A i \in Writes : approver[i].at \in {"none", "done"} /\ update[i].at \in {"none", "done"}

-----------------------------------------------------------------------------
(* Approval.                                                                  *)

\* A write arrives and waits; the stack asks for approval in a goroutine.
Write(l) ==
  LET i == Len(written) + 1 IN
  /\ i <= MaxWrites
  /\ Patient => Settled
  /\ written' = Append(written, l)
  /\ pending' = pending \cup {i}
  /\ approver' = [approver EXCEPT ![i].at = "guard"]
  /\ UNCHANGED <<approved, pub, update, followed, timerVars, guardVars, reported>>

\* Is the guard's heartbeat there?  Read under the mutex, used after it.
ReadGuard(i) ==
  /\ approver[i].at = "guard"
  /\ approver' = [approver EXCEPT ![i].at = "list",
                                  ![i].noGuard = guard = "never" \/ failsafe]
  /\ UNCHANGED <<written, pending, approved, pub, update, followed, timerVars,
                 guardVars, reported>>

\* The writes left to decide, and the handler's end.
Loop(noGuard, todo) == IF todo = {} THEN [NoApprover EXCEPT !.at = "done"]
                       ELSE [at |-> "loop", noGuard |-> noGuard, todo |-> todo]

\* PendingConsumptionLimits: a copy of all that is pending, not of one write.
ListPending(i) ==
  /\ approver[i].at = "list"
  /\ approver' = [approver EXCEPT ![i] = Loop(@.noGuard, pending)]
  /\ UNCHANGED <<written, pending, approved, pub, update, followed, timerVars,
                 guardVars, reported>>

RefusedUnchecked(l, noGuard) == noGuard                \* mutant: any value will do
Refused(l, noGuard) == l.value < 0 \/ noGuard

\* ApproveOrDenyConsumptionLimit.  An approved write is applied to the published
\* data, and the update is announced in a goroutine.
DecideAs(i, j, decides) ==
  /\ approver[i].at = "loop" /\ j \in approver[i].todo
  /\ approver' = [approver EXCEPT ![i] = Loop(@.noGuard, @.todo \ {j})]
  /\ IF j \in pending /\ decides
     THEN /\ pending' = pending \ {j}
          /\ IF Refused(written[j], approver[i].noGuard)
             THEN UNCHANGED <<approved, pub, update>>
             ELSE /\ approved' = approved \cup {j}
                  /\ pub' = written[j]
                  /\ update' = [update EXCEPT ![j].at = "read"]
     ELSE UNCHANGED <<pending, approved, pub, update>>
  /\ UNCHANGED <<written, followed, timerVars, guardVars, reported>>
\* Mutant: a write nobody can evaluate is left alone.
DecideWithGuard(i, j) == DecideAs(i, j, ~approver[i].noGuard)
Decide(i, j) == DecideAs(i, j, TRUE)

-----------------------------------------------------------------------------
(* Following the limit, and reporting the power.                              *)

Lower(a, b) == IF a < b THEN a ELSE b
\* Mutant: the limit is followed whether it is active or not.
PowerOfInactive == IF failsafe THEN Lower(failsafeW, Baseline) ELSE Lower(followed.value, Baseline)
Power == IF failsafe THEN Lower(failsafeW, Baseline)
         ELSE IF followed.active THEN Lower(followed.value, Baseline) ELSE Baseline

\* ConsumptionLimit, before the mutex is taken.
ReadLimit(i) ==
  /\ update[i].at = "read"
  /\ update' = [update EXCEPT ![i].at = "store", ![i].limit = pub]
  /\ UNCHANGED <<writeVars, pub, followed, timerVars, guardVars, reported>>

\* The timer the station holds is stopped; one that fired already goes on.
Stopped == IF limitTimer # 0 /\ expiry[limitTimer].at = "armed"
           THEN [expiry EXCEPT ![limitTimer] = Done] ELSE expiry

StoreAs(i, arms) ==
  LET l == update[i].limit  g == limitGen + 1  t == l.active /\ l.timed /\ arms IN
  /\ update[i].at = "store"
  /\ update' = [update EXCEPT ![i] = [Idle EXCEPT !.at = "report"]]
  /\ followed' = [value |-> l.value, active |-> l.active]
  /\ limitGen' = g
  /\ limitTimer' = IF t THEN g ELSE 0
  /\ expiry' = IF t THEN [Stopped EXCEPT ![g].at = "armed"] ELSE Stopped
  /\ UNCHANGED <<writeVars, pub, guardVars, reported>>
\* Mutant: a limit lower than the one followed so far does not get its own timer.
StoreKeepsTimer(i) == StoreAs(i, ~followed.active)
Store(i) == StoreAs(i, TRUE)

\* expireLimit: the generation is checked, and then everything is done without
\* the mutex but the last assignment.
Fire(g) ==
  /\ expiry[g].at = "armed"
  /\ expiry' = [expiry EXCEPT ![g] = IF g = limitGen THEN [@ EXCEPT !.at = "read"] ELSE Done]
  /\ UNCHANGED <<writeVars, pub, update, followed, limitGen, limitTimer, guardVars, reported>>

ExpiryRead(g) ==
  /\ expiry[g].at = "read"
  /\ expiry' = [expiry EXCEPT ![g].at = "set", ![g].limit = pub]
  /\ UNCHANGED <<writeVars, pub, update, followed, limitGen, limitTimer, guardVars, reported>>

\* SetConsumptionLimit of what was read, deactivated.
ExpirySet(g) ==
  /\ expiry[g].at = "set"
  /\ pub' = [value |-> expiry[g].limit.value, active |-> FALSE, timed |-> FALSE]
  /\ expiry' = [expiry EXCEPT ![g] = [Idle EXCEPT !.at = "clear"]]
  /\ UNCHANGED <<writeVars, update, followed, limitGen, limitTimer, guardVars, reported>>

ExpiryClear(g) ==
  /\ expiry[g].at = "clear"
  /\ followed' = [followed EXCEPT !.active = FALSE]
  /\ limitTimer' = 0
  /\ expiry' = [expiry EXCEPT ![g].at = "report"]
  /\ UNCHANGED <<writeVars, pub, update, limitGen, guardVars, reported>>

\* reportPower: the power is taken under the mutex and published after it.
Reporting(r) == [r EXCEPT !.at = "publish", !.power = Power]

ReportUpdate(i) ==
  /\ \/ update[i].at = "report" /\ update' = [update EXCEPT ![i] = Reporting(@)]
                                /\ UNCHANGED reported
     \/ update[i].at = "publish" /\ update' = [update EXCEPT ![i] = Done]
                                 /\ reported' = update[i].power
  /\ UNCHANGED <<writeVars, pub, followed, timerVars, guardVars>>

ReportExpiry(g) ==
  /\ \/ expiry[g].at = "report" /\ expiry' = [expiry EXCEPT ![g] = Reporting(@)]
                                /\ UNCHANGED reported
     \/ expiry[g].at = "publish" /\ expiry' = [expiry EXCEPT ![g] = Done]
                                 /\ reported' = expiry[g].power
  /\ UNCHANGED <<writeVars, pub, update, followed, limitGen, limitTimer, guardVars>>

-----------------------------------------------------------------------------
(* The energy guard's heartbeat and the failsafe state.                       *)

GuardHeartbeat ==
  /\ guard # "here"
  /\ guard' = "here"
  /\ UNCHANGED <<writeVars, pub, update, followed, timerVars, failsafe, failsafeW,
                 pubFailsafe, clock, reported>>

\* More than twice the announced timeout goes by without a heartbeat.
GuardSilent ==
  /\ guard = "here"
  /\ guard' = "gone"
  /\ UNCHANGED <<writeVars, pub, update, followed, timerVars, failsafe, failsafeW,
                 pubFailsafe, clock, reported>>

\* A failsafe write with its approval and its application; the set holds no
\* value failsafeWriteProblem refuses.
WriteFailsafe(v) ==
  /\ v # pubFailsafe
  /\ pubFailsafe' = v
  /\ UNCHANGED <<writeVars, pub, update, followed, timerVars, guard, failsafe, failsafeW,
                 clock, reported>>

\* updateFailsafe takes the mutex twice, and only a change of state is reported.
TickLimit ==
  /\ clock.at = "none"
  /\ failsafeW # pubFailsafe \/ failsafe # (guard = "gone")
  /\ failsafeW' = pubFailsafe
  /\ clock' = [clock EXCEPT !.at = "decide"]
  /\ UNCHANGED <<writeVars, pub, update, followed, timerVars, guard, failsafe, pubFailsafe, reported>>

TickDecide ==
  /\ clock.at = "decide"
  /\ failsafe' = (guard = "gone")
  /\ clock' = [clock EXCEPT !.at = IF failsafe' # failsafe THEN "report" ELSE "none"]
  /\ UNCHANGED <<writeVars, pub, update, followed, timerVars, guard, failsafeW, pubFailsafe, reported>>

TickReport ==
  /\ \/ clock.at = "report" /\ clock' = Reporting(clock) /\ UNCHANGED reported
     \/ clock.at = "publish" /\ clock' = Idle /\ reported' = clock.power
  /\ UNCHANGED <<writeVars, pub, update, followed, timerVars, guard, failsafe, failsafeW, pubFailsafe>>

-----------------------------------------------------------------------------
Approving(i) == ReadGuard(i) \/ ListPending(i) \/ (\E j \in Writes : Decide(i, j))
Updating(i) == ReadLimit(i) \/ Store(i) \/ ReportUpdate(i)
Expiring(g) == Fire(g) \/ ExpiryRead(g) \/ ExpirySet(g) \/ ExpiryClear(g) \/ ReportExpiry(g)
Tick == TickLimit \/ TickDecide \/ TickReport

Next ==
  \/ \E l \in Limits : Write(l)
  \/ \E i \in Writes : Approving(i) \/ Updating(i) \/ Expiring(i)
  \/ GuardHeartbeat \/ GuardSilent \/ (\E v \in Failsafes : WriteFailsafe(v))
  \/ Tick

Spec == Init /\ [][Next]_vars

\* Every goroutine goes on and every timer fires; the guard need not do anything.
FairSpec ==
  Spec /\ \A i \in Writes : WF_vars(Approving(i)) /\ WF_vars(Updating(i)) /\ WF_vars(Expiring(i))

-----------------------------------------------------------------------------
(* Properties.                                                                *)

\* What the station publishes, follows and reports comes from writes it
\* approved, however approvals, updates and expiries overlap: a refused value
\* has no effect anywhere.
Allowed == {written[i].value : i \in approved}
OnlyApprovedCounts ==
  /\ {pub.value, followed.value} \subseteq Allowed \cup {0}
  /\ reported \in {Lower(v, Baseline) : v \in Allowed \cup Failsafes \cup {Baseline \div 2}} \cup {Baseline}

\* A limit stored with a duration is never followed without its expiry still to
\* come, although an older expiry may clear the timer the station holds.
TimerStillAhead == \A g \in Writes :
  g = limitGen /\ followed.active /\ expiry[g].at # "none"
     => expiry[g].at \in {"armed", "read", "set", "clear"}

\* A write that is pending has its own handler still to decide it, although the
\* handlers of other writes list and decide it too.
PendingHasHandler == \A i \in pending :
  \/ approver[i].at \in {"guard", "list"}
  \/ approver[i].at = "loop" /\ i \in approver[i].todo

\* Every write is approved or denied: "a written failsafe stays pending forever"
\* is what onLPCEvent's branches are there to prevent.
EveryWriteDecided == \A i \in Writes : i \in pending ~> i \notin pending

\* A limit written with a duration is reported inactive in the end: "a
\* spec-correct device stops following the limit AND reports it inactive
\* afterwards" (limitTimer).  Checked for a patient guard.
TimedLimitEnds == pub.active /\ pub.timed ~> ~(pub.active /\ pub.timed)

\* Stated by the code, and not so: an expiry leaves a newer limit alone
\* (limitGen, "Without it a timer started for an earlier limit deactivates a
\* newer one that arrived in the meantime").
OnlyOwnLimitExpires ==
  [][\A g \in Writes : limitGen # g /\ expiry[g].at \in {"set", "clear"} /\ expiry'[g] # expiry[g]
       => pub'.active = pub.active /\ followed'.active = followed.active]_vars
=============================================================================
