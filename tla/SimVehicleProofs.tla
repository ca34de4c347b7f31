--------------------------- MODULE SimVehicleProofs ---------------------------
(* What SimVehicle.tla says of the vehicle's safe current, proved for any      *)
(* currents, limits and timeout and any number of overlapping handlers.        *)
EXTENDS SimVehicle, TLAPS

\* Once the guard has been silent for too long, the clock publishes no more than
\* the safe current, and keeps it until the next round.
SafeRound == guardSeen > Timeout =>
    /\ clock.at = "publish" => clock.current <= MinCurrent
    /\ clock.at \in {"meter", "report"} \/ Settled => published <= MinCurrent

IInv == TypeOK /\ SafeRound

-----------------------------------------------------------------------------
(* The current *)

\* A limit of either kind never raises a current and leaves none below zero.
LEMMA CappedBounds ==
  ASSUME NEW cap \in Cap, NEW want \in 0 .. MaxCurrent
  PROVE  Capped(cap, want) \in 0 .. want
  <1>1. cap.value \in Nat
    BY VehicleAssumption DEF Cap
  <1>2. CASE cap.on
    BY <1>1, <1>2, VehicleAssumption DEF Capped, Lower
  <1>3. CASE ~cap.on
    BY <1>3, VehicleAssumption DEF Capped
  <1>4. QED
    BY <1>2, <1>3

\* Whatever is asked for, the vehicle draws nothing or what it can charge with,
\* and no more than its safe current while the guard is missing.
LEMMA CurrentBounds ==
  ASSUME TypeOK, NEW limit \in Shares
  PROVE  /\ ChargingCurrent(limit) \in Currents
         /\ GuardMissing => ChargingCurrent(limit) <= MinCurrent
  <1> DEFINE asked  == IF GuardMissing THEN MaxCurrent
                       ELSE Capped(caps["recommendation"], MaxCurrent)
             capped == Capped(caps["obligation"], asked)
  <1>1. caps["recommendation"] \in Cap /\ caps["obligation"] \in Cap
    BY DEF TypeOK, Kinds
  <1>2. limit \in Nat /\ MinCurrent \in Nat /\ MaxCurrent \in Nat /\ MinCurrent <= MaxCurrent
    BY VehicleAssumption
  <1>3. asked \in 0 .. MaxCurrent
    BY <1>1, <1>2, CappedBounds
  <1>4. capped \in 0 .. MaxCurrent
    <2>1. capped \in 0 .. asked
      BY <1>1, <1>3, CappedBounds
    <2>2. QED
      BY <1>2, <1>3, <2>1
  <1>5. Wanted(limit) \in 0 .. MaxCurrent
    <2> HIDE DEF asked, capped
    <2>1. Wanted(limit) = IF limit > 0 THEN Lower(limit, capped) ELSE capped
      BY DEF Wanted, asked, capped
    <2>2. QED
      BY <1>2, <1>4, <2>1 DEF Lower
  <1>6. Held(limit) \in 0 .. MaxCurrent /\ (GuardMissing => Held(limit) <= MinCurrent)
    <2> HIDE DEF asked, capped
    <2>1. CASE GuardMissing
      BY <1>2, <1>5, <2>1 DEF Held, Lower
    <2>2. CASE ~GuardMissing
      BY <1>5, <2>2 DEF Held
    <2>3. QED
      BY <2>1, <2>2
  <1>7. ChargingCurrent(limit) = 0 \/ (ChargingCurrent(limit) = Held(limit) /\ Held(limit) >= MinCurrent)
    <2>1. CASE finished
      BY <2>1 DEF ChargingCurrent, Paused
    <2>2. CASE ~finished
      BY <1>2, <1>6, <2>2 DEF ChargingCurrent, Paused
    <2>3. QED
      BY <2>1, <2>2
  <1>8. QED
    BY <1>2, <1>6, <1>7 DEF Currents

-----------------------------------------------------------------------------
(* Types *)

LEMMA InitTypes == Init => TypeOK
  <1> SUFFICES ASSUME Init PROVE TypeOK
    OBVIOUS
  <1>1. lc \in [Kinds -> Cap] /\ caps \in [Kinds -> Cap]
    BY DEF Init, NoCap, Cap
  <1>2. clock \in [at : {"wait", "pickUp", "share", "tick", "compute", "publish", "meter", "report"},
                   share : Shares, current : Currents]
    BY VehicleAssumption DEF Init, Currents
  <1>3. /\ report \in [Writes -> Job] /\ cem \in [present : BOOLEAN, failed : BOOLEAN]
        /\ handler \in [Events -> [at : {"none", "subscribe", "leave", "beat", "note", "state",
                                         "get", "read", "store", "done"}, failed : BOOLEAN]]
    BY DEF Init, NoJob, Job, Currents
  <1>4. /\ share \in Shares /\ stationA \in Shares /\ writes \in 0 .. MaxWrites
        /\ guardSeen \in Ages /\ away \in Ages /\ published \in Currents /\ metered \in Currents
    BY VehicleAssumption DEF Init, Ages, Currents
  <1>5. QED
    BY <1>1, <1>2, <1>3, <1>4 DEF Init, TypeOK

LEMMA SecondTypes == TypeOK /\ Second => TypeOK'
  <1> SUFFICES ASSUME TypeOK, Second PROVE TypeOK'
    OBVIOUS
  <1>1. guardSeen' \in Ages /\ away' \in Ages
    BY VehicleAssumption DEF TypeOK, Second, Ages, Never, Lower
  <1>2. QED
    BY <1>1 DEF TypeOK, Second, drawVars, inputVars

LEMMA ClockTypes == TypeOK /\ ClockStep => TypeOK'
  <1> SUFFICES ASSUME TypeOK, ClockStep PROVE TypeOK'
    OBVIOUS
  <1> USE DEF TypeOK, ClockAlone, Step, drawVars, guardVars, inputVars
  <1>1. ChargingCurrent(stationA) \in Currents
    BY CurrentBounds
  <1>2. CASE Tick
    BY <1>2 DEF Tick
  <1>3. CASE PickUp
    BY <1>3 DEF PickUp
  <1>4. CASE TakeShare
    BY <1>4 DEF TakeShare
  <1>5. CASE Charge
    <2>1. finished' \in BOOLEAN
      BY <1>5, Zenon DEF Charge
    <2>2. QED
      BY <1>5, <2>1 DEF Charge
  <1>6. CASE Compute
    BY <1>1, <1>6 DEF Compute
  <1>7. CASE PublishDraw
    BY <1>7 DEF PublishDraw
  <1>8. CASE Meter
    BY <1>1, <1>8 DEF Meter
  <1>9. CASE PublishPower
    BY <1>9 DEF PublishPower
  <1>10. QED
    BY <1>2, <1>3, <1>4, <1>5, <1>6, <1>7, <1>8, <1>9 DEF ClockStep

LEMMA LimitTypes ==
  ASSUME TypeOK,
         \/ \E kind \in Kinds, cap \in Cap : WriteCap(kind, cap)
         \/ \E s \in Shares : ChangeShare(s)
         \/ \E k \in Writes : ReportCompute(k) \/ ReportPublish(k)
  PROVE  TypeOK'
  <1> USE DEF TypeOK, drawVars, guardVars, inputVars
  <1>1. ASSUME NEW kind \in Kinds, NEW cap \in Cap, WriteCap(kind, cap) PROVE TypeOK'
    <2>1. writes' \in 0 .. MaxWrites
      BY <1>1, VehicleAssumption DEF WriteCap
    <2>2. lc' \in [Kinds -> Cap]
      BY <1>1 DEF WriteCap
    <2>3. QED
      BY <1>1, <2>1, <2>2 DEF WriteCap
  <1>2. ASSUME NEW s \in Shares, ChangeShare(s) PROVE TypeOK'
    <2>1. writes' \in 0 .. MaxWrites
      BY <1>2, VehicleAssumption DEF ChangeShare
    <2>2. report' \in [Writes -> Job]
      BY <1>2 DEF ChangeShare, Job
    <2>3. QED
      BY <1>2, <2>1, <2>2 DEF ChangeShare
  <1>3. ASSUME NEW k \in Writes, ReportCompute(k) PROVE TypeOK'
    <2>1. ChargingCurrent(stationA) \in Currents
      BY CurrentBounds
    <2>2. report' \in [Writes -> Job]
      BY <1>3, <2>1 DEF ReportCompute, Job
    <2>3. QED
      BY <1>3, <2>2 DEF ReportCompute
  <1>4. ASSUME NEW k \in Writes, ReportPublish(k) PROVE TypeOK'
    <2>1. report' \in [Writes -> Job] /\ metered' \in Currents
      BY <1>4 DEF ReportPublish, Job, Currents
    <2>2. QED
      BY <1>4, <2>1 DEF ReportPublish
  <1>5. QED
    BY <1>1, <1>2, <1>3, <1>4

LEMMA RaiseTypes == TypeOK /\ (Appear \/ Leave \/ Beat \/ Announce) => TypeOK'
  <1> SUFFICES ASSUME TypeOK, Appear \/ Leave \/ Beat \/ Announce PROVE TypeOK'
    OBVIOUS
  <1> USE DEF TypeOK, drawVars, guardVars, inputVars
  <1>1. PICK at \in {"subscribe", "leave", "beat", "state"},
             c \in [present : BOOLEAN, failed : BOOLEAN] : Raise(at, c)
    <2>1. [present |-> TRUE, failed |-> FALSE] \in [present : BOOLEAN, failed : BOOLEAN]
      OBVIOUS
    <2>2. [cem EXCEPT !.present = FALSE] \in [present : BOOLEAN, failed : BOOLEAN]
      OBVIOUS
    <2>3. [cem EXCEPT !.failed = ~cem.failed] \in [present : BOOLEAN, failed : BOOLEAN]
      BY Zenon
    <2>4. QED
      BY <2>1, <2>2, <2>3 DEF Appear, Leave, Beat, Announce
  <1>2. PICK k \in Events : handler' = [handler EXCEPT ![k].at = at]
    BY <1>1 DEF Raise
  <1>3. QED
    BY <1>1, <1>2 DEF Raise

LEMMA HandleTypes == ASSUME TypeOK, NEW k \in Events, Handle(k) PROVE TypeOK'
  <1> USE DEF TypeOK, GuardAlone, Handled, drawVars, guardVars, inputVars
  <1>1. Never \in Ages /\ 0 \in Ages
    BY VehicleAssumption DEF Ages
  <1>2. CASE Install(k)
    BY <1>1, <1>2 DEF Install
  <1>3. CASE Remove(k)
    BY <1>1, <1>3 DEF Remove
  <1>4. CASE Recognise(k, "beat", "note") \/ Recognise(k, "state", "get") \/ Recognise(k, "get", "read")
    BY <1>4 DEF Recognise
  <1>5. CASE NoteBeat(k)
    BY <1>1, <1>5 DEF NoteBeat
  <1>6. CASE AskState(k)
    BY <1>6 DEF AskState
  <1>7. CASE StoreState(k)
    <2>1. guardFailed' \in BOOLEAN
      BY <1>7, Zenon DEF StoreState
    <2>2. QED
      BY <1>7, <2>1 DEF StoreState
  <1>8. QED
    BY <1>2, <1>3, <1>4, <1>5, <1>6, <1>7 DEF Handle

LEMMA StepTypes == TypeOK /\ [Next]_vars => TypeOK'
  <1> SUFFICES ASSUME TypeOK, [Next]_vars PROVE TypeOK'
    OBVIOUS
  <1>1. CASE UNCHANGED vars
    BY <1>1 DEF TypeOK, vars, drawVars, guardVars, inputVars
  <1>2. CASE Next
    BY <1>2, SecondTypes, ClockTypes, LimitTypes, RaiseTypes, HandleTypes DEF Next
  <1>3. QED
    BY <1>1, <1>2

\* Every variable keeps its range: in particular the vehicle never publishes and
\* the station never meters a current between nothing and the vehicle's minimum.
THEOREM TypeCorrect == Spec => []TypeOK
  BY InitTypes, StepTypes, PTL DEF Spec

-----------------------------------------------------------------------------
(* The safe current *)

\* The steps that change nothing SafeRound speaks of.
LEMMA OthersKeep ==
  ASSUME SafeRound, UNCHANGED <<guardSeen, clock, published, second>>
  PROVE  SafeRound'
  BY DEF SafeRound, Settled

\* A handler forgets when the guard was heard, or hears it, or leaves that alone.
LEMMA HandleKeeps == ASSUME TypeOK, SafeRound, NEW k \in Events, Handle(k) PROVE SafeRound'
  <1> USE DEF GuardAlone, drawVars, guardVars, inputVars
  <1>1. UNCHANGED <<clock, published, second>>
    BY DEF Handle, Install, Remove, Recognise, NoteBeat, AskState, StoreState
  <1>2. guardSeen' \in {Never, 0, guardSeen}
    BY DEF Handle, Install, Remove, Recognise, NoteBeat, AskState, StoreState
  <1>3. CASE guardSeen' \in {Never, 0}
    <2>1. ~(guardSeen' > Timeout)
      BY <1>3, VehicleAssumption DEF Never
    <2>2. QED
      BY <2>1 DEF SafeRound
  <1>4. CASE guardSeen' = guardSeen
    BY <1>1, <1>4, OthersKeep
  <1>5. QED
    BY <1>2, <1>3, <1>4

\* The round of the clock: what it computes while the guard is silent is safe,
\* and it publishes that before the round is over.
LEMMA ClockKeeps == ASSUME TypeOK, SafeRound, ClockStep PROVE SafeRound'
  <1> USE DEF Step, ClockAlone, drawVars, guardVars
  <1>1. clock \in [at : {"wait", "pickUp", "share", "tick", "compute", "publish", "meter", "report"},
                   share : Shares, current : Currents]
    BY DEF TypeOK
  <1>2. guardSeen' = guardSeen
    BY DEF ClockStep, Tick, PickUp, TakeShare, Charge, Compute, PublishDraw, Meter, PublishPower
  <1>3. CASE Tick
    <2>1. clock'.at = "pickUp"
      BY <1>1, <1>3 DEF Tick
    <2>2. QED
      BY <2>1 DEF SafeRound, Settled
  <1>4. CASE PickUp \/ TakeShare \/ Charge
    <2>1. clock'.at \in {"share", "tick", "compute"}
      BY <1>1, <1>4 DEF PickUp, TakeShare, Charge
    <2>2. QED
      BY <2>1 DEF SafeRound, Settled
  <1>5. CASE Compute
    <2>1. clock'.at = "publish" /\ clock'.current = ChargingCurrent(stationA)
      BY <1>1, <1>5 DEF Compute
    <2>2. guardSeen > Timeout => ChargingCurrent(stationA) <= MinCurrent
      BY CurrentBounds DEF GuardMissing, TypeOK
    <2>3. QED
      BY <1>2, <2>1, <2>2 DEF SafeRound, Settled
  <1>6. CASE PublishDraw
    <2>1. clock.at = "publish" /\ clock'.at = "meter" /\ published' = clock.current
      BY <1>1, <1>6 DEF PublishDraw
    <2>2. QED
      BY <1>2, <2>1 DEF SafeRound
  <1>7. CASE Meter
    <2>1. clock.at = "meter" /\ clock'.at = "report" /\ published' = published
      BY <1>1, <1>7 DEF Meter
    <2>2. QED
      BY <1>2, <2>1 DEF SafeRound
  <1>8. CASE PublishPower
    <2>1. clock.at = "report" /\ clock'.at = "wait" /\ published' = published
      BY <1>1, <1>8 DEF PublishPower
    <2>2. QED
      BY <1>2, <2>1 DEF SafeRound
  <1>9. QED
    BY <1>3, <1>4, <1>5, <1>6, <1>7, <1>8 DEF ClockStep

LEMMA StepKeeps == IInv /\ [Next]_vars => IInv'
  <1> SUFFICES ASSUME TypeOK, SafeRound, [Next]_vars PROVE SafeRound'
    BY StepTypes DEF IInv
  <1>1. CASE Second
    <2>1. clock'.at = "wait" /\ second' = TRUE
      BY <1>1 DEF Second
    <2>2. QED
      BY <2>1 DEF SafeRound, Settled
  <1>2. CASE ClockStep
    BY <1>2, ClockKeeps
  <1>3. CASE \/ \E kind \in Kinds, cap \in Cap : WriteCap(kind, cap)
             \/ \E s \in Shares : ChangeShare(s)
             \/ \E k \in Writes : ReportCompute(k) \/ ReportPublish(k)
             \/ Appear \/ Leave \/ Beat \/ Announce
             \/ UNCHANGED vars
    <2>1. UNCHANGED <<guardSeen, clock, published, second>>
      BY <1>3 DEF WriteCap, ChangeShare, ReportCompute, ReportPublish, Appear, Leave, Beat,
         Announce, Raise, vars, drawVars, guardVars, inputVars
    <2>2. QED
      BY <2>1, OthersKeep
  <1>4. CASE \E k \in Events : Handle(k)
    BY <1>4, HandleKeeps
  <1>5. QED
    BY <1>1, <1>2, <1>3, <1>4 DEF Next

\* A guard that was heard and then silent for longer than the timeout leaves the
\* vehicle at its safe current, whatever handlers, limits and reports overlap.
THEOREM SilenceIsSafe == Spec => []SafeWhenSilent
  <1>1. Init => IInv
    <2>1. Init => ~(guardSeen > Timeout)
      BY VehicleAssumption DEF Init, Never
    <2>2. QED
      BY <2>1, InitTypes DEF IInv, SafeRound
  <1>2. IInv => SafeWhenSilent
    BY DEF IInv, SafeRound, SafeWhenSilent
  <1>3. QED
    BY <1>1, <1>2, StepKeeps, PTL DEF Spec
=============================================================================
