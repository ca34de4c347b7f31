--------------------------- MODULE SimStationProofs ---------------------------
(* What SimStation.tla says of the limits a station approves, follows and      *)
(* reports, proved for any limits and failsafe values, any number of writes,   *)
(* and a guard that waits for its writes or does not.                          *)
EXTENDS SimStation, FiniteSetTheorems, TLAPS

\* What the handlers of a write go through, an update and an expiry.
Approver == [at : {"none", "guard", "list", "loop", "done"}, noGuard : BOOLEAN, todo : SUBSET Writes]
UpdateAt == {"none", "read", "store", "report", "publish", "done"}
ExpiryAt == {"none", "armed", "read", "set", "clear", "report", "publish", "done"}

\* An update is announced for the approved writes and for no other.
Announced == \A i \in Writes : update[i].at = "none" <=> i \notin approved

\* Every update that was stored counted one generation.
Stored == {i \in Writes : update[i].at \in {"report", "publish", "done"}}
OneGenerationEach == limitGen = Cardinality(Stored)

Counts == Announced /\ OneGenerationEach

\* A write that was approved asks for no negative power.
NoneNegative == \A i \in approved : written[i].value >= 0

\* A limit somebody holds: none so far, one that was written and approved, or
\* such a one deactivated.
Granted(l) == l.value \in Allowed \cup {0} /\ (l.active => l.value \in Allowed)
LimitsGranted ==
    /\ Granted(pub) /\ Granted(followed)
    /\ \A i \in Writes : Granted(update[i].limit) /\ Granted(expiry[i].limit)

\* A failsafe value counts only after it was taken from the published one.
Fallbacks == Failsafes \cup {Baseline \div 2}
FailsafeKnown ==
    /\ pubFailsafe \in Fallbacks
    /\ failsafe \/ clock.at = "decide" => failsafeW \in Fallbacks

\* A power somebody is about to publish, or did.
Powers == {Lower(v, Baseline) : v \in Allowed \cup Fallbacks} \cup {Baseline}
PowersJustified ==
    /\ reported \in Powers
    /\ \A i \in Writes : /\ update[i].at = "publish" => update[i].power \in Powers
                         /\ expiry[i].at = "publish" => expiry[i].power \in Powers
    /\ clock.at = "publish" => clock.power \in Powers

Sources == NoneNegative /\ LimitsGranted /\ FailsafeKnown /\ PowersJustified
IInv == TypeOK /\ Counts /\ Sources

-----------------------------------------------------------------------------
(* Grants and powers *)

\* What was granted or justified stays so, as long as no approval is taken back
\* and no approved write is rewritten.
LEMMA Grows ==
  ASSUME approved \subseteq approved', \A i \in approved : written'[i] = written[i]
  PROVE  /\ Allowed \subseteq Allowed' /\ Powers \subseteq Powers'
         /\ \A l : Granted(l) => Granted(l)'
  <1>1. Allowed \subseteq Allowed'
    BY DEF Allowed
  <1>2. QED
    BY <1>1 DEF Powers, Granted

\* Every power is a natural number, and what reportPower computes is one of them.
LEMMA PowerJustified ==
  ASSUME TypeOK, Sources
  PROVE  Powers \subseteq Nat /\ Power \in Powers
  <1>1. Baseline \in Nat /\ Baseline \div 2 \in Nat /\ Failsafes \subseteq Nat
    BY LimitsAssumption, BaselineAssumption
  <1>2. Allowed \subseteq Nat
    <2>1. ASSUME NEW i \in approved PROVE written[i].value \in Nat
      <3>1. written[i] \in Limit
        BY <2>1 DEF TypeOK
      <3>2. QED
        BY <2>1, <3>1 DEF Sources, NoneNegative, Limit
    <2>2. QED
      BY <2>1 DEF Allowed
  <1>3. Powers \subseteq Nat
    BY <1>1, <1>2 DEF Powers, Fallbacks, Lower
  <1>4. Power \in Powers
    <2>1. CASE failsafe
      <3>1. failsafeW \in Fallbacks
        BY <2>1 DEF Sources, FailsafeKnown
      <3>2. QED
        BY <2>1, <3>1 DEF Power, Powers
    <2>2. CASE ~failsafe /\ followed.active
      <3>1. followed.value \in Allowed
        BY <2>2 DEF Sources, LimitsGranted, Granted
      <3>2. QED
        BY <2>2, <3>1 DEF Power, Powers
    <2>3. CASE ~failsafe /\ ~followed.active
      BY <2>3 DEF Power, Powers
    <2>4. QED
      BY <2>1, <2>2, <2>3
  <1>5. QED
    BY <1>3, <1>4

-----------------------------------------------------------------------------
(* The steps *)

\* Nothing is written yet, and the station draws its baseline.
LEMMA InitHolds == Init => IInv
  <1> SUFFICES ASSUME Init PROVE IInv
    OBVIOUS
  <1>1. Baseline \in Nat /\ Baseline \div 2 \in Nat /\ MaxWrites \in Nat
    BY BaselineAssumption, WritesAssumption
  <1>2. TypeOK
    <2>1. NoLimit \in Limit /\ NoApprover \in [at : {"none", "guard", "list", "loop", "done"},
                                               noGuard : BOOLEAN, todo : SUBSET Writes]
      BY DEF NoLimit, Limit, NoApprover
    <2>2. /\ Idle \in Goroutine({"none", "read", "store", "report", "publish", "done"})
          /\ Idle \in Goroutine({"none", "armed", "read", "set", "clear", "report", "publish", "done"})
          /\ Idle \in Goroutine({"none", "decide", "report", "publish"})
      BY <2>1 DEF Idle, Goroutine
    <2>3. written \in Seq(Limit) /\ Len(written) = 0 /\ pending = {} /\ approved = {}
      BY DEF Init
    <2>4. /\ approver \in [Writes -> [at : {"none", "guard", "list", "loop", "done"},
                                      noGuard : BOOLEAN, todo : SUBSET Writes]]
          /\ update \in [Writes -> Goroutine({"none", "read", "store", "report", "publish", "done"})]
          /\ expiry \in [Writes -> Goroutine({"none", "armed", "read", "set", "clear",
                                              "report", "publish", "done"})]
      BY <2>1, <2>2 DEF Init
    <2>5. pub \in Limit /\ followed \in [value : Int, active : BOOLEAN]
      BY <2>1 DEF Init
    <2>6. limitGen \in 0 .. MaxWrites /\ limitTimer \in 0 .. limitGen
      BY <1>1 DEF Init
    <2>7. /\ guard \in {"never", "here", "gone"} /\ failsafe \in BOOLEAN
          /\ failsafeW \in Nat /\ pubFailsafe \in Nat /\ reported \in Nat
          /\ clock \in Goroutine({"none", "decide", "report", "publish"})
      BY <1>1, <2>2 DEF Init
    <2>8. QED
      BY <1>1, <2>3, <2>4, <2>5, <2>6, <2>7 DEF TypeOK
  <1>3. Counts
    <2>1. Stored = {}
      BY DEF Init, Stored, Idle
    <2>2. QED
      BY <2>1, FS_EmptySet DEF Init, Counts, Announced, OneGenerationEach, Idle
  <1>4. Sources
    BY DEF Init, Sources, NoneNegative, LimitsGranted, Granted, FailsafeKnown, Fallbacks,
           PowersJustified, Powers, Idle, NoLimit
  <1>5. QED
    BY <1>2, <1>3, <1>4 DEF IInv

\* A write arrives as pending: it grants nothing yet.
LEMMA WriteKeeps == ASSUME IInv, NEW l \in Limits, Write(l) PROVE IInv'
  <1> USE DEF IInv
  <1>1. /\ l \in Limit /\ written \in Seq(Limit) /\ written' = Append(written, l)
        /\ Len(written) \in Nat /\ Len(written') = Len(written) + 1 /\ Len(written') <= MaxWrites
    BY LimitsAssumption, WritesAssumption DEF TypeOK, Write
  <1>2. /\ approved \subseteq 1 .. Len(written) /\ approved' = approved
        /\ \A i \in approved : written'[i] = written[i]
    BY <1>1 DEF TypeOK, Write
  <1>3. TypeOK'
    <2>1. written' \in Seq(Limit)
      BY <1>1
    <2>2. pending' \subseteq 1 .. Len(written') /\ approved' \subseteq 1 .. Len(written') \ pending'
      BY <1>1, <1>2 DEF TypeOK, Write
    <2>3. approver' \in [Writes -> Approver]
      <3> DEFINE i == Len(written) + 1
                 a == [approver[i] EXCEPT !.at = "guard"]
      <3>1. i \in Writes /\ approver \in [Writes -> Approver] /\ approver[i] \in Approver
        BY <1>1, WritesAssumption DEF Writes, TypeOK, Approver
      <3>2. a \in Approver
        <4> HIDE DEF i
        <4>1. QED
          BY <3>1 DEF Approver
      <3>3. approver' = [approver EXCEPT ![i] = a]
        BY <3>1 DEF Write
      <3> HIDE DEF i, a
      <3>4. QED
        BY <3>1, <3>2, <3>3
    <2>4. QED
      BY <1>1, <2>1, <2>2, <2>3 DEF TypeOK, Approver, Write, timerVars, guardVars
  <1>4. Counts'
    BY <1>2 DEF Counts, Announced, OneGenerationEach, Stored, Write, timerVars
  <1>5. /\ Allowed \subseteq Allowed' /\ Powers \subseteq Powers'
        /\ \A x : Granted(x) => Granted(x)'
    BY <1>2, Grows
  <1>6. Sources'
    <2>1. NoneNegative'
      BY <1>2 DEF Sources, NoneNegative
    <2>2. LimitsGranted'
      BY <1>5 DEF Sources, LimitsGranted, Write, timerVars
    <2>3. FailsafeKnown'
      BY DEF Sources, FailsafeKnown, Fallbacks, Write, guardVars
    <2>4. PowersJustified'
      BY <1>5 DEF Sources, PowersJustified, Write, timerVars, guardVars
    <2>5. QED
      BY <2>1, <2>2, <2>3, <2>4 DEF Sources
  <1>7. QED
    BY <1>3, <1>4, <1>6

\* The approval loop is one of the states of a write's handler.
LEMMA LoopType ==
  ASSUME NEW noGuard \in BOOLEAN, NEW todo \in SUBSET Writes
  PROVE  Loop(noGuard, todo) \in Approver
  <1>1. CASE todo = {}
    BY <1>1 DEF Loop, NoApprover, Approver
  <1>2. CASE todo # {}
    BY <1>2 DEF Loop, Approver
  <1>3. QED
    BY <1>1, <1>2

\* A step that changes the approver alone.
LEMMA ApproverKeeps ==
  ASSUME IInv, NEW i \in Writes, NEW a \in Approver, approver' = [approver EXCEPT ![i] = a],
         UNCHANGED <<written, pending, approved, pub, update, followed, timerVars, guardVars, reported>>
  PROVE  IInv'
  <1> USE DEF IInv
  <1>1. TypeOK'
    <2>1. approver' \in [Writes -> Approver]
      BY DEF TypeOK, Approver
    <2>2. QED
      BY <2>1 DEF TypeOK, Approver, timerVars, guardVars
  <1>2. Counts'
    BY DEF Counts, Announced, OneGenerationEach, Stored, timerVars
  <1>3. Sources'
    BY DEF Sources, NoneNegative, LimitsGranted, Granted, Allowed, FailsafeKnown, Fallbacks,
           PowersJustified, Powers, timerVars, guardVars
  <1>4. QED
    BY <1>1, <1>2, <1>3

\* The handler of a write looks whether the guard is known.
LEMMA ReadGuardKeeps == ASSUME IInv, NEW i \in Writes, ReadGuard(i) PROVE IInv'
  <1> DEFINE missing == guard = "never" \/ failsafe
             a == [approver[i] EXCEPT !.at = "list", !.noGuard = missing]
  <1>1. missing \in BOOLEAN
    BY Zenon
  <1>2. approver[i] \in Approver
    BY DEF IInv, TypeOK, Approver
  <1>3. a \in Approver
    <2> HIDE DEF missing
    <2>1. QED
      BY <1>1, <1>2 DEF Approver
  <1>4. approver' = [approver EXCEPT ![i] = a]
    <2> HIDE DEF missing
    <2>1. approver' = [approver EXCEPT ![i].at = "list", ![i].noGuard = missing]
      BY DEF ReadGuard, missing
    <2>2. QED
      BY <1>2, <2>1 DEF IInv, TypeOK
  <1> HIDE DEF a
  <1>5. QED
    BY <1>3, <1>4, ApproverKeeps DEF ReadGuard

\* The handler lists the writes that are pending.
LEMMA ListPendingKeeps == ASSUME IInv, NEW i \in Writes, ListPending(i) PROVE IInv'
  <1> DEFINE a == Loop(approver[i].noGuard, pending)
  <1>1. approver[i].noGuard \in BOOLEAN /\ pending \in SUBSET Writes
    BY WritesAssumption DEF IInv, TypeOK, Writes
  <1>2. a \in Approver
    BY <1>1, LoopType
  <1>3. approver' = [approver EXCEPT ![i] = a]
    BY DEF ListPending, IInv, TypeOK
  <1> HIDE DEF a
  <1>4. QED
    BY <1>2, <1>3, ApproverKeeps DEF ListPending

\* A decision grants a write that is not negative, or refuses it without effect.
LEMMA DecideKeeps == ASSUME IInv, NEW i \in Writes, NEW j \in Writes, Decide(i, j) PROVE IInv'
  <1> DEFINE a == Loop(approver[i].noGuard, approver[i].todo \ {j})
             approves == j \in pending /\ ~Refused(written[j], approver[i].noGuard)
  <1>1. /\ a \in Approver /\ approver' = [approver EXCEPT ![i] = a]
        /\ UNCHANGED <<written, followed, timerVars, guardVars, reported>>
    <2>1. approver[i].noGuard \in BOOLEAN /\ approver[i].todo \ {j} \in SUBSET Writes
      BY DEF IInv, TypeOK
    <2>2. a \in Approver
      BY <2>1, LoopType
    <2>3. QED
      BY <2>2 DEF Decide, DecideAs, IInv, TypeOK
  <1> HIDE DEF a
  <1>2. CASE j \notin pending
    <2>1. UNCHANGED <<written, pending, approved, pub, update, followed, timerVars, guardVars, reported>>
      BY <1>1, <1>2 DEF Decide, DecideAs
    <2>2. QED
      BY <1>1, <2>1, ApproverKeeps
  <1>3. CASE j \in pending
    <2> USE DEF IInv
    <2>1. /\ pending' = pending \ {j} /\ j \in 1 .. Len(written) /\ j \notin approved
          /\ written' = written /\ written[j] \in Limit
      BY <1>1, <1>3 DEF Decide, DecideAs, TypeOK
    <2>2. approver' \in [Writes -> Approver]
      BY <1>1 DEF TypeOK, Approver
    <2>3. CASE Refused(written[j], approver[i].noGuard)
      <3>1. UNCHANGED <<approved, pub, update>>
        BY <1>3, <2>3 DEF Decide, DecideAs
      <3>2. TypeOK'
        BY <1>1, <2>1, <2>2, <3>1 DEF TypeOK, Approver, timerVars, guardVars
      <3>3. Counts'
        BY <1>1, <3>1 DEF Counts, Announced, OneGenerationEach, Stored, timerVars
      <3>4. Sources'
        BY <1>1, <3>1 DEF Sources, NoneNegative, LimitsGranted, Granted, Allowed, FailsafeKnown,
             Fallbacks, PowersJustified, Powers, timerVars, guardVars
      <3>5. QED
        BY <3>2, <3>3, <3>4
    <2>4. CASE ~Refused(written[j], approver[i].noGuard)
      <3>1. /\ approved' = approved \cup {j} /\ pub' = written[j]
            /\ update' = [update EXCEPT ![j].at = "read"] /\ written[j].value >= 0
        <4>1. /\ approved' = approved \cup {j} /\ pub' = written[j]
              /\ update' = [update EXCEPT ![j].at = "read"]
          BY <1>3, <2>4 DEF Decide, DecideAs
        <4>2. written[j].value \in Int /\ ~(written[j].value < 0)
          BY <2>1, <2>4 DEF Refused, Limit
        <4>3. QED
          BY <4>1, <4>2
      <3>2. update \in [Writes -> Goroutine({"none", "read", "store", "report", "publish", "done"})]
        BY DEF TypeOK
      <3>3. /\ update[j].at = "none" /\ update'[j].at = "read"
            /\ \A k \in Writes : k # j => update'[k] = update[k]
            /\ \A k \in Writes : update'[k].limit = update[k].limit
        BY <2>1, <3>1, <3>2 DEF Counts, Announced, Goroutine
      <3>4. TypeOK'
        <4>1. update' \in [Writes -> Goroutine({"none", "read", "store", "report", "publish", "done"})]
          BY <3>1, <3>2 DEF Goroutine
        <4>2. pending' \subseteq 1 .. Len(written') /\ approved' \subseteq 1 .. Len(written') \ pending'
          BY <2>1, <3>1 DEF TypeOK
        <4>3. QED
          BY <1>1, <2>1, <2>2, <3>1, <4>1, <4>2 DEF TypeOK, Approver, timerVars, guardVars
      <3>5. Counts'
        <4>1. Announced'
          BY <3>1, <3>3 DEF Counts, Announced
        <4>2. Stored' = Stored
          BY <3>3 DEF Stored
        <4>3. QED
          BY <1>1, <4>1, <4>2 DEF Counts, OneGenerationEach, timerVars
      <3>6. /\ Allowed \subseteq Allowed' /\ Powers \subseteq Powers'
            /\ \A x : Granted(x) => Granted(x)'
        BY <2>1, <3>1, Grows
      <3>7. Sources'
        <4>1. NoneNegative'
          BY <2>1, <3>1 DEF Sources, NoneNegative
        <4>2. Granted(pub)'
          <5>1. pub'.value \in Allowed'
            BY <2>1, <3>1 DEF Allowed
          <5>2. QED
            BY <5>1 DEF Granted
        <4>3. \A k \in Writes : Granted(update[k].limit)' /\ Granted(expiry[k].limit)'
          BY <1>1, <3>3, <3>6 DEF Sources, LimitsGranted, timerVars
        <4>4. LimitsGranted'
          BY <1>1, <3>6, <4>2, <4>3 DEF Sources, LimitsGranted
        <4>5. FailsafeKnown'
          BY <1>1 DEF Sources, FailsafeKnown, Fallbacks, guardVars
        <4>6. PowersJustified'
          <5>1. \A k \in Writes : update'[k].at = "publish" => update'[k].power \in Powers'
            BY <3>3, <3>6 DEF Sources, PowersJustified
          <5>2. QED
            BY <1>1, <3>6, <5>1 DEF Sources, PowersJustified, timerVars, guardVars
        <4>7. QED
          BY <4>1, <4>4, <4>5, <4>6 DEF Sources
      <3>8. QED
        BY <3>4, <3>5, <3>7
    <2>5. QED
      BY <2>3, <2>4
  <1>4. QED
    BY <1>2, <1>3

-----------------------------------------------------------------------------
(* Following and expiring *)

\* While no write is decided, nothing is granted that was not.
LEMMA SameGrants ==
  ASSUME UNCHANGED <<written, approved>>
  PROVE  Allowed' = Allowed /\ Powers' = Powers /\ \A l : Granted(l)' <=> Granted(l)
  BY DEF Allowed, Powers, Fallbacks, Granted

\* A goroutine between two of its steps: its stage, and a limit and a power that
\* may be there.
Sound(r, stages) ==
    /\ r \in Goroutine(stages)
    /\ Granted(r.limit) /\ (r.at = "publish" => r.power \in Powers)

\* An update's step that leaves the timers alone.
LEMMA UpdateKeeps ==
  ASSUME IInv, NEW i \in Writes, update[i].at # "none", NEW r, Sound(r, UpdateAt),
         update' = [update EXCEPT ![i] = r], r.at # "none",
         i \in Stored <=> r.at \in {"report", "publish", "done"},
         reported' \in Powers,
         UNCHANGED <<writeVars, pub, followed, timerVars, guardVars>>
  PROVE  IInv'
  <1> USE DEF IInv
  <1>1. /\ \A k \in Writes : update'[k] = IF k = i THEN r ELSE update[k]
        /\ update' \in [Writes -> Goroutine(UpdateAt)]
    BY DEF TypeOK, Sound, UpdateAt
  <1>2. Allowed' = Allowed /\ Powers' = Powers /\ \A l : Granted(l)' <=> Granted(l)
    BY SameGrants DEF writeVars
  <1>3. TypeOK'
    <2>1. reported' \in Nat
      BY PowerJustified
    <2>2. QED
      BY <1>1, <2>1 DEF TypeOK, UpdateAt, writeVars, timerVars, guardVars
  <1>4. Counts'
    <2>1. Announced'
      BY <1>1 DEF Counts, Announced, writeVars
    <2>2. Stored' = Stored
      BY <1>1 DEF Stored
    <2>3. QED
      BY <2>1, <2>2 DEF Counts, OneGenerationEach, timerVars
  <1>5. Sources'
    <2>1. NoneNegative' /\ FailsafeKnown'
      BY DEF Sources, NoneNegative, FailsafeKnown, Fallbacks, writeVars, guardVars
    <2>2. LimitsGranted'
      BY <1>1, <1>2 DEF Sources, LimitsGranted, Sound, timerVars
    <2>3. PowersJustified'
      BY <1>1, <1>2 DEF Sources, PowersJustified, Sound, timerVars, guardVars
    <2>4. QED
      BY <2>1, <2>2, <2>3 DEF Sources
  <1>6. QED
    BY <1>3, <1>4, <1>5

\* What an update and an expiry hold comes from approved writes.
LEMMA GoroutinesSound ==
  ASSUME IInv, NEW i \in Writes
  PROVE  Sound(update[i], UpdateAt) /\ Sound(expiry[i], ExpiryAt)
  BY DEF IInv, TypeOK, Sources, LimitsGranted, PowersJustified, Sound, UpdateAt, ExpiryAt

\* Before any write the limit is none, which counts as granted.
LEMMA NothingGranted == Granted(NoLimit) /\ NoLimit \in Limit
  BY DEF Granted, NoLimit, Limit

\* An update reads the limit that the stack published.
LEMMA ReadLimitKeeps == ASSUME IInv, NEW i \in Writes, ReadLimit(i) PROVE IInv'
  <1> DEFINE r == [update[i] EXCEPT !.at = "store", !.limit = pub]
  <1>1. update \in [Writes -> Goroutine(UpdateAt)] /\ update[i].at = "read" /\ pub \in Limit
    BY DEF ReadLimit, IInv, TypeOK, UpdateAt
  <1>2. r \in Goroutine(UpdateAt) /\ r.at = "store" /\ r.limit = pub
    BY <1>1 DEF Goroutine, UpdateAt
  <1>3. update' = [update EXCEPT ![i] = r]
    BY <1>1 DEF ReadLimit
  <1> HIDE DEF r
  <1>4. Sound(r, UpdateAt)
    BY <1>2 DEF Sound, IInv, Sources, LimitsGranted
  <1>5. reported' \in Powers
    BY DEF ReadLimit, IInv, Sources, PowersJustified
  <1>6. QED
    BY <1>1, <1>2, <1>3, <1>4, <1>5, UpdateKeeps DEF ReadLimit, Stored

\* After an update the power is computed, and then published.
LEMMA ReportUpdateKeeps == ASSUME IInv, NEW i \in Writes, ReportUpdate(i) PROVE IInv'
  <1>1. update \in [Writes -> Goroutine(UpdateAt)] /\ Sound(update[i], UpdateAt) /\ reported \in Powers
    BY GoroutinesSound DEF IInv, TypeOK, UpdateAt, Sources, PowersJustified
  <1>2. Power \in Powers /\ Power \in Int
    BY PowerJustified DEF IInv
  <1>3. CASE update[i].at = "report"
    <2> DEFINE r == Reporting(update[i])
    <2>1. r \in Goroutine(UpdateAt) /\ r.at = "publish" /\ r.limit = update[i].limit /\ r.power = Power
      BY <1>1, <1>2 DEF Goroutine, UpdateAt, Reporting
    <2>2. update' = [update EXCEPT ![i] = r] /\ reported' = reported
      BY <1>1, <1>3 DEF ReportUpdate
    <2> HIDE DEF r
    <2>3. Sound(r, UpdateAt)
      BY <1>1, <1>2, <2>1 DEF Sound
    <2>4. QED
      BY <1>1, <1>3, <2>1, <2>2, <2>3, UpdateKeeps DEF ReportUpdate, Stored
  <1>4. CASE update[i].at = "publish"
    <2>1. Done \in Goroutine(UpdateAt) /\ Done.at = "done" /\ Done.limit = NoLimit
      BY NothingGranted DEF Done, Idle, Goroutine, UpdateAt
    <2>2. update' = [update EXCEPT ![i] = Done] /\ reported' = update[i].power
      BY <1>4 DEF ReportUpdate
    <2>3. Sound(Done, UpdateAt) /\ reported' \in Powers
      BY <1>1, <1>4, <2>1, <2>2, NothingGranted DEF Sound
    <2>4. QED
      BY <1>4, <2>1, <2>2, <2>3, UpdateKeeps DEF ReportUpdate, Stored
  <1>5. QED
    BY <1>3, <1>4 DEF ReportUpdate

\* An expiry's step that counts no generation.
LEMMA ExpiryKeeps ==
  ASSUME IInv, NEW g \in Writes, NEW r, Sound(r, ExpiryAt),
         expiry' = [expiry EXCEPT ![g] = r],
         pub' \in Limit, Granted(pub'), followed' \in [value : Int, active : BOOLEAN],
         Granted(followed'), limitTimer' \in {0, limitTimer}, reported' \in Powers,
         UNCHANGED <<writeVars, update, limitGen, guardVars>>
  PROVE  IInv'
  <1> USE DEF IInv
  <1>1. /\ \A k \in Writes : expiry'[k] = IF k = g THEN r ELSE expiry[k]
        /\ expiry' \in [Writes -> Goroutine(ExpiryAt)]
    BY DEF TypeOK, Sound, ExpiryAt
  <1>2. Allowed' = Allowed /\ Powers' = Powers /\ \A l : Granted(l)' <=> Granted(l)
    BY SameGrants DEF writeVars
  <1>3. TypeOK'
    <2>1. reported' \in Nat
      BY PowerJustified
    <2>2. limitTimer' \in 0 .. limitGen'
      BY DEF TypeOK
    <2>3. QED
      BY <1>1, <2>1, <2>2 DEF TypeOK, ExpiryAt, writeVars, guardVars
  <1>4. Counts'
    BY DEF Counts, Announced, OneGenerationEach, Stored, writeVars
  <1>5. Sources'
    <2>1. NoneNegative' /\ FailsafeKnown'
      BY DEF Sources, NoneNegative, FailsafeKnown, Fallbacks, writeVars, guardVars
    <2>2. LimitsGranted'
      <3>1. Granted(pub)' /\ Granted(followed)'
        BY <1>2 DEF Granted
      <3>2. \A k \in Writes : Granted(update[k].limit)' /\ Granted(expiry[k].limit)'
        BY <1>1, <1>2 DEF Sources, LimitsGranted, Sound, Granted
      <3>3. QED
        BY <3>1, <3>2 DEF LimitsGranted
    <2>3. PowersJustified'
      BY <1>1, <1>2 DEF Sources, PowersJustified, Sound, guardVars
    <2>4. QED
      BY <2>1, <2>2, <2>3 DEF Sources
  <1>6. QED
    BY <1>3, <1>4, <1>5

\* The parts of the invariant that an expiry's steps read.
LEMMA ExpiryFields == ASSUME IInv PROVE
    /\ expiry \in [Writes -> Goroutine(ExpiryAt)] /\ pub \in Limit /\ Granted(pub)
    /\ followed \in [value : Int, active : BOOLEAN] /\ Granted(followed)
    /\ reported \in Powers
  BY DEF IInv, TypeOK, ExpiryAt, Sources, LimitsGranted, PowersJustified

\* A timer that fires starts an expiry.
LEMMA FireKeeps == ASSUME IInv, NEW g \in Writes, Fire(g) PROVE IInv'
  <1> DEFINE r == IF g = limitGen THEN [expiry[g] EXCEPT !.at = "read"] ELSE Done
  <1>1. Sound(expiry[g], ExpiryAt) /\ expiry[g].at = "armed"
    BY GoroutinesSound DEF Fire
  <1>2. Done \in Goroutine(ExpiryAt) /\ Done.at = "done" /\ Done.limit = NoLimit
    BY NothingGranted DEF Done, Idle, Goroutine, ExpiryAt
  <1>3. CASE g = limitGen
    <2>1. r \in Goroutine(ExpiryAt) /\ r.at = "read" /\ r.limit = expiry[g].limit
      BY <1>1, <1>3 DEF Goroutine, ExpiryAt, Sound
    <2>2. Sound(r, ExpiryAt) /\ expiry' = [expiry EXCEPT ![g] = r]
      <3>1. expiry' = [expiry EXCEPT ![g] = r]
        BY ExpiryFields DEF Fire
      <3> HIDE DEF r
      <3>2. QED
        BY <1>1, <2>1, <3>1 DEF Sound
    <2> HIDE DEF r
    <2>3. QED
      BY <2>2, ExpiryKeeps, ExpiryFields DEF Fire
  <1>4. CASE g # limitGen
    <2>1. Sound(Done, ExpiryAt) /\ expiry' = [expiry EXCEPT ![g] = Done]
      BY <1>2, <1>4, NothingGranted, ExpiryFields DEF Sound, Fire
    <2>2. QED
      BY <2>1, ExpiryKeeps, ExpiryFields DEF Fire
  <1>5. QED
    BY <1>3, <1>4

\* The expiry takes the limit that is published when it reads it.
LEMMA ExpiryReadKeeps == ASSUME IInv, NEW g \in Writes, ExpiryRead(g) PROVE IInv'
  <1> DEFINE r == [expiry[g] EXCEPT !.at = "set", !.limit = pub]
  <1>1. r \in Goroutine(ExpiryAt) /\ r.at = "set" /\ r.limit = pub
    BY ExpiryFields DEF Goroutine, ExpiryAt
  <1>2. expiry' = [expiry EXCEPT ![g] = r]
    BY ExpiryFields DEF ExpiryRead
  <1> HIDE DEF r
  <1>3. Sound(r, ExpiryAt)
    BY <1>1, ExpiryFields DEF Sound
  <1>4. QED
    BY <1>2, <1>3, ExpiryKeeps, ExpiryFields DEF ExpiryRead

\* The expiry publishes the limit it read, deactivated.
LEMMA ExpirySetKeeps == ASSUME IInv, NEW g \in Writes, ExpirySet(g) PROVE IInv'
  <1> DEFINE r == [Idle EXCEPT !.at = "clear"]
  <1>1. r \in Goroutine(ExpiryAt) /\ r.at = "clear" /\ r.limit = NoLimit
    BY NothingGranted DEF Idle, Goroutine, ExpiryAt
  <1>2. expiry' = [expiry EXCEPT ![g] = r]
    BY DEF ExpirySet
  <1> HIDE DEF r
  <1>3. Sound(r, ExpiryAt)
    BY <1>1, NothingGranted DEF Sound
  <1>4. pub' \in Limit /\ Granted(pub')
    <2>1. expiry[g].limit \in Limit /\ Granted(expiry[g].limit)
      BY ExpiryFields DEF Goroutine, IInv, Sources, LimitsGranted
    <2>2. QED
      BY <2>1 DEF ExpirySet, Limit, Granted
  <1>5. QED
    BY <1>2, <1>3, <1>4, ExpiryKeeps, ExpiryFields DEF ExpirySet

\* The expiry deactivates whatever limit is followed by then.
LEMMA ExpiryClearKeeps == ASSUME IInv, NEW g \in Writes, ExpiryClear(g) PROVE IInv'
  <1> DEFINE r == [expiry[g] EXCEPT !.at = "report"]
  <1>1. Sound(expiry[g], ExpiryAt)
    BY GoroutinesSound
  <1>2. r \in Goroutine(ExpiryAt) /\ r.at = "report" /\ r.limit = expiry[g].limit
    BY ExpiryFields DEF Goroutine, ExpiryAt
  <1>3. expiry' = [expiry EXCEPT ![g] = r]
    BY ExpiryFields DEF ExpiryClear
  <1> HIDE DEF r
  <1>4. Sound(r, ExpiryAt)
    BY <1>1, <1>2 DEF Sound
  <1>5. followed' \in [value : Int, active : BOOLEAN] /\ Granted(followed')
    BY ExpiryFields DEF ExpiryClear, Granted
  <1>6. QED
    BY <1>3, <1>4, <1>5, ExpiryKeeps, ExpiryFields DEF ExpiryClear

\* After an expiry the power is computed, and then published.
LEMMA ReportExpiryKeeps == ASSUME IInv, NEW g \in Writes, ReportExpiry(g) PROVE IInv'
  <1>1. Sound(expiry[g], ExpiryAt)
    BY GoroutinesSound
  <1>2. Power \in Powers /\ Power \in Int
    BY PowerJustified DEF IInv
  <1>3. CASE expiry[g].at = "report"
    <2> DEFINE r == Reporting(expiry[g])
    <2>1. r \in Goroutine(ExpiryAt) /\ r.at = "publish" /\ r.limit = expiry[g].limit /\ r.power = Power
      BY <1>2, ExpiryFields DEF Goroutine, ExpiryAt, Reporting
    <2>2. expiry' = [expiry EXCEPT ![g] = r] /\ reported' = reported
      BY <1>3, ExpiryFields DEF ReportExpiry
    <2> HIDE DEF r
    <2>3. Sound(r, ExpiryAt)
      BY <1>1, <1>2, <2>1 DEF Sound
    <2>4. QED
      BY <2>2, <2>3, ExpiryKeeps, ExpiryFields DEF ReportExpiry
  <1>4. CASE expiry[g].at = "publish"
    <2>1. Done \in Goroutine(ExpiryAt) /\ Done.at = "done" /\ Done.limit = NoLimit
      BY NothingGranted DEF Done, Idle, Goroutine, ExpiryAt
    <2>2. expiry' = [expiry EXCEPT ![g] = Done] /\ reported' = expiry[g].power
      BY <1>4 DEF ReportExpiry
    <2>3. Sound(Done, ExpiryAt) /\ reported' \in Powers
      BY <1>1, <1>4, <2>1, <2>2, NothingGranted DEF Sound
    <2>4. QED
      BY <2>2, <2>3, ExpiryKeeps, ExpiryFields DEF ReportExpiry
  <1>5. QED
    BY <1>3, <1>4 DEF ReportExpiry

\* Storing an update counts one generation more, and no more than there are writes.
LEMMA StoreCounts ==
  ASSUME IInv, NEW i \in Writes, update[i].at = "store"
  PROVE  /\ limitGen + 1 \in Writes
         /\ limitGen + 1 = Cardinality(Stored \cup {i})
  <1>1. IsFiniteSet(Writes) /\ Cardinality(Writes) = MaxWrites
    <2>1. /\ IsFiniteSet(1 .. MaxWrites)
          /\ Cardinality(1 .. MaxWrites) = IF 1 > MaxWrites THEN 0 ELSE MaxWrites - 1 + 1
      BY FS_Interval, WritesAssumption, 1 \in Int, MaxWrites \in Int
    <2>2. QED
      BY <2>1, WritesAssumption DEF Writes
  <1>2. Stored \in SUBSET Writes /\ Stored \cup {i} \in SUBSET Writes /\ i \notin Stored
    BY DEF Stored
  <1>3. IsFiniteSet(Stored) /\ Cardinality(Stored \cup {i}) <= MaxWrites
    BY <1>1, <1>2, FS_Subset
  <1>4. Cardinality(Stored \cup {i}) = Cardinality(Stored) + 1
    BY <1>2, <1>3, FS_AddElement
  <1>5. limitGen = Cardinality(Stored) /\ limitGen \in Nat
    BY WritesAssumption DEF IInv, Counts, OneGenerationEach, TypeOK
  <1>6. QED
    BY <1>3, <1>4, <1>5, WritesAssumption DEF Writes

\* Stopping a timer leaves what the goroutines hold.
LEMMA StoppedKeeps ==
  ASSUME IInv
  PROVE  /\ Stopped \in [Writes -> Goroutine(ExpiryAt)]
         /\ \A k \in Writes : Sound(Stopped[k], ExpiryAt)
  <1>1. Done \in Goroutine(ExpiryAt) /\ Sound(Done, ExpiryAt)
    BY NothingGranted DEF Done, Idle, Goroutine, ExpiryAt, Sound
  <1>2. QED
    BY <1>1, ExpiryFields, GoroutinesSound DEF Stopped

\* Storing a limit stops the timer of the one before and may start one of its own.
LEMMA StoreKeeps == ASSUME IInv, NEW i \in Writes, Store(i) PROVE IInv'
  <1> DEFINE l == update[i].limit
             g == limitGen + 1
             t == l.active /\ l.timed
             r == [Idle EXCEPT !.at = "report"]
             e == [Stopped[g] EXCEPT !.at = "armed"]
  <1>1. /\ update[i].at = "store" /\ update' = [update EXCEPT ![i] = r]
        /\ followed' = [value |-> l.value, active |-> l.active] /\ limitGen' = g
        /\ limitTimer' = (IF t THEN g ELSE 0)
        /\ expiry' = (IF t THEN [Stopped EXCEPT ![g].at = "armed"] ELSE Stopped)
        /\ UNCHANGED <<writeVars, pub, guardVars, reported>>
    BY DEF Store, StoreAs
  <1>2. g \in Writes /\ g = Cardinality(Stored \cup {i})
    BY <1>1, StoreCounts
  <1>3. l \in Limit /\ Granted(l)
    BY DEF IInv, TypeOK, Goroutine, Sources, LimitsGranted
  <1>4. r \in Goroutine(UpdateAt) /\ r.at = "report" /\ r.limit = NoLimit
    BY NothingGranted DEF Idle, Goroutine, UpdateAt
  <1>5. Sound(r, UpdateAt)
    BY <1>4, NothingGranted DEF Sound
  <1>6. e \in Goroutine(ExpiryAt) /\ e.at = "armed" /\ e.limit = Stopped[g].limit
    <2>1. Stopped[g] \in Goroutine(ExpiryAt)
      BY <1>2, StoppedKeeps
    <2>2. QED
      BY <2>1 DEF Goroutine, ExpiryAt
  <1>7. Sound(e, ExpiryAt)
    <2>1. Granted(Stopped[g].limit)
      BY <1>2, StoppedKeeps DEF Sound
    <2>2. QED
      BY <1>6, <2>1 DEF Sound
  <1>8. /\ expiry' \in [Writes -> Goroutine(ExpiryAt)]
        /\ \A k \in Writes : Sound(expiry'[k], ExpiryAt)
    <2>1. CASE t
      <3>1. expiry' = [Stopped EXCEPT ![g] = e]
        BY <1>1, <2>1, StoppedKeeps
      <3> HIDE DEF e
      <3>2. QED
        BY <1>2, <1>6, <1>7, <3>1, StoppedKeeps
    <2>2. CASE ~t
      BY <1>1, <2>2, StoppedKeeps
    <2>3. QED
      BY <2>1, <2>2
  <1> HIDE DEF r, e
  <1>9. /\ \A k \in Writes : update'[k] = IF k = i THEN r ELSE update[k]
        /\ update' \in [Writes -> Goroutine(UpdateAt)]
    BY <1>1, <1>4 DEF IInv, TypeOK, UpdateAt
  <1>10. Allowed' = Allowed /\ Powers' = Powers /\ \A x : Granted(x)' <=> Granted(x)
    BY <1>1, SameGrants DEF writeVars
  <1> USE DEF IInv
  <1>11. TypeOK'
    <2>1. followed' \in [value : Int, active : BOOLEAN]
      BY <1>1, <1>3 DEF Limit
    <2>2. limitGen' \in 0 .. MaxWrites /\ limitTimer' \in 0 .. limitGen'
      BY <1>1, <1>2, WritesAssumption DEF Writes
    <2>3. QED
      BY <1>1, <1>8, <1>9, <2>1, <2>2 DEF TypeOK, ExpiryAt, UpdateAt, writeVars, guardVars
  <1>12. Counts'
    <2>1. Announced'
      BY <1>1, <1>4, <1>9 DEF Counts, Announced, writeVars
    <2>2. Stored' = Stored \cup {i}
      BY <1>4, <1>9 DEF Stored
    <2>3. QED
      BY <1>1, <1>2, <2>1, <2>2 DEF Counts, OneGenerationEach
  <1>13. Sources'
    <2>1. NoneNegative' /\ FailsafeKnown'
      BY <1>1 DEF Sources, NoneNegative, FailsafeKnown, Fallbacks, writeVars, guardVars
    <2>2. LimitsGranted'
      <3>1. Granted(pub)' /\ Granted(followed)'
        BY <1>1, <1>3, <1>10 DEF Sources, LimitsGranted, Granted
      <3>2. \A k \in Writes : Granted(update[k].limit)' /\ Granted(expiry[k].limit)'
        BY <1>5, <1>8, <1>9, <1>10 DEF Sources, LimitsGranted, Sound
      <3>3. QED
        BY <3>1, <3>2 DEF LimitsGranted
    <2>3. PowersJustified'
      BY <1>1, <1>4, <1>8, <1>9, <1>10 DEF Sources, PowersJustified, Sound, guardVars
    <2>4. QED
      BY <2>1, <2>2, <2>3 DEF Sources
  <1>14. QED
    BY <1>11, <1>12, <1>13

-----------------------------------------------------------------------------
(* The guard and the clock *)

\* Steps of the guard and the clock leave the writes and the timers alone.
LEMMA GuardKeeps ==
  ASSUME IInv,
         guard' \in {"never", "here", "gone"}, failsafe' \in BOOLEAN,
         failsafeW' \in {failsafeW, pubFailsafe}, pubFailsafe' \in Fallbacks,
         clock' \in Goroutine({"none", "decide", "report", "publish"}),
         failsafe' \/ clock'.at = "decide" => failsafeW' \in Fallbacks,
         clock'.at = "publish" => clock'.power \in Powers,
         reported' \in Powers,
         UNCHANGED <<writeVars, pub, update, followed, timerVars>>
  PROVE  IInv'
  <1> USE DEF IInv
  <1>1. Allowed' = Allowed /\ Powers' = Powers /\ \A l : Granted(l)' <=> Granted(l)
    BY SameGrants DEF writeVars
  <1>2. TypeOK'
    <2>1. Fallbacks \subseteq Nat
      BY LimitsAssumption, BaselineAssumption DEF Fallbacks
    <2>2. reported' \in Nat
      BY PowerJustified
    <2>3. failsafeW' \in Nat /\ pubFailsafe' \in Nat
      BY <2>1 DEF TypeOK
    <2>4. QED
      BY <2>2, <2>3 DEF TypeOK, writeVars, timerVars
  <1>3. Counts'
    BY DEF Counts, Announced, OneGenerationEach, Stored, writeVars, timerVars
  <1>4. Sources'
    <2>1. NoneNegative' /\ FailsafeKnown'
      BY DEF Sources, NoneNegative, FailsafeKnown, Fallbacks, writeVars
    <2>2. LimitsGranted'
      BY <1>1 DEF Sources, LimitsGranted, timerVars
    <2>3. PowersJustified'
      BY <1>1 DEF Sources, PowersJustified, timerVars
    <2>4. QED
      BY <2>1, <2>2, <2>3 DEF Sources
  <1>5. QED
    BY <1>2, <1>3, <1>4

\* The parts of the invariant that the guard's and the clock's steps read.
LEMMA GuardFields == ASSUME IInv PROVE
    /\ guard \in {"never", "here", "gone"} /\ failsafe \in BOOLEAN /\ pubFailsafe \in Fallbacks
    /\ clock \in Goroutine({"none", "decide", "report", "publish"})
    /\ failsafe \/ clock.at = "decide" => failsafeW \in Fallbacks
    /\ clock.at = "publish" => clock.power \in Powers
    /\ reported \in Powers
  BY DEF IInv, TypeOK, Sources, FailsafeKnown, PowersJustified

\* The guard is heard, or falls silent.
LEMMA HeartbeatKeeps == ASSUME IInv, GuardHeartbeat \/ GuardSilent PROVE IInv'
  BY GuardKeeps, GuardFields DEF GuardHeartbeat, GuardSilent

\* A failsafe value that is written is published at once.
LEMMA WriteFailsafeKeeps == ASSUME IInv, NEW v \in Failsafes, WriteFailsafe(v) PROVE IInv'
  <1>1. pubFailsafe' \in Fallbacks
    BY DEF WriteFailsafe, Fallbacks
  <1>2. QED
    BY <1>1, GuardKeeps, GuardFields DEF WriteFailsafe

\* The clock ticks: the failsafe begins or ends, and the power is published.
LEMMA TickKeeps == ASSUME IInv, Tick PROVE IInv'
  <1> DEFINE ClockAt == {"none", "decide", "report", "publish"}
  <1>1. CASE TickLimit
    <2>1. clock' \in Goroutine(ClockAt) /\ clock'.at = "decide"
      BY <1>1, GuardFields DEF TickLimit, Goroutine
    <2>2. QED
      BY <1>1, <2>1, GuardKeeps, GuardFields DEF TickLimit
  <1>2. CASE TickDecide
    <2>1. failsafe' \in BOOLEAN
      BY <1>2, Zenon DEF TickDecide
    <2>2. clock' \in Goroutine(ClockAt) /\ clock'.at \in {"none", "report"}
      BY <1>2, GuardFields DEF TickDecide, Goroutine
    <2>3. failsafeW \in Fallbacks
      BY <1>2, GuardFields DEF TickDecide
    <2>4. QED
      BY <1>2, <2>1, <2>2, <2>3, GuardKeeps, GuardFields DEF TickDecide
  <1>3. CASE TickReport /\ clock.at = "report"
    <2>1. Power \in Powers /\ Power \in Int
      BY PowerJustified DEF IInv
    <2>2. clock' \in Goroutine(ClockAt) /\ clock'.at = "publish" /\ clock'.power = Power
      BY <1>3, <2>1, GuardFields DEF TickReport, Reporting, Goroutine
    <2>3. QED
      BY <1>3, <2>1, <2>2, GuardKeeps, GuardFields DEF TickReport
  <1>4. CASE TickReport /\ clock.at = "publish"
    <2>1. clock' \in Goroutine(ClockAt) /\ clock'.at = "none"
      BY <1>4, NothingGranted DEF TickReport, Idle, Goroutine
    <2>2. QED
      BY <1>4, <2>1, GuardKeeps, GuardFields DEF TickReport
  <1>5. QED
    BY <1>1, <1>2, <1>3, <1>4 DEF Tick, TickReport

\* Every step of the station keeps the invariant.
LEMMA StepKeeps == IInv /\ [Next]_vars => IInv'
  <1> SUFFICES ASSUME IInv, [Next]_vars PROVE IInv'
    OBVIOUS
  <1>1. ASSUME NEW l \in Limits, Write(l) PROVE IInv'
    BY <1>1, WriteKeeps
  <1>2. ASSUME NEW i \in Writes, Approving(i) PROVE IInv'
    BY <1>2, ReadGuardKeeps, ListPendingKeeps, DecideKeeps DEF Approving
  <1>3. ASSUME NEW i \in Writes, Updating(i) PROVE IInv'
    BY <1>3, ReadLimitKeeps, StoreKeeps, ReportUpdateKeeps DEF Updating
  <1>4. ASSUME NEW g \in Writes, Expiring(g) PROVE IInv'
    BY <1>4, FireKeeps, ExpiryReadKeeps, ExpirySetKeeps, ExpiryClearKeeps, ReportExpiryKeeps DEF Expiring
  <1>5. CASE GuardHeartbeat \/ GuardSilent \/ Tick
    BY <1>5, HeartbeatKeeps, TickKeeps
  <1>6. ASSUME NEW v \in Failsafes, WriteFailsafe(v) PROVE IInv'
    BY <1>6, WriteFailsafeKeeps
  <1>7. CASE UNCHANGED vars
    BY <1>7 DEF vars, writeVars, timerVars, guardVars, IInv, TypeOK, Counts, Announced, OneGenerationEach,
        Stored, Sources, NoneNegative, LimitsGranted, Granted, Allowed, FailsafeKnown, Fallbacks,
        PowersJustified, Powers
  <1>8. QED
    BY <1>1, <1>2, <1>3, <1>4, <1>5, <1>6, <1>7 DEF Next

\* The invariant holds of the station at every moment.
LEMMA Invariance == Spec => []IInv
  BY InitHolds, StepKeeps, PTL DEF Spec

-----------------------------------------------------------------------------

\* Every variable keeps its range: in particular no write is pending and approved,
\* there are no more generations than writes, and no power below zero is reported.
THEOREM TypeCorrect == Spec => []TypeOK
  <1>1. IInv => TypeOK
    BY DEF IInv
  <1>2. QED
    BY <1>1, Invariance, PTL

\* What the station publishes and follows comes from writes it approved, and the
\* power it reports from such a limit, a failsafe value it was given, or its own
\* draw, however approvals, updates, expiries and the clock overlap.
THEOREM RefusedHasNoEffect == Spec => []OnlyApprovedCounts
  <1>1. IInv => OnlyApprovedCounts
    BY DEF IInv, Sources, LimitsGranted, Granted, PowersJustified, Powers, Fallbacks, OnlyApprovedCounts
  <1>2. QED
    BY <1>1, Invariance, PTL

-----------------------------------------------------------------------------
(* The timer of the limit that is followed *)

\* The timers belong to generations that were counted, and the expiry of the
\* latest one is not over while its limit is followed.
Ended == {"report", "publish", "done"}
ExpiryAhead == \A g \in Writes :
    /\ g > limitGen => expiry[g].at = "none"
    /\ g = limitGen /\ followed.active => expiry[g].at \notin Ended

\* A limit that is stored with a duration has its own timer, not over yet.
LEMMA StoreAhead == ASSUME IInv, ExpiryAhead, NEW i \in Writes, Store(i) PROVE ExpiryAhead'
  <1> DEFINE n == limitGen + 1
             t == update[i].limit.active /\ update[i].limit.timed
  <1>1. /\ limitGen' = n
        /\ expiry' = (IF t THEN [Stopped EXCEPT ![n].at = "armed"] ELSE Stopped)
    BY DEF Store, StoreAs
  <1>2. /\ n \in Writes /\ limitGen \in Nat
        /\ Stopped \in [Writes -> Goroutine(ExpiryAt)]
    <2>1. update[i].at = "store"
      BY DEF Store, StoreAs
    <2>2. limitGen \in 0 .. MaxWrites
      BY DEF IInv, TypeOK
    <2>3. limitGen \in Nat
      BY <2>2
    <2>4. n \in Writes
      BY <2>1, StoreCounts
    <2>5. QED
      BY <2>3, <2>4, StoppedKeeps
  <1>3. \A g \in Writes : g >= n => Stopped[g].at = "none"
    <2>1. \A g \in Writes : g >= n => expiry[g].at = "none"
      BY <1>2 DEF ExpiryAhead, Writes
    <2>2. QED
      BY <2>1, ExpiryFields DEF Stopped, Goroutine
  <1>4. \A g \in Writes : /\ g > n => expiry'[g].at = "none"
                          /\ g = n => expiry'[g].at \in {"none", "armed"}
    <2>1. CASE t
      <3>1. expiry' = [Stopped EXCEPT ![n].at = "armed"]
        BY <1>1, <2>1
      <3>2. expiry'[n].at = "armed" /\ \A g \in Writes : g # n => expiry'[g] = Stopped[g]
        BY <1>2, <3>1 DEF Goroutine
      <3>3. QED
        BY <1>2, <1>3, <3>2 DEF Writes
    <2>2. CASE ~t
      BY <1>1, <1>2, <1>3, <2>2 DEF Writes
    <2>3. QED
      BY <2>1, <2>2
  <1>5. QED
    BY <1>1, <1>2, <1>4 DEF ExpiryAhead, Ended

\* An expiry that is over has deactivated the limit of the latest generation.
LEMMA ExpiringAhead == ASSUME IInv, ExpiryAhead, NEW g \in Writes, Expiring(g) PROVE ExpiryAhead'
  <1>1. /\ expiry[g].at # "none" /\ limitGen' = limitGen
        /\ \A k \in Writes : k # g => expiry'[k] = expiry[k]
    BY ExpiryFields DEF Expiring, Fire, ExpiryRead, ExpirySet, ExpiryClear, ReportExpiry
  <1>2. followed'.active => followed.active
    BY ExpiryFields DEF Expiring, Fire, ExpiryRead, ExpirySet, ExpiryClear, ReportExpiry
  <1>3. g = limitGen /\ followed'.active => expiry'[g].at \notin Ended
    <2>1. CASE Fire(g)
      BY <2>1, ExpiryFields DEF Fire, Goroutine, Ended
    <2>2. CASE ExpiryRead(g) \/ ExpirySet(g)
      BY <2>2, ExpiryFields DEF ExpiryRead, ExpirySet, Idle, Goroutine, Ended
    <2>3. CASE ExpiryClear(g)
      BY <2>3, ExpiryFields DEF ExpiryClear
    <2>4. CASE ReportExpiry(g)
      <3>1. expiry[g].at \in Ended
        BY <2>4 DEF ReportExpiry, Ended
      <3>2. QED
        BY <1>2, <3>1 DEF ExpiryAhead
    <2>5. QED
      BY <2>1, <2>2, <2>3, <2>4 DEF Expiring
  <1>4. QED
    BY <1>1, <1>2, <1>3 DEF ExpiryAhead

\* Every step leaves the followed limit with an expiry still to come.
LEMMA StepAhead == IInv /\ ExpiryAhead /\ [Next]_vars => ExpiryAhead'
  <1> SUFFICES ASSUME IInv, ExpiryAhead, [Next]_vars PROVE ExpiryAhead'
    OBVIOUS
  <1>1. CASE \E i \in Writes : Store(i)
    BY <1>1, StoreAhead
  <1>2. CASE \E g \in Writes : Expiring(g)
    BY <1>2, ExpiringAhead
  <1>3. CASE UNCHANGED <<expiry, followed, limitGen>>
    BY <1>3 DEF ExpiryAhead
  <1>4. QED
    <2>1. ASSUME NEW l \in Limits, Write(l) PROVE UNCHANGED <<expiry, followed, limitGen>>
      BY <2>1 DEF Write, timerVars
    <2>2. ASSUME NEW i \in Writes, Approving(i) PROVE UNCHANGED <<expiry, followed, limitGen>>
      BY <2>2 DEF Approving, ReadGuard, ListPending, Decide, DecideAs, timerVars
    <2>3. ASSUME NEW i \in Writes, ReadLimit(i) \/ ReportUpdate(i)
          PROVE  UNCHANGED <<expiry, followed, limitGen>>
      BY <2>3 DEF ReadLimit, ReportUpdate, timerVars
    <2>4. ASSUME GuardHeartbeat \/ GuardSilent \/ (\E v \in Failsafes : WriteFailsafe(v))
          PROVE  UNCHANGED <<expiry, followed, limitGen>>
      BY <2>4 DEF GuardHeartbeat, GuardSilent, WriteFailsafe, timerVars
    <2>5. ASSUME Tick PROVE UNCHANGED <<expiry, followed, limitGen>>
      BY <2>5 DEF Tick, TickLimit, TickDecide, TickReport, timerVars
    <2>6. ASSUME UNCHANGED vars PROVE UNCHANGED <<expiry, followed, limitGen>>
      BY <2>6 DEF vars, timerVars
    <2>7. QED
      BY <1>1, <1>2, <1>3, <2>1, <2>2, <2>3, <2>4, <2>5, <2>6 DEF Next, Updating

\* The safety behind TimedLimitEnds: a limit that was stored with a duration is
\* never followed without its expiry still to come, whatever older expiries did to
\* the timer the station holds (expireLimit clears it for any generation).
THEOREM FollowedLimitHasTimer == Spec => []TimerStillAhead
  <1>1. Init => ExpiryAhead
    BY DEF Init, ExpiryAhead, Idle
  <1>2. IInv /\ ExpiryAhead => TimerStillAhead
    BY ExpiryFields DEF ExpiryAhead, Ended, ExpiryAt, Goroutine, TimerStillAhead
  <1>3. QED
    BY <1>1, <1>2, StepAhead, Invariance, PTL DEF Spec

-----------------------------------------------------------------------------
(* The handler of a pending write *)

\* A handler that goes on from write to write leaves none behind: its own write is
\* among those it listed until some handler decided it.
LEMMA HandlersKeepPending ==
  ASSUME IInv, PendingHasHandler, NEW i \in Writes, Approving(i)
  PROVE  PendingHasHandler'
  <1>1. /\ approver \in [Writes -> Approver] /\ pending \subseteq Writes
        /\ \A k \in pending : \/ approver[k].at \in {"guard", "list"}
                              \/ approver[k].at = "loop" /\ k \in approver[k].todo
    BY WritesAssumption DEF IInv, TypeOK, Writes, Approver, PendingHasHandler
  <1>2. CASE ReadGuard(i)
    <2>1. pending' = pending /\ approver'[i].at = "list"
      BY <1>1, <1>2 DEF ReadGuard, Approver
    <2>2. \A k \in Writes : k # i => approver'[k] = approver[k]
      BY <1>1, <1>2 DEF ReadGuard
    <2>3. QED
      BY <1>1, <2>1, <2>2 DEF PendingHasHandler
  <1>3. CASE ListPending(i)
    <2>1. pending' = pending /\ approver'[i] = Loop(approver[i].noGuard, pending)
      BY <1>1, <1>3 DEF ListPending
    <2>2. \A k \in Writes : k # i => approver'[k] = approver[k]
      BY <1>1, <1>3 DEF ListPending
    <2>3. i \in pending => approver'[i].at = "loop" /\ i \in approver'[i].todo
      BY <2>1 DEF Loop
    <2>4. QED
      BY <1>1, <2>1, <2>2, <2>3 DEF PendingHasHandler
  <1>4. ASSUME NEW j \in Writes, Decide(i, j) PROVE PendingHasHandler'
    <2>1. /\ approver[i].at = "loop" /\ approver'[i] = Loop(approver[i].noGuard, approver[i].todo \ {j})
          /\ pending' = pending \ {j}
      BY <1>1, <1>4 DEF Decide, DecideAs
    <2>2. \A k \in Writes : k # i => approver'[k] = approver[k]
      BY <1>1, <1>4 DEF Decide, DecideAs
    <2>3. i \in pending' => approver'[i].at = "loop" /\ i \in approver'[i].todo
      <3>1. i \in pending' => i \in approver[i].todo \ {j}
        BY <1>1, <2>1
      <3>2. QED
        BY <2>1, <3>1 DEF Loop
    <2>4. QED
      BY <1>1, <2>1, <2>2, <2>3 DEF PendingHasHandler
  <1>5. QED
    BY <1>2, <1>3, <1>4 DEF Approving

\* A write brings its own handler.
LEMMA WriteHasHandler ==
  ASSUME IInv, PendingHasHandler, NEW l \in Limits, Write(l)
  PROVE  PendingHasHandler'
  <1> DEFINE n == Len(written) + 1
  <1>1. /\ approver \in [Writes -> Approver] /\ n \in Writes /\ pending \subseteq Writes /\ n \notin pending
    BY WritesAssumption DEF IInv, TypeOK, Writes, Approver, Write
  <1>2. pending' = pending \cup {n} /\ approver' = [approver EXCEPT ![n].at = "guard"]
    BY DEF Write
  <1> HIDE DEF n
  <1>3. approver'[n].at = "guard" /\ \A k \in Writes : k # n => approver'[k] = approver[k]
    BY <1>1, <1>2 DEF Approver
  <1>4. QED
    BY <1>1, <1>2, <1>3 DEF PendingHasHandler

\* Every step leaves a pending write to its handler.
LEMMA StepHandled == IInv /\ PendingHasHandler /\ [Next]_vars => PendingHasHandler'
  <1> SUFFICES ASSUME IInv, PendingHasHandler, [Next]_vars PROVE PendingHasHandler'
    OBVIOUS
  <1>1. CASE \E l \in Limits : Write(l)
    BY <1>1, WriteHasHandler
  <1>2. CASE \E i \in Writes : Approving(i)
    BY <1>2, HandlersKeepPending
  <1>3. CASE UNCHANGED <<pending, approver>>
    BY <1>3 DEF PendingHasHandler
  <1>4. ASSUME NEW i \in Writes, Updating(i) \/ Expiring(i) PROVE UNCHANGED <<pending, approver>>
    BY <1>4 DEF Updating, ReadLimit, Store, StoreAs, ReportUpdate, Expiring, Fire, ExpiryRead,
                ExpirySet, ExpiryClear, ReportExpiry, writeVars
  <1>5. ASSUME GuardHeartbeat \/ GuardSilent \/ (\E v \in Failsafes : WriteFailsafe(v)) \/ Tick
        PROVE  UNCHANGED <<pending, approver>>
    BY <1>5 DEF GuardHeartbeat, GuardSilent, WriteFailsafe, Tick, TickLimit, TickDecide, TickReport,
                writeVars
  <1>6. ASSUME UNCHANGED vars PROVE UNCHANGED <<pending, approver>>
    BY <1>6 DEF vars, writeVars
  <1>7. QED
    BY <1>1, <1>2, <1>3, <1>4, <1>5, <1>6 DEF Next

\* The safety behind EveryWriteDecided: whichever handler decides first, none ends
\* before its own write was decided, for any number of writes that arrive while
\* others are being decided (onLPCEvent decides every pending write it listed).
THEOREM PendingIsHandled == Spec => []PendingHasHandler
  <1>1. Init => PendingHasHandler
    BY DEF Init, PendingHasHandler
  <1>2. QED
    BY <1>1, StepHandled, Invariance, PTL DEF Spec
=============================================================================
