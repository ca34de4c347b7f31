--------------------------- MODULE HeartbeatProofs ---------------------------
(* Proofs that the heartbeat has one sender at a time, for any number of     *)
(* senders and manager loops and any requests.                               *)
EXTENDS Heartbeat, TLAPS

\* What the proofs need to know of the numbers.
LEMMA Bounds ==
    /\ Second \in Nat /\ Second > 0 /\ MaxPeriod \in Nat
    /\ MaxSenders \in Nat /\ MaxLoops \in Nat /\ MaxLoops > 0
  BY ConstantsOK DEF ConstantsOK

\* The default rule gives the manager's own timeout an interval in range.
LEMMA DefaultCadence ==
    /\ defaultInterval(DefaultTimeout) \in Second..MaxPeriod
    /\ DefaultTimeout \in Second..MaxPeriod
  BY ConstantsOK DEF ConstantsOK, defaultInterval

\* The inductive invariant: the types, one entitled sender, and that sender's
\* timeout, which SetCadence keeps only because it replaces every sender.
IInv == TypeOK /\ OneSender /\ SenderKeepsCadence

LEMMA InitInv == Init => IInv
<1> SUFFICES ASSUME Init PROVE IInv
  OBVIOUS
<1> USE Bounds, DefaultCadence DEF Init
<1>1. TypeOK
  <2>1. cadence \in Cadence
    BY DEF Cadence
  <2>2. sender \in [Senders -> SenderPC] /\ announced \in [Senders -> Second..MaxPeriod]
    BY DEF SenderPC
  <2>3. loop \in [Loops -> LoopPC] /\ taken \in [Loops -> Nat]
    BY DEF LoopPC
  <2>4. channel \in Loops
    BY DEF Loops
  <2>5. data \in [counter : Nat, timeout : Second..MaxPeriod, by : 0..MaxSenders]
    OBVIOUS
  <2> QED
    BY <2>1, <2>2, <2>3, <2>4, <2>5 DEF TypeOK
<1>2. OneSender
  BY DEF OneSender, Senders, Loops
<1>3. SenderKeepsCadence
  BY DEF SenderKeepsCadence
<1> QED
  BY <1>1, <1>2, <1>3 DEF IInv

\* Starting a sender: it is the only one whose channel is open.
LEMMA StartLockedInv ==
    ASSUME TypeOK, OneSender, NEW c \in Cadence, StartLocked(c)
    PROVE  /\ sender' \in [Senders -> SenderPC]
           /\ announced' \in [Senders -> Second..MaxPeriod]
           /\ started' \in 0..MaxSenders /\ stop' \in 0..MaxSenders
           /\ announced'[stop'] = c.timeout
           /\ stop' = started' /\ stop' # 0
           /\ \A i \in Senders : /\ i <= started' <=> sender'[i] # "none"
                                 /\ i <= started' /\ i # stop' <=>
                                      i \in closed \/ i = stop
<1> USE Bounds DEF StartLocked, Senders
<1>1. started + 1 \in Senders /\ started \in Nat
  BY DEF TypeOK
<1>2. sender' \in [Senders -> SenderPC]
  BY <1>1 DEF TypeOK, SenderPC
<1>3. announced' \in [Senders -> Second..MaxPeriod] /\ announced'[stop'] = c.timeout
  BY <1>1 DEF TypeOK, Cadence
<1>4. \A i \in Senders : /\ i <= started' <=> sender'[i] # "none"
                         /\ i <= started' /\ i # stop' <=> i \in closed \/ i = stop
  BY <1>1 DEF TypeOK, OneSender
<1> QED
  BY <1>1, <1>2, <1>3, <1>4

LEMMA StartManagerInv == IInv /\ StartManager => IInv'
<1> SUFFICES ASSUME IInv, StartManager PROVE IInv'
  OBVIOUS
<1> USE Bounds DEF IInv, StartManager, pacedVars, Loops
<1>1. TypeOK'
  <2>1. (loop \in [Loops -> LoopPC])'
    BY DEF TypeOK, LoopPC
  <2>2. (channel \in Loops)' /\ (mgrClosed \in SUBSET Loops)'
    BY DEF TypeOK
  <2> QED
    BY <2>1, <2>2 DEF TypeOK
<1>2. OneSender'
  BY DEF TypeOK, OneSender
<1>3. SenderKeepsCadence'
  BY DEF SenderKeepsCadence
<1> QED
  BY <1>1, <1>2, <1>3

LEMMA StartPacedInv == IInv /\ StartPaced => IInv'
<1> SUFFICES ASSUME IInv, StartPaced PROVE IInv'
  OBVIOUS
<1> USE DEF IInv, StartPaced, managerVars
<1>1. cadence \in Cadence
  BY DEF TypeOK
<1>2. TypeOK'
  BY <1>1, StartLockedInv DEF TypeOK
<1>3. OneSender'
  BY <1>1, StartLockedInv, Bounds DEF TypeOK, OneSender, Senders
<1>4. SenderKeepsCadence'
  BY <1>1, StartLockedInv DEF SenderKeepsCadence
<1> QED
  BY <1>2, <1>3, <1>4

LEMMA StopInv == IInv /\ Stop => IInv'
<1> SUFFICES ASSUME IInv, Stop PROVE IInv'
  OBVIOUS
<1> USE DEF IInv, Stop, StopLocked, pacedVars, managerVars
<1>1. CASE paced
  <2>1. TypeOK'
    <3>1. stop # 0 => stop \in Senders
      BY Bounds DEF TypeOK, Senders
    <3>2. closed' \subseteq Senders
      BY <1>1, <3>1 DEF TypeOK
    <3>3. stop' \in 0..MaxSenders
      BY <1>1, Bounds
    <3> QED
      BY <1>1, <3>2, <3>3 DEF TypeOK
  <2>2. \A i \in Senders : i <= started /\ i # stop' <=> i \in closed'
    BY <1>1, Bounds DEF TypeOK, OneSender, Senders
  <2>3. OneSender'
    BY <1>1, <2>2 DEF OneSender
  <2>4. SenderKeepsCadence'
    BY <1>1 DEF SenderKeepsCadence
  <2> QED
    BY <2>1, <2>3, <2>4
<1>2. CASE ~paced
  <2>1. TypeOK'
    BY <1>2 DEF TypeOK
  <2>2. OneSender'
    BY <1>2 DEF TypeOK, OneSender
  <2>3. SenderKeepsCadence'
    BY <1>2 DEF SenderKeepsCadence
  <2> QED
    BY <2>1, <2>2, <2>3
<1> QED
  BY <1>1, <1>2

\* SetCadence: the sender it starts is the only one, and it takes its timeout
\* from the cadence just set.
LEMMA SetCadenceInv ==
    ASSUME IInv, NEW r \in Requests, SetCadence(r)
    PROVE  IInv'
<1> USE Bounds DEF IInv, SetCadence, TakeOver, StopLocked
<1>1. Asked(r) \in Cadence
  BY DEF Accepted
<1>2. (mgrClosed \in SUBSET Loops)' /\ (closed \in SUBSET Senders)'
  BY DEF TypeOK, Senders
<1>3. \A i \in Loops : i < channel \/ i = channel => i \in mgrClosed'
  BY DEF TypeOK, OneSender
<1>4. CASE stop' = 0 /\ UNCHANGED <<sender, announced, started>>
  <2>1. TypeOK'
    BY <1>1, <1>2, <1>4 DEF TypeOK
  <2>2. OneSender'
    BY <1>3, <1>4 DEF TypeOK, OneSender, Senders
  <2>3. SenderKeepsCadence'
    BY <1>4 DEF SenderKeepsCadence
  <2> QED
    BY <2>1, <2>2, <2>3
<1>5. CASE StartLocked(Asked(r))
  <2>1. TypeOK'
    BY <1>1, <1>2, <1>5, StartLockedInv DEF TypeOK
  <2>2. stop' = started' /\ stop' # 0 /\ data.by <= started'
    BY <1>1, <1>5, StartLockedInv DEF TypeOK, OneSender, StartLocked
  <2>3. \A i \in Senders : /\ i <= started' <=> sender'[i] # "none"
                           /\ i <= started' /\ i # stop' <=> i \in closed'
    BY <1>1, <1>5, StartLockedInv DEF Senders
  <2>4. OneSender'
    BY <1>3, <2>2, <2>3 DEF OneSender
  <2>5. SenderKeepsCadence'
    BY <1>1, <1>5, StartLockedInv DEF SenderKeepsCadence
  <2> QED
    BY <2>1, <2>4, <2>5
<1> QED
  BY <1>4, <1>5

\* A step of a sender goroutine.
LEMMA SenderInv ==
    ASSUME IInv, NEW i \in Senders, Publish(i) \/ Tick(i) \/ Return(i)
    PROVE  IInv'
<1> USE DEF IInv, Publish, Send, Tick, Return, managerVars
<1>1. TypeOK'
  <2>1. (sender \in [Senders -> SenderPC])'
    BY DEF TypeOK, SenderPC
  <2>2. (data \in [counter : Nat, timeout : Second..MaxPeriod, by : 0..MaxSenders])'
    BY Bounds DEF TypeOK, Senders
  <2> QED
    BY <2>1, <2>2 DEF TypeOK
<1>2. (data.by <= started)'
  BY Bounds DEF TypeOK, OneSender, Senders
<1>3. \A j \in Senders : sender'[j] = "none" <=> sender[j] = "none"
  BY DEF TypeOK
<1>4. OneSender'
  BY <1>2, <1>3 DEF OneSender
<1>5. SenderKeepsCadence'
  BY DEF SenderKeepsCadence
<1> QED
  BY <1>1, <1>4, <1>5

\* A step of a loop of the manager.
LEMMA LoopInv ==
    ASSUME IInv, NEW i \in Loops,
           LoopFirst(i) \/ LoopTick(i) \/ LoopPublish(i) \/ LoopReturn(i)
    PROVE  IInv'
<1> USE DEF IInv, LoopFirst, LoopTick, LoopPublish, LoopReturn, pacedVars
<1>1. TypeOK'
  <2>1. (loop \in [Loops -> LoopPC])'
    BY DEF TypeOK, LoopPC
  <2>2. (taken \in [Loops -> Nat])' /\ (heartBeatNum \in Nat)'
    BY DEF TypeOK
  <2>3. (data \in [counter : Nat, timeout : Second..MaxPeriod, by : 0..MaxSenders])'
    BY Bounds, DefaultCadence DEF TypeOK
  <2> QED
    BY <2>1, <2>2, <2>3 DEF TypeOK
<1>2. (data.by <= started)'
  BY Bounds DEF TypeOK, OneSender
<1>3. \A j \in Loops : loop'[j] = "none" <=> loop[j] = "none"
  BY DEF TypeOK
<1>4. OneSender'
  BY <1>2, <1>3 DEF OneSender
<1>5. SenderKeepsCadence'
  BY DEF SenderKeepsCadence
<1> QED
  BY <1>1, <1>4, <1>5

LEMMA StepInv == IInv /\ [Next]_vars => IInv'
<1> SUFFICES ASSUME IInv, [Next]_vars PROVE IInv'
  OBVIOUS
<1>1. CASE UNCHANGED vars
  BY <1>1 DEF vars, IInv, TypeOK, OneSender, SenderKeepsCadence
<1> QED
  BY <1>1, StartManagerInv, StartPacedInv, StopInv, SetCadenceInv, SenderInv, LoopInv DEF Next

\* The inductive invariant holds throughout: types, one sender, its timeout.
THEOREM Invariant == Spec => []IInv
  BY InitInv, StepInv, PTL DEF Spec

\* Type correctness of the heartbeat, for every value of the constants.
THEOREM TypeCorrect == Spec => []TypeOK
<1>1. IInv => TypeOK
  BY DEF IInv
<1> QED
  BY <1>1, Invariant, PTL

\* However Start, Stop and SetCadence interleave with the goroutines, every
\* sender but the current one has been told to stop, the manager's included.
THEOREM OneSenderAtATime == Spec => []OneSender
<1>1. IInv => OneSender
  BY DEF IInv
<1> QED
  BY <1>1, Invariant, PTL

\* The current sender announces the cadence in force.
THEOREM SenderHasCadence == Spec => []SenderKeepsCadence
<1>1. IInv => SenderKeepsCadence
  BY DEF IInv
<1> QED
  BY <1>1, Invariant, PTL

\* Every paced beat comes from the sender started last, announces the timeout
\* in force and follows no beat of a younger sender.
THEOREM PacedBeats == Spec => BeatsFollowCadence
<1>1. ASSUME IInv, [Next]_vars, data' # data, data'.by # 0
      PROVE  /\ paced /\ data'.by = started /\ data'.by >= data.by
             /\ data'.timeout = cadence.timeout
  <2>1. PICK i \in Senders : Publish(i)
    BY <1>1 DEF Next, vars, StartManager, StartPaced, Stop, SetCadence, TakeOver, Tick, Return,
                LoopFirst, LoopTick, LoopPublish, LoopReturn
  <2>2. stop = i /\ data' = [counter |-> data.counter + 1,
                             timeout |-> announced[i], by |-> i]
    BY <1>1, <2>1 DEF Publish, Send
  <2> QED
    BY <1>1, <2>2, Bounds
    DEF IInv, TypeOK, OneSender, SenderKeepsCadence, Senders
<1>2. IInv /\ [Next]_vars =>
        [data' # data /\ data'.by # 0 =>
           /\ paced /\ data'.by = started /\ data'.by >= data.by
           /\ data'.timeout = cadence.timeout]_vars
  BY <1>1
<1> QED
  BY <1>2, Invariant, PTL DEF Spec, BeatsFollowCadence

\* SetCadence leaves a running heartbeat running and a stopped one stopped,
\* also when it takes over from the manager.
THEOREM CadencePreservesRunning == Spec => CadenceKeepsRunning
<1>1. ASSUME IInv, [Next]_vars, cadence' # cadence \/ paced' # paced
      PROVE  Running' <=> Running
  <2>1. PICK r \in Requests : SetCadence(r)
    BY <1>1 DEF Next, vars, StartManager, StartPaced, Stop, Publish, Send, Tick, Return,
                LoopFirst, LoopTick, LoopPublish, LoopReturn, pacedVars
  <2>2. paced' /\ (stop' # 0 <=> Running)
    BY <1>1, <2>1, Bounds DEF IInv, TypeOK, SetCadence, TakeOver, StartLocked, Running
  <2> QED
    BY <2>2 DEF Running
<1>2. IInv /\ [Next]_vars =>
        [cadence' # cadence \/ paced' # paced => (Running' <=> Running)]_vars
  BY <1>1
<1> QED
  BY <1>2, Invariant, PTL DEF Spec, CadenceKeepsRunning
=============================================================================
