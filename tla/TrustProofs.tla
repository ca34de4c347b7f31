----------------------------- MODULE TrustProofs -----------------------------
(* What Trust.tla says of the store, proved for any devices and clients.      *)
EXTENDS Trust, TLAPS

\* While the process is down nothing is connected: a new start begins clean.
DownIsClean == ~Up => connected = {}

IInv == TypeOK /\ DownIsClean /\ StoreSynced /\ ConnectedIsStored

\* The steps of the model that leave every conjunct's variables alone, or touch
\* only what the type invariant speaks of, are grouped; the store's steps and
\* the connection's steps have a lemma each.
LEMMA InitHolds == Init => IInv
  BY DEF Init, IInv, TypeOK, Phases, Calls, DownIsClean, StoreSynced, ConnectedIsStored, Up

\* What StoreSynced says of a process that is up.
InStep == ~dirty => IF unread THEN mem = {} ELSE file = mem

\* Adding a SKI keeps the store's part of the type, and memory and file in step.
LEMMA AddKeeps ==
  ASSUME NEW s \in Ski, NEW ok \in BOOLEAN, TypeOK, Add(s, ok)
  PROVE  /\ mem' = mem \cup {s} /\ file' \subseteq Ski /\ dirty' \in BOOLEAN /\ unread' \in BOOLEAN
         /\ removed' = removed \ {s}
         /\ InStep => InStep'
  BY DEF TypeOK, Add, Save, InStep

\* Removing a SKI does too, and what leaves the memory is counted as removed.
LEMMA RemoveKeeps ==
  ASSUME NEW s \in Ski, NEW ok \in BOOLEAN, TypeOK, Remove(s, ok)
  PROVE  /\ mem' = mem \ {s} /\ file' \subseteq Ski /\ dirty' \in BOOLEAN /\ unread' \in BOOLEAN
         /\ removed' = removed \cup {s}
         /\ InStep => InStep'
  BY DEF TypeOK, Remove, RemoveAs, Save, InStep

LEMMA BootKeeps == IInv /\ Boot => IInv'
  <1> SUFFICES ASSUME IInv, Boot PROVE IInv'
    OBVIOUS
  <1>1. TypeOK'
    BY ConfiguredAssumption DEF IInv, TypeOK, Phases, Boot, Load, hub
  <1>2. connected = {} /\ connected' = {}
    BY DEF IInv, DownIsClean, Up, Boot, hub
  <1>3. DownIsClean' /\ ConnectedIsStored'
    BY <1>2 DEF DownIsClean, ConnectedIsStored
  <1>4. StoreSynced'
    BY DEF Boot, Load, StoreSynced
  <1>5. QED
    BY <1>1, <1>3, <1>4 DEF IInv

LEMMA CrashKeeps == IInv /\ Crash => IInv'
  <1> SUFFICES ASSUME IInv, Crash PROVE IInv'
    OBVIOUS
  <1>1. call' \in [Client -> Calls \cup {None}]
    BY DEF Crash
  <1>2. TypeOK'
    BY <1>1 DEF IInv, TypeOK, Phases, Crash
  <1>3. DownIsClean' /\ ConnectedIsStored' /\ StoreSynced'
    BY DEF Crash, DownIsClean, ConnectedIsStored, StoreSynced, Up
  <1>4. QED
    BY <1>2, <1>3 DEF IInv

\* Start-up: the loops register SKIs of the config and of the store.
LEMMA StartKeeps ==
  ASSUME IInv, Restore \/ Serve \/ (\E s \in Ski : TrustNext(s))
  PROVE  IInv'
  <1>1. CASE Restore
    BY <1>1 DEF IInv, TypeOK, DownIsClean, StoreSynced, ConnectedIsStored, Up, Phases,
                Restore, ToRestore, store, hub
  <1>2. CASE Serve
    BY <1>2 DEF IInv, TypeOK, DownIsClean, StoreSynced, ConnectedIsStored, Up, Phases,
                Serve, store, hub
  <1>3. ASSUME NEW s \in Ski, TrustNext(s) PROVE IInv'
    <2>1. TypeOK'
      BY <1>3 DEF IInv, TypeOK, TrustNext, Register, store
    <2>2. QED
      BY <1>3, <2>1 DEF IInv, DownIsClean, StoreSynced, ConnectedIsStored, Up,
                        TrustNext, Register, store
  <1>4. QED
    BY <1>1, <1>2, <1>3

\* Connections come, are reported, and go.
LEMMA ConnectionKeeps ==
  ASSUME IInv, NEW s \in Ski,
         Connect(s) \/ Knock(s) \/ Disconnect(s) \/ Deny(s)
  PROVE  IInv'
  <1>1. CASE Connect(s)
    <2>1. TypeOK'
      BY <1>1 DEF IInv, TypeOK, Connect, store
    <2>2. QED
      BY <1>1, <2>1 DEF IInv, DownIsClean, StoreSynced, ConnectedIsStored, Up, Connect, store
  <1>2. CASE Knock(s)
    <2>1. TypeOK'
      BY <1>2 DEF IInv, TypeOK, Knock, store
    <2>2. QED
      BY <1>2, <2>1 DEF IInv, DownIsClean, StoreSynced, ConnectedIsStored, Up, Knock, store
  <1>3. CASE Disconnect(s)
    <2>1. TypeOK'
      BY <1>3 DEF IInv, TypeOK, Disconnect, store
    <2>2. QED
      BY <1>3, <2>1 DEF IInv, DownIsClean, StoreSynced, ConnectedIsStored, Up, Disconnect, store
  <1>4. CASE Deny(s)
    <2>1. TypeOK'
      BY <1>4 DEF IInv, TypeOK, Deny, store
    <2>2. QED
      BY <1>4, <2>1 DEF IInv, DownIsClean, StoreSynced, ConnectedIsStored, Up, Deny, store
  <1>5. QED
    BY <1>1, <1>2, <1>3, <1>4

LEMMA GreetKeeps == ASSUME IInv, NEW s \in Ski, Greet(s) PROVE IInv'
  <1>1. PICK ok \in BOOLEAN : Add(s, ok)
    BY DEF Greet, GreetWhen
  <1>2. greeting' = greeting \ {s} /\ UNCHANGED <<phase, todo, hub, rec, cooling, call>>
    BY DEF Greet, GreetWhen
  <1>3. TypeOK
    BY DEF IInv
  <1>4. /\ mem' = mem \cup {s} /\ file' \subseteq Ski /\ dirty' \in BOOLEAN /\ unread' \in BOOLEAN
        /\ removed' = removed \ {s}
        /\ InStep => InStep'
    BY <1>1, <1>3, AddKeeps
  <1>5. TypeOK'
    BY <1>2, <1>3, <1>4 DEF TypeOK, hub
  <1>6. DownIsClean' /\ StoreSynced' /\ ConnectedIsStored'
    BY <1>2, <1>4 DEF IInv, DownIsClean, StoreSynced, InStep, ConnectedIsStored, Up, hub
  <1>7. QED
    BY <1>5, <1>6 DEF IInv

\* The hub's part of a request: SKIs are registered or unregistered.
LEMMA RequestKeeps ==
  ASSUME IInv, NEW c \in Client, NEW s \in Ski, HandleTrust(c, s) \/ HandleUntrust(c, s)
  PROVE  IInv'
  <1>1. PICK op \in {"trust", "untrust"} : Begin(c, op, s)
    BY DEF HandleTrust, HandleUntrust
  <1>2. [op |-> op, ski |-> s] \in Calls
    BY DEF Calls
  <1>3. call' \in [Client -> Calls \cup {None}]
    BY <1>1, <1>2 DEF IInv, TypeOK, Begin
  <1>4. /\ known' \subseteq Ski /\ trusted' \subseteq known' /\ connected' \subseteq known'
        /\ connected' \subseteq connected
    BY DEF IInv, TypeOK, HandleTrust, HandleUntrust, Register, Unregister
  <1>5. UNCHANGED <<phase, todo, store, greeting, rec, cooling>>
    BY <1>1 DEF Begin
  <1>6. TypeOK'
    BY <1>3, <1>4, <1>5 DEF IInv, TypeOK, store
  <1>7. DownIsClean' /\ StoreSynced' /\ ConnectedIsStored'
    BY <1>4, <1>5 DEF IInv, DownIsClean, StoreSynced, ConnectedIsStored, Up, store
  <1>8. QED
    BY <1>6, <1>7 DEF IInv

\* The store's part of a request, and its end.
LEMMA AnswerKeeps == ASSUME IInv, NEW c \in Client, Answer(c) PROVE IInv'
  <1>1. TypeOK
    BY DEF IInv
  <1>2. PICK op \in {"trust", "untrust"} : EndWith(c, op)
    BY DEF Answer, AnswerTrust, AnswerUntrust
  <1>3. call' \in [Client -> Calls \cup {None}]
    BY <1>1, <1>2 DEF TypeOK, EndWith
  <1>4. UNCHANGED <<phase, todo, hub, greeting, rec, cooling>>
    BY <1>2 DEF EndWith
  <1>5. PICK s \in Ski : s = call[c].ski
    BY <1>1, <1>2 DEF TypeOK, Calls, EndWith
  <1>6. /\ file' \subseteq Ski /\ dirty' \in BOOLEAN /\ unread' \in BOOLEAN /\ mem' \subseteq Ski /\ removed' \subseteq Ski
        /\ mem \cup removed \subseteq mem' \cup removed'
        /\ InStep => InStep'
    <2>1. CASE \E p \in BOOLEAN : AnswerTrust(c, p)
      <3>1. PICK ok \in BOOLEAN : Add(s, ok)
        BY <1>5, <2>1 DEF AnswerTrust
      <3>2. QED
        BY <1>1, <3>1, AddKeeps DEF TypeOK
    <2>2. CASE AnswerUntrust(c)
      <3>1. PICK ok \in BOOLEAN : Remove(s, ok)
        BY <1>5, <2>2 DEF AnswerUntrust
      <3>2. QED
        BY <1>1, <3>1, RemoveKeeps DEF TypeOK
    <2>3. QED
      BY <2>1, <2>2 DEF Answer
  <1>7. TypeOK'
    BY <1>1, <1>3, <1>4, <1>6 DEF TypeOK, hub
  <1>8. DownIsClean' /\ StoreSynced' /\ ConnectedIsStored'
    BY <1>4, <1>6 DEF IInv, DownIsClean, StoreSynced, InStep, ConnectedIsStored, Up, hub
  <1>9. QED
    BY <1>7, <1>8 DEF IInv

LEMMA RecoveryKeeps ==
  ASSUME IInv, NEW s \in Ski,
         Conflict(s) \/ RecoverUntrust(s) \/ RecoverTrust(s) \/ Cooled(s)
  PROVE  IInv'
  <1>1. UNCHANGED <<phase, todo, store, greeting, call>>
    BY DEF Conflict, ConflictAs, RecoverUntrust, RecoverTrust, RecoverTrustIf, Cooled
  <1>2. /\ rec' \in [Ski -> {"idle", "seen", "wait"}] /\ cooling' \subseteq Ski
        /\ \A t \in Ski : rec'[t] # "idle" => t \in cooling'
    BY DEF IInv, TypeOK, Conflict, ConflictAs, RecoverUntrust, RecoverTrust, RecoverTrustIf, Cooled
  <1>3. /\ known' \subseteq Ski /\ trusted' \subseteq known' /\ connected' \subseteq known'
        /\ connected' \subseteq connected
    BY DEF IInv, TypeOK, Conflict, ConflictAs, RecoverUntrust, RecoverTrust, RecoverTrustIf, Cooled,
           Register, Unregister, hub
  <1>4. TypeOK'
    BY <1>1, <1>2, <1>3 DEF IInv, TypeOK, store
  <1>5. DownIsClean' /\ StoreSynced' /\ ConnectedIsStored'
    BY <1>1, <1>3 DEF IInv, DownIsClean, StoreSynced, ConnectedIsStored, Up, store
  <1>6. QED
    BY <1>4, <1>5 DEF IInv

LEMMA StepKeeps == IInv /\ [Next]_vars => IInv'
  <1> SUFFICES ASSUME IInv, [Next]_vars PROVE IInv'
    OBVIOUS
  <1>1. CASE UNCHANGED vars
    BY <1>1 DEF IInv, TypeOK, DownIsClean, StoreSynced, ConnectedIsStored, Up, vars, store, hub
  <1>2. CASE Next
    BY <1>2, BootKeeps, CrashKeeps, StartKeeps, ConnectionKeeps, GreetKeeps, RequestKeeps,
       AnswerKeeps, RecoveryKeeps DEF Next
  <1>3. QED
    BY <1>1, <1>2

\* The invariant of the trust model, for every set of devices and clients.
THEOREM Invariant == Spec => []IInv
  <1>1. QED
    BY InitHolds, StepKeeps, PTL DEF Spec

\* Every variable keeps its type, and no recovery runs outside its cooldown.
THEOREM TypeCorrect == Spec => []TypeOK
  <1>1. IInv => TypeOK
    BY DEF IInv
  <1>2. QED
    BY <1>1, Invariant, PTL

\* Memory and file agree unless the last save failed, or the file could not be
\* read and the store is still empty.
THEOREM StoreInStep == Spec => []StoreSynced
  <1>1. IInv => StoreSynced
    BY DEF IInv
  <1>2. QED
    BY <1>1, Invariant, PTL

\* A reported connection is remembered, also one made during the start-up.
THEOREM ConnectedRemembered == Spec => []ConnectedIsStored
  <1>1. IInv => ConnectedIsStored
    BY DEF IInv
  <1>2. QED
    BY <1>1, Invariant, PTL

-----------------------------------------------------------------------------
(* The start-up *)

\* Before it serves, the testbench has no requests, and what a device's connection
\* is about to add to the store is registered; of the store, what the loop still has
\* before it may not be.
Restoring ==
  /\ phase # "serving" => /\ \A c \in Client : call[c] = None
                          /\ greeting \subseteq trusted \cup Recovering
  /\ phase = "restore" => mem \subseteq todo \cup trusted \cup Recovering

\* Only a recovery takes trust back during the start-up, and it waits to restore it.
LEMMA RecoveryRestores ==
  ASSUME IInv, NEW s \in Ski,
         Conflict(s) \/ RecoverUntrust(s) \/ RecoverTrust(s) \/ Cooled(s)
  PROVE  trusted \cup Recovering \subseteq trusted' \cup Recovering'
  <1>1. rec \in [Ski -> {"idle", "seen", "wait"}]
    BY DEF IInv, TypeOK
  <1>2. CASE Conflict(s) \/ Cooled(s)
    BY <1>1, <1>2 DEF Conflict, ConflictAs, Cooled, Recovering, hub
  <1>3. CASE RecoverUntrust(s)
    BY <1>1, <1>3 DEF RecoverUntrust, Unregister, Recovering, hub
  <1>4. CASE RecoverTrust(s)
    BY <1>1, <1>4 DEF RecoverTrust, RecoverTrustIf, Register, Recovering, hub
  <1>5. QED
    BY <1>2, <1>3, <1>4

\* Every step of the start-up leaves the store's SKIs restored or still to restore.
LEMMA StepRestores == IInv /\ Restoring /\ [Next]_vars => Restoring'
  <1> SUFFICES ASSUME IInv, Restoring, [Next]_vars PROVE Restoring'
    OBVIOUS
  <1>1. CASE UNCHANGED vars
    BY <1>1 DEF Restoring, Recovering, vars, store, hub
  <1>2. CASE Boot \/ Serve
    BY <1>2 DEF Restoring, Recovering, Boot, Load, Serve, hub, store
  <1>3. CASE Restore
    BY <1>3 DEF Restoring, Recovering, Restore, ToRestore, hub, store
  <1>4. CASE Crash
    BY <1>4 DEF Restoring, Recovering, Crash
  <1>5. ASSUME NEW s \in Ski, TrustNext(s) PROVE Restoring'
    BY <1>5 DEF Restoring, Recovering, TrustNext, Register, store
  <1>6. ASSUME NEW s \in Ski, Connect(s) \/ Knock(s) \/ Disconnect(s) PROVE Restoring'
    BY <1>6 DEF Restoring, Recovering, Connect, Knock, Disconnect, store
  <1>7. ASSUME NEW s \in Ski, Greet(s) PROVE Restoring'
    <2>1. mem' = mem \cup {s} /\ s \in greeting /\ greeting' = greeting \ {s}
      BY <1>7, AddKeeps DEF IInv, Greet, GreetWhen
    <2>2. UNCHANGED <<phase, todo, trusted, rec, call>>
      BY <1>7 DEF Greet, GreetWhen, hub
    <2>3. QED
      BY <2>1, <2>2 DEF Restoring, Recovering
  <1>8. ASSUME NEW s \in Ski, Deny(s) PROVE Restoring'
    BY <1>8 DEF Restoring, Deny
  <1>9. ASSUME NEW s \in Ski,
               Conflict(s) \/ RecoverUntrust(s) \/ RecoverTrust(s) \/ Cooled(s)
        PROVE  Restoring'
    <2>1. UNCHANGED <<phase, todo, mem, greeting, call>>
      BY <1>9 DEF Conflict, ConflictAs, RecoverUntrust, RecoverTrust, RecoverTrustIf, Cooled, store
    <2>2. trusted \cup Recovering \subseteq trusted' \cup Recovering'
      BY <1>9, RecoveryRestores
    <2>3. QED
      BY <2>1, <2>2 DEF Restoring
  <1>10. ASSUME NEW c \in Client, NEW s \in Ski, HandleTrust(c, s) \/ HandleUntrust(c, s)
         PROVE  Restoring'
    BY <1>10 DEF Restoring, HandleTrust, HandleUntrust, Begin
  <1>11. ASSUME NEW c \in Client, Answer(c) PROVE Restoring'
    <2>1. call[c] # None /\ UNCHANGED phase
      BY <1>11 DEF Answer, AnswerTrust, AnswerUntrust, EndWith
    <2>2. QED
      BY <2>1 DEF Restoring
  <1>12. QED
    BY <1>1, <1>2, <1>3, <1>4, <1>5, <1>6, <1>7, <1>8, <1>9, <1>10, <1>11 DEF Next

\* The safety behind StoredIsRestored: for any devices that connect, are held or are
\* recovered while serve.go restores its store, none of the stored ones is left
\* without trust when the testbench begins to serve.
THEOREM StoreRestored == Spec => ServesRestored
  <1>1. Init => Restoring
    BY DEF Init, Restoring
  <1>2. Restoring /\ [Next]_vars =>
          [phase # "serving" /\ phase' = "serving" => mem \subseteq trusted \cup Recovering]_vars
    <2> SUFFICES ASSUME Restoring, Next, phase # "serving", phase' = "serving"
                 PROVE  mem \subseteq trusted \cup Recovering
      OBVIOUS
    <2>1. Serve
      BY DEF Next, Boot, Restore, Crash, TrustNext, Connect, Knock, Disconnect, Greet, GreetWhen,
             Deny, Conflict, ConflictAs, RecoverUntrust, RecoverTrust, RecoverTrustIf, Cooled,
             HandleTrust, HandleUntrust, Begin, Answer, AnswerTrust, AnswerUntrust, EndWith
    <2>2. QED
      BY <2>1 DEF Serve, Restoring
  <1>3. QED
    BY <1>1, <1>2, StepRestores, Invariant, PTL DEF Spec, ServesRestored
=============================================================================
