-------------------------------- MODULE Trust --------------------------------
(* Which devices the testbench trusts, and what it remembers of that:         *)
(* internal/truststore (the file and its copy in memory), the trust and       *)
(* untrust handlers of internal/httpapi, the start-up of serve.go, and the    *)
(* certificate recovery of internal/eebusgo/trustwatch.go.                    *)
(*                                                                            *)
(* The SHIP hub is the ship-go library: of it the model keeps, for each SKI,  *)
(* whether it has an entry (known), whether that entry is trusted and whether *)
(* the device is connected.  An entry is also made by a device that dials in  *)
(* and waits for approval, so known is more than trusted.                     *)
EXTENDS FiniteSets

CONSTANTS Ski,         \* the devices, by the SKI the store's normalise() gives
          Configured,  \* those the config lists without "trust: manual"
          Client,      \* concurrent requests to the HTTP API
          None,        \* a client without a request
          AutoAccept   \* incoming pairing is accepted: advertise, not require_approval

ASSUME ConfiguredAssumption == Configured \subseteq Ski
ASSUME AutoAcceptAssumption == AutoAccept \in BOOLEAN

VARIABLES
  phase,      \* "down", or how far serve.go has come
  todo,       \* SKIs the current start-up loop has still to trust
  mem,        \* Store.skis
  file,       \* trusted-skis.json
  dirty,      \* the last save failed
  unread,     \* Load could not read the file, and no save has replaced it since
  known,      \* SKIs with an entry in the hub
  trusted,    \* those whose entry is trusted
  connected,  \* those with a completed connection
  greeting,   \* connected, and OnPeerConnected has not yet run
  rec,        \* recoverFromIdentifierConflict, one per SKI
  cooling,    \* SKIs inside conflictRecoveryCooldown
  call,       \* each client's request, while its store part is outstanding
  removed     \* history: SKIs the store removed since it last had them

hub == <<known, trusted, connected>>
store == <<mem, file, dirty, unread, removed>>
vars == <<phase, todo, store, hub, greeting, rec, cooling, call>>

Phases == {"down", "config", "restore", "serving"}
Calls == [op : {"trust", "untrust"}, ski : Ski]

\* A recovery is always inside its own cooldown (30 s against half a second).
TypeOK ==
  /\ phase \in Phases
  /\ todo \subseteq Ski /\ mem \subseteq Ski /\ file \subseteq Ski
  /\ dirty \in BOOLEAN /\ unread \in BOOLEAN
  /\ known \subseteq Ski /\ trusted \subseteq known /\ connected \subseteq known
  /\ greeting \subseteq Ski
  /\ rec \in [Ski -> {"idle", "seen", "wait"}]
  /\ cooling \subseteq Ski
  /\ \A s \in Ski : rec[s] # "idle" => s \in cooling
  /\ call \in [Client -> Calls \cup {None}]
  /\ removed \subseteq Ski

Init ==
  /\ phase = "down"
  /\ todo = {} /\ mem = {} /\ file = {} /\ dirty = FALSE /\ unread = FALSE
  /\ known = {} /\ trusted = {} /\ connected = {} /\ greeting = {}
  /\ rec = [s \in Ski |-> "idle"] /\ cooling = {}
  /\ call = [c \in Client |-> None]
  /\ removed = {}

Up == phase # "down"

-----------------------------------------------------------------------------
(* The store.  Every operation holds its mutex, and the file is replaced by a *)
(* rename: a save happens or does not.                                        *)

\* Load.  A file that cannot be read or parsed is reported and ignored: the store
\* is empty and the file stays as it is.  A later start may read it or not.  No file
\* is no error, and one that holds nothing reads the same.
Load(readable) == /\ readable \/ file # {}
                  /\ mem' = IF readable THEN file ELSE {}
                  /\ unread' = ~readable
                  /\ dirty' = FALSE /\ removed' = {}
                  /\ UNCHANGED file

\* saveLocked of the whole set m; it may fail, and then the old file stays.
Save(m, ok) == /\ file' = IF ok THEN m ELSE file
               /\ dirty' = ~ok
               /\ unread' = (unread /\ ~ok)

\* Add: memory first, then the file; a SKI already in memory is not saved again.
\* err: the save was tried and failed.
Add(s, ok) == /\ IF s \in mem
                 THEN UNCHANGED <<mem, file, dirty, unread>>
                 ELSE mem' = mem \cup {s} /\ Save(mem \cup {s}, ok)
              /\ removed' = removed \ {s}
AddErr(s, ok) == s \notin mem /\ ~ok

RemoveAs(s, ok, saves) ==
  /\ IF s \notin mem
     THEN UNCHANGED <<mem, file, dirty, unread>>
     ELSE /\ mem' = mem \ {s}
          /\ IF saves THEN Save(mem \ {s}, ok) ELSE UNCHANGED <<file, dirty, unread>>
  /\ removed' = removed \cup {s}
RemoveUnsaved(s, ok) == RemoveAs(s, ok, FALSE)  \* mutant: forgotten in memory only
Remove(s, ok) == RemoveAs(s, ok, TRUE)

-----------------------------------------------------------------------------
(* The hub, as RegisterRemoteService and UnregisterRemoteService change it.   *)
Register(s) == /\ known' = known \cup {s}
               /\ trusted' = trusted \cup {s}
               /\ UNCHANGED connected

Unregister(s) == /\ known' = known \ {s}
                 /\ trusted' = trusted \ {s}
                 /\ connected' = connected \ {s}

\* A device completes a connection, because it is trusted or is accepted as it
\* comes; the hub then calls RemoteServiceConnected.
Connect(s) ==
  /\ Up /\ s \notin connected /\ s \notin greeting
  /\ s \in trusted \/ AutoAccept
  /\ known' = known \cup {s} /\ trusted' = trusted \cup {s}
  /\ connected' = connected \cup {s}
  /\ greeting' = greeting \cup {s}
  /\ UNCHANGED <<phase, todo, store, rec, cooling, call>>

\* A device dials in and is held for approval: it has an entry, untrusted.
Knock(s) ==
  /\ Up /\ s \notin known
  /\ known' = known \cup {s}
  /\ UNCHANGED <<phase, todo, store, trusted, connected, greeting, rec, cooling, call>>

Disconnect(s) ==
  /\ s \in connected
  /\ connected' = connected \ {s}
  /\ UNCHANGED <<phase, todo, store, known, trusted, greeting, rec, cooling, call>>

\* OnPeerConnected, in the hub's goroutine for that connection.
GreetWhen(s, registered) ==
  /\ s \in greeting
  /\ greeting' = greeting \ {s}
  /\ IF registered THEN \E ok \in BOOLEAN : Add(s, ok) ELSE UNCHANGED store
  /\ UNCHANGED <<phase, todo, hub, rec, cooling, call>>
GreetLate(s) == GreetWhen(s, phase = "serving")  \* mutant: the callback is set after Start
Greet(s) == GreetWhen(s, TRUE)

-----------------------------------------------------------------------------
(* Start-up and the end of the process.                                       *)

\* truststore.Load, whose error is logged and no more ("A damaged store costs
\* re-pairing, not startup"), the callback, stack.Start.  From here devices can
\* dial in.
Boot ==
  /\ phase = "down"
  /\ phase' = "config" /\ todo' = Configured
  /\ \E readable \in BOOLEAN : Load(readable)
  /\ UNCHANGED <<hub, greeting, rec, cooling, call>>

\* One turn of the loop over the config's peers, or over the store's SKIs.
TrustNext(s) ==
  /\ s \in todo
  /\ todo' = todo \ {s}
  /\ Register(s)
  /\ UNCHANGED <<phase, store, greeting, rec, cooling, call>>

UnknownOnly == mem \ known  \* mutant: entries the hub already has are skipped
ToRestore == mem

\* The config's peers are trusted; trustStore.SKIs() is read now.
Restore ==
  /\ phase = "config" /\ todo = {}
  /\ phase' = "restore" /\ todo' = ToRestore
  /\ UNCHANGED <<store, hub, greeting, rec, cooling, call>>

Serve ==
  /\ phase = "restore" /\ todo = {}
  /\ phase' = "serving"
  /\ UNCHANGED <<todo, store, hub, greeting, rec, cooling, call>>

\* The process ends; only the file is left.
Crash ==
  /\ Up
  /\ phase' = "down"
  /\ todo' = {} /\ mem' = {} /\ dirty' = FALSE /\ unread' = FALSE /\ removed' = {}
  /\ known' = {} /\ trusted' = {} /\ connected' = {} /\ greeting' = {}
  /\ rec' = [s \in Ski |-> "idle"] /\ cooling' = {}
  /\ call' = [c \in Client |-> None]
  /\ UNCHANGED file

-----------------------------------------------------------------------------
(* The HTTP handlers: the hub first, then the store, with room in between.    *)

Begin(c, op, s) ==
  /\ phase = "serving" /\ call[c] = None
  /\ call' = [call EXCEPT ![c] = [op |-> op, ski |-> s]]
  /\ UNCHANGED <<phase, todo, store, greeting, rec, cooling>>

HandleTrust(c, s) == Begin(c, "trust", s) /\ Register(s)
HandleUntrust(c, s) == Begin(c, "untrust", s) /\ Unregister(s)

\* The store's part, and the end of the request.
EndWith(c, op) ==
  /\ call[c] # None
  /\ call[c].op = op
  /\ call' = [call EXCEPT ![c] = None]
  /\ UNCHANGED <<phase, todo, hub, greeting, rec, cooling>>

\* persisted, in the answer, is "Add returned no error".
AnswerTrust(c, persisted) ==
  /\ EndWith(c, "trust")
  /\ \E ok \in BOOLEAN : /\ Add(call[c].ski, ok)
                        /\ persisted = ~AddErr(call[c].ski, ok)

AnswerUntrust(c) ==
  EndWith(c, "untrust") /\ \E ok \in BOOLEAN : Remove(call[c].ski, ok)

Answer(c) == (\E p \in BOOLEAN : AnswerTrust(c, p)) \/ AnswerUntrust(c)

\* DenyPairing: the entry stays, untrusted.
Deny(s) ==
  /\ phase = "serving" /\ s \in known
  /\ trusted' = trusted \ {s}
  /\ UNCHANGED <<phase, todo, store, known, connected, greeting, rec, cooling, call>>

-----------------------------------------------------------------------------
(* recoverFromIdentifierConflict: the device shows a certificate that is not  *)
(* the one the hub has kept with its entry.                                   *)
ConflictAs(s, cool) ==
  /\ Up /\ s \in known /\ s \notin cooling /\ rec[s] = "idle"
  /\ rec' = [rec EXCEPT ![s] = "seen"]
  /\ cooling' = IF cool THEN cooling \cup {s} ELSE cooling
  /\ UNCHANGED <<phase, todo, store, hub, greeting, call>>
ConflictUnthrottled(s) == ConflictAs(s, FALSE)  \* mutant: the time is not recorded
Conflict(s) == ConflictAs(s, TRUE)

\* isRegistered asks whether the hub has an entry, not whether it is trusted.
RecoverUntrust(s) ==
  /\ rec[s] = "seen"
  /\ IF s \in connected \cup known
     THEN Unregister(s) /\ rec' = [rec EXCEPT ![s] = "wait"]
     ELSE UNCHANGED hub /\ rec' = [rec EXCEPT ![s] = "idle"]
  /\ UNCHANGED <<phase, todo, store, greeting, cooling, call>>

RecoverTrustIf(s, go) ==
  /\ rec[s] = "wait"
  /\ rec' = [rec EXCEPT ![s] = "idle"]
  /\ IF go THEN Register(s) ELSE UNCHANGED hub
  /\ UNCHANGED <<phase, todo, store, greeting, cooling, call>>
RecoverTrustKnown(s) == RecoverTrustIf(s, s \in known)  \* mutant: only if still registered
RecoverTrust(s) == RecoverTrustIf(s, TRUE)

\* The cooldown outlasts the recovery it was set by.
Cooled(s) ==
  /\ s \in cooling /\ rec[s] = "idle"
  /\ cooling' = cooling \ {s}
  /\ UNCHANGED <<phase, todo, store, hub, greeting, rec, call>>

-----------------------------------------------------------------------------
Next ==
  \/ Boot \/ Restore \/ Serve \/ Crash
  \/ \E s \in Ski : \/ TrustNext(s) \/ Connect(s) \/ Knock(s) \/ Disconnect(s) \/ Greet(s)
                    \/ Deny(s) \/ Conflict(s) \/ RecoverUntrust(s) \/ RecoverTrust(s)
                    \/ Cooled(s)
  \/ \E c \in Client : \/ \E s \in Ski : HandleTrust(c, s) \/ HandleUntrust(c, s)
                       \/ Answer(c)

Spec == Init /\ [][Next]_vars

\* The main goroutine goes on with the start-up, and a sleeping recovery wakes
\* up; devices, clients, conflicts and crashes need not come.
FairSpec ==
  /\ Spec
  /\ WF_vars(Restore \/ Serve \/ \E s \in Ski : TrustNext(s))
  /\ \A s \in Ski : WF_vars(RecoverTrust(s))

-----------------------------------------------------------------------------
(* Properties.                                                                *)

\* Memory and file part in two ways only.  After a save that failed: the next save
\* writes all the store knows, and so repairs what that one left out.  And after a
\* Load that could not read the file: the file keeps what it had as long as the
\* store is empty, and the first change that is saved replaces it.  Otherwise they
\* are the same, through concurrent handlers, callbacks and restarts.
StoreSynced == Up /\ ~dirty => IF unread THEN mem = {} ELSE file = mem

\* A device that has connected, and whose connection has been reported, is in
\* the store unless the store was told to remove it: also a device that dials
\* in during the start-up ("that first connection is exactly the one that needs
\* persisting", serve.go).
ConnectedIsStored == connected \ greeting \subseteq mem \cup removed

\* A SKI in the store when the restore begins is trusted in the end, whatever
\* devices and recoveries do meanwhile, unless the process ends first.
StoredIsRestored ==
  \A s \in Ski : (phase = "config" /\ s \in mem) ~> (s \in trusted \/ phase = "down")

\* When the testbench begins to serve, every SKI in its store is trusted, those of
\* devices that connected during the start-up included, or a recovery that cleared
\* its entry is about to register it.
Recovering == {s \in Ski : rec[s] = "wait"}
ServesRestored ==
  [][phase # "serving" /\ phase' = "serving" => mem \subseteq trusted \cup Recovering]_vars

\* A recovery that has cleared a device's entry registers it again.
RecoveryRegisters ==
  \A s \in Ski : rec[s] = "wait" ~> (s \in trusted \/ phase = "down")

\* Stated by the code, and not so: a trust answered as persisted is in the file
\* (handleTrust, "Persist so the decision survives a restart").
PersistedIsOnDisk ==
  [][\A c \in Client : AnswerTrust(c, TRUE) => call[c].ski \in file']_vars

=============================================================================
