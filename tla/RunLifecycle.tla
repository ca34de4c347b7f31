---------------------------- MODULE RunLifecycle ----------------------------
(* What the manager of test runs promises its clients, who see of a run only *)
(* its status: one slot that one run holds at a time, a verdict given once   *)
(* and while the run holds the slot, "cancelled" exactly when a cancel was   *)
(* asked for before the verdict, and a crash that may lose the run's verdict *)
(* but never changes one that was given.                                     *)
EXTENDS Integers

CONSTANT Runs

VARIABLES
    slot,   \* the run in progress, 0 for none
    state,  \* state[r]: the status of run r, "absent" before its start
    wished  \* the runs somebody asked to cancel

Init == slot = 0 /\ state = [r \in Runs |-> "absent"] /\ wished = {}

Begin(r) ==
    /\ slot = 0 /\ state[r] = "absent"
    /\ slot' = r
    /\ state' = [state EXCEPT ![r] = "running"]
    /\ UNCHANGED wished

WishCancel ==
    /\ slot # 0
    /\ wished' = wished \cup {slot}
    /\ UNCHANGED <<slot, state>>

GiveVerdict(r, s) ==
    /\ slot = r /\ state[r] = "running"
    /\ r \in wished <=> s = "cancelled"
    /\ state' = [state EXCEPT ![r] = s]
    /\ UNCHANGED <<slot, wished>>

Free(r) ==
    /\ slot = r /\ state[r] \notin {"absent", "running"}
    /\ slot' = 0
    /\ UNCHANGED <<state, wished>>

Die ==
    /\ slot' = 0
    /\ state' = [r \in Runs |-> IF state[r] = "running" THEN "lost" ELSE state[r]]
    /\ UNCHANGED wished

Next ==
    \/ WishCancel \/ Die
    \/ \E r \in Runs : Begin(r) \/ Free(r)
    \/ \E r \in Runs, s \in {"passed", "failed", "aborted", "cancelled"} : GiveVerdict(r, s)

Spec == Init /\ [][Next]_<<slot, state, wished>>
=============================================================================
