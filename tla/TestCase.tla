------------------------------ MODULE TestCase ------------------------------
(***************************************************************************)
(* One test case as the scenario runner executes it                        *)
(* (internal/scenario/scenario.go): select the peer, wait for its          *)
(* connection, check the requirements, run the steps, run the finally      *)
(* steps.  The run may be cancelled and devices may come and go at any     *)
(* moment; cancelling ends a pending wait and makes every later request    *)
(* of the runner fail, those of the finally steps excepted.                *)
(*                                                                         *)
(* Abstracted: what a step asks and asserts (its outcome is chosen), loop  *)
(* variables, evidence, and deadlines, which pass whenever they like.      *)
(***************************************************************************)
EXTENDS Naturals, Sequences, FiniteSets

CONSTANTS
    Scripts,  \* the scenario files: see Script
    Devices,  \* the devices the testbench may list
    Target,   \* the device the scenario's peer names in the config
    None,     \* no device
    Items     \* number of items of a for_each list

\* "step": any step; "optional": skip_unless; "each": for_each over one step.
Kind == {"step", "optional", "each"}
\* peer: names its peer; lead: starts with wait_connected; probe: needs a device
\* probe; requires: has requirements; then the steps and the finally steps.
Script == [peer : BOOLEAN, lead : BOOLEAN, probe : BOOLEAN, requires : BOOLEAN,
           steps : Seq(Kind), finally : Nat]

ASSUME ConstantsOK ==
    /\ Scripts \subseteq Script
    /\ Target \in Devices /\ None \notin Devices
    /\ Items \in Nat \ {0}

VARIABLES
    script,      \* the scenario of this test case
    hasPeers,    \* whether the config has peers: entries, which then name Target
    listed,      \* the devices GET /peers lists
    connected,   \* those of them that are connected
    cancelled,   \* the run's context is cancelled
    pc,          \* where the runner stands
    configPeers, \* the runner's copy of the config: "unread", "entries" or "none"
    peer,        \* the selected peer
    queue,       \* steps still to run
    left,        \* finally steps still to run
    status, reason, \* of the result
    steps        \* the result's steps: kind and status

world  == <<script, hasPeers, listed, connected, cancelled>>
result == <<status, reason, steps>>
vars   == <<world, pc, configPeers, peer, queue, left, result>>

PC     == {"select", "lead", "check", "steps", "stepping", "finally", "end"}
Status == {"passed", "failed", "skipped"}
Reason == {"", "not_run", "precondition_not_met", "not_verifiable_on_wire"}
StepResult == [kind : Kind \cup {"select_peer", "lead", "requirements", "cancelled", "finally"},
               status : Status]

TypeOK ==
    /\ script \in Scripts
    /\ hasPeers \in BOOLEAN /\ cancelled \in BOOLEAN
    /\ connected \subseteq listed /\ listed \subseteq Devices
    /\ pc \in PC
    /\ configPeers \in {"unread", "entries", "none"}
    /\ peer \in Devices \cup {None}
    /\ queue \in Seq(Kind) /\ left \in Nat
    /\ status \in Status /\ reason \in Reason
    /\ reason # "" <=> status = "skipped"
    /\ steps \in Seq(StepResult)

\* The runner may have served other test cases before, which read the config.
Init ==
    /\ script \in Scripts
    /\ hasPeers \in BOOLEAN
    /\ listed \in SUBSET Devices /\ connected \in SUBSET listed
    /\ cancelled = FALSE
    /\ pc = "select"
    /\ configPeers \in IF hasPeers THEN {"unread", "entries", "none"} ELSE {"unread", "none"}
    /\ peer = None
    /\ queue = script.steps /\ left = script.finally
    /\ status = "passed" /\ reason = "" /\ steps = <<>>

-----------------------------------------------------------------------------
(* The surroundings *)

Cancel ==
    /\ ~cancelled /\ pc # "end"
    /\ cancelled' = TRUE
    /\ UNCHANGED <<script, hasPeers, listed, connected, pc, configPeers, peer, queue, left,
                   result>>

DevicesChange ==
    /\ pc # "end"
    /\ listed' \in SUBSET Devices /\ connected' \in SUBSET listed'
    /\ UNCHANGED <<script, hasPeers, cancelled, pc, configPeers, peer, queue, left,
                   result>>

-----------------------------------------------------------------------------
(* Selecting the peer *)

\* configPeers reads the config once; an unreadable one counts as one without
\* entries, and a cancelled run can read none.
ReadConfig ==
    IF configPeers # "unread" THEN configPeers' = configPeers
    ELSE configPeers' \in {"none"} \cup
             (IF hasPeers /\ ~cancelled THEN {"entries"} ELSE {})

\* What GET /peers gives: nothing when it fails, as it does after a cancel.
Seen == IF cancelled THEN {{}} ELSE {{}, listed}

\* Mutant: the peer is whichever device is listed, as it once was.
SelectAny(seen, config) == seen

\* selectPeer: the named device when it is listed; without entries in the config
\* the only connected one.  The empty set stands for an error.
SelectPeer(seen, config) ==
    IF config = "entries" THEN seen \cap {Target}
    ELSE {d \in seen \cap connected : seen \cap connected = {d}}

EndWith(st, why, kind) ==
    /\ pc' = "end"
    /\ status' = st /\ reason' = why
    /\ steps' = Append(steps, [kind |-> kind, status |-> st])
    /\ UNCHANGED <<queue, left>>

\* A scenario without a peer goes on; one with a peer keeps asking until it finds
\* it, as long as the leading wait_connected allows and only when the config
\* names the device.
AwaitPeer ==
    /\ pc = "select" /\ UNCHANGED world
    /\ IF ~script.peer
       THEN pc' = "lead" /\ UNCHANGED <<configPeers, peer, queue, left, result>>
       ELSE /\ ReadConfig
            /\ \E seen \in Seen : LET found == SelectPeer(seen, configPeers') IN
                 \/ /\ found # {} /\ peer' \in found /\ pc' = "lead"
                    /\ UNCHANGED <<queue, left, result>>
                 \/ /\ found = {} /\ EndWith("failed", "", "select_peer")
                    /\ UNCHANGED peer
                 \/ /\ found = {} /\ configPeers' = "entries" /\ script.lead /\ ~cancelled
                    /\ UNCHANGED <<pc, peer, queue, left, result>>

-----------------------------------------------------------------------------
(* execute: the leading wait_connected and the requirements *)

\* stepWaitConnected: the selected peer is connected, or without one any device.
Matches == IF cancelled THEN {}
           ELSE {d \in connected : peer \in {None, d}}

Lead ==
    /\ pc = "lead" /\ UNCHANGED <<world, configPeers>>
    /\ \/ /\ ~script.lead /\ pc' = "check"
          /\ UNCHANGED <<peer, queue, left, result>>
       \/ /\ script.lead /\ peer' \in Matches /\ pc' = "check"
          /\ steps' = Append(steps, [kind |-> "lead", status |-> "passed"])
          /\ UNCHANGED <<queue, left, status, reason>>
       \/ /\ script.lead /\ EndWith("failed", "", "lead")
          /\ UNCHANGED peer

\* The verification and missingRequirements; a gap may also come of a request that
\* failed or of a wait for the vehicle that the cancel ended.
Check ==
    /\ pc = "check" /\ UNCHANGED <<world, configPeers, peer>>
    /\ \/ /\ script.probe /\ EndWith("skipped", "not_verifiable_on_wire", "requirements")
       \/ /\ ~script.probe /\ script.requires
          /\ EndWith("skipped", "precondition_not_met", "requirements")
       \/ /\ ~script.probe /\ pc' = "steps"
          /\ UNCHANGED <<queue, left, result>>

-----------------------------------------------------------------------------
(* runSteps *)

Log(kind, st) == steps' = Append(steps, [kind |-> kind, status |-> st])
Skip(why) == status' = "skipped" /\ reason' = why
Running == pc = "steps" /\ status = "passed" /\ queue # <<>>

\* Mutant: the loop goes round without leaving.
StopAtCancelWaits == Running /\ cancelled /\ UNCHANGED vars

StopAtCancel ==
    /\ Running /\ cancelled
    /\ Skip("not_run") /\ Log("cancelled", "skipped")
    /\ UNCHANGED <<world, pc, configPeers, peer, queue, left>>

ExpandBefore(rest) ==
    /\ Running /\ ~cancelled /\ Head(queue) = "each"
    /\ \/ /\ queue' = [i \in 1..Items |-> "step"] \o rest
          /\ Log("each", "passed") /\ UNCHANGED status
       \/ /\ status' = "failed" /\ Log("each", "failed") /\ UNCHANGED queue
    /\ UNCHANGED <<world, pc, configPeers, peer, left, reason>>

\* Mutant: the steps after the loop are overwritten.
ForEachLosesRest == ExpandBefore(<<>>)

\* expandForEach: one copy of the loop's step per item, in the loop's place; what
\* does not resolve to a list that is not empty fails the test case.
ForEach == ExpandBefore(Tail(queue))

BeginStep ==
    /\ Running /\ ~cancelled /\ Head(queue) # "each"
    /\ pc' = "stepping"
    /\ UNCHANGED <<world, configPeers, peer, queue, left, result>>

\* A step that fails once the run is cancelled was interrupted; a sleep that was
\* passes, a skip_unless skips.
EndStep ==
    /\ pc = "stepping"
    /\ pc' = "steps" /\ queue' = Tail(queue)
    /\ \/ Log(Head(queue), "passed") /\ UNCHANGED <<status, reason>>
       \/ /\ Head(queue) = "optional"
          /\ Skip("precondition_not_met") /\ Log("optional", "skipped")
       \/ /\ Head(queue) # "optional" /\ cancelled
          /\ Skip("not_run") /\ Log(Head(queue), "skipped")
       \/ /\ Head(queue) # "optional" /\ ~cancelled
          /\ status' = "failed" /\ Log(Head(queue), "failed") /\ UNCHANGED reason
    /\ UNCHANGED <<world, configPeers, peer, left>>

-----------------------------------------------------------------------------
(* runFinally *)

StepsOver(toFinally) ==
    /\ pc = "steps" /\ (status # "passed" \/ queue = <<>>)
    /\ pc' = IF toFinally THEN "finally" ELSE "end"
    /\ UNCHANGED <<world, configPeers, peer, queue, left, result>>

\* Mutant: a cancelled test case returns at once.
LeaveStepsAtCancel == StepsOver(~cancelled)

LeaveSteps == StepsOver(TRUE)

FinallyFails(from) ==
    /\ pc = "finally" /\ left > 0 /\ left' = left - 1
    /\ \E st \in Status :
          /\ Log("finally", st)
          /\ status' = IF st = "failed" /\ status \in from THEN "failed" ELSE status
    /\ UNCHANGED <<world, pc, configPeers, peer, queue, reason>>

\* Mutant: a failing finally step fails the test case whatever it was.
FinallyStepOverrides == FinallyFails(Status)

\* Every finally step runs, whatever the one before it did; a failing one fails a
\* test case that had passed.
FinallyStep == FinallyFails({"passed"})

End ==
    /\ pc = "finally" /\ left = 0
    /\ pc' = "end"
    /\ UNCHANGED <<world, configPeers, peer, queue, left, result>>

Runner ==
    \/ AwaitPeer \/ Lead \/ Check
    \/ StopAtCancel \/ ForEach \/ BeginStep \/ EndStep
    \/ LeaveSteps \/ FinallyStep \/ End

Next == Cancel \/ DevicesChange \/ Runner

Spec == Init /\ [][Next]_vars

\* The runner goes on: every wait has a deadline and every request a timeout.
FairSpec == Spec /\ WF_vars(Runner)

-----------------------------------------------------------------------------
(* Properties *)

Count(kinds) == Cardinality({i \in DOMAIN steps : steps[i].kind \in kinds})

\* The steps a queue leads to, its loops expanded.
Occurrences(q, kinds) == Cardinality({i \in DOMAIN q : q[i] \in kinds})
Work(q) == Occurrences(q, Kind \ {"each"}) + Items * Occurrences(q, {"each"})

\* The verdict is what the steps say.  A passed test case ran every step of every
\* loop and every finally step, and all passed or, of the finally steps, were not
\* failed; a failed one has a failed step; one that is not run was cancelled and
\* no step of it had failed before.
VerdictSound ==
    pc = "end" =>
      /\ status = "passed" =>
            /\ \A i \in DOMAIN steps : \/ steps[i].status = "passed"
                                       \/ (steps[i].kind = "finally" /\ steps[i].status = "skipped")
            /\ Count({"step", "optional"}) = Work(script.steps)
            /\ queue = <<>>
      /\ status = "failed" => \E i \in DOMAIN steps : steps[i].status = "failed"
      /\ reason = "not_run" =>
            /\ cancelled
            /\ \A i \in DOMAIN steps : steps[i].status = "failed" => steps[i].kind = "finally"

\* What a test case set is released: once its steps were begun all of its finally
\* steps run, after the last of them, also when it failed or was cancelled.
FinallyRuns ==
    pc = "end" =>
      LET n == Len(steps) - script.finally
      IN  Count(Kind \cup {"cancelled"}) > 0 =>
            /\ n > 0 /\ Count({"finally"}) = script.finally
            /\ \A i \in (n + 1)..Len(steps) : steps[i].kind = "finally"

\* A verdict other than passed is never taken back or turned into another, by a
\* later step, a finally step or a late cancel, and no step but a finally one
\* runs after it.
VerdictStands ==
    [][status # "passed" =>
         /\ status' = status /\ reason' = reason
         /\ steps' # steps => pc = "finally"]_vars

\* A runner that read a config with entries never runs a step against any other
\* device than the one the scenario names, whichever come and go.
RightDevice ==
    script.peer /\ configPeers = "entries" => peer \in {None, Target}

\* Every test case ends, cancelled or not.
CaseEnds == <>(pc = "end")
=============================================================================
