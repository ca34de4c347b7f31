------------------------------- MODULE TestRun -------------------------------
(***************************************************************************)
(* The manager of test runs (internal/testrun/manager.go): one run at a    *)
(* time executes a selection of test cases in a goroutine, and its record  *)
(* is written after every step so that an interrupted run leaves a         *)
(* readable report.  A run file that cannot be written is kept in memory.  *)
(*                                                                         *)
(* The goroutine changes the record only through update, which holds the   *)
(* manager's mutex and persists; every update is one action, and a cancel, *)
(* a start or a read fits between any two.  A crash fits anywhere: it      *)
(* loses the goroutine and the memory and leaves the folder.               *)
(*                                                                         *)
(* Abstracted: what identification, checks and the collector gather (they  *)
(* are data of the record), progress, events, and the inside of a test     *)
(* case, which module TestCase models.  m.running and m.active change      *)
(* together and are one variable.                                          *)
(***************************************************************************)
EXTENDS Integers, FiniteSets

CONSTANTS
    Cases,        \* the catalogued test cases, numbered in run order
    CleanupCases, \* those of them marked cleanup
    Selections,   \* what is asked for: sets of test cases
    Folder,       \* whether there is a reports folder
    MaxRuns,      \* bound: how many runs are ever started
    MaxCrashes    \* bound: how often the process dies

ASSUME ConstantsOK ==
    /\ Cases \subseteq Nat /\ CleanupCases \subseteq Cases
    /\ Selections \subseteq SUBSET Cases
    /\ Folder \in BOOLEAN
    /\ MaxRuns \in Nat /\ MaxCrashes \in Nat

Runs == 1..MaxRuns

VARIABLES
    active,    \* m.active and m.running: the run in progress, 0 for none
    started,   \* number of runs started
    crashes,   \* number of crashes so far
    cancelled, \* the runs whose context is cancelled
    pc,        \* pc[r]: where the goroutine of run r stands
    plan,      \* plan[r]: its selected test cases
    aborted,   \* the runs whose device did not come back
    rec,       \* rec[r]: the record the goroutine works on
    memory,    \* m.memory: copies kept in memory
    file,      \* <id>.json in the reports folder
    html       \* <id>.html in the reports folder

vars == <<active, started, crashes, cancelled, pc, plan, aborted, rec, memory, file, html>>

\* "skipped" stands for every reason but not_run, "none" for no result yet.
Outcome == {"none", "passed", "failed", "skipped", "not_run"}
Final   == {"passed", "failed", "aborted", "cancelled"}
Record  == [status : {"absent", "running"} \cup Final, results : [Cases -> Outcome]]
NoResults == [c \in Cases |-> "none"]
Absent  == [status |-> "absent", results |-> NoResults]

\* "identify", "plan": before the test cases; "loop": between two of them;
\* "testing": in one; "final", "html": the record is final and its page is
\* still to be written, or is; "done": returned; "past": before a crash.
Alive == {"identify", "plan", "loop", "testing", "final", "html"}
PC    == Alive \cup {"none", "done", "past"}

TypeOK ==
    /\ active \in 0..MaxRuns /\ started \in 0..MaxRuns /\ crashes \in 0..MaxCrashes
    /\ cancelled \in SUBSET Runs /\ aborted \in SUBSET Runs
    /\ pc \in [Runs -> PC]
    /\ plan \in [Runs -> SUBSET Cases]
    /\ rec \in [Runs -> Record]
    /\ memory \in [Runs -> Record] /\ file \in [Runs -> Record] /\ html \in [Runs -> Record]

Init ==
    /\ active = 0 /\ started = 0 /\ crashes = 0
    /\ cancelled = {} /\ aborted = {}
    /\ pc = [r \in Runs |-> "none"]
    /\ plan = [r \in Runs |-> {}]
    /\ rec = [r \in Runs |-> Absent]
    /\ memory = [r \in Runs |-> Absent]
    /\ file = [r \in Runs |-> Absent]
    /\ html = [r \in Runs |-> Absent]

-----------------------------------------------------------------------------
(* Persisting and reading a record *)

\* Mutant: a file that cannot be written is only reported.
UpdateDropsUnwritten(r, new) ==
    /\ rec' = [rec EXCEPT ![r] = new]
    /\ \/ Folder /\ file' = [file EXCEPT ![r] = new]
       \/ UNCHANGED file
    /\ UNCHANGED <<memory, html>>

\* update and persistLocked: the change, and the record as a whole to its file,
\* or to memory when there is no folder or the file cannot be written.  A copy in
\* memory stays there when a later write succeeds.
Update(r, new) ==
    /\ rec' = [rec EXCEPT ![r] = new]
    /\ \/ Folder /\ file' = [file EXCEPT ![r] = new] /\ UNCHANGED memory
       \/ memory' = [memory EXCEPT ![r] = new] /\ UNCHANGED file
    /\ UNCHANGED html

-----------------------------------------------------------------------------
(* The operations of the manager *)

StartRun(S) ==
    /\ started < MaxRuns /\ S # {}
    /\ started' = started + 1
    /\ active' = started + 1
    /\ pc' = [pc EXCEPT ![started + 1] = "identify"]
    /\ plan' = [plan EXCEPT ![started + 1] = S]
    /\ Update(started + 1, [status |-> "running", results |-> NoResults])
    /\ UNCHANGED <<crashes, cancelled, aborted>>

\* Mutant: the check for a run in progress is missing.
StartUnchecked(S) == StartRun(S)

\* start refuses while a run is in progress and when nothing is selected.
Start(S) == active = 0 /\ StartRun(S)

\* Mutant: the status is set where the cancel is asked for.
CancelMarks ==
    /\ active # 0
    /\ cancelled' = cancelled \cup {active}
    /\ rec' = [rec EXCEPT ![active].status = "cancelled"]
    /\ UNCHANGED <<active, started, crashes, pc, plan, aborted, memory, file, html>>

\* Cancel is accepted until the run is released, also after its record is final.
Cancel ==
    /\ active # 0
    /\ cancelled' = cancelled \cup {active}
    /\ UNCHANGED <<active, started, crashes, pc, plan, aborted, rec, memory, file, html>>

\* The process dies and is started again: nothing resumes a run.
Crash ==
    /\ crashes < MaxCrashes
    /\ crashes' = crashes + 1
    /\ active' = 0
    /\ pc' = [r \in Runs |-> IF pc[r] = "none" THEN "none" ELSE "past"]
    /\ memory' = [r \in Runs |-> Absent]
    /\ UNCHANGED <<started, cancelled, plan, aborted, rec, file, html>>

-----------------------------------------------------------------------------
(* execute, the goroutine of run r *)

Goto(r, from, to) == pc[r] = from /\ pc' = [pc EXCEPT ![r] = to]
OthersUnchanged == UNCHANGED <<active, started, crashes, cancelled>>

Identify(r) ==
    /\ Goto(r, "identify", "plan")
    /\ Update(r, rec[r])
    /\ UNCHANGED <<plan, aborted>> /\ OthersUnchanged

\* applicable leaves out the test cases of use cases the device does not
\* advertise; nothing may be left.
Applicable(r) ==
    /\ Goto(r, "plan", "loop")
    /\ \E keep \in SUBSET plan[r] : plan' = [plan EXCEPT ![r] = keep]
    /\ Update(r, rec[r])
    /\ UNCHANGED aborted /\ OthersUnchanged

Todo(r)        == {c \in plan[r] : rec[r].results[c] = "none"}
RegularTodo(r) == Todo(r) \ CleanupCases
Precedes(c, d) == IF c \in CleanupCases THEN d \in CleanupCases /\ c < d
                                       ELSE d \in CleanupCases \/ c < d
IsNext(r, c) == c \in Todo(r) /\ \A d \in Todo(r) : ~Precedes(d, c)

WithResult(r, c, o) == [status  |-> rec[r].status,
                       results |-> [rec[r].results EXCEPT ![c] = o]]

Begin(r, c) ==
    /\ IsNext(r, c) /\ c \notin CleanupCases
    /\ Goto(r, "loop", "testing")
    /\ Update(r, rec[r])
    /\ UNCHANGED <<plan, aborted>> /\ OthersUnchanged

\* Mutant: only the disconnection is looked at before a test case.
BeginCaseCancelled(r, c) == r \notin aborted /\ Begin(r, c)

BeginCase(r, c) == r \notin cancelled \cup aborted /\ Begin(r, c)

\* The test case returns a result; a cancelled run's may be not_run.  Unless the
\* run is cancelled the device must still be connected or come back.
EndCase(r, c) ==
    /\ IsNext(r, c) /\ c \notin CleanupCases
    /\ Goto(r, "testing", "loop")
    /\ \E o \in {"passed", "failed", "skipped"} \cup (IF r \in cancelled THEN {"not_run"} ELSE {}) :
          Update(r, WithResult(r, c, o))
    /\ \/ UNCHANGED aborted
       \/ r \notin cancelled /\ aborted' = aborted \cup {r}
    /\ UNCHANGED plan /\ OthersUnchanged

RecordResult(r, c, o) ==
    /\ pc[r] = "loop" /\ IsNext(r, c)
    /\ Update(r, WithResult(r, c, o))
    /\ UNCHANGED <<pc, plan, aborted>> /\ OthersUnchanged

\* Mutant: nothing passes over the rest of a cancelled run.
SkipCaseAbortedOnly(r, c) ==
    r \in aborted /\ c \notin CleanupCases /\ RecordResult(r, c, "not_run")

SkipCase(r, c) ==
    r \in cancelled \cup aborted /\ c \notin CleanupCases /\ RecordResult(r, c, "not_run")

CleanupOn(r, c, gone) ==
    /\ c \in CleanupCases
    /\ \E o \in IF gone THEN {"not_run"} ELSE {"passed", "failed", "skipped"} : RecordResult(r, c, o)

\* Mutant: cleanup test cases share the run's context.
CleanupCancellable(r, c) == CleanupOn(r, c, r \in aborted \cup cancelled)

\* A cleanup test case runs on a context of its own, only a device that is gone
\* is spared it.
CleanupCase(r, c) == CleanupOn(r, c, r \in aborted)

FinalStatusOf(r, someFailed) ==
    IF r \in cancelled THEN {"cancelled"}
    ELSE IF r \in aborted THEN {"aborted"}
    ELSE IF someFailed THEN {"failed"} ELSE {"passed", "failed"}

\* Mutants: a disconnection outranks the cancellation; a failed test case counts
\* only through the run-level checks; a run may be skipped like a test case.
FinalStatusAbortedFirst(r) == IF r \in aborted THEN {"aborted"} ELSE FinalStatusOf(r, FALSE)
FinalStatusChecksOnly(r) == FinalStatusOf(r, FALSE)
FinalStatusSkipped(r) == {"skipped"} \cup FinalStatusOf(r, FALSE)

\* finalStatus; a run-level check may fail a run whose test cases all passed.
FinalStatus(r) == FinalStatusOf(r, \E c \in Cases : rec[r].results[c] = "failed")

Conclude(r) ==
    /\ Goto(r, "loop", "final")
    /\ \E s \in FinalStatus(r) : Update(r, [status |-> s, results |-> rec[r].results])
    /\ UNCHANGED <<plan, aborted>> /\ OthersUnchanged

Finish(r) == Todo(r) = {} /\ Conclude(r)

\* writeHTML, which may fail.
WriteHTML(r) ==
    /\ Goto(r, "final", "html")
    /\ \/ Folder /\ html' = [html EXCEPT ![r] = rec[r]]
       \/ UNCHANGED html
    /\ UNCHANGED <<plan, aborted, rec, memory, file>> /\ OthersUnchanged

\* The manager is free again before done is closed.
Release(r) ==
    /\ Goto(r, "html", "done")
    /\ active' = 0
    /\ UNCHANGED <<started, crashes, cancelled, plan, aborted, rec, memory, file, html>>

Execute(r) ==
    \/ Identify(r) \/ Applicable(r) \/ Finish(r) \/ WriteHTML(r) \/ Release(r)
    \/ \E c \in Cases : BeginCase(r, c) \/ EndCase(r, c) \/ SkipCase(r, c) \/ CleanupCase(r, c)

Next ==
    \/ \E S \in Selections : Start(S)
    \/ Cancel
    \/ Crash
    \/ \E r \in Runs : Execute(r)

Spec == Init /\ [][Next]_vars

\* The goroutine goes on: every request it makes and every step of a test case
\* has a timeout.
FairSpec == Spec /\ \A r \in Runs : WF_vars(Execute(r))

-----------------------------------------------------------------------------
(* Properties *)

\* One run at a time per process: the goroutine of every run but the one the
\* manager holds has returned or not begun, so no two of them ever drive the
\* device together, also across cancels, crashes and late releases.
OneRun == \A r \in Runs : pc[r] \in Alive <=> active = r

Terminal(r) == rec[r].status \in Final

\* A final record reports every planned test case and no other, and its status
\* says what it holds: a passed run has no failed and no unexecuted test case,
\* and cancelled and aborted are said only of runs that were.
StatusSound ==
    \A r \in Runs : Terminal(r) =>
        /\ \A c \in Cases : c \in plan[r] <=> rec[r].results[c] # "none"
        /\ rec[r].status = "passed" =>
               \A c \in plan[r] : rec[r].results[c] \in {"passed", "skipped"}
        /\ rec[r].status = "failed" => \A c \in plan[r] : rec[r].results[c] # "not_run"
        /\ rec[r].status = "cancelled" => r \in cancelled
        /\ rec[r].status = "aborted" => r \in aborted

\* Results come in the order of the run, and once a regular test case was not
\* run, by a cancel or a disconnection, no later one is: the rest is not_run.
RestIsNotRun ==
    \A r \in Runs : \A c, d \in plan[r] : Precedes(c, d) =>
        /\ rec[r].results[d] # "none" => rec[r].results[c] # "none"
        /\ rec[r].results[c] = "not_run" /\ d \notin CleanupCases =>
               rec[r].results[d] \in {"none", "not_run"}

\* Cleanup always runs, also after a cancellation, so the device is returned to
\* a neutral state; only a device that is gone is spared it.
CleanupRuns ==
    \A r \in Runs : \A c \in CleanupCases :
        rec[r].results[c] = "not_run" => r \in aborted

\* A prefix of the record: fewer results, the same ones, and no other verdict.
Earlier(old, new) ==
    \/ old = Absent
    \/ /\ old.status \in {"running", new.status}
       /\ \A c \in Cases : old.results[c] \in {"none", new.results[c]}

\* While the process lives the record is always held in full by its file or by
\* the copy in memory, whichever writes failed; and every other copy, the one a
\* crash leaves behind too, is an earlier state of the same record.
LatestKept ==
    \A r \in Runs :
        /\ pc[r] \notin {"none", "past"} => rec[r] \in {memory[r], file[r]}
        /\ \A copy \in {memory[r], file[r], html[r]} : Earlier(copy, rec[r])

\* A reported result never changes, and neither does anything of a record once
\* its status is final: not by a late cancel, a crash or the next run.
ReportStable ==
    [][\A r \in Runs :
          /\ \A c \in Cases : rec[r].results[c] # "none" => rec'[r].results[c] = rec[r].results[c]
          /\ Terminal(r) => rec'[r] = rec[r]]_vars

\* Every run that is started returns, cancelled or not, unless the process dies.
EveryRunEnds == \A r \in Runs : started = r ~> pc[r] \in {"done", "past"}

\* What a client of the manager may rely on: see RunLifecycle.
State(r) == IF rec[r].status = "running" /\ pc[r] = "past" THEN "lost" ELSE rec[r].status

Lifecycle == INSTANCE RunLifecycle WITH
    slot <- active, state <- [r \in Runs |-> State(r)], wished <- cancelled
ImplementsLifecycle == Lifecycle!Spec
=============================================================================
