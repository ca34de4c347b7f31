---------------------------- MODULE TestRunProofs ----------------------------
(* Proofs that the manager runs one run at a time, that a final record is    *)
(* sound and complete, that the latest record is never lost while the        *)
(* process lives, and that the manager implements RunLifecycle, for any      *)
(* catalog, any selections and any number of runs and crashes.               *)
EXTENDS TestRun, TLAPS

\* Runs are started in order; one that was not is nowhere.
NotStarted ==
    \A r \in Runs :
        /\ r > started <=> pc[r] = "none"
        /\ pc[r] = "none" => /\ rec[r] = Absent /\ memory[r] = Absent
                             /\ file[r] = Absent /\ html[r] = Absent

\* The status follows the goroutine, and a test case that runs was begun when
\* neither a cancel nor a disconnection had left another one out.
Stage ==
    \A r \in Runs :
        /\ pc[r] \in {"identify", "plan", "loop", "testing"} => rec[r].status = "running"
        /\ pc[r] \in {"final", "html", "done"} => Terminal(r)
        /\ pc[r] = "past" => rec[r].status # "absent"
        /\ pc[r] \in {"identify", "plan"} => rec[r].results = NoResults
        /\ pc[r] = "testing" => \A c \in Cases : rec[r].results[c] # "not_run"

\* Results are of planned test cases, and one that is not_run has its reason.
Explained ==
    \A r \in Runs : \A c \in Cases :
        /\ rec[r].results[c] # "none" => c \in plan[r]
        /\ rec[r].results[c] = "not_run" => r \in cancelled \cup aborted

\* The inductive invariant.
IInv == /\ TypeOK /\ OneRun /\ NotStarted /\ Stage /\ Explained
        /\ StatusSound /\ RestIsNotRun /\ CleanupRuns /\ LatestKept

-----------------------------------------------------------------------------
(* Records *)

LEMMA Sizes == MaxRuns \in Nat /\ MaxCrashes \in Nat /\ CleanupCases \subseteq Cases
               /\ Cases \subseteq Nat
  BY ConstantsOK DEF ConstantsOK

LEMMA AbsentRecord ==
    /\ Absent \in Record
    /\ [status |-> "running", results |-> NoResults] \in Record
    /\ \A c \in Cases : NoResults[c] = "none"
  BY DEF Absent, Record, NoResults, Outcome, Final

\* Recording a result changes that result only.
LEMMA ResultRecorded ==
    ASSUME TypeOK, NEW r \in Runs, NEW c \in Cases, NEW o \in Outcome
    PROVE  /\ WithResult(r, c, o) \in Record
           /\ WithResult(r, c, o).status = rec[r].status
           /\ WithResult(r, c, o).results[c] = o
           /\ \A d \in Cases : d # c =>
                 WithResult(r, c, o).results[d] = rec[r].results[d]
  BY DEF TypeOK, Record, WithResult

\* A change the goroutine may make to its record: more results, the same ones.
Grows(old, new) ==
    /\ old.status = "running"
    /\ \A c \in Cases : old.results[c] \in {"none", new.results[c]}

\* An update leaves the copies of the record typed, one of them the latest and
\* the others earlier ones.
LEMMA UpdateKeeps ==
    ASSUME TypeOK, LatestKept, NEW r \in Runs, NEW new \in Record,
           Update(r, new), Grows(rec[r], new),
           \A q \in Runs : q # r => pc'[q] = pc[q]
    PROVE  /\ rec' \in [Runs -> Record] /\ memory' \in [Runs -> Record]
           /\ file' \in [Runs -> Record] /\ html' \in [Runs -> Record]
           /\ rec'[r] = new /\ \A q \in Runs : q # r => rec'[q] = rec[q]
           /\ LatestKept'
<1>1. /\ rec' \in [Runs -> Record] /\ memory' \in [Runs -> Record]
      /\ file' \in [Runs -> Record] /\ html' \in [Runs -> Record]
  BY DEF TypeOK, Update
<1>2. rec'[r] = new /\ \A q \in Runs : q # r => rec'[q] = rec[q]
  BY DEF TypeOK, Update
<1>3. \A q \in Runs : q # r => memory'[q] = memory[q] /\ file'[q] = file[q] /\ html'[q] = html[q]
  BY DEF TypeOK, Update
<1>4. ASSUME NEW copy \in Record, Earlier(copy, rec[r]) PROVE Earlier(copy, new)
  <2>1. CASE copy = Absent
    BY <2>1 DEF Earlier
  <2>2. CASE copy # Absent
    BY <1>4, <2>2 DEF Earlier, Grows
  <2> QED
    BY <2>1, <2>2
<1>5. Earlier(new, new)
  BY DEF Earlier
<1>6. /\ new \in {memory'[r], file'[r]}
      /\ memory'[r] \in {memory[r], new} /\ file'[r] \in {file[r], new} /\ html'[r] = html[r]
  BY DEF TypeOK, Update
<1>7. /\ Earlier(memory[r], rec[r]) /\ Earlier(file[r], rec[r]) /\ Earlier(html[r], rec[r])
      /\ memory[r] \in Record /\ file[r] \in Record /\ html[r] \in Record
  BY DEF TypeOK, LatestKept
<1>8. Earlier(memory'[r], new) /\ Earlier(file'[r], new) /\ Earlier(html'[r], new)
  BY <1>4, <1>5, <1>6, <1>7
<1>9. ASSUME NEW q \in Runs
      PROVE  /\ pc'[q] \notin {"none", "past"} => rec'[q] \in {memory'[q], file'[q]}
             /\ \A copy \in {memory'[q], file'[q], html'[q]} : Earlier(copy, rec'[q])
  <2>1. CASE q = r
    BY <2>1, <1>2, <1>6, <1>8
  <2>2. CASE q # r
    BY <2>2, <1>2, <1>3 DEF LatestKept
  <2> QED
    BY <2>1, <2>2
<1>10. LatestKept'
  BY <1>9 DEF LatestKept, Earlier
<1> QED
  BY <1>1, <1>2, <1>10

\* An update that only records what is abstracted here.
LEMMA SameGrows ==
    ASSUME NEW r \in Runs, rec[r].status = "running" PROVE Grows(rec[r], rec[r])
  BY DEF Grows

\* A goroutine that goes from one place to another stays the only one.
LEMMA GotoKeeps ==
    ASSUME TypeOK, OneRun, NotStarted, NEW r \in Runs, NEW from \in Alive, NEW to \in Alive,
           Goto(r, from, to), active' = active, started' = started
    PROVE  /\ pc' \in [Runs -> PC] /\ pc'[r] = to
           /\ \A q \in Runs : q # r => pc'[q] = pc[q]
           /\ OneRun'
           /\ \A q \in Runs : q > started' <=> pc'[q] = "none"
  BY DEF TypeOK, OneRun, NotStarted, Goto, Alive, PC

\* What a step that leaves the record as it is has to keep: only Stage looks at
\* where the goroutine stands.
LEMMA SameRecordInv ==
    ASSUME IInv, NEW r \in Runs, NEW from \in Alive, NEW to \in Alive,
           Goto(r, from, to), Update(r, rec[r]), rec[r].status = "running",
           plan' \in [Runs -> SUBSET Cases],
           \A q \in Runs : \A c \in Cases : rec[q].results[c] # "none" =>
               (c \in plan'[q] <=> c \in plan[q]),
           \A q \in Runs : Terminal(q) => plan'[q] = plan[q],
           \A q \in Runs : plan'[q] \subseteq plan[q],
           aborted' = aborted, OthersUnchanged,
           to \in {"plan", "loop", "testing"},
           to = "plan" => rec[r].results = NoResults,
           to = "testing" => \A c \in Cases : rec[r].results[c] # "not_run"
    PROVE  IInv'
<1> USE DEF IInv, OthersUnchanged
<1>1. /\ pc' \in [Runs -> PC] /\ pc'[r] = to /\ \A q \in Runs : q # r => pc'[q] = pc[q]
      /\ OneRun' /\ \A q \in Runs : q > started' <=> pc'[q] = "none"
  BY GotoKeeps
<1>2. /\ memory' \in [Runs -> Record] /\ file' \in [Runs -> Record] /\ html' \in [Runs -> Record]
      /\ LatestKept'
  BY <1>1, UpdateKeeps, SameGrows DEF TypeOK
<1>3. rec' = rec
  BY DEF TypeOK, Update
<1>4. TypeOK'
  BY <1>1, <1>2, <1>3 DEF TypeOK
<1>5. NotStarted'
  <2>1. \A q \in Runs : q # r => memory'[q] = memory[q] /\ file'[q] = file[q] /\ html'[q] = html[q]
    BY DEF TypeOK, Update
  <2>2. pc'[r] # "none"
    BY <1>1
  <2> QED
    BY <1>1, <1>3, <2>1, <2>2 DEF NotStarted
<1>6. Stage'
  BY <1>1, <1>3 DEF Stage, Terminal
<1>7. Explained' /\ CleanupRuns'
  BY <1>3 DEF Explained, CleanupRuns
<1>8. StatusSound'
  BY <1>3 DEF StatusSound, Terminal
<1>9. RestIsNotRun'
  BY <1>3 DEF RestIsNotRun, Precedes
<1> QED
  BY <1>1, <1>2, <1>4, <1>5, <1>6, <1>7, <1>8, <1>9

LEMMA IdentifyInv == ASSUME IInv, NEW r \in Runs, Identify(r) PROVE IInv'
<1> USE DEF IInv, Identify
<1>1. pc[r] = "identify" /\ rec[r].status = "running" /\ rec[r].results = NoResults
  BY DEF Goto, Stage
<1>2. plan' \in [Runs -> SUBSET Cases] /\ plan' = plan
  BY DEF TypeOK
<1> QED
  BY <1>1, <1>2, SameRecordInv DEF Alive

LEMMA ApplicableInv == ASSUME IInv, NEW r \in Runs, Applicable(r) PROVE IInv'
<1> USE DEF IInv, Applicable
<1>1. pc[r] = "plan" /\ rec[r].status = "running" /\ rec[r].results = NoResults
  BY DEF Goto, Stage
<1>2. /\ plan' \in [Runs -> SUBSET Cases]
      /\ \A q \in Runs : q # r => plan'[q] = plan[q]
      /\ \A q \in Runs : plan'[q] \subseteq plan[q]
  BY DEF TypeOK
<1>3. \A q \in Runs : \A c \in Cases : rec[q].results[c] # "none" =>
         (c \in plan'[q] <=> c \in plan[q])
  BY <1>1, <1>2, AbsentRecord
<1>4. \A q \in Runs : Terminal(q) => plan'[q] = plan[q]
  BY <1>1, <1>2 DEF Terminal, Final
<1> QED
  BY <1>1, <1>2, <1>3, <1>4, SameRecordInv DEF Alive

LEMMA BeginCaseInv ==
    ASSUME IInv, NEW r \in Runs, NEW c \in Cases, BeginCase(r, c) PROVE IInv'
<1> USE DEF IInv, BeginCase, Begin
<1>1. pc[r] = "loop" /\ rec[r].status = "running"
  BY DEF Goto, Stage
<1>2. plan' \in [Runs -> SUBSET Cases] /\ plan' = plan
  BY DEF TypeOK
<1>3. \A d \in Cases : rec[r].results[d] # "not_run"
  BY DEF Explained
<1> QED
  BY <1>1, <1>2, <1>3, SameRecordInv DEF Alive

-----------------------------------------------------------------------------
(* Steps that record a result *)

\* A result recorded in its turn and for its reason.
LEMMA RecordedInv ==
    ASSUME IInv, NEW r \in Runs, NEW c \in Cases, NEW o \in Outcome \ {"none"},
           IsNext(r, c), Update(r, WithResult(r, c, o)), rec[r].status = "running",
           pc' \in [Runs -> PC], pc[r] \in Alive, pc'[r] = "loop",
           \A q \in Runs : q # r => pc'[q] = pc[q],
           UNCHANGED plan, OthersUnchanged,
           aborted \subseteq aborted', aborted' \in SUBSET Runs,
           \A q \in Runs : q # r => (q \in aborted' <=> q \in aborted),
           o = "not_run" => r \in (IF c \in CleanupCases THEN aborted ELSE cancelled \cup aborted),
           \/ o = "not_run" \/ c \in CleanupCases
           \/ \A d \in Cases : rec[r].results[d] # "not_run"
    PROVE  IInv'
<1> USE DEF IInv, OthersUnchanged
<1>1. /\ WithResult(r, c, o) \in Record /\ WithResult(r, c, o).status = "running"
      /\ WithResult(r, c, o).results[c] = o
      /\ \A d \in Cases : d # c => WithResult(r, c, o).results[d] = rec[r].results[d]
  BY ResultRecorded
<1>2. c \in plan[r] /\ rec[r].results[c] = "none"
      /\ \A d \in plan[r] : rec[r].results[d] = "none" => ~Precedes(d, c)
  BY DEF IsNext, Todo
<1>3. Grows(rec[r], WithResult(r, c, o))
  BY <1>1, <1>2 DEF Grows
<1>4. /\ rec' \in [Runs -> Record] /\ memory' \in [Runs -> Record]
      /\ file' \in [Runs -> Record] /\ html' \in [Runs -> Record]
      /\ rec'[r] = WithResult(r, c, o) /\ \A q \in Runs : q # r => rec'[q] = rec[q]
      /\ LatestKept'
  BY <1>1, <1>3, UpdateKeeps
<1>5. /\ rec'[r].status = "running" /\ rec'[r].results[c] = o
      /\ \A d \in Cases : d # c => rec'[r].results[d] = rec[r].results[d]
  BY <1>1, <1>4
<1>6. TypeOK'
  BY <1>4 DEF TypeOK
<1>7. OneRun'
  BY DEF OneRun, Alive
<1>8. NotStarted'
  <2>1. \A q \in Runs : q # r => memory'[q] = memory[q] /\ file'[q] = file[q] /\ html'[q] = html[q]
    BY DEF TypeOK, Update
  <2> QED
    BY <1>4, <2>1 DEF NotStarted, Alive
<1>9. Stage'
  BY <1>4, <1>5 DEF Stage, Terminal
<1>10. Explained'
  BY <1>2, <1>4, <1>5, Sizes DEF Explained
<1>11. CleanupRuns'
  BY <1>4, <1>5, Sizes DEF CleanupRuns
<1>12. StatusSound'
  <2>1. ~Terminal(r)' /\ \A q \in Runs : q # r => (Terminal(q)' <=> Terminal(q))
    BY <1>4, <1>5 DEF Terminal, Final
  <2> QED
    BY <1>4, <2>1 DEF StatusSound
<1>13. RestIsNotRun'
  <2>1. ASSUME NEW d \in plan[r], NEW e \in plan[r], Precedes(d, e)
        PROVE  /\ rec'[r].results[e] # "none" => rec'[r].results[d] # "none"
               /\ rec'[r].results[d] = "not_run" /\ e \notin CleanupCases =>
                      rec'[r].results[e] \in {"none", "not_run"}
    <3>1. d \in Cases /\ e \in Cases
      BY DEF TypeOK
    <3>2. d # e
      BY <2>1, <3>1, Sizes DEF Precedes
    <3>3. CASE d = c
      <4>1. rec[r].results[e] = "none"
        BY <1>2, <2>1, <3>3 DEF RestIsNotRun
      <4> QED
        BY <1>5, <3>1, <3>2, <3>3, <4>1
    <3>4. CASE e = c
      BY <1>2, <1>5, <2>1, <3>1, <3>2, <3>4
    <3>5. CASE d # c /\ e # c
      BY <1>5, <2>1, <3>1, <3>5 DEF RestIsNotRun
    <3> QED
      BY <3>3, <3>4, <3>5
  <2>2. ASSUME NEW q \in Runs, NEW d \in plan[q], NEW e \in plan[q], Precedes(d, e)
        PROVE  /\ rec'[q].results[e] # "none" => rec'[q].results[d] # "none"
               /\ rec'[q].results[d] = "not_run" /\ e \notin CleanupCases =>
                      rec'[q].results[e] \in {"none", "not_run"}
    <3>1. CASE q = r
      BY <2>1, <2>2, <3>1
    <3>2. CASE q # r
      BY <1>4, <2>2, <3>2 DEF RestIsNotRun
    <3> QED
      BY <3>1, <3>2
  <2> QED
    BY <2>2 DEF RestIsNotRun, Precedes
<1> QED
  BY <1>4, <1>6, <1>7, <1>8, <1>9, <1>10, <1>11, <1>12, <1>13

LEMMA EndCaseInv ==
    ASSUME IInv, NEW r \in Runs, NEW c \in Cases, EndCase(r, c) PROVE IInv'
<1> USE DEF IInv, EndCase
<1>1. PICK o \in {"passed", "failed", "skipped"} \cup (IF r \in cancelled THEN {"not_run"} ELSE {}) :
          Update(r, WithResult(r, c, o))
  OBVIOUS
<1>2. o \in Outcome \ {"none"} /\ (o = "not_run" => r \in cancelled)
  BY DEF Outcome
<1>3. /\ pc[r] = "testing" /\ pc' \in [Runs -> PC] /\ pc'[r] = "loop"
      /\ \A q \in Runs : q # r => pc'[q] = pc[q]
  BY DEF TypeOK, Goto, PC, Alive
<1>4. rec[r].status = "running" /\ \A d \in Cases : rec[r].results[d] # "not_run"
  BY <1>3 DEF Stage
<1>5. /\ aborted \subseteq aborted' /\ aborted' \in SUBSET Runs
      /\ \A q \in Runs : q # r => (q \in aborted' <=> q \in aborted)
  BY DEF TypeOK
<1> QED
  BY <1>1, <1>2, <1>3, <1>4, <1>5, RecordedInv DEF Alive

LEMMA SkipCaseInv ==
    ASSUME IInv, NEW r \in Runs, NEW c \in Cases, SkipCase(r, c) PROVE IInv'
<1> USE DEF IInv, SkipCase, RecordResult
<1>1. "not_run" \in Outcome \ {"none"}
  BY DEF Outcome
<1>2. rec[r].status = "running" /\ pc' \in [Runs -> PC]
  BY DEF Stage, TypeOK
<1>3. aborted' \in SUBSET Runs
  BY DEF TypeOK
<1> QED
  BY <1>1, <1>2, <1>3, RecordedInv DEF Alive

LEMMA CleanupCaseInv ==
    ASSUME IInv, NEW r \in Runs, NEW c \in Cases, CleanupCase(r, c) PROVE IInv'
<1> USE DEF IInv, CleanupCase, CleanupOn, RecordResult
<1>1. PICK o \in IF r \in aborted THEN {"not_run"} ELSE {"passed", "failed", "skipped"} :
          RecordResult(r, c, o)
  OBVIOUS
<1>2. o \in Outcome \ {"none"} /\ (o = "not_run" => r \in aborted)
  BY DEF Outcome
<1>3. rec[r].status = "running" /\ pc' \in [Runs -> PC]
  BY <1>1 DEF Stage, TypeOK
<1>4. aborted' \in SUBSET Runs
  BY <1>1 DEF TypeOK
<1> QED
  BY <1>1, <1>2, <1>3, <1>4, RecordedInv DEF Alive

-----------------------------------------------------------------------------
(* The end of a run *)

\* finalStatus agrees with the results, which Explained lets it know of only
\* through the cancel and the disconnection.
LEMMA FinalStatusSound ==
    ASSUME IInv, NEW r \in Runs, NEW s \in FinalStatus(r)
    PROVE  /\ s \in Final
           /\ s = "passed" => \A c \in plan[r] : rec[r].results[c] \notin {"failed", "not_run"}
           /\ s = "failed" => \A c \in plan[r] : rec[r].results[c] # "not_run"
           /\ s = "cancelled" <=> r \in cancelled
           /\ s = "aborted" => r \in aborted
  BY DEF IInv, TypeOK, FinalStatus, FinalStatusOf, Final, Explained

LEMMA FinishInv == ASSUME IInv, NEW r \in Runs, Finish(r) PROVE IInv'
<1> USE DEF IInv, Finish, Conclude, OthersUnchanged
<1>1. PICK s \in FinalStatus(r) : Update(r, [status |-> s, results |-> rec[r].results])
  OBVIOUS
<1> DEFINE new == [status |-> s, results |-> rec[r].results]
<1>2. /\ s \in Final
      /\ new \in Record /\ new.status = s /\ new.results = rec[r].results
  BY FinalStatusSound DEF TypeOK, Record
<1>3. rec[r].status = "running"
  BY DEF Goto, Stage
<1>4. /\ pc' \in [Runs -> PC] /\ pc'[r] = "final" /\ \A q \in Runs : q # r => pc'[q] = pc[q]
      /\ OneRun' /\ \A q \in Runs : q > started' <=> pc'[q] = "none"
  BY GotoKeeps DEF Alive
<1>5. Grows(rec[r], new)
  BY <1>2, <1>3 DEF Grows
<1>6. /\ rec' \in [Runs -> Record] /\ memory' \in [Runs -> Record]
      /\ file' \in [Runs -> Record] /\ html' \in [Runs -> Record]
      /\ rec'[r] = new /\ \A q \in Runs : q # r => rec'[q] = rec[q]
      /\ LatestKept'
  <2>1. Update(r, new)
    BY <1>1
  <2> HIDE DEF new
  <2> QED
    BY <2>1, <1>2, <1>4, <1>5, UpdateKeeps
<1>7. rec'[r].status = s /\ rec'[r].results = rec[r].results
  BY <1>2, <1>6
<1> HIDE DEF new
<1>8. TypeOK'
  BY <1>4, <1>6 DEF TypeOK
<1>9. NotStarted'
  <2>1. \A q \in Runs : q # r => memory'[q] = memory[q] /\ file'[q] = file[q] /\ html'[q] = html[q]
    BY <1>1 DEF TypeOK, Update
  <2>2. pc'[r] # "none"
    BY <1>4
  <2> QED
    BY <1>4, <1>6, <2>1, <2>2 DEF NotStarted
<1>10. Stage'
  BY <1>2, <1>4, <1>6, <1>7 DEF Stage, Terminal
<1>11. Explained' /\ CleanupRuns'
  BY <1>6, <1>7, Sizes DEF Explained, CleanupRuns
<1>12. RestIsNotRun'
  BY <1>6, <1>7 DEF RestIsNotRun, Precedes
<1>13. StatusSound'
  <2>1. \A c \in Cases : c \in plan[r] <=> rec[r].results[c] # "none"
    BY DEF Todo, Explained
  <2>2. \A c \in plan[r] : rec[r].results[c] \in Outcome
    BY DEF TypeOK, Record
  <2>3. s = "passed" => \A c \in plan[r] : rec[r].results[c] \in {"passed", "skipped"}
    BY <2>1, <2>2, FinalStatusSound DEF Outcome, TypeOK
  <2>4. \A q \in Runs : q # r => (Terminal(q)' <=> Terminal(q))
    BY <1>6 DEF Terminal
  <2> QED
    BY <1>6, <1>7, <2>1, <2>3, <2>4, FinalStatusSound DEF StatusSound
<1> QED
  BY <1>4, <1>6, <1>8, <1>9, <1>10, <1>11, <1>12, <1>13

LEMMA WriteHTMLInv == ASSUME IInv, NEW r \in Runs, WriteHTML(r) PROVE IInv'
<1> USE DEF IInv, WriteHTML, OthersUnchanged
<1>1. /\ pc' \in [Runs -> PC] /\ pc'[r] = "html" /\ \A q \in Runs : q # r => pc'[q] = pc[q]
      /\ OneRun' /\ \A q \in Runs : q > started' <=> pc'[q] = "none"
  BY GotoKeeps DEF Alive
<1>2. /\ pc[r] = "final" /\ html' \in [Runs -> Record]
      /\ html'[r] \in {html[r], rec[r]} /\ \A q \in Runs : q # r => html'[q] = html[q]
  BY DEF TypeOK, Goto
<1>3. TypeOK'
  BY <1>1, <1>2 DEF TypeOK
<1>4. NotStarted'
  BY <1>1, <1>2 DEF NotStarted
<1>5. Stage'
  BY <1>1, <1>2 DEF Stage, Terminal
<1>6. Explained' /\ CleanupRuns' /\ RestIsNotRun' /\ StatusSound'
  BY DEF Explained, CleanupRuns, RestIsNotRun, Precedes, StatusSound, Terminal
<1>7. LatestKept'
  <2>1. Earlier(rec[r], rec[r])
    BY DEF Earlier
  <2> QED
    BY <1>1, <1>2, <2>1 DEF LatestKept, Earlier
<1> QED
  BY <1>1, <1>3, <1>4, <1>5, <1>6, <1>7

LEMMA ReleaseInv == ASSUME IInv, NEW r \in Runs, Release(r) PROVE IInv'
<1> USE DEF IInv, Release
<1>1. /\ pc[r] = "html" /\ pc' \in [Runs -> PC] /\ pc'[r] = "done"
      /\ \A q \in Runs : q # r => pc'[q] = pc[q]
  BY DEF TypeOK, Goto, PC
<1>2. TypeOK'
  BY <1>1, Sizes DEF TypeOK
<1>3. OneRun'
  BY <1>1, Sizes DEF OneRun, Alive, Runs
<1>4. NotStarted' /\ Stage'
  BY <1>1 DEF NotStarted, Stage, Terminal
<1>5. Explained' /\ CleanupRuns' /\ RestIsNotRun' /\ StatusSound'
  BY DEF Explained, CleanupRuns, RestIsNotRun, Precedes, StatusSound, Terminal
<1>6. LatestKept'
  BY <1>1 DEF LatestKept, Earlier
<1> QED
  BY <1>2, <1>3, <1>4, <1>5, <1>6

-----------------------------------------------------------------------------
(* Operations and crashes *)

LEMMA StartInv == ASSUME IInv, NEW S \in Selections, Start(S) PROVE IInv'
<1> USE DEF IInv, Start, StartRun
<1> DEFINE r == started + 1
           new == [status |-> "running", results |-> NoResults]
<1>1. r \in Runs /\ pc[r] = "none" /\ rec[r] = Absent
      /\ memory[r] = Absent /\ file[r] = Absent /\ html[r] = Absent
  BY Sizes DEF TypeOK, Runs, NotStarted
<1>2. /\ new \in Record /\ new.status = "running" /\ new.results = NoResults
      /\ \A c \in Cases : new.results[c] = "none"
  BY AbsentRecord
<1> HIDE DEF new
<1>3. /\ rec' = [rec EXCEPT ![r] = new] /\ html' = html
      /\ \/ file' = [file EXCEPT ![r] = new] /\ memory' = memory
         \/ memory' = [memory EXCEPT ![r] = new] /\ file' = file
  BY DEF Update, new
<1>4. /\ pc' = [pc EXCEPT ![r] = "identify"] /\ plan' = [plan EXCEPT ![r] = S]
      /\ active' = r /\ started' = r /\ active = 0
  OBVIOUS
<1> HIDE DEF Start, StartRun
<1>5. UNCHANGED <<crashes, cancelled, aborted>>
  BY DEF Start, StartRun
<1>6. S \subseteq Cases
  BY ConstantsOK DEF ConstantsOK
<1>7. /\ rec'[r] = new /\ rec' \in [Runs -> Record]
      /\ \A q \in Runs : q # r => /\ rec'[q] = rec[q] /\ memory'[q] = memory[q]
                                  /\ file'[q] = file[q] /\ pc'[q] = pc[q] /\ plan'[q] = plan[q]
      /\ pc'[r] = "identify" /\ pc' \in [Runs -> PC]
  BY <1>1, <1>2, <1>3, <1>4 DEF TypeOK, PC, Alive
<1>8. TypeOK'
  <2>1. memory' \in [Runs -> Record] /\ file' \in [Runs -> Record]
    BY <1>2, <1>3 DEF TypeOK
  <2>2. r \in 0..MaxRuns
    BY <1>1, Sizes DEF Runs
  <2>3. plan' \in [Runs -> SUBSET Cases]
    BY <1>4, <1>6 DEF TypeOK
  <2> QED
    BY <1>3, <1>4, <1>5, <1>7, <2>1, <2>2, <2>3 DEF TypeOK
<1>9. OneRun'
  BY <1>1, <1>4, <1>7, Sizes DEF OneRun, Alive, Runs
<1>10. NotStarted'
  BY <1>1, <1>3, <1>4, <1>7, Sizes DEF NotStarted, TypeOK, Runs
<1>11. Stage'
  BY <1>2, <1>7 DEF Stage, Terminal
<1>12. Explained' /\ CleanupRuns'
  BY <1>2, <1>5, <1>7, Sizes DEF Explained, CleanupRuns
<1>13. RestIsNotRun'
  <2>1. \A c \in plan'[r] : rec'[r].results[c] = "none"
    BY <1>1, <1>2, <1>7, <1>8 DEF TypeOK
  <2> QED
    BY <1>7, <2>1 DEF RestIsNotRun, Precedes
<1>14. StatusSound'
  BY <1>2, <1>5, <1>7 DEF StatusSound, Terminal, Final
<1>15. LatestKept'
  <2>1. Earlier(Absent, new) /\ Earlier(new, new)
    BY DEF Earlier
  <2>2. /\ new \in {memory'[r], file'[r]}
        /\ memory'[r] \in {Absent, new} /\ file'[r] \in {Absent, new} /\ html'[r] = Absent
    BY <1>1, <1>3 DEF TypeOK
  <2>3. ASSUME NEW q \in Runs
        PROVE  /\ pc'[q] \notin {"none", "past"} => rec'[q] \in {memory'[q], file'[q]}
               /\ \A copy \in {memory'[q], file'[q], html'[q]} : Earlier(copy, rec'[q])
    <3>1. CASE q = r
      BY <1>7, <2>1, <2>2, <3>1
    <3>2. CASE q # r
      BY <1>3, <1>7, <3>2 DEF LatestKept
    <3> QED
      BY <3>1, <3>2
  <2> QED
    BY <2>3 DEF LatestKept, Earlier
<1> QED
  BY <1>8, <1>9, <1>10, <1>11, <1>12, <1>13, <1>14, <1>15

LEMMA CancelInv == ASSUME IInv, Cancel PROVE IInv'
<1> USE DEF IInv, Cancel
<1>1. active \in Runs
  BY Sizes DEF TypeOK, Runs
<1>2. TypeOK' /\ OneRun' /\ NotStarted' /\ Stage'
  BY <1>1 DEF TypeOK, OneRun, NotStarted, Stage, Terminal
<1>3. Explained' /\ CleanupRuns' /\ RestIsNotRun' /\ StatusSound'
  BY DEF Explained, CleanupRuns, RestIsNotRun, Precedes, StatusSound, Terminal
<1>4. LatestKept'
  BY DEF LatestKept, Earlier
<1> QED
  BY <1>2, <1>3, <1>4

LEMMA CrashInv == ASSUME IInv, Crash PROVE IInv'
<1> USE DEF IInv, Crash
<1>1. \A q \in Runs : pc'[q] = IF pc[q] = "none" THEN "none" ELSE "past"
  OBVIOUS
<1>2. \A q \in Runs : memory'[q] = Absent
  OBVIOUS
<1>3. TypeOK'
  BY AbsentRecord, Sizes DEF TypeOK, PC
<1>4. OneRun'
  BY <1>1, Sizes DEF OneRun, Alive, Runs
<1>5. NotStarted'
  BY <1>1, <1>2 DEF NotStarted
<1>6. Stage'
  <2>1. \A q \in Runs : pc[q] # "none" => rec[q].status # "absent"
    BY DEF Stage, Terminal, Final, TypeOK, PC, Alive
  <2> QED
    BY <1>1, <2>1 DEF Stage, Terminal
<1>7. Explained' /\ CleanupRuns' /\ RestIsNotRun' /\ StatusSound'
  BY DEF Explained, CleanupRuns, RestIsNotRun, Precedes, StatusSound, Terminal
<1>8. LatestKept'
  <2>1. \A q \in Runs : Earlier(Absent, rec[q])
    BY DEF Earlier
  <2> QED
    BY <1>1, <1>2, <2>1 DEF LatestKept, Earlier
<1> QED
  BY <1>3, <1>4, <1>5, <1>6, <1>7, <1>8

-----------------------------------------------------------------------------
(* The theorems *)

LEMMA InitInv == Init => IInv
<1> SUFFICES ASSUME Init PROVE IInv
  OBVIOUS
<1> USE AbsentRecord, Sizes DEF Init
<1>1. TypeOK
  BY DEF TypeOK, PC, Runs
<1>2. OneRun /\ NotStarted
  BY DEF OneRun, NotStarted, Alive, Runs
<1>3. \A r \in Runs : rec[r].status = "absent" /\ \A c \in Cases : rec[r].results[c] = "none"
  BY DEF Absent
<1>4. Stage /\ Explained /\ CleanupRuns
  BY <1>3 DEF Stage, Explained, CleanupRuns
<1>5. RestIsNotRun /\ StatusSound
  BY <1>3 DEF RestIsNotRun, StatusSound, Terminal, Final
<1>6. LatestKept
  BY DEF LatestKept, Earlier
<1> QED
  BY <1>1, <1>2, <1>4, <1>5, <1>6 DEF IInv

LEMMA StutterInv == IInv /\ UNCHANGED vars => IInv'
  BY DEF IInv, vars, TypeOK, OneRun, NotStarted, Stage, Explained, StatusSound, Terminal,
         RestIsNotRun, Precedes, CleanupRuns, LatestKept, Earlier

LEMMA NextInv == IInv /\ [Next]_vars => IInv'
<1> SUFFICES ASSUME IInv, [Next]_vars PROVE IInv'
  OBVIOUS
<1>1. ASSUME NEW S \in Selections, Start(S) PROVE IInv'
  BY <1>1, StartInv
<1>2. CASE Cancel
  BY <1>2, CancelInv
<1>3. CASE Crash
  BY <1>3, CrashInv
<1>4. ASSUME NEW r \in Runs, Execute(r) PROVE IInv'
  <2>1. CASE Identify(r) \/ Applicable(r) \/ Finish(r) \/ WriteHTML(r) \/ Release(r)
    BY <2>1, IdentifyInv, ApplicableInv, FinishInv, WriteHTMLInv, ReleaseInv
  <2>2. ASSUME NEW c \in Cases, BeginCase(r, c) \/ EndCase(r, c) \/ SkipCase(r, c) \/ CleanupCase(r, c)
        PROVE  IInv'
    BY <2>2, BeginCaseInv, EndCaseInv, SkipCaseInv, CleanupCaseInv
  <2> QED
    BY <1>4, <2>1, <2>2 DEF Execute
<1>5. CASE UNCHANGED vars
  BY <1>5, StutterInv
<1> QED
  BY <1>1, <1>2, <1>3, <1>4, <1>5 DEF Next

THEOREM Invariant == Spec => []IInv
  BY InitInv, NextInv, PTL DEF Spec

\* Types, for any catalog and any number of runs.
THEOREM TypeCorrect == Spec => []TypeOK
  BY Invariant, PTL DEF IInv

\* One run at a time: no two goroutines ever drive the device.
THEOREM OneRunAtATime == Spec => []OneRun
  BY Invariant, PTL DEF IInv

\* A final record reports every planned test case and its status is what the
\* results, the cancel and the disconnection say.
THEOREM FinalRecordSound == Spec => []StatusSound
  BY Invariant, PTL DEF IInv

\* Results come in order and what follows a test case not run is not run.
THEOREM RestNotRun == Spec => []RestIsNotRun
  BY Invariant, PTL DEF IInv

\* Only a device that is gone is spared the cleanup.
THEOREM CleanupAlways == Spec => []CleanupRuns
  BY Invariant, PTL DEF IInv

\* The latest record is never lost while the process lives, and what a crash
\* leaves is an earlier state of it.
THEOREM LatestAlwaysKept == Spec => []LatestKept
  BY Invariant, PTL DEF IInv

\* What a step does to the records: every change grows one that was running.
LEMMA StepReport ==
    ASSUME IInv, [Next]_vars
    PROVE  \A r \in Runs :
              /\ \A c \in Cases : rec[r].results[c] # "none" => rec'[r].results[c] = rec[r].results[c]
              /\ Terminal(r) => rec'[r] = rec[r]
<1> SUFFICES ASSUME NEW q \in Runs
             PROVE  /\ \A c \in Cases : rec[q].results[c] # "none" =>
                                           rec'[q].results[c] = rec[q].results[c]
                    /\ Terminal(q) => rec'[q] = rec[q]
  OBVIOUS
<1> USE DEF IInv
<1>1. ASSUME NEW S \in Selections, Start(S)
      PROVE  rec'[q] = rec[q] \/ rec[q] = Absent
  <2>1. started + 1 \in Runs /\ rec[started + 1] = Absent
    BY <1>1, Sizes DEF Start, StartRun, TypeOK, Runs, NotStarted
  <2> QED
    BY <1>1, <2>1 DEF Start, StartRun, Update, TypeOK
<1>2. ASSUME NEW r \in Runs, Identify(r) \/ Applicable(r) \/ WriteHTML(r) \/ Release(r)
      PROVE  rec'[q] = rec[q]
  BY <1>2 DEF Identify, Applicable, WriteHTML, Release, Update, TypeOK
<1>3. ASSUME NEW r \in Runs, Finish(r)
      PROVE  rec'[q].results = rec[q].results /\ (Terminal(q) => rec'[q] = rec[q])
  <2>1. rec[r].status = "running"
    BY <1>3 DEF Finish, Conclude, Goto, Stage
  <2> QED
    BY <1>3, <2>1 DEF Finish, Conclude, Update, TypeOK, Record, Terminal, Final
<1>4. ASSUME NEW r \in Runs, NEW c \in Cases, BeginCase(r, c)
      PROVE  rec'[q] = rec[q]
  BY <1>4 DEF BeginCase, Begin, Update, TypeOK
<1>5. ASSUME NEW r \in Runs, NEW c \in Cases, EndCase(r, c) \/ SkipCase(r, c) \/ CleanupCase(r, c)
      PROVE  /\ \A d \in Cases : rec[q].results[d] # "none" =>
                                    rec'[q].results[d] = rec[q].results[d]
             /\ Terminal(q) => rec'[q] = rec[q]
  <2>1. rec[r].status = "running" /\ rec[r].results[c] = "none"
    BY <1>5 DEF EndCase, SkipCase, CleanupCase, CleanupOn, RecordResult, Goto, Stage, IsNext, Todo
  <2>2. PICK o \in Outcome : Update(r, WithResult(r, c, o))
    BY <1>5 DEF EndCase, SkipCase, CleanupCase, CleanupOn, RecordResult, Outcome
  <2>3. rec'[r] = WithResult(r, c, o) /\ \A p \in Runs : p # r => rec'[p] = rec[p]
    BY <2>2 DEF Update, TypeOK
  <2>4. \A d \in Cases : d # c => WithResult(r, c, o).results[d] = rec[r].results[d]
    BY ResultRecorded
  <2> QED
    BY <2>1, <2>3, <2>4 DEF Terminal, Final
<1>6. CASE Cancel \/ Crash \/ UNCHANGED vars
  BY <1>6 DEF Cancel, Crash, vars
<1>7. \A c \in Cases : Absent.results[c] = "none"
  BY AbsentRecord DEF Absent
<1>8. rec[q] = Absent => ~Terminal(q)
  BY DEF Absent, Terminal, Final
<1> QED
  BY <1>1, <1>2, <1>3, <1>4, <1>5, <1>6, <1>7, <1>8 DEF Next, Execute

\* A reported result and a final record never change.
THEOREM ReportIsStable == Spec => ReportStable
<1>1. IInv /\ [Next]_vars =>
        [\A r \in Runs :
            /\ \A c \in Cases : rec[r].results[c] # "none" => rec'[r].results[c] = rec[r].results[c]
            /\ Terminal(r) => rec'[r] = rec[r]]_vars
  BY StepReport
<1> QED
  BY <1>1, Invariant, PTL DEF Spec, ReportStable

-----------------------------------------------------------------------------
(* The refinement *)

Status == [r \in Runs |-> State(r)]

\* Every step is one of the abstract lifecycle or changes nothing a client sees.
LEMMA LifecycleStep ==
    IInv /\ [Next]_vars => [Lifecycle!Next]_<<active, Status, cancelled>>
<1> SUFFICES ASSUME IInv, [Next]_vars
             PROVE  Lifecycle!Next \/ UNCHANGED <<active, Status, cancelled>>
  BY DEF Status
<1> USE DEF IInv
<1>1. ASSUME NEW S \in Selections, Start(S) PROVE Lifecycle!Next
  <2> DEFINE r == started + 1
  <2>1. r \in Runs /\ pc[r] = "none" /\ rec[r] = Absent
    BY <1>1, Sizes DEF Start, StartRun, TypeOK, Runs, NotStarted
  <2>2. /\ rec'[r].status = "running" /\ pc'[r] = "identify"
        /\ \A q \in Runs : q # r => rec'[q] = rec[q] /\ pc'[q] = pc[q]
    BY <1>1, <2>1 DEF Start, StartRun, Update, TypeOK
  <2>3. active = 0 /\ active' = r /\ cancelled' = cancelled
    BY <1>1 DEF Start, StartRun
  <2> HIDE DEF r
  <2>4. Status[r] = "absent"
    BY <2>1 DEF Status, State, Absent
  <2>5. Status' = [Status EXCEPT ![r] = "running"]
    BY <2>1, <2>2 DEF Status, State
  <2> QED
    BY <2>1, <2>3, <2>4, <2>5 DEF Lifecycle!Next, Lifecycle!Begin, Status
<1>2. CASE Cancel
  <2>1. Status' = Status
    BY <1>2 DEF Cancel, Status, State
  <2> QED
    BY <1>2, <2>1 DEF Cancel, Lifecycle!Next, Lifecycle!WishCancel, Status
<1>3. CASE Crash
  <2>1. \A q \in Runs : State(q)' = IF State(q) = "running" THEN "lost" ELSE State(q)
    BY <1>3 DEF Crash, State, NotStarted, Absent
  <2>2. Status' = [q \in Runs |-> IF Status[q] = "running" THEN "lost" ELSE Status[q]]
    BY <2>1 DEF Status
  <2> QED
    BY <1>3, <2>2 DEF Crash, Lifecycle!Next, Lifecycle!Die, Status
<1>4. ASSUME NEW r \in Runs, Finish(r) PROVE Lifecycle!Next
  <2>1. PICK s \in FinalStatus(r) : Update(r, [status |-> s, results |-> rec[r].results])
    BY <1>4 DEF Finish, Conclude
  <2>2. s \in Final /\ (s = "cancelled" <=> r \in cancelled)
    BY FinalStatusSound
  <2>3. pc[r] = "loop" /\ pc'[r] = "final" /\ rec[r].status = "running" /\ active = r
    BY <1>4 DEF Finish, Conclude, Goto, Stage, OneRun, Alive, TypeOK
  <2>4. /\ rec'[r].status = s
        /\ \A q \in Runs : q # r => rec'[q] = rec[q] /\ pc'[q] = pc[q]
    BY <1>4, <2>1 DEF Finish, Conclude, Goto, Update, TypeOK
  <2>5. Status[r] = "running"
    BY <2>3 DEF Status, State
  <2>6. Status' = [Status EXCEPT ![r] = s]
    BY <2>2, <2>3, <2>4 DEF Status, State, Final
  <2>7. active' = active /\ cancelled' = cancelled
    BY <1>4 DEF Finish, Conclude, OthersUnchanged
  <2>8. s \in {"passed", "failed", "aborted", "cancelled"}
    BY <2>2 DEF Final
  <2>9. Lifecycle!GiveVerdict(r, s)
    BY <2>2, <2>3, <2>5, <2>6, <2>7 DEF Lifecycle!GiveVerdict, Status
  <2> QED
    BY <2>8, <2>9 DEF Lifecycle!Next
<1>5. ASSUME NEW r \in Runs, Release(r) PROVE Lifecycle!Next
  <2>1. pc[r] = "html" /\ active = r /\ Terminal(r)
    BY <1>5 DEF Release, Goto, OneRun, Alive, Stage
  <2>2. Status' = Status
    BY <1>5 DEF Release, Goto, TypeOK, Status, State
  <2>3. Status[r] \notin {"absent", "running"}
    BY <2>1 DEF Status, State, Terminal, Final
  <2>4. Lifecycle!Free(r)
    BY <1>5, <2>1, <2>2, <2>3 DEF Release, Lifecycle!Free, Status
  <2> QED
    BY <2>4 DEF Lifecycle!Next
<1>6. ASSUME NEW r \in Runs, Identify(r) \/ Applicable(r) \/ WriteHTML(r)
      PROVE  UNCHANGED <<active, Status, cancelled>>
  <2>1. rec' = rec /\ \A q \in Runs : pc'[q] = "past" <=> pc[q] = "past"
    BY <1>6 DEF Identify, Applicable, WriteHTML, Update, Goto, TypeOK
  <2> QED
    BY <1>6, <2>1 DEF Identify, Applicable, WriteHTML, OthersUnchanged, Status, State
<1>7. ASSUME NEW r \in Runs, NEW c \in Cases,
             BeginCase(r, c) \/ EndCase(r, c) \/ SkipCase(r, c) \/ CleanupCase(r, c)
      PROVE  UNCHANGED <<active, Status, cancelled>>
  <2>1. \A q \in Runs : pc'[q] = "past" <=> pc[q] = "past"
    BY <1>7 DEF BeginCase, Begin, EndCase, SkipCase, CleanupCase, CleanupOn, RecordResult, Goto, TypeOK
  <2>2. \A q \in Runs : rec'[q].status = rec[q].status
    <3>1. ASSUME NEW new, Update(r, new), new.status = rec[r].status
          PROVE  \A q \in Runs : rec'[q].status = rec[q].status
      BY <3>1 DEF Update, TypeOK
    <3>2. \A o : WithResult(r, c, o).status = rec[r].status
      BY DEF WithResult
    <3>3. CASE BeginCase(r, c)
      BY <3>1, <3>3 DEF BeginCase, Begin
    <3>4. CASE EndCase(r, c)
      BY <3>1, <3>2, <3>4 DEF EndCase
    <3>5. CASE SkipCase(r, c) \/ CleanupCase(r, c)
      BY <3>1, <3>2, <3>5 DEF SkipCase, CleanupCase, CleanupOn, RecordResult
    <3> QED
      BY <1>7, <3>3, <3>4, <3>5
  <2>3. active' = active /\ cancelled' = cancelled
    BY <1>7 DEF BeginCase, Begin, EndCase, SkipCase, CleanupCase, CleanupOn, RecordResult, OthersUnchanged
  <2> QED
    BY <2>1, <2>2, <2>3 DEF Status, State
<1>8. CASE UNCHANGED vars
  BY <1>8 DEF vars, Status, State
<1> QED
  BY <1>1, <1>2, <1>3, <1>4, <1>5, <1>6, <1>7, <1>8 DEF Next, Execute

\* The manager implements the abstract lifecycle of its runs.
THEOREM Implements == Spec => ImplementsLifecycle
<1>1. Init => Lifecycle!Init
  BY DEF Init, Lifecycle!Init, State, Absent
<1>2. IInv /\ [Next]_vars => [Lifecycle!Next]_<<active, [r \in Runs |-> State(r)], cancelled>>
  BY LifecycleStep DEF Status
<1> QED
  BY <1>1, <1>2, Invariant, PTL DEF Spec, ImplementsLifecycle, Lifecycle!Spec
=============================================================================
