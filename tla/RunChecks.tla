------------------------------ MODULE RunChecks ------------------------------
(***************************************************************************)
(* What a test run says of the wire and of the connection                  *)
(* (internal/testrun/checks.go), over the two bounded records it reads:    *)
(* the frames of FrameTrace and the events of EventBus.                    *)
(*                                                                         *)
(* The frames are sampled by the goroutine that executes the run, after    *)
(* every test case and at the end, and by a ticker beside it.  Both use    *)
(* one tracker, whose mutex is held over the request and the evaluation of *)
(* its answer; a request may fail.  The disconnections are read once, at   *)
(* the end, from the event ring.  Which of them were on purpose is decided *)
(* by time: the test cases that interrupt the connection are recorded with *)
(* the times they started and ended at, an event with a whole second.      *)
(*                                                                         *)
(* Time is a clock of ticks, of which the code's records have a hundred in *)
(* a second; what is nearer than a tick is not told apart.                 *)
(*                                                                         *)
(* Abstracted: the rule counts, the heartbeat times (heartbeatMonitor      *)
(* samples the same way, with another filter), the vehicles, and a run     *)
(* without a device.  The two requests that record where a run starts are  *)
(* one step: nothing compares their answers.  The device's events of level *)
(* lifecycle are its connections and the progress of the run; others (its  *)
(* service, its pairing, a cancel) would take room in the ring and in the  *)
(* request just as these do.  What a source does around the numbering of a *)
(* frame is left out (Capture has it), but not the event it publishes      *)
(* afterwards when the frame has an error.                                 *)
(***************************************************************************)
EXTENDS FrameTrace, EventBus, FiniteSets

CONSTANTS
    Device,        \* the sources that receive the frames of the device under test
    Hub,           \* the goroutine that reports connections
    Manager,       \* the goroutine that executes the run, as a publisher
    TestCases,     \* how many test cases the run has
    Interrupting,  \* the numbers of those that interrupt the connection
    EventLimit,    \* how many events the request for them returns at most
    Second,        \* the ticks of a second
    MaxTime,       \* bound: ticks
    Room(_, _, _)  \* bound: how many ticks, disconnections and frames are explored together

ASSUME RunChecksAssumption ==
    /\ Device \subseteq Sources /\ {Hub, Manager} \cap Sources = {}
    /\ Publishers = Sources \cup {Hub, Manager} /\ Streams = {}
    /\ Kinds = {"dropped", "lifecycle", "spine"}
    /\ TestCases \in Nat /\ Interrupting \subseteq 1..TestCases
    /\ EventLimit \in Nat /\ Second \in Nat \ {0}
    /\ MaxTime \in Nat

Samplers == {"run", "ticker"}

VARIABLES
    owing,     \* the sources that still have to publish the finding of their frame
    run,       \* where the goroutine of the run stands
    case,      \* the test case it is at
    sampling,  \* the ticker has not noticed yet that sampling stopped
    start,     \* where the run starts: ConditionsStart's TraceSeq and EventSeq
    tracker,   \* the conformanceTracker
    page,      \* page[w]: the answer sampler w evaluates; only with the mutex
    connected, \* whether the device is connected
    drops,     \* the disconnections: the number of the event and the time it was
               \* published; when is read by a property only, and tells those before
               \* the run and those in an interrupting test case (purpose) from the others
    now,       \* the clock
    began,     \* StartedAt of the test case the run is at
    windows,   \* StartedAt and the end of the interrupting test cases that are over
    report     \* the checks of the final record

connection == <<connected, drops>>
times == <<now, began, windows>>
runVars == <<owing, run, case, sampling, start, tracker, page, connection, times, report>>
vars == <<traceVars, busVars, runVars>>

Page == [at : {"none", "failed", "got"}, latest : Nat, after : Nat, floor : Nat]
NoPage == [at |-> "none", latest |-> 0, after |-> 0, floor |-> 0]
Verdict == {"none", "passed", "failed", "skipped"}
Drop == [num : 1..MaxEvents, at : 0..MaxTime, when : {"before", "run", "purpose"}]
Interruption == [from : 0..MaxTime, to : 0..MaxTime]

RunTypeOK ==
    /\ owing \subseteq Sources
    /\ run \in {"ready", "testing", "sample", "await", "stop", "final", "check", "done"}
    /\ case \in 0..TestCases
    /\ sampling \in BOOLEAN /\ connected \in BOOLEAN
    /\ start \in [trace : 0..MaxFrames, event : 0..MaxEvents]
    /\ tracker \in [last : 0..MaxFrames, frames : 0..MaxFrames, errors : 0..MaxFrames, overrun : BOOLEAN]
    /\ page \in [Samplers -> Page]
    /\ drops \subseteq Drop
    /\ now \in 0..MaxTime /\ began \in 0..MaxTime /\ windows \subseteq Interruption
    /\ report \in [wire : Verdict, connection : Verdict, atEnd : BOOLEAN]

TypeOK == TraceTypeOK /\ BusTypeOK /\ RunTypeOK

Init ==
    /\ TraceInit /\ BusInit
    /\ owing = {} /\ run = "ready" /\ case = 0 /\ sampling = FALSE
    /\ start = [trace |-> 0, event |-> 0]
    /\ tracker = [last |-> 0, frames |-> 0, errors |-> 0, overrun |-> FALSE]
    /\ page = [w \in Samplers |-> NoPage]
    /\ connected = TRUE /\ drops = {}
    /\ now = 0 /\ began = 0 /\ windows = {}
    /\ report = [wire |-> "none", connection |-> "none", atEnd |-> FALSE]

Tick ==
    /\ now < MaxTime /\ Room(now + 1, Cardinality(drops), Len(log))
    /\ now' = now + 1
    /\ UNCHANGED <<traceVars, busVars, owing, run, case, sampling, start, tracker, page,
                   connection, began, windows, report>>

-----------------------------------------------------------------------------
(* The device *)

\* A frame is numbered; one with an error becomes an event after that.
AddFrame(frame) ==
    /\ Room(now, Cardinality(drops), Len(log) + 1)
    /\ frame.source \notin owing /\ Number(frame)
    /\ owing' = IF frame.error THEN owing \cup {frame.source} ELSE owing
    /\ UNCHANGED <<busVars, run, case, sampling, start, tracker, page, connection, times, report>>

Announce(s) ==
    /\ s \in owing /\ owing' = owing \ {s}
    /\ Post(s, "spine")
    /\ UNCHANGED <<traceVars, run, case, sampling, start, tracker, page, connection, times, report>>

Interrupted == run = "testing" /\ case \in Interrupting
When == IF run = "ready" THEN "before" ELSE IF Interrupted THEN "purpose" ELSE "run"

\* The device disconnects: remote_disconnected.
Disconnect ==
    /\ Room(now, Cardinality(drops) + 1, Len(log))
    /\ connected
    /\ connected' = FALSE
    /\ drops' = drops \cup {[num |-> Len(events) + 1, at |-> now, when |-> When]}
    /\ Post(Hub, "dropped")
    /\ UNCHANGED <<traceVars, owing, run, case, sampling, start, tracker, page, times, report>>

Reconnect ==
    /\ ~connected /\ connected' = TRUE
    /\ Post(Hub, "lifecycle")
    /\ UNCHANGED <<traceVars, owing, run, case, sampling, start, tracker, page, drops, times, report>>

\* A user clears the trace or the events.
ClearTrace == Clear /\ UNCHANGED <<busVars, runVars>>
ClearBus == ClearEvents /\ UNCHANGED <<traceVars, runVars>>

-----------------------------------------------------------------------------
(* Sampling *)

\* The numbers of the device's frames in (from, to].
Received(from, to) == {n \in from + 1 .. to : log[n].source \in Device}
Faulty(from, to) == {n \in Received(from, to) : log[n].error}

Locked == \E w \in Samplers : page[w].at # "none"

\* The request: the newest number and the frames after the cursor that the ring
\* still has.  It is answered or fails.
Request(w) ==
    /\ \E p \in {[at |-> "got", latest |-> Latest, after |-> tracker.last, floor |-> Floor],
                 [at |-> "failed", latest |-> 0, after |-> 0, floor |-> 0]} :
          page' = [page EXCEPT ![w] = p]
    /\ UNCHANGED <<traceVars, busVars, owing, run, case, sampling, start, tracker, connection, times, report>>

\* Mutant: the mutex is not taken.
SampleUnlocked(w) == page[w].at = "none" /\ Request(w)

Sample(w) == ~Locked /\ Request(w)

\* The tracker after the answer p is counted, and whether p misses frames.
Counted(p, misses) ==
    LET from == Higher(p.after, p.floor) IN
    [last    |-> Higher(tracker.last, p.latest),
     frames  |-> tracker.frames + Cardinality(Received(from, p.latest)),
     errors  |-> tracker.errors + Cardinality(Faulty(from, p.latest)),
     overrun |-> tracker.overrun \/ misses]

\* Mutant: losing exactly one frame goes unnoticed.
AfterOffByOne(p) == Counted(p, p.latest - tracker.last > Capacity + 1)
After(p) == Counted(p, p.latest - tracker.last > Capacity)

Evaluate(w) ==
    /\ page[w].at # "none"
    /\ tracker' = IF page[w].at = "got" THEN After(page[w]) ELSE tracker
    /\ page' = [page EXCEPT ![w] = NoPage]
    /\ UNCHANGED <<traceVars, busVars, owing, start, connection, times, report>>

TickerSamples == sampling /\ Sample("ticker")
TickerEvaluates == Evaluate("ticker") /\ UNCHANGED <<run, case, sampling>>

\* The ticker's goroutine notices the end of sampling; a tick that was due with
\* it may still be taken first.
TickerStops ==
    /\ run \in {"final", "check", "done"} /\ sampling /\ page["ticker"].at = "none"
    /\ sampling' = FALSE
    /\ UNCHANGED <<traceVars, busVars, owing, run, case, start, tracker, page, connection, times, report>>

-----------------------------------------------------------------------------
(* The run *)

Goto(from, to) == run = from /\ run' = to

\* Where the run starts; a request that fails leaves a zero.
Begin ==
    /\ Goto("ready", IF TestCases > 0 THEN "testing" ELSE "stop")
    /\ \E t \in {0, Latest}, e \in {0, IF EvFloor < Len(events) THEN Len(events) ELSE 0} :
          /\ start' = [trace |-> t, event |-> e]
          /\ tracker' = [tracker EXCEPT !.last = t]
    /\ case' = IF TestCases > 0 THEN 1 ELSE 0
    /\ sampling' = TRUE /\ began' = now
    /\ UNCHANGED <<traceVars, busVars, owing, page, connection, now, windows, report>>

\* interruptions: when the test case started, and its duration later.
Windows == IF case \in Interrupting THEN {[from |-> began, to |-> now]} ELSE {}

EndTestCase ==
    /\ Goto("testing", "sample")
    /\ windows' = windows \cup Windows
    /\ UNCHANGED <<traceVars, busVars, owing, case, sampling, start, tracker, page, connection,
                   now, began, report>>

RunSamples == run \in {"sample", "final"} /\ page["run"].at = "none" /\ Sample("run")

RunEvaluates ==
    /\ Evaluate("run")
    /\ run' = IF run = "sample" THEN "await" ELSE "check"
    /\ UNCHANGED <<case, sampling>>

\* The progress of the run is an event with the device's SKI; a test case of the
\* cleanup publishes none.
Progress == Post(Manager, "lifecycle") \/ UNCHANGED busVars

\* The next test case, or the end: which of them a cancel or a device that stays
\* away leaves out is TestRun's concern.
NextTestCase ==
    /\ \/ Goto("await", "testing") /\ case < TestCases /\ case' = case + 1 /\ began' = now
       \/ Goto("await", "stop") /\ UNCHANGED <<case, began>>
    /\ Progress
    /\ UNCHANGED <<traceVars, owing, sampling, start, tracker, page, connection, now, windows, report>>

\* Sampling is stopped, and the conditions at the end are taken; a device that
\* cannot be asked for counts as gone.
StopSampling ==
    /\ Goto("stop", "final")
    /\ \E answered \in BOOLEAN : report' = [report EXCEPT !.atEnd = answered /\ connected]
    /\ UNCHANGED <<traceVars, busVars, owing, case, sampling, start, tracker, page, connection, times>>

\* conformanceCheck
WireVerdict == IF tracker.overrun THEN "skipped"
               ELSE IF tracker.errors > 0 THEN "failed" ELSE "passed"

\* The time of an event as its record has it: a whole second.
Ts(d) == d.at - (d.at % Second)

\* Mutant: the whole second is compared with the times of the test case as they are.
PlannedExactly(ts) == \E w \in windows : w.from <= ts /\ ts <= w.to
Planned(ts) == \E w \in windows : w.from - Second <= ts /\ ts <= w.to + Second

\* Recent: of the device's lifecycle events in the ring the newest EventLimit.
Lifecycle(from) == {n \in from + 1 .. Len(events) : events[n] # "spine"}
Recent == {n \in Lifecycle(EvFloor) : Cardinality(Lifecycle(n)) < EventLimit}

\* countDisconnects
Unplanned(from) == {d \in drops : d.num \in Recent /\ d.num > from /\ ~Planned(Ts(d))}

\* connectionCheck: no disconnection counts when the request for the events fails.
ConnectionVerdict(read) ==
    IF (read /\ Unplanned(start.event) # {}) \/ ~report.atEnd THEN "failed" ELSE "passed"

Check(read) ==
    /\ Goto("check", "done") /\ ~Locked
    /\ report' = [wire |-> WireVerdict, connection |-> ConnectionVerdict(read), atEnd |-> report.atEnd]
    /\ UNCHANGED <<traceVars, busVars, owing, case, sampling, start, tracker, page, connection, times>>

Next ==
    \/ \E frame \in Traffic : AddFrame(frame)
    \/ \E s \in Sources : Announce(s)
    \/ Tick \/ Disconnect \/ Reconnect \/ ClearTrace \/ ClearBus
    \/ TickerSamples \/ TickerEvaluates \/ TickerStops
    \/ Begin \/ EndTestCase \/ RunSamples \/ RunEvaluates
    \/ NextTestCase \/ StopSampling \/ \E read \in BOOLEAN : Check(read)

Spec == Init /\ [][Next]_vars

-----------------------------------------------------------------------------
(* Properties *)

\* Whatever the ring loses, requests fail and samplers overlap: no frame of the
\* device is counted twice and none that is not its own, and unless the tracker
\* says that it lost frames (overrun), or a user cleared the trace after frames
\* of the run had come, every frame up to its cursor was counted.  "none with a conformance
\* error" (conformanceCheck) rests on it.
CountedOnce ==
    LET received == Cardinality(Received(start.trace, tracker.last))
        faulty   == Cardinality(Faulty(start.trace, tracker.last)) IN
    /\ tracker.frames <= received /\ tracker.errors <= faulty
    /\ ~tracker.overrun /\ cut <= start.trace =>
           tracker.frames = received /\ tracker.errors = faulty

\* A disconnection the check cannot see: the ring does not have it any more, or as
\* many of the device's lifecycle events as a request returns came after it.
Unseen(d) == d.num <= EvFloor \/ Cardinality(Lifecycle(d.num)) >= EventLimit

\* One about as near to an interrupting test case as whole seconds can tell.
NearInterruption(d) ==
    \E w \in windows : w.from - Second <= d.at /\ d.at < w.to + 2 * Second

\* What the connection check says of the run is so, although it goes by the whole
\* seconds of events it reads at the end ("The device stayed connected from the
\* first to the last test case, apart from ... test cases that take the connection
\* down on purpose").  It passes only a device that is connected at the end, and
\* whose every disconnection since the run began was within two seconds of a test
\* case that takes the connection down, or was lost to the ring or the request.
\* And a device is never failed for a disconnection inside such a test case, nor
\* for one before the run when the run's start could be read.
ConnectionSound ==
    [][\A read \in BOOLEAN : Check(read) =>
        /\ report'.connection = "passed" =>
               /\ report.atEnd
               /\ read => \A d \in drops : d.when = "before" \/ NearInterruption(d) \/ Unseen(d)
        /\ report'.connection = "failed" =>
               \/ ~report.atEnd
               \/ \E d \in drops : d.num > start.event /\ d.when # "purpose"]_vars
=============================================================================
