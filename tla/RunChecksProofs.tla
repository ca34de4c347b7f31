--------------------------- MODULE RunChecksProofs ---------------------------
(* What RunChecks.tla says of the frames counted, proved for any sources, ring *)
(* size and number of frames.                                                  *)
EXTENDS RunChecks, FiniteSetTheorems, TLAPS

\* The mutex: only one sampler has an answer to evaluate.
OneHolder == \A v, w \in Samplers : page[v].at # "none" /\ page[w].at # "none" => v = w

\* An answer under evaluation was asked from the cursor as it still is, and the
\* ring it came from had not lost more than a clear or its size explains.
Current(p) ==
    /\ p.after = tracker.last /\ p.after <= p.latest /\ p.latest <= Latest
    /\ p.floor <= Higher(cut, p.latest - Capacity)
PagesCurrent == \A w \in Samplers : page[w].at = "got" => Current(page[w])

\* The cursor stays between where the run started and the newest frame.
CursorInLog == start.trace <= tracker.last /\ tracker.last <= Latest

\* Before the run nothing is sampled and nothing counted.
Unused == [last |-> 0, frames |-> 0, errors |-> 0, overrun |-> FALSE]
NotBegun == run = "ready" =>
    /\ tracker = Unused /\ sampling = FALSE
    /\ \A w \in Samplers : page[w].at = "none"

Wire == OneHolder /\ PagesCurrent /\ CursorInLog /\ NotBegun
IInv == TypeOK /\ Wire /\ CountedOnce

-----------------------------------------------------------------------------
(* Counting frames *)

\* The device's frames between two numbers are finitely many, and so are the
\* faulty ones among them; between a number and itself there are none.
LEMMA Finite ==
  ASSUME NEW a \in Nat, NEW b \in Nat
  PROVE  /\ IsFiniteSet(Received(a, b)) /\ Cardinality(Received(a, b)) \in Nat
         /\ IsFiniteSet(Faulty(a, b)) /\ Cardinality(Faulty(a, b)) \in Nat
         /\ Cardinality(Faulty(a, b)) <= Cardinality(Received(a, b))
         /\ Cardinality(Received(a, b)) <= b
         /\ b <= a => Cardinality(Received(a, b)) = 0 /\ Cardinality(Faulty(a, b)) = 0
  <1>1. IsFiniteSet(1 .. b) /\ Cardinality(1 .. b) = b
    <2>1. IsFiniteSet(1 .. b) /\ Cardinality(1 .. b) = IF 1 > b THEN 0 ELSE b - 1 + 1
      BY FS_Interval, 1 \in Int, b \in Int
    <2>2. QED
      BY <2>1
  <1>2. Received(a, b) \in SUBSET (1 .. b) /\ Faulty(a, b) \in SUBSET Received(a, b)
    BY DEF Received, Faulty
  <1>3. IsFiniteSet(Received(a, b)) /\ Cardinality(Received(a, b)) <= b
    BY <1>1, <1>2, FS_Subset
  <1>4. IsFiniteSet(Faulty(a, b)) /\ Cardinality(Faulty(a, b)) <= Cardinality(Received(a, b))
    BY <1>2, <1>3, FS_Subset
  <1>5. Cardinality(Received(a, b)) \in Nat /\ Cardinality(Faulty(a, b)) \in Nat
    BY <1>3, <1>4, FS_CardinalityType
  <1>6. b <= a => Received(a, b) = {} /\ Faulty(a, b) = {}
    BY DEF Received, Faulty
  <1>7. QED
    BY <1>3, <1>4, <1>5, <1>6, FS_EmptySet

\* Frames up to a number are those up to a smaller one and those after it.
LEMMA Split ==
  ASSUME NEW a \in Nat, NEW b \in Nat, NEW c \in Nat, a <= b, b <= c
  PROVE  /\ Cardinality(Received(a, c)) = Cardinality(Received(a, b)) + Cardinality(Received(b, c))
         /\ Cardinality(Faulty(a, c)) = Cardinality(Faulty(a, b)) + Cardinality(Faulty(b, c))
  <1>1. /\ Received(a, c) = Received(a, b) \cup Received(b, c)
        /\ Received(a, b) \cap Received(b, c) = {}
    BY DEF Received
  <1>2. /\ Faulty(a, c) = Faulty(a, b) \cup Faulty(b, c)
        /\ Faulty(a, b) \cap Faulty(b, c) = {}
    BY <1>1 DEF Faulty
  <1>3. ASSUME NEW S, NEW T, IsFiniteSet(S), IsFiniteSet(T), S \cap T = {},
               Cardinality(S) \in Nat, Cardinality(T) \in Nat
        PROVE  Cardinality(S \cup T) = Cardinality(S) + Cardinality(T)
    <2>1. Cardinality(S \cup T) = Cardinality(S) + Cardinality(T) - Cardinality(S \cap T)
      BY <1>3, FS_Union
    <2>2. Cardinality(S \cap T) = 0
      BY <1>3, FS_EmptySet
    <2>3. QED
      BY <1>3, <2>1, <2>2
  <1>4. Cardinality(Received(a, c)) = Cardinality(Received(a, b)) + Cardinality(Received(b, c))
    BY <1>1, <1>3, Finite, c \in Nat
  <1>5. Cardinality(Faulty(a, c)) = Cardinality(Faulty(a, b)) + Cardinality(Faulty(b, c))
    BY <1>2, <1>3, Finite
  <1>6. QED
    BY <1>4, <1>5

\* A later start leaves no more frames.
LEMMA Fewer ==
  ASSUME NEW a \in Nat, NEW b \in Nat, NEW c \in Nat, a <= b
  PROVE  /\ Cardinality(Received(b, c)) <= Cardinality(Received(a, c))
         /\ Cardinality(Faulty(b, c)) <= Cardinality(Faulty(a, c))
  <1>1. Received(b, c) \in SUBSET Received(a, c) /\ Faulty(b, c) \in SUBSET Faulty(a, c)
    BY DEF Received, Faulty
  <1>2. QED
    BY <1>1, Finite, FS_Subset

-----------------------------------------------------------------------------
(* The steps *)

LEMMA InitHolds == Init => IInv
  <1> SUFFICES ASSUME Init PROVE IInv
    OBVIOUS
  <1> USE FrameTraceAssumption, EventBusAssumption, RunChecksAssumption
  <1>a. TraceTypeOK
    BY DEF Init, TraceTypeOK, TraceInit
  <1>b. BusTypeOK
    BY DEF Init, BusTypeOK, BusInit, NotSending, NoStream, Stream
  <1>c. RunTypeOK
    <2>1. page \in [Samplers -> Page]
      BY DEF Init, Page, NoPage
    <2>2. start \in [trace : 0..MaxFrames, event : 0..MaxEvents]
      BY DEF Init
    <2>3. tracker \in [last : 0..MaxFrames, frames : 0..MaxFrames, errors : 0..MaxFrames, overrun : BOOLEAN]
      BY DEF Init
    <2>4. report \in [wire : Verdict, connection : Verdict, atEnd : BOOLEAN]
      BY DEF Init, Verdict
    <2>5. /\ owing \subseteq Sources /\ case \in 0..TestCases /\ drops \subseteq Drop
          /\ now \in 0..MaxTime /\ began \in 0..MaxTime /\ windows \subseteq Interruption
      BY DEF Init
    <2>6. run = "ready" /\ sampling \in BOOLEAN /\ connected \in BOOLEAN
      BY DEF Init
    <2>7. QED
      BY <2>1, <2>2, <2>3, <2>4, <2>5, <2>6 DEF RunTypeOK
  <1>1. TypeOK
    BY <1>a, <1>b, <1>c DEF TypeOK
  <1>2. Wire
    BY <1>1 DEF Init, TraceInit, Wire, OneHolder, PagesCurrent, CursorInLog, NotBegun, Unused,
        NoPage, Latest, TypeOK, TraceTypeOK
  <1>3. CountedOnce
    BY Finite DEF Init, CountedOnce
  <1>4. QED
    BY <1>1, <1>2, <1>3 DEF IInv

\* A new frame changes nothing about the older ones.
LEMMA NumberKeeps ==
  ASSUME IInv, NEW frame \in Traffic, Number(frame), UNCHANGED <<run, sampling, start, tracker, page>>
  PROVE  TraceTypeOK' /\ Wire' /\ CountedOnce'
  <1>1. /\ log' = Append(log, frame) /\ log \in Seq(Traffic)
        /\ Len(log') = Len(log) + 1 /\ Len(log') <= MaxFrames /\ cut' = cut /\ cut \in Nat
        /\ start.trace \in Nat /\ tracker.last \in Nat /\ Capacity \in Nat
    BY FrameTraceAssumption DEF IInv, TypeOK, TraceTypeOK, RunTypeOK, Number, Latest
  <1>2. TraceTypeOK'
    BY <1>1 DEF IInv, TypeOK, TraceTypeOK
  <1>3. Wire'
    BY <1>1 DEF IInv, Wire, OneHolder, PagesCurrent, Current, CursorInLog, NotBegun, Latest,
        TypeOK, RunTypeOK, Page
  <1>4. \A n \in 1 .. Len(log) : log'[n] = log[n]
    BY <1>1
  <1>5. \A n \in start.trace + 1 .. tracker.last : n \in 1 .. Len(log)
    BY <1>1 DEF IInv, Wire, CursorInLog, Latest
  <1>6. Received(start.trace, tracker.last)' = Received(start.trace, tracker.last)
    BY <1>4, <1>5 DEF Received
  <1>7. Faulty(start.trace, tracker.last)' = Faulty(start.trace, tracker.last)
    BY <1>4, <1>5, <1>6 DEF Faulty, Received
  <1>8. CountedOnce'
    BY <1>1, <1>6, <1>7 DEF IInv, CountedOnce
  <1>9. QED
    BY <1>2, <1>3, <1>8

\* Clearing the trace leaves the cursor and the counts, and less is promised.
LEMMA ClearKeeps ==
  ASSUME IInv, Clear, UNCHANGED <<run, sampling, start, tracker, page>>
  PROVE  TraceTypeOK' /\ Wire' /\ CountedOnce'
  <1>1. log' = log /\ cut' = Len(log) /\ cut \in 0 .. Len(log) /\ Len(log) \in Nat
    BY DEF IInv, TypeOK, TraceTypeOK, Clear, Latest
  <1>2. TraceTypeOK'
    BY <1>1 DEF IInv, TypeOK, TraceTypeOK
  <1>3. ASSUME NEW p, p.latest \in Nat, p.after \in Nat, p.floor \in Nat, Current(p) PROVE Current(p)'
    BY <1>1, <1>3, FrameTraceAssumption DEF Current, Higher, Latest
  <1>4. Wire'
    BY <1>1, <1>3 DEF IInv, Wire, OneHolder, PagesCurrent, CursorInLog, NotBegun, Latest,
        TypeOK, RunTypeOK, Page
  <1>5. /\ Received(start.trace, tracker.last)' = Received(start.trace, tracker.last)
        /\ Faulty(start.trace, tracker.last)' = Faulty(start.trace, tracker.last)
    BY <1>1 DEF Received, Faulty
  <1>6. cut' <= start.trace' => cut <= start.trace
    BY <1>1 DEF IInv, TypeOK, RunTypeOK
  <1>7. CountedOnce'
    BY <1>5, <1>6 DEF IInv, CountedOnce
  <1>8. QED
    BY <1>2, <1>4, <1>7

\* What leaves the trace, the tracker and the answers alone disturbs nothing.
LEMMA OthersKeep ==
  ASSUME IInv, UNCHANGED <<log, cut, start, tracker, page>>,
         run' = "ready" => run = "ready", run' = "ready" => sampling' = sampling
  PROVE  TraceTypeOK' /\ Wire' /\ CountedOnce'
  <1>1. TraceTypeOK'
    BY DEF IInv, TypeOK, TraceTypeOK
  <1>2. Wire'
    BY DEF IInv, Wire, OneHolder, PagesCurrent, Current, CursorInLog, NotBegun, Latest, Unused, Higher
  <1>3. CountedOnce'
    BY DEF IInv, CountedOnce, Received, Faulty
  <1>4. QED
    BY <1>1, <1>2, <1>3

\* A published event keeps the bus well-formed.
LEMMA PostKeeps ==
  ASSUME BusTypeOK, NEW p \in Publishers, NEW kind \in Kinds, Post(p, kind)
  PROVE  BusTypeOK'
  <1> DEFINE open == {c \in Streams : stream[c].at = "open"}
             n == Len(events) + 1
  <1>1. /\ events' = Append(events, kind) /\ events \in Seq(Kinds) /\ n <= MaxEvents
        /\ sending' = [sending EXCEPT ![p] = StillTo(n, open)] /\ UNCHANGED <<evCut, stream>>
    BY DEF Post, BusTypeOK
  <1>2. events' \in Seq(Kinds) /\ Len(events') = n /\ n \in Nat
    BY <1>1
  <1>3. StillTo(n, open) \in [num : 0 .. n, to : SUBSET Streams]
    BY <1>2 DEF StillTo, NotSending
  <1>4. sending' \in [Publishers -> [num : 0 .. n, to : SUBSET Streams]]
    <2>1. sending \in [Publishers -> [num : 0 .. Len(events), to : SUBSET Streams]]
      BY DEF BusTypeOK
    <2>2. 0 .. Len(events) \subseteq 0 .. n
      BY <1>1
    <2>3. sending \in [Publishers -> [num : 0 .. n, to : SUBSET Streams]]
      BY <2>1, <2>2
    <2>4. QED
      BY <1>1, <1>3, <2>3
  <1>5. QED
    BY <1>1, <1>2, <1>4 DEF BusTypeOK

\* A request takes the mutex, asks from the cursor and reads the ring as it is.
LEMMA SampleKeeps ==
  ASSUME IInv, NEW w \in Samplers, Sample(w), run # "ready", run' = run, sampling' = sampling
  PROVE  TypeOK' /\ Wire' /\ CountedOnce'
  <1> DEFINE answer == [at |-> "got", latest |-> Latest, after |-> tracker.last, floor |-> Floor]
             failure == [at |-> "failed", latest |-> 0, after |-> 0, floor |-> 0]
  <1>1. /\ page' = [page EXCEPT ![w] = answer] \/ page' = [page EXCEPT ![w] = failure]
        /\ \A v \in Samplers : page[v].at = "none"
        /\ UNCHANGED <<traceVars, busVars, owing, run, case, sampling, start, tracker, connection, times, report>>
    BY DEF Sample, Request, Locked
  <1>2. /\ Len(log) \in Nat /\ cut \in 0 .. Len(log) /\ Capacity \in Nat
        /\ tracker.last \in Nat /\ page \in [Samplers -> Page]
    BY FrameTraceAssumption DEF IInv, TypeOK, TraceTypeOK, RunTypeOK
  <1>3. answer \in Page /\ failure \in Page
    BY <1>2 DEF Page, Latest, Floor, Higher
  <1>4. page' \in [Samplers -> Page]
    BY <1>1, <1>2, <1>3
  <1>5. TypeOK'
    BY <1>1, <1>4 DEF IInv, TypeOK, TraceTypeOK, BusTypeOK, RunTypeOK, traceVars, busVars, connection, times
  <1>6. \A v \in Samplers : page'[v].at # "none" => v = w
    BY <1>1, <1>2
  <1>7. PagesCurrent'
    <2>1. Current(answer)
      BY <1>2 DEF IInv, Wire, CursorInLog, Current, Latest, Floor, Higher
    <2>2. page'[w] = answer \/ page'[w].at = "failed"
      BY <1>1, <1>2
    <2>3. QED
      BY <1>1, <1>6, <2>1, <2>2 DEF PagesCurrent, Current, Latest, Floor, Higher, traceVars
  <1>8. Wire'
    BY <1>1, <1>6, <1>7 DEF IInv, Wire, OneHolder, CursorInLog, NotBegun, Latest, traceVars
  <1>9. CountedOnce'
    BY <1>1 DEF IInv, CountedOnce, Received, Faulty, traceVars
  <1>10. QED
    BY <1>5, <1>8, <1>9

\* Counting an answer that was asked from the cursor: no frame twice, and none
\* left out unless the ring had lost more than its size allows or was cleared.
LEMMA EvaluateCounts ==
  ASSUME IInv, NEW p \in Page, Current(p),
         UNCHANGED <<log, cut, start>>, tracker' = After(p)
  PROVE  CountedOnce' /\ CursorInLog' /\ tracker'.last = p.latest
         /\ tracker' \in [last : 0..MaxFrames, frames : 0..MaxFrames, errors : 0..MaxFrames, overrun : BOOLEAN]
  <1> DEFINE from == Higher(p.after, p.floor)
             a == start.trace
             b == tracker.last
             c == p.latest
  <1>1. /\ a \in Nat /\ b \in Nat /\ c \in Nat /\ p.floor \in Nat /\ from \in Nat
        /\ a <= b /\ b <= c /\ c <= Latest /\ Latest \in Nat /\ Latest <= MaxFrames /\ MaxFrames \in Nat
        /\ p.after = b /\ b <= from /\ cut \in Nat /\ Capacity \in Nat
    BY FrameTraceAssumption DEF IInv, TypeOK, TraceTypeOK, RunTypeOK, Wire, CursorInLog, Current,
        Page, Higher, Latest
  <1>2. /\ tracker'.last = c
        /\ tracker'.frames = tracker.frames + Cardinality(Received(from, c))
        /\ tracker'.errors = tracker.errors + Cardinality(Faulty(from, c))
        /\ tracker'.overrun = (tracker.overrun \/ c - b > Capacity)
        /\ DOMAIN tracker' = {"last", "frames", "errors", "overrun"}
    BY <1>1 DEF After, Counted, Higher
  <1>3. /\ Received(start.trace, tracker.last)' = Received(a, c)
        /\ Faulty(start.trace, tracker.last)' = Faulty(a, c)
    BY <1>2 DEF Received, Faulty
  <1>4. /\ Cardinality(Received(a, c)) = Cardinality(Received(a, b)) + Cardinality(Received(b, c))
        /\ Cardinality(Faulty(a, c)) = Cardinality(Faulty(a, b)) + Cardinality(Faulty(b, c))
    BY <1>1, Split
  <1>5. /\ Cardinality(Received(from, c)) <= Cardinality(Received(b, c))
        /\ Cardinality(Faulty(from, c)) <= Cardinality(Faulty(b, c))
    BY <1>1, Fewer
  <1>6. /\ Cardinality(Received(a, b)) \in Nat /\ Cardinality(Faulty(a, b)) \in Nat
        /\ Cardinality(Received(b, c)) \in Nat /\ Cardinality(Faulty(b, c)) \in Nat
        /\ Cardinality(Received(from, c)) \in Nat /\ Cardinality(Faulty(from, c)) \in Nat
        /\ Cardinality(Received(a, c)) <= c /\ Cardinality(Faulty(a, c)) <= Cardinality(Received(a, c))
        /\ Cardinality(Received(a, c)) \in Nat /\ Cardinality(Faulty(a, c)) \in Nat
    BY <1>1, Finite
  <1>7. /\ tracker.frames <= Cardinality(Received(a, b)) /\ tracker.errors <= Cardinality(Faulty(a, b))
        /\ ~tracker.overrun /\ cut <= a => tracker.frames = Cardinality(Received(a, b))
                                          /\ tracker.errors = Cardinality(Faulty(a, b))
    BY DEF IInv, CountedOnce
  <1>8. tracker.frames \in Nat /\ tracker.errors \in Nat /\ tracker.overrun \in BOOLEAN
    BY <1>1 DEF IInv, TypeOK, RunTypeOK
  <1>9. /\ tracker'.frames <= Cardinality(Received(a, c)) /\ tracker'.errors <= Cardinality(Faulty(a, c))
        /\ tracker'.frames \in Nat /\ tracker'.errors \in Nat
    BY <1>2, <1>4, <1>5, <1>6, <1>7, <1>8
  <1>10. ASSUME ~tracker'.overrun, cut <= a
         PROVE  tracker'.frames = Cardinality(Received(a, c)) /\ tracker'.errors = Cardinality(Faulty(a, c))
    <2>1. ~tracker.overrun /\ c - b <= Capacity
      <3>1. ~tracker.overrun /\ ~(c - b > Capacity)
        BY <1>2, <1>10, Zenon
      <3>2. QED
        BY <1>1, <3>1
    <2>2. from = b
      BY <1>1, <1>10, <2>1 DEF Current, Higher
    <2>3. QED
      BY <1>2, <1>4, <1>6, <1>7, <1>8, <1>10, <2>1, <2>2
  <1>11. CountedOnce'
    BY <1>3, <1>9, <1>10 DEF CountedOnce
  <1>12. tracker' \in [last : 0..MaxFrames, frames : 0..MaxFrames, errors : 0..MaxFrames, overrun : BOOLEAN]
    <2>1. /\ tracker' = [last |-> c, frames |-> tracker'.frames, errors |-> tracker'.errors,
                         overrun |-> tracker'.overrun]
          /\ tracker'.overrun \in BOOLEAN
      <3>1. tracker' = [last |-> Higher(b, c), frames |-> tracker'.frames, errors |-> tracker'.errors,
                        overrun |-> tracker'.overrun]
        BY DEF After, Counted
      <3>2. tracker'.overrun \in BOOLEAN
        BY <1>2, Zenon
      <3>3. QED
        BY <1>1, <3>1, <3>2 DEF Higher
    <2>2. /\ c \in 0..MaxFrames /\ tracker'.frames \in 0..MaxFrames /\ tracker'.errors \in 0..MaxFrames
      BY <1>1, <1>6, <1>9
    <2>3. QED
      BY <2>1, <2>2
  <1>13. CursorInLog'
    BY <1>1, <1>2 DEF CursorInLog, Latest
  <1>14. QED
    BY <1>2, <1>11, <1>12, <1>13

\* The evaluation ends with the mutex released.
LEMMA EvaluateKeeps ==
  ASSUME IInv, NEW w \in Samplers, Evaluate(w), run' # "ready",
         run' \in {"ready", "testing", "sample", "await", "stop", "final", "check", "done"},
         case' = case, sampling' = sampling
  PROVE  IInv'
  <1>1. /\ page' = [page EXCEPT ![w] = NoPage] /\ page[w].at # "none"
        /\ page \in [Samplers -> Page] /\ page[w] \in Page
        /\ UNCHANGED <<traceVars, busVars, owing, start, connection, times, report>>
    BY DEF Evaluate, IInv, TypeOK, RunTypeOK
  <1>2. \A v \in Samplers : page'[v].at = "none"
    BY <1>1 DEF IInv, Wire, OneHolder, NoPage
  <1>3. CountedOnce' /\ CursorInLog'
        /\ tracker' \in [last : 0..MaxFrames, frames : 0..MaxFrames, errors : 0..MaxFrames, overrun : BOOLEAN]
    <2>1. CASE page[w].at = "got"
      <3>1. tracker' = After(page[w])
        BY <2>1 DEF Evaluate
      <3>2. Current(page[w])
        BY <2>1 DEF IInv, Wire, PagesCurrent
      <3>3. QED
        BY <1>1, <3>1, <3>2, EvaluateCounts DEF traceVars
    <2>2. CASE page[w].at # "got"
      <3>1. tracker' = tracker
        BY <2>2 DEF Evaluate
      <3>2. CountedOnce' /\ CursorInLog'
        BY <1>1, <3>1 DEF IInv, Wire, CountedOnce, CursorInLog, Received, Faulty, Latest, traceVars
      <3>3. QED
        BY <3>1, <3>2 DEF IInv, TypeOK, RunTypeOK
    <2>3. QED
      BY <2>1, <2>2
  <1>4. page' \in [Samplers -> Page]
    BY <1>1 DEF Page, NoPage
  <1>5. TypeOK'
    BY <1>1, <1>3, <1>4 DEF IInv, TypeOK, TraceTypeOK, BusTypeOK, RunTypeOK, traceVars, busVars,
       connection, times
  <1>6. Wire'
    BY <1>2, <1>3 DEF Wire, OneHolder, PagesCurrent, NotBegun
  <1>7. QED
    BY <1>3, <1>5, <1>6 DEF IInv

\* The run begins: the cursor is where the run starts, and nothing is counted.
LEMMA BeginKeeps ==
  ASSUME IInv, Begin PROVE IInv'
  <1>1. /\ run = "ready" /\ tracker = Unused /\ \A w \in Samplers : page[w].at = "none"
        /\ Len(log) \in Nat /\ Len(log) <= MaxFrames /\ Len(events) \in Nat /\ Len(events) <= MaxEvents
        /\ MaxFrames \in Nat /\ MaxEvents \in Nat /\ TestCases \in Nat
    BY FrameTraceAssumption, EventBusAssumption, RunChecksAssumption
    DEF Begin, Goto, IInv, Wire, NotBegun, TypeOK, TraceTypeOK, BusTypeOK
  <1>2. PICK t \in {0, Latest}, e \in {0, IF EvFloor < Len(events) THEN Len(events) ELSE 0} :
           /\ start' = [trace |-> t, event |-> e]
           /\ tracker' = [tracker EXCEPT !.last = t]
    BY DEF Begin
  <1>3. /\ UNCHANGED <<traceVars, busVars, owing, page, connection, now, windows, report>>
        /\ began' = now
        /\ run' \in {"testing", "stop"} /\ case' \in {0, 1} /\ (case' = 1 => TestCases > 0)
        /\ sampling' \in BOOLEAN
    BY DEF Begin, Goto
  <1>4. t \in 0..MaxFrames /\ e \in 0..MaxEvents /\ t <= Latest
    BY <1>1 DEF Latest
  <1>5. tracker' = [last |-> t, frames |-> 0, errors |-> 0, overrun |-> FALSE]
    BY <1>1, <1>2 DEF Unused
  <1>6. TypeOK'
    <2>1. start' \in [trace : 0..MaxFrames, event : 0..MaxEvents]
      BY <1>1, <1>2, <1>4
    <2>2. tracker' \in [last : 0..MaxFrames, frames : 0..MaxFrames, errors : 0..MaxFrames, overrun : BOOLEAN]
      BY <1>1, <1>4, <1>5
    <2>3. case' \in 0..TestCases
      BY <1>1, <1>3
    <2>4. QED
      BY <1>3, <2>1, <2>2, <2>3
      DEF IInv, TypeOK, TraceTypeOK, BusTypeOK, RunTypeOK, traceVars, busVars, connection, times
  <1>7. Wire'
    BY <1>1, <1>2, <1>3, <1>4, <1>5
    DEF Wire, OneHolder, PagesCurrent, CursorInLog, NotBegun, Latest, traceVars
  <1>8. CountedOnce'
    <2>1. /\ Received(start.trace, tracker.last)' = Received(t, t)
          /\ Faulty(start.trace, tracker.last)' = Faulty(t, t)
      BY <1>2, <1>3, <1>5 DEF Received, Faulty, traceVars
    <2>2. Cardinality(Received(t, t)) = 0 /\ Cardinality(Faulty(t, t)) = 0
      <3>1. t \in Nat /\ t <= t
        BY <1>1, <1>4
      <3>2. QED
        BY <3>1, Finite
    <2>3. QED
      BY <1>5, <2>1, <2>2 DEF CountedOnce
  <1>9. QED
    BY <1>6, <1>7, <1>8 DEF IInv

\* The verdicts are verdicts.
LEMMA CheckTypes ==
  ASSUME RunTypeOK, NEW read \in BOOLEAN, Check(read)
  PROVE  report' \in [wire : Verdict, connection : Verdict, atEnd : BOOLEAN]
  <1>1. report' = [wire |-> WireVerdict, connection |-> ConnectionVerdict(read), atEnd |-> report.atEnd]
    BY DEF Check
  <1>2. WireVerdict \in Verdict /\ ConnectionVerdict(read) \in Verdict
    BY DEF WireVerdict, ConnectionVerdict, Verdict
  <1>3. report.atEnd \in BOOLEAN
    BY DEF RunTypeOK
  <1>4. QED
    BY <1>1, <1>2, <1>3

\* A disconnection is recorded with the number of its event.
LEMMA DropTypes ==
  ASSUME TypeOK, Disconnect
  PROVE  drops' \subseteq Drop
  <1>1. Len(events) \in Nat /\ Len(events) + 1 <= MaxEvents
    BY DEF Disconnect, Post, TypeOK, BusTypeOK
  <1>2. now \in 0..MaxTime /\ When \in {"before", "run", "purpose"} /\ drops \subseteq Drop
    BY DEF TypeOK, RunTypeOK, When
  <1>3. Len(events) + 1 \in 1..MaxEvents
    BY <1>1, EventBusAssumption
  <1>4. [num |-> Len(events) + 1, at |-> now, when |-> When] \in Drop
    BY <1>2, <1>3 DEF Drop
  <1>5. QED
    BY <1>2, <1>4 DEF Disconnect

LEMMA StepKeeps == IInv /\ [Next]_vars => IInv'
  <1> SUFFICES ASSUME IInv, [Next]_vars PROVE IInv'
    OBVIOUS
  <1> USE RunChecksAssumption
  <1> DEFINE wire == UNCHANGED <<log, cut, start, tracker, page>>
             Stages == {"ready", "testing", "sample", "await", "stop", "final", "check", "done"}
  <1>1. ASSUME NEW frame \in Traffic, AddFrame(frame) PROVE IInv'
    <2>1. Number(frame) /\ UNCHANGED <<run, sampling, start, tracker, page>>
      BY <1>1 DEF AddFrame
    <2>2. owing' \subseteq Sources
      BY <1>1, FrameTraceAssumption DEF AddFrame, IInv, TypeOK, RunTypeOK
    <2>3. BusTypeOK' /\ RunTypeOK'
      BY <1>1, <2>2 DEF AddFrame, IInv, TypeOK, BusTypeOK, RunTypeOK, busVars, connection, times
    <2>4. QED
      BY <2>1, <2>3, NumberKeeps DEF IInv, TypeOK
  <1>2. ASSUME NEW s \in Sources, Announce(s) PROVE IInv'
    <2>1. BusTypeOK'
      BY <1>2, PostKeeps DEF Announce, IInv, TypeOK
    <2>2. RunTypeOK'
      BY <1>2 DEF Announce, IInv, TypeOK, RunTypeOK, connection, times
    <2>3. QED
      BY <1>2, <2>1, <2>2, OthersKeep DEF Announce, IInv, TypeOK, traceVars
  <1>3. ASSUME Disconnect \/ Reconnect PROVE IInv'
    <2>1. /\ UNCHANGED <<traceVars, owing, run, case, sampling, start, tracker, page, times, report>>
          /\ connected' \in BOOLEAN /\ drops' \subseteq Drop
      <3>1. drops \subseteq Drop
        BY DEF IInv, TypeOK, RunTypeOK
      <3>2. CASE Disconnect
        BY <3>1, <3>2, DropTypes DEF Disconnect, IInv
      <3>3. CASE Reconnect
        BY <3>1, <3>3 DEF Reconnect
      <3>4. QED
        BY <1>3, <3>2, <3>3
    <2>2. BusTypeOK'
      <3>1. Hub \in Publishers
        OBVIOUS
      <3>2. PICK kind \in Kinds : Post(Hub, kind)
        BY <1>3 DEF Disconnect, Reconnect
      <3>3. QED
        BY <3>1, <3>2, PostKeeps DEF IInv, TypeOK
    <2>3. RunTypeOK'
      BY <2>1 DEF IInv, TypeOK, RunTypeOK, times
    <2>4. QED
      BY <2>1, <2>2, <2>3, OthersKeep DEF IInv, TypeOK, traceVars
  <1>4. ASSUME ClearTrace PROVE IInv'
    <2>1. Clear /\ UNCHANGED <<run, sampling, start, tracker, page>>
      BY <1>4 DEF ClearTrace, runVars
    <2>2. BusTypeOK' /\ RunTypeOK'
      BY <1>4 DEF ClearTrace, IInv, TypeOK, BusTypeOK, RunTypeOK, busVars, runVars, connection, times
    <2>3. QED
      BY <2>1, <2>2, ClearKeeps DEF IInv, TypeOK
  <1>5. ASSUME ClearBus PROVE IInv'
    <2>1. BusTypeOK' /\ RunTypeOK'
      BY <1>5 DEF ClearBus, ClearEvents, IInv, TypeOK, BusTypeOK, RunTypeOK, runVars, connection, times
    <2>2. QED
      BY <1>5, <2>1, OthersKeep DEF ClearBus, IInv, TypeOK, traceVars, runVars
  <1>6. ASSUME TickerSamples PROVE IInv'
    <2>1. sampling /\ Sample("ticker") /\ "ticker" \in Samplers
      BY <1>6 DEF TickerSamples, Samplers
    <2>2. run # "ready" /\ run' = run /\ sampling' = sampling
      BY <2>1 DEF Sample, Request, IInv, Wire, NotBegun
    <2>3. QED
      BY <2>1, <2>2, SampleKeeps DEF IInv
  <1>7. ASSUME TickerEvaluates PROVE IInv'
    <2>1. Evaluate("ticker") /\ "ticker" \in Samplers /\ UNCHANGED <<run, case, sampling>>
      BY <1>7 DEF TickerEvaluates, Samplers
    <2>2. run # "ready" /\ run' \in Stages
      BY <2>1 DEF Evaluate, IInv, Wire, NotBegun, TypeOK, RunTypeOK
    <2>3. QED
      BY <2>1, <2>2, EvaluateKeeps
  <1>8. ASSUME RunSamples PROVE IInv'
    <2>1. Sample("run") /\ "run" \in Samplers /\ run # "ready" /\ run' = run /\ sampling' = sampling
      BY <1>8 DEF RunSamples, Samplers, Sample, Request
    <2>2. QED
      BY <2>1, SampleKeeps DEF IInv
  <1>9. ASSUME RunEvaluates PROVE IInv'
    <2>1. Evaluate("run") /\ "run" \in Samplers /\ run' \in {"await", "check"} /\ UNCHANGED <<case, sampling>>
      BY <1>9 DEF RunEvaluates, Samplers
    <2>2. QED
      BY <2>1, EvaluateKeeps
  <1>10. ASSUME TickerStops \/ EndTestCase \/ StopSampling \/ (\E read \in BOOLEAN : Check(read))
         PROVE  IInv'
    <2>1. /\ UNCHANGED <<traceVars, busVars, owing, case, start, tracker, page, connection, now, began>>
          /\ run' \in Stages \ {"ready"}
      BY <1>10 DEF TickerStops, EndTestCase, StopSampling, Check, Goto, times
    <2>2. sampling' \in BOOLEAN /\ windows' \subseteq Interruption
      <3>1. /\ sampling \in BOOLEAN /\ windows \subseteq Interruption
            /\ [from |-> began, to |-> now] \in Interruption
        BY DEF IInv, TypeOK, RunTypeOK, Interruption
      <3>2. CASE EndTestCase
        BY <3>1, <3>2 DEF EndTestCase, Windows
      <3>3. CASE TickerStops \/ StopSampling \/ (\E read \in BOOLEAN : Check(read))
        BY <3>1, <3>3 DEF TickerStops, StopSampling, Check, times
      <3>4. QED
        BY <1>10, <3>2, <3>3
    <2>3. report' \in [wire : Verdict, connection : Verdict, atEnd : BOOLEAN]
      <3>1. CASE \E read \in BOOLEAN : Check(read)
        BY <3>1, CheckTypes DEF IInv, TypeOK
      <3>2. CASE StopSampling
        <4>1. PICK answered \in BOOLEAN : report' = [report EXCEPT !.atEnd = answered /\ connected]
          BY <3>2 DEF StopSampling
        <4>2. report \in [wire : Verdict, connection : Verdict, atEnd : BOOLEAN]
          BY DEF IInv, TypeOK, RunTypeOK
        <4>3. QED
          BY <4>1, <4>2, Zenon
      <3>3. CASE TickerStops \/ EndTestCase
        BY <3>3 DEF TickerStops, EndTestCase, IInv, TypeOK, RunTypeOK
      <3>4. QED
        BY <1>10, <3>1, <3>2, <3>3
    <2>4. BusTypeOK' /\ RunTypeOK'
      BY <2>1, <2>2, <2>3 DEF IInv, TypeOK, BusTypeOK, RunTypeOK, busVars, connection
    <2>5. QED
      BY <2>1, <2>4, OthersKeep DEF IInv, TypeOK, traceVars
  <1>11. ASSUME UNCHANGED vars PROVE IInv'
    <2>1. UNCHANGED <<log, cut, start, tracker, page, run, sampling>> /\ BusTypeOK' /\ RunTypeOK'
      BY <1>11 DEF vars, traceVars, busVars, runVars, connection, times, IInv, TypeOK, BusTypeOK, RunTypeOK
    <2>2. QED
      BY <2>1, OthersKeep DEF IInv, TypeOK
  <1>12. ASSUME NextTestCase PROVE IInv'
    <2>1. /\ UNCHANGED <<traceVars, owing, sampling, start, tracker, page, connection, now, windows, report>>
          /\ run' \in Stages \ {"ready"}
      BY <1>12 DEF NextTestCase, Goto
    <2>2. case' \in 0..TestCases /\ began' \in 0..MaxTime
      BY <1>12 DEF NextTestCase, IInv, TypeOK, RunTypeOK
    <2>3. BusTypeOK'
      <3>1. CASE Post(Manager, "lifecycle")
        BY <3>1, PostKeeps DEF IInv, TypeOK
      <3>2. CASE UNCHANGED busVars
        BY <3>2 DEF IInv, TypeOK, BusTypeOK, busVars
      <3>3. QED
        BY <1>12, <3>1, <3>2 DEF NextTestCase, Progress
    <2>4. RunTypeOK'
      BY <2>1, <2>2 DEF IInv, TypeOK, RunTypeOK, connection
    <2>5. QED
      BY <2>1, <2>3, <2>4, OthersKeep DEF IInv, TypeOK, traceVars
  <1>13. ASSUME Tick PROVE IInv'
    <2>1. now' \in 0..MaxTime
      BY <1>13 DEF Tick, IInv, TypeOK, RunTypeOK
    <2>2. BusTypeOK' /\ RunTypeOK'
      BY <1>13, <2>1 DEF Tick, IInv, TypeOK, BusTypeOK, RunTypeOK, busVars, connection
    <2>3. QED
      BY <1>13, <2>2, OthersKeep DEF Tick, IInv, TypeOK, traceVars
  <1>14. QED
    BY <1>1, <1>2, <1>3, <1>4, <1>5, <1>6, <1>7, <1>8, <1>9, <1>10, <1>11, <1>12, <1>13, BeginKeeps DEF Next

-----------------------------------------------------------------------------
(* The theorems *)

LEMMA Inductive == Spec => []IInv
  BY InitHolds, StepKeeps, PTL DEF Spec

\* Every variable keeps its range: in particular the tracker never counts more
\* frames than there are.
THEOREM TypeCorrect == Spec => []TypeOK
  BY Inductive, PTL DEF IInv

\* The samplers exclude each other.
THEOREM SamplersExclude == Spec => []OneHolder
  BY Inductive, PTL DEF IInv, Wire

\* No frame is counted twice or for another party, and without a reported loss
\* or a clear every frame up to the cursor is counted.
THEOREM FramesCountedOnce == Spec => []CountedOnce
  BY Inductive, PTL DEF IInv

-----------------------------------------------------------------------------
(* The connection check *)

\* A disconnection is a lifecycle event of the log, published by now.
DropsLogged ==
  \A d \in drops : d.num <= Len(events) /\ events[d.num] # "spine" /\ d.at <= now

\* The run starts after what came before it, and before its own disconnections.
StartBetween ==
  /\ start.event <= Len(events)
  /\ run = "ready" => start.event = 0 /\ \A d \in drops : d.when = "before"
  /\ \A d \in drops : d.when # "before" => d.num > start.event

\* A disconnection inside an interrupting test case is inside its window, or the
\* test case is still running.
InWindow(d) == \E w \in windows : w.from <= d.at /\ d.at <= w.to
PurposeInWindow ==
  /\ began <= now
  /\ \A d \in drops : d.when = "purpose" => InWindow(d) \/ (Interrupted /\ began <= d.at)

Recorded == DropsLogged /\ StartBetween /\ PurposeInWindow

\* Publishing leaves the events there were as they are.
LEMMA PostAppends ==
  ASSUME TypeOK, NEW p, NEW kind \in Kinds, Post(p, kind)
  PROVE  /\ Len(events) \in Nat /\ Len(events') = Len(events) + 1
         /\ events'[Len(events) + 1] = kind
         /\ \A n \in 1 .. Len(events) : events'[n] = events[n]
  <1>1. events \in Seq(Kinds) /\ events' = Append(events, kind)
    BY DEF TypeOK, BusTypeOK, Post
  <1>2. QED
    BY <1>1

\* A step that adds no disconnection keeps those there are logged.
LEMMA LoggedStay ==
  ASSUME TypeOK, DropsLogged, drops' = drops, now \in Nat, now' \in Nat, now <= now',
         events' = events \/ \E p \in Publishers, kind \in Kinds : Post(p, kind)
  PROVE  DropsLogged'
  <1>1. \A d \in drops : d.num \in Nat /\ d.num >= 1 /\ d.at \in Nat
    BY RunChecksAssumption, EventBusAssumption DEF TypeOK, RunTypeOK, Drop
  <1>2. CASE events' = events
    BY <1>1, <1>2 DEF DropsLogged
  <1>3. ASSUME NEW p \in Publishers, NEW kind \in Kinds, Post(p, kind) PROVE DropsLogged'
    <2>1. /\ Len(events) \in Nat /\ Len(events') = Len(events) + 1
          /\ \A n \in 1 .. Len(events) : events'[n] = events[n]
      BY <1>3, PostAppends
    <2>2. QED
      BY <1>1, <2>1 DEF DropsLogged
  <1>4. QED
    BY <1>2, <1>3

\* What leaves the disconnections, the run and its records alone keeps what is
\* recorded of them.
LEMMA RecordsStay ==
  ASSUME TypeOK, StartBetween, PurposeInWindow, Len(events') \in Nat, Len(events) <= Len(events'),
         now' \in Nat, now <= now', UNCHANGED <<drops, run, case, start, began, windows>>
  PROVE  StartBetween' /\ PurposeInWindow'
  <1>1. start.event \in Nat /\ Len(events) \in Nat /\ began \in Nat /\ now \in Nat
    BY RunChecksAssumption, EventBusAssumption DEF TypeOK, BusTypeOK, RunTypeOK
  <1>2. QED
    BY <1>1 DEF StartBetween, PurposeInWindow, InWindow, Interrupted

\* A new disconnection is recorded with the time and the test case it happened in.
LEMMA DisconnectRecords ==
  ASSUME TypeOK, Recorded, Disconnect PROVE Recorded'
  <1> DEFINE n == Len(events) + 1
             new == [num |-> n, at |-> now, when |-> When]
  <1>1. /\ drops' = drops \cup {new} /\ Post(Hub, "dropped")
        /\ UNCHANGED <<run, case, start, now, began, windows>>
    BY DEF Disconnect, times
  <1>2. "dropped" \in Kinds
    BY RunChecksAssumption
  <1>3. /\ Len(events) \in Nat /\ Len(events') = n /\ events'[n] = "dropped"
        /\ \A m \in 1 .. Len(events) : events'[m] = events[m]
    BY <1>1, <1>2, PostAppends
  <1>4. /\ \A d \in drops : d.num \in Nat /\ d.num >= 1 /\ d.at \in Nat
        /\ now \in Nat /\ began \in Nat /\ start.event \in Nat
    BY RunChecksAssumption, EventBusAssumption DEF TypeOK, RunTypeOK, Drop
  <1>5. new.num = n /\ new.at = now /\ new.when = When
    OBVIOUS
  <1> HIDE DEF new
  <1>6. DropsLogged'
    <2>1. \A d \in drops : d.num <= n /\ events'[d.num] # "spine" /\ d.at <= now'
      BY <1>1, <1>3, <1>4 DEF Recorded, DropsLogged
    <2>2. new.num <= n /\ events'[new.num] # "spine" /\ new.at <= now'
      BY <1>1, <1>3, <1>4, <1>5
    <2>3. QED
      BY <1>1, <1>3, <2>1, <2>2 DEF DropsLogged
  <1>7. StartBetween'
    <2>1. start.event <= Len(events)
      BY DEF Recorded, StartBetween
    <2>2. new.num > start.event /\ (run = "ready" => new.when = "before")
      BY <1>3, <1>4, <1>5, <2>1 DEF When
    <2>3. QED
      BY <1>1, <1>3, <1>4, <2>1, <2>2 DEF Recorded, StartBetween
  <1>8. PurposeInWindow'
    <2>1. new.when = "purpose" => Interrupted
      BY <1>5 DEF When
    <2>2. began <= new.at
      BY <1>5 DEF Recorded, PurposeInWindow
    <2>3. QED
      BY <1>1, <2>1, <2>2 DEF Recorded, PurposeInWindow, InWindow, Interrupted
  <1>9. QED
    BY <1>6, <1>7, <1>8 DEF Recorded

\* When an interrupting test case ends, what happened in it is inside its window.
LEMMA EndRecords ==
  ASSUME TypeOK, Recorded, EndTestCase PROVE Recorded'
  <1>1. /\ run = "testing" /\ run' = "sample" /\ windows' = windows \cup Windows
        /\ UNCHANGED <<drops, case, start, began, now, events>>
    BY DEF EndTestCase, Goto, connection, busVars
  <1>2. DropsLogged' /\ StartBetween'
    BY <1>1 DEF Recorded, DropsLogged, StartBetween
  <1>3. ASSUME NEW d \in drops, d.when = "purpose" PROVE InWindow(d)'
    <2>1. CASE InWindow(d)
      BY <1>1, <2>1 DEF InWindow
    <2>2. CASE Interrupted /\ began <= d.at
      <3>1. [from |-> began, to |-> now] \in windows'
        BY <1>1, <2>2 DEF Windows, Interrupted
      <3>2. d.at <= now
        BY DEF Recorded, DropsLogged
      <3>3. QED
        BY <2>2, <3>1, <3>2 DEF InWindow
    <2>3. QED
      BY <1>3, <2>1, <2>2 DEF Recorded, PurposeInWindow
  <1>4. PurposeInWindow'
    BY <1>1, <1>3 DEF Recorded, PurposeInWindow
  <1>5. QED
    BY <1>2, <1>4 DEF Recorded

\* The run starts after every disconnection there was.
LEMMA BeginRecords ==
  ASSUME TypeOK, Recorded, Begin PROVE Recorded'
  <1>1. Len(events) \in Nat /\ now \in Nat
    BY DEF TypeOK, BusTypeOK, RunTypeOK
  <1>2. PICK t \in {0, Latest}, e \in {0, IF EvFloor < Len(events) THEN Len(events) ELSE 0} :
          start' = [trace |-> t, event |-> e]
    BY DEF Begin
  <1>3. /\ run = "ready" /\ run' # "ready" /\ began' = now
        /\ UNCHANGED <<drops, now, windows, events>>
    BY DEF Begin, Goto, connection, busVars
  <1>4. start'.event <= Len(events) /\ \A d \in drops : d.when = "before"
    BY <1>1, <1>2, <1>3 DEF Recorded, StartBetween
  <1>5. DropsLogged' /\ StartBetween' /\ PurposeInWindow'
    BY <1>1, <1>3, <1>4 DEF Recorded, DropsLogged, StartBetween, PurposeInWindow
  <1>6. QED
    BY <1>5 DEF Recorded

\* Between two test cases nothing is inside one.
LEMMA NextRecords ==
  ASSUME TypeOK, Recorded, NextTestCase PROVE Recorded'
  <1>1. /\ run = "await" /\ run' # "ready" /\ UNCHANGED <<drops, start, now, windows>>
        /\ began' \in {began, now}
        /\ (events' = events \/ \E p \in Publishers, kind \in Kinds : Post(p, kind))
    BY RunChecksAssumption DEF NextTestCase, Progress, Goto, connection, busVars
  <1>2. now \in Nat /\ began \in Nat /\ start.event \in Nat /\ Len(events) \in Nat
    BY DEF TypeOK, RunTypeOK, BusTypeOK
  <1>3. DropsLogged'
    BY <1>1, <1>2, LoggedStay DEF Recorded
  <1>4. Len(events') \in Nat /\ Len(events) <= Len(events')
    BY <1>1, <1>2, PostAppends
  <1>5. StartBetween'
    BY <1>1, <1>2, <1>4 DEF Recorded, StartBetween
  <1>6. PurposeInWindow'
    BY <1>1, <1>2 DEF Recorded, PurposeInWindow, InWindow, Interrupted
  <1>7. QED
    BY <1>3, <1>5, <1>6 DEF Recorded

\* The goroutine of the run goes on, outside its test cases.
LEMMA RunRecords ==
  ASSUME TypeOK, Recorded, run' # "ready", run # "testing",
         UNCHANGED <<events, drops, case, start, now, began, windows>>
  PROVE  Recorded'
  <1>1. DropsLogged' /\ StartBetween'
    BY DEF Recorded, DropsLogged, StartBetween
  <1>2. PurposeInWindow'
    BY DEF Recorded, PurposeInWindow, InWindow, Interrupted
  <1>3. QED
    BY <1>1, <1>2 DEF Recorded

\* The run evaluates only answers it asked for between its test cases or at the end.
OwnSample == page["run"].at # "none" => run \in {"sample", "final"}

LEMMA OwnStays == TypeOK /\ OwnSample /\ [Next]_vars => OwnSample'
  <1> SUFFICES ASSUME TypeOK, OwnSample, [Next]_vars PROVE OwnSample'
    OBVIOUS
  <1>1. page \in [Samplers -> Page] /\ {"run", "ticker"} = Samplers
    BY DEF TypeOK, RunTypeOK, Samplers
  <1>2. CASE TickerSamples \/ TickerEvaluates
    <2>1. run' = run /\ page'["run"] = page["run"]
      BY <1>1, <1>2 DEF TickerSamples, TickerEvaluates, Sample, Request, Evaluate
    <2>2. QED
      BY <2>1 DEF OwnSample
  <1>3. CASE RunSamples
    BY <1>3 DEF RunSamples, Sample, Request, OwnSample
  <1>4. CASE RunEvaluates
    BY <1>1, <1>4 DEF RunEvaluates, Evaluate, NoPage, OwnSample
  <1>5. CASE ~(TickerSamples \/ TickerEvaluates \/ RunSamples \/ RunEvaluates)
    <2>1. page' = page /\ (run' = run \/ run \notin {"sample", "final"})
      BY <1>5 DEF Next, vars, runVars, AddFrame, Announce, Tick, Disconnect, Reconnect, ClearTrace, ClearBus,
         TickerStops, Begin, EndTestCase, NextTestCase, StopSampling, Check, Goto
    <2>2. QED
      BY <2>1 DEF OwnSample
  <1>6. QED
    BY <1>2, <1>3, <1>4, <1>5

LEMMA StepRecords == IInv /\ OwnSample /\ Recorded /\ [Next]_vars => Recorded'
  <1> SUFFICES ASSUME IInv, OwnSample, Recorded, [Next]_vars PROVE Recorded'
    OBVIOUS
  <1>1. TypeOK /\ now \in Nat /\ Len(events) \in Nat
    BY DEF IInv, TypeOK, RunTypeOK, BusTypeOK
  <1>2. ASSUME \/ \E frame \in Traffic : AddFrame(frame)
               \/ \E s \in Sources : Announce(s)
               \/ Tick \/ Reconnect \/ ClearTrace \/ ClearBus
               \/ TickerSamples \/ TickerEvaluates \/ RunSamples \/ TickerStops
               \/ UNCHANGED vars
        PROVE  Recorded'
    <2>1. /\ UNCHANGED <<drops, run, case, start, began, windows>> /\ (now' = now \/ now' = now + 1)
          /\ (events' = events \/ \E p \in Publishers, kind \in Kinds : Post(p, kind))
      <3>1. CASE \E frame \in Traffic : AddFrame(frame)
        BY <3>1 DEF AddFrame, busVars, connection, times
      <3>2. CASE \E s \in Sources : Announce(s)
        BY <3>2, RunChecksAssumption DEF Announce, connection, times
      <3>3. CASE Tick \/ ClearTrace \/ ClearBus
        BY <3>3 DEF Tick, ClearTrace, ClearBus, ClearEvents, runVars, busVars, connection, times
      <3>4. CASE Reconnect
        BY <3>4, RunChecksAssumption DEF Reconnect, times
      <3>5. CASE TickerSamples \/ TickerEvaluates \/ RunSamples \/ TickerStops
        BY <3>5 DEF TickerSamples, TickerEvaluates, RunSamples, TickerStops, Sample, Request, Evaluate,
           busVars, connection, times
      <3>6. CASE UNCHANGED vars
        BY <3>6 DEF vars, runVars, busVars, connection, times
      <3>7. QED
        BY <1>2, <3>1, <3>2, <3>3, <3>4, <3>5, <3>6
    <2>2. now' \in Nat /\ now <= now'
      BY <1>1, <2>1
    <2>3. Len(events') \in Nat /\ Len(events) <= Len(events')
      BY <1>1, <2>1, PostAppends
    <2>4. DropsLogged'
      BY <1>1, <2>1, <2>2, LoggedStay DEF Recorded
    <2>5. QED
      BY <1>1, <2>1, <2>2, <2>3, <2>4, RecordsStay DEF Recorded
  <1>3. ASSUME RunEvaluates \/ StopSampling \/ (\E read \in BOOLEAN : Check(read)) PROVE Recorded'
    <2>1. /\ run' # "ready" /\ UNCHANGED <<events, drops, case, start, now, began, windows>>
      BY <1>3 DEF RunEvaluates, Evaluate, StopSampling, Check, Goto, busVars, connection, times
    <2>2. run # "testing"
      BY <1>3 DEF RunEvaluates, Evaluate, StopSampling, Check, Goto, OwnSample
    <2>3. QED
      BY <1>1, <2>1, <2>2, RunRecords
  <1>4. QED
    BY <1>1, <1>2, <1>3, DisconnectRecords, EndRecords, BeginRecords, NextRecords DEF Next

\* A whole second is less than a second before the time it was taken from.
LEMMA WholeSecond ==
  ASSUME NEW S \in Nat \ {0}, NEW t \in Nat
  PROVE  t - (t % S) \in Int /\ t - (t % S) <= t /\ t < t - (t % S) + S
  <1>1. t % S \in 0 .. S - 1
    OBVIOUS
  <1>2. QED
    BY <1>1

\* What the whole second of a disconnection says of its time.
LEMMA PlannedMeans ==
  ASSUME TypeOK, NEW d \in drops
  PROVE  /\ InWindow(d) => Planned(Ts(d))
         /\ Planned(Ts(d)) => NearInterruption(d)
  <1>1. Second \in Nat \ {0} /\ d.at \in Nat
    BY RunChecksAssumption DEF TypeOK, RunTypeOK, Drop
  <1>2. Ts(d) \in Int /\ Ts(d) <= d.at /\ d.at < Ts(d) + Second
    BY <1>1, WholeSecond DEF Ts
  <1>3. \A w \in windows : w.from \in Nat /\ w.to \in Nat
    BY RunChecksAssumption DEF TypeOK, RunTypeOK, Interruption
  <1>4. ASSUME InWindow(d) PROVE Planned(Ts(d))
    BY <1>1, <1>2, <1>3, <1>4 DEF InWindow, Planned
  <1>5. ASSUME Planned(Ts(d)) PROVE NearInterruption(d)
    BY <1>1, <1>2, <1>3, <1>5 DEF NearInterruption, Planned
  <1>6. QED
    BY <1>4, <1>5

\* A step that judges the connection.
Judged(read) ==
  /\ report'.connection = "passed" =>
         /\ report.atEnd
         /\ read => \A d \in drops : d.when = "before" \/ NearInterruption(d) \/ Unseen(d)
  /\ report'.connection = "failed" =>
         \/ ~report.atEnd
         \/ \E d \in drops : d.num > start.event /\ d.when # "purpose"

LEMMA CheckJudges ==
  ASSUME TypeOK, Recorded, NEW read \in BOOLEAN, Check(read) PROVE Judged(read)
  <1>1. run = "check" /\ report'.connection = ConnectionVerdict(read)
    BY DEF Check, Goto
  <1>2. Len(events) \in Nat /\ EvFloor \in Nat /\ start.event \in Nat
    <2>1. Len(events) \in Nat /\ evCut \in Nat /\ RingSize \in Nat
      BY EventBusAssumption DEF TypeOK, BusTypeOK
    <2>2. QED
      BY <2>1 DEF TypeOK, RunTypeOK, EvFloor
  <1>3. ASSUME report'.connection = "passed", read, NEW d \in drops, d.when # "before", ~Unseen(d)
        PROVE  NearInterruption(d)
    <2>1. d \notin Unplanned(start.event)
      BY <1>1, <1>3 DEF ConnectionVerdict
    <2>2. d.num \in Nat /\ d.num > start.event /\ d.num <= Len(events) /\ events[d.num] # "spine"
      BY <1>3 DEF Recorded, DropsLogged, StartBetween, TypeOK, RunTypeOK, Drop
    <2>3. d.num > EvFloor /\ ~(Cardinality(Lifecycle(d.num)) >= EventLimit)
      BY <1>2, <1>3, <2>2 DEF Unseen
    <2>4. d.num \in Lifecycle(EvFloor)
      BY <1>2, <2>2, <2>3 DEF Lifecycle
    <2>5. Cardinality(Lifecycle(d.num)) < EventLimit
      <3>1. IsFiniteSet(1 .. Len(events))
        BY <1>2, FS_Interval, 1 \in Int, Len(events) \in Int
      <3>2. Lifecycle(d.num) \in SUBSET (1 .. Len(events))
        BY <1>2, <2>2 DEF Lifecycle
      <3>3. Cardinality(Lifecycle(d.num)) \in Nat
        BY <3>1, <3>2, FS_Subset, FS_CardinalityType
      <3>4. QED
        BY <2>3, <3>3, RunChecksAssumption
    <2>6. Planned(Ts(d))
      BY <2>1, <2>2, <2>4, <2>5 DEF Unplanned, Recent
    <2>7. QED
      BY <2>6, PlannedMeans
  <1>4. ASSUME report'.connection = "failed", report.atEnd
        PROVE  \E d \in drops : d.num > start.event /\ d.when # "purpose"
    <2>1. Unplanned(start.event) # {}
      BY <1>1, <1>4 DEF ConnectionVerdict
    <2>2. PICK d \in drops : d.num > start.event /\ ~Planned(Ts(d))
      BY <2>1 DEF Unplanned
    <2>3. ~InWindow(d)
      BY <2>2, PlannedMeans
    <2>4. d.when # "purpose"
      BY <1>1, <2>3 DEF Recorded, PurposeInWindow, Interrupted
    <2>5. QED
      BY <2>2, <2>4
  <1>5. report'.connection = "passed" => report.atEnd
    BY <1>1 DEF ConnectionVerdict
  <1>6. QED
    BY <1>3, <1>4, <1>5 DEF Judged

\* Whole seconds or not, the connection check never fails a device for what a test
\* case did on purpose, and excuses nothing but what was within two seconds of one
\* or what the ring or the request has lost: for any number of ticks in a second,
\* any test cases and any limits of the ring and the request.
THEOREM ConnectionJudged == Spec => ConnectionSound
  <1>1. Init => Recorded /\ OwnSample
    BY EventBusAssumption DEF Init, BusInit, Recorded, DropsLogged, StartBetween, PurposeInWindow,
       OwnSample, NoPage, Samplers
  <1>2. TypeOK /\ Recorded => \A read \in BOOLEAN : Check(read) => Judged(read)
    BY CheckJudges
  <1>3. TypeOK /\ Recorded /\ [Next]_vars => [\A read \in BOOLEAN : Check(read) => Judged(read)]_vars
    BY <1>2
  <1>4. QED
    BY <1>1, <1>3, OwnStays, StepRecords, Inductive, TypeCorrect, PTL DEF Spec, ConnectionSound, Judged
=============================================================================
