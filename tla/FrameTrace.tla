------------------------------ MODULE FrameTrace ------------------------------
(***************************************************************************)
(* The record of captured SHIP frames (internal/trace/trace.go): a ring of *)
(* the newest frames, each with a number that is never given twice.        *)
(*                                                                         *)
(* log holds every frame ever numbered, so the store's seq is Len(log) and *)
(* its ring the frames of log above Floor.  Of a frame is kept which       *)
(* goroutine added it and whether its conformance check found an error.    *)
(***************************************************************************)
EXTENDS Integers, Sequences

CONSTANTS
    Sources,    \* the goroutines that add frames
    Traffic,    \* the frames they add
    Capacity,   \* RingCapacity
    MaxFrames   \* bound: frames

ASSUME FrameTraceAssumption ==
    /\ Traffic \subseteq [source : Sources, error : BOOLEAN]
    /\ Capacity \in Nat \ {0}
    /\ MaxFrames \in Nat

VARIABLES
    log,  \* the frames in the order of their numbers
    cut   \* the newest frame when the trace was cleared last

traceVars == <<log, cut>>

TraceTypeOK ==
    /\ log \in Seq(Traffic) /\ Len(log) <= MaxFrames
    /\ cut \in 0..Len(log)

TraceInit == log = <<>> /\ cut = 0

Latest == Len(log)
Higher(a, b) == IF a > b THEN a ELSE b

\* The newest frame that is not in the ring any more: the oldest one leaves a
\* full ring.  Mutant: the ring keeps one frame less than its readers count on.
FloorTight == Higher(cut, Latest - Capacity + 1)
Floor == Higher(cut, Latest - Capacity)
Ring == Floor + 1 .. Latest

\* The part of Add under the store's mutex: a checked frame gets its number and
\* its place in the ring.
Number(frame) ==
    /\ Latest < MaxFrames
    /\ log' = Append(log, frame)
    /\ UNCHANGED cut

Clear == cut' = Latest /\ UNCHANGED log
=============================================================================
