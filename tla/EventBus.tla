------------------------------- MODULE EventBus -------------------------------
(***************************************************************************)
(* The event bus (internal/eebusgo/eventbus.go): a ring of the newest      *)
(* events, read by polling, and a channel for every live stream.           *)
(*                                                                         *)
(* Publish numbers and keeps the event under the bus's mutex and copies    *)
(* the list of streams; it sends to their channels after releasing it, one *)
(* after the other, and drops the event where a channel is full.  As in    *)
(* FrameTrace, events holds every event so far and the ring those above    *)
(* EvFloor.                                                                *)
(***************************************************************************)
EXTENDS Integers, Sequences

CONSTANTS
    Publishers,  \* the goroutines that publish
    Kinds,       \* the kinds of event told apart
    RingSize,    \* ringSize
    Streams,     \* the live streams that may be opened
    Backlog,     \* the capacity of a stream's channel
    MaxEvents    \* bound: events

ASSUME EventBusAssumption ==
    /\ RingSize \in Nat \ {0} /\ Backlog \in Nat \ {0} /\ MaxEvents \in Nat

VARIABLES
    events,   \* the events in the order of their numbers
    evCut,    \* the newest event when the ring was cleared last
    sending,  \* sending[p]: the event publisher p is sending, and to whom it still is
    stream    \* stream[c]: a live stream

busVars == <<events, evCut, sending, stream>>

\* since: the number of the last event before the stream subscribed; got: the
\* events written to the response; lost: whether one was dropped.
Stream == [at : {"closed", "open", "over"}, since : Nat, queue : Seq(Nat), got : Seq(Nat),
           lost : BOOLEAN]
NoStream == [at |-> "closed", since |-> 0, queue |-> <<>>, got |-> <<>>, lost |-> FALSE]
NotSending == [num |-> 0, to |-> {}]
StillTo(n, to) == IF to = {} THEN NotSending ELSE [num |-> n, to |-> to]

BusTypeOK ==
    /\ events \in Seq(Kinds) /\ Len(events) <= MaxEvents
    /\ evCut \in 0..Len(events)
    /\ sending \in [Publishers -> [num : 0..Len(events), to : SUBSET Streams]]
    /\ stream \in [Streams -> Stream]
    /\ \A c \in Streams : Len(stream[c].queue) <= Backlog

BusInit ==
    /\ events = <<>> /\ evCut = 0
    /\ sending = [p \in Publishers |-> NotSending]
    /\ stream = [c \in Streams |-> NoStream]

\* The newest event that is not in the ring any more.
EvFloor == IF Len(events) - RingSize > evCut THEN Len(events) - RingSize ELSE evCut

\* The event is numbered and kept, and the open streams are listed.
Post(p, kind) ==
    LET n == Len(events) + 1
        open == {c \in Streams : stream[c].at = "open"} IN
    /\ sending[p].to = {} /\ n <= MaxEvents
    /\ events' = Append(events, kind)
    /\ sending' = [sending EXCEPT ![p] = StillTo(n, open)]
    /\ UNCHANGED <<evCut, stream>>

\* Mutant: what is sent is read from the ring after the mutex was released.
SentLatest(p) == Len(events)
Sent(p) == sending[p].num

\* A send to one of the listed channels, which may have been closed meanwhile.
Send(p, c) ==
    /\ c \in sending[p].to
    /\ sending' = [sending EXCEPT ![p] = StillTo(sending[p].num, sending[p].to \ {c})]
    /\ stream' = [stream EXCEPT ![c] =
                    IF Len(stream[c].queue) < Backlog
                    THEN [stream[c] EXCEPT !.queue = Append(stream[c].queue, Sent(p))]
                    ELSE [stream[c] EXCEPT !.lost = TRUE]]
    /\ UNCHANGED <<events, evCut>>

ClearEvents ==
    /\ evCut' = Len(events)
    /\ UNCHANGED <<events, sending, stream>>

\* handleEventsStream: subscribe, write what arrives, cancel when the client is gone.
Open(c) ==
    /\ stream[c].at = "closed"
    /\ stream' = [stream EXCEPT ![c].at = "open", ![c].since = Len(events)]
    /\ UNCHANGED <<events, evCut, sending>>

Write(c) ==
    /\ stream[c].at = "open" /\ stream[c].queue # <<>>
    /\ stream' = [stream EXCEPT ![c].queue = Tail(stream[c].queue),
                                ![c].got = Append(stream[c].got, Head(stream[c].queue))]
    /\ UNCHANGED <<events, evCut, sending>>

CloseStream(c) ==
    /\ stream[c].at = "open"
    /\ stream' = [stream EXCEPT ![c].at = "over"]
    /\ UNCHANGED <<events, evCut, sending>>
=============================================================================
