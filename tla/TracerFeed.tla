------------------------------ MODULE TracerFeed ------------------------------
(***************************************************************************)
(* The live feed of frames to attached tracers                             *)
(* (internal/tracerfeed/tracerfeed.go).                                    *)
(*                                                                         *)
(* A TCP client is accepted, and then, under the feed's mutex, given the   *)
(* recent lines and registered; a goroutine writes it those lines and then *)
(* what arrives in its channel.  A UDP peer is sent the recent lines and   *)
(* registered under the mutex.  Publish keeps the line and hands it to     *)
(* everybody under the mutex, and drops it where a channel is full.        *)
(*                                                                         *)
(* fed holds every line ever published, by the number of its frame; the    *)
(* history is its newest ReplayDepth, and clients hold positions of fed.   *)
(* Abstracted: a datagram read just before Close registers a peer nothing  *)
(* can be sent to any more; what the network does with datagrams.          *)
(***************************************************************************)
EXTENDS Integers, Sequences

CONSTANTS
    Tracers,      \* TCP clients
    Peers,        \* UDP peers
    ReplayDepth,  \* replayDepth
    QueueDepth    \* queueDepth

ASSUME TracerFeedAssumption == ReplayDepth \in Nat \ {0} /\ QueueDepth \in Nat \ {0}

VARIABLES
    fed,     \* the lines published, by the numbers of their frames
    tcp,     \* the registered clients
    client,  \* client[c]: a TCP client and the goroutine that serves it
    udp,     \* udp[u]: a UDP peer
    closed   \* Close was called

feedVars == <<fed, tcp, client, udp, closed>>

\* since: the last line when it was accepted, and later when it was registered;
\* got: what was written to the connection; lost: whether a line was dropped;
\* ended: its channel is closed.
Client == [at : {"away", "accepted", "serving", "leaving", "gone"}, since : Nat,
           replay : Seq(Nat), queue : Seq(Nat), got : Seq(Nat), lost : BOOLEAN, ended : BOOLEAN]
NoClient == [at |-> "away", since |-> 0, replay |-> <<>>, queue |-> <<>>, got |-> <<>>,
             lost |-> FALSE, ended |-> FALSE]
Peer == [known : BOOLEAN, got : Seq(Nat)]

FeedTypeOK ==
    /\ fed \in Seq(Nat) /\ closed \in BOOLEAN
    /\ tcp \subseteq Tracers
    /\ client \in [Tracers -> Client]
    /\ udp \in [Peers -> Peer]
    /\ \A c \in Tracers : Len(client[c].queue) <= QueueDepth /\ Len(client[c].replay) <= ReplayDepth

FeedInit ==
    /\ fed = <<>> /\ tcp = {} /\ closed = FALSE
    /\ client = [c \in Tracers |-> NoClient]
    /\ udp = [u \in Peers |-> [known |-> FALSE, got |-> <<>>]]

Newest == Len(fed)
First(last) == IF last > ReplayDepth THEN last - ReplayDepth + 1 ELSE 1
\* The positions first..last.
Positions(first, last) == [k \in 1 .. last - first + 1 |-> first + k - 1]

\* The accept loop takes one connection at a time.
Accept(c) ==
    /\ ~closed /\ client[c].at = "away"
    /\ \A d \in Tracers : client[d].at # "accepted"
    /\ client' = [client EXCEPT ![c].at = "accepted", ![c].since = Newest]
    /\ UNCHANGED <<fed, tcp, udp, closed>>

\* Mutant: the history is copied when the connection is accepted, before the lock.
SnapshotEarly(c) == Positions(First(client[c].since), client[c].since)
Snapshot(c) == Positions(First(Newest), Newest)

Register(c) ==
    /\ client[c].at = "accepted"
    /\ client' = [client EXCEPT ![c].at = "serving", ![c].since = Newest, ![c].replay = Snapshot(c)]
    /\ tcp' = tcp \cup {c}
    /\ UNCHANGED <<fed, udp, closed>>

\* The goroutine of a client writes the next line.
Deliver(c) ==
    /\ client[c].at = "serving"
    /\ \/ /\ client[c].replay # <<>>
          /\ client' = [client EXCEPT ![c].replay = Tail(client[c].replay),
                                      ![c].got = Append(client[c].got, Head(client[c].replay))]
       \/ /\ client[c].replay = <<>> /\ client[c].queue # <<>>
          /\ client' = [client EXCEPT ![c].queue = Tail(client[c].queue),
                                      ![c].got = Append(client[c].got, Head(client[c].queue))]
    /\ UNCHANGED <<fed, tcp, udp, closed>>

\* The last line of a closed channel was written.
Drained(c) ==
    /\ client[c].at = "serving" /\ client[c].replay = <<>> /\ client[c].queue = <<>> /\ client[c].ended
    /\ client' = [client EXCEPT ![c].at = "leaving"]
    /\ UNCHANGED <<fed, tcp, udp, closed>>

\* A write fails: the tracer went away.
WriteFails(c) ==
    /\ client[c].at = "serving" /\ (client[c].replay # <<>> \/ client[c].queue # <<>>)
    /\ client' = [client EXCEPT ![c].at = "leaving"]
    /\ UNCHANGED <<fed, tcp, udp, closed>>

Deregister(c) ==
    /\ client[c].at = "leaving"
    /\ client' = [client EXCEPT ![c].at = "gone"]
    /\ tcp' = tcp \ {c}
    /\ UNCHANGED <<fed, udp, closed>>

Greet(u) ==
    /\ ~closed /\ ~udp[u].known
    /\ udp' = [udp EXCEPT ![u] = [known |-> TRUE, got |-> Positions(First(Newest), Newest)]]
    /\ UNCHANGED <<fed, tcp, client, closed>>

\* Mutant: a full channel is not noticed.
FitsAlways(c) == TRUE
Fits(c) == Len(client[c].queue) < QueueDepth

\* The frame numbered num becomes a line.
Publish(num) ==
    LET line == Newest + 1 IN
    /\ fed' = Append(fed, num)
    /\ client' = [c \in Tracers |->
                    IF c \notin tcp THEN client[c]
                    ELSE IF Fits(c)
                    THEN [client[c] EXCEPT !.queue = Append(client[c].queue, line)]
                    ELSE [client[c] EXCEPT !.lost = TRUE]]
    /\ udp' = [u \in Peers |-> IF udp[u].known /\ ~closed
                               THEN [udp[u] EXCEPT !.got = Append(udp[u].got, line)] ELSE udp[u]]
    /\ UNCHANGED <<tcp, closed>>

\* Mutant: the registered clients' channels stay open.
EndedNone(c) == client[c].ended
Ended(c) == client[c].ended \/ c \in tcp

Close ==
    /\ ~closed /\ closed' = TRUE
    /\ client' = [c \in Tracers |-> [client[c] EXCEPT !.ended = Ended(c)]]
    /\ tcp' = {}
    /\ UNCHANGED <<fed, udp>>
=============================================================================
