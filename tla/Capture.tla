-------------------------------- MODULE Capture --------------------------------
(***************************************************************************)
(* From a captured frame to everybody who follows the session: the record  *)
(* (FrameTrace), the live tracers (TracerFeed) and the event streams       *)
(* (EventBus), composed by trace.Store.Add and its caller                  *)
(* (internal/trace/trace.go, internal/eebusgo/boot.go).                    *)
(*                                                                         *)
(* Every websocket has one goroutine that reads and one that writes, and   *)
(* each adds its frames one after the other; the goroutines of several     *)
(* connections and stacks add side by side.  A frame is checked, then      *)
(* numbered and kept under the store's mutex, then handed to the feed      *)
(* without it; when the check found something, an event follows.  The      *)
(* check is local to the frame here.  Clearing the two records (RunChecks  *)
(* has it) changes nothing that is passed on and is left out.              *)
(***************************************************************************)
EXTENDS FrameTrace, TracerFeed, EventBus

ASSUME CaptureAssumption == Publishers = Sources /\ Kinds = {"spine"}

VARIABLES
    pending,  \* the frames numbered and not yet handed to the feed
    owing     \* the sources that still have to publish the finding of their frame

captureVars == <<pending, owing>>
vars == <<traceVars, feedVars, busVars, captureVars>>

TypeOK ==
    /\ TraceTypeOK /\ FeedTypeOK /\ BusTypeOK
    /\ pending \subseteq 1 .. Len(log)
    /\ owing \subseteq Sources

Init ==
    /\ TraceInit /\ FeedInit /\ BusInit
    /\ pending = {} /\ owing = {}

\* Mutant: the feed is served by a goroutine of its own for each frame.
BusyAsync(s) == s \in owing \/ sending[s].to # {}
Busy(s) == s \in owing \/ sending[s].to # {} \/ \E n \in pending : log[n].source = s

AddFrame(frame) ==
    /\ ~Busy(frame.source)
    /\ Number(frame)
    /\ pending' = pending \cup {Latest + 1}
    /\ UNCHANGED <<feedVars, busVars, owing>>

HandOver(n) ==
    /\ n \in pending /\ pending' = pending \ {n}
    /\ Publish(n)
    /\ owing' = IF log[n].error THEN owing \cup {log[n].source} ELSE owing
    /\ UNCHANGED <<traceVars, busVars>>

Announce(s) ==
    /\ s \in owing /\ owing' = owing \ {s}
    /\ Post(s, "spine")
    /\ UNCHANGED <<traceVars, feedVars, pending>>

\* What the clients' and the peers' goroutines do, and the shutdown.
Serve(c) == Deliver(c) \/ Drained(c) \/ Deregister(c)
Feeding ==
    /\ \/ \E c \in Tracers : Accept(c) \/ Register(c) \/ Serve(c) \/ WriteFails(c)
       \/ \E u \in Peers : Greet(u)
       \/ Close
    /\ UNCHANGED <<traceVars, busVars, captureVars>>

Streaming ==
    /\ \/ \E p \in Publishers, c \in Streams : Send(p, c)
       \/ \E c \in Streams : Open(c) \/ Write(c) \/ CloseStream(c)
    /\ UNCHANGED <<traceVars, feedVars, captureVars>>

Next ==
    \/ \E frame \in Traffic : AddFrame(frame)
    \/ \E n \in 1 .. MaxFrames : HandOver(n)
    \/ \E s \in Sources : Announce(s)
    \/ Feeding \/ Streaming

\* A client's goroutine goes on: its tracer reads, or the write fails.
Spec ==
    /\ Init /\ [][Next]_vars
    /\ \A c \in Tracers : WF_vars(Serve(c) /\ UNCHANGED <<traceVars, busVars, captureVars>>)

-----------------------------------------------------------------------------
(* Properties *)

\* The lines a tracer got, is getting and has queued.
Lines(c) == client[c].got \o client[c].replay \o client[c].queue
Rising(q) == \A i, j \in 1 .. Len(q) : i < j => q[i] < q[j]

\* "The replay neither misses nor repeats a frame" (accept): whenever a tracer
\* attaches and however frames are published meanwhile, it gets every line at
\* most once and in the feed's order; as long as its queue was never full, it
\* gets all of them from the oldest line kept when it attached to the newest
\* one, and so does a UDP peer.
SeamlessReplay ==
    /\ \A c \in Tracers :
          /\ Rising(Lines(c))
          /\ c \in tcp /\ ~client[c].lost
                => Lines(c) = Positions(First(client[c].since), Newest)
    /\ \A u \in Peers : \A i \in 1 .. Len(udp[u].got) :
          udp[u].got[i] = udp[u].got[1] + i - 1
    /\ ~closed => \A u \in Peers : udp[u].known /\ Newest > 0 =>
          udp[u].got # <<>> /\ udp[u].got[Len(udp[u].got)] = Newest

\* Frames of several connections may reach the feed in another order than they
\* were numbered, but those of one connection and direction never do: a tracer
\* sees each direction of a conversation as it was. And every frame in the
\* record reaches the feed, once.
SourceOrder ==
    /\ \A i, j \in 1 .. Newest : i < j => fed[i] # fed[j] /\
          (log[fed[i]].source = log[fed[j]].source => fed[i] < fed[j])
    /\ {fed[i] : i \in 1 .. Newest} = 1 .. Latest \ pending

\* A live stream misses no event and gets none twice, unless its channel was
\* full: each event after its subscription is written, waiting, or still being
\* sent to it. (Their order is not promised.)
StreamGapless ==
    \A c \in Streams :
        LET arrived == stream[c].got \o stream[c].queue
            coming  == {sending[p].num : p \in {q \in Publishers : c \in sending[q].to}} IN
        /\ \A i, j \in 1 .. Len(arrived) : i # j => arrived[i] # arrived[j]
        /\ \A i \in 1 .. Len(arrived) : arrived[i] > stream[c].since /\ arrived[i] \notin coming
        /\ stream[c].at = "open" /\ ~stream[c].lost =>
              {arrived[i] : i \in 1 .. Len(arrived)} \cup coming = stream[c].since + 1 .. Len(events)

\* "Close ... disconnects every attached tracer": a client that was registered
\* when the feed closed gets what is queued for it and is then disconnected, if
\* it reads or goes away (the writes have no deadline).
CloseEnds ==
    \A c \in Tracers : closed /\ client[c].at = "serving" /\ c \notin tcp ~> client[c].at = "gone"
=============================================================================
