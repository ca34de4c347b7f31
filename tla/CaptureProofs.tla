---------------------------- MODULE CaptureProofs ----------------------------
(* What Capture.tla says of the feed, proved for any sources, tracers, queue   *)
(* depths and number of frames.                                                *)
EXTENDS Capture, SequenceTheorems, TLAPS

\* The events being sent to a stream.
Coming(c) == {sending[p].num : p \in {q \in Publishers : c \in sending[q].to}}

\* No two publishers send the same event.
SendsApart ==
    \A p \in Publishers : sending[p].to # {} =>
        /\ sending[p].num \in 1 .. Len(events)
        /\ \A q \in Publishers : q # p /\ sending[q].to # {} => sending[q].num # sending[p].num

\* What a stream has of the n events, and what is still coming.
Has(arrived, r, coming, n) ==
    /\ \A i, j \in 1 .. Len(arrived) : i # j => arrived[i] # arrived[j]
    /\ \A i \in 1 .. Len(arrived) : arrived[i] \in r.since + 1 .. n /\ arrived[i] \notin coming
    /\ coming \subseteq r.since + 1 .. n /\ r.since <= n
    /\ r.at = "open" /\ ~r.lost => {arrived[i] : i \in 1 .. Len(arrived)} \cup coming = r.since + 1 .. n
    /\ r.at = "closed" => coming = {} /\ r.got = <<>> /\ r.queue = <<>> /\ ~r.lost
Receives(r, coming, n) == Has(r.got \o r.queue, r, coming, n)
StreamsReceive == \A c \in Streams : Receives(stream[c], Coming(c), Len(events))

\* A frame still to be handed over is the newest of its source.
OnePending == \A n \in pending : \A m \in n + 1 .. Latest : log[m].source # log[n].source

\* What a client was given, is given and has queued, when n lines are published
\* and it is registered or not (live).
LinesOf(r) == r.got \o r.replay \o r.queue
Follows(r, live, n) ==
    /\ Rising(LinesOf(r))
    /\ \A i \in 1 .. Len(LinesOf(r)) : LinesOf(r)[i] \in 1 .. n
    /\ live /\ ~r.lost => LinesOf(r) = Positions(First(r.since), n)
    /\ r.since <= n
    /\ r.at \in {"away", "accepted"} => ~live /\ r.got = <<>> /\ r.replay = <<>> /\ r.queue = <<>> /\ ~r.lost
TracersFollow == \A c \in Tracers : Follows(client[c], c \in tcp, Newest)

\* A peer was sent consecutive lines, up to the newest one while the feed is open.
PeerFollows(p, open, n) ==
    /\ \A i \in 1 .. Len(p.got) : p.got[i] = p.got[1] + i - 1
    /\ open /\ p.known /\ n > 0 => p.got # <<>> /\ p.got[Len(p.got)] = n
    /\ n = 0 => p.got = <<>>
PeersFollow == \A u \in Peers : PeerFollows(udp[u], ~closed, Newest)

Ordered == OnePending /\ SourceOrder
IInv == TypeOK /\ Ordered /\ TracersFollow /\ PeersFollow /\ SendsApart /\ StreamsReceive

USE TracerFeedAssumption, EventBusAssumption

-----------------------------------------------------------------------------
(* Lines *)

\* The positions from one line to another, and the next one after them.
LEMMA PositionsAre ==
  ASSUME NEW a \in Nat \ {0}, NEW b \in Nat, a <= b + 1
  PROVE  /\ Positions(a, b) \in Seq(Nat) /\ Len(Positions(a, b)) = b - a + 1
         /\ \A i \in 1 .. b - a + 1 : Positions(a, b)[i] = a + i - 1
         /\ Positions(a, b + 1) = Append(Positions(a, b), b + 1)
  <1>1. /\ Positions(a, b) \in Seq(Nat) /\ Len(Positions(a, b)) = b - a + 1
        /\ \A i \in 1 .. b - a + 1 : Positions(a, b)[i] = a + i - 1
    BY DEF Positions
  <1>2. /\ Positions(a, b + 1) \in Seq(Nat) /\ Len(Positions(a, b + 1)) = b - a + 2
        /\ \A i \in 1 .. b - a + 2 : Positions(a, b + 1)[i] = a + i - 1
    BY DEF Positions
  <1>3. Positions(a, b + 1) = Append(Positions(a, b), b + 1)
    <2> DEFINE p == Positions(a, b)
               q == Positions(a, b + 1)
    <2>1. p \in Seq(Nat) /\ b + 1 \in Nat /\ q \in Seq(Nat) /\ Len(p) + 1 = Len(q)
      BY <1>1, <1>2
    <2>2. \A i \in 1 .. Len(p) : p[i] = q[i]
      BY <1>1, <1>2
    <2>3. q[Len(p) + 1] = b + 1
      BY <1>1, <1>2
    <2> HIDE DEF p, q
    <2>4. Append(p, b + 1) \in Seq(Nat) /\ Len(Append(p, b + 1)) = Len(q)
      BY <2>1, AppendProperties
    <2>5. \A i \in 1 .. Len(q) : Append(p, b + 1)[i] = q[i]
      BY <2>1, <2>2, <2>3, AppendProperties
    <2>6. q = Append(p, b + 1)
      BY <2>1, <2>4, <2>5, SeqEqual
    <2>7. QED
      BY <2>6 DEF p, q
  <1>4. QED
    BY <1>1, <1>3

\* The replay starts at the oldest line kept, and no more than ReplayDepth lines are.
LEMMA FirstIs ==
  ASSUME NEW n \in Nat
  PROVE  First(n) \in Nat \ {0} /\ First(n) <= n + 1 /\ n - First(n) + 1 <= ReplayDepth /\ (n > 0 => First(n) <= n)
  BY DEF First

\* Writing the next line moves it and changes nothing about the lines as a whole.
LEMMA MovedOne ==
  ASSUME NEW g \in Seq(Nat), NEW s \in Seq(Nat), s # <<>>
  PROVE  Append(g, Head(s)) \o Tail(s) = g \o s
  <1>1. Head(s) \in Nat /\ Tail(s) \in Seq(Nat) /\ Len(Tail(s)) = Len(s) - 1 /\ Len(s) \in Nat \ {0}
    BY HeadTailProperties, EmptySeq
  <1>2. \A i \in 1 .. Len(Tail(s)) : Tail(s)[i] = s[i + 1]
    BY HeadTailProperties
  <1>3. /\ Append(g, Head(s)) \in Seq(Nat) /\ Len(Append(g, Head(s))) = Len(g) + 1
        /\ \A i \in 1 .. Len(g) : Append(g, Head(s))[i] = g[i]
        /\ Append(g, Head(s))[Len(g) + 1] = s[1]
    BY <1>1, AppendProperties
  <1>4. Len(g) \in Nat
    OBVIOUS
  <1>5. /\ Append(g, Head(s)) \o Tail(s) \in Seq(Nat) /\ g \o s \in Seq(Nat)
        /\ Len(Append(g, Head(s)) \o Tail(s)) = Len(g \o s) /\ Len(g \o s) = Len(g) + Len(s)
    BY <1>1, <1>3, <1>4, ConcatProperties
  <1>6. ASSUME NEW i \in 1 .. Len(g) + Len(s)
        PROVE  (Append(g, Head(s)) \o Tail(s))[i] = (g \o s)[i]
    <2>1. (g \o s)[i] = IF i <= Len(g) THEN g[i] ELSE s[i - Len(g)]
      BY ConcatProperties
    <2>2. (Append(g, Head(s)) \o Tail(s))[i]
              = IF i <= Len(g) + 1 THEN Append(g, Head(s))[i] ELSE Tail(s)[i - (Len(g) + 1)]
      BY <1>1, <1>3, <1>4, ConcatProperties
    <2>3. i > Len(g) + 1 => Tail(s)[i - (Len(g) + 1)] = s[i - Len(g)]
      BY <1>1, <1>2, <1>4
    <2>4. QED
      BY <1>1, <1>3, <1>4, <2>1, <2>2, <2>3
  <1>7. QED
    BY <1>5, <1>6, SeqEqual

\* The same for the line in the middle of three parts, and for the next part when it is empty.
LEMMA Moved ==
  ASSUME NEW g \in Seq(Nat), NEW r \in Seq(Nat), NEW q \in Seq(Nat)
  PROVE  /\ r # <<>> => Append(g, Head(r)) \o Tail(r) \o q = g \o r \o q
         /\ r = <<>> /\ q # <<>> => Append(g, Head(q)) \o r \o Tail(q) = g \o r \o q
  <1>1. r # <<>> => Append(g, Head(r)) \o Tail(r) \o q = g \o r \o q
    BY MovedOne
  <1>2. ASSUME r = <<>>, q # <<>> PROVE Append(g, Head(q)) \o r \o Tail(q) = g \o r \o q
    <2>1. Append(g, Head(q)) \in Seq(Nat)
      BY <1>2, HeadTailProperties, AppendProperties
    <2>2. Append(g, Head(q)) \o r = Append(g, Head(q)) /\ g \o r = g
      BY <1>2, <2>1, ConcatEmptySeq
    <2>3. QED
      BY <1>2, <2>2, MovedOne
  <1>3. QED
    BY <1>1, <1>2

\* A queued line is the last one.
LEMMA Queued ==
  ASSUME NEW s \in Seq(Nat), NEW q \in Seq(Nat), NEW x \in Nat
  PROVE  s \o Append(q, x) = Append(s \o q, x)
  <1>1. s \o q \in Seq(Nat) /\ <<x>> \in Seq(Nat)
    BY ConcatProperties
  <1>2. Append(q, x) = q \o <<x>>
    BY AppendIsConcat
  <1>3. Append(s \o q, x) = (s \o q) \o <<x>>
    BY <1>1, AppendIsConcat
  <1>4. QED
    BY <1>1, <1>2, <1>3, ConcatAssociative

\* What one more line does to a client that keeps up, and to one that lost it.
LEMMA FollowsNext ==
  ASSUME NEW r \in Client, NEW live \in BOOLEAN, NEW n \in Nat, Follows(r, live, n)
  PROVE  /\ ~live => Follows(r, live, n + 1)
         /\ live => Follows([r EXCEPT !.lost = TRUE], live, n + 1)
         /\ live => Follows([r EXCEPT !.queue = Append(r.queue, n + 1)], live, n + 1)
  <1> DEFINE s == LinesOf(r)
  <1>1. r.got \in Seq(Nat) /\ r.replay \in Seq(Nat) /\ r.queue \in Seq(Nat) /\ r.since \in Nat /\ r.lost \in BOOLEAN
    BY DEF Client
  <1>2. r.got \o r.replay \in Seq(Nat) /\ s \in Seq(Nat)
    BY <1>1, ConcatProperties DEF LinesOf
  <1>3. Len(s) \in Nat /\ \A i \in 1 .. Len(s) : s[i] \in 1 .. n + 1
    BY <1>2 DEF Follows
  <1>4. ~live => Follows(r, live, n + 1)
    BY <1>1, <1>3 DEF Follows
  <1>5. ASSUME live PROVE Follows([r EXCEPT !.lost = TRUE], live, n + 1)
    <2> DEFINE r1 == [r EXCEPT !.lost = TRUE]
    <2>1. /\ r1.got = r.got /\ r1.replay = r.replay /\ r1.queue = r.queue /\ r1.since = r.since
          /\ r1.at = r.at /\ r1.lost = TRUE
      BY DEF Client
    <2>2. LinesOf(r1) = s
      BY <2>1 DEF LinesOf
    <2> HIDE DEF r1
    <2>3. Follows(r1, live, n + 1)
      BY <1>1, <1>3, <1>5, <2>1, <2>2 DEF Follows
    <2>4. QED
      BY <2>3 DEF r1
  <1>6. ASSUME live PROVE Follows([r EXCEPT !.queue = Append(r.queue, n + 1)], live, n + 1)
    <2> DEFINE r1 == [r EXCEPT !.queue = Append(r.queue, n + 1)]
    <2>1. /\ r1.got = r.got /\ r1.replay = r.replay /\ r1.queue = Append(r.queue, n + 1)
          /\ r1.since = r.since /\ r1.at = r.at /\ r1.lost = r.lost
      BY DEF Client
    <2>2. LinesOf(r1) = Append(s, n + 1)
      <3>1. LinesOf(r1) = (r.got \o r.replay) \o Append(r.queue, n + 1)
        BY <2>1 DEF LinesOf
      <3>2. n + 1 \in Nat
        OBVIOUS
      <3>3. (r.got \o r.replay) \o Append(r.queue, n + 1) = Append((r.got \o r.replay) \o r.queue, n + 1)
        BY <1>1, <1>2, <3>2, Queued
      <3>4. QED
        BY <3>1, <3>3 DEF LinesOf
    <2> HIDE DEF r1
    <2>3. /\ Len(Append(s, n + 1)) = Len(s) + 1 /\ Append(s, n + 1)[Len(s) + 1] = n + 1
          /\ \A i \in 1 .. Len(s) : Append(s, n + 1)[i] = s[i]
      BY <1>2, AppendProperties
    <2>4. \A i \in 1 .. Len(s) : s[i] \in 1 .. n
      BY DEF Follows
    <2>5. Rising(LinesOf(r1)) /\ \A i \in 1 .. Len(LinesOf(r1)) : LinesOf(r1)[i] \in 1 .. n + 1
      <3>1. Rising(s)
        BY DEF Follows
      <3> HIDE DEF s
      <3>2. Rising(Append(s, n + 1))
        BY <1>3, <2>3, <2>4, <3>1 DEF Rising
      <3>3. \A i \in 1 .. Len(s) + 1 : Append(s, n + 1)[i] \in 1 .. n + 1
        BY <1>3, <2>3
      <3>4. QED
        BY <2>2, <2>3, <3>2, <3>3
    <2>6. ~r1.lost => LinesOf(r1) = Positions(First(r1.since), n + 1)
      <3>1. First(r.since) \in Nat \ {0} /\ First(r.since) <= n + 1
        <4>1. r.since <= n
          BY DEF Follows
        <4>2. First(r.since) \in Nat \ {0} /\ First(r.since) <= r.since + 1
          BY <1>1, FirstIs
        <4>3. QED
          BY <1>1, <4>1, <4>2
      <3>2. ~r.lost => s = Positions(First(r.since), n)
        BY <1>5, <1>6 DEF Follows
      <3>3. QED
        <4>1. Positions(First(r.since), n + 1) = Append(Positions(First(r.since), n), n + 1)
          BY <3>1, PositionsAre
        <4>2. QED
          BY <2>1, <2>2, <3>2, <4>1
    <2>7. r.since <= n + 1 /\ r.at \notin {"away", "accepted"}
      BY <1>1, <1>6 DEF Follows
    <2>8. QED
      BY <2>1, <2>5, <2>6, <2>7 DEF Follows, r1
  <1>7. QED
    BY <1>4, <1>5, <1>6

\* The replay a client is registered with.
LEMMA FollowsReplay ==
  ASSUME NEW r \in Client, NEW n \in Nat, Follows(r, FALSE, n), r.at = "accepted"
  PROVE  Follows([r EXCEPT !.at = "serving", !.since = n, !.replay = Positions(First(n), n)], TRUE, n)
  <1> DEFINE r1 == [r EXCEPT !.at = "serving", !.since = n, !.replay = Positions(First(n), n)]
             s == Positions(First(n), n)
  <1>1. /\ First(n) \in Nat \ {0} /\ First(n) <= n + 1
        /\ s \in Seq(Nat) /\ Len(s) = n - First(n) + 1
        /\ \A i \in 1 .. n - First(n) + 1 : s[i] = First(n) + i - 1
    BY FirstIs, PositionsAre
  <1>2. r1.at = "serving" /\ r1.since = n /\ r1.replay = s /\ r1.got = <<>> /\ r1.queue = <<>>
    BY DEF Client, Follows
  <1>3. LinesOf(r1) = s
    BY <1>1, <1>2, ConcatEmptySeq DEF LinesOf
  <1> HIDE DEF r1, s
  <1>4. Rising(s) /\ \A i \in 1 .. Len(s) : s[i] \in 1 .. n
    BY <1>1 DEF Rising
  <1>5. QED
    BY <1>2, <1>3, <1>4 DEF Follows, r1, s

\* What a client's own goroutine does leaves its lines as they are.
LEMMA FollowsSame ==
  ASSUME NEW r, NEW r1, NEW c, NEW T, NEW T1,
         NEW n \in Nat, Follows(r, c \in T, n), LinesOf(r1) = LinesOf(r),
         r1.since = r.since, r1.lost = r.lost, r1.at \notin {"away", "accepted"}, c \in T1 => c \in T
  PROVE  Follows(r1, c \in T1, n)
  BY DEF Follows

-----------------------------------------------------------------------------
(* The steps of the feed *)

\* A step that changes one client, and no line published.
LEMMA OneClient ==
  ASSUME TypeOK, TracersFollow, PeersFollow, NEW c \in Tracers, NEW r \in Client,
         client' = [client EXCEPT ![c] = r], UNCHANGED <<fed, udp, closed>>,
         tcp' \ {c} = tcp \ {c}, tcp' \subseteq Tracers,
         Len(r.queue) <= QueueDepth, Len(r.replay) <= ReplayDepth, Follows(r, c \in tcp', Newest)
  PROVE  FeedTypeOK' /\ TracersFollow' /\ PeersFollow'
  <1>1. client \in [Tracers -> Client]
    BY DEF TypeOK, FeedTypeOK
  <1>2. FeedTypeOK'
    BY <1>1 DEF TypeOK, FeedTypeOK
  <1>3. \A d \in Tracers \ {c} : client'[d] = client[d] /\ (d \in tcp' <=> d \in tcp)
    BY <1>1
  <1>4. ASSUME NEW d \in Tracers PROVE Follows(client'[d], d \in tcp', Newest)
    <2>1. CASE d = c
      BY <1>1, <2>1
    <2>2. CASE d # c
      <3>1. Follows(client[d], d \in tcp, Newest)
        BY DEF TracersFollow
      <3>2. QED
        BY <1>3, <2>2, <3>1
    <2>3. QED
      BY <2>1, <2>2
  <1>5. TracersFollow'
    BY <1>4 DEF TracersFollow, Newest
  <1>6. PeersFollow'
    BY DEF PeersFollow, Newest
  <1>7. QED
    BY <1>2, <1>5, <1>6

\* The client's record is one, and its lines are queued and replayed within bounds.
LEMMA ClientIs ==
  ASSUME TypeOK, TracersFollow, NEW c \in Tracers
  PROVE  /\ client[c] \in Client /\ Newest \in Nat /\ Follows(client[c], c \in tcp, Newest)
         /\ Len(client[c].queue) <= QueueDepth /\ Len(client[c].replay) <= ReplayDepth
         /\ client[c].got \in Seq(Nat) /\ client[c].replay \in Seq(Nat) /\ client[c].queue \in Seq(Nat)
         /\ tcp \subseteq Tracers
  <1>1. client[c] \in Client /\ Len(client[c].queue) <= QueueDepth /\ Len(client[c].replay) <= ReplayDepth
    BY DEF TypeOK, FeedTypeOK
  <1>2. Newest \in Nat /\ tcp \subseteq Tracers
    BY DEF TypeOK, FeedTypeOK, Newest
  <1>3. QED
    BY <1>1, <1>2 DEF TracersFollow, Client

\* An accepted client has no lines yet and is not registered.
LEMMA AcceptKeeps ==
  ASSUME TypeOK, TracersFollow, PeersFollow, NEW c \in Tracers, Accept(c)
  PROVE  FeedTypeOK' /\ TracersFollow' /\ PeersFollow'
  <1> DEFINE r == [client[c] EXCEPT !.at = "accepted", !.since = Newest]
  <1>1. r \in Client /\ r.got = client[c].got /\ r.replay = client[c].replay /\ r.queue = client[c].queue
        /\ r.lost = client[c].lost /\ r.since = Newest /\ r.at = "accepted"
    BY ClientIs DEF Client
  <1>2. client[c].at = "away" /\ client' = [client EXCEPT ![c] = r] /\ UNCHANGED <<fed, tcp, udp, closed>>
    BY DEF Accept
  <1> HIDE DEF r
  <1>3. LinesOf(r) = LinesOf(client[c])
    BY <1>1 DEF LinesOf
  <1>4. Follows(r, c \in tcp, Newest)
    BY <1>1, <1>2, <1>3, ClientIs DEF Follows
  <1>5. QED
    BY <1>1, <1>2, <1>4, ClientIs, OneClient

\* A registered client starts with the history, under the mutex of the feed.
LEMMA RegisterKeeps ==
  ASSUME TypeOK, TracersFollow, PeersFollow, NEW c \in Tracers, Register(c)
  PROVE  FeedTypeOK' /\ TracersFollow' /\ PeersFollow'
  <1> DEFINE r == [client[c] EXCEPT !.at = "serving", !.since = Newest,
                                    !.replay = Positions(First(Newest), Newest)]
  <1>1. /\ client[c].at = "accepted" /\ client' = [client EXCEPT ![c] = r] /\ tcp' = tcp \cup {c}
        /\ UNCHANGED <<fed, udp, closed>>
    BY DEF Register, Snapshot
  <1>2. c \notin tcp
    BY <1>1, ClientIs DEF Follows
  <1>3. /\ Positions(First(Newest), Newest) \in Seq(Nat)
        /\ Len(Positions(First(Newest), Newest)) <= ReplayDepth
    BY ClientIs, FirstIs, PositionsAre
  <1>4. r \in Client /\ r.queue = client[c].queue /\ r.replay = Positions(First(Newest), Newest)
    BY <1>3, ClientIs DEF Client
  <1>5. Follows(client[c], FALSE, Newest)
    BY <1>2, ClientIs DEF Follows
  <1>6. Follows(r, TRUE, Newest)
    BY <1>1, <1>5, ClientIs, FollowsReplay
  <1> HIDE DEF r
  <1>7. Follows(r, c \in tcp', Newest)
    BY <1>1, <1>6
  <1>8. QED
    BY <1>1, <1>3, <1>4, <1>7, ClientIs, OneClient

\* The goroutine of a client writes from the replay, then from the queue.
LEMMA DeliverKeeps ==
  ASSUME TypeOK, TracersFollow, PeersFollow, NEW c \in Tracers, Deliver(c)
  PROVE  FeedTypeOK' /\ TracersFollow' /\ PeersFollow'
  <1> DEFINE q == client[c].queue
             p == client[c].replay
             g == client[c].got
  <1>1. /\ client[c] \in Client /\ g \in Seq(Nat) /\ p \in Seq(Nat) /\ q \in Seq(Nat)
        /\ client[c].at = "serving" /\ tcp' = tcp
    BY ClientIs DEF Deliver
  <1>2. CASE p # <<>>
    <2> DEFINE r == [client[c] EXCEPT !.replay = Tail(p), !.got = Append(g, Head(p))]
    <2>1. client' = [client EXCEPT ![c] = r] /\ UNCHANGED <<fed, udp, closed>>
      BY <1>2 DEF Deliver
    <2>2. Append(g, Head(p)) \in Seq(Nat) /\ Tail(p) \in Seq(Nat) /\ Len(Tail(p)) = Len(p) - 1 /\ Len(p) \in Nat
      BY <1>1, <1>2, HeadTailProperties, AppendProperties
    <2>3. /\ r \in Client /\ r.got = Append(g, Head(p)) /\ r.replay = Tail(p) /\ r.queue = q
          /\ r.lost = client[c].lost /\ r.since = client[c].since /\ r.at = "serving"
      BY <1>1, <2>2 DEF Client
    <2> HIDE DEF r
    <2>4. LinesOf(r) = LinesOf(client[c])
      <3>1. LinesOf(r) = Append(g, Head(p)) \o Tail(p) \o q
        BY <2>3 DEF LinesOf
      <3>2. Append(g, Head(p)) \o Tail(p) \o q = g \o p \o q
        BY <1>1, <1>2, Moved
      <3>3. QED
        BY <3>1, <3>2 DEF LinesOf
    <2>5. Follows(r, c \in tcp, Newest)
      <3>1. Newest \in Nat /\ Follows(client[c], c \in tcp, Newest)
        BY ClientIs
      <3>2. r.since = client[c].since /\ r.lost = client[c].lost /\ r.at \notin {"away", "accepted"}
        BY <2>3
      <3>3. QED
        BY <2>4, <3>1, <3>2, FollowsSame
    <2>6. Len(r.queue) <= QueueDepth /\ Len(r.replay) <= ReplayDepth
      BY <2>2, <2>3, ClientIs
    <2>7. QED
      BY <1>1, <2>1, <2>3, <2>5, <2>6, ClientIs, OneClient
  <1>3. CASE p = <<>>
    <2> DEFINE r == [client[c] EXCEPT !.queue = Tail(q), !.got = Append(g, Head(q))]
    <2>1. client' = [client EXCEPT ![c] = r] /\ UNCHANGED <<fed, udp, closed>> /\ q # <<>>
      BY <1>3 DEF Deliver
    <2>2. Append(g, Head(q)) \in Seq(Nat) /\ Tail(q) \in Seq(Nat) /\ Len(Tail(q)) = Len(q) - 1 /\ Len(q) \in Nat
      BY <1>1, <2>1, HeadTailProperties, AppendProperties
    <2>3. /\ r \in Client /\ r.got = Append(g, Head(q)) /\ r.replay = p /\ r.queue = Tail(q)
          /\ r.lost = client[c].lost /\ r.since = client[c].since /\ r.at = "serving"
      BY <1>1, <2>2 DEF Client
    <2> HIDE DEF r
    <2>4. LinesOf(r) = LinesOf(client[c])
      <3>1. LinesOf(r) = Append(g, Head(q)) \o p \o Tail(q)
        BY <2>3 DEF LinesOf
      <3>2. Append(g, Head(q)) \o p \o Tail(q) = g \o p \o q
        BY <1>1, <1>3, <2>1, Moved
      <3>3. QED
        BY <3>1, <3>2 DEF LinesOf
    <2>5. Follows(r, c \in tcp, Newest)
      <3>1. Newest \in Nat /\ Follows(client[c], c \in tcp, Newest)
        BY ClientIs
      <3>2. r.since = client[c].since /\ r.lost = client[c].lost /\ r.at \notin {"away", "accepted"}
        BY <2>3
      <3>3. QED
        BY <2>4, <3>1, <3>2, FollowsSame
    <2>6. Len(r.queue) <= QueueDepth /\ Len(r.replay) <= ReplayDepth
      BY <2>2, <2>3, ClientIs
    <2>7. QED
      BY <1>1, <2>1, <2>3, <2>5, <2>6, ClientIs, OneClient
  <1>4. QED
    BY <1>2, <1>3

\* The client's goroutine ends its loop, or its deferred part deregisters it.
LEMMA LeavingKeeps ==
  ASSUME TypeOK, TracersFollow, PeersFollow, NEW c \in Tracers,
         Drained(c) \/ WriteFails(c) \/ Deregister(c)
  PROVE  FeedTypeOK' /\ TracersFollow' /\ PeersFollow'
  <1> PICK where \in {"leaving", "gone"} :
          /\ client' = [client EXCEPT ![c].at = where] /\ client[c].at \in {"serving", "leaving"}
          /\ UNCHANGED <<fed, udp, closed>> /\ (tcp' = tcp \/ tcp' = tcp \ {c})
    BY DEF Drained, WriteFails, Deregister
  <1> DEFINE r == [client[c] EXCEPT !.at = where]
  <1>1. /\ r \in Client /\ r.got = client[c].got /\ r.replay = client[c].replay /\ r.queue = client[c].queue
        /\ r.lost = client[c].lost /\ r.since = client[c].since /\ r.at \in {"leaving", "gone"}
    BY ClientIs DEF Client
  <1>2. client' = [client EXCEPT ![c] = r]
    OBVIOUS
  <1> HIDE DEF r
  <1>3. LinesOf(r) = LinesOf(client[c])
    BY <1>1 DEF LinesOf
  <1>4. Follows(r, c \in tcp', Newest)
    <2>1. Newest \in Nat /\ Follows(client[c], c \in tcp, Newest)
      BY ClientIs
    <2>2. r.since = client[c].since /\ r.lost = client[c].lost /\ r.at \notin {"away", "accepted"}
      BY <1>1
    <2>3. c \in tcp' => c \in tcp
      OBVIOUS
    <2>4. QED
      BY <1>3, <2>1, <2>2, <2>3, FollowsSame
  <1>5. QED
    BY <1>1, <1>2, <1>4, ClientIs, OneClient

\* A peer is sent the history as it is registered.
LEMMA GreetKeeps ==
  ASSUME TypeOK, TracersFollow, PeersFollow, NEW u \in Peers, Greet(u)
  PROVE  FeedTypeOK' /\ TracersFollow' /\ PeersFollow'
  <1> DEFINE s == Positions(First(Newest), Newest)
             p == [known |-> TRUE, got |-> s]
  <1>1. UNCHANGED <<fed, tcp, client, closed>> /\ udp' = [udp EXCEPT ![u] = p] /\ udp \in [Peers -> Peer]
    BY DEF Greet, TypeOK, FeedTypeOK
  <1>2. /\ Newest \in Nat /\ First(Newest) \in Nat \ {0} /\ First(Newest) <= Newest + 1
        /\ Newest > 0 => First(Newest) <= Newest
    <2>1. Newest \in Nat
      BY DEF TypeOK, FeedTypeOK, Newest
    <2>2. QED
      BY <2>1, FirstIs
  <1>3. /\ s \in Seq(Nat) /\ Len(s) = Newest - First(Newest) + 1
        /\ \A i \in 1 .. Newest - First(Newest) + 1 : s[i] = First(Newest) + i - 1
    BY <1>2, PositionsAre
  <1>4. p \in Peer /\ p.got = s /\ p.known = TRUE
    BY <1>3 DEF Peer
  <1>5. FeedTypeOK'
    BY <1>1, <1>4 DEF TypeOK, FeedTypeOK
  <1> HIDE DEF s, p
  <1>6. PeerFollows(p, ~closed, Newest)
    <2>1. \A i \in 1 .. Len(s) : s[i] = s[1] + i - 1
      BY <1>2, <1>3
    <2>2. Newest > 0 => s # <<>> /\ s[Len(s)] = Newest
      BY <1>2, <1>3
    <2>3. Newest = 0 => s = <<>>
      <3>1. ASSUME Newest = 0 PROVE Len(s) = 0
        BY <1>2, <1>3, <3>1 DEF First
      <3>2. QED
        BY <1>3, <3>1, EmptySeq
    <2>4. QED
      BY <1>4, <2>1, <2>2, <2>3 DEF PeerFollows
  <1>7. PeersFollow'
    BY <1>1, <1>6 DEF PeersFollow, Newest
  <1>8. TracersFollow'
    BY <1>1 DEF TracersFollow, Newest
  <1>9. QED
    BY <1>5, <1>7, <1>8

\* Closing ends the channels and forgets the clients; what they have stays.
LEMMA CloseKeeps ==
  ASSUME TypeOK, TracersFollow, PeersFollow, Close
  PROVE  FeedTypeOK' /\ TracersFollow' /\ PeersFollow'
  <1>1. /\ client' = [c \in Tracers |-> [client[c] EXCEPT !.ended = Ended(c)]] /\ tcp' = {}
        /\ UNCHANGED <<fed, udp>> /\ closed' = TRUE /\ client \in [Tracers -> Client]
    BY DEF Close, TypeOK, FeedTypeOK
  <1>2. ASSUME NEW c \in Tracers
        PROVE  /\ client'[c] \in Client /\ Follows(client'[c], FALSE, Newest)
               /\ Len(client'[c].queue) <= QueueDepth /\ Len(client'[c].replay) <= ReplayDepth
    <2>1. Ended(c) \in BOOLEAN /\ client'[c] = [client[c] EXCEPT !.ended = Ended(c)]
      BY <1>1 DEF Ended, Client
    <2>2. /\ client'[c] \in Client /\ client'[c].got = client[c].got /\ client'[c].replay = client[c].replay
          /\ client'[c].queue = client[c].queue /\ client'[c].lost = client[c].lost
          /\ client'[c].since = client[c].since /\ client'[c].at = client[c].at
      BY <2>1, ClientIs DEF Client
    <2>3. LinesOf(client'[c]) = LinesOf(client[c])
      BY <2>2 DEF LinesOf
    <2>4. Follows(client'[c], FALSE, Newest)
      BY <2>2, <2>3, ClientIs DEF Follows
    <2>5. QED
      BY <2>2, <2>4, ClientIs
  <1>3. client' \in [Tracers -> Client]
    BY <1>1, <1>2
  <1>4. FeedTypeOK'
    BY <1>1, <1>2, <1>3 DEF TypeOK, FeedTypeOK
  <1>5. TracersFollow'
    BY <1>1, <1>2 DEF TracersFollow, Newest, Follows
  <1>6. PeersFollow'
    BY <1>1 DEF PeersFollow, PeerFollows, Newest
  <1>7. QED
    BY <1>4, <1>5, <1>6

\* A line is published: every client gets it or loses it, every peer gets it.
LEMMA PublishKeeps ==
  ASSUME TypeOK, TracersFollow, PeersFollow, NEW num \in Nat, Publish(num)
  PROVE  FeedTypeOK' /\ TracersFollow' /\ PeersFollow'
  <1>1. /\ fed' = Append(fed, num) /\ fed \in Seq(Nat) /\ Newest \in Nat /\ tcp' = tcp /\ closed' = closed
        /\ Newest' = Newest + 1 /\ client \in [Tracers -> Client] /\ udp \in [Peers -> Peer]
    BY DEF Publish, TypeOK, FeedTypeOK, Newest
  <1>2. ASSUME NEW c \in Tracers
        PROVE  /\ client'[c] \in Client /\ Follows(client'[c], c \in tcp', Newest + 1)
               /\ Len(client'[c].queue) <= QueueDepth /\ Len(client'[c].replay) <= ReplayDepth
    <2> DEFINE full == [client[c] EXCEPT !.lost = TRUE]
               more == [client[c] EXCEPT !.queue = Append(client[c].queue, Newest + 1)]
    <2>1. client'[c] = IF c \notin tcp THEN client[c] ELSE IF Fits(c) THEN more ELSE full
      BY DEF Publish
    <2>2. /\ full \in Client /\ Len(full.queue) <= QueueDepth /\ Len(full.replay) <= ReplayDepth
      BY ClientIs DEF Client
    <2>3. Fits(c) => more \in Client /\ Len(more.queue) <= QueueDepth /\ Len(more.replay) <= ReplayDepth
      <3>1. /\ Append(client[c].queue, Newest + 1) \in Seq(Nat)
            /\ Len(Append(client[c].queue, Newest + 1)) = Len(client[c].queue) + 1 /\ Len(client[c].queue) \in Nat
        BY <1>1, ClientIs, AppendProperties
      <3>2. more \in Client /\ more.queue = Append(client[c].queue, Newest + 1) /\ more.replay = client[c].replay
        BY <3>1, ClientIs DEF Client
      <3>3. Fits(c) => Len(client[c].queue) + 1 <= QueueDepth
        BY <3>1 DEF Fits
      <3>4. QED
        BY <3>1, <3>2, <3>3, ClientIs
    <2>4. /\ c \notin tcp => Follows(client[c], c \in tcp, Newest + 1)
          /\ c \in tcp => Follows(full, c \in tcp, Newest + 1) /\ Follows(more, c \in tcp, Newest + 1)
      <3>1. (c \in tcp) \in BOOLEAN
        OBVIOUS
      <3>2. QED
        BY <1>1, <3>1, ClientIs, FollowsNext
    <2> HIDE DEF full, more
    <2>5. QED
      BY <1>1, <2>1, <2>2, <2>3, <2>4, ClientIs
  <1>3. client' \in [Tracers -> Client]
    BY <1>2 DEF Publish
  <1>4. ASSUME NEW u \in Peers
        PROVE  udp'[u] \in Peer /\ PeerFollows(udp'[u], ~closed, Newest + 1)
    <2> DEFINE g == udp[u].got
    <2>1. /\ udp[u] \in Peer /\ g \in Seq(Nat) /\ Len(g) \in Nat /\ udp[u].known \in BOOLEAN
          /\ PeerFollows(udp[u], ~closed, Newest)
      BY <1>1 DEF Peer, PeersFollow
    <2>2. CASE udp[u].known /\ ~closed
      <3>1. udp'[u] = [udp[u] EXCEPT !.got = Append(g, Newest + 1)]
        BY <2>2 DEF Publish
      <3>2. udp'[u] \in Peer /\ udp'[u].got = Append(g, Newest + 1)
        <4>1. Append(g, Newest + 1) \in Seq(Nat)
          BY <1>1, <2>1, AppendProperties
        <4>2. QED
          BY <2>1, <3>1, <4>1 DEF Peer
      <3>3. /\ Len(Append(g, Newest + 1)) = Len(g) + 1 /\ Append(g, Newest + 1)[Len(g) + 1] = Newest + 1
            /\ \A i \in 1 .. Len(g) : Append(g, Newest + 1)[i] = g[i]
        BY <1>1, <2>1, AppendProperties
      <3>4. Len(g) > 0 => g[Len(g)] = Newest /\ g[Len(g)] = g[1] + Len(g) - 1 /\ g[1] \in Nat
        <4>1. Newest = 0 => Len(g) = 0
          BY <2>1, EmptySeq DEF PeerFollows
        <4>2. Newest > 0 => g[Len(g)] = Newest
          BY <2>1, <2>2 DEF PeerFollows
        <4>3. Len(g) > 0 => g[Len(g)] = g[1] + Len(g) - 1 /\ g[1] \in Nat
          <5>1. \A i \in 1 .. Len(g) : g[i] = g[1] + i - 1
            BY <2>1 DEF PeerFollows
          <5>2. Len(g) > 0 => Len(g) \in 1 .. Len(g) /\ 1 \in 1 .. Len(g)
            BY <2>1
          <5>3. \A i \in 1 .. Len(g) : g[i] \in Nat
            BY <2>1, ElementOfSeq
          <5> HIDE DEF g
          <5>4. QED
            BY <5>1, <5>2, <5>3
        <4>4. QED
          BY <1>1, <2>1, <4>1, <4>2, <4>3
      <3>5. \A i \in 1 .. Len(g) + 1 : Append(g, Newest + 1)[i] = Append(g, Newest + 1)[1] + i - 1
        <4> TAKE i \in 1 .. Len(g) + 1
        <4>1. CASE i <= Len(g)
          BY <2>1, <3>3, <4>1 DEF PeerFollows
        <4>2. CASE i = Len(g) + 1
          <5>1. i = Len(g) + 1 /\ Append(g, Newest + 1)[i] = Newest + 1 /\ Len(g) \in Nat /\ Newest \in Nat
            BY <1>1, <2>1, <3>3, <4>2
          <5>2. CASE Len(g) = 0
            BY <3>3, <4>2, <5>1, <5>2
          <5>3. CASE Len(g) > 0
            <6>1. Append(g, Newest + 1)[1] = g[1] /\ g[1] + Len(g) - 1 = Newest /\ g[1] \in Nat
              BY <3>3, <3>4, <5>1, <5>3
            <6>2. QED
              BY <5>1, <6>1
          <5>4. QED
            BY <5>1, <5>2, <5>3
        <4>3. QED
          BY <2>1, <4>1, <4>2
      <3> DEFINE more == Append(g, Newest + 1)
      <3>6. /\ Len(more) = Len(g) + 1 /\ \A i \in 1 .. Len(more) : more[i] = more[1] + i - 1
            /\ more[Len(more)] = Newest + 1 /\ udp'[u].got = more
        BY <3>2, <3>3, <3>5
      <3> HIDE DEF more
      <3>7. more # <<>>
        BY <2>1, <3>6
      <3>8. PeerFollows(udp'[u], ~closed, Newest + 1)
        BY <1>1, <3>6, <3>7 DEF PeerFollows
      <3>9. QED
        BY <3>2, <3>8
    <2>3. CASE ~(udp[u].known /\ ~closed)
      <3>1. udp'[u] = udp[u]
        BY <2>3 DEF Publish
      <3>2. QED
        BY <1>1, <2>1, <2>3, <3>1 DEF PeerFollows
    <2>4. QED
      BY <2>2, <2>3
  <1>5. udp' \in [Peers -> Peer]
    BY <1>4 DEF Publish
  <1>6. FeedTypeOK'
    BY <1>1, <1>2, <1>3, <1>5 DEF TypeOK, FeedTypeOK
  <1>7. TracersFollow'
    BY <1>1, <1>2 DEF TracersFollow
  <1>8. PeersFollow'
    BY <1>1, <1>4 DEF PeersFollow
  <1>9. QED
    BY <1>6, <1>7, <1>8

-----------------------------------------------------------------------------
(* The order of the frames *)

\* A numbered frame is pending, and no older one of its source is.
LEMMA AddKeeps ==
  ASSUME TypeOK, Ordered, NEW frame \in Traffic, AddFrame(frame)
  PROVE  Ordered' /\ TraceTypeOK' /\ (pending \subseteq 1 .. Latest)'
  <1>1. /\ log' = Append(log, frame) /\ log \in Seq(Traffic) /\ Latest \in Nat /\ Latest < MaxFrames
        /\ cut' = cut /\ cut \in 0 .. Latest /\ Latest' = Latest + 1 /\ MaxFrames \in Nat
        /\ pending \subseteq 1 .. Latest /\ pending' = pending \cup {Latest + 1} /\ fed' = fed
    BY FrameTraceAssumption DEF AddFrame, Number, TypeOK, TraceTypeOK, Latest, feedVars
  <1>2. /\ \A n \in 1 .. Latest : log'[n] = log[n]
        /\ log'[Latest + 1] = frame /\ log' \in Seq(Traffic) /\ Len(log') = Latest + 1
    BY <1>1, AppendProperties DEF Latest
  <1>3. TraceTypeOK'
    BY <1>1, <1>2 DEF TraceTypeOK
  <1>4. (pending \subseteq 1 .. Latest)'
    BY <1>1
  <1>5. \A n \in pending : log[n].source # frame.source
    BY DEF AddFrame, Busy
  <1>6. OnePending'
    <2> SUFFICES ASSUME NEW n \in pending', NEW m \in n + 1 .. Latest + 1
                 PROVE  log'[m].source # log'[n].source
      BY <1>1 DEF OnePending
    <2>1. n \in pending /\ n \in 1 .. Latest
      BY <1>1
    <2>2. CASE m = Latest + 1
      BY <1>2, <1>5, <2>1, <2>2
    <2>3. CASE m <= Latest
      <3>1. m \in n + 1 .. Latest /\ m \in 1 .. Latest
        BY <1>1, <2>1, <2>3
      <3>2. QED
        BY <1>2, <2>1, <3>1 DEF Ordered, OnePending
    <2>4. m <= Latest \/ m = Latest + 1
      <3>1. n \in Nat /\ Latest \in Nat
        BY <1>1, <2>1
      <3>2. QED
        BY <3>1
    <2>5. QED
      BY <2>2, <2>3, <2>4
  <1>7. SourceOrder'
    <2>1. \A i \in 1 .. Newest : fed[i] \in 1 .. Latest
      BY DEF Ordered, SourceOrder
    <2>2. {fed[i] : i \in 1 .. Newest} = 1 .. Latest + 1 \ pending'
      <3>1. {fed[i] : i \in 1 .. Newest} = 1 .. Latest \ pending
        BY DEF Ordered, SourceOrder
      <3>2. 1 .. Latest + 1 = (1 .. Latest) \cup {Latest + 1} /\ Latest + 1 \notin 1 .. Latest
        BY <1>1
      <3>3. QED
        BY <1>1, <3>1, <3>2
    <2>3. ASSUME NEW i \in 1 .. Newest, NEW j \in 1 .. Newest, i < j
          PROVE  /\ fed[i] # fed[j]
                 /\ log'[fed[i]].source = log'[fed[j]].source => fed[i] < fed[j]
      BY <1>2, <2>1, <2>3 DEF Ordered, SourceOrder
    <2>4. QED
      <3>1. Newest' = Newest /\ fed' = fed /\ Latest' = Latest + 1
        BY <1>1 DEF Newest
      <3>2. QED
        BY <2>2, <2>3, <3>1 DEF SourceOrder
  <1>8. QED
    BY <1>3, <1>4, <1>6, <1>7 DEF Ordered

\* The frame handed over is the newest of its source, so it comes after those of
\* its source that were handed over before.
LEMMA HandOverKeeps ==
  ASSUME TypeOK, Ordered, NEW n \in 1 .. MaxFrames, HandOver(n)
  PROVE  Ordered' /\ TraceTypeOK' /\ (pending \subseteq 1 .. Latest)'
  <1>1. /\ n \in pending /\ pending' = pending \ {n} /\ fed' = Append(fed, n) /\ fed \in Seq(Nat)
        /\ log' = log /\ cut' = cut /\ pending \subseteq 1 .. Latest /\ Latest \in Nat /\ Newest \in Nat
        /\ n \in Nat
    BY DEF HandOver, Publish, TypeOK, TraceTypeOK, FeedTypeOK, traceVars, Latest, Newest
  <1>2. /\ \A i \in 1 .. Newest : fed'[i] = fed[i]
        /\ fed'[Newest + 1] = n /\ Newest' = Newest + 1
    BY <1>1, AppendProperties DEF Newest
  <1>3. TraceTypeOK' /\ (pending \subseteq 1 .. Latest)'
    BY <1>1 DEF TypeOK, TraceTypeOK, Latest
  <1>4. OnePending'
    BY <1>1 DEF Ordered, OnePending, Latest
  <1>5. \A i \in 1 .. Newest : fed[i] \in 1 .. Latest /\ fed[i] \notin pending
    BY DEF Ordered, SourceOrder
  <1>6. ASSUME NEW i \in 1 .. Newest
        PROVE  fed[i] # n /\ (log[fed[i]].source = log[n].source => fed[i] < n)
    <2>1. fed[i] # n /\ fed[i] \in 1 .. Latest
      BY <1>1, <1>5
    <2>2. fed[i] > n => log[fed[i]].source # log[n].source
      BY <1>1, <2>1 DEF Ordered, OnePending
    <2>3. QED
      BY <1>1, <2>1, <2>2
  <1>7. ASSUME NEW i \in 1 .. Newest + 1, NEW j \in 1 .. Newest + 1, i < j
        PROVE  fed'[i] # fed'[j] /\ (log[fed'[i]].source = log[fed'[j]].source => fed'[i] < fed'[j])
    <2>1. i \in 1 .. Newest /\ fed'[i] = fed[i]
      <3>1. Newest \in Nat
        BY <1>1
      <3>2. i \in 1 .. Newest
        BY <1>7, <3>1
      <3>3. QED
        BY <1>2, <3>2
    <2>2. CASE j = Newest + 1
      BY <1>2, <1>6, <2>1, <2>2
    <2>3. CASE j # Newest + 1
      <3>1. j \in 1 .. Newest /\ fed'[j] = fed[j]
        <4>1. Newest \in Nat
          BY <1>1
        <4>2. j \in 1 .. Newest
          BY <2>3, <4>1
        <4>3. QED
          BY <1>2, <4>2
      <3>2. QED
        BY <1>7, <2>1, <3>1 DEF Ordered, SourceOrder
    <2>4. QED
      BY <2>2, <2>3
  <1>8. {fed'[i] : i \in 1 .. Newest + 1} = {fed[i] : i \in 1 .. Newest} \cup {n}
    <2>1. ASSUME NEW x \in {fed'[i] : i \in 1 .. Newest + 1} PROVE x \in {fed[i] : i \in 1 .. Newest} \cup {n}
      <3>1. PICK i \in 1 .. Newest + 1 : x = fed'[i]
        BY <2>1
      <3>2. CASE i = Newest + 1
        BY <1>2, <3>1, <3>2
      <3>3. CASE i # Newest + 1
        <4>1. Newest \in Nat
          BY <1>1
        <4>2. i \in 1 .. Newest
          BY <3>3, <4>1
        <4>3. QED
          BY <1>2, <3>1, <4>2
      <3>4. QED
        BY <3>2, <3>3
    <2>2. ASSUME NEW i \in 1 .. Newest PROVE fed[i] \in {fed'[k] : k \in 1 .. Newest + 1}
      <3>1. Newest \in Nat
        BY <1>1
      <3>2. i \in 1 .. Newest + 1
        BY <3>1
      <3>3. QED
        BY <1>2, <3>2
    <2>3. n \in {fed'[k] : k \in 1 .. Newest + 1}
      <3>1. Newest \in Nat
        BY <1>1
      <3>2. Newest + 1 \in 1 .. Newest + 1
        BY <3>1
      <3>3. QED
        BY <1>2, <3>2
    <2>4. QED
      BY <2>1, <2>2, <2>3
  <1>9. {fed'[i] : i \in 1 .. Newest + 1} = 1 .. Latest \ pending'
    <2>1. {fed[i] : i \in 1 .. Newest} = 1 .. Latest \ pending
      BY DEF Ordered, SourceOrder
    <2>2. n \in 1 .. Latest
      BY <1>1
    <2>3. QED
      BY <1>1, <1>8, <2>1, <2>2
  <1>10. SourceOrder'
    <2>1. Latest' = Latest
      BY <1>1 DEF Latest
    <2>2. QED
      BY <1>1, <1>2, <1>7, <1>9, <2>1 DEF SourceOrder
  <1>11. QED
    BY <1>3, <1>4, <1>10 DEF Ordered

-----------------------------------------------------------------------------
(* The event streams *)

\* One more event: it is coming to a stream that is open, and no concern of others.
LEMMA ReceivesNext ==
  ASSUME NEW r \in Stream, NEW coming, NEW n \in Nat, Receives(r, coming, n)
  PROVE  /\ r.at = "open" => Receives(r, coming \cup {n + 1}, n + 1)
         /\ r.at # "open" => Receives(r, coming, n + 1)
  <1> DEFINE a == r.got \o r.queue
  <1>1. r.since \in Nat /\ a \in Seq(Nat) /\ Len(a) \in Nat
    BY ConcatProperties DEF Stream
  <1>2. /\ \A i, j \in 1 .. Len(a) : i # j => a[i] # a[j]
        /\ \A i \in 1 .. Len(a) : a[i] \in r.since + 1 .. n /\ a[i] \notin coming
        /\ coming \subseteq r.since + 1 .. n /\ r.since <= n
        /\ r.at = "open" /\ ~r.lost => {a[i] : i \in 1 .. Len(a)} \cup coming = r.since + 1 .. n
        /\ r.at = "closed" => coming = {} /\ r.got = <<>> /\ r.queue = <<>> /\ ~r.lost
    BY DEF Receives, Has
  <1> HIDE DEF a
  <1>3. r.since + 1 .. n + 1 = (r.since + 1 .. n) \cup {n + 1} /\ n + 1 \notin r.since + 1 .. n /\ r.since <= n + 1
    BY <1>1, <1>2
  <1>4. ASSUME NEW more, more \in {coming, coming \cup {n + 1}}, r.at = "open" => more = coming \cup {n + 1},
               r.at # "open" => more = coming
        PROVE  Receives(r, more, n + 1)
    <2>1. \A i \in 1 .. Len(a) : a[i] \in r.since + 1 .. n + 1 /\ a[i] \notin more
      BY <1>2, <1>3, <1>4
    <2>2. more \subseteq r.since + 1 .. n + 1
      BY <1>2, <1>3, <1>4
    <2>3. r.at = "open" /\ ~r.lost => {a[i] : i \in 1 .. Len(a)} \cup more = r.since + 1 .. n + 1
      BY <1>2, <1>3, <1>4
    <2>4. QED
      BY <1>2, <1>3, <1>4, <2>1, <2>2, <2>3 DEF Receives, Has, a
  <1>5. QED
    BY <1>4

\* A coming event is queued, or lost at a full channel.
LEMMA ReceivesSent ==
  ASSUME NEW r \in Stream, NEW coming, NEW n \in Nat, NEW x \in coming, Receives(r, coming, n)
  PROVE  /\ Receives([r EXCEPT !.queue = Append(r.queue, x)], coming \ {x}, n)
         /\ Receives([r EXCEPT !.lost = TRUE], coming \ {x}, n)
         /\ x \in Nat
  <1> DEFINE a == r.got \o r.queue
  <1>1. r.since \in Nat /\ r.got \in Seq(Nat) /\ r.queue \in Seq(Nat) /\ a \in Seq(Nat) /\ Len(a) \in Nat
    BY ConcatProperties DEF Stream
  <1>2. /\ \A i, j \in 1 .. Len(a) : i # j => a[i] # a[j]
        /\ \A i \in 1 .. Len(a) : a[i] \in r.since + 1 .. n /\ a[i] \notin coming
        /\ coming \subseteq r.since + 1 .. n /\ r.since <= n
        /\ r.at = "open" /\ ~r.lost => {a[i] : i \in 1 .. Len(a)} \cup coming = r.since + 1 .. n
        /\ r.at # "closed"
    BY DEF Receives, Has
  <1>3. x \in r.since + 1 .. n /\ x \in Nat
    BY <1>1, <1>2
  <1>4. Receives([r EXCEPT !.queue = Append(r.queue, x)], coming \ {x}, n)
    <2> DEFINE r1 == [r EXCEPT !.queue = Append(r.queue, x)]
               b == Append(a, x)
    <2>1. /\ r1.got = r.got /\ r1.queue = Append(r.queue, x) /\ r1.since = r.since /\ r1.at = r.at
          /\ r1.lost = r.lost
      BY DEF Stream
    <2>2. r1.got \o r1.queue = b
      <3>1. r.got \o Append(r.queue, x) = Append(r.got \o r.queue, x)
        BY <1>1, <1>3, Queued
      <3>2. QED
        BY <2>1, <3>1
    <2> HIDE DEF a
    <2>3. Len(b) = Len(a) + 1 /\ b[Len(a) + 1] = x /\ \A i \in 1 .. Len(a) : b[i] = a[i]
      BY <1>1, <1>3, AppendProperties
    <2> HIDE DEF r1, b
    <2>4. ASSUME NEW i \in 1 .. Len(b) 
          PROVE  (i \in 1 .. Len(a) /\ b[i] = a[i]) \/ (i = Len(a) + 1 /\ b[i] = x)
      <3>1. Len(a) \in Nat /\ i \in 1 .. Len(a) + 1
        BY <1>1, <2>3
      <3>2. i \in 1 .. Len(a) \/ i = Len(a) + 1
        BY <3>1
      <3>3. CASE i \in 1 .. Len(a)
        BY <2>3, <3>3
      <3>4. CASE i = Len(a) + 1
        <4>1. b[i] = b[Len(a) + 1]
          BY <3>4
        <4>2. QED
          BY <2>3, <3>4, <4>1
      <3>5. QED
        BY <3>2, <3>3, <3>4
    <2>5. \A i, j \in 1 .. Len(b) : i # j => b[i] # b[j]
      BY <1>2, <2>4
    <2>6. \A i \in 1 .. Len(b) : b[i] \in r.since + 1 .. n /\ b[i] \notin coming \ {x}
      BY <1>2, <1>3, <2>4
    <2>7. {b[i] : i \in 1 .. Len(b)} = {a[i] : i \in 1 .. Len(a)} \cup {x}
      <3>1. \A i \in 1 .. Len(a) : i \in 1 .. Len(b)
        BY <1>1, <2>3
      <3>2. Len(a) + 1 \in 1 .. Len(b)
        BY <1>1, <2>3
      <3>3. QED
        BY <2>3, <2>4, <3>1, <3>2
    <2>8. r1.at = "open" /\ ~r1.lost => {b[i] : i \in 1 .. Len(b)} \cup (coming \ {x}) = r1.since + 1 .. n
      BY <1>2, <2>1, <2>7
    <2>9. coming \ {x} \subseteq r1.since + 1 .. n /\ r1.since <= n /\ r1.at # "closed"
      BY <1>2, <2>1
    <2>10. \A i \in 1 .. Len(b) : b[i] \in r1.since + 1 .. n /\ b[i] \notin coming \ {x}
      BY <2>1, <2>6
    <2>11. Receives(r1, coming \ {x}, n)
      <3>1. Has(b, r1, coming \ {x}, n)
        BY <2>5, <2>8, <2>9, <2>10 DEF Has
      <3>2. QED
        BY <2>2, <3>1 DEF Receives
    <2>12. QED
      BY <2>11 DEF r1
  <1>5. Receives([r EXCEPT !.lost = TRUE], coming \ {x}, n)
    <2> DEFINE r1 == [r EXCEPT !.lost = TRUE]
    <2>1. /\ r1.got = r.got /\ r1.queue = r.queue /\ r1.since = r.since /\ r1.at = r.at
          /\ r1.lost = TRUE
      BY DEF Stream
    <2> HIDE DEF r1
    <2>2. r1.got \o r1.queue = a
      BY <2>1
    <2> HIDE DEF a
    <2>3. \A i \in 1 .. Len(a) : a[i] \in r1.since + 1 .. n /\ a[i] \notin coming \ {x}
      BY <1>2, <2>1
    <2>4. coming \ {x} \subseteq r1.since + 1 .. n /\ r1.since <= n /\ r1.at # "closed" /\ r1.lost
      BY <1>2, <2>1
    <2>5. Has(a, r1, coming \ {x}, n)
      BY <1>2, <2>3, <2>4 DEF Has
    <2>6. QED
      BY <2>2, <2>5 DEF Receives, r1
  <1>6. QED
    BY <1>3, <1>4, <1>5

\* Writing an event and ending the stream leave what it has as it is.
LEMMA ReceivesSame ==
  ASSUME NEW r, NEW r1, NEW coming, NEW n, Receives(r, coming, n),
         r1.got \o r1.queue = r.got \o r.queue, r1.since = r.since, r1.lost = r.lost,
         r1.at = r.at \/ r1.at = "over", r1.at # "closed"
  PROVE  Receives(r1, coming, n)
  BY DEF Receives, Has

\* What is read of the bus.
LEMMA BusIs ==
  ASSUME TypeOK
  PROVE  /\ events \in Seq(Kinds) /\ Len(events) \in Nat
         /\ stream \in [Streams -> Stream] /\ \A c \in Streams : Len(stream[c].queue) <= Backlog
         /\ sending \in [Publishers -> [num : 0 .. Len(events), to : SUBSET Streams]]
  BY DEF TypeOK, BusTypeOK

\* A published event is coming to every open stream.
LEMMA PostKeeps ==
  ASSUME TypeOK, SendsApart, StreamsReceive, NEW p \in Publishers, NEW kind \in Kinds, Post(p, kind)
  PROVE  BusTypeOK' /\ SendsApart' /\ StreamsReceive'
  <1> DEFINE open == {c \in Streams : stream[c].at = "open"}
             n == Len(events) + 1
  <1>1. /\ events' = Append(events, kind) /\ n <= MaxEvents /\ sending[p].to = {}
        /\ sending' = [sending EXCEPT ![p] = StillTo(n, open)] /\ UNCHANGED <<evCut, stream>>
    BY DEF Post
  <1>2. events' \in Seq(Kinds) /\ Len(events') = n /\ n \in Nat /\ 0 .. Len(events) \subseteq 0 .. n
    BY <1>1, BusIs, AppendProperties
  <1>3. StillTo(n, open) \in [num : 0 .. n, to : SUBSET Streams]
    BY <1>2 DEF StillTo, NotSending
  <1>4. sending' \in [Publishers -> [num : 0 .. n, to : SUBSET Streams]]
    <2>1. sending \in [Publishers -> [num : 0 .. n, to : SUBSET Streams]]
      BY <1>2, BusIs
    <2>2. QED
      BY <1>1, <1>3, <2>1
  <1>5. BusTypeOK'
    BY <1>1, <1>2, <1>4 DEF TypeOK, BusTypeOK
  <1>6. /\ \A q \in Publishers : q # p => sending'[q] = sending[q]
        /\ sending'[p].to = open /\ (open # {} => sending'[p].num = n)
    BY <1>1, BusIs DEF StillTo, NotSending
  <1>7. SendsApart'
    <2> SUFFICES ASSUME NEW q \in Publishers, sending'[q].to # {}
                 PROVE  /\ sending'[q].num \in 1 .. n
                        /\ \A w \in Publishers : w # q /\ sending'[w].to # {} => sending'[w].num # sending'[q].num
      BY <1>2 DEF SendsApart
    <2>1. \A w \in Publishers : w # p /\ sending'[w].to # {} =>
             /\ sending'[w].num \in 1 .. Len(events) /\ sending'[w].num # n /\ sending'[w].num = sending[w].num
             /\ \A v \in Publishers : v # w /\ v # p /\ sending'[v].to # {} => sending'[v].num # sending'[w].num
      <3> TAKE w \in Publishers
      <3> HAVE w # p /\ sending'[w].to # {}
      <3>1. sending'[w] = sending[w] /\ sending[w].to # {}
        BY <1>6
      <3>2. sending[w].num \in 1 .. Len(events) /\ sending[w].num # n
        BY <1>2, <3>1, BusIs DEF SendsApart
      <3>3. \A v \in Publishers : v # w /\ v # p /\ sending'[v].to # {} => sending'[v].num # sending[w].num
        BY <1>6, <3>1 DEF SendsApart
      <3>4. QED
        BY <3>1, <3>2, <3>3
    <2>2. CASE q = p
      <3>1. sending'[q].num = n /\ n \in 1 .. n
        BY <1>2, <1>6, <2>2
      <3>2. QED
        BY <2>1, <2>2, <3>1
    <2>3. CASE q # p
      <3>1. sending'[q].num \in 1 .. n
        BY <1>2, <2>1, <2>3, BusIs
      <3>2. ASSUME NEW w \in Publishers, w # q, sending'[w].to # {} PROVE sending'[w].num # sending'[q].num
        <4>1. CASE w = p
          BY <1>6, <2>1, <2>3, <3>2, <4>1
        <4>2. CASE w # p
          BY <2>1, <2>3, <3>2, <4>2
        <4>3. QED
          BY <4>1, <4>2
      <3>3. QED
        BY <3>1, <3>2
    <2>4. QED
      BY <2>2, <2>3
  <1>8. ASSUME NEW c \in Streams PROVE Receives(stream[c], Coming(c)', n)
    <2>1. ASSUME stream[c].at = "open" PROVE Coming(c)' = Coming(c) \cup {n}
      <3>1. c \in open /\ c \notin sending[p].to
        BY <1>1, <2>1
      <3>2. \A q \in Publishers : c \in sending'[q].to <=> q = p \/ c \in sending[q].to
        BY <1>6, <3>1
      <3>3. sending'[p].num = n /\ \A q \in Publishers : c \in sending[q].to => sending'[q].num = sending[q].num
        BY <1>6, <3>1
      <3> HIDE DEF n, open
      <3>4. QED
        BY <3>2, <3>3 DEF Coming
    <2>2. stream[c].at # "open" => Coming(c)' = Coming(c)
      BY <1>1, <1>6 DEF Coming
    <2>3. stream[c] \in Stream /\ Len(events) \in Nat /\ Receives(stream[c], Coming(c), Len(events))
      BY BusIs DEF StreamsReceive
    <2>4. QED
      BY <2>1, <2>2, <2>3, ReceivesNext
  <1>9. StreamsReceive'
    BY <1>1, <1>2, <1>8 DEF StreamsReceive
  <1>10. QED
    BY <1>5, <1>7, <1>9

\* One send moves the event of its publisher into one queue, or drops it.
LEMMA SendKeeps ==
  ASSUME TypeOK, SendsApart, StreamsReceive, NEW p \in Publishers, NEW c \in Streams, Send(p, c)
  PROVE  BusTypeOK' /\ SendsApart' /\ StreamsReceive'
  <1> DEFINE x == sending[p].num
             rest == sending[p].to \ {c}
             more == [stream[c] EXCEPT !.queue = Append(stream[c].queue, x)]
             full == [stream[c] EXCEPT !.lost = TRUE]
  <1>1. /\ c \in sending[p].to /\ sending' = [sending EXCEPT ![p] = StillTo(x, rest)]
        /\ stream' = [stream EXCEPT ![c] = IF Len(stream[c].queue) < Backlog THEN more ELSE full]
        /\ UNCHANGED <<events, evCut>>
    BY DEF Send, Sent
  <1>2. /\ stream[c] \in Stream /\ Len(events) \in Nat /\ x \in Coming(c)
        /\ Receives(stream[c], Coming(c), Len(events))
    BY <1>1, BusIs DEF StreamsReceive, Coming
  <1>3. x \in Nat /\ Receives(more, Coming(c) \ {x}, Len(events)) /\ Receives(full, Coming(c) \ {x}, Len(events))
    BY <1>2, ReceivesSent
  <1>4. /\ full \in Stream /\ full.queue = stream[c].queue /\ more \in Stream
        /\ Len(stream[c].queue) \in Nat /\ Len(more.queue) = Len(stream[c].queue) + 1
    <2>1. /\ Append(stream[c].queue, x) \in Seq(Nat) /\ Len(stream[c].queue) \in Nat
          /\ Len(Append(stream[c].queue, x)) = Len(stream[c].queue) + 1
      BY <1>2, <1>3, AppendProperties DEF Stream
    <2>2. QED
      BY <1>2, <2>1 DEF Stream
  <1>5. StillTo(x, rest) \in [num : 0 .. Len(events), to : SUBSET Streams]
    BY BusIs DEF StillTo, NotSending
  <1> HIDE DEF more, full
  <1>6. BusTypeOK'
    <2>1. stream' \in [Streams -> Stream] /\ sending' \in [Publishers -> [num : 0 .. Len(events), to : SUBSET Streams]]
      BY <1>1, <1>4, <1>5, BusIs
    <2>2. \A d \in Streams : Len(stream'[d].queue) <= Backlog
      BY <1>1, <1>4, BusIs
    <2>3. QED
      BY <1>1, <2>1, <2>2 DEF TypeOK, BusTypeOK
  <1>7. /\ \A q \in Publishers : q # p => sending'[q] = sending[q]
        /\ sending'[p].to = rest /\ (rest # {} => sending'[p].num = x)
    BY <1>1, BusIs DEF StillTo, NotSending
  <1>8. SendsApart'
    <2>1. \A q \in Publishers : sending'[q].to # {} => sending[q].to # {} /\ sending'[q].num = sending[q].num
      BY <1>1, <1>7
    <2>2. QED
      BY <1>1, <2>1 DEF SendsApart
  <1>9. Coming(c)' = Coming(c) \ {x}
    <2>1. \A q \in Publishers : q # p /\ c \in sending[q].to => sending[q].num # x
      BY <1>1 DEF SendsApart
    <2>2. \A q \in Publishers : c \in sending'[q].to <=> q # p /\ c \in sending[q].to
      BY <1>7
    <2>3. QED
      BY <1>7, <2>1, <2>2 DEF Coming
  <1>10. ASSUME NEW d \in Streams, d # c PROVE Coming(d)' = Coming(d) /\ stream'[d] = stream[d]
    <2>1. \A q \in Publishers : (d \in sending'[q].to <=> d \in sending[q].to)
                                /\ (d \in sending[q].to => sending'[q].num = sending[q].num)
      BY <1>7, <1>10
    <2>2. QED
      <3>1. stream'[d] = stream[d]
        BY <1>1, <1>10, BusIs
      <3>2. Coming(d)' = Coming(d)
        BY <2>1 DEF Coming
      <3>3. QED
        BY <3>1, <3>2
  <1>11. StreamsReceive'
    <2> SUFFICES ASSUME NEW d \in Streams PROVE Receives(stream'[d], Coming(d)', Len(events))
      BY <1>1 DEF StreamsReceive
    <2>1. CASE d = c
      <3>1. stream'[c] = more \/ stream'[c] = full
        BY <1>1, BusIs
      <3>2. QED
        BY <1>3, <1>9, <2>1, <3>1
    <2>2. CASE d # c
      BY <1>10, <2>2 DEF StreamsReceive
    <2>3. QED
      BY <2>1, <2>2
  <1>12. QED
    BY <1>6, <1>8, <1>11

\* A stream subscribes after the newest event, writes what is queued, and ends.
LEMMA StreamKeeps ==
  ASSUME TypeOK, SendsApart, StreamsReceive, NEW c \in Streams, Open(c) \/ Write(c) \/ CloseStream(c)
  PROVE  BusTypeOK' /\ SendsApart' /\ StreamsReceive'
  <1>1. UNCHANGED <<events, evCut, sending>>
    BY DEF Open, Write, CloseStream
  <1>2. /\ stream[c] \in Stream /\ Len(events) \in Nat /\ Receives(stream[c], Coming(c), Len(events))
        /\ Len(stream[c].queue) <= Backlog
    BY BusIs DEF StreamsReceive
  <1>3. ASSUME NEW r \in Stream, stream' = [stream EXCEPT ![c] = r], Len(r.queue) <= Backlog,
               Receives(r, Coming(c), Len(events))
        PROVE  BusTypeOK' /\ SendsApart' /\ StreamsReceive'
    <2>1. BusTypeOK'
      BY <1>1, <1>3, BusIs DEF TypeOK, BusTypeOK
    <2>2. SendsApart'
      BY <1>1 DEF SendsApart
    <2>3. \A d \in Streams : Coming(d)' = Coming(d)
      BY <1>1 DEF Coming
    <2>4. stream'[c] = r /\ \A d \in Streams : d # c => stream'[d] = stream[d]
      BY <1>3, BusIs
    <2>5. StreamsReceive'
      <3> SUFFICES ASSUME NEW d \in Streams PROVE Receives(stream'[d], Coming(d), Len(events))
        BY <1>1, <2>3 DEF StreamsReceive
      <3>1. CASE d = c
        BY <1>3, <2>4, <3>1
      <3>2. CASE d # c
        BY <2>4, <3>2 DEF StreamsReceive
      <3>3. QED
        BY <3>1, <3>2
    <2>6. QED
      BY <2>1, <2>2, <2>5
  <1>4. CASE Open(c)
    <2> DEFINE r == [stream[c] EXCEPT !.at = "open", !.since = Len(events)]
    <2>1. stream' = [stream EXCEPT ![c] = r] /\ stream[c].at = "closed"
      BY <1>4 DEF Open
    <2>2. Coming(c) = {} /\ stream[c].got = <<>> /\ stream[c].queue = <<>> /\ ~stream[c].lost
      BY <1>2, <2>1 DEF Receives, Has
    <2>3. /\ r \in Stream /\ r.got = <<>> /\ r.queue = <<>> /\ r.at = "open" /\ r.since = Len(events)
      BY <1>2, <2>2 DEF Stream
    <2> HIDE DEF r
    <2>4. r.got \o r.queue = <<>> /\ Len(<<>>) = 0
      BY <2>3, ConcatEmptySeq, EmptySeq
    <2>5. r.since + 1 .. Len(events) = {} /\ 1 .. Len(<<>>) = {}
      BY <1>2, <2>3, <2>4
    <2>6. Receives(r, Coming(c), Len(events))
      BY <1>2, <2>2, <2>3, <2>4, <2>5 DEF Receives, Has
    <2>7. QED
      BY <1>2, <1>3, <2>1, <2>2, <2>3, <2>6
  <1>5. CASE Write(c)
    <2> DEFINE q == stream[c].queue
               g == stream[c].got
               r == [stream[c] EXCEPT !.queue = Tail(q), !.got = Append(g, Head(q))]
    <2>1. stream' = [stream EXCEPT ![c] = r] /\ stream[c].at = "open" /\ q # <<>>
      BY <1>5 DEF Write
    <2>2. /\ g \in Seq(Nat) /\ q \in Seq(Nat) /\ Append(g, Head(q)) \in Seq(Nat)
          /\ Tail(q) \in Seq(Nat) /\ Len(Tail(q)) = Len(q) - 1 /\ Len(q) \in Nat
      <3>1. g \in Seq(Nat) /\ q \in Seq(Nat)
        BY <1>2 DEF Stream
      <3>2. QED
        BY <2>1, <3>1, HeadTailProperties, AppendProperties
    <2>3. /\ r \in Stream /\ r.got = Append(g, Head(q)) /\ r.queue = Tail(q) /\ r.at = "open"
          /\ r.since = stream[c].since /\ r.lost = stream[c].lost
      BY <1>2, <2>1, <2>2 DEF Stream
    <2> HIDE DEF r
    <2>4. r.got \o r.queue = g \o q
      BY <2>1, <2>2, <2>3, MovedOne
    <2>5. Receives(r, Coming(c), Len(events))
      BY <1>2, <2>1, <2>3, <2>4, ReceivesSame
    <2>6. Len(r.queue) <= Backlog
      BY <1>2, <2>2, <2>3
    <2>7. QED
      BY <1>3, <2>1, <2>3, <2>5, <2>6
  <1>6. CASE CloseStream(c)
    <2> DEFINE r == [stream[c] EXCEPT !.at = "over"]
    <2>1. stream' = [stream EXCEPT ![c] = r]
      BY <1>6 DEF CloseStream
    <2>2. /\ r \in Stream /\ r.got = stream[c].got /\ r.queue = stream[c].queue /\ r.at = "over"
          /\ r.since = stream[c].since /\ r.lost = stream[c].lost
      BY <1>2 DEF Stream
    <2> HIDE DEF r
    <2>3. Receives(r, Coming(c), Len(events))
      BY <1>2, <2>2, ReceivesSame
    <2>4. QED
      BY <1>2, <1>3, <2>1, <2>2, <2>3
  <1>7. QED
    BY <1>4, <1>5, <1>6

-----------------------------------------------------------------------------
(* The steps of the composition *)

\* Initially nothing was numbered, published or attached.
LEMMA InitHolds == Init => IInv
  <1> SUFFICES ASSUME Init PROVE IInv
    OBVIOUS
  <1>1. log = <<>> /\ cut = 0 /\ fed = <<>> /\ tcp = {} /\ closed = FALSE /\ events = <<>> /\ evCut = 0
        /\ pending = {} /\ owing = {} /\ Len(<<>>) = 0
    BY EmptySeq DEF Init, TraceInit, FeedInit, BusInit
  <1>2. \A c \in Tracers : client[c] = NoClient
    BY DEF Init, FeedInit
  <1>3. \A u \in Peers : udp[u] = [known |-> FALSE, got |-> <<>>]
    BY DEF Init, FeedInit
  <1>4. \A c \in Streams : stream[c] = NoStream
    BY DEF Init, BusInit
  <1>5. \A p \in Publishers : sending[p] = NotSending
    BY DEF Init, BusInit
  <1>6. TypeOK
    <2>1. TraceTypeOK
      BY <1>1, FrameTraceAssumption DEF TraceTypeOK
    <2>2. FeedTypeOK
      <3>1. NoClient \in Client /\ NoClient.queue = <<>> /\ NoClient.replay = <<>>
        BY DEF NoClient, Client
      <3>2. client \in [Tracers -> Client]
        BY <1>2, <3>1 DEF Init, FeedInit
      <3>3. udp \in [Peers -> Peer]
        BY <1>3 DEF Init, FeedInit, Peer
      <3>4. \A c \in Tracers : Len(client[c].queue) <= QueueDepth /\ Len(client[c].replay) <= ReplayDepth
        BY <1>1, <1>2, <3>1
      <3>5. fed \in Seq(Nat) /\ closed \in BOOLEAN /\ tcp \subseteq Tracers
        <4>1. <<>> \in Seq(Nat)
          BY EmptySeq
        <4>2. QED
          BY <1>1, <4>1
      <3>6. QED
        BY <3>2, <3>3, <3>4, <3>5 DEF FeedTypeOK
    <2>3. BusTypeOK
      BY <1>1 DEF Init, BusTypeOK, BusInit, NotSending, NoStream, Stream
    <2>4. QED
      BY <1>1, <2>1, <2>2, <2>3 DEF TypeOK
  <1>7. Ordered
    BY <1>1 DEF Ordered, OnePending, SourceOrder, Latest, Newest
  <1>8. TracersFollow
    <2>1. /\ NoClient.got = <<>> /\ NoClient.replay = <<>> /\ NoClient.queue = <<>> /\ NoClient.lost = FALSE
          /\ NoClient.since = 0
      BY DEF NoClient
    <2>2. LinesOf(NoClient) = <<>>
      BY <2>1, ConcatEmptySeq DEF LinesOf
    <2>3. 1 .. Len(<<>>) = {}
      BY <1>1
    <2>4. ASSUME NEW c \in Tracers PROVE Follows(NoClient, c \in tcp, 0)
      BY <1>1, <2>1, <2>2, <2>3 DEF Follows, Rising
    <2>5. QED
      BY <1>1, <1>2, <2>4 DEF TracersFollow, Newest
  <1>9. PeersFollow
    BY <1>1, <1>3 DEF PeersFollow, PeerFollows, Newest
  <1>10. SendsApart
    BY <1>5 DEF SendsApart, NotSending
  <1>11. StreamsReceive
    <2>1. /\ NoStream.got = <<>> /\ NoStream.queue = <<>> /\ NoStream.lost = FALSE /\ NoStream.since = 0
          /\ NoStream.at = "closed"
      BY DEF NoStream
    <2>2. NoStream.got \o NoStream.queue = <<>>
      BY <2>1, ConcatEmptySeq
    <2>3. ASSUME NEW c \in Streams PROVE Coming(c) = {}
      BY <1>5 DEF Coming, NotSending
    <2>4. 1 .. Len(<<>>) = {}
      BY <1>1
    <2>5. Has(<<>>, NoStream, {}, 0)
      BY <2>1, <2>4 DEF Has
    <2>6. QED
      BY <1>1, <1>4, <2>2, <2>3, <2>5 DEF StreamsReceive, Receives
  <1>12. QED
    BY <1>6, <1>7, <1>8, <1>9, <1>10, <1>11 DEF IInv

\* A part of the state that a step leaves alone stays as it was.
LEMMA TraceStays ==
  ASSUME IInv, UNCHANGED <<traceVars, fed, pending>>
  PROVE  TraceTypeOK' /\ Ordered' /\ (pending \subseteq 1 .. Len(log))'
  <1>1. log' = log /\ cut' = cut /\ fed' = fed /\ pending' = pending
    BY DEF traceVars
  <1>2. QED
    BY <1>1 DEF IInv, TypeOK, TraceTypeOK, Ordered, OnePending, SourceOrder, Latest, Newest

\* The same for the feed.
LEMMA FeedStays ==
  ASSUME IInv, UNCHANGED feedVars
  PROVE  FeedTypeOK' /\ TracersFollow' /\ PeersFollow'
  <1>1. fed' = fed /\ tcp' = tcp /\ client' = client /\ udp' = udp /\ closed' = closed
    BY DEF feedVars
  <1>2. QED
    BY <1>1 DEF IInv, TypeOK, FeedTypeOK, TracersFollow, PeersFollow, Newest

\* The same for the bus.
LEMMA BusStays ==
  ASSUME IInv, UNCHANGED busVars
  PROVE  BusTypeOK' /\ SendsApart' /\ StreamsReceive'
  <1>1. events' = events /\ evCut' = evCut /\ sending' = sending /\ stream' = stream
    BY DEF busVars
  <1>2. \A c \in Streams : Coming(c)' = Coming(c)
    BY <1>1 DEF Coming
  <1>3. QED
    BY <1>1, <1>2 DEF IInv, TypeOK, BusTypeOK, SendsApart, StreamsReceive

\* Every step preserves the invariant.
LEMMA StepKeeps == IInv /\ [Next]_vars => IInv'
  <1> SUFFICES ASSUME IInv, [Next]_vars PROVE IInv'
    OBVIOUS
  <1>0. TypeOK /\ Ordered /\ TracersFollow /\ PeersFollow /\ SendsApart /\ StreamsReceive /\ owing \subseteq Sources
    BY DEF IInv, TypeOK
  <1>1. ASSUME NEW frame \in Traffic, AddFrame(frame) PROVE IInv'
    <2>1. UNCHANGED feedVars /\ UNCHANGED busVars /\ owing' = owing
      BY <1>1 DEF AddFrame
    <2>2. Ordered' /\ TraceTypeOK' /\ (pending \subseteq 1 .. Latest)'
      BY <1>0, <1>1, AddKeeps
    <2>3. QED
      BY <1>0, <2>1, <2>2, FeedStays, BusStays DEF IInv, TypeOK, Latest
  <1>2. ASSUME NEW n \in 1 .. MaxFrames, HandOver(n) PROVE IInv'
    <2>1. UNCHANGED busVars /\ Publish(n) /\ n \in Nat /\ n \in pending
      BY <1>2 DEF HandOver
    <2>2. Ordered' /\ TraceTypeOK' /\ (pending \subseteq 1 .. Latest)'
      BY <1>0, <1>2, HandOverKeeps
    <2>3. log[n].source \in Sources
      <3>1. log \in Seq(Traffic) /\ n \in 1 .. Len(log)
        BY <2>1 DEF IInv, TypeOK, TraceTypeOK
      <3>2. log[n] \in Traffic
        BY <3>1, ElementOfSeq
      <3>3. QED
        BY <3>2, FrameTraceAssumption
    <2>4. owing' \subseteq Sources
      BY <1>0, <1>2, <2>3 DEF HandOver
    <2>5. FeedTypeOK' /\ TracersFollow' /\ PeersFollow'
      BY <1>0, <2>1, PublishKeeps
    <2>6. QED
      BY <2>1, <2>2, <2>4, <2>5, BusStays DEF IInv, TypeOK, Latest
  <1>3. ASSUME NEW s \in Sources, Announce(s) PROVE IInv'
    <2>1. /\ UNCHANGED traceVars /\ UNCHANGED feedVars /\ pending' = pending /\ fed' = fed
          /\ owing' \subseteq Sources /\ Post(s, "spine")
      BY <1>0, <1>3 DEF Announce, feedVars
    <2>2. BusTypeOK' /\ SendsApart' /\ StreamsReceive'
      BY <1>0, <2>1, PostKeeps, CaptureAssumption
    <2>3. QED
      BY <2>1, <2>2, TraceStays, FeedStays DEF IInv, TypeOK
  <1>4. ASSUME Feeding PROVE IInv'
    <2>1. UNCHANGED traceVars /\ UNCHANGED busVars /\ pending' = pending /\ owing' = owing
      BY <1>4 DEF Feeding, captureVars
    <2>2. FeedTypeOK' /\ TracersFollow' /\ PeersFollow' /\ fed' = fed
      <3>1. ASSUME NEW c \in Tracers, Accept(c) PROVE FeedTypeOK' /\ TracersFollow' /\ PeersFollow' /\ fed' = fed
        BY <1>0, <3>1, AcceptKeeps DEF Accept
      <3>2. ASSUME NEW c \in Tracers, Register(c) PROVE FeedTypeOK' /\ TracersFollow' /\ PeersFollow' /\ fed' = fed
        BY <1>0, <3>2, RegisterKeeps DEF Register
      <3>3. ASSUME NEW c \in Tracers, Deliver(c) PROVE FeedTypeOK' /\ TracersFollow' /\ PeersFollow' /\ fed' = fed
        BY <1>0, <3>3, DeliverKeeps DEF Deliver
      <3>4. ASSUME NEW c \in Tracers, Drained(c) \/ WriteFails(c) \/ Deregister(c)
            PROVE  FeedTypeOK' /\ TracersFollow' /\ PeersFollow' /\ fed' = fed
        <4>1. fed' = fed
          BY <3>4 DEF Drained, WriteFails, Deregister
        <4>2. QED
          BY <1>0, <3>4, <4>1, LeavingKeeps
      <3>5. ASSUME NEW u \in Peers, Greet(u) PROVE FeedTypeOK' /\ TracersFollow' /\ PeersFollow' /\ fed' = fed
        BY <1>0, <3>5, GreetKeeps DEF Greet
      <3>6. ASSUME Close PROVE FeedTypeOK' /\ TracersFollow' /\ PeersFollow' /\ fed' = fed
        BY <1>0, <3>6, CloseKeeps DEF Close
      <3>7. QED
        BY <1>4, <3>1, <3>2, <3>3, <3>4, <3>5, <3>6 DEF Feeding, Serve
    <2>3. QED
      BY <1>0, <2>1, <2>2, TraceStays, BusStays DEF IInv, TypeOK
  <1>5. ASSUME Streaming PROVE IInv'
    <2>1. UNCHANGED traceVars /\ UNCHANGED feedVars /\ pending' = pending /\ owing' = owing /\ fed' = fed
      BY <1>5 DEF Streaming, captureVars, feedVars
    <2>2. BusTypeOK' /\ SendsApart' /\ StreamsReceive'
      BY <1>0, <1>5, SendKeeps, StreamKeeps DEF Streaming
    <2>3. QED
      BY <1>0, <2>1, <2>2, TraceStays, FeedStays DEF IInv, TypeOK
  <1>6. ASSUME UNCHANGED vars PROVE IInv'
    <2>1. UNCHANGED traceVars /\ UNCHANGED feedVars /\ UNCHANGED busVars /\ pending' = pending
          /\ owing' = owing /\ fed' = fed
      BY <1>6 DEF vars, captureVars, feedVars
    <2>2. QED
      BY <1>0, <2>1, TraceStays, FeedStays, BusStays DEF IInv, TypeOK
  <1>7. QED
    BY <1>1, <1>2, <1>3, <1>4, <1>5, <1>6 DEF Next

\* It always holds.
LEMMA Inductive == Spec => []IInv
  BY InitHolds, StepKeeps, PTL DEF Spec

-----------------------------------------------------------------------------
(* The theorems *)

\* Frames, feed, bus and their composition are always of their types, and no
\* queue is longer than its channel.
THEOREM TypeCorrect == Spec => []TypeOK
  BY Inductive, PTL DEF IInv

\* What was fed is, per connection and direction, in the order of the numbers, and
\* every numbered frame was fed once or is about to be.
THEOREM SourcesInOrder == Spec => []SourceOrder
  BY Inductive, PTL DEF IInv, Ordered

\* For any number of tracers and peers and any depth of history and queues, the
\* replay of the feed misses nothing and repeats nothing.
THEOREM ReplaySeamless == Spec => []SeamlessReplay
  <1>1. IInv => SeamlessReplay
    <2> SUFFICES ASSUME IInv PROVE SeamlessReplay
      OBVIOUS
    <2>1. ASSUME NEW c \in Tracers
          PROVE  /\ Rising(Lines(c))
                 /\ c \in tcp /\ ~client[c].lost => Lines(c) = Positions(First(client[c].since), Newest)
      BY DEF IInv, TracersFollow, Follows, LinesOf, Lines
    <2>2. ASSUME NEW u \in Peers
          PROVE  /\ \A i \in 1 .. Len(udp[u].got) : udp[u].got[i] = udp[u].got[1] + i - 1
                 /\ ~closed /\ udp[u].known /\ Newest > 0 =>
                       udp[u].got # <<>> /\ udp[u].got[Len(udp[u].got)] = Newest
      BY DEF IInv, PeersFollow, PeerFollows
    <2>3. QED
      BY <2>1, <2>2 DEF SeamlessReplay
  <1>2. QED
    BY <1>1, Inductive, PTL

\* For any number of streams and publishers and any backlog, a stream has or will
\* have every event since its subscription, unless its channel was full.
THEOREM StreamsGapless == Spec => []StreamGapless
  <1>1. IInv => StreamGapless
    <2> SUFFICES ASSUME IInv, NEW c \in Streams
                 PROVE  LET a == stream[c].got \o stream[c].queue IN
                        /\ \A i, j \in 1 .. Len(a) : i # j => a[i] # a[j]
                        /\ \A i \in 1 .. Len(a) : a[i] > stream[c].since /\ a[i] \notin Coming(c)
                        /\ stream[c].at = "open" /\ ~stream[c].lost =>
                              {a[i] : i \in 1 .. Len(a)} \cup Coming(c) = stream[c].since + 1 .. Len(events)
      BY DEF StreamGapless, Coming
    <2> DEFINE a == stream[c].got \o stream[c].queue
    <2>1. Has(a, stream[c], Coming(c), Len(events))
      BY DEF IInv, StreamsReceive, Receives
    <2>2. stream[c].since \in Nat
      BY DEF IInv, TypeOK, BusTypeOK, Stream
    <2> HIDE DEF a
    <2>3. \A i \in 1 .. Len(a) : a[i] > stream[c].since /\ a[i] \notin Coming(c)
      BY <2>1, <2>2 DEF Has
    <2>4. /\ \A i, j \in 1 .. Len(a) : i # j => a[i] # a[j]
          /\ stream[c].at = "open" /\ ~stream[c].lost =>
                {a[i] : i \in 1 .. Len(a)} \cup Coming(c) = stream[c].since + 1 .. Len(events)
      BY <2>1 DEF Has
    <2>5. QED
      BY <2>3, <2>4 DEF a
  <1>2. QED
    BY <1>1, Inductive, PTL
=============================================================================
