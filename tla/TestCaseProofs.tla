---------------------------- MODULE TestCaseProofs ----------------------------
(* What TestCase.tla says of a test case's verdict, its finally steps and the   *)
(* device it tests, proved for any scenario files, any devices that come and    *)
(* go, and any length of a loop's list.                                         *)
EXTENDS TestCase, FunctionTheorems, FiniteSetTheorems, SequenceTheorems, TLAPS

\* Kinds of result that show that the steps were begun.
Begun == Kind \cup {"cancelled"}
NotBegun == \A i \in DOMAIN steps : steps[i].kind \notin Begun

\* What holds where the runner stands.
Stage ==
    /\ pc \in {"select", "lead", "check"} => NotBegun
    /\ pc \in {"select", "lead", "check", "stepping"} => status = "passed"
    /\ pc = "stepping" => queue # <<>> /\ Head(queue) # "each"
    /\ pc \in {"finally", "end"} /\ status = "passed" => queue = <<>>

\* The selected peer is there from the selection on, and the right one.
PeerChosen ==
    /\ pc = "select" => peer = None
    /\ script.peer /\ pc \notin {"select", "end"} => peer # None
    /\ RightDevice

\* The finally steps that ran are the last results, and only they are.
Ran == script.finally - left
FinallyLast ==
    /\ left <= script.finally /\ Ran <= Len(steps)
    /\ \A i \in DOMAIN steps : steps[i].kind = "finally" <=> i > Len(steps) - Ran
    /\ pc \notin {"finally", "end"} => left = script.finally
    /\ pc = "end" => left = 0 \/ NotBegun

\* The verdict so far is what the results so far say.
Explained ==
    /\ status = "passed" =>
         \A i \in DOMAIN steps : \/ steps[i].status = "passed"
                                 \/ steps[i].kind = "finally" /\ steps[i].status = "skipped"
    /\ status = "failed" => \E i \in DOMAIN steps : steps[i].status = "failed"
    /\ reason = "not_run" =>
         /\ cancelled
         /\ \A i \in DOMAIN steps : steps[i].status = "failed" => steps[i].kind = "finally"

\* As long as the test case passes, what ran and what is queued make up its steps.
NothingLost == status = "passed" => Count({"step", "optional"}) + Work(queue) = Work(script.steps)

IInv == TypeOK /\ Stage /\ PeerChosen /\ FinallyLast /\ Explained /\ NothingLost

-----------------------------------------------------------------------------
(* Counting *)

\* Moving numbers up by the same amount leaves as many.
LEMMA Shifted ==
  ASSUME NEW S \in SUBSET Nat, IsFiniteSet(S), NEW n \in Nat
  PROVE  /\ IsFiniteSet({i + n : i \in S})
         /\ Cardinality({i + n : i \in S}) = Cardinality(S)
  <1> DEFINE T == {i + n : i \in S}
             f == [i \in S |-> i + n]
  <1>1. f \in Surjection(S, T)
    BY DEF Surjection
  <1>2. f \in Injection(S, T)
    <2>1. f \in [S -> T]
      OBVIOUS
    <2>2. ASSUME NEW a \in S, NEW b \in S, f[a] = f[b] PROVE a = b
      <3>1. a \in Nat /\ b \in Nat /\ f[a] = a + n /\ f[b] = b + n
        OBVIOUS
      <3>2. QED
        BY <2>2, <3>1
    <2>3. QED
      BY <2>1, <2>2 DEF Injection, IsInjective
  <1> HIDE DEF f, T
  <1>3. IsFiniteSet(T) /\ Cardinality(T) = Cardinality(S)
    BY <1>1, <1>2, FS_Surjection
  <1>4. QED
    BY <1>3 DEF T

\* Two sets with nothing in common have as many elements as both together.
LEMMA Joined ==
  ASSUME NEW S, NEW T, IsFiniteSet(S), IsFiniteSet(T), S \cap T = {}
  PROVE  /\ IsFiniteSet(S \cup T)
         /\ Cardinality(S \cup T) = Cardinality(S) + Cardinality(T)
  <1>1. /\ IsFiniteSet(S \cup T)
        /\ Cardinality(S \cup T) = Cardinality(S) + Cardinality(T) - Cardinality(S \cap T)
    BY FS_Union
  <1>2. Cardinality(S \cap T) = 0
    BY FS_EmptySet
  <1>3. Cardinality(S) \in Nat /\ Cardinality(T) \in Nat
    BY FS_CardinalityType
  <1>4. QED
    BY <1>1, <1>2, <1>3

\* Sums of three numbers, in the order the count of NothingLost needs.
LEMMA AddedEitherWay == \A a, b, c \in Nat : a + (b + c) = (a + c) + b
  OBVIOUS

\* Places in a sequence are finitely many.
LEMMA PlacesFinite ==
  ASSUME NEW n \in Nat, NEW S \in SUBSET (1 .. n)
  PROVE  IsFiniteSet(S) /\ Cardinality(S) \in Nat
  <1>1. IsFiniteSet(1 .. n)
    BY FS_Interval, 1 \in Int, n \in Int
  <1>2. QED
    BY <1>1, FS_Subset, FS_CardinalityType

Places(q, kinds) == {i \in DOMAIN q : q[i] \in kinds}

\* The places of some kinds in a queue are finitely many: their count is a number.
LEMMA OccurrencesType ==
  ASSUME NEW q \in Seq(Kind), NEW kinds
  PROVE  /\ IsFiniteSet(Places(q, kinds)) /\ Occurrences(q, kinds) = Cardinality(Places(q, kinds))
         /\ Occurrences(q, kinds) \in Nat
  <1>1. Len(q) \in Nat /\ Places(q, kinds) \in SUBSET (1 .. Len(q))
    BY DEF Places
  <1>2. QED
    BY <1>1, PlacesFinite DEF Occurrences, Places

\* What occurs in two queues one behind the other occurs in the one or the other.
LEMMA OccurrencesConcat ==
  ASSUME NEW p \in Seq(Kind), NEW q \in Seq(Kind), NEW kinds
  PROVE  Occurrences(p \o q, kinds) = Occurrences(p, kinds) + Occurrences(q, kinds)
  <1> DEFINE moved == {i + Len(p) : i \in Places(q, kinds)}
  <1>1. /\ p \o q \in Seq(Kind) /\ Len(p) \in Nat /\ Len(q) \in Nat
        /\ Len(p \o q) = Len(p) + Len(q)
        /\ \A i \in 1 .. Len(p) + Len(q) : (p \o q)[i] = IF i <= Len(p) THEN p[i] ELSE q[i - Len(p)]
    BY ConcatProperties, LenProperties
  <1>2. DOMAIN (p \o q) = 1 .. Len(p) + Len(q) /\ DOMAIN p = 1 .. Len(p) /\ DOMAIN q = 1 .. Len(q)
    BY <1>1, LenProperties
  <1>3. Places(p \o q, kinds) = Places(p, kinds) \cup moved
    <2>1. ASSUME NEW i \in Places(p \o q, kinds) PROVE i \in Places(p, kinds) \cup moved
      <3>1. i \in 1 .. Len(p) + Len(q) /\ (p \o q)[i] \in kinds
        BY <1>2, <2>1 DEF Places
      <3>2. CASE i <= Len(p)
        BY <1>1, <1>2, <3>1, <3>2 DEF Places
      <3>3. CASE i > Len(p)
        <4>1. i - Len(p) \in 1 .. Len(q) /\ q[i - Len(p)] \in kinds /\ i = (i - Len(p)) + Len(p)
          BY <1>1, <3>1, <3>3
        <4>2. i - Len(p) \in Places(q, kinds)
          BY <1>2, <4>1 DEF Places
        <4>3. QED
          BY <4>1, <4>2
      <3>4. QED
        BY <1>1, <3>1, <3>2, <3>3
    <2>2. ASSUME NEW i \in Places(p, kinds) PROVE i \in Places(p \o q, kinds)
      BY <1>1, <1>2, <2>2 DEF Places
    <2>3. ASSUME NEW j \in Places(q, kinds) PROVE j + Len(p) \in Places(p \o q, kinds)
      <3>1. j \in 1 .. Len(q) /\ q[j] \in kinds
        BY <1>2, <2>3 DEF Places
      <3>2. j + Len(p) \in 1 .. Len(p) + Len(q) /\ ~(j + Len(p) <= Len(p)) /\ (j + Len(p)) - Len(p) = j
        BY <1>1, <3>1
      <3>3. QED
        BY <1>1, <1>2, <3>1, <3>2 DEF Places
    <2>4. QED
      BY <2>1, <2>2, <2>3
  <1>4. Places(p, kinds) \cap moved = {}
    BY <1>1, <1>2 DEF Places
  <1>5. /\ IsFiniteSet(Places(p, kinds)) /\ IsFiniteSet(Places(q, kinds))
        /\ Places(q, kinds) \in SUBSET Nat
    <2>1. Places(q, kinds) \in SUBSET Nat
      BY <1>1, <1>2 DEF Places
    <2>2. QED
      BY <2>1, OccurrencesType
  <1>6. IsFiniteSet(moved) /\ Cardinality(moved) = Cardinality(Places(q, kinds))
    BY <1>1, <1>5, Shifted
  <1> HIDE DEF moved
  <1>7. Cardinality(Places(p \o q, kinds)) = Cardinality(Places(p, kinds)) + Cardinality(moved)
    BY <1>3, <1>4, <1>5, <1>6, Joined
  <1>8. QED
    BY <1>1, <1>6, <1>7, OccurrencesType

\* Steps of one kind only.
LEMMA OccurrencesOf ==
  ASSUME NEW k \in Kind, NEW q \in Seq(Kind), \A i \in 1 .. Len(q) : q[i] = k, NEW kinds
  PROVE  Occurrences(q, kinds) = IF k \in kinds THEN Len(q) ELSE 0
  <1> DEFINE n == Len(q)
  <1>1. n \in Nat /\ DOMAIN q = 1 .. n
    BY LenProperties
  <1>2. CASE k \in kinds
    <2>1. Places(q, kinds) = 1 .. n
      BY <1>1, <1>2 DEF Places
    <2>2. Cardinality(1 .. n) = IF 1 > n THEN 0 ELSE n - 1 + 1
      BY <1>1, FS_Interval, 1 \in Int, n \in Int
    <2>3. QED
      BY <1>1, <1>2, <2>1, <2>2, OccurrencesType
  <1>3. CASE k \notin kinds
    <2>1. Places(q, kinds) = {}
      BY <1>1, <1>3 DEF Places
    <2>2. QED
      BY <1>3, <2>1, OccurrencesType, FS_EmptySet
  <1>4. QED
    BY <1>2, <1>3

\* The work of a queue, put together and taken apart.
LEMMA WorkConcat ==
  ASSUME NEW p \in Seq(Kind), NEW q \in Seq(Kind)
  PROVE  Work(p) \in Nat /\ Work(p \o q) = Work(p) + Work(q)
  <1> DEFINE a == Occurrences(p, Kind \ {"each"})  b == Occurrences(q, Kind \ {"each"})
             c == Occurrences(p, {"each"})         d == Occurrences(q, {"each"})
  <1>1. a \in Nat /\ b \in Nat /\ c \in Nat /\ d \in Nat /\ Items \in Nat
    BY OccurrencesType, ConstantsOK
  <1>2. /\ Work(p) = a + Items * c /\ Work(q) = b + Items * d
        /\ Work(p \o q) = (a + b) + Items * (c + d)
    BY OccurrencesConcat DEF Work
  <1> HIDE DEF a, b, c, d
  <1>3. Items * c \in Nat /\ Items * d \in Nat /\ Items * (c + d) = Items * c + Items * d
    BY <1>1
  <1>4. QED
    BY <1>1, <1>2, <1>3

\* The work of steps of one kind only: one each, or a list of items for every loop.
LEMMA WorkOf ==
  ASSUME NEW k \in Kind, NEW q \in Seq(Kind), \A i \in 1 .. Len(q) : q[i] = k
  PROVE  Work(q) = IF k = "each" THEN Items * Len(q) ELSE Len(q)
  <1> DEFINE n == Len(q)
             a == Occurrences(q, Kind \ {"each"})
             c == Occurrences(q, {"each"})
  <1>1. n \in Nat /\ Items \in Nat /\ Work(q) = a + Items * c
    BY ConstantsOK DEF Work
  <1>2. a = (IF k = "each" THEN 0 ELSE n) /\ c = (IF k = "each" THEN n ELSE 0)
    BY OccurrencesOf
  <1> HIDE DEF n, a, c
  <1>3. Items * n \in Nat /\ Items * 0 = 0
    BY <1>1
  <1>4. Work(q) = IF k = "each" THEN Items * n ELSE n
    BY <1>1, <1>2, <1>3
  <1>5. QED
    BY <1>4 DEF n

\* An empty queue has no work, and a loop as much as its list has items.
LEMMA WorkOfHead ==
  ASSUME NEW q \in Seq(Kind), q # <<>>
  PROVE  /\ Head(q) \in Kind /\ Tail(q) \in Seq(Kind) /\ Work(Tail(q)) \in Nat
         /\ Work(q) = (IF Head(q) = "each" THEN Items ELSE 1) + Work(Tail(q))
  <1>1. /\ Head(q) \in Kind /\ Tail(q) \in Seq(Kind) /\ Len(Tail(q)) = Len(q) - 1
        /\ \A i \in 1 .. Len(Tail(q)) : Tail(q)[i] = q[i + 1]
        /\ Head(q) = q[1] /\ Len(q) \in Nat \ {0}
    <2>1. Head(q) = q[1]
      OBVIOUS
    <2>2. Len(q) \in Nat \ {0}
      BY EmptySeq
    <2>3. QED
      BY <2>1, <2>2, HeadTailProperties
  <1> DEFINE h == <<Head(q)>>
  <1>2. h \in Seq(Kind) /\ Len(h) = 1 /\ h[1] = Head(q)
    BY <1>1
  <1> HIDE DEF h
  <1>3. q = h \o Tail(q)
    <2> DEFINE r == h \o Tail(q)
    <2>1. /\ r \in Seq(Kind) /\ Len(r) = Len(h) + Len(Tail(q))
          /\ \A i \in 1 .. Len(h) + Len(Tail(q)) : r[i] = IF i <= Len(h) THEN h[i] ELSE Tail(q)[i - Len(h)]
      BY <1>1, <1>2, ConcatProperties
    <2> HIDE DEF r
    <2>2. Len(r) = Len(q)
      BY <1>1, <1>2, <2>1
    <2>3. ASSUME NEW i \in 1 .. Len(q) PROVE q[i] = r[i]
      <3>1. CASE i = 1
        BY <1>1, <1>2, <2>1, <3>1
      <3>2. CASE i # 1
        <4>1. i - 1 \in 1 .. Len(Tail(q)) /\ (i - 1) + 1 = i /\ ~(i <= 1) /\ i \in 1 .. Len(h) + Len(Tail(q))
          BY <1>1, <1>2, <3>2
        <4>2. r[i] = Tail(q)[i - 1]
          BY <1>2, <2>1, <4>1
        <4>3. QED
          BY <1>1, <4>1, <4>2
      <3>3. QED
        BY <3>1, <3>2
    <2>4. q = r
      BY <2>1, <2>2, <2>3, SeqEqual
    <2>5. QED
      BY <2>4 DEF r
  <1>4. Work(h) = IF Head(q) = "each" THEN Items * 1 ELSE 1
    <2>1. \A i \in 1 .. Len(h) : h[i] = Head(q)
      BY <1>2
    <2>2. Work(h) = IF Head(q) = "each" THEN Items * Len(h) ELSE Len(h)
      BY <1>1, <1>2, <2>1, WorkOf
    <2>3. QED
      BY <1>2, <2>2
  <1>5. Work(q) = Work(h) + Work(Tail(q)) /\ Work(Tail(q)) \in Nat
    BY <1>1, <1>2, <1>3, WorkConcat
  <1>6. QED
    BY <1>1, <1>4, <1>5, ConstantsOK

\* One copy of the loop's step per item, in front of the rest.
LEMMA WorkOfLoop ==
  ASSUME NEW rest \in Seq(Kind)
  PROVE  LET q == [i \in 1 .. Items |-> "step"] \o rest
         IN  q \in Seq(Kind) /\ Work(q) = Items + Work(rest)
  <1> DEFINE copies == [i \in 1 .. Items |-> "step"]
  <1>1. copies \in Seq(Kind) /\ Len(copies) = Items /\ \A i \in 1 .. Len(copies) : copies[i] = "step"
    BY ConstantsOK DEF Kind
  <1> HIDE DEF copies
  <1>2. Work(copies) = Items
    BY <1>1, WorkOf, "step" \in Kind DEF Kind
  <1>3. copies \o rest \in Seq(Kind) /\ Work(copies \o rest) = Work(copies) + Work(rest)
    BY <1>1, WorkConcat, ConcatProperties
  <1>4. QED
    BY <1>2, <1>3 DEF copies

-----------------------------------------------------------------------------
(* The results *)

\* A result is added behind the others, and counts once.
LEMMA Logged ==
  ASSUME steps \in Seq(StepResult), NEW r \in StepResult, steps' = Append(steps, r)
  PROVE  /\ steps' \in Seq(StepResult) /\ Len(steps) \in Nat /\ Len(steps') = Len(steps) + 1
         /\ DOMAIN steps = 1 .. Len(steps) /\ DOMAIN steps' = 1 .. Len(steps) + 1
         /\ steps'[Len(steps) + 1] = r /\ \A i \in 1 .. Len(steps) : steps'[i] = steps[i]
         /\ \A i \in DOMAIN steps : i \in DOMAIN steps' /\ steps'[i] = steps[i]
         /\ \A i \in DOMAIN steps' : i = Len(steps) + 1 \/ i \in DOMAIN steps
         /\ Len(steps) + 1 \in DOMAIN steps' /\ Len(steps) + 1 \notin DOMAIN steps
         /\ \A kinds : Count(kinds)' = Count(kinds) + (IF r.kind \in kinds THEN 1 ELSE 0)
  <1> DEFINE n == Len(steps)
  <1>1. /\ steps' \in Seq(StepResult) /\ n \in Nat /\ Len(steps') = n + 1
        /\ DOMAIN steps = 1 .. n /\ DOMAIN steps' = 1 .. n + 1
        /\ steps'[n + 1] = r /\ \A i \in 1 .. n : steps'[i] = steps[i]
    OBVIOUS
  <1>2. \A i : i \in 1 .. n + 1 <=> i \in 1 .. n \/ i = n + 1
    BY <1>1
  <1>3. n + 1 \notin 1 .. n
    BY <1>1
  <1>4. ASSUME NEW kinds PROVE Count(kinds)' = Count(kinds) + (IF r.kind \in kinds THEN 1 ELSE 0)
    <2> DEFINE S == {i \in 1 .. n : steps[i].kind \in kinds}
               T == {i \in 1 .. n + 1 : steps'[i].kind \in kinds}
    <2>1. Count(kinds) = Cardinality(S) /\ Count(kinds)' = Cardinality(T)
      BY <1>1 DEF Count
    <2>2. IsFiniteSet(S) /\ Cardinality(S) \in Nat
      <3>1. S \in SUBSET (1 .. n)
        OBVIOUS
      <3>2. QED
        BY <1>1, <3>1, PlacesFinite
    <2>3. n + 1 \notin S
      BY <1>3
    <2>4. CASE r.kind \in kinds
      <3>1. T = S \cup {n + 1}
        BY <1>1, <1>2, <2>4
      <3> HIDE DEF S, T, n
      <3>2. Cardinality(S \cup {n + 1}) = Cardinality(S) + 1
        BY <2>2, <2>3, FS_AddElement
      <3>3. QED
        BY <2>1, <2>4, <3>1, <3>2
    <2>5. CASE r.kind \notin kinds
      <3>1. T = S
        BY <1>1, <1>2, <2>5
      <3>2. QED
        BY <2>1, <2>2, <2>5, <3>1
    <2>6. QED
      BY <2>4, <2>5
  <1>5. QED
    BY <1>1, <1>2, <1>3, <1>4

\* Every result so far is one of the steps' or one of the finally steps that ran.
LEMMA Counted ==
  ASSUME TypeOK, NEW kinds
  PROVE  Count(kinds) \in Nat /\ (Count(kinds) > 0 => \E i \in DOMAIN steps : steps[i].kind \in kinds)
  <1> DEFINE S == {i \in DOMAIN steps : steps[i].kind \in kinds}
  <1>1. Len(steps) \in Nat /\ S \in SUBSET (1 .. Len(steps)) /\ Count(kinds) = Cardinality(S)
    <2>1. steps \in Seq(StepResult)
      BY DEF TypeOK
    <2>2. Len(steps) \in Nat /\ DOMAIN steps = 1 .. Len(steps)
      BY <2>1
    <2>3. QED
      BY <2>2 DEF Count
  <1>2. IsFiniteSet(S) /\ Cardinality(S) \in Nat
    BY <1>1, PlacesFinite
  <1>3. Cardinality(S) > 0 => S # {}
    BY FS_EmptySet
  <1>4. QED
    BY <1>1, <1>2, <1>3

-----------------------------------------------------------------------------
(* The steps: first those that log nothing *)

\* A test case begins with its whole scenario queued and no result.
LEMMA InitHolds == Init => IInv
  <1> SUFFICES ASSUME Init PROVE IInv
    OBVIOUS
  <1>1. script.steps \in Seq(Kind) /\ script.finally \in Nat
    BY ConstantsOK DEF Init, Script
  <1>2. TypeOK
    <2>1. status \in Status /\ reason \in Reason /\ pc \in PC
      BY DEF Init, Status, Reason, PC
    <2>2. steps \in Seq(StepResult)
      BY EmptySeq DEF Init
    <2>3. configPeers \in {"unread", "entries", "none"}
      BY DEF Init
    <2>4. QED
      BY <1>1, <2>1, <2>2, <2>3 DEF Init, TypeOK
  <1>3. steps = <<>> /\ DOMAIN steps = {} /\ Len(steps) = 0
    <2>1. steps = <<>> /\ steps \in Seq(StepResult)
      BY EmptySeq DEF Init
    <2>2. Len(steps) = 0 /\ DOMAIN steps = 1 .. 0
      BY <2>1, EmptySeq, LenProperties
    <2>3. QED
      BY <2>1, <2>2
  <1>4. Stage /\ PeerChosen /\ Explained
    BY <1>3 DEF Init, Stage, NotBegun, PeerChosen, RightDevice, Explained
  <1>5. FinallyLast
    <2>1. pc = "select" /\ left = script.finally
      BY DEF Init
    <2>2. Ran = 0
      BY <1>1, <2>1 DEF Ran
    <2>3. QED
      BY <1>1, <1>3, <2>1, <2>2 DEF FinallyLast
  <1>6. NothingLost
    <2>1. Count({"step", "optional"}) = 0
      BY <1>3, FS_EmptySet DEF Count
    <2>2. Work(script.steps) \in Nat
      BY <1>1, WorkConcat
    <2>3. Work(queue) = Work(script.steps)
      BY DEF Init
    <2>4. QED
      BY <2>1, <2>2, <2>3 DEF NothingLost
  <1>7. QED
    BY <1>2, <1>4, <1>5, <1>6 DEF IInv

\* A step that changes neither the scenario nor the results, and leaves the
\* finally steps only when all of them ran.
LEMMA QuietKeeps ==
  ASSUME IInv, UNCHANGED <<script, queue, left, result>>, cancelled => cancelled',
         \/ pc' = pc
         \/ pc \notin {"finally", "end"} /\ pc' # "end"
         \/ pc = "finally" /\ left = 0 /\ pc' = "end"
  PROVE  FinallyLast' /\ Explained' /\ NothingLost' /\ (NotBegun' <=> NotBegun)
  <1> USE DEF IInv, result
  <1>1. NotBegun' <=> NotBegun
    BY DEF NotBegun
  <1>2. Explained'
    BY DEF Explained
  <1>3. NothingLost'
    BY DEF NothingLost, Count, Work, Occurrences
  <1>4. FinallyLast'
    <2>1. Ran' = Ran /\ steps' = steps /\ left' = left /\ script' = script
      BY DEF Ran
    <2>2. /\ pc' \notin {"finally", "end"} => left = script.finally
          /\ pc' = "end" => left = 0 \/ NotBegun
      BY DEF FinallyLast
    <2>3. QED
      BY <1>1, <2>1, <2>2 DEF FinallyLast
  <1>5. QED
    BY <1>1, <1>2, <1>3, <1>4

\* Cancelling and devices that come and go touch nothing the runner holds.
LEMMA WorldKeeps == ASSUME IInv, Cancel \/ DevicesChange PROVE IInv'
  <1>1. /\ UNCHANGED <<script, queue, left, result, pc, configPeers, peer, hasPeers>>
        /\ cancelled => cancelled'
    BY DEF Cancel, DevicesChange
  <1>2. FinallyLast' /\ Explained' /\ NothingLost' /\ (NotBegun' <=> NotBegun)
    BY <1>1, QuietKeeps
  <1>3. Stage' /\ PeerChosen'
    BY <1>1, <1>2 DEF IInv, Stage, PeerChosen, RightDevice, result
  <1>4. TypeOK'
    <2>1. cancelled' \in BOOLEAN /\ connected' \subseteq listed' /\ listed' \subseteq Devices
      BY DEF Cancel, DevicesChange, IInv, TypeOK
    <2>2. QED
      BY <1>1, <2>1 DEF IInv, TypeOK, result
  <1>5. QED
    BY <1>2, <1>3, <1>4 DEF IInv

\* Going on from one place to the next.
LEMMA GoOnKeeps ==
  ASSUME IInv, UNCHANGED <<world, queue, left, result>>,
         configPeers' \in {"unread", "entries", "none"}, peer' \in Devices \cup {None},
         PeerChosen',
         \/ pc = "select" /\ pc' \in {"select", "lead"}
         \/ pc = "lead" /\ pc' = "check"
         \/ pc = "check" /\ pc' = "steps"
         \/ Running /\ Head(queue) # "each" /\ pc' = "stepping"
         \/ pc = "steps" /\ (status # "passed" \/ queue = <<>>) /\ pc' = "finally"
         \/ pc = "finally" /\ left = 0 /\ pc' = "end"
  PROVE  IInv'
  <1>1. FinallyLast' /\ Explained' /\ NothingLost' /\ (NotBegun' <=> NotBegun)
    BY QuietKeeps DEF world, Running
  <1>2. Stage'
    BY <1>1 DEF IInv, Stage, Running, result
  <1>3. TypeOK'
    BY DEF IInv, TypeOK, PC, world, result
  <1>4. QED
    BY <1>1, <1>2, <1>3 DEF IInv

\* The steps between the stages log nothing.
LEMMA BeginKeeps == ASSUME IInv, BeginStep \/ LeaveSteps \/ End PROVE IInv'
  <1>1. UNCHANGED <<world, configPeers, peer, queue, left, result>>
    BY DEF BeginStep, LeaveSteps, StepsOver, End
  <1>2. pc \notin {"select", "end"} /\ pc' # "select"
    BY DEF BeginStep, Running, LeaveSteps, StepsOver, End
  <1>3. PeerChosen'
    BY <1>1, <1>2 DEF IInv, PeerChosen, RightDevice, world
  <1>4. peer' \in Devices \cup {None} /\ configPeers' \in {"unread", "entries", "none"}
    BY <1>1 DEF IInv, TypeOK
  <1>5. QED
    BY <1>1, <1>3, <1>4, GoOnKeeps DEF BeginStep, LeaveSteps, StepsOver, End

\* The peer that is selected is one of the devices, the target if the config named it.
LEMMA SelectedPeer ==
  ASSUME TypeOK, NEW seen \in Seen, NEW config, NEW d \in SelectPeer(seen, config)
  PROVE  d \in Devices /\ d # None /\ (config = "entries" => d = Target)
  <1>1. seen \subseteq Devices
    BY DEF Seen, TypeOK
  <1>2. d \in seen /\ (config = "entries" => d = Target)
    BY DEF SelectPeer
  <1>3. QED
    BY <1>1, <1>2, ConstantsOK

\* Before the finally steps, none of the results is one of theirs.
LEMMA NoFinallyLogged ==
  ASSUME FinallyLast, steps \in Seq(StepResult), left = script.finally, left \in Nat,
         NEW r \in StepResult, r.kind # "finally", steps' = Append(steps, r), UNCHANGED <<script, left>>
  PROVE  /\ left' <= script'.finally /\ Ran' <= Len(steps')
         /\ \A i \in DOMAIN steps' : steps'[i].kind = "finally" <=> i > Len(steps') - Ran'
  <1>1. Ran = 0 /\ Ran' = 0
    BY DEF Ran
  <1>2. /\ Len(steps) \in Nat /\ Len(steps') = Len(steps) + 1
        /\ DOMAIN steps = 1 .. Len(steps) /\ DOMAIN steps' = 1 .. Len(steps) + 1
        /\ \A i \in DOMAIN steps' : i = Len(steps) + 1 \/ i \in DOMAIN steps
        /\ steps'[Len(steps) + 1] = r /\ \A i \in DOMAIN steps : steps'[i] = steps[i]
    BY Logged
  <1>3. \A i \in DOMAIN steps : steps[i].kind # "finally"
    <2>1. \A i \in DOMAIN steps : steps[i].kind = "finally" <=> i > Len(steps) - 0
      BY <1>1 DEF FinallyLast
    <2>2. QED
      BY <1>2, <2>1
  <1>4. \A i \in DOMAIN steps' : steps'[i].kind # "finally"
    BY <1>2, <1>3
  <1>5. \A i \in DOMAIN steps' : ~(i > Len(steps') - 0)
    BY <1>2
  <1>6. QED
    BY <1>1, <1>2, <1>4, <1>5

\* A result that decides the verdict explains it.
LEMMA ExplainedLogged ==
  ASSUME steps \in Seq(StepResult), Explained, status = "passed",
         NEW r \in StepResult, steps' = Append(steps, r), status' = r.status,
         r.status = "passed" => r.kind # "finally",
         reason' = "not_run" => cancelled' /\ r.status = "skipped"
  PROVE  Explained'
  <1>1. /\ \A i \in DOMAIN steps' : i = Len(steps) + 1 \/ i \in DOMAIN steps
        /\ Len(steps) + 1 \in DOMAIN steps' /\ steps'[Len(steps) + 1] = r
        /\ \A i \in DOMAIN steps : steps'[i] = steps[i]
    BY Logged
  <1>2. \A i \in DOMAIN steps' : steps'[i] = r \/ (i \in DOMAIN steps /\ steps'[i] = steps[i])
    BY <1>1
  <1>3. \A i \in DOMAIN steps : \/ steps[i].status = "passed"
                                \/ steps[i].kind = "finally" /\ steps[i].status = "skipped"
    BY DEF Explained
  <1>4. status' = "failed" => \E i \in DOMAIN steps' : steps'[i].status = "failed"
    BY <1>1
  <1>5. status' = "passed" =>
          \A i \in DOMAIN steps' : \/ steps'[i].status = "passed"
                                   \/ steps'[i].kind = "finally" /\ steps'[i].status = "skipped"
    BY <1>2, <1>3
  <1>6. reason' = "not_run" => \A i \in DOMAIN steps' : steps'[i].status # "failed"
    BY <1>2, <1>3
  <1>7. QED
    BY <1>4, <1>5, <1>6 DEF Explained

\* A test case that ends before its steps were begun.
LEMMA EndWithKeeps ==
  ASSUME IInv, pc \in {"select", "lead", "check"}, UNCHANGED <<world, peer>>,
         configPeers' \in {"unread", "entries", "none"}, RightDevice',
         NEW st \in {"failed", "skipped"}, NEW why \in {"", "precondition_not_met", "not_verifiable_on_wire"},
         why # "" <=> st = "skipped", NEW kind \in {"select_peer", "lead", "requirements"},
         EndWith(st, why, kind)
  PROVE  IInv'
  <1> DEFINE r == [kind |-> kind, status |-> st]
  <1> USE DEF IInv
  <1>1. /\ pc' = "end" /\ status' = st /\ reason' = why /\ steps' = Append(steps, r)
        /\ UNCHANGED <<queue, left, script, hasPeers, listed, connected, cancelled, peer>>
    BY DEF EndWith, world
  <1>2. r \in StepResult /\ r.kind = kind /\ r.status = st
    BY DEF StepResult, Status
  <1>3. /\ kind \notin Begun \cup {"finally"} /\ NotBegun
        /\ left = script.finally /\ script.finally \in Nat
    <2>1. script.finally \in Nat
      BY ConstantsOK DEF TypeOK, Script
    <2>2. kind \notin Begun \cup {"finally"}
      BY DEF Begun, Kind
    <2>3. NotBegun /\ left = script.finally
      BY DEF Stage, FinallyLast
    <2>4. QED
      BY <2>1, <2>2, <2>3
  <1> HIDE DEF r
  <1>4. /\ steps' \in Seq(StepResult) /\ Len(steps) \in Nat /\ Len(steps') = Len(steps) + 1
        /\ steps'[Len(steps) + 1] = r /\ Len(steps) + 1 \in DOMAIN steps'
        /\ DOMAIN steps = 1 .. Len(steps) /\ DOMAIN steps' = 1 .. Len(steps) + 1
        /\ \A i \in DOMAIN steps : i \in DOMAIN steps' /\ steps'[i] = steps[i]
        /\ \A i \in DOMAIN steps' : i = Len(steps) + 1 \/ i \in DOMAIN steps
    BY <1>1, <1>2, Logged DEF TypeOK
  <1>5. \A i \in DOMAIN steps' : steps'[i] = r \/ (i \in DOMAIN steps /\ steps'[i] = steps[i])
    BY <1>4
  <1>6. TypeOK'
    BY <1>1, <1>4 DEF TypeOK, PC, Status, Reason
  <1>7. NotBegun'
    BY <1>2, <1>3, <1>5 DEF NotBegun
  <1>8. Stage' /\ PeerChosen'
    BY <1>1 DEF Stage, PeerChosen
  <1>9. FinallyLast'
    BY <1>1, <1>2, <1>3, <1>7, NoFinallyLogged DEF TypeOK, FinallyLast
  <1>10. Explained'
    BY <1>1, <1>2, ExplainedLogged DEF TypeOK, Stage
  <1>11. NothingLost'
    BY <1>1 DEF NothingLost
  <1>12. QED
    BY <1>6, <1>8, <1>9, <1>10, <1>11

\* Selecting the peer: found, given up on or asked for again.
LEMMA AwaitPeerKeeps == ASSUME IInv, AwaitPeer PROVE IInv'
  <1> USE DEF IInv
  <1>1. pc = "select" /\ UNCHANGED world /\ peer = None /\ script \in Script
    BY ConstantsOK DEF AwaitPeer, PeerChosen, Stage, TypeOK
  <1>2. CASE ~script.peer
    <2>1. pc' = "lead" /\ UNCHANGED <<configPeers, peer, queue, left, result>>
      BY <1>2 DEF AwaitPeer
    <2>2. PeerChosen'
      BY <1>1, <1>2, <2>1 DEF PeerChosen, RightDevice, world
    <2>3. QED
      BY <1>1, <2>1, <2>2, GoOnKeeps DEF TypeOK
  <1>3. CASE script.peer
    <2>1. configPeers' \in {"unread", "entries", "none"}
      BY <1>3 DEF AwaitPeer, ReadConfig, TypeOK
    <2>2. PICK seen \in Seen : LET found == SelectPeer(seen, configPeers') IN
                 \/ /\ found # {} /\ peer' \in found /\ pc' = "lead"
                    /\ UNCHANGED <<queue, left, result>>
                 \/ /\ found = {} /\ EndWith("failed", "", "select_peer")
                    /\ UNCHANGED peer
                 \/ /\ found = {} /\ configPeers' = "entries" /\ script.lead /\ ~cancelled
                    /\ UNCHANGED <<pc, peer, queue, left, result>>
      BY <1>3 DEF AwaitPeer
    <2>3. CASE peer' \in SelectPeer(seen, configPeers') /\ pc' = "lead" /\ UNCHANGED <<queue, left, result>>
      <3>1. peer' \in Devices /\ peer' # None /\ (configPeers' = "entries" => peer' = Target)
        BY <2>3, SelectedPeer
      <3>2. PeerChosen'
        BY <2>3, <3>1 DEF PeerChosen, RightDevice
      <3>3. QED
        BY <1>1, <2>1, <2>3, <3>1, <3>2, GoOnKeeps
    <2>4. CASE EndWith("failed", "", "select_peer") /\ UNCHANGED peer
      <3>1. RightDevice'
        BY <1>1, <2>4 DEF RightDevice
      <3>2. QED
        BY <1>1, <2>1, <2>4, <3>1, EndWithKeeps
    <2>5. CASE UNCHANGED <<pc, peer, queue, left, result>>
      <3>1. PeerChosen'
        BY <1>1, <2>5 DEF PeerChosen, RightDevice
      <3>2. QED
        BY <1>1, <2>1, <2>5, <3>1, GoOnKeeps
    <2>6. QED
      BY <2>2, <2>3, <2>4, <2>5
  <1>4. QED
    BY <1>2, <1>3

\* The requirements: the steps begin, or the test case ends as skipped.
LEMMA CheckKeeps == ASSUME IInv, Check PROVE IInv'
  <1> USE DEF IInv
  <1>1. /\ pc = "check" /\ UNCHANGED <<world, configPeers, peer>>
        /\ configPeers' \in {"unread", "entries", "none"} /\ peer' \in Devices \cup {None}
    BY DEF Check, TypeOK
  <1>2. RightDevice'
    BY <1>1 DEF PeerChosen, RightDevice, world
  <1>3. CASE pc' = "steps" /\ UNCHANGED <<queue, left, result>>
    <2>1. PeerChosen'
      BY <1>1, <1>2, <1>3 DEF PeerChosen, world
    <2>2. QED
      BY <1>1, <1>3, <2>1, GoOnKeeps
  <1>4. CASE EndWith("skipped", "not_verifiable_on_wire", "requirements")
    BY <1>1, <1>2, <1>4, EndWithKeeps
  <1>5. CASE EndWith("skipped", "precondition_not_met", "requirements")
    BY <1>1, <1>2, <1>5, EndWithKeeps
  <1>6. QED
    BY <1>3, <1>4, <1>5 DEF Check

\* The leading wait_connected selects a peer for a scenario that names none.
LEMMA LeadKeeps == ASSUME IInv, Lead PROVE IInv'
  <1> USE DEF IInv
  <1>1. /\ pc = "lead" /\ UNCHANGED <<world, configPeers>> /\ status = "passed" /\ NotBegun
        /\ configPeers' \in {"unread", "entries", "none"}
    BY DEF Lead, TypeOK, Stage
  <1>2. CASE pc' = "check" /\ UNCHANGED <<peer, queue, left, result>>
    <2>1. PeerChosen'
      BY <1>1, <1>2 DEF PeerChosen, RightDevice, world
    <2>2. QED
      BY <1>1, <1>2, <2>1, GoOnKeeps DEF TypeOK
  <1>3. CASE EndWith("failed", "", "lead") /\ UNCHANGED peer
    <2>1. RightDevice'
      BY <1>1, <1>3 DEF PeerChosen, RightDevice, world
    <2>2. QED
      BY <1>1, <1>3, <2>1, EndWithKeeps
  <1>4. CASE /\ peer' \in Matches /\ pc' = "check"
             /\ steps' = Append(steps, [kind |-> "lead", status |-> "passed"])
             /\ UNCHANGED <<queue, left, status, reason>>
    <2> DEFINE r == [kind |-> "lead", status |-> "passed"]
    <2>1. /\ r \in StepResult /\ r.kind = "lead" /\ r.status = "passed"
          /\ steps' = Append(steps, r) /\ steps \in Seq(StepResult)
      BY <1>4 DEF StepResult, Status, TypeOK
    <2> HIDE DEF r
    <2>2. /\ steps' \in Seq(StepResult)
          /\ \A i \in DOMAIN steps' : steps'[i] = r \/ (i \in DOMAIN steps /\ steps'[i] = steps[i])
          /\ \A kinds : Count(kinds)' = Count(kinds) + (IF r.kind \in kinds THEN 1 ELSE 0)
      BY <2>1, Logged
    <2>3. peer' \in Devices /\ peer' # None /\ (peer # None => peer' = peer)
      BY <1>4, ConstantsOK DEF Matches, TypeOK
    <2>4. PeerChosen'
      BY <1>1, <1>4, <2>3 DEF PeerChosen, RightDevice, world
    <2>5. TypeOK'
      BY <1>1, <1>4, <2>2, <2>3 DEF TypeOK, PC, world
    <2>6. NotBegun'
      <3>1. r.kind \notin Begun
        BY <2>1 DEF Begun, Kind
      <3>2. QED
        BY <1>1, <2>2, <3>1 DEF NotBegun
    <2>7. Stage'
      BY <1>1, <1>4, <2>6 DEF Stage
    <2>8. FinallyLast'
      <3>1. left = script.finally /\ left \in Nat /\ left' = left /\ script' = script
        BY <1>1, <1>4 DEF FinallyLast, TypeOK, world
      <3>2. QED
        BY <1>1, <1>4, <2>1, <3>1, NoFinallyLogged DEF FinallyLast
    <2>9. Explained'
      <3>1. reason' # "not_run"
        BY <1>1, <1>4 DEF TypeOK
      <3>2. QED
        BY <1>1, <1>4, <2>1, <3>1, ExplainedLogged
    <2>10. NothingLost'
      <3>1. /\ Count({"step", "optional"})' = Count({"step", "optional"}) + 0
            /\ queue' = queue /\ script' = script
        BY <1>1, <1>4, <2>1, <2>2 DEF world
      <3>2. Count({"step", "optional"}) \in Nat
        BY Counted
      <3>3. QED
        BY <1>4, <3>1, <3>2 DEF NothingLost, Work, Occurrences
    <2>11. QED
      BY <2>4, <2>5, <2>7, <2>8, <2>9, <2>10
  <1>5. QED
    BY <1>2, <1>3, <1>4 DEF Lead

\* A step of runSteps: its result decides the verdict, and as long as the test case
\* passes the queue has lost what the result stands for.
LEMMA StepLoggedKeeps ==
  ASSUME IInv, pc \in {"steps", "stepping"}, status = "passed", pc' = "steps",
         UNCHANGED <<world, configPeers, peer, left>>,
         NEW r \in StepResult, r.kind \in Begun, steps' = Append(steps, r),
         status' = r.status, reason' \in Reason, reason' # "" <=> status' = "skipped",
         reason' = "not_run" => cancelled, queue' \in Seq(Kind),
         status' = "passed" => Work(queue) = Work(queue') + (IF r.kind \in {"step", "optional"} THEN 1 ELSE 0)
  PROVE  IInv'
  <1> USE DEF IInv
  <1>1. /\ steps' \in Seq(StepResult)
        /\ \A kinds : Count(kinds)' = Count(kinds) + (IF r.kind \in kinds THEN 1 ELSE 0)
    BY Logged DEF TypeOK
  <1>2. UNCHANGED <<script, hasPeers, listed, connected, cancelled>>
    BY DEF world
  <1>3. TypeOK'
    <2>1. status' \in Status
      BY DEF StepResult
    <2>2. QED
      BY <1>1, <1>2, <2>1 DEF TypeOK, PC
  <1>4. Stage' /\ PeerChosen'
    BY <1>2 DEF Stage, PeerChosen, RightDevice
  <1>5. r.kind # "finally"
    BY DEF Begun, Kind
  <1>6. FinallyLast'
    <2>1. left = script.finally /\ left \in Nat
      BY DEF FinallyLast, TypeOK
    <2>2. QED
      BY <1>2, <1>5, <2>1, NoFinallyLogged DEF TypeOK, FinallyLast
  <1>7. Explained'
    <2>1. reason' = "not_run" => cancelled' /\ r.status = "skipped"
      BY <1>2
    <2>2. QED
      BY <1>5, <2>1, ExplainedLogged DEF TypeOK
  <1>8. NothingLost'
    <2> DEFINE c == Count({"step", "optional"})
               d == IF r.kind \in {"step", "optional"} THEN 1 ELSE 0
               v == Work(queue)
               w == Work(queue')
               all == Work(script.steps)
    <2>1. c \in Nat /\ w \in Nat /\ d \in Nat
      BY Counted, WorkConcat
    <2>2. c + v = all
      BY DEF NothingLost
    <2>3. Count({"step", "optional"})' = c + d
      BY <1>1
    <2>4. status' = "passed" => v = w + d
      OBVIOUS
    <2>5. Work(script'.steps) = all
      BY <1>2
    <2>6. status' = "passed" => Count({"step", "optional"})' + w = Work(script'.steps)
      <3> HIDE DEF c, d, v, w, all
      <3>1. c + (w + d) = (c + d) + w
        BY <2>1, AddedEitherWay
      <3>2. QED
        BY <2>2, <2>3, <2>4, <2>5, <3>1
    <2>7. Work(queue)' = Work(queue') /\ Work(script.steps)' = Work(script'.steps)
      BY DEF Work, Occurrences
    <2>8. QED
      BY <2>6, <2>7 DEF NothingLost
  <1>9. QED
    BY <1>3, <1>4, <1>6, <1>7, <1>8

\* A cancelled run stops before the next step and passes no more.
LEMMA StopKeeps == ASSUME IInv, StopAtCancel PROVE IInv'
  <1> DEFINE r == [kind |-> "cancelled", status |-> "skipped"]
  <1>1. /\ r \in StepResult /\ r.kind \in Begun /\ r.status = "skipped" /\ steps' = Append(steps, r)
        /\ reason' = "not_run" /\ status' = "skipped"
    BY DEF StopAtCancel, Skip, Log, StepResult, Status, Begun
  <1> HIDE DEF r
  <1>2. "not_run" \in Reason /\ queue \in Seq(Kind)
    BY DEF Reason, IInv, TypeOK
  <1>3. QED
    BY <1>1, <1>2, StepLoggedKeeps DEF StopAtCancel, Running

\* A loop gives way to as many steps as its list has items.
LEMMA ForEachKeeps == ASSUME IInv, ForEach PROVE IInv'
  <1>1. /\ pc = "steps" /\ status = "passed" /\ queue # <<>> /\ Head(queue) = "each" /\ pc' = "steps"
        /\ UNCHANGED <<world, configPeers, peer, left, reason>>
        /\ queue \in Seq(Kind) /\ reason = "" /\ reason' \in Reason
    BY DEF ForEach, ExpandBefore, Running, IInv, TypeOK
  <1>2. Tail(queue) \in Seq(Kind) /\ Work(queue) = Items + Work(Tail(queue))
    BY <1>1, WorkOfHead
  <1>3. CASE /\ queue' = [i \in 1 .. Items |-> "step"] \o Tail(queue)
             /\ Log("each", "passed") /\ UNCHANGED status
    <2> DEFINE r == [kind |-> "each", status |-> "passed"]
    <2>1. /\ r \in StepResult /\ r.kind = "each" /\ r.kind \in Begun /\ r.status = "passed"
          /\ steps' = Append(steps, r)
      BY <1>3 DEF Log, StepResult, Status, Begun, Kind
    <2> HIDE DEF r
    <2>2. queue' \in Seq(Kind) /\ Work(queue') = Items + Work(Tail(queue))
      BY <1>2, <1>3, WorkOfLoop
    <2>3. Work(queue) = Work(queue') + (IF r.kind \in {"step", "optional"} THEN 1 ELSE 0)
      <3>1. Work(queue') \in Nat
        BY <2>2, WorkConcat
      <3>2. Work(queue) = Work(queue')
        BY <1>2, <2>2
      <3>3. QED
        BY <2>1, <3>1, <3>2
    <2>4. QED
      BY <1>1, <1>3, <2>1, <2>2, <2>3, StepLoggedKeeps
  <1>4. CASE status' = "failed" /\ Log("each", "failed") /\ UNCHANGED queue
    <2> DEFINE r == [kind |-> "each", status |-> "failed"]
    <2>1. /\ r \in StepResult /\ r.kind \in Begun /\ r.status = "failed" /\ steps' = Append(steps, r)
      BY <1>4 DEF Log, StepResult, Status, Begun, Kind
    <2> HIDE DEF r
    <2>2. QED
      BY <1>1, <1>4, <2>1, StepLoggedKeeps
  <1>5. QED
    BY <1>3, <1>4 DEF ForEach, ExpandBefore

\* A step that ends is one queued less and one result more.
LEMMA EndStepKeeps == ASSUME IInv, EndStep PROVE IInv'
  <1>1. /\ pc = "stepping" /\ status = "passed" /\ pc' = "steps" /\ queue' = Tail(queue)
        /\ UNCHANGED <<world, configPeers, peer, left>>
        /\ queue \in Seq(Kind) /\ queue # <<>> /\ Head(queue) # "each" /\ reason = "" /\ reason \in Reason
    BY DEF EndStep, IInv, TypeOK, Stage
  <1>2. /\ Head(queue) \in {"step", "optional"} /\ queue' \in Seq(Kind) /\ Work(queue') \in Nat
        /\ Work(queue) = 1 + Work(queue')
    BY <1>1, WorkOfHead DEF Kind
  <1>3. PICK st \in Status :
          /\ Log(Head(queue), st) /\ status' = st
          /\ \/ st \in {"passed", "failed"} /\ reason' = ""
             \/ st = "skipped" /\ reason' = "precondition_not_met"
             \/ st = "skipped" /\ reason' = "not_run" /\ cancelled
    <2>1. CASE Log(Head(queue), "passed") /\ UNCHANGED <<status, reason>>
      BY <1>1, <2>1 DEF Status
    <2>2. CASE Head(queue) = "optional" /\ Skip("precondition_not_met") /\ Log("optional", "skipped")
      BY <2>2 DEF Status, Skip
    <2>3. CASE cancelled /\ Skip("not_run") /\ Log(Head(queue), "skipped")
      BY <2>3 DEF Status, Skip
    <2>4. CASE status' = "failed" /\ Log(Head(queue), "failed") /\ UNCHANGED reason
      BY <1>1, <2>4 DEF Status
    <2>5. QED
      BY <2>1, <2>2, <2>3, <2>4 DEF EndStep
  <1> DEFINE r == [kind |-> Head(queue), status |-> st]
  <1>4. /\ r \in StepResult /\ r.kind = Head(queue) /\ r.kind \in Begun /\ r.status = st
        /\ steps' = Append(steps, r)
    BY <1>2, <1>3 DEF Log, StepResult, Begun, Kind
  <1> HIDE DEF r
  <1>5. reason' \in Reason /\ (reason' # "" <=> status' = "skipped") /\ (reason' = "not_run" => cancelled)
    BY <1>3 DEF Reason
  <1>6. Work(queue) = Work(queue') + (IF r.kind \in {"step", "optional"} THEN 1 ELSE 0)
    BY <1>2, <1>4
  <1>7. QED
    BY <1>1, <1>2, <1>3, <1>4, <1>5, <1>6, StepLoggedKeeps

\* With one finally step less to run and one result more, the finally steps' results
\* begin where they began.
LEMMA OneMoreRan ==
  \A f, l, n \in Nat : l > 0 /\ l <= f /\ f - l <= n =>
    /\ l - 1 \in Nat /\ l - 1 <= f /\ f - (l - 1) <= n + 1
    /\ (n + 1) - (f - (l - 1)) = n - (f - l) /\ n + 1 > n - (f - l)
  OBVIOUS

\* A finally step adds its result behind those of the ones before it.
LEMMA FinallyStepKeeps == ASSUME IInv, FinallyStep PROVE IInv'
  <1>1. /\ pc = "finally" /\ pc' = "finally" /\ left > 0 /\ left' = left - 1
        /\ UNCHANGED <<world, configPeers, peer, queue, reason>>
    BY DEF FinallyStep, FinallyFails
  <1>2. PICK st \in Status :
          /\ Log("finally", st)
          /\ status' = IF st = "failed" /\ status \in {"passed"} THEN "failed" ELSE status
    BY DEF FinallyStep, FinallyFails
  <1> DEFINE r == [kind |-> "finally", status |-> st]
  <1>3. r \in StepResult /\ r.kind = "finally" /\ r.status = st /\ steps' = Append(steps, r)
    BY <1>2 DEF Log, StepResult
  <1> HIDE DEF r
  <1>4. UNCHANGED <<script, hasPeers, listed, connected, cancelled>>
    BY <1>1 DEF world
  <1>5. /\ steps \in Seq(StepResult) /\ left \in Nat /\ status \in Status /\ script \in Scripts
        /\ (reason # "" <=> status = "skipped")
    BY DEF IInv, TypeOK
  <1>6. script.finally \in Nat
    BY <1>5, ConstantsOK DEF Script
  <1>7. /\ steps' \in Seq(StepResult) /\ Len(steps) \in Nat /\ Len(steps') = Len(steps) + 1
        /\ DOMAIN steps = 1 .. Len(steps) /\ DOMAIN steps' = 1 .. Len(steps) + 1
        /\ steps'[Len(steps) + 1] = r /\ \A i \in DOMAIN steps : i \in DOMAIN steps' /\ steps'[i] = steps[i]
        /\ \A i \in DOMAIN steps' : i = Len(steps) + 1 \/ i \in DOMAIN steps
        /\ Len(steps) + 1 \in DOMAIN steps'
        /\ \A kinds : Count(kinds)' = Count(kinds) + (IF r.kind \in kinds THEN 1 ELSE 0)
    BY <1>3, <1>5, Logged
  <1>8. /\ status' \in Status /\ (status' = "skipped" <=> status = "skipped")
        /\ status' = "passed" => status = "passed" /\ st # "failed"
        /\ status' = "failed" => status = "failed" \/ st = "failed"
    BY <1>2, <1>5 DEF Status
  <1>9. /\ Ran <= Len(steps)
          /\ left' \in Nat /\ left' <= script.finally /\ Ran' <= Len(steps')
          /\ Len(steps') - Ran' = Len(steps) - Ran /\ Len(steps) + 1 > Len(steps) - Ran
    <2>1. left <= script.finally /\ script.finally - left <= Len(steps)
      BY DEF IInv, FinallyLast, Ran
    <2>2. left > 0 /\ left' = left - 1
      BY <1>1
    <2>3. left \in Nat /\ Len(steps) \in Nat /\ script.finally \in Nat
      BY <1>5, <1>6, <1>7
    <2>4. Ran = script.finally - left /\ Ran' = script.finally - (left - 1)
      BY <1>4, <2>2 DEF Ran
    <2>5. Len(steps') = Len(steps) + 1
      BY <1>7
    <2>6. QED
      BY <2>1, <2>2, <2>3, <2>4, <2>5, OneMoreRan
  <1>10. TypeOK'
    <2>1. left' \in Nat
      BY <1>9
    <2>2. QED
      BY <1>1, <1>4, <1>7, <1>8, <2>1 DEF IInv, TypeOK
  <1>11. Stage' /\ PeerChosen'
    <2>1. Stage'
      BY <1>1, <1>8 DEF IInv, Stage
    <2>2. QED
      BY <1>1, <1>4, <2>1 DEF IInv, PeerChosen, RightDevice
  <1>12. FinallyLast'
    <2>1. \A i \in DOMAIN steps : steps[i].kind = "finally" <=> i > Len(steps) - Ran
      BY DEF IInv, FinallyLast
    <2>2. left' <= script'.finally
      BY <1>4, <1>9
    <2>4. ASSUME NEW i \in DOMAIN steps'
          PROVE  steps'[i].kind = "finally" <=> i > Len(steps') - Ran'
      <3>1. CASE i = Len(steps) + 1
        <4>1. steps'[i].kind = "finally"
          BY <1>3, <1>7, <3>1
        <4>2. QED
          BY <1>9, <3>1, <4>1
      <3>2. CASE i \in DOMAIN steps
        BY <1>7, <1>9, <2>1, <3>2
      <3>3. QED
        BY <1>7, <3>1, <3>2
    <2>5. QED
      BY <1>1, <1>9, <2>2, <2>4 DEF FinallyLast
  <1>13. Explained'
    <2>1. \A i \in DOMAIN steps' : steps'[i] = r \/ (i \in DOMAIN steps /\ steps'[i] = steps[i])
      BY <1>7
    <2>2. status' = "passed" =>
            \A i \in DOMAIN steps' : \/ steps'[i].status = "passed"
                                     \/ steps'[i].kind = "finally" /\ steps'[i].status = "skipped"
      <3>1. status' = "passed" => r.status = "passed" \/ (r.kind = "finally" /\ r.status = "skipped")
        <4>1. status' = "passed" => st = "passed" \/ st = "skipped"
          BY <1>8 DEF Status
        <4>2. r.kind = "finally" /\ r.status = st
          BY <1>3
        <4>3. QED
          BY <4>1, <4>2
      <3>2. QED
        BY <1>8, <2>1, <3>1 DEF IInv, Explained
    <2>3. status' = "failed" => \E i \in DOMAIN steps' : steps'[i].status = "failed"
      BY <1>3, <1>7, <1>8 DEF IInv, Explained
    <2>4. reason' = "not_run" =>
            /\ cancelled'
            /\ \A i \in DOMAIN steps' : steps'[i].status = "failed" => steps'[i].kind = "finally"
      BY <1>1, <1>3, <1>4, <2>1 DEF IInv, Explained
    <2>5. QED
      BY <2>2, <2>3, <2>4 DEF Explained
  <1>14. NothingLost'
    <2>1. Count({"step", "optional"})' = Count({"step", "optional"}) + 0
      BY <1>3, <1>7
    <2>2. Count({"step", "optional"}) \in Nat
      BY Counted DEF IInv
    <2>3. Count({"step", "optional"})' = Count({"step", "optional"})
      BY <2>1, <2>2
    <2>4. Work(queue)' = Work(queue) /\ Work(script.steps)' = Work(script.steps)
      BY <1>1, <1>4 DEF Work, Occurrences
    <2>5. QED
      BY <1>8, <2>3, <2>4 DEF IInv, NothingLost
  <1>15. QED
    BY <1>10, <1>11, <1>12, <1>13, <1>14 DEF IInv

\* Every step of a test case keeps the invariant.
LEMMA StepKeeps == IInv /\ [Next]_vars => IInv'
  <1> SUFFICES ASSUME IInv, [Next]_vars PROVE IInv'
    OBVIOUS
  <1>1. CASE Cancel \/ DevicesChange
    BY <1>1, WorldKeeps
  <1>2. CASE AwaitPeer
    BY <1>2, AwaitPeerKeeps
  <1>3. CASE Lead
    BY <1>3, LeadKeeps
  <1>4. CASE Check
    BY <1>4, CheckKeeps
  <1>5. CASE StopAtCancel
    BY <1>5, StopKeeps
  <1>6. CASE ForEach
    BY <1>6, ForEachKeeps
  <1>7. CASE BeginStep \/ LeaveSteps \/ End
    BY <1>7, BeginKeeps
  <1>8. CASE EndStep
    BY <1>8, EndStepKeeps
  <1>9. CASE FinallyStep
    BY <1>9, FinallyStepKeeps
  <1>10. CASE UNCHANGED vars
    <2>1. UNCHANGED <<script, queue, left, result, pc, configPeers, peer, world>> /\ cancelled' = cancelled
      BY <1>10 DEF vars, world
    <2>2. FinallyLast' /\ Explained' /\ NothingLost' /\ (NotBegun' <=> NotBegun)
      BY <2>1, QuietKeeps
    <2>3. Stage' /\ PeerChosen' /\ TypeOK'
      BY <2>1, <2>2 DEF IInv, Stage, PeerChosen, RightDevice, TypeOK, result, world
    <2>4. QED
      BY <2>2, <2>3 DEF IInv
  <1>11. QED
    BY <1>1, <1>2, <1>3, <1>4, <1>5, <1>6, <1>7, <1>8, <1>9, <1>10 DEF Next, Runner

\* The invariant holds of every test case at every moment.
LEMMA Invariance == Spec => []IInv
  <1>1. QED
    BY InitHolds, StepKeeps, PTL DEF Spec

-----------------------------------------------------------------------------
(* What a test case promises *)

\* The runner's state stays within its types: a verdict has a reason exactly when
\* the test case was skipped, and the results stay results of the kinds that
\* runSteps, runFinally and the stages before them write.
THEOREM TypeCorrect == Spec => []TypeOK
  <1>1. IInv => TypeOK
    BY DEF IInv
  <1>2. QED
    BY <1>1, Invariance, PTL

\* A runner that knows the config's peers tests the device the scenario names and
\* no other, for any devices, whichever are listed or connected and whenever
\* (selectPeer and stepWaitConnected).
THEOREM RightDeviceOnly == Spec => []RightDevice
  <1>1. IInv => RightDevice
    BY DEF IInv, PeerChosen
  <1>2. QED
    BY <1>1, Invariance, PTL

\* The verdict of execute is what the results say, for any scenario and loops of
\* any length: a passed test case ran every step of every loop and none failed, a
\* failed one has a failed step, one that is not run was cancelled before any step
\* of it failed.
THEOREM VerdictIsSound == Spec => []VerdictSound
  <1>1. IInv => VerdictSound
    <2> SUFFICES ASSUME IInv, pc = "end" PROVE VerdictSound
      BY DEF VerdictSound
    <2>1. ASSUME status = "passed"
          PROVE  queue = <<>> /\ Count({"step", "optional"}) = Work(script.steps)
      <3>1. queue = <<>>
        BY <2>1 DEF IInv, Stage
      <3>2. Work(queue) = 0
        <4>1. <<>> \in Seq(Kind) /\ Len(<<>>) = 0 /\ "step" \in Kind
          BY EmptySeq DEF Kind
        <4>2. \A i \in 1 .. Len(<<>>) : <<>>[i] = "step"
          BY <4>1
        <4>3. Work(<<>>) = IF "step" = "each" THEN Items * Len(<<>>) ELSE Len(<<>>)
          BY <4>1, <4>2, WorkOf
        <4>4. QED
          BY <3>1, <4>1, <4>3
      <3>3. Count({"step", "optional"}) \in Nat
        BY Counted DEF IInv
      <3>4. Count({"step", "optional"}) + 0 = Work(script.steps)
        BY <2>1, <3>2 DEF IInv, NothingLost
      <3>5. QED
        BY <3>1, <3>3, <3>4
    <2>2. QED
      BY <2>1 DEF IInv, Explained, VerdictSound
  <1>2. QED
    BY <1>1, Invariance, PTL

\* Once a test case's steps were begun, all of its finally steps run and run last,
\* for any number of them, also when a step failed or the run was cancelled: what
\* a scenario sets on a device is released (runFinally).
THEOREM FinallyAlwaysRuns == Spec => []FinallyRuns
  <1>1. IInv => FinallyRuns
    <2> DEFINE n == Len(steps) - script.finally
    <2> SUFFICES ASSUME IInv, pc = "end", Count(Kind \cup {"cancelled"}) > 0
                 PROVE  /\ n > 0 /\ Count({"finally"}) = script.finally
                        /\ \A i \in (n + 1) .. Len(steps) : steps[i].kind = "finally"
      BY DEF FinallyRuns
    <2>1. /\ Len(steps) \in Nat /\ DOMAIN steps = 1 .. Len(steps) /\ script.finally \in Nat
      <3>1. steps \in Seq(StepResult) /\ script \in Script
        BY ConstantsOK DEF IInv, TypeOK
      <3>2. QED
        BY <3>1 DEF Script
    <2>2. PICK i \in DOMAIN steps : steps[i].kind \in Kind \cup {"cancelled"}
      BY Counted DEF IInv
    <2>3. left = 0 /\ Ran = script.finally
      <3>1. left = 0
        BY <2>2 DEF IInv, FinallyLast, NotBegun, Begun
      <3>2. QED
        BY <2>1, <3>1 DEF Ran
    <2>4. /\ script.finally <= Len(steps)
          /\ \A j \in DOMAIN steps : steps[j].kind = "finally" <=> j > n
      BY <2>3 DEF IInv, FinallyLast
    <2>5. n \in Nat /\ n > 0
      <3>1. steps[i].kind # "finally"
        BY <2>2 DEF Kind
      <3>2. QED
        BY <2>1, <2>2, <2>4, <3>1
    <2>6. \A j \in (n + 1) .. Len(steps) : steps[j].kind = "finally"
      BY <2>1, <2>4, <2>5
    <2>7. Count({"finally"}) = script.finally
      <3>1. {j \in DOMAIN steps : steps[j].kind \in {"finally"}} = (n + 1) .. Len(steps)
        BY <2>1, <2>4, <2>5
      <3>2. Cardinality((n + 1) .. Len(steps)) =
              IF n + 1 > Len(steps) THEN 0 ELSE Len(steps) - (n + 1) + 1
        <4>1. n + 1 \in Int /\ Len(steps) \in Int
          BY <2>1, <2>5
        <4> HIDE DEF n
        <4>2. QED
          BY <4>1, FS_Interval
      <3>3. (IF n + 1 > Len(steps) THEN 0 ELSE Len(steps) - (n + 1) + 1) = script.finally
        BY <2>1, <2>4, <2>5
      <3>4. QED
        BY <3>1, <3>2, <3>3 DEF Count
    <2>8. QED
      BY <2>5, <2>6, <2>7
  <1>2. QED
    BY <1>1, Invariance, PTL

\* A verdict that is not passed is final, whatever the finally steps do and however
\* late the run is cancelled, and after it only finally steps run (runSteps and
\* runFinally).
THEOREM VerdictNeverRevised == Spec => VerdictStands
  <1> DEFINE A == status # "passed" =>
                    /\ status' = status /\ reason' = reason
                    /\ steps' # steps => pc = "finally"
  <1>1. IInv /\ [Next]_vars => [A]_vars
    <2> SUFFICES ASSUME IInv, Next, status # "passed"
                 PROVE  /\ status' = status /\ reason' = reason
                        /\ steps' # steps => pc = "finally"
      BY DEF vars, result
    <2>1. pc \notin {"select", "lead", "check", "stepping"}
      BY DEF IInv, Stage
    <2>2. CASE Cancel \/ DevicesChange \/ BeginStep \/ LeaveSteps \/ End
      BY <2>2 DEF Cancel, DevicesChange, BeginStep, LeaveSteps, StepsOver, End, result
    <2>3. CASE FinallyStep
      BY <2>3 DEF FinallyStep, FinallyFails
    <2>4. ~(AwaitPeer \/ Lead \/ Check \/ StopAtCancel \/ ForEach \/ EndStep)
      BY <2>1 DEF AwaitPeer, Lead, Check, StopAtCancel, ForEach, ExpandBefore, EndStep, Running
    <2>5. QED
      BY <2>2, <2>3, <2>4 DEF Next, Runner
  <1>2. Spec => [][A]_vars
    BY <1>1, Invariance, PTL DEF Spec
  <1>3. QED
    BY <1>2 DEF VerdictStands
=============================================================================
