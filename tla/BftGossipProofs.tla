--------------------------- MODULE BftGossipProofs ---------------------------
(* The theorems about BftGossip: for any network, any messages and any        *)
(* budget, the queue of a synchronising node keeps its budget and is drained, *)
(* and a message that a sender has marked as known to a peer is not lost on   *)
(* the way without a filter, a budget or a shutdown having dropped it.        *)
EXTENDS BftGossip, WellFoundedInduction, TLAPS

-----------------------------------------------------------------------------
(* The sizes of the queued messages.                                          *)

(* A nonempty set of natural numbers has a least member.                      *)
LEMMA LeastNumber ==
  ASSUME NEW S \in SUBSET Nat, S # {}
  PROVE  \E n \in S : \A m \in S : n <= m
<1> DEFINE R == OpToRel(<, Nat)
<1>1. IsWellFoundedOn(R, Nat)
  BY NatLessThanWellFounded, Zenon
<1>2. \A x, y \in Nat : y < x => <<y, x>> \in R
  BY DEF OpToRel
<1> HIDE DEF R
<1>3. PICK n \in S : \A y \in S : ~ (<<y, n>> \in R)
  BY <1>1, WFMin, Zenon
<1>4. ASSUME NEW m \in S
      PROVE  n <= m
  <2>1. ~ (m < n)
    BY <1>2, <1>3, Zenon
  <2> QED BY <2>1
<1> QED BY <1>4

(* Induction over the numbers up to a bound.                                  *)
LEMMA UpTo ==
  ASSUME NEW n \in Nat, NEW S, 0 \in S,
         \A k \in 1 .. n : k - 1 \in S => k \in S
  PROVE  0 .. n \subseteq S
<1> DEFINE T == (0 .. n) \ S
<1> SUFFICES ASSUME T # {}
             PROVE  FALSE
  OBVIOUS
<1>1. T \in SUBSET Nat /\ \A j : j \in T <=> j \in 0 .. n /\ j \notin S
  OBVIOUS
<1> HIDE DEF T
<1>2. PICK k \in T : \A j \in T : k <= j
  BY <1>1, LeastNumber
<1>3. k \in 1 .. n /\ k - 1 \in 0 .. n
  BY <1>1, <1>2
<1>4. k - 1 \in S
  BY <1>1, <1>2, <1>3
<1> QED BY <1>1, <1>2, <1>3, <1>4

LEMMA SizeType ==
  ASSUME NEW s \in Seq(Msgs), NEW k \in 1 .. Len(s)
  PROVE  s[k] \in Msgs /\ Size[s[k]] \in Nat
BY GossipAssumption

(* What the sum of a sequence is, stated without recursion.                   *)
Sums(g, s) ==
  /\ g \in [0 .. Len(s) -> Nat]
  /\ g[0] = 0
  /\ \A k \in 1 .. Len(s) : g[k] = g[k - 1] + Size[s[k]]

LEMMA SumsExist ==
  ASSUME NEW s \in Seq(Msgs)
  PROVE  \E g : Sums(g, s)
<1> DEFINE n == Len(s)
           upto(k, g) == /\ g \in [0 .. k -> Nat] /\ g[0] = 0
                         /\ \A i \in 1 .. k : g[i] = g[i - 1] + Size[s[i]]
           S == {k \in 0 .. n : \E g : upto(k, g)}
<1>1. n \in Nat /\ \A i \in 1 .. n : Size[s[i]] \in Nat
  BY GossipAssumption
<1> HIDE DEF n
<1>2. 0 \in S
  <2> DEFINE z == [i \in 0 .. 0 |-> 0]
  <2>1. upto(0, z)
    OBVIOUS
  <2> HIDE DEF z
  <2>2. 0 \in 0 .. n
    BY <1>1
  <2> QED BY <2>1, <2>2
<1>3. ASSUME NEW k \in 1 .. n, k - 1 \in S
      PROVE  k \in S
  <2>1. PICK g : upto(k - 1, g)
    BY <1>3, Zenon
  <2> DEFINE h == [i \in 0 .. k |-> IF i = k THEN g[k - 1] + Size[s[k]] ELSE g[i]]
  <2>2. g[k - 1] \in Nat /\ Size[s[k]] \in Nat /\ k \in 0 .. n
    BY <1>1, <2>1
  <2>3. h \in [0 .. k -> Nat] /\ h[0] = 0
    BY <2>1, <2>2
  <2>4. \A i \in 1 .. k : h[i] = h[i - 1] + Size[s[i]]
    BY <2>1, <2>2
  <2> HIDE DEF h
  <2>5. upto(k, h)
    BY <2>3, <2>4
  <2> QED BY <2>2, <2>5, Zenon
<1>4. \A k \in 1 .. n : k - 1 \in S => k \in S
  BY <1>3, Zenon
<1> HIDE DEF S
<1>5. n \in S
  <2>1. 0 .. n \subseteq S
    BY <1>1, <1>2, <1>4, UpTo, Zenon
  <2> QED BY <1>1, <2>1
<1>6. PICK g : upto(n, g)
  BY <1>5, Zenon DEF S
<1> QED BY <1>6 DEF n, Sums

(* t begins with the n messages of s after the first d; g and h are the sums. *)
Window(s, t, g, h, d, n) ==
  /\ s \in Seq(Msgs) /\ Sums(g, s) /\ t \in Seq(Msgs) /\ Sums(h, t)
  /\ d \in Nat /\ n \in Nat /\ d + n <= Len(s) /\ n <= Len(t)
  /\ \A i \in 1 .. n : t[i] = s[d + i]

(* Two sums of sequences agree as far as the sequences do.                    *)
LEMMA SumsAgree ==
  ASSUME NEW s, NEW t, NEW g, NEW h, NEW d, NEW n, Window(s, t, g, h, d, n)
  PROVE  \A i \in 0 .. n : h[i] = g[d + i] - g[d]
<1>0. /\ s \in Seq(Msgs) /\ Sums(g, s) /\ t \in Seq(Msgs) /\ Sums(h, t)
      /\ d \in Nat /\ n \in Nat /\ d + n <= Len(s) /\ n <= Len(t)
      /\ \A i \in 1 .. n : t[i] = s[d + i]
  BY DEF Window
<1> DEFINE S == {i \in 0 .. n : h[i] = g[d + i] - g[d]}
<1>1. /\ \A i \in 0 .. n : d + i \in 0 .. Len(s) /\ i \in 0 .. Len(t)
      /\ \A i \in 1 .. n : d + i \in 1 .. Len(s) /\ i \in 1 .. Len(t) /\ (d + i) - 1 = d + (i - 1)
      /\ d \in 0 .. Len(s)
  BY <1>0
<1>2. /\ \A i \in 0 .. n : g[d + i] \in Nat /\ h[i] \in Nat
      /\ g[d] \in Nat /\ h[0] = 0
  BY <1>0, <1>1, Zenon DEF Sums
<1>3. \A i \in 1 .. n : g[d + i] = g[d + (i - 1)] + Size[s[d + i]]
  BY <1>0, <1>1, Zenon DEF Sums
<1>4. \A i \in 1 .. n : h[i] = h[i - 1] + Size[s[d + i]]
  BY <1>0, <1>1, Zenon DEF Sums
<1>5. 0 \in S
  BY <1>0, <1>2
<1>6. \A k \in 1 .. n : k - 1 \in S => k \in S
  <2> SUFFICES ASSUME NEW k \in 1 .. n, k - 1 \in S
               PROVE  k \in S
    OBVIOUS
  <2>1. h[k - 1] = g[d + (k - 1)] - g[d] /\ k - 1 \in 0 .. n /\ k \in 0 .. n
    BY <1>0
  <2>2. d + k \in 1 .. Len(s)
    BY <1>1
  <2>3. Size[s[d + k]] \in Nat
    BY <1>0, <2>2, SizeType
  <2>4. g[d + (k - 1)] \in Nat /\ g[d] \in Nat
    BY <1>2, <2>1
  <2>5. h[k] = h[k - 1] + Size[s[d + k]] /\ g[d + k] = g[d + (k - 1)] + Size[s[d + k]]
    BY <1>3, <1>4
  <2>6. h[k] = g[d + k] - g[d]
    BY <2>1, <2>3, <2>4, <2>5, SMTT(30)
  <2> QED BY <2>1, <2>6
<1> HIDE DEF S
<1>7. 0 .. n \subseteq S
  BY <1>0, <1>5, <1>6, UpTo, Zenon
<1> QED BY <1>7 DEF S

(* The byte counts that enqueueIf adds and subtracts are sums of sizes.       *)
LEMMA BytesAreSums ==
  ASSUME NEW s \in Seq(Msgs)
  PROVE  Sums(Bytes(s), s)
<1> DEFINE F(g) == [k \in 0 .. Len(s) |-> IF k = 0 THEN 0 ELSE g[k - 1] + Size[s[k]]]
<1>1. PICK g : Sums(g, s)
  BY SumsExist
<1>2. g = F(g)
  BY <1>1 DEF Sums
<1>3. Bytes(s) = CHOOSE f : f = F(f)
  BY DEF Bytes
<1>4. Bytes(s) = F(Bytes(s))
  BY <1>2, <1>3
<1>5. Len(s) \in Nat /\ \A k \in 1 .. Len(s) : Size[s[k]] \in Nat
  BY GossipAssumption
<1> DEFINE b == Bytes(s)
           S == {k \in 0 .. Len(s) : b[k] \in Nat}
<1> HIDE DEF b
<1>6. /\ b = [k \in 0 .. Len(s) |-> b[k]] /\ b[0] = 0
      /\ \A k \in 1 .. Len(s) : b[k] = b[k - 1] + Size[s[k]]
  BY <1>4, <1>5 DEF b
<1>7. 0 .. Len(s) \subseteq S
  <2>1. 0 \in S
    BY <1>5, <1>6
  <2>2. \A k \in 1 .. Len(s) : k - 1 \in S => k \in S
    <3> SUFFICES ASSUME NEW k \in 1 .. Len(s), k - 1 \in S
                 PROVE  k \in S
      OBVIOUS
    <3>1. k \in 0 .. Len(s) /\ b[k - 1] \in Nat
      BY <1>5
    <3>2. b[k] = b[k - 1] + Size[s[k]] /\ Size[s[k]] \in Nat
      BY <1>5, <1>6, Zenon
    <3> QED BY <3>1, <3>2
  <2> HIDE DEF S
  <2> QED BY <1>5, <2>1, <2>2, UpTo, Zenon
<1>8. Sums(b, s)
  BY <1>6, <1>7, Zenon DEF Sums
<1> QED BY <1>8 DEF b

-----------------------------------------------------------------------------
(* enqueueIf.                                                                 *)

LEMMA EmptyQueueOK == EmptyQueue \in Queues /\ WithinBudget(EmptyQueue)
<1>1. <<>> \in Seq(Msgs) /\ Len(<<>>) = 0 /\ Range(<<>>) = {} /\ IsInjective(<<>>)
  BY DEF Range, IsInjective
<1>2. Bytes(<<>>)[0] = 0
  BY <1>1, BytesAreSums, Zenon DEF Sums
<1>3. EmptyQueue.msgs = <<>> /\ EmptyQueue.hashes = {} /\ EmptyQueue.bytes = 0
  BY DEF EmptyQueue
<1>4. EmptyQueue \in Queues
  BY <1>1 DEF EmptyQueue, Queues
<1> QED BY <1>1, <1>2, <1>3, <1>4, GossipAssumption DEF WithinBudget

(* The loop that drops the oldest messages ends before the queue is empty, or *)
(* with the empty queue.                                                      *)
LEMMA DroppedFits ==
  ASSUME NEW q \in Queues, WithinBudget(q), NEW m \in Msgs, Size[m] <= MaxQueuedMsgSize
  PROVE  Dropped(q, m) \in 0 .. Len(q.msgs) /\ ~Full(q, Dropped(q, m), m)
<1> DEFINE n == Len(q.msgs)
           S == {k \in 0 .. n : ~Full(q, k, m)}
<1>1. q.msgs \in Seq(Msgs) /\ n \in Nat /\ q.bytes \in Int
  BY DEF Queues
<1>2. Size[m] \in Nat /\ MaxQueuedMsgs \in Nat \ {0} /\ Size[m] <= MaxQueuedBytes
  BY GossipAssumption
<1>3. ~Full(q, n, m)
  <2>1. q.bytes - Bytes(q.msgs)[n] = 0
    BY <1>1 DEF WithinBudget
  <2>2. q.bytes - Bytes(q.msgs)[n] + Size[m] = Size[m]
    BY <1>2, <2>1
  <2> QED BY <1>1, <1>2, <2>2, GossipAssumption DEF Full
<1>4. S \in SUBSET Nat /\ S # {}
  BY <1>1, <1>3
<1>5. PICK k \in S : \A j \in S : k <= j
  BY <1>4, LeastNumber, Zenon
<1>6. k \in 0 .. n /\ ~Full(q, k, m) /\ \A j \in 0 .. k - 1 : Full(q, j, m)
  BY <1>1, <1>5
<1> QED BY <1>6 DEF Dropped

(* enqueueIf keeps the counters exact and the queue within its budget; what   *)
(* leaves the queue is what it reports as dropped.                            *)
LEMMA EnqueuedOK ==
  ASSUME NEW q \in Queues, WithinBudget(q), NEW m \in Msgs
  PROVE  /\ Enqueued(q, m) \in Queues
         /\ WithinBudget(Enqueued(q, m))
         /\ Enqueued(q, m).hashes \subseteq q.hashes \cup {m}
<1>1. CASE m \in q.hashes \/ Size[m] > MaxQueuedMsgSize
  BY <1>1 DEF Enqueued
<1>2. CASE ~(m \in q.hashes \/ Size[m] > MaxQueuedMsgSize)
  <2> DEFINE s == q.msgs
             n == Len(s)
             k == Dropped(q, m)
             kept == SubSeq(s, k + 1, n)
             t == Append(kept, m)
             b == Bytes(s)
             e == Enqueued(q, m)
  <2>1. s \in Seq(Msgs) /\ n \in Nat /\ q.bytes \in Int /\ Size[m] \in Nat
    BY GossipAssumption DEF Queues
  <2>2. k \in 0 .. n /\ ~Full(q, k, m)
    BY <1>2, <2>1, GossipAssumption, DroppedFits
  <2>3. e = [msgs |-> t, hashes |-> (q.hashes \ {s[i] : i \in 1 .. k}) \cup {m},
             bytes |-> q.bytes - b[k] + Size[m]]
    BY <1>2 DEF Enqueued
  <2>4. Sums(b, s) /\ b[k] \in Nat /\ b[n] \in Nat /\ q.bytes = b[n]
    BY <2>1, <2>2, BytesAreSums DEF Sums, WithinBudget
  <2>5. n - k < MaxQueuedMsgs /\ b[n] - b[k] + Size[m] <= MaxQueuedBytes
    BY <2>1, <2>2, <2>4, GossipAssumption DEF Full
  <2> HIDE DEF k, b, e
  <2>6. /\ kept \in Seq(Msgs) /\ Len(kept) = n - k
        /\ \A i \in 1 .. n - k : kept[i] = s[k + i]
    <3>1. k + 1 \in Int /\ n \in Int /\ \A i \in k + 1 .. n : s[i] \in Msgs
      BY <2>1, <2>2
    <3>2. /\ kept \in Seq(Msgs) /\ Len(kept) = IF k + 1 <= n THEN n - (k + 1) + 1 ELSE 0
          /\ \A i \in 1 .. n - (k + 1) + 1 : kept[i] = s[(k + 1) + i - 1]
      BY <2>1, <2>2, <3>1
    <3> QED BY <2>1, <2>2, <3>2
  <2> HIDE DEF kept
  <2>7. /\ t \in Seq(Msgs) /\ Len(t) = n - k + 1 /\ t[n - k + 1] = m
        /\ \A i \in 1 .. n - k : t[i] = s[k + i]
    <3>1. t \in Seq(Msgs) /\ Len(t) = Len(kept) + 1 /\ t[Len(kept) + 1] = m
      BY <2>6
    <3>2. \A i \in 1 .. Len(kept) : t[i] = kept[i]
      BY <2>6
    <3> QED BY <2>6, <3>1, <3>2
  <2> HIDE DEF t
  <2>8. Bytes(t)[n - k + 1] = b[n] - b[k] + Size[m]
    <3>1. Sums(Bytes(t), t)
      BY <2>7, BytesAreSums
    <3>2. \A i \in 0 .. n - k : Bytes(t)[i] = b[k + i] - b[k]
      <4> DEFINE w == n - k
                 g == Bytes(t)
      <4>1. k \in Nat /\ w \in Nat /\ k + w <= Len(s) /\ w <= Len(t)
        BY <2>1, <2>2, <2>7
      <4>2. Sums(b, s) /\ Sums(g, t) /\ s \in Seq(Msgs) /\ t \in Seq(Msgs)
            /\ \A i \in 1 .. w : t[i] = s[k + i]
        BY <2>1, <2>4, <2>7, <3>1
      <4>3. Window(s, t, b, g, k, w)
        BY <4>1, <4>2 DEF Window
      <4> QED BY <4>3, SumsAgree
    <3>3. Bytes(t)[n - k] = b[n] - b[k]
      BY <2>1, <2>2, <3>2
    <3>4. Bytes(t)[n - k + 1] = Bytes(t)[(n - k + 1) - 1] + Size[t[n - k + 1]]
      <4>1. n - k + 1 \in 1 .. Len(t)
        BY <2>1, <2>2, <2>7
      <4> HIDE DEF s
      <4> QED BY <3>1, <4>1 DEF Sums
    <3> QED BY <2>1, <2>2, <2>7, <3>3, <3>4
  <2>9. /\ e.msgs = t /\ e.bytes = b[n] - b[k] + Size[m]
        /\ e.hashes = (q.hashes \ {s[i] : i \in 1 .. k}) \cup {m}
    BY <2>3, <2>4
  <2>10. Range(t) = e.hashes /\ IsInjective(t)
    <3>1. q.hashes = {s[i] : i \in 1 .. n} /\ \A i, j \in 1 .. n : s[i] = s[j] => i = j
      BY <2>1 DEF WithinBudget, Range, IsInjective
    <3>2. DOMAIN t = 1 .. n - k + 1 /\ \A i \in 1 .. n - k : k + i \in 1 .. n
      BY <2>1, <2>2, <2>7
    <3>3. {s[i] : i \in 1 .. n} \ {s[i] : i \in 1 .. k} = {s[k + i] : i \in 1 .. n - k}
      <4>1. \A i \in 1 .. n : i \in 1 .. k \/ \E j \in 1 .. n - k : i = k + j
        <5> SUFFICES ASSUME NEW i \in 1 .. n, i \notin 1 .. k
                     PROVE  i - k \in 1 .. n - k /\ i = k + (i - k)
          OBVIOUS
        <5> QED BY <2>1, <2>2
      <4>2. \A i \in 1 .. k, j \in 1 .. n - k : i \in 1 .. n /\ i # k + j
        BY <2>1, <2>2
      <4> QED BY <3>1, <3>2, <4>1, <4>2
    <3>4. Range(t) = {s[k + i] : i \in 1 .. n - k} \cup {m}
      <4>1. Range(t) = {t[i] : i \in 1 .. n - k + 1}
        BY <3>2 DEF Range
      <4>2. \A i : i \in 1 .. n - k + 1 <=> i \in 1 .. n - k \/ i = n - k + 1
        BY <2>1, <2>2
      <4> QED BY <2>7, <4>1, <4>2
    <3>5. \A i \in 1 .. n - k : t[i] # m
      BY <1>2, <2>7, <3>1, <3>2
    <3>6. \A i, j \in 1 .. n - k + 1 : t[i] = t[j] => i = j
      <4> SUFFICES ASSUME NEW i \in 1 .. n - k + 1, NEW j \in 1 .. n - k + 1, t[i] = t[j]
                   PROVE  i = j
        OBVIOUS
      <4>1. \A x \in 1 .. n - k + 1 : x \in 1 .. n - k \/ x = n - k + 1
        BY <2>1, <2>2
      <4>2. CASE i \in 1 .. n - k /\ j \in 1 .. n - k
        <5>1. k + i = k + j
          BY <2>7, <3>1, <3>2, <4>2
        <5> QED BY <2>1, <2>2, <5>1
      <4> QED BY <2>7, <3>5, <4>1, <4>2
    <3> QED BY <2>9, <3>1, <3>2, <3>3, <3>4, <3>6 DEF IsInjective
  <2>11. e \in Queues
    <3>1. e.hashes \in SUBSET Msgs /\ e.bytes \in Int
      BY <2>1, <2>4, <2>9 DEF Queues
    <3> QED BY <2>3, <2>7, <2>9, <3>1 DEF Queues
  <2>12. WithinBudget(e)
    <3>1. e.bytes = Bytes(e.msgs)[Len(e.msgs)]
      BY <2>7, <2>8, <2>9
    <3>2. Len(e.msgs) <= MaxQueuedMsgs
      <4>1. n - k + 1 <= MaxQueuedMsgs
        BY <2>1, <2>2, <2>5, GossipAssumption
      <4> QED BY <2>7, <2>9, <4>1
    <3>3. e.bytes <= MaxQueuedBytes
      BY <2>5, <2>9
    <3> QED BY <2>9, <2>10, <3>1, <3>2, <3>3 DEF WithinBudget
  <2> QED BY <2>9, <2>11, <2>12 DEF e
<1> QED BY <1>1, <1>2

-----------------------------------------------------------------------------
(* A message in the hands of a node stays there until the engine gets it or   *)
(* the node drops it; the actions differ in where it goes.                    *)

LEMMA WithIs ==
  ASSUME NEW f \in MsgSets, NEW n \in Nodes, NEW m \in Msgs
  PROVE  /\ With(f, n, m) \in MsgSets
         /\ \A k \in Nodes : \A x : x \in With(f, n, m)[k] <=> x \in f[k] \/ (k = n /\ x = m)
BY DEF With, MsgSets

LEMMA WithoutIs ==
  ASSUME NEW f \in MsgSets, NEW n \in Nodes, NEW m \in Msgs
  PROVE  /\ Without(f, n, m) \in MsgSets
         /\ \A k \in Nodes : \A x : x \in Without(f, n, m)[k] <=> x \in f[k] /\ (k # n \/ x # m)
BY DEF Without, MsgSets

(* g is f with <<s, m>> more, or less, at n.                                  *)
Gains(f, g, n, s, m) ==
  \A k \in Nodes : \A from, x :
    <<from, x>> \in g[k] <=> <<from, x>> \in f[k] \/ (k = n /\ from = s /\ x = m)

Loses(f, g, n, s, m) ==
  \A k \in Nodes : \A from, x :
    <<from, x>> \in g[k] <=> <<from, x>> \in f[k] /\ (k # n \/ from # s \/ x # m)

LEMMA FlowWithIs ==
  ASSUME NEW f \in Flows, NEW n \in Nodes, NEW s \in Sources, NEW m \in Msgs,
         NEW g, g = With(f, n, <<s, m>>)
  PROVE  g \in Flows /\ Gains(f, g, n, s, m)
BY DEF With, Flows, Gains

LEMMA FlowWithoutIs ==
  ASSUME NEW f \in Flows, NEW n \in Nodes, NEW s \in Sources, NEW m \in Msgs,
         NEW g, g = Without(f, n, <<s, m>>)
  PROVE  g \in Flows /\ Loses(f, g, n, s, m)
BY DEF Without, Flows, Loses

Monotone ==
  \A n \in Nodes, m \in Msgs : /\ Settled(n, m) => Settled(n, m)'
                               /\ Reached(n, m) => Reached(n, m)'

LEMMA LinkEnds ==
  ASSUME NEW l \in Links
  PROVE  l = <<l[1], l[2]>> /\ l[1] \in Nodes /\ l[2] \in Nodes
BY GossipAssumption

(* What a sender will not send again stays with the receiver.                 *)
LEMMA NotForgotten ==
  ASSUME GossipTypes, NothingForgotten, Monotone, peerKnows' = peerKnows, net' = net
  PROVE  NothingForgotten'
<1> SUFFICES ASSUME NEW l \in DOMAIN peerKnows, NEW m \in peerKnows[l],
                    <<l[1], l[2], m>> \notin net
             PROVE  Reached(l[2], m)'
  BY Zenon DEF NothingForgotten
<1>1. l[2] \in Nodes /\ m \in Msgs
  BY LinkEnds DEF GossipTypes
<1>2. Reached(l[2], m)
  BY DEF NothingForgotten
<1> QED BY <1>1, <1>2 DEF Monotone

(* A message appears at a node only if its author has made it, becomes known  *)
(* only once it is settled, and is passed on only once it is handled.         *)
FlowStep ==
  /\ made \subseteq made'
  /\ \A n \in Nodes, m \in Msgs :
       /\ Reached(n, m)' => Reached(n, m) \/ m \in made'
       /\ m \in handled[n] => m \in handled'[n]
       /\ m \in known'[n] => m \in known[n] \/ Settled(n, m)'
       /\ m \in casts'[n] => m \in casts[n] \/ m \in handled'[n]
       /\ \A p \in Nodes : <<n, p, m>> \in net' => <<n, p, m>> \in net \/ m \in handled'[n]

LEMMA FlowKept ==
  ASSUME FlowOK, Monotone, FlowStep
  PROVE  FlowOK'
BY DEF FlowOK, Monotone, FlowStep

LEMMA FlowUnchanged ==
  ASSUME FlowOK, NothingForgotten, QueueWithinBudget,
         UNCHANGED <<made, net, peerKnows, queue, drained, known, checked, verifying,
                     sending, casts, handled, lost>>
  PROVE  FlowOK' /\ NothingForgotten' /\ QueueWithinBudget'
<1>1. \A n, m : (Settled(n, m)' <=> Settled(n, m)) /\ (Reached(n, m)' <=> Reached(n, m))
  BY DEF Settled, Reached
<1>2. FlowOK'
  BY <1>1 DEF FlowOK
<1>3. NothingForgotten'
  BY <1>1, Zenon DEF NothingForgotten
<1>4. QueueWithinBudget'
  BY DEF QueueWithinBudget
<1> QED BY <1>2, <1>3, <1>4

LEMMA InitInv == Init => GossipInv
<1> SUFFICES ASSUME Init PROVE GossipInv
  OBVIOUS
<1>1. GossipTypes
  BY EmptyQueueOK, GossipAssumption DEF Init, GossipTypes, MsgSets, Flows
<1>2. QueueWithinBudget
  BY EmptyQueueOK DEF Init, QueueWithinBudget
<1>3. SyncOK
  BY DEF Init, SyncOK, NothingStranded, EmptyQueue
<1>4. \A n \in Nodes : \A m : ~Reached(n, m)
  BY DEF Init, Reached, Settled, EmptyQueue, Range
<1>5. FlowOK
  BY <1>4 DEF Init, FlowOK
<1>6. NothingForgotten
  BY DEF Init, NothingForgotten
<1> QED BY <1>1, <1>2, <1>3, <1>5, <1>6 DEF GossipInv

(* The steps of the syncer and of the shutdown that move no message.          *)
LEMMA QuietInv ==
  ASSUME GossipInv, NEW n \in Nodes,
         SyncStart(n) \/ SyncEnd(n) \/ SyncDone(n) \/ Stop(n) \/ LoopClose(n)
  PROVE  GossipInv'
<1> USE DEF GossipInv
<1>1. UNCHANGED <<made, net, peerKnows, queue, drained, known, checked, verifying,
                  sending, casts, handled, lost>>
  BY DEF SyncStart, SyncEnd, SyncDone, Stop, LoopClose
<1>2. FlowOK' /\ NothingForgotten' /\ QueueWithinBudget'
  BY <1>1, FlowUnchanged
<1>3. SyncOK'
  <2>1. CASE SyncStart(n)
    BY <1>1, <2>1 DEF SyncStart, SyncOK, NothingStranded, GossipTypes
  <2>2. CASE SyncEnd(n)
    BY <1>1, <2>2 DEF SyncEnd, SyncOK, NothingStranded, GossipTypes
  <2>3. CASE SyncDone(n)
    BY <1>1, <2>3 DEF SyncDone, SyncOK, NothingStranded, GossipTypes
  <2>4. CASE Stop(n) \/ LoopClose(n)
    BY <1>1, <2>4 DEF Stop, LoopClose, SyncOK, NothingStranded
  <2> QED BY <2>1, <2>2, <2>3, <2>4
<1>4. /\ sync' \in [Nodes -> {"off", "on", "drain", "hand"}]
      /\ height' \in [Nodes -> Nat] /\ \A k \in Nodes : height'[k] \in {Start[k], Tip}
  <2>1. CASE SyncEnd(n)
    BY <2>1, GossipAssumption DEF SyncEnd, GossipTypes
  <2>2. CASE ~SyncEnd(n)
    BY <2>2, Zenon DEF SyncStart, SyncDone, Stop, LoopClose, GossipTypes
  <2> QED BY <2>1, <2>2
<1>5. GossipTypes'
  BY <1>1, <1>4 DEF GossipTypes
<1> QED BY <1>2, <1>3, <1>5

LEMMA MakeInv ==
  ASSUME GossipInv, NEW m \in Msgs, Make(m)
  PROVE  GossipInv'
<1> DEFINE a == Author[m]
<1> USE DEF GossipInv
<1>1. a \in Nodes /\ a \in Sources /\ <<a, m>> \in Sources \X Msgs
  BY GossipAssumption, Zenon DEF Sources
<1> HIDE DEF a
<1>2. /\ UNCHANGED <<net, peerKnows, queue, sync, drained, known, checked, verifying,
                     casts, height, lost>>
      /\ made' = made \cup {m}
      /\ handled' = With(handled, a, m) /\ sending' = With(sending, a, <<a, m>>)
  BY Zenon DEF Make, a
<1>3. /\ handled' \in MsgSets
      /\ \A k \in Nodes : \A x : x \in handled'[k] <=> x \in handled[k] \/ (k = a /\ x = m)
  BY <1>1, <1>2, WithIs DEF GossipTypes
<1>4. sending' \in Flows /\ Gains(sending, sending', a, a, m)
  BY <1>1, <1>2, FlowWithIs DEF GossipTypes
<1>5. GossipTypes' /\ Monotone
  <2>1. GossipTypes'
    BY <1>2, <1>3, <1>4 DEF GossipTypes
  <2>2. Monotone
    BY <1>2, <1>3, <1>4, Zenon DEF Gains, Monotone, Settled, Reached
  <2> QED BY <2>1, <2>2
<1>6. FlowOK'
  <2>1. FlowStep
    BY <1>2, <1>3, <1>4 DEF Gains, Reached, Settled, FlowStep
  <2> QED BY <1>5, <2>1, FlowKept
<1>7. NothingForgotten'
  BY <1>2, <1>5, NotForgotten
<1>8. QueueWithinBudget' /\ SyncOK'
  BY <1>2 DEF QueueWithinBudget, SyncOK, NothingStranded
<1> QED BY <1>5, <1>6, <1>7, <1>8

LEMMA AddKnownInv ==
  ASSUME GossipInv, NEW n \in Nodes, NEW s \in Sources, NEW m \in Msgs, AddKnown(n, s, m)
  PROVE  GossipInv'
<1> USE DEF GossipInv
<1>1. /\ UNCHANGED <<made, net, peerKnows, queue, sync, drained, sending, casts, handled,
                     height, lost>>
      /\ <<s, m>> \in checked[n] /\ checked' = Without(checked, n, <<s, m>>)
      /\ known' = With(known, n, m) /\ verifying' = With(verifying, n, <<s, m>>)
  BY DEF AddKnown
<1>2. /\ known' \in MsgSets
      /\ \A k \in Nodes : \A x : x \in known'[k] <=> x \in known[k] \/ (k = n /\ x = m)
  BY <1>1, WithIs DEF GossipTypes
<1>3. verifying' \in Flows /\ Gains(verifying, verifying', n, s, m)
  BY <1>1, FlowWithIs DEF GossipTypes
<1>4. checked' \in Flows /\ Loses(checked, checked', n, s, m)
  BY <1>1, FlowWithoutIs, Zenon DEF GossipTypes
<1>5. GossipTypes'
  BY <1>1, <1>2, <1>3, <1>4 DEF GossipTypes
<1>6. Monotone
  BY <1>1, <1>3, <1>4, Zenon DEF Gains, Loses, Monotone, Settled, Reached
<1>7. FlowStep
  <2>1. \A k \in Nodes, x \in Msgs : Reached(k, x)' => Reached(k, x)
    BY <1>1, <1>3, <1>4 DEF Gains, Loses, Settled, Reached
  <2>2. Settled(n, m)'
    BY <1>3 DEF Gains, Settled
  <2> QED BY <1>1, <1>2, <2>1, <2>2 DEF FlowStep
<1>8. FlowOK' /\ NothingForgotten'
  BY <1>1, <1>6, <1>7, FlowKept, NotForgotten, Zenon
<1>9. QueueWithinBudget' /\ SyncOK'
  BY <1>1 DEF QueueWithinBudget, SyncOK, NothingStranded
<1> QED BY <1>5, <1>8, <1>9

LEMMA VerifyInv ==
  ASSUME GossipInv, NEW n \in Nodes, NEW s \in Sources, NEW m \in Msgs, Verify(n, s, m)
  PROVE  GossipInv'
<1> USE DEF GossipInv
<1>1. /\ UNCHANGED <<made, net, peerKnows, queue, sync, drained, known, checked, casts,
                     handled, height>>
      /\ <<s, m>> \in verifying[n] /\ verifying' = Without(verifying, n, <<s, m>>)
      /\ \/ lost' = lost \cup {<<n, m>>} /\ sending' = sending
         \/ sending' = With(sending, n, <<s, m>>) /\ lost' = lost
  BY DEF Verify
<1>2. verifying' \in Flows /\ Loses(verifying, verifying', n, s, m)
  BY <1>1, FlowWithoutIs DEF GossipTypes
<1>3. /\ sending' \in Flows /\ lost' \in SUBSET (Nodes \X Msgs)
      /\ \/ sending' = sending /\ lost' = lost \cup {<<n, m>>}
         \/ Gains(sending, sending', n, s, m) /\ lost' = lost
  <2>1. CASE lost' = lost \cup {<<n, m>>} /\ sending' = sending
    BY <2>1 DEF GossipTypes
  <2>2. CASE sending' = With(sending, n, <<s, m>>) /\ lost' = lost
    BY <2>2, FlowWithIs, Zenon DEF GossipTypes
  <2> QED BY <1>1, <2>1, <2>2
<1>4. GossipTypes'
  BY <1>1, <1>2, <1>3, Zenon DEF GossipTypes
<1>5. \A k \in Nodes, x \in Msgs : Settled(k, x)' <=> Settled(k, x)
  <2>1. CASE sending' = sending /\ lost' = lost \cup {<<n, m>>}
    <3>1. \A k \in Nodes, x \in Msgs : <<k, x>> \in lost' <=> <<k, x>> \in lost \/ (k = n /\ x = m)
      BY <2>1
    <3> QED BY <1>1, <1>2, <2>1, <3>1, Zenon DEF Loses, Settled
  <2>2. CASE Gains(sending, sending', n, s, m) /\ lost' = lost
    <3>1. \A k \in Nodes : \A from, x : <<from, x>> \in verifying'[k] \cup sending'[k]
                                          <=> <<from, x>> \in verifying[k] \cup sending[k]
      <4> SUFFICES ASSUME NEW k \in Nodes, NEW from, NEW x
                   PROVE  <<from, x>> \in verifying'[k] \cup sending'[k]
                            <=> <<from, x>> \in verifying[k] \cup sending[k]
        BY Zenon
      <4>1. <<from, x>> \in verifying'[k]
              <=> <<from, x>> \in verifying[k] /\ (k # n \/ from # s \/ x # m)
        BY <1>2 DEF Loses
      <4>2. <<from, x>> \in sending'[k]
              <=> <<from, x>> \in sending[k] \/ (k = n /\ from = s /\ x = m)
        BY <2>2 DEF Gains
      <4>3. CASE k = n /\ from = s /\ x = m
        BY <1>1, <4>2, <4>3, Zenon
      <4> QED BY <4>1, <4>2, <4>3
    <3> QED BY <1>1, <2>2, <3>1, Zenon DEF Settled
  <2> QED BY <1>3, <2>1, <2>2
<1>6. Monotone /\ FlowStep
  BY <1>1, <1>5, Zenon DEF Monotone, FlowStep, Reached
<1>7. FlowOK' /\ NothingForgotten'
  BY <1>1, <1>6, FlowKept, NotForgotten
<1>8. QueueWithinBudget' /\ SyncOK'
  BY <1>1 DEF QueueWithinBudget, SyncOK, NothingStranded
<1> QED BY <1>4, <1>7, <1>8

(* enqueueForBroadcast, whichever way it ends.                                *)
LEMMA EnqueueInv ==
  ASSUME GossipInv, NEW n \in Nodes, NEW s \in Sources, NEW m \in Msgs,
         EnqueueForBroadcast(n, s, m) \/ GiveUp(n, s, m)
  PROVE  GossipInv'
<1> USE DEF GossipInv
<1>1. /\ UNCHANGED <<made, net, peerKnows, queue, sync, drained, known, checked, verifying,
                     height>>
      /\ <<s, m>> \in sending[n] /\ sending' = Without(sending, n, <<s, m>>)
      /\ \/ casts' = With(casts, n, m) /\ handled' = With(handled, n, m) /\ lost' = lost
         \/ casts' = casts /\ handled' = handled /\ lost' = lost \cup {<<n, m>>}
  BY Zenon DEF EnqueueForBroadcast, GiveUp
<1>2. sending' \in Flows /\ Loses(sending, sending', n, s, m)
  BY <1>1, FlowWithoutIs DEF GossipTypes
<1>3. CASE casts' = With(casts, n, m) /\ handled' = With(handled, n, m) /\ lost' = lost
  <2>1. /\ handled' \in MsgSets
        /\ \A k \in Nodes : \A x : x \in handled'[k] <=> x \in handled[k] \/ (k = n /\ x = m)
    BY <1>3, WithIs DEF GossipTypes
  <2>2. /\ casts' \in MsgSets
        /\ \A k \in Nodes : \A x : x \in casts'[k] <=> x \in casts[k] \/ (k = n /\ x = m)
    BY <1>3, WithIs DEF GossipTypes
  <2>3. GossipTypes'
    BY <1>1, <1>2, <1>3, <2>1, <2>2, Zenon DEF GossipTypes
  <2>4. \A k \in Nodes, x \in Msgs : Settled(k, x)' <=> Settled(k, x)
    BY <1>1, <1>2, <1>3, <2>1, Zenon DEF Loses, Settled
  <2>5. Monotone /\ FlowStep
    BY <1>1, <2>1, <2>2, <2>4, Zenon DEF Monotone, FlowStep, Reached
  <2> QED BY <1>1, <2>3, <2>5, FlowKept, NotForgotten
         DEF QueueWithinBudget, SyncOK, NothingStranded
<1>4. CASE casts' = casts /\ handled' = handled /\ lost' = lost \cup {<<n, m>>}
  <2>1. GossipTypes'
    <3>1. lost' \in SUBSET (Nodes \X Msgs)
      BY <1>4 DEF GossipTypes
    <3> QED BY <1>1, <1>2, <1>4, <3>1, Zenon DEF GossipTypes
  <2>2. \A k \in Nodes, x \in Msgs : Settled(k, x)' <=> Settled(k, x)
    BY <1>1, <1>2, <1>4, Zenon DEF Loses, Settled
  <2>3. Monotone /\ FlowStep
    BY <1>1, <1>4, <2>2, Zenon DEF Monotone, FlowStep, Reached
  <2> QED BY <1>1, <2>1, <2>3, FlowKept, NotForgotten
         DEF QueueWithinBudget, SyncOK, NothingStranded
<1> QED BY <1>1, <1>3, <1>4

(* BroadcastVote: what is marked as known to a peer is on the wire to it, or  *)
(* was marked before.                                                         *)
LEMMA BroadcastInv ==
  ASSUME GossipInv, NEW n \in Nodes, NEW m \in Msgs, Broadcast(n, m)
  PROVE  GossipInv'
<1> DEFINE to == {p \in Nodes : <<n, p>> \in Links /\ m \notin peerKnows[<<n, p>>]}
<1> USE DEF GossipInv
<1>1. /\ UNCHANGED <<made, queue, sync, drained, known, checked, verifying, sending, handled,
                     height, lost>>
      /\ m \in casts[n] /\ casts' = Without(casts, n, m)
      /\ net' = net \cup {<<n, p, m>> : p \in to}
      /\ peerKnows' = [l \in Links |->
                         IF l[1] = n THEN peerKnows[l] \cup {m} ELSE peerKnows[l]]
  BY Zenon DEF Broadcast
<1>2. /\ casts' \in MsgSets
      /\ \A k \in Nodes : \A x : x \in casts'[k] <=> x \in casts[k] /\ (k # n \/ x # m)
  <2>1. casts \in MsgSets
    BY Zenon DEF GossipTypes
  <2> QED BY <1>1, <2>1, WithoutIs, Zenon
<1>3. peerKnows' \in [Links -> SUBSET Msgs]
  BY <1>1, Zenon DEF GossipTypes
<1>4. GossipTypes'
  BY <1>1, <1>2, <1>3 DEF GossipTypes
<1>5. \A k, x : (Settled(k, x)' <=> Settled(k, x)) /\ (Reached(k, x)' <=> Reached(k, x))
  BY <1>1, Zenon DEF Settled, Reached
<1>6. FlowOK'
  <2>1. m \in handled[n]
    BY <1>1, Zenon DEF FlowOK
  <2>2. \A k, p, x : <<k, p, x>> \in net' => <<k, p, x>> \in net \/ (k = n /\ x = m)
    BY <1>1, Zenon
  <2>3. FlowStep /\ Monotone
    BY <1>1, <1>2, <1>5, <2>1, <2>2, Zenon DEF FlowStep, Monotone
  <2> QED BY <2>3, FlowKept
<1>7. NothingForgotten'
  <2> SUFFICES ASSUME NEW l \in Links, NEW x \in peerKnows'[l]
               PROVE  <<l[1], l[2], x>> \in net' \/ Reached(l[2], x)'
    BY <1>3, Zenon DEF NothingForgotten
  <2>1. CASE x \in peerKnows[l]
    <3>1. <<l[1], l[2], x>> \in net \/ Reached(l[2], x)
      BY <2>1 DEF NothingForgotten, GossipTypes
    <3> QED BY <1>1, <1>5, <3>1
  <2>2. CASE x \notin peerKnows[l]
    <3>1. l[1] = n /\ x = m
      BY <1>1, <2>2
    <3>2. l = <<n, l[2]>> /\ l[2] \in Nodes
      BY <3>1, LinkEnds
    <3>3. l[2] \in to
      BY <2>2, <3>1, <3>2
    <3> QED BY <1>1, <3>1, <3>3, Zenon
  <2> QED BY <2>1, <2>2, Zenon
<1>8. QueueWithinBudget' /\ SyncOK'
  BY <1>1 DEF QueueWithinBudget, SyncOK, NothingStranded
<1> QED BY <1>4, <1>6, <1>7, <1>8

(* takeUnless: the whole queue moves into the drain, which has nothing left   *)
(* of an earlier one.                                                         *)
LEMMA TakeUnlessInv ==
  ASSUME GossipInv, NEW n \in Nodes, TakeUnless(n)
  PROVE  GossipInv'
<1> USE DEF GossipInv
<1>1. /\ UNCHANGED <<made, net, peerKnows, known, checked, verifying, sending, casts, handled,
                     height, lost>>
      /\ sync[n] = "drain" /\ sync' = [sync EXCEPT ![n] = "hand"]
      /\ drained' = [drained EXCEPT ![n] = queue[n].msgs]
      /\ queue' = [queue EXCEPT ![n] = EmptyQueue]
  BY DEF TakeUnless
<1>2. queue[n] \in Queues /\ queue[n].msgs \in Seq(Msgs) /\ drained[n] = <<>>
  BY <1>1 DEF GossipTypes, SyncOK, Queues
<1>3. GossipTypes'
  BY <1>1, <1>2, EmptyQueueOK DEF GossipTypes
<1>4. QueueWithinBudget'
  BY <1>1, EmptyQueueOK DEF QueueWithinBudget, GossipTypes
<1>5. SyncOK'
  BY <1>1 DEF SyncOK, NothingStranded, GossipTypes, EmptyQueue
<1>6. \A k \in Nodes : Range(queue'[k].msgs) \cup Range(drained'[k])
                         = Range(queue[k].msgs) \cup Range(drained[k])
  <2>1. Range(<<>>) = {} /\ EmptyQueue.msgs = <<>>
    BY DEF Range, EmptyQueue
  <2> QED BY <1>1, <1>2, <2>1, Zenon DEF GossipTypes
<1>7. \A k \in Nodes, x \in Msgs : /\ Settled(k, x)' <=> Settled(k, x)
                                   /\ Reached(k, x)' <=> Reached(k, x)
  BY <1>1, <1>6, Zenon DEF Settled, Reached
<1>8. FlowStep /\ Monotone
  BY <1>1, <1>7, Zenon DEF FlowStep, Monotone
<1> QED BY <1>1, <1>3, <1>4, <1>5, <1>8, FlowKept, NotForgotten

(* g is checked with <<s, m>> more at n, unless m is settled there.           *)
Offered(g, n, s, m) ==
  /\ \A k \in Nodes : \A from, x : <<from, x>> \in checked[k] => <<from, x>> \in g[k]
  /\ \A k \in Nodes : \A from, x :
       <<from, x>> \in g[k] => <<from, x>> \in checked[k] \/ (k = n /\ x = m)
  /\ Settled(n, m) \/ <<s, m>> \in g[n]

(* handleVote, first half: a message that the filter discards is settled.     *)
LEMMA CheckKnownIs ==
  ASSUME GossipTypes, FlowOK, NEW n \in Nodes, NEW s \in Sources, NEW m \in Msgs, NEW g,
         g = CheckKnown(n, s, m)
  PROVE  g \in Flows /\ Offered(g, n, s, m)
<1>1. CASE m \in known[n]
  <2>1. g = checked /\ Settled(n, m)
    BY <1>1 DEF CheckKnown, FlowOK
  <2> QED BY <2>1, Zenon DEF GossipTypes, Offered
<1>2. CASE m \notin known[n]
  <2>1. g = With(checked, n, <<s, m>>)
    BY <1>2, Zenon DEF CheckKnown
  <2>2. g \in Flows /\ Gains(checked, g, n, s, m)
    <3>1. checked \in Flows
      BY DEF GossipTypes
    <3> QED BY <2>1, <3>1, FlowWithIs
  <2>3. <<s, m>> \in g[n]
    BY <2>2 DEF Gains
  <2>4. \A k \in Nodes : \A from, x : <<from, x>> \in checked[k] => <<from, x>> \in g[k]
    BY <2>2 DEF Gains
  <2>5. \A k \in Nodes : \A from, x :
          <<from, x>> \in g[k] => <<from, x>> \in checked[k] \/ (k = n /\ x = m)
    BY <2>2 DEF Gains
  <2> QED BY <2>2, <2>3, <2>4, <2>5, Zenon DEF Offered
<1> QED BY <1>1, <1>2, Zenon

LEMMA HeadAndTail ==
  ASSUME NEW s \in Seq(Msgs), s # <<>>
  PROVE  /\ Head(s) \in Msgs /\ Tail(s) \in Seq(Msgs)
         /\ Range(s) = Range(Tail(s)) \cup {Head(s)}
<1>1. /\ Len(s) \in Nat \ {0} /\ DOMAIN s = 1 .. Len(s)
      /\ Tail(s) \in Seq(Msgs) /\ DOMAIN Tail(s) = 1 .. Len(s) - 1
      /\ \A i \in 1 .. Len(s) - 1 : Tail(s)[i] = s[i + 1]
      /\ Head(s) = s[1] /\ Head(s) \in Msgs
  OBVIOUS
<1>2. \A i \in 1 .. Len(s) : i = 1 \/ \E j \in 1 .. Len(s) - 1 : i = j + 1
  <2> SUFFICES ASSUME NEW i \in 1 .. Len(s), i # 1
               PROVE  i - 1 \in 1 .. Len(s) - 1 /\ i = (i - 1) + 1
    OBVIOUS
  <2> QED BY <1>1
<1>3. 1 \in 1 .. Len(s) /\ \A j \in 1 .. Len(s) - 1 : j + 1 \in 1 .. Len(s)
  BY <1>1
<1>4. Range(s) = {s[i] : i \in 1 .. Len(s)} /\ Range(Tail(s)) = {Tail(s)[i] : i \in 1 .. Len(s) - 1}
  BY <1>1, Zenon DEF Range
<1>5. Range(s) \subseteq Range(Tail(s)) \cup {Head(s)}
  <2> SUFFICES ASSUME NEW i \in 1 .. Len(s), s[i] # Head(s)
               PROVE  s[i] \in Range(Tail(s))
    BY <1>4
  <2>1. PICK j \in 1 .. Len(s) - 1 : i = j + 1
    BY <1>1, <1>2
  <2>2. s[i] = Tail(s)[j]
    BY <1>1, <2>1
  <2> QED BY <1>4, <2>2
<1>6. Range(Tail(s)) \cup {Head(s)} \subseteq Range(s)
  BY <1>1, <1>3, <1>4
<1> QED BY <1>1, <1>5, <1>6

LEMMA HandleQueuedInv ==
  ASSUME GossipInv, NEW n \in Nodes, HandleQueued(n)
  PROVE  GossipInv'
<1> DEFINE m == Head(drained[n])
<1> USE DEF GossipInv
<1>1. /\ UNCHANGED <<made, net, peerKnows, queue, sync, known, verifying, sending, casts,
                     handled, height, lost>>
      /\ drained[n] # <<>> /\ drained' = [drained EXCEPT ![n] = Tail(drained[n])]
      /\ checked' = CheckKnown(n, "queue", m)
  BY DEF HandleQueued
<1>2. /\ drained[n] \in Seq(Msgs) /\ Tail(drained[n]) \in Seq(Msgs) /\ m \in Msgs
      /\ Range(drained[n]) = Range(Tail(drained[n])) \cup {m}
  BY <1>1, HeadAndTail DEF GossipTypes
<1> HIDE DEF m
<1>3. "queue" \in Sources
  BY DEF Sources
<1>4. checked' \in Flows /\ Offered(checked', n, "queue", m)
  BY <1>1, <1>2, <1>3, CheckKnownIs
<1>5. /\ drained' \in [Nodes -> Seq(Msgs)]
      /\ \A k \in Nodes : drained'[k] = IF k = n THEN Tail(drained[n]) ELSE drained[k]
  BY <1>1, <1>2 DEF GossipTypes
<1>6. GossipTypes'
  BY <1>1, <1>4, <1>5, Zenon DEF GossipTypes
<1>7. \A k \in Nodes, x \in Msgs : Settled(k, x)' <=> Settled(k, x)
  BY <1>1, Zenon DEF Settled
<1>8. Monotone
  <2> SUFFICES ASSUME NEW k \in Nodes, NEW x \in Msgs, Reached(k, x)
               PROVE  Reached(k, x)'
    BY <1>7 DEF Monotone
  <2>1. CASE k = n /\ x = m
    BY <1>3, <1>4, <1>7, <2>1 DEF Offered, Reached
  <2>2. CASE ~(k = n /\ x = m)
    <3>1. x \in Range(drained[k]) => x \in Range(drained'[k])
      BY <1>2, <1>5, <2>2, Zenon
    <3> QED BY <1>1, <1>4, <1>7, <3>1, Zenon DEF Offered, Reached
  <2> QED BY <2>1, <2>2
<1>9. FlowStep
  <2>1. ASSUME NEW k \in Nodes, NEW x \in Msgs, Reached(k, x)'
        PROVE  Reached(k, x)
    <3>1. x \in Range(drained'[k]) => x \in Range(drained[k])
      BY <1>2, <1>5, Zenon
    <3>2. m \in Range(drained[n])
      BY <1>2
    <3>3. Settled(k, x) \/ x \in Range(queue[k].msgs) \cup Range(drained[k])
          \/ \E from \in Sources : <<from, x>> \in checked'[k]
      BY <1>1, <1>7, <2>1, <3>1 DEF Reached
    <3>4. ASSUME NEW from \in Sources, <<from, x>> \in checked'[k]
          PROVE  Reached(k, x)
      <4>1. <<from, x>> \in checked[k] \/ (k = n /\ x = m)
        BY <1>4, <3>4 DEF Offered
      <4> QED BY <3>2, <4>1 DEF Reached
    <3> QED BY <3>3, <3>4 DEF Reached
  <2> QED BY <1>1, <2>1 DEF FlowStep
<1>10. QueueWithinBudget' /\ SyncOK'
  BY <1>1, <1>5 DEF QueueWithinBudget, SyncOK, NothingStranded
<1> QED BY <1>1, <1>6, <1>8, <1>9, <1>10, FlowKept, NotForgotten

(* handlePacket: the message is queued, handed over, known or dropped; the    *)
(* sender has handled it.                                                     *)
LEMMA ReceiveInv ==
  ASSUME GossipInv, NEW n \in Nodes, NEW p \in Nodes, <<n, p>> \in Links, NEW m \in Msgs,
         Receive(n, p, m)
  PROVE  GossipInv'
<1> DEFINE q == Enqueued(queue[n], m)
           out == ({m} \cup queue[n].hashes) \ q.hashes
<1> USE DEF GossipInv
<1>1. /\ UNCHANGED <<made, sync, drained, known, verifying, sending, casts, handled, height>>
      /\ <<p, n, m>> \in net /\ net' = net \ {<<p, n, m>>}
      /\ peerKnows' = With(peerKnows, <<n, p>>, m)
      /\ \/ /\ sync[n] = "on" /\ queue' = [queue EXCEPT ![n] = q]
            /\ lost' = lost \cup {<<n, x>> : x \in out} /\ checked' = checked
         \/ /\ sync[n] # "on" /\ checked' = CheckKnown(n, p, m)
            /\ queue' = queue /\ lost' = lost
  BY Zenon DEF Receive
<1>2. p \in Sources /\ m \in handled[p] /\ m \in made
  <2>1. p \in Sources /\ m \in handled[p]
    BY <1>1, Zenon DEF FlowOK, Sources
  <2> QED BY <2>1, Zenon DEF FlowOK, Reached, Settled
<1>3. queue[n] \in Queues /\ WithinBudget(queue[n])
  BY DEF GossipTypes, QueueWithinBudget
<1>4. /\ q \in Queues /\ WithinBudget(q) /\ q.hashes \subseteq queue[n].hashes \cup {m}
      /\ q.hashes = Range(q.msgs) /\ queue[n].hashes = Range(queue[n].msgs)
      /\ queue[n].hashes \subseteq Msgs
  <2>1. q \in Queues /\ WithinBudget(q) /\ q.hashes \subseteq queue[n].hashes \cup {m}
    BY <1>3, EnqueuedOK, Zenon
  <2> QED BY <1>3, <2>1, Zenon DEF WithinBudget, Queues
<1> HIDE DEF q
<1>5. GossipTypes'
  <2>1. peerKnows' \in [Links -> SUBSET Msgs]
    BY <1>1, Zenon DEF GossipTypes, With
  <2>2. /\ queue' \in [Nodes -> Queues] /\ lost' \in SUBSET (Nodes \X Msgs)
        /\ checked' \in Flows
    <3>1. CASE sync[n] = "on"
      <4>1. out \subseteq Msgs
        BY <1>4
      <4>2. queue' \in [Nodes -> Queues]
        BY <1>1, <1>4, <3>1, Zenon DEF GossipTypes
      <4>3. checked' \in Flows /\ lost \in SUBSET (Nodes \X Msgs)
        BY <1>1, <3>1, Zenon DEF GossipTypes
      <4> HIDE DEF out
      <4>4. lost' = lost \cup {<<n, x>> : x \in out}
        BY <1>1, <3>1, Zenon
      <4>5. lost' \in SUBSET (Nodes \X Msgs)
        BY <4>1, <4>3, <4>4
      <4> QED BY <4>2, <4>3, <4>5, Zenon
    <3>2. CASE sync[n] # "on"
      BY <1>1, <1>2, <3>2, CheckKnownIs, Zenon DEF GossipTypes
    <3> QED BY <3>1, <3>2
  <2> QED BY <1>1, <2>1, <2>2, Zenon DEF GossipTypes
<1>6. QueueWithinBudget' /\ SyncOK'
  <2>1. CASE sync[n] = "on"
    BY <1>1, <1>4, <2>1, Zenon DEF QueueWithinBudget, SyncOK, NothingStranded, GossipTypes
  <2>2. CASE sync[n] # "on"
    BY <1>1, <2>2 DEF QueueWithinBudget, SyncOK, NothingStranded
  <2> QED BY <2>1, <2>2
<1>7. Monotone /\ Reached(n, m)' /\ \A k \in Nodes, x \in Msgs : Reached(k, x)' => Reached(k, x) \/ x = m
  <2>1. CASE sync[n] = "on"
    <3>1. \A k \in Nodes : \A x : <<k, x>> \in lost' <=> <<k, x>> \in lost \/ (k = n /\ x \in out)
      <4> HIDE DEF out
      <4>1. lost' = lost \cup {<<n, x>> : x \in out}
        BY <1>1, <2>1, Zenon
      <4> QED BY <4>1, Zenon
    <3>2. \A k \in Nodes : queue'[k] = IF k = n THEN q ELSE queue[k]
      BY <1>1, <2>1, Zenon DEF GossipTypes
    <3>3. \A k \in Nodes, x \in Msgs : Settled(k, x) => Settled(k, x)'
      BY <1>1, <3>1, Zenon DEF Settled
    <3>4. \A x \in Range(queue[n].msgs) \cup {m} : x \in Range(queue'[n].msgs) \/ Settled(n, x)'
      BY <1>4, <3>1, <3>2, Zenon DEF Settled
    <3>5. \A k \in Nodes, x \in Msgs : Reached(k, x) => Reached(k, x)'
      BY <1>1, <2>1, <3>2, <3>3, <3>4, Zenon DEF Reached
    <3>6. \A k \in Nodes, x \in Msgs : Settled(k, x)' => Settled(k, x) \/ (k = n /\ x \in out)
      BY <1>1, <3>1, Zenon DEF Settled
    <3>7. \A k \in Nodes, x \in Msgs : Reached(k, x)' => Reached(k, x) \/ x = m
      <4> SUFFICES ASSUME NEW k \in Nodes, NEW x \in Msgs, Reached(k, x)', x # m
                   PROVE  Reached(k, x)
        OBVIOUS
      <4>1. Settled(k, x)' => Settled(k, x) \/ x \in Range(queue[k].msgs)
        BY <1>4, <3>6, Zenon
      <4>2. x \in Range(queue'[k].msgs) => x \in Range(queue[k].msgs)
        BY <1>4, <3>2
      <4> QED BY <1>1, <2>1, <4>1, <4>2, Zenon DEF Reached
    <3> QED BY <3>3, <3>4, <3>5, <3>7, Zenon DEF Monotone, Reached
  <2>2. CASE sync[n] # "on"
    <3>1. Offered(checked', n, p, m)
      <4>1. checked' = CheckKnown(n, p, m)
        BY <1>1, <2>2, Zenon
      <4> QED BY <1>2, <4>1, CheckKnownIs
    <3>2. \A k \in Nodes, x \in Msgs : Settled(k, x)' <=> Settled(k, x)
      BY <1>1, <2>2 DEF Settled
    <3> QED BY <1>1, <1>2, <2>2, <3>1, <3>2, Zenon DEF Offered, Monotone, Reached
  <2> QED BY <2>1, <2>2
<1>8. FlowOK'
  <2>1. FlowStep
    BY <1>1, <1>2, <1>7, Zenon DEF FlowStep
  <2> QED BY <1>7, <2>1, FlowKept
<1>9. NothingForgotten'
  <2> SUFFICES ASSUME NEW l \in Links, NEW x \in peerKnows'[l]
               PROVE  <<l[1], l[2], x>> \in net' \/ Reached(l[2], x)'
    BY <1>5, Zenon DEF NothingForgotten, GossipTypes
  <2>1. CASE x \in peerKnows[l]
    <3>1. <<l[1], l[2], x>> \in net \/ Reached(l[2], x)
      BY <2>1 DEF NothingForgotten, GossipTypes
    <3>2. l[2] \in Nodes /\ x \in Msgs
      BY <2>1, LinkEnds DEF GossipTypes
    <3>3. <<l[1], l[2], x>> = <<p, n, m>> => Reached(l[2], x)'
      BY <1>7
    <3> QED BY <1>1, <1>7, <3>1, <3>2, <3>3, Zenon DEF Monotone
  <2>2. CASE x \notin peerKnows[l]
    <3>1. l = <<n, p>> /\ x = m
      BY <1>1, <2>2, Zenon DEF GossipTypes, With
    <3>2. Reached(p, m)'
      BY <1>1, <1>2 DEF Reached, Settled
    <3> QED BY <3>1, <3>2
  <2> QED BY <2>1, <2>2
<1> QED BY <1>5, <1>6, <1>8, <1>9

-----------------------------------------------------------------------------

LEMMA NextInv ==
  ASSUME GossipInv, [Next]_vars
  PROVE  GossipInv'
<1>1. ASSUME NEW m \in Msgs, Make(m)
      PROVE  GossipInv'
  BY <1>1, MakeInv
<1>2. ASSUME NEW l \in Links, NEW m \in Msgs, Receive(l[1], l[2], m)
      PROVE  GossipInv'
  <2>1. l[1] \in Nodes /\ l[2] \in Nodes /\ <<l[1], l[2]>> \in Links
    BY LinkEnds
  <2> QED BY <1>2, <2>1, ReceiveInv
<1>3. ASSUME NEW n \in Nodes, Handle(n)
      PROVE  GossipInv'
  <2>1. PICK s \in Sources, m \in Msgs :
          \/ AddKnown(n, s, m) \/ Verify(n, s, m)
          \/ EnqueueForBroadcast(n, s, m) \/ GiveUp(n, s, m)
    BY <1>3 DEF Handle
  <2> QED BY <2>1, AddKnownInv, VerifyInv, EnqueueInv
<1>4. ASSUME NEW n \in Nodes, Sync(n) \/ SyncStart(n) \/ Stop(n) \/ LoopClose(n)
      PROVE  GossipInv'
  BY <1>4, QuietInv, TakeUnlessInv, HandleQueuedInv DEF Sync
<1>5. ASSUME NEW n \in Nodes, NEW m \in Msgs, Broadcast(n, m)
      PROVE  GossipInv'
  BY <1>5, BroadcastInv
<1>6. CASE UNCHANGED vars
  <2>1. FlowOK' /\ NothingForgotten' /\ QueueWithinBudget'
    BY <1>6, FlowUnchanged DEF vars, GossipInv
  <2>2. GossipTypes' /\ SyncOK'
    BY <1>6 DEF vars, GossipInv, GossipTypes, SyncOK, NothingStranded
  <2> QED BY <2>1, <2>2 DEF GossipInv
<1> QED BY <1>1, <1>2, <1>3, <1>4, <1>5, <1>6 DEF Next

(* Through every interleaving of receiving, filtering, verifying, handing     *)
(* over, broadcasting, synchronising and stopping, on any links between any   *)
(* nodes: the queue of bft_queue.go keeps its counters, its duplicates filter *)
(* and its budget; a known message is in the hands of Bfter.Vote or beyond; a *)
(* message on the wire was handled by its sender.                             *)
THEOREM GossipInvariant == Spec => []GossipInv
<1>1. Init => GossipInv
  BY InitInv
<1>2. GossipInv /\ [Next]_vars => GossipInv'
  BY NextInv
<1> QED BY <1>1, <1>2, PTL DEF Spec

(* A message that a sender marks as known to a peer, and so never sends       *)
(* again, is on the wire to it, in its queue, on its way to the engine or     *)
(* dropped on purpose, whatever synchronisations start or end meanwhile; and  *)
(* the queue holds no message outside a synchronisation and stays within its  *)
(* budget.                                                                    *)
THEOREM GossipSound == Spec => []GossipIsSound
<1>1. GossipInv => GossipIsSound
  <2> SUFFICES ASSUME GossipInv PROVE GossipIsSound
    OBVIOUS
  <2>1. \A n \in Nodes : \A m \in handled[n] : m \in made
    BY Zenon DEF GossipInv, GossipTypes, MsgSets, FlowOK, Reached, Settled
  <2>2. \A n \in Nodes : known[n] \subseteq Msgs
    BY DEF GossipInv, GossipTypes, MsgSets
  <2>3. TypeOK
    BY <2>1, <2>2 DEF GossipInv, GossipTypes, SyncOK, TypeOK
  <2> QED BY <2>3 DEF GossipInv, SyncOK, GossipIsSound
<1> QED BY <1>1, GossipInvariant, PTL

=============================================================================
