-------------------------- MODULE TxFetcherProofs --------------------------
(* The loop of the transaction fetcher keeps its maps in agreement, whatever  *)
(* peers announce, deliver, withhold and broadcast and whenever they go.      *)
EXTENDS TxFetcher, FiniteSetTheorems, TLAPS

(* What every case of the loop keeps, for the fetcher's maps g.               *)
MapsOK(g) == g \in Fetcher /\ (\A h \in Hashes : StageOK(g, h)) /\ RequestsOK(g) /\ LimitOK(g)

-----------------------------------------------------------------------------
(* Maps and requests.                                                         *)

LEMMA NotNone == None \notin Peers \cup (SUBSET Peers) \cup Requests
  BY NoneAssumption

LEMMA ClearType ==
  ASSUME NEW V, NEW m \in [Hashes -> V \cup {None}], NEW T
  PROVE  /\ Clear(m, T) \in [Hashes -> V \cup {None}]
         /\ \A h \in Hashes : Clear(m, T)[h] = IF h \in T THEN None ELSE m[h]
  BY DEF Clear

LEMMA JoinType ==
  ASSUME NEW m \in [Hashes -> (SUBSET Peers) \cup {None}], NEW T, NEW p \in Peers
  PROVE  /\ Join(m, T, p) \in [Hashes -> (SUBSET Peers) \cup {None}]
         /\ \A h \in Hashes \ T : Join(m, T, p)[h] = m[h]
         /\ \A h \in Hashes \cap T :
              /\ Join(m, T, p)[h] # None /\ p \in Join(m, T, p)[h]
              /\ \A q \in Peers \ {p} :
                   q \in Join(m, T, p)[h] <=> (m[h] # None /\ q \in m[h])
<1> USE NotNone
<1>1. ASSUME NEW h \in Hashes, h \in T
      PROVE  /\ Join(m, T, p)[h] \in SUBSET Peers
             /\ p \in Join(m, T, p)[h]
             /\ \A q \in Peers \ {p} :
                  q \in Join(m, T, p)[h] <=> (m[h] # None /\ q \in m[h])
  <2>1. CASE m[h] = None
    BY <1>1, <2>1 DEF Join
  <2>2. CASE m[h] # None
    BY <1>1, <2>2 DEF Join
  <2> QED BY <2>1, <2>2
<1>2. \A h \in Hashes \ T : Join(m, T, p)[h] = m[h]
  BY DEF Join
<1>3. Join(m, T, p) = [h \in Hashes |-> Join(m, T, p)[h]]
  BY DEF Join
<1> QED BY <1>1, <1>2, <1>3

LEMMA OrNoneFacts ==
  ASSUME NEW S \in SUBSET Peers
  PROVE  /\ OrNone(S) \in (SUBSET Peers) \cup {None}
         /\ OrNone(S) # None => OrNone(S) = S
         /\ \A p \in S : OrNone(S) # None
  BY NotNone DEF OrNone

LEMMA ListFacts ==
  ASSUME NEW l \in HashLists(Hashes)
  PROVE  Range(l) \subseteq Hashes
  BY Zenon DEF HashLists, Bijection, Injection, Range

LEMMA EmptyList == <<>> \in HashLists(Hashes) /\ Range(<<>>) = {}
<1>1. Range(<<>>) = {}
  BY DEF Range
<1>2. <<>> \in Bijection(1 .. Cardinality({}), {})
  <2>1. Cardinality({}) = 0
    BY FS_EmptySet
  <2>2. 1 .. 0 = {} /\ <<>> \in [1 .. 0 -> {}]
    OBVIOUS
  <2> QED BY <2>1, <2>2 DEF Bijection, Injection, Surjection, IsInjective
<1> QED BY <1>1, <1>2 DEF HashLists

LEMMA OpenFacts ==
  ASSUME NEW r \in Requests \cup {None}
  PROVE  /\ Open(r) \subseteq Hashes
         /\ r = None => Open(r) = {}
         /\ r # None => Open(r) = Range(r.hashes) \ r.stolen
  BY ListFacts DEF Open, Requests

LEMMA UsedFacts ==
  ASSUME NEW g \in Fetcher, NEW p \in Peers
  PROVE  /\ IsFiniteSet(g.waitslots[p]) /\ IsFiniteSet(g.announces[p])
         /\ Cardinality(g.waitslots[p]) \in Nat /\ Cardinality(g.announces[p]) \in Nat
         /\ Used(g, p) \in Nat
<1>1. g.waitslots[p] \in SUBSET Hashes /\ g.announces[p] \in SUBSET Hashes
  BY DEF Fetcher
<1>2. IsFiniteSet(g.waitslots[p]) /\ IsFiniteSet(g.announces[p])
  BY <1>1, FetcherAssumption, FS_Subset
<1>3. Cardinality(g.waitslots[p]) \in Nat /\ Cardinality(g.announces[p]) \in Nat
  BY <1>2, FS_CardinalityType
<1> QED BY <1>2, <1>3 DEF Used

LEMMA UnionBound ==
  ASSUME NEW A, NEW B, IsFiniteSet(A), IsFiniteSet(B)
  PROVE  Cardinality(A \cup B) <= Cardinality(A) + Cardinality(B)
<1>1. /\ IsFiniteSet(A \cap B)
      /\ Cardinality(A \cup B) = Cardinality(A) + Cardinality(B) - Cardinality(A \cap B)
  BY FS_Union, FS_Intersection
<1>2. Cardinality(A) \in Nat /\ Cardinality(B) \in Nat /\ Cardinality(A \cap B) \in Nat
  BY <1>1, FS_CardinalityType
<1> QED BY <1>1, <1>2

(* What takes hashes away from the peers keeps them within the limit.         *)
LEMMA FewerOK ==
  ASSUME NEW g \in Fetcher, LimitOK(g), NEW x \in Fetcher,
         \A p \in Peers : /\ x.waitslots[p] \subseteq g.waitslots[p]
                          /\ x.announces[p] \subseteq g.announces[p]
  PROVE  LimitOK(x)
<1>1. SUFFICES ASSUME NEW p \in Peers
               PROVE  Used(x, p) <= MaxTxAnnounces
  BY DEF LimitOK
<1>2. /\ Cardinality(x.waitslots[p]) <= Cardinality(g.waitslots[p])
      /\ Cardinality(x.announces[p]) <= Cardinality(g.announces[p])
  BY UsedFacts, FS_Subset
<1>3. Used(g, p) <= MaxTxAnnounces
  BY DEF LimitOK
<1>4. /\ Cardinality(x.waitslots[p]) \in Nat /\ Cardinality(g.waitslots[p]) \in Nat
      /\ Cardinality(x.announces[p]) \in Nat /\ Cardinality(g.announces[p]) \in Nat
  BY UsedFacts
<1> QED BY <1>2, <1>3, <1>4, FetcherAssumption DEF Used

-----------------------------------------------------------------------------
(* The cases of the loop.                                                     *)

LEMMA EmptyOK == MapsOK(Empty)
<1>1. Empty \in Fetcher
  BY DEF Empty, Fetcher
<1>2. \A h \in Hashes : StageOK(Empty, h)
  BY DEF Empty, StageOK
<1>3. RequestsOK(Empty)
  BY NotNone DEF Empty, RequestsOK, Open
<1>4. LimitOK(Empty)
  <2>1. \A p \in Peers : Used(Empty, p) = 0
    BY FS_EmptySet DEF Empty, Used
  <2> QED BY <2>1, FetcherAssumption DEF LimitOK
<1> QED BY <1>1, <1>2, <1>3, <1>4 DEF MapsOK

(* An announced hash joins the stage that it is in, or the wait list.         *)
LEMMA AnnouncedOK ==
  ASSUME NEW g, MapsOK(g), NEW p \in Peers, NEW S \in SUBSET Hashes,
         Used(g, p) + Cardinality(S) <= MaxTxAnnounces
  PROVE  MapsOK(Announced(g, p, S))
<1> DEFINE fetched == {h \in S : g.alternates[h] # None}
           queued == {h \in S \ fetched : g.announced[h] # None}
           new == S \ (fetched \cup queued)
           x == Announced(g, p, S)
<1>1. g \in Fetcher
  BY DEF MapsOK
<1>2. /\ Join(g.alternates, fetched, p) \in [Hashes -> (SUBSET Peers) \cup {None}]
      /\ Join(g.announced, queued, p) \in [Hashes -> (SUBSET Peers) \cup {None}]
      /\ Join(g.waitlist, new, p) \in [Hashes -> (SUBSET Peers) \cup {None}]
  BY <1>1, JoinType DEF Fetcher
<1>3. /\ [g.announces EXCEPT ![p] = @ \cup fetched \cup queued] \in [Peers -> SUBSET Hashes]
      /\ [g.waitslots EXCEPT ![p] = @ \cup new] \in [Peers -> SUBSET Hashes]
  BY <1>1 DEF Fetcher
<1>4. /\ x \in Fetcher
      /\ x.alternates = Join(g.alternates, fetched, p)
      /\ x.announced = Join(g.announced, queued, p)
      /\ x.waitlist = Join(g.waitlist, new, p)
      /\ x.announces = [g.announces EXCEPT ![p] = @ \cup fetched \cup queued]
      /\ x.waitslots = [g.waitslots EXCEPT ![p] = @ \cup new]
      /\ x.fetching = g.fetching /\ x.requests = g.requests
  BY <1>1, <1>2, <1>3, Zenon DEF Announced, Fetcher
<1> HIDE DEF x
<1>5. RequestsOK(x)
  BY <1>4 DEF MapsOK, RequestsOK
<1> DEFINE Joined(m, n, T) ==
             /\ \A h \in Hashes \ T : n[h] = m[h]
             /\ \A h \in Hashes \cap T :
                  /\ n[h] # None /\ p \in n[h]
                  /\ \A q \in Peers \ {p} : q \in n[h] <=> (m[h] # None /\ q \in m[h])
<1>6. /\ Joined(g.alternates, x.alternates, fetched)
      /\ Joined(g.announced, x.announced, queued)
      /\ Joined(g.waitlist, x.waitlist, new)
  <2> HIDE DEF fetched, queued, new
  <2>1. /\ g.alternates \in [Hashes -> (SUBSET Peers) \cup {None}]
        /\ g.announced \in [Hashes -> (SUBSET Peers) \cup {None}]
        /\ g.waitlist \in [Hashes -> (SUBSET Peers) \cup {None}]
    BY <1>1 DEF Fetcher
  <2>2. Joined(g.alternates, x.alternates, fetched)
    BY <1>4, <2>1, JoinType
  <2>3. Joined(g.announced, x.announced, queued)
    BY <1>4, <2>1, JoinType
  <2>4. Joined(g.waitlist, x.waitlist, new)
    BY <1>4, <2>1, JoinType
  <2> QED BY <2>2, <2>3, <2>4
<1>7. ASSUME NEW h \in Hashes
      PROVE  StageOK(x, h)
  <2>1. StageOK(g, h)
    BY DEF MapsOK
  <2>2. /\ \A q \in Peers : h \in x.announces[q] <=>
                              h \in g.announces[q] \/ (q = p /\ h \in fetched \cup queued)
        /\ \A q \in Peers : h \in x.waitslots[q] <=>
                              h \in g.waitslots[q] \/ (q = p /\ h \in new)
    BY <1>1, <1>4 DEF Fetcher
  <2>3. CASE h \notin S
    <3>1. /\ x.waitlist[h] = g.waitlist[h] /\ x.announced[h] = g.announced[h]
          /\ x.alternates[h] = g.alternates[h] /\ x.fetching[h] = g.fetching[h]
      BY <1>4, <1>6, <2>3
    <3> QED BY <2>1, <2>2, <2>3, <3>1 DEF StageOK
  <2>4. CASE h \in fetched
    <3>1. /\ x.waitlist[h] = g.waitlist[h] /\ x.announced[h] = g.announced[h]
          /\ x.fetching[h] = g.fetching[h]
          /\ x.alternates[h] # None /\ p \in x.alternates[h]
          /\ \A q \in Peers \ {p} :
               q \in x.alternates[h] <=> (g.alternates[h] # None /\ q \in g.alternates[h])
      BY <1>4, <1>6, <2>4
    <3> QED BY <2>1, <2>2, <2>4, <3>1 DEF StageOK
  <2>5. CASE h \in queued
    <3>1. /\ x.waitlist[h] = g.waitlist[h] /\ x.alternates[h] = g.alternates[h]
          /\ x.fetching[h] = g.fetching[h]
          /\ x.announced[h] # None /\ p \in x.announced[h]
          /\ \A q \in Peers \ {p} :
               q \in x.announced[h] <=> (g.announced[h] # None /\ q \in g.announced[h])
      BY <1>4, <1>6, <2>5
    <3> QED BY <2>1, <2>2, <2>5, <3>1 DEF StageOK
  <2>6. CASE h \in new
    <3>1. /\ x.announced[h] = g.announced[h] /\ x.alternates[h] = g.alternates[h]
          /\ x.fetching[h] = g.fetching[h]
          /\ x.waitlist[h] # None /\ p \in x.waitlist[h]
          /\ \A q \in Peers \ {p} :
               q \in x.waitlist[h] <=> (g.waitlist[h] # None /\ q \in g.waitlist[h])
      BY <1>4, <1>6, <2>6
    <3> QED BY <2>1, <2>2, <2>6, <3>1 DEF StageOK
  <2> QED BY <2>3, <2>4, <2>5, <2>6
<1>8. LimitOK(x)
  <2>1. SUFFICES ASSUME NEW q \in Peers
                 PROVE  Used(x, q) <= MaxTxAnnounces
    BY DEF LimitOK
  <2>2. Used(g, q) <= MaxTxAnnounces
    BY DEF MapsOK, LimitOK
  <2>3. CASE q # p
    <3>1. x.waitslots[q] = g.waitslots[q] /\ x.announces[q] = g.announces[q]
      BY <1>1, <1>4, <2>3 DEF Fetcher
    <3> QED BY <2>2, <3>1 DEF Used
  <2>4. CASE q = p
    <3> DEFINE old == fetched \cup queued
    <3>1. /\ x.waitslots[q] = g.waitslots[q] \cup new
          /\ x.announces[q] = g.announces[q] \cup old
      BY <1>1, <1>4, <2>4 DEF Fetcher
    <3>2. new \subseteq S /\ old = S \ new
      OBVIOUS
    <3> HIDE DEF new, old
    <3>3. IsFiniteSet(S) /\ IsFiniteSet(new) /\ IsFiniteSet(old)
      BY <3>2, FetcherAssumption, FS_Subset
    <3>4. Cardinality(old) = Cardinality(S) - Cardinality(S \cap new) /\ S \cap new = new
      BY <3>2, <3>3, FS_Difference, Zenon
    <3>5. /\ Cardinality(x.waitslots[q]) <= Cardinality(g.waitslots[q]) + Cardinality(new)
          /\ Cardinality(x.announces[q]) <= Cardinality(g.announces[q]) + Cardinality(old)
      BY <1>1, <3>1, <3>3, UsedFacts, UnionBound
    <3>6. /\ Cardinality(S) \in Nat /\ Cardinality(new) \in Nat /\ Cardinality(old) \in Nat
          /\ Cardinality(x.waitslots[q]) \in Nat /\ Cardinality(x.announces[q]) \in Nat
          /\ Cardinality(g.waitslots[q]) \in Nat /\ Cardinality(g.announces[q]) \in Nat
      BY <1>1, <1>4, <3>3, UsedFacts, FS_CardinalityType, Zenon
    <3>7. Cardinality(old) = Cardinality(S) - Cardinality(new)
      BY <3>4
    <3>8. /\ Used(x, q) = Cardinality(x.waitslots[q]) + Cardinality(x.announces[q])
          /\ Used(g, q) = Cardinality(g.waitslots[q]) + Cardinality(g.announces[q])
          /\ Used(g, q) + Cardinality(S) <= MaxTxAnnounces
      BY <2>4 DEF Used
    <3> QED BY <3>5, <3>6, <3>7, <3>8, FetcherAssumption
  <2> QED BY <2>3, <2>4
<1> QED BY <1>4, <1>5, <1>7, <1>8 DEF MapsOK, x

(* A hash whose time has run out goes from the wait list to the queue with    *)
(* all of its origins.                                                        *)
LEMMA ExpiredOK ==
  ASSUME NEW g, MapsOK(g), NEW E, E \subseteq Waiting(g)
  PROVE  MapsOK(Expired(g, E))
<1> DEFINE x == Expired(g, E)
<1>1. g \in Fetcher /\ E \subseteq Hashes /\ \A h \in E : g.waitlist[h] # None
  BY DEF MapsOK, Waiting
<1>2. Clear(g.waitlist, E) \in [Hashes -> (SUBSET Peers) \cup {None}]
  BY <1>1, ClearType, Zenon DEF Fetcher
<1>3. /\ x \in Fetcher
      /\ x.announced = [h \in Hashes |-> IF h \in E THEN g.waitlist[h] ELSE g.announced[h]]
      /\ x.waitlist = Clear(g.waitlist, E)
      /\ x.announces = [p \in Peers |-> g.announces[p] \cup (g.waitslots[p] \cap E)]
      /\ x.waitslots = [p \in Peers |-> g.waitslots[p] \ E]
      /\ x.alternates = g.alternates /\ x.fetching = g.fetching /\ x.requests = g.requests
  BY <1>1, <1>2, Zenon DEF Expired, Fetcher
<1> HIDE DEF x
<1>4. RequestsOK(x)
  BY <1>3 DEF MapsOK, RequestsOK
<1>5. ASSUME NEW h \in Hashes
      PROVE  StageOK(x, h)
  <2>1. x.waitlist[h] = IF h \in E THEN None ELSE g.waitlist[h]
    BY <1>3 DEF Clear
  <2>2. StageOK(g, h)
    BY DEF MapsOK
  <2> QED BY <1>1, <1>3, <2>1, <2>2 DEF StageOK
<1>6. LimitOK(x)
  <2>1. SUFFICES ASSUME NEW p \in Peers
                 PROVE  Used(x, p) <= MaxTxAnnounces
    BY DEF LimitOK
  <2> DEFINE W == g.waitslots[p]
             A == g.announces[p]
  <2>2. Used(g, p) <= MaxTxAnnounces
    BY DEF MapsOK, LimitOK
  <2>3. x.waitslots[p] = W \ E /\ x.announces[p] = A \cup (W \cap E)
    BY <1>3
  <2>4. IsFiniteSet(W) /\ IsFiniteSet(A) /\ IsFiniteSet(W \cap E)
    BY <1>1, UsedFacts, FS_Intersection, Zenon
  <2>5. /\ Cardinality(W \ E) = Cardinality(W) - Cardinality(W \cap E)
        /\ Cardinality(A \cup (W \cap E)) <= Cardinality(A) + Cardinality(W \cap E)
    BY <2>4, FS_Difference, UnionBound, Zenon
  <2>6. /\ Cardinality(W) \in Nat /\ Cardinality(A) \in Nat /\ Cardinality(W \cap E) \in Nat
        /\ Cardinality(x.waitslots[p]) \in Nat /\ Cardinality(x.announces[p]) \in Nat
    BY <1>1, <1>3, <2>4, UsedFacts, FS_CardinalityType, Zenon
  <2> QED BY <2>2, <2>3, <2>5, <2>6, FetcherAssumption DEF Used
<1> QED BY <1>3, <1>4, <1>5, <1>6 DEF MapsOK, x

(* The hashes of expired requests go back to the queue; only the peer that    *)
(* was asked is no longer an origin of them.                                  *)
LEMMA TimedOutOK ==
  ASSUME NEW g, MapsOK(g), NEW X, X \subseteq {p \in Peers : g.requests[p] # None}
  PROVE  MapsOK(TimedOut(g, X))
<1> DEFINE x == TimedOut(g, X)
           Late(h) == {p \in X : h \in Open(g.requests[p])}
           all == {h \in Hashes : Late(h) # {}}
<1>1. g \in Fetcher /\ X \subseteq Peers /\ \A p \in X : g.requests[p] \in Requests
  BY DEF MapsOK, Fetcher
<1>2. ASSUME NEW h \in Hashes
      PROVE  /\ \A p \in X : p \in Late(h) <=> g.fetching[h] = p
             /\ h \in all <=> g.fetching[h] \in X
             /\ h \in all => /\ g.alternates[h] \in SUBSET Peers
                             /\ Late(h) = {g.fetching[h]}
                             /\ g.waitlist[h] = None /\ g.announced[h] = None
  <2>1. \A p \in X : p \in Late(h) <=> g.fetching[h] = p
    BY <1>1 DEF MapsOK, RequestsOK
  <2>2. h \in all => g.fetching[h] # None
    BY <1>1, <2>1, NotNone
  <2>3. h \in all => g.alternates[h] # None
    BY <2>2 DEF MapsOK, StageOK
  <2> QED BY <1>1, <2>1, <2>3 DEF MapsOK, StageOK, Fetcher
<1>3. ASSUME NEW h \in Hashes
      PROVE  (IF h \in all THEN OrNone(g.alternates[h] \ Late(h)) ELSE g.announced[h])
               \in (SUBSET Peers) \cup {None}
  BY <1>1, <1>2, OrNoneFacts, Zenon DEF Fetcher
<1>4. ASSUME NEW p \in Peers
      PROVE  /\ (IF p \in X THEN [hashes |-> <<>>, stolen |-> g.requests[p].stolen]
                   ELSE g.requests[p]) \in Requests \cup {None}
             /\ (IF p \in X THEN g.announces[p] \ Open(g.requests[p]) ELSE g.announces[p])
                   \in SUBSET Hashes
  BY <1>1, EmptyList DEF Fetcher, Requests
<1>5. /\ Clear(g.alternates, all) \in [Hashes -> (SUBSET Peers) \cup {None}]
      /\ Clear(g.fetching, all) \in [Hashes -> Peers \cup {None}]
  BY <1>1 DEF Fetcher, Clear
<1> HIDE DEF all, Late
<1>6. /\ x \in Fetcher
      /\ x.waitlist = g.waitlist /\ x.waitslots = g.waitslots
      /\ x.announced = [h \in Hashes |-> IF h \in all THEN OrNone(g.alternates[h] \ Late(h))
                                         ELSE g.announced[h]]
      /\ x.alternates = Clear(g.alternates, all) /\ x.fetching = Clear(g.fetching, all)
      /\ x.announces = [p \in Peers |-> IF p \in X THEN g.announces[p] \ Open(g.requests[p])
                                        ELSE g.announces[p]]
      /\ x.requests = [p \in Peers |-> IF p \in X
                                         THEN [hashes |-> <<>>, stolen |-> g.requests[p].stolen]
                                         ELSE g.requests[p]]
  <2>1. x = [g EXCEPT
          !.announced  = [h \in Hashes |-> IF h \in all THEN OrNone(g.alternates[h] \ Late(h))
                                           ELSE g.announced[h]],
          !.alternates = Clear(g.alternates, all),
          !.fetching   = Clear(g.fetching, all),
          !.announces  = [p \in Peers |-> IF p \in X THEN g.announces[p] \ Open(g.requests[p])
                                          ELSE g.announces[p]],
          !.requests   = [p \in Peers |-> IF p \in X
                                            THEN [hashes |-> <<>>, stolen |-> g.requests[p].stolen]
                                            ELSE g.requests[p]]]
    BY DEF TimedOut, all, Late
  <2> HIDE DEF x
  <2> QED BY <1>1, <1>3, <1>4, <1>5, <2>1, Zenon DEF Fetcher
<1> HIDE DEF x
<1>7. ASSUME NEW h \in Hashes, NEW p \in Peers
      PROVE  x.fetching[h] = p <=> h \in Open(x.requests[p])
  <2>1. g.fetching[h] = p <=> h \in Open(g.requests[p])
    BY DEF MapsOK, RequestsOK
  <2>2. x.fetching[h] = IF g.fetching[h] \in X THEN None ELSE g.fetching[h]
    BY <1>2, <1>6 DEF Clear
  <2>3. CASE p \in X
    <3>1. x.requests[p].hashes = <<>> /\ x.requests[p] \in Requests
      BY <1>1, <1>6, <2>3, EmptyList DEF Requests
    <3>2. Open(x.requests[p]) = {}
      BY <3>1, EmptyList, NotNone DEF Open
    <3> QED BY <2>2, <2>3, <3>2, NotNone
  <2>4. CASE p \notin X
    BY <1>6, <2>1, <2>2, <2>4, NotNone
  <2> QED BY <2>3, <2>4
<1>8. ASSUME NEW h \in Hashes
      PROVE  StageOK(x, h)
  <2>1. StageOK(g, h)
    BY DEF MapsOK
  <2>2. CASE h \notin all
    <3>1. /\ x.waitlist[h] = g.waitlist[h] /\ x.announced[h] = g.announced[h]
          /\ x.alternates[h] = g.alternates[h] /\ x.fetching[h] = g.fetching[h]
      BY <1>6, <2>2 DEF Clear
    <3>2. \A p \in Peers : /\ h \in x.announces[p] => h \in g.announces[p]
                           /\ x.waitslots[p] = g.waitslots[p]
      BY <1>6
    <3> QED BY <2>1, <3>1, <3>2 DEF StageOK
  <2>3. CASE h \in all
    <3>1. /\ x.waitlist[h] = None /\ x.alternates[h] = None /\ x.fetching[h] = None
          /\ x.announced[h] = OrNone(g.alternates[h] \ {g.fetching[h]})
          /\ g.fetching[h] \in X /\ g.alternates[h] \in SUBSET Peers
          /\ g.announced[h] = None
      BY <1>2, <1>6, <2>3 DEF Clear
    <3>2. h \in Open(g.requests[g.fetching[h]])
      BY <1>1, <3>1 DEF MapsOK, RequestsOK
    <3>3. \A p \in Peers : /\ h \in x.announces[p] => h \in g.announces[p] /\ p # g.fetching[h]
                           /\ x.waitslots[p] = g.waitslots[p]
      BY <1>6, <3>1, <3>2
    <3>4. \A p \in Peers : h \in x.announces[p] =>
            p \in g.alternates[h] \ {g.fetching[h]}
      BY <2>1, <3>1, <3>3 DEF StageOK
    <3>5. \A p \in Peers : h \in x.announces[p] => x.announced[h] # None /\ p \in x.announced[h]
      BY <3>1, <3>4, OrNoneFacts
    <3> QED BY <1>6, <2>1, <3>1, <3>3, <3>5 DEF StageOK
  <2> QED BY <2>2, <2>3
<1>9. RequestsOK(x)
  BY <1>7 DEF RequestsOK
<1>10. LimitOK(x)
  <2>1. \A q \in Peers : /\ x.waitslots[q] \subseteq g.waitslots[q]
                         /\ x.announces[q] \subseteq g.announces[q]
    BY <1>1, <1>6 DEF Fetcher
  <2> QED BY <1>1, <1>6, <2>1, FewerOK DEF MapsOK
<1> QED BY <1>6, <1>8, <1>9, <1>10 DEF MapsOK, x

(* After a delivery nothing tracks the delivered hashes, and every request    *)
(* that lists one of them has been told, but for the one that it answers.     *)
Forgotten(x, p, direct, S) ==
  /\ x \in Fetcher /\ LimitOK(x)
  /\ \A h \in Hashes : StageOK(x, h)
  /\ \A h \in S : x.fetching[h] = None
  /\ \A h \in Hashes, q \in Peers :
       (q # p \/ ~direct \/ h \notin S) => (x.fetching[h] = q <=> h \in Open(x.requests[q]))

LEMMA ForgetOK ==
  ASSUME NEW g, MapsOK(g), NEW p \in Peers, NEW direct \in BOOLEAN, NEW S \in SUBSET Hashes
  PROVE  Forgotten(Forget(g, p, direct, S), p, direct, S)
<1> DEFINE x == Forget(g, p, direct, S)
           early == {h \in S : g.waitlist[h] # None}
           rest == S \ early
           Stolen(q) == {h \in S : g.waitlist[h] = None /\ g.fetching[h] = q /\ (q # p \/ ~direct)}
           requests == [q \in Peers |->
             IF Stolen(q) = {} THEN g.requests[q]
             ELSE [hashes |-> g.requests[q].hashes, stolen |-> g.requests[q].stolen \cup Stolen(q)]]
<1>1. g \in Fetcher
  BY DEF MapsOK
<1>2. ASSUME NEW q \in Peers, NEW h \in Stolen(q)
      PROVE  g.requests[q] \in Requests
  <2>1. h \in Open(g.requests[q])
    BY <1>2 DEF MapsOK, RequestsOK
  <2> QED BY <1>1, <2>1 DEF Open, Fetcher
<1>3. ASSUME NEW q \in Peers
      PROVE  /\ requests[q] \in Requests \cup {None}
             /\ \A h \in Hashes : h \in Open(requests[q]) <=>
                                    h \in Open(g.requests[q]) /\ h \notin Stolen(q)
  <2>1. CASE Stolen(q) = {}
    BY <1>1, <2>1 DEF Fetcher
  <2>2. CASE Stolen(q) # {}
    <3>1. g.requests[q] \in Requests /\ Stolen(q) \in SUBSET Hashes
      BY <1>2, <2>2
    <3> HIDE DEF Stolen
    <3>2. /\ requests[q] \in Requests
          /\ requests[q].hashes = g.requests[q].hashes
          /\ requests[q].stolen = g.requests[q].stolen \cup Stolen(q)
      BY <2>2, <3>1 DEF Requests
    <3> HIDE DEF requests
    <3> QED BY <3>1, <3>2, NotNone DEF Open
  <2> QED BY <2>1, <2>2
<1>4. x = Removed(g, S, requests)
  BY DEF Forget
<1>5. requests \in [Peers -> Requests \cup {None}]
  BY <1>3
<1> HIDE DEF requests
<1>6. /\ Clear(g.waitlist, early) \in [Hashes -> (SUBSET Peers) \cup {None}]
      /\ Clear(g.announced, rest) \in [Hashes -> (SUBSET Peers) \cup {None}]
      /\ Clear(g.alternates, rest) \in [Hashes -> (SUBSET Peers) \cup {None}]
      /\ Clear(g.fetching, rest) \in [Hashes -> Peers \cup {None}]
  BY <1>1 DEF Fetcher, Clear
<1>7. /\ x \in Fetcher
      /\ x.waitlist = Clear(g.waitlist, early)
      /\ x.waitslots = [q \in Peers |-> g.waitslots[q] \ early]
      /\ x.announces = [q \in Peers |-> g.announces[q] \ rest]
      /\ x.announced = Clear(g.announced, rest)
      /\ x.alternates = Clear(g.alternates, rest)
      /\ x.fetching = Clear(g.fetching, rest)
      /\ x.requests = requests
  <2>1. x = [g EXCEPT !.waitlist   = Clear(g.waitlist, early),
                      !.waitslots  = [q \in Peers |-> g.waitslots[q] \ early],
                      !.announces  = [q \in Peers |-> g.announces[q] \ rest],
                      !.announced  = Clear(g.announced, rest),
                      !.alternates = Clear(g.alternates, rest),
                      !.fetching   = Clear(g.fetching, rest),
                      !.requests   = requests]
    BY <1>4 DEF Removed
  <2> HIDE DEF early, rest, x
  <2>2. /\ [q \in Peers |-> g.waitslots[q] \ early] \in [Peers -> SUBSET Hashes]
        /\ [q \in Peers |-> g.announces[q] \ rest] \in [Peers -> SUBSET Hashes]
    BY <1>1 DEF Fetcher
  <2> QED BY <1>1, <1>5, <1>6, <2>1, <2>2, Zenon DEF Fetcher
<1> HIDE DEF x
<1>8. ASSUME NEW h \in Hashes
      PROVE  StageOK(x, h) /\ (h \in S => x.fetching[h] = None)
  <2>1. StageOK(g, h)
    BY DEF MapsOK
  <2>2. /\ x.waitlist[h] = IF h \in early THEN None ELSE g.waitlist[h]
        /\ x.announced[h] = IF h \in rest THEN None ELSE g.announced[h]
        /\ x.alternates[h] = IF h \in rest THEN None ELSE g.alternates[h]
        /\ x.fetching[h] = IF h \in rest THEN None ELSE g.fetching[h]
    BY <1>7 DEF Clear
  <2>3. \A q \in Peers : /\ h \in x.waitslots[q] <=> h \in g.waitslots[q] /\ h \notin early
                         /\ h \in x.announces[q] <=> h \in g.announces[q] /\ h \notin rest
    BY <1>7
  <2> QED BY <2>1, <2>2, <2>3 DEF StageOK
<1>9. ASSUME NEW h \in Hashes, NEW q \in Peers, q # p \/ ~direct \/ h \notin S
       PROVE  x.fetching[h] = q <=> h \in Open(x.requests[q])
  <2>1. g.fetching[h] = q <=> h \in Open(g.requests[q])
    BY DEF MapsOK, RequestsOK
  <2>2. g.waitlist[h] # None => g.fetching[h] = None
    BY DEF MapsOK, StageOK
  <2>3. x.fetching[h] = IF h \in rest THEN None ELSE g.fetching[h]
    BY <1>7 DEF Clear
  <2>4. h \in Open(x.requests[q]) <=> h \in Open(g.requests[q]) /\ h \notin Stolen(q)
    BY <1>3, <1>7
  <2> QED BY <1>9, <2>1, <2>2, <2>3, <2>4, NotNone
<1>10. LimitOK(x)
  <2>1. \A q \in Peers : /\ x.waitslots[q] \subseteq g.waitslots[q]
                         /\ x.announces[q] \subseteq g.announces[q]
    BY <1>1, <1>7 DEF Fetcher
  <2> QED BY <1>1, <1>7, <2>1, FewerOK DEF MapsOK
<1> QED BY <1>7, <1>8, <1>9, <1>10 DEF Forgotten, x

LEMMA SkippedFacts ==
  ASSUME NEW r \in Requests \cup {None}, NEW S
  PROVE  Skipped(r, S) \subseteq Open(r) \ S
  BY DEF Skipped

(* The end of a request: what it still lists goes back to the queue.          *)
LEMMA AnsweredOK ==
  ASSUME NEW g \in Fetcher, LimitOK(g), NEW p \in Peers, NEW S \in SUBSET Hashes,
         \A h \in Hashes : StageOK(g, h),
         \A h \in S : g.fetching[h] = None,
         \A h \in Hashes, q \in Peers :
           (q # p \/ h \notin S) => (g.fetching[h] = q <=> h \in Open(g.requests[q]))
  PROVE  MapsOK(Answered(g, p, S))
<1> DEFINE x == Answered(g, p, S)
           r == g.requests[p]
           skipped == Skipped(r, S)
           Left(h) == IF h \in skipped THEN g.alternates[h] \ {p} ELSE g.alternates[h]
<1>1. r \in Requests \cup {None}
  BY DEF Fetcher
<1>2. Open(r) \subseteq Hashes /\ skipped \subseteq Open(r) \ S
  BY <1>1, OpenFacts, SkippedFacts
<1>3. ASSUME NEW h \in Open(r) \ S
      PROVE  /\ g.fetching[h] = p
             /\ g.alternates[h] \in SUBSET Peers /\ Left(h) \in SUBSET Peers
             /\ g.announced[h] = None /\ g.waitlist[h] = None
  <2>1. h \in Hashes /\ g.fetching[h] = p
    BY <1>2, <1>3
  <2>2. StageOK(g, h) /\ p # None
    BY <2>1, NotNone
  <2> QED BY <2>1, <2>2 DEF StageOK, Fetcher
<1> HIDE DEF skipped
<1>4. [h \in Hashes |-> IF h \in Open(r) \ S THEN OrNone(Left(h)) ELSE g.announced[h]]
        \in [Hashes -> (SUBSET Peers) \cup {None}]
  <2>1. ASSUME NEW h \in Open(r) \ S
        PROVE  OrNone(Left(h)) \in (SUBSET Peers) \cup {None}
    BY <1>3, <2>1, OrNoneFacts
  <2>2. \A h \in Hashes : g.announced[h] \in (SUBSET Peers) \cup {None}
    BY DEF Fetcher
  <2> HIDE DEF Left, r
  <2> QED BY <2>1, <2>2
<1>5. /\ Clear(g.alternates, Open(r)) \in [Hashes -> (SUBSET Peers) \cup {None}]
      /\ Clear(g.fetching, Open(r)) \in [Hashes -> Peers \cup {None}]
  BY DEF Fetcher, Clear
<1>6. /\ x \in Fetcher
      /\ x.waitlist = g.waitlist /\ x.waitslots = g.waitslots
      /\ x.requests = [g.requests EXCEPT ![p] = None]
      /\ x.announces = [g.announces EXCEPT ![p] = @ \ skipped]
      /\ x.announced = [h \in Hashes |-> IF h \in Open(r) \ S THEN OrNone(Left(h))
                                         ELSE g.announced[h]]
      /\ x.alternates = Clear(g.alternates, Open(r))
      /\ x.fetching = Clear(g.fetching, Open(r))
  <2>1. x = [g EXCEPT
               !.requests   = [g.requests EXCEPT ![p] = None],
               !.announces  = [g.announces EXCEPT ![p] = @ \ skipped],
               !.announced  = [h \in Hashes |-> IF h \in Open(r) \ S THEN OrNone(Left(h))
                                                ELSE g.announced[h]],
               !.alternates = Clear(g.alternates, Open(r)),
               !.fetching   = Clear(g.fetching, Open(r))]
    BY DEF Answered, skipped
  <2>2. /\ [g.requests EXCEPT ![p] = None] \in [Peers -> Requests \cup {None}]
        /\ [g.announces EXCEPT ![p] = @ \ skipped] \in [Peers -> SUBSET Hashes]
    BY DEF Fetcher
  <2> HIDE DEF x, r, Left
  <2> QED BY <1>4, <1>5, <2>1, <2>2, Zenon DEF Fetcher
<1> HIDE DEF x
<1>7. ASSUME NEW h \in Hashes
      PROVE  StageOK(x, h)
  <2>1. StageOK(g, h)
    OBVIOUS
  <2>2. /\ x.waitlist[h] = g.waitlist[h]
        /\ x.alternates[h] = IF h \in Open(r) THEN None ELSE g.alternates[h]
        /\ x.fetching[h] = IF h \in Open(r) THEN None ELSE g.fetching[h]
        /\ x.announced[h] = IF h \in Open(r) \ S THEN OrNone(Left(h)) ELSE g.announced[h]
    BY <1>6 DEF Clear
  <2>3. \A q \in Peers : /\ x.waitslots[q] = g.waitslots[q]
                         /\ h \in x.announces[q] <=>
                              h \in g.announces[q] /\ (q # p \/ h \notin skipped)
    BY <1>6 DEF Fetcher
  <2>4. CASE h \in Open(r) \ S
    <3>1. \A q \in Peers : h \in x.announces[q] => q \in Left(h)
      BY <1>3, <2>1, <2>3, <2>4 DEF StageOK
    <3>2. Left(h) \in SUBSET Peers
      BY <1>3, <2>4
    <3> HIDE DEF Left
    <3>3. \A q \in Peers : h \in x.announces[q] => x.announced[h] # None /\ q \in x.announced[h]
      BY <2>2, <2>4, <3>1, <3>2, OrNoneFacts
    <3> QED BY <1>3, <2>1, <2>2, <2>3, <2>4, <3>3 DEF StageOK
  <2>5. CASE h \notin Open(r) \ S
    <3>1. h \in Open(r) => g.alternates[h] = None /\ g.fetching[h] = None
      BY <2>1, <2>5 DEF StageOK
    <3>2. /\ x.waitlist[h] = g.waitlist[h] /\ x.alternates[h] = g.alternates[h]
          /\ x.fetching[h] = g.fetching[h] /\ x.announced[h] = g.announced[h]
      BY <2>2, <2>5, <3>1
    <3>3. \A q \in Peers : /\ x.waitslots[q] = g.waitslots[q]
                           /\ h \in x.announces[q] => h \in g.announces[q]
      BY <2>3
    <3> HIDE DEF r, Left
    <3> QED BY <2>1, <3>2, <3>3 DEF StageOK
  <2> QED BY <2>4, <2>5
<1>8. ASSUME NEW h \in Hashes, NEW q \in Peers
      PROVE  x.fetching[h] = q <=> h \in Open(x.requests[q])
  <2>1. x.fetching[h] = IF h \in Open(r) THEN None ELSE g.fetching[h]
    BY <1>6 DEF Clear
  <2>2. CASE q = p
    <3>1. Open(x.requests[q]) = {}
      BY <1>6, <2>2 DEF Fetcher, Open
    <3> QED BY <2>1, <2>2, <3>1, NotNone
  <2>3. CASE q # p
    <3>1. x.requests[q] = g.requests[q]
      BY <1>6, <2>3 DEF Fetcher
    <3>2. h \in Open(r) => g.fetching[h] \in {p, None}
      BY <1>3
    <3> QED BY <2>1, <2>3, <3>1, <3>2, NotNone
  <2> QED BY <2>2, <2>3
<1>9. RequestsOK(x)
  BY <1>8 DEF RequestsOK
<1>10. LimitOK(x)
  <2>1. \A q \in Peers : /\ x.waitslots[q] \subseteq g.waitslots[q]
                         /\ x.announces[q] \subseteq g.announces[q]
    BY <1>6 DEF Fetcher
  <2> QED BY <1>6, <2>1, FewerOK, Zenon DEF MapsOK
<1> QED BY <1>6, <1>7, <1>9, <1>10 DEF MapsOK, x

(* A peer that goes leaves the wait list and the queue, and what was asked of *)
(* it goes back to the queue for the other origins.                           *)
LEMMA DroppedOK ==
  ASSUME NEW g, MapsOK(g), NEW p \in Peers
  PROVE  MapsOK(Dropped(g, p))
<1> DEFINE x == Dropped(g, p)
           S == Open(g.requests[p])
           queue == [h \in Hashes |-> IF h \in S THEN OrNone(g.alternates[h] \ {p}) ELSE g.announced[h]]
           Without(m, T) == [h \in Hashes |-> IF h \in T /\ m[h] # None THEN OrNone(m[h] \ {p}) ELSE m[h]]
<1>1. g \in Fetcher
  BY DEF MapsOK
<1>2. S \subseteq Hashes /\ \A h \in Hashes : h \in S <=> g.fetching[h] = p
  BY <1>1, OpenFacts DEF MapsOK, RequestsOK, Fetcher
<1> HIDE DEF S
<1>3. ASSUME NEW h \in S
      PROVE  /\ g.alternates[h] \in SUBSET Peers
             /\ g.announced[h] = None /\ g.waitlist[h] = None
  <2>1. h \in Hashes /\ g.fetching[h] # None
    BY <1>2, NotNone
  <2> QED BY <1>1, <2>1 DEF MapsOK, StageOK, Fetcher
<1>4. queue \in [Hashes -> (SUBSET Peers) \cup {None}]
  BY <1>1, <1>3, OrNoneFacts DEF Fetcher
<1>5. ASSUME NEW m \in [Hashes -> (SUBSET Peers) \cup {None}], NEW T
      PROVE  /\ Without(m, T) \in [Hashes -> (SUBSET Peers) \cup {None}]
             /\ \A h \in Hashes :
                  /\ m[h] = None => Without(m, T)[h] = None
                  /\ \A q \in Peers \ {p} :
                       (Without(m, T)[h] # None /\ q \in Without(m, T)[h]) <=> (m[h] # None /\ q \in m[h])
                  /\ Without(m, T)[h] # None /\ p \in Without(m, T)[h] =>
                       h \notin T /\ m[h] # None /\ p \in m[h]
  <2>1. ASSUME NEW h \in Hashes, h \in T, m[h] # None
        PROVE  /\ Without(m, T)[h] = OrNone(m[h] \ {p})
               /\ m[h] \in SUBSET Peers
    BY <2>1
  <2>2. \A h \in Hashes : ~(h \in T /\ m[h] # None) => Without(m, T)[h] = m[h]
    OBVIOUS
  <2>3. ASSUME NEW h \in Hashes
        PROVE  Without(m, T)[h] \in (SUBSET Peers) \cup {None}
    BY <2>1, <2>2, OrNoneFacts
  <2>4. Without(m, T) = [h \in Hashes |-> Without(m, T)[h]]
    OBVIOUS
  <2> HIDE DEF Without
  <2>5. Without(m, T) \in [Hashes -> (SUBSET Peers) \cup {None}]
    BY <2>3, <2>4
  <2>6. ASSUME NEW h \in Hashes
        PROVE  /\ m[h] = None => Without(m, T)[h] = None
               /\ \A q \in Peers \ {p} :
                    (Without(m, T)[h] # None /\ q \in Without(m, T)[h]) <=> (m[h] # None /\ q \in m[h])
               /\ Without(m, T)[h] # None /\ p \in Without(m, T)[h] =>
                    h \notin T /\ m[h] # None /\ p \in m[h]
    <3>1. CASE h \in T /\ m[h] # None
      <4> DEFINE L == m[h] \ {p}
      <4>1. L \in SUBSET Peers /\ Without(m, T)[h] = OrNone(L)
        BY <2>1, <3>1
      <4>2. p \notin L /\ \A q \in Peers \ {p} : q \in L <=> q \in m[h]
        OBVIOUS
      <4> HIDE DEF L
      <4> QED BY <3>1, <4>1, <4>2, OrNoneFacts
    <3>2. CASE ~(h \in T /\ m[h] # None)
      BY <2>2, <3>2
    <3> QED BY <3>1, <3>2
  <2> QED BY <2>5, <2>6
<1> HIDE DEF queue, Without
<1>6. /\ Without(g.waitlist, g.waitslots[p]) \in [Hashes -> (SUBSET Peers) \cup {None}]
      /\ Without(queue, g.announces[p]) \in [Hashes -> (SUBSET Peers) \cup {None}]
  BY <1>1, <1>4, <1>5 DEF Fetcher
<1>7. /\ Clear(g.alternates, S) \in [Hashes -> (SUBSET Peers) \cup {None}]
      /\ Clear(g.fetching, S) \in [Hashes -> Peers \cup {None}]
      /\ [g.waitslots EXCEPT ![p] = {}] \in [Peers -> SUBSET Hashes]
      /\ [g.announces EXCEPT ![p] = {}] \in [Peers -> SUBSET Hashes]
      /\ [g.requests EXCEPT ![p] = None] \in [Peers -> Requests \cup {None}]
  BY <1>1 DEF Fetcher, Clear
<1>8. /\ x \in Fetcher
      /\ x.waitlist = Without(g.waitlist, g.waitslots[p])
      /\ x.waitslots = [g.waitslots EXCEPT ![p] = {}]
      /\ x.alternates = Clear(g.alternates, S) /\ x.fetching = Clear(g.fetching, S)
      /\ x.requests = [g.requests EXCEPT ![p] = None]
      /\ x.announced = Without(queue, g.announces[p])
      /\ x.announces = [g.announces EXCEPT ![p] = {}]
  <2>1. x = [g EXCEPT !.waitlist   = Without(g.waitlist, g.waitslots[p]),
                      !.waitslots  = [g.waitslots EXCEPT ![p] = {}],
                      !.alternates = Clear(g.alternates, S),
                      !.fetching   = Clear(g.fetching, S),
                      !.requests   = [g.requests EXCEPT ![p] = None],
                      !.announced  = Without(queue, g.announces[p]),
                      !.announces  = [g.announces EXCEPT ![p] = {}]]
    BY DEF Dropped, S, queue, Without
  <2> HIDE DEF x
  <2> QED BY <1>1, <1>6, <1>7, <2>1, Zenon DEF Fetcher
<1> HIDE DEF x
<1>9. ASSUME NEW h \in Hashes, NEW q \in Peers
      PROVE  x.fetching[h] = q <=> h \in Open(x.requests[q])
  <2>1. x.fetching[h] = IF g.fetching[h] = p THEN None ELSE g.fetching[h]
    BY <1>2, <1>8 DEF Clear
  <2>2. CASE q = p
    <3>1. Open(x.requests[q]) = {}
      BY <1>1, <1>8, <2>2 DEF Fetcher, Open
    <3> QED BY <2>1, <2>2, <3>1, NotNone
  <2>3. CASE q # p
    <3>1. x.requests[q] = g.requests[q]
      BY <1>1, <1>8, <2>3 DEF Fetcher
    <3> QED BY <2>1, <2>3, <3>1, NotNone DEF MapsOK, RequestsOK
  <2> QED BY <2>2, <2>3
<1>10. ASSUME NEW h \in Hashes
       PROVE  StageOK(x, h)
  <2>1. StageOK(g, h)
    BY DEF MapsOK
  <2>2. \A q \in Peers : /\ h \in x.waitslots[q] <=> h \in g.waitslots[q] /\ q # p
                         /\ h \in x.announces[q] <=> h \in g.announces[q] /\ q # p
    BY <1>1, <1>8 DEF Fetcher
  <2>3. /\ x.alternates[h] = IF h \in S THEN None ELSE g.alternates[h]
        /\ x.fetching[h] = IF h \in S THEN None ELSE g.fetching[h]
    BY <1>8 DEF Clear
  <2>4. /\ g.waitlist[h] = None => x.waitlist[h] = None
        /\ \A q \in Peers \ {p} :
             (x.waitlist[h] # None /\ q \in x.waitlist[h]) <=> (g.waitlist[h] # None /\ q \in g.waitlist[h])
        /\ x.waitlist[h] # None /\ p \in x.waitlist[h] =>
             h \notin g.waitslots[p] /\ g.waitlist[h] # None /\ p \in g.waitlist[h]
    <3>1. g.waitlist \in [Hashes -> (SUBSET Peers) \cup {None}]
      BY <1>1 DEF Fetcher
    <3> QED BY <3>1, <1>5, <1>8
  <2>5. /\ queue[h] = None => x.announced[h] = None
        /\ \A q \in Peers \ {p} :
             (x.announced[h] # None /\ q \in x.announced[h]) <=> (queue[h] # None /\ q \in queue[h])
    BY <1>4, <1>5, <1>8
  <2>6. CASE h \in S
    <3>1. queue[h] = OrNone(g.alternates[h] \ {p})
      BY <2>6 DEF queue
    <3>2. \A q \in Peers \ {p} : q \in g.alternates[h] => queue[h] # None /\ q \in queue[h]
      BY <1>3, <2>6, <3>1, OrNoneFacts
    <3>3. x.waitlist[h] = None /\ x.alternates[h] = None /\ x.fetching[h] = None
      BY <1>3, <2>3, <2>4, <2>6
    <3>4. \A q \in Peers : h \notin x.waitslots[q]
      BY <1>3, <2>1, <2>2, <2>6 DEF StageOK
    <3>5. \A q \in Peers : h \in x.announces[q] => q # p /\ q \in g.alternates[h]
      BY <1>3, <2>1, <2>2, <2>6 DEF StageOK
    <3>6. \A q \in Peers : h \in x.announces[q] => x.announced[h] # None /\ q \in x.announced[h]
      BY <2>5, <3>2, <3>5
    <3> QED BY <3>3, <3>4, <3>6 DEF StageOK
  <2>7. CASE h \notin S
    <3>1. queue[h] = g.announced[h]
      BY <2>7 DEF queue
    <3> QED BY <2>1, <2>2, <2>3, <2>4, <2>5, <2>7, <3>1 DEF StageOK
  <2> QED BY <2>6, <2>7
<1>11. RequestsOK(x)
  BY <1>9 DEF RequestsOK
<1>12. LimitOK(x)
  <2>1. \A q \in Peers : /\ x.waitslots[q] \subseteq g.waitslots[q]
                         /\ x.announces[q] \subseteq g.announces[q]
    BY <1>1, <1>8 DEF Fetcher
  <2> QED BY <1>1, <1>8, <2>1, FewerOK, Zenon DEF MapsOK
<1> QED BY <1>8, <1>10, <1>11, <1>12 DEF MapsOK, x

-----------------------------------------------------------------------------
(* Scheduling.                                                                *)

LEMMA ListOK ==
  ASSUME NEW S \in SUBSET Hashes, NEW l \in HashLists(S)
  PROVE  /\ l \in HashLists(Hashes)
         /\ l = <<>> <=> Range(l) = {}
<1>1. PICK T \in SUBSET S : l \in Bijection(1 .. Cardinality(T), T)
  BY DEF HashLists
<1>2. l \in HashLists(Hashes)
  BY <1>1 DEF HashLists
<1>3. T \in SUBSET Hashes /\ IsFiniteSet(T)
  BY <1>1, FetcherAssumption, FS_Subset
<1>4. Cardinality(T) \in Nat /\ l \in [1 .. Cardinality(T) -> T]
  BY <1>1, <1>3, FS_CardinalityType DEF Bijection, Injection
<1>5. CASE Cardinality(T) = 0
  <2>1. T = {} /\ 1 .. Cardinality(T) = {}
    BY <1>3, <1>5, FS_EmptySet
  <2>2. l = <<>>
    BY <1>4, <2>1
  <2> QED BY <1>2, <2>2, EmptyList
<1>6. CASE Cardinality(T) # 0
  <2>1. 1 \in DOMAIN l
    BY <1>4, <1>6
  <2>2. l[1] \in Range(l)
    BY <2>1 DEF Range
  <2> QED BY <1>2, <2>2, EmptyList
<1> QED BY <1>5, <1>6

(* A plan asks an idle peer for hashes that it has announced and that nobody  *)
(* fetches, and no two peers for the same hash.                               *)
LEMMA PlanFacts ==
  ASSUME NEW g \in Fetcher, NEW actives \in SUBSET Peers, NEW b \in Plans(g, actives)
  PROVE  /\ b \in [Peers -> HashLists(Hashes)]
         /\ \A p \in Peers : b[p] = <<>> <=> Range(b[p]) = {}
         /\ \A p \in Peers : \A h \in Range(b[p]) :
              /\ h \in Hashes /\ g.requests[p] = None
              /\ h \in g.announces[p] /\ g.fetching[h] = None
         /\ \A p, q \in Peers : p # q => Range(b[p]) \cap Range(b[q]) = {}
<1> DEFINE askable == Askable(g, actives)
           Free(p) == {h \in Hashes : <<p, h>> \in askable}
           goal == {x[2] : x \in askable}
           Rest(turn, p) == Free(p) \ UNION {Range(b[q]) : q \in {a \in actives : turn[a] < turn[p]}}
<1>1. goal \in SUBSET Hashes
  BY DEF Askable
<1>2. /\ b \in [Peers -> HashLists(goal)]
      /\ \A p \in Peers : Range(b[p]) \subseteq Free(p)
      /\ \E turn \in Injection(actives, 1 .. Cardinality(actives)) : \A p \in actives :
           /\ Range(b[p]) \subseteq Rest(turn, p) /\ Len(b[p]) <= MaxTxRetrievals
           /\ Len(b[p]) < MaxTxRetrievals => Range(b[p]) = Rest(turn, p)
  BY Zenon DEF Plans
<1>3. \A p \in Peers : \A h \in Range(b[p]) :
        /\ p \in actives /\ h \in Hashes /\ g.requests[p] = None
        /\ h \in g.announces[p] /\ g.fetching[h] = None
  BY <1>2, Zenon DEF Askable
<1> HIDE DEF askable, goal, Rest
<1>4. b \in [Peers -> HashLists(Hashes)] /\ \A p \in Peers : b[p] = <<>> <=> Range(b[p]) = {}
  BY <1>1, <1>2, ListOK
<1>5. ASSUME NEW p \in Peers, NEW q \in Peers, p # q, NEW h \in Range(b[p]) \cap Range(b[q])
      PROVE  FALSE
  <2>1. PICK turn \in Injection(actives, 1 .. Cardinality(actives)) :
          \A a \in actives : Range(b[a]) \subseteq Rest(turn, a)
    BY <1>2
  <2>2. p \in actives /\ q \in actives
    BY <1>3, <1>5
  <2>3. turn[p] \in Int /\ turn[q] \in Int /\ turn[p] # turn[q]
    BY <1>5, <2>1, <2>2 DEF Injection, IsInjective
  <2>4. \A a, c \in actives : turn[c] < turn[a] => Range(b[a]) \cap Range(b[c]) = {}
    <3>1. SUFFICES ASSUME NEW a \in actives, NEW c \in actives, turn[c] < turn[a]
                   PROVE  Range(b[a]) \cap Range(b[c]) = {}
      OBVIOUS
    <3> DEFINE taken == UNION {Range(b[d]) : d \in {e \in actives : turn[e] < turn[a]}}
    <3>2. Range(b[c]) \subseteq taken
      BY <3>1
    <3>3. Range(b[a]) \subseteq Rest(turn, a)
      BY <2>1
    <3>4. Rest(turn, a) = Free(a) \ taken
      BY DEF Rest
    <3> HIDE DEF taken, Free
    <3> QED BY <3>2, <3>3, <3>4
  <2>5. turn[p] < turn[q] \/ turn[q] < turn[p]
    BY <2>3
  <2>6. Range(b[p]) \cap Range(b[q]) = {}
    BY <2>2, <2>4, <2>5, Zenon
  <2> QED BY <1>5, <2>6
<1> QED BY <1>3, <1>4, <1>5

(* Sending the requests of a plan moves their hashes from the queue to their  *)
(* fetcher.                                                                   *)
LEMMA RequestOK ==
  ASSUME NEW g, MapsOK(g), NEW actives \in SUBSET Peers, NEW b \in Plans(g, actives)
  PROVE  MapsOK(Request(g, b))
<1> DEFINE x == Request(g, b)
           all == UNION {Range(b[p]) : p \in Peers}
           Asked(h) == CHOOSE p \in Peers : h \in Range(b[p])
<1>1. g \in Fetcher
  BY DEF MapsOK
<1>2. /\ b \in [Peers -> HashLists(Hashes)]
      /\ \A p \in Peers : b[p] = <<>> <=> Range(b[p]) = {}
      /\ \A p \in Peers : \A h \in Range(b[p]) :
           /\ h \in Hashes /\ g.requests[p] = None
           /\ h \in g.announces[p] /\ g.fetching[h] = None
      /\ \A p, q \in Peers : p # q => Range(b[p]) \cap Range(b[q]) = {}
  BY <1>1, PlanFacts, Zenon
<1>3. ASSUME NEW h \in Hashes
      PROVE  /\ h \in all <=> \E p \in Peers : h \in Range(b[p])
             /\ h \in all => Asked(h) \in Peers /\ h \in Range(b[Asked(h)])
             /\ \A p \in Peers : h \in Range(b[p]) <=> h \in all /\ Asked(h) = p
  <2>1. h \in all <=> \E p \in Peers : h \in Range(b[p])
    OBVIOUS
  <2>2. h \in all => Asked(h) \in Peers /\ h \in Range(b[Asked(h)])
    BY <2>1
  <2> QED BY <1>2, <2>1, <2>2
<1> HIDE DEF all, Asked
<1>4. ASSUME NEW h \in Hashes, h \in all
      PROVE  /\ g.fetching[h] = None /\ g.alternates[h] = None /\ g.waitlist[h] = None
             /\ g.announced[h] # None
  <2>1. g.fetching[h] = None /\ h \in g.announces[Asked(h)] /\ Asked(h) \in Peers
    BY <1>2, <1>3, <1>4
  <2>2. StageOK(g, h)
    BY DEF MapsOK
  <2> QED BY <2>1, <2>2 DEF StageOK
<1>5. /\ [h \in Hashes |-> IF h \in all THEN Asked(h) ELSE g.fetching[h]] \in [Hashes -> Peers \cup {None}]
      /\ [h \in Hashes |-> IF h \in all THEN g.announced[h] ELSE g.alternates[h]]
           \in [Hashes -> (SUBSET Peers) \cup {None}]
      /\ Clear(g.announced, all) \in [Hashes -> (SUBSET Peers) \cup {None}]
  BY <1>1, <1>3 DEF Fetcher, Clear
<1>6. [p \in Peers |-> IF b[p] = <<>> THEN g.requests[p] ELSE [hashes |-> b[p], stolen |-> {}]]
        \in [Peers -> Requests \cup {None}]
  BY <1>1, <1>2 DEF Fetcher, Requests
<1>7. /\ x \in Fetcher
      /\ x.waitlist = g.waitlist /\ x.waitslots = g.waitslots /\ x.announces = g.announces
      /\ x.fetching = [h \in Hashes |-> IF h \in all THEN Asked(h) ELSE g.fetching[h]]
      /\ x.alternates = [h \in Hashes |-> IF h \in all THEN g.announced[h] ELSE g.alternates[h]]
      /\ x.announced = Clear(g.announced, all)
      /\ x.requests = [p \in Peers |-> IF b[p] = <<>> THEN g.requests[p]
                                       ELSE [hashes |-> b[p], stolen |-> {}]]
  <2>1. x = [g EXCEPT
               !.fetching   = [h \in Hashes |-> IF h \in all THEN Asked(h) ELSE g.fetching[h]],
               !.alternates = [h \in Hashes |-> IF h \in all THEN g.announced[h] ELSE g.alternates[h]],
               !.announced  = Clear(g.announced, all),
               !.requests   = [p \in Peers |-> IF b[p] = <<>> THEN g.requests[p]
                                               ELSE [hashes |-> b[p], stolen |-> {}]]]
    BY DEF Request, all, Asked
  <2> HIDE DEF x
  <2> QED BY <1>1, <1>5, <1>6, <2>1, Zenon DEF Fetcher
<1> HIDE DEF x
<1>8. ASSUME NEW h \in Hashes
      PROVE  StageOK(x, h)
  <2>1. StageOK(g, h)
    BY DEF MapsOK
  <2>2. /\ x.announced[h] = IF h \in all THEN None ELSE g.announced[h]
        /\ x.alternates[h] = IF h \in all THEN g.announced[h] ELSE g.alternates[h]
        /\ x.fetching[h] = IF h \in all THEN Asked(h) ELSE g.fetching[h]
        /\ x.waitlist[h] = g.waitlist[h]
    BY <1>7 DEF Clear
  <2>3. h \in all => Asked(h) # None
    BY <1>3, NotNone
  <2> QED BY <1>4, <1>7, <2>1, <2>2, <2>3, Zenon DEF StageOK
<1>9. ASSUME NEW h \in Hashes, NEW p \in Peers
      PROVE  x.fetching[h] = p <=> h \in Open(x.requests[p])
  <2>1. g.fetching[h] = p <=> h \in Open(g.requests[p])
    BY DEF MapsOK, RequestsOK
  <2>2. x.fetching[h] = IF h \in all THEN Asked(h) ELSE g.fetching[h]
    BY <1>7
  <2>3. CASE b[p] = <<>>
    <3>1. x.requests[p] = g.requests[p] /\ h \notin Range(b[p])
      BY <1>2, <1>7, <2>3
    <3> QED BY <1>3, <1>4, <2>1, <2>2, <3>1, NotNone
  <2>4. CASE b[p] # <<>>
    <3>1. g.requests[p] = None
      BY <1>2, <2>4
    <3>2. g.fetching[h] # p
      BY <2>1, <3>1 DEF Open
    <3>3. /\ x.requests[p] \in Requests /\ x.requests[p].hashes = b[p]
          /\ x.requests[p].stolen = {}
      <4>1. x.requests[p] = [hashes |-> b[p], stolen |-> {}]
        BY <1>7, <2>4
      <4>2. b[p] \in HashLists(Hashes)
        BY <1>2
      <4> QED BY <4>1, <4>2 DEF Requests
    <3>4. Open(x.requests[p]) = Range(b[p])
      BY <3>3, NotNone DEF Open
    <3> QED BY <1>3, <2>2, <3>2, <3>4
  <2> QED BY <2>3, <2>4
<1>10. RequestsOK(x)
  BY <1>9 DEF RequestsOK
<1>11. LimitOK(x)
  <2>1. \A q \in Peers : /\ x.waitslots[q] \subseteq g.waitslots[q]
                         /\ x.announces[q] \subseteq g.announces[q]
    BY <1>1, <1>7 DEF Fetcher
  <2> QED BY <1>1, <1>7, <2>1, FewerOK DEF MapsOK
<1> QED BY <1>7, <1>8, <1>10, <1>11 DEF MapsOK, x

Wires == [Peers -> Seq(HashLists(Hashes))]

LEMMA ScheduleOK ==
  ASSUME NEW STATE g, MapsOK(g), NEW STATE sent, sent \in Wires,
         NEW STATE actives, actives \in SUBSET Peers, NEW STATE wait, NEW STATE rearm,
         ScheduleFetches(g, sent, actives, wait, rearm)
  PROVE  MapsOK(f)' /\ (wire \in Wires)'
<1>1. PICK b \in Plans(g, actives) :
        /\ f' = Request(g, b)
        /\ wire' = [p \in Peers |-> IF b[p] = <<>> THEN sent[p] ELSE Append(sent[p], b[p])]
  BY DEF ScheduleFetches
<1>2. MapsOK(f')
  BY <1>1, RequestOK
<1>3. b \in [Peers -> HashLists(Hashes)]
  BY <1>1, PlanFacts DEF MapsOK
<1>4. wire' \in Wires
  BY <1>1, <1>3 DEF Wires
<1> QED BY <1>2, <1>4

-----------------------------------------------------------------------------
(* The steps of the fetcher and its peers.                                    *)

Inv == MapsOK(f) /\ call \in [Peers -> Calls \cup {None}] /\ wire \in Wires

LEMMA InitInv == Init => Inv
<1> SUFFICES ASSUME Init PROVE Inv
  OBVIOUS
<1>1. MapsOK(f)
  BY EmptyOK DEF Init
<1>2. call \in [Peers -> Calls \cup {None}] /\ wire \in Wires
  BY DEF Init, Wires
<1> QED BY <1>1, <1>2 DEF Inv

(* A call that waits has hashes and, when it is a delivery, says whether it   *)
(* is an answer.                                                              *)
LEMMA CallFacts ==
  ASSUME NEW c \in Calls
  PROVE  c.hashes \in SUBSET Hashes /\ (c.op = "deliver" => c.direct \in BOOLEAN)
  BY DEF Calls

LEMMA TakeAnnounceInv ==
  ASSUME Inv, NEW p \in Peers, TakeAnnounce(p)
  PROVE  Inv'
<1>1. call[p].hashes \in SUBSET Hashes
  BY CallFacts DEF Inv, TakeAnnounce
<1>2. call' \in [Peers -> Calls \cup {None}]
  BY Zenon DEF Inv, TakeAnnounce
<1>3. CASE UNCHANGED <<f, timers, wire>>
  BY <1>2, <1>3 DEF Inv
<1>4. CASE ~UNCHANGED <<f, timers, wire>>
  <2> DEFINE room == MaxTxAnnounces - Used(f, p)
             wanted == Cardinality(call[p].hashes)
  <2>1. /\ Used(f, p) \in Nat /\ MaxTxAnnounces \in Nat /\ Used(f, p) < MaxTxAnnounces
        /\ wanted \in Nat
    <3>1. Used(f, p) \in Nat /\ MaxTxAnnounces \in Nat
      BY UsedFacts, FetcherAssumption DEF Inv, MapsOK
    <3>2. wanted \in Nat
      BY <1>1, FetcherAssumption, FS_Subset, FS_CardinalityType
    <3>3. ~(Used(f, p) >= MaxTxAnnounces)
      BY <1>4, Zenon DEF TakeAnnounce
    <3> QED BY <3>1, <3>2, <3>3
  <2>2. PICK S \in SUBSET call[p].hashes, actives \in {{p}, {}}, wait \in {timers.wait, TRUE, FALSE} :
          /\ Cardinality(S) = IF Used(f, p) + wanted > MaxTxAnnounces THEN room ELSE wanted
          /\ ScheduleFetches(Announced(f, p, S), wire, actives, wait, FALSE)
    BY <1>4, Zenon DEF TakeAnnounce
  <2>3. Used(f, p) + Cardinality(S) <= MaxTxAnnounces
    BY <2>1, <2>2
  <2>4. MapsOK(Announced(f, p, S))
    BY <1>1, <2>3, AnnouncedOK DEF Inv
  <2>5. MapsOK(f)' /\ (wire \in Wires)'
    BY <2>2, <2>4, ScheduleOK, Zenon DEF Inv
  <2> QED BY <1>2, <2>5 DEF Inv
<1> QED BY <1>3, <1>4

LEMMA WaitTriggerInv ==
  ASSUME Inv, NEW E \in SUBSET Hashes, WaitTrigger(E)
  PROVE  Inv'
<1>1. MapsOK(Expired(f, E))
  BY ExpiredOK DEF Inv, WaitTrigger
<1>2. UNION {f.waitlist[h] : h \in E} \in SUBSET Peers
  BY DEF Inv, WaitTrigger, MapsOK, Fetcher, Waiting
<1>3. MapsOK(f)' /\ (wire \in Wires)'
  BY <1>1, <1>2, ScheduleOK, Zenon DEF Inv, WaitTrigger
<1> QED BY <1>3 DEF Inv, WaitTrigger

LEMMA TimeoutTriggerInv ==
  ASSUME Inv, NEW X \in SUBSET Peers, TimeoutTrigger(X)
  PROVE  Inv'
<1>1. MapsOK(TimedOut(f, X))
  BY TimedOutOK DEF Inv, TimeoutTrigger
<1>2. Queued(TimedOut(f, X)) \in SUBSET Peers
  BY DEF Queued
<1>3. MapsOK(f)' /\ (wire \in Wires)'
  BY <1>1, <1>2, ScheduleOK, Zenon DEF Inv, TimeoutTrigger
<1> QED BY <1>3 DEF Inv, TimeoutTrigger

LEMMA TakeDeliveryInv ==
  ASSUME Inv, NEW p \in Peers, TakeDelivery(p)
  PROVE  Inv'
<1> DEFINE S == call[p].hashes
           direct == call[p].direct
           g == Forget(f, p, direct, S)
           a == Answered(g, p, S)
<1>1. S \in SUBSET Hashes /\ direct \in BOOLEAN
  BY CallFacts, Zenon DEF Inv, TakeDelivery
<1>2. call' \in [Peers -> Calls \cup {None}]
  BY Zenon DEF Inv, TakeDelivery
<1>3. \/ direct /\ ScheduleFetches(a, wire, Queued(a), timers.wait, FALSE)
      \/ (~direct \/ g.requests[p] = None) /\ f' = g /\ UNCHANGED <<timers, wire>>
  BY <1>1, Zenon DEF TakeDelivery
<1>4. Forgotten(g, p, direct, S)
  BY <1>1, ForgetOK DEF Inv
<1>5. CASE direct /\ ScheduleFetches(a, wire, Queued(a), timers.wait, FALSE)
  <2> HIDE DEF g
  <2>1. MapsOK(a)
    BY <1>1, <1>4, <1>5, AnsweredOK, Zenon DEF Forgotten
  <2>2. Queued(a) \in SUBSET Peers
    BY DEF Queued
  <2> HIDE DEF a
  <2>3. MapsOK(f)' /\ (wire \in Wires)'
    BY <1>5, <2>1, <2>2, ScheduleOK, Zenon DEF Inv
  <2> QED BY <1>2, <2>3 DEF Inv
<1>6. CASE (~direct \/ g.requests[p] = None) /\ f' = g /\ UNCHANGED <<timers, wire>>
  <2> HIDE DEF g, S, direct
  <2>1. ASSUME NEW h \in Hashes, NEW q \in Peers
        PROVE  g.fetching[h] = q <=> h \in Open(g.requests[q])
    <3>1. CASE q # p \/ ~direct \/ h \notin S
      BY <1>4, <3>1 DEF Forgotten
    <3>2. CASE q = p /\ direct /\ h \in S
      BY <1>4, <1>6, <3>2, NotNone DEF Forgotten, Open
    <3> QED BY <3>1, <3>2
  <2>2. MapsOK(g)
    BY <1>4, <2>1 DEF Forgotten, MapsOK, RequestsOK
  <2> QED BY <1>2, <1>6, <2>2 DEF Inv
<1> QED BY <1>3, <1>5, <1>6, Zenon

LEMMA DropInv ==
  ASSUME Inv, NEW p \in Peers, Drop(p)
  PROVE  Inv'
<1> DEFINE g == Dropped(f, p)
           sent == [wire EXCEPT ![p] = <<>>]
           wait == timers.wait \/ (f.waitslots[p] # {} /\ Waiting(g) # {})
<1>1. MapsOK(g)
  BY DroppedOK DEF Inv
<1>2. Queued(g) \in SUBSET Peers /\ sent \in Wires
  BY DEF Queued, Inv, Wires
<1>3. \/ ScheduleFetches(g, sent, Queued(g), wait, TRUE)
      \/ f' = g /\ wire' = sent
  BY Zenon DEF Drop
<1> HIDE DEF g, sent, wait
<1>4. CASE ScheduleFetches(g, sent, Queued(g), wait, TRUE)
  <2>1. MapsOK(f)' /\ (wire \in Wires)'
    BY <1>1, <1>2, <1>4, ScheduleOK, Zenon
  <2> QED BY <2>1 DEF Inv, Drop
<1>5. CASE f' = g /\ wire' = sent
  BY <1>1, <1>2, <1>5 DEF Inv, Drop
<1> QED BY <1>3, <1>4, <1>5, Zenon

LEMMA EnqueueCall ==
  ASSUME Inv, NEW p \in Peers, NEW S \in SUBSET Hashes, NEW direct \in BOOLEAN,
         Enqueue(p, S, direct)
  PROVE  MapsOK(f') /\ call' \in [Peers -> Calls \cup {None}]
<1>1. [op |-> "deliver", hashes |-> S, direct |-> direct] \in Calls
  BY DEF Calls
<1> QED BY <1>1 DEF Inv, Enqueue

LEMMA HandlerInv ==
  ASSUME Inv, NEW p \in Peers,
         Reply(p) \/ \E S \in SUBSET Hashes : Notify(p, S) \/ Broadcast(p, S)
  PROVE  Inv'
<1>1. CASE Reply(p)
  <2>1. PICK S \in SUBSET Range(wire[p][1]) : Enqueue(p, S, TRUE)
    BY <1>1, Zenon DEF Reply
  <2>2. wire \in Wires /\ wire[p] # <<>>
    BY <1>1 DEF Reply, Inv
  <2>3. wire[p][1] \in HashLists(Hashes) /\ Tail(wire[p]) \in Seq(HashLists(Hashes))
    BY <2>2 DEF Wires
  <2>4. S \in SUBSET Hashes
    BY <2>1, <2>3, ListFacts
  <2>5. wire' \in Wires
    BY <1>1, <2>2, <2>3 DEF Reply, Wires
  <2>6. MapsOK(f') /\ call' \in [Peers -> Calls \cup {None}]
    BY <2>1, <2>4, EnqueueCall, Zenon
  <2> QED BY <2>5, <2>6 DEF Inv
<1>2. ASSUME NEW S \in SUBSET Hashes, Notify(p, S)
      PROVE  Inv'
  <2>1. [op |-> "announce", hashes |-> S \ (pool \cup cheap)] \in Calls
    BY DEF Calls
  <2> QED BY <1>2, <2>1 DEF Inv, Notify
<1>3. ASSUME NEW S \in SUBSET Hashes, Broadcast(p, S)
      PROVE  Inv'
  <2>1. PICK direct \in BOOLEAN : Enqueue(p, S, direct)
    BY <1>3 DEF Broadcast
  <2>2. MapsOK(f') /\ call' \in [Peers -> Calls \cup {None}]
    BY <2>1, EnqueueCall
  <2> QED BY <1>3, <2>2 DEF Inv, Broadcast
<1> QED BY <1>1, <1>2, <1>3

LEMMA NextInv == Inv /\ [Next]_vars => Inv'
<1> SUFFICES ASSUME Inv, [Next]_vars PROVE Inv'
  OBVIOUS
<1>1. ASSUME NEW p \in Peers, TakeAnnounce(p) \/ TakeDelivery(p) \/ Drop(p) \/ Reply(p)
      PROVE  Inv'
  BY <1>1, TakeAnnounceInv, TakeDeliveryInv, DropInv, HandlerInv
<1>2. ASSUME NEW p \in Peers, NEW S \in SUBSET Hashes \ {{}}, Notify(p, S) \/ Broadcast(p, S)
      PROVE  Inv'
  BY <1>2, HandlerInv
<1>3. ASSUME NEW E \in SUBSET Hashes, WaitTrigger(E)
      PROVE  Inv'
  BY <1>3, WaitTriggerInv
<1>4. ASSUME NEW X \in SUBSET Peers, TimeoutTrigger(X)
      PROVE  Inv'
  BY <1>4, TimeoutTriggerInv
<1>5. CASE UNCHANGED vars
  BY <1>5 DEF Inv, vars
<1> QED BY <1>1, <1>2, <1>3, <1>4, <1>5 DEF Next

-----------------------------------------------------------------------------
(* What holds of the fetcher at any time.                                     *)

LEMMA InvAlways == Spec => []Inv
  BY InitInv, NextInv, PTL DEF Spec

(* The loop's maps, the calls that wait for it and the requests under way are *)
(* well formed at all times.                                                  *)
THEOREM FetcherTypes == Spec => []TypeOK
<1>1. Inv => TypeOK
  BY DEF Inv, MapsOK, TypeOK, Wires
<1> QED BY <1>1, InvAlways, PTL

(* In every case of the loop, with any peers, hashes and limits: a hash is in *)
(* one of the three stages at most, and the per-peer indexes agree with the   *)
(* stages.  The four panics of the loop ("already in ...") never happen.     *)
THEOREM StagesAreDisjoint == Spec => []OneStage
<1>1. Inv => OneStage
  BY DEF Inv, MapsOK, OneStage
<1> QED BY <1>1, InvAlways, PTL

(* A hash is being fetched from a peer exactly when the request of that peer  *)
(* lists it and no other delivery has taken it: the delivery case, which      *)
(* follows fetching to the request without checking that there is one, always *)
(* finds it.                                                                  *)
THEOREM FetchingHasRequest == Spec => []FetchedIsRequested
<1>1. Inv => FetchedIsRequested
  BY DEF Inv, MapsOK, FetchedIsRequested
<1> QED BY <1>1, InvAlways, PTL

(* The memory that a peer can make the fetcher spend is bounded: at no time   *)
(* does a peer have more than maxTxAnnounces hashes waiting or queued.  The   *)
(* check is made on announcements only; what a timeout, an answer or another  *)
(* peer's departure queues again is never more than what was counted.         *)
THEOREM PeersStayWithinLimit == Spec => []WithinLimit
<1>1. Inv => WithinLimit
  BY DEF Inv, MapsOK, WithinLimit
<1> QED BY <1>1, InvAlways, PTL

=============================================================================
