----------------------------- MODULE TxFetcher -----------------------------
(***************************************************************************)
(* eth/fetcher/tx_fetcher.go: retrieval of announced transactions.  A hash *)
(* waits for a broadcast (stage 1), is queued for the peers that announced *)
(* it (stage 2) and is fetched from one of them (stage 3).                 *)
(*                                                                         *)
(* f is the fetcher's maps, touched by its loop only; a map without an     *)
(* entry holds None (a set of hashes: {}).  A call of a peer's handler     *)
(* filters or pools the transactions first and then waits in call[p] for   *)
(* the loop.  Go's random map orders are the choices of Plans.  Time is    *)
(* left out: a timer that is armed may fire, and finds any set of entries  *)
(* due.                                                                    *)
(***************************************************************************)
EXTENDS Integers, Sequences, FiniteSets, Functions

CONSTANTS Peers, Hashes,
          Fate,            \* what the pool does with each transaction: it is
                           \* "good", "cheap" or "bad"
          MaxTxAnnounces,  \* maxTxAnnounces, per peer
          MaxTxRetrievals, \* maxTxRetrievals, per request
          MaxNotices, MaxBroadcasts, MaxDrops, \* bounds on the peers' doings
          None

ASSUME FetcherAssumption ==
  /\ IsFiniteSet(Peers) /\ IsFiniteSet(Hashes)
  /\ MaxTxAnnounces \in Nat /\ MaxTxRetrievals \in Nat \ {0}

VARIABLES f,        \* the loop's state
          timers,   \* which of the loop's two timers are armed
          pool,     \* hasTx
          cheap,    \* underpriced
          call,     \* the call of each peer's handler that waits for the loop
          wire,     \* requests sent to each peer and not answered
          used      \* how much of each bound has been used
vars == <<f, timers, pool, cheap, call, wire, used>>

Empty ==
  [waitlist |-> [h \in Hashes |-> None],  waitslots |-> [p \in Peers |-> {}],
   announced |-> [h \in Hashes |-> None], announces |-> [p \in Peers |-> {}],
   alternates |-> [h \in Hashes |-> None], fetching |-> [h \in Hashes |-> None],
   requests |-> [p \in Peers |-> None]]

Waiting(g) == {h \in Hashes : g.waitlist[h] # None}

(* A set of peers as a map entry: an empty one is deleted. *)
OrNone(S) == IF S = {} THEN None ELSE S

(* Map m without its entries for T, and with p in its entries for T. *)
Clear(m, T) == [h \in Hashes |-> IF h \in T THEN None ELSE m[h]]
Join(m, T, p) == [h \in Hashes |-> IF h \notin T THEN m[h]
                                   ELSE IF m[h] = None THEN {p} ELSE m[h] \cup {p}]

-----------------------------------------------------------------------------
(* scheduleFetches *)

(* The requests for some of the hashes S, in any order of them. *)
HashLists(S) == UNION {Bijection(1 .. Cardinality(T), T) : T \in SUBSET S}

(* Who may be asked for what: idle peers for hashes that they announced and that
   nobody fetches. *)
Askable(g, actives) ==
  {x \in actives \X Hashes :
     g.requests[x[1]] = None /\ x[2] \in g.announces[x[1]] /\ g.fetching[x[2]] = None}

(* What each peer may be asked for, up to the limit, when the active ones take
   their turns in any order. *)
Plans(g, actives) ==
  LET askable == Askable(g, actives)
      Free(p) == {h \in Hashes : <<p, h>> \in askable}
  IN {b \in [Peers -> HashLists({x[2] : x \in askable})] :
        /\ \A p \in Peers : Range(b[p]) \subseteq Free(p)
        /\ \E turn \in Injection(actives, 1 .. Cardinality(actives)) : \A p \in actives :
             LET left == Free(p) \ UNION {Range(b[q]) : q \in {a \in actives : turn[a] < turn[p]}}
             IN /\ Range(b[p]) \subseteq left /\ Len(b[p]) <= MaxTxRetrievals
                /\ Len(b[p]) < MaxTxRetrievals => Range(b[p]) = left}

Request(g, b) ==
  LET all == UNION {Range(b[p]) : p \in Peers}
  IN [g EXCEPT !.fetching   = [h \in Hashes |-> IF h \in all THEN CHOOSE p \in Peers : h \in Range(b[p])
                                                ELSE g.fetching[h]],
               !.alternates = [h \in Hashes |-> IF h \in all THEN g.announced[h] ELSE g.alternates[h]],
               !.announced  = Clear(g.announced, all),
               !.requests   = [p \in Peers |-> IF b[p] = <<>> THEN g.requests[p]
                                               ELSE [hashes |-> b[p], stolen |-> {}]]]

Idle(g) == \A p \in Peers : g.requests[p] = None

(* The loop's step from g: schedule, send the new requests, and arm the timeout
   timer when they are the only ones (or when rescheduleTimeout is called). *)
ScheduleFetches(g, sent, actives, wait, rearm) ==
  \E b \in Plans(g, actives) :
    /\ f' = Request(g, b)
    /\ wire' = [p \in Peers |-> IF b[p] = <<>> THEN sent[p] ELSE Append(sent[p], b[p])]
    /\ timers' = [wait |-> wait,
                  timeout |-> timers.timeout \/ rearm \/ (Idle(g) /\ \E p \in Peers : b[p] # <<>>)]

-----------------------------------------------------------------------------
(* The loop's cases *)

(* Plausible mistake: a queued hash is put on the wait list again. *)
AnnouncedAgain(g, p, S) ==
  LET fetched == {h \in S : g.alternates[h] # None}
      new == S \ fetched
  IN [g EXCEPT !.alternates = Join(g.alternates, fetched, p),
               !.announces  = [g.announces EXCEPT ![p] = @ \cup fetched],
               !.waitlist   = Join(g.waitlist, new, p),
               !.waitslots  = [g.waitslots EXCEPT ![p] = @ \cup new]]

(* Announced hashes: p is an alternate of those that are fetched, an origin of
   those queued or waiting, and the first origin of new ones. *)
Announced(g, p, S) ==
  LET fetched == {h \in S : g.alternates[h] # None}
      queued == {h \in S \ fetched : g.announced[h] # None}
      new == S \ (fetched \cup queued)
  IN [g EXCEPT !.alternates = Join(g.alternates, fetched, p),
               !.announced  = Join(g.announced, queued, p),
               !.announces  = [g.announces EXCEPT ![p] = @ \cup fetched \cup queued],
               !.waitlist   = Join(g.waitlist, new, p),
               !.waitslots  = [g.waitslots EXCEPT ![p] = @ \cup new]]

Used(g, p) == Cardinality(g.waitslots[p]) + Cardinality(g.announces[p])

(* case ann := <-f.notify.  The hashes beyond the peer's limit are cut off. *)
TakeAnnounce(p) ==
  /\ call[p] # None /\ call[p].op = "announce"
  /\ call' = [call EXCEPT ![p] = None]
  /\ UNCHANGED <<pool, cheap, used>>
  /\ IF Used(f, p) >= MaxTxAnnounces THEN UNCHANGED <<f, timers, wire>>
     ELSE \E S \in SUBSET call[p].hashes :
       /\ Cardinality(S) = IF Used(f, p) + Cardinality(call[p].hashes) > MaxTxAnnounces
                             THEN MaxTxAnnounces - Used(f, p) ELSE Cardinality(call[p].hashes)
       /\ LET g == Announced(f, p, S)
              arms == Waiting(f) = {} /\ Waiting(g) # {}
              fetch == f.announces[p] = {} /\ g.announces[p] # {}
          IN ScheduleFetches(g, wire, IF fetch THEN {p} ELSE {}, timers.wait \/ arms, FALSE)

(* case <-waitTrigger: the hashes whose time has run out are queued. *)
Expired(g, E) ==
  [g EXCEPT !.announced = [h \in Hashes |-> IF h \in E THEN g.waitlist[h] ELSE g.announced[h]],
            !.waitlist  = Clear(g.waitlist, E),
            !.announces = [p \in Peers |-> g.announces[p] \cup (g.waitslots[p] \cap E)],
            !.waitslots = [p \in Peers |-> g.waitslots[p] \ E]]

WaitTrigger(E) ==
  /\ timers.wait
  /\ E \subseteq Waiting(f)
  /\ LET g == Expired(f, E) IN
     ScheduleFetches(g, wire, UNION {f.waitlist[h] : h \in E}, Waiting(g) # {}, FALSE)
  /\ UNCHANGED <<pool, cheap, call, used>>

(* The hashes of a request that nobody else has delivered. *)
Open(r) == IF r = None THEN {} ELSE Range(r.hashes) \ r.stolen

(* case <-timeoutTrigger: the hashes of expired requests go back to the queue for
   their other origins; the requests stay, dangling. *)
TimedOut(g, X) ==
  LET Late(h) == {p \in X : h \in Open(g.requests[p])}
      all == {h \in Hashes : Late(h) # {}}
  IN [g EXCEPT !.announced  = [h \in Hashes |-> IF h \in all THEN OrNone(g.alternates[h] \ Late(h))
                                                ELSE g.announced[h]],
               !.alternates = Clear(g.alternates, all),
               !.fetching   = Clear(g.fetching, all),
               !.announces  = [p \in Peers |-> IF p \in X THEN g.announces[p] \ Open(g.requests[p])
                                               ELSE g.announces[p]],
               !.requests   = [p \in Peers |-> IF p \in X THEN [hashes |-> <<>>, stolen |-> g.requests[p].stolen]
                                               ELSE g.requests[p]]]

Queued(g) == {p \in Peers : g.announces[p] # {}}

TimeoutTrigger(X) ==
  /\ timers.timeout
  /\ X \subseteq {p \in Peers : f.requests[p] # None}
  /\ LET g == TimedOut(f, X) IN ScheduleFetches(g, wire, Queued(g), timers.wait, TRUE)
  /\ UNCHANGED <<pool, cheap, call, used>>

(* case delivery := <-f.cleanup: every trace of the delivered hashes goes. *)
Removed(g, S, requests) ==
  LET early == {h \in S : g.waitlist[h] # None}
      rest == S \ early
  IN [g EXCEPT !.waitlist   = Clear(g.waitlist, early),
               !.waitslots  = [q \in Peers |-> g.waitslots[q] \ early],
               !.announces  = [q \in Peers |-> g.announces[q] \ rest],
               !.announced  = Clear(g.announced, rest),
               !.alternates = Clear(g.alternates, rest),
               !.fetching   = Clear(g.fetching, rest),
               !.requests   = requests]

(* Plausible mistake: a broadcast by the peer that was asked is no theft. *)
ForgetDirect(g, p, direct, S) ==
  LET Stolen(q) == {h \in S : g.waitlist[h] = None /\ g.fetching[h] = q /\ q # p}
  IN Removed(g, S, [q \in Peers |->
       IF Stolen(q) = {} THEN g.requests[q]
       ELSE [hashes |-> g.requests[q].hashes, stolen |-> g.requests[q].stolen \cup Stolen(q)]])

(* A request for a delivered hash is told, unless the delivery is its answer. *)
Forget(g, p, direct, S) ==
  LET Stolen(q) == {h \in S : g.waitlist[h] = None /\ g.fetching[h] = q /\ (q # p \/ ~direct)}
  IN Removed(g, S, [q \in Peers |->
       IF Stolen(q) = {} THEN g.requests[q]
       ELSE [hashes |-> g.requests[q].hashes, stolen |-> g.requests[q].stolen \cup Stolen(q)]])

(* Plausible mistake: an empty answer means that everything is to be retried. *)
SkippedRetries(r, S) ==
  LET last == {i \in 1..Len(r.hashes) : r.hashes[i] \in S}
      cutoff == IF last = {} THEN 1 ELSE CHOOSE i \in last : \A j \in last : j <= i
  IN {h \in Open(r) \ S : \E i \in 1..Len(r.hashes) : r.hashes[i] = h /\ i < cutoff}

(* What the peer left out before the last hash that it delivered, or everything
   when it delivered nothing. *)
Skipped(r, S) ==
  LET last == {i \in 1..Len(r.hashes) : r.hashes[i] \in S}
      cutoff == IF last = {} THEN Len(r.hashes) + 1 ELSE CHOOSE i \in last : \A j \in last : j <= i
  IN {h \in Open(r) \ S : \E i \in 1..Len(r.hashes) : r.hashes[i] = h /\ i < cutoff}

(* The peer's request is over.  What it skipped is queued for other origins
   only, what comes after its last delivered hash also for the peer itself. *)
Answered(g, p, S) ==
  LET r == g.requests[p]
      skipped == Skipped(r, S)
      Left(h) == IF h \in skipped THEN g.alternates[h] \ {p} ELSE g.alternates[h]
  IN [g EXCEPT !.requests   = [g.requests EXCEPT ![p] = None],
               !.announces  = [g.announces EXCEPT ![p] = @ \ skipped],
               !.announced  = [h \in Hashes |-> IF h \in Open(r) \ S THEN OrNone(Left(h)) ELSE g.announced[h]],
               !.alternates = Clear(g.alternates, Open(r)),
               !.fetching   = Clear(g.fetching, Open(r))]

TakeDelivery(p) ==
  /\ call[p] # None /\ call[p].op = "deliver"
  /\ call' = [call EXCEPT ![p] = None]
  /\ UNCHANGED <<pool, cheap, used>>
  /\ LET S == call[p].hashes
         g == Forget(f, p, call[p].direct, S)
         a == Answered(g, p, S)
     IN IF call[p].direct /\ g.requests[p] # None
          THEN ScheduleFetches(a, wire, Queued(a), timers.wait, FALSE)
          ELSE f' = g /\ UNCHANGED <<timers, wire>>

(* case drop := <-f.drop: the peer disappears from the wait list, its request
   is cancelled, and it disappears from the queue.  Its connection is gone. *)
Dropped(g, p) ==
  LET S == Open(g.requests[p])
      queue == [h \in Hashes |-> IF h \in S THEN OrNone(g.alternates[h] \ {p}) ELSE g.announced[h]]
      Without(m, T) == [h \in Hashes |-> IF h \in T /\ m[h] # None THEN OrNone(m[h] \ {p}) ELSE m[h]]
  IN [g EXCEPT !.waitlist   = Without(g.waitlist, g.waitslots[p]),
               !.waitslots  = [g.waitslots EXCEPT ![p] = {}],
               !.alternates = Clear(g.alternates, S),
               !.fetching   = Clear(g.fetching, S),
               !.requests   = [g.requests EXCEPT ![p] = None],
               !.announced  = Without(queue, g.announces[p]),
               !.announces  = [g.announces EXCEPT ![p] = {}]]

Drop(p) ==
  /\ used.drops < MaxDrops
  /\ used' = [used EXCEPT !.drops = @ + 1]
  /\ LET g == Dropped(f, p)
         wait == timers.wait \/ (f.waitslots[p] # {} /\ Waiting(g) # {})
         sent == [wire EXCEPT ![p] = <<>>]
     IN IF f.requests[p] # None
          THEN ScheduleFetches(g, sent, Queued(g), wait, TRUE)
          ELSE f' = g /\ timers' = [timers EXCEPT !.wait = wait] /\ wire' = sent
  /\ UNCHANGED <<pool, cheap, call>>

-----------------------------------------------------------------------------
(* The peers and their handlers *)

(* Notify: what is pooled or known to be cheap is filtered before the loop. *)
Notify(p, S) ==
  /\ call[p] = None /\ used.notices < MaxNotices
  /\ used' = [used EXCEPT !.notices = @ + 1]
  /\ S \ (pool \cup cheap) # {}
  /\ call' = [call EXCEPT ![p] = [op |-> "announce", hashes |-> S \ (pool \cup cheap)]]
  /\ UNCHANGED <<f, timers, pool, cheap, wire>>

(* Enqueue: the transactions are offered to the pool before the loop is told. *)
Enqueue(p, S, direct) ==
  /\ call[p] = None
  /\ pool' = pool \cup {h \in S : Fate[h] = "good"}
  /\ cheap' = cheap \cup {h \in S : Fate[h] = "cheap"}
  /\ call' = [call EXCEPT ![p] = [op |-> "deliver", hashes |-> S, direct |-> direct]]
  /\ UNCHANGED <<f, timers>>

(* Transactions that nobody asked for, in a broadcast or in an answer. *)
Broadcast(p, S) ==
  /\ used.broadcasts < MaxBroadcasts
  /\ used' = [used EXCEPT !.broadcasts = @ + 1]
  /\ \E direct \in BOOLEAN : Enqueue(p, S, direct)
  /\ UNCHANGED wire

(* A peer answers its oldest request, with any of the transactions. *)
Reply(p) ==
  /\ wire[p] # <<>>
  /\ wire' = [wire EXCEPT ![p] = Tail(@)]
  /\ \E S \in SUBSET Range(wire[p][1]) : Enqueue(p, S, TRUE)
  /\ UNCHANGED used

Init ==
  /\ f = Empty
  /\ timers = [wait |-> FALSE, timeout |-> FALSE]
  /\ pool = {} /\ cheap = {}
  /\ call = [p \in Peers |-> None]
  /\ wire = [p \in Peers |-> <<>>]
  /\ used = [notices |-> 0, broadcasts |-> 0, drops |-> 0]

Next ==
  \/ \E p \in Peers : TakeAnnounce(p) \/ TakeDelivery(p) \/ Drop(p) \/ Reply(p)
  \/ \E p \in Peers, S \in SUBSET Hashes \ {{}} : Notify(p, S) \/ Broadcast(p, S)
  \/ \E E \in SUBSET Hashes : WaitTrigger(E)
  \/ \E X \in SUBSET Peers : TimeoutTrigger(X)

Spec == Init /\ [][Next]_vars

-----------------------------------------------------------------------------
(* Properties *)

Requests == [hashes : HashLists(Hashes), stolen : SUBSET Hashes]

Fetcher ==
  [waitlist   : [Hashes -> (SUBSET Peers) \cup {None}],
   announced  : [Hashes -> (SUBSET Peers) \cup {None}],
   alternates : [Hashes -> (SUBSET Peers) \cup {None}],
   fetching   : [Hashes -> Peers \cup {None}],
   waitslots  : [Peers -> SUBSET Hashes],
   announces  : [Peers -> SUBSET Hashes],
   requests   : [Peers -> Requests \cup {None}]]

Calls == [op : {"announce"}, hashes : SUBSET Hashes]
           \cup [op : {"deliver"}, hashes : SUBSET Hashes, direct : BOOLEAN]

TypeOK ==
  /\ f \in Fetcher
  /\ call \in [Peers -> Calls \cup {None}]
  /\ wire \in [Peers -> Seq(HashLists(Hashes))]

(* None is no set of peers, no peer and no request. *)
ASSUME NoneAssumption ==
  /\ None \notin Peers
  /\ \A S \in SUBSET Peers : S # None
  /\ \A r \in Requests : r # None

(* In g, hash h is in one stage at a time, and the per-peer indexes agree with
   the stages. *)
StageOK(g, h) ==
  /\ g.waitlist[h] = None \/ (g.announced[h] = None /\ g.alternates[h] = None)
  /\ g.announced[h] = None \/ g.alternates[h] = None
  /\ g.alternates[h] # None <=> g.fetching[h] # None
  /\ \A p \in Peers :
       /\ h \in g.waitslots[p] <=> (g.waitlist[h] # None /\ p \in g.waitlist[h])
       /\ h \in g.announces[p] => \/ g.announced[h] # None /\ p \in g.announced[h]
                                  \/ g.alternates[h] # None /\ p \in g.alternates[h]

(* A hash is in one stage at a time, so none of the loop's four panics about a
   tracker that already contains it can happen; and the per-peer indexes agree
   with the stages, so what a peer is scheduled to deliver is queued for it. *)
OneStage == \A h \in Hashes : StageOK(f, h)

RequestsOK(g) ==
  \A h \in Hashes, p \in Peers : g.fetching[h] = p <=> h \in Open(g.requests[p])

(* A hash is fetched from a peer exactly as long as that peer's request lists it
   and nobody else has delivered it.  A delivery looks the request up through
   the hash without checking that it is there. *)
FetchedIsRequested == RequestsOK(f)

LimitOK(g) == \A p \in Peers : Used(g, p) <= MaxTxAnnounces

(* No peer has more hashes waiting, queued or fetched than the limit, though what
   it does not deliver is queued again without a look at the limit. *)
WithinLimit == LimitOK(f)

Tracked(h) == f.waitlist[h] # None \/ f.announced[h] # None \/ f.alternates[h] # None

(* The loop does not take a dropped peer out of alternates: a hash may be left to
   peers that are gone, and is not asked for again unless it is announced again. *)
LeftToDropped(h) == f.announced[h] # None /\ \A p \in Peers : h \notin f.announces[p]

(* Whatever the peers leave out, however late they answer and whichever of them
   is dropped, every transaction that the fetcher tracks is delivered, given up
   or left to dropped peers in the end. *)
NothingStuck == []<>(\A h \in Hashes : Tracked(h) => used.drops > 0 /\ LeftToDropped(h))
=============================================================================
