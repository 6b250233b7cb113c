---------------------------- MODULE MCTxFetcher ----------------------------
(* The fetcher with two peers and two transactions, with room for both, or,   *)
(* when narrow, for one announcement of each peer and one transaction in each *)
(* request.                                                                   *)
EXTENDS TxFetcher

CONSTANTS h1, h2

VARIABLE narrow

Narrow == INSTANCE TxFetcher WITH MaxTxAnnounces <- 1, MaxTxRetrievals <- 1

MCFate == [h \in Hashes |-> IF h = h1 THEN "bad" ELSE "good"]

MCInit == narrow \in BOOLEAN /\ Init

MCNext ==
  /\ IF narrow THEN Narrow!Next ELSE Next
  /\ UNCHANGED narrow

(* What the loop takes is what TakeAnnounce and TakeDelivery take. *)
Take(p) == call[p] # None /\ call' = [call EXCEPT ![p] = None]

Expire(h) ==
  \E E \in SUBSET Hashes :
    h \in E /\ IF narrow THEN Narrow!WaitTrigger(E) ELSE WaitTrigger(E)

(* The loop takes what waits for it, its timers fire, a hash that waits       *)
(* becomes due, and a peer that is asked answers in the end, though maybe     *)
(* after its time.                                                            *)
FairSpec ==
  /\ MCInit /\ [][MCNext]_<<narrow, vars>>
  /\ \A p \in Peers : WF_call(Take(p)) /\ WF_vars(Reply(p))
  /\ \A h \in Hashes : WF_vars(Expire(h))

=============================================================================
