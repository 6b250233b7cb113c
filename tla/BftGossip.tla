------------------------------ MODULE BftGossip ------------------------------
(* How consensus messages travel: eth/handler_eth.go receives a vote, timeout *)
(* or sync info and queues it while the downloader synchronises               *)
(* (eth/bft_queue.go), eth/bft/bft_handler.go filters it, hands it to the     *)
(* engine and broadcasts it, and eth/peerset.go sends it to the peers not     *)
(* known to have it. A peer marked as knowing a message is never sent it      *)
(* again, so a message dropped on the way is lost.                            *)
(*                                                                            *)
(* The three kinds of messages take the same path through three sets of       *)
(* operations of the same shape; a message here is any of them, with the      *)
(* block number its distance filter looks at.                                 *)
EXTENDS Integers, Sequences, Functions

CONSTANTS Nodes, Links,     \* Links: set of <<n, p>>, symmetric
          Msgs, Author, BlockOf, Size,
          Start, Tip,       \* heights before and after a synchronisation
          MaxBlockDist, MaxQueuedMsgs, MaxQueuedBytes, MaxQueuedMsgSize,
          MaxSyncs, MaxStops

VARIABLES made,        \* messages their authors have sent
          net,         \* messages on the wire: <<from, to, m>>
          peerKnows,   \* [Links -> SUBSET Msgs]
          queue,       \* per node: msgs, hashes and bytes of the bftQueue
          sync,        \* per node: "off", "on", "drain", "hand"
          drained,     \* per node: messages taken from the queue
          known,       \* per node: knownVotes
          checked,     \* per node: <<from, m>> between Contains and Add
          verifying,   \* per node: goroutines in Bfter.Vote
          sending,     \* per node: senders on BroadcastCh
          casts,       \* per node: broadcasts under way
          handled,     \* per node: messages the engine has got
          height,
          loop,        \* per node: "run", "closing" once quit is closed, "closed"
          lost,        \* history: <<n, m>> where n dropped m: filter, verification, budget or shutdown
          syncs, stops

(* Every message that the queue takes fits into it: maxQueuedBFTMsgSize is    *)
(* below maxQueuedBFTBytes.                                                   *)
ASSUME GossipAssumption ==
  /\ Links \subseteq Nodes \X Nodes
  /\ Author \in [Msgs -> Nodes]
  /\ Size \in [Msgs -> Nat]
  /\ Start \in [Nodes -> Nat] /\ Tip \in Nat
  /\ MaxQueuedMsgs \in Nat \ {0} /\ MaxQueuedBytes \in Nat
  /\ MaxQueuedMsgSize \in 0 .. MaxQueuedBytes

vars == <<made, net, peerKnows, queue, sync, drained, known, checked, verifying,
          sending, casts, handled, height, loop, lost, syncs, stops>>

EmptyQueue == [msgs |-> <<>>, hashes |-> {}, bytes |-> 0]

Init ==
  /\ made = {} /\ net = {} /\ lost = {}
  /\ peerKnows = [l \in Links |-> {}]
  /\ queue = [n \in Nodes |-> EmptyQueue]
  /\ sync = [n \in Nodes |-> "off"]
  /\ drained = [n \in Nodes |-> <<>>]
  /\ known = [n \in Nodes |-> {}]
  /\ checked = [n \in Nodes |-> {}]
  /\ verifying = [n \in Nodes |-> {}]
  /\ sending = [n \in Nodes |-> {}]
  /\ casts = [n \in Nodes |-> {}]
  /\ handled = [n \in Nodes |-> {}]
  /\ height = Start
  /\ loop = [n \in Nodes |-> "run"]
  /\ syncs = 0 /\ stops = 0

With(f, n, x) == [f EXCEPT ![n] = @ \cup {x}]
Quit(n) == loop[n] # "run"
Without(f, n, x) == [f EXCEPT ![n] = @ \ {x}]

-----------------------------------------------------------------------------
(* The queue. *)

(* The sizes of the first k messages of s, for each k.                        *)
Bytes(s) ==
  LET sum[k \in 0 .. Len(s)] == IF k = 0 THEN 0 ELSE sum[k - 1] + Size[s[k]]
  IN sum

(* Plausible mistake: only the number of messages is bounded. *)
FullByCount(q, k, m) == Len(q.msgs) - k >= MaxQueuedMsgs

(* Is there no room for m when the oldest k messages have been dropped?       *)
Full(q, k, m) ==
  \/ Len(q.msgs) - k >= MaxQueuedMsgs
  \/ q.bytes - Bytes(q.msgs)[k] + Size[m] > MaxQueuedBytes

(* The loop drops the oldest message as long as the queue is full.            *)
Dropped(q, m) ==
  CHOOSE k \in 0 .. Len(q.msgs) : ~Full(q, k, m) /\ \A j \in 0 .. k - 1 : Full(q, j, m)

(* enqueueIf of a node that is synchronising. *)
Enqueued(q, m) ==
  IF m \in q.hashes \/ Size[m] > MaxQueuedMsgSize THEN q
  ELSE LET k == Dropped(q, m)
       IN [msgs |-> Append(SubSeq(q.msgs, k + 1, Len(q.msgs)), m),
           hashes |-> (q.hashes \ {q.msgs[i] : i \in 1 .. k}) \cup {m},
           bytes |-> q.bytes - Bytes(q.msgs)[k] + Size[m]]

-----------------------------------------------------------------------------

(* handleVote, first half: known messages are discarded. *)
CheckKnown(n, from, m) ==
  IF m \in known[n] THEN checked ELSE With(checked, n, <<from, m>>)

(* The engine of the author has handled its message and spawns a sender. *)
Make(m) ==
  /\ m \notin made
  /\ made' = made \cup {m}
  /\ handled' = With(handled, Author[m], m)
  /\ sending' = With(sending, Author[m], <<Author[m], m>>)
  /\ UNCHANGED <<net, peerKnows, queue, sync, drained, known, checked, verifying,
                 casts, height, loop, lost, syncs, stops>>

(* handlePacket: a message arrives from p. *)
Receive(n, p, m) ==
  /\ <<p, n, m>> \in net
  /\ net' = net \ {<<p, n, m>>}
  /\ peerKnows' = With(peerKnows, <<n, p>>, m)
  /\ IF sync[n] = "on"
     THEN LET q == Enqueued(queue[n], m)
          IN /\ queue' = [queue EXCEPT ![n] = q]
             /\ lost' = lost \cup {<<n, x>> : x \in ({m} \cup queue[n].hashes) \ q.hashes}
             /\ UNCHANGED checked
     ELSE /\ checked' = CheckKnown(n, p, m)
          /\ UNCHANGED <<queue, lost>>
  /\ UNCHANGED <<made, sync, drained, known, verifying, sending, casts, handled,
                 height, loop, syncs, stops>>

(* handleVote, second half. *)
AddKnown(n, from, m) ==
  /\ <<from, m>> \in checked[n]
  /\ checked' = Without(checked, n, <<from, m>>)
  /\ known' = With(known, n, m)
  /\ verifying' = With(verifying, n, <<from, m>>)
  /\ UNCHANGED <<made, net, peerKnows, queue, sync, drained, sending, casts,
                 handled, height, loop, lost, syncs, stops>>

TooFar(n, m) == \/ BlockOf[m] > height[n] + MaxBlockDist
                \/ height[n] > BlockOf[m] + MaxBlockDist

(* Bfter.Vote: the distance filter, then the engine's verification, which     *)
(* looks the message's block, epoch and masternodes up in n's own chain and   *)
(* may fail on one node and succeed on another.                               *)
Verify(n, from, m) ==
  /\ <<from, m>> \in verifying[n]
  /\ verifying' = Without(verifying, n, <<from, m>>)
  /\ \/ lost' = lost \cup {<<n, m>>} /\ UNCHANGED sending
     \/ /\ ~TooFar(n, m)
        /\ sending' = With(sending, n, <<from, m>>) /\ UNCHANGED lost
  /\ UNCHANGED <<made, net, peerKnows, queue, sync, drained, known, checked, casts,
                 handled, height, loop, syncs, stops>>

(* Plausible mistake: a node broadcasts its own messages only. *)
EnqueueOwn(n, from, m) ==
  /\ <<from, m>> \in sending[n] /\ loop[n] # "closed"
  /\ sending' = Without(sending, n, <<from, m>>)
  /\ casts' = IF from = n THEN With(casts, n, m) ELSE casts
  /\ handled' = With(handled, n, m)
  /\ UNCHANGED <<made, net, peerKnows, queue, sync, drained, known, checked,
                 verifying, height, loop, lost, syncs, stops>>

(* enqueueForBroadcast succeeds: the loop takes the message; the engine's     *)
(* handler runs next.                                                         *)
EnqueueForBroadcast(n, from, m) ==
  /\ <<from, m>> \in sending[n] /\ loop[n] # "closed"
  /\ sending' = Without(sending, n, <<from, m>>)
  /\ casts' = With(casts, n, m)
  /\ handled' = With(handled, n, m)
  /\ UNCHANGED <<made, net, peerKnows, queue, sync, drained, known, checked,
                 verifying, height, loop, lost, syncs, stops>>

(* Plausible mistake: the sender waits for the loop only. *)
KeepWaiting(n, from, m) == FALSE /\ UNCHANGED vars

(* enqueueForBroadcast after Stop. The engine's own senders have no such way  *)
(* out.                                                                       *)
GiveUp(n, from, m) ==
  /\ <<from, m>> \in sending[n] /\ Quit(n) /\ from # n
  /\ sending' = Without(sending, n, <<from, m>>)
  /\ lost' = lost \cup {<<n, m>>}
  /\ UNCHANGED <<made, net, peerKnows, queue, sync, drained, known, checked,
                 verifying, casts, handled, height, loop, syncs, stops>>

(* BroadcastVote: to the peers not known to have it. *)
Broadcast(n, m) ==
  LET to == {p \in Nodes : <<n, p>> \in Links /\ m \notin peerKnows[<<n, p>>]}
  IN /\ m \in casts[n]
     /\ casts' = Without(casts, n, m)
     /\ net' = net \cup {<<n, p, m>> : p \in to}
     /\ peerKnows' = [l \in Links |->
                        IF l[1] = n THEN peerKnows[l] \cup {m} ELSE peerKnows[l]]
     /\ UNCHANGED <<made, queue, sync, drained, known, checked, verifying, sending,
                    handled, height, loop, lost, syncs, stops>>

-----------------------------------------------------------------------------

(* synchronise: the downloader runs, and whatever comes of it ... *)
SyncStart(n) ==
  /\ sync[n] = "off" /\ syncs < MaxSyncs
  /\ sync' = [sync EXCEPT ![n] = "on"] /\ syncs' = syncs + 1
  /\ UNCHANGED <<made, net, peerKnows, queue, drained, known, checked, verifying,
                 sending, casts, handled, height, loop, lost, stops>>

SyncEnd(n) ==
  /\ sync[n] = "on"
  /\ sync' = [sync EXCEPT ![n] = "drain"]
  /\ \E h \in {height[n], Tip} : height' = [height EXCEPT ![n] = h]
  /\ UNCHANGED <<made, net, peerKnows, queue, drained, known, checked, verifying,
                 sending, casts, handled, loop, lost, syncs, stops>>

(* ... the deferred drainBFTQueue takes the queue, ... *)
TakeUnless(n) ==
  /\ sync[n] = "drain"
  /\ sync' = [sync EXCEPT ![n] = "hand"]
  /\ drained' = [drained EXCEPT ![n] = queue[n].msgs]
  /\ queue' = [queue EXCEPT ![n] = EmptyQueue]
  /\ UNCHANGED <<made, net, peerKnows, known, checked, verifying, sending, casts,
                 handled, height, loop, lost, syncs, stops>>

(* ... hands its messages over one by one, ... *)
HandleQueued(n) ==
  /\ drained[n] # <<>>
  /\ checked' = CheckKnown(n, "queue", Head(drained[n]))
  /\ drained' = [drained EXCEPT ![n] = Tail(@)]
  /\ UNCHANGED <<made, net, peerKnows, queue, sync, known, verifying, sending,
                 casts, handled, height, loop, lost, syncs, stops>>

(* ... and the syncer may start the next one. *)
SyncDone(n) ==
  /\ sync[n] = "hand" /\ drained[n] = <<>>
  /\ sync' = [sync EXCEPT ![n] = "off"]
  /\ UNCHANGED <<made, net, peerKnows, queue, drained, known, checked, verifying,
                 sending, casts, handled, height, loop, lost, syncs, stops>>

Stop(n) ==
  /\ loop[n] = "run" /\ stops < MaxStops
  /\ loop' = [loop EXCEPT ![n] = "closing"] /\ stops' = stops + 1
  /\ UNCHANGED <<made, net, peerKnows, queue, sync, drained, known, checked,
                 verifying, sending, casts, handled, height, lost, syncs>>

(* The loop takes messages until it sees that quit is closed. *)
LoopClose(n) ==
  /\ loop[n] = "closing"
  /\ loop' = [loop EXCEPT ![n] = "closed"]
  /\ UNCHANGED <<made, net, peerKnows, queue, sync, drained, known, checked,
                 verifying, sending, casts, handled, height, lost, syncs, stops>>

-----------------------------------------------------------------------------

Sources == Nodes \cup {"queue"}

Handle(n) ==
  \E from \in Sources, m \in Msgs :
     \/ AddKnown(n, from, m) \/ Verify(n, from, m)
     \/ EnqueueForBroadcast(n, from, m) \/ GiveUp(n, from, m)

Sync(n) == SyncEnd(n) \/ TakeUnless(n) \/ HandleQueued(n) \/ SyncDone(n)

Next ==
  \/ \E m \in Msgs : Make(m)
  \/ \E l \in Links, m \in Msgs : Receive(l[1], l[2], m)
  \/ \E n \in Nodes : Handle(n) \/ Sync(n) \/ SyncStart(n) \/ Stop(n) \/ LoopClose(n)
  \/ \E n \in Nodes, m \in Msgs : Broadcast(n, m)

Spec == Init /\ [][Next]_vars

-----------------------------------------------------------------------------

TypeOK ==
  /\ made \subseteq Msgs /\ lost \subseteq Nodes \X Msgs
  /\ \A n \in Nodes :
       /\ sync[n] \in {"off", "on", "drain", "hand"}
       /\ known[n] \subseteq Msgs /\ handled[n] \subseteq made
       /\ drained[n] # <<>> => sync[n] = "hand"
       /\ height[n] \in {Start[n], Tip}

(* The counters of the queue agree with its content through every drop and    *)
(* drain, and the content is within both budgets.                             *)
WithinBudget(q) ==
  /\ q.hashes = Range(q.msgs) /\ IsInjective(q.msgs)
  /\ q.bytes = Bytes(q.msgs)[Len(q.msgs)]
  /\ Len(q.msgs) <= MaxQueuedMsgs /\ q.bytes <= MaxQueuedBytes

QueueWithinBudget == \A n \in Nodes : WithinBudget(queue[n])

(* Messages wait in the queue only while a synchronisation is on or about to  *)
(* drain it: "a message is either queued before a drain takes the queue, or   *)
(* reported as not queued and must be handled directly".                      *)
NothingStranded == \A n \in Nodes : sync[n] \in {"off", "hand"} => queue[n].msgs = <<>>

(* n has handled or dropped m, or a goroutine of Bfter.Vote holds it.         *)
Settled(n, m) ==
  \/ m \in handled[n] \/ <<n, m>> \in lost
  \/ \E from \in Sources : <<from, m>> \in verifying[n] \cup sending[n]

(* ... or m is still on the way to one.                                       *)
Reached(n, m) ==
  \/ Settled(n, m)
  \/ m \in Range(queue[n].msgs) \cup Range(drained[n])
  \/ \E from \in Sources : <<from, m>> \in checked[n]

(* "Senders mark a message as known to a peer and never send it again": the   *)
(* peer then has the message, somewhere between its queue and its engine, has *)
(* dropped it on purpose, or it is on the wire. Neither a synchronisation     *)
(* that starts or ends meanwhile nor a second copy from another peer, which   *)
(* the known messages filter out, makes a message disappear.                  *)
NothingForgotten ==
  \A l \in DOMAIN peerKnows : \A m \in peerKnows[l] :
    <<l[1], l[2], m>> \in net \/ Reached(l[2], m)

(* What the gossip of consensus messages keeps: the budget of the queue, a    *)
(* queue only during a synchronisation, and every message that a sender will  *)
(* not send again.                                                            *)
GossipIsSound == TypeOK /\ QueueWithinBudget /\ NothingStranded /\ NothingForgotten

(* A message its author has sent reaches the engine of every node, over any   *)
(* number of hops and through their synchronisations, unless the distance     *)
(* filter, a failed verification, a budget or a shutdown dropped it on the way.*)
EveryNodeHandles ==
  []<>(\A m \in made, n \in Nodes :
         m \in handled[n] \/ \E p \in Nodes : <<p, m>> \in lost \/ Quit(p))

(* After Stop no goroutine of Bfter.Vote waits for the loop for ever. *)
VoteReturnsAfterStop ==
  []<>(\A n \in Nodes : Quit(n) => \A x \in sending[n] : x[1] = n)

-----------------------------------------------------------------------------
(* The inductive invariant behind the theorems of BftGossipProofs.            *)

Queues == [msgs : Seq(Msgs), hashes : SUBSET Msgs, bytes : Int]
MsgSets == [Nodes -> SUBSET Msgs]
Flows == [Nodes -> SUBSET (Sources \X Msgs)]

GossipTypes ==
  /\ made \in SUBSET Msgs /\ lost \in SUBSET (Nodes \X Msgs)
  /\ peerKnows \in [Links -> SUBSET Msgs]
  /\ queue \in [Nodes -> Queues]
  /\ drained \in [Nodes -> Seq(Msgs)]
  /\ sync \in [Nodes -> {"off", "on", "drain", "hand"}]
  /\ known \in MsgSets
  /\ casts \in MsgSets
  /\ handled \in MsgSets
  /\ checked \in Flows
  /\ verifying \in Flows
  /\ sending \in Flows
  /\ height \in [Nodes -> Nat]
  /\ \A n \in Nodes : height[n] \in {Start[n], Tip}

(* Only what its author has sent travels; a known message is settled; and a   *)
(* message is handled before it is passed on.                                 *)
FlowOK ==
  \A n \in Nodes, m \in Msgs :
    /\ Reached(n, m) => m \in made
    /\ m \in known[n] => Settled(n, m)
    /\ m \in casts[n] => m \in handled[n]
    /\ \A p \in Nodes : <<n, p, m>> \in net => m \in handled[n]

SyncOK ==
  /\ NothingStranded
  /\ \A n \in Nodes : drained[n] # <<>> => sync[n] = "hand"

GossipInv == GossipTypes /\ QueueWithinBudget /\ SyncOK /\ FlowOK /\ NothingForgotten

=============================================================================
