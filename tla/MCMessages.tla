----------------------------- MODULE MCMessages -----------------------------
(* Consensus messages on their way through the network, and rounds that end   *)
(* by timeout messages over such a network, checked side by side. part says   *)
(* which of them a behaviour is about: the gossip of two messages along a     *)
(* line of three nodes ("line"), the gossip of one message between three      *)
(* nodes that all know each other, where every node gets second copies        *)
(* ("ring"), or two masternodes across an epoch boundary, both with the last  *)
(* block of the epoch and one collecting the votes for it ("level"), or one   *)
(* without that block ("behind"). The others stand still.                     *)
EXTENDS BftGossip

CONSTANTS a, b, c, m1, m2

(* Of TimeoutRounds. *)
CONSTANTS Live, Epoch, Gap, Rounds, Masternodes, Candidates, CertNum, CertDen,
          TimeoutSyncThreshold, MaxRound,
          SameHead, LowHead, OneCollector, NoCollector

VARIABLES part,
          node, inbox, seen  \* of TimeoutRounds

(* Block 1 of round 1; round 2 opens the next epoch. Masternodes by number of *)
(* the switch block, candidates by gap number.                                *)
MCRounds == <<1>>
MCMasternodes == [s \in 0 .. 1 |-> {a, b}]
MCSameHead == [n \in {a, b} |-> 1]
MCLowHead == [n \in {a, b} |-> IF n = a THEN 0 ELSE 1]

Level == INSTANCE TimeoutRounds WITH StartHead <- SameHead, Collectors <- OneCollector

Behind == INSTANCE TimeoutRounds WITH StartHead <- LowHead, Collectors <- NoCollector

(* Three nodes that know each other, and three in a line. *)
MCLinks == {l \in {a, b, c} \X {a, b, c} : l[1] # l[2]}
LineLinks == {l \in MCLinks : b \in {l[1], l[2]}}
MCAuthor == [m \in {m1, m2} |-> IF m = m1 THEN a ELSE c]
MCBlockOf == [m \in {m1, m2} |-> 5]
MCSize == [m \in {m1, m2} |-> IF m = m1 THEN 2 ELSE 1]
MCStart == [n \in {a, b, c} |-> IF n = b THEN 3 ELSE 5]

Line == INSTANCE BftGossip WITH Links <- LineLinks

roundVars == <<node, inbox, seen>>

GossipParts == {"line", "ring"}

MCInit ==
  /\ part \in {"level", "behind"} \cup GossipParts
  /\ IF part = "behind" THEN Behind!Init ELSE Level!Init
  /\ IF part = "line" THEN Line!Init ELSE Init

MCNext ==
  \/ part = "level" /\ Level!Next /\ UNCHANGED <<part, vars>>
  \/ part = "behind" /\ Behind!Next /\ UNCHANGED <<part, vars>>
  \/ part = "line" /\ Line!Next /\ UNCHANGED <<part, roundVars>>
  \/ part = "ring" /\ Next /\ m2 \notin made' /\ UNCHANGED <<part, roundVars>>

(* Timers fire, messages arrive and blocks others have are fetched;           *)
(* goroutines run, connections deliver, and a synchronisation ends.           *)
FairSpec ==
  /\ MCInit /\ [][MCNext]_<<part, roundVars, vars>>
  /\ \A n \in Live :
       /\ WF_roundVars(part \notin GossipParts /\ Level!Countdown(n))
       /\ WF_roundVars(part \notin GossipParts /\ Level!Import(n))
       /\ WF_roundVars(/\ part \notin GossipParts
                       /\ \E m \in inbox[n] : Level!ReceiveTimeout(n, m) \/ Level!ReceiveSyncInfo(n, m))
  /\ \A l \in Links :
       WF_vars(part \in GossipParts /\ \E m \in Msgs : Receive(l[1], l[2], m))
  /\ \A n \in Nodes :
       /\ WF_vars(part \in GossipParts /\ Handle(n))
       /\ WF_vars(part \in GossipParts /\ Sync(n))
       /\ WF_vars(part \in GossipParts /\ LoopClose(n))
       /\ WF_vars(/\ part \in GossipParts
                  /\ \E m \in Msgs : IF part = "line" THEN Line!Broadcast(n, m) ELSE Broadcast(n, m))

(* See TimeoutRounds. *)
RoundsEnd == part \notin GossipParts => Level!RoundsEnd

=============================================================================
