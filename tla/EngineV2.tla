------------------------------ MODULE EngineV2 ------------------------------
(***************************************************************************)
(* The XDPoS 2.0 engine of every honest masternode, with the part of its   *)
(* block chain and of its miner that the engine works on.                  *)
(*                                                                         *)
(* node[n] holds the consensus fields of n's XDPoS_v2 struct.  They live   *)
(* in memory only; db[n] and head[n] are n's block chain and survive a     *)
(* restart.  One action stands for one handler run under x.lock.  The one  *)
(* handler whose critical section the block chain can cut in two,          *)
(* ProposedBlockHandler, has an action for each half, and pend keeps the   *)
(* other handlers of the node out in between.                              *)
(*                                                                         *)
(* A message once sent may be delivered late, more than once or never.     *)
(***************************************************************************)
EXTENDS HeaderTree

CONSTANTS
  MasternodeList,       \* the epoch's masternodes in order, from index 0
  Epoch,                \* XDPoSConfig.Epoch
  TimeoutSyncThreshold, \* V2Config.TimeoutSyncThreshold
  PoolHygieneRound      \* utils.PoolHygieneRound

ASSUME EngineAssumption ==
  /\ Epoch \in Nat \ {0}
  /\ TimeoutSyncThreshold \in Nat \ {0}
  /\ PoolHygieneRound \in Nat
  /\ MasternodeList \in [0 .. Cardinality(Masternodes) - 1 -> Masternodes]

VARIABLES
  node,      \* node[n]: the fields of the engine
  db,        \* db[n]: the blocks n has stored
  head,      \* head[n]: the head of n's canonical chain
  timeouts,  \* timeouts[n]: the rounds n signed a timeout message for
  syncInfos  \* the <<QC, TC>> pairs honest masternodes have broadcast

vars == <<tree, votes, node, db, head, timeouts, syncInfos>>

(* A nil pointer, and the zero hash of a certificate that was never set.    *)
Nil == <<0, 0>>

(* Validator index of yourturn and of verifyHeader.                         *)
Leader(r) == MasternodeList[(r % Epoch) % Cardinality(Masternodes)]

Engine ==
  [ round  : 0 .. MaxRound + 1,                 \* currentRound
    voted  : 0 .. MaxRound,                     \* highestVotedRound
    mined  : 0 .. MaxRound,                     \* highestSelfMinedRound
    hqc    : Block \cup {Nil},                  \* highestQuorumCert
    lock   : Block \cup {Nil},                  \* lockQuorumCert
    htc    : 0 .. MaxRound,                     \* highestTimeoutCert.Round
    commit : Block \cup {Nil},                  \* highestCommitBlock
    tcount : 0 .. TimeoutSyncThreshold - 1,     \* timeoutCount, modulo the threshold
    vpool  : SUBSET (Masternodes \X Block),     \* votePool
    tpool  : SUBSET Masternodes,                \* timeoutPool, of the current round
    work   : SUBSET ((1 .. MaxRound) \X Block), \* headers between Prepare and Seal
    pend   : Block \cup {Nil} ]                 \* block ProposedBlockHandler is voting for

(* The struct as New leaves it.                                             *)
NewEngine ==
  [ round |-> 0, voted |-> 0, mined |-> 0, hqc |-> Nil, lock |-> Nil, htc |-> 0,
    commit |-> Nil, tcount |-> 0, vpool |-> {}, tpool |-> {}, work |-> {},
    pend |-> Nil ]

-----------------------------------------------------------------------------
(* Steps on the fields of one engine s, whose block chain has stored d.     *)

(* A mutant of SetNewRound: both pools are reset.                           *)
SetNewRoundClearing(s, r) == [s EXCEPT !.round = r, !.tcount = 0, !.tpool = {}, !.vpool = {}]

(* The vote pool is kept: votes for the new round may be in it already.     *)
SetNewRound(s, r) == [s EXCEPT !.round = r, !.tcount = 0, !.tpool = {}]

(* A mutant of CommitBlocks: the switch block is committed too.             *)
CommitBlocksEarly(s, q) ==
  LET g == Parent(Parent(q))
  IN  IF /\ Number(q) - 2 >= 0
         /\ Round(Parent(q)) = Round(q) - 1
         /\ Round(g) = Round(q) - 2
         /\ s.commit # Nil => Round(s.commit) < Round(g) /\ Number(s.commit) <= Number(g)
      THEN [s EXCEPT !.commit = g]
      ELSE s

(* A block at or below the committed round or height is not committed again. *)
CommitBlocks(s, q) ==
  LET g == Parent(Parent(q))
  IN  IF /\ Commits(q, g)
         /\ s.commit # Nil => Round(s.commit) < Round(g) /\ Number(s.commit) <= Number(g)
      THEN [s EXCEPT !.commit = g]
      ELSE s

(* A mutant of RaiseHighestQC: any certificate replaces the highest one.    *)
ReplaceHighestQC(s, q) == [s EXCEPT !.hqc = q]

RaiseHighestQC(s, q) ==
  IF Round(q) > Round(s.hqc) THEN [s EXCEPT !.hqc = q] ELSE s

RaiseLock(s, q) ==
  IF s.lock = Nil \/ Round(QC(q)) > Round(s.lock)
  THEN [s EXCEPT !.lock = QC(q)]
  ELSE s

(* The certificate raises highestQuorumCert before its block is looked up,  *)
(* and a missing block ends the call there.                                 *)
ProcessQC(s, q, d) ==
  LET s1 == RaiseHighestQC(s, q)
      s2 == IF Number(q) > 0 THEN CommitBlocks(RaiseLock(s1, q), q) ELSE s1
  IN  IF q \notin d THEN s1
      ELSE IF Round(q) >= s.round THEN SetNewRound(s2, Round(q) + 1)
      ELSE s2

ProcessTC(s, t) ==
  LET s1 == IF t > s.htc THEN [s EXCEPT !.htc = t] ELSE s
  IN  IF t >= s.round THEN SetNewRound(s1, t + 1) ELSE s1

(* A mutant of CollectVote: the pool is counted before the vote is added.   *)
CollectVoteLate(s, v, b, d) ==
  LET s1 == [s EXCEPT !.vpool = @ \cup {<<v, b>>}]
  IN  IF b \in d /\ IsQuorum({m \in Masternodes : <<m, b>> \in s.vpool})
      THEN ProcessQC(s1, b, d)
      ELSE s1

(* voteHandler past its round test, with onVotePoolThresholdReached.  A     *)
(* vote for a block that is not stored stays in the pool, and a later vote  *)
(* tries again.                                                             *)
CollectVote(s, v, b, d) ==
  LET s1 == [s EXCEPT !.vpool = @ \cup {<<v, b>>}]
  IN  IF b \in d /\ IsQuorum({m \in Masternodes : <<m, b>> \in s1.vpool})
      THEN ProcessQC(s1, b, d)
      ELSE s1

(* timeoutHandler past its round test: does v's timeout complete a TC?      *)
CompletesTC(s, v) == IsQuorum(s.tpool \cup {v})

CollectTimeout(s, v) ==
  IF CompletesTC(s, v)
  THEN ProcessTC([s EXCEPT !.tpool = @ \cup {v}], s.round)
  ELSE [s EXCEPT !.tpool = @ \cup {v}]

SyncInfo(s) == <<s.hqc, s.htc>>

(* A mutant of VerifyVotingRule: a block of an old round passes.            *)
VotingRuleAnyRound(s, b) ==
  /\ s.round > s.voted
  /\ Round(b) <= s.round
  /\ \/ s.lock = Nil
     \/ Round(QC(b)) > Round(s.lock)
     \/ Extends(b, s.lock)

VerifyVotingRule(s, b) ==
  /\ s.round > s.voted
  /\ Round(b) = s.round
  /\ \/ s.lock = Nil
     \/ Round(QC(b)) > Round(s.lock)
     \/ Extends(b, s.lock)

(* Mutants of Initial: the round is that of the certificate, not the next   *)
(* one; the lock is not restored; the head itself is taken for certified.   *)
InitialInOldRound(h, d) ==
  IF h = SwitchBlock
  THEN [NewEngine EXCEPT !.round = 1, !.hqc = SwitchBlock]
  ELSE [ProcessQC(NewEngine, QC(h), d) EXCEPT !.round = Round(QC(h))]

InitialUnlocked(h, d) ==
  IF h = SwitchBlock
  THEN [NewEngine EXCEPT !.round = 1, !.hqc = SwitchBlock]
  ELSE [ProcessQC(NewEngine, QC(h), d) EXCEPT !.lock = Nil]

InitialFromHead(h, d) ==
  IF h = SwitchBlock
  THEN [NewEngine EXCEPT !.round = 1, !.hqc = SwitchBlock]
  ELSE ProcessQC(NewEngine, h, d)

(* initial: the certificate in the head block is all that is left.          *)
Initial(h, d) ==
  IF h = SwitchBlock
  THEN [NewEngine EXCEPT !.round = 1, !.hqc = SwitchBlock]
  ELSE ProcessQC(NewEngine, QC(h), d)

-----------------------------------------------------------------------------
(* The block chain.                                                         *)

(* reorg refuses to drop committed block c from the canonical chain of h in  *)
(* favour of a chain through p.                                             *)
ReorgAllowed(h, p, c) == Extends(h, c) => Extends(p, c)

(* Every V2 block has difficulty 1, so forkChoiceBeatsHead compares heights: *)
(* the head after block b on parent p is written.                           *)
ForkChoice(h, b, p, c) ==
  IF Number(p) + 1 > Number(h) /\ ReorgAllowed(h, p, c) THEN b ELSE h

(* ShouldHandleProposedBlock: b is the canonical block of its height, or a  *)
(* newer proposal for that block's parent.                                  *)
ShouldHandle(n, b) ==
  \E c \in tree[head[n]].anc :
    /\ Number(c) = Number(b)
    /\ c = b \/ (Parent(c) = Parent(b) /\ Round(b) > Round(c))

-----------------------------------------------------------------------------
Init ==
  /\ InitTree
  /\ node = [n \in Honest |-> Initial(SwitchBlock, {SwitchBlock})]
  /\ db = [n \in Honest |-> {SwitchBlock}]
  /\ head = [n \in Honest |-> SwitchBlock]
  /\ timeouts = [n \in Honest |-> {}]
  /\ syncInfos = {}

(* No handler of n holds x.lock.                                            *)
Unlocked(n) == node[n].pend = Nil

(* commitNewWork up to Prepare: the round and the certificate are read      *)
(* under the lock, the block is assembled later.                            *)
Prepare(n) ==
  LET s == node[n]
  IN  /\ Unlocked(n)
      /\ s.hqc \in db[n]
      /\ s.round <= MaxRound
      /\ s.round > s.mined
      /\ Leader(s.round) = n
      /\ node' = [node EXCEPT ![n].work = @ \cup {<<s.round, s.hqc>>}]
      /\ UNCHANGED <<tree, votes, db, head, timeouts, syncInfos>>

(* An agent seals a header and the worker writes the block                  *)
(* (WriteBlockWithState).  New work stops the agent only if it has not      *)
(* passed the stop test of Seal, so old work may still be sealed.           *)
Seal(n, b) ==
  \E w \in node[n].work :
    /\ Round(b) = w[1]
    /\ AddHeader(b, w[2], w[2])
    /\ node' = [node EXCEPT ![n].mined = w[1], ![n].work = @ \ {w}]
    /\ db' = [db EXCEPT ![n] = @ \cup {b}]
    /\ head' = [head EXCEPT ![n] = ForkChoice(@, b, w[2], node[n].commit)]
    /\ UNCHANGED <<votes, timeouts, syncInfos>>

(* A faulty leader may propose several blocks, on any parent and with any   *)
(* certificate of an earlier round.                                         *)
FaultyPropose(b, p, q) ==
  /\ Leader(Round(b)) \in Faulty
  /\ AddHeader(b, p, q)
  /\ UNCHANGED <<votes, node, db, head, timeouts, syncInfos>>

(* The fetcher or the downloader imports b: VerifyBlockInfo finds the       *)
(* certified block in the database, then writeBlockWithState.               *)
InsertBlock(n, b) ==
  /\ b \in Blocks \ db[n]
  /\ {Parent(b), QC(b)} \subseteq db[n]
  /\ db' = [db EXCEPT ![n] = @ \cup {b}]
  /\ head' = [head EXCEPT ![n] = ForkChoice(@, b, Parent(b), node[n].commit)]
  /\ UNCHANGED <<tree, votes, node, timeouts, syncInfos>>

(* ProposedBlockHandler up to its second look at the chain.                 *)
ProposedBlockHandler(n, b) ==
  LET s == ProcessQC(node[n], QC(b), db[n])
  IN  /\ Unlocked(n)
      /\ b \in db[n] \ {SwitchBlock}
      /\ ShouldHandle(n, b)
      /\ node' = [node EXCEPT ![n] =
                    IF VerifyVotingRule(s, b) THEN [s EXCEPT !.pend = b] ELSE s]
      /\ UNCHANGED <<tree, votes, db, head, timeouts, syncInfos>>

(* Its second half: the block may have been reorganised away meanwhile.     *)
(* Otherwise sendVote: the node's own vote is collected, which may complete *)
(* the certificate, and broadcast.                                          *)
SendVote(n) ==
  LET b == node[n].pend
      s == [node[n] EXCEPT !.pend = Nil]
  IN  /\ b # Nil
      /\ IF ShouldHandle(n, b)
         THEN /\ node' = [node EXCEPT ![n] =
                            CollectVote([s EXCEPT !.voted = s.round], n, b, db[n])]
              /\ SignVote(n, b)
         ELSE /\ node' = [node EXCEPT ![n] = s]
              /\ UNCHANGED votes
      /\ UNCHANGED <<tree, db, head, timeouts, syncInfos>>

(* VoteHandler: v's vote for b arrives, v being n itself if it was relayed. *)
VoteHandler(n, v, b) ==
  /\ Unlocked(n)
  /\ b \in Blocks
  /\ v \in Honest => b \in votes[v]
  /\ Round(b) \in {node[n].round, node[n].round + 1}
  /\ node' = [node EXCEPT ![n] = CollectVote(@, v, b, db[n])]
  /\ UNCHANGED <<tree, votes, db, head, timeouts, syncInfos>>

(* TimeoutHandler: v's timeout for the current round arrives.  Completing a *)
(* TC also broadcasts a SyncInfo.                                           *)
TimeoutHandler(n, v) ==
  LET s == CollectTimeout(node[n], v)
  IN  /\ Unlocked(n)
      /\ node[n].round <= MaxRound
      /\ v \in Honest => node[n].round \in timeouts[v]
      /\ node' = [node EXCEPT ![n] = s]
      /\ syncInfos' = IF CompletesTC(node[n], v) THEN syncInfos \cup {SyncInfo(s)} ELSE syncInfos
      /\ UNCHANGED <<tree, votes, db, head, timeouts>>

(* OnCountdownTimeout: the timer fired and its callback got the lock, at    *)
(* whatever round the engine is in by then.  The node's own timeout is      *)
(* collected, which may complete the TC, before it is broadcast and         *)
(* counted.                                                                 *)
OnCountdownTimeout(n) ==
  LET r == node[n].round
      s == CollectTimeout(node[n], n)
      count == (s.tcount + 1) % TimeoutSyncThreshold
  IN  /\ Unlocked(n)
      /\ r <= MaxRound
      /\ node' = [node EXCEPT ![n] = [s EXCEPT !.tcount = count]]
      /\ timeouts' = [timeouts EXCEPT ![n] = @ \cup {r}]
      /\ syncInfos' = IF CompletesTC(node[n], n) \/ count = 0
                      THEN syncInfos \cup {SyncInfo(s)} ELSE syncInfos
      /\ UNCHANGED <<tree, votes, db, head>>

(* Enough timeouts for round t exist.                                       *)
TimedOut(t) == IsQuorum({n \in Honest : t \in timeouts[n]} \cup Faulty)

(* SyncInfoHandler for a message that VerifySyncInfoMessage let through: a  *)
(* certificate whose block is stored and a TC or none.  That the message is *)
(* news was tested before the lock was taken and may no longer be true.     *)
SyncInfoHandler(n, q, t) ==
  /\ Unlocked(n)
  /\ \/ <<q, t>> \in syncInfos
     \/ Faulty # {} /\ Certified(q) /\ (t = 0 \/ TimedOut(t))
  /\ q \in db[n]
  /\ node' = [node EXCEPT ![n] = ProcessTC(ProcessQC(@, q, db[n]), t)]
  /\ UNCHANGED <<tree, votes, db, head, timeouts, syncInfos>>

(* hygieneVotePool, which read currentRound as r some time ago.             *)
HygieneVotePool(n, r) ==
  /\ r <= node[n].round
  /\ node' = [node EXCEPT ![n].vpool = {e \in @ : Round(e[2]) >= r - PoolHygieneRound}]
  /\ UNCHANGED <<tree, votes, db, head, timeouts, syncInfos>>

Step(n) ==
  \/ Prepare(n)
  \/ \E b \in Block : Seal(n, b)
  \/ \E b \in Block : InsertBlock(n, b)
  \/ \E b \in Block : ProposedBlockHandler(n, b)
  \/ SendVote(n)
  \/ \E v \in Masternodes, b \in Block : VoteHandler(n, v, b)
  \/ \E v \in Masternodes : TimeoutHandler(n, v)
  \/ OnCountdownTimeout(n)
  \/ \E q \in Block, t \in 0 .. MaxRound : SyncInfoHandler(n, q, t)
  \/ \E r \in 1 .. MaxRound + 1 : HygieneVotePool(n, r)

Next ==
  \/ \E n \in Honest : Step(n)
  \/ \E b, p, q \in Block : FaultyPropose(b, p, q)

Spec == Init /\ [][Next]_vars

(* The process stops and starts again: New, then initial() on the head      *)
(* block.  Only the block chain is on disk.                                 *)
Restart(n) ==
  /\ node' = [node EXCEPT ![n] = Initial(head[n], db[n])]
  /\ UNCHANGED <<tree, votes, db, head, timeouts, syncInfos>>

RestartNext == Next \/ \E n \in Honest : Restart(n)

RestartSpec == Init /\ [][RestartNext]_vars

-----------------------------------------------------------------------------
(* Every field of the engine, the chain and the messages has its type, and  *)
(* blocks that any of them names exist.                                     *)
TypeOK ==
  /\ TreeTypeOK
  /\ node \in [Honest -> Engine]
  /\ db \in [Honest -> SUBSET Blocks]
  /\ head \in [Honest -> Blocks]
  /\ timeouts \in [Honest -> SUBSET (1 .. MaxRound)]
  /\ syncInfos \subseteq (Block \cup {Nil}) \X (0 .. MaxRound)

RoundFollows(s) == s.round = 1 + (IF Round(s.hqc) > s.htc THEN Round(s.hqc) ELSE s.htc)

(* The pacemaker: currentRound is one more than the highest certificate of  *)
(* either kind.  processQC, processTC and initial each move two of these    *)
(* three fields, and no interleaving of handlers lets them drift apart.     *)
RoundFollowsCertificates == \A n \in Honest : RoundFollows(node[n])

LockCovers(s, d) ==
  s.hqc \notin {Nil, SwitchBlock} =>
    /\ {s.hqc, s.lock} \subseteq d
    /\ Round(QC(s.hqc)) <= Round(s.lock)
    /\ Round(s.lock) < Round(s.hqc)

(* lockQuorumCert is at least as new as the certificate in the block of     *)
(* highestQuorumCert and older than highestQuorumCert, and the node has     *)
(* stored both blocks.  A lock that lagged behind would let                 *)
(* verifyVotingRule accept a fork.                                          *)
LockCoversHighestQC == \A n \in Honest : LockCovers(node[n], db[n])

(* Whatever highestQuorumCert and highestTimeoutCert are, enough signatures *)
(* for them exist: a SyncInfo never spreads a certificate nobody can check. *)
CertificatesAreBacked ==
  \A n \in Honest :
    /\ node[n].hqc # Nil => Certified(node[n].hqc)
    /\ node[n].htc # 0 => TimedOut(node[n].htc)

(* An honest masternode signs at most one vote per round, whatever          *)
(* interleaving of proposals, timeouts and certificates it meets            *)
(* (highestVotedRound in verifyVotingRule and sendVote).                    *)
OneVotePerRound ==
  \A n \in Honest : \A a, b \in votes[n] : Round(a) = Round(b) => a = b

(* highestCommitBlock is the grandparent of a stored and certified block,   *)
(* with the consecutive rounds commitBlocks asks for.  It says nothing of a *)
(* certificate for the block between the two: commitBlocks follows          *)
(* ParentHash and looks at rounds only.                                     *)
CommitIsThreeChain ==
  \A n \in Honest :
    node[n].commit # Nil =>
      \E q \in db[n] : Certified(q) /\ Commits(q, node[n].commit)

(* The blocks that commitBlocks has made highestCommitBlock, on any two     *)
(* nodes, lie on one chain.                                                 *)
CommitsOnOneChain ==
  \A m, n \in Honest :
    LET a == node[m].commit
        b == node[n].commit
    IN  Nil \notin {a, b} => Extends(a, b) \/ Extends(b, a)

(* They do as long as certified blocks carry the certificates of their      *)
(* parents, which nothing checks of a faulty leader's block.                *)
CommitsAgree == CertifiedOnParents => CommitsOnOneChain

(* A block that carries another certificate than its parent's is the work   *)
(* of a faulty leader: Prepare compares the two before it uses them.        *)
HonestProposalsOnParents ==
  \A b \in Blocks : QC(b) = Parent(b) \/ Leader(Round(b)) \in Faulty

(* Once n has voted for b, votes for b that make a quorum in n's pool have  *)
(* been turned into a certificate: whether the votes or the block came      *)
(* first, voteHandler never leaves such a quorum unused.                    *)
VotedQuorumIsUsed ==
  \A n \in Honest : \A b \in votes[n] :
    IsQuorum({m \in Masternodes : <<m, b>> \in node[n].vpool}) =>
      Round(b) <= Round(node[n].hqc)

(* Without a restart no handler takes a round, a certificate, the lock or   *)
(* the round or height of the committed block back; and as long as          *)
(* certified blocks carry the certificates of their parents, a new          *)
(* committed block is above the old one on its chain.                       *)
NeverRegress ==
  \A n \in Honest :
    LET s == node[n]
        s2 == node'[n]
    IN  /\ s.round <= s2.round /\ s.htc <= s2.htc
        /\ s.voted <= s2.voted
        /\ Round(s.hqc) <= Round(s2.hqc) /\ Round(s.lock) <= Round(s2.lock)
        /\ Round(s.commit) <= Round(s2.commit)
        /\ s.commit # Nil => tree[s.commit].number <= tree'[s2.commit].number
        /\ s.commit # Nil /\ CertifiedOnParents' => s.commit \in tree'[s2.commit].anc

EngineNeverRegresses == [][NeverRegress]_vars

(* A vote for the round the engine is in, or one above, stays in the pool   *)
(* through setNewRound and through a hygieneVotePool that read an old       *)
(* round, so a vote that came early still counts.                           *)
KeepEarlyVotes ==
  \A n \in Honest :
    {e \in node[n].vpool : Round(e[2]) >= node'[n].round} \subseteq node'[n].vpool

EarlyVotesAreKept == [][KeepEarlyVotes]_vars

(* isNewerProposalForSameParent is there so that the round after a timeout  *)
(* can re-propose: once the round of the head block is over, a child of the *)
(* node's own highestQuorumCert either beats that head in fork choice or    *)
(* has the canonical parent.                                                *)
NextProposalIsHandled ==
  \A n \in Honest :
    LET s == node[n]
    IN  s.hqc \in db[n] /\ Round(head[n]) < s.round =>
          \/ Number(s.hqc) + 1 > Number(head[n])
          \/ Extends(head[n], s.hqc)

(* A block that ProposedBlockHandler has processed and is about to vote for *)
(* carries the certificate of its parent: processQC has advanced            *)
(* highestQuorumCert, lockQuorumCert and the committed block on it.         *)
EmbeddedQCCertifiesParent ==
  \A n \in Honest :
    node[n].pend # Nil => QC(node[n].pend) = Parent(node[n].pend)

-----------------------------------------------------------------------------
(* The inductive invariant behind the theorems of EngineV2Proofs.  Its      *)
(* parts speak of an engine s with stored blocks d; C are the blocks that   *)
(* are certified, T the rounds that timed out, V and W what honest          *)
(* masternodes signed.                                                      *)

CertifiedBlocks == {b \in Blocks : Certified(b)}

TimedOutRounds == {t \in 1 .. MaxRound : TimedOut(t)}

(* Blocks are stored after their parents and the blocks they certify.       *)
ChainClosed(d) ==
  /\ SwitchBlock \in d
  /\ d \subseteq Blocks
  /\ \A b \in d : {Parent(b), QC(b)} \subseteq d

(* What processQC, processTC and initial keep: the certificates of s are    *)
(* backed, and round, lock and committed block follow from them.            *)
CertificatesOK(s, d, C, T) ==
  /\ s.hqc \in (d \cap C) \cup {Nil}
  /\ s.htc \in T \cup {0}
  /\ RoundFollows(s) \/ s = NewEngine
  /\ s.hqc \in {Nil, SwitchBlock} => s.lock = Nil
  /\ s.lock \in C \cup {Nil}
  /\ LockCovers(s, d)
  /\ s.commit # Nil => \E q \in d \cap C : Commits(q, s.commit)

(* The pools hold signed messages, the timeout pool only of this round, and *)
(* work in flight is on stored blocks.                                      *)
PoolsOK(s, d, V, W) ==
  /\ \A e \in s.vpool : e[2] \in Blocks /\ (e[1] \in Honest => e[2] \in V[e[1]])
  /\ \A m \in s.tpool \cap Honest : s.round \in W[m]
  /\ \A w \in s.work : w[2] \in d

(* What sendVote and verifyVotingRule keep, if the engine never restarts: U *)
(* are the blocks it voted for, and none of them outdates its lock.         *)
VotesOK(s, d, U) ==
  /\ s.voted <= s.round
  /\ \A c \in U : /\ c # SwitchBlock
                  /\ Round(c) <= s.voted
                  /\ Round(QC(QC(c))) <= Round(s.lock)
  /\ \A a, c \in U : Round(a) = Round(c) => a = c
  /\ s.pend # Nil => /\ s.pend \in d \ {SwitchBlock}
                     /\ VerifyVotingRule(s, s.pend)
                     /\ Round(QC(QC(s.pend))) <= Round(s.lock)

(* Nobody broadcasts a certificate that is not backed.                      *)
SyncInfosOK ==
  \A m \in syncInfos : /\ m[1] \in CertifiedBlocks \cup {Nil}
                       /\ m[2] \in TimedOutRounds \cup {0}

(* All of it for one node with head block h.                                *)
NodeOK(s, d, h, C, T, V, W) ==
  /\ s \in Engine
  /\ ChainClosed(d) /\ h \in d
  /\ RoundFollows(s)
  /\ s.pend # Nil => s.pend \in d /\ Round(s.pend) = s.round
  /\ CertificatesOK(s, d, C, T)
  /\ PoolsOK(s, d, V, W)

EngineInv ==
  /\ TypeOK
  /\ TreeInv
  /\ SyncInfosOK
  /\ \A n \in Honest :
       NodeOK(node[n], db[n], head[n], CertifiedBlocks, TimedOutRounds, votes, timeouts)

VotingInv == \A n \in Honest : VotesOK(node[n], db[n], votes[n])

=============================================================================
