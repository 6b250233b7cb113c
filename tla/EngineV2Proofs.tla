--------------------------- MODULE EngineV2Proofs ---------------------------
(***************************************************************************)
(* The theorems about EngineV2: its invariants with and without restarts,  *)
(* that it implements SafeVoting, that the engines of all honest           *)
(* masternodes agree on what is committed, that no handler takes back      *)
(* what the engine reached, and that no quorum of votes is left unused.    *)
(***************************************************************************)
EXTENDS EngineV2StepProofs

-----------------------------------------------------------------------------
(* Every step keeps EngineInv, and every step but a restart VotingInv.      *)

(* A step of n leaves the other engines and their votes alone.              *)
LEMMA OthersUntouched ==
  ASSUME EngineInv, NEW n \in Honest, Step(n) \/ Restart(n)
  PROVE  /\ node' = [m \in Honest |-> node'[m]]
         /\ \A m \in Honest \ {n} : node'[m] = node[m] /\ votes'[m] = votes[m]
<1>1. node = [m \in Honest |-> node[m]] /\ votes = [m \in Honest |-> votes[m]]
  BY DEF EngineInv, TypeOK, TreeTypeOK
<1>2. ASSUME NEW t, node' = [node EXCEPT ![n] = t]
      PROVE  /\ node' = [m \in Honest |-> node'[m]]
             /\ \A m \in Honest \ {n} : node'[m] = node[m]
  BY <1>1, <1>2, SMTT(30)
<1>3. \/ UNCHANGED node
      \/ \E t : node' = [node EXCEPT ![n] = t]
  BY <1>1, ZenonT(30)
  DEF Step, Prepare, Seal, InsertBlock, ProposedBlockHandler, SendVote, VoteHandler,
      TimeoutHandler, OnCountdownTimeout, SyncInfoHandler, HygieneVotePool, Restart
<1>4. UNCHANGED votes \/ SignVote(n, node[n].pend)
  BY Zenon DEF Step, Prepare, Seal, InsertBlock, ProposedBlockHandler, SendVote, VoteHandler,
         TimeoutHandler, OnCountdownTimeout, SyncInfoHandler, HygieneVotePool, Restart
<1>5. \A m \in Honest \ {n} : votes'[m] = votes[m]
  BY <1>1, <1>4 DEF SignVote
<1> QED BY <1>1, <1>2, <1>3, <1>5

(* Every handler keeps its own node in order.                               *)
LEMMA ActingNode ==
  ASSUME EngineInv, Stepping, NEW n \in Honest, Step(n)
  PROVE  NodeNext(n) /\ VotesNext(n)
<1>1. ASSUME UNCHANGED <<node, votes>>
      PROVE  NodeNext(n) /\ VotesNext(n)
  BY <1>1, SteppingFacts DEF NodeNext, VotesNext
<1>2. CASE \E b \in Block : InsertBlock(n, b)
  BY <1>1, <1>2 DEF InsertBlock
<1> QED
  BY <1>2, PrepareStep, SealStep, ProposedBlockHandlerStep, SendVoteStep,
     VoteHandlerStep, TimeoutHandlerStep, OnCountdownTimeoutStep,
     SyncInfoHandlerStep, HygieneVotePoolStep
  DEF Step

(* All nodes are in order after every step, restarts included.              *)
LEMMA AllNodes ==
  ASSUME EngineInv, [RestartNext]_vars
  PROVE  node' = [m \in Honest |-> node'[m]] /\ \A m \in Honest : NodeNext(m)
<1>1. Stepping
  BY EngineStepping
<1>2. ASSUME NEW m \in Honest, node'[m] = node[m]
      PROVE  NodeNext(m)
  BY <1>1, <1>2, SteppingFacts DEF NodeNext
<1>3. ASSUME NEW n \in Honest, Step(n) \/ Restart(n)
      PROVE  node' = [m \in Honest |-> node'[m]] /\ \A m \in Honest : NodeNext(m)
  BY <1>1, <1>2, <1>3, OthersUntouched, ActingNode, RestartStep
<1>4. CASE UNCHANGED node
  BY <1>2, <1>4 DEF EngineInv, TypeOK
<1> QED BY <1>3, <1>4 DEF RestartNext, Next, FaultyPropose, vars

(* So are their votes, without restarts.                                    *)
LEMMA AllVotes ==
  ASSUME EngineInv, [Next]_vars
  PROVE  \A m \in Honest : VotesNext(m)
<1>1. Stepping
  BY EngineStepping DEF RestartNext
<1>2. ASSUME NEW n \in Honest, Step(n)
      PROVE  \A m \in Honest : VotesNext(m)
  BY <1>1, <1>2, OthersUntouched, ActingNode DEF VotesNext
<1>3. CASE UNCHANGED <<node, votes>>
  BY <1>3 DEF VotesNext
<1> QED BY <1>2, <1>3 DEF Next, FaultyPropose, vars

(* What is broadcast in a SyncInfo is what a node in order holds.           *)
LEMMA SyncInfosStep ==
  ASSUME EngineInv, [RestartNext]_vars
  PROVE  SyncInfosOK' /\ syncInfos' \subseteq (Block \cup {Nil}) \X (0 .. MaxRound)
<1>1. Stepping /\ \A m \in Honest : NodeNext(m)
  BY EngineStepping, AllNodes
<1>2. CertifiedBlocks \subseteq CertifiedBlocks' /\ TimedOutRounds \subseteq TimedOutRounds'
  BY <1>1, EvidenceGrows DEF Stepping
<1> DEFINE Good(m) == /\ m \in (Block \cup {Nil}) \X (0 .. MaxRound)
                      /\ m[1] \in CertifiedBlocks' \cup {Nil}
                      /\ m[2] \in TimedOutRounds' \cup {0}
<1>3. \A m \in syncInfos : Good(m)
  BY <1>2 DEF EngineInv, TypeOK, SyncInfosOK
<1>4. ASSUME NEW n \in Honest
      PROVE  Good(SyncInfo(node'[n]))
  <2>1. /\ node'[n] \in Engine
        /\ CertificatesOK(node'[n], db[n], CertifiedBlocks', TimedOutRounds')
    BY <1>1 DEF NodeNext, NodeOK
  <2> QED BY <2>1 DEF CertificatesOK, SyncInfo, Engine
<1>5. ASSUME NEW n \in Honest, NEW v \in Masternodes, TimeoutHandler(n, v)
      PROVE  \A m \in syncInfos' : Good(m)
  <2>1. syncInfos' \subseteq syncInfos \cup {SyncInfo(node'[n])}
    BY <1>5 DEF TimeoutHandler, EngineInv, TypeOK
  <2> QED BY <1>3, <1>4, <2>1
<1>6. ASSUME NEW n \in Honest, OnCountdownTimeout(n)
      PROVE  \A m \in syncInfos' : Good(m)
  <2> DEFINE s == CollectTimeout(node[n], n)
             count == (s.tcount + 1) % TimeoutSyncThreshold
  <2>1. /\ node'[n] = [s EXCEPT !.tcount = count]
        /\ syncInfos' \subseteq syncInfos \cup {SyncInfo(s)}
    BY <1>6 DEF OnCountdownTimeout, EngineInv, TypeOK
  <2>2. s \in Engine
    <3>1. /\ UNCHANGED tree /\ node[n].pend = Nil /\ node[n].round <= MaxRound
          /\ node[n].round \in timeouts'[n] /\ n \in Masternodes
      BY <1>6 DEF OnCountdownTimeout, Unlocked, EngineInv, TypeOK, Honest
    <3> QED BY <1>1, <3>1, CollectTimeoutStep
  <2> HIDE DEF s, count
  <2>3. node'[n].hqc = s.hqc /\ node'[n].htc = s.htc
    BY <2>1, <2>2 DEF Engine
  <2>4. SyncInfo(s) = SyncInfo(node'[n])
    BY <2>3, SMTT(30) DEF SyncInfo
  <2> QED BY <1>3, <1>4, <2>1, <2>4
<1>7. \A m \in syncInfos' : Good(m)
  <2>1. CASE UNCHANGED syncInfos
    BY <1>3, <2>1
  <2> QED
    BY <1>5, <1>6, <2>1, ZenonT(30)
    DEF RestartNext, Next, Step, vars, Prepare, Seal, InsertBlock,
        ProposedBlockHandler, SendVote, VoteHandler, SyncInfoHandler,
        HygieneVotePool, FaultyPropose, Restart
<1> QED BY <1>7 DEF SyncInfosOK

(* EngineInv is inductive, restarts included.                               *)
LEMMA EngineInvStep ==
  ASSUME EngineInv, [RestartNext]_vars
  PROVE  EngineInv'
<1>1. Stepping /\ ChainsGrow
  BY EngineStepping, EngineChains
<1>2. node' = [m \in Honest |-> node'[m]] /\ \A m \in Honest : NodeNext(m)
  BY AllNodes
<1>3. SyncInfosOK' /\ syncInfos' \subseteq (Block \cup {Nil}) \X (0 .. MaxRound)
  BY SyncInfosStep
<1>4. ASSUME NEW m \in Honest
      PROVE  NodeOK(node[m], db[m], head[m],
                    CertifiedBlocks, TimedOutRounds, votes, timeouts)'
  <2>1. /\ TreeInv /\ Grows
        /\ NodeOK(node'[m], db[m], head[m],
                  CertifiedBlocks', TimedOutRounds', votes', timeouts')
        /\ db[m] \subseteq db'[m] /\ ChainClosed(db[m])' /\ head'[m] \in db'[m]
    BY <1>1, <1>2 DEF NodeNext, Stepping, EngineInv, ChainsGrow
  <2> QED BY <2>1, NodeOKLift
<1>5. \A m \in Honest : node'[m] \in Engine
  BY <1>2 DEF NodeNext, NodeOK
<1>6. node' \in [Honest -> Engine]
  BY <1>2, <1>5
<1>7. TypeOK'
  BY <1>1, <1>3, <1>6 DEF TypeOK, ChainsGrow, Stepping, TreeInv, TimeoutsGrow
<1> QED BY <1>1, <1>3, <1>4, <1>7 DEF EngineInv, Stepping

(* VotingInv is inductive relative to EngineInv, without restarts.          *)
LEMMA VotingInvStep ==
  ASSUME EngineInv, VotingInv, [Next]_vars
  PROVE  VotingInv'
<1>1. Stepping /\ ChainsGrow /\ \A m \in Honest : VotesNext(m)
  BY EngineStepping, EngineChains, AllVotes DEF RestartNext
<1>2. ASSUME NEW m \in Honest
      PROVE  VotesOK(node[m], db[m], votes[m])'
  <2>1. VotesOK(node'[m], db[m], votes'[m])
    BY <1>1 DEF VotesNext, VotingInv
  <2>2. /\ TreeInv /\ Grows /\ db[m] \in SUBSET Blocks /\ db[m] \subseteq db'[m]
    BY <1>1 DEF Stepping, EngineInv, TypeOK, ChainsGrow
  <2>3. TreeStep /\ votes \in [Honest -> SUBSET Blocks]
    BY EngineTreeStep DEF RestartNext, EngineInv, TypeOK, TreeTypeOK
  <2>4. votes'[m] \in SUBSET Blocks
    BY <2>3 DEF TreeStep, SignVote
  <2> QED BY <2>1, <2>2, <2>4, VotesOKLift
<1> QED BY <1>2 DEF VotingInv

(* The invariants hold at the switch block.                                 *)
LEMMA EngineInvInit ==
  ASSUME Init
  PROVE  EngineInv /\ VotingInv
<1> DEFINE s == Initial(SwitchBlock, {SwitchBlock})
<1>1. TreeInv /\ Blocks = {SwitchBlock} /\ tree[SwitchBlock] = SwitchHeader
  BY TreeInvInit DEF Init, InitTree, Blocks
<1>2. ChainClosed({SwitchBlock}) /\ QC(SwitchBlock) = SwitchBlock
  BY <1>1 DEF ChainClosed, Parent, QC, SwitchHeader
<1>3. /\ db = [n \in Honest |-> {SwitchBlock}] /\ head = [n \in Honest |-> SwitchBlock]
      /\ timeouts = [n \in Honest |-> {}] /\ syncInfos = {}
      /\ votes = [n \in Honest |-> {}] /\ node = [n \in Honest |-> s]
  BY DEF Init, InitTree
<1>4. ASSUME NodeOK(s, {SwitchBlock}, SwitchBlock,
                    CertifiedBlocks, TimedOutRounds, votes, timeouts)
      PROVE  s \in Engine
  BY <1>4 DEF NodeOK
<1>5. s.pend = Nil /\ s.voted = 0 /\ s.round = 1
  BY DEF Initial, NewEngine
<1> HIDE DEF s
<1>6. TreeTypeOK /\ SwitchBlock \in CertifiedBlocks
  BY <1>1 DEF TreeInv, CertifiedBlocks, Certified
<1>7. Evidence(CertifiedBlocks, TimedOutRounds, votes, timeouts)
  BY <1>1, <1>3, EvidenceHolds
<1>8. NodeOK(s, {SwitchBlock}, SwitchBlock,
             CertifiedBlocks, TimedOutRounds, votes, timeouts)
  BY <1>1, <1>2, <1>6, <1>7, InitialNode DEF s
<1>9. TypeOK
  BY <1>1, <1>3, <1>4, <1>6, <1>8 DEF TypeOK
<1>10. EngineInv
  BY <1>1, <1>3, <1>8, <1>9 DEF EngineInv, SyncInfosOK
<1>11. VotingInv
  BY <1>3, <1>5 DEF VotingInv, VotesOK
<1> QED BY <1>10, <1>11

-----------------------------------------------------------------------------
(* The theorems.                                                            *)

(* Restarts included, every reachable state is in order: what each engine   *)
(* holds in memory follows from certificates that signatures back, and      *)
(* initial() restores such a state from any head block.                     *)
THEOREM EngineInvariant == RestartSpec => []EngineInv
<1>1. Init => EngineInv
  BY EngineInvInit
<1>2. EngineInv /\ [RestartNext]_vars => EngineInv'
  BY EngineInvStep
<1> QED BY <1>1, <1>2, PTL DEF RestartSpec

(* Every field of the engines, the chains and the messages keeps its type.  *)
THEOREM EngineTypeCorrect == RestartSpec => []TypeOK
<1>1. EngineInv => TypeOK
  BY DEF EngineInv
<1> QED BY <1>1, EngineInvariant, PTL

(* processQC, processTC and initial keep currentRound one above the highest *)
(* certificate, whatever order certificates arrive in and whenever the      *)
(* process is restarted.                                                    *)
THEOREM PacemakerCorrect == RestartSpec => []RoundFollowsCertificates
<1>1. EngineInv => RoundFollowsCertificates
  BY DEF EngineInv, RoundFollowsCertificates, NodeOK
<1> QED BY <1>1, EngineInvariant, PTL

(* lockQuorumCert never lags behind highestQuorumCert, restarts included.   *)
THEOREM LockCorrect == RestartSpec => []LockCoversHighestQC
<1>1. EngineInv => LockCoversHighestQC
  BY DEF EngineInv, LockCoversHighestQC, NodeOK, CertificatesOK
<1> QED BY <1>1, EngineInvariant, PTL

(* No engine holds, or spreads in a SyncInfo, a certificate that signatures *)
(* do not back.                                                             *)
THEOREM CertificatesBacked == RestartSpec => []CertificatesAreBacked
<1>1. ASSUME EngineInv, NEW n \in Honest
      PROVE  /\ node[n].hqc # Nil => Certified(node[n].hqc)
             /\ node[n].htc # 0 => TimedOut(node[n].htc)
  <2>1. CertificatesOK(node[n], db[n], CertifiedBlocks, TimedOutRounds)
    BY <1>1 DEF EngineInv, NodeOK
  <2> QED BY <2>1 DEF CertificatesOK, CertifiedBlocks, TimedOutRounds
<1>2. EngineInv => CertificatesAreBacked
  BY <1>1 DEF CertificatesAreBacked
<1> QED BY <1>2, EngineInvariant, PTL

(* commitBlocks commits three-chains only, restarts included.               *)
THEOREM CommitCorrect == RestartSpec => []CommitIsThreeChain
<1>1. ASSUME EngineInv, NEW n \in Honest, node[n].commit # Nil
      PROVE  \E q \in db[n] : Certified(q) /\ Commits(q, node[n].commit)
  <2>1. CertificatesOK(node[n], db[n], CertifiedBlocks, TimedOutRounds)
    BY <1>1 DEF EngineInv, NodeOK
  <2> QED BY <1>1, <2>1 DEF CertificatesOK, CertifiedBlocks
<1>2. EngineInv => CommitIsThreeChain
  BY <1>1 DEF CommitIsThreeChain
<1> QED BY <1>2, EngineInvariant, PTL

(* Without restarts the votes an engine signed and the vote it is about to  *)
(* sign are in order too.                                                   *)
THEOREM VotingInvariant == Spec => [](EngineInv /\ VotingInv)
<1>1. Init => EngineInv /\ VotingInv
  BY EngineInvInit
<1>2. EngineInv /\ VotingInv /\ [Next]_vars => EngineInv' /\ VotingInv'
  <2>1. [Next]_vars => [RestartNext]_vars
    BY DEF RestartNext
  <2> QED BY <2>1, EngineInvStep, VotingInvStep
<1> QED BY <1>1, <1>2, PTL DEF Spec

(* highestVotedRound does its work: without restarts an honest masternode   *)
(* signs at most one vote per round.  (With restarts this is false, see     *)
(* the run restart_double_vote.)                                            *)
THEOREM VotesOncePerRound == Spec => []OneVotePerRound
<1>1. VotingInv => OneVotePerRound
  BY DEF VotingInv, OneVotePerRound, VotesOK
<1> QED BY <1>1, VotingInvariant, PTL

-----------------------------------------------------------------------------
(* The engines implement SafeVoting.                                        *)

(* SafeVoting speaks of the same headers, votes and certificates.           *)
LEMMA SameVocabulary ==
  /\ SV!SwitchBlock = SwitchBlock /\ SV!Block = Block /\ SV!Honest = Honest
  /\ SV!Blocks = Blocks
  /\ \A b : SV!Round(b) = Round(b) /\ SV!QC(b) = QC(b)
  /\ \A b : SV!Number(b) = Number(b)
  /\ \A b, a : SV!Extends(b, a) <=> Extends(b, a)
  /\ \A b : SV!Certified(b) <=> Certified(b)
  /\ \A b, p, q : SV!ChildOf(b, p, q) = ChildOf(b, p, q)
<1>1. SV!SwitchBlock = SwitchBlock /\ SV!Honest = Honest
  BY DEF SV!SwitchBlock, SwitchBlock, SV!Honest, Honest
<1>2. SV!Block = Block
  BY <1>1 DEF SV!Block, Block
<1>3. SV!Blocks = Blocks
  BY DEF SV!Blocks, Blocks
<1>4. \A b : SV!Round(b) = Round(b) /\ SV!QC(b) = QC(b)
  BY DEF SV!Round, Round, SV!QC, QC
<1>5. \A b : SV!Number(b) = Number(b)
  BY DEF SV!Number, Number
<1>6. \A b, a : SV!Extends(b, a) <=> Extends(b, a)
  BY DEF SV!Extends, Extends
<1>7. ASSUME NEW b
      PROVE  SV!Certified(b) <=> Certified(b)
  <2>1. SV!Signers(b) = Signers(b)
    BY <1>1 DEF SV!Signers, Signers
  <2>2. \A S : SV!IsQuorum(S) <=> IsQuorum(S)
    <3>1. \A S : SV!Cardinality(S) = Cardinality(S)
      BY Zenon DEF SV!Cardinality, Cardinality
    <3> QED BY <3>1 DEF SV!IsQuorum, IsQuorum
  <2> QED BY <1>1, <1>3, <2>1, <2>2 DEF SV!Certified, Certified
<1>8. \A b, p, q : SV!ChildOf(b, p, q) = ChildOf(b, p, q)
  BY <1>5 DEF SV!ChildOf, ChildOf
<1> QED BY <1>1, <1>2, <1>3, <1>4, <1>5, <1>6, <1>7, <1>8

(* A lock that an engine holds is older than the engine's round.            *)
LEMMA LockBelowRound ==
  ASSUME NEW s \in Engine, NEW d, NEW C, NEW T, RoundFollows(s),
         CertificatesOK(s, d, C, T), s.lock # Nil
  PROVE  Round(s.lock) < s.round
<1>1. s.hqc \notin {Nil, SwitchBlock} /\ Round(s.lock) < Round(s.hqc)
  BY DEF CertificatesOK, LockCovers
<1>2. /\ s.round \in Nat /\ s.htc \in Nat
      /\ Round(s.hqc) \in Nat /\ Round(s.lock) \in Nat
  BY EngineNumbers
<1> QED BY <1>1, <1>2 DEF RoundFollows

(* A vote that sendVote signs is a vote SafeVoting allows, under the lock   *)
(* that lockQuorumCert names or, before the first lock, the switch block.   *)
LEMMA SendVoteRefines ==
  ASSUME EngineInv, VotingInv, NEW n \in Honest, SendVote(n),
         SignVote(n, node[n].pend)
  PROVE  Vote(n, node[n].pend)
<1> DEFINE s == node[n]
           d == db[n]
           b == s.pend
<1>1. /\ b # Nil /\ UNCHANGED tree
      /\ TreeInv /\ s \in Engine /\ RoundFollows(s)
      /\ CertificatesOK(s, d, CertifiedBlocks, TimedOutRounds)
      /\ VotesOK(s, d, votes[n]) /\ votes[n] \in SUBSET Blocks
      /\ d \in SUBSET Blocks
  BY DEF SendVote, EngineInv, VotingInv, TypeOK, TreeTypeOK, NodeOK
<1> HIDE DEF s, d
<1>2. /\ b \in Blocks \ {SwitchBlock} /\ VerifyVotingRule(s, b)
      /\ s.round > s.voted /\ Round(b) = s.round
      /\ Round(QC(QC(b))) <= Round(s.lock)
  BY <1>1 DEF VotesOK, VerifyVotingRule
<1>3. /\ s.round \in Nat /\ s.voted \in Nat /\ Round(s.lock) \in Nat
      /\ \A c \in Blocks : Round(c) \in Nat
  BY <1>1, EngineNumbers, RoundType DEF TreeInv, TreeTypeOK
<1>4. \A c \in votes[n] : Round(c) < Round(b)
  BY <1>1, <1>2, <1>3 DEF VotesOK
<1>5. \A c \in votes[n] \cup {b} : Round(QC(QC(c))) <= Round(s.lock)
  BY <1>1, <1>2 DEF VotesOK
<1>6. \E l \in Blocks : /\ Certified(l)
                        /\ Round(l) < Round(b)
                        /\ \A c \in votes[n] \cup {b} : Round(QC(QC(c))) <= Round(l)
                        /\ Round(QC(b)) > Round(l) \/ Extends(b, l)
  <2>1. CASE s.lock = Nil
    <3>1. SwitchBlock \in Blocks /\ Certified(SwitchBlock) /\ Extends(b, SwitchBlock)
      BY <1>1, <1>2 DEF TreeInv, TreeTypeOK, TreeShape, Certified, Extends
    <3>2. Round(SwitchBlock) = Round(s.lock)
      BY <2>1, NilFacts DEF Round, SwitchBlock
    <3>3. Round(SwitchBlock) < Round(b)
      <4>1. Round(b) \in Nat /\ Round(b) # 0
        BY <1>1, <1>2, RoundType DEF TreeInv, TreeTypeOK
      <4> QED BY <4>1, <2>1, <3>2, NilFacts
    <3> QED BY <1>5, <3>1, <3>2, <3>3, SMTT(30)
  <2>2. CASE s.lock # Nil
    <3>1. s.lock \in Blocks /\ Certified(s.lock)
      BY <1>1, <2>2 DEF CertificatesOK, CertifiedBlocks
    <3>2. Round(s.lock) < Round(b)
      BY <1>1, <1>2, <2>2, LockBelowRound
    <3>3. Round(QC(b)) > Round(s.lock) \/ Extends(b, s.lock)
      BY <1>2, <2>2, SMTT(30) DEF VerifyVotingRule
    <3> QED BY <1>5, <3>1, <3>2, <3>3
  <2> QED BY <2>1, <2>2
<1> QED
  <2>1. Vote(n, b)
    BY <1>1, <1>2, <1>4, <1>6 DEF Vote, LockOf, VotingRule, s
  <2> QED BY <2>1 DEF s

(* Every step of the engines is a step of SafeVoting or leaves headers and  *)
(* votes alone.                                                             *)
LEMMA EngineStepRefines ==
  ASSUME EngineInv, VotingInv, [Next]_vars
  PROVE  [SV!VotingNext]_SV!VotingVars
<1>1. ASSUME NEW b, NEW p, NEW q, AddHeader(b, p, q), UNCHANGED votes
      PROVE  SV!VotingNext
  <2>1. SV!AddHeader(b, p, q)
    BY <1>1, SameVocabulary DEF SV!AddHeader, AddHeader
  <2>2. b \in Block \ Blocks /\ p \in Blocks /\ q \in Blocks
    BY <1>1 DEF AddHeader
  <2> QED BY <1>1, <2>1, <2>2, SameVocabulary DEF SV!VotingNext
<1>2. ASSUME NEW n \in Honest, NEW b \in Block, Seal(n, b)
      PROVE  SV!VotingNext
  <2>1. PICK w \in node[n].work : AddHeader(b, w[2], w[2]) /\ UNCHANGED votes
    BY <1>2 DEF Seal
  <2> QED BY <1>1, <2>1
<1>3. ASSUME NEW n \in Honest, SendVote(n), SignVote(n, node[n].pend)
      PROVE  SV!VotingNext
  <2> DEFINE b == node[n].pend
  <2>1. Vote(n, b) /\ SV!SignVote(n, b)
    BY <1>3, SendVoteRefines, Zenon DEF SV!SignVote, SignVote
  <2>2. SV!Vote(n, b)
    BY <2>1, SameVocabulary
    DEF Vote, LockOf, VotingRule, SV!Vote, SV!LockOf, SV!VotingRule
  <2>3. b \in Block
    BY <1>3 DEF SendVote, EngineInv, TypeOK, Engine
  <2> QED BY <2>2, <2>3, SameVocabulary DEF SV!VotingNext
<1>4. CASE UNCHANGED <<tree, votes>>
  BY <1>4 DEF SV!VotingVars
<1> QED
  BY <1>1, <1>2, <1>3, <1>4, ZenonT(30)
  DEF Next, Step, vars, Prepare, InsertBlock, ProposedBlockHandler, SendVote,
      VoteHandler, TimeoutHandler, OnCountdownTimeout, SyncInfoHandler,
      HygieneVotePool, FaultyPropose

(* The engines of all honest masternodes, without restarts, implement       *)
(* SafeVoting, so what is proved of SafeVoting holds of them.               *)
THEOREM EngineImplementsSafeVoting == Spec => ImplementsSafeVoting
<1>1. Init => SV!InitTree
  BY DEF Init, InitTree, SV!InitTree, SV!SwitchHeader, SwitchHeader, SV!SwitchBlock,
         SwitchBlock, SV!Honest, Honest
<1>2. EngineInv /\ VotingInv /\ [Next]_vars => [SV!VotingNext]_SV!VotingVars
  BY EngineStepRefines
<1> QED BY <1>1, <1>2, VotingInvariant, PTL DEF Spec, ImplementsSafeVoting, SV!VotingSpec

-----------------------------------------------------------------------------
(* The engines agree.                                                       *)

(* A step of the engines signs no vote or one that the voting rules allow,  *)
(* so the history of votes stays justified.                                 *)
LEMMA EngineVoteHistory ==
  ASSUME EngineInv, VotingInv, VoteHistory, [Next]_vars
  PROVE  VoteHistory'
<1>1. TreeStep /\ IInv
  BY EngineTreeStep DEF RestartNext, IInv, EngineInv
<1>2. ASSUME NEW n \in Honest, SendVote(n), SignVote(n, node[n].pend)
      PROVE  \E m \in Honest, b \in Block : Vote(m, b)
  <2>1. node[n].pend \in Block
    BY <1>2, SMTT(30) DEF SendVote, EngineInv, TypeOK, Engine
  <2> QED BY <1>2, <2>1, SendVoteRefines
<1>3. UNCHANGED votes \/ \E n \in Honest, b \in Block : Vote(n, b)
  BY <1>2, ZenonT(30)
  DEF Next, Step, vars, Prepare, Seal, InsertBlock, ProposedBlockHandler, SendVote,
      VoteHandler, TimeoutHandler, OnCountdownTimeout, SyncInfoHandler,
      HygieneVotePool, FaultyPropose
<1> QED BY <1>1, <1>3, VoteHistoryStep

(* What an engine has committed, the voting rules call committed.           *)
LEMMA CommitIsCommitted ==
  ASSUME EngineInv, NEW n \in Honest, node[n].commit # Nil
  PROVE  node[n].commit \in Blocks /\ Committed(node[n].commit)
<1>1. /\ CertificatesOK(node[n], db[n], CertifiedBlocks, TimedOutRounds)
      /\ TreeInv
  BY DEF EngineInv, NodeOK
<1>2. PICK q \in CertifiedBlocks : Commits(q, node[n].commit)
  BY <1>1 DEF CertificatesOK
<1>3. q \in Blocks /\ Certified(q) /\ node[n].commit = Parent(Parent(q))
  BY <1>2 DEF CertifiedBlocks, Commits
<1> QED BY <1>1, <1>2, <1>3, BlockFacts, Zenon DEF Committed

(* While honest masternodes do not restart, two quorums share an honest     *)
(* masternode and certified blocks carry the certificates of their parents, *)
(* no two engines hold highestCommitBlocks on different branches, whatever  *)
(* faulty masternodes do.                                                   *)
THEOREM EnginesAgree ==
  ASSUME FewFaulty
  PROVE  Spec => []CommitsAgree
<1>1. Init => VoteHistory
  BY DEF Init, InitTree, VoteHistory
<1>2. EngineInv /\ VotingInv /\ VoteHistory /\ [Next]_vars => VoteHistory'
  BY EngineVoteHistory
<1>3. EngineInv /\ VoteHistory => CommitsAgree
  <2> SUFFICES ASSUME EngineInv, VoteHistory, CertifiedOnParents, NEW m \in Honest, NEW n \in Honest,
                      node[m].commit # Nil, node[n].commit # Nil
               PROVE  \/ Extends(node[m].commit, node[n].commit)
                      \/ Extends(node[n].commit, node[m].commit)
    BY DEF CommitsAgree, CommitsOnOneChain
  <2>1. Agreement
    BY AgreementFromIInv DEF EngineInv, IInv
  <2> QED BY <2>1, CommitIsCommitted DEF Agreement
<1> QED BY <1>1, <1>2, <1>3, VotingInvariant, PTL DEF Spec

(* Prepare compares the parent with the certified block, so an honest       *)
(* leader's header carries the certificate of its parent, restarts          *)
(* included, and only a faulty leader's may not.                            *)
LEMMA ProposalsStep ==
  ASSUME EngineInv, [RestartNext]_vars, HonestProposalsOnParents
  PROVE  HonestProposalsOnParents'
<1>1. Grows
  BY EngineStepping DEF Stepping
<1>2. ASSUME NEW b, NEW p, NEW q, AddHeader(b, p, q), q = p \/ Leader(Round(b)) \in Faulty
      PROVE  HonestProposalsOnParents'
  <2>1. /\ Blocks' = Blocks \cup {b}
        /\ tree'[b].qc = q /\ tree'[b].parent = p
        /\ \A c \in Blocks : tree'[c] = tree[c]
    BY <1>1, <1>2 DEF AddHeader, ChildOf, Blocks, Grows
  <2>2. \A c \in Blocks \cup {b} :
          tree'[c].qc = tree'[c].parent \/ Leader(Round(c)) \in Faulty
    BY <1>2, <2>1 DEF HonestProposalsOnParents, QC, Parent
  <2> QED BY <2>1, <2>2 DEF HonestProposalsOnParents, QC, Parent, Round
<1>3. ASSUME NEW n \in Honest, NEW b \in Block, Seal(n, b)
      PROVE  HonestProposalsOnParents'
  <2>1. PICK w \in node[n].work : AddHeader(b, w[2], w[2])
    BY <1>3 DEF Seal
  <2> QED BY <1>2, <2>1
<1>4. ASSUME NEW b \in Block, NEW p \in Block, NEW q \in Block, FaultyPropose(b, p, q)
      PROVE  HonestProposalsOnParents'
  BY <1>2, <1>4 DEF FaultyPropose
<1>5. CASE UNCHANGED tree
  BY <1>5 DEF HonestProposalsOnParents, QC, Parent, Round, Blocks
<1> QED
  BY <1>3, <1>4, <1>5, Zenon
  DEF RestartNext, Next, Step, vars, Prepare, InsertBlock, ProposedBlockHandler,
      SendVote, VoteHandler, TimeoutHandler, OnCountdownTimeout, SyncInfoHandler,
      HygieneVotePool, Restart

LEMMA ProposalsInit ==
  ASSUME Init
  PROVE  HonestProposalsOnParents
BY DEF Init, InitTree, SwitchHeader, HonestProposalsOnParents, QC, Parent, Blocks

(* When faulty masternodes vote as they like but lead no round, the engines *)
(* agree without further conditions: every header carries the certificate   *)
(* of its parent, because Prepare compares the two.                         *)
THEOREM EnginesAgreeUnderHonestLeaders ==
  ASSUME FewFaulty, \A r \in 1 .. MaxRound : Leader(r) \notin Faulty
  PROVE  Spec => []CommitsOnOneChain
<1>1. Init => HonestProposalsOnParents
  BY ProposalsInit
<1>2. EngineInv /\ HonestProposalsOnParents /\ [Next]_vars => HonestProposalsOnParents'
  BY ProposalsStep DEF RestartNext
<1>3. EngineInv /\ HonestProposalsOnParents => CertifiedOnParents
  <2> SUFFICES ASSUME EngineInv, HonestProposalsOnParents, NEW b \in Blocks
               PROVE  QC(b) = Parent(b)
    BY DEF CertifiedOnParents
  <2>1. TreeInv /\ tree[SwitchBlock] = SwitchHeader
    BY DEF EngineInv, TreeInv, TreeShape
  <2>2. CASE b = SwitchBlock
    BY <2>1, <2>2 DEF QC, Parent, SwitchHeader
  <2>3. CASE b # SwitchBlock
    <3>1. Round(b) \in 1 .. MaxRound
      BY <2>1, <2>3, BlockFacts, BoundsAssumption
    <3> QED BY <3>1 DEF HonestProposalsOnParents
  <2> QED BY <2>2, <2>3
<1> QED BY <1>1, <1>2, <1>3, VotingInvariant, EnginesAgree, PTL DEF Spec, CommitsAgree

-----------------------------------------------------------------------------
(* Nothing is taken back without a restart.                                 *)

(* commitBlocks keeps block c, or commits e instead.                        *)
CommitRises(c, e) ==
  e = c \/ (e \in Blocks /\ Round(c) < Round(e) /\ Number(c) <= Number(e))

(* Engine t is where a handler may leave engine s: no round and no          *)
(* certificate is older, and highestCommitBlock is kept or has a newer      *)
(* round and no smaller number.                                             *)
Advances(s, t) ==
  /\ s.round <= t.round /\ s.htc <= t.htc
  /\ Round(s.hqc) <= Round(t.hqc) /\ Round(s.lock) <= Round(t.lock)
  /\ s.commit \in Blocks => CommitRises(s.commit, t.commit)

LEMMA AdvancesSame ==
  ASSUME NEW s \in Engine, NEW t,
         t.round = s.round, t.htc = s.htc,
         t.hqc = s.hqc, t.lock = s.lock, t.commit = s.commit
  PROVE  Advances(s, t)
BY EngineNumbers DEF Advances, CommitRises

LEMMA AdvancesTransitive ==
  ASSUME TreeInv, NEW s \in Engine, NEW t \in Engine, NEW u \in Engine,
         Advances(s, t), Advances(t, u)
  PROVE  Advances(s, u)
<1>1. /\ s.round <= u.round /\ s.htc <= u.htc
      /\ Round(s.hqc) <= Round(u.hqc) /\ Round(s.lock) <= Round(u.lock)
  BY EngineNumbers DEF Advances
<1>2. ASSUME s.commit \in Blocks
      PROVE  CommitRises(s.commit, u.commit)
  <2>1. \A b \in Blocks : Round(b) \in Nat /\ Number(b) \in Nat
    BY BlockFacts, BoundsAssumption
  <2>2. CommitRises(s.commit, t.commit)
    BY <1>2 DEF Advances
  <2>3. t.commit \in Blocks /\ CommitRises(t.commit, u.commit)
    BY <1>2, <2>2 DEF Advances, CommitRises
  <2> QED BY <1>2, <2>1, <2>2, <2>3 DEF CommitRises
<1> QED BY <1>1, <1>2 DEF Advances

(* commitBlocks looks at the round and the number of the block committed    *)
(* before.                                                                  *)
LEMMA CommitBlocksRaises ==
  ASSUME NEW s \in Engine, NEW q, Parent(Parent(q)) \in Blocks, s.commit # Nil
  PROVE  CommitRises(s.commit, CommitBlocks(s, q).commit)
<1> DEFINE t == CommitBlocks(s, q)
           g == Parent(Parent(q))
<1>1. t = s \/ ( /\ t = [s EXCEPT !.commit = g]
                /\ Round(s.commit) < Round(g) /\ Number(s.commit) <= Number(g))
  BY DEF CommitBlocks
<1> HIDE DEF t
<1>2. t = [s EXCEPT !.commit = g] => t.commit = g
  BY DEF Engine
<1> QED BY <1>1, <1>2 DEF CommitRises, t

LEMMA ProcessQCAdvances ==
  ASSUME TreeInv, NEW s \in Engine, NEW d \in SUBSET Blocks, NEW q \in d
  PROVE  LET t == ProcessQC(s, q, d)
         IN  /\ t \in Engine /\ Advances(s, t) /\ t.voted = s.voted
             /\ t.vpool = s.vpool /\ Round(q) <= Round(t.hqc)
<1> DEFINE t == ProcessQC(s, q, d)
           g == Parent(Parent(q))
           s1 == RaiseHighestQC(s, q)
           s2 == RaiseLock(s1, q)
           s3 == CommitBlocks(s2, q)
           s4 == IF Number(q) > 0 THEN s3 ELSE s1
<1>1. /\ q \in Block /\ QC(q) \in Block /\ g \in Block /\ g \in Blocks
      /\ Round(q) \in Nat /\ Round(q) + 1 \in 0 .. MaxRound + 1 /\ Round(QC(q)) \in Nat
      /\ Nil \notin Blocks
  BY BlockFacts, BoundsAssumption
<1>2. /\ t \in Engine
      /\ t.htc = s.htc /\ t.voted = s.voted /\ t.vpool = s.vpool
      /\ t.hqc = IF Round(q) > Round(s.hqc) THEN q ELSE s.hqc
      /\ t.lock = IF q # SwitchBlock
                     /\ (s.lock = Nil \/ Round(QC(q)) > Round(s.lock))
                  THEN QC(q) ELSE s.lock
      /\ t.round = IF Round(q) >= s.round THEN Round(q) + 1 ELSE s.round
  BY ProcessQCFields
<1>3. s.commit \in Blocks => CommitRises(s.commit, t.commit)
  <2>1. s1 \in Engine /\ s1.commit = s.commit
    BY <1>1, RaiseHighestQCFields
  <2> HIDE DEF s1
  <2>2. s2 \in Engine /\ s2.commit = s.commit
    BY <1>1, <2>1, RaiseLockFields
  <2> HIDE DEF s2
  <2>3. /\ s3 \in Engine
        /\ s.commit \in Blocks => CommitRises(s.commit, s3.commit)
    BY <1>1, <2>2, CommitBlocksFields, CommitBlocksRaises
  <2> HIDE DEF s3
  <2>4. /\ s4 \in Engine
        /\ s.commit \in Blocks => CommitRises(s.commit, s4.commit)
    BY <2>1, <2>3 DEF CommitRises
  <2>5. t = IF Round(q) >= s.round THEN SetNewRound(s4, Round(q) + 1) ELSE s4
    BY DEF ProcessQC, s1, s2, s3
  <2> HIDE DEF s4, t
  <2>6. t.commit = s4.commit
    BY <1>1, <2>4, <2>5, SetNewRoundFields
  <2> QED BY <2>4, <2>6
<1> HIDE DEF t
<1>4. /\ s.round <= t.round /\ s.htc <= t.htc
      /\ Round(s.hqc) <= Round(t.hqc) /\ Round(q) <= Round(t.hqc)
  BY <1>1, <1>2, EngineNumbers
<1>5. Round(s.lock) <= Round(t.lock)
  BY <1>1, <1>2, EngineNumbers, NilFacts
<1> QED BY <1>2, <1>3, <1>4, <1>5 DEF Advances, t

LEMMA ProcessTCAdvances ==
  ASSUME NEW s \in Engine, NEW r \in 0 .. MaxRound
  PROVE  LET t == ProcessTC(s, r)
         IN  t \in Engine /\ Advances(s, t) /\ t.voted = s.voted /\ t.vpool = s.vpool
<1> DEFINE t == ProcessTC(s, r)
<1>1. /\ t \in Engine
      /\ t.hqc = s.hqc /\ t.lock = s.lock /\ t.commit = s.commit
      /\ t.voted = s.voted /\ t.vpool = s.vpool
      /\ t.htc = IF r > s.htc THEN r ELSE s.htc
      /\ t.round = IF r >= s.round THEN r + 1 ELSE s.round
  BY ProcessTCFields
<1> HIDE DEF t
<1>2. s.round <= t.round /\ s.htc <= t.htc
  BY <1>1, EngineNumbers, BoundsAssumption
<1> QED BY <1>1, <1>2, EngineNumbers DEF Advances, CommitRises, t

LEMMA CollectVoteAdvances ==
  ASSUME TreeInv, NEW s \in Engine, NEW d \in SUBSET Blocks,
         NEW v \in Masternodes, NEW b \in Block
  PROVE  LET t == CollectVote(s, v, b, d)
         IN  /\ t \in Engine /\ Advances(s, t) /\ t.voted = s.voted
             /\ t.vpool = s.vpool \cup {<<v, b>>}
<1> DEFINE s1 == [s EXCEPT !.vpool = @ \cup {<<v, b>>}]
           t == CollectVote(s, v, b, d)
<1>1. s1 \in Engine
  BY DEF Engine
<1>2. /\ s1.hqc = s.hqc /\ s1.lock = s.lock /\ s1.commit = s.commit
      /\ s1.htc = s.htc /\ s1.voted = s.voted /\ s1.round = s.round
      /\ s1.vpool = s.vpool \cup {<<v, b>>}
  BY DEF Engine
<1>3. t = s1 \/ (b \in d /\ t = ProcessQC(s1, b, d))
  BY DEF CollectVote
<1> HIDE DEF s1, t
<1>4. Advances(s, s1)
  BY <1>2, AdvancesSame, EngineNumbers
<1>5. CASE b \in d /\ t = ProcessQC(s1, b, d)
  <2>1. t \in Engine /\ Advances(s1, t) /\ t.voted = s1.voted /\ t.vpool = s1.vpool
    BY <1>1, <1>5, ProcessQCAdvances
  <2> QED BY <1>1, <1>2, <1>4, <2>1, AdvancesTransitive DEF t
<1>6. CASE t = s1
  BY <1>1, <1>2, <1>4, <1>6 DEF t
<1> QED BY <1>3, <1>5, <1>6

(* A vote that completes a quorum for a stored block makes a certificate.   *)
LEMMA CollectVoteCertifies ==
  ASSUME TreeInv, NEW s \in Engine, NEW d \in SUBSET Blocks, NEW v \in Masternodes, NEW b \in d,
         IsQuorum({m \in Masternodes : <<m, b>> \in s.vpool \cup {<<v, b>>}})
  PROVE  Round(b) <= Round(CollectVote(s, v, b, d).hqc)
<1> DEFINE s1 == [s EXCEPT !.vpool = @ \cup {<<v, b>>}]
<1>1. s1 \in Engine /\ s1.vpool = s.vpool \cup {<<v, b>>}
  BY BlockFacts DEF Engine
<1>2. CollectVote(s, v, b, d) = IF b \in d /\ IsQuorum({m \in Masternodes : <<m, b>> \in s1.vpool})
                                THEN ProcessQC(s1, b, d) ELSE s1
  BY DEF CollectVote
<1> HIDE DEF s1
<1>3. CollectVote(s, v, b, d) = ProcessQC(s1, b, d)
  BY <1>1, <1>2
<1> QED BY <1>1, <1>3, ProcessQCAdvances

LEMMA CollectTimeoutAdvances ==
  ASSUME TreeInv, NEW s \in Engine, NEW v \in Masternodes, s.round <= MaxRound
  PROVE  LET t == CollectTimeout(s, v)
         IN  t \in Engine /\ Advances(s, t) /\ t.voted = s.voted /\ t.vpool = s.vpool
<1> DEFINE s1 == [s EXCEPT !.tpool = @ \cup {v}]
           t == CollectTimeout(s, v)
<1>1. s1 \in Engine /\ s.round \in 0 .. MaxRound
  BY EngineNumbers, BoundsAssumption DEF Engine
<1>2. /\ s1.hqc = s.hqc /\ s1.lock = s.lock /\ s1.commit = s.commit
      /\ s1.htc = s.htc /\ s1.voted = s.voted /\ s1.round = s.round
      /\ s1.vpool = s.vpool
  BY DEF Engine
<1>3. t = IF CompletesTC(s, v) THEN ProcessTC(s1, s.round) ELSE s1
  BY DEF CollectTimeout
<1> HIDE DEF s1, t
<1>4. Advances(s, s1)
  BY <1>2, AdvancesSame, EngineNumbers
<1>5. CASE CompletesTC(s, v)
  <2>1. t \in Engine /\ Advances(s1, t) /\ t.voted = s1.voted /\ t.vpool = s1.vpool
    BY <1>1, <1>3, <1>5, ProcessTCAdvances
  <2> QED BY <1>1, <1>2, <1>4, <2>1, AdvancesTransitive DEF t
<1>6. CASE ~ CompletesTC(s, v)
  BY <1>1, <1>2, <1>3, <1>4, <1>6 DEF t
<1> QED BY <1>5, <1>6

(* Votes of the round the engine ends up in, and above, stay in the pool.   *)
EarlyKept(s, t) == {e \in s.vpool : Round(e[2]) >= t.round} \subseteq t.vpool

(* The handlers that put votes into the pool.                               *)
CollectsVote(n) == SendVote(n) \/ \E v \in Masternodes, b \in Block : VoteHandler(n, v, b)

(* What the handlers of n do to its engine.                                 *)
LEMMA StepAdvances ==
  ASSUME EngineInv, NEW n \in Honest, Step(n)
  PROVE  /\ Advances(node[n], node'[n]) /\ EarlyKept(node[n], node'[n])
         /\ node'[n].voted \in {node[n].voted, node[n].round}
         /\ node'[n].vpool \subseteq node[n].vpool \/ CollectsVote(n)
<1> DEFINE s == node[n]
           d == db[n]
           Goal == /\ Advances(s, node'[n]) /\ EarlyKept(s, node'[n])
                   /\ node'[n].voted \in {s.voted, s.round}
                   /\ node'[n].vpool \subseteq s.vpool \/ CollectsVote(n)
<1>1. /\ TreeInv /\ s \in Engine /\ n \in Masternodes
      /\ d \in SUBSET Blocks /\ \A b \in d : QC(b) \in d
      /\ node \in [Honest -> Engine] /\ Blocks \subseteq Block
      /\ s.pend # Nil => s.pend \in d
  BY Zenon DEF EngineInv, NodeOK, ChainClosed, TypeOK, TreeTypeOK, Honest
<1> HIDE DEF s, d
<1>2. ASSUME NEW t, t = node'[n], Advances(s, t), s.vpool \subseteq t.vpool,
             t.voted \in {s.voted, s.round}, t.vpool = s.vpool \/ CollectsVote(n)
      PROVE  Goal
  BY <1>2 DEF EarlyKept
<1>3. CASE Prepare(n)
  <2> DEFINE t == [s EXCEPT !.work = @ \cup {<<s.round, s.hqc>>}]
  <2>1. t = node'[n]
    BY <1>1, <1>3 DEF Prepare, s
  <2>2. /\ t.hqc = s.hqc /\ t.lock = s.lock /\ t.commit = s.commit /\ t.htc = s.htc
        /\ t.voted = s.voted /\ t.round = s.round /\ t.vpool = s.vpool
    BY <1>1 DEF Engine
  <2> HIDE DEF t
  <2>3. Advances(s, t)
    BY <1>1, <2>2, AdvancesSame, EngineNumbers
  <2> QED BY <1>2, <2>1, <2>2, <2>3 DEF s
<1>4. ASSUME NEW b \in Block, Seal(n, b)
      PROVE  Goal
  <2>1. PICK w \in s.work : node' = [node EXCEPT ![n].mined = w[1], ![n].work = @ \ {w}]
    BY <1>4, Zenon DEF Seal, s
  <2> DEFINE t == [s EXCEPT !.mined = w[1], !.work = @ \ {w}]
  <2>2. t = node'[n]
    BY <1>1, <2>1 DEF s
  <2>3. /\ t.hqc = s.hqc /\ t.lock = s.lock /\ t.commit = s.commit /\ t.htc = s.htc
        /\ t.voted = s.voted /\ t.round = s.round /\ t.vpool = s.vpool
    BY <1>1 DEF Engine
  <2> HIDE DEF t
  <2>4. Advances(s, t)
    BY <1>1, <2>3, AdvancesSame, EngineNumbers
  <2> QED BY <1>2, <2>2, <2>3, <2>4
<1>5. ASSUME NEW b \in Block, InsertBlock(n, b)
      PROVE  Goal
  <2>1. s = node'[n]
    BY <1>5 DEF InsertBlock, s
  <2>2. Advances(s, s)
    BY <1>1, AdvancesSame, EngineNumbers
  <2> QED BY <1>2, <2>1, <2>2
<1>6. ASSUME NEW b \in Block, ProposedBlockHandler(n, b)
      PROVE  Goal
  <2> DEFINE u == ProcessQC(s, QC(b), d)
             t == IF VerifyVotingRule(u, b) THEN [u EXCEPT !.pend = b] ELSE u
  <2>1. t = node'[n] /\ QC(b) \in d
    BY <1>1, <1>6 DEF ProposedBlockHandler, s, d
  <2>2. u \in Engine /\ Advances(s, u) /\ u.vpool = s.vpool /\ u.voted = s.voted
    BY <1>1, <2>1, ProcessQCAdvances
  <2> HIDE DEF u
  <2>3. t \in Engine
    BY <2>2, <1>6 DEF Engine
  <2>4. /\ t.hqc = u.hqc /\ t.lock = u.lock /\ t.commit = u.commit /\ t.htc = u.htc
        /\ t.voted = u.voted /\ t.round = u.round /\ t.vpool = u.vpool
    BY <2>2 DEF Engine
  <2> HIDE DEF t
  <2>5. Advances(u, t)
    BY <2>2, <2>4, AdvancesSame, EngineNumbers
  <2>6. Advances(s, t) /\ t.vpool = s.vpool /\ t.voted = s.voted
    BY <1>1, <2>2, <2>3, <2>4, <2>5, AdvancesTransitive
  <2> QED BY <1>2, <2>1, <2>6
<1>7. CASE SendVote(n)
  <2> DEFINE b == s.pend
             s0 == [s EXCEPT !.pend = Nil]
             s1 == [s0 EXCEPT !.voted = s0.round]
             t == CollectVote(s1, n, b, d)
  <2>1. b \in d /\ (node'[n] = s0 \/ (node'[n] = t /\ Round(b) = s.round))
    <3>1. b # Nil /\ (node'[n] = s0 \/ node'[n] = t)
      BY <1>1, <1>7 DEF SendVote, s, d
    <3>2. Round(b) = s.round
      BY <3>1 DEF EngineInv, NodeOK, s
    <3> QED BY <1>1, <3>1, <3>2
  <2>2. /\ s0 \in Engine /\ s0.hqc = s.hqc /\ s0.lock = s.lock /\ s0.commit = s.commit
        /\ s0.htc = s.htc /\ s0.voted = s.voted /\ s0.round = s.round /\ s0.vpool = s.vpool
    BY <1>1 DEF Engine
  <2> HIDE DEF s0
  <2>3. Advances(s, s0)
    BY <1>1, <2>2, AdvancesSame, EngineNumbers
  <2>4. CASE node'[n] = s0
    <3>1. s.vpool = s0.vpool /\ s0.voted = s.voted
      BY <2>2
    <3> QED BY <1>2, <2>3, <2>4, <3>1 DEF s
  <2>5. CASE node'[n] = t /\ Round(b) = s.round
    <3>1. s0.round \in 0 .. MaxRound
      BY <1>1, <2>1, <2>2, <2>5, BlockFacts, Zenon
    <3>2. /\ s1 \in Engine /\ s1.hqc = s0.hqc /\ s1.lock = s0.lock /\ s1.commit = s0.commit
          /\ s1.htc = s0.htc /\ s1.voted = s0.round /\ s1.round = s0.round
          /\ s1.vpool = s0.vpool
      BY <2>2, <3>1 DEF Engine
    <3> HIDE DEF s1
    <3>3. Advances(s, s1)
      <4>1. /\ s1.hqc = s.hqc /\ s1.lock = s.lock /\ s1.commit = s.commit
            /\ s1.htc = s.htc /\ s1.round = s.round
        BY <1>1, <2>2, <3>2
      <4> QED BY <1>1, <4>1, AdvancesSame
    <3>4. t \in Engine /\ Advances(s1, t) /\ t.voted = s1.voted /\ t.vpool = s1.vpool \cup {<<n, b>>}
      <4>1. b \in Block
        BY <1>1, <2>1
      <4>2. n \in Masternodes /\ s1 \in Engine /\ TreeInv /\ d \in SUBSET Blocks
        BY <1>1, <3>2
      <4>3. ASSUME NEW x \in Block
            PROVE  LET w == CollectVote(s1, n, x, d)
                   IN  /\ w \in Engine /\ Advances(s1, w) /\ w.voted = s1.voted
                       /\ w.vpool = s1.vpool \cup {<<n, x>>}
        BY <4>2, CollectVoteAdvances
      <4> QED BY <4>1, <4>3
    <3> HIDE DEF t
    <3>5. Advances(s, t) /\ s.vpool \subseteq t.vpool /\ t.voted = s.round
      BY <1>1, <2>2, <3>2, <3>3, <3>4, AdvancesTransitive, Zenon
    <3>6. t = node'[n] /\ CollectsVote(n)
      BY <1>7, <2>5 DEF CollectsVote
    <3> QED BY <1>2, <3>5, <3>6 DEF s
  <2> QED BY <2>1, <2>4, <2>5
<1>8. ASSUME NEW v \in Masternodes, NEW b \in Block, VoteHandler(n, v, b)
      PROVE  Goal
  <2>1. node'[n] = CollectVote(s, v, b, d)
    BY <1>1, <1>8 DEF VoteHandler, s, d
  <2>2. CollectsVote(n)
    BY <1>8 DEF CollectsVote
  <2>3. /\ node'[n] \in Engine /\ Advances(s, node'[n]) /\ node'[n].voted = s.voted
        /\ node'[n].vpool = s.vpool \cup {<<v, b>>}
    BY <1>1, <2>1, CollectVoteAdvances
  <2>4. s.vpool \subseteq node'[n].vpool /\ node'[n].voted \in {s.voted, s.round}
    BY <2>3
  <2> QED BY <1>2, <2>2, <2>3, <2>4
<1>9. ASSUME NEW v \in Masternodes, TimeoutHandler(n, v)
      PROVE  Goal
  <2>1. node'[n] = CollectTimeout(s, v) /\ s.round <= MaxRound
    BY <1>1, <1>9 DEF TimeoutHandler, s
  <2> QED BY <1>1, <1>2, <2>1, CollectTimeoutAdvances, Zenon
<1>10. CASE OnCountdownTimeout(n)
  <2> DEFINE u == CollectTimeout(s, n)
             count == (u.tcount + 1) % TimeoutSyncThreshold
             t == [u EXCEPT !.tcount = count]
  <2>1. t = node'[n] /\ s.round <= MaxRound
    BY <1>1, <1>10 DEF OnCountdownTimeout, s
  <2>2. u \in Engine /\ Advances(s, u) /\ u.vpool = s.vpool /\ u.voted = s.voted
    BY <1>1, <2>1, CollectTimeoutAdvances
  <2> HIDE DEF u
  <2>3. count \in 0 .. TimeoutSyncThreshold - 1
    BY <2>2, EngineAssumption DEF Engine
  <2> HIDE DEF count
  <2>4. t \in Engine
    BY <2>2, <2>3 DEF Engine
  <2>5. /\ t.hqc = u.hqc /\ t.lock = u.lock /\ t.commit = u.commit /\ t.htc = u.htc
        /\ t.voted = u.voted /\ t.round = u.round /\ t.vpool = u.vpool
    BY <2>2 DEF Engine
  <2> HIDE DEF t
  <2>6. Advances(u, t)
    BY <2>2, <2>5, AdvancesSame, EngineNumbers
  <2>7. Advances(s, t) /\ t.vpool = s.vpool /\ t.voted = s.voted
    BY <1>1, <2>2, <2>4, <2>5, <2>6, AdvancesTransitive, Zenon
  <2>8. t = node'[n]
    BY <2>1
  <2> QED BY <1>2, <2>7, <2>8 DEF s
<1>11. ASSUME NEW q \in Block, NEW r \in 0 .. MaxRound, SyncInfoHandler(n, q, r)
      PROVE  Goal
  <2> DEFINE u == ProcessQC(s, q, d)
             t == ProcessTC(u, r)
  <2>1. t = node'[n] /\ q \in d
    BY <1>1, <1>11 DEF SyncInfoHandler, s, d
  <2>2. u \in Engine /\ Advances(s, u) /\ u.vpool = s.vpool /\ u.voted = s.voted
    BY <1>1, <2>1, ProcessQCAdvances
  <2> HIDE DEF u
  <2>3. t \in Engine /\ Advances(u, t) /\ t.vpool = u.vpool /\ t.voted = u.voted
    BY <2>2, ProcessTCAdvances
  <2> HIDE DEF t
  <2>4. Advances(s, t) /\ t.vpool = s.vpool /\ t.voted = s.voted
    BY <1>1, <2>2, <2>3, AdvancesTransitive, Zenon
  <2> QED BY <1>2, <2>1, <2>4, Zenon
<1>12. ASSUME NEW r \in 1 .. MaxRound + 1, HygieneVotePool(n, r)
      PROVE  Goal
  <2> DEFINE P == {e \in s.vpool : Round(e[2]) >= r - PoolHygieneRound}
             t == [s EXCEPT !.vpool = P]
  <2>1. t = node'[n] /\ r <= s.round
    BY <1>1, <1>12 DEF HygieneVotePool, s
  <2>2. /\ t.hqc = s.hqc /\ t.lock = s.lock /\ t.commit = s.commit /\ t.htc = s.htc
        /\ t.voted = s.voted /\ t.round = s.round /\ t.vpool = P
    BY <1>1 DEF Engine
  <2> HIDE DEF t
  <2>3. Advances(s, t)
    BY <1>1, <2>2, AdvancesSame, EngineNumbers
  <2>4. \A e \in s.vpool : Round(e[2]) \in Nat
    BY <1>1, RoundType DEF Engine
  <2>5. r \in Int /\ PoolHygieneRound \in Nat /\ s.round \in Nat
    BY <1>1, EngineNumbers, EngineAssumption, BoundsAssumption
  <2>6. \A k \in Nat : k >= s.round => k >= r - PoolHygieneRound
    BY <2>1, <2>5
  <2>7. \A e \in s.vpool : Round(e[2]) >= s.round => Round(e[2]) >= r - PoolHygieneRound
    BY <2>4, <2>6
  <2> QED BY <2>1, <2>2, <2>3, <2>7 DEF EarlyKept
<1> QED
  <2>1. Goal
    BY <1>3, <1>4, <1>5, <1>6, <1>7, <1>8, <1>9, <1>10, <1>11, <1>12, Zenon DEF Step, s
  <2> QED BY <2>1 DEF s

(* All engines advance in a step of Next.                                   *)
LEMMA AllAdvance ==
  ASSUME EngineInv, [Next]_vars
  PROVE  \A m \in Honest : /\ Advances(node[m], node'[m]) /\ EarlyKept(node[m], node'[m])
                           /\ node'[m].voted \in {node[m].voted, node[m].round}
<1> DEFINE Goal(m) == /\ Advances(node[m], node'[m]) /\ EarlyKept(node[m], node'[m])
                      /\ node'[m].voted \in {node[m].voted, node[m].round}
<1>1. ASSUME NEW m \in Honest, node'[m] = node[m]
      PROVE  Goal(m)
  <2>1. node[m] \in Engine
    BY DEF EngineInv, TypeOK
  <2>2. Advances(node[m], node[m])
    BY <2>1, AdvancesSame, EngineNumbers
  <2> QED BY <1>1, <2>2 DEF EarlyKept
<1>2. ASSUME NEW n \in Honest, Step(n)
      PROVE  \A m \in Honest : Goal(m)
  BY <1>1, <1>2, OthersUntouched, StepAdvances
<1>3. CASE UNCHANGED node
  BY <1>1, <1>3
<1> QED BY <1>2, <1>3 DEF Next, FaultyPropose, vars

(* Any block that some three-chain commits is at or below every committed   *)
(* block of a newer round, as long as certified blocks carry the            *)
(* certificates of their parents.                                           *)
CommitsInOrder ==
  CertifiedOnParents =>
    \A a \in Blocks, n \in Honest :
      LET c == node[n].commit
      IN  Committed(a) /\ c # Nil /\ (c = a \/ Round(a) < Round(c)) => a \in tree[c].anc

LEMMA CommitsAreInOrder ==
  ASSUME FewFaulty, EngineInv, VoteHistory
  PROVE  CommitsInOrder
<1> SUFFICES ASSUME CertifiedOnParents, NEW a \in Blocks, NEW n \in Honest,
                    Committed(a), node[n].commit # Nil,
                    node[n].commit = a \/ Round(a) < Round(node[n].commit)
             PROVE  a \in tree[node[n].commit].anc
  BY DEF CommitsInOrder
<1> DEFINE c == node[n].commit
<1>1. c \in Blocks /\ Committed(c)
  BY CommitIsCommitted
<1>2. TreeInv /\ IInv
  BY DEF EngineInv, IInv
<1>3. Certified(c)
  BY <1>1, <1>2, ThreeChain DEF Committed
<1>4. Round(a) \in Nat /\ Round(c) \in Nat
  BY <1>1, <1>2, RoundType DEF TreeInv, TreeTypeOK
<1>5. Round(c) >= Round(a)
  BY <1>4
<1> QED BY <1>1, <1>2, <1>3, <1>5, ExtendFromIInv DEF CertifiedExtendCommitted, Extends

(* processQC, processTC, commitBlocks and sendVote take nothing back: no    *)
(* round, certificate, lock or vote gets older, a block committed later has *)
(* a newer round and no smaller number, and lies on the chain of the block  *)
(* committed before as long as certified blocks carry the certificates of   *)
(* their parents: the latter takes the agreement of all engines.            *)
THEOREM NothingRegresses ==
  ASSUME FewFaulty
  PROVE  Spec => EngineNeverRegresses
<1>1. Init => VoteHistory
  BY DEF Init, InitTree, VoteHistory
<1>2. EngineInv /\ VotingInv /\ VoteHistory /\ [Next]_vars => VoteHistory'
  BY EngineVoteHistory
<1>3. EngineInv /\ VoteHistory => CommitsInOrder
  BY CommitsAreInOrder
<1>4. ASSUME EngineInv, VotingInv, CommitsInOrder', [Next]_vars
      PROVE  NeverRegress
  <2>0. /\ Stepping /\ TreeInv /\ Grows
        /\ \A n \in Honest : node[n] \in Engine /\ node'[n] \in Engine
        /\ \A b \in Blocks : Number(b) \in Nat
    <3>1. [RestartNext]_vars
      BY <1>4 DEF RestartNext
    <3>2. Stepping /\ TreeInv /\ Grows
      BY <1>4, <3>1, EngineStepping DEF Stepping, EngineInv
    <3>3. \A n \in Honest : node[n] \in Engine /\ node'[n] \in Engine
      BY <1>4, <3>1, AllNodes DEF NodeNext, NodeOK, EngineInv, TypeOK
    <3> QED BY <3>2, <3>3, BlockFacts
  <2>1. ASSUME NEW n \in Honest, node[n].commit # Nil
        PROVE  /\ node[n].commit \in Blocks /\ Committed(node[n].commit)
               /\ CommitRises(node[n].commit, node'[n].commit)
               /\ node'[n].commit \in Blocks
    <3>1. node[n].commit \in Blocks /\ Committed(node[n].commit)
      BY <1>4, <2>1, CommitIsCommitted
    <3>2. CommitRises(node[n].commit, node'[n].commit)
      BY <1>4, <3>1, AllAdvance DEF Advances
    <3> QED BY <3>1, <3>2 DEF CommitRises
  <2>2. ASSUME NEW n \in Honest
        PROVE  Round(node[n].commit) <= Round(node'[n].commit)
    <3>1. Round(node[n].commit) \in Nat /\ Round(node'[n].commit) \in Nat
      BY <2>0, NilFacts, RoundType DEF Engine
    <3>2. CASE node[n].commit = Nil
      BY <3>1, <3>2, NilFacts
    <3>3. CASE node[n].commit # Nil
      BY <2>1, <3>1, <3>3 DEF CommitRises
    <3> QED BY <3>2, <3>3
  <2>3. ASSUME NEW n \in Honest, node[n].commit # Nil
        PROVE  tree[node[n].commit].number <= tree'[node'[n].commit].number
    BY <2>0, <2>1, <2>3 DEF CommitRises, Grows, Number
  <2>4. ASSUME NEW n \in Honest, node[n].commit # Nil, CertifiedOnParents'
        PROVE  node[n].commit \in tree'[node'[n].commit].anc
    <3>0. PICK a : a = node[n].commit
      OBVIOUS
    <3>1. a \in Blocks /\ Committed(a)
      BY <2>1, <2>4, <3>0
    <3>2. a \in Blocks' /\ Committed(a)'
      <4>1. PICK q \in Blocks : Certified(q) /\ Commits(q, a)
        BY <3>1 DEF Committed
      <4>2. Certified(q)' /\ q \in Blocks'
        BY <2>0, <4>1, CertifiedStable DEF Grows
      <4>3. tree'[q] = tree[q] /\ tree'[Parent(q)] = tree[Parent(q)]
        BY <2>0, BlockFacts DEF Grows
      <4>4. Commits(q, a)'
        BY <4>1, <4>3, Zenon DEF Commits, Parent, Number
      <4> QED BY <2>0, <3>1, <4>2, <4>4 DEF Committed, Grows
    <3>3. /\ node'[n].commit = a \/ Round(a) < Round(node'[n].commit)
          /\ node'[n].commit # Nil
      BY <2>0, <2>1, <2>4, <3>0, BlockFacts, NilFacts DEF CommitRises
    <3> QED BY <1>4, <2>4, <3>0, <3>2, <3>3 DEF CommitsInOrder, Round
  <2>5. ASSUME NEW n \in Honest
        PROVE  node[n].voted <= node'[n].voted
    <3>1. node[n].voted <= node[n].round /\ node[n] \in Engine
      BY <1>4 DEF VotingInv, VotesOK, EngineInv, TypeOK
    <3> QED BY <1>4, <3>1, AllAdvance, EngineNumbers
  <2> QED BY <1>4, <2>2, <2>3, <2>4, <2>5, AllAdvance, Zenon DEF NeverRegress, Advances
<1> QED BY <1>1, <1>2, <1>3, <1>4, VotingInvariant, PTL DEF Spec, EngineNeverRegresses

(* Neither setNewRound nor a hygieneVotePool that read the round long ago   *)
(* drops a vote for the current round or a later one.                       *)
THEOREM EarlyVotesKept == Spec => EarlyVotesAreKept
<1>1. EngineInv /\ [Next]_vars => KeepEarlyVotes
  BY AllAdvance DEF KeepEarlyVotes, EarlyKept
<1> QED BY <1>1, VotingInvariant, PTL DEF Spec, EarlyVotesAreKept

-----------------------------------------------------------------------------
(* A collected quorum is used.                                              *)

(* The votes for b in pool P.                                               *)
VotersIn(P, b) == {m \in Masternodes : <<m, b>> \in P}

(* What VotedQuorumIsUsed says of an engine s that voted for the blocks U.  *)
QuorumsUsed(s, U) ==
  \A b \in U : IsQuorum(VotersIn(s.vpool, b)) => Round(b) <= Round(s.hqc)

(* A node votes for blocks that it has stored.                              *)
VotedStored == \A n \in Honest : votes[n] \subseteq db[n]

LEMMA VotedStoredStep ==
  ASSUME EngineInv, VotedStored, [RestartNext]_vars
  PROVE  VotedStored'
<1>1. \A m \in Honest : db[m] \subseteq db'[m]
  BY EngineChains, Zenon DEF ChainsGrow
<1>2. votes \in [Honest -> SUBSET Blocks]
  BY DEF EngineInv, TypeOK, TreeTypeOK
<1>3. ASSUME NEW n \in Honest, SendVote(n), SignVote(n, node[n].pend)
      PROVE  VotedStored'
  <2>1. node[n].pend \in db[n]
    BY <1>3 DEF SendVote, EngineInv, NodeOK
  <2> QED BY <1>1, <1>2, <1>3, <2>1 DEF SignVote, VotedStored
<1>4. CASE UNCHANGED votes
  BY <1>1, <1>4 DEF VotedStored
<1> QED
  BY <1>3, <1>4, ZenonT(30)
  DEF RestartNext, Next, Step, vars, Prepare, Seal, InsertBlock, ProposedBlockHandler,
      SendVote, VoteHandler, TimeoutHandler, OnCountdownTimeout, SyncInfoHandler,
      HygieneVotePool, FaultyPropose, Restart

(* An engine that drops votes and raises its certificate.                   *)
LEMMA UsedKeeps ==
  ASSUME NEW s \in Engine, NEW t \in Engine, NEW U \in SUBSET Block, QuorumsUsed(s, U),
         t.vpool \subseteq s.vpool, Round(s.hqc) <= Round(t.hqc)
  PROVE  QuorumsUsed(t, U)
<1> SUFFICES ASSUME NEW b \in U, IsQuorum(VotersIn(t.vpool, b))
             PROVE  Round(b) <= Round(t.hqc)
  BY DEF QuorumsUsed
<1>1. VotersIn(s.vpool, b) \in SUBSET Masternodes
      /\ VotersIn(t.vpool, b) \in SUBSET VotersIn(s.vpool, b)
  BY DEF VotersIn
<1>2. IsQuorum(VotersIn(s.vpool, b))
  BY <1>1, QuorumMonotone
<1>3. Round(b) <= Round(s.hqc)
  BY <1>2 DEF QuorumsUsed
<1>4. Round(b) \in Nat /\ Round(s.hqc) \in Nat /\ Round(t.hqc) \in Nat
  BY EngineNumbers, RoundType
<1> QED BY <1>3, <1>4

(* voteHandler on a block that is stored if the node voted for it.          *)
LEMMA UsedCollects ==
  ASSUME TreeInv, NEW s \in Engine, NEW d \in SUBSET Blocks, NEW U \in SUBSET d,
         NEW v \in Masternodes, NEW b \in Blocks, NEW X \in SUBSET U,
         QuorumsUsed(s, X), U \subseteq X \cup {b}
  PROVE  QuorumsUsed(CollectVote(s, v, b, d), U)
<1> DEFINE t == CollectVote(s, v, b, d)
<1>1. b \in Block /\ U \subseteq Block
  BY BlockFacts
<1>2. /\ t \in Engine /\ Round(s.hqc) <= Round(t.hqc)
      /\ t.vpool = s.vpool \cup {<<v, b>>}
  BY <1>1, CollectVoteAdvances, SMTT(30) DEF Advances
<1>3. ASSUME NEW c \in U, IsQuorum(VotersIn(t.vpool, c)), c # b
      PROVE  Round(c) <= Round(t.hqc)
  <2>1. VotersIn(t.vpool, c) = VotersIn(s.vpool, c)
    BY <1>2, <1>3, Zenon DEF VotersIn
  <2>2. Round(c) <= Round(s.hqc)
    BY <1>3, <2>1 DEF QuorumsUsed
  <2>3. Round(c) \in Nat /\ Round(s.hqc) \in Nat /\ Round(t.hqc) \in Nat
    BY <1>1, <1>2, EngineNumbers, RoundType, Zenon
  <2> QED BY <1>2, <2>2, <2>3
<1>4. ASSUME b \in U, IsQuorum(VotersIn(t.vpool, b))
      PROVE  Round(b) <= Round(t.hqc)
  <2>1. IsQuorum({m \in Masternodes : <<m, b>> \in s.vpool \cup {<<v, b>>}}) /\ b \in d
    BY <1>2, <1>4 DEF VotersIn
  <2> QED BY <2>1, CollectVoteCertifies
<1> QED BY <1>3, <1>4 DEF QuorumsUsed

(* No handler leaves a quorum for a block that the node voted for unused.   *)
LEMMA UsedStep ==
  ASSUME EngineInv, VotedStored, VotedStored', NEW n \in Honest, Step(n),
         QuorumsUsed(node[n], votes[n])
  PROVE  QuorumsUsed(node'[n], votes'[n])
<1> DEFINE s == node[n]
           d == db[n]
           U == votes[n]
<1>1. /\ TreeInv /\ s \in Engine /\ node'[n] \in Engine /\ n \in Masternodes
      /\ d \in SUBSET Blocks /\ U \in SUBSET d /\ node \in [Honest -> Engine]
      /\ votes \in [Honest -> SUBSET Blocks] /\ Blocks \subseteq Block
  <2>1. [RestartNext]_vars
    BY DEF RestartNext, Next
  <2>2. node'[n] \in Engine
    BY <2>1, AllNodes DEF NodeNext, NodeOK
  <2> QED BY <2>2, Zenon DEF EngineInv, VotedStored, TypeOK, TreeTypeOK, Honest
<1> HIDE DEF s, d, U
<1>2. ASSUME NEW v \in Masternodes, NEW b \in Block, VoteHandler(n, v, b)
      PROVE  QuorumsUsed(node'[n], votes'[n])
  <2>1. node'[n] = CollectVote(s, v, b, d) /\ votes'[n] = U /\ b \in Blocks
    BY <1>1, <1>2 DEF VoteHandler, s, d, U
  <2>2. QuorumsUsed(s, U)
    BY Zenon DEF s, U
  <2> QED BY <1>1, <2>1, <2>2, UsedCollects
<1>3. CASE SendVote(n)
  <2> DEFINE b == s.pend
             s0 == [s EXCEPT !.pend = Nil]
             s1 == [s0 EXCEPT !.voted = s0.round]
  <2>1. /\ b \in d /\ Round(b) = s.round
        /\ \/ node'[n] = s0 /\ votes'[n] = U
           \/ node'[n] = CollectVote(s1, n, b, d) /\ votes'[n] = U \cup {b}
    <3>1. /\ b # Nil
          /\ \/ node'[n] = s0 /\ votes'[n] = U
             \/ node'[n] = CollectVote(s1, n, b, d) /\ votes'[n] = U \cup {b}
      BY <1>1, <1>3 DEF SendVote, SignVote, s, d, U
    <3> QED BY <3>1 DEF EngineInv, NodeOK, s, d
  <2>2. s0 \in Engine /\ s0.hqc = s.hqc /\ s0.vpool = s.vpool /\ s0.round = s.round
    BY <1>1 DEF Engine
  <2> HIDE DEF s0
  <2>3. s0.round \in 0 .. MaxRound
    BY <1>1, <2>1, <2>2, BlockFacts
  <2>4. s1 \in Engine /\ s1.hqc = s.hqc /\ s1.vpool = s.vpool
    BY <2>2, <2>3, Zenon DEF Engine
  <2> HIDE DEF s1
  <2>5. QuorumsUsed(s0, U) /\ QuorumsUsed(s1, U)
    BY <2>2, <2>4 DEF QuorumsUsed, s, U
  <2>6. ASSUME NEW x \in d
        PROVE  QuorumsUsed(CollectVote(s1, n, x, d), U \cup {x})
    <3>1. U \cup {x} \in SUBSET d /\ U \in SUBSET (U \cup {x}) /\ x \in Blocks
      BY <1>1, <2>6, Zenon
    <3> QED BY <1>1, <2>4, <2>5, <3>1, UsedCollects
  <2> QED BY <2>1, <2>5, <2>6
<1>4. CASE node'[n].vpool \subseteq s.vpool /\ ~ CollectsVote(n)
  <2>1. votes'[n] = U
    BY <1>1, <1>4, Zenon
    DEF CollectsVote, Step, Prepare, Seal, InsertBlock, ProposedBlockHandler,
        TimeoutHandler, OnCountdownTimeout, SyncInfoHandler, HygieneVotePool, U
  <2>2. Round(s.hqc) <= Round(node'[n].hqc)
    BY StepAdvances DEF Advances, s
  <2>3. QuorumsUsed(s, U) /\ U \in SUBSET Block
    BY <1>1 DEF s, U
  <2> QED BY <1>1, <1>4, <2>1, <2>2, <2>3, UsedKeeps
<1> QED
  <2>1. node'[n].vpool \subseteq s.vpool \/ CollectsVote(n)
    BY StepAdvances, Zenon DEF s
  <2> QED BY <1>2, <1>3, <1>4, <2>1 DEF CollectsVote

(* A restart empties the pool.                                              *)
LEMMA InitialPool ==
  ASSUME TreeInv, NEW d, ChainClosed(d), NEW h \in d
  PROVE  Initial(h, d).vpool = {}
<1>1. NewEngine \in Engine /\ NewEngine.vpool = {}
  <2>1. 0 \in 0 .. TimeoutSyncThreshold - 1
    BY EngineAssumption, SMTT(30)
  <2> QED BY <2>1, BoundsAssumption DEF NewEngine, Engine
<1>2. CASE h = SwitchBlock
  BY <1>2 DEF Initial, NewEngine
<1>3. CASE h # SwitchBlock
  <2>1. Initial(h, d) = ProcessQC(NewEngine, QC(h), d)
    BY <1>3 DEF Initial
  <2>2. d \in SUBSET Blocks /\ QC(h) \in d
    BY DEF ChainClosed
  <2> QED BY <1>1, <2>1, <2>2, ProcessQCAdvances
<1> QED BY <1>2, <1>3, Zenon

(* voteHandler turns every quorum for a block that the node has voted for   *)
(* into a certificate, whichever of the block and the votes came last and   *)
(* whenever the process restarts.                                           *)
THEOREM QuorumIsUsed ==
  ASSUME CertThreshold > 0
  PROVE  RestartSpec => []VotedQuorumIsUsed
<1> DEFINE Used == \A n \in Honest : QuorumsUsed(node[n], votes[n])
<1>1. Init => VotedStored /\ Used
  BY DEF Init, InitTree, VotedStored, QuorumsUsed
<1>2. EngineInv /\ VotedStored /\ [RestartNext]_vars => VotedStored'
  BY VotedStoredStep
<1>3. ASSUME EngineInv, VotedStored, VotedStored', Used, [RestartNext]_vars
      PROVE  Used'
  <2>1. ASSUME NEW m \in Honest, node'[m] = node[m], votes'[m] = votes[m]
        PROVE  QuorumsUsed(node'[m], votes'[m])
    BY <1>3, <2>1
  <2>2. ASSUME NEW n \in Honest, Step(n)
        PROVE  Used'
    BY <1>3, <2>1, <2>2, OthersUntouched, UsedStep DEF QuorumsUsed, VotersIn, IsQuorum, Round
  <2>3. ASSUME NEW n \in Honest, Restart(n)
        PROVE  Used'
    <3>1. node'[n].vpool = {}
      <4>1. node'[n] = Initial(head[n], db[n])
        BY <1>3, <2>3 DEF Restart, EngineInv, TypeOK
      <4> QED BY <1>3, <4>1, InitialPool, Zenon DEF EngineInv, NodeOK
    <3>2. ~ IsQuorum({})
      BY FS_EmptySet, FS_CardinalityType, MasternodesAssumption, FS_EmptySet DEF IsQuorum
    <3>3. QuorumsUsed(node'[n], votes'[n])
      BY <3>1, <3>2 DEF QuorumsUsed, VotersIn
    <3> QED BY <1>3, <2>1, <2>3, <3>3, OthersUntouched DEF QuorumsUsed, VotersIn, IsQuorum, Round
  <2>4. CASE UNCHANGED <<node, votes>>
    BY <1>3, <2>4 DEF QuorumsUsed, VotersIn, IsQuorum, Round
  <2> QED BY <1>3, <2>2, <2>3, <2>4 DEF RestartNext, Next, FaultyPropose, vars
<1>4. Used => VotedQuorumIsUsed
  BY DEF QuorumsUsed, VotersIn, VotedQuorumIsUsed
<1> QED BY <1>1, <1>2, <1>3, <1>4, EngineInvariant, PTL DEF RestartSpec

=============================================================================
