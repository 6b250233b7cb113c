------------------------- MODULE EngineV2StepProofs -------------------------
(***************************************************************************)
(* Lemmas about one step: every handler keeps its own node in order, and   *)
(* headers, votes, timeouts and chains only grow.                          *)
(***************************************************************************)
EXTENDS EngineV2NodeProofs

-----------------------------------------------------------------------------
(* From one state to the next.                                              *)

(* More certificates and more signatures do not hurt.                       *)
LEMMA NodeOKMonotone ==
  ASSUME NEW s, NEW d, NEW h, NEW C, NEW T, NEW V, NEW W,
         NodeOK(s, d, h, C, T, V, W),
         NEW D, NEW U, NEW X, NEW Y, C \subseteq D, T \subseteq U,
         \A m \in Honest : V[m] \subseteq X[m] /\ W[m] \subseteq Y[m]
  PROVE  NodeOK(s, d, h, D, U, X, Y)
<1>1. PoolsOK(s, d, X, Y)
  BY DEF NodeOK, PoolsOK
<1>2. CertificatesOK(s, d, D, U)
  BY DEF NodeOK, CertificatesOK
<1> QED BY <1>1, <1>2 DEF NodeOK

(* New headers, and new blocks in the chain, do not hurt.                   *)
LEMMA NodeOKLift ==
  ASSUME TreeInv, Grows, NEW s, NEW d, NEW h, NEW C, NEW T, NEW V, NEW W,
         NodeOK(s, d, h, C, T, V, W),
         NEW e, NEW k, d \subseteq e, ChainClosed(e)', k \in e
  PROVE  NodeOK(s, e, k, C, T, V, W)'
<1>1. d \subseteq Blocks /\ \A b \in d : {Parent(b), QC(b)} \subseteq d /\ tree'[b] = tree[b]
  BY DEF NodeOK, ChainClosed, Grows
<1>2. \A b \in d : Parent(b)' = Parent(b) /\ QC(b)' = QC(b) /\ Number(b)' = Number(b)
  BY <1>1 DEF Parent, QC, Number
<1>3. PoolsOK(s, e, V, W)'
  BY DEF NodeOK, PoolsOK, Grows
<1>4. LockCovers(s, e)'
  BY <1>2 DEF NodeOK, CertificatesOK, LockCovers
<1>5. ASSUME s.commit # Nil
      PROVE  \E q \in e \cap C : Commits(q, s.commit)'
  <2>1. PICK q \in d \cap C : Commits(q, s.commit)
    BY <1>5 DEF NodeOK, CertificatesOK
  <2>2. Commits(q, s.commit)'
    BY <1>1, <1>2, <2>1 DEF Commits
  <2> QED BY <2>2
<1>6. CertificatesOK(s, e, C, T)'
  BY <1>4, <1>5 DEF NodeOK, CertificatesOK, RoundFollows, NewEngine
<1> QED BY <1>3, <1>6 DEF NodeOK, RoundFollows

(* The same for what an engine knows of its own votes.                      *)
LEMMA VotesOKLift ==
  ASSUME TreeInv, Grows, NEW s, NEW d \in SUBSET Blocks, NEW U \in SUBSET Blocks,
         VotesOK(s, d, U), NEW e, d \subseteq e
  PROVE  VotesOK(s, e, U)'
<1>1. \A b \in Blocks : QC(b)' = QC(b) /\ QC(b) \in Blocks
  BY BlockFacts DEF Grows, QC
<1>2. \A b \in Blocks : \A a : Extends(b, a)' <=> Extends(b, a)
  BY DEF Grows, Extends
<1>3. \A b \in Blocks : QC(QC(b))' = QC(QC(b))
  BY <1>1 DEF QC
<1>4. ASSUME s.pend # Nil
      PROVE  VerifyVotingRule(s, s.pend)' /\ s.pend \in Blocks
  BY <1>1, <1>2, <1>4 DEF VotesOK, VerifyVotingRule
<1> QED BY <1>1, <1>3, <1>4 DEF VotesOK

(* Signatures that are enough for a block or a round have made it certified *)
(* or timed out.                                                            *)
LEMMA EvidenceHolds ==
  ASSUME TreeInv
  PROVE  Evidence(CertifiedBlocks, TimedOutRounds, votes, timeouts)
<1>1. \A b \in CertifiedBlocks : QC(b) \in CertifiedBlocks
  BY BlockFacts DEF CertifiedBlocks, TreeInv, QCsCertified
<1>2. SwitchBlock \in CertifiedBlocks
  BY DEF CertifiedBlocks, Certified, TreeInv, TreeTypeOK
<1>3. ASSUME NEW b \in Blocks, NEW S \in SUBSET Masternodes, IsQuorum(S),
             \A m \in S \cap Honest : b \in votes[m]
      PROVE  b \in CertifiedBlocks
  <2>1. S \subseteq Signers(b) /\ Signers(b) \in SUBSET Masternodes
    BY <1>3, MasternodesAssumption DEF Signers, Honest
  <2>2. IsQuorum(Signers(b))
    BY <1>3, <2>1, QuorumMonotone
  <2> QED BY <2>2 DEF CertifiedBlocks, Certified
<1>4. ASSUME NEW r \in 1 .. MaxRound, NEW S \in SUBSET Masternodes, IsQuorum(S),
             \A m \in S \cap Honest : r \in timeouts[m]
      PROVE  r \in TimedOutRounds
  <2> DEFINE Q == {n \in Honest : r \in timeouts[n]} \cup Faulty
  <2>1. S \subseteq Q /\ Q \in SUBSET Masternodes
    BY <1>4, MasternodesAssumption DEF Honest
  <2> HIDE DEF Q
  <2>2. IsQuorum(Q)
    BY <1>4, <2>1, QuorumMonotone
  <2> QED BY <2>2 DEF TimedOutRounds, TimedOut, Q
<1> QED BY <1>1, <1>2, <1>3, <1>4 DEF Evidence, CertifiedBlocks, TimedOutRounds

(* Timeouts once signed stay signed.                                        *)
TimeoutsGrow ==
  /\ timeouts' \in [Honest -> SUBSET (1 .. MaxRound)]
  /\ \A n \in Honest : timeouts[n] \subseteq timeouts'[n]

(* What was certified or timed out before a step is so after it.            *)
LEMMA EvidenceGrows ==
  ASSUME Grows, TimeoutsGrow
  PROVE  CertifiedBlocks \subseteq CertifiedBlocks' /\ TimedOutRounds \subseteq TimedOutRounds'
<1>1. CertifiedBlocks \subseteq CertifiedBlocks'
  BY CertifiedStable DEF CertifiedBlocks, Grows
<1>2. ASSUME NEW r \in TimedOutRounds
      PROVE  r \in TimedOutRounds'
  <2> DEFINE Q == {n \in Honest : r \in timeouts[n]} \cup Faulty
             P == {n \in Honest : r \in timeouts'[n]} \cup Faulty
  <2>1. Q \subseteq P /\ P \in SUBSET Masternodes
    BY MasternodesAssumption DEF Honest, TimeoutsGrow
  <2>2. IsQuorum(Q)
    BY DEF TimedOutRounds, TimedOut
  <2> HIDE DEF Q, P
  <2>3. IsQuorum(P)
    BY <2>1, <2>2, QuorumMonotone
  <2>4. TimedOut(r)'
    BY <2>3 DEF TimedOut, P, IsQuorum
  <2> QED BY <2>4 DEF TimedOutRounds
<1> QED BY <1>1, <1>2

(* The same after a step that adds no header, read in the tree before it.   *)
LEMMA EvidenceAfter ==
  ASSUME TreeInv', UNCHANGED tree, TimeoutsGrow
  PROVE  Evidence(CertifiedBlocks', TimedOutRounds', votes', timeouts')
<1>1. /\ Blocks' = Blocks
      /\ \A b : QC(b)' = QC(b)
  BY DEF Blocks, QC
<1>2. \A b \in CertifiedBlocks' : QC(b) \in CertifiedBlocks'
  <2>1. ASSUME NEW b \in Blocks'
        PROVE  QC(b)' \in Blocks' /\ Certified(QC(b))'
    BY <2>1 DEF TreeInv, TreeShape, SwitchHeader, QCsCertified, TreeTypeOK, QC
  <2> QED BY <1>1, <2>1 DEF CertifiedBlocks
<1>3. SwitchBlock \in CertifiedBlocks'
  BY DEF CertifiedBlocks, Certified, TreeInv, TreeTypeOK
<1>4. ASSUME NEW b \in Blocks, NEW S \in SUBSET Masternodes, IsQuorum(S),
             \A m \in S \cap Honest : b \in votes'[m]
      PROVE  b \in CertifiedBlocks'
  <2> DEFINE Q == {n \in Honest : b \in votes'[n]} \cup Faulty
  <2>1. S \subseteq Q /\ Q \in SUBSET Masternodes
    BY <1>4, MasternodesAssumption DEF Honest
  <2> HIDE DEF Q
  <2>2. IsQuorum(Q)
    BY <1>4, <2>1, QuorumMonotone
  <2>3. Certified(b)'
    BY <1>1, <2>2 DEF Certified, Signers, IsQuorum, Q
  <2> QED BY <1>1, <2>3 DEF CertifiedBlocks
<1>5. ASSUME NEW r \in 1 .. MaxRound, NEW S \in SUBSET Masternodes, IsQuorum(S),
             \A m \in S \cap Honest : r \in timeouts'[m]
      PROVE  r \in TimedOutRounds'
  <2> DEFINE Q == {n \in Honest : r \in timeouts'[n]} \cup Faulty
  <2>1. S \subseteq Q /\ Q \in SUBSET Masternodes
    BY <1>5, MasternodesAssumption DEF Honest
  <2> HIDE DEF Q
  <2>2. IsQuorum(Q)
    BY <1>5, <2>1, QuorumMonotone
  <2>3. TimedOut(r)'
    BY <2>2 DEF TimedOut, IsQuorum, Q
  <2> QED BY <2>3 DEF TimedOutRounds
<1> QED BY <1>1, <1>2, <1>3, <1>4, <1>5 DEF Evidence, CertifiedBlocks, TimedOutRounds

(* What a step of n has to show of n itself: its new fields are in order    *)
(* for the chain before the step and the signatures after it.               *)
NodeNext(n) ==
  NodeOK(node'[n], db[n], head[n], CertifiedBlocks', TimedOutRounds', votes', timeouts')

VotesNext(n) ==
  VotesOK(node[n], db[n], votes[n]) => VotesOK(node'[n], db[n], votes'[n])

(* A node that a step leaves alone stays in order.                          *)
LEMMA NodeKept ==
  ASSUME EngineInv, Grows, TimeoutsGrow, NEW n \in Honest
  PROVE  NodeOK(node[n], db[n], head[n],
                CertifiedBlocks', TimedOutRounds', votes', timeouts')
<1>1. NodeOK(node[n], db[n], head[n], CertifiedBlocks, TimedOutRounds, votes, timeouts)
  BY DEF EngineInv
<1>2. CertifiedBlocks \subseteq CertifiedBlocks' /\ TimedOutRounds \subseteq TimedOutRounds'
  BY EvidenceGrows
<1>3. \A m \in Honest : votes[m] \subseteq votes'[m] /\ timeouts[m] \subseteq timeouts'[m]
  BY DEF Grows, TimeoutsGrow
<1> QED BY <1>1, <1>2, <1>3, NodeOKMonotone

(* A node in order is in round 1 or later.                                  *)
LEMMA RoundPositive ==
  ASSUME NEW s, NEW d, NEW h, NEW C, NEW T, NEW V, NEW W, NodeOK(s, d, h, C, T, V, W)
  PROVE  s \in Engine /\ s.round \in 1 .. MaxRound + 1
<1>1. s \in Engine /\ s.round \in 0 .. MaxRound + 1 /\ RoundFollows(s)
  BY DEF NodeOK, Engine
<1>2. s.round \in Nat /\ s.htc \in Nat /\ Round(s.hqc) \in Nat
  BY <1>1, EngineNumbers
<1>3. s.round >= 1
  BY <1>1, <1>2 DEF RoundFollows
<1> QED BY <1>1, <1>2, <1>3, BoundsAssumption

(* Steps that leave round and certificates alone and add nothing to the     *)
(* pools keep a node in order.                                              *)
LEMMA NodeSame ==
  ASSUME NEW s, NEW d, NEW h, NEW C, NEW T, NEW V, NEW W, NodeOK(s, d, h, C, T, V, W),
         NEW t \in Engine, t.hqc = s.hqc, t.lock = s.lock, t.commit = s.commit,
         t.htc = s.htc, t.round = s.round, t.vpool \subseteq s.vpool,
         t.tpool = s.tpool, \A w \in t.work : w[2] \in d, t.pend \in {s.pend, Nil}
  PROVE  NodeOK(t, d, h, C, T, V, W)
<1>1. RoundFollows(t) /\ CertificatesOK(t, d, C, T)
  BY SameCertificates DEF NodeOK
<1>2. PoolsOK(t, d, V, W)
  BY DEF NodeOK, PoolsOK
<1> QED BY <1>1, <1>2 DEF NodeOK

(* Between two votes the round and the lock may only rise.                  *)
LEMMA VotesOKKeeps ==
  ASSUME TreeInv, NEW s \in Engine, NEW t \in Engine, NEW d, NEW U \in SUBSET Blocks,
         VotesOK(s, d, U), t.voted = s.voted, t.pend = Nil, s.round <= t.round,
         Round(s.lock) <= Round(t.lock)
  PROVE  VotesOK(t, d, U)
<1>1. /\ s.round \in Nat /\ t.round \in Nat /\ s.voted \in Nat
      /\ Round(s.lock) \in Nat /\ Round(t.lock) \in Nat
  BY EngineNumbers
<1>2. \A c \in U : Round(QC(QC(c))) \in Nat
  BY BlockFacts
<1>3. t.voted <= t.round
  BY <1>1 DEF VotesOK
<1>4. \A c \in U : Round(QC(QC(c))) <= Round(t.lock)
  BY <1>1, <1>2 DEF VotesOK
<1> QED BY <1>3, <1>4 DEF VotesOK

(* The hypotheses of the steps below.                                       *)
Stepping == EngineInv /\ TreeInv' /\ Grows /\ TimeoutsGrow

(* What they give for node n.                                               *)
LEMMA SteppingFacts ==
  ASSUME Stepping, NEW n \in Honest
  PROVE  /\ TreeInv
         /\ node[n] \in Engine /\ node[n].round \in 1 .. MaxRound + 1
         /\ ChainClosed(db[n]) /\ head[n] \in db[n] /\ db[n] \in SUBSET Blocks
         /\ votes[n] \in SUBSET Blocks
         /\ NodeOK(node[n], db[n], head[n],
                   CertifiedBlocks', TimedOutRounds', votes', timeouts')
         /\ UNCHANGED tree => Evidence(CertifiedBlocks', TimedOutRounds', votes', timeouts')
<1>1. NodeOK(node[n], db[n], head[n], CertifiedBlocks', TimedOutRounds', votes', timeouts')
  BY NodeKept DEF Stepping
<1>2. ChainClosed(db[n]) /\ head[n] \in db[n]
  BY <1>1 DEF NodeOK
<1>3. UNCHANGED tree => Evidence(CertifiedBlocks', TimedOutRounds', votes', timeouts')
  BY EvidenceAfter DEF Stepping
<1>4. node[n] \in Engine /\ node[n].round \in 1 .. MaxRound + 1
  BY <1>1, RoundPositive
<1> QED BY <1>1, <1>2, <1>3, <1>4 DEF Stepping, EngineInv, TreeInv, TreeTypeOK, ChainClosed

(* Prepare.                                                                 *)
LEMMA PrepareStep ==
  ASSUME Stepping, NEW n \in Honest, Prepare(n)
  PROVE  NodeNext(n) /\ VotesNext(n)
<1> DEFINE s == node[n]
           t == [s EXCEPT !.work = @ \cup {<<s.round, s.hqc>>}]
<1>1. /\ node'[n] = t /\ s.hqc \in db[n] /\ s.round <= MaxRound /\ UNCHANGED votes
  BY DEF Prepare, Stepping, EngineInv, TypeOK
<1>2. /\ s \in Engine /\ s.round \in 1 .. MaxRound /\ s.hqc \in Block
      /\ NodeOK(s, db[n], head[n], CertifiedBlocks', TimedOutRounds', votes', timeouts')
      /\ \A w \in s.work : w[2] \in db[n]
  BY <1>1, SteppingFacts, BlockFacts, BoundsAssumption DEF NodeOK, PoolsOK
<1> HIDE DEF s
<1>3. /\ t \in Engine /\ t.hqc = s.hqc /\ t.lock = s.lock /\ t.commit = s.commit
      /\ t.htc = s.htc /\ t.round = s.round /\ t.vpool = s.vpool /\ t.voted = s.voted
      /\ t.tpool = s.tpool /\ t.pend = s.pend
      /\ t.work = s.work \cup {<<s.round, s.hqc>>}
  BY <1>2 DEF Engine
<1> HIDE DEF t
<1>4. NodeOK(t, db[n], head[n], CertifiedBlocks', TimedOutRounds', votes', timeouts')
  BY <1>1, <1>2, <1>3, NodeSame
<1>5. VotesOK(s, db[n], votes[n]) => VotesOK(t, db[n], votes[n])
  BY <1>3 DEF VotesOK, VerifyVotingRule
<1> QED BY <1>1, <1>4, <1>5 DEF NodeNext, VotesNext, s

(* Seal.                                                                    *)
LEMMA SealStep ==
  ASSUME Stepping, NEW n \in Honest, NEW b \in Block, Seal(n, b)
  PROVE  NodeNext(n) /\ VotesNext(n)
<1> DEFINE s == node[n]
<1>1. PICK w \in s.work : /\ node' = [node EXCEPT ![n].mined = w[1], ![n].work = @ \ {w}]
                          /\ UNCHANGED votes
  BY Zenon DEF Seal
<1> DEFINE t == [s EXCEPT !.mined = w[1], !.work = @ \ {w}]
<1>2. node'[n] = t
  BY <1>1 DEF Stepping, EngineInv, TypeOK
<1>3. /\ s \in Engine
      /\ NodeOK(s, db[n], head[n], CertifiedBlocks', TimedOutRounds', votes', timeouts')
      /\ \A x \in s.work : x[2] \in db[n]
  BY SteppingFacts DEF NodeOK, PoolsOK
<1> HIDE DEF s
<1>4. w[1] \in 0 .. MaxRound
  BY <1>3, BoundsAssumption DEF Engine
<1>5. /\ t \in Engine /\ t.hqc = s.hqc /\ t.lock = s.lock /\ t.commit = s.commit
      /\ t.htc = s.htc /\ t.round = s.round /\ t.vpool = s.vpool /\ t.voted = s.voted
      /\ t.tpool = s.tpool /\ t.pend = s.pend /\ t.work = s.work \ {w}
  BY <1>3, <1>4, Zenon DEF Engine
<1> HIDE DEF t
<1>6. NodeOK(t, db[n], head[n], CertifiedBlocks', TimedOutRounds', votes', timeouts')
  BY <1>3, <1>5, NodeSame
<1>7. VotesOK(s, db[n], votes[n]) => VotesOK(t, db[n], votes[n])
  BY <1>5 DEF VotesOK, VerifyVotingRule
<1> QED BY <1>1, <1>2, <1>6, <1>7 DEF NodeNext, VotesNext, s

(* hygieneVotePool.                                                         *)
LEMMA HygieneVotePoolStep ==
  ASSUME Stepping, NEW n \in Honest, NEW r \in 1 .. MaxRound + 1, HygieneVotePool(n, r)
  PROVE  NodeNext(n) /\ VotesNext(n)
<1> DEFINE s == node[n]
           t == [s EXCEPT !.vpool = {e \in @ : Round(e[2]) >= r - PoolHygieneRound}]
<1>1. node'[n] = t /\ UNCHANGED votes
  BY DEF HygieneVotePool, Stepping, EngineInv, TypeOK
<1>2. /\ s \in Engine
      /\ NodeOK(s, db[n], head[n], CertifiedBlocks', TimedOutRounds', votes', timeouts')
      /\ \A w \in s.work : w[2] \in db[n]
  BY SteppingFacts DEF NodeOK, PoolsOK
<1> HIDE DEF s
<1>3. /\ t \in Engine /\ t.hqc = s.hqc /\ t.lock = s.lock /\ t.commit = s.commit
      /\ t.htc = s.htc /\ t.round = s.round /\ t.vpool \subseteq s.vpool
      /\ t.voted = s.voted /\ t.tpool = s.tpool /\ t.pend = s.pend /\ t.work = s.work
  BY <1>2 DEF Engine
<1> HIDE DEF t
<1>4. NodeOK(t, db[n], head[n], CertifiedBlocks', TimedOutRounds', votes', timeouts')
  BY <1>2, <1>3, NodeSame
<1>5. VotesOK(s, db[n], votes[n]) => VotesOK(t, db[n], votes[n])
  BY <1>3 DEF VotesOK, VerifyVotingRule
<1> QED BY <1>1, <1>4, <1>5 DEF NodeNext, VotesNext, s

(* ProposedBlockHandler up to the vote.                                     *)
LEMMA ProposedBlockHandlerStep ==
  ASSUME Stepping, NEW n \in Honest, NEW b \in Block, ProposedBlockHandler(n, b)
  PROVE  NodeNext(n) /\ VotesNext(n)
<1> DEFINE s == node[n]
           d == db[n]
           q == QC(b)
           u == ProcessQC(s, q, d)
           t == IF VerifyVotingRule(u, b) THEN [u EXCEPT !.pend = b] ELSE u
           OK(x) == NodeOK(x, d, head[n], CertifiedBlocks', TimedOutRounds', votes', timeouts')
<1>1. /\ node'[n] = t /\ UNCHANGED <<tree, votes>> /\ s.pend = Nil
      /\ b \in d \ {SwitchBlock}
  BY DEF ProposedBlockHandler, Unlocked, Stepping, EngineInv, TypeOK
<1>2. /\ TreeInv /\ s \in Engine /\ OK(s) /\ ChainClosed(d) /\ d \in SUBSET Blocks
      /\ votes[n] \in SUBSET Blocks
      /\ Evidence(CertifiedBlocks', TimedOutRounds', votes', timeouts')
  BY <1>1, SteppingFacts
<1>3. q \in d \cap CertifiedBlocks'
  <2>1. q \in d /\ q \in Blocks /\ Certified(q)
    BY <1>1, <1>2 DEF ChainClosed, TreeInv, QCsCertified
  <2>2. q \in CertifiedBlocks
    BY <2>1 DEF CertifiedBlocks
  <2> QED BY <2>1, <2>2, EvidenceGrows DEF Stepping
<1> HIDE DEF s, d, q
<1>4. /\ OK(u) /\ u.voted = s.voted /\ u.pend = Nil /\ s.round <= u.round
      /\ Round(s.lock) <= Round(u.lock) /\ Round(QC(q)) <= Round(u.lock)
  BY <1>1, <1>2, <1>3, ProcessQCNode, SMTT(30)
<1>5. u \in Engine
  BY <1>4 DEF NodeOK
<1>6. VotesOK(s, d, votes[n]) => VotesOK(u, d, votes[n])
  BY <1>2, <1>4, <1>5, VotesOKKeeps
<1> HIDE DEF u
<1>7. CASE VerifyVotingRule(u, b)
  <2>1. t = [u EXCEPT !.pend = b]
    BY <1>7
  <2>2. /\ t \in Engine /\ t.hqc = u.hqc /\ t.lock = u.lock /\ t.commit = u.commit
        /\ t.htc = u.htc /\ t.round = u.round /\ t.vpool = u.vpool /\ t.voted = u.voted
        /\ t.tpool = u.tpool /\ t.work = u.work /\ t.pend = b
    BY <1>5, <2>1 DEF Engine
  <2> HIDE DEF t
  <2>3. Round(b) = t.round /\ VerifyVotingRule(t, b)
    BY <1>7, <2>2 DEF VerifyVotingRule
  <2>4. RoundFollows(t) /\ CertificatesOK(t, d, CertifiedBlocks', TimedOutRounds')
    BY <1>4, <2>2, SameCertificates DEF NodeOK
  <2>5. PoolsOK(t, d, votes', timeouts')
    BY <1>4, <2>2, SamePools, SMTT(30) DEF NodeOK
  <2>6. OK(t)
    BY <1>1, <1>4, <2>2, <2>3, <2>4, <2>5, Zenon DEF NodeOK
  <2>7. VotesOK(s, d, votes[n]) => VotesOK(t, d, votes[n])
    BY <1>1, <1>4, <1>6, <2>2, <2>3 DEF VotesOK, q
  <2> QED BY <1>1, <2>6, <2>7 DEF NodeNext, VotesNext, s, d
<1>8. CASE ~ VerifyVotingRule(u, b)
  <2>1. t = u
    BY <1>8
  <2> QED BY <1>1, <1>4, <1>6, <2>1 DEF NodeNext, VotesNext, s, d
<1> QED BY <1>7, <1>8

(* sendVote, or giving the vote up.                                         *)
LEMMA SendVoteStep ==
  ASSUME Stepping, NEW n \in Honest, SendVote(n)
  PROVE  NodeNext(n) /\ VotesNext(n)
<1> DEFINE s == node[n]
           d == db[n]
           b == s.pend
           s0 == [s EXCEPT !.pend = Nil]
           OK(x) == NodeOK(x, d, head[n], CertifiedBlocks', TimedOutRounds', votes', timeouts')
<1>1. /\ UNCHANGED tree /\ b # Nil
      /\ \/ node'[n] = s0 /\ UNCHANGED votes
         \/ /\ node'[n] = CollectVote([s0 EXCEPT !.voted = s0.round], n, b, d)
            /\ votes'[n] = votes[n] \cup {b}
  BY DEF SendVote, SignVote, Stepping, EngineInv, TypeOK, TreeTypeOK
<1>2. /\ TreeInv /\ s \in Engine /\ OK(s) /\ ChainClosed(d) /\ d \in SUBSET Blocks
      /\ votes[n] \in SUBSET Blocks /\ votes'[n] \in SUBSET Blocks
      /\ Evidence(CertifiedBlocks', TimedOutRounds', votes', timeouts')
  BY <1>1, SteppingFacts DEF Stepping, TreeInv, TreeTypeOK, Blocks
<1>3. /\ b \in d /\ b \in Blocks /\ Round(b) = s.round /\ \A w \in s.work : w[2] \in d
  BY <1>1, <1>2 DEF NodeOK, PoolsOK
<1> HIDE DEF s, d
<1>4. /\ s0 \in Engine /\ s0.hqc = s.hqc /\ s0.lock = s.lock /\ s0.commit = s.commit
      /\ s0.htc = s.htc /\ s0.round = s.round /\ s0.vpool = s.vpool /\ s0.voted = s.voted
      /\ s0.tpool = s.tpool /\ s0.work = s.work /\ s0.pend = Nil
  BY <1>2 DEF Engine
<1> HIDE DEF s0
<1>5. CASE node'[n] = s0 /\ UNCHANGED votes
  <2>1. OK(s0)
    BY <1>2, <1>3, <1>4, NodeSame
  <2>2. VotesOK(s, d, votes[n]) => VotesOK(s0, d, votes[n])
    BY <1>4 DEF VotesOK
  <2> QED BY <1>5, <2>1, <2>2, Zenon DEF NodeNext, VotesNext, s, d
<1>6. ASSUME node'[n] = CollectVote([s0 EXCEPT !.voted = s0.round], n, b, d),
             votes'[n] = votes[n] \cup {b}
      PROVE  NodeNext(n) /\ VotesNext(n)
  <2> DEFINE s1 == [s0 EXCEPT !.voted = s0.round]
             t == CollectVote(s1, n, b, d)
  <2>1. s0.round \in 0 .. MaxRound
    BY <1>2, <1>3, <1>4, BlockFacts
  <2>2. /\ s1 \in Engine /\ s1.hqc = s.hqc /\ s1.lock = s.lock /\ s1.commit = s.commit
        /\ s1.htc = s.htc /\ s1.round = s.round /\ s1.vpool = s.vpool /\ s1.voted = s.round
        /\ s1.tpool = s.tpool /\ s1.work = s.work /\ s1.pend = Nil
    BY <1>4, <2>1 DEF Engine
  <2> HIDE DEF s1
  <2>3. OK(s1)
    BY <1>2, <1>3, <2>2, NodeSame
  <2>4. n \in Masternodes /\ b \in votes'[n]
    BY <1>6 DEF Honest
  <2>5. /\ OK(t) /\ t.voted = s1.voted /\ t.pend = Nil /\ s1.round <= t.round
        /\ Round(s1.lock) <= Round(t.lock)
    BY <1>2, <1>3, <2>2, <2>3, <2>4, CollectVoteNode, SMTT(30)
  <2>6. t \in Engine
    BY <2>5 DEF NodeOK
  <2> HIDE DEF t
  <2>7. ASSUME VotesOK(s, d, votes[n])
        PROVE  VotesOK(s1, d, votes'[n])
    <3>1. s.round \in Nat /\ s.voted \in Nat
      BY <1>2, EngineNumbers
    <3>2. \A c \in votes[n] : Round(c) \in Nat
      BY <1>2, BlockFacts, BoundsAssumption
    <3>3. /\ s.round > s.voted /\ b # SwitchBlock
          /\ Round(QC(QC(b))) <= Round(s.lock)
      BY <1>1, <2>7 DEF VotesOK, VerifyVotingRule
    <3>4. \A c \in votes[n] : Round(c) <= s.voted /\ Round(c) < Round(b)
      BY <1>3, <2>7, <3>1, <3>2, <3>3 DEF VotesOK
    <3>5. ASSUME NEW c \in votes'[n]
          PROVE  /\ c # SwitchBlock
                 /\ Round(c) <= s1.voted
                 /\ Round(QC(QC(c))) <= Round(s1.lock)
      <4>1. CASE c = b
        BY <1>3, <2>2, <3>1, <3>3, <4>1, SMTT(30)
      <4>2. CASE c \in votes[n]
        <5>1. Round(c) <= s1.voted
          BY <1>3, <2>2, <3>1, <3>2, <3>4, <4>2
        <5> QED BY <2>2, <2>7, <4>2, <5>1 DEF VotesOK
      <4> QED BY <1>6, <4>1, <4>2
    <3>6. \A a, c \in votes'[n] : Round(a) = Round(c) => a = c
      BY <1>3, <1>6, <2>7, <3>1, <3>2, <3>4, SMTT(30) DEF VotesOK
    <3> QED BY <2>2, <3>1, <3>5, <3>6 DEF VotesOK
  <2>8. VotesOK(s1, d, votes'[n]) => VotesOK(t, d, votes'[n])
    BY <1>2, <2>2, <2>5, <2>6, VotesOKKeeps, ZenonT(30)
  <2> QED BY <1>6, <2>5, <2>7, <2>8, SMTT(30) DEF NodeNext, VotesNext, s, d, s1, t
<1> QED BY <1>1, <1>5, <1>6

(* VoteHandler.                                                             *)
LEMMA VoteHandlerStep ==
  ASSUME Stepping, NEW n \in Honest, NEW v \in Masternodes, NEW b \in Block,
         VoteHandler(n, v, b)
  PROVE  NodeNext(n) /\ VotesNext(n)
<1> DEFINE t == CollectVote(node[n], v, b, db[n])
<1>1. /\ node'[n] = t /\ UNCHANGED <<tree, votes>> /\ node[n].pend = Nil
      /\ b \in Blocks
      /\ v \in Honest => b \in votes'[v]
  BY SMTT(30) DEF VoteHandler, Unlocked, Stepping, EngineInv, TypeOK
<1>f. /\ TreeInv /\ node[n] \in Engine /\ votes[n] \in SUBSET Blocks /\ ChainClosed(db[n])
      /\ db[n] \in SUBSET Blocks
      /\ NodeOK(node[n], db[n], head[n], CertifiedBlocks', TimedOutRounds', votes', timeouts')
      /\ Evidence(CertifiedBlocks', TimedOutRounds', votes', timeouts')
  BY <1>1, SteppingFacts, Zenon
<1>2. /\ NodeOK(t, db[n], head[n], CertifiedBlocks', TimedOutRounds', votes', timeouts')
      /\ t.voted = node[n].voted /\ t.pend = Nil /\ node[n].round <= t.round
      /\ Round(node[n].lock) <= Round(t.lock)
  <2>1. /\ b \in Blocks /\ node[n].pend = Nil
        /\ v \in Honest => b \in votes'[v]
    BY <1>1, Zenon
  <2> QED BY <1>f, <2>1, CollectVoteNode, ZenonT(30)
<1>3. t \in Engine
  BY <1>2 DEF NodeOK
<1> HIDE DEF t
<1>4. VotesOK(node[n], db[n], votes[n]) => VotesOK(t, db[n], votes[n])
  BY <1>2, <1>3, <1>f, VotesOKKeeps, ZenonT(30)
<1> QED BY <1>1, <1>2, <1>4 DEF NodeNext, VotesNext

(* What timeoutHandler does to a node whose round v signed a timeout for.   *)
LEMMA CollectTimeoutStep ==
  ASSUME Stepping, NEW n \in Honest, NEW v \in Masternodes, UNCHANGED tree,
         node[n].pend = Nil, node[n].round <= MaxRound,
         v \in Honest => node[n].round \in timeouts'[v]
  PROVE  LET t == CollectTimeout(node[n], v)
         IN  /\ NodeOK(t, db[n], head[n], CertifiedBlocks', TimedOutRounds', votes', timeouts')
             /\ t \in Engine /\ t.pend = Nil
             /\ VotesOK(node[n], db[n], votes[n]) => VotesOK(t, db[n], votes[n])
<1> DEFINE t == CollectTimeout(node[n], v)
<1>1. node[n] \in Engine /\ node[n].round \in 1 .. MaxRound
  BY SteppingFacts, BoundsAssumption, SMTT(30)
<1>f. /\ TreeInv /\ node[n] \in Engine /\ votes[n] \in SUBSET Blocks /\ ChainClosed(db[n])
      /\ db[n] \in SUBSET Blocks
      /\ NodeOK(node[n], db[n], head[n], CertifiedBlocks', TimedOutRounds', votes', timeouts')
      /\ Evidence(CertifiedBlocks', TimedOutRounds', votes', timeouts')
  BY SteppingFacts
<1>2. /\ NodeOK(t, db[n], head[n], CertifiedBlocks', TimedOutRounds', votes', timeouts')
      /\ t.voted = node[n].voted /\ t.pend = Nil /\ node[n].round <= t.round
      /\ t.lock = node[n].lock
  BY <1>1, <1>f, CollectTimeoutNode, SMTT(30)
<1>3. t \in Engine /\ Round(t.lock) \in Nat
  BY <1>2, EngineNumbers DEF NodeOK
<1> HIDE DEF t
<1>4. Round(node[n].lock) <= Round(t.lock)
  BY <1>2, <1>3
<1>5. VotesOK(node[n], db[n], votes[n]) => VotesOK(t, db[n], votes[n])
  BY <1>2, <1>3, <1>4, <1>f, VotesOKKeeps, ZenonT(30)
<1> QED BY <1>2, <1>3, <1>5 DEF t

(* TimeoutHandler.                                                          *)
LEMMA TimeoutHandlerStep ==
  ASSUME Stepping, NEW n \in Honest, NEW v \in Masternodes, TimeoutHandler(n, v)
  PROVE  NodeNext(n) /\ VotesNext(n)
<1>1. /\ node'[n] = CollectTimeout(node[n], v) /\ UNCHANGED <<tree, votes>>
      /\ node[n].pend = Nil /\ node[n].round <= MaxRound
      /\ v \in Honest => node[n].round \in timeouts'[v]
  BY DEF TimeoutHandler, Unlocked, Stepping, EngineInv, TypeOK
<1> QED BY <1>1, CollectTimeoutStep DEF NodeNext, VotesNext

(* OnCountdownTimeout.                                                      *)
LEMMA OnCountdownTimeoutStep ==
  ASSUME Stepping, NEW n \in Honest, OnCountdownTimeout(n)
  PROVE  NodeNext(n) /\ VotesNext(n)
<1> DEFINE s == CollectTimeout(node[n], n)
           count == (s.tcount + 1) % TimeoutSyncThreshold
           t == [s EXCEPT !.tcount = count]
<1>1. /\ node'[n] = t /\ UNCHANGED <<tree, votes>>
      /\ node[n].pend = Nil /\ node[n].round <= MaxRound
      /\ node[n].round \in timeouts'[n] /\ n \in Masternodes
  BY DEF OnCountdownTimeout, Unlocked, Stepping, EngineInv, TypeOK, Honest
<1>2. /\ NodeOK(s, db[n], head[n], CertifiedBlocks', TimedOutRounds', votes', timeouts')
      /\ s \in Engine /\ s.pend = Nil
      /\ VotesOK(node[n], db[n], votes[n]) => VotesOK(s, db[n], votes[n])
  BY <1>1, CollectTimeoutStep
<1> HIDE DEF s
<1>3. count \in 0 .. TimeoutSyncThreshold - 1
  BY <1>2, EngineAssumption DEF Engine
<1> HIDE DEF count
<1>4. /\ t \in Engine /\ t.hqc = s.hqc /\ t.lock = s.lock /\ t.commit = s.commit
      /\ t.htc = s.htc /\ t.round = s.round /\ t.vpool = s.vpool
      /\ t.voted = s.voted /\ t.tpool = s.tpool /\ t.pend = s.pend /\ t.work = s.work
  BY <1>2, <1>3, Zenon DEF Engine
<1> HIDE DEF t
<1>5. \A w \in s.work : w[2] \in db[n]
  BY <1>2, Zenon DEF NodeOK, PoolsOK
<1>6. NodeOK(t, db[n], head[n], CertifiedBlocks', TimedOutRounds', votes', timeouts')
  BY <1>2, <1>4, <1>5, NodeSame, Zenon
<1>7. VotesOK(s, db[n], votes[n]) => VotesOK(t, db[n], votes[n])
  BY <1>4 DEF VotesOK, VerifyVotingRule
<1> QED BY <1>1, <1>2, <1>6, <1>7 DEF NodeNext, VotesNext

(* SyncInfoHandler.                                                         *)
LEMMA SyncInfoHandlerStep ==
  ASSUME Stepping, NEW n \in Honest, NEW q \in Block, NEW r \in 0 .. MaxRound,
         SyncInfoHandler(n, q, r)
  PROVE  NodeNext(n) /\ VotesNext(n)
<1> DEFINE s == node[n]
           d == db[n]
           u == ProcessQC(s, q, d)
           t == ProcessTC(u, r)
           OK(x) == NodeOK(x, d, head[n], CertifiedBlocks', TimedOutRounds', votes', timeouts')
<1>1. /\ node'[n] = t /\ UNCHANGED <<tree, votes>> /\ s.pend = Nil /\ q \in d
      /\ \/ <<q, r>> \in syncInfos
         \/ Certified(q) /\ (r = 0 \/ TimedOut(r))
  BY SMTT(30) DEF SyncInfoHandler, Unlocked, Stepping, EngineInv, TypeOK
<1>2. /\ TreeInv /\ s \in Engine /\ OK(s) /\ ChainClosed(d) /\ d \in SUBSET Blocks
      /\ votes[n] \in SUBSET Blocks
      /\ Evidence(CertifiedBlocks', TimedOutRounds', votes', timeouts')
  BY <1>1, SteppingFacts
<1>3. q \in CertifiedBlocks /\ r \in TimedOutRounds \cup {0}
  <2>1. q # Nil
    BY NilFacts
  <2>2. CASE <<q, r>> \in syncInfos
    <3>1. SyncInfosOK
      BY Zenon DEF Stepping, EngineInv
    <3> QED BY <2>1, <2>2, <3>1, SMTT(30) DEF SyncInfosOK
  <2>3. CASE Certified(q) /\ (r = 0 \/ TimedOut(r))
    <3>1. q \in CertifiedBlocks
      BY <1>1, <1>2, <2>3, Zenon DEF CertifiedBlocks
    <3>2. r \in TimedOutRounds \cup {0}
      BY <2>3, BoundsAssumption, SMTT(30) DEF TimedOutRounds
    <3> QED BY <3>1, <3>2
  <2> QED BY <1>1, <2>2, <2>3
<1>4. q \in d \cap CertifiedBlocks' /\ r \in TimedOutRounds' \cup {0}
  BY <1>1, <1>3, EvidenceGrows, Zenon DEF Stepping
<1> HIDE DEF s, d
<1>5. /\ OK(u) /\ u.voted = s.voted /\ u.pend = Nil /\ s.round <= u.round
      /\ Round(s.lock) <= Round(u.lock)
  BY <1>1, <1>2, <1>4, ProcessQCNode, SMTT(30)
<1>6. u \in Engine /\ TimedOutRounds' \in SUBSET (1 .. MaxRound)
  BY <1>2, <1>5, Zenon DEF NodeOK, Evidence
<1> HIDE DEF u
<1>7. /\ OK(t) /\ t.voted = u.voted /\ t.pend = Nil /\ u.round <= t.round
      /\ t.lock = u.lock
  BY <1>4, <1>5, <1>6, ProcessTCNode
<1>8. t \in Engine
  BY <1>7 DEF NodeOK
<1> HIDE DEF t
<1>9. s.round \in Nat /\ u.round \in Nat /\ t.round \in Nat
  BY <1>2, <1>6, <1>8, EngineNumbers
<1>10. s.round <= t.round /\ t.voted = s.voted /\ Round(s.lock) <= Round(t.lock)
  BY <1>5, <1>7, <1>9, SMTT(30)
<1>11. VotesOK(s, d, votes[n]) => VotesOK(t, d, votes[n])
  BY <1>2, <1>7, <1>8, <1>10, VotesOKKeeps, ZenonT(30)
<1> QED BY <1>1, <1>7, <1>11, SMTT(30) DEF NodeNext, VotesNext, s, d

(* A restart.                                                               *)
LEMMA RestartStep ==
  ASSUME Stepping, NEW n \in Honest, Restart(n)
  PROVE  NodeNext(n)
<1>1. node'[n] = Initial(head[n], db[n]) /\ UNCHANGED tree
  BY DEF Restart, Stepping, EngineInv, TypeOK
<1>2. /\ TreeInv /\ ChainClosed(db[n]) /\ head[n] \in db[n] /\ db[n] \in SUBSET Blocks
      /\ Evidence(CertifiedBlocks', TimedOutRounds', votes', timeouts')
  BY <1>1, SteppingFacts
<1>3. QC(head[n]) \in CertifiedBlocks
  BY <1>2, BlockFacts DEF CertifiedBlocks, TreeInv, QCsCertified
<1>4. QC(head[n]) \in CertifiedBlocks'
  BY <1>3, EvidenceGrows DEF Stepping
<1> QED BY <1>1, <1>2, <1>4, InitialNode DEF NodeNext

-----------------------------------------------------------------------------
(* What a step does to headers, votes, timeouts and chains.                 *)

(* A step of the engines is a step on headers and votes: one header is      *)
(* added (Seal, a faulty leader), one vote is signed (sendVote), or neither.*)
LEMMA EngineTreeStep ==
  ASSUME EngineInv, [RestartNext]_vars
  PROVE  TreeStep
<1>1. ASSUME NEW n \in Honest, NEW b \in Block, Seal(n, b)
      PROVE  TreeStep
  <2>1. PICK w \in node[n].work : AddHeader(b, w[2], w[2]) /\ UNCHANGED votes
    BY <1>1 DEF Seal
  <2>2. b \in Block \ Blocks /\ w[2] \in Blocks
    BY <2>1 DEF AddHeader
  <2> QED BY <2>1, <2>2 DEF TreeStep
<1>2. ASSUME NEW n \in Honest, SendVote(n)
      PROVE  TreeStep
  <2>1. node[n].pend \in Blocks
    BY <1>2 DEF SendVote, EngineInv, NodeOK, ChainClosed
  <2>2. (SignVote(n, node[n].pend) \/ UNCHANGED votes) /\ UNCHANGED tree
    BY <1>2 DEF SendVote
  <2> QED BY <2>1, <2>2 DEF TreeStep
<1>3. ASSUME NEW b \in Block, NEW p \in Block, NEW q \in Block, FaultyPropose(b, p, q)
      PROVE  TreeStep
  <2>1. AddHeader(b, p, q) /\ UNCHANGED votes
    BY <1>3 DEF FaultyPropose
  <2>2. b \in Block \ Blocks /\ p \in Blocks /\ q \in Blocks
    BY <2>1 DEF AddHeader
  <2> QED BY <2>1, <2>2 DEF TreeStep
<1>4. CASE UNCHANGED <<tree, votes>>
  BY <1>4, SMTT(30) DEF TreeStep
<1> QED
  BY <1>1, <1>2, <1>3, <1>4, Zenon
  DEF RestartNext, Next, Step, vars, Prepare, InsertBlock, ProposedBlockHandler,
      VoteHandler, TimeoutHandler, OnCountdownTimeout, SyncInfoHandler,
      HygieneVotePool, Restart

(* Only the countdown signs a timeout, for the round it found.              *)
LEMMA EngineTimeouts ==
  ASSUME EngineInv, [RestartNext]_vars
  PROVE  TimeoutsGrow
<1>1. timeouts \in [Honest -> SUBSET (1 .. MaxRound)]
  BY DEF EngineInv, TypeOK
<1>2. ASSUME NEW n \in Honest, OnCountdownTimeout(n)
      PROVE  TimeoutsGrow
  <2>1. node[n].round \in 1 .. MaxRound + 1
    BY RoundPositive DEF EngineInv
  <2>2. node[n].round \in 1 .. MaxRound
    BY <1>2, <2>1, BoundsAssumption DEF OnCountdownTimeout
  <2>3. timeouts' = [timeouts EXCEPT ![n] = @ \cup {node[n].round}]
    BY <1>2 DEF OnCountdownTimeout
  <2> QED BY <1>1, <2>2, <2>3 DEF TimeoutsGrow
<1>3. CASE UNCHANGED timeouts
  BY <1>1, <1>3 DEF TimeoutsGrow
<1> QED
  BY <1>2, <1>3, ZenonT(30)
  DEF RestartNext, Next, Step, vars, Prepare, Seal, InsertBlock, ProposedBlockHandler,
      SendVote, VoteHandler, TimeoutHandler, SyncInfoHandler, HygieneVotePool,
      FaultyPropose, Restart

(* Every step is taken under the hypotheses above.                          *)
LEMMA EngineStepping ==
  ASSUME EngineInv, [RestartNext]_vars
  PROVE  Stepping
BY EngineTreeStep, EngineTimeouts, TreeInvStep DEF Stepping, EngineInv

(* Blocks are stored after their parents and never dropped.                 *)
ChainsGrow ==
  /\ db' \in [Honest -> SUBSET Blocks']
  /\ head' \in [Honest -> Blocks']
  /\ \A n \in Honest : db[n] \subseteq db'[n] /\ ChainClosed(db[n])' /\ head'[n] \in db'[n]

(* A closed chain is closed in any later tree.                              *)
LEMMA ChainClosedLift ==
  ASSUME Grows, NEW d, ChainClosed(d)
  PROVE  ChainClosed(d)'
BY DEF Grows, ChainClosed, Parent, QC

(* Storing a block whose parent and whose certificate's block are stored    *)
(* keeps the chain closed, and the head is the new block or stays           *)
(* (writeBlockWithState).                                                   *)
LEMMA StoreBlock ==
  ASSUME Stepping, NEW n \in Honest, NEW b \in Blocks',
         tree'[b].parent \in db[n], tree'[b].qc \in db[n], NEW k \in {b, head[n]},
         db' = [db EXCEPT ![n] = @ \cup {b}], head' = [head EXCEPT ![n] = k]
  PROVE  ChainsGrow
<1> DEFINE e == db[n] \cup {b}
<1>1. \A m \in Honest : ChainClosed(db[m]) /\ head[m] \in db[m]
  BY DEF Stepping, EngineInv, NodeOK
<1>2. /\ db \in [Honest -> SUBSET Blocks] /\ head \in [Honest -> Blocks]
      /\ Grows /\ Blocks \subseteq Blocks'
  BY DEF Stepping, EngineInv, TypeOK, Grows
<1>3. /\ db'[n] = e /\ head'[n] = k
      /\ \A m \in Honest \ {n} : db'[m] = db[m] /\ head'[m] = head[m]
  BY <1>2
<1>4. db' \in [Honest -> SUBSET Blocks'] /\ head' \in [Honest -> Blocks']
  BY <1>2
<1>5. ASSUME NEW m \in Honest \ {n}
      PROVE  ChainClosed(db[m])'
  BY <1>1, <1>2, <1>3, ChainClosedLift
<1>6. ChainClosed(db[n])'
  <2>1. \A x \in db[n] : tree'[x].parent \in e /\ tree'[x].qc \in e
    BY <1>1, <1>2 DEF ChainClosed, Grows, Parent, QC
  <2>2. SwitchBlock \in e /\ e \subseteq Blocks'
    BY <1>1, <1>2, SMTT(30) DEF ChainClosed
  <2> QED BY <1>3, <2>1, <2>2 DEF ChainClosed, Parent, QC
<1> QED BY <1>1, <1>3, <1>4, <1>5, <1>6, Zenon DEF ChainsGrow

(* Chains grow block by block in every step.                                *)
LEMMA EngineChains ==
  ASSUME EngineInv, [RestartNext]_vars
  PROVE  ChainsGrow
<1>1. Stepping
  BY EngineStepping
<1>2. ASSUME NEW n \in Honest, NEW b \in Block, Seal(n, b)
      PROVE  ChainsGrow
  <2>1. PICK w \in node[n].work :
          /\ AddHeader(b, w[2], w[2])
          /\ db' = [db EXCEPT ![n] = @ \cup {b}]
          /\ head' = [head EXCEPT ![n] = ForkChoice(@, b, w[2], node[n].commit)]
    BY <1>2, ZenonT(30) DEF Seal
  <2>2. b \in Blocks' /\ tree'[b].parent = w[2] /\ tree'[b].qc = w[2]
    BY <2>1 DEF AddHeader, Blocks, ChildOf
  <2>3. w[2] \in db[n]
    BY DEF EngineInv, NodeOK, PoolsOK
  <2>4. ForkChoice(head[n], b, w[2], node[n].commit) \in {b, head[n]}
    BY DEF ForkChoice
  <2>5. head' = [head EXCEPT ![n] = ForkChoice(head[n], b, w[2], node[n].commit)]
    BY <2>1
  <2> QED BY <1>1, <2>1, <2>2, <2>3, <2>4, <2>5, StoreBlock, Zenon
<1>3. ASSUME NEW n \in Honest, NEW b \in Block, InsertBlock(n, b)
      PROVE  ChainsGrow
  <2>1. /\ b \in Blocks /\ {Parent(b), QC(b)} \subseteq db[n] /\ UNCHANGED tree
        /\ db' = [db EXCEPT ![n] = @ \cup {b}]
        /\ head' = [head EXCEPT ![n] = ForkChoice(head[n], b, Parent(b), node[n].commit)]
    BY <1>3 DEF InsertBlock
  <2>2. b \in Blocks' /\ tree'[b].parent \in db[n] /\ tree'[b].qc \in db[n]
    BY <2>1 DEF Blocks, Parent, QC
  <2>3. ForkChoice(head[n], b, Parent(b), node[n].commit) \in {b, head[n]}
    BY DEF ForkChoice
  <2> QED BY <1>1, <2>1, <2>2, <2>3, StoreBlock, Zenon
<1>4. CASE UNCHANGED <<db, head>>
  <2>1. /\ db \in [Honest -> SUBSET Blocks] /\ head \in [Honest -> Blocks]
        /\ Grows /\ Blocks \subseteq Blocks'
    BY <1>1, Zenon DEF Stepping, EngineInv, TypeOK, Grows
  <2>2. \A m \in Honest : ChainClosed(db[m]) /\ head[m] \in db[m]
    BY DEF EngineInv, NodeOK
  <2>3. \A m \in Honest : ChainClosed(db[m])'
    BY <1>4, <2>1, <2>2, ChainClosedLift
  <2> QED BY <1>4, <2>1, <2>2, <2>3, Zenon DEF ChainsGrow
<1> QED
  BY <1>2, <1>3, <1>4, Zenon
  DEF RestartNext, Next, Step, vars, Prepare, ProposedBlockHandler, SendVote,
      VoteHandler, TimeoutHandler, OnCountdownTimeout, SyncInfoHandler,
      HygieneVotePool, FaultyPropose, Restart

=============================================================================
