------------------------- MODULE EngineV2NodeProofs -------------------------
(***************************************************************************)
(* Headers, votes and certificates: what the voting rules imply for every  *)
(* set of masternodes, every threshold and every bound on rounds and       *)
(* forks, and the theorems about SafeVoting. Then lemmas about one engine: *)
(* what processQC, processTC, initial and the two message collectors do to *)
(* the fields of an engine, and that they keep NodeOK.                     *)
(***************************************************************************)
EXTENDS EngineV2Refinement, SafeVoting, FiniteSetTheorems, WellFoundedInduction, TLAPS

-----------------------------------------------------------------------------
(* Quorums and rounds.                                                      *)

(* Subsets of the masternodes are finite, and a smaller one counts less.    *)
LEMMA CardinalityMonotone ==
  ASSUME NEW S \in SUBSET Masternodes, NEW T \in SUBSET S
  PROVE  /\ IsFiniteSet(S)
         /\ Cardinality(S) \in Nat
         /\ Cardinality(T) \in Nat
         /\ Cardinality(T) <= Cardinality(S)
<1>1. IsFiniteSet(S)
  BY MasternodesAssumption, FS_Subset
<1>2. IsFiniteSet(T) /\ Cardinality(T) <= Cardinality(S)
  BY <1>1, FS_Subset
<1> QED BY <1>1, <1>2, FS_CardinalityType

(* More signatures than a quorum are a quorum.                              *)
LEMMA QuorumMonotone ==
  ASSUME NEW S \in SUBSET Masternodes, NEW T \in SUBSET S, IsQuorum(T)
  PROVE  IsQuorum(S)
<1>1. /\ Cardinality(S) \in Nat /\ Cardinality(T) \in Nat
      /\ Cardinality(T) <= Cardinality(S)
  BY CardinalityMonotone
<1>2. CertThreshold * Cardinality(Masternodes) \in Nat
  BY MasternodesAssumption, FS_CardinalityType
<1> QED BY <1>1, <1>2 DEF IsQuorum

(* Rounds are naturals, and only the switch block is of round 0.            *)
LEMMA RoundType ==
  ASSUME NEW b \in Block
  PROVE  Round(b) \in Nat /\ (Round(b) = 0 <=> b = SwitchBlock)
BY BoundsAssumption DEF Block, Round, SwitchBlock

-----------------------------------------------------------------------------
(* Every step keeps the headers and votes there are.                        *)

Grows ==
  /\ Blocks \subseteq Blocks'
  /\ \A b \in Blocks : tree'[b] = tree[b]
  /\ \A n \in Honest : votes[n] \subseteq votes'[n]

(* A step keeps the types; headers and votes are only ever added            *)
(* (AddHeader, SignVote).                                                   *)
LEMMA TypeStep ==
  ASSUME TreeTypeOK, TreeStep
  PROVE  TreeTypeOK' /\ Grows
<1> USE DEF TreeTypeOK, Grows
<1>1. ASSUME NEW b \in Block \ Blocks, NEW p \in Blocks, NEW q \in Blocks,
             AddHeader(b, p, q), UNCHANGED votes
      PROVE  TreeTypeOK' /\ Grows
  <2>1. ChildOf(b, p, q) \in Header
    BY <1>1 DEF AddHeader, ChildOf, Header, Number
  <2>2. /\ Blocks' = Blocks \cup {b}
        /\ tree'[b] = ChildOf(b, p, q)
        /\ \A x \in Blocks : tree'[x] = tree[x]
        /\ tree' \in [Blocks' -> Header]
    BY <1>1, <2>1 DEF AddHeader, Blocks
  <2> QED BY <1>1, <2>2
<1>2. ASSUME NEW n \in Honest, NEW b \in Blocks, SignVote(n, b), UNCHANGED tree
      PROVE  TreeTypeOK' /\ Grows
  BY <1>2 DEF SignVote, Blocks
<1>3. CASE UNCHANGED <<tree, votes>>
  BY <1>3 DEF Blocks
<1> QED BY <1>1, <1>2, <1>3 DEF TreeStep

(* A certificate, once it can be built, can be built for ever.              *)
LEMMA CertifiedStable ==
  ASSUME Grows, NEW b, Certified(b)
  PROVE  Certified(b)'
<1>1. CASE b = SwitchBlock
  BY <1>1 DEF Certified
<1>2. CASE b # SwitchBlock
  <2>1. b \in Blocks' /\ IsQuorum(Signers(b))
    BY <1>2 DEF Certified, Grows
  <2>2. /\ Signers(b) \subseteq Signers(b)'
        /\ Signers(b)' \in SUBSET Masternodes
    BY MasternodesAssumption DEF Signers, Grows, Honest
  <2>3. IsQuorum(Signers(b)')
    BY <2>1, <2>2, QuorumMonotone
  <2> QED BY <2>1, <2>3 DEF Certified, IsQuorum
<1> QED BY <1>1, <1>2

(* isExtendingFromAncestor accepts a block as its own ancestor.             *)
LEMMA SelfAncestor ==
  ASSUME TreeShape, NEW b \in Blocks
  PROVE  b \in tree[b].anc
BY DEF TreeShape, SwitchHeader

(* Adding a header that passed verifyHeader keeps the tree a tree.          *)
LEMMA TreeShapeStep ==
  ASSUME TreeTypeOK, TreeShape, TreeStep
  PROVE  TreeShape'
<1>1. ASSUME NEW b \in Block \ Blocks, NEW p \in Blocks, NEW q \in Blocks, AddHeader(b, p, q)
      PROVE  TreeShape'
  <2>1. /\ Blocks' = Blocks \cup {b}
        /\ b \notin Blocks /\ p \in Blocks /\ q \in Blocks /\ Round(q) < Round(b)
        /\ tree'[b] = ChildOf(b, p, q)
        /\ \A x \in Blocks : tree'[x] = tree[x]
    BY <1>1 DEF AddHeader, Blocks, TreeTypeOK
  <2>2. /\ tree'[b].parent = p /\ tree'[b].anc = tree[p].anc \cup {b}
        /\ tree'[b].qc = q
        /\ tree'[b].number = tree[p].number + 1
    BY <2>1 DEF ChildOf, Number
  <2>3. b # SwitchBlock /\ tree'[SwitchBlock] = SwitchHeader
    BY <2>1 DEF TreeTypeOK, TreeShape
  <2>4. ASSUME NEW x \in Blocks' \ {SwitchBlock}
        PROVE  /\ tree'[x].parent \in Blocks'
               /\ tree'[x].qc \in Blocks'
               /\ Round(tree'[x].qc) < Round(x)
               /\ tree'[x].number = tree'[tree'[x].parent].number + 1
               /\ tree'[x].anc = tree'[tree'[x].parent].anc \cup {x}
    BY <2>1, <2>2, <2>4 DEF TreeShape, Parent, QC, Number
  <2>5. \A x \in Blocks' : SwitchBlock \in tree'[x].anc
    BY <2>1, <2>2 DEF TreeShape
  <2>6. ASSUME NEW x \in Blocks', NEW a \in tree'[x].anc
        PROVE  /\ a \in Blocks'
               /\ tree'[a].anc \subseteq tree'[x].anc
               /\ a = x \/ tree'[a].number < tree'[x].number
    <3>1. CASE x \in Blocks
      BY <2>1, <2>6, <3>1 DEF TreeShape, Number
    <3>2. CASE x = b /\ a = b
      BY <2>1, <3>2
    <3>3. CASE x = b /\ a # b
      <4>1. a \in tree[p].anc
        BY <2>2, <2>6, <3>3
      <4>2. /\ a \in Blocks /\ tree[a].anc \subseteq tree[p].anc
            /\ a = p \/ tree[a].number < tree[p].number
        BY <2>1, <4>1 DEF TreeShape, Number
      <4>3. tree[a].number \in Nat /\ tree[p].number \in Nat
        BY <4>2, <2>1 DEF TreeTypeOK, Header
      <4> QED BY <2>1, <2>2, <3>3, <4>2, <4>3
    <3> QED BY <2>1, <3>1, <3>2, <3>3
  <2> QED BY <2>3, <2>4, <2>5, <2>6 DEF TreeShape, Parent, QC, Number
<1>2. CASE UNCHANGED tree
  BY <1>2 DEF TreeShape, Blocks, Parent, QC, Number
<1> QED BY <1>1, <1>2 DEF TreeStep

(* verifyHeader's certificate check keeps every certificate verified.       *)
LEMMA QCsCertifiedStep ==
  ASSUME TreeTypeOK, QCsCertified, TreeStep
  PROVE  QCsCertified'
<1>1. Grows
  BY TypeStep
<1>2. ASSUME NEW x \in Blocks
      PROVE  Certified(QC(x))'
  <2>1. QC(x)' = QC(x)
    BY <1>1 DEF Grows, QC
  <2>2. Certified(QC(x))
    BY DEF QCsCertified
  <2> QED BY <1>1, <2>1, <2>2, CertifiedStable
<1>3. ASSUME NEW b \in Block \ Blocks, NEW p \in Blocks, NEW q \in Blocks, AddHeader(b, p, q)
      PROVE  Certified(QC(b))' /\ Blocks' = Blocks \cup {b}
  <2>1. QC(b)' = q /\ Blocks' = Blocks \cup {b} /\ Certified(q)
    BY <1>3 DEF AddHeader, ChildOf, QC, Blocks
  <2> QED BY <1>1, <2>1, CertifiedStable
<1>4. CASE UNCHANGED tree
  BY <1>2, <1>4 DEF QCsCertified, Blocks
<1> QED BY <1>2, <1>3, <1>4 DEF QCsCertified, TreeStep

(* TreeInv is preserved by every step on headers and votes.                 *)
LEMMA TreeInvStep ==
  ASSUME TreeInv, TreeStep
  PROVE  TreeInv' /\ Grows
BY TypeStep, TreeShapeStep, QCsCertifiedStep DEF TreeInv

(* The state that initial() sets up at the switch block.                    *)
LEMMA TreeInvInit ==
  ASSUME InitTree
  PROVE  TreeInv
<1> USE DEF InitTree, Blocks, SwitchHeader
<1>1. Blocks = {SwitchBlock} /\ tree[SwitchBlock] = SwitchHeader
  OBVIOUS
<1>2. TreeTypeOK
  BY <1>1 DEF TreeTypeOK, Header, Block
<1>3. TreeShape
  BY <1>1 DEF TreeShape
<1>4. QCsCertified
  BY <1>1 DEF QCsCertified, Certified, QC
<1> QED BY <1>2, <1>3, <1>4 DEF TreeInv

-----------------------------------------------------------------------------
(* Facts about numbers and finite sets.                                     *)

NatLess == OpToRel(<, Nat)

(* A non-empty set of naturals has a least element.                         *)
LEMMA LeastNatural ==
  ASSUME NEW T \in SUBSET Nat, T # {}
  PROVE  \E x \in T : \A y \in T : x <= y
<1>1. IsWellFoundedOn(NatLess, Nat)
  BY NatLessThanWellFounded, Zenon DEF NatLess
<1>2. \E x \in T : \A y \in T : ~ (<<y, x>> \in NatLess)
  BY <1>1, WFMin, Zenon
<1>3. \A x, y \in Nat : y < x => <<y, x>> \in NatLess
  BY DEF NatLess, OpToRel
<1>4. PICK x \in T : \A y \in T : ~ (<<y, x>> \in NatLess)
  BY <1>2
<1>5. \A y \in T : ~ (y < x)
  BY <1>3, <1>4, Zenon
<1> QED BY <1>5

(* Two quorums share an honest masternode: the one fact about CertThreshold *)
(* that safety needs.                                                       *)
LEMMA QuorumsIntersect ==
  ASSUME FewFaulty, NEW S \in SUBSET Masternodes, NEW T \in SUBSET Masternodes,
         IsQuorum(S), IsQuorum(T)
  PROVE  \E n \in Honest : n \in S /\ n \in T
<1> DEFINE M == Cardinality(Masternodes)
           F == Cardinality(Faulty)
           U == Cardinality(S \cup T)
           I == Cardinality(S \cap T)
<1>1. /\ M \in Nat /\ F \in Nat /\ U \in Nat /\ I \in Nat
      /\ Cardinality(S) \in Nat /\ Cardinality(T) \in Nat
      /\ U <= M
  <2>1. Faulty \in SUBSET Masternodes /\ S \cup T \in SUBSET Masternodes
        /\ S \cap T \in SUBSET Masternodes /\ Masternodes \in SUBSET Masternodes
    BY MasternodesAssumption
  <2> QED BY <2>1, CardinalityMonotone
<1>2. U = Cardinality(S) + Cardinality(T) - I
  <2>1. IsFiniteSet(S) /\ IsFiniteSet(T)
    BY CardinalityMonotone
  <2> QED BY <2>1, FS_Union
<1>3. 1000 * Cardinality(S) >= CertThreshold * M /\ 1000 * Cardinality(T) >= CertThreshold * M
  BY DEF IsQuorum
<1>4. 1000 * F < 2 * (CertThreshold * M) - 1000 * M
  <2>1. CertThreshold \in Nat
    BY MasternodesAssumption
  <2>2. 1000 * F < (2 * CertThreshold - 1000) * M
    BY DEF FewFaulty
  <2>3. (2 * CertThreshold - 1000) * M = 2 * (CertThreshold * M) - 1000 * M
    BY <1>1, <2>1
  <2> QED BY <2>2, <2>3
<1>5. F < I
  <2>1. CertThreshold * M \in Nat
    BY <1>1, MasternodesAssumption
  <2> HIDE DEF M, F, U, I
  <2> QED BY <1>1, <1>2, <1>3, <1>4, <2>1
<1>6. ~ (S \cap T \subseteq Faulty)
  <2> SUFFICES ASSUME S \cap T \subseteq Faulty PROVE FALSE
    OBVIOUS
  <2>1. I <= F
    BY MasternodesAssumption, CardinalityMonotone
  <2> HIDE DEF F, I
  <2> QED BY <1>1, <1>5, <2>1
<1> QED BY <1>6 DEF Honest

-----------------------------------------------------------------------------
(* The inductive invariant.                                                 *)

(* Votes for headers that exist keep the locks that justified them.         *)
LEMMA JustifiesStable ==
  ASSUME IInv, Grows, NEW n \in Honest, NEW l \in Blocks,
         NEW b \in votes[n], NEW c \in votes[n], Justifies(l, b, c)
  PROVE  Justifies(l, b, c)'
<1>1. b \in Blocks /\ c \in Blocks
  BY DEF IInv, TreeInv, TreeTypeOK
<1>2. QC(c) \in Blocks
  BY <1>1 DEF IInv, TreeInv, TreeShape, TreeTypeOK, SwitchHeader, QC
<1>3. /\ QC(b)' = QC(b) /\ LockOf(c)' = LockOf(c)
      /\ VotingRule(b, l)' = VotingRule(b, l)
  BY <1>1, <1>2 DEF Grows, QC, LockOf, VotingRule, Extends
<1>4. Certified(l)'
  BY CertifiedStable DEF Justifies
<1> QED BY <1>3, <1>4 DEF Justifies

(* A vote that passed verifyVotingRule keeps the history of votes           *)
(* justified; the locks of earlier votes stay what they were.               *)
LEMMA VoteHistoryStep ==
  ASSUME IInv, TreeStep,
         UNCHANGED votes \/ \E n \in Honest, b \in Block : Vote(n, b)
  PROVE  VoteHistory'
<1>1. Grows
  BY TreeInvStep DEF IInv
<1>2. CASE UNCHANGED votes
  <2> SUFFICES ASSUME NEW n \in Honest, NEW b \in votes[n], NEW c \in votes[n],
                      Round(c) < Round(b)
               PROVE  \E l \in Blocks' : Justifies(l, b, c)'
    BY <1>2 DEF VoteHistory, IInv
  <2>1. PICK l \in Blocks : Justifies(l, b, c)
    BY DEF IInv, VoteHistory
  <2> QED BY <1>1, <2>1, JustifiesStable DEF Grows
<1>3. ASSUME NEW n \in Honest, NEW b \in Block, Vote(n, b)
      PROVE  VoteHistory'
  <2>1. /\ votes' = [votes EXCEPT ![n] = @ \cup {b}] /\ UNCHANGED tree
        /\ b \in Blocks /\ b # SwitchBlock
        /\ \A c \in votes[n] : Round(c) < Round(b)
    BY <1>3 DEF Vote, SignVote
  <2>2. /\ votes'[n] = votes[n] \cup {b}
        /\ \A m \in Honest \ {n} : votes'[m] = votes[m]
        /\ \A c \in votes[n] : c \in Block /\ Round(c) \in Nat
        /\ Round(b) \in Nat
    BY <2>1, RoundType DEF IInv, TreeInv, TreeTypeOK
  <2>3. PICK l \in Blocks : \A c \in votes[n] : Justifies(l, b, c)
    BY <1>3 DEF Vote, Justifies
  <2>4. ASSUME NEW m \in Honest, NEW x \in votes'[m], NEW c \in votes'[m],
               Round(c) < Round(x)
        PROVE  \E k \in Blocks' : Justifies(k, x, c)'
    <3>1. CASE x \in votes[m] /\ c \in votes[m]
      <4>1. PICK k \in Blocks : Justifies(k, x, c)
        BY <2>4, <3>1 DEF IInv, VoteHistory
      <4> QED BY <1>1, <3>1, <4>1, JustifiesStable DEF Grows
    <3>2. CASE m = n /\ x = b /\ c \in votes[n]
      <4>1. Justifies(l, b, c) /\ Certified(l)
        BY <2>3, <3>2 DEF Justifies
      <4>2. Certified(l)'
        BY <1>1, <4>1, CertifiedStable DEF IInv
      <4>3. Justifies(l, b, c)'
        BY <2>1, <4>1, <4>2 DEF Justifies, LockOf, QC, VotingRule, Extends
      <4> QED BY <1>1, <3>2, <4>3 DEF Grows
    <3> QED BY <2>1, <2>2, <2>4, <3>1, <3>2
  <2>5. ASSUME NEW m \in Honest, NEW x \in votes'[m]
        PROVE  /\ x # SwitchBlock
               /\ \A c \in votes'[m] : Round(c) = Round(x) => c = x
    BY <2>1, <2>2, <2>5 DEF IInv, VoteHistory
  <2> QED BY <2>4, <2>5 DEF VoteHistory
<1> QED BY <1>2, <1>3

-----------------------------------------------------------------------------
(* At most one certificate per round.                                       *)

(* Two certified blocks, neither the switch block, share an honest voter.   *)
LEMMA SharedVoter ==
  ASSUME FewFaulty, NEW a, NEW b, Certified(a), Certified(b), a # SwitchBlock, b # SwitchBlock
  PROVE  \E n \in Honest : a \in votes[n] /\ b \in votes[n]
<1>1. IsQuorum(Signers(a)) /\ IsQuorum(Signers(b))
  BY DEF Certified
<1>2. Signers(a) \in SUBSET Masternodes /\ Signers(b) \in SUBSET Masternodes
  BY MasternodesAssumption DEF Signers, Honest
<1>3. \E n \in Honest : n \in Signers(a) /\ n \in Signers(b)
  BY <1>1, <1>2, QuorumsIntersect
<1> QED BY <1>3 DEF Signers, Honest

(* Two certificates of one round share an honest voter, who votes once      *)
(* in a round.                                                              *)
LEMMA UniqueFromIInv ==
  ASSUME FewFaulty, IInv
  PROVE  UniqueCertificate
<1> SUFFICES ASSUME NEW a \in Blocks, NEW b \in Blocks, Certified(a), Certified(b),
                    Round(a) = Round(b)
             PROVE  a = b
  BY DEF UniqueCertificate
<1>1. a \in Block /\ b \in Block
  BY DEF IInv, TreeInv, TreeTypeOK
<1>2. CASE a = SwitchBlock \/ b = SwitchBlock
  <2>1. Round(SwitchBlock) = 0
    BY DEF Round, SwitchBlock
  <2> QED BY <1>1, <1>2, <2>1, RoundType
<1>3. CASE a # SwitchBlock /\ b # SwitchBlock
  <2>1. PICK n \in Honest : a \in votes[n] /\ b \in votes[n]
    BY <1>3, SharedVoter
  <2> QED BY <2>1 DEF IInv, VoteHistory
<1> QED BY <1>2, <1>3

-----------------------------------------------------------------------------
(* Agreement.                                                               *)

(* The blocks of a three-chain under certificate q, each certified by the   *)
(* next.                                                                    *)
LEMMA ThreeChain ==
  ASSUME IInv, CertifiedOnParents, NEW q \in Blocks, NEW g, Certified(q), Commits(q, g)
  PROVE  LET p == Parent(q)
         IN  /\ g \in Blocks /\ p \in Blocks /\ q # SwitchBlock
             /\ Certified(g) /\ Certified(p) /\ g = LockOf(q)
             /\ Round(g) \in Nat
             /\ Round(p) = Round(g) + 1 /\ Round(q) = Round(g) + 2
             /\ g \in tree[g].anc /\ g \in tree[p].anc /\ g \in tree[q].anc
<1> DEFINE p == Parent(q)
<1>1. /\ g = Parent(p) /\ Round(p) = Round(q) - 1 /\ Round(g) = Round(q) - 2
  BY DEF Commits
<1>2. Round(q) \in Nat
  BY RoundType DEF IInv, TreeInv, TreeTypeOK
<1>3. Round(SwitchBlock) = 0 /\ Parent(SwitchBlock) = SwitchBlock
  BY DEF Round, SwitchBlock, IInv, TreeInv, TreeShape, SwitchHeader, Parent
<1>4. q # SwitchBlock
  <2> SUFFICES ASSUME q = SwitchBlock PROVE FALSE
    OBVIOUS
  <2>1. Round(SwitchBlock) = Round(SwitchBlock) - 1
    BY <1>1, <1>3
  <2> QED BY <1>3, <2>1
<1>5. /\ p \in Blocks /\ tree[q].anc = tree[p].anc \cup {q}
      /\ p = QC(q) /\ Certified(p)
  BY <1>4 DEF IInv, TreeInv, TreeShape, QCsCertified, CertifiedOnParents
<1>6. p # SwitchBlock
  <2> SUFFICES ASSUME p = SwitchBlock PROVE FALSE
    OBVIOUS
  <2>1. g = SwitchBlock
    BY <1>1, <1>3
  <2> QED BY <1>1, <1>2, <1>3, <2>1
<1>7. /\ g \in Blocks /\ tree[p].anc = tree[g].anc \cup {p}
      /\ g = QC(p) /\ Certified(g)
  BY <1>1, <1>5, <1>6 DEF IInv, TreeInv, TreeShape, QCsCertified, CertifiedOnParents
<1>8. g \in tree[g].anc
  BY <1>7, SelfAncestor DEF IInv, TreeInv
<1>9. Round(g) \in Nat
  BY <1>7, RoundType DEF IInv, TreeInv, TreeTypeOK
<1> HIDE DEF p
<1>10. Round(p) = Round(g) + 1 /\ Round(q) = Round(g) + 2
  BY <1>1, <1>2, <1>9
<1>11. g = LockOf(q)
  BY <1>5, <1>7 DEF LockOf
<1> QED BY <1>4, <1>5, <1>7, <1>8, <1>9, <1>10, <1>11 DEF p

(* Take the lowest-round certified block that leaves committed g behind.    *)
(* A voter it shares with the top of g's three-chain was locked on g or     *)
(* above, so the block it certifies, which is its parent, leaves g behind   *)
(* too, or its lock does.                                                   *)
LEMMA ExtendFromIInv ==
  ASSUME FewFaulty, IInv
  PROVE  CertifiedExtendCommitted
<1> SUFFICES ASSUME CertifiedOnParents, NEW g \in Blocks, NEW d \in Blocks,
                    Committed(g), Certified(d), Round(d) >= Round(g),
                    g \notin tree[d].anc
             PROVE  FALSE
  BY DEF CertifiedExtendCommitted, Extends
<1>1. PICK q \in Blocks : Certified(q) /\ Commits(q, g)
  BY DEF Committed
<1> DEFINE p == Parent(q)
           Astray(c) == /\ c \in Blocks /\ Certified(c) /\ Round(c) >= Round(g)
                        /\ g \notin tree[c].anc
           T == {k \in Nat : \E c \in Blocks : Round(c) = k /\ Astray(c)}
<1>2. /\ p \in Blocks /\ q # SwitchBlock /\ Certified(p) /\ Certified(g)
      /\ Round(g) \in Nat /\ Round(p) = Round(g) + 1 /\ Round(q) = Round(g) + 2
      /\ g \in tree[g].anc /\ g \in tree[p].anc /\ g \in tree[q].anc
  BY <1>1, ThreeChain
<1>3. \A c \in Blocks : Round(c) \in Nat
  BY RoundType DEF IInv, TreeInv, TreeTypeOK
<1>4. PICK k \in T : \A j \in T : k <= j
  <2>1. Round(d) \in T
    BY <1>3
  <2> HIDE DEF T
  <2>2. T \in SUBSET Nat
    BY DEF T
  <2> QED BY <2>1, <2>2, LeastNatural
<1>5. PICK c \in Blocks : Round(c) = k /\ Astray(c)
  BY <1>4
<1>6. ASSUME NEW x \in Blocks, Certified(x), Round(x) >= Round(g), Round(x) < Round(c)
      PROVE  g \in tree[x].anc
  <2> SUFFICES ASSUME g \notin tree[x].anc PROVE FALSE
    OBVIOUS
  <2>1. Round(x) \in T
    BY <1>3, <1>6
  <2>2. Round(c) <= Round(x)
    BY <1>4, <1>5, <2>1
  <2> QED BY <1>3, <1>6, <2>2
<1>7. Round(q) < Round(c)
  <2>1. c \notin {g, p, q}
    BY <1>2, <1>5
  <2>2. Round(c) \notin {Round(g), Round(p), Round(q)}
    BY <1>1, <1>2, <1>5, <2>1, UniqueFromIInv DEF UniqueCertificate
  <2> HIDE DEF p
  <2> QED BY <1>2, <1>3, <1>5, <2>2
<1>8. c # SwitchBlock
  BY <1>2, <1>3, <1>7 DEF Round, SwitchBlock
<1>9. PICK n \in Honest : q \in votes[n] /\ c \in votes[n]
  BY <1>1, <1>2, <1>5, <1>8, SharedVoter
<1>10. PICK l \in Blocks : Justifies(l, c, q)
  BY <1>7, <1>9 DEF IInv, VoteHistory
<1>11. /\ Certified(l) /\ Round(l) < Round(c) /\ Round(g) <= Round(l)
       /\ Round(QC(c)) > Round(l) \/ l \in tree[c].anc
  <2>1. g = LockOf(q)
    BY <1>1, ThreeChain
  <2> QED BY <1>10, <2>1 DEF Justifies, VotingRule, Extends
<1>12. CASE Round(QC(c)) > Round(l)
  <2>1. /\ QC(c) \in Blocks /\ Certified(QC(c)) /\ Round(QC(c)) < Round(c)
        /\ tree[c].anc = tree[QC(c)].anc \cup {c}
    BY <1>5, <1>8 DEF IInv, TreeInv, TreeShape, QCsCertified, CertifiedOnParents
  <2>2. Round(QC(c)) >= Round(g)
    BY <1>2, <1>3, <1>11, <1>12, <2>1
  <2>3. g \in tree[QC(c)].anc
    BY <1>6, <2>1, <2>2
  <2> QED BY <1>5, <2>1, <2>3
<1>13. CASE l \in tree[c].anc
  <2>1. g \in tree[l].anc
    BY <1>2, <1>3, <1>6, <1>11
  <2>2. tree[l].anc \subseteq tree[c].anc
    BY <1>13 DEF IInv, TreeInv, TreeShape
  <2> QED BY <1>5, <2>1, <2>2
<1> QED BY <1>11, <1>12, <1>13

(* Of two committed blocks the later one is certified, so it extends the    *)
(* earlier.                                                                 *)
LEMMA AgreementFromIInv ==
  ASSUME FewFaulty, IInv
  PROVE  Agreement
<1> SUFFICES ASSUME CertifiedOnParents,
                    NEW a \in Blocks, NEW b \in Blocks, Committed(a), Committed(b)
             PROVE  Extends(a, b) \/ Extends(b, a)
  BY DEF Agreement
<1>1. Certified(a) /\ Certified(b)
  BY ThreeChain DEF Committed
<1>2. Round(a) \in Nat /\ Round(b) \in Nat
  BY RoundType DEF IInv, TreeInv, TreeTypeOK
<1>3. CertifiedExtendCommitted
  BY ExtendFromIInv
<1>4. CASE Round(a) >= Round(b)
  BY <1>1, <1>3, <1>4 DEF CertifiedExtendCommitted
<1>5. CASE Round(b) >= Round(a)
  BY <1>1, <1>3, <1>5 DEF CertifiedExtendCommitted
<1> QED BY <1>2, <1>4, <1>5

-----------------------------------------------------------------------------
(* The theorems.                                                            *)

(* A step of SafeVoting is a step on headers and votes.                     *)
LEMMA VotingStepIsTreeStep ==
  ASSUME [VotingNext]_VotingVars
  PROVE  TreeStep
BY DEF VotingNext, Vote, TreeStep, VotingVars

(* IInv holds in every state that honest masternodes which vote by          *)
(* verifyVotingRule can reach, whatever the faulty ones sign.               *)
THEOREM InductiveInvariant == VotingSpec => []IInv
<1>1. InitTree => IInv
  BY TreeInvInit DEF IInv, VoteHistory, InitTree
<1>2. IInv /\ [VotingNext]_VotingVars => IInv'
  <2>1. ASSUME [VotingNext]_VotingVars
        PROVE  UNCHANGED votes \/ \E n \in Honest, b \in Block : Vote(n, b)
    BY <2>1 DEF VotingNext, VotingVars
  <2> QED BY <2>1, VotingStepIsTreeStep, TreeInvStep, VoteHistoryStep DEF IInv
<1> QED BY <1>1, <1>2, PTL DEF VotingSpec

(* Headers and votes keep their types, for any number of masternodes,       *)
(* rounds and forks.                                                        *)
THEOREM TypeCorrect == VotingSpec => []TreeTypeOK
<1>1. IInv => TreeTypeOK
  BY DEF IInv, TreeInv
<1> QED BY <1>1, InductiveInvariant, PTL

(* Every vote that verifyVotingRule let through was justified, against each *)
(* earlier vote of the masternode, by a lock as new as that vote's.         *)
THEOREM VotesAreJustified == VotingSpec => []VoteHistory
<1>1. IInv => VoteHistory
  BY DEF IInv
<1> QED BY <1>1, InductiveInvariant, PTL

(* onVotePoolThresholdReached never certifies two blocks of one round, for  *)
(* any set of masternodes in which two quorums share an honest one.         *)
THEOREM OneCertificatePerRound ==
  ASSUME FewFaulty
  PROVE  VotingSpec => []UniqueCertificate
<1>1. IInv => UniqueCertificate
  BY UniqueFromIInv
<1> QED BY <1>1, InductiveInvariant, PTL

(* As long as certified blocks carry the certificates of their parents:     *)
(* once commitBlocks can commit a block on some node, no certificate of its *)
(* round or a later one leaves it behind.                                   *)
THEOREM CommittedStaysBelow ==
  ASSUME FewFaulty
  PROVE  VotingSpec => []CertifiedExtendCommitted
<1>1. IInv => CertifiedExtendCommitted
  BY ExtendFromIInv
<1> QED BY <1>1, InductiveInvariant, PTL

(* As long as certified blocks carry the certificates of their parents, the *)
(* blocks that commitBlocks commits on any nodes lie on one chain.          *)
THEOREM CommittedBlocksAgree ==
  ASSUME FewFaulty
  PROVE  VotingSpec => []Agreement
<1>1. IInv => Agreement
  BY AgreementFromIInv
<1> QED BY <1>1, InductiveInvariant, PTL

-----------------------------------------------------------------------------
(* Blocks.                                                                  *)

(* The zero hash names no block and counts as round 0.                      *)
LEMMA NilFacts == Nil \notin Block /\ Round(Nil) = 0
BY BoundsAssumption DEF Nil, Block, SwitchBlock, Round

(* What the engine reads off a header.                                      *)
LEMMA BlockFacts ==
  ASSUME TreeInv, NEW b \in Blocks
  PROVE  /\ b \in Block /\ b # Nil
         /\ Round(b) \in 0 .. MaxRound
         /\ Parent(b) \in Blocks /\ QC(b) \in Blocks
         /\ Number(b) \in Nat
         /\ Number(b) = 0 <=> b = SwitchBlock
         /\ b # SwitchBlock => Round(QC(b)) < Round(b)
         /\ QC(SwitchBlock) = SwitchBlock
<1>1. b \in Block /\ b # Nil
  BY NilFacts DEF TreeInv, TreeTypeOK
<1>2. Round(b) \in 0 .. MaxRound
  BY <1>1, BoundsAssumption DEF Block, Round, SwitchBlock
<1>3. /\ Parent(SwitchBlock) = SwitchBlock /\ QC(SwitchBlock) = SwitchBlock
      /\ Number(SwitchBlock) = 0
  BY DEF TreeInv, TreeShape, SwitchHeader, Parent, QC, Number
<1>4. /\ Parent(b) \in Blocks /\ QC(b) \in Blocks
      /\ b # SwitchBlock => Round(QC(b)) < Round(b)
  BY <1>3 DEF TreeInv, TreeTypeOK, TreeShape
<1>5. \A x \in Blocks : Number(x) \in Nat
  BY DEF TreeInv, TreeTypeOK, Header, Number
<1>6. b # SwitchBlock => Number(b) # 0
  BY <1>4, <1>5 DEF TreeInv, TreeShape
<1> QED BY <1>1, <1>2, <1>3, <1>4, <1>5, <1>6

-----------------------------------------------------------------------------
(* The fields that processQC and processTC leave.                           *)

(* The numbers of an engine.                                                *)
LEMMA EngineNumbers ==
  ASSUME NEW s \in Engine
  PROVE  /\ s.round \in Nat /\ s.voted \in Nat /\ s.htc \in Nat
         /\ Round(s.hqc) \in Nat /\ Round(s.lock) \in Nat
<1>1. \A b \in Block \cup {Nil} : Round(b) \in Nat
  BY NilFacts, RoundType
<1> QED BY <1>1, BoundsAssumption DEF Engine

(* setNewRound.                                                             *)
LEMMA SetNewRoundFields ==
  ASSUME NEW s \in Engine, NEW r \in 0 .. MaxRound + 1
  PROVE  LET t == SetNewRound(s, r)
         IN  /\ t \in Engine
             /\ t.round = r /\ t.tpool = {}
             /\ t.hqc = s.hqc /\ t.lock = s.lock /\ t.commit = s.commit
             /\ t.htc = s.htc /\ t.voted = s.voted /\ t.vpool = s.vpool
             /\ t.work = s.work /\ t.pend = s.pend
<1>1. 0 \in 0 .. TimeoutSyncThreshold - 1
  BY EngineAssumption
<1>2. SetNewRound(s, r) \in Engine
  BY <1>1, Zenon DEF Engine, SetNewRound
<1> QED BY <1>2 DEF Engine, SetNewRound

(* The three assignments of processQC before the round.                     *)
LEMMA RaiseHighestQCFields ==
  ASSUME NEW s \in Engine, NEW q \in Block
  PROVE  LET t == RaiseHighestQC(s, q)
         IN  /\ t \in Engine
             /\ t.hqc = IF Round(q) > Round(s.hqc) THEN q ELSE s.hqc
             /\ t.lock = s.lock /\ t.commit = s.commit
             /\ t.htc = s.htc /\ t.voted = s.voted /\ t.vpool = s.vpool
             /\ t.work = s.work /\ t.pend = s.pend
             /\ t.round = s.round /\ t.tpool = s.tpool
<1>1. Round(q) \in Nat /\ Round(s.hqc) \in Nat
  BY RoundType, EngineNumbers
<1> DEFINE t == RaiseHighestQC(s, q)
<1>2. CASE Round(q) > Round(s.hqc)
  <2>1. t = [s EXCEPT !.hqc = q]
    BY <1>2 DEF RaiseHighestQC
  <2> HIDE DEF t
  <2>2. t \in Engine
    BY <2>1 DEF Engine
  <2>3. /\ t.hqc = q /\ t.lock = s.lock /\ t.commit = s.commit
        /\ t.htc = s.htc /\ t.voted = s.voted /\ t.vpool = s.vpool
        /\ t.work = s.work /\ t.pend = s.pend
        /\ t.round = s.round /\ t.tpool = s.tpool
    BY <2>1 DEF Engine
  <2> QED BY <1>1, <1>2, <2>2, <2>3 DEF t
<1>3. CASE ~ (Round(q) > Round(s.hqc))
  BY <1>1, <1>3 DEF RaiseHighestQC
<1> QED BY <1>2, <1>3

(* RaiseLock writes lockQuorumCert alone, and only forwards.                *)
LEMMA RaiseLockFields ==
  ASSUME NEW s \in Engine, NEW q, QC(q) \in Block
  PROVE  LET t == RaiseLock(s, q)
         IN  /\ t \in Engine
             /\ t.lock = IF s.lock = Nil \/ Round(QC(q)) > Round(s.lock)
                         THEN QC(q) ELSE s.lock
             /\ t.hqc = s.hqc /\ t.commit = s.commit
             /\ t.htc = s.htc /\ t.voted = s.voted /\ t.vpool = s.vpool
             /\ t.work = s.work /\ t.pend = s.pend
             /\ t.round = s.round /\ t.tpool = s.tpool
<1>1. Round(QC(q)) \in Nat /\ Round(s.lock) \in Nat
  BY RoundType, EngineNumbers
<1> DEFINE t == RaiseLock(s, q)
           raised == s.lock = Nil \/ Round(QC(q)) > Round(s.lock)
<1>2. CASE raised
  <2>1. t = [s EXCEPT !.lock = QC(q)]
    BY <1>2 DEF RaiseLock
  <2> HIDE DEF t
  <2>2. t \in Engine
    BY <2>1 DEF Engine
  <2>3. /\ t.lock = QC(q) /\ t.hqc = s.hqc /\ t.commit = s.commit
        /\ t.htc = s.htc /\ t.voted = s.voted /\ t.vpool = s.vpool
        /\ t.work = s.work /\ t.pend = s.pend
        /\ t.round = s.round /\ t.tpool = s.tpool
    BY <2>1 DEF Engine
  <2> QED BY <1>1, <1>2, <2>2, <2>3 DEF t
<1>3. CASE ~ raised
  BY <1>1, <1>3 DEF RaiseLock
<1> QED BY <1>2, <1>3

(* CommitBlocks writes highestCommitBlock alone.                            *)
LEMMA CommitBlocksFields ==
  ASSUME NEW s \in Engine, NEW q, Parent(Parent(q)) \in Block
  PROVE  LET t == CommitBlocks(s, q)
             g == Parent(Parent(q))
         IN  /\ t \in Engine
             /\ t.commit = s.commit \/ (t.commit = g /\ Commits(q, g))
             /\ t.hqc = s.hqc /\ t.lock = s.lock
             /\ t.htc = s.htc /\ t.voted = s.voted /\ t.vpool = s.vpool
             /\ t.work = s.work /\ t.pend = s.pend
             /\ t.round = s.round /\ t.tpool = s.tpool
<1> DEFINE t == CommitBlocks(s, q)
           g == Parent(Parent(q))
<1>1. t = s \/ (t = [s EXCEPT !.commit = g] /\ Commits(q, g))
  BY DEF CommitBlocks
<1> HIDE DEF t, g
<1>2. CASE t = s
  BY <1>2 DEF t, g
<1>3. CASE t = [s EXCEPT !.commit = g] /\ Commits(q, g)
  <2>1. g \in Block
    BY DEF g
  <2>2. t \in Engine
    BY <1>3, <2>1 DEF Engine
  <2>3. /\ t.commit = g
        /\ t.hqc = s.hqc /\ t.lock = s.lock
        /\ t.htc = s.htc /\ t.voted = s.voted /\ t.vpool = s.vpool
        /\ t.work = s.work /\ t.pend = s.pend
        /\ t.round = s.round /\ t.tpool = s.tpool
    BY <1>3, <2>1, Zenon DEF Engine
  <2> QED BY <1>3, <2>2, <2>3 DEF t, g
<1> QED BY <1>1, <1>2, <1>3

(* processQC for a certificate whose block is stored.                       *)
LEMMA ProcessQCFields ==
  ASSUME TreeInv, NEW s \in Engine, NEW d \in SUBSET Blocks, NEW q \in d
  PROVE  LET t == ProcessQC(s, q, d)
             g == Parent(Parent(q))
         IN  /\ t \in Engine
             /\ t.htc = s.htc /\ t.voted = s.voted /\ t.vpool = s.vpool
             /\ t.work = s.work /\ t.pend = s.pend
             /\ t.hqc = IF Round(q) > Round(s.hqc) THEN q ELSE s.hqc
             /\ t.lock = IF q # SwitchBlock
                            /\ (s.lock = Nil \/ Round(QC(q)) > Round(s.lock))
                         THEN QC(q) ELSE s.lock
             /\ t.commit = s.commit \/ (t.commit = g /\ Commits(q, g))
             /\ IF Round(q) >= s.round THEN t.round = Round(q) + 1 /\ t.tpool = {}
                ELSE t.round = s.round /\ t.tpool = s.tpool
<1> DEFINE g == Parent(Parent(q))
           s1 == RaiseHighestQC(s, q)
           s2 == RaiseLock(s1, q)
           s3 == CommitBlocks(s2, q)
           s4 == IF Number(q) > 0 THEN s3 ELSE s1
           H == IF Round(q) > Round(s.hqc) THEN q ELSE s.hqc
           raised == s.lock = Nil \/ Round(QC(q)) > Round(s.lock)
<1>1. /\ q \in Block /\ QC(q) \in Block /\ g \in Block
      /\ Round(q) \in Nat /\ Round(q) + 1 \in 0 .. MaxRound + 1 /\ s.round \in Nat
      /\ Number(q) > 0 <=> q # SwitchBlock
  BY BlockFacts, EngineNumbers, BoundsAssumption
<1>2. /\ s1 \in Engine
      /\ s1.hqc = H
      /\ s1.lock = s.lock /\ s1.commit = s.commit
      /\ s1.htc = s.htc /\ s1.voted = s.voted /\ s1.vpool = s.vpool
      /\ s1.work = s.work /\ s1.pend = s.pend
      /\ s1.round = s.round /\ s1.tpool = s.tpool
  BY <1>1, RaiseHighestQCFields
<1> HIDE DEF s1, H
<1>3. /\ s2 \in Engine
      /\ s2.lock = IF raised THEN QC(q) ELSE s.lock
      /\ s2.hqc = H /\ s2.commit = s.commit
      /\ s2.htc = s.htc /\ s2.voted = s.voted /\ s2.vpool = s.vpool
      /\ s2.work = s.work /\ s2.pend = s.pend
      /\ s2.round = s.round /\ s2.tpool = s.tpool
  <2>1. s2.lock = IF s1.lock = Nil \/ Round(QC(q)) > Round(s1.lock)
                  THEN QC(q) ELSE s1.lock
    BY <1>1, <1>2, RaiseLockFields
  <2>2. s2.lock = IF raised THEN QC(q) ELSE s.lock
    BY <1>2, <2>1
  <2> HIDE DEF raised
  <2> QED BY <1>1, <1>2, <2>2, RaiseLockFields
<1> HIDE DEF s2, raised
<1>4. /\ s3 \in Engine
      /\ s3.lock = IF raised THEN QC(q) ELSE s.lock
      /\ s3.hqc = H /\ (s3.commit = s.commit \/ (s3.commit = g /\ Commits(q, g)))
      /\ s3.htc = s.htc /\ s3.voted = s.voted /\ s3.vpool = s.vpool
      /\ s3.work = s.work /\ s3.pend = s.pend
      /\ s3.round = s.round /\ s3.tpool = s.tpool
  BY <1>1, <1>3, CommitBlocksFields, Zenon
<1> HIDE DEF s3
<1>5. /\ s4 \in Engine
      /\ s4.lock = IF q # SwitchBlock /\ raised THEN QC(q) ELSE s.lock
      /\ s4.hqc = H /\ (s4.commit = s.commit \/ (s4.commit = g /\ Commits(q, g)))
      /\ s4.htc = s.htc /\ s4.voted = s.voted /\ s4.vpool = s.vpool
      /\ s4.work = s.work /\ s4.pend = s.pend
      /\ s4.round = s.round /\ s4.tpool = s.tpool
  <2>1. CASE q # SwitchBlock
    BY <1>1, <1>4, <2>1
  <2>2. CASE q = SwitchBlock
    BY <1>1, <1>2, <2>2
  <2> QED BY <2>1, <2>2
<1>6. ProcessQC(s, q, d) = IF Round(q) >= s.round THEN SetNewRound(s4, Round(q) + 1) ELSE s4
  BY DEF ProcessQC, s1, s2, s3
<1> HIDE DEF s4, g
<1>7. CASE Round(q) >= s.round
  BY <1>1, <1>5, <1>6, <1>7, SetNewRoundFields DEF H, raised, g
<1>8. CASE ~ (Round(q) >= s.round)
  BY <1>1, <1>5, <1>6, <1>8 DEF H, raised, g
<1> QED BY <1>7, <1>8

(* processTC.                                                               *)
LEMMA ProcessTCFields ==
  ASSUME NEW s \in Engine, NEW t \in 0 .. MaxRound
  PROVE  LET u == ProcessTC(s, t)
         IN  /\ u \in Engine
             /\ u.hqc = s.hqc /\ u.lock = s.lock /\ u.commit = s.commit
             /\ u.voted = s.voted /\ u.vpool = s.vpool
             /\ u.work = s.work /\ u.pend = s.pend
             /\ u.htc = IF t > s.htc THEN t ELSE s.htc
             /\ IF t >= s.round THEN u.round = t + 1 /\ u.tpool = {}
                ELSE u.round = s.round /\ u.tpool = s.tpool
<1> DEFINE s1 == IF t > s.htc THEN [s EXCEPT !.htc = t] ELSE s
<1>1. /\ s1 \in Engine /\ s1.htc = IF t > s.htc THEN t ELSE s.htc
      /\ s1.hqc = s.hqc /\ s1.lock = s.lock /\ s1.commit = s.commit
      /\ s1.voted = s.voted /\ s1.vpool = s.vpool
      /\ s1.work = s.work /\ s1.pend = s.pend
      /\ s1.round = s.round /\ s1.tpool = s.tpool
  BY DEF Engine
<1>2. t + 1 \in 0 .. MaxRound + 1
  BY BoundsAssumption
<1>3. ProcessTC(s, t) = IF t >= s.round THEN SetNewRound(s1, t + 1) ELSE s1
  BY DEF ProcessTC
<1> HIDE DEF s1
<1>4. CASE t >= s.round
  BY <1>1, <1>2, <1>3, <1>4, SetNewRoundFields
<1>5. CASE ~ (t >= s.round)
  BY <1>1, <1>3, <1>5, Zenon
<1> QED BY <1>4, <1>5

-----------------------------------------------------------------------------
(* processQC and processTC keep CertificatesOK.                             *)

(* processQC, also right after New when initial() calls it.                 *)
LEMMA ProcessQCKeeps ==
  ASSUME TreeInv, NEW s \in Engine, NEW d, ChainClosed(d),
         NEW C \in SUBSET Blocks, \A b \in C : QC(b) \in C,
         NEW T, NEW q \in d \cap C, CertificatesOK(s, d, C, T)
  PROVE  LET t == ProcessQC(s, q, d)
         IN  /\ CertificatesOK(t, d, C, T)
             /\ RoundFollows(t) /\ t.round > 0
             /\ s.round <= t.round
             /\ Round(s.hqc) <= Round(t.hqc)
             /\ Round(s.lock) <= Round(t.lock)
             /\ Round(QC(q)) <= Round(t.lock)
<1> DEFINE t == ProcessQC(s, q, d)
           g == Parent(Parent(q))
<1>1. d \in SUBSET Blocks /\ q \in d
  BY DEF ChainClosed
<1>2. /\ t \in Engine /\ t.htc = s.htc
      /\ t.hqc = IF Round(q) > Round(s.hqc) THEN q ELSE s.hqc
      /\ t.lock = IF q # SwitchBlock
                     /\ (s.lock = Nil \/ Round(QC(q)) > Round(s.lock))
                  THEN QC(q) ELSE s.lock
      /\ t.commit = s.commit \/ (t.commit = g /\ Commits(q, g))
      /\ IF Round(q) >= s.round THEN t.round = Round(q) + 1 ELSE t.round = s.round
  BY <1>1, ProcessQCFields, Zenon
<1> HIDE DEF t, g
<1>3. /\ Round(q) \in Nat /\ Round(QC(q)) \in Nat
      /\ q # SwitchBlock => Round(QC(q)) < Round(q) /\ Round(q) > 0
      /\ q = SwitchBlock => Round(q) = 0 /\ QC(q) = SwitchBlock
      /\ QC(q) \in d \cap C
      /\ q # Nil /\ QC(q) # Nil
  BY <1>1, BlockFacts, RoundType DEF ChainClosed
<1>4. /\ s.round \in Nat /\ s.htc \in Nat /\ Round(s.hqc) \in Nat /\ Round(s.lock) \in Nat
      /\ t.round \in Nat /\ Round(t.hqc) \in Nat /\ Round(t.lock) \in Nat
  BY <1>2, EngineNumbers
<1>5. RoundFollows(t) /\ t.round > 0 /\ s.round <= t.round
  <2>1. CASE RoundFollows(s)
    BY <1>2, <1>3, <1>4, <2>1 DEF RoundFollows
  <2>2. CASE s = NewEngine
    <3>1. s.round = 0 /\ s.htc = 0 /\ Round(s.hqc) = 0
      BY <2>2, NilFacts DEF NewEngine
    <3> QED BY <1>2, <1>3, <1>4, <3>1 DEF RoundFollows
  <2> QED BY <2>1, <2>2 DEF CertificatesOK
<1>6. s.lock # Nil => s.hqc \notin {Nil, SwitchBlock}
  BY DEF CertificatesOK
<1>7. s.hqc \notin {Nil, SwitchBlock} =>
        /\ s.lock \in d /\ s.lock # Nil
        /\ Round(QC(s.hqc)) <= Round(s.lock)
        /\ Round(s.lock) < Round(s.hqc)
        /\ Round(QC(s.hqc)) \in Nat
  <2> SUFFICES ASSUME s.hqc \notin {Nil, SwitchBlock}
               PROVE  /\ s.lock \in d /\ s.lock # Nil
                      /\ Round(QC(s.hqc)) <= Round(s.lock)
                      /\ Round(s.lock) < Round(s.hqc)
                      /\ Round(QC(s.hqc)) \in Nat
    OBVIOUS
  <2>1. /\ {s.hqc, s.lock} \subseteq d
        /\ Round(QC(s.hqc)) <= Round(s.lock)
        /\ Round(s.lock) < Round(s.hqc)
    BY DEF CertificatesOK, LockCovers
  <2> QED BY <1>1, <2>1, BlockFacts
<1>8. s.hqc \in {Nil, SwitchBlock} => Round(s.hqc) = 0 /\ s.lock = Nil /\ Round(s.lock) = 0
  BY NilFacts DEF CertificatesOK, Round, SwitchBlock
<1>9. t.hqc \in (d \cap C) \cup {Nil} /\ Round(s.hqc) <= Round(t.hqc)
  BY <1>1, <1>2, <1>3, <1>4 DEF CertificatesOK
<1>10. t.lock \in C \cup {Nil}
  BY <1>2, <1>3 DEF CertificatesOK
<1>11. /\ t.hqc \in {Nil, SwitchBlock} => t.lock = Nil
       /\ LockCovers(t, d)
       /\ Round(s.lock) <= Round(t.lock)
       /\ Round(QC(q)) <= Round(t.lock)
  <2>1. CASE q = SwitchBlock
    BY <1>2, <1>3, <1>4, <1>7, <1>8, <2>1 DEF CertificatesOK, LockCovers
  <2>2. CASE q # SwitchBlock
    <3>1. t.hqc \notin {Nil, SwitchBlock} /\ t.hqc \in d
      BY <1>1, <1>2, <1>3, <1>4, <1>8, <1>9, <2>2, Zenon
    <3>2. t.lock \in d /\ Round(t.lock) < Round(t.hqc)
      BY <1>2, <1>3, <1>4, <1>6, <1>7, <2>2
    <3>3. Round(s.lock) <= Round(t.lock) /\ Round(QC(q)) <= Round(t.lock)
      BY <1>2, <1>3, <1>4, <1>6, <1>8, <2>2, NilFacts
    <3>4. Round(QC(t.hqc)) <= Round(t.lock)
      <4>1. CASE t.hqc = q
        BY <3>3, <4>1
      <4>2. CASE t.hqc = s.hqc
        BY <1>4, <1>7, <3>1, <3>3, <4>2
      <4> QED BY <1>2, <4>1, <4>2
    <3> QED BY <3>1, <3>2, <3>3, <3>4, Zenon DEF LockCovers
  <2> QED BY <2>1, <2>2, Zenon
<1>12. t.commit # Nil => \E x \in d \cap C : Commits(x, t.commit)
  BY <1>2 DEF CertificatesOK
<1>13. t.htc \in T \cup {0}
  BY <1>2, Zenon DEF CertificatesOK
<1> QED BY <1>5, <1>9, <1>10, <1>11, <1>12, <1>13 DEF CertificatesOK, t

(* processTC.                                                               *)
LEMMA ProcessTCKeeps ==
  ASSUME NEW s \in Engine, NEW d, NEW C, NEW T \in SUBSET (1 .. MaxRound),
         NEW t \in T \cup {0}, RoundFollows(s), CertificatesOK(s, d, C, T)
  PROVE  LET u == ProcessTC(s, t)
         IN  CertificatesOK(u, d, C, T) /\ RoundFollows(u) /\ s.round <= u.round
<1> DEFINE u == ProcessTC(s, t)
<1>1. t \in 0 .. MaxRound
  BY BoundsAssumption
<1>2. /\ u \in Engine
      /\ u.hqc = s.hqc /\ u.lock = s.lock /\ u.commit = s.commit
      /\ u.htc = IF t > s.htc THEN t ELSE s.htc
      /\ IF t >= s.round THEN u.round = t + 1 ELSE u.round = s.round
  BY <1>1, ProcessTCFields
<1> HIDE DEF u
<1>3. s.round \in Nat /\ s.htc \in Nat /\ Round(s.hqc) \in Nat /\ t \in Nat
  BY <1>1, EngineNumbers
<1>4. RoundFollows(u) /\ s.round <= u.round
  BY <1>2, <1>3 DEF RoundFollows
<1>5. u.htc \in T \cup {0}
  BY <1>2 DEF CertificatesOK
<1> QED BY <1>2, <1>4, <1>5 DEF CertificatesOK, LockCovers, u

(* CertificatesOK speaks of five fields only.                               *)
LEMMA SameCertificates ==
  ASSUME NEW s, NEW t, NEW d, NEW C, NEW T,
         RoundFollows(s), CertificatesOK(s, d, C, T),
         t.hqc = s.hqc, t.lock = s.lock, t.commit = s.commit,
         t.htc = s.htc, t.round = s.round
  PROVE  RoundFollows(t) /\ CertificatesOK(t, d, C, T)
BY DEF RoundFollows, CertificatesOK, LockCovers

(* The pools are kept, but the timeout pool may be emptied.                 *)
LEMMA SamePools ==
  ASSUME NEW s, NEW t, NEW d, NEW V, NEW W, PoolsOK(s, d, V, W),
         t.vpool = s.vpool, t.work = s.work,
         t.tpool = {} \/ (t.tpool = s.tpool /\ t.round = s.round)
  PROVE  PoolsOK(t, d, V, W)
BY Zenon DEF PoolsOK

-----------------------------------------------------------------------------
(* The handlers keep NodeOK.                                                *)

(* C and T hold every block and every round that signatures V and W, with   *)
(* those of the faulty masternodes, are enough for.                         *)
Evidence(C, T, V, W) ==
  /\ C \in SUBSET Blocks /\ SwitchBlock \in C /\ \A b \in C : QC(b) \in C
  /\ T \in SUBSET (1 .. MaxRound)
  /\ \A b \in Blocks : \A S \in SUBSET Masternodes :
       IsQuorum(S) /\ (\A m \in S \cap Honest : b \in V[m]) => b \in C
  /\ \A r \in 1 .. MaxRound : \A S \in SUBSET Masternodes :
       IsQuorum(S) /\ (\A m \in S \cap Honest : r \in W[m]) => r \in T

(* processQC on a node that is not in the middle of a vote.                 *)
LEMMA ProcessQCNode ==
  ASSUME TreeInv, NEW s, NEW d, NEW h, NEW C, NEW T, NEW V, NEW W,
         Evidence(C, T, V, W), NodeOK(s, d, h, C, T, V, W), s.pend = Nil,
         NEW q \in d \cap C
  PROVE  LET t == ProcessQC(s, q, d)
         IN  /\ NodeOK(t, d, h, C, T, V, W)
             /\ t.voted = s.voted /\ t.pend = Nil /\ s.round <= t.round
             /\ Round(s.lock) <= Round(t.lock)
             /\ Round(QC(q)) <= Round(t.lock)
<1> DEFINE t == ProcessQC(s, q, d)
<1>1. s \in Engine /\ ChainClosed(d) /\ d \in SUBSET Blocks /\ q \in d
  BY DEF NodeOK, ChainClosed
<1>2. /\ t \in Engine /\ t.voted = s.voted /\ t.vpool = s.vpool
      /\ t.work = s.work /\ t.pend = s.pend
      /\ t.tpool = {} \/ (t.tpool = s.tpool /\ t.round = s.round)
  BY <1>1, ProcessQCFields, Zenon
<1>3. /\ CertificatesOK(t, d, C, T) /\ RoundFollows(t) /\ s.round <= t.round
      /\ Round(s.lock) <= Round(t.lock) /\ Round(QC(q)) <= Round(t.lock)
  BY <1>1, ProcessQCKeeps, Zenon DEF NodeOK, Evidence
<1> HIDE DEF t
<1>4. PoolsOK(t, d, V, W)
  BY <1>2, SamePools DEF NodeOK
<1>5. NodeOK(t, d, h, C, T, V, W)
  BY <1>1, <1>2, <1>3, <1>4, Zenon DEF NodeOK
<1> QED BY <1>2, <1>3, <1>5, Zenon DEF t

(* processTC on a node that is not in the middle of a vote.                 *)
LEMMA ProcessTCNode ==
  ASSUME NEW s, NEW d, NEW h, NEW C, NEW T \in SUBSET (1 .. MaxRound), NEW V, NEW W,
         NodeOK(s, d, h, C, T, V, W), s.pend = Nil, NEW r \in T \cup {0}
  PROVE  LET t == ProcessTC(s, r)
         IN  /\ NodeOK(t, d, h, C, T, V, W)
             /\ t.voted = s.voted /\ t.pend = Nil /\ s.round <= t.round
             /\ t.lock = s.lock
<1> DEFINE t == ProcessTC(s, r)
<1>1. s \in Engine /\ r \in 0 .. MaxRound
  BY BoundsAssumption DEF NodeOK
<1>2. /\ t \in Engine /\ t.voted = s.voted /\ t.vpool = s.vpool
      /\ t.work = s.work /\ t.pend = s.pend /\ t.lock = s.lock
      /\ t.tpool = {} \/ (t.tpool = s.tpool /\ t.round = s.round)
  BY <1>1, ProcessTCFields
<1>3. CertificatesOK(t, d, C, T) /\ RoundFollows(t) /\ s.round <= t.round
  BY <1>1, ProcessTCKeeps DEF NodeOK
<1> HIDE DEF t
<1>4. PoolsOK(t, d, V, W)
  BY <1>2, SamePools, Zenon DEF NodeOK
<1>5. NodeOK(t, d, h, C, T, V, W)
  BY <1>2, <1>3, <1>4 DEF NodeOK
<1> QED BY <1>2, <1>3, <1>5 DEF t

(* voteHandler with onVotePoolThresholdReached.                             *)
LEMMA CollectVoteNode ==
  ASSUME TreeInv, NEW s, NEW d, NEW h, NEW C, NEW T, NEW V, NEW W,
         Evidence(C, T, V, W), NodeOK(s, d, h, C, T, V, W), s.pend = Nil,
         NEW v \in Masternodes, NEW b \in Blocks, v \in Honest => b \in V[v]
  PROVE  LET t == CollectVote(s, v, b, d)
         IN  /\ NodeOK(t, d, h, C, T, V, W)
             /\ t.voted = s.voted /\ t.pend = Nil /\ s.round <= t.round
             /\ Round(s.lock) <= Round(t.lock)
<1> DEFINE s1 == [s EXCEPT !.vpool = @ \cup {<<v, b>>}]
           S == {m \in Masternodes : <<m, b>> \in s1.vpool}
           t == CollectVote(s, v, b, d)
<1>1. s \in Engine /\ b \in Block /\ d \in SUBSET Blocks
  BY BlockFacts DEF NodeOK, ChainClosed
<1>2. s1 \in Engine
  BY <1>1 DEF Engine
<1>3. /\ s1.hqc = s.hqc /\ s1.lock = s.lock /\ s1.commit = s.commit
      /\ s1.htc = s.htc /\ s1.voted = s.voted /\ s1.vpool = s.vpool \cup {<<v, b>>}
      /\ s1.work = s.work /\ s1.pend = s.pend
      /\ s1.round = s.round /\ s1.tpool = s.tpool
  BY <1>1 DEF Engine
<1>4. t = IF b \in d /\ IsQuorum(S) THEN ProcessQC(s1, b, d) ELSE s1
  BY DEF CollectVote
<1> HIDE DEF s1, t
<1>5. PoolsOK(s1, d, V, W)
  BY <1>3 DEF NodeOK, PoolsOK
<1>6. RoundFollows(s1) /\ CertificatesOK(s1, d, C, T)
  BY <1>3, SameCertificates, Zenon DEF NodeOK
<1>7. NodeOK(s1, d, h, C, T, V, W)
  BY <1>2, <1>3, <1>5, <1>6, Zenon DEF NodeOK
<1>8. IsQuorum(S) => b \in C
  <2>1. \A m \in S \cap Honest : b \in V[m]
    BY <1>5 DEF PoolsOK
  <2>2. S \in SUBSET Masternodes
    BY Zenon
  <2> HIDE DEF S
  <2> QED BY <2>1, <2>2 DEF Evidence
<1>9. CASE b \in d /\ IsQuorum(S)
  <2> DEFINE u == ProcessQC(s1, b, d)
  <2>1. t = u
    BY <1>4, <1>9, Zenon
  <2>2. b \in d \cap C
    BY <1>8, <1>9, Zenon
  <2>3. s1.pend = Nil
    BY <1>3, Zenon
  <2>4. /\ NodeOK(u, d, h, C, T, V, W)
        /\ u.voted = s1.voted /\ u.pend = Nil /\ s1.round <= u.round
        /\ Round(s1.lock) <= Round(u.lock)
    BY <1>7, <2>2, <2>3, ProcessQCNode
  <2> HIDE DEF u
  <2> QED BY <1>3, <2>1, <2>4, Zenon DEF t
<1>10. CASE ~ (b \in d /\ IsQuorum(S))
  <2>1. t = s1
    BY <1>4, <1>10
  <2>2. s.round <= s.round /\ Round(s.lock) <= Round(s.lock)
    BY <1>1, EngineNumbers
  <2> QED BY <1>3, <1>7, <2>1, <2>2, Zenon DEF t
<1> QED BY <1>9, <1>10, Zenon

(* timeoutHandler with onTimeoutPoolThresholdReached.                       *)
LEMMA CollectTimeoutNode ==
  ASSUME NEW s, NEW d, NEW h, NEW C, NEW T, NEW V, NEW W,
         Evidence(C, T, V, W), NodeOK(s, d, h, C, T, V, W), s.pend = Nil,
         NEW v \in Masternodes, v \in Honest => s.round \in W[v],
         s.round \in 1 .. MaxRound
  PROVE  LET t == CollectTimeout(s, v)
         IN  /\ NodeOK(t, d, h, C, T, V, W)
             /\ t.voted = s.voted /\ t.pend = Nil /\ s.round <= t.round
             /\ t.lock = s.lock
<1> DEFINE s1 == [s EXCEPT !.tpool = @ \cup {v}]
           S == s.tpool \cup {v}
           t == CollectTimeout(s, v)
<1>1. s \in Engine /\ s.tpool \subseteq Masternodes
  BY DEF NodeOK, Engine
<1>2. s1 \in Engine
  BY <1>1 DEF Engine
<1>3. /\ s1.hqc = s.hqc /\ s1.lock = s.lock /\ s1.commit = s.commit
      /\ s1.htc = s.htc /\ s1.voted = s.voted /\ s1.vpool = s.vpool
      /\ s1.work = s.work /\ s1.pend = s.pend
      /\ s1.round = s.round /\ s1.tpool = S
  BY <1>1 DEF Engine
<1>4. t = IF IsQuorum(S) THEN ProcessTC(s1, s.round) ELSE s1
  BY DEF CollectTimeout, CompletesTC
<1> HIDE DEF s1, t
<1>5. PoolsOK(s1, d, V, W)
  BY <1>3, Zenon DEF NodeOK, PoolsOK
<1>6. RoundFollows(s1) /\ CertificatesOK(s1, d, C, T)
  BY <1>3, SameCertificates, Zenon DEF NodeOK
<1>7. NodeOK(s1, d, h, C, T, V, W)
  BY <1>2, <1>3, <1>5, <1>6, Zenon DEF NodeOK
<1>8. IsQuorum(S) => s.round \in T
  <2>1. \A m \in S \cap Honest : s.round \in W[m]
    BY <1>3, <1>5 DEF PoolsOK
  <2>2. S \in SUBSET Masternodes
    BY <1>1, Zenon
  <2> HIDE DEF S
  <2> QED BY <2>1, <2>2, Zenon DEF Evidence
<1>9. CASE IsQuorum(S)
  <2> DEFINE u == ProcessTC(s1, s.round)
  <2>1. t = u
    BY <1>4, <1>9, Zenon
  <2>2. s.round \in T \cup {0} /\ T \in SUBSET (1 .. MaxRound)
    BY <1>8, <1>9, Zenon DEF Evidence
  <2>3. s1.pend = Nil
    BY <1>3, Zenon
  <2>4. /\ NodeOK(u, d, h, C, T, V, W)
        /\ u.voted = s1.voted /\ u.pend = Nil /\ s1.round <= u.round
        /\ u.lock = s1.lock
    BY <1>7, <2>2, <2>3, ProcessTCNode, Zenon
  <2> HIDE DEF u
  <2> QED BY <1>3, <2>1, <2>4, Zenon DEF t
<1>10. CASE ~ IsQuorum(S)
  <2>1. t = s1
    BY <1>4, <1>10
  <2>2. s.round <= s.round
    BY <1>1, EngineNumbers
  <2> QED BY <1>3, <1>7, <2>1, <2>2, Zenon DEF t
<1> QED BY <1>9, <1>10, Zenon

(* initial, at start-up and after a restart: the head block's certificate   *)
(* is enough to start from.                                                 *)
LEMMA InitialNode ==
  ASSUME TreeInv, NEW d, NEW h, NEW C, NEW T, NEW V, NEW W,
         Evidence(C, T, V, W), ChainClosed(d), h \in d, QC(h) \in C
  PROVE  NodeOK(Initial(h, d), d, h, C, T, V, W)
<1>1. NewEngine \in Engine
  <2>1. 0 \in 0 .. TimeoutSyncThreshold - 1
    BY EngineAssumption, SMTT(30)
  <2> QED BY <2>1, BoundsAssumption DEF NewEngine, Engine
<1>2. CertificatesOK(NewEngine, d, C, T)
  BY Zenon DEF CertificatesOK, LockCovers, NewEngine
<1>3. CASE h = SwitchBlock
  <2> DEFINE t == Initial(h, d)
  <2>1. t = [NewEngine EXCEPT !.round = 1, !.hqc = SwitchBlock]
    BY <1>3 DEF Initial
  <2>2. 1 \in 0 .. MaxRound + 1 /\ SwitchBlock \in Block
    BY BoundsAssumption DEF Block
  <2>3. t \in Engine
    BY <1>1, <2>1, <2>2, Zenon DEF Engine
  <2>4. /\ t.round = 1 /\ t.hqc = SwitchBlock /\ t.lock = Nil /\ t.htc = 0
        /\ t.commit = Nil /\ t.vpool = {} /\ t.tpool = {} /\ t.work = {} /\ t.pend = Nil
    BY <2>1 DEF NewEngine
  <2> HIDE DEF t
  <2>5. RoundFollows(t)
    BY <2>4 DEF RoundFollows, Round, SwitchBlock
  <2>6. CertificatesOK(t, d, C, T) /\ PoolsOK(t, d, V, W)
    BY <2>4, <2>5, Zenon DEF CertificatesOK, LockCovers, PoolsOK, Evidence, ChainClosed
  <2>7. NodeOK(t, d, h, C, T, V, W)
    BY <2>3, <2>4, <2>5, <2>6, Zenon DEF NodeOK
  <2> QED BY <2>7 DEF t
<1>4. CASE h # SwitchBlock
  <2> DEFINE q == QC(h)
             t == ProcessQC(NewEngine, q, d)
  <2>1. Initial(h, d) = t
    BY <1>4 DEF Initial
  <2>2. q \in d \cap C /\ d \in SUBSET Blocks
    BY Zenon DEF ChainClosed
  <2> HIDE DEF q
  <2>3. /\ t \in Engine /\ t.vpool = NewEngine.vpool /\ t.work = NewEngine.work
        /\ t.pend = NewEngine.pend
        /\ t.tpool = {} \/ t.tpool = NewEngine.tpool
    BY <1>1, <2>2, ProcessQCFields, Zenon
  <2>4. CertificatesOK(t, d, C, T) /\ RoundFollows(t)
    BY <1>1, <1>2, <2>2, ProcessQCKeeps, Zenon DEF Evidence
  <2> HIDE DEF t
  <2>5. t.pend = Nil /\ PoolsOK(t, d, V, W)
    BY <2>3, Zenon DEF NewEngine, PoolsOK
  <2>6. NodeOK(t, d, h, C, T, V, W)
    BY <2>3, <2>4, <2>5 DEF NodeOK
  <2> QED BY <2>1, <2>6
<1> QED BY <1>3, <1>4

=============================================================================
