----------------------------- MODULE HeaderTree -----------------------------
(***************************************************************************)
(* The vocabulary that SafeVoting and EngineV2 share: the masternodes of   *)
(* one epoch, the blocks of one chain since the V1-to-V2 switch block, the *)
(* headers that exist and the votes that honest masternodes have signed.   *)
(*                                                                         *)
(* A quorum certificate needs no variable of its own.  A block is          *)
(* certified when signatures of a quorum for it exist, and a masternode    *)
(* that does not follow the protocol may add its signature to any block    *)
(* at any time.                                                            *)
(***************************************************************************)
EXTENDS Integers, FiniteSets

CONSTANTS
  Masternodes,    \* the masternodes of the epoch
  Faulty,         \* those that need not follow the protocol
  CertThreshold,  \* V2Config.CertThreshold in thousandths (0.667 is 667)
  MaxRound,       \* bound: the last round in which a block is proposed
  Forks           \* bound: the number of different blocks of one round

ASSUME MasternodesAssumption ==
  /\ IsFiniteSet(Masternodes)
  /\ Masternodes # {}
  /\ Faulty \subseteq Masternodes
  /\ CertThreshold \in Nat

ASSUME BoundsAssumption == MaxRound \in Nat /\ Forks \in Nat

Honest == Masternodes \ Faulty

(* A block is named by the round in its extra field and a number that tells *)
(* the blocks of one round apart, as their hashes do.  SwitchBlock is the   *)
(* last V1 block; initial() gives it a certificate of round 0.              *)
SwitchBlock == <<0, 1>>

Block == {SwitchBlock} \cup ((1 .. MaxRound) \X (1 .. Forks))

Round(b) == b[1]

(* A header as the engine reads it: the block of its ParentHash; the block  *)
(* that the certificate in its extra field is for; the height above the     *)
(* switch block; and the blocks its ParentHash links lead to, itself        *)
(* included.                                                                *)
Header == [parent : Block, qc : Block, number : Nat, anc : SUBSET Block]

VARIABLES
  tree,   \* the headers that exist: a function from blocks to headers
  votes   \* votes[n]: the blocks that honest masternode n signed a vote for

Blocks == DOMAIN tree

Parent(b) == tree[b].parent

QC(b) == tree[b].qc

Number(b) == tree[b].number

(* isExtendingFromAncestor: the block reached from b at a's height is a.    *)
Extends(b, a) == a \in tree[b].anc

(* The threshold test of voteHandler, timeoutHandler, verifyQC and verifyTC. *)
IsQuorum(S) == 1000 * Cardinality(S) >= CertThreshold * Cardinality(Masternodes)

(* Those whose signature on a vote for b can be had.                        *)
Signers(b) == {n \in Honest : b \in votes[n]} \cup Faulty

Certified(b) == b = SwitchBlock \/ (b \in Blocks /\ IsQuorum(Signers(b)))

(* A mutant of Commits: a certified block commits its parent already.       *)
CommitsParent(q, g) ==
  /\ Number(q) - 1 > 0
  /\ g = Parent(q)
  /\ Round(g) = Round(q) - 1

(* The three-chain test of commitBlocks: a certificate for q commits its    *)
(* grandparent g when the three rounds are consecutive.  A grandparent at   *)
(* or below the switch block is never committed.                            *)
Commits(q, g) ==
  /\ Number(q) - 2 > 0
  /\ g = Parent(Parent(q))
  /\ Round(Parent(q)) = Round(q) - 1
  /\ Round(g) = Round(q) - 2

-----------------------------------------------------------------------------
SwitchHeader ==
  [parent |-> SwitchBlock, qc |-> SwitchBlock, number |-> 0, anc |-> {SwitchBlock}]

InitTree ==
  /\ tree = [b \in {SwitchBlock} |-> SwitchHeader]
  /\ votes = [n \in Honest |-> {}]

(* The header of a new block b on parent p that carries a certificate for q. *)
ChildOf(b, p, q) ==
  [parent |-> p, qc |-> q, number |-> Number(p) + 1, anc |-> tree[p].anc \cup {b}]

(* Header b comes into existence.  The guards are what verifyHeader asks of *)
(* it: a parent that exists, a verified certificate for some block of the   *)
(* chain, and a round above the certificate's.  That the certificate is for *)
(* the parent is not among them: a header that is verified alone, or first  *)
(* in its batch, reaches verifyQC without parents to compare with.  Nor is  *)
(* the parent's round looked at.  Blocks of a round are numbered in order.  *)
AddHeader(b, p, q) ==
  /\ b \in Block \ Blocks
  /\ \A v \in 1 .. Forks : v < b[2] => <<b[1], v>> \in Blocks
  /\ p \in Blocks
  /\ q \in Blocks
  /\ Certified(q)
  /\ Round(q) < Round(b)
  /\ tree' = [x \in Blocks \cup {b} |-> IF x = b THEN ChildOf(b, p, q) ELSE tree[x]]

SignVote(n, b) == votes' = [votes EXCEPT ![n] = @ \cup {b}]

TreeTypeOK ==
  /\ tree \in [Blocks -> Header]
  /\ SwitchBlock \in Blocks
  /\ Blocks \subseteq Block
  /\ votes \in [Honest -> SUBSET Blocks]

(* Headers form a tree on SwitchBlock in which heights count and anc is     *)
(* what the parent links reach; rounds grow from a certified block to the   *)
(* block that carries its certificate.                                      *)
TreeShape ==
  /\ tree[SwitchBlock] = SwitchHeader
  /\ \A b \in Blocks \ {SwitchBlock} :
       /\ Parent(b) \in Blocks
       /\ QC(b) \in Blocks
       /\ Round(QC(b)) < Round(b)
       /\ Number(b) = Number(Parent(b)) + 1
       /\ tree[b].anc = tree[Parent(b)].anc \cup {b}
  /\ \A b \in Blocks : SwitchBlock \in tree[b].anc
  /\ \A b \in Blocks : \A a \in tree[b].anc :
       /\ a \in Blocks
       /\ tree[a].anc \subseteq tree[b].anc
       /\ a = b \/ Number(a) < Number(b)

(* The certificate in a header was verified.                                *)
QCsCertified == \A b \in Blocks : Certified(QC(b))

TreeInv == TreeTypeOK /\ TreeShape /\ QCsCertified

(* What Prepare makes true of every block an honest leader proposes, and    *)
(* what no code checks of the others: a block that got a certificate of its *)
(* own carries the certificate of its parent.                               *)
CertifiedOnParents == \A b \in Blocks : Certified(b) => QC(b) = Parent(b)

(* A step of any specification on this vocabulary: one header is added, one *)
(* honest masternode signs a vote, or neither.                              *)
TreeStep ==
  \/ \E b \in Block \ Blocks, p, q \in Blocks : AddHeader(b, p, q) /\ UNCHANGED votes
  \/ \E n \in Honest, b \in Blocks : SignVote(n, b) /\ UNCHANGED tree
  \/ UNCHANGED <<tree, votes>>

=============================================================================
