----------------------------- MODULE SafeVoting -----------------------------
(***************************************************************************)
(* What the XDPoS 2.0 engine promises about votes, reduced to what the     *)
(* agreement of committed blocks depends on: when an honest masternode     *)
(* votes, when a block is committed, and what follows for headers and      *)
(* votes.  How a masternode learns of certificates, when it times out and  *)
(* what it stores is left open.  EngineV2 implements this specification.   *)
(***************************************************************************)
EXTENDS HeaderTree

(* Two quorums share an honest masternode.  With the deployed threshold of  *)
(* 0.667 fewer than 0.334 of the masternodes may be faulty.                 *)
FewFaulty ==
  1000 * Cardinality(Faulty) < (2 * CertThreshold - 1000) * Cardinality(Masternodes)

(* commitBlocks may set highestCommitBlock to g on some node.               *)
Committed(g) == \E q \in Blocks : Certified(q) /\ Commits(q, g)

(* The lock that voting for c leaves: ProposedBlockHandler has processed    *)
(* the certificate in c, and processQC locks the block that the certificate *)
(* in the certified block is for.                                           *)
LockOf(c) == QC(QC(c))

(* The last two cases of verifyVotingRule, with lock l.                     *)
VotingRule(b, l) == Round(QC(b)) > Round(l) \/ Extends(b, l)

(* A mutant of Vote: the locks that earlier votes left are forgotten.       *)
VoteUnlocked(n, b) ==
  /\ b \in Blocks \ {SwitchBlock}
  /\ \A c \in votes[n] : Round(c) < Round(b)
  /\ \E l \in Blocks :
       /\ Certified(l)
       /\ Round(l) < Round(b)
       /\ Round(LockOf(b)) <= Round(l)
       /\ VotingRule(b, l)
  /\ SignVote(n, b)
  /\ UNCHANGED tree

(* An honest vote: in a round above all rounds n voted in, and under a      *)
(* certified lock of an earlier round that is no older than what this vote  *)
(* and n's earlier ones leave.                                              *)
Vote(n, b) ==
  /\ b \in Blocks \ {SwitchBlock}
  /\ \A c \in votes[n] : Round(c) < Round(b)
  /\ \E l \in Blocks :
       /\ Certified(l)
       /\ Round(l) < Round(b)
       /\ \A c \in votes[n] \cup {b} : Round(LockOf(c)) <= Round(l)
       /\ VotingRule(b, l)
  /\ SignVote(n, b)
  /\ UNCHANGED tree

-----------------------------------------------------------------------------
(* The rules as a specification.                                            *)

VotingVars == <<tree, votes>>

VotingNext ==
  \/ \E b \in Block \ Blocks, p, q \in Blocks : AddHeader(b, p, q) /\ UNCHANGED votes
  \/ \E n \in Honest, b \in Block : Vote(n, b)

VotingSpec == InitTree /\ [][VotingNext]_VotingVars

-----------------------------------------------------------------------------
(* onVotePoolThresholdReached can build a certificate for at most one block *)
(* of a round, on all nodes together, whatever faulty leaders propose.      *)
UniqueCertificate ==
  \A a, b \in Blocks : Certified(a) /\ Certified(b) /\ Round(a) = Round(b) => a = b

(* As long as certified blocks carry the certificates of their parents:     *)
(* once commitBlocks can commit g anywhere, every certified block of g's    *)
(* round or a later one extends g, so no highestQuorumCert leaves g behind. *)
CertifiedExtendCommitted ==
  CertifiedOnParents =>
    \A g, c \in Blocks :
      Committed(g) /\ Certified(c) /\ Round(c) >= Round(g) => Extends(c, g)

(* As long as certified blocks carry the certificates of their parents:     *)
(* two blocks that commitBlocks commits, on any nodes, lie on one chain.    *)
Agreement ==
  CertifiedOnParents =>
    \A a, b \in Blocks :
      Committed(a) /\ Committed(b) => Extends(a, b) \/ Extends(b, a)

-----------------------------------------------------------------------------
(* The inductive invariant behind the properties above.                     *)

(* Lock l justifies a vote for b after an earlier vote for c.               *)
Justifies(l, b, c) ==
  /\ Certified(l)
  /\ Round(l) < Round(b)
  /\ Round(LockOf(c)) <= Round(l)
  /\ VotingRule(b, l)

(* What sendVote and verifyVotingRule leave behind: an honest masternode    *)
(* never votes twice in a round, and each of its votes was justified by a   *)
(* lock at least as new as the one any earlier vote of its left.            *)
VoteHistory ==
  \A n \in Honest : \A b \in votes[n] :
    /\ b # SwitchBlock
    /\ \A c \in votes[n] : Round(c) = Round(b) => c = b
    /\ \A c \in votes[n] : Round(c) < Round(b) => \E l \in Blocks : Justifies(l, b, c)

IInv == TreeInv /\ VoteHistory

=============================================================================
