----------------------------- MODULE MCBlockChain -----------------------------
(* Two forks a2 - a3 and b2 - b3 from a1, on a node that prunes old states or *)
(* on an archive node.                                                        *)
EXTENDS BlockChain

CONSTANTS a1, a2, a3, b2, b3

VARIABLE archive

MCParent ==
  [b \in Blocks |-> CASE b = a1 -> Genesis
                      [] b \in {a2, b2} -> a1
                      [] b = a3 -> a2
                      [] b = b3 -> b2]

MCNumber[b \in Blocks \cup {Genesis}] ==
  IF b = Genesis THEN 0 ELSE MCNumber[MCParent[b]] + 1

MCPath[b \in Blocks \cup {Genesis}] ==
  IF b = Genesis THEN {Genesis} ELSE MCPath[MCParent[b]] \cup {b}

Archiving == INSTANCE BlockChain WITH Archive <- TRUE

MCInit == archive \in BOOLEAN /\ Init

MCNext ==
  /\ IF archive THEN Archiving!Next ELSE Next
  /\ UNCHANGED archive

MCStep == IF archive THEN Archiving!Step ELSE Step

(* The holder of chainmu goes on, and the network keeps delivering the        *)
(* blocks of the chain that the other nodes have.                             *)
FairSpec ==
  /\ MCInit /\ [][MCNext]_<<archive, vars>>
  /\ WF_vars(MCStep)
  /\ \A b \in Path[Tip] \ {Genesis} : SF_vars(Deliver(b))

=============================================================================
