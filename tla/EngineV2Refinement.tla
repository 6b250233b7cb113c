------------------------- MODULE EngineV2Refinement -------------------------
(***************************************************************************)
(* EngineV2 implements SafeVoting: the headers and votes of the engines    *)
(* are the headers and votes of SafeVoting, and an engine's lockQuorumCert *)
(* is the lock that SafeVoting's voting rule asks for.                     *)
(***************************************************************************)
EXTENDS EngineV2

SV == INSTANCE SafeVoting

(* Every step of the engines, timeouts, lost messages and faulty leaders    *)
(* included, is a header or a Vote of SafeVoting or changes neither        *)
(* headers nor votes.                                                       *)
ImplementsSafeVoting == SV!VotingSpec

=============================================================================
