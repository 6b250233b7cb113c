---------------------------- MODULE MCEngineV2 ----------------------------
(* EngineV2 for TLC: the masternode lists of small epochs.                 *)
EXTENDS EngineV2Refinement, TLC

CONSTANTS m1, m2

List1 == 0 :> m1

List2 == (0 :> m1) @@ (1 :> m2)

===========================================================================
