---------------------------- MODULE MCAgentTurn ----------------------------
(***************************************************************************)
(* An instance of AgentTurn for TLC: two turns, of which the second meets  *)
(* what the first left, and two compactions, which may overlap.            *)
(***************************************************************************)
EXTENDS AgentTurn, TLC
CONSTANTS k1, k2
Alike == Permutations(Compactions)
=============================================================================
