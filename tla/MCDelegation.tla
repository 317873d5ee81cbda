---------------------------- MODULE MCDelegation ----------------------------
(***************************************************************************)
(* An instance of Delegation for TLC: two requests of one pair of agents,  *)
(* each an ask or a send, and a stop.                                      *)
(***************************************************************************)
EXTENDS Delegation
CONSTANTS r1, r2, s1
=============================================================================
