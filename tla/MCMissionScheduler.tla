------------------------- MODULE MCMissionScheduler -------------------------
(***************************************************************************)
(* Small instances of MissionScheduler for TLC.                            *)
(***************************************************************************)
EXTENDS MissionScheduler, TLC
CONSTANTS m1, m2, s1, s2, o1, x1, x2
=============================================================================
