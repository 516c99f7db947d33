---------------------------- MODULE MCRoadStates ----------------------------
(***************************************************************************)
(* Small instances of RoadStates for TLC.                                  *)
(***************************************************************************)
EXTENDS RoadStates, TLC

CONSTANTS va, k1, k2

TaskSymmetry == Permutations(Tasks)
==============================================================================
