--------------------------- MODULE MCLiveVehicles ---------------------------
(***************************************************************************)
(* Small instances of LiveVehicles for TLC.                                *)
(***************************************************************************)
EXTENDS LiveVehicles

CONSTANTS va, vb, r1, r2
==============================================================================
