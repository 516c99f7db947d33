--------------------------- MODULE AlertLifecycle ---------------------------
(***************************************************************************)
(* What the alert service promises about a pair of vehicles: "one evolving *)
(* event per conflict" (alerts/models.py).  A conflict appears, changes    *)
(* its level and ends; each of these is told once, with the id of the      *)
(* conflict, and nothing else is told.                                     *)
(***************************************************************************)
EXTENDS AlertEngine

CONSTANT Pairs

VARIABLES
  conflict,  \* conflict[p]: the conflict of the pair, an id and a level
  told,      \* told[p]: the last thing told about the pair
  ids        \* ids given so far

vars == <<conflict, told, ids>>

NoConflict == [id |-> 0, level |-> "SAFE"]
Nothing == [id |-> 0, transition |-> "UNCHANGED", level |-> "SAFE"]

Tell(p, id, transition, level) ==
  told' = [told EXCEPT ![p] =
             [id |-> id, transition |-> transition, level |-> level]]

Init ==
  /\ conflict = [p \in Pairs |-> NoConflict]
  /\ told = [p \in Pairs |-> Nothing]
  /\ ids = 0

Appear(p, level) ==
  /\ conflict[p] = NoConflict
  /\ ids' = ids + 1
  /\ conflict' = [conflict EXCEPT ![p] = [id |-> ids', level |-> level]]
  /\ Tell(p, ids', "NEW", level)

Evolve(p, level) ==
  /\ conflict[p] # NoConflict /\ conflict[p].level # level
  /\ conflict' = [conflict EXCEPT ![p].level = level]
  /\ Tell(p, conflict[p].id, Change(conflict[p].level, level), level)
  /\ UNCHANGED ids

End(p) ==
  /\ conflict[p] # NoConflict
  /\ conflict' = [conflict EXCEPT ![p] = NoConflict]
  /\ Tell(p, conflict[p].id, "RESOLVED", "SAFE")
  /\ UNCHANGED ids

Next ==
  \E p \in Pairs :
    \/ \E level \in Levels \ {"SAFE"} : Appear(p, level) \/ Evolve(p, level)
    \/ End(p)

Spec == Init /\ [][Next]_vars
==============================================================================
