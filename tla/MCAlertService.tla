--------------------------- MODULE MCAlertService ---------------------------
(***************************************************************************)
(* Small instances of AlertService for TLC.                                *)
(***************************************************************************)
EXTENDS AlertService, TLC

CONSTANTS va, vb, vc, c1, c2

\* Far away; near but slow, a floor above its band; about to happen.
Distant == [risk |-> "LOW", ttc |-> 20]
Slow == [risk |-> "HIGH", ttc |-> 10]
Imminent == [risk |-> "LOW", ttc |-> 2]
OneLevel == {Slow}
ThreeLevels == {Distant, Slow, Imminent}

Calm == [e \in Events |-> 0]
MCAssess == {[Calm EXCEPT !["assess"] = 1]}
\* A report that changes, then a key that expires; a report that expires; a failure.
MCDisturb == {[Calm EXCEPT !["assess"] = 1, !["expire"] = 1],
              [Calm EXCEPT !["forget"] = 1],
              [Calm EXCEPT !["fail"] = 1]}

\* No more than two conflicts in one behaviour of the fleet.
FewConflicts == ids <= 2
Alike == Permutations(Vehicles) \union Permutations(Chains)
==============================================================================
