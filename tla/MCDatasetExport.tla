--------------------------- MODULE MCDatasetExport ---------------------------
(***************************************************************************)
(* Small instances of DatasetExport for TLC.                               *)
(***************************************************************************)
EXTENDS DatasetExport, TLC

CONSTANTS d1, d2, j1, j2, r1, r2, e1, e2

JobEach == [d \in Detections |-> IF d = d1 THEN j1 ELSE j2]

Symmetry == Permutations(Requests) \union Permutations(Exporters)
==============================================================================
