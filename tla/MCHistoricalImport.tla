------------------------- MODULE MCHistoricalImport -------------------------
(***************************************************************************)
(* Small instances of HistoricalImport for TLC.                            *)
(***************************************************************************)
EXTENDS HistoricalImport, TLC

CONSTANTS a, b, q

\* A body lists the newest event first.
NewestFirst == {<<2, 1>>}

ChildSymmetry == Permutations(Children)
==============================================================================
