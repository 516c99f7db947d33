---------------------------- MODULE MCJobPipeline ----------------------------
(***************************************************************************)
(* Small instances of JobPipeline for TLC.                                 *)
(***************************************************************************)
EXTENDS JobPipeline, TLC

CONSTANTS j1, j2, w1, w2

Pothole(x) == [model |-> "pothole", by |-> "geo", at |-> x, low |-> TRUE]
FarPothole(x) == [model |-> "pothole", by |-> "geo", at |-> x, low |-> FALSE]
Bump(x) == [model |-> "speedbump", by |-> "geo", at |-> x, low |-> TRUE]
Sign(x) == [model |-> "signs", by |-> "pixel", at |-> x, low |-> FALSE]

\* A pothole in the upper half, then twice within the radius, and a sign in
\* a frame without a GPS fix; the model that would see the bump has no file.
ShortRoad == << <<FarPothole(1), Pothole(1), Bump(1)>>, <<Pothole(2), Sign(5)>> >>

MCShortRoad == [j \in Jobs |-> ShortRoad]
MCFrameCount == [j \in Jobs |-> Len(Video[j])]
MCEnabled == [j \in Jobs |-> {"pothole", "signs", "speedbump"}]
MCInstalled == {"pothole", "signs"}

NoFaults == [f \in Faults |-> 0]
MCEverything == [f \in Faults |-> 1]
MCConcurrent == [MCEverything EXCEPT !["broker"] = 0]
MCRecoverable == [NoFaults EXCEPT !["raise"] = 1, !["crash"] = 1,
                                  !["restart"] = 1, !["delete"] = 1,
                                  !["broker"] = 1]

WorkerSymmetry == Permutations(Workers)
==============================================================================
