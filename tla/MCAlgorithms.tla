---------------------------- MODULE MCAlgorithms ----------------------------
(***************************************************************************)
(* The pure algorithms on bounded inputs: a state is an input of one of    *)
(* them, and a step makes the input longer by one element.                 *)
(***************************************************************************)
EXTENDS GpsVoter, Clustering, TLC

CONSTANTS
  VMax, Horizons,
  CriticalDistance, HighDistance, ModerateDistance, LowDistance,
  CriticalTtc, HighTtc, MinConfidence,
  FreshAge, StaleAge, MaxSampleAge, MinSampleDt, MaxAccel, MaxDecel, None, LeastReported,
  Widths,  \* radii of the circles and corridors searched
  MaxReadings, MaxPoints, MaxLegs, MaxSeconds, MaxSamples, MaxWaypoints  \* lengths of inputs

ASSUME HorizonsAssumption ==
  /\ Horizons \in Seq(Nat) /\ Horizons # <<>>
  /\ \A i, j \in DOMAIN Horizons : i < j => Horizons[i] < Horizons[j]
ASSUME WidthsAssumption == Widths \subseteq Nat
ASSUME DetectorAssumption ==
  /\ MaxSamples \in Nat /\ MaxSamples <= Len(Horizons)
  /\ CriticalDistance \in Nat /\ HighDistance \in Nat
  /\ ModerateDistance \in Nat /\ LowDistance \in Nat
  /\ CriticalTtc \in Nat /\ HighTtc \in Nat /\ MinConfidence \in Nat
ASSUME TrajectoryAssumption ==
  /\ VMax \in Nat /\ MaxAccel \in Nat /\ MaxDecel \in Nat /\ MinSampleDt \in Nat \ {0}
  /\ FreshAge \in Nat /\ StaleAge \in Nat /\ MaxSampleAge \in Nat
  /\ FreshAge < StaleAge /\ StaleAge <= MaxSampleAge
  /\ LeastReported \in Nat /\ LeastReported > 5

VARIABLE input

P == INSTANCE Trajectory
D == INSTANCE Detector
S == INSTANCE SpatialQueries

ThreeHorizons == <<1, 2, 4>>

OnGrid(n, m) == [x : 0..n, y : 0..m]

\* The video: a frame is read, or not.
Read(r) == input.alg = "voter" /\ Len(input.data) < MaxReadings
           /\ input' = [input EXCEPT !.data = Append(@, r)]

\* The rows of a query for clusters.
AddPoint(p) == input.alg = "clusters" /\ Len(input.data) < MaxPoints
               /\ input' = [input EXCEPT !.data = Append(@, p)]

\* The road ahead: a leg to the east or the north, that may open a segment.
Legs == [to : {[x |-> 1, y |-> 0], [x |-> 0, y |-> 1]}, len : {1, 4}, opens : BOOLEAN]
        \union [to : {[x |-> 1, y |-> 0]}, len : {0}, opens : {TRUE}]
AddLeg(leg) == input.alg = "road" /\ Len(input.data) < MaxLegs
               /\ input' = [input EXCEPT !.data = Append(@, leg)]

\* A second passes: the speed changes by a, within its bounds.
Drive == /\ input.alg = "motion" /\ Len(input.data) <= MaxSeconds
         /\ input' = [input EXCEPT !.data = Append(@, Clamp(0, Last(@) + input.a, VMax))]

\* A sample of both trajectories.
Sample(p, q) == input.alg = "pair" /\ Len(input.data) < MaxSamples
                /\ input' = [input EXCEPT !.data = Append(@, [a |-> p, b |-> q])]
Places == {[x |-> 0, y |-> 0], [x |-> 1, y |-> 0], [x |-> 3, y |-> 0], [x |-> 0, y |-> 2], [x |-> 3, y |-> 3]}

\* The route ahead, from the vehicle: waypoints; the rows are around it.
Waypoint(p) == input.alg = "route" /\ Len(input.data) < MaxWaypoints
               /\ input' = [input EXCEPT !.data = Append(@, p)]
\* Some rows are far away, about where a box of 891 units ends.
Far == {-890, -889, 890, 892}
Sites == [x : -2..4, y : -2..4] \union [x : Far, y : {0, 1}] \union [x : {0, 1}, y : Far]
               \union [x : {-629, 630}, y : {-628, 630}]
Rows == [at : Sites, shown : BOOLEAN]

\* The telemetry a prediction is made from, and how long ago it was sent.
Origin == [x |-> 0, y |-> 0]
Roads == {[geometry |-> <<Origin, [x |-> n, y |-> 0]>>, matched |-> Origin, along |-> 3,
           upcoming |-> <<>>, reverse |-> FALSE] : n \in {8, 30}}
Telemetry ==
  [road : Roads, quality : {"GOOD", "DEGRADED", "FAILED"}, age : {0},
   direction : {"FORWARD", "REVERSE", "UNKNOWN"}, accuracy : {None, 10, 30, 60},
   speed : {None} \union 0..VMax, heading : {None, 90}, acceleration : {None, -1, 1},
   previous : {None} \union [speed : 0..VMax, dt : {0, 1}]]
Ages == /\ input.alg = "trajectory" /\ input.data.age <= MaxSampleAge
        /\ input' = [input EXCEPT !.data.age = @ + 1]

Empty(alg, a) == [alg |-> alg, a |-> a, data |-> <<>>]
Init == \/ input \in {Empty(alg, 0) : alg \in {"voter", "clusters", "road", "pair", "route"}}
        \/ \E v \in 0..VMax, a \in -1..1 : input = [alg |-> "motion", a |-> a, data |-> <<v>>]
        \/ \E t \in Telemetry : input = [alg |-> "trajectory", a |-> 0, data |-> t]

Next ==
  \/ \E r \in OnGrid(3, 2) \union {Missing} : Read(r)
  \/ \E p \in OnGrid(2, 2) : AddPoint(p)
  \/ \E leg \in Legs : AddLeg(leg)
  \/ Drive
  \/ \E p, q \in Places : Sample(p, q)
  \/ \E p \in OnGrid(2, 2) : Waypoint(p)
  \/ Ages

Spec == Init /\ [][Next]_input
-----------------------------------------------------------------------------
On(alg) == input.alg = alg

\* GpsVoter.update: an interpolated position is near the last fix.
EstimateIsNear == On("voter") => EstimateNear(input.data)

\* GpsVoter.update: a vehicle that is read in every frame is never an outlier.
SteadyReadingsAreKept == On("voter") => SteadyIsKept(input.data)

\* cluster_detections: each row is in one cluster, and each cluster hangs together.
GroupingIsSound == On("clusters") => Sound(input.data)

\* query_nearby, query_along_route: no row outside is found, and every row inside but
\* for those at the very edge.
SearchIsClose ==
  On("route") /\ input.data # <<>> =>
    \A width \in Widths :
      /\ S!InsideIsFound(Rows, input.data, S!WellInside(width), width)
      /\ S!OutsideIsLeft(Rows, input.data, width)

\* predict_trajectory: the points are on the road, as far as it moves and goes.
PointsAreOnTheRoad ==
  On("road") =>
    \A reverse \in BOOLEAN, speed \in 0..VMax + 1, a \in -1..1, age \in 0..1 :
      \A i \in P!Current(input.data) : \A along \in 0..Len(P!Prefix(input.data, i)) - 1 :
        P!PredictedOnTheRoad(input.data, along, reverse, speed, a, age)

\* _kinematics: it is the integral of the motion it stands for.
KinematicsIntegrates == On("motion") => P!MotionIntegrates(input.data, input.a)

\* predict_trajectory: the older the telemetry, the less is claimed of it; a
\* status means what it says, and what stale telemetry cannot cause does not happen.
PredictionAgesWell ==
  On("trajectory") => P!AgesWell(input.data) /\ P!KeepsItsWord(input.data, LeastReported)

\* Trajectories with these samples; one of them may end earlier.
Trajectories(points, n) ==
  {[points |-> SubSeq(points, 1, n), status |-> s, confidence |-> c] :
     s \in {"VALID", "STALE", "UNAVAILABLE"}, c \in {0, 1}}
Pairs ==
  LET a == [i \in DOMAIN input.data |-> input.data[i].a]
      b == [i \in DOMAIN input.data |-> input.data[i].b]
      certain == [points |-> b, status |-> "VALID", confidence |-> 1]
      Swap(pair) == <<pair[2], pair[1]>>
      pairs == {<<t, certain>> : t \in UNION {Trajectories(a, n) : n \in 0..Len(a)}}
  IN  pairs \union {Swap(pair) : pair \in pairs}

\* assess_conflict: the reported approach is the first of the closest.
ClosestIsFound == On("pair") => \A pair \in Pairs : D!FirstClosest(pair[1], pair[2])

\* assess_conflict: who comes close is reported.
CloseMomentsAreReported == On("pair") => \A pair \in Pairs : D!CloseIsReported(pair[1], pair[2])
==============================================================================
