----------------------------- MODULE Prediction -----------------------------
(***************************************************************************)
(* predictor.predict_trajectory: where on its road a vehicle will be.  The *)
(* road is the geometry of its segment, how far along it the vehicle is,   *)
(* and the segments that follow.  Lengths are in half metres, times in     *)
(* seconds; all streets run along an axis, so that every interpolated      *)
(* position is whole, and the acceleration is such that a vehicle stops or *)
(* reaches its limit in a whole number of seconds.                         *)
(***************************************************************************)
EXTENDS Plane, SequencesExt

CONSTANTS
  VMax,      \* TRAJECTORY_MAX_SPEED_MPS_*, metres per second
  Horizons   \* TRAJECTORY_HORIZONS_S

Length(p, q) == Magnitude(p.x - q.x) + Magnitude(p.y - q.y)

\* cumulative_distances_m
Cumulative(coords) ==
  LET cum[i \in DOMAIN coords] ==
        IF i = 1 THEN 0 ELSE cum[i - 1] + Length(coords[i - 1], coords[i])
  IN  cum

\* bisect.bisect_right(cum, target), the number of entries up to the target.
BisectRight(cum, target) == Cardinality({i \in DOMAIN cum : cum[i] <= target})

\* The point where the target lies between two vertices.
Between(p, q, part, whole) ==
  IF whole <= 0 THEN p
  ELSE [x |-> p.x + ((q.x - p.x) * part) \div whole, y |-> p.y + ((q.y - p.y) * part) \div whole]

PointAtDistance(coords, cum, target) ==
  IF Len(coords) = 1 \/ target <= 0 THEN coords[1]
  ELSE IF target >= Last(cum) THEN Last(coords)
  ELSE LET i == Clamp(1, BisectRight(cum, target), Len(coords) - 1)
       IN  Between(coords[i], coords[i + 1], target - cum[i], cum[i + 1] - cum[i])

\* A path: its vertices with their distance from the vehicle and their segment.
Vertex(at, cum, segment) == [at |-> at, cum |-> cum, segment |-> segment]
Ats(path) == [i \in DOMAIN path |-> path[i].at]
Cums(path) == [i \in DOMAIN path |-> path[i].cum]

\* The geometry of the vehicle's segment, or the matched point without one.
CurrentCoords(road) == IF road.geometry = <<>> THEN <<road.matched>> ELSE road.geometry

Vertices(coords, offset, segment) ==
  LET cum == Cumulative(coords)
  IN  [i \in DOMAIN coords |-> Vertex(coords[i], offset + cum[i], segment)]

\* Mutant of SliceFrom: a vertex keeps its distance from the start of the segment.
SliceUnbased(path, from) ==
  <<Vertex(PointAtDistance(Ats(path), Cums(path), from), 0, path[1].segment)>>
    \o SubSeq(path, BisectRight(Cums(path), from) + 1, Len(path))

\* _slice_from: the vertices farther than from are the last ones.
SliceFrom(path, from) ==
  LET passed == BisectRight(Cums(path), from)
  IN  <<Vertex(PointAtDistance(Ats(path), Cums(path), from), 0, path[1].segment)>>
        \o [i \in 1..Len(path) - passed |-> [path[passed + i] EXCEPT !.cum = @ - from]]

\* _build_forward_path: the path with the first i of the upcoming segments.
ForwardPaths(road) ==
  LET path[i \in 0..Len(road.upcoming)] ==
        IF i = 0 THEN SliceFrom(Vertices(CurrentCoords(road), 0, 0), road.along)
        ELSE path[i - 1] \o Vertices(road.upcoming[i], Last(path[i - 1]).cum, i)
  IN  path
BuildForwardPath(road) == ForwardPaths(road)[Len(road.upcoming)]

\* Back to the start of the current segment: its first vertices, reversed.
BuildBackwardPath(road) ==
  LET path == Vertices(CurrentCoords(road), 0, 0)
      behind == Cardinality({i \in DOMAIN path : path[i].cum < road.along})
  IN  <<Vertex(PointAtDistance(Ats(path), Cums(path), road.along), 0, 0)>>
        \o [i \in 1..behind |-> [path[behind + 1 - i] EXCEPT !.cum = road.along - @]]

SegmentIdAt(path, target) ==
  path[Clamp(1, BisectRight(Cums(path), target), Len(path))].segment

\* Mutant of Capped: the limit only holds for the first speed.
CappedAtFirst(v0, a, elapsed) == a > 0 /\ v0 = VMax

\* t_stop and t_cap of _kinematics are over.
Stopped(v0, a, elapsed) == a < 0 /\ elapsed >= v0 \div (-a)
Capped(v0, a, elapsed) == a > 0 /\ elapsed >= (VMax - v0) \div a

\* _kinematics: the distance in half metres and the speed after so many seconds.
Travelled(v, a, t) == 2 * v * t + a * Square(t)
Kinematics(speed, a, elapsed) ==
  LET v0 == Clamp(0, speed, VMax)
      stop == v0 \div (-a)
      cap == (VMax - v0) \div a
      At(distance, v) == [distance |-> distance, speed |-> v]
  IN  IF elapsed <= 0 THEN At(0, v0)
      ELSE IF Stopped(v0, a, elapsed) THEN At(Travelled(v0, a, stop), 0)
      ELSE IF Capped(v0, a, elapsed)
      THEN At(Travelled(v0, a, cap) + 2 * VMax * (elapsed - cap), VMax)
      ELSE At(Travelled(v0, a, elapsed), v0 + a * elapsed)

\* predict_trajectory's loop over the horizons: the points up to the first one
\* that leaves the known road, given how far the vehicle moves up to each.
PathOf(road) == IF road.reverse THEN BuildBackwardPath(road) ELSE BuildForwardPath(road)
Fitting(path, moved) ==
  {i \in DOMAIN Horizons : \A j \in 1..i : moved[j].distance <= Last(path).cum}
PointsAlong(path, moved) ==
  [i \in 1..Cardinality(Fitting(path, moved)) |->
     [t |-> Horizons[i], distance |-> moved[i].distance, speed |-> moved[i].speed,
      at |-> PointAtDistance(Ats(path), Cums(path), moved[i].distance),
      segment |-> SegmentIdAt(path, moved[i].distance)]]

\* For telemetry that is not stale, the motion since its timestamp.
PredictPoints(road, speed, a, age) ==
  PointsAlong(PathOf(road), [i \in DOMAIN Horizons |-> Kinematics(speed, a, age + Horizons[i])])

-----------------------------------------------------------------------------
\* The reference: a road as legs, each with its direction and length, and
\* whether it opens a segment; and the walk along it, a half metre a step.
Ahead(p, to, n) == [x |-> p.x + to.x * n, y |-> p.y + to.y * n]
Onward(walk, leg) == walk \o [n \in 1..leg.len |-> Ahead(Last(walk), leg.to, n)]

\* The walk along the first i legs.
Walks(legs) ==
  LET walk[i \in 0..Len(legs)] ==
        IF i = 0 THEN <<[x |-> 0, y |-> 0]>> ELSE Onward(walk[i - 1], legs[i])
  IN  walk
Prefix(legs, i) == Walks(legs)[i]
Walk(legs) == Prefix(legs, Len(legs))

\* The segment of leg i, the legs up to the end of a segment, and its vertices.
Opened(legs, i) == Cardinality({k \in 1..i : legs[k].opens})
UpToEnd(legs, segment) == Cardinality({k \in DOMAIN legs : Opened(legs, k) <= segment})
Geometry(legs, segment) ==
  LET before == UpToEnd(legs, segment - 1)
      through == UpToEnd(legs, segment)
  IN  IF before = through THEN <<>>
      ELSE [k \in 1..through - before + 1 |-> Last(Prefix(legs, before + k - 1))]
Road(legs, along, reverse) ==
  [geometry |-> Geometry(legs, 0), matched |-> [x |-> 0, y |-> 0], along |-> along,
   upcoming |-> [s \in 1..Opened(legs, Len(legs)) |-> Geometry(legs, s)], reverse |-> reverse]
Current(legs) == {i \in 0..Len(legs) : Opened(legs, i) = 0}
SegmentAhead(legs, d) ==
  Cardinality({i \in DOMAIN legs : legs[i].opens /\ Len(Prefix(legs, i - 1)) - 1 <= d})

\* Every predicted point lies on the road as far from the vehicle as it moves,
\* on the segment it is said to be on, and there is one for each horizon the
\* known road is long enough for ("never by interpolating raw lat/lon").
PredictedOnTheRoad(legs, along, reverse, speed, a, age) ==
  LET walk == Walk(legs)
      points == PredictPoints(Road(legs, along, reverse), speed, a, age)
      room == IF reverse THEN along ELSE Len(walk) - 1 - along
      At(d) == IF reverse THEN along - d ELSE along + d
  IN  /\ {p.t : p \in ToSet(points)} =
           {t \in ToSet(Horizons) : Kinematics(speed, a, age + t).distance <= room}
      /\ \A p \in ToSet(points) :
           /\ p.at = walk[At(p.distance) + 1]
           /\ p.segment = IF reverse THEN 0 ELSE SegmentAhead(legs, At(p.distance))

\* How far a vehicle with these speeds at whole seconds comes, in half metres.
DistanceOf(speeds) ==
  LET distance[n \in 0..Len(speeds) - 1] ==
        IF n = 0 THEN 0 ELSE distance[n - 1] + speeds[n] + speeds[n + 1]
  IN  distance

\* _kinematics gives the distance and the speed of a vehicle whose speed
\* changes by a each second, and never leaves 0..VMax; speeds is its motion.
MotionIntegrates(speeds, a) ==
  LET seconds == Len(speeds) - 1
  IN  Kinematics(speeds[1], a, seconds) =
        [distance |-> DistanceOf(speeds)[seconds], speed |-> Last(speeds)]
=============================================================================
