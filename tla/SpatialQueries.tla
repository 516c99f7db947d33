--------------------------- MODULE SpatialQueries ---------------------------
(***************************************************************************)
(* The circle and corridor queries over detections (spatial.py) and over   *)
(* signalements (signalement_service.py): a bounding box in the database,  *)
(* then the exact distance.  A row is its position and whether it is to be *)
(* shown: a validated detection, an active signalement.                    *)
(***************************************************************************)
EXTENDS Plane, SequencesExt

\* Metres a degree of latitude: for the boxes, and on the sphere of haversine_m.
BoxDegree == 111320
SphereDegree == 111195

\* Mutant of Reaches: a box around the waypoints alone.
ReachesUnpadded(m, n, pad) == m >= n

\* In one coordinate: m and the padding are not below n.
Reaches(m, n, pad) == (n - m) * BoxDegree <= pad * SphereDegree

\* BETWEEN, in one coordinate: not below the least of the corners by more than the
\* padding, nor above the greatest; so not below, nor above, one of them.
Beside(n, corners, pad) ==
  /\ \E c \in corners : Reaches(n, c, pad)
  /\ \E c \in corners : Reaches(c, n, pad)

InBox(p, corners, pad) ==
  Beside(p.x, {c.x : c \in corners}, pad) /\ Beside(p.y, {c.y : c \in corners}, pad)

Within(p, q, radius) == Distance2(p, q) <= Square(radius)

\* query_nearby and query_signalements_nearby
QueryNearby(rows, center, radius) ==
  {r \in rows : r.shown /\ InBox(r.at, {center}, radius) /\ Within(r.at, center, radius)}

\* _point_to_segment_m(p, a, b) <= width: the projection is t = Dot(to, along) of
\* Dot(along, along), and clamped to [0, 1].
NearSegment(p, a, b, width) ==
  LET along == Minus(b, a)
      to == Minus(p, a)
  IN  IF Dot(along, along) = 0 \/ Dot(to, along) <= 0 THEN Within(p, a, width)
      ELSE IF Dot(to, along) >= Dot(along, along) THEN Within(p, b, width)
      ELSE Square(along.x * to.y - along.y * to.x) <= Square(width) * Dot(along, along)

\* query_along_route; query_signalements_along_route looks at no status.
Corridor(rows, waypoints, width) ==
  IF Len(waypoints) < 2 THEN {}
  ELSE {r \in rows :
          /\ InBox(r.at, ToSet(waypoints), width)
          /\ \E i \in 1..Len(waypoints) - 1 : NearSegment(r.at, waypoints[i], waypoints[i + 1], width)}
QueryAlongRoute(rows, waypoints, width) == Corridor({r \in rows : r.shown}, waypoints, width)
QuerySignalementsAlongRoute(rows, waypoints, width) == Corridor(rows, waypoints, width)
-----------------------------------------------------------------------------
\* The reference: some point of the route closer than the bound.  The closest
\* point of a segment is a whole number of steps along it, of as many as its
\* length squared, so that it is one of these.
Times(n, p) == [x |-> n * p.x, y |-> n * p.y]
Steps(a, b) == IF a = b THEN 1 ELSE Distance2(a, b)
OnSegment(a, b, k) ==
  [x |-> (Steps(a, b) - k) * a.x + k * b.x, y |-> (Steps(a, b) - k) * a.y + k * b.y]
\* How far p is, squared and times the square of Steps, from the point after k steps.
Apart(p, a, b, k) == Distance2(Times(Steps(a, b), p), OnSegment(a, b, k))
Inside(p, waypoints, width) ==
  \E i \in 1..Len(waypoints) - 1 : \E k \in 0..Steps(waypoints[i], waypoints[i + 1]) :
    Apart(p, waypoints[i], waypoints[i + 1], k) < Square(Steps(waypoints[i], waypoints[i + 1]) * width)
Outside(p, waypoints, width) ==
  \A i \in 1..Len(waypoints) - 1 : \A k \in 0..Steps(waypoints[i], waypoints[i + 1]) :
    Apart(p, waypoints[i], waypoints[i + 1], k) > Square(Steps(waypoints[i], waypoints[i + 1]) * width)

\* Whoever is to be shown and inside the inner circle or corridor is found by the
\* query for the outer one.
InsideIsFound(rows, waypoints, inner, width) ==
  LET circle == <<waypoints[1], waypoints[1]>>
      signalements == QuerySignalementsAlongRoute(rows, waypoints, width)
  IN  \A r \in {r \in rows : r.shown} :
        /\ Inside(r.at, circle, inner) => r \in QueryNearby(rows, waypoints[1], width)
        /\ Inside(r.at, waypoints, inner) =>
             r \in QueryAlongRoute(rows, waypoints, width) \intersect signalements

\* The degrees of the box are a part in 890 too short.
WellInside(width) == (889 * width) \div 890

\* No query answers with a row that is outside, also where a street ends or is
\* only the same waypoint twice, and one over detections only with validated ones
\* ("to eliminate false positives from the rectangular box", detections.py:99).  The
\* one over signalements does answer with withdrawn ones, against
\* spatial_signalement.py:4, "Only 'actif' signalements are returned".
OutsideIsLeft(rows, waypoints, width) ==
  LET near == QueryNearby(rows, waypoints[1], width)
      along == QueryAlongRoute(rows, waypoints, width)
      signalements == QuerySignalementsAlongRoute(rows, waypoints, width)
  IN  /\ \A r \in near : r.shown /\ ~Outside(r.at, <<waypoints[1], waypoints[1]>>, width)
      /\ \A r \in along : r.shown
      /\ \A r \in along \union signalements : ~Outside(r.at, waypoints, width)
=============================================================================
