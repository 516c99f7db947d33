------------------------------ MODULE Detector ------------------------------
(***************************************************************************)
(* collision.detector.assess_conflict: how close two predicted             *)
(* trajectories come, when, and how bad that is.  A trajectory gives the   *)
(* positions at the first of the horizons; from one to the next a vehicle  *)
(* moves straight on.  A moment [sq, s, ttc] stands for the distance       *)
(* sqrt(sq) / s after ttc / s seconds, so that all numbers are whole.      *)
(***************************************************************************)
EXTENDS Plane, SequencesExt

CONSTANTS
  Horizons,                                             \* TRAJECTORY_HORIZONS_S
  CriticalDistance, HighDistance, ModerateDistance, LowDistance,  \* COLLISION_*_DISTANCE_M
  CriticalTtc, HighTtc,                                 \* COLLISION_*_TTC_S
  MinConfidence                                         \* COLLISION_MIN_CONFIDENCE_TO_REPORT

Statuses == {"VALID", "DEGRADED", "STALE", "UNAVAILABLE"}
Risks == <<"NONE", "LOW", "MODERATE", "HIGH", "CRITICAL">>

\* The moment a part p/s of the way through an interval, where the vehicles are
\* rel apart at first, and move by d against each other.
MomentAt(rel, d, p, s, from, to) ==
  LET apart == [x |-> rel.x * s + p * d.x, y |-> rel.y * s + p * d.y]
  IN  [sq |-> Dot(apart, apart), s |-> s, ttc |-> from * s + (to - from) * p]

\* Mutant of CpaInInterval: the interval is taken to begin at its closest moment.
CpaAtStart(a1, a2, b1, b2, from, to) ==
  MomentAt(Minus(a1, b1), Minus(a2, b2), 0, 1, from, to)

\* _cpa_in_interval
CpaInInterval(a1, a2, b1, b2, from, to) ==
  LET rel == Minus(a1, b1)
      d == Minus(Minus(a2, b2), rel)
      s == Dot(d, d)
  IN  IF s = 0 THEN MomentAt(rel, d, 0, 1, from, to)
      ELSE MomentAt(rel, d, Clamp(0, -Dot(rel, d), s), s, from, to)

Closer(m, n) == m.sq * Square(n.s) < n.sq * Square(m.s)

\* How many horizons both have a point for: those are the first ones.
Shared(a, b) == IF Len(a.points) <= Len(b.points) THEN Len(a.points) ELSE Len(b.points)

\* The closest moment of each interval both trajectories share, or the only
\* moment they share.
Moments(a, b) ==
  IF Shared(a, b) = 1
  THEN <<[sq |-> Distance2(a.points[1], b.points[1]), s |-> 1, ttc |-> Horizons[1]]>>
  ELSE [i \in 1..Shared(a, b) - 1 |->
          CpaInInterval(a.points[i], a.points[i + 1], b.points[i], b.points[i + 1],
                        Horizons[i], Horizons[i + 1])]

Nearer(best, m) == IF Closer(m, best) THEN m ELSE best

\* The closest of the first n moments, the first one of them.
Closest(moments) ==
  LET closest[n \in 0..Len(moments)] ==
        IF n = 0 THEN moments[1] ELSE Nearer(closest[n - 1], moments[n])
  IN  closest
Best(moments) == Closest(moments)[Len(moments)]

Within(m, distance) == m.sq <= Square(distance * m.s)
Before(m, ttc) == m.ttc <= ttc * m.s

\* Mutant of Classify: a later conflict is never more than LOW.
ClassifyByTime(m) ==
  IF Within(m, CriticalDistance) /\ Before(m, CriticalTtc) THEN "CRITICAL"
  ELSE IF Within(m, HighDistance) /\ Before(m, HighTtc) THEN "HIGH"
  ELSE IF Within(m, ModerateDistance) /\ Before(m, HighTtc) THEN "MODERATE"
  ELSE IF Within(m, LowDistance) THEN "LOW" ELSE "NONE"

\* _classify
Classify(m) ==
  IF Within(m, CriticalDistance) /\ Before(m, CriticalTtc) THEN "CRITICAL"
  ELSE IF Within(m, HighDistance) /\ Before(m, HighTtc) THEN "HIGH"
  ELSE IF Within(m, ModerateDistance) THEN "MODERATE"
  ELSE IF Within(m, LowDistance) THEN "LOW" ELSE "NONE"

Unavailable == [risk |-> "NONE", status |-> "UNAVAILABLE", confidence |-> 0,
                at |-> [sq |-> 0, s |-> 1, ttc |-> 0]]

Unusable(t) == t.points = <<>> \/ t.status = "UNAVAILABLE"
Degrading(t) == t.status \in {"DEGRADED", "STALE"}

AssessConflict(a, b) ==
  LET m == Best(Moments(a, b))
      confidence == IF a.confidence <= b.confidence THEN a.confidence ELSE b.confidence
  IN  IF Unusable(a) \/ Unusable(b) THEN Unavailable
      ELSE IF Classify(m) # "NONE" /\ confidence < MinConfidence THEN Unavailable
      ELSE [risk |-> Classify(m), confidence |-> confidence, at |-> m,
            status |-> IF Degrading(a) \/ Degrading(b) THEN "DEGRADED" ELSE "ACTIVE"]
-----------------------------------------------------------------------------
\* The reference: the moments at every quarter of the time both trajectories
\* share, found by where the vehicles are then.
Quarters(a, b) ==
  {MomentAt(Minus(a.points[1], b.points[1]), [x |-> 0, y |-> 0], 0, 1, Horizons[1], Horizons[1])}
  \union
  {LET rel == Minus(a.points[i], b.points[i])
       later == Minus(a.points[i + 1], b.points[i + 1])
   IN  MomentAt(rel, Minus(later, rel), q, 4, Horizons[i], Horizons[i + 1]) :
     q \in 0..4, i \in 1..Shared(a, b) - 1}

\* Where the vehicles are at a moment, the distance is the one it claims.
Attained(a, b, m) ==
  \E i \in 1..Shared(a, b) :
    LET rel == Minus(a.points[i], b.points[i])
        next == IF i < Shared(a, b) THEN i + 1 ELSE i
        d == Minus(Minus(a.points[next], b.points[next]), rel)
        dt == IF next = i THEN 1 ELSE Horizons[next] - Horizons[i]
        p == m.ttc - Horizons[i] * m.s
    IN  p \in 0..(dt * m.s) /\ MomentAt(rel, d, p, dt * m.s, 0, 0).sq = m.sq * Square(dt)

\* The reported moment is the first of the closest ones, also where the vehicles
\* come closest between two samples ("could have their true closest moment
\* missed entirely"), and they are that far apart then.
FirstClosest(a, b) ==
  LET m == AssessConflict(a, b).at
  IN  AssessConflict(a, b).status # "UNAVAILABLE" =>
        /\ Attained(a, b, m)
        /\ \A n \in Quarters(a, b) :
             ~Closer(n, m) /\ (n.ttc * m.s < m.ttc * n.s => Closer(m, n))

AtLeast(risk, least) ==
  \E i, j \in DOMAIN Risks : i <= j /\ Risks[i] = least /\ Risks[j] = risk

\* Vehicles that come within the MODERATE or LOW distance at any moment of
\* their trajectories are reported so at least, unless a trajectory is unusable
\* or too uncertain; and what rests on a degraded one is DEGRADED.  No time is short
\* enough for HIGH beyond the HIGH distance, against core/config.py:155-156.
CloseIsReported(a, b) ==
  LET conflict == AssessConflict(a, b)
      sure == a.confidence >= MinConfidence /\ b.confidence >= MinConfidence
  IN  ~Unusable(a) /\ ~Unusable(b) /\ sure =>
        /\ conflict.status = IF Degrading(a) \/ Degrading(b) THEN "DEGRADED" ELSE "ACTIVE"
        /\ \A m \in Quarters(a, b) :
             /\ Within(m, ModerateDistance) => AtLeast(conflict.risk, "MODERATE")
             /\ Within(m, LowDistance) => AtLeast(conflict.risk, "LOW")
=============================================================================
