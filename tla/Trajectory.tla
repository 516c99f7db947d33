----------------------------- MODULE Trajectory -----------------------------
(***************************************************************************)
(* predictor.predict_trajectory as a whole: the acceleration it assumes,   *)
(* what it says of telemetry that gets old, and how sure it is.  A         *)
(* confidence is a product of factors, here of whole numbers: Certain is   *)
(* 1.0.  Ages are in seconds, and a step of the age bands is whole.        *)
(***************************************************************************)
EXTENDS Prediction

CONSTANTS
  FreshAge, StaleAge,         \* TRAJECTORY_FRESH_TELEMETRY_S, TRAJECTORY_STALE_TELEMETRY_S
  MaxSampleAge,         \* TRAJECTORY_ACCEL_SAMPLE_MAX_AGE_S
  MinSampleDt,          \* TRAJECTORY_ACCEL_SAMPLE_MIN_DT_S
  MaxAccel, MaxDecel,   \* TRAJECTORY_MAX_ACCEL_MPS2, TRAJECTORY_MAX_DECEL_MPS2
  None                  \* what a device does not report

\* Mutant of ResolveAcceleration: a derived one is for fresh telemetry only.
ResolveFreshAcceleration(t) ==
  CASE t.acceleration # None ->
         [a |-> Clamp(-MaxDecel, t.acceleration, MaxAccel), source |-> "DEVICE"]
    [] /\ t.acceleration = None /\ t.previous # None /\ t.speed # None
       /\ t.previous.dt >= MinSampleDt /\ t.age <= FreshAge ->
         [a |-> Clamp(-MaxDecel, (t.speed - t.previous.speed) \div t.previous.dt, MaxAccel),
          source |-> "DERIVED"]
    [] OTHER -> [a |-> 0, source |-> "ASSUMED_ZERO"]

\* _resolve_acceleration, from the telemetry or the speed sample before it.
Derivable(t) ==
  /\ t.previous # None /\ t.speed # None
  /\ t.previous.dt >= MinSampleDt /\ t.age <= MaxSampleAge

ResolveAcceleration(t) ==
  LET Resolved(a, source) == [a |-> Clamp(-MaxDecel, a, MaxAccel), source |-> source]
  IN  IF t.acceleration # None THEN Resolved(t.acceleration, "DEVICE")
      ELSE IF Derivable(t)
      THEN Resolved((t.speed - t.previous.speed) \div t.previous.dt, "DERIVED")
      ELSE Resolved(0, "ASSUMED_ZERO")

Larger(m, n) == IF m > n THEN m ELSE n

\* The factors of _confidence, of 60, 20, and so on.
AgeFactor(age) ==
  IF age <= FreshAge THEN 60
  ELSE IF age > StaleAge THEN 3
  ELSE Larger(12, 60 - (48 * (age - FreshAge)) \div (StaleAge - FreshAge))
AccuracyFactor(accuracy) ==
  IF accuracy = None THEN 17
  ELSE IF accuracy <= 10 THEN 20
  ELSE IF accuracy > 50 THEN 6
  ELSE Larger(10, 20 - (accuracy - 10) \div 4)
QualityFactor == [GOOD |-> 5, DEGRADED |-> 3]
SourceFactor == [DEVICE |-> 25, DERIVED |-> 23, ASSUMED_ZERO |-> 22]
Given(field, given, without) == IF field # None THEN given ELSE without

Certain == 60 * 20 * 5 * 25 * 10 * 20 * 5 * 4
Confidence(t, source, truncated) ==
  AgeFactor(t.age) * AccuracyFactor(t.accuracy) * QualityFactor[t.quality] * SourceFactor[source]
    * Given(t.speed, 10, 7) * Given(t.heading, 20, 17)
    * (IF t.direction = "UNKNOWN" THEN 4 ELSE 5) * (IF truncated THEN 3 ELSE 4)

\* A hundredth of Certain.
Percent == Certain \div 100
ConfidenceLevel(score) ==
  IF score >= 70 * Percent THEN "HIGH" ELSE IF score >= 40 * Percent THEN "MEDIUM" ELSE "LOW"

\* predict_trajectory for telemetry t on a road.
Usable(t) == t.quality \in {"GOOD", "DEGRADED"}
IsStale(t) == t.age > StaleAge

Points(t, a) ==
  LET road == [t.road EXCEPT !.reverse = t.direction = "REVERSE"]
      frozen == [i \in DOMAIN Horizons |-> [distance |-> 0, speed |-> 0]]
  IN  IF IsStale(t) THEN PointsAlong(PathOf(road), frozen)
      ELSE PredictPoints(road, IF t.speed = None THEN 0 ELSE t.speed, a, t.age)

StatusOf(t, truncated, confidence) ==
  IF IsStale(t) THEN "STALE"
  ELSE IF t.quality = "DEGRADED" \/ t.age > FreshAge \/ truncated \/ confidence < 50 * Percent
  THEN "DEGRADED" ELSE "VALID"

PredictTrajectory(t) ==
  LET assumed == ResolveAcceleration(t)
      points == Points(t, assumed.a)
      truncated == Len(points) < Len(Horizons)
      confidence == Confidence(t, assumed.source, truncated)
  IN  IF ~Usable(t)
      THEN [status |-> "UNAVAILABLE", confidence |-> 0, level |-> "LOW", points |-> <<>>]
      ELSE [status |-> StatusOf(t, truncated, confidence), confidence |-> confidence,
            level |-> ConfidenceLevel(confidence), points |-> points]
-----------------------------------------------------------------------------
Rank == [UNAVAILABLE |-> 0, STALE |-> 1, DEGRADED |-> 2, VALID |-> 3]

\* The same telemetry a second later never gives a surer prediction or a better
\* status: not when the vehicle stops reaching the end of the known road, nor
\* when an acceleration is not assumed any more ("falling confidence").
AgesWell(t) ==
  LET now == PredictTrajectory(t)
      later == PredictTrajectory([t EXCEPT !.age = @ + 1])
  IN  later.confidence <= now.confidence /\ Rank[later.status] <= Rank[now.status]

\* models.py:17-20.  A valid trajectory is fresh, matched and goes up to the last
\* horizon; and from telemetry too old to extrapolate, the detector, which takes
\* stale trajectories, never reports a conflict: LeastReported percent.
KeepsItsWord(t, LeastReported) ==
  LET trajectory == PredictTrajectory(t)
  IN  /\ trajectory.status = "VALID" =>
           /\ t.age <= FreshAge /\ t.quality = "GOOD" /\ trajectory.level # "LOW"
           /\ {p.t : p \in ToSet(trajectory.points)} = ToSet(Horizons)
      /\ trajectory.status = "STALE" =>
           /\ Cardinality({p.at : p \in ToSet(trajectory.points)}) = 1
           /\ trajectory.confidence < LeastReported * Percent
      /\ trajectory.status = "UNAVAILABLE" <=> ~Usable(t)
=============================================================================
