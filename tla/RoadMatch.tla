------------------------------ MODULE RoadMatch ------------------------------
(***************************************************************************)
(* map_matching.match_vehicle_to_road: what becomes of the telemetry of a  *)
(* vehicle, given the road state computed for it before and whatever OSRM  *)
(* answers.  Positions lie on a line; time is the age of a telemetry in    *)
(* ticks.  A road is known by the position it was matched at.              *)
(***************************************************************************)
EXTENDS Integers

CONSTANTS
  Positions,      \* of vehicles, on a line
  MatchDistance,  \* settings.OSRM_MATCH_MIN_DISTANCE_M
  TraceDistance,  \* settings.OSRM_MATCH_MIN_TRACE_DISTANCE_M
  MatchInterval,  \* settings.OSRM_MATCH_MIN_INTERVAL_S
  StaleMatch,     \* settings.OSRM_STALE_TELEMETRY_S
  AgeCap,         \* ages are counted up to here
  ReuseCap        \* and reuses up to here

ASSUME MatchAssumption ==
  /\ Positions \subseteq Nat
  /\ MatchDistance \in Nat /\ TraceDistance \in Nat
  /\ MatchInterval \in Nat /\ StaleMatch \in Nat
  /\ AgeCap \in Nat /\ AgeCap > StaleMatch + StaleMatch + MatchInterval
  /\ ReuseCap \in Nat

Ages == 0..AgeCap
Older(age) == IF age < AgeCap THEN age + 1 ELSE age

\* A TelemetrySnapshot: where, and how long ago by the clock of the device.
Telemetry == [pos : Positions, age : Ages]
NoTelemetry == [pos |-> -1, age |-> 0]

Qualities == {"GOOD", "DEGRADED", "FAILED", "UNAVAILABLE", "STALE"}
Usable == {"GOOD", "DEGRADED"}

\* A RoadAwareVehicleState.  road is the position its road context was matched
\* at; reused counts how often the context was taken over since, and is kept
\* for a property.
NoRoad == -1
RoadStates == [at : Telemetry, quality : Qualities, road : Positions \union {NoRoad},
               reused : 0..ReuseCap]
NoState == [at |-> NoTelemetry, quality |-> "absent", road |-> NoRoad, reused |-> 0]

Distance(p, q) == IF p <= q THEN q - p ELSE p - q

\* Seconds between the telemetry of a state and a later one.
Elapsed(previous, t) == previous.at.age - t.age

\* Mutant of ShouldReuseCache: the distance is not looked at.
ShouldReuseAnywhere(t, previous) ==
  /\ previous.road # NoRoad
  /\ previous.quality \in Usable
  /\ Elapsed(previous, t) \in 0..MatchInterval

\* _should_reuse_cache
ShouldReuseCache(t, previous) ==
  /\ previous.road # NoRoad
  /\ previous.quality \in Usable
  /\ Elapsed(previous, t) \in 0..MatchInterval
  /\ Distance(t.pos, previous.at.pos) <= MatchDistance

\* The previous point is worth a trace for /match.
HasTrace(t, previous) ==
  /\ previous # NoState
  /\ Elapsed(previous, t) \in 1..StaleMatch
  /\ Distance(t.pos, previous.at.pos) > TraceDistance

\* Confidence bands of OSRM: at least GOOD_THRESHOLD, at least
\* DEGRADED_THRESHOLD, less, or none given.
Confidences == {"good", "degraded", "low", "none"}

\* _classify_quality; near: within twice the default radius of the road.
ClassifyQuality(confidence, near) ==
  IF confidence = "good" /\ near THEN "GOOD"
  ELSE IF confidence \in {"good", "degraded"} THEN "DEGRADED"
  ELSE "FAILED"

\* The qualities OSRM's answers may give: /match where there is a trace, and
\* /nearest, with its fixed confidence, where there is none or it found nothing.
Snapped(t, previous) ==
  {ClassifyQuality(c, near) : near \in BOOLEAN,
     c \in {"degraded"} \union (IF HasTrace(t, previous) THEN Confidences ELSE {})}

\* _build_road_context may find the route window unusable, or the request for
\* it fails: the match is kept, and is not GOOD any more.
WithRoute(quality, usable) ==
  IF ~usable /\ quality = "GOOD" THEN "DEGRADED" ELSE quality

Unmatched(t, quality) == [at |-> t, quality |-> quality, road |-> NoRoad, reused |-> 0]
Matched(t, quality) == [at |-> t, quality |-> quality, road |-> t.pos, reused |-> 0]
Reused(t, previous) ==
  [at |-> t, quality |-> previous.quality, road |-> previous.road,
   reused |-> IF previous.reused < ReuseCap THEN previous.reused + 1 ELSE ReuseCap]

\* A fresh match: OSRM is unavailable, knows no road nearby, or gives one.
FreshMatches(t, previous) ==
  {Unmatched(t, q) : q \in {"UNAVAILABLE", "FAILED"}}
  \union {Matched(t, WithRoute(q, usable)) :
            q \in Snapped(t, previous) \intersect Usable, usable \in BOOLEAN}

AsksOSRM(t, previous) == t.age <= StaleMatch /\ ~ShouldReuseCache(t, previous)

\* match_vehicle_to_road: the states it may return.
Matches(t, previous) ==
  IF AsksOSRM(t, previous) THEN FreshMatches(t, previous)
  ELSE IF t.age > StaleMatch THEN {Unmatched(t, "STALE")}
  ELSE {Reused(t, previous)}
==============================================================================
