----------------------------- MODULE RoadStates -----------------------------
(***************************************************************************)
(* The background task of a ping, routes/vehicles._update_pipeline, up to  *)
(* the predicted trajectory (road_state_service, trajectory_service), and  *)
(* the requests that read or recompute the same keys.                      *)
(*                                                                         *)
(* Every Redis command, OSRM round trip and database write is an await:    *)
(* tasks interleave between any two, several of one vehicle included, as   *)
(* a ping starts one however long the one before takes.  Keys expire; time *)
(* passes in ticks, any number of them between two steps.                  *)
(***************************************************************************)
EXTENDS RoadMatch

CONSTANTS
  Vehicles,
  Tasks,              \* the background tasks and requests that may run at once
  RoadTtl,            \* settings.ROAD_STATE_TTL_S
  TrajectoryTtl,      \* settings.TRAJECTORY_TTL_S
  FreshTelemetry,     \* settings.TRAJECTORY_FRESH_TELEMETRY_S
  StaleTelemetry,     \* settings.TRAJECTORY_STALE_TELEMETRY_S
  RoadDbThrottle,     \* settings.ROAD_STATE_DB_THROTTLE_S
  MaxPings,           \* pings in a behaviour
  Delays              \* how old the telemetry of a ping may be on arrival

ASSUME RoadAssumption ==
  /\ RoadTtl \in Nat \ {0} /\ TrajectoryTtl \in Nat \ {0} /\ RoadDbThrottle \in Nat \ {0}
  /\ FreshTelemetry \in Nat /\ StaleTelemetry \in Nat
  /\ FreshTelemetry <= StaleTelemetry
  /\ AgeCap > StaleTelemetry + TrajectoryTtl
  /\ Delays \subseteq Ages
  /\ MaxPings \in Nat

VARIABLES
  live,            \* the telemetry of vehicle:live:{v}, NoTelemetry if it is gone
  road,            \* road_state:{v}, NoState if there is none
  roadTtl,         \* ticks left to it
  trajectory,      \* trajectory:{v}, NoTrajectory if there is none
  trajectoryTtl,   \* ticks left to it
  summaryTtl,      \* ticks left to road_state:db_throttle:{v}, 0: it is absent
  summary,         \* table vehicle_road_states: the rows
  task,            \* what each task is doing
  pings            \* pings so far

vars == <<live, road, roadTtl, trajectory, trajectoryTtl, summaryTtl, summary, task, pings>>
roadKeys == <<road, roadTtl>>
trajectoryKeys == <<trajectory, trajectoryTtl>>
summaryKeys == <<summaryTtl, summary>>

\* A Trajectory: the age of its telemetry and its TrajectoryStatus.  waited, for
\* a property, is the time its store in Redis took.
Statuses == {"VALID", "DEGRADED", "STALE", "UNAVAILABLE"}
Trajectories == [age : Ages, waited : Ages, status : Statuses]
NoTrajectory == [age |-> 0, waited |-> 0, status |-> "absent"]
InMotion(t) == t.status \in {"VALID", "DEGRADED"}

\* A running task: its vehicle, whether it was asked to bypass the caches, the
\* telemetry it has read, or the state or trajectory it has computed.
Steps == {"load_trajectory", "load_road", "get_live"}
StateSteps == {"match", "store", "persist", "predict"}
Work == [pc : Steps, v : Vehicles, force : BOOLEAN] \union
        [pc : {"load_cached"}, v : Vehicles, force : BOOLEAN, at : Telemetry] \union
        [pc : StateSteps, v : Vehicles, state : RoadStates] \union
        [pc : {"cache"}, v : Vehicles, made : Trajectories]
Idle == [pc |-> "idle"]

TypeOK ==
  /\ live \in [Vehicles -> Telemetry \union {NoTelemetry}]
  /\ road \in [Vehicles -> RoadStates \union {NoState}]
  /\ roadTtl \in [Vehicles -> 0..RoadTtl]
  /\ trajectory \in [Vehicles -> Trajectories \union {NoTrajectory}]
  /\ trajectoryTtl \in [Vehicles -> 0..TrajectoryTtl]
  /\ summaryTtl \in [Vehicles -> 0..RoadDbThrottle]
  /\ summary \in SUBSET Vehicles
  /\ task \in [Tasks -> Work \union {Idle}]
  /\ pings \in 0..MaxPings

Step(k, w) == task' = [task EXCEPT ![k] = w]
GoTo(k, pc) == Step(k, [task[k] EXCEPT !.pc = pc])
WithState(k, pc, s) == Step(k, [pc |-> pc, v |-> task[k].v, state |-> s])

-----------------------------------------------------------------------------
\* A ping has stored its telemetry (record_ping, see LiveVehicles) and its
\* background task starts.  A ping may come late, and two in the wrong order.
Ping(k, v) ==
  /\ task[k] = Idle
  /\ pings < MaxPings
  /\ pings' = pings + 1
  /\ \E p \in Positions, d \in Delays :
       live' = [live EXCEPT ![v] = [pos |-> p, age |-> d]]
  /\ Step(k, [pc |-> "get_live", v |-> v, force |-> FALSE])
  /\ UNCHANGED <<roadKeys, trajectoryKeys, summaryKeys>>

\* VEHICLE_LIVE_TTL_S is over.
Disappear(v) ==
  /\ live[v] # NoTelemetry
  /\ live' = [live EXCEPT ![v] = NoTelemetry]
  /\ UNCHANGED <<roadKeys, trajectoryKeys, summaryKeys, task, pings>>

\* get_trajectory, for an API client or for the collision check of a vehicle
\* nearby.  With force nothing cached is read.
GetTrajectory(k, v) ==
  /\ task[k] = Idle
  /\ \E force \in BOOLEAN :
       Step(k, [pc |-> IF force THEN "get_live" ELSE "load_trajectory",
                v |-> v, force |-> force])
  /\ UNCHANGED <<live, roadKeys, trajectoryKeys, summaryKeys, pings>>

LoadTrajectory(k) ==
  /\ task[k].pc = "load_trajectory"
  /\ IF trajectory[task[k].v] # NoTrajectory THEN Step(k, Idle) ELSE GoTo(k, "load_road")
  /\ UNCHANGED <<live, roadKeys, trajectoryKeys, summaryKeys, pings>>

\* get_road_state: the cached state, whether or not the vehicle is live.
LoadRoad(k) ==
  /\ task[k].pc = "load_road"
  /\ LET s == road[task[k].v] IN
       IF s # NoState THEN WithState(k, "predict", s) ELSE GoTo(k, "get_live")
  /\ UNCHANGED <<live, roadKeys, trajectoryKeys, summaryKeys, pings>>

-----------------------------------------------------------------------------
\* road_state_service.compute_and_store.  NoTelemetryError ends the task.
GetLive(k) ==
  /\ task[k].pc = "get_live"
  /\ LET v == task[k].v IN
       Step(k, IF live[v] = NoTelemetry THEN Idle
               ELSE [pc |-> "load_cached", v |-> v, force |-> task[k].force, at |-> live[v]])
  /\ UNCHANGED <<live, roadKeys, trajectoryKeys, summaryKeys, pings>>

\* The cached state, and what match_vehicle_to_road makes of it.  What OSRM is
\* going to answer is chosen here; only a fresh match waits.
LoadCached(k) ==
  /\ task[k].pc = "load_cached"
  /\ LET t == task[k].at
         previous == IF task[k].force THEN NoState ELSE road[task[k].v] IN
       \E s \in Matches(t, previous) :
         WithState(k, IF AsksOSRM(t, previous) THEN "match" ELSE "store", s)
  /\ UNCHANGED <<live, roadKeys, trajectoryKeys, summaryKeys, pings>>

AwaitMatch(k) ==
  /\ task[k].pc = "match"
  /\ GoTo(k, "store")
  /\ UNCHANGED <<live, roadKeys, trajectoryKeys, summaryKeys, pings>>

\* _store_cached
StoreRoad(k) ==
  /\ task[k].pc = "store"
  /\ road' = [road EXCEPT ![task[k].v] = task[k].state]
  /\ roadTtl' = [roadTtl EXCEPT ![task[k].v] = RoadTtl]
  /\ GoTo(k, "persist")
  /\ UNCHANGED <<live, trajectoryKeys, summaryKeys, pings>>

\* _persist_summary: the row, if none was written lately.  Nothing reads the row
\* before it is committed, so that the throttle and the commit are one step.
PersistSummary(k) ==
  /\ task[k].pc = "persist"
  /\ LET v == task[k].v IN
       IF summaryTtl[v] = 0
         THEN /\ summaryTtl' = [summaryTtl EXCEPT ![v] = RoadDbThrottle]
              /\ summary' = summary \union {v}
         ELSE UNCHANGED summaryKeys
  /\ GoTo(k, "predict")
  /\ UNCHANGED <<live, roadKeys, trajectoryKeys, pings>>

-----------------------------------------------------------------------------
\* Mutant of Predictions: whether telemetry is stale was decided by the match.
PredictionsOfAnyAge(s) ==
  IF s.road = NoRoad \/ s.quality \in {"FAILED", "UNAVAILABLE"} THEN {"UNAVAILABLE"}
  ELSE IF s.quality = "DEGRADED" \/ s.at.age > FreshTelemetry THEN {"DEGRADED"}
  ELSE {"VALID", "DEGRADED"}

\* predict_trajectory: the status.  It is DEGRADED also where the known road
\* ends before the horizon or the confidence is low.
Predictions(s) ==
  IF s.road = NoRoad \/ s.quality \in {"FAILED", "UNAVAILABLE"} THEN {"UNAVAILABLE"}
  ELSE IF s.at.age > StaleTelemetry THEN {"STALE"}
  ELSE IF s.quality = "DEGRADED" \/ s.at.age > FreshTelemetry THEN {"DEGRADED"}
  ELSE {"VALID", "DEGRADED"}

\* trajectory_service.compute_and_store, up to the prediction.  What it reads
\* before, the type and an earlier speed of the vehicle, only decides which of the
\* Predictions it is.
Predict(k) ==
  /\ task[k].pc = "predict"
  /\ LET s == task[k].state IN
       \E status \in Predictions(s) :
         Step(k, [pc |-> "cache", v |-> task[k].v,
                  made |-> [age |-> s.at.age, waited |-> 0, status |-> status]])
  /\ UNCHANGED <<live, roadKeys, trajectoryKeys, summaryKeys, pings>>

\* _store_cached, an await later.  The task of a ping goes on with
\* collision_service and alert_service (AlertService).
StoreTrajectory(k) ==
  /\ task[k].pc = "cache"
  /\ trajectory' = [trajectory EXCEPT ![task[k].v] = task[k].made]
  /\ trajectoryTtl' = [trajectoryTtl EXCEPT ![task[k].v] = TrajectoryTtl]
  /\ Step(k, Idle)
  /\ UNCHANGED <<live, roadKeys, summaryKeys, pings>>

-----------------------------------------------------------------------------
\* An exception, which _update_pipeline swallows, or the end of the process.  A
\* task that ends before its prediction is also what a request for the road
\* state alone does (get_road_state).
Fail(k) ==
  /\ task[k] # Idle
  /\ Step(k, Idle)
  /\ UNCHANGED <<live, roadKeys, trajectoryKeys, summaryKeys, pings>>

Less(n) == IF n = 0 THEN 0 ELSE n - 1
OlderTelemetry(t) == IF t = NoTelemetry THEN t ELSE [t EXCEPT !.age = Older(t.age)]
OlderState(s) == IF s = NoState THEN s ELSE [s EXCEPT !.at = OlderTelemetry(s.at)]
OlderTrajectory(t) == IF t = NoTrajectory THEN t ELSE [t EXCEPT !.age = Older(t.age)]
Waited(t) == [OlderTrajectory(t) EXCEPT !.waited = Older(t.waited)]
OlderWork(w) ==
  CASE w.pc = "load_cached" -> [w EXCEPT !.at = OlderTelemetry(w.at)]
    [] w.pc \in StateSteps -> [w EXCEPT !.state = OlderState(w.state)]
    [] w.pc = "cache" -> [w EXCEPT !.made = Waited(w.made)]
    [] OTHER -> w

Tick ==
  /\ live' = [v \in Vehicles |-> OlderTelemetry(live[v])]
  /\ road' = [v \in Vehicles |->
                IF roadTtl[v] = 1 THEN NoState ELSE OlderState(road[v])]
  /\ roadTtl' = [v \in Vehicles |-> Less(roadTtl[v])]
  /\ trajectory' = [v \in Vehicles |->
                      IF trajectoryTtl[v] = 1 THEN NoTrajectory
                      ELSE OlderTrajectory(trajectory[v])]
  /\ trajectoryTtl' = [v \in Vehicles |-> Less(trajectoryTtl[v])]
  /\ summaryTtl' = [v \in Vehicles |-> Less(summaryTtl[v])]
  /\ task' = [k \in Tasks |-> OlderWork(task[k])]
  /\ UNCHANGED <<summary, pings>>

Init ==
  /\ live = [v \in Vehicles |-> NoTelemetry]
  /\ road = [v \in Vehicles |-> NoState]
  /\ roadTtl = [v \in Vehicles |-> 0]
  /\ trajectory = [v \in Vehicles |-> NoTrajectory]
  /\ trajectoryTtl = [v \in Vehicles |-> 0]
  /\ summaryTtl = [v \in Vehicles |-> 0]
  /\ summary = {} /\ pings = 0
  /\ task = [k \in Tasks |-> Idle]

Advance(k) ==
  \/ LoadTrajectory(k) \/ LoadRoad(k)
  \/ GetLive(k) \/ LoadCached(k) \/ AwaitMatch(k) \/ StoreRoad(k)
  \/ PersistSummary(k) \/ Predict(k) \/ StoreTrajectory(k)

Next ==
  \/ \E v \in Vehicles : Disappear(v)
  \/ \E k \in Tasks, v \in Vehicles : Ping(k, v) \/ GetTrajectory(k, v)
  \/ \E k \in Tasks : Advance(k) \/ Fail(k)
  \/ Tick

Spec == Init /\ [][Next]_vars

-----------------------------------------------------------------------------
(* Properties *)

\* A reused match moves away from where it was made by at most MatchDistance
\* per reuse, whatever tasks of the vehicle overlap (_should_reuse_cache).
HasState(k) == task[k].pc \in StateSteps
Drift(s) ==
  s.road # NoRoad /\ s.reused < ReuseCap =>
    Distance(s.at.pos, s.road) <= s.reused * MatchDistance
DriftPerReuse ==
  /\ \A v \in Vehicles : Drift(road[v])
  /\ \A k \in Tasks : HasState(k) => Drift(task[k].state)

\* What config.py:59-60 says of OSRM_MATCH_MIN_DISTANCE_M: a match is reused only
\* while the vehicle has not moved far since that match.
ReusedIsNear ==
  \A v \in Vehicles :
    road[v].reused > 0 => Distance(road[v].at.pos, road[v].road) <= MatchDistance

\* A cached trajectory that extrapolates motion had fresh enough telemetry when
\* it was computed, and is gone before that is TrajectoryTtl older, plus the time
\* its store took; also where get_trajectory computes it from a road state that
\* was cached long before.
MotionIsRecent ==
  \A v \in Vehicles : InMotion(trajectory[v]) =>
    trajectory[v].age + trajectoryTtl[v]
      <= StaleTelemetry + TrajectoryTtl + trajectory[v].waited
==============================================================================
