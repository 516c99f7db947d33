-------------------------- MODULE RoadStatesProofs --------------------------
(***************************************************************************)
(* Theorems about RoadStates, for any vehicles, tasks, positions and       *)
(* settings: what every state OSRM and the cache may lead to is, how far a *)
(* reused match may drift, how old the telemetry of a moving trajectory is.*)
(***************************************************************************)
EXTENDS RoadStates, TLAPS

\* A trajectory is cached with a time to live.
TrajectoriesExpire ==
  \A v \in Vehicles : trajectory[v] # NoTrajectory => trajectoryTtl[v] > 0

\* A trajectory that waits for its store, too, was made of fresh telemetry.
Fresh(t) == InMotion(t) => t.age <= StaleTelemetry + t.waited
WaitingAreFresh == \A k \in Tasks : task[k].pc = "cache" => Fresh(task[k].made)

\* What a task may hold.
Held(w) ==
  /\ w.pc \in StateSteps => Drift(w.state)
  /\ w.pc = "cache" => Fresh(w.made)

IInv ==
  /\ TypeOK /\ DriftPerReuse
  /\ MotionIsRecent /\ TrajectoriesExpire /\ WaitingAreFresh

-----------------------------------------------------------------------------
\* The operators of RoadMatch.

LEMMA NoRoadIsNoPosition == NoRoad \notin Positions /\ NoState \notin RoadStates
  <1>1. NoRoad \notin Positions
    BY MatchAssumption, SMT DEF NoRoad
  <1>2. NoState.quality \notin Qualities
    BY DEF NoState, Qualities
  <1> QED BY <1>1, <1>2 DEF RoadStates

LEMMA OlderIsAnAge ==
  ASSUME NEW a \in Ages
  PROVE  Older(a) \in Ages /\ Older(a) <= a + 1 /\ a <= Older(a)
  BY MatchAssumption, SMT DEF Ages, Older

LEMMA ClassifiedIsAQuality ==
  ASSUME NEW c, NEW near
  PROVE  ClassifyQuality(c, near) \in Qualities
  BY DEF ClassifyQuality, Qualities

LEMMA UsableStaysUsable ==
  ASSUME NEW q \in Usable, NEW u \in BOOLEAN
  PROVE  WithRoute(q, u) \in Usable
  BY DEF WithRoute, Usable

\* The line: a detour is no shorter.
LEMMA Triangle ==
  ASSUME NEW a \in Int, NEW b \in Int, NEW c \in Int
  PROVE  Distance(a, c) <= Distance(a, b) + Distance(b, c) /\ Distance(a, a) = 0
  BY SMT DEF Distance

LEMMA FreshIsAState ==
  ASSUME NEW t \in Telemetry, NEW previous, NEW s \in FreshMatches(t, previous)
  PROVE  s \in RoadStates /\ Drift(s)
  <1>1. CASE \E q \in {"UNAVAILABLE", "FAILED"} : s = Unmatched(t, q)
    <2>1. PICK q \in {"UNAVAILABLE", "FAILED"} : s = Unmatched(t, q)
      BY <1>1
    <2>2. q \in Qualities /\ 0 \in 0..ReuseCap
      BY MatchAssumption, SMT DEF Qualities
    <2> QED BY <2>1, <2>2 DEF Unmatched, RoadStates, Drift
  <1>2. CASE \E q \in Usable, u \in BOOLEAN : s = Matched(t, WithRoute(q, u))
    <2>1. PICK q \in Usable, u \in BOOLEAN : s = Matched(t, WithRoute(q, u))
      BY <1>2
    <2>2. WithRoute(q, u) \in Qualities /\ 0 \in 0..ReuseCap
      BY UsableStaysUsable, MatchAssumption, SMT DEF Qualities, Usable
    <2>3. t.pos \in Positions /\ t.pos \in Int
      <3>1. t.pos \in Positions
        BY DEF Telemetry
      <3>2. Positions \subseteq Int
        BY MatchAssumption, SMT
      <3> QED BY <3>1, <3>2
    <2>4. s \in RoadStates /\ s.at.pos = t.pos /\ s.road = t.pos /\ s.reused = 0
      BY <2>1, <2>2, <2>3 DEF Matched, RoadStates
    <2>5. Distance(t.pos, t.pos) <= 0 * MatchDistance
      BY <2>3, Triangle, MatchAssumption, SMT
    <2> QED BY <2>4, <2>5 DEF Drift
  <1> QED BY <1>1, <1>2 DEF FreshMatches

LEMMA ReusedIsAState ==
  ASSUME NEW t \in Telemetry, NEW previous \in RoadStates \union {NoState},
         ShouldReuseCache(t, previous), Drift(previous)
  PROVE  Reused(t, previous) \in RoadStates /\ Drift(Reused(t, previous))
  <1> DEFINE s == Reused(t, previous)
             n == previous.reused
  <1>1. previous \in RoadStates /\ previous.road # NoRoad
    BY DEF ShouldReuseCache, NoState
  <1>2. /\ n \in 0..ReuseCap /\ previous.road \in Positions
        /\ previous.at.pos \in Positions /\ t.pos \in Positions
        /\ previous.quality \in Qualities
    BY <1>1 DEF RoadStates, Telemetry
  <1>3. /\ s.at = t /\ s.road = previous.road /\ s.quality = previous.quality
        /\ s.reused = IF n < ReuseCap THEN n + 1 ELSE ReuseCap
        /\ s = [at |-> t, quality |-> s.quality, road |-> s.road, reused |-> s.reused]
    BY DEF Reused
  <1> HIDE DEF s, n
  <1>4. s.reused \in 0..ReuseCap
    BY <1>2, <1>3, MatchAssumption, SMT
  <1>5. s \in RoadStates
    BY <1>2, <1>3, <1>4 DEF RoadStates
  <1>6. ASSUME s.reused < ReuseCap PROVE Distance(t.pos, s.road) <= s.reused * MatchDistance
    <2>1. n < ReuseCap /\ s.reused = n + 1 /\ n \in Nat
      BY <1>2, <1>3, <1>6, MatchAssumption, SMT
    <2>2. Distance(previous.at.pos, previous.road) <= n * MatchDistance
      BY <1>1, <2>1 DEF Drift, n
    <2>3. Distance(t.pos, previous.at.pos) <= MatchDistance
      BY DEF ShouldReuseCache
    <2>4. /\ t.pos \in Int /\ previous.at.pos \in Int /\ previous.road \in Int
          /\ MatchDistance \in Nat
      <3>1. Positions \subseteq Int /\ MatchDistance \in Nat
        BY MatchAssumption, SMT
      <3> QED BY <1>2, <3>1
    <2>5. Distance(t.pos, previous.road)
            <= Distance(t.pos, previous.at.pos) + Distance(previous.at.pos, previous.road)
      BY <2>4, Triangle
    <2>6. /\ Distance(t.pos, previous.road) \in Int
          /\ Distance(t.pos, previous.at.pos) \in Int
          /\ Distance(previous.at.pos, previous.road) \in Int
      BY <2>4, SMT DEF Distance
    <2>7. (n + 1) * MatchDistance = n * MatchDistance + MatchDistance
      BY <2>1, <2>4, SMT
    <2>8. n * MatchDistance \in Int
      BY <2>1, <2>4, SMT
    <2> QED BY <2>1, <2>2, <2>3, <2>4, <2>5, <2>6, <2>7, <2>8, <1>3, SMT
  <1>7. Drift(s)
    BY <1>3, <1>6 DEF Drift
  <1> QED BY <1>5, <1>7 DEF s

\* Whatever is cached and whatever OSRM answers.
LEMMA MatchIsAState ==
  ASSUME NEW t \in Telemetry, NEW previous \in RoadStates \union {NoState},
         Drift(previous), NEW s \in Matches(t, previous)
  PROVE  s \in RoadStates /\ Drift(s)
  <1>1. CASE AsksOSRM(t, previous)
    BY <1>1, FreshIsAState DEF Matches
  <1>2. CASE ~AsksOSRM(t, previous) /\ t.age > StaleMatch
    <2>1. s = Unmatched(t, "STALE")
      BY <1>2 DEF Matches
    <2>2. "STALE" \in Qualities /\ 0 \in 0..ReuseCap
      BY MatchAssumption, SMT DEF Qualities
    <2> QED BY <2>1, <2>2 DEF Unmatched, RoadStates, Drift
  <1>3. CASE ~AsksOSRM(t, previous) /\ ~(t.age > StaleMatch)
    <2>1. s = Reused(t, previous)
      BY <1>3 DEF Matches
    <2>2. t.age <= StaleMatch
      BY <1>3, MatchAssumption, SMT DEF Telemetry, Ages
    <2>3. ShouldReuseCache(t, previous)
      BY <1>3, <2>2 DEF AsksOSRM
    <2> QED BY <2>1, <2>3, ReusedIsAState
  <1> QED BY <1>1, <1>2, <1>3

LEMMA NoStateDoesNotDrift == Drift(NoState)
  BY DEF Drift, NoState

LEMMA OlderStateIsAState ==
  ASSUME NEW s \in RoadStates
  PROVE  OlderState(s) \in RoadStates /\ (Drift(s) => Drift(OlderState(s)))
  <1> DEFINE t == s.at
             o == OlderState(s)
  <1>1. s # NoState /\ t \in Telemetry
    BY NoRoadIsNoPosition DEF RoadStates
  <1>2. t.pos \in Positions /\ t.age \in Ages
    BY <1>1 DEF Telemetry
  <1>3. OlderTelemetry(t) \in Telemetry /\ OlderTelemetry(t).pos = t.pos
    <2>1. CASE t = NoTelemetry
      BY <1>1, <2>1 DEF OlderTelemetry
    <2>2. CASE t # NoTelemetry
      <3>1. OlderTelemetry(t) = [t EXCEPT !.age = Older(t.age)]
        BY <2>2 DEF OlderTelemetry
      <3> QED BY <1>1, <1>2, <3>1, OlderIsAnAge DEF Telemetry
    <2> QED BY <2>1, <2>2
  <1>4. o = [s EXCEPT !.at = OlderTelemetry(t)]
    BY <1>1 DEF OlderState
  <1>5. o \in RoadStates /\ o.at = OlderTelemetry(t) /\ o.road = s.road /\ o.reused = s.reused
    BY <1>3, <1>4 DEF RoadStates
  <1> QED BY <1>3, <1>5 DEF Drift

\* predict_trajectory extrapolates motion from fresh telemetry only.
LEMMA MotionNeedsFreshTelemetry ==
  ASSUME NEW s \in RoadStates, NEW status \in Predictions(s)
  PROVE  /\ status \in Statuses
         /\ status \in {"VALID", "DEGRADED"} => s.at.age <= StaleTelemetry
         /\ s.at.age \in Ages
  <1>1. s.at.age \in Ages
    BY DEF RoadStates, Telemetry
  <1>2. s.at.age \in Nat
    BY <1>1, MatchAssumption, SMT DEF Ages
  <1> QED BY <1>1, <1>2, RoadAssumption, SMT DEF Predictions, Statuses

-----------------------------------------------------------------------------
\* What a task holds, by its step.

LEMMA WorkByStep ==
  ASSUME NEW w \in Work \union {Idle}
  PROVE  /\ w.pc \in Steps => w \in [pc : Steps, v : Vehicles, force : BOOLEAN]
         /\ w.pc = "load_cached" =>
              w \in [pc : {"load_cached"}, v : Vehicles, force : BOOLEAN, at : Telemetry]
         /\ w.pc \in StateSteps => w \in [pc : StateSteps, v : Vehicles, state : RoadStates]
         /\ w.pc = "cache" => w \in [pc : {"cache"}, v : Vehicles, made : Trajectories]
         /\ w.pc \notin Steps \union StateSteps \union {"load_cached", "cache"} => w = Idle
         /\ w # Idle => w.pc # "idle"
  BY DEF Work, Idle, Steps, StateSteps

LEMMA MovedWork ==
  ASSUME NEW w \in [pc : StateSteps, v : Vehicles, state : RoadStates], NEW pc \in StateSteps,
         Drift(w.state)
  PROVE  /\ [w EXCEPT !.pc = pc] \in Work
         /\ Held([w EXCEPT !.pc = pc])
  BY DEF Work, Held, StateSteps

LEMMA StateIsHeld ==
  ASSUME NEW pc \in StateSteps, NEW v \in Vehicles, NEW s \in RoadStates, Drift(s)
  PROVE  LET w == [pc |-> pc, v |-> v, state |-> s] IN w \in Work /\ Held(w)
  BY DEF Work, Held, StateSteps

LEMMA OthersStay ==
  ASSUME TypeOK, NEW k \in Tasks, NEW w, Step(k, w)
  PROVE  task' = [j \in Tasks |-> IF j = k THEN w ELSE task[j]]
  <1>1. DOMAIN task = Tasks
    BY DEF TypeOK
  <1> QED BY <1>1 DEF Step

LEMMA TaskOfStep ==
  ASSUME IInv, NEW k \in Tasks, NEW w \in Work \union {Idle}, Step(k, w), Held(w)
  PROVE  /\ task' \in [Tasks -> Work \union {Idle}]
         /\ \A j \in Tasks : Held(task'[j])
  <1>1. task' = [j \in Tasks |-> IF j = k THEN w ELSE task[j]]
    BY OthersStay DEF IInv
  <1>2. \A j \in Tasks : task[j] \in Work \union {Idle} /\ Held(task[j])
    BY DEF IInv, TypeOK, DriftPerReuse, HasState, WaitingAreFresh, Held
  <1> QED BY <1>1, <1>2

\* A step that leaves the cached road states and trajectories alone.
LEMMA TaskStepKeeps ==
  ASSUME IInv, NEW k \in Tasks, NEW w \in Work \union {Idle}, Step(k, w),
         Held(w), UNCHANGED <<roadKeys, trajectoryKeys>>,
         live' \in [Vehicles -> Telemetry \union {NoTelemetry}],
         summaryTtl' \in [Vehicles -> 0..RoadDbThrottle],
         summary' \in SUBSET Vehicles,
         pings' \in 0..MaxPings
  PROVE  IInv'
  <1>1. /\ task' \in [Tasks -> Work \union {Idle}]
        /\ \A j \in Tasks : Held(task'[j])
    BY TaskOfStep
  <1>2. UNCHANGED <<road, roadTtl, trajectory, trajectoryTtl>>
    BY DEF roadKeys, trajectoryKeys
  <1>3. TypeOK'
    BY <1>1, <1>2 DEF IInv, TypeOK
  <1>4. DriftPerReuse' /\ WaitingAreFresh'
    BY <1>1, <1>2 DEF IInv, DriftPerReuse, HasState, WaitingAreFresh, Held
  <1>5. MotionIsRecent' /\ TrajectoriesExpire'
    BY <1>2 DEF IInv, MotionIsRecent, TrajectoriesExpire
  <1> QED BY <1>3, <1>4, <1>5 DEF IInv

-----------------------------------------------------------------------------
LEMMA BeginKeeps ==
  ASSUME IInv, NEW k \in Tasks, NEW v \in Vehicles, Ping(k, v) \/ GetTrajectory(k, v)
  PROVE  IInv'
  <1>1. \A pc \in Steps, force \in BOOLEAN :
          /\ [pc |-> pc, v |-> v, force |-> force] \in Work
          /\ Held([pc |-> pc, v |-> v, force |-> force])
    BY DEF Work, Steps, StateSteps, Held
  <1>2. CASE Ping(k, v)
    <2>1. PICK p \in Positions, d \in Delays :
            live' = [live EXCEPT ![v] = [pos |-> p, age |-> d]]
      BY <1>2 DEF Ping
    <2>2. [pos |-> p, age |-> d] \in Telemetry
      BY RoadAssumption DEF Telemetry
    <2>3. live' \in [Vehicles -> Telemetry \union {NoTelemetry}]
      BY <2>1, <2>2 DEF IInv, TypeOK
    <2>4. pings' \in 0..MaxPings
      BY <1>2, RoadAssumption, SMT DEF Ping, IInv, TypeOK
    <2>5. /\ [pc |-> "get_live", v |-> v, force |-> FALSE] \in Work
          /\ Held([pc |-> "get_live", v |-> v, force |-> FALSE])
      BY <1>1 DEF Steps
    <2>6. UNCHANGED <<roadKeys, trajectoryKeys, summaryTtl, summary>>
      BY <1>2 DEF Ping, summaryKeys
    <2> QED BY <1>2, <2>3, <2>4, <2>5, <2>6, TaskStepKeeps DEF Ping, IInv, TypeOK
  <1>3. CASE GetTrajectory(k, v)
    <2>1. PICK force \in BOOLEAN, pc \in {"load_trajectory", "get_live"} :
            Step(k, [pc |-> pc, v |-> v, force |-> force])
      BY <1>3 DEF GetTrajectory
    <2>2. [pc |-> pc, v |-> v, force |-> force] \in Work /\ Held([pc |-> pc, v |-> v, force |-> force])
      BY <1>1 DEF Steps
    <2>3. UNCHANGED <<live, roadKeys, trajectoryKeys, summaryTtl, summary, pings>>
      BY <1>3 DEF GetTrajectory, summaryKeys
    <2> QED BY <2>1, <2>2, <2>3, TaskStepKeeps DEF IInv, TypeOK
  <1> QED BY <1>2, <1>3

LEMMA EndKeeps ==
  ASSUME IInv, NEW k \in Tasks, Step(k, Idle),
         UNCHANGED <<live, roadKeys, trajectoryKeys, summaryKeys, pings>>
  PROVE  IInv'
  <1>1. Held(Idle)
    BY DEF Idle, StateSteps, Held
  <1>2. UNCHANGED <<summaryTtl, summary>>
    BY DEF summaryKeys
  <1> QED BY <1>1, <1>2, TaskStepKeeps DEF IInv, TypeOK

\* A step that only reads.
LEMMA ReadKeeps ==
  ASSUME IInv, NEW k \in Tasks, NEW w \in Work, Step(k, w), Held(w),
         UNCHANGED <<live, roadKeys, trajectoryKeys, summaryKeys, pings>>
  PROVE  IInv'
  <1>1. UNCHANGED <<summaryTtl, summary>>
    BY DEF summaryKeys
  <1> QED BY <1>1, TaskStepKeeps DEF IInv, TypeOK

\* A step of get_trajectory on to another one that has computed nothing.
LEMMA SearchOnKeeps ==
  ASSUME IInv, NEW k \in Tasks, task[k].pc \in Steps, NEW pc \in Steps, GoTo(k, pc),
         UNCHANGED <<live, roadKeys, trajectoryKeys, summaryKeys, pings>>
  PROVE  IInv'
  <1>1. task[k] \in [pc : Steps, v : Vehicles, force : BOOLEAN]
    BY WorkByStep DEF IInv, TypeOK
  <1>2. [task[k] EXCEPT !.pc = pc] \in Work /\ Held([task[k] EXCEPT !.pc = pc])
    BY <1>1 DEF Work, Steps, StateSteps, Held
  <1> QED BY <1>2, ReadKeeps DEF GoTo

LEMMA LoadTrajectoryKeeps ==
  ASSUME IInv, NEW k \in Tasks, LoadTrajectory(k) PROVE IInv'
  <1>1. task[k].pc \in Steps /\ "load_road" \in Steps
    BY DEF LoadTrajectory, Steps
  <1>2. CASE Step(k, Idle)
    BY <1>2, EndKeeps DEF LoadTrajectory
  <1>3. CASE GoTo(k, "load_road")
    BY <1>1, <1>3, SearchOnKeeps DEF LoadTrajectory
  <1> QED BY <1>2, <1>3 DEF LoadTrajectory

LEMMA LoadRoadKeeps ==
  ASSUME IInv, NEW k \in Tasks, LoadRoad(k) PROVE IInv'
  <1> DEFINE v == task[k].v
             s == road[v]
  <1>1. task[k].pc \in Steps /\ "get_live" \in Steps
    BY DEF LoadRoad, Steps
  <1>2. v \in Vehicles
    BY <1>1, WorkByStep DEF IInv, TypeOK
  <1>3. CASE s # NoState
    <2>1. s \in RoadStates /\ Drift(s)
      BY <1>2, <1>3 DEF IInv, TypeOK, DriftPerReuse
    <2>2. Step(k, [pc |-> "predict", v |-> v, state |-> s])
      BY <1>3 DEF LoadRoad, WithState
    <2> HIDE DEF v, s
    <2>3. /\ [pc |-> "predict", v |-> v, state |-> s] \in Work
          /\ Held([pc |-> "predict", v |-> v, state |-> s])
      BY <1>2, <2>1, StateIsHeld DEF StateSteps
    <2> QED BY <2>1, <2>2, <2>3, ReadKeeps DEF LoadRoad
  <1>4. CASE s = NoState
    <2>1. GoTo(k, "get_live")
      BY <1>4 DEF LoadRoad
    <2> QED BY <1>1, <2>1, SearchOnKeeps DEF LoadRoad
  <1> QED BY <1>3, <1>4

LEMMA GetLiveKeeps ==
  ASSUME IInv, NEW k \in Tasks, GetLive(k) PROVE IInv'
  <1> DEFINE v == task[k].v
             w == [pc |-> "load_cached", v |-> v, force |-> task[k].force, at |-> live[v]]
  <1>1. task[k].pc \in Steps
    BY DEF GetLive, Steps
  <1>2. v \in Vehicles /\ task[k].force \in BOOLEAN
    BY <1>1, WorkByStep DEF IInv, TypeOK
  <1>3. CASE live[v] = NoTelemetry
    BY <1>3, EndKeeps DEF GetLive
  <1>4. CASE live[v] # NoTelemetry
    <2>1. live[v] \in Telemetry
      BY <1>2, <1>4 DEF IInv, TypeOK
    <2>2. w \in Work /\ Held(w)
      BY <1>2, <2>1 DEF Work, StateSteps, Held
    <2>3. Step(k, w)
      BY <1>4 DEF GetLive
    <2> HIDE DEF w
    <2> QED BY <2>2, <2>3, ReadKeeps DEF GetLive
  <1> QED BY <1>3, <1>4

LEMMA LoadCachedKeeps ==
  ASSUME IInv, NEW k \in Tasks, LoadCached(k) PROVE IInv'
  <1> DEFINE v == task[k].v
             t == task[k].at
  <1>1. v \in Vehicles /\ t \in Telemetry
    BY WorkByStep DEF LoadCached, IInv, TypeOK
  <1> DEFINE previous == IF task[k].force THEN NoState ELSE road[v]
  <1>2. \E s \in Matches(t, previous) :
          WithState(k, IF AsksOSRM(t, previous) THEN "match" ELSE "store", s)
    BY DEF LoadCached
  <1>3. PICK s \in Matches(t, previous) :
          WithState(k, IF AsksOSRM(t, previous) THEN "match" ELSE "store", s)
    BY <1>2
  <1>4. previous \in RoadStates \union {NoState} /\ Drift(previous)
    BY <1>1, NoStateDoesNotDrift DEF IInv, TypeOK, DriftPerReuse
  <1>5. s \in RoadStates /\ Drift(s)
    BY <1>1, <1>4, MatchIsAState
  <1>6. PICK pc \in StateSteps : Step(k, [pc |-> pc, v |-> v, state |-> s])
    BY <1>3 DEF WithState, StateSteps
  <1> HIDE DEF v, previous
  <1>7. /\ [pc |-> pc, v |-> v, state |-> s] \in Work
        /\ Held([pc |-> pc, v |-> v, state |-> s])
    BY <1>1, <1>5, StateIsHeld
  <1> QED BY <1>5, <1>6, <1>7, ReadKeeps DEF LoadCached

\* A step that holds a computed state.
LEMMA HoldsAState ==
  ASSUME IInv, NEW k \in Tasks, task[k].pc \in StateSteps
  PROVE  /\ task[k] \in [pc : StateSteps, v : Vehicles, state : RoadStates]
         /\ task[k].v \in Vehicles
         /\ task[k].state \in RoadStates /\ Drift(task[k].state)
  <1>1. task[k] \in [pc : StateSteps, v : Vehicles, state : RoadStates]
    BY WorkByStep DEF IInv, TypeOK
  <1> QED BY <1>1 DEF IInv, DriftPerReuse, HasState

LEMMA AwaitMatchKeeps ==
  ASSUME IInv, NEW k \in Tasks, AwaitMatch(k) PROVE IInv'
  <1>1. task[k].pc \in StateSteps /\ "store" \in StateSteps
    BY DEF AwaitMatch, StateSteps
  <1> DEFINE w == [task[k] EXCEPT !.pc = "store"]
  <1>2. w \in Work /\ Held(w)
    BY <1>1, HoldsAState, MovedWork
  <1>3. Step(k, w)
    BY DEF AwaitMatch, GoTo
  <1> HIDE DEF w
  <1> QED BY <1>2, <1>3, ReadKeeps DEF AwaitMatch

LEMMA StoreRoadKeeps ==
  ASSUME IInv, NEW k \in Tasks, StoreRoad(k) PROVE IInv'
  <1>1. task[k].pc \in StateSteps /\ "persist" \in StateSteps
    BY DEF StoreRoad, StateSteps
  <1> DEFINE v == task[k].v
             s == task[k].state
             w == [task[k] EXCEPT !.pc = "persist"]
  <1>2. v \in Vehicles /\ s \in RoadStates /\ Drift(s)
    BY <1>1, HoldsAState
  <1>3. w \in Work /\ Held(w) /\ Step(k, w)
    BY <1>1, HoldsAState, MovedWork DEF StoreRoad, GoTo
  <1>4. /\ road' = [road EXCEPT ![v] = s]
        /\ roadTtl' = [roadTtl EXCEPT ![v] = RoadTtl]
        /\ UNCHANGED <<live, trajectory, trajectoryTtl, summaryTtl, summary, pings>>
    BY DEF StoreRoad, trajectoryKeys, summaryKeys
  <1> HIDE DEF v, s, w
  <1>5. /\ task' \in [Tasks -> Work \union {Idle}]
        /\ \A j \in Tasks : Held(task'[j])
    BY <1>3, TaskOfStep
  <1>6. road' \in [Vehicles -> RoadStates \union {NoState}]
    BY <1>2, <1>4 DEF IInv, TypeOK
  <1>7. roadTtl' \in [Vehicles -> 0..RoadTtl]
    BY <1>2, <1>4, RoadAssumption, SMT DEF IInv, TypeOK
  <1>8. TypeOK'
    BY <1>4, <1>5, <1>6, <1>7 DEF IInv, TypeOK
  <1>9. ASSUME NEW u \in Vehicles PROVE Drift(road'[u])
    BY <1>2, <1>4 DEF IInv, TypeOK, DriftPerReuse
  <1>10. DriftPerReuse' /\ WaitingAreFresh'
    BY <1>5, <1>9 DEF DriftPerReuse, HasState, WaitingAreFresh, Held
  <1>11. MotionIsRecent' /\ TrajectoriesExpire'
    BY <1>4 DEF IInv, MotionIsRecent, TrajectoriesExpire
  <1> QED BY <1>8, <1>10, <1>11 DEF IInv

LEMMA PersistSummaryKeeps ==
  ASSUME IInv, NEW k \in Tasks, PersistSummary(k) PROVE IInv'
  <1>1. task[k].pc \in StateSteps /\ "predict" \in StateSteps
    BY DEF PersistSummary, StateSteps
  <1> DEFINE v == task[k].v
             w == [task[k] EXCEPT !.pc = "predict"]
  <1>2. v \in Vehicles
    BY <1>1, HoldsAState
  <1>3. w \in Work /\ Held(w) /\ Step(k, w)
    BY <1>1, HoldsAState, MovedWork DEF PersistSummary, GoTo
  <1>4. \/ /\ summaryTtl' = [summaryTtl EXCEPT ![v] = RoadDbThrottle]
           /\ summary' = summary \union {v}
        \/ UNCHANGED <<summaryTtl, summary>>
    BY DEF PersistSummary, summaryKeys
  <1>5. UNCHANGED <<live, roadKeys, trajectoryKeys, pings>>
    BY DEF PersistSummary
  <1> HIDE DEF v, w
  <1>6. RoadDbThrottle \in 0..RoadDbThrottle
    BY RoadAssumption, SMT
  <1>7. summaryTtl' \in [Vehicles -> 0..RoadDbThrottle] /\ summary' \in SUBSET Vehicles
    BY <1>2, <1>4, <1>6 DEF IInv, TypeOK
  <1> QED BY <1>3, <1>5, <1>7, TaskStepKeeps DEF IInv, TypeOK

LEMMA PredictKeeps ==
  ASSUME IInv, NEW k \in Tasks, Predict(k) PROVE IInv'
  <1>1. task[k].pc \in StateSteps
    BY DEF Predict, StateSteps
  <1> DEFINE v == task[k].v
             s == task[k].state
  <1>2. v \in Vehicles /\ s \in RoadStates
    BY <1>1, HoldsAState
  <1>3. PICK status \in Predictions(s) :
          Step(k, [pc |-> "cache", v |-> v,
                   made |-> [age |-> s.at.age, waited |-> 0, status |-> status]])
    BY DEF Predict
  <1>4. /\ status \in Statuses /\ s.at.age \in Ages
        /\ status \in {"VALID", "DEGRADED"} => s.at.age <= StaleTelemetry
    BY <1>2, <1>3, MotionNeedsFreshTelemetry
  <1> DEFINE n == [age |-> s.at.age, waited |-> 0, status |-> status]
  <1>5. 0 \in Ages
    BY MatchAssumption, SMT DEF Ages
  <1>6. n \in Trajectories /\ n.age = s.at.age /\ n.waited = 0 /\ n.status = status
    BY <1>4, <1>5 DEF Trajectories
  <1>7. Fresh(n)
    BY <1>4, <1>6, RoadAssumption, SMT DEF Fresh, InMotion
  <1>8. Step(k, [pc |-> "cache", v |-> v, made |-> n])
    BY <1>3
  <1> HIDE DEF v, s, n
  <1>9. LET w == [pc |-> "cache", v |-> v, made |-> n] IN w \in Work /\ Held(w)
    BY <1>2, <1>6, <1>7 DEF Work, Held, StateSteps
  <1> QED BY <1>8, <1>9, ReadKeeps DEF Predict

LEMMA StoreTrajectoryKeeps ==
  ASSUME IInv, NEW k \in Tasks, StoreTrajectory(k) PROVE IInv'
  <1> DEFINE v == task[k].v
             n == task[k].made
  <1>1. v \in Vehicles /\ n \in Trajectories /\ Fresh(n)
    BY WorkByStep DEF StoreTrajectory, IInv, TypeOK, WaitingAreFresh
  <1>2. /\ trajectory' = [trajectory EXCEPT ![v] = n]
        /\ trajectoryTtl' = [trajectoryTtl EXCEPT ![v] = TrajectoryTtl]
        /\ UNCHANGED <<live, road, roadTtl, summaryTtl, summary, pings>>
        /\ Step(k, Idle)
    BY DEF StoreTrajectory, roadKeys, summaryKeys
  <1> HIDE DEF v, n
  <1>3. Held(Idle)
    BY DEF Idle, StateSteps, Held
  <1>4. /\ task' \in [Tasks -> Work \union {Idle}]
        /\ \A j \in Tasks : Held(task'[j])
    BY <1>2, <1>3, TaskOfStep
  <1>5. trajectory' \in [Vehicles -> Trajectories \union {NoTrajectory}]
    BY <1>1, <1>2 DEF IInv, TypeOK
  <1>6. trajectoryTtl' \in [Vehicles -> 0..TrajectoryTtl]
    BY <1>1, <1>2, RoadAssumption, SMT DEF IInv, TypeOK
  <1>7. TypeOK'
    BY <1>2, <1>4, <1>5, <1>6 DEF IInv, TypeOK
  <1>8. DriftPerReuse' /\ WaitingAreFresh'
    BY <1>2, <1>4 DEF IInv, DriftPerReuse, HasState, WaitingAreFresh, Held
  <1>9. /\ trajectory'[v] = n /\ trajectoryTtl'[v] = TrajectoryTtl
        /\ \A u \in Vehicles \ {v} : /\ trajectory'[u] = trajectory[u]
                                     /\ trajectoryTtl'[u] = trajectoryTtl[u]
    BY <1>1, <1>2 DEF IInv, TypeOK
  <1>10. n.age \in Nat /\ n.waited \in Nat
    <2>1. n.age \in Ages /\ n.waited \in Ages
      BY <1>1 DEF Trajectories
    <2> QED BY <2>1, MatchAssumption, SMT DEF Ages
  <1>11. InMotion(n) => n.age + TrajectoryTtl <= StaleTelemetry + TrajectoryTtl + n.waited
    BY <1>1, <1>10, RoadAssumption, SMT DEF Fresh
  <1>12. MotionIsRecent'
    BY <1>9, <1>11 DEF IInv, MotionIsRecent
  <1>13. TrajectoriesExpire'
    BY <1>9, RoadAssumption, SMT DEF IInv, TrajectoriesExpire
  <1> QED BY <1>7, <1>8, <1>12, <1>13 DEF IInv

LEMMA DisappearKeeps ==
  ASSUME IInv, NEW v \in Vehicles, Disappear(v) PROVE IInv'
  <1>1. UNCHANGED <<road, roadTtl, trajectory, trajectoryTtl, summaryTtl, summary, task, pings>>
    BY DEF Disappear, roadKeys, trajectoryKeys, summaryKeys
  <1>2. live' \in [Vehicles -> Telemetry \union {NoTelemetry}]
    BY DEF Disappear, IInv, TypeOK
  <1>3. TypeOK'
    BY <1>1, <1>2 DEF IInv, TypeOK
  <1> QED BY <1>1, <1>3 DEF IInv, DriftPerReuse, HasState, MotionIsRecent, TrajectoriesExpire,
                             WaitingAreFresh

-----------------------------------------------------------------------------
\* Time.

LEMMA OlderTelemetryIsTelemetry ==
  ASSUME NEW t \in Telemetry \union {NoTelemetry}
  PROVE  /\ OlderTelemetry(t) \in Telemetry \union {NoTelemetry}
         /\ t \in Telemetry => OlderTelemetry(t) \in Telemetry
  <1>1. CASE t = NoTelemetry
    BY <1>1 DEF OlderTelemetry
  <1>2. CASE t # NoTelemetry
    <2>1. t.pos \in Positions /\ t.age \in Ages /\ t \in Telemetry
      BY <1>2 DEF Telemetry
    <2>2. OlderTelemetry(t) = [t EXCEPT !.age = Older(t.age)]
      BY <1>2 DEF OlderTelemetry
    <2> QED BY <2>1, <2>2, OlderIsAnAge DEF Telemetry
  <1> QED BY <1>1, <1>2

LEMMA OlderTrajectoryIsATrajectory ==
  ASSUME NEW t \in Trajectories, t # NoTrajectory
  PROVE  /\ OlderTrajectory(t) \in Trajectories
         /\ OlderTrajectory(t).status = t.status
         /\ OlderTrajectory(t).waited = t.waited
         /\ OlderTrajectory(t).age = Older(t.age)
  <1>1. OlderTrajectory(t) = [t EXCEPT !.age = Older(t.age)]
    BY DEF OlderTrajectory
  <1>2. t.age \in Ages
    BY DEF Trajectories
  <1>3. Older(t.age) \in Ages
    BY <1>2, OlderIsAnAge
  <1> QED BY <1>1, <1>3 DEF Trajectories

\* As long as both its ages are counted they grow together.
LEMMA WaitingStaysFresh ==
  ASSUME NEW t \in Trajectories, Fresh(t)
  PROVE  Waited(t) \in Trajectories /\ Fresh(Waited(t))
  <1> DEFINE o == OlderTrajectory(t)
             w == Waited(t)
  <1>1. t # NoTrajectory
    BY DEF Trajectories, NoTrajectory, Statuses
  <1>2. o \in Trajectories /\ o.status = t.status /\ o.age = Older(t.age)
    BY <1>1, OlderTrajectoryIsATrajectory
  <1>3. t.age \in Ages /\ t.waited \in Ages
    BY DEF Trajectories
  <1>4. w = [o EXCEPT !.waited = Older(t.waited)]
    BY DEF Waited
  <1>5. Older(t.age) \in Ages /\ Older(t.waited) \in Ages /\ Older(t.age) <= t.age + 1
    BY <1>3, OlderIsAnAge
  <1> HIDE DEF o, w
  <1>6. /\ w \in Trajectories /\ w.status = t.status
        /\ w.age = Older(t.age) /\ w.waited = Older(t.waited)
    BY <1>2, <1>4, <1>5 DEF Trajectories
  <1>7. t.age <= StaleTelemetry + t.waited => Older(t.age) <= StaleTelemetry + Older(t.waited)
    BY <1>3, <1>5, MatchAssumption, RoadAssumption, SMT DEF Ages, Older
  <1>8. Fresh(w)
    BY <1>6, <1>7 DEF Fresh, InMotion
  <1> QED BY <1>6, <1>8 DEF w

LEMMA OlderWorkIsWork ==
  ASSUME NEW w \in Work \union {Idle}, Held(w)
  PROVE  OlderWork(w) \in Work \union {Idle} /\ Held(OlderWork(w))
  <1>1. CASE w.pc \in Steps \union {"idle"}
    <2>1. OlderWork(w) = w
      BY <1>1 DEF OlderWork, Steps, StateSteps
    <2> QED BY <2>1
  <1>2. CASE w.pc = "load_cached"
    <2>1. w \in [pc : {"load_cached"}, v : Vehicles, force : BOOLEAN, at : Telemetry]
      BY <1>2, WorkByStep
    <2>2. OlderWork(w) = [w EXCEPT !.at = OlderTelemetry(w.at)]
      BY <1>2 DEF OlderWork, StateSteps
    <2>3. w.at \in Telemetry
      BY <2>1
    <2>4. OlderTelemetry(w.at) \in Telemetry
      BY <2>3, OlderTelemetryIsTelemetry
    <2>5. OlderWork(w) \in [pc : {"load_cached"}, v : Vehicles, force : BOOLEAN, at : Telemetry]
      BY <2>1, <2>2, <2>4
    <2> QED BY <2>5 DEF Work, StateSteps, Held
  <1>3. CASE w.pc \in StateSteps
    <2>1. w \in [pc : StateSteps, v : Vehicles, state : RoadStates]
      BY <1>3, WorkByStep
    <2>2. OlderWork(w) = [w EXCEPT !.state = OlderState(w.state)]
      BY <1>3 DEF OlderWork, StateSteps
    <2>3. OlderState(w.state) \in RoadStates /\ Drift(OlderState(w.state))
      BY <1>3, <2>1, OlderStateIsAState DEF Held
    <2>4. /\ OlderWork(w) \in [pc : StateSteps, v : Vehicles, state : RoadStates]
          /\ OlderWork(w).state = OlderState(w.state)
      BY <2>1, <2>2, <2>3
    <2> QED BY <2>3, <2>4 DEF Work, Held, StateSteps
  <1>4. CASE w.pc = "cache"
    <2>1. w \in [pc : {"cache"}, v : Vehicles, made : Trajectories]
      BY <1>4, WorkByStep
    <2>2. OlderWork(w) = [w EXCEPT !.made = Waited(w.made)]
      BY <1>4 DEF OlderWork, StateSteps
    <2>3. Waited(w.made) \in Trajectories /\ Fresh(Waited(w.made))
      BY <1>4, <2>1, WaitingStaysFresh DEF Held
    <2>4. /\ OlderWork(w) \in [pc : {"cache"}, v : Vehicles, made : Trajectories]
          /\ OlderWork(w).made = Waited(w.made)
      BY <2>1, <2>2, <2>3
    <2> QED BY <2>3, <2>4 DEF Work, Held, StateSteps
  <1> QED BY <1>1, <1>2, <1>3, <1>4, WorkByStep DEF Idle

LEMMA LessIsLess ==
  ASSUME NEW m \in Nat, NEW n \in 0..m
  PROVE  Less(n) \in 0..m /\ (n > 0 => Less(n) = n - 1)
  BY SMT DEF Less

LEMMA TickKeeps == ASSUME IInv, Tick PROVE IInv'
  <1>1. live' \in [Vehicles -> Telemetry \union {NoTelemetry}]
    BY OlderTelemetryIsTelemetry DEF IInv, TypeOK, Tick
  <1>2. /\ road' \in [Vehicles -> RoadStates \union {NoState}]
        /\ \A v \in Vehicles : Drift(road'[v])
    <2>1. ASSUME NEW v \in Vehicles
          PROVE  OlderState(road[v]) \in RoadStates \union {NoState} /\ Drift(OlderState(road[v]))
      <3>1. road[v] \in RoadStates \union {NoState} /\ Drift(road[v])
        BY DEF IInv, TypeOK, DriftPerReuse
      <3>2. CASE road[v] = NoState
        BY <3>2, NoStateDoesNotDrift DEF OlderState
      <3>3. CASE road[v] \in RoadStates
        BY <3>1, <3>3, OlderStateIsAState
      <3> QED BY <3>1, <3>2, <3>3
    <2> QED BY <2>1, NoStateDoesNotDrift DEF Tick
  <1>3. /\ roadTtl' \in [Vehicles -> 0..RoadTtl]
        /\ trajectoryTtl' \in [Vehicles -> 0..TrajectoryTtl]
        /\ summaryTtl' \in [Vehicles -> 0..RoadDbThrottle]
    BY LessIsLess, RoadAssumption DEF IInv, TypeOK, Tick
  <1>4. ASSUME NEW v \in Vehicles, trajectory[v] # NoTrajectory
        PROVE  /\ trajectory[v].age \in Ages /\ trajectory[v].waited \in Ages
               /\ OlderTrajectory(trajectory[v]) \in Trajectories
               /\ OlderTrajectory(trajectory[v]).status = trajectory[v].status
               /\ OlderTrajectory(trajectory[v]).waited = trajectory[v].waited
               /\ OlderTrajectory(trajectory[v]).age = Older(trajectory[v].age)
    <2>1. trajectory[v] \in Trajectories
      BY <1>4 DEF IInv, TypeOK
    <2>2. trajectory[v].age \in Ages /\ trajectory[v].waited \in Ages
      BY <2>1 DEF Trajectories
    <2> QED BY <1>4, <2>1, <2>2, OlderTrajectoryIsATrajectory
  <1>5. ASSUME NEW v \in Vehicles
        PROVE  trajectory'[v] \in Trajectories \union {NoTrajectory}
    BY <1>4 DEF Tick, OlderTrajectory
  <1>6. trajectory' \in [Vehicles -> Trajectories \union {NoTrajectory}]
    BY <1>5 DEF Tick
  <1>7. /\ task' \in [Tasks -> Work \union {Idle}]
        /\ \A k \in Tasks : Held(task'[k])
    <2>1. \A k \in Tasks : task[k] \in Work \union {Idle} /\ Held(task[k])
      BY DEF IInv, TypeOK, DriftPerReuse, HasState, WaitingAreFresh, Held
    <2> QED BY <2>1, OlderWorkIsWork DEF Tick
  <1>8. TypeOK'
    BY <1>1, <1>2, <1>3, <1>6, <1>7 DEF IInv, TypeOK, Tick
  <1>9. DriftPerReuse' /\ WaitingAreFresh'
    BY <1>2, <1>7 DEF DriftPerReuse, HasState, WaitingAreFresh, Held
  <1>10. ASSUME NEW v \in Vehicles, trajectory'[v] # NoTrajectory
         PROVE  /\ trajectory[v] # NoTrajectory
                /\ trajectory'[v] = OlderTrajectory(trajectory[v])
                /\ trajectoryTtl[v] # 1
                /\ trajectoryTtl'[v] = Less(trajectoryTtl[v])
    BY <1>10 DEF Tick, OlderTrajectory
  <1>11. ASSUME NEW v \in Vehicles, trajectory'[v] # NoTrajectory
         PROVE  trajectoryTtl'[v] = trajectoryTtl[v] - 1 /\ trajectoryTtl'[v] > 0
    <2>1. trajectoryTtl[v] \in 0..TrajectoryTtl /\ TrajectoryTtl \in Nat /\ trajectoryTtl[v] > 0
      BY <1>10, <1>11, RoadAssumption DEF IInv, TypeOK, TrajectoriesExpire
    <2> QED BY <1>10, <1>11, <2>1, LessIsLess, SMT
  <1>12. ASSUME NEW v \in Vehicles, InMotion(trajectory'[v])
         PROVE  trajectory'[v].age + trajectoryTtl'[v]
                 <= StaleTelemetry + TrajectoryTtl + trajectory'[v].waited
    <2>1. trajectory'[v] # NoTrajectory
      BY <1>12 DEF InMotion, NoTrajectory
    <2>2. /\ trajectory[v] # NoTrajectory
          /\ trajectory'[v] = OlderTrajectory(trajectory[v])
          /\ trajectoryTtl'[v] = trajectoryTtl[v] - 1
      BY <2>1, <1>10, <1>11
    <2>3. /\ trajectory[v].age \in Ages /\ InMotion(trajectory[v])
          /\ trajectory[v].waited \in Ages /\ trajectory'[v].waited = trajectory[v].waited
          /\ trajectory'[v].age = Older(trajectory[v].age)
      BY <2>2, <1>4, <1>12 DEF InMotion
    <2>4. trajectory[v].age + trajectoryTtl[v]
            <= StaleTelemetry + TrajectoryTtl + trajectory[v].waited
      BY <2>3 DEF IInv, MotionIsRecent
    <2>5. /\ trajectory'[v].age \in Ages
          /\ trajectory'[v].age <= trajectory[v].age + 1
      BY <2>3, OlderIsAnAge
    <2>6. trajectoryTtl[v] \in 0..TrajectoryTtl
      BY DEF IInv, TypeOK
    <2> QED BY <2>2, <2>3, <2>4, <2>5, <2>6, RoadAssumption, MatchAssumption, SMT DEF Ages
  <1> QED BY <1>8, <1>9, <1>11, <1>12 DEF IInv, MotionIsRecent, TrajectoriesExpire

-----------------------------------------------------------------------------
LEMMA InitIInv == Init => IInv
  <1> SUFFICES ASSUME Init PROVE IInv
    OBVIOUS
  <1>1. TypeOK
    BY RoadAssumption, SMT DEF Init, TypeOK
  <1>2. \A k \in Tasks : ~HasState(k) /\ task[k].pc # "cache"
    BY DEF Init, HasState, Idle, StateSteps
  <1>3. \A v \in Vehicles : ~InMotion(trajectory[v])
    BY DEF Init, InMotion, NoTrajectory
  <1> QED BY <1>1, <1>2, <1>3, NoStateDoesNotDrift
          DEF Init, IInv, DriftPerReuse, MotionIsRecent, TrajectoriesExpire, WaitingAreFresh

LEMMA StepKeepsIInv == IInv /\ [Next]_vars => IInv'
  <1> SUFFICES ASSUME IInv, [Next]_vars PROVE IInv'
    OBVIOUS
  <1>1. ASSUME NEW v \in Vehicles, Disappear(v) PROVE IInv'
    BY <1>1, DisappearKeeps
  <1>2. ASSUME NEW k \in Tasks, NEW v \in Vehicles, Ping(k, v) \/ GetTrajectory(k, v)
        PROVE  IInv'
    BY <1>2, BeginKeeps
  <1>3. ASSUME NEW k \in Tasks, Advance(k) PROVE IInv'
    BY <1>3, LoadTrajectoryKeeps, LoadRoadKeeps, GetLiveKeeps, LoadCachedKeeps,
       AwaitMatchKeeps, StoreRoadKeeps, PersistSummaryKeeps, PredictKeeps,
       StoreTrajectoryKeeps DEF Advance
  <1>4. ASSUME NEW k \in Tasks, Fail(k) PROVE IInv'
    BY <1>4, EndKeeps DEF Fail
  <1>5. CASE Tick
    BY <1>5, TickKeeps
  <1>6. CASE UNCHANGED vars
    BY <1>6 DEF vars, IInv, TypeOK, DriftPerReuse, HasState, MotionIsRecent, TrajectoriesExpire,
                WaitingAreFresh
  <1> QED BY <1>1, <1>2, <1>3, <1>4, <1>5, <1>6 DEF Next

LEMMA AlwaysIInv == Spec => []IInv
  BY InitIInv, StepKeepsIInv, PTL DEF Spec

\* Whatever OSRM answers and whatever expires, a cached road state is one the
\* code may compute, a task holds what its step needs, and no lifetime exceeds
\* its setting.
THEOREM TypeCorrect == Spec => []TypeOK
  <1>1. IInv => TypeOK
    BY DEF IInv
  <1> QED BY AlwaysIInv, <1>1, PTL

\* However many tasks of a vehicle overlap, a match that was reused n times is at
\* most n times the reuse distance away from where it was made
\* (map_matching._should_reuse_cache).
THEOREM DriftIsBounded == Spec => []DriftPerReuse
  <1>1. IInv => DriftPerReuse
    BY DEF IInv
  <1> QED BY AlwaysIInv, <1>1, PTL

\* A trajectory in motion was predicted from telemetry that was fresh enough, and
\* leaves the cache within its time to live, but for the time its store took, however
\* long that is (predict_trajectory, _store_cached).
THEOREM MotionRestsOnFreshTelemetry == Spec => []MotionIsRecent
  <1>1. IInv => MotionIsRecent
    BY DEF IInv
  <1> QED BY AlwaysIInv, <1>1, PTL
==============================================================================
