# A TLA+ model of road-analysis-api

`road-analysis-api` analyses dash-cam videos for road damage, lets people review
what was found, follows live vehicles and warns them of collisions.  This
directory holds TLA+ modules translated from its source, the TLC configurations
that check them on small instances, and theorems checked by TLAPS.

Paths below are relative to `src/road-analysis-api/app/`.

## 1. The system

Processes: one FastAPI process (one event loop; every `await` is a switch
point), a Celery container with `--concurrency=2` (two prefork children), a
Celery beat, Redis (broker and live state), PostgreSQL, MinIO and OSRM.
PostgreSQL runs with its default isolation (READ COMMITTED); the code takes no
row lock anywhere, so every handler is "read, await, write, commit".

| Component | Source | State | Operations | What is hard | What makes it correct |
|---|---|---|---|---|---|
| Job submission and deletion | `api/routes/jobs.py`, `models/job.py` | table `jobs`, the temporary file | `submit_job`, `delete_job` | row committed before the message is published; deletion under a running worker | a job whose message reached the broker ends; no row comes back |
| Video worker | `workers/processor.py`, `workers/celery_app.py` | `jobs`, `detections`, loop variables, `_models` | `process_video`, `_run`, `process_source` | batches committed every 50 frames, retries, redelivery, crashes, two runs of one job | done means the whole video was covered; the counter is backed by rows; the file goes last |
| Watchdog | `services/watchdog.py`, `main.py` | `jobs` | `mark_stale_jobs` at start | selects, then writes; runs once | only jobs stuck in processing are marked |
| Review of detections | `api/routes/detections.py`, `models/validation_label.py` | `detections`, `validation_labels` | `review_detection`, `undo_review`, `correct_location`, `resolve_cluster` | two reviewers at once; undo keeps the label | one label per reviewed detection; no validated detection without GPS |
| Training datasets | `services/dataset_service.py`, `models/dataset.py` | `datasets`, `dataset_samples`, MinIO objects | `export_dataset` | version is `max + 1` read long before the insert; objects written before the row; exports overlap | what is stored agrees with the labels |
| Spatial clustering and queries | `services/spatial.py`, `services/spatial_signalement.py` | none | `cluster_detections`, `query_nearby`, `query_along_route` | result depends on order; box and distance computed apart | clusters partition the detections; a query finds what is near and nothing else |
| Signalements | `api/routes/signalements.py`, `services/signalement_service.py` | table `signalements` | create, confirm, not there, moderate, delete | counters are read, incremented in Python and written | rounds of votes count; a withdrawn report stays off the map |
| Live vehicles | `services/vehicle_service.py`, `api/routes/vehicles.py` | Redis geo set, one hash per vehicle with a TTL, table `vehicles` | `register_vehicle`, `record_ping`, `get_live`, `query_nearby` | geo members never expire, hashes do | who is listed has pinged lately |
| Map matching and road state | `services/osrm/*`, `services/road_state_service.py` | Redis hash per vehicle, table `vehicle_road_states` | `match_vehicle_to_road`, `update_road_state` | a cached match is reused as long as the vehicle is near the last *reused* position | a reused match is near where it was made |
| Trajectory | `services/trajectory/*`, `services/trajectory_service.py` | Redis hash per vehicle | `predict_trajectory` | boundaries of the horizon, missing geometry, telemetry that gets old | points are on the road; older telemetry claims less |
| Collision detection | `services/collision/*`, `services/collision_service.py` | Redis entry per vehicle | `detect_collisions`, `process_vehicle` | both vehicles of a pair compute the pair | risk falls with distance and time |
| Alerts | `services/alerts/*`, `services/alert_service.py` | Redis record per pair (TTL), one active set per vehicle | `evaluate`, `process_vehicle`, `get_alerts` | both vehicles of a pair load, evaluate and store the same record | an alert follows the reports and ends |
| Historical events | `services/historical_service.py`, `services/historical/*`, `celery_app.sync_ymane_events` | table `historical_events`, circuit breaker | import, Ymane sync, match | a failing source; one bad record in a batch | nothing imported twice; the breaker opens |
| OSD reader and GPS voter | `services/osd_parser.py` | window of fixes of a run | `extract_osd`, `GpsVoter.update` | a wrong first reading | the voted fix follows the readings |
| Settings tables | `api/routes/rejection_reasons.py`, `api/routes/cluster_config.py`, `main.py` | two small tables | seed, create, read-or-create | get-or-create without a lock | the radius is the last one put; the API can start |
| MinIO, geocoding, stats, schemas, demo scripts, deployment | the rest | | | I/O and layout | |

How they meet: `submit_job` publishes a message for the worker; the worker
writes `detections`; reviewers turn detections into `validation_labels`, which
`export_dataset` copies into datasets and `delete_job` removes again.  A vehicle
ping updates, one after the other and in one request, live position, road
state, trajectory, collisions and alerts (`routes/vehicles.py`,
`_update_pipeline`); requests of different vehicles, and those of one vehicle,
interleave at every `await` and meet in the collision and alert records.

## 2. Plan

| # | Module | Models | Status |
|---|---|---|---|
| 1 | `JobPipeline`, `MCJobPipeline`, `JobPipelineProofs` | submission, worker, watchdog, broker | done |
| 2 | `AlertEngine`, `AlertLifecycle`, `AlertService`, `MCAlertService`, `AlertServiceProofs` | alerts of live vehicles; refines `AlertLifecycle` | done |
| 3 | `DetectionReview`, `DatasetExport`, `MCDatasetExport`, `DatasetExportProofs` | reviews, deletion, exports of datasets | done |
| 4 | `SignalementVotes`, `SettingsTables`, `MCTables`, `TablesProofs` | votes and moderation, the radius row, reasons and seeds; theorems: what lost updates cannot lose | done |
| 5 | `LiveVehicles`, `RoadMatch`, `RoadStates`, their MC and Proofs modules | Redis positions with expiry, reuse of a match, cached trajectories; theorem: how far a reused match may be | done |
| 6 | `HistoricalImport`, `MCHistoricalImport`, `HistoricalImportProofs` | imports, deduplication, the periodic sync and its failure counter | done |
| 7 | `GpsVoter`, `Clustering`, `SpatialQueries`, `Prediction`, `Trajectory`, `Detector`, `MCAlgorithms`, `AlgorithmsProofs` | pure algorithms against reference definitions: checked over bounded inputs, proved for all | done |
| 8 | composition of `RoadStates` with `AlertService` | the whole chain of a ping | left out: they meet in one value only, the report, which `Assess` takes as any set of conflicts, while the product of their states is beyond TLC |
| 9 | proofs | done but for liveness (section 5) | done |

## 3. Modules

### JobPipeline

The life of a job over `jobs.py`, `celery_app.py`, `processor.py`,
`watchdog.py`.

| Variable | In the code |
|---|---|
| `row`, `detections` | tables `jobs` and `detections`, as committed |
| `source` | the file `tmp_path` of the job is on disk |
| `submit` | where `submit_job` is: not called, row committed, message published, or lost (broker error, API crash) |
| `age` | how the creation and the stay in "processing" compare with `STALE_JOB_MINUTES` |
| `api`, `stale` | the start of the API and the rows `mark_stale_jobs` holds between its SELECT and its commit |
| `ready`, `unacked`, `sent` | the Celery queue, the unacknowledged messages and the next tag |
| `worker` | per prefork child: program counter, message, the session's copy of the row (`snap`), frame and box, positions recorded (`seen`), uncommitted ones (`pending`), `det_count` |
| `models` | the process-wide `_models`; a model of `Enabled` whose file is missing (not in `Installed`) is never in it |
| `runs` | numbers the runs, so that two runs' rows differ |
| `budget` | how many faults of each kind are left |

A detection is the position `<<frame, box>>` in the video plus the run that
recorded it.  The steps of `process_source` are cut where another process can
see a difference: after `db.get`, at each commit, at the unlink, and per frame
and box inside the loop, so that exceptions and crashes fall between any two.
A commit writes the columns the session changed since its own copy (`Merged`),
as SQLAlchemy does, and fails if the row is gone (`CanCommit`).

After its last commit a run is "closing": the session, the engine and the loop
are still to be closed, and an exception there is retried like any other.

Faults: `raise` (an exception anywhere in the task), `crash` (container),
`kill` (one child), `timeout` (the visibility timeout returns the message of a
running task), `restart` (API), `broker` (publish refused), `delete`
(`delete_job`; bounded like a fault).  Each has a budget, the only bound besides
the constants.


### AlertEngine, AlertLifecycle, AlertService

`AlertEngine` is `services/alerts/engine.py` as operators: `ClassifyLevel`,
`Evaluate`, `Resolve`.  An alert keeps what identifies it and what is compared
(its id, level, whether it is active); texts, times and positions are left out.
`AlertLifecycle` is what `alerts/models.py` promises of one conflict as its
clients hear of it: it appears once, changes, ends once, and comes back under
another id.  `AlertService` is `process_vehicle`, one chain per accepted ping.

| Variable | In the code |
|---|---|
| `cached`, `report` | whether the report of a vehicle is still in Redis, and the `VehicleConflictReport` itself |
| `alert` | the Redis record of a pair, `alert:{pair}` |
| `active`, `lasting` | the Redis set of a vehicle, `alert:active_pairs:{v}`; the vehicles whose set has no expiry |
| `chain` | where a chain is in `process_vehicle`, and its locals |
| `said` | what the notifier said last of a pair |
| `ids`, `happened` | fresh conflict ids; how many assessments, failures and expiries there were, bounded by `Budgets` |

A chain is cut at every Redis command: load and store of an alert, `smembers`,
`delete`, `sadd` and `expire` are steps of their own.  Any number of chains run at
once, of the same vehicle too: every ping schedules a background task that nothing
serialises, and `/alerts/{id}/refresh` runs one more.  What `collision_service` finds
is an arbitrary set of pairs with a time and a risk each (`Assess`); its expiry is
`ForgetReport`.  A chain may fail anywhere (`_update_pipeline` swallows the exception),
and the two kinds of keys may expire at any time, a set only once `expire` was called.


### DetectionReview, DatasetExport

`DetectionReview` has the handlers that change a detection after the worker
stored it, `DatasetExport` extends it with `export_dataset`, which copies the
labels the reviews write.

| Variable | In the code |
|---|---|
| `jobs`, `present` | which rows of `jobs` and `detections` there are |
| `status`, `located` | `review_status` of a detection, and whether it has a latitude |
| `label` | its row of `validation_labels` (`detection_id` is unique) |
| `req` | where a request is, the rows it read and the columns it will write |
| `left` | how many more requests there may be |
| `manifest` | the objects under `{type}/v1` in MinIO: the label they give each detection |
| `export` | where each export is and the labels it read |

A handler is cut at its awaits: the checks on the row it read, the label it
read, the commit.  At the commit it writes the columns whose value it changed
(SQLAlchemy leaves the others out) on whatever the row is by then, or fails
because a row is gone or a key is violated.  `delete_job` is one transaction:
`DeleteLabels` takes the row locks, `FinishDelete` makes all of it visible or
`DeleteFails` none.  Of `export_dataset` the part from the last row read to the
last object written is one step, because the MinIO client blocks the event loop.
Nothing keeps two exports apart.

No export gets past its commit: each sample binds the label's float
`model_confidence` to a column that `models/dataset.py:41` declares as String, and
asyncpg takes no float for text.  So `datasets` and `dataset_samples` stay empty, the
version an export reads is always 1, no foreign key of a sample ever keeps a label,
and what there is of a dataset is its objects.


### LiveVehicles

`LiveVehicles` is `vehicle_service` with its routes.  A ping is cut at each Redis
command (`geoadd`, `hset`, `expire`, `set nx`) and at the write of `last_seen`; a
search at the geo query and at each `hgetall` and `zrem`.

| Variable | In the code |
|---|---|
| `registered`, `seen` | the rows of `vehicles`, and those with a `last_seen` |
| `geo` | members of `vehicles:live:geo`, which never expire |
| `live`, `liveTtl` | the vehicles with a hash `vehicle:live:{v}`, and the ticks it has left |
| `seenTtl` | ticks left to `vehicle:lastseen_throttle:{v}` |
| `req` | where a request is: the vehicle of a ping, the members a search has still to look up |
| `failures` | requests that ended half way |

Positions are left out: a radius search may find any subset of the members, which
includes `query_all_live`, the set of all.  A search looks its hits up in any order.

### RoadMatch, RoadStates

`RoadMatch` is `match_vehicle_to_road` as an operator: from a telemetry and the
previous state to the set of states it may return, one per answer OSRM may give.
`RoadStates` has what calls it: the background task of a ping up to the
stored trajectory, and the requests that read or recompute the same keys.

| Variable | In the code |
|---|---|
| `live` | the telemetry of `vehicle:live:{v}` |
| `road`, `roadTtl` | `road_state:{v}` and the ticks it has left |
| `trajectory`, `trajectoryTtl` | `trajectory:{v}`, as the age of its telemetry and its status |
| `summary`, `summaryTtl` | the rows of `vehicle_road_states`, and the throttle key |
| `task` | where a task is, and its locals |
| `pings` | bounds a behaviour |

A position is a point on a line, a road the position it was matched at; names,
segments, bearings and the points of a trajectory are left out.  Time is kept as
the age of each telemetry, which `Tick` increases everywhere it is held, up to
`AgeCap`: above the largest age any comparison looks at.  `reused` counts the
reuses of a match up to `ReuseCap`; it is in no record of the code and is kept for `DriftPerReuse`, as is `waited`, the time the store of a trajectory took, for `MotionIsRecent`.  What OSRM will answer is chosen when the cached state has been
read; the wait for it is a step of its own (`AwaitMatch`), so that other tasks and
any number of ticks come before the store.  So is the store of a trajectory (`StoreTrajectory`); the two reads before the prediction decide nothing but which of the possible `Predictions` it is, and any number of ticks may pass before it.  The vehicle expires at any time
(`Disappear`); why and when is `LiveVehicles`.  The sample of the last speed
(`trajectory:prev_speed:{v}`) feeds acceleration and confidence, which are in `Trajectory`.


### HistoricalImport

`HistoricalImport` is `historical_service.import_events` over its two sources, with
what starts it: the periodic `sync_ymane_events` in each child of the worker, and
`POST /historical/import`.  An import is cut at its awaits, at each page of Ymane and
where the session writes: `db.add` only leaves a row to the next SELECT (autoflush) or
to the commit.

| Variable | In the code |
|---|---|
| `today`, `ymane` | the date, and the exceptions Ymane holds in the order of their ids |
| `rows` | how many committed rows of `historical_events` each key has |
| `failures` | `historical:ymane:consecutive_failures` |
| `stuck` | children whose module-wide Redis client belongs to a closed event loop |
| `run` | where an import is, its range, its cursor, the events to go, what is pending or inserted |
| `since`, `faults` | the first day that was asked for, and what went wrong; both only for the properties and bounds |

What a record may be is its `kind`: without coordinates (skipped), with a start date that
`fromtimestamp` refuses (raises out of `fetch`), without a cell (`match_event` raises, caught),
with a value that no column takes, without `exceptionid` (its key is a salted hash), or
good.  Outside the code stand Ymane (pages by id), PostgreSQL (an INSERT of a key waits
for the transaction that holds it, then fails; a circle of such waits is broken) and
Celery.  A late event, a fault and a request through the API come a bounded number of
times (`Suffer`), and a sync that began before a midnight is over before the next one.


### GpsVoter, Clustering, SpatialQueries, Prediction, Trajectory, Detector

The algorithms without state are operators over sequences, in a module each, on the
integer plane of `Plane`; a loop is a recursive function of how far it has come.

| Module | Operators | In the code |
|---|---|---|
| `GpsVoter` | `Update`, `AfterReadings` | `GpsVoter.update` over the frames of a video |
| `Clustering` | `Group`, `ClusterDetections` | `cluster_detections`, a cluster as the set of its members |
| `Prediction` | `PointAtDistance`, `SliceFrom`, `BuildForwardPath`, `BuildBackwardPath`, `SegmentIdAt`, `Kinematics`, `PredictPoints` | the path, the motion and the loop over the horizons of `predict_trajectory` |
| `SpatialQueries` | `InBox`, `NearSegment`, `QueryNearby`, `QueryAlongRoute`, `QuerySignalementsAlongRoute` | the box and the distance of the queries over detections and signalements |
| `Trajectory` | `ResolveAcceleration`, `Confidence`, `StatusOf`, `PredictTrajectory` | the rest of `predict_trajectory`: a confidence is a product of whole numbers, `Certain` is 1.0 |
| `Detector` | `CpaInInterval`, `Moments`, `Best`, `Classify`, `AssessConflict` | `assess_conflict` with `_cpa_in_interval` and `_classify` |

`Prediction` counts in half metres along streets that follow an axis, `Detector` in
fractions, so that neither rounds.  Below a line each module has the reference it is
compared with: for a road the walk along it half a metre at a time, for a motion its
sum over the seconds, for two trajectories the distance at each quarter of an
interval, for a corridor all points of a street that may be closest.  `MCAlgorithms` grows the inputs one element a step; for `Trajectory` a step is a second that passes.


### SignalementVotes, SettingsTables

The small tables that requests read, change in Python and write back.  Nothing is
locked, and a session writes the columns that differ from what it has read
(`Written`); a request that fails writes nothing.

`SignalementVotes` is `routes/signalements.py`.

| Variable | In the code |
|---|---|
| `row` | table `signalements`: status, the two counters, whether and how it was moderated |
| `req` | what a request has read, and what it is about to commit |
| `left` | bound: requests still to come |
| `cast`, `rounds`, `counted` | ghosts: votes committed, and groups of overlapping votes of which one was committed |

`Read*` is the `db.get` of a route, `Commit*` its commit; between them everything else
may happen.  `Fail` is a failing database, or the row gone.

`SettingsTables` is `routes/cluster_config.py`, `routes/rejection_reasons.py` and the
seeding in `main.py`.

| Variable | In the code |
|---|---|
| `up` | the API has run `lifespan` |
| `radius` | the row of `cluster_config`, `NoRow` without one |
| `reasons` | how many rows of `rejection_reasons` have a code |
| `client` | where a request is |
| `racers` | ghost: how many POSTs of a code were past the check when its first row went in |
| `put`, `answered`, `superseded` | ghosts: the PUTs in order, those answered, those a later answered one knew of |
| `quota` | bound: requests and starts left |

`CreateRow` needs that the row is still missing: the primary key refuses a second one, and
the request fails.  `InsertReason` needs nothing: there is no such key.

## 4. Runs

The type invariant of each module and `WithdrawnForAReason` are proved for every value of
the constants (section 5) and not checked again by a run.

### Jobs

| Run | Checks | Instance and why it is enough |
|---|---|---|
| `JobsEverything` | `DoneCovers`, `CounterBacked`, `OneRunPerJob`, `UnlinkAfterAnalysis`, `NeverReopened` | one job, two workers, one fault of each kind (a refusing broker is in `JobsSettle`); two frames and five boxes (one filtered, one of a model without a file, two within the radius, one pixel-deduplicated); progress is committed at frame 2. Redelivery with two workers gives two runs of one job, the retry a third |
| `JobsSettle` | `JobsSettle` (liveness) | one job, two workers, one exception, crash, restart, deletion and broker error; `MaxRetries = 1` covers the exception |

Fairness (`Fairness` in `JobPipeline`): the event loop finishes a request it
accepted, the starting API finishes `mark_stale_jobs`, the broker returns
messages of dead workers (visibility timeout), some idle worker takes a waiting
message and a busy worker goes on.  All are weak: each step stays enabled until
taken.  Nothing forces an API restart, a fault, or time to pass.
Deadlock checking is off where the system may stop: all jobs settled and all
faults spent.


### Alerts

| Run | Checks | Instance and why it is enough |
|---|---|---|
| `AlertsOneChain` | `LifecycleSpec` (refinement), `ViewsAgree`, `OneConflictPerId` | three vehicles, three pairs, one chain at a time, three levels, a report that is computed once more, no more than two conflicts (`FewConflicts`), up to symmetry: two pairs are enough to share an id, and a pair that was resolved by one vehicle comes back by the other's report |
| `AlertsOverlap` | `AlertsEnd`, `ChainsEndAlerts`, `AlertFollows` (liveness), `SetsExpire` | one pair, two chains of either or of both vehicles; a report is computed once more and then a key expires, or a report expires, or a chain fails (`Budgets`); a chain that finds no report always computes one |

`AlertsEnd` holds whatever overlaps, because every store gives the record an expiry; it
says nothing once the behaviour has used up its expiries (`MayExpire`).  That the chains
end an alert themselves is true only while no two of one vehicle overlap, which is the
premise of `ChainsEndAlerts`: the run has the histories in which they do overlap, and the
property leaves them to `AlertsEnd`.  `LifecycleSpec` and `ViewsAgree` are about histories
in which chains run one after the other: two that overlap may announce a conflict twice
(section 6).  `OneConflictPerId` needs no such bound, and is proved without it.

Fairness: a chain that started goes on (weak, per chain), because the event
loop runs its tasks; a chain of every vehicle starts again and again (strong), because a
vehicle that is there keeps pinging, also when a chain of it is running at that moment;
a record that is not written any more expires (weak, for the expiry or a write), because
Redis counts the seconds since the last one.  Nothing forces an assessment, a failure
or the expiry of a record that is written again and again.


### Reviews and datasets

| Run | Checks | Instance and why it is enough |
|---|---|---|
| `DatasetsReviewed` | `LocatedWhenValidated`, `ValidatedIsLabelled`, `ManifestAgrees` | two detections of two jobs, one stored without coordinates; two labels; two requests at once and five in all, and any number of exports, two at once, up to symmetry. Two requests meet in one row, a third prepares it, two follow; one export overwrites the objects of another |
| `DatasetsOverwritten` | `SnapshotsAreImmutable` (violated) | the same with three requests (section 6) |

No liveness is claimed: a client need not send anything.


### Live vehicles and road states

| Run | Checks | Instance and why it is enough |
|---|---|---|
| `LivePings` | `ImmortalOnlyByFailure`, `LiveHasBeenSeen`, `GoneVehiclesVanish`, `ListedAgain` (liveness) | two vehicles, two requests at once, one failure, lifetimes of three and two ticks: a search meets a ping of the same vehicle in every order, with a tick anywhere, and a second vehicle shares the geo set |
| `RoadsOverlap` | `DriftPerReuse`, `MotionIsRecent` | one vehicle, two tasks, two pings and any number of requests; three positions, reuse within one of them; telemetry of any age is stale for a match and for a prediction, road states live two ticks. Tasks of different vehicles share no key |
| `RoadsDrift` | `ReusedIsNear` | one task at a time and three pings; expected to be violated, see section 6 |

Fairness of `LivePings`: a running request goes on, because Redis and the event loop
answer, and time passes.  No client is obliged to call: `GoneVehiclesVanish` assumes
that searches go on finding what is listed, as nothing else removes a member of the
geo set; `ListedAgain` needs no more, because a vehicle stays live only by
pinging.


### Imports

| Run | Checks | Instance and why it is enough |
|---|---|---|
| `Imports` | `NothingTwice`, `SyncedIsStored`, `NoGaps` | two children and one request; three events over two days, pages of two, so that an import has a second page; one fault besides a restart of the worker (a refused call, a late or odd record, a crash, an import through the API). Two imports meet in one key at every step of their transactions, in both orders of the keys |

No liveness is claimed: beat, Ymane and the restart of a container are not the code's.


### Algorithms

| Run | Checks | Instance and why it is enough |
|---|---|---|
| `Algorithms` | `EstimateIsNear`, `SteadyReadingsAreKept` | five frames on a 4 x 3 grid, some unread, a window of three: the window overflows, latitude and longitude have different medians, a vehicle leaves the reach of its oldest fix |
| | `GroupingIsSound` | five rows on a 3 x 3 grid, in every order: chains of neighbours whose ends are not near |
| | `SearchIsClose` | up to three waypoints on a 3 x 3 grid, the same one twice too, a circle around the first; rows at every place up to two units away and some about 890 units away, where the box of a width of 891 ends, shown or not; widths of nothing, up to three units, and 891 |
| | `PredictionAgesWell` | telemetry with and without each field, good, degraded and failed matches, a road that ends and one that ends only for a vehicle that accelerates, every age in seconds up to beyond all bounds |
| | `PointsAreOnTheRoad` | roads of three legs with corners, a new segment at any leg, also empty and without length; every position, both directions, every speed up to beyond the limit, braking and accelerating, two ages |
| | `KinematicsIntegrates` | every speed and acceleration over five seconds: stops and limits in the middle |
| | `ClosestIsFound`, `CloseMomentsAreReported` | two trajectories of up to three samples over five places, either one shorter, stale, unusable or uncertain |


### Tables

| Run | Checks | Instance and why it is enough |
|---|---|---|
| `Tables` | `EveryRoundCounts`, `EnoughRoundsWithdraw`, `OffTheMapForGood` | one report, three requests at a time out of seven, threshold three: counters go up, get lost and go down, and a threshold is reached while a moderation and a slow vote are open |
| | `LastPutStands`, `OverlapBoundsDuplicates`, `SeedsAreUnique` | three clients, four requests, two starts, two radii, of which one is the default, a seed and a custom code: two first readers, a PUT in between, a code made twice or thrice, by requests that were past the check when its first row went in and by no later one |

The two tables have nothing in common; a behaviour of a run is one of either.

## 5. Proofs

### Jobs

`JobPipelineProofs` proves, for any set of jobs and videos, any number of
workers and any budget of faults, from `JobAssumption` (the types of the
constants) alone:

* `TypeCorrect`: `Spec => []TypeOK`.
* `DoneJobsAreCovered`: `Spec => []DoneCovers`.  Not inductive alone: the
  strengthening `CoverInv` adds what the loop knows (`LoopCovers`: the frames
  and boxes left behind are covered by `seen`), what the session keeps
  (`SeenIsKept`: `seen` is committed or pending, as long as the row exists) and
  that only jobs already submitted have messages (`EnqueuedOnly`), so that a
  deleted row never comes back under a running worker.
* `FileGoesLast`: `Spec => UnlinkAfterAnalysis`, from the same invariant.
* `OneRunAtATime`: `Spec => []OneRunPerJob`, from `DeliveryInv`: tags are fresh,
  and until a crash or a redelivery behind a worker's back every unacknowledged
  message is held by the one worker that runs it and a job has at most one live
  message (`OneDelivery`).  `Abort` is the delicate step: the copy is published
  before the original is acknowledged, so `Live` must not count the original.

* `CountersAreBacked`: `Spec => []CounterBacked`.  `CounterInv` adds that the table is
  finite and that a run counts what it has seen; with `SeenIsKept` a commit that writes
  the counter has stored as many positions, and one that does not (`Merge`) can only
  add rows.  A box is never counted twice because it is within its own distance.
* `DoneIsNeverReopened`: `Spec => NeverReopened`.  `Unlinked` is the strengthening: the
  file of a run past its last frame and of a done job is gone, and `submit_job`, the only
  one to write it, has run; so no run can open it, and opening is the one commit that
  writes "processing" (`ReopensOnlyByOpening`).

`ModelsLoaded` (a run that reads frames has loaded the enabled models that have a file)
is what makes a box that is not recorded a filtered or a duplicate one.
`CoverInv` and `DeliveryInv` were checked by TLC as invariants of the two large
instances before they were proved.  Everything under fairness is model-checked only:
liveness and `ENABLED` are out of the prover's reach.


### Alerts

`AlertServiceProofs` proves for any vehicles, pairs, chains and budgets:

* `TypeCorrect`: `Spec => []TypeOK`.
* `IdsTellPairsApart`: `Spec => []OneConflictPerId`, with any chains at once, failures
  and expiry.  What is stored and told is not inductive: a chain that has evaluated a
  pair holds an id not stored yet.  `ConflictInv` is about all ids in use (`Uses`):
  each is one that was made, and none but 0 is used for two pairs.
* `ActiveSetsExpire`: `Spec => []SetsExpire`, inductive together with the types.
* `CloserIsNoBetter`, `NeverBelowTheFloor`: the level of an alert for every time
  and risk, over any order of bands; no run could enumerate them.

`LifecycleSpec` and `ViewsAgree` are checked by TLC only, and so is liveness:
`AlertsEnd`, `ChainsEndAlerts`, `AlertFollows`.


### Reviews and datasets

`DatasetExportProofs` proves for any detections, jobs, labels, exporters and number of
requests:

* `TypeCorrect`: `Spec => []TypeOK`; `ExportsTypeCorrect`: `Spec => []ExportTypeOK`.
* `ValidatedHaveLabels`, `ValidatedAreLocated`: `ReviewInv` adds what a request
  may rely on between its read and its commit (`Sound`): a review that read a
  label still finds it unless the row is gone, one that found coordinates
  still finds them, a deletion holds labels of its own job only.  `Sound`
  survives the steps of the others because coordinates are never taken away,
  rows do not come back, and a label goes only with its row (`Monotone`).
* `ManifestsAgree`: `Spec => []ManifestAgrees`, with any exports at once.  The
  label of a detection is never replaced while it exists, so that what an export
  read, or left in MinIO, still is the label of every detection that has not gone.

`ReviewInv` was checked by TLC on an instance before it was proved.


### Live vehicles and road states

`LiveVehiclesProofs` proves, for any vehicles, requests, lifetimes and failures,
`TypeCorrect`, `NoGhosts` (`[]ImmortalOnlyByFailure`) and `FirstPingIsSeen`
(`[]LiveHasBeenSeen`).  The inductive invariant adds that the vehicle of a running
ping is registered (`PingsRegistered`), without which the rows of Redis need not
be, and that a throttle key means that `last_seen` is written or about to be
(`ThrottleMeansSeen`), without which the ping that is refused by the throttle could
be the first.

`RoadStatesProofs` proves, for any positions, settings, tasks and answers of OSRM:

* `TypeCorrect`: `Spec => []TypeOK`.
* `DriftIsBounded`: `Spec => []DriftPerReuse`.  It is inductive as stated because it
  covers the states that tasks hold as well as the cached ones; `MatchIsAState` has
  the argument, the triangle inequality on the line from one reuse to the next.
* `MotionRestsOnFreshTelemetry`: `Spec => []MotionIsRecent`.  It needs that
  every cached trajectory has a time to live (`TrajectoriesExpire`), the sum of age
  and remaining life then never grows, and that a trajectory which waits for its store
  is no older than fresh telemetry plus its wait (`WaitingAreFresh`).

The liveness properties of `LivePings` are checked by TLC only.


### Imports

`HistoricalImportProofs` proves for any children, requests, events, days and page sizes:

* `TypeCorrect`: `Spec => []TypeOK`.
* `EventsAreStoredOnce`: `Spec => []NothingTwice`.  `Separate` is the strengthening: what a
  transaction has inserted is not stored yet, and no two transactions hold one key.
* `SyncMissesNothing`: `Spec => []SyncedIsStored`.  `Accounted` follows each event a sync
  was promised through the import: it is still to be fetched (above the cursor), or
  listed, held by the transaction or stored.  The lemma about the cursor
  (`CursorLeavesTheRest`) also covers a page that ends with a record without id.

* `CheckpointHidesNothing`: `Spec => []NoGaps`.  `Continuous` is the strengthening, as
  long as only syncs store events and none comes late: no event is later than today; a
  sync asks for all days of its range but the last (`AsksForAll`), at most one midnight
  has passed since it read the checkpoint (`KeepsToItsRange`), and before its range
  nothing is missing (`SkipsNothing`); of two syncs that both found an empty table the
  ranges differ by a day at most, which is what `SkipsNothing` says with no event
  stored.


### Algorithms

`AlgorithmsProofs` has two layers: a theorem for each algorithm, about any input of its
type, and for each invariant of the run `Spec => []...`, from `InputOK`: every input the
model reaches is of that type (`InputsFit`).

| Theorem of the algorithm | Invariant of the run | Argument |
|---|---|---|
| `InterpolationIsNear`, `SteadyVehicleIsKept` | `EstimateIsNear`, `SteadyReadingsAreKept` | `Outlier` bounds the step between two fixes of a window, so `k` fixes apart are `k` jumps apart; a median is found by counting what is below it (`MedianIsBetween`), and it has an element at or before it on either side |
| `ClusteringIsSound` | `GroupingIsSound` | after `n` rows the clusters cover the first `n` and whatever their seeds took, are disjoint, and have only what is near their seeds; `Visit` keeps that, and a part of a cluster is next to the rest of it at the seed |
| `RowsWellInsideAreFound`, `RowsOutsideAreLeft` | `SearchIsClose` | Lagrange's identity: the distance of a projection is that of the closest of the points of a street; who is near in the plane is near in each coordinate |
| `ApproachIsFirst`, `NoMomentIsCloser`, `CloseIsReportedAlways` | `ClosestIsFound`, `CloseMomentsAreReported` | `Closer` compares by cross products and is an order; within an interval the distance is a parabola, whose lowest point `CpaInInterval` clamps |
| `PointsFollowTheRoad` | `PointsAreOnTheRoad` | between two vertices a path is straight, and each vertex is on the walk at its own distance (`Course`); building, slicing (`SliceFollows`), joining and reversing (`BackFollows`) keep that, and the distances at which segments begin (`Marked`), which `bisect_right` counts; who never moves back leaves the road once |
| `MotionIsIntegrated` | `KinematicsIntegrates` | the sum over the seconds has the closed form of `Travelled` until the stop or the limit |
| `PredictionsAge`, `StatusesKeepTheirWord` | `PredictionAgesWell` | distance grows with time, so that fewer points fit; each factor of the confidence falls with age |

What they assume.  The bounds of the code are ordered as its settings are
(`TrajectoryAssumption`: `FreshAge < StaleAge <= MaxSampleAge`).
A box reaches less far than its width by 1.1 per mille, so that a query may lose what is inside
by less than that (section 6); `RowsWellInsideAreFound` is about the rest, for any width.
`MotionIsIntegrated` needs a vehicle that stops, and reaches the limit, after whole
seconds (`WholeStops`): the model divides whole numbers.

Loops are recursive functions; what one computes is proved by induction over how far it has
come, as the set of the numbers for which it holds (`NumberInduction`), since the theorems of the
library that take an operator cannot be instantiated.

The walk of `PointsFollowTheRoad` takes legs of any whole length to the east or the north,
also of none, and any of them may open a segment (`Surveyed` names what is known of it:
the distance and the position at the end of each leg, and the last leg of each segment).


### Signalements and settings

`TablesProofs`.  The votes, for any reports, requests and threshold: `VotesTypeOK`,
`EveryRoundCounts`, `EnoughRoundsWithdraw`, `WithdrawnForAReason` and
`OffTheMapForGood`.  That a counter is at least the number of rounds is not inductive: a
vote writes what it read long ago.  `VotesInv` adds that whoever is voting has read at
least the rounds before its own (`VotesSawRounds`), and that whoever has read a withdrawn
row commits to a withdrawn one (`WithdrawnIsKept`).

The settings, for any finite set of clients: `SettingsTypeOK`,
`LastPutStands`, `OverlapBoundsDuplicates`, `SeedsAreUnique`.  `SettingsInv` adds who wrote
the radius and that whoever started after it has read it (`RadiusHasAuthor`), that PUTs
answer in an order (`PutsInOrder`), that the seeds are there while the API is up, and that
the rows of a code and those about to be inserted are together no more than were past the
check when the first of them went in (`DuplicatesToCome`).

## 6. Where code and documentation disagree

Two runs are expected to be violated; PROJECT.json quotes the lines.

* `DatasetsOverwritten` (`dataset_service.py:4`, "immutable versioned snapshot";
  `models/dataset.py:13-14`, "never modified"): two exports at once take the same version
  and write its objects, and so does one that follows an export whose insert failed.
* `RoadsDrift` (`config.py:59-60`, "since its last GOOD/DEGRADED match"): the
  distance is measured from the telemetry of the last reuse, not from that of the
  match, so that a vehicle that moves less than 15 m between two pings is never
  matched again while each ping comes within 5 s.

The modules also have the behaviour below, against the lines quoted.  Each is a step or a
value of the model, and no property claims the contrary.

* `celery_app.py:19`, "ack only after task completes — safe retries": a delivery repeated
  after the last commit, be it for a crash before the acknowledgement or an exception while
  the run closes (48-59, 72-76), finds no file and turns done into failed.  A retry after a
  failed batch records the boxes committed before it once more.
* `alerts/models.py:37`, "terminal": a chain that loaded an alert before another one resolved
  it stores it as active again.  `alerts/models.py:4-5`, "one evolving event per conflict":
  two chains load the empty alert of a pair before either stores, and announce it under two
  ids.  `alert_service.py:9-11`, "gets explicitly resolved": of two overlapping chains of one
  vehicle the one without the pair deletes the set the other has written; the alert ends by
  its expiry, and nobody is told.
* `detections.py:287`, "Writes a ValidationLabel row", and `validation_label.py:18`, "written at
  review time": the second review of a detection whose first was undone does not write its
  label.
* `vehicle_service.py:8-9`, "should simply disappear": a ping that ends between `hset` and
  `expire` leaves a hash that never expires.  `vehicle_service.py:112`, "All currently-live
  vehicles": a search removes a vehicle that has just pinged from the geo set, until its next
  ping.
* `rejection_reasons.py:56`, "Prevent duplicate codes per type": two requests that overlap
  store a code twice, and every later request for it fails.
* `osd_parser.py:319-320`, "between consecutive frames": a reading is compared with the last
  one that was kept, so that after a wrong first fix, or a gap longer than `MAX_JUMP`, every
  later one of the video is refused.
* `spatial.py:232`, "Greedy single-linkage clustering": a row is compared with the seed of a
  cluster only, so that near rows may be in two.
* `spatial.py:80-82`, "within `radius_m` metres": the box takes 111320 m a degree, the distance
  111195 m, so that a row 499.6 m due north is lost from a search of 500 m.
* `spatial_signalement.py:4`, "Only 'actif' signalements are returned": the search along a route
  has no condition on the status.
* `core/config.py:155-156`, "one 80m away closing in 2s is still worth flagging as HIGH": beyond
  30 m no time makes a conflict HIGH; that one is LOW.

Also met while modelling: a crash between the unlink
of a video and its last commit loses the job (`processor.py:364`); a header that claims no
frames makes every run of the job fail (`processor.py:361`); the watchdog
measures the age of the row, not of the processing (`watchdog.py:23`); an
exception leaves the models loaded (`processor.py:37`); the job of a killed child
stays in processing while the API is up; the source of one frame is done with
nothing analysed (`processor.py:242`); one missed detection resolves an alert at once
(`config.py:185-187`); no export gets past its commit with asyncpg
(`models/dataset.py:41`).  One vehicle's report without the pair resolves the
alert, against "either vehicle's" (`engine.py:158-159`).  The geo set never expires, against "both TTL'd" (`vehicle_service.py:7`).  The age that limits a derived acceleration is that of the
telemetry, not of the sample (`predictor.py:174`, against `config.py:135-138`).
Overlapping tasks of one vehicle may store the older road state last.

Imports: one row that PostgreSQL refuses poisons the session, so that the whole batch is
lost, against "One bad event doesn't abort the batch" (`historical_service.py:59`); for
Ymane it is fetched again by each run, and the failure counter is not touched.  A start
date out of range raises out of `fetch`, against "Never raises" (`ymane.py:101`).  Each
failed page logs in again, against "logs in at most once per run" (`celery_app.py:83-84`).
The Redis client of a child belongs to the event loop of its first sync, which is closed:
the second one fails.  An import through the API ignores the circuit breaker, and a late
event or a narrow import leaves a gap before the checkpoint.  A record without
`exceptionid` gets a hash that differs from process to process, and is imported again.

Algorithms: only the closest moment is classified, so that an earlier one
within the HIGH distance may be reported as MODERATE.  Trajectories are paired by their offsets,
although they were made up to `TRAJECTORY_TTL_S` apart.  A diagonal leg may miss a cell
beside it, and an event its cell, which takes the longitude step of its own latitude,
against "Every grid cell" (`historical_service.py:193`).  A stale trajectory has a
confidence of 5 % at most, below `COLLISION_MIN_CONFIDENCE_TO_REPORT`, so that the detector,
which lists STALE as only degrading (`detector.py:40`), never reports one; the bound of
12 s on the age of a derived acceleration never decides, because motion is not extrapolated
beyond 10 s.

Signalements and settings: votes that overlap are lost, and a slow one takes a counter
down.  A moderated report is still voted on, and not-there votes turn a rejected one into
a cancelled one; of two overlapping moderations the report may keep the status of one and
the note of the other.  A detection that was undone or rejected keeps the label it is exported with.

## 7. What is not modelled

* YOLO, OCR, text parsing and image drawing: no state of the system; a frame is the
  sequence of boxes the detectors would report.
* Context clips, crops and uploads of the worker (`_save_context_clip`, `_save_crop`,
  `minio_service`): a failure is an exception of the run or is swallowed without
  changing state.
* Deadlocks of row locks inside PostgreSQL: it fails one of the two requests, and
  a failing request changes nothing.
* Trigonometry and rounding of `osrm/geo.py` and the grid of historical events:
  distances are those of a plane, headings are left out.
* Where the previous speed of a vehicle is kept (`trajectory:prev_speed:{v}`): a
  prediction in `Trajectory` takes any earlier speed, or none.
* Centroids of clusters, and the routes that load rows by the ids a query found.
* Reading the text of a frame (`parse_gps_text`): a reading is a position or none.
* The OSRM client with its response cache, road names, segments and bearings: a
  match is the set of answers it may be made of.
* Telemetry with a timestamp in the future: ages are not negative.
* Geocoding, `stats.py`, `schemas.py`, `health.py`: read-only.
* Demo scripts, deployment scripts, landing pages.
