\* Two tasks of one vehicle.
CONSTANTS
  va = va
  k1 = k1
  k2 = k2
  Vehicles = {va}
  Tasks = {k1, k2}
  Positions = {0, 1, 2}
  MatchDistance = 1
  TraceDistance = 0
  MatchInterval = 0
  StaleMatch = 0
  AgeCap = 2
  ReuseCap = 2
  RoadTtl = 2
  TrajectoryTtl = 1
  FreshTelemetry = 0
  StaleTelemetry = 0
  RoadDbThrottle = 1
  Delays = {0}
  MaxPings = 2
SPECIFICATION Spec
INVARIANTS DriftPerReuse MotionIsRecent
CHECK_DEADLOCK FALSE
SYMMETRY TaskSymmetry
