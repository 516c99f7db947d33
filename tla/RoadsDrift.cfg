\* A vehicle that moves a little between its pings.
CONSTANTS
  va = va
  k1 = k1
  k2 = k2
  Vehicles = {va}
  Tasks = {k1}
  Positions = {0, 1, 2}
  MatchDistance = 1
  TraceDistance = 0
  MatchInterval = 0
  StaleMatch = 1
  AgeCap = 3
  ReuseCap = 2
  RoadTtl = 2
  TrajectoryTtl = 1
  FreshTelemetry = 0
  StaleTelemetry = 0
  RoadDbThrottle = 1
  Delays = {0}
  MaxPings = 3
SPECIFICATION Spec
INVARIANTS ReusedIsNear
CHECK_DEADLOCK FALSE
