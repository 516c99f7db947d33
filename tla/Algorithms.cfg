\* Every input up to a few elements.
CONSTANTS
  Window = 3
  MaxJump = 1
  Radius = 1
  VMax = 2
  Horizons <- ThreeHorizons
  CriticalDistance = 0
  HighDistance = 1
  ModerateDistance = 2
  LowDistance = 3
  CriticalTtc = 2
  HighTtc = 3
  MinConfidence = 1
  Widths = {0, 1, 2, 3, 891}
  MaxReadings = 5
  MaxPoints = 5
  MaxLegs = 3
  MaxSeconds = 5
  MaxSamples = 3
  MaxWaypoints = 3
  FreshAge = 4
  StaleAge = 10
  MaxSampleAge = 12
  MinSampleDt = 1
  MaxAccel = 1
  MaxDecel = 1
  None = None
  LeastReported = 15
SPECIFICATION Spec
INVARIANTS EstimateIsNear SteadyReadingsAreKept GroupingIsSound SearchIsClose PointsAreOnTheRoad KinematicsIntegrates PredictionAgesWell ClosestIsFound CloseMomentsAreReported
CHECK_DEADLOCK FALSE
