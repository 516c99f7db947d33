\* The objects of a version are written again.
CONSTANTS
  d1 = d1
  d2 = d2
  j1 = j1
  j2 = j2
  r1 = r1
  r2 = r2
  e1 = e1
  e2 = e2
  Detections = {d1, d2}
  Jobs = {j1, j2}
  JobOf <- JobEach
  WithGps = {d1}
  Labels = {"pothole", "not_pothole"}
  Verdicts = {"pending", "validated", "rejected", "resolved"}
  Requests = {r1, r2}
  MaxRequests = 3
  Exporters = {e1, e2}
SPECIFICATION Spec
PROPERTIES SnapshotsAreImmutable
SYMMETRY Symmetry
CHECK_DEADLOCK FALSE
