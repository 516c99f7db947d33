\* Two detections of two jobs, two requests and two exports at once.
CONSTANTS
  d1 = d1
  d2 = d2
  j1 = j1
  j2 = j2
  r1 = r1
  r2 = r2
  e1 = e1
  e2 = e2
  Detections = {d1, d2}
  Jobs = {j1, j2}
  JobOf <- JobEach
  WithGps = {d1}
  Labels = {"pothole", "not_pothole"}
  Verdicts = {"pending", "validated", "rejected", "resolved"}
  Requests = {r1, r2}
  MaxRequests = 5
  Exporters = {e1, e2}
SPECIFICATION Spec
INVARIANTS LocatedWhenValidated ValidatedIsLabelled ManifestAgrees
SYMMETRY Symmetry
CHECK_DEADLOCK FALSE
