\* Three requests at a time, on one report or on the settings.
CONSTANTS
  s1 = s1
  r1 = r1
  r2 = r2
  r3 = r3
  q1 = q1
  q2 = q2
  q3 = q3
  Reports = {s1}
  Requests = {r1, r2, r3}
  MaxRequests = 7
  Threshold = 3
  Clients = {q1, q2, q3}
  MaxSettings = 4
  MaxStarts = 2
  Radii = {20, 50}
  Default = 50
  Seeds = {"shadow"}
  Custom = {"mud"}
SPECIFICATION Spec
INVARIANTS EveryRoundCounts EnoughRoundsWithdraw LastPutStands OverlapBoundsDuplicates SeedsAreUnique
PROPERTIES OffTheMapForGood
SYMMETRY RequestSymmetry
CHECK_DEADLOCK FALSE
