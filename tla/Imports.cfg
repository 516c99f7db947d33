\* Two children and the API import while events arrive, runs crash and Ymane refuses.
CONSTANTS
  a = a
  b = b
  q = q
  Children = {a, b}
  Requests = {q}
  Bodies <- NewestFirst
  LastDay = 1
  MaxEvents = 3
  PageSize = 2
  MaxFailures = 1
  MaxFaults = 1
SPECIFICATION Spec
INVARIANTS NothingTwice SyncedIsStored NoGaps
SYMMETRY ChildSymmetry
CHECK_DEADLOCK FALSE
