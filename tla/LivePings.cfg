\* Two requests at a time, one of which may end half way.
CONSTANTS
  va = va
  vb = vb
  r1 = r1
  r2 = r2
  Vehicles = {va, vb}
  Requests = {r1, r2}
  LiveTtl = 3
  LastSeenThrottle = 2
  MaxFailures = 1
SPECIFICATION FairSpec
INVARIANTS ImmortalOnlyByFailure LiveHasBeenSeen
PROPERTIES GoneVehiclesVanish ListedAgain
CHECK_DEADLOCK FALSE
