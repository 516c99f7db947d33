\* Faults that redelivery and retries are meant to absorb.
CONSTANTS
  j1 = j1
  j2 = j2
  w1 = w1
  w2 = w2
  Jobs = {j1}
  Workers = {w1, w2}
  Video <- MCShortRoad
  FrameCount <- MCFrameCount
  Enabled <- MCEnabled
  Installed <- MCInstalled
  Corrupt = {}
  FrameSkip = 1
  CommitEvery = 2
  MaxRetries = 1
  GeoRadius = 2
  PixelRadius = 2
  Budget <- MCRecoverable
SPECIFICATION FairSpec
PROPERTIES JobsSettle

CHECK_DEADLOCK FALSE
