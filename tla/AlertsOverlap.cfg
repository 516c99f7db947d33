\* Two vehicles, two chains of either or of both, a failure or an expiry.
CONSTANTS
  va = va
  vb = vb
  vc = vc
  c1 = c1
  c2 = c2
  Vehicles = {va, vb}
  Chains = {c1, c2}
  Assessments <- OneLevel
  Budgets <- MCDisturb
  SafeTtc = 15
  WarningTtc = 8
  HighWarningTtc = 3
SPECIFICATION FairSpec
INVARIANTS SetsExpire
PROPERTIES AlertsEnd ChainsEndAlerts AlertFollows
CHECK_DEADLOCK FALSE
