\* Three vehicles and their three pairs, one chain at a time.
CONSTANTS
  va = va
  vb = vb
  vc = vc
  c1 = c1
  c2 = c2
  Vehicles = {va, vb, vc}
  Chains = {c1}
  Assessments <- ThreeLevels
  Budgets <- MCAssess
  SafeTtc = 15
  WarningTtc = 8
  HighWarningTtc = 3
SPECIFICATION Spec
INVARIANTS ViewsAgree OneConflictPerId
PROPERTIES LifecycleSpec
CONSTRAINT FewConflicts
SYMMETRY Alike
CHECK_DEADLOCK FALSE
