\* One enrollment, then a crash.
SPECIFICATION Spec
CONSTANTS
  e1 = e1
  e2 = e2
  Emb = {e1, e2}
  MinCohort = 2
  MaxEnrolls = 1
  MaxCleanUps = 0
  MaxCrashes = 1
  MaxFaults = 0
INVARIANT PendingSurvivesRestart
