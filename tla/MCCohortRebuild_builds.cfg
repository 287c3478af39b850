\* An enrollment in each of two processes, a clean-up, an I/O error and a crash
\* around two builders.
CONSTANTS
  e1 = e1
  e2 = e2
  Emb = {e1, e2}
  MinCohort = 2
  MaxEnrolls = 1
  MaxCleanUps = 1
  MaxCrashes = 1
  MaxFaults = 1
SPECIFICATION FairSpec
INVARIANTS
  CleanMeansSeen
  SavedIsLive
  DaemonNeverShrinks
PROPERTIES
  CatchesUp
