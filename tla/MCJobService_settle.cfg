\* The cache holds every job and every write succeeds; the process may die
\* once. Then nothing is left half done.
CONSTANTS
  h1 = h1
  h2 = h2
  Hash = {h1, h2}
  NoHash = NoHash
  CacheSize = 3
  MaxJobs = 3
  MaxCrashes = 1
  MaxFaults = 0
SPECIFICATION FairSpec
INVARIANTS
  OwnerIsLive
  NoOrphanStatus
PROPERTIES
  EveryJobSettles
  ClaimIsReleased
