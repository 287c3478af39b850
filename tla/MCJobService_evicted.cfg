\* One entry fits in the jobs dictionary: the second upload evicts the first
\* job while it runs.
CONSTANTS
  h1 = h1
  h2 = h2
  Hash = {h1, h2}
  NoHash = NoHash
  CacheSize = 1
  MaxJobs = 2
  MaxCrashes = 0
  MaxFaults = 0
SPECIFICATION Spec
INVARIANTS
  OwnerIsLive
