\* Evictions, one failed write and one crash under polling clients.
CONSTANTS
  h1 = h1
  h2 = h2
  Hash = {h1, h2}
  NoHash = NoHash
  CacheSize = 1
  MaxJobs = 2
  MaxCrashes = 1
  MaxFaults = 1
SPECIFICATION ApiSpec
INVARIANTS
  ToldCompletedIsStored
PROPERTIES
  AnswersAdvance
SYMMETRY Symmetry
