\* One job, polled while it completes.
CONSTANTS
  h1 = h1
  Hash = {h1}
  NoHash = NoHash
  CacheSize = 1
  MaxJobs = 1
  MaxCrashes = 0
  MaxFaults = 0
SPECIFICATION ApiSpec
INVARIANTS
  PollNeverErrs
