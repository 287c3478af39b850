\* Everything may go wrong: entries are evicted while their job runs, one
\* disk write fails, the process dies once.
CONSTANTS
  h1 = h1
  h2 = h2
  Hash = {h1, h2}
  NoHash = NoHash
  CacheSize = 2
  MaxJobs = 3
  MaxCrashes = 1
  MaxFaults = 1
SPECIFICATION Spec
INVARIANTS
  TypeOK
  GpuExclusive
  OneWorkerPerAudio
  DedupTargetDurable
  CompletedIsFindable
PROPERTIES
  TerminalIsFinal
  KeepsContract
