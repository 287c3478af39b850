\* Two samples to a speaker, one failing statement or file operation, one
\* death of the process.  The bounds stop the store, hence no deadlock check.
SPECIFICATION Spec
CONSTANTS
  i1 = i1  i2 = i2  ann = ann  Ann = Ann  bob = bob  voice = voice  hush = hush
  Id = {i1, i2}
  Name = {ann, Ann, bob}
  NoName = NoName
  Emb = {voice, hush}
  NoEmb = NoEmb
  Silent = {hush}
  Fold <- MCFold
  LegacyStores <- MCLegacyStores
  MaxSamples = 2
  MaxCrashes = 1
  MaxFaults = 1
INVARIANTS TypeOK EvidenceAgrees SearchIsCurrent NamesDistinct DeletedStaysDeleted
PROPERTIES CountedOnceStored KeepsBook
CHECK_DEADLOCK FALSE
