\* A voice and a hum against at most three speakers, a change to the book
\* and one new scorer at any moment, one faulty kernel call.
CONSTANTS
  i1 = i1  i2 = i2  i3 = i3
  ann = ann  bob = bob  cat = cat
  voice = voice  hum = hum
  near = near  close = close  far = far  hush = hush
  first_cohort = first_cohort
  other_cohort = other_cohort
  small_cohort = small_cohort
  NoId = NoId
  NoName = NoName
  NoSpread = NoSpread
  NoScorer = NoScorer
  Label = {voice, hum}
  SilentLabel = {hum}
  Id = {i1, i2, i3}
  Name = {ann, bob, cat}
  Emb = {near, close, far, hush}
  SilentEmb = {hush}
  Scorer = {first_cohort, other_cohort, small_cohort}
  Spread = {20}
  Raw <- MCRaw
  Norm <- MCNorm
  Cohort <- MCCohort
  Books <- MCBooks
  Base = 750
  AsnormBase = 500
  MaxChanges = 1
  MaxSwaps = 1
  MaxFlaws = 1
SPECIFICATION Spec
INVARIANTS
  NamedWithCause
  QuietIsOracle
  RivalsAreCompared
  KernelMatchesOracle
CHECK_DEADLOCK FALSE
