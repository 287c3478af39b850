\* Six recordings, every way of preparing the audio and each other choice of
\* a request, two things that go wrong, one death of the process.
CONSTANTS
  Unknown = "UNKNOWN"
  NoId = "no_id"
  Numbered <- MCNumbered
  Mark = {"."}
  PromptMarkers <- MCPromptMarkers
  OutroMarkers <- bye
  Recordings <- MCRecordings
  Label <- MCLabel
  Speaker = {"i1", "i2"}
  NameOf <- MCNameOf
  MinEmbed = 1500
  Requests <- MCRequests
  Canonical <- MCCanonical
  Providers <- MCProviders
  MaxFaults = 2
  MaxCrashes = 1
SPECIFICATION Spec
INVARIANTS
  LeavesNoTrace
  ReadsTheRightAudio
  GuardRemovesWholeRuns
  SaysWhatWasHeard
  NamesApart
  KernelBuildsTheSame
  StoredBundleIsWhole
CHECK_DEADLOCK FALSE
