\* One thread whose diarization model may not fit on its device.
CONSTANTS
  t1 = t1
  Thread = {t1}
  zh = zh
  Language = {zh}
  cuda0 = cuda0
  Device = {cuda0}
  Nothing = Nothing
  Host = Host
  Timeout = 1
SPECIFICATION Spec
INVARIANTS
  RunsOnItsDevice
