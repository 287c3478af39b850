\* Two threads, two languages and two devices, one idle timeout of two ticks.
CONSTANTS
  t1 = t1
  t2 = t2
  Thread = {t1, t2}
  zh = zh
  en = en
  Language = {zh, en}
  cuda0 = cuda0
  cuda1 = cuda1
  Device = {cuda0, cuda1}
  Nothing = Nothing
  Host = Host
  Timeout = 2
SPECIFICATION FairSpec
INVARIANTS
  TypeOK
  StageHasItsModel
  AlignedInItsLanguage
PROPERTIES
  UnloadsOnlyWhenIdle
  IdleModelsAreReleased
