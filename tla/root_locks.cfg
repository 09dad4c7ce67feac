SPECIFICATION FairSpec
CONSTANTS
  Tasks = {t1, t2}
  Masters = {t1, t2}
  Kinds = {"reset", "init"}
  NSock = 2
  Sizes = {2, 4}
  Default = 2
  SafeSpi = TRUE
INVARIANTS
  CoherentWhileTrusted
PROPERTIES
  CallsEnd
  AccessIsExclusive
