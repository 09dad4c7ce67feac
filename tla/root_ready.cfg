SPECIFICATION Spec
CONSTANTS
  Tasks = {t1, t2}
  Masters = {t1}
  Kinds = {"reset"}
  NSock = 2
  Sizes = {2}
  Default = 2
  SafeSpi = TRUE
PROPERTIES
  FaultSurvivesPublish
