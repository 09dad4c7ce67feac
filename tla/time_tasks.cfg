SPECIFICATION TmSpec
CONSTANTS
  TimeTasks = {t1, t2}
  RawModulus = 4
  MaxWraps = 3
INVARIANTS
  TimeIsReal
