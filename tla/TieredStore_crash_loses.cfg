SPECIFICATION Spec
CONSTANTS
  s1 = s1
  s2 = s2
  m1 = m1
  Rows = {s1, s2, m1}
  Signal <- MixedSignal
  Time <- MixedTime
  HoursPerDay = 2
  HotHours = 1
  Keep <- ShortKeep
  Asked = {}
  MaxTime = 4
  MaxFailures = 0
  MaxCrashes = 1
INVARIANT
  CrashedCompactionLosesNothing
\* Time ends: when it has and nothing is left to maintain the system rests.
CHECK_DEADLOCK FALSE
