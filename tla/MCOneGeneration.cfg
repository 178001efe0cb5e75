SPECIFICATION Spec
CHECK_DEADLOCK FALSE
CONSTANTS
  Threads = {t1}
  Schemas = {s1, s2}
  Nothing = Nothing
  Absent = Absent
  Torn = Torn
  Gone = Gone
  MaxRuns = 3
  MaxRequests = 1
  MaxFailures = 0

INVARIANT OneGeneration
