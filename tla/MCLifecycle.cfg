SPECIFICATION FairSpec
CHECK_DEADLOCK FALSE
CONSTANTS
  Threads = {t1}
  Schemas = {s1, s2}
  Nothing = Nothing
  Absent = Absent
  Torn = Torn
  Gone = Gone
  MaxRuns = 2
  MaxRequests = 2
  MaxFailures = 1
INVARIANT IInv
INVARIANT RunsAtRestAreSettled
PROPERTY FinishedRunsAreKept
PROPERTY RerunsUseTheReviewedSchema
PROPERTY RunsEndAndFreeTheManager
