SPECIFICATION Spec
CONSTANTS
  MaxRounds = 3
  MaxNoToolRetries = 1
  MaxProtocolFailures = 3
  MaxSubmissions = 3
  MaxRetries = 1
  MaxCalls = 2
  ContextLimit = 5
CHECK_DEADLOCK FALSE
INVARIANT IInv
INVARIANT SentIsAllowed
INVARIANT CallsAreConducted
PROPERTY HistoryIsKept
