SPECIFICATION Spec
CONSTANTS
  MaxRounds = 3
  MaxNoToolRetries = 1
  MaxProtocolFailures = 3
  MaxSubmissions = 4
  MaxRetries = 1
  MaxCalls = 2
  ContextLimit = 5
PROPERTY EvidenceRemains
CHECK_DEADLOCK FALSE
