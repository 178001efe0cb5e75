CONSTANTS
  Marker = 2
  Framing = 2
  Escaping = 2
  MaxSchemaSize = 13
  MaxDepth = 6
  MaxProperties = 3
  MaxIssues = 3
  MaxPlanSize = 17
  MaxPlanNodes = 3
  MaxPlanDepth = 6
  MaxReferences = 9
  Unseen = Unseen
  EventLimit = 2
  Issues = Issues
  Malformed = Malformed
SPECIFICATION Spec
CHECK_DEADLOCK FALSE
INVARIANT InputsAreFitted
INVARIANT TreesAreJudged
INVARIANT PlansAreCompiled
INVARIANT TrialsAreTraced
INVARIANT TrialsAreScored
INVARIANT DataSetsAreJudged
