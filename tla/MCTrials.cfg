SPECIFICATION FairSpec
CHECK_DEADLOCK FALSE
CONSTANTS
  NumCases = 2
  MaxTrials = 2
  MaxConcurrency = 2
  Nothing = Nothing
  Unusable = Unusable
INVARIANT IInv
INVARIANT VerdictIsAboutTheGivenBaseline
PROPERTY BaselineIsAFinishedRun
PROPERTY EveryInvocationEnds
