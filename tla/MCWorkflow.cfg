\* All modes, two tool calls in a reply.
SPECIFICATION Spec
CONSTANTS
  Schemas = {s1, s2}
  GoodSchemas = {s1}
  Templates = {t1, t2, t3}
  GoodTemplates = {t1, t2}
  None = None
  MaxSubmissions = 3
  MaxTests = 1
  MaxRounds = 4
  MaxSchemaNoToolRetries = 0
  MaxTtpNoToolRetries = 2
  TotalTime = 3
  MinRound = 2
  MaxProtocolFailures = 2
  MaxCalls = 2
  ErrorKinds = {"model_error"}
  Modes = {"full", "schema_only", "template_only"}
SYMMETRY TemplateSymmetry
INVARIANT IInv
INVARIANT SuccessIsEarned
INVARIANT FailureHasItsCause
PROPERTY FinishClosesTheCandidate
PROPERTY NoRoundPastTheEnd
PROPERTY MeetsContract
