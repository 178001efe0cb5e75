\* The clock runs, or the model and the validators answer.
SPECIFICATION FairSpec
CONSTANTS
  Schemas = {s1, s2}
  GoodSchemas = {s1}
  Templates = {t1, t2}
  GoodTemplates = {t1}
  None = None
  MaxSubmissions = 2
  MaxTests = 1
  MaxRounds = 3
  MaxSchemaNoToolRetries = 0
  MaxTtpNoToolRetries = 2
  TotalTime = 2
  MinRound = 1
  MaxProtocolFailures = 2
  MaxCalls = 2
  ErrorKinds = {"model_error"}
  Modes = {"full", "schema_only", "template_only"}
PROPERTY EventuallyAnswered
