------------------------- MODULE GenerationSession -------------------------
(***************************************************************************)
(* The state one generation request owns (agent/session.py) and the tools  *)
(* that change it on the model's behalf (agent/tools.py): the artifacts,   *)
(* the budgets, the terminal reason, and the protocol boundary each tool   *)
(* call leaves behind (agent/protocol.py).                                 *)
(*                                                                         *)
(* A tool call is one or two steps.  It runs up to its first await in one  *)
(* step; when that await is a validator working in a thread, the call is   *)
(* "in flight" until a second step delivers the verdict.  Time may pass in *)
(* between.                                                                *)
(***************************************************************************)
EXTENDS Naturals, Sequences

CONSTANTS
  Schemas,          \* result schemas the model may propose
  GoodSchemas,      \* those inside the accepted JSON Schema subset
  Templates,        \* TTP templates the model may propose
  GoodTemplates,    \* those that parse every output into the frozen schema
  None,             \* no schema, no template
  MaxSubmissions,   \* max_ttp_submissions
  MaxTests,         \* max_ttp_test_calls
  MaxRounds,        \* max_agent_rounds, both phases together
  MaxSchemaNoToolRetries,
  MaxTtpNoToolRetries,
  TotalTime,        \* total_timeout_seconds, in ticks
  MinRound          \* min_round_seconds, in ticks

ASSUME SessionAssumption ==
  /\ GoodSchemas \subseteq Schemas
  /\ GoodTemplates \subseteq Templates
  /\ None \notin Schemas \cup Templates
  /\ MaxSubmissions \in Nat \ {0}
  /\ MaxTests \in Nat
  /\ MaxRounds \in Nat \ {0}
  /\ MaxSchemaNoToolRetries \in Nat
  /\ MaxTtpNoToolRetries \in Nat
  /\ TotalTime \in Nat \ {0}
  /\ MinRound \in Nat

Phases == {"schema", "ttp"}
Tools == {"submit_result_schema", "submit_ttp_template",
          "test_ttp_template", "finish_generation"}
Boundaries == {"none", "entered", "valid", "rejected", "execution_failed"}
TerminalReasons == {"none", "generation_timeout", "ttp_submission_limit",
                    "ttp_worker_unavailable", "model_no_tool_retry_limit",
                    "success"}

MaxNoToolRetries(p) ==
  IF p = "schema" THEN MaxSchemaNoToolRetries ELSE MaxTtpNoToolRetries

VARIABLES
  timeLeft,           \* seconds to deadline_monotonic, never below zero
  frozenSchema,       \* frozen_schema
  schemaSubmissions,  \* schema_submissions
  ttpSubmissions,     \* ttp_submissions
  lastTemplate,       \* last_ttp_template
  candidate,          \* validated_ttp_template
  candidateIndex,     \* validated_ttp_submission_index, 0 while there is none
  firstTtpValid,      \* first_ttp_valid
  testCalls,          \* ttp_test_calls
  finished,           \* generation_finished
  reason,             \* terminal_reason
  rounds,             \* schema_agent_rounds and ttp_agent_rounds
  noToolSeq,          \* consecutive no-tool responses of each phase
  boundary,           \* ProtocolBoundaryTracker.boundaries
  flight              \* the proposal a validator thread is working on

artifactVars == <<frozenSchema, schemaSubmissions, ttpSubmissions, lastTemplate,
                  candidate, candidateIndex, firstTtpValid, testCalls, finished>>
sessionVars == <<artifactVars, timeLeft, reason, rounds, noToolSeq, boundary,
                 flight>>

NoFlight == [tool |-> "none", arg |-> None]
Flights == [tool : Tools \cup {"none"}, arg : Schemas \cup Templates \cup {None}]

SessionTypeOK ==
  /\ timeLeft \in 0 .. TotalTime
  /\ frozenSchema \in Schemas \cup {None}
  /\ schemaSubmissions \in Nat
  /\ ttpSubmissions \in Nat
  /\ lastTemplate \in Templates \cup {None}
  /\ candidate \in Templates \cup {None}
  /\ candidateIndex \in Nat
  /\ firstTtpValid \in {"unset", "valid", "invalid"}
  /\ testCalls \in Nat
  /\ finished \in BOOLEAN
  /\ reason \in TerminalReasons
  /\ rounds \in [Phases -> Nat]
  /\ noToolSeq \in [Phases -> Nat]
  /\ boundary \in [Tools -> Boundaries]
  /\ flight \in Flights

SessionInit ==
  /\ timeLeft = TotalTime
  /\ frozenSchema = None
  /\ schemaSubmissions = 0
  /\ ttpSubmissions = 0
  /\ lastTemplate = None
  /\ candidate = None
  /\ candidateIndex = 0
  /\ firstTtpValid = "unset"
  /\ testCalls = 0
  /\ finished = FALSE
  /\ reason = "none"
  /\ rounds = [p \in Phases |-> 0]
  /\ noToolSeq = [p \in Phases |-> 0]
  /\ boundary = [t \in Tools |-> "none"]
  /\ flight = NoFlight

-----------------------------------------------------------------------------
(* Derived facts of the session.                                           *)

SchemaIsFrozen == frozenSchema # None
HasCandidate == candidate # None
Succeeded == finished /\ HasCandidate
AgentRounds == rounds["schema"] + rounds["ttp"]
Expired == timeLeft = 0

HasTimeForAnotherRound == MinRound = 0 \/ timeLeft >= MinRound

(* A terminal failure other than the submission limit ends every tool.     *)
AlreadyTerminated == reason \notin {"none", "ttp_submission_limit"}

(* The limit is recorded only while no other reason is.                    *)
LimitReason(n) ==
  IF n >= MaxSubmissions /\ reason = "none" THEN "ttp_submission_limit" ELSE reason

-----------------------------------------------------------------------------
(* The clock. *)

Tick ==
  /\ timeLeft > 0
  /\ timeLeft' = timeLeft - 1
  /\ UNCHANGED <<artifactVars, reason, rounds, noToolSeq, boundary, flight>>

-----------------------------------------------------------------------------
(* Marks a tool leaves for the runner: the last mark under a tool's name    *)
(* stands, whichever call of the reply left it.                            *)

Mark(tool, b) == boundary' = [boundary EXCEPT ![tool] = b]

(* A call the tool answers without waiting for a validator, and without    *)
(* touching an artifact.                                                   *)
AnswerOnly == UNCHANGED <<artifactVars, timeLeft, rounds, noToolSeq, flight>>

-----------------------------------------------------------------------------
(* submit_result_schema                                                    *)

SchemaArgumentsRejected ==
  /\ Mark("submit_result_schema", "rejected")
  /\ AnswerOnly /\ UNCHANGED reason

SchemaAlreadyFrozen ==
  /\ SchemaIsFrozen
  /\ Mark("submit_result_schema", "valid")
  /\ AnswerOnly /\ UNCHANGED reason

(* The submission is counted before the validator looks at the clock.      *)
SchemaSubmitted(s) ==
  /\ ~ SchemaIsFrozen
  /\ Mark("submit_result_schema", "valid")
  /\ schemaSubmissions' = schemaSubmissions + 1
  /\ IF Expired
       THEN reason' = "generation_timeout" /\ flight' = NoFlight
       ELSE flight' = [tool |-> "submit_result_schema", arg |-> s] /\ UNCHANGED reason
  /\ UNCHANGED <<timeLeft, frozenSchema, ttpSubmissions, lastTemplate, candidate,
                 candidateIndex, firstTtpValid, testCalls, finished, rounds, noToolSeq>>

SchemaAccepted(s) == s \in GoodSchemas

SchemaValidated(verdict) ==
  /\ flight.tool = "submit_result_schema"
  /\ flight' = NoFlight
  /\ IF verdict = "exception"
       THEN Mark(flight.tool, "execution_failed") /\ UNCHANGED frozenSchema
       ELSE /\ UNCHANGED boundary
            /\ frozenSchema' = IF SchemaAccepted(flight.arg) THEN flight.arg
                                                             ELSE frozenSchema
  /\ UNCHANGED <<timeLeft, schemaSubmissions, ttpSubmissions, lastTemplate, candidate,
                 candidateIndex, firstTtpValid, testCalls, finished, reason, rounds,
                 noToolSeq>>

-----------------------------------------------------------------------------
(* submit_ttp_template.  "mark" is what validating the arguments left.     *)

(* Mutation used by the runs: a finished generation still takes templates. *)
TemplateBarred_AfterFailureOnly == AlreadyTerminated /\ ~ Succeeded
TemplateBarred == Succeeded \/ AlreadyTerminated

TemplateRefused(mark) ==
  /\ TemplateBarred
  /\ Mark("submit_ttp_template", mark)
  /\ AnswerOnly /\ UNCHANGED reason

TemplateOverLimit(mark) ==
  /\ ~ TemplateBarred
  /\ ttpSubmissions >= MaxSubmissions
  /\ Mark("submit_ttp_template", mark)
  /\ reason' = "ttp_submission_limit"
  /\ AnswerOnly

TemplateOpen == ~ TemplateBarred /\ ttpSubmissions < MaxSubmissions

TemplateArgumentsRejected ==
  /\ TemplateOpen
  /\ Mark("submit_ttp_template", "rejected")
  /\ AnswerOnly /\ UNCHANGED reason

TemplateUnchanged(t) ==
  /\ TemplateOpen
  /\ t = lastTemplate
  /\ Mark("submit_ttp_template", "valid")
  /\ ttpSubmissions' = ttpSubmissions + 1
  /\ reason' = LimitReason(ttpSubmissions + 1)
  /\ UNCHANGED <<timeLeft, frozenSchema, schemaSubmissions, lastTemplate, candidate,
                 candidateIndex, firstTtpValid, testCalls, finished, rounds, noToolSeq,
                 flight>>

NoteFirst(v) == firstTtpValid' = IF firstTtpValid = "unset" THEN v ELSE firstTtpValid

TemplateSubmitted(t) ==
  /\ TemplateOpen
  /\ t # lastTemplate
  /\ Mark("submit_ttp_template", "valid")
  /\ ttpSubmissions' = ttpSubmissions + 1
  /\ lastTemplate' = t
  /\ IF Expired
       THEN /\ reason' = "generation_timeout"
            /\ NoteFirst("invalid")
            /\ flight' = NoFlight
       ELSE /\ flight' = [tool |-> "submit_ttp_template", arg |-> t]
            /\ UNCHANGED <<reason, firstTtpValid>>
  /\ UNCHANGED <<timeLeft, frozenSchema, schemaSubmissions, candidate, candidateIndex,
                 testCalls, finished, rounds, noToolSeq>>

(* Verdicts: "accepted" stores the candidate; "rejected" covers every       *)
(* business rejection, a parse that ran out of time, and a validator that  *)
(* returned the wrong number or shape of records; "worker_failed" is one   *)
(* of the fatal worker codes; "exception" is a validator that raised.      *)
TemplateValidated(verdict) ==
  /\ flight.tool = "submit_ttp_template"
  /\ verdict = "accepted" => flight.arg \in GoodTemplates
  /\ flight' = NoFlight
  /\ IF verdict = "exception"
       THEN Mark(flight.tool, "execution_failed")
       ELSE UNCHANGED boundary
  /\ IF verdict = "accepted"
       THEN /\ candidate' = flight.arg
            /\ candidateIndex' = ttpSubmissions
            /\ NoteFirst("valid")
       ELSE /\ UNCHANGED <<candidate, candidateIndex>>
            /\ NoteFirst("invalid")
  /\ reason' = IF verdict = "worker_failed" THEN "ttp_worker_unavailable"
                                            ELSE LimitReason(ttpSubmissions)
  /\ UNCHANGED <<timeLeft, frozenSchema, schemaSubmissions, ttpSubmissions,
                 lastTemplate, testCalls, finished, rounds, noToolSeq>>

-----------------------------------------------------------------------------
(* test_ttp_template: no candidate, no limit but its own, and no look at    *)
(* the terminal reason.                                                    *)

TestRefused(mark) ==
  /\ testCalls >= MaxTests
  /\ Mark("test_ttp_template", mark)
  /\ AnswerOnly /\ UNCHANGED reason

TestBudgetLeft == testCalls < MaxTests

TestCalled(mark) ==
  /\ TestBudgetLeft
  /\ Mark("test_ttp_template", mark)
  /\ testCalls' = testCalls + 1
  /\ IF mark = "valid" /\ Expired
       THEN reason' = "generation_timeout"
       ELSE UNCHANGED reason
  /\ flight' = IF mark = "valid" /\ ~ Expired
                 THEN [tool |-> "test_ttp_template", arg |-> None]
                 ELSE NoFlight
  /\ UNCHANGED <<timeLeft, frozenSchema, schemaSubmissions, ttpSubmissions,
                 lastTemplate, candidate, candidateIndex, firstTtpValid, finished,
                 rounds, noToolSeq>>

TestValidated(verdict) ==
  /\ flight.tool = "test_ttp_template"
  /\ verdict # "accepted"
  /\ flight' = NoFlight
  /\ IF verdict = "exception"
       THEN Mark(flight.tool, "execution_failed")
       ELSE UNCHANGED boundary
  /\ reason' = IF verdict = "worker_failed" THEN "ttp_worker_unavailable" ELSE reason
  /\ UNCHANGED <<artifactVars, timeLeft, rounds, noToolSeq>>

-----------------------------------------------------------------------------
(* finish_generation                                                       *)

FinishRefused ==
  /\ Succeeded \/ AlreadyTerminated
  /\ Mark("finish_generation", "valid")
  /\ AnswerOnly /\ UNCHANGED reason

(* Mutation used by the runs: only the recorded reason is looked at.       *)
FinishOverLimit_IgnoresReason == ttpSubmissions > MaxSubmissions
FinishOverLimit == reason = "ttp_submission_limit" \/ ttpSubmissions >= MaxSubmissions

FinishLimited ==
  /\ ~ (Succeeded \/ AlreadyTerminated)
  /\ FinishOverLimit
  /\ Mark("finish_generation", "valid")
  /\ reason' = "ttp_submission_limit"
  /\ AnswerOnly

FinishOpen == ~ (Succeeded \/ AlreadyTerminated \/ FinishOverLimit)

FinishWithoutCandidate ==
  /\ FinishOpen
  /\ ~ HasCandidate
  /\ Mark("finish_generation", "valid")
  /\ AnswerOnly /\ UNCHANGED reason

FinishAccepted ==
  /\ FinishOpen
  /\ HasCandidate
  /\ Mark("finish_generation", "valid")
  /\ finished' = TRUE
  /\ reason' = "success"
  /\ UNCHANGED <<timeLeft, frozenSchema, schemaSubmissions, ttpSubmissions,
                 lastTemplate, candidate, candidateIndex, firstTtpValid, testCalls,
                 rounds, noToolSeq, flight>>

-----------------------------------------------------------------------------
(* Round and no-tool accounting, called by the runner.                     *)

RecordAgentRound(p) == rounds' = [rounds EXCEPT ![p] = @ + 1]
RecordNoToolResponse(p) == noToolSeq' = [noToolSeq EXCEPT ![p] = @ + 1]

ResetNoToolSequence(p) == noToolSeq' = [noToolSeq EXCEPT ![p] = 0]
NoToolRetryAllowed(p) == noToolSeq[p] + 1 <= MaxNoToolRetries(p)
=============================================================================
