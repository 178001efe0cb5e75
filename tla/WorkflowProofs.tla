--------------------------- MODULE WorkflowProofs ---------------------------
(***************************************************************************)
(* Machine-checked proofs about a generation request, for every value of   *)
(* the constants.                                                          *)
(***************************************************************************)
EXTENDS WorkflowProperties, TLAPS

(* A reply is a finite sequence of calls the phase knows.                  *)
LEMMA RepliesAreSequences ==
  ASSUME NEW p \in Phases, NEW calls \in Replies(p)
  PROVE  calls \in Seq(CallsOf(p)) /\ calls \in Seq(Calls)
  BY RunnerAssumption DEF Replies, CallsOf, Calls

(* The first of a non-empty sequence and its remainder.                   *)
LEMMA SequenceParts ==
  ASSUME NEW S, NEW s \in Seq(S), s # <<>>
  PROVE  Head(s) \in S /\ Tail(s) \in Seq(S)
  OBVIOUS

(* All that a call may do to the session up to its answer or its first     *)
(* wait, as far as the invariant looks.                                    *)
ToolMay(c) ==
  /\ SessionTypeOK'
  /\ UNCHANGED <<timeLeft, frozenSchema, candidate, candidateIndex, rounds, noToolSeq>>
  /\ \/ ttpSubmissions' = ttpSubmissions
     \/ /\ c.tool = "submit_ttp_template"
        /\ ~ Succeeded
        /\ ttpSubmissions < MaxSubmissions
        /\ ttpSubmissions' = ttpSubmissions + 1
        /\ UNCHANGED finished
  /\ \/ finished' = finished
     \/ HasCandidate /\ ttpSubmissions < MaxSubmissions /\ UNCHANGED ttpSubmissions
  /\ finished => finished'
  /\ testCalls' = testCalls \/ (testCalls < MaxTests /\ testCalls' = testCalls + 1)
  /\ \/ flight' = NoFlight
     \/ /\ c.tool = "submit_result_schema"
        /\ ~ SchemaIsFrozen
        /\ flight' \in [tool : {"submit_result_schema"}, arg : Schemas]
     \/ /\ c.tool = "submit_ttp_template"
        /\ ~ Succeeded /\ UNCHANGED finished
        /\ ttpSubmissions' > 0
        /\ flight' \in [tool : {"submit_ttp_template"}, arg : Templates]
     \/ /\ c.tool = "test_ttp_template"
        /\ flight' = [tool |-> "test_ttp_template", arg |-> None]

(* A call of a reply names a tool and one of the inputs the phase knows.   *)
LEMMA CallShape ==
  ASSUME NEW c \in Calls
  PROVE  /\ c.args \in {"ok", "rejected", "malformed"}
         /\ c.tool = "submit_result_schema" /\ c.args = "ok" => c.value \in Schemas
         /\ c.tool = "submit_ttp_template" /\ c.args = "ok" => c.value \in Templates
  BY DEF Calls, SchemaCalls, TtpCalls, OtherCall

(* submit_result_schema disturbs only the schema side of the session.      *)
LEMMA SchemaToolEffect ==
  ASSUME SessionTypeOK, flight = NoFlight, NEW c \in Calls, RunSchemaTool(c)
  PROVE  ToolMay(c)
<1> USE DEF SessionTypeOK, ToolMay, AnswerOnly, artifactVars, Mark, Boundaries, Tools,
            TerminalReasons, NoFlight, Flights, SchemaIsFrozen
<1>1. CASE c.args = "rejected" /\ SchemaArgumentsRejected
  BY <1>1 DEF SchemaArgumentsRejected
<1>2. CASE c.args = "ok" /\ SchemaAlreadyFrozen
  BY <1>2 DEF SchemaAlreadyFrozen
<1>3. CASE c.args = "ok" /\ SchemaSubmitted(c.value)
  BY <1>3, CallShape DEF SchemaSubmitted, RunSchemaTool
<1> QED BY <1>1, <1>2, <1>3 DEF RunSchemaTool

(* submit_ttp_template spends at most one submission (tools.py).           *)
LEMMA TemplateToolEffect ==
  ASSUME SessionTypeOK, flight = NoFlight, NEW c \in Calls, RunTemplateTool(c)
  PROVE  ToolMay(c)
<1> USE SessionAssumption DEF SessionTypeOK, ToolMay, AnswerOnly, artifactVars, Mark,
            Boundaries, Tools, TerminalReasons, NoFlight, Flights, TemplateBarred,
            TemplateOpen, Mark_of, LimitReason
<1>1. CASE TemplateRefused(Mark_of(c))
  BY <1>1 DEF TemplateRefused
<1>2. CASE TemplateOverLimit(Mark_of(c))
  BY <1>2 DEF TemplateOverLimit
<1>3. CASE TemplateArgumentsRejected
  BY <1>3 DEF TemplateArgumentsRejected
<1>4. CASE TemplateUnchanged(c.value)
  BY <1>4 DEF TemplateUnchanged, RunTemplateTool
<1>5. CASE c.args = "ok" /\ TemplateSubmitted(c.value)
  BY <1>5, CallShape DEF TemplateSubmitted, RunTemplateTool, NoteFirst
<1> QED BY <1>1, <1>2, <1>3, <1>4, <1>5 DEF RunTemplateTool

(* test_ttp_template spends only the test budget (tools.py).               *)
LEMMA TestToolEffect ==
  ASSUME SessionTypeOK, flight = NoFlight, NEW c \in Calls, RunTestTool(c)
  PROVE  ToolMay(c)
<1> USE SessionAssumption DEF SessionTypeOK, ToolMay, AnswerOnly, artifactVars, Mark,
            Boundaries, Tools, TerminalReasons, NoFlight, Flights, TestBudgetLeft, Mark_of
<1>1. CASE TestRefused(Mark_of(c))
  BY <1>1 DEF TestRefused
<1>2. CASE TestCalled(Mark_of(c))
  BY <1>2 DEF TestCalled, RunTestTool
<1> QED BY <1>1, <1>2 DEF RunTestTool

(* finish_generation decides about the candidate, never about another.     *)
LEMMA FinishToolEffect ==
  ASSUME SessionTypeOK, flight = NoFlight, NEW c \in Calls, RunFinishTool(c)
  PROVE  ToolMay(c)
<1> USE SessionAssumption DEF SessionTypeOK, ToolMay, AnswerOnly, artifactVars, Mark,
            Boundaries, Tools, TerminalReasons, NoFlight, FinishOpen, FinishOverLimit
<1>1. CASE FinishRefused
  BY <1>1 DEF FinishRefused
<1>2. CASE FinishLimited
  BY <1>2 DEF FinishLimited
<1>3. CASE FinishWithoutCandidate
  BY <1>3 DEF FinishWithoutCandidate
<1>4. CASE FinishAccepted
  <2>1. ttpSubmissions < MaxSubmissions
    BY <1>4 DEF FinishAccepted
  <2>2. /\ HasCandidate /\ flight' = NoFlight /\ finished' /\ finished' \in BOOLEAN
        /\ reason' \in TerminalReasons
        /\ boundary' \in [Tools -> Boundaries]
        /\ UNCHANGED <<timeLeft, frozenSchema, schemaSubmissions, ttpSubmissions,
                       lastTemplate, candidate, candidateIndex, firstTtpValid,
                       testCalls, rounds, noToolSeq>>
    BY <1>4 DEF FinishAccepted
  <2> QED BY <2>1, <2>2
<1> QED BY <1>1, <1>2, <1>3, <1>4 DEF RunFinishTool

(* What any one tool call may disturb: the disjunction of the four.        *)
LEMMA ToolEffect ==
  ASSUME SessionTypeOK, flight = NoFlight, NEW c \in Calls, RunTool(c)
  PROVE  ToolMay(c)
<1>1. CASE EntersNoTool(c)
  BY <1>1 DEF EntersNoTool, ToolMay, SessionTypeOK, sessionVars, artifactVars
<1>2. CASE FailsOnEntry(c)
  <2>1. boundary' \in [Tools -> Boundaries]
    BY <1>2 DEF FailsOnEntry, Mark, SessionTypeOK, Boundaries
  <2>2. UNCHANGED <<timeLeft, frozenSchema, schemaSubmissions, ttpSubmissions, lastTemplate,
                    candidate, candidateIndex, firstTtpValid, testCalls, finished, reason,
                    rounds, noToolSeq, flight>>
    BY <1>2 DEF FailsOnEntry, AnswerOnly, artifactVars
  <2>3. SessionTypeOK'
    BY <2>1, <2>2 DEF SessionTypeOK
  <2> QED BY <2>2, <2>3 DEF ToolMay
<1> QED BY <1>1, <1>2, SchemaToolEffect, TemplateToolEffect, TestToolEffect, FinishToolEffect
        DEF RunTool

-----------------------------------------------------------------------------
(* The inductive invariant.                                                *)

(* The invariant holds when a request starts.                              *)
LEMMA InitInv == Init => IInv
<1> SUFFICES ASSUME Init PROVE IInv
  OBVIOUS
<1> USE SessionAssumption, RunnerAssumption, WorkflowAssumption DEF Init, SessionInit,
        RunnerInit, Phases
<1>1. TypeOK
  <2>1. SessionTypeOK
    <3>1. boundary \in [Tools -> Boundaries]
      BY DEF Boundaries
    <3>2. flight \in Flights
      BY DEF Flights, NoFlight
    <3>3. rounds \in [Phases -> Nat] /\ noToolSeq \in [Phases -> Nat]
      OBVIOUS
    <3>4. timeLeft \in 0 .. TotalTime
      OBVIOUS
    <3>5. finished \in BOOLEAN /\ reason \in TerminalReasons
      BY DEF TerminalReasons
    <3>6. /\ frozenSchema = None /\ lastTemplate = None /\ candidate = None
          /\ schemaSubmissions = 0 /\ ttpSubmissions = 0 /\ candidateIndex = 0
          /\ testCalls = 0 /\ firstTtpValid = "unset"
      OBVIOUS
    <3> HIDE DEF Init, SessionInit, RunnerInit, Phases
    <3> QED BY <3>1, <3>2, <3>3, <3>4, <3>5, <3>6 DEF SessionTypeOK
  <2>2. RunnerTypeOK
    <3>1. pending \in Seq(Calls)
      OBVIOUS
    <3> QED BY <3>1 DEF RunnerTypeOK, Places
  <2> QED BY <2>1, <2>2 DEF TypeOK, Stages, ResultReasons, NoArtifact
<1>2. PlaceInv /\ FlightInv
  BY DEF PlaceInv, FlightInv, Repairing, Acting, NoFlight
<1>3. ArtifactInv /\ AnswerInv
  BY DEF ArtifactInv, AnswerInv, SuccessIsEarned, SchemaIsFrozen, HasCandidate, Accepting
<1>4. CounterInv
  BY DEF CounterInv, BudgetsHold, RepairStreaksAgree, Repairing, AgentRounds,
         MaxNoToolRetries
<1> QED BY <1>1, <1>2, <1>3, <1>4 DEF IInv

(* The steps of _run_generation_phase around its tool calls keep it.       *)
LEMMA RunnerInv ==
  ASSUME IInv, RunPhase
  PROVE  IInv'
<1> USE SessionAssumption, RunnerAssumption
        DEF IInv, TypeOK, SessionTypeOK, RunnerTypeOK, PlaceInv, FlightInv, ArtifactInv,
            AnswerInv, SuccessIsEarned, CounterInv, BudgetsHold, RepairStreaksAgree,
            Acting, Repairing, Accepting, SchemaIsFrozen, HasCandidate, AgentRounds,
            Expired, workflowVars, artifactVars, sessionVars, replyVars, outcomeVars,
            RunPhase, Places
<1>1. CASE LoopEnds
  BY <1>1 DEF LoopEnds
<1>2. CASE RoundSkipped
  BY <1>2 DEF RoundSkipped, TerminalReasons
<1>3. CASE ReplyOpens
  <2>1. TypeOK'
    BY <1>3 DEF ReplyOpens
  <2>2. PlaceInv'
    BY <1>3 DEF ReplyOpens
  <2>3. FlightInv'
    BY <1>3 DEF ReplyOpens
  <2>4. ArtifactInv'
    BY <1>3 DEF ReplyOpens
  <2>5. AnswerInv'
    BY <1>3 DEF ReplyOpens
  <2>6. CounterInv'
    BY <1>3 DEF ReplyOpens
  <2> QED BY <2>1, <2>2, <2>3, <2>4, <2>5, <2>6
<1>4. CASE ModelCallStart
  <2>1. TypeOK'
    <3>1. rounds' \in [Phases -> Nat]
      BY <1>4 DEF ModelCallStart, RecordAgentRound
    <3>2. boundary' \in [Tools -> Boundaries]
      BY <1>4 DEF ModelCallStart, Boundaries
    <3> QED BY <1>4, <3>1, <3>2 DEF ModelCallStart
  <2>2. PlaceInv'
    BY <1>4 DEF ModelCallStart, RecordAgentRound, Phases, Tools, Boundaries
  <2>3. FlightInv'
    BY <1>4 DEF ModelCallStart, RecordAgentRound, Phases, Tools, Boundaries
  <2>4. ArtifactInv'
    BY <1>4 DEF ModelCallStart, RecordAgentRound, Phases, Tools, Boundaries
  <2>5. AnswerInv'
    BY <1>4 DEF ModelCallStart, RecordAgentRound, Phases, Tools, Boundaries
  <2>6. CounterInv'
    BY <1>4 DEF ModelCallStart, RecordAgentRound, Phases, Tools, Boundaries
  <2> QED BY <2>1, <2>2, <2>3, <2>4, <2>5, <2>6
<1>5. CASE ReplyExceedsRounds
  BY <1>5 DEF ReplyExceedsRounds
<1>6. CASE CallTool
  <2> DEFINE c == Head(pending)
  <2>1. c \in CallsOf(phase) /\ c \in Calls /\ flight = NoFlight
    BY <1>6, SequenceParts DEF CallTool
  <2>2. ToolMay(c)
    BY <1>6, <2>1, ToolEffect DEF CallTool
  <2>3. phase = "schema" => c.tool # "submit_ttp_template"
    BY <2>1 DEF CallsOf, SchemaCalls, OtherCall
  <2>4. phase = "ttp" => c.tool # "submit_result_schema"
    BY <2>1 DEF CallsOf, TtpCalls, OtherCall
  <2> HIDE DEF c
  <2>5. TypeOK'
    BY <1>6, <2>2 DEF ToolMay, CallTool
  <2>6. PlaceInv'
    BY <1>6, <2>2 DEF ToolMay, CallTool
  <2>7. FlightInv'
    BY <1>6, <2>1, <2>2, <2>3, <2>4 DEF ToolMay, CallTool, NoFlight, Succeeded, Phases
  <2>8. ArtifactInv'
    BY <1>6, <2>2, <2>3 DEF ToolMay, CallTool, Succeeded
  <2>9. AnswerInv'
    BY <1>6, <2>2 DEF ToolMay, CallTool
  <2>10. CounterInv'
    BY <1>6, <2>2 DEF ToolMay, CallTool
  <2> QED BY <2>5, <2>6, <2>7, <2>8, <2>9, <2>10
<1>7. CASE ReplyContinues
  BY <1>7 DEF ReplyContinues
<1>8. CASE ToolResultEnd
  <2>0. Tail(pending) \in Seq(Calls) /\ Tail(pending) \in Seq(CallsOf(phase))
    BY <1>8, SequenceParts DEF ToolResultEnd, ResultHandled
  <2>1. TypeOK'
    <3>0. failures' \in Nat
      BY <1>8 DEF ToolResultEnd, ResultHandled
    <3>1. invalidSeen' \in BOOLEAN /\ lastInvalid' \in BOOLEAN
      BY <1>8, Zenon DEF ToolResultEnd, ResultHandled
    <3>2. stopped' \in BOOLEAN /\ pc' \in Places
      BY <1>8 DEF ToolResultEnd, ResultHandled, StopsReply
    <3>3. noToolSeq' \in [Phases -> Nat]
      <4>1. noToolSeq' = noToolSeq \/ noToolSeq' = [noToolSeq EXCEPT ![phase] = 0]
        BY <1>8, Zenon DEF ToolResultEnd, ResetNoToolSequence
      <4> QED BY <4>1 DEF Phases
    <3>4. reason' \in TerminalReasons
      BY <1>8 DEF ToolResultEnd, ResultHandled, TerminalReasons
    <3> QED BY <1>8, <2>0, <3>0, <3>1, <3>2, <3>3, <3>4 DEF ToolResultEnd, ResultHandled
  <2>2. PlaceInv'
    BY <1>8, <2>0 DEF ToolResultEnd, ResultHandled
  <2>3. FlightInv'
    BY <1>8 DEF ToolResultEnd, ResultHandled, StopsReply, ResetNoToolSequence, MaxNoToolRetries, Phases, TerminalReasons
  <2>4. ArtifactInv'
    BY <1>8 DEF ToolResultEnd, ResultHandled, StopsReply, ResetNoToolSequence, MaxNoToolRetries, Phases, TerminalReasons
  <2>5. AnswerInv'
    BY <1>8 DEF ToolResultEnd, ResultHandled, StopsReply, ResetNoToolSequence, MaxNoToolRetries, Phases, TerminalReasons
  <2>6. CounterInv'
    BY <1>8 DEF ToolResultEnd, ResultHandled, StopsReply, ResetNoToolSequence, MaxNoToolRetries, Phases, TerminalReasons
  <2> QED BY <2>1, <2>2, <2>3, <2>4, <2>5, <2>6
<1>9. CASE StoppedReplyEnds
  BY <1>9 DEF StoppedReplyEnds, NoFlight, Flights
<1>10. CASE PhaseReturns
  BY <1>10 DEF PhaseReturns
<1>11. CASE NoToolResponse
  <2>1. TypeOK'
    <3>1. noToolSeq' \in [Phases -> Nat]
      BY <1>11 DEF NoToolResponse, RecordNoToolResponse
    <3>2. exceeded' \in BOOLEAN
      BY <1>11 DEF NoToolResponse
    <3>3. pc' \in Places /\ reason' \in TerminalReasons
      BY <1>11 DEF NoToolResponse, TerminalReasons
    <3> QED BY <1>11, <3>1, <3>2, <3>3 DEF NoToolResponse
  <2>2. PlaceInv'
    BY <1>11 DEF NoToolResponse, MayRetry, NoToolRetryAllowed, RecordNoToolResponse, ReplyIsFinal, MaxNoToolRetries, Phases, TerminalReasons
  <2>3. FlightInv'
    BY <1>11 DEF NoToolResponse, MayRetry, NoToolRetryAllowed, RecordNoToolResponse, ReplyIsFinal, MaxNoToolRetries, Phases, TerminalReasons
  <2>4. ArtifactInv'
    BY <1>11 DEF NoToolResponse, MayRetry, NoToolRetryAllowed, RecordNoToolResponse, ReplyIsFinal, MaxNoToolRetries, Phases, TerminalReasons
  <2>5. AnswerInv'
    BY <1>11 DEF NoToolResponse, MayRetry, NoToolRetryAllowed, RecordNoToolResponse, ReplyIsFinal, MaxNoToolRetries, Phases, TerminalReasons
  <2>6. CounterInv'
    BY <1>11 DEF NoToolResponse, MayRetry, NoToolRetryAllowed, RecordNoToolResponse, ReplyIsFinal, MaxNoToolRetries, Phases, TerminalReasons
  <2> QED BY <2>1, <2>2, <2>3, <2>4, <2>5, <2>6
<1> QED BY <1>1, <1>2, <1>3, <1>4, <1>5, <1>6, <1>7, <1>8, <1>9, <1>10, <1>11
        DEF RunnerStep

(* The model's answers, tool calls and validators keep it.                 *)
LEMMA AgentInv ==
  ASSUME IInv, AgentActs
  PROVE  IInv'
<1> USE SessionAssumption, RunnerAssumption
        DEF IInv, TypeOK, SessionTypeOK, RunnerTypeOK, PlaceInv, FlightInv, ArtifactInv,
            AnswerInv, SuccessIsEarned, CounterInv, BudgetsHold, RepairStreaksAgree,
            Acting, Repairing, Accepting, SchemaIsFrozen, HasCandidate, AgentRounds,
            Expired, workflowVars, artifactVars, sessionVars, replyVars, outcomeVars,
            AgentActs, Places
<1>1. ASSUME NEW calls \in Replies(phase), ModelReplies(calls) PROVE IInv'
  <2>1. calls \in Seq(CallsOf(phase)) /\ calls \in Seq(Calls)
    BY RepliesAreSequences
  <2> QED BY <1>1, <2>1 DEF ModelReplies
<1>2. CASE ModelInterrupted
  BY <1>2 DEF ModelInterrupted
<1>6. CASE ToolInterrupted
  <2>1. stopped' \in BOOLEAN /\ reason' \in TerminalReasons
    BY <1>6 DEF ToolInterrupted, ResultHandled, StopsReply, TerminalReasons
  <2>2. TypeOK'
    BY <1>6, <2>1 DEF ToolInterrupted, ResultHandled, NoFlight, Flights
  <2> QED BY <1>6, <2>1, <2>2 DEF ToolInterrupted, ResultHandled, NoFlight
<1>3. ASSUME NEW kind \in ErrorKinds, ModelFails(kind) PROVE IInv'
  BY <1>3 DEF ModelFails
<1>4. ASSUME NEW v \in {"accepted", "rejected", "worker_failed", "exception"},
             ValidatorReturns(v)
      PROVE  IInv'
  <2>1. CASE SchemaValidated(v)
    <3>1. TypeOK'
      BY <1>4, <2>1 DEF SchemaValidated, SchemaAccepted, ValidatorReturns, Mark, Boundaries, Tools, NoFlight, Flights
    <3>2. PlaceInv'
      BY <1>4, <2>1 DEF SchemaValidated, SchemaAccepted, ValidatorReturns, Mark, Boundaries, Tools, NoFlight, Flights
    <3>3. FlightInv'
      BY <1>4, <2>1 DEF SchemaValidated, SchemaAccepted, ValidatorReturns, Mark, Boundaries, Tools, NoFlight, Flights
    <3>4. ArtifactInv'
      BY <1>4, <2>1 DEF SchemaValidated, SchemaAccepted, ValidatorReturns, Mark, Boundaries, Tools, NoFlight, Flights
    <3>5. AnswerInv'
      BY <1>4, <2>1 DEF SchemaValidated, SchemaAccepted, ValidatorReturns, Mark, Boundaries, Tools, NoFlight, Flights
    <3>6. CounterInv'
      BY <1>4, <2>1 DEF SchemaValidated, SchemaAccepted, ValidatorReturns, Mark, Boundaries, Tools, NoFlight, Flights
    <3> QED BY <3>1, <3>2, <3>3, <3>4, <3>5, <3>6
  <2>2. CASE TemplateValidated(v)
    <3>1. TypeOK'
      BY <1>4, <2>2 DEF TemplateValidated, NoteFirst, LimitReason, TerminalReasons,
          ValidatorReturns, Mark, Boundaries, Tools, NoFlight, Flights
    <3>2. PlaceInv'
      BY <1>4, <2>2 DEF TemplateValidated, NoteFirst, LimitReason, TerminalReasons,
          ValidatorReturns, Mark, Boundaries, Tools, NoFlight, Flights
    <3>3. FlightInv'
      BY <1>4, <2>2 DEF TemplateValidated, NoteFirst, LimitReason, TerminalReasons,
          ValidatorReturns, Mark, Boundaries, Tools, NoFlight, Flights
    <3>4. ArtifactInv'
      BY <1>4, <2>2 DEF TemplateValidated, NoteFirst, LimitReason, TerminalReasons,
          ValidatorReturns, Mark, Boundaries, Tools, NoFlight, Flights
    <3>5. AnswerInv'
      BY <1>4, <2>2 DEF TemplateValidated, NoteFirst, LimitReason, TerminalReasons,
          ValidatorReturns, Mark, Boundaries, Tools, NoFlight, Flights
    <3>6. CounterInv'
      BY <1>4, <2>2 DEF TemplateValidated, NoteFirst, LimitReason, TerminalReasons,
          ValidatorReturns, Mark, Boundaries, Tools, NoFlight, Flights
    <3> QED BY <3>1, <3>2, <3>3, <3>4, <3>5, <3>6
  <2>3. CASE TestValidated(v)
    <3>1. TypeOK'
      BY <1>4, <2>3 DEF TestValidated, TerminalReasons, ValidatorReturns, Mark, Boundaries, Tools, NoFlight, Flights
    <3>2. PlaceInv'
      BY <1>4, <2>3 DEF TestValidated, TerminalReasons, ValidatorReturns, Mark, Boundaries, Tools, NoFlight, Flights
    <3>3. FlightInv'
      BY <1>4, <2>3 DEF TestValidated, TerminalReasons, ValidatorReturns, Mark, Boundaries, Tools, NoFlight, Flights
    <3>4. ArtifactInv'
      BY <1>4, <2>3 DEF TestValidated, TerminalReasons, ValidatorReturns, Mark, Boundaries, Tools, NoFlight, Flights
    <3>5. AnswerInv'
      BY <1>4, <2>3 DEF TestValidated, TerminalReasons, ValidatorReturns, Mark, Boundaries, Tools, NoFlight, Flights
    <3>6. CounterInv'
      BY <1>4, <2>3 DEF TestValidated, TerminalReasons, ValidatorReturns, Mark, Boundaries, Tools, NoFlight, Flights
    <3> QED BY <3>1, <3>2, <3>3, <3>4, <3>5, <3>6
  <2> QED BY <1>4, <2>1, <2>2, <2>3 DEF ValidatorReturns
<1>5. CASE StrayCall
  <2> DEFINE c == Head(pending)
  <2>1. c \in CallsOf(phase) /\ c \in Calls /\ flight = NoFlight
    BY <1>5, SequenceParts DEF StrayCall
  <2>2. ToolMay(c)
    BY <1>5, <2>1, ToolEffect DEF StrayCall
  <2>3. phase = "schema" => c.tool # "submit_ttp_template"
    BY <2>1 DEF CallsOf, SchemaCalls, OtherCall
  <2>4. phase = "ttp" => c.tool # "submit_result_schema"
    BY <2>1 DEF CallsOf, TtpCalls, OtherCall
  <2>5. pending' \in Seq(Calls) /\ pending' \in Seq(CallsOf(phase))
    BY <1>5, SequenceParts DEF StrayCall
  <2> HIDE DEF c
  <2>6. TypeOK'
    BY <1>5, <2>2, <2>5 DEF ToolMay, StrayCall
  <2>7. PlaceInv'
    BY <1>5, <2>2, <2>5 DEF ToolMay, StrayCall
  <2>8. FlightInv'
    BY <1>5, <2>1, <2>2, <2>3, <2>4 DEF ToolMay, StrayCall, NoFlight, Succeeded, Phases
  <2>9. ArtifactInv'
    BY <1>5, <2>2, <2>3 DEF ToolMay, StrayCall, Succeeded
  <2>10. AnswerInv'
    BY <1>5, <2>2 DEF ToolMay, StrayCall
  <2>11. CounterInv'
    BY <1>5, <2>2 DEF ToolMay, StrayCall
  <2> QED BY <2>6, <2>7, <2>8, <2>9, <2>10, <2>11
<1> QED BY <1>1, <1>2, <1>3, <1>4, <1>5, <1>6 DEF AgentStep

(* A failed answer changes nothing but the answer.                         *)
LEMMA FailInv ==
  ASSUME IInv, outcome = "pending", NEW r \in ResultReasons, Fail(r),
         UNCHANGED sessionVars
  PROVE  IInv'
<1> USE SessionAssumption, RunnerAssumption
        DEF IInv, TypeOK, SessionTypeOK, RunnerTypeOK, PlaceInv, FlightInv, ArtifactInv,
            AnswerInv, SuccessIsEarned, CounterInv, BudgetsHold, RepairStreaksAgree,
            Acting, Repairing, Accepting, SchemaIsFrozen, HasCandidate, AgentRounds,
            Expired, artifactVars, sessionVars, replyVars, outcomeVars, Places, Stages,
            Answer, Fail
<1>1. TypeOK'
  BY DEF NoArtifact
<1>2. PlaceInv' /\ FlightInv' /\ ArtifactInv'
  OBVIOUS
<1>3. AnswerInv'
  OBVIOUS
<1>4. CounterInv'
  OBVIOUS
<1> QED BY <1>1, <1>2, <1>3, <1>4

(* The steps of the workflow between and around the phases keep it.        *)
LEMMA WorkflowInv ==
  ASSUME IInv, WorkflowStep
  PROVE  IInv'
<1> USE SessionAssumption, RunnerAssumption, WorkflowAssumption
        DEF IInv, TypeOK, SessionTypeOK, RunnerTypeOK, PlaceInv, FlightInv, ArtifactInv,
            AnswerInv, SuccessIsEarned, CounterInv, BudgetsHold, RepairStreaksAgree,
            Acting, Repairing, Accepting, SchemaIsFrozen, HasCandidate, Succeeded,
            AgentRounds, Expired, workflowVars, artifactVars, sessionVars, replyVars,
            outcomeVars, runnerVars, Places, Stages, Answer, Fail, GoTo, NoArtifact,
            ResultReasons
<1>1. CASE BeginSchemaPhase
  BY <1>1 DEF BeginSchemaPhase, Phases
<1>2. ASSUME NEW s \in Schemas, FreezeInjectedSchema(s) \/ RejectInjectedSchema(s)
      PROVE  IInv'
  <2>1. CASE FreezeInjectedSchema(s)
    <3>1. TypeOK'
      BY <2>1 DEF FreezeInjectedSchema, Phases
    <3>2. PlaceInv' /\ FlightInv'
      BY <2>1 DEF FreezeInjectedSchema, NoFlight
    <3>3. ArtifactInv'
      BY <2>1 DEF FreezeInjectedSchema
    <3>4. AnswerInv'
      BY <2>1 DEF FreezeInjectedSchema
    <3>5. CounterInv'
      BY <2>1 DEF FreezeInjectedSchema, Phases
    <3> QED BY <3>1, <3>2, <3>3, <3>4, <3>5
  <2>2. CASE RejectInjectedSchema(s)
    BY <2>2, FailInv DEF RejectInjectedSchema
  <2> QED BY <1>2, <2>1, <2>2
<1>3. CASE FitTimesOut \/ FitRejectsInput \/ FitBreaks
  BY <1>3, FailInv DEF FitTimesOut, FitRejectsInput, FitBreaks
<1>4. CASE FitSucceeds
  <2>1. TypeOK'
    <3>1. SessionTypeOK'
      BY <1>4 DEF FitSucceeds, StartPhase
    <3>2. RunnerTypeOK'
      BY <1>4 DEF FitSucceeds, StartPhase
    <3> QED BY <1>4, <3>1, <3>2 DEF FitSucceeds
  <2>2. PlaceInv' /\ FlightInv' /\ ArtifactInv' /\ AnswerInv'
    BY <1>4 DEF FitSucceeds, StartPhase
  <2>3. CounterInv'
    BY <1>4 DEF FitSucceeds, StartPhase, MaxNoToolRetries, Phases
  <2> QED BY <2>1, <2>2, <2>3
<1>5. CASE RunPhase
  BY <1>5, RunnerInv
<1>6. CASE WatchdogFires \/ PhaseRaised
  BY <1>6, FailInv DEF WatchdogFires, PhaseRaised
<1>7. CASE SchemaProposed
  BY <1>7 DEF SchemaProposed, PhaseOver, PhaseCompleted
<1>8. CASE RoundsSpentOnSchema
  BY <1>8, FailInv DEF PhaseOver, RoundsSpentOnSchema
<1>9. CASE BeginTtpPhase
  BY <1>9 DEF BeginTtpPhase, PhaseOver, PhaseCompleted, Phases
<1>10. CASE BeginAcceptance
  BY <1>10 DEF BeginAcceptance, PhaseOver, PhaseCompleted
<1>11. CASE PhaseStopped
  BY <1>11, FailInv DEF PhaseStopped, PhaseOver, StoppedReason, RepairsExhausted, RoundsExhausted
<1>12. CASE AcceptanceTimesOut \/ AcceptanceFails
  BY <1>12, FailInv DEF AcceptanceTimesOut, AcceptanceFails
<1>13. CASE SchemaRevalidated \/ TemplateRevalidated
  <2>1. TypeOK'
    BY <1>13 DEF SchemaRevalidated, TemplateRevalidated
  <2>2. PlaceInv' /\ FlightInv' /\ ArtifactInv' /\ AnswerInv'
    BY <1>13 DEF SchemaRevalidated, TemplateRevalidated
  <2>3. CounterInv'
    BY <1>13 DEF SchemaRevalidated, TemplateRevalidated
  <2> QED BY <2>1, <2>2, <2>3
<1>14. CASE ArtifactPackaged
  BY <1>14 DEF ArtifactPackaged, AcceptedTemplate
<1> QED BY <1>1, <1>2, <1>3, <1>4, <1>5, <1>6, <1>7, <1>8, <1>9, <1>10, <1>11, <1>12,
           <1>13, <1>14 DEF WorkflowStep

(* The clock and the caller's cancellation keep it.                        *)
LEMMA OtherInv ==
  ASSUME IInv, TimePasses \/ CancelRequest \/ UNCHANGED vars
  PROVE  IInv'
<1> USE SessionAssumption, RunnerAssumption
        DEF IInv, TypeOK, SessionTypeOK, RunnerTypeOK, PlaceInv, FlightInv, ArtifactInv,
            AnswerInv, SuccessIsEarned, CounterInv, BudgetsHold, RepairStreaksAgree,
            Acting, Repairing, Accepting, SchemaIsFrozen, HasCandidate, AgentRounds,
            Expired, workflowVars, artifactVars, sessionVars, replyVars, outcomeVars,
            runnerVars, vars, Places, Stages, NoArtifact, ResultReasons
<1>1. CASE TimePasses
  BY <1>1 DEF TimePasses, Tick
<1>2. CASE CancelRequest
  BY <1>2 DEF CancelRequest, Answer
<1>3. CASE UNCHANGED vars
  BY <1>3
<1> QED BY <1>1, <1>2, <1>3

(* The invariant is inductive.                                             *)
THEOREM Invariant == Spec => []IInv
<1>1. IInv /\ [Next]_vars => IInv'
  BY AgentInv, WorkflowInv, OtherInv DEF Next, Answered
<1> QED BY InitInv, <1>1, PTL DEF Spec

-----------------------------------------------------------------------------
(* What follows from it.                                                   *)

(* Every variable keeps its type.                                          *)
THEOREM TypeCorrect == Spec => []TypeOK
  BY Invariant, PTL DEF IInv

(* A successful answer was earned (workflow.py run, run_schema_only and    *)
(* _accept_artifact_impl).                                                 *)
THEOREM SuccessEarned == Spec => []SuccessIsEarned
  BY Invariant, PTL DEF IInv, AnswerInv

(* No budget is overdrawn (session.py, tools.py, protocol.py).             *)
THEOREM BudgetsHeld == Spec => []BudgetsHold
  BY Invariant, PTL DEF IInv, CounterInv

(* The no-tool streak never outruns the protocol streak (runner.py).       *)
THEOREM StreaksAgree == Spec => []RepairStreaksAgree
  BY Invariant, PTL DEF IInv, CounterInv

-----------------------------------------------------------------------------
(* Every step of a request is a step of its contract, or none at all.      *)

artifactState == <<mode, frozenSchema, candidate, finished, outcome, artifact>>

(* The runner's own steps stutter in the contract.                         *)
LEMMA RunnerContract ==
  ASSUME IInv, RunPhase
  PROVE  UNCHANGED artifactState \/ Contract!Close
<1> USE DEF RunPhase, artifactState, workflowVars, artifactVars, sessionVars
<1>1. CASE CallTool
  <2> DEFINE c == Head(pending)
  <2>1. c \in Calls /\ flight = NoFlight
    BY <1>1, SequenceParts DEF CallTool, IInv, TypeOK, RunnerTypeOK, FlightInv, PlaceInv
  <2>2. ToolMay(c)
    BY <1>1, <2>1, ToolEffect DEF CallTool, IInv, TypeOK
  <2> HIDE DEF c
  <2>3. CASE finished' = finished
    BY <2>2, <2>3 DEF ToolMay
  <2>4. CASE finished' # finished
    BY <2>2, <2>4 DEF ToolMay, Contract!Close, Contract!Pending, Contract!Nothing, IInv,
       TypeOK, SessionTypeOK, AnswerInv, NoArtifact, HasCandidate
  <2> QED BY <2>3, <2>4
<1> QED BY <1>1 DEF RunnerStep, LoopEnds, RoundSkipped, ReplyOpens, ModelCallStart,
        ReplyExceedsRounds, ReplyContinues, ToolResultEnd, ResultHandled, StoppedReplyEnds, PhaseReturns,
        NoToolResponse

(* A tool call freezes, keeps or closes as the contract allows.            *)
LEMMA AgentContract ==
  ASSUME IInv, AgentActs
  PROVE  UNCHANGED artifactState \/ Contract!ContractNext
<1> USE DEF AgentActs, artifactState, workflowVars, artifactVars, sessionVars
<1>1. ASSUME NEW calls \in Replies(phase), ModelReplies(calls) PROVE UNCHANGED artifactState
  BY <1>1 DEF ModelReplies
<1>2. CASE ModelInterrupted
  BY <1>2 DEF ModelInterrupted
<1>6. CASE ToolInterrupted
  BY <1>6 DEF ToolInterrupted, ResultHandled
<1>3. ASSUME NEW kind \in ErrorKinds, ModelFails(kind) PROVE UNCHANGED artifactState
  BY <1>3 DEF ModelFails
<1>4. ASSUME NEW v \in {"accepted", "rejected", "worker_failed", "exception"},
             ValidatorReturns(v)
      PROVE  UNCHANGED artifactState \/ Contract!ContractNext
  <2> USE DEF IInv, AnswerInv, FlightInv, ArtifactInv, NoArtifact, SchemaIsFrozen,
              Contract!Pending, Contract!Nothing, Contract!ContractNext
  <2>1. CASE SchemaValidated(v)
    BY <1>4, <2>1 DEF SchemaValidated, SchemaAccepted, Contract!Freeze
  <2>2. CASE TemplateValidated(v)
    BY <1>4, <2>2 DEF TemplateValidated, Contract!Keep
  <2>3. CASE TestValidated(v)
    BY <2>3 DEF TestValidated
  <2> QED BY <1>4, <2>1, <2>2, <2>3 DEF ValidatorReturns
<1>5. CASE StrayCall
  <2> DEFINE c == Head(pending)
  <2>1. c \in Calls
    BY <1>5, SequenceParts DEF StrayCall, IInv, TypeOK, RunnerTypeOK
  <2>2. ToolMay(c)
    BY <1>5, <2>1, ToolEffect DEF StrayCall, IInv, TypeOK
  <2> HIDE DEF c
  <2>3. CASE finished' = finished
    BY <2>2, <2>3 DEF ToolMay
  <2>4. CASE finished' # finished
    BY <2>2, <2>4 DEF ToolMay, Contract!Close, Contract!Pending, Contract!Nothing, IInv,
       TypeOK, SessionTypeOK, AnswerInv, NoArtifact, HasCandidate, Contract!ContractNext
  <2> QED BY <2>3, <2>4
<1> QED BY <1>1, <1>2, <1>3, <1>4, <1>5, <1>6 DEF AgentStep

(* The workflow's steps answer, or stutter, as the contract allows.        *)
LEMMA WorkflowContract ==
  ASSUME IInv, WorkflowStep
  PROVE  UNCHANGED artifactState \/ Contract!ContractNext
<1> USE DEF artifactState, workflowVars, artifactVars, sessionVars, Answer, Fail, GoTo,
            IInv, AnswerInv, NoArtifact, Contract!Pending, Contract!Nothing,
            Contract!ContractNext
<1>0. ASSUME outcome = "pending", NEW r, Fail(r), UNCHANGED sessionVars
      PROVE  Contract!GiveUp("failed")
  BY <1>0 DEF Contract!GiveUp
<1>1. CASE BeginSchemaPhase \/ FitSucceeds \/ BeginTtpPhase \/ BeginAcceptance
             \/ SchemaRevalidated \/ TemplateRevalidated
  BY <1>1 DEF BeginSchemaPhase, FitSucceeds, StartPhase, BeginTtpPhase, BeginAcceptance,
     SchemaRevalidated, TemplateRevalidated
<1>2. ASSUME NEW s \in Schemas, FreezeInjectedSchema(s)
      PROVE  Contract!ContractNext
  BY <1>2 DEF FreezeInjectedSchema, Contract!Freeze, ArtifactInv, SchemaIsFrozen
<1>3. ASSUME NEW s \in Schemas, RejectInjectedSchema(s)
      PROVE  Contract!ContractNext
  BY <1>0, <1>3 DEF RejectInjectedSchema
<1>4. CASE FitTimesOut \/ FitRejectsInput \/ FitBreaks \/ WatchdogFires \/ PhaseRaised
             \/ RoundsSpentOnSchema \/ PhaseStopped \/ AcceptanceTimesOut \/ AcceptanceFails
  BY <1>0, <1>4 DEF FitTimesOut, FitRejectsInput, FitBreaks, WatchdogFires, PhaseRaised,
     RoundsSpentOnSchema, PhaseStopped, PhaseOver, AcceptanceTimesOut, AcceptanceFails
<1>5. CASE RunPhase
  BY <1>5, RunnerContract
<1>6. CASE SchemaProposed
  BY <1>6 DEF SchemaProposed, PhaseOver, PhaseCompleted, SchemaIsFrozen, Contract!Propose
<1>7. CASE ArtifactPackaged
  BY <1>7 DEF ArtifactPackaged, AcceptedTemplate, Accepting, Contract!Deliver
<1> QED BY <1>1, <1>2, <1>3, <1>4, <1>5, <1>6, <1>7 DEF WorkflowStep

(* A request does nothing its contract does not allow (contracts.py).      *)
THEOREM Refinement == Spec => MeetsContract
<1>1. Init => Contract!ContractInit
  BY WorkflowAssumption DEF Init, SessionInit, NoArtifact, Contract!ContractInit,
     Contract!Nothing
<1>2. IInv /\ [Next]_vars => [Contract!ContractNext]_(Contract!contractVars)
  <2> SUFFICES ASSUME IInv, [Next]_vars
               PROVE  Contract!ContractNext \/ UNCHANGED Contract!contractVars
    OBVIOUS
  <2>1. UNCHANGED artifactState => UNCHANGED Contract!contractVars
    BY DEF artifactState, Contract!contractVars
  <2>2. CASE TimePasses \/ UNCHANGED vars
    BY <2>1, <2>2 DEF TimePasses, Tick, artifactState, artifactVars, workflowVars,
       sessionVars, vars
  <2>3. CASE CancelRequest
    BY <2>3 DEF CancelRequest, Answer, IInv, AnswerInv, NoArtifact, sessionVars,
       artifactVars, Contract!Pending, Contract!Nothing, Contract!GiveUp,
       Contract!ContractNext
  <2> QED BY <2>1, <2>2, <2>3, AgentContract, WorkflowContract DEF Next, Answered
<1> QED BY <1>1, <1>2, Invariant, PTL DEF Spec, MeetsContract, Contract!ContractSpec

-----------------------------------------------------------------------------
(* What a step may never do.                                               *)

closedState == <<frozenSchema, candidate, candidateIndex, ttpSubmissions, finished>>

(* The steps that leave the artifacts alone, and those that do not.        *)
LEMMA ArtifactSteps ==
  ASSUME IInv, [Next]_vars
  PROVE  \/ UNCHANGED closedState
         \/ \E s \in Schemas : FreezeInjectedSchema(s)
         \/ \E v \in {"accepted", "rejected", "worker_failed", "exception"} :
              SchemaValidated(v) \/ TemplateValidated(v)
         \/ \E c \in Calls : ToolMay(c)
<1> USE DEF closedState, workflowVars, artifactVars, sessionVars
<1>1. CASE TimePasses \/ CancelRequest \/ UNCHANGED vars
  BY <1>1 DEF TimePasses, Tick, CancelRequest, vars
<1>2. CASE RunPhase
  <2>1. CASE CallTool
    <3>1. Head(pending) \in Calls /\ flight = NoFlight
      BY <2>1, SequenceParts DEF CallTool, IInv, TypeOK, RunnerTypeOK, FlightInv, PlaceInv
    <3>2. ToolMay(Head(pending))
      BY <2>1, <3>1, ToolEffect DEF CallTool, IInv, TypeOK
    <3> QED BY <3>1, <3>2
  <2> QED BY <1>2, <2>1 DEF RunPhase, RunnerStep, LoopEnds, RoundSkipped, ReplyOpens,
        ModelCallStart, ReplyExceedsRounds, ReplyContinues, ToolResultEnd, ResultHandled,
        StoppedReplyEnds, PhaseReturns, NoToolResponse
<1>3. CASE AgentActs
  <2>1. CASE StrayCall
    <3>1. Head(pending) \in Calls
      BY <2>1, SequenceParts DEF StrayCall, IInv, TypeOK, RunnerTypeOK
    <3>2. ToolMay(Head(pending))
      BY <2>1, <3>1, ToolEffect DEF StrayCall, IInv, TypeOK
    <3> QED BY <3>1, <3>2
  <2>2. ASSUME NEW v \in {"accepted", "rejected", "worker_failed", "exception"},
               ValidatorReturns(v)
        PROVE  UNCHANGED closedState \/ SchemaValidated(v) \/ TemplateValidated(v)
    BY <2>2 DEF ValidatorReturns, TestValidated
  <2> QED BY <1>3, <2>1, <2>2 DEF AgentActs, AgentStep, ModelReplies, ModelInterrupted, ToolInterrupted,
        ResultHandled,
        ModelFails
<1>4. CASE WorkflowStep
  BY <1>2, <1>4 DEF WorkflowStep, BeginSchemaPhase, RejectInjectedSchema, FitTimesOut,
     FitRejectsInput, FitBreaks, FitSucceeds, StartPhase, WatchdogFires, PhaseRaised,
     SchemaProposed, RoundsSpentOnSchema, BeginTtpPhase, BeginAcceptance, PhaseStopped,
     AcceptanceTimesOut, AcceptanceFails, SchemaRevalidated, TemplateRevalidated,
     ArtifactPackaged
<1> QED BY <1>1, <1>3, <1>4 DEF Next, Answered

(* The schema is settled once, and before the TTP phase's first round.     *)
THEOREM SchemaFrozen == Spec => SchemaFrozenForGood
<1>1. IInv /\ [Next]_vars =>
        (frozenSchema' # frozenSchema =>
           frozenSchema = None /\ frozenSchema' \in GoodSchemas /\ rounds["ttp"] = 0)
  <2> SUFFICES ASSUME IInv, [Next]_vars, frozenSchema' # frozenSchema
               PROVE  frozenSchema = None /\ frozenSchema' \in GoodSchemas
                        /\ rounds["ttp"] = 0
    OBVIOUS
  <2> USE DEF IInv, ArtifactInv, FlightInv, SchemaIsFrozen
  <2>1. ASSUME NEW s \in Schemas, FreezeInjectedSchema(s)
        PROVE  frozenSchema = None /\ frozenSchema' \in GoodSchemas /\ rounds["ttp"] = 0
    BY <2>1 DEF FreezeInjectedSchema
  <2>2. ASSUME NEW v, SchemaValidated(v)
        PROVE  frozenSchema = None /\ frozenSchema' \in GoodSchemas /\ rounds["ttp"] = 0
    BY <2>2 DEF SchemaValidated, SchemaAccepted
  <2> QED BY <2>1, <2>2, ArtifactSteps DEF closedState, ToolMay, TemplateValidated
<1> QED BY <1>1, Invariant, PTL DEF Spec, SchemaFrozenForGood

(* An accepted finish closes the candidate, stray calls included.          *)
THEOREM FinishCloses == Spec => FinishClosesTheCandidate
<1>1. IInv /\ [Next]_vars => (finished => UNCHANGED closedState)
  <2> SUFFICES ASSUME IInv, [Next]_vars, finished
               PROVE  UNCHANGED closedState
    OBVIOUS
  <2> USE DEF IInv, ArtifactInv, FlightInv, SchemaIsFrozen, closedState
  <2>1. phase = "ttp" /\ SchemaIsFrozen /\ Succeeded /\ HasCandidate
    BY DEF TypeOK, RunnerTypeOK, Phases, Succeeded
  <2>2. ASSUME NEW s \in Schemas, FreezeInjectedSchema(s) PROVE FALSE
    BY <2>1, <2>2 DEF FreezeInjectedSchema
  <2>3. ASSUME NEW v, SchemaValidated(v) \/ TemplateValidated(v) PROVE FALSE
    BY <2>1, <2>3 DEF SchemaValidated, TemplateValidated
  <2>4. ASSUME NEW c \in Calls, ToolMay(c) PROVE UNCHANGED closedState
    <3>1. UNCHANGED <<frozenSchema, candidate, candidateIndex>> /\ ttpSubmissions' = ttpSubmissions
      BY <2>1, <2>4 DEF ToolMay
    <3>2. finished' = finished
      BY <2>4 DEF ToolMay, SessionTypeOK, TypeOK
    <3> QED BY <3>1, <3>2
  <2> QED BY <2>2, <2>3, <2>4, ArtifactSteps
<1> QED BY <1>1, Invariant, PTL DEF Spec, FinishClosesTheCandidate, closedState
-----------------------------------------------------------------------------
(* Why a request ends: the reason of a failed answer was so, and no round  *)
(* is opened past a phase's end.                                           *)

(* What a call may note as the reason up to its answer or its first wait.  *)
ReasonMay(c) ==
  \/ reason' = reason
  \/ reason' = "generation_timeout" /\ Expired
  \/ /\ reason' = "ttp_submission_limit"
     /\ c.tool \in {"submit_ttp_template", "finish_generation"}
     /\ ttpSubmissions' >= MaxSubmissions
  \/ reason' = "success" /\ finished'

(* The four tools (tools.py).                                              *)
LEMMA ToolReason ==
  ASSUME SessionTypeOK, NEW c \in Calls, RunTool(c)
  PROVE  ReasonMay(c)
<1> USE SessionAssumption DEF ReasonMay, SessionTypeOK, AnswerOnly, artifactVars
<1>1. CASE EntersNoTool(c)
  BY <1>1 DEF EntersNoTool, sessionVars
<1>6. CASE FailsOnEntry(c)
  BY <1>6 DEF FailsOnEntry
<1>2. CASE RunSchemaTool(c)
  BY <1>2 DEF RunSchemaTool, SchemaArgumentsRejected, SchemaAlreadyFrozen, SchemaSubmitted
<1>3. CASE RunTemplateTool(c)
  BY <1>3 DEF RunTemplateTool, TemplateRefused, TemplateOverLimit, TemplateArgumentsRejected,
     TemplateUnchanged, TemplateSubmitted, LimitReason
<1>4. CASE RunTestTool(c)
  BY <1>4 DEF RunTestTool, TestRefused, TestCalled
<1>5. CASE RunFinishTool(c)
  <2>1. CASE FinishLimited
    BY <1>5, <2>1 DEF RunFinishTool, FinishLimited, FinishOverLimit
  <2> QED BY <1>5, <2>1 DEF RunFinishTool, FinishRefused, FinishWithoutCandidate, FinishAccepted
<1> QED BY <1>1, <1>2, <1>3, <1>4, <1>5, <1>6 DEF RunTool

-----------------------------------------------------------------------------
(* CauseInv is inductive beside IInv.                                      *)

LEMMA CauseInit == Init => CauseInv
  BY SessionAssumption
     DEF Init, SessionInit, RunnerInit, CauseInv, ReasonInv, RoomInv, Open, Settling, EndInv,
         PhaseCompleted, SchemaIsFrozen, FailureHasItsCause, NoFlight

(* A call of a reply, stray or not, disturbs neither the reasons nor what   *)
(* a validator is asked.                                                   *)
LEMMA CallCause ==
  ASSUME IInv, CauseInv, stage = "run", pc \in {"tools", "stopped"},
         pending # <<>>, flight = NoFlight, RunTool(Head(pending)),
         pc' \in {"result", "await", "stopped"},
         UNCHANGED <<phase, hadTool, interrupted, outcomeVars, phaseError, workflowVars>>
  PROVE  CauseInv'
<1> DEFINE c == Head(pending)
<1>1. c \in CallsOf(phase) /\ c \in Calls
  BY SequenceParts DEF IInv, PlaceInv, Acting, TypeOK, RunnerTypeOK
<1>2. ToolMay(c) /\ ReasonMay(c)
  BY <1>1, ToolEffect, ToolReason DEF IInv, TypeOK
<1>3. phase = "schema" => c.tool \in {"submit_result_schema", "other"}
  BY <1>1 DEF CallsOf, SchemaCalls, OtherCall
<1>4. phase \in Phases /\ stage' = "run"
  BY DEF IInv, TypeOK, RunnerTypeOK, workflowVars
<1> HIDE DEF c
<1>5. ReasonInv'
  <2>1. reason # "model_no_tool_retry_limit"
    BY DEF CauseInv, ReasonInv
  <2>2. ttpSubmissions' >= ttpSubmissions
    BY <1>2 DEF ToolMay, IInv, TypeOK, SessionTypeOK
  <2>3. finished => finished'
    BY <1>2 DEF ToolMay
  <2>4. UNCHANGED <<timeLeft, phase>>
    BY <1>2 DEF ToolMay
  <2>5. phase = "ttp" \/ c.tool \notin {"submit_ttp_template", "finish_generation"}
    BY <1>3, <1>4 DEF Phases
  <2>6. reason' \in {"none", "generation_timeout", "ttp_submission_limit",
                    "ttp_worker_unavailable", "success"}
    BY <1>2, <2>1 DEF ReasonMay, IInv, TypeOK, SessionTypeOK, TerminalReasons
  <2> HIDE DEF c
  <2>7. (reason = "generation_timeout" => Expired \/ ~ HasTimeForAnotherRound)'
    BY <1>2, <2>4 DEF ReasonMay, CauseInv, ReasonInv, Expired, HasTimeForAnotherRound
  <2>8. (reason = "ttp_submission_limit" => phase = "ttp" /\ ttpSubmissions >= MaxSubmissions)'
    BY SessionAssumption, <1>2, <2>2, <2>4, <2>5
       DEF ReasonMay, ToolMay, CauseInv, ReasonInv, IInv, TypeOK, SessionTypeOK
  <2>9. (reason = "ttp_worker_unavailable" => phase = "ttp")'
    BY <1>2, <2>4 DEF ReasonMay, CauseInv, ReasonInv
  <2>10. (reason = "success" => finished)'
    BY <1>2, <2>3, Zenon DEF ReasonMay, CauseInv, ReasonInv
  <2> QED BY <2>6, <2>7, <2>8, <2>9, <2>10 DEF ReasonInv
<1>6. RoomInv'
  BY <1>4 DEF RoomInv, Open, Settling
<1>10. EndInv'
  <2>1. reason # "none" => reason' # "none"
    BY <1>2 DEF ReasonMay
  <2>2. /\ SchemaIsFrozen => SchemaIsFrozen'
        /\ finished => finished'
        /\ ttpSubmissions' >= ttpSubmissions
        /\ UNCHANGED rounds
    BY <1>2 DEF ToolMay, IInv, TypeOK, SessionTypeOK, SchemaIsFrozen
  <2>3. AgentRounds' = AgentRounds
    BY <2>2 DEF AgentRounds
  <2>4. PhaseCompleted => PhaseCompleted'
    BY <1>2, <2>2 DEF PhaseCompleted, Succeeded, HasCandidate, ToolMay
  <2>5. ttpSubmissions >= MaxSubmissions => ttpSubmissions' >= MaxSubmissions
    BY <1>2, <2>2, SessionAssumption DEF ToolMay, IInv, TypeOK, SessionTypeOK
  <2>6. pc' = "stopped" => pc = "stopped" \/ ~ stopped'
    BY DEF IInv, PlaceInv, Repairing, outcomeVars
  <2> HIDE DEF c
  <2> QED
    BY <2>1, <2>3, <2>4, <2>5, <2>6 DEF EndInv, CauseInv, ProtocolRetryLimit, outcomeVars
<1>7. (flight.tool = "test_ttp_template" => phase = "ttp")'
  BY <1>2, <1>3, <1>4 DEF ToolMay, Phases, NoFlight
<1>8. (exceeded => AgentRounds >= MaxRounds)' /\ (lastInvalid => invalidSeen)'
  BY <1>2 DEF ToolMay, CauseInv, AgentRounds, outcomeVars
<1>9. FailureHasItsCause'
  BY <1>4 DEF FailureHasItsCause, IInv, AnswerInv, workflowVars
<1> QED BY <1>5, <1>6, <1>7, <1>8, <1>9, <1>10 DEF CauseInv

(* The steps of _run_generation_phase keep it.                             *)
LEMMA RunnerCause ==
  ASSUME IInv, IInv', CauseInv, RunPhase
  PROVE  CauseInv'
<1> stage = "run" /\ outcome = "pending" /\ UNCHANGED workflowVars
  BY DEF RunPhase, IInv, AnswerInv
<1>f. FailureHasItsCause'
  BY DEF FailureHasItsCause, workflowVars
<1> USE SessionAssumption, RunnerAssumption
        DEF CauseInv, ReasonInv, RoomInv, Open, Settling, EndInv, PhaseCompleted, Succeeded,
            SchemaIsFrozen, HasCandidate, AgentRounds, Expired, HasTimeForAnotherRound,
            ProtocolRetryLimit, artifactVars, sessionVars, replyVars, outcomeVars,
            workflowVars
<1>1. CASE LoopEnds
  BY <1>1, <1>f DEF LoopEnds
<1>2. CASE RoundSkipped
  BY <1>2, <1>f DEF RoundSkipped
<1>3. CASE ReplyOpens
  BY <1>3, <1>f DEF ReplyOpens
<1>4. CASE ModelCallStart
  <2>1. AgentRounds' >= AgentRounds
    BY <1>4 DEF ModelCallStart, RecordAgentRound, IInv, TypeOK, SessionTypeOK,
       RunnerTypeOK, Phases
  <2>2. exceeded' => AgentRounds' >= MaxRounds
    <3>1. AgentRounds \in Nat /\ AgentRounds' \in Nat
      BY DEF IInv, TypeOK, SessionTypeOK, Phases
    <3> HIDE DEF AgentRounds
    <3> QED BY <1>4, <2>1, <3>1 DEF ModelCallStart
  <2> QED BY <1>4, <1>f, <2>2 DEF ModelCallStart
<1>5. CASE ReplyExceedsRounds
  BY <1>5, <1>f DEF ReplyExceedsRounds
<1>6. CASE CallTool
  BY <1>6, CallCause DEF CallTool, IInv, FlightInv
<1>7. CASE ReplyContinues
  BY <1>7, <1>f DEF ReplyContinues
<1>8. CASE ToolResultEnd
  <2>1. CASE StopsReply
    <3>1. ReasonInv' /\ RoomInv'
      BY <1>8, <2>1 DEF ToolResultEnd, ResultHandled
    <3>2. \/ reason' # "none" \/ PhaseCompleted' \/ ProtocolRetryLimit'
          \/ ttpSubmissions' >= MaxSubmissions
      BY <1>8, <2>1 DEF ToolResultEnd, ResultHandled, StopsReply, TerminalToolObserved
    <3>3. EndInv' /\ (lastInvalid => invalidSeen)'
      BY <1>8, <2>1, <3>2 DEF ToolResultEnd, ResultHandled
    <3> QED BY <1>8, <1>f, <2>1, <3>1, <3>3 DEF ToolResultEnd, ResultHandled
  <2>2. CASE ~ StopsReply
    <3>1. reason' # "generation_timeout" /\ reason' = reason
      BY <1>8, <2>2 DEF ToolResultEnd, ResultHandled, StopsReply, TerminalToolObserved
    <3>2. ~ PhaseCompleted /\ (phase = "ttp" => ttpSubmissions < MaxSubmissions)
      BY <2>2 DEF StopsReply, TerminalToolObserved, IInv, TypeOK, SessionTypeOK
    <3>3. ttpSubmissions < MaxSubmissions
      BY <3>2 DEF IInv, TypeOK, RunnerTypeOK, ArtifactInv, Phases
    <3>4. reason = "none"
      <4>1. reason # "ttp_worker_unavailable"
        BY <1>8, <2>2, <3>1 DEF ToolResultEnd, ResultHandled, StopsReply, TerminalToolObserved
      <4>2. reason # "ttp_submission_limit"
        BY <3>3 DEF IInv, TypeOK, SessionTypeOK
      <4>3. reason # "success"
        BY <3>2 DEF IInv, ArtifactInv, TypeOK, RunnerTypeOK, Phases
      <4>4. reason # "model_no_tool_retry_limit"
        BY <1>8 DEF ToolResultEnd, ResultHandled
      <4> QED BY <3>1, <4>1, <4>2, <4>3, <4>4 DEF IInv, TypeOK, SessionTypeOK, TerminalReasons
    <3>5. pc' = "tools" /\ ~ stopped' /\ pc = "result"
      BY <1>8, <2>2 DEF ToolResultEnd, ResultHandled
    <3>6. UNCHANGED <<ttpSubmissions, finished, candidate, frozenSchema, phase, flight,
                      exceeded, rounds, phaseError>>
      BY <1>8 DEF ToolResultEnd, ResultHandled
    <3>7. ReasonInv' /\ RoomInv'
      BY <3>1, <3>2, <3>3, <3>4, <3>5, <3>6
    <3>8. (lastInvalid => invalidSeen)'
      BY <1>8, Zenon DEF ToolResultEnd, ResultHandled
    <3> QED BY <1>f, <3>5, <3>6, <3>7, <3>8
  <2> QED BY <2>1, <2>2
<1>9. CASE StoppedReplyEnds
  BY <1>9, <1>f DEF StoppedReplyEnds, NoFlight, IInv, PlaceInv
<1>10. CASE PhaseReturns
  BY <1>10, <1>f DEF PhaseReturns, ReplyIsFinal
<1>11. CASE NoToolResponse
  BY <1>11, <1>f DEF NoToolResponse, ReplyIsFinal, MayRetry, NoToolRetryAllowed,
     RecordNoToolResponse, IInv, TypeOK, SessionTypeOK, RunnerTypeOK, Phases, MaxNoToolRetries
<1> QED BY <1>1, <1>2, <1>3, <1>4, <1>5, <1>6, <1>7, <1>8, <1>9, <1>10, <1>11
        DEF RunnerStep, RunPhase

(* So do the model's answers, tool calls and validators.                   *)
LEMMA AgentCause ==
  ASSUME IInv, IInv', CauseInv, AgentActs
  PROVE  CauseInv'
<1> stage = "run" /\ outcome = "pending" /\ UNCHANGED workflowVars
  BY DEF AgentActs, IInv, AnswerInv
<1>f. FailureHasItsCause'
  BY DEF FailureHasItsCause, workflowVars
<1> USE SessionAssumption, RunnerAssumption
        DEF CauseInv, ReasonInv, RoomInv, Open, Settling, EndInv, PhaseCompleted, Succeeded,
            SchemaIsFrozen, HasCandidate, AgentRounds, Expired, HasTimeForAnotherRound,
            ProtocolRetryLimit, artifactVars, sessionVars, replyVars, outcomeVars,
            workflowVars
<1>1. ASSUME NEW calls \in Replies(phase), ModelReplies(calls) PROVE CauseInv'
  <2>1. pc' \in {"closing", "tools"} /\ (pc' = "closing" => ~ hadTool')
    <3> calls = <<>> \/ calls # <<>>  OBVIOUS
    <3> QED BY <1>1 DEF ModelReplies
  <2>2. ~ stopped'
    BY <1>1 DEF ModelReplies, IInv, PlaceInv, Repairing
  <2> QED BY <1>1, <1>f, <2>1, <2>2 DEF ModelReplies
<1>2. CASE ModelInterrupted
  BY <1>2, <1>f DEF ModelInterrupted
<1>6. CASE ToolInterrupted
  <2>1. pc' = "closing" /\ interrupted' /\ stage' = "run"
    BY <1>6 DEF ToolInterrupted
  <2>2. reason' = IF reason = "none" /\ ~ HasTimeForAnotherRound
                    THEN "generation_timeout" ELSE reason
    BY <1>6 DEF ToolInterrupted, ResultHandled
  <2>3. /\ stopped' = StopsReply
        /\ UNCHANGED <<ttpSubmissions, finished, candidate, frozenSchema, phase, timeLeft,
                       exceeded, rounds, phaseError, noToolSeq, failures, lastInvalid,
                       invalidSeen>>
    BY <1>6 DEF ToolInterrupted, ResultHandled
  <2>4. ReasonInv'
    BY <1>6, <2>1, <2>2, <2>3 DEF ToolInterrupted
  <2>5. EndInv' /\ (flight.tool = "test_ttp_template" => phase = "ttp")'
    BY <1>6, <2>1 DEF ToolInterrupted, NoFlight
  <2>6. ASSUME ~ StopsReply
        PROVE  reason' = "none" /\ ~ PhaseCompleted' /\ ttpSubmissions' < MaxSubmissions
    <3>1. reason' # "generation_timeout" /\ reason' = reason
      BY <2>2, <2>6 DEF StopsReply, TerminalToolObserved
    <3>2. ~ PhaseCompleted /\ (phase = "ttp" => ttpSubmissions < MaxSubmissions)
      BY <2>6 DEF StopsReply, TerminalToolObserved, IInv, TypeOK, SessionTypeOK
    <3>3. ttpSubmissions < MaxSubmissions
      BY <3>2 DEF IInv, TypeOK, RunnerTypeOK, ArtifactInv, Phases
    <3>4. reason # "ttp_worker_unavailable"
      BY <2>6, <3>1 DEF StopsReply, TerminalToolObserved
    <3>5. reason # "ttp_submission_limit"
      BY <3>3 DEF IInv, TypeOK, SessionTypeOK
    <3>6. reason # "success"
      BY <3>2 DEF IInv, ArtifactInv, TypeOK, RunnerTypeOK, Phases
    <3>7. reason # "model_no_tool_retry_limit"
      BY <1>6 DEF ToolInterrupted
    <3>8. reason = "none"
      BY <3>1, <3>4, <3>5, <3>6, <3>7 DEF IInv, TypeOK, SessionTypeOK, TerminalReasons
    <3> QED BY <2>3, <3>1, <3>2, <3>3, <3>8
  <2>7. RoomInv'
    BY <2>1, <2>3, <2>6
  <2> QED BY <1>f, <2>1, <2>3, <2>4, <2>5, <2>7
<1>3. ASSUME NEW kind \in ErrorKinds, ModelFails(kind) PROVE CauseInv'
  BY <1>3, <1>f DEF ModelFails
<1>4. ASSUME NEW v \in {"accepted", "rejected", "worker_failed", "exception"},
             ValidatorReturns(v)
      PROVE  CauseInv'
  <2> pc = "await" /\ pc' = "result" /\ UNCHANGED <<phase, replyVars, outcomeVars, phaseError>>
    BY <1>4 DEF ValidatorReturns
  <2>1. CASE SchemaValidated(v)
    BY <1>f, <2>1 DEF SchemaValidated, NoFlight
  <2>2. CASE TemplateValidated(v)
    BY <1>f, <2>2 DEF TemplateValidated, LimitReason, NoFlight, IInv, FlightInv
  <2>3. CASE TestValidated(v)
    BY <1>f, <2>3 DEF TestValidated, NoFlight
  <2> QED BY <1>4, <2>1, <2>2, <2>3 DEF ValidatorReturns
<1>5. CASE StrayCall
  BY <1>5, CallCause DEF StrayCall
<1> QED BY <1>1, <1>2, <1>3, <1>4, <1>5, <1>6 DEF AgentStep, AgentActs

(* A failed answer with a cause keeps it.                                  *)
LEMMA FailCause ==
  ASSUME IInv, CauseInv, stage # "done", NEW r, Fail(r), UNCHANGED sessionVars, Caused(r)
  PROVE  CauseInv'
<1> USE DEF Fail, Answer, CauseInv, sessionVars, artifactVars, outcomeVars
<1>1. ReasonInv'
  BY DEF ReasonInv, PhaseCompleted, SchemaIsFrozen, Succeeded, HasCandidate, Expired,
         HasTimeForAnotherRound, ProtocolRetryLimit
<1>2. RoomInv' /\ EndInv'
  BY DEF RoomInv, Open, Settling, EndInv
<1>3. FailureHasItsCause'
  BY DEF FailureHasItsCause, Caused, AgentRounds, Expired, ProtocolRetryLimit, replyVars
<1>4. (exceeded => AgentRounds >= MaxRounds)'
  BY DEF AgentRounds
<1> QED BY <1>1, <1>2, <1>3, <1>4

(* The classification of a phase that stopped short names what was so      *)
(* (workflow.py _phase_stopped_failure).                                   *)
LEMMA StoppedCause ==
  ASSUME IInv, CauseInv, PhaseOver, ~ PhaseCompleted
  PROVE  Caused(StoppedReason)
<1> USE DEF Caused, StoppedReason, CauseInv
<1>1. reason = "model_no_tool_retry_limit" =>
        ProtocolRetryLimit \/ noToolSeq[phase] > MaxNoToolRetries(phase)
  BY DEF ReasonInv
<1>2. phase = "ttp" /\ ttpSubmissions >= MaxSubmissions => ~ finished
  BY SessionAssumption DEF IInv, ArtifactInv, TypeOK, SessionTypeOK
<1>3. RepairsExhausted \in {"model_no_tool_retry_limit", "model_submission_tool_call_invalid"}
      /\ (RepairsExhausted = "model_submission_tool_call_invalid" => lastInvalid)
  BY DEF RepairsExhausted
<1>4. exceeded \/ AgentRounds >= MaxRounds => AgentRounds >= MaxRounds
  OBVIOUS
<1>5. RoundsExhausted \in {"agent_round_limit", "model_submission_tool_call_invalid"}
      /\ (RoundsExhausted = "model_submission_tool_call_invalid" => invalidSeen)
  BY DEF RoundsExhausted
<1>6. StoppedReason = "agent_stopped" => interrupted \/ reason = "generation_timeout"
  <2> SUFFICES ASSUME StoppedReason = "agent_stopped"
               PROVE  interrupted \/ reason = "generation_timeout"
    OBVIOUS
  <2>1. /\ phase = "ttp" => reason # "ttp_worker_unavailable" /\ ~ ttpSubmissions >= MaxSubmissions
        /\ ~ ProtocolRetryLimit /\ reason # "model_no_tool_retry_limit"
        /\ ~ exceeded /\ ~ AgentRounds >= MaxRounds
    BY <1>3, <1>5
  <2>2. reason # "none" \/ interrupted \/ ttpSubmissions >= MaxSubmissions
    BY <2>1 DEF EndInv, PhaseOver
  <2>3. ~ ttpSubmissions >= MaxSubmissions
    BY <2>1, SessionAssumption DEF IInv, TypeOK, RunnerTypeOK, ArtifactInv, Phases
  <2>4. reason \notin {"ttp_submission_limit", "ttp_worker_unavailable"}
    BY <2>1 DEF ReasonInv
  <2>5. reason # "success"
    BY DEF ReasonInv, PhaseCompleted, Succeeded, IInv, ArtifactInv, TypeOK, RunnerTypeOK, Phases
  <2> QED BY <2>1, <2>2, <2>3, <2>4, <2>5 DEF IInv, TypeOK, SessionTypeOK, TerminalReasons
<1> HIDE DEF StoppedReason
<1>7. StoppedReason \in {"ttp_worker_unavailable", "ttp_submission_limit", "agent_stopped",
                         "model_no_tool_retry_limit", "model_submission_tool_call_invalid",
                         "agent_round_limit"}
  BY <1>3, <1>5 DEF StoppedReason
<1>8. /\ StoppedReason = "ttp_worker_unavailable" => reason = "ttp_worker_unavailable"
      /\ StoppedReason = "ttp_submission_limit" => ttpSubmissions >= MaxSubmissions /\ ~ finished
      /\ StoppedReason = "agent_round_limit" => AgentRounds >= MaxRounds
      /\ StoppedReason = "model_no_tool_retry_limit" =>
           ProtocolRetryLimit \/ noToolSeq[phase] > MaxNoToolRetries(phase)
      /\ StoppedReason = "model_submission_tool_call_invalid" => invalidSeen
  BY <1>1, <1>2, <1>3, <1>4, <1>5 DEF StoppedReason
<1> QED BY <1>6, <1>7, <1>8

(* The steps of the workflow itself keep it.                               *)
LEMMA WorkflowCause ==
  ASSUME IInv, IInv', CauseInv, WorkflowStep
  PROVE  CauseInv'
<1> USE DEF GoTo
<1>1. CASE BeginSchemaPhase
  BY <1>1 DEF BeginSchemaPhase, CauseInv, ReasonInv, RoomInv, Open, Settling, EndInv, IInv, PlaceInv,
     ArtifactInv, AnswerInv, PhaseCompleted, SchemaIsFrozen, HasTimeForAnotherRound, Expired,
     FailureHasItsCause, AgentRounds, sessionVars, artifactVars, outcomeVars
<1>2. ASSUME NEW s \in Schemas, FreezeInjectedSchema(s) PROVE CauseInv'
  BY <1>2, SessionAssumption
     DEF FreezeInjectedSchema, CauseInv, ReasonInv, RoomInv, Open, Settling, EndInv, IInv, PlaceInv,
     ArtifactInv, AnswerInv, PhaseCompleted, SchemaIsFrozen, Succeeded, HasCandidate,
     HasTimeForAnotherRound, Expired, FailureHasItsCause, AgentRounds, FlightInv,
     NoFlight, outcomeVars
<1>3. ASSUME NEW s \in Schemas, RejectInjectedSchema(s) PROVE CauseInv'
  BY <1>3, FailCause DEF RejectInjectedSchema, Caused
<1>4. CASE FitTimesOut \/ FitRejectsInput \/ WatchdogFires \/ RoundsSpentOnSchema
             \/ AcceptanceTimesOut
  BY <1>4, FailCause DEF FitTimesOut, FitRejectsInput, WatchdogFires, WatchdogDue,
     RoundsSpentOnSchema, PhaseOver, AcceptanceTimesOut, Caused
<1>5. CASE FitBreaks
  BY <1>5, FailCause, RunnerAssumption DEF FitBreaks, Caused
<1>6. CASE PhaseRaised
  BY <1>6, FailCause, RunnerAssumption DEF PhaseRaised, Caused, CauseInv
<1>7. CASE AcceptanceFails
  BY <1>7, FailCause DEF AcceptanceFails, Caused, IInv, AnswerInv, Accepting
<1>8. CASE PhaseStopped
  BY <1>8, FailCause, StoppedCause DEF PhaseStopped, PhaseOver
<1>9. CASE FitSucceeds
  BY <1>9, SessionAssumption
     DEF FitSucceeds, StartPhase, CauseInv, ReasonInv, RoomInv, Open, Settling, EndInv,
     PhaseCompleted, SchemaIsFrozen, Succeeded, HasCandidate, HasTimeForAnotherRound,
     Expired, FailureHasItsCause, AgentRounds, IInv, AnswerInv, sessionVars, artifactVars,
     ProtocolRetryLimit
<1>10. CASE RunPhase
  BY <1>10, RunnerCause
<1>11. CASE BeginTtpPhase
  BY <1>11, SessionAssumption
     DEF BeginTtpPhase, PhaseOver, CauseInv, ReasonInv, RoomInv, Open, Settling, EndInv,
     PhaseCompleted, SchemaIsFrozen, Succeeded, HasCandidate, HasTimeForAnotherRound,
     Expired, FailureHasItsCause, AgentRounds, IInv, TypeOK, SessionTypeOK, AnswerInv,
     ArtifactInv, TerminalReasons, sessionVars, artifactVars, outcomeVars
<1>12. CASE SchemaProposed \/ ArtifactPackaged
  BY <1>12 DEF SchemaProposed, ArtifactPackaged, PhaseOver, Answer, CauseInv, ReasonInv,
     RoomInv, Open, Settling, EndInv, PhaseCompleted, SchemaIsFrozen, Succeeded, HasCandidate,
     HasTimeForAnotherRound, Expired, FailureHasItsCause, AgentRounds, IInv, AnswerInv,
     sessionVars, artifactVars, outcomeVars, ProtocolRetryLimit
<1>13. CASE BeginAcceptance \/ SchemaRevalidated \/ TemplateRevalidated
  BY <1>13 DEF BeginAcceptance, SchemaRevalidated, TemplateRevalidated, PhaseOver, CauseInv,
     ReasonInv, RoomInv, Open, Settling, EndInv, PhaseCompleted, SchemaIsFrozen, Succeeded,
     HasCandidate, HasTimeForAnotherRound, Expired, FailureHasItsCause, AgentRounds, IInv,
     AnswerInv, ArtifactInv, PlaceInv, Accepting, sessionVars, artifactVars, outcomeVars,
     runnerVars, ProtocolRetryLimit
<1> QED BY <1>1, <1>2, <1>3, <1>4, <1>5, <1>6, <1>7, <1>8, <1>9, <1>10, <1>11, <1>12, <1>13
        DEF WorkflowStep

(* So do the clock and the caller's cancellation.                          *)
LEMMA OtherCause ==
  ASSUME IInv, IInv', CauseInv, TimePasses \/ CancelRequest \/ UNCHANGED vars
  PROVE  CauseInv'
<1> USE SessionAssumption
        DEF CauseInv, ReasonInv, RoomInv, Open, Settling, EndInv, PhaseCompleted, SchemaIsFrozen,
            Succeeded, HasCandidate, HasTimeForAnotherRound, Expired, FailureHasItsCause,
            AgentRounds, ProtocolRetryLimit, sessionVars, artifactVars, outcomeVars, replyVars,
            runnerVars, workflowVars
<1>1. CASE TimePasses
  BY <1>1 DEF TimePasses, Tick, IInv, TypeOK, SessionTypeOK, AnswerInv
<1>2. CASE CancelRequest
  BY <1>2 DEF CancelRequest, Answer, IInv, AnswerInv
<1>3. CASE UNCHANGED vars
  BY <1>3 DEF vars, Caused
<1> QED BY <1>1, <1>2, <1>3

(* The reasons of a request stay grounded.                                 *)
THEOREM CauseInvariant == Spec => []CauseInv
<1>1. IInv /\ IInv' /\ CauseInv /\ [Next]_vars => CauseInv'
  BY AgentCause, WorkflowCause, OtherCause DEF Next, Answered
<1> QED BY Invariant, CauseInit, <1>1, PTL DEF Spec

(* A failed answer names a cause that really happened (workflow.py         *)
(* _phase_stopped_failure, _resolve_phase_execution, _accept_artifact_impl).*)
THEOREM FailureCaused == Spec => []FailureHasItsCause
  BY CauseInvariant, PTL DEF CauseInv

(* Only the start of a model call counts a round (runner.py).              *)
LEMMA RoundSteps ==
  ASSUME IInv, [Next]_vars, rounds' # rounds
  PROVE  ModelCallStart
<1> USE DEF workflowVars, artifactVars, sessionVars
<1>1. CASE TimePasses \/ CancelRequest \/ UNCHANGED vars
  BY <1>1 DEF TimePasses, Tick, CancelRequest, vars
<1>2. ASSUME NEW c \in Calls, ToolMay(c) PROVE FALSE
  BY <1>2 DEF ToolMay
<1>3. CASE RunPhase
  <2>1. CASE CallTool
    <3>1. Head(pending) \in Calls /\ flight = NoFlight
      BY <2>1, SequenceParts DEF CallTool, IInv, TypeOK, RunnerTypeOK, FlightInv, PlaceInv
    <3> QED BY <1>2, <2>1, <3>1, ToolEffect DEF CallTool, IInv, TypeOK
  <2> QED BY <1>3, <2>1 DEF RunPhase, RunnerStep, LoopEnds, RoundSkipped, ReplyOpens,
        ReplyExceedsRounds, ReplyContinues, ToolResultEnd, ResultHandled, StoppedReplyEnds, PhaseReturns,
        NoToolResponse
<1>4. CASE AgentActs
  <2>1. CASE StrayCall
    <3>1. Head(pending) \in Calls
      BY <2>1, SequenceParts DEF StrayCall, IInv, TypeOK, RunnerTypeOK
    <3> QED BY <1>2, <2>1, <3>1, ToolEffect DEF StrayCall, IInv, TypeOK
  <2> QED BY <1>4, <2>1 DEF AgentActs, AgentStep, ModelReplies, ModelInterrupted, ToolInterrupted,
        ResultHandled, ModelFails,
        ValidatorReturns, SchemaValidated, TemplateValidated, TestValidated
<1>5. CASE WorkflowStep
  BY <1>3, <1>5 DEF WorkflowStep, BeginSchemaPhase, FreezeInjectedSchema,
     RejectInjectedSchema, FitTimesOut, FitRejectsInput, FitBreaks, FitSucceeds, StartPhase,
     WatchdogFires, PhaseRaised, SchemaProposed, RoundsSpentOnSchema, BeginTtpPhase,
     BeginAcceptance, PhaseStopped, AcceptanceTimesOut, AcceptanceFails, SchemaRevalidated,
     TemplateRevalidated, ArtifactPackaged
<1> QED BY <1>1, <1>4, <1>5 DEF Next, Answered

(* No round is opened past a limit or a fatal failure (runner.py).         *)
THEOREM NoRoundPast == Spec => NoRoundPastTheEnd
<1>1. IInv /\ CauseInv /\ [Next]_vars =>
        (AgentRounds' # AgentRounds =>
           reason = "none" /\ ~ PhaseCompleted /\ ~ ProtocolRetryLimit
             /\ ttpSubmissions < MaxSubmissions)
  <2> SUFFICES ASSUME IInv, CauseInv, [Next]_vars, rounds' # rounds
               PROVE  reason = "none" /\ ~ PhaseCompleted /\ ~ ProtocolRetryLimit
                        /\ ttpSubmissions < MaxSubmissions
    BY DEF AgentRounds
  <2>1. ModelCallStart
    BY RoundSteps
  <2> QED BY <2>1, RunnerAssumption DEF ModelCallStart, CauseInv, RoomInv, Open, IInv,
          CounterInv, Repairing, TypeOK, RunnerTypeOK, ProtocolRetryLimit
<1> QED BY <1>1, Invariant, CauseInvariant, PTL DEF Spec, NoRoundPastTheEnd
=============================================================================
