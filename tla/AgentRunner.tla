---------------------------- MODULE AgentRunner ----------------------------
(***************************************************************************)
(* One phase of model rounds and tool calls (agent/runner.py,              *)
(* _run_generation_phase), driving the tools of GenerationSession.         *)
(*                                                                         *)
(* AgentScope and the model provider are outside this repository.  They    *)
(* appear as the choices they may make: how many tools a reply calls and   *)
(* with which arguments, whether a model call fails, is interrupted or     *)
(* never returns, and whether tool calls left in a reply still run after   *)
(* the runner has asked it to stop.                                        *)
(***************************************************************************)
EXTENDS GenerationSession

CONSTANTS
  MaxProtocolFailures,  \* MAX_CONSECUTIVE_PROTOCOL_FAILURES
  MaxCalls,             \* most tool calls in one reply
  ErrorKinds            \* terminations an exception in a phase can have

ASSUME RunnerAssumption ==
  /\ MaxProtocolFailures \in Nat \ {0}
  /\ MaxCalls \in Nat \ {0}
  /\ ErrorKinds \subseteq {"model_timeout", "model_error", "model_request_rejected",
                           "model_context_budget", "internal_error"}

VARIABLES
  pc,              \* where the phase is
  phase,           \* which phase
  pending,         \* tool calls of the reply still to run, in order
  failures,        \* consecutive_protocol_failures
  lastInvalid,     \* last_model_call_invalid
  invalidSeen,     \* submission_tool_call_invalids grew in this phase
  stopped,         \* stopped_after_terminal_tool
  exceeded,        \* exceeded_max_iters
  hadTool,         \* last_call_had_tool
  interrupted,     \* last_call_interrupted
  phaseError       \* how an exception that left the phase is classified

replyVars == <<pending, hadTool, interrupted>>
outcomeVars == <<failures, lastInvalid, invalidSeen, stopped, exceeded>>
runnerVars == <<pc, phase, replyVars, outcomeVars, phaseError>>

(* "off": no phase runs.  "loop": top of the while.  "reply": the reply     *)
(* stream may start a model call.  "calling": the model call is out.       *)
(* "tools": the reply's calls run one by one.  "await": a validator thread *)
(* works for the running call.  "result": its ToolResultEnd is handled.    *)
(* "stopped": the runner has cancelled the reply and ignores its events.   *)
(* "closing": the stream has ended.  "returned" and "raised": the phase    *)
(* is over.                                                                *)
Places == {"off", "loop", "reply", "calling", "tools", "await", "result",
           "stopped", "closing", "returned", "raised"}

(* A tool call as the model writes it.  "malformed" arguments are turned    *)
(* away by AgentScope before the tool is entered, "rejected" ones by the   *)
(* tool's own input contract; a tool that is not offered is "other".       *)
SchemaCalls ==
  [tool : {"submit_result_schema"}, args : {"ok"}, value : Schemas]
    \cup [tool : {"submit_result_schema"}, args : {"malformed", "rejected"}, value : {None}]
TtpCalls ==
  [tool : {"submit_ttp_template"}, args : {"ok"}, value : Templates]
    \cup [tool : {"submit_ttp_template", "test_ttp_template"},
          args : {"malformed", "rejected"}, value : {None}]
    \cup [tool : {"test_ttp_template"}, args : {"ok"}, value : {None}]
    \cup [tool : {"finish_generation"}, args : {"ok", "malformed"}, value : {None}]
OtherCall == [tool |-> "other", args |-> "malformed", value |-> None]
Calls == SchemaCalls \cup TtpCalls \cup {OtherCall}

CallsOf(p) == (IF p = "schema" THEN SchemaCalls ELSE TtpCalls) \cup {OtherCall}
Replies(p) == UNION {[1 .. n -> CallsOf(p)] : n \in 0 .. MaxCalls}

RunnerTypeOK ==
  /\ pc \in Places
  /\ phase \in Phases
  /\ pending \in Seq(Calls)
  /\ failures \in Nat
  /\ lastInvalid \in BOOLEAN
  /\ invalidSeen \in BOOLEAN
  /\ stopped \in BOOLEAN
  /\ exceeded \in BOOLEAN
  /\ hadTool \in BOOLEAN
  /\ interrupted \in BOOLEAN
  /\ phaseError \in ErrorKinds \cup {"none"}

RunnerInit ==
  /\ pc = "off"
  /\ phase = "schema"
  /\ pending = <<>>
  /\ failures = 0
  /\ lastInvalid = FALSE
  /\ invalidSeen = FALSE
  /\ stopped = FALSE
  /\ exceeded = FALSE
  /\ hadTool = FALSE
  /\ interrupted = FALSE
  /\ phaseError = "none"

PhaseCompleted == IF phase = "schema" THEN SchemaIsFrozen ELSE Succeeded

ProtocolRetryLimit == failures >= MaxProtocolFailures

-----------------------------------------------------------------------------
(* The while loop and the reply stream.                                    *)

(* Locals of _run_generation_phase; the workflow notes invalidSeen's base. *)
StartPhase ==
  /\ pc = "off"
  /\ pc' = "loop"
  /\ failures' = 0
  /\ lastInvalid' = FALSE
  /\ invalidSeen' = FALSE
  /\ stopped' = FALSE
  /\ exceeded' = FALSE
  /\ UNCHANGED <<sessionVars, phase, replyVars, phaseError>>

LoopEnds ==
  /\ pc = "loop"
  /\ AgentRounds >= MaxRounds
  /\ pc' = "returned"
  /\ UNCHANGED <<sessionVars, phase, replyVars, outcomeVars, phaseError>>

(* stop_for_deadline: no round is opened that one model call cannot fit.   *)
RoundSkipped ==
  /\ pc = "loop"
  /\ AgentRounds < MaxRounds
  /\ ~ HasTimeForAnotherRound
  /\ reason' = "generation_timeout"
  /\ pc' = "returned"
  /\ UNCHANGED <<artifactVars, timeLeft, rounds, noToolSeq, boundary, flight,
                 phase, replyVars, outcomeVars, phaseError>>

ReplyOpens ==
  /\ pc = "loop"
  /\ AgentRounds < MaxRounds
  /\ HasTimeForAnotherRound
  /\ pc' = "reply"
  /\ hadTool' = FALSE
  /\ interrupted' = FALSE
  /\ UNCHANGED <<sessionVars, phase, pending, outcomeVars, phaseError>>

ModelCallStart ==
  /\ pc = "reply"
  /\ AgentRounds < MaxRounds
  /\ RecordAgentRound(phase)
  /\ boundary' = [t \in Tools |-> "none"]
  /\ hadTool' = FALSE
  /\ lastInvalid' = FALSE
  /\ interrupted' = FALSE
  /\ pc' = "calling"
  /\ UNCHANGED <<artifactVars, timeLeft, reason, noToolSeq, flight, phase, pending,
                 failures, invalidSeen, stopped, exceeded, phaseError>>

(* The reply's own iteration bound is the rounds that were left, so it      *)
(* meets ExceedMaxIters (or a stale model-call marker) exactly here.       *)
ReplyExceedsRounds ==
  /\ pc = "reply"
  /\ AgentRounds >= MaxRounds
  /\ exceeded' = TRUE
  /\ pc' = "closing"
  /\ UNCHANGED <<sessionVars, phase, replyVars, failures, lastInvalid, invalidSeen,
                 stopped, phaseError>>

(* ModelCallEnd and the ToolCallStart events of its calls.                 *)
ModelReplies(calls) ==
  /\ pc = "calling"
  /\ pending' = calls
  /\ hadTool' = (calls # <<>>)
  /\ pc' = IF calls = <<>> THEN "closing" ELSE "tools"
  /\ UNCHANGED <<sessionVars, phase, interrupted, outcomeVars, phaseError>>

ModelInterrupted ==
  /\ pc = "calling"
  /\ interrupted' = TRUE
  /\ pc' = "closing"
  /\ UNCHANGED <<sessionVars, phase, pending, hadTool, outcomeVars, phaseError>>

(* The provider failed for good, or preparing the input of a call did.      *)
ModelFails(kind) ==
  /\ pc \in {"reply", "calling"}
  /\ phaseError' = kind
  /\ pc' = "raised"
  /\ UNCHANGED <<sessionVars, phase, replyVars, outcomeVars>>

-----------------------------------------------------------------------------
(* Running a call, up to its answer or its first await.                    *)

Mark_of(c) == IF c.args = "ok" THEN "valid" ELSE "rejected"

EntersNoTool(c) == c.args = "malformed" /\ UNCHANGED sessionVars

RunSchemaTool(c) ==
  /\ c.tool = "submit_result_schema"
  /\ \/ c.args = "rejected" /\ SchemaArgumentsRejected
     \/ c.args = "ok" /\ SchemaAlreadyFrozen
     \/ c.args = "ok" /\ SchemaSubmitted(c.value)

RunTemplateTool(c) ==
  /\ c.tool = "submit_ttp_template"
  /\ \/ c.args # "malformed" /\ TemplateRefused(Mark_of(c))
     \/ c.args # "malformed" /\ TemplateOverLimit(Mark_of(c))
     \/ c.args = "rejected" /\ TemplateArgumentsRejected
     \/ c.args = "ok" /\ TemplateUnchanged(c.value)
     \/ c.args = "ok" /\ TemplateSubmitted(c.value)

RunTestTool(c) ==
  /\ c.tool = "test_ttp_template"
  /\ c.args # "malformed"
  /\ TestRefused(Mark_of(c)) \/ TestCalled(Mark_of(c))

RunFinishTool(c) ==
  /\ c.tool = "finish_generation"
  /\ c.args = "ok"
  /\ FinishRefused \/ FinishLimited \/ FinishWithoutCandidate \/ FinishAccepted

(* Something fails between the tool's entry and the check of its arguments. *)
FailsOnEntry(c) ==
  /\ c.args = "ok"
  /\ Mark(c.tool, "entered")
  /\ AnswerOnly /\ UNCHANGED reason

RunTool(c) == EntersNoTool(c) \/ FailsOnEntry(c) \/ RunSchemaTool(c) \/ RunTemplateTool(c)
                \/ RunTestTool(c) \/ RunFinishTool(c)

CallTool ==
  /\ pc = "tools"
  /\ pending # <<>>
  /\ RunTool(Head(pending))
  /\ pc' = IF flight' = NoFlight THEN "result" ELSE "await"
  /\ UNCHANGED <<phase, replyVars, outcomeVars, phaseError>>

ValidatorReturns(verdict) ==
  /\ pc = "await"
  /\ \/ SchemaValidated(verdict)
     \/ TemplateValidated(verdict)
     \/ TestValidated(verdict)
  /\ pc' = "result"
  /\ UNCHANGED <<phase, replyVars, outcomeVars, phaseError>>

ReplyContinues ==
  /\ pc = "tools"
  /\ pending = <<>>
  /\ pc' = "reply"
  /\ UNCHANGED <<sessionVars, phase, replyVars, outcomeVars, phaseError>>

-----------------------------------------------------------------------------
(* ToolResultEnd.                                                          *)

(* build_submission_tools: at a zero test budget the tool is withheld.     *)
Toolkit(p) ==
  IF p = "schema" THEN {"submit_result_schema"}
  ELSE {"submit_ttp_template", "finish_generation"}
         \cup (IF MaxTests > 0 THEN {"test_ttp_template"} ELSE {})

Offered(tool) == tool \in Toolkit(phase)

(* The tracker is read by tool name: it holds the last mark of the reply.  *)
BoundaryOf(c) == IF c.tool \in Tools THEN boundary[c.tool] ELSE "none"
WrongTool(c) == ~ Offered(c.tool)
InvalidArguments(c) == Offered(c.tool) /\ BoundaryOf(c) \in {"none", "rejected"}
ProtocolFailure(c) == WrongTool(c) \/ InvalidArguments(c)
ArgumentsHeld(c) == Offered(c.tool) /\ BoundaryOf(c) \in {"valid", "execution_failed"}

(* _terminal_tool_observed, on the reason this result has just left.       *)
TerminalToolObserved ==
  \/ PhaseCompleted
  \/ reason' = "generation_timeout"
  \/ /\ phase = "ttp"
     /\ reason' = "ttp_worker_unavailable" \/ ttpSubmissions >= MaxSubmissions

(* Mutation used by the runs: a terminal result does not stop the reply.   *)
StopsReply_OnlyOnCompletion == failures' >= MaxProtocolFailures \/ PhaseCompleted
StopsReply == failures' >= MaxProtocolFailures \/ TerminalToolObserved

(* What follows every result, whatever it was.                              *)
ResultHandled ==
  /\ reason' = IF reason = "none" /\ ~ HasTimeForAnotherRound
                 THEN "generation_timeout" ELSE reason
  /\ stopped' = StopsReply
  /\ UNCHANGED <<artifactVars, timeLeft, rounds, boundary, phase, exceeded,
                 hadTool, phaseError>>

(* A call that failed on entry is neither a failure of the model's nor the  *)
(* end of a series of them.                                                *)
ToolResultEnd ==
  /\ pc = "result"
  /\ LET c == Head(pending)
     IN /\ failures' = IF ProtocolFailure(c) THEN failures + 1
                       ELSE IF ArgumentsHeld(c) THEN 0 ELSE failures
        /\ invalidSeen' = (invalidSeen \/ InvalidArguments(c))
        /\ lastInvalid' = IF InvalidArguments(c) THEN TRUE
                          ELSE IF ArgumentsHeld(c) THEN FALSE ELSE lastInvalid
        /\ IF ArgumentsHeld(c) THEN ResetNoToolSequence(phase)
                               ELSE UNCHANGED noToolSeq
  /\ ResultHandled
  /\ pc' = IF StopsReply THEN "stopped" ELSE "tools"
  /\ pending' = Tail(pending)
  /\ UNCHANGED <<flight, interrupted>>

(* A call interrupted at its answer, or while its validator works: the      *)
(* agent library answers the calls that are left alike and ends the reply. *)
ToolInterrupted ==
  /\ pc \in {"await", "result"}
  /\ interrupted' = TRUE
  /\ flight' = NoFlight
  /\ pending' = <<>>
  /\ UNCHANGED <<failures, invalidSeen, lastInvalid, noToolSeq>>
  /\ ResultHandled
  /\ pc' = "closing"

-----------------------------------------------------------------------------
(* The reply after the runner has cancelled it.  Its events are ignored,    *)
(* but a reply that never suspends runs its remaining calls all the same;  *)
(* the first call that does suspend is where the cancellation arrives.     *)

StrayCall ==
  /\ pc = "stopped"
  /\ pending # <<>>
  /\ flight = NoFlight
  /\ RunTool(Head(pending))
  /\ pending' = IF flight' = NoFlight THEN Tail(pending) ELSE <<>>
  /\ UNCHANGED <<pc, phase, hadTool, interrupted, outcomeVars, phaseError>>

StoppedReplyEnds ==
  /\ pc = "stopped"
  /\ pending' = <<>>
  /\ flight' = NoFlight
  /\ pc' = "closing"
  /\ UNCHANGED <<artifactVars, timeLeft, reason, rounds, noToolSeq, boundary, phase,
                 hadTool, interrupted, outcomeVars, phaseError>>

-----------------------------------------------------------------------------
(* After the stream.                                                       *)

ReplyIsFinal ==
  \/ stopped
  \/ PhaseCompleted
  \/ reason \in {"generation_timeout", "ttp_submission_limit", "ttp_worker_unavailable"}
  \/ exceeded
  \/ interrupted
  \/ hadTool

PhaseReturns ==
  /\ pc = "closing"
  /\ ReplyIsFinal
  /\ pc' = "returned"
  /\ UNCHANGED <<sessionVars, phase, replyVars, outcomeVars, phaseError>>

MayRetry == NoToolRetryAllowed(phase) /\ failures' < MaxProtocolFailures

(* A reply without a tool call is a protocol failure and a no-tool reply.  *)
NoToolResponse ==
  /\ pc = "closing"
  /\ ~ ReplyIsFinal
  /\ failures' = failures + 1
  /\ RecordNoToolResponse(phase)
  /\ \/ /\ ~ MayRetry
        /\ reason' = "model_no_tool_retry_limit"
        /\ pc' = "returned"
        /\ UNCHANGED exceeded
     \/ /\ MayRetry
        /\ AgentRounds >= MaxRounds
        /\ exceeded' = TRUE
        /\ pc' = "returned"
        /\ UNCHANGED reason
     \/ /\ MayRetry
        /\ AgentRounds < MaxRounds
        /\ pc' = "loop"
        /\ UNCHANGED <<reason, exceeded>>
  /\ UNCHANGED <<artifactVars, timeLeft, rounds, boundary, flight, phase, replyVars,
                 lastInvalid, invalidSeen, stopped, phaseError>>

-----------------------------------------------------------------------------

(* What the runner does of its own accord.                                 *)
RunnerStep ==
  \/ LoopEnds \/ RoundSkipped \/ ReplyOpens \/ ModelCallStart \/ ReplyExceedsRounds
  \/ CallTool \/ ReplyContinues \/ ToolResultEnd \/ StoppedReplyEnds
  \/ PhaseReturns \/ NoToolResponse

(* What the provider, AgentScope and the validator threads may do.         *)
AgentStep ==
  \/ \E calls \in Replies(phase) : ModelReplies(calls)
  \/ ModelInterrupted \/ ToolInterrupted
  \/ \E kind \in ErrorKinds : ModelFails(kind)
  \/ \E v \in {"accepted", "rejected", "worker_failed", "exception"} : ValidatorReturns(v)
  \/ StrayCall
=============================================================================
