------------------------- MODULE WorkflowProperties -------------------------
(***************************************************************************)
(* What is checked of a generation request.                                *)
(***************************************************************************)
EXTENDS Workflow

-----------------------------------------------------------------------------
(* Fairness.                                                               *)

(* asyncio runs what is ready.  Besides, either the clock reaches the       *)
(* deadline, and nothing is assumed of the model provider or of a validator *)
(* thread; or model calls and validators return some time, as their own    *)
(* timeouts make them, and the deadline may be as far away as one likes.   *)
FairSpec == Spec /\ WF_vars(WorkflowStep) /\ (WF_vars(TimePasses) \/ WF_vars(AgentActs))

-----------------------------------------------------------------------------
(* Safety. *)

(* A successful answer was earned (workflow.py run, run_schema_only and    *)
(* _accept_artifact_impl): it carries the schema that was frozen, and a    *)
(* template only when the model finished over that very template, which a  *)
(* validator accepted, while the submission budget still had room and time *)
(* was left.  A schema proposal never touches the TTP phase.               *)
SuccessIsEarned ==
  outcome = "success" =>
    /\ frozenSchema \in GoodSchemas
    /\ artifact.schema = frozenSchema
    /\ ~ Expired
    /\ IF mode = "schema_only"
         THEN artifact.template = None /\ ttpSubmissions = 0 /\ rounds["ttp"] = 0
         ELSE /\ finished
              /\ artifact.template = candidate
              /\ candidate \in GoodTemplates
              /\ candidateIndex \in 1 .. ttpSubmissions
              /\ ttpSubmissions < MaxSubmissions

(* No budget is overdrawn, whatever the model calls and in whatever order, *)
(* calls that run after the reply was cancelled included (session.py,      *)
(* tools.py, protocol.py).                                                 *)
BudgetsHold ==
  /\ AgentRounds <= MaxRounds
  /\ ttpSubmissions <= MaxSubmissions
  /\ testCalls <= MaxTests
  /\ failures <= MaxProtocolFailures
  /\ \A p \in Phases : noToolSeq[p] <= MaxNoToolRetries(p) + 1

(* The two repair counters agree: a streak of replies without a tool call   *)
(* is part of the streak of protocol failures (runner.py                   *)
(* record_protocol_failure, session.py record_no_tool_response), so the    *)
(* shorter of the two limits is the one that ends the phase.               *)
RepairStreaksAgree == pc # "off" => noToolSeq[phase] <= failures

(* A failed answer names a cause that really happened (workflow.py         *)
(* _phase_stopped_failure, _resolve_phase_execution, _accept_artifact_impl).*)
(* "agent_stopped" is left for a call, of the model or of a tool, that was  *)
(* interrupted, and for a phase that had no time for another round.        *)
Caused(r) ==
  /\ r = "generation_timeout" => Expired
  /\ r = "ttp_submission_limit" => ttpSubmissions >= MaxSubmissions /\ ~ finished
  /\ r = "agent_round_limit" => AgentRounds >= MaxRounds
  /\ r = "model_no_tool_retry_limit" =>
       ProtocolRetryLimit \/ noToolSeq[phase] > MaxNoToolRetries(phase)
  /\ r = "model_submission_tool_call_invalid" => invalidSeen
  /\ r = "ttp_worker_unavailable" => reason = "ttp_worker_unavailable"
  /\ r = "final_validation_failed" => finished
  /\ r = "agent_stopped" => interrupted \/ reason = "generation_timeout"
  /\ r \notin {"none", "success", "cancelled"}

FailureHasItsCause == outcome = "failed" => Caused(resultReason)

-----------------------------------------------------------------------------
(* The inductive invariant behind the safety properties.                   *)

Acting == {"tools", "await", "result", "stopped"}
Repairing == {"loop", "reply", "calling", "tools", "await", "result"}
Accepting == {"accept_schema", "accept_ttp", "package"}

(* Where the phase can be, and what the reply then holds.                  *)
PlaceInv ==
  /\ pc # "off" => stage = "run"
  /\ pc \in Repairing => ~ stopped
  /\ pc = "stopped" => stopped
  /\ pc \in Acting => pending \in Seq(CallsOf(phase))
  /\ pc \in {"await", "result"} => pending # <<>>

(* A validator works only for the call that waits for it.                  *)
FlightInv ==
  /\ flight # NoFlight => pc \in {"await", "stopped"} \/ stage = "done"
  /\ flight.tool = "submit_result_schema" =>
       phase = "schema" /\ frozenSchema = None /\ flight.arg \in Schemas
  /\ flight.tool = "submit_ttp_template" =>
       phase = "ttp" /\ ~ finished /\ ttpSubmissions > 0 /\ flight.arg \in Templates

(* What each phase may have produced.                                      *)
ArtifactInv ==
  /\ SchemaIsFrozen => frozenSchema \in GoodSchemas
  /\ phase = "schema" => ttpSubmissions = 0 /\ ~ HasCandidate /\ rounds["ttp"] = 0
  /\ phase = "ttp" => SchemaIsFrozen /\ mode # "schema_only"
  /\ stage = "start" => phase = "schema" /\ ~ SchemaIsFrozen
  /\ HasCandidate => candidate \in GoodTemplates /\ candidateIndex \in 1 .. ttpSubmissions
  /\ finished => HasCandidate /\ ttpSubmissions < MaxSubmissions

(* What the workflow has decided.                                          *)
AnswerInv ==
  /\ stage = "done" <=> outcome # "pending"
  /\ outcome = "pending" => artifact = NoArtifact
  /\ stage \in Accepting => finished /\ phase = "ttp"
  /\ SuccessIsEarned

(* The counters, and the room a running phase still has in them.           *)
CounterInv ==
  /\ BudgetsHold
  /\ RepairStreaksAgree
  /\ pc \in Repairing \/ (pc = "closing" /\ ~ stopped) =>
       failures < MaxProtocolFailures /\ noToolSeq[phase] <= MaxNoToolRetries(phase)
  /\ stage \in {"start", "fit"} => noToolSeq[phase] = 0
  /\ phase = "schema" => noToolSeq["ttp"] = 0

IInv == TypeOK /\ PlaceInv /\ FlightInv /\ ArtifactInv /\ AnswerInv /\ CounterInv

-----------------------------------------------------------------------------
(* The inductive invariant behind the reasons of a request.                *)

Open == pc \in {"reply", "calling", "tools"} \/ (pc = "closing" /\ ~ stopped)
Settling == pc = "loop" \/ stage \in {"start", "fit"}

(* A reason noted is so, and only the TTP phase notes its reasons.         *)
ReasonInv ==
  /\ reason = "generation_timeout" => Expired \/ ~ HasTimeForAnotherRound
  /\ reason = "ttp_submission_limit" => phase = "ttp" /\ ttpSubmissions >= MaxSubmissions
  /\ reason = "ttp_worker_unavailable" => phase = "ttp"
  /\ reason = "success" => finished
  /\ reason = "model_no_tool_retry_limit" =>
       /\ pc = "returned" \/ stage = "done"
       /\ ~ PhaseCompleted
       /\ ProtocolRetryLimit \/ noToolSeq[phase] > MaxNoToolRetries(phase)

(* A phase that may open a round has met no limit and no reason; a schema   *)
(* phase may have left the time's behind, and then no round is opened.      *)
RoomInv ==
  /\ Open \/ Settling => ~ PhaseCompleted /\ ttpSubmissions < MaxSubmissions
  /\ Open => reason = "none"
  /\ Settling => reason \in {"none", "generation_timeout"}
  /\ pc = "loop" /\ reason = "generation_timeout" => ~ HasTimeForAnotherRound

(* A phase that is over, or whose reply was stopped, has met what ended it; *)
(* a reply with tool calls ends by being stopped, or for want of a round.  *)
EndInv ==
  /\ pc = "returned" \/ (stopped /\ pc \in {"stopped", "closing"}) =>
       \/ reason # "none" \/ interrupted \/ exceeded
       \/ PhaseCompleted \/ ProtocolRetryLimit
       \/ ttpSubmissions >= MaxSubmissions \/ AgentRounds >= MaxRounds
  /\ pc = "closing" /\ hadTool => stopped \/ exceeded \/ interrupted

(* What the classification of a phase's end goes by.                       *)
CauseInv ==
  /\ ReasonInv
  /\ RoomInv
  /\ EndInv
  /\ flight.tool = "test_ttp_template" => phase = "ttp"
  /\ exceeded => AgentRounds >= MaxRounds
  /\ lastInvalid => invalidSeen
  /\ pc = "raised" => phaseError \in ErrorKinds
  /\ FailureHasItsCause

-----------------------------------------------------------------------------
(* What a step may never do. *)

(* The result schema is settled once, from inside the accepted subset, and *)
(* before the first round of the TTP phase (tools.py SubmitResultSchemaTool,*)
(* workflow.py _freeze_injected_schema).                                   *)
SchemaFrozenForGood ==
  [][frozenSchema' # frozenSchema =>
       frozenSchema = None /\ frozenSchema' \in GoodSchemas /\ rounds["ttp"] = 0]_vars

(* Once finish_generation was accepted, nothing the reply still runs moves *)
(* the candidate, its index or the submission count (tools.py              *)
(* SubmitTtpTemplateTool, FinishGenerationTool).                           *)
FinishClosesTheCandidate ==
  [][finished => UNCHANGED <<frozenSchema, candidate, candidateIndex, ttpSubmissions,
                             finished>>]_vars

(* No model round is opened once the phase has met a limit or a fatal       *)
(* failure (runner.py _terminal_tool_observed and the loop's breaks).      *)
NoRoundPastTheEnd ==
  [][AgentRounds' # AgentRounds =>
       /\ reason = "none"
       /\ ~ PhaseCompleted
       /\ ~ ProtocolRetryLimit
       /\ ttpSubmissions < MaxSubmissions]_vars

-----------------------------------------------------------------------------
(* Liveness. *)

(* Every request is answered: by its deadline alone (workflow.py           *)
(* _run_before_deadline), and by its budgets alone (session.py, runner.py). *)
EventuallyAnswered == <>(outcome # "pending")

-----------------------------------------------------------------------------
(* Refinement. *)

Contract == INSTANCE GenerationContract WITH
  wanted <- mode,
  schema <- frozenSchema,
  kept <- candidate,
  closed <- finished,
  answer <- [status |-> outcome, template |-> artifact.template,
             schema |-> artifact.schema]

(* The request, with all its rounds, tools and budgets, does nothing its    *)
(* caller's contract does not allow (contracts.py GenerationResult,        *)
(* SchemaProposalResult).                                                  *)
MeetsContract == Contract!ContractSpec

-----------------------------------------------------------------------------
(* Statements of the documentation the code does not meet. *)

(* docs/agent-architecture-and-runtime.md: when the time left does not     *)
(* suffice for one model call, no round is opened and the request ends      *)
(* directly as generation_timeout.                                         *)
RefusedRoundEndsAsTimeout ==
  ~ (resultReason = "agent_stopped" /\ reason = "generation_timeout")

(* tools.py build_submission_tools: at a zero test budget the test tool is *)
(* withheld, and that is all: a request ends in an internal error only     *)
(* when something it calls may raise one.                                  *)
ZeroTestBudgetOnlyWithholdsTheTool ==
  resultReason = "internal_error" => "internal_error" \in ErrorKinds
=============================================================================
