------------------------------ MODULE Workflow ------------------------------
(***************************************************************************)
(* One generation request from start to answer (workflow.py,               *)
(* _GenerationWorkflow): fit the input, run the Schema phase, run the TTP  *)
(* phase, validate the finished candidate again over the full input, and   *)
(* package it.  Every wait is under the request's deadline, which a        *)
(* watchdog outside the phase enforces; the caller may cancel at any time. *)
(***************************************************************************)
EXTENDS AgentRunner

CONSTANTS
  Modes   \* the modes requests come in: full, schema_only, template_only

ASSUME WorkflowAssumption == Modes \subseteq {"full", "schema_only", "template_only"}

VARIABLES
  mode,         \* the request's mode
  stage,        \* where the workflow is
  outcome,      \* "pending" until the request is answered
  resultReason, \* metadata.termination_reason of the answer
  artifact      \* the packaged template and schema, or the schema proposal

workflowVars == <<mode, stage, outcome, resultReason, artifact>>
vars == <<sessionVars, runnerVars, workflowVars>>

NoArtifact == [template |-> None, schema |-> None]
Stages == {"start", "fit", "run", "accept_schema", "accept_ttp", "package", "done"}
ResultReasons ==
  {"none", "success", "cancelled", "generation_timeout", "agent_round_limit",
   "ttp_submission_limit", "model_timeout", "model_error", "model_no_tool_retry_limit",
   "model_submission_tool_call_invalid", "model_request_rejected",
   "model_context_budget", "ttp_worker_unavailable", "internal_error",
   "final_validation_failed", "agent_stopped", "invalid_injected_schema"}

TypeOK ==
  /\ SessionTypeOK
  /\ RunnerTypeOK
  /\ mode \in Modes
  /\ stage \in Stages
  /\ outcome \in {"pending", "success", "failed", "cancelled"}
  /\ resultReason \in ResultReasons
  /\ artifact \in [template : Templates \cup {None}, schema : Schemas \cup {None}]

Init ==
  /\ SessionInit
  /\ RunnerInit
  /\ mode \in Modes
  /\ stage = "start"
  /\ outcome = "pending"
  /\ resultReason = "none"
  /\ artifact = NoArtifact

-----------------------------------------------------------------------------
(* Answers. *)

Answer(o, r, a) ==
  /\ stage' = "done"
  /\ outcome' = o
  /\ resultReason' = r
  /\ artifact' = a
  /\ pc' = "off"
  /\ UNCHANGED <<mode, phase, replyVars, outcomeVars, phaseError>>

Fail(r) == Answer("failed", r, NoArtifact)

GoTo(s) == stage' = s /\ UNCHANGED <<mode, outcome, resultReason, artifact>>

-----------------------------------------------------------------------------
(* Start: infer the schema, or freeze the one the caller injected.         *)

BeginSchemaPhase ==
  /\ stage = "start"
  /\ mode # "template_only"
  /\ phase' = "schema"
  /\ GoTo("fit")
  /\ UNCHANGED <<sessionVars, pc, replyVars, outcomeVars, phaseError>>

FreezeInjectedSchema(s) ==
  /\ stage = "start"
  /\ mode = "template_only"
  /\ s \in GoodSchemas
  /\ frozenSchema' = s
  /\ phase' = "ttp"
  /\ GoTo("fit")
  /\ UNCHANGED <<schemaSubmissions, ttpSubmissions, lastTemplate, candidate,
                 candidateIndex, firstTtpValid, testCalls, finished, timeLeft, reason,
                 rounds, noToolSeq, boundary, flight, pc, replyVars, outcomeVars,
                 phaseError>>

RejectInjectedSchema(s) ==
  /\ stage = "start"
  /\ mode = "template_only"
  /\ s \notin GoodSchemas
  /\ Fail("invalid_injected_schema")
  /\ UNCHANGED sessionVars

-----------------------------------------------------------------------------
(* Fit the sampled input into the model's context, then run the phase.     *)

(* estimate_initial_model_tokens insists on the phase's full tool list.    *)
ExpectedToolkit(p) ==
  IF p = "schema" THEN {"submit_result_schema"} ELSE Tools \ {"submit_result_schema"}
ToolkitMatches == Toolkit(phase) = ExpectedToolkit(phase)

FitTimesOut ==
  /\ stage = "fit"
  /\ Expired
  /\ Fail("generation_timeout")
  /\ UNCHANGED sessionVars

(* The model's context settings are looked at before the clock.            *)
FitRejectsInput ==
  /\ stage = "fit"
  /\ Fail("model_context_budget")
  /\ UNCHANGED sessionVars

(* Counting the tokens may raise as any call of the model may; a toolkit    *)
(* that is not the expected one raises before that.                        *)
FitBreaks ==
  /\ stage = "fit"
  /\ \E kind \in IF ToolkitMatches THEN ErrorKinds ELSE {"internal_error"} : Fail(kind)
  /\ UNCHANGED sessionVars

FitSucceeds ==
  /\ stage = "fit"
  /\ ~ Expired
  /\ ToolkitMatches
  /\ StartPhase
  /\ GoTo("run")

-----------------------------------------------------------------------------
(* The phase under its watchdog, and what its end means.                   *)

RunPhase ==
  /\ stage = "run"
  /\ RunnerStep
  /\ UNCHANGED workflowVars

AgentActs ==
  /\ stage = "run"
  /\ AgentStep
  /\ UNCHANGED workflowVars

(* _run_before_deadline: the phase task is cancelled and drained, or given  *)
(* up on; either way it changes nothing any more.                          *)
(* Mutation used by the runs: the watchdog waits for the model call.       *)
WatchdogDue_BetweenCalls == Expired /\ pc # "calling"
WatchdogDue == Expired

WatchdogFires ==
  /\ stage = "run"
  /\ WatchdogDue
  /\ Fail("generation_timeout")
  /\ UNCHANGED sessionVars

PhaseRaised ==
  /\ stage = "run"
  /\ pc = "raised"
  /\ Fail(phaseError)
  /\ UNCHANGED sessionVars

PhaseOver == stage = "run" /\ pc = "returned" /\ ~ Expired

SchemaProposed ==
  /\ PhaseOver
  /\ phase = "schema" /\ PhaseCompleted
  /\ mode = "schema_only"
  /\ Answer("success", "success", [template |-> None, schema |-> frozenSchema])
  /\ UNCHANGED sessionVars

RoundsSpentOnSchema ==
  /\ PhaseOver
  /\ phase = "schema" /\ PhaseCompleted
  /\ mode = "full"
  /\ AgentRounds >= MaxRounds
  /\ Fail("agent_round_limit")
  /\ UNCHANGED sessionVars

BeginTtpPhase ==
  /\ PhaseOver
  /\ phase = "schema" /\ PhaseCompleted
  /\ mode = "full"
  /\ AgentRounds < MaxRounds
  /\ phase' = "ttp"
  /\ pc' = "off"
  /\ GoTo("fit")
  /\ UNCHANGED <<sessionVars, replyVars, outcomeVars, phaseError>>

BeginAcceptance ==
  /\ PhaseOver
  /\ phase = "ttp" /\ PhaseCompleted
  /\ pc' = "off"
  /\ GoTo("accept_schema")
  /\ UNCHANGED <<sessionVars, phase, replyVars, outcomeVars, phaseError>>

(* _phase_stopped_failure, in the order it asks.                           *)
Submissions(p) == IF p = "schema" THEN schemaSubmissions ELSE ttpSubmissions

(* Mutation used by the runs: the two repair failures are mixed up.        *)
RepairsExhausted_Swapped ==
  IF lastInvalid THEN "model_no_tool_retry_limit"
                 ELSE "model_submission_tool_call_invalid"
RepairsExhausted ==
  IF lastInvalid THEN "model_submission_tool_call_invalid"
                 ELSE "model_no_tool_retry_limit"
RoundsExhausted ==
  IF invalidSeen /\ (Submissions(phase) = 0 \/ lastInvalid)
    THEN "model_submission_tool_call_invalid"
    ELSE "agent_round_limit"

StoppedReason ==
  IF phase = "ttp" /\ reason = "ttp_worker_unavailable" THEN "ttp_worker_unavailable"
  ELSE IF phase = "ttp" /\ ttpSubmissions >= MaxSubmissions THEN "ttp_submission_limit"
  ELSE IF ProtocolRetryLimit THEN RepairsExhausted
  ELSE IF reason = "model_no_tool_retry_limit" THEN "model_no_tool_retry_limit"
  ELSE IF exceeded \/ AgentRounds >= MaxRounds THEN RoundsExhausted
  ELSE "agent_stopped"

PhaseStopped ==
  /\ PhaseOver
  /\ ~ PhaseCompleted
  /\ Fail(StoppedReason)
  /\ UNCHANGED sessionVars

-----------------------------------------------------------------------------
(* Final acceptance: three deadline-bound steps in worker threads.         *)

AcceptanceTimesOut ==
  /\ stage \in {"accept_schema", "accept_ttp", "package"}
  /\ Expired
  /\ Fail("generation_timeout")
  /\ UNCHANGED sessionVars

(* The validator or the packaging rejects, raises, or loses its worker.    *)
AcceptanceFails ==
  /\ stage \in {"accept_schema", "accept_ttp", "package"}
  /\ Fail("final_validation_failed")
  /\ UNCHANGED sessionVars

SchemaRevalidated ==
  /\ stage = "accept_schema"
  /\ ~ Expired
  /\ frozenSchema \in GoodSchemas
  /\ GoTo("accept_ttp")
  /\ UNCHANGED <<sessionVars, runnerVars>>

(* Mutation used by the runs: the last submission is packaged.             *)
AcceptedTemplate_Last == lastTemplate
AcceptedTemplate == candidate

TemplateRevalidated ==
  /\ stage = "accept_ttp"
  /\ ~ Expired
  /\ AcceptedTemplate \in GoodTemplates
  /\ GoTo("package")
  /\ UNCHANGED <<sessionVars, runnerVars>>

ArtifactPackaged ==
  /\ stage = "package"
  /\ ~ Expired
  /\ Answer("success", "success",
            [template |-> AcceptedTemplate, schema |-> frozenSchema])
  /\ UNCHANGED sessionVars

-----------------------------------------------------------------------------

CancelRequest ==
  /\ outcome = "pending"
  /\ Answer("cancelled", "cancelled", NoArtifact)
  /\ UNCHANGED sessionVars

TimePasses ==
  /\ outcome = "pending"
  /\ Tick
  /\ UNCHANGED <<runnerVars, workflowVars>>

(* The request has been answered; nothing of it is left to run.            *)
Answered == outcome # "pending" /\ UNCHANGED vars

WorkflowStep ==
  \/ BeginSchemaPhase
  \/ \E s \in Schemas : FreezeInjectedSchema(s) \/ RejectInjectedSchema(s)
  \/ FitTimesOut \/ FitRejectsInput \/ FitBreaks \/ FitSucceeds
  \/ RunPhase \/ WatchdogFires \/ PhaseRaised
  \/ SchemaProposed \/ RoundsSpentOnSchema \/ BeginTtpPhase
  \/ BeginAcceptance \/ PhaseStopped
  \/ AcceptanceTimesOut \/ AcceptanceFails
  \/ SchemaRevalidated \/ TemplateRevalidated \/ ArtifactPackaged

Next == WorkflowStep \/ AgentActs \/ TimePasses \/ CancelRequest \/ Answered

Spec == Init /\ [][Next]_vars
=============================================================================
