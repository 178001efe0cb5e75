---------------------------- MODULE Conversation ----------------------------
(***************************************************************************)
(* What the model is told and what it is asked, round after round of one   *)
(* phase: the agent's context (agent/runner.py), the provider attempts     *)
(* behind each model call (agent/model_attempts.py) and the guard on       *)
(* retained reasoning (agent/schema_reasoning_guard.py).  AgentRunner has   *)
(* the phase's budgets and tools; here they are reduced to what decides    *)
(* which blocks stay in the context.                                       *)
(*                                                                         *)
(* AgentScope and the provider are outside the repository.  AgentScope      *)
(* appends what the assistant says and what its tools return to the last   *)
(* message while that is the assistant's own, retries a request that       *)
(* raised, and may compress the context when the middleware lets it.  It   *)
(* runs the calls of a reply in their order, and goes on with those left   *)
(* when the runner has removed the reply for one of them.                  *)
(***************************************************************************)
EXTENDS Naturals, Sequences, FiniteSets, SequencesExt

CONSTANTS
  MaxRounds,            \* max_agent_rounds
  MaxNoToolRetries,     \* max_schema_no_tool_retries, max_ttp_no_tool_retries
  MaxProtocolFailures,  \* MAX_CONSECUTIVE_PROTOCOL_FAILURES
  MaxSubmissions,       \* max_ttp_submissions
  MaxRetries,           \* the provider retries of one model call
  MaxCalls,             \* the calls of a reply (a bound of the model)
  ContextLimit          \* the guard's limit, in blocks

ASSUME ConversationAssumption ==
  /\ {MaxRounds, MaxProtocolFailures, MaxSubmissions, MaxCalls, ContextLimit}
        \subseteq Nat \ {0}
  /\ {MaxNoToolRetries, MaxRetries} \subseteq Nat

VARIABLES
  model,        \* how the phase's model is configured, fixed
  pc,           \* where the phase is
  ctx,          \* agent.state.context
  saved,        \* last_checkpoint
  told,         \* the whole context when it was taken (history variable)
  nextMessage,  \* next_message, or "none" within a reply
  summary,      \* agent.state.summary is set
  rounds,       \* session.agent_rounds
  failures,     \* consecutive_protocol_failures
  noToolSeq,    \* consecutive no-tool responses of the phase
  submissions,  \* ttp_submissions
  skips,        \* ttp_history_compaction_skips is not zero
  reply,        \* the reply being received
  pending,      \* its tool calls still to run
  facts,        \* _provider_reply_facts
  lastPure,     \* _last_pure_reasoning_length
  forced,       \* the call was made as a forced submission
  formatter,    \* the model's formatter
  outcomes,     \* how each attempt of the request ended
  retries,      \* model_retries_observed
  roundAttempts,\* ModelAttemptRecorder._round_attempts
  kept,         \* rounds whose reasoning the runner retained (history variable)
  rejected,     \* the id of each round's call it last rejected, 0: none (history variable)
  late,         \* rounds with a call answered after a rejected one (history variable)
  reason        \* how the phase ended

sessionPart == <<rounds, failures, noToolSeq, submissions, skips>>
contextPart == <<ctx, saved, told, nextMessage, summary>>
requestPart == <<facts, lastPure, forced, formatter, outcomes, retries, roundAttempts>>
history == <<kept, rejected, late>>
vars == <<model, pc, sessionPart, contextPart, requestPart, reply, pending, history,
          reason>>

-----------------------------------------------------------------------------
(* Messages and blocks.                                                    *)

Block(kind, tool, id, note) ==
  [kind |-> kind, tool |-> tool, id |-> id, note |-> note, round |-> rounds]
Message(role, blocks) == [role |-> role, blocks |-> blocks]
UserMessage(kind) == Message("user", <<Block(kind, "none", 0, "none")>>)

(* What AgentScope does with the assistant's blocks.                       *)
Said(context, blocks) ==
  IF context # <<>> /\ Last(context).role = "assistant"
  THEN Front(context) \o <<Message("assistant", Last(context).blocks \o blocks)>>
  ELSE Append(context, Message("assistant", blocks))

Blocks(context) == FlattenSeq([i \in DOMAIN context |-> context[i].blocks])
BlocksIn(context) == UNION {ToSet(context[i].blocks) : i \in DOMAIN context}
Thinking(context) ==
  {b \in BlocksIn(context) : b.kind = "thinking"}

(* schema_reasoning_history_enabled: the formatter in place sends it.      *)
ReasoningIsSent == model.history /\ formatter = "reasoning"

(* count_tokens: one per block, reasoning only when it is sent.            *)
CountTokens(context) ==
  Cardinality({i \in DOMAIN Blocks(context) :
                 Blocks(context)[i].kind # "thinking" \/ ReasoningIsSent})

(* _checkpoint_context keeps a length and a copy of the last message only. *)
Checkpoint(context) ==
  [length |-> Len(context), last |-> IF context = <<>> THEN <<>> ELSE <<Last(context)>>]
NoCheckpoint == [length |-> 0, last |-> <<>>]

(* Mutation used by the runs: the last message is not put back.            *)
Restored_LengthOnly(context) == SubSeq(context, 1, saved.length)
Restored(context) ==
  IF saved.length = 0 THEN <<>> ELSE SubSeq(context, 1, saved.length - 1) \o saved.last

(* The blocks the assistant added since the checkpoint: to the message that *)
(* was the last one then, and in messages of their own.                    *)
AddedToLast(context) ==
  IF saved.length = 0 THEN {}
  ELSE LET after == context[saved.length].blocks
       IN  {after[j] : j \in Len(saved.last[1].blocks) + 1 .. Len(after)}
Added(context) ==
  AddedToLast(context)
    \cup UNION {ToSet(context[i].blocks) : i \in saved.length + 1 .. Len(context)}

-----------------------------------------------------------------------------
(* _compact_ttp_history.                                                   *)

Of(context, kind) == {i \in DOMAIN Blocks(context) :
                        /\ Blocks(context)[i].kind = kind
                        /\ Blocks(context)[i].tool \in {"submit", "test"}}
IdsOf(context, kind) == {Blocks(context)[i].id : i \in Of(context, kind)}

(* A call or a result seen twice, or one without the other, is ambiguous.  *)
Ambiguous(context) ==
  LET b == Blocks(context)
  IN \/ \E kind \in {"call", "result"} :
          Cardinality(IdsOf(context, kind)) # Cardinality(Of(context, kind))
     \/ IdsOf(context, "call") # IdsOf(context, "result")
     \/ \E i \in Of(context, "call"), j \in Of(context, "result") :
          b[i].id = b[j].id /\ b[i].tool # b[j].tool

SubmitCalls(context) ==
  {i \in Of(context, "call") : Blocks(context)[i].tool = "submit"}

Superseded(context) ==
  {Blocks(context)[i].id : i \in
     {j \in SubmitCalls(context) : \E k \in SubmitCalls(context) : k > j}}

Collapse(context, ids) ==
  [i \in DOMAIN context |->
     [context[i] EXCEPT !.blocks =
        [j \in DOMAIN @ |-> IF @[j].kind = "result" /\ @[j].tool = "submit" /\ @[j].id \in ids
                            THEN [@[j] EXCEPT !.note = "superseded"] ELSE @[j]]]]

MayCompact(context, count) == count >= 2 /\ ~ Ambiguous(context)
Compacted(context, count) ==
  IF model.phase = "ttp" /\ MayCompact(context, count)
  THEN Collapse(context, Superseded(context)) ELSE context
CompactionSkips(context, count) ==
  model.phase = "ttp" /\ count >= 2 /\ Ambiguous(context)

-----------------------------------------------------------------------------
(* What the provider may answer.                                           *)

Call(tool, valid) == [tool |-> tool, valid |-> valid]
PhaseTools == IF model.phase = "schema" THEN {"submit"} ELSE {"submit", "test"}
ValidCalls == {Call(t, TRUE) : t \in PhaseTools}
AnyCalls == ValidCalls \cup {Call("submit", FALSE), Call("other", FALSE)}
CallLists == UNION {[1 .. n -> AnyCalls] : n \in 0 .. MaxCalls}

Reply(finish, reasoning, text, calls) ==
  [finish |-> finish, reasoning |-> reasoning, text |-> text, calls |-> calls]
NoReply == Reply("unknown", FALSE, FALSE, <<>>)
(* Reasoning and a cut answer tell on the Schema phase only.               *)
Replies ==
  {r \in [finish : {"stop", "length", "tool_calls"}, reasoning : BOOLEAN, text : BOOLEAN,
          calls : CallLists] :
     /\ r.reasoning \/ r.finish = "length" => model.phase = "schema"
     /\ IF r.calls = <<>> THEN r.finish # "tool_calls" ELSE r.finish # "stop" /\ ~ r.text}

(* _ProviderReplyFacts, of the raw answer and not of the repaired message. *)
Facts(round, finish, reasoning, text, tools, completed) ==
  [round |-> round, finish |-> finish, reasoning |-> reasoning, text |-> text,
   tools |-> tools, completed |-> completed]
NoFacts == Facts(0, "unknown", FALSE, FALSE, FALSE, FALSE)
FreshFacts == Facts(rounds, "unknown", FALSE, FALSE, FALSE, FALSE)
(* Mutation used by the runs: truncated tool calls are not noticed.        *)
Observed_NoTools(r) == Facts(facts.round, r.finish, r.reasoning, r.text, facts.tools, TRUE)
Observed(r) == Facts(facts.round, r.finish, r.reasoning, r.text, r.calls # <<>>, TRUE)
PureLength(f) == f.finish = "length" /\ f.reasoning /\ ~ f.text /\ ~ f.tools

IsCompletedReasoningOnlyLength ==
  ReasoningIsSent /\ facts.round = rounds /\ facts.completed /\ PureLength(facts)

(* _discard_truncated_schema_tools.                                        *)
Discards(r) == model.phase = "schema" /\ r.finish = "length"
CallsOf(r) == IF Discards(r) THEN <<>> ELSE r.calls

(* Providers number calls over the conversation, or afresh in every reply. *)
CallId(position) == IF model.reusesIds THEN position ELSE MaxCalls * rounds + position

BlocksOf(r) ==
  (IF r.reasoning THEN <<Block("thinking", "none", 0, "reply")>> ELSE <<>>)
    \o (IF r.text THEN <<Block("text", "none", 0, "none")>> ELSE <<>>)
    \o [i \in DOMAIN CallsOf(r) |-> Block("call", CallsOf(r)[i].tool, CallId(i), "none")]

-----------------------------------------------------------------------------
Places == {"loop", "hook", "start", "call", "request", "attempt", "stream", "closing",
           "tools", "idle", "done"}
Reasons == {"none", "rounds", "context_limit", "generation_timeout", "error", "cancelled",
            "protocol_retry_limit", "model_no_tool_retry_limit", "completed"}
Outcomes == {"open", "success", "exception", "cancelled", "closed"}

Models ==
  [phase : {"schema"}, history : BOOLEAN, stream : BOOLEAN,
   extraBody : {"none", "plain", "limits"}, reusesIds : {FALSE}]
    \cup [phase : {"ttp"}, history : {FALSE}, stream : BOOLEAN,
          extraBody : {"none", "limits"}, reusesIds : BOOLEAN]
BlockType ==
  [kind : {"input", "retry", "repair", "thinking", "text", "call", "result"},
   tool : {"none", "submit", "test", "other"}, id : Nat,
   note : {"none", "reply", "retained", "whole", "superseded"}, round : 0 .. MaxRounds]
MessageType == [role : {"user", "assistant"}, blocks : Seq(BlockType)]
CallType == [tool : {"submit", "test", "other"}, valid : BOOLEAN]
Finishes == {"unknown", "stop", "length", "tool_calls"}

TypeOK ==
  /\ model \in Models
  /\ pc \in Places
  /\ {ctx, told} \subseteq Seq(MessageType)
  /\ saved \in [length : Nat, last : Seq(MessageType)]
  /\ nextMessage \in {"none", "input", "retry"}
  /\ summary \in BOOLEAN
  /\ rounds \in 0 .. MaxRounds
  /\ failures \in 0 .. MaxProtocolFailures
  /\ noToolSeq \in 0 .. MaxNoToolRetries + 1
  /\ submissions \in 0 .. MaxSubmissions
  /\ {skips, lastPure, forced} \subseteq BOOLEAN
  /\ reply \in [finish : Finishes, reasoning : BOOLEAN, text : BOOLEAN, calls : Seq(CallType)]
  /\ pending \in Seq(CallType)
  /\ facts \in [round : 0 .. MaxRounds, finish : Finishes, reasoning : BOOLEAN,
                text : BOOLEAN, tools : BOOLEAN, completed : BOOLEAN]
  /\ formatter \in {"plain", "reasoning"}
  /\ outcomes \in Seq(Outcomes)
  /\ roundAttempts \in [1 .. MaxRounds -> Nat]
  /\ retries \in 0 .. Len(outcomes)
  /\ kept \subseteq 1 .. MaxRounds
  /\ rejected \in [0 .. MaxRounds -> Nat]
  /\ late \subseteq 1 .. MaxRounds
  /\ reason \in Reasons

(* The reasoning formatter is chosen for a Schema model of a provider that *)
(* takes it, unless thinking is disabled.                                  *)
OwnFormatter == IF model.history THEN "reasoning" ELSE "plain"

Init ==
  /\ model \in Models
  /\ pc = "loop"
  /\ ctx = <<>>
  /\ saved = NoCheckpoint
  /\ told = <<>>
  /\ nextMessage = "input"
  /\ summary = FALSE
  /\ rounds = 0
  /\ failures = 0
  /\ noToolSeq = 0
  /\ submissions = 0
  /\ skips = FALSE
  /\ reply = NoReply
  /\ pending = <<>>
  /\ facts = NoFacts
  /\ lastPure = FALSE
  /\ forced = FALSE
  /\ formatter = OwnFormatter
  /\ outcomes = <<>>
  /\ retries = 0
  /\ roundAttempts = [r \in 1 .. MaxRounds |-> 0]
  /\ kept = {}
  /\ rejected = [r \in 0 .. MaxRounds |-> 0]
  /\ late = {}
  /\ reason = "none"

EndsAs(why) == pc' = "done" /\ reason' = why
Goes(place) == pc' = place /\ UNCHANGED reason

-----------------------------------------------------------------------------
(* A reply opens, and the middleware runs before each of its model calls.  *)

ReplyOpens ==
  /\ pc = "loop"
  /\ rounds < MaxRounds
  /\ ctx' = Append(ctx, UserMessage(nextMessage))
  /\ nextMessage' = "none"
  /\ Goes("hook")
  /\ UNCHANGED <<model, sessionPart, saved, told, summary, requestPart, reply, pending,
                 history>>

GuardDelegates == ~ (ReasoningIsSent /\ Thinking(ctx) # {})

HookPasses ==
  /\ pc = "hook"
  /\ GuardDelegates \/ (~ summary /\ CountTokens(ctx) < ContextLimit)
  /\ Goes("start")
  /\ UNCHANGED <<model, sessionPart, contextPart, requestPart, reply, pending, history>>

ContextCompressed ==
  /\ pc = "hook"
  /\ GuardDelegates
  /\ ~ summary
  /\ Len(ctx) > 1
  /\ summary' = TRUE
  /\ ctx' = <<Last(ctx)>>
  /\ Goes("start")
  /\ UNCHANGED <<model, sessionPart, saved, told, nextMessage, requestPart, reply, pending,
                 history>>

(* A summary, an estimate at the limit, one that fails or is no count; or   *)
(* the deadline.  Nothing falls through to compression or to a request.    *)
GuardStops ==
  /\ pc = "hook"
  /\ ~ GuardDelegates
  /\ \E why \in {"context_limit", "generation_timeout"} : EndsAs(why)
  /\ UNCHANGED <<model, sessionPart, contextPart, requestPart, reply, pending, history>>

-----------------------------------------------------------------------------
(* ModelCallStart: stale results are collapsed, then the context is saved. *)

ModelCallStart ==
  /\ pc = "start"
  /\ rounds < MaxRounds
  /\ rounds' = rounds + 1
  /\ ctx' = Compacted(ctx, submissions)
  /\ skips' = (skips \/ CompactionSkips(ctx, submissions))
  /\ saved' = Checkpoint(ctx')
  /\ told' = ctx'
  /\ Goes("call")
  /\ UNCHANGED <<model, failures, noToolSeq, submissions, nextMessage, summary,
                 requestPart, reply, pending, history>>

ReplyExceedsRounds ==
  /\ pc = "start"
  /\ rounds >= MaxRounds
  /\ EndsAs("rounds")
  /\ UNCHANGED <<model, sessionPart, contextPart, requestPart, reply, pending, history>>

-----------------------------------------------------------------------------
(* ObservedOpenAIChatModel.                                                *)

ShouldForce ==
  /\ model.phase = "schema"
  /\ ReasoningIsSent
  /\ model.extraBody = "none"
  /\ lastPure
  /\ noToolSeq >= MaxNoToolRetries

(* __call__: a forced request disables thinking, so its formatter is the   *)
(* one that sends none.                                                    *)
ModelCalled ==
  /\ pc = "call"
  /\ forced' = ShouldForce
  /\ formatter' = IF ShouldForce THEN "plain" ELSE formatter
  /\ Goes("request")
  /\ UNCHANGED <<model, sessionPart, contextPart, facts, lastPure, outcomes, retries,
                 roundAttempts, reply, pending, history>>

(* _call_api: what is known of the last attempt is forgotten first.        *)
AttemptStarts ==
  /\ pc = "request"
  /\ model.extraBody # "limits"
  /\ facts' = FreshFacts
  /\ lastPure' = FALSE
  /\ outcomes' = Append(outcomes, "open")
  /\ roundAttempts' = [roundAttempts EXCEPT ![rounds] = @ + 1]
  /\ retries' = IF roundAttempts[rounds] > 0 THEN retries + 1 ELSE retries
  /\ Goes("attempt")
  /\ UNCHANGED <<model, sessionPart, contextPart, forced, formatter, reply, pending,
                 history>>

(* An output limit hidden in the extra body is refused before any attempt. *)
RequestRefused ==
  /\ pc = "request"
  /\ model.extraBody = "limits"
  /\ facts' = FreshFacts
  /\ lastPure' = FALSE
  /\ formatter' = OwnFormatter
  /\ EndsAs("error")
  /\ UNCHANGED <<model, sessionPart, contextPart, forced, outcomes, retries, roundAttempts,
                 reply, pending, history>>

Attempt == Len(outcomes)
(* _Attempt.finish: the first outcome stands.                              *)
Finish(outcome) ==
  IF outcomes[Attempt] = "open" THEN [outcomes EXCEPT ![Attempt] = outcome] ELSE outcomes

AttemptFails ==
  /\ pc = "attempt"
  /\ \E outcome \in {"exception", "cancelled"} :
       /\ outcomes' = Finish(outcome)
       /\ IF outcome = "exception" /\ roundAttempts[rounds] <= MaxRetries
          THEN Goes("request") /\ UNCHANGED formatter
          ELSE /\ EndsAs(IF outcome = "exception" THEN "error" ELSE "cancelled")
               /\ formatter' = OwnFormatter
  /\ UNCHANGED <<model, sessionPart, contextPart, facts, lastPure, forced, retries,
                 roundAttempts, reply, pending, history>>

(* Mutation used by the runs: the formatter of the forced call stays.      *)
FormatterAfter_Kept == formatter
FormatterAfter == OwnFormatter

Delivered(r) ==
  /\ reply' = r
  /\ pending' = CallsOf(r)
  /\ ctx' = Said(ctx, BlocksOf(r))

CompletionReturns ==
  /\ pc = "attempt"
  /\ ~ model.stream
  /\ \E r \in Replies :
       /\ Delivered(r)
       /\ facts' = Observed(r)
       /\ lastPure' = PureLength(Observed(r))
       /\ Goes(IF CallsOf(r) = <<>> THEN "idle" ELSE "tools")
  /\ outcomes' = Finish("success")
  /\ formatter' = FormatterAfter
  /\ UNCHANGED <<model, sessionPart, saved, told, nextMessage, summary, forced, retries,
                 roundAttempts, history>>

(* The stream is handed back: the call is over, its attempt is not.        *)
StreamOpens ==
  /\ pc = "attempt"
  /\ model.stream
  /\ formatter' = FormatterAfter
  /\ reply' = NoReply
  /\ Goes("stream")
  /\ UNCHANGED <<model, sessionPart, contextPart, facts, lastPure, forced, outcomes,
                 retries, roundAttempts, pending, history>>

StreamEnds ==
  /\ pc = "stream"
  /\ \E r \in Replies :
       /\ Delivered(r)
       /\ facts' = Observed(r)
       /\ lastPure' = PureLength(Observed(r))
  /\ outcomes' = Finish("success")
  /\ Goes("closing")
  /\ UNCHANGED <<model, sessionPart, saved, told, nextMessage, summary, forced, formatter,
                 retries, roundAttempts, history>>

(* It breaks, or its consumer leaves it; part of an answer may be known.   *)
StreamStops ==
  /\ pc = "stream"
  /\ \E outcome \in {"exception", "cancelled", "open"} :
       /\ outcomes' = Finish(outcome)
       /\ reason' = IF outcome = "exception" THEN "error" ELSE "cancelled"
  /\ \E r \in {NoReply, Reply("length", TRUE, FALSE, <<>>)} :
       facts' = [Observed(r) EXCEPT !.completed = FALSE]
  /\ pc' = "closing"
  /\ UNCHANGED <<model, sessionPart, contextPart, lastPure, forced, formatter, retries,
                 roundAttempts, reply, pending, history>>

(* _close_stream_on_exit closes every stream of the call, whatever the     *)
(* close of the generator around it did.                                   *)
(* Mutation used by the runs: closing only the outer generator, which does *)
(* not forward it.                                                         *)
ClosedAs_Outer(outcome) == outcomes
ClosedAs(outcome) == Finish(outcome)

StreamClosed ==
  /\ pc = "closing"
  /\ \E outcome \in {"closed", "exception"} : outcomes' = ClosedAs(outcome)
  /\ Goes(IF reason # "none" THEN "done" ELSE IF pending = <<>> THEN "idle" ELSE "tools")
  /\ UNCHANGED <<model, sessionPart, contextPart, facts, lastPure, forced, formatter,
                 retries, roundAttempts, reply, pending, history>>

-----------------------------------------------------------------------------
(* The reply's calls, each with the result that ends it.                   *)

Position == Len(reply.calls) - Len(pending) + 1
RejectedHere == rejected' = [rejected EXCEPT ![rounds] = CallId(Position)]
ResultOf(c) == Block("result", c.tool, CallId(Position), "whole")
WithResult == Said(ctx, <<ResultOf(Head(pending))>>)

NextPlace == IF Len(pending) = 1 THEN "hook" ELSE "tools"

CallSucceeds ==
  /\ pc = "tools"
  /\ Head(pending).valid
  /\ failures' = 0
  /\ noToolSeq' = 0
  /\ submissions' = IF model.phase = "ttp" /\ Head(pending).tool = "submit"
                    THEN submissions + 1 ELSE submissions
  /\ ctx' = Compacted(WithResult, submissions')
  /\ skips' = (skips \/ CompactionSkips(WithResult, submissions'))
  /\ IF model.phase = "ttp" /\ submissions' >= MaxSubmissions
     THEN EndsAs("completed")
     ELSE Goes(NextPlace) \/ (model.phase = "schema" /\ EndsAs("completed"))
  /\ pending' = Tail(pending)
  /\ late' = IF rejected[rounds] # 0 THEN late \cup {rounds} ELSE late
  /\ UNCHANGED <<model, rounds, saved, told, nextMessage, summary, requestPart, reply,
                 kept, rejected>>

(* record_protocol_failure: the whole rejected completion is removed.      *)
CallRejected ==
  /\ pc = "tools"
  /\ ~ Head(pending).valid
  /\ failures' = failures + 1
  /\ RejectedHere
  /\ IF failures' >= MaxProtocolFailures
     THEN ctx' = Restored(WithResult) /\ EndsAs("protocol_retry_limit")
     ELSE ctx' = Append(Restored(WithResult), UserMessage("repair")) /\ Goes(NextPlace)
  /\ pending' = Tail(pending)
  /\ UNCHANGED <<model, rounds, noToolSeq, submissions, skips, saved, told, nextMessage,
                 summary, requestPart, reply, kept, late>>

-----------------------------------------------------------------------------
(* A reply without a call.                                                 *)

(* _reasoning_delta.                                                       *)
ReasoningDelta ==
  /\ model.phase = "schema"
  /\ IsCompletedReasoningOnlyLength
  /\ Added(ctx) # {}
  /\ \A b \in Added(ctx) : b.kind = "thinking"

NoToolRetryAllowed == noToolSeq + 1 <= MaxNoToolRetries
MayRetry == NoToolRetryAllowed /\ failures + 1 < MaxProtocolFailures

Retained == Message("assistant", <<Block("thinking", "none", 0, "retained")>>)

NoToolStops ==
  /\ pc = "idle"
  /\ ~ MayRetry \/ rounds >= MaxRounds
  /\ failures' = failures + 1
  /\ noToolSeq' = noToolSeq + 1
  /\ ctx' = Restored(ctx)
  /\ RejectedHere
  /\ EndsAs(IF MayRetry THEN "rounds" ELSE "model_no_tool_retry_limit")
  /\ UNCHANGED <<model, rounds, submissions, skips, saved, told, nextMessage, summary,
                 requestPart, reply, pending, kept, late>>

NoToolRetried ==
  /\ pc = "idle"
  /\ MayRetry
  /\ rounds < MaxRounds
  /\ failures' = failures + 1
  /\ noToolSeq' = noToolSeq + 1
  /\ ctx' = IF ReasoningDelta THEN Append(Restored(ctx), Retained) ELSE Restored(ctx)
  /\ kept' = IF ReasoningDelta THEN kept \cup {rounds} ELSE kept
  /\ RejectedHere
  /\ nextMessage' = "retry"
  /\ Goes("loop")
  /\ UNCHANGED <<model, rounds, submissions, skips, saved, told, summary, requestPart,
                 reply, pending, late>>

-----------------------------------------------------------------------------
Next ==
  \/ ReplyOpens \/ HookPasses \/ ContextCompressed \/ GuardStops
  \/ ModelCallStart \/ ReplyExceedsRounds
  \/ ModelCalled \/ AttemptStarts \/ RequestRefused \/ AttemptFails \/ CompletionReturns
  \/ StreamOpens \/ StreamEnds \/ StreamStops \/ StreamClosed
  \/ CallSucceeds \/ CallRejected \/ NoToolStops \/ NoToolRetried

Spec == Init /\ [][Next]_vars

-----------------------------------------------------------------------------
(* Properties.                                                             *)

(* Of a completion the runner rejected, for a protocol failure or for       *)
(* calling no tool, nothing it had said or done by then is sent to the     *)
(* provider: neither a message nor a block AgentScope had added to an      *)
(* earlier message of the assistant's.  Retained reasoning is the one      *)
(* exception.  The calls left in a rejected completion still run, and      *)
(* their results are sent: those of calls after the last rejected one.     *)
Asking == pc \in {"call", "request", "attempt", "stream"}
Allowed(b) ==
  \/ b.kind \in {"input", "retry", "repair"}
  \/ b.note = "retained"
  \/ rejected[b.round] = 0
  \/ b.kind = "result" /\ b.id > rejected[b.round]
RejectedOutputIsNotSent == Asking => \A b \in BlocksIn(ctx) : Allowed(b)

(* Reasoning once retained stays in the context for as long as the phase    *)
(* asks the model: no restore, summary or forced call loses it.            *)
KeptReasoningStays ==
  pc # "done" =>
    \A r \in kept : \E b \in BlocksIn(ctx) : b.note = "retained" /\ b.round = r

(* What is sent is free of what was rejected, and has what was retained.   *)
SentIsAllowed == RejectedOutputIsNotSent /\ KeptReasoningStays

(* The runner retains reasoning only of a reply whose raw answer was        *)
(* nothing else and was cut at the length limit: not one that had text or  *)
(* a truncated tool call beside it.                                        *)
RetainedIsPureReasoning ==
  [][\A r \in kept' \ kept :
       reply.finish = "length" /\ reply.reasoning /\ ~ reply.text /\ reply.calls = <<>>]_vars

(* A submission is forced exactly on the last retry the no-tool limit       *)
(* allows, and after a reply whose reasoning the runner retained: the       *)
(* model's own view of the last reply and the runner's never part, whatever *)
(* attempts of the call failed in between.                                 *)
ForcedAfterTheLastPureReply ==
  pc \in {"request", "attempt", "stream", "closing", "idle"} /\ reason = "none" =>
    (forced <=> /\ model.extraBody = "none"
                /\ noToolSeq = MaxNoToolRetries
                /\ rounds - 1 \in kept)

(* A submission's result is collapsed only while a later submission's       *)
(* result is in the context in full.  A provider that numbers calls afresh  *)
(* is excepted once a call has been answered after a rejected one: its     *)
(* result may then pass for that of another reply's call.                  *)
Results(context) == {i \in DOMAIN Blocks(context) : Blocks(context)[i].kind = "result"
                                                    /\ Blocks(context)[i].tool = "submit"}
Steady == model.reusesIds => late = {}
CollapsedHasASuccessor ==
  [][Steady' => \A i \in Results(ctx) \cap Results(ctx') :
       Blocks(ctx)[i].note = "whole" /\ Blocks(ctx')[i].note = "superseded" =>
         \E j \in Results(ctx') : j > i /\ Blocks(ctx')[j].note = "whole"]_vars

(* An attempt is open only while its call is out or its stream is being     *)
(* consumed: however the stream is left, its attempt has an end.           *)
AttemptsEndWithTheirCall ==
  \A i \in DOMAIN outcomes :
    outcomes[i] = "open" => i = Len(outcomes) /\ pc \in {"attempt", "stream", "closing"}

(* The outcome an attempt was reported with is never revised.              *)
OutcomesAreFinal ==
  [][\A i \in DOMAIN outcomes : outcomes[i] # "open" => outcomes'[i] = outcomes[i]]_vars

(* How calls are conducted: forced when, and only when, they must be, and   *)
(* none left open behind (model_attempts.py).                              *)
CallsAreConducted == ForcedAfterTheLastPureReply /\ AttemptsEndWithTheirCall

(* What is kept of the past is what was: pure reasoning, the latest result  *)
(* in full, and the outcomes as they were reported.                        *)
HistoryIsKept == RetainedIsPureReasoning /\ CollapsedHasASuccessor /\ OutcomesAreFinal

(* agent/runner.py: after a rejected call "Initial input and earlier        *)
(* legitimate tool evidence remain at the checkpoint unchanged".           *)
EvidenceRemains ==
  [][pc = "tools" /\ failures' > failures =>
       SubSeq(ctx', 1, Len(told)) = told]_vars

(* agent/runner.py: "Remove the whole rejected completion with both call    *)
(* and result".                                                            *)
WholeCompletionsAreRemoved ==
  Asking => \A b \in BlocksIn(ctx) :
              \/ b.kind \in {"input", "retry", "repair"}
              \/ b.note = "retained"
              \/ rejected[b.round] = 0

-----------------------------------------------------------------------------
(* The inductive invariant.                                                *)

Within == pc \in {"call", "request", "attempt", "stream", "closing", "tools", "idle"}
(* A reply has been delivered, and none of its calls has run.              *)
Answered == pc \in {"closing", "idle"} /\ reason = "none"

(* Where the phase is, and what is still to be done there.                 *)
PlaceInv ==
  /\ pc \notin {"closing", "done"} => reason = "none"
  /\ pc = "loop" => nextMessage # "none"
  /\ pc = "tools" => pending # <<>>
  /\ pc \notin {"tools", "closing", "done"} \/ (pc = "closing" /\ reason # "none") =>
       pending = <<>>
  /\ Len(pending) <= Len(reply.calls)
  /\ Len(reply.calls) <= MaxCalls

(* As long as the phase goes on, no budget is used up.                     *)
BudgetInv ==
  pc # "done" =>
    /\ failures < MaxProtocolFailures
    /\ noToolSeq <= MaxNoToolRetries
    /\ submissions < MaxSubmissions

(* The ids of a round's calls, of a provider that never repeats one.       *)
IdsOfRound(round) == MaxCalls * round + 1 .. MaxCalls * round + MaxCalls

(* What is left of a rejected round are results that came late.            *)
Clean(context) ==
  \A b \in BlocksIn(context) :
    /\ b.round <= rounds
    /\ Allowed(b)
    /\ b.note = "retained" => b.kind = "thinking"
    /\ b.kind = "result" /\ rejected[b.round] # 0 => b.round \in late
    /\ b.kind \in {"call", "result"} /\ ~ model.reusesIds => b.id \in IdsOfRound(b.round)
Reasoned(context) ==
  \A r \in kept : \E b \in BlocksIn(context) : b.note = "retained" /\ b.round = r

(* The context is clean, and so is what a restore would make of it at any  *)
(* moment of a call, which is all from before the call.  A reply is        *)
(* rejected only by its calls that have run.                               *)
ContextInv ==
  /\ \A r \in 0 .. MaxRounds : r > rounds => rejected[r] = 0
  /\ pc # "done" => Clean(ctx) /\ Reasoned(ctx)
  /\ pc \in {"hook", "start"} => ctx # <<>>
  /\ Within =>
       /\ rounds >= 1
       /\ IF pc = "tools" THEN rejected[rounds] < CallId(Position) ELSE rejected[rounds] = 0
       /\ saved.length \in 1 .. Len(ctx)
       /\ Len(saved.last) = 1
       /\ Clean(Restored(ctx)) /\ Reasoned(Restored(ctx))
       /\ \A b \in BlocksIn(Restored(ctx)) : b.round < rounds
  /\ Asking => ctx = told
  /\ Asking \/ Answered => told # <<>> /\ saved = Checkpoint(told)
  /\ Answered => ctx = Said(told, BlocksOf(reply))

(* The model's own view of the last reply and the runner's are the same.   *)
ReasoningInv ==
  /\ kept \subseteq 1 .. rounds
  /\ kept # {} => model.history
  /\ Within => rounds \notin kept
  /\ pc \in {"loop", "hook", "start"} => (rounds \in kept <=> lastPure /\ model.history)
  /\ pc = "call" => (rounds - 1 \in kept <=> lastPure /\ model.history)
  /\ pc = "tools" => ~ lastPure
  /\ pc \in {"attempt", "stream"} => facts = FreshFacts
  /\ Answered =>
       /\ facts = Facts(rounds, reply.finish, reply.reasoning, reply.text,
                        reply.calls # <<>>, TRUE)
       /\ lastPure = PureLength(facts)
       /\ reply.reasoning => model.phase = "schema"
  /\ formatter = IF pc \in {"request", "attempt"} /\ forced THEN "plain" ELSE OwnFormatter

(* An attempt has been recorded when there is one to finish.               *)
AttemptInv == pc \in {"attempt", "stream", "closing"} => outcomes # <<>>

TalkInv ==
  /\ TypeOK /\ PlaceInv /\ BudgetInv /\ ContextInv /\ ReasoningInv /\ AttemptInv
  /\ CallsAreConducted

(* The history of a context: rounds follow each other, the calls and the    *)
(* results of a round are in the order of the reply, and of the            *)
(* submissions' results the collapsed ones come first.                     *)
IsSubmitResult(b) == b.kind = "result" /\ b.tool = "submit"
Precedes(b, c) ==
  /\ b.round <= c.round
  /\ b.round = c.round /\ b.kind = c.kind /\ b.kind \in {"call", "result"} => b.id < c.id
  /\ IsSubmitResult(b) /\ IsSubmitResult(c) /\ b.note = "whole" => c.note = "whole"
InSequence(blocks) ==
  \A i, j \in DOMAIN blocks : i < j => Precedes(blocks[i], blocks[j])

(* Every result of a reply that was not rejected is in the message of its   *)
(* call.                                                                   *)
Answers(blocks) ==
  \A b \in ToSet(blocks) :
    b.kind = "result" /\ rejected[b.round] = 0 =>
      \E c \in ToSet(blocks) :
        c.kind = "call" /\ c.id = b.id /\ c.tool = b.tool /\ c.round = b.round

(* No result is collapsed for one that is not in the same message.         *)
LatestIsWhole(blocks) ==
  \A i \in DOMAIN blocks :
    IsSubmitResult(blocks[i]) /\ blocks[i].note # "whole" =>
      \E j \in DOMAIN blocks : j > i /\ IsSubmitResult(blocks[j]) /\ blocks[j].note = "whole"

(* That holds of the last message, the one a summary leaves.               *)
Consistent(context) ==
  /\ InSequence(Blocks(context))
  /\ \A i \in DOMAIN context : Answers(context[i].blocks)
  /\ context # <<>> => LatestIsWhole(Last(context).blocks)

(* What is pending are the last calls of the reply, which is the last       *)
(* message unless it was rejected, and none of their results is there yet. *)
PendingInv ==
  pending # <<>> =>
    /\ reply.calls = CallsOf(reply)
    /\ pending = SubSeq(reply.calls, Position, Len(reply.calls))
    /\ rejected[rounds] = 0 =>
         /\ Last(ctx).role = "assistant"
         /\ \A i \in DOMAIN reply.calls :
              Block("call", reply.calls[i].tool, CallId(i), "none") \in ToSet(Last(ctx).blocks)
    /\ \A b \in BlocksIn(ctx) :
         b.kind = "result" /\ b.round = rounds => b.id < CallId(Position)

HistoryInv ==
  /\ pc # "done" => PendingInv
  /\ Steady =>
       /\ pc # "done" => Consistent(ctx)
       /\ Within => Consistent(Restored(ctx))

IInv == TalkInv /\ HistoryInv
=============================================================================
