# cli-parser: specifications, model checking and proofs

TLA+ models of the program in `src/` (Python package `cli_parser_agent` and its
WebUI), the TLC configurations that check them on small instances, and proofs
that TLAPS checks for every value of the constants.  Paths below are relative to
`src/src/cli_parser_agent/` unless they start with `docs/` or `README`, which are
in `src/`.  `PROJECT.json` lists components, runs, theorems, hazards and findings,
and maps each definition to the source lines it stands for.

## 1. The system

A caller hands over the outputs of a network device's command and wants a
*result schema* (a JSON Schema) and a *TTP template* that parses every output
into it.  A language model writes both, in two phases, by calling four tools.
Nothing the model says is trusted: each proposal is validated, everything is
counted, and the request is answered once, with the pair or with a reason.

```
 caller ── generator.py ── workflow.py ──┬── agent/runner.py ── agent/tools.py ── agent/session.py
              │ progress     (deadline,   │    (rounds, reply     (4 tools)          (artifacts,
              │              phases,      │     stream, repairs)      │               budgets)
              │              acceptance)  │                           │ validator thread
              │                           └───────────────────────────┴── validation/ttp.py ── worker process
              v
 WebUI: app.py RunManager: _execute ── _ProgressQueue ── _pump ── events.jsonl (store.py)
                                                           └── _ProgressQueue per listener ── event stream ── page (static/*.js)
```

| component | state it keeps | operations | what is hard | what makes it correct |
|---|---|---|---|---|
| Session and tools (`agent/session.py`, `tools.py`, `protocol.py`) | frozen schema, latest valid template and its index, submissions, tests, rounds, no-tool streaks, terminal reason, boundary marks | `submit_result_schema`, `submit_ttp_template`, `test_ttp_template`, `finish_generation`; recording rounds and no-tool replies | tools await validator threads; several calls in one reply; calls that run after their reply was cancelled | the schema is frozen once; finish closes over one validated template; no budget is overdrawn |
| Phase runner (`agent/runner.py`) | the reply's events, protocol failures, stop flags | rounds, tool results, repairs, the round's deadline check | AgentScope's reply stream goes on after the runner wants to stop; exceptions and interruptions of a model call | no round past the end of a phase; a streak of failures ends it |
| Workflow (`workflow.py`, `contracts.py`) | mode, stage, deadline, the answer | fit the input, run a phase under a watchdog, classify its end, accept, package | the deadline, the caller's cancellation and a hanging or cancel-swallowing task in any order | every request is answered, once, with the reason that really was |
| Agent builder (`agent/builder.py`) | none | build a phase's toolkit, count its tokens | a toolkit that depends on the budget and a check of it that does not | both agree |
| Isolated parsing (`validation/ttp.py`) | a worker process, a pipe | spawn, poll, receive, `is_alive`, join, terminate, kill | two processes and a clock | a verdict only if the worker sent it; no process outlives its call |
| Progress queue (`webui/app.py` `_ProgressQueue`) | items, one delta held back, a drop count, an `Event` | put, join, flush, evict, refuse, get, close | limits, a timer, the reader's wake-up | a FIFO that loses deltas only, at its limit only |
| Run manager, transcript, streams (`webui/app.py`, `store.py`, `static/*.js`) | `meta.json`, `events.jsonl`, the active run, numbering, listeners; per page what it has seen | execute, pump, publish, cancel, replay and follow, reconnect, refresh | a snapshot read before awaits and used after; cancellation; restart; broken connections | a page has no holes and learns how the run ended |
| Run lifecycle and store (`webui/app.py`, `store.py`) | the runs' files on disk, `_active_run`, `_task` | create, rerun, cancel, record, save a schema, list, delete | worker threads beside the event loop; files rewritten in place; operations that fail; restart | one generation at a time; a finished run is never written again; every run is settled |
| Conversation (`agent/runner.py`, `model_attempts.py`, `schema_reasoning_guard.py`, `schema_reasoning_formatter.py`) | the agent's context, checkpoints, attempts, retained reasoning, forced choice | ask, retry, retain, collapse, restore, repair | what AgentScope adds to an earlier message; two views of the last reply; streams left half way | rejected output is not sent again; what was retained stays; every attempt ends |
| Sampling (`sampling.py`, `workflow.py` `_fit_sampled_outputs`) | none | cut the outputs, shrink the budget until they fit | termination, boundaries | ends; honest samples within their share |
| Schema validation (`validation/json_schema.py`) | none | walk a candidate, list issues, share mismatches | depth, limits, cut-off of a list | accepts the supported subset |
| Schema plans (`schema_plan.py`) | none | resolve references, own evidence, derive names and required fields | ownership over levels, presence, name fallbacks | a compiled plan is a supported schema that its evidence supports |
| Evaluation runner (`scripts/run_test_sets.py`) | trials, semaphore, artifacts, summary, baseline, exit status | preflight, run trials, judge, compare, write the baseline | concurrent trials; a failing trial among running ones; Ctrl-C; the baseline read late and written in place | the verdict is about the baseline given; no partial summary; nothing left running |
| Trial observers (`scripts/run_test_sets.py`, tools' result events) | what a trial learned of its schema phase | fold events | rows that outlive lists, calls after the freeze | what a trial is scored by is what its session froze |
| Data sets (`evaluation.py`) | none | load a registry, preflight, select | sets half assembled, two input scopes | pending, passed and failed are told apart exactly |
| Generator, progress channel, observability (`ttp_generation/generator.py`, `progress.py`, `observability.py`) | a number per progress event | one request's workflow and events | none found beyond the queue's | events are numbered in order |
| Prompts, feedback, draft recipes, adapters, configuration, terminal client, analysis scripts | none | text and data conversion | none | out of scope |

## 2. Modules

Core, the generation of one request; each extends the one before:

| module | models |
|---|---|
| `GenerationSession` | `GenerationSession`'s fields (VARIABLES of the same meaning) and what each tool does to them.  A call is one step up to its first `await`; if that is a validator thread, the proposal is in `flight` until a second step delivers a verdict `accepted`, `rejected`, `worker_failed` or `exception`. |
| `AgentRunner` | `_run_generation_phase`: `pc` is where the phase is (top of the `while`, inside the reply stream, a model call out, running tools, waiting for a validator, handling a `ToolResultEnd`, a stopped reply, closing).  A reply is any sequence of up to `MaxCalls` calls with well-formed, rejected or malformed arguments.  AgentScope and the provider appear as what they may do: fail, interrupt a model call or a tool, hang, and go on running a stopped reply's calls until one suspends (`StrayCall`).  A call may also fail between its tool's entry and the check of its arguments. |
| `Workflow` | `run`, `run_schema_only`, `run_template_only`: `stage` is start, fit, run, acceptance of schema and template, packaging, done.  The watchdog of a phase is one step here. |
| `GenerationContract` | abstract: what the caller is promised.  Settle a schema once, keep templates, close over one, deliver exactly that pair, or give up without an artifact. |
| `WorkflowProperties`, `MCWorkflow` | the properties, the inductive invariant, fairness, the refinement mapping; the instance for TLC. |
| `WorkflowProofs` | proofs. |
| `Conversation` | the same rounds, with replies of any up to `MaxCalls` calls, seen from the agent's context: what is appended, retained, collapsed, restored from the checkpoint and sent, and what the calls left in a rejected reply add afterwards; the provider attempts behind each call, their retries, streams and ends, the forced submission and the guard on retained reasoning.  Budgets and tools, which are `AgentRunner`'s, are reduced to what decides which blocks stay. |
| `ConversationProofs` | proofs. |

Calls under a deadline:

| module | models |
|---|---|
| `BoundedCall` | abstract: work done under a deadline by somebody who cannot be trusted to stop.  The answer is what the work produced, or there is a reason why it is not. |
| `PhaseDeadline` | `_run_before_deadline` and `_cancel_and_drain`: the watchdog, the task it runs, the slices of the grace period with one cancellation each, the task abandoned with a callback, the request's own cancellation before and during the drain.  It refines the step that `Workflow` takes at a deadline. |
| `IsolatedParse` | `_run_ttp_isolated` and `_run_ttp_test_isolated`: the worker process from boot to exit, dying at any point, the pipe with nothing, part or all of a verdict, and the calling thread's loop of clock, `poll`, `recv`, `is_alive`, then `close`, `join`, `terminate`, `kill`. |
| `PhaseDeadlineProofs`, `IsolatedParseProofs` | proofs. |

WebUI:

| module | models |
|---|---|
| `LossyFifo` | abstract: a FIFO between one writer and one reader that may lose deltas, never structural events, and tells its end last. |
| `ProgressQueue` | `_ProgressQueue` method by method: joining deltas of a block, cutting long ones, the flush timer, refusal and eviction at `MAX_ITEMS`, the drop count, `_ready`, `close`.  `coalesces` distinguishes the pump's queue (with a timer) from a listener's (without). |
| `RunEvents` | one run: `_execute`, `_pump`, `_publish` and `_number`, `stream_events` with its snapshot, replay and follow, `cancel`, a killed and restarted server, and pages that open a run, read status and transcript, connect with `Last-Event-ID` or `after_sequence`, reconnect and refresh.  It relies on the queue being what `ProgressQueue` shows it to be. |
| `RunLifecycle` | all runs: the asynchronous handlers that create, rerun and cancel, each task's recording of its end file by file, and the `def` endpoints that list, save and delete in worker threads, test by test.  A file is truncated and then filled; any operation may fail, and the server may be killed, at any point.  `active_run` is what it is in the code, a test of `_task` followed by two assignments. |
| `ProgressQueueProofs`, `RunEventsProofs`, `RunLifecycleProofs` | proofs. |

Evaluation and algorithms:

| module | models |
|---|---|
| `TrialRun` | one invocation of `run_test_sets.py`: command and options, reports of the preflight, trials as tasks under a semaphore, artifacts, the gathering and its failure, Ctrl-C, summary, comparison, baseline, flush and exit status. |
| `TrialTracer` | the result events of the submission tools and the observers that fold them into a trial's facts. |
| `TrialVerdicts` | what is decided of a trial: the acceptance repeated outside the agent, whether records and contract are those expected, the blame for a failure, and a run's totals, rates and percentiles.  A record is compared whole. |
| `TrialScores` | extends `TrialVerdicts` by the scores of leaves, which look inside the records. |
| `Tallies` | sums over places and exact fractions, for both and for `TrialTracer`. |
| `SchemaComparison` | the structural contract of a schema and back, the differences of a pair of proposals, their consistency in a case and over cases; extends `SchemaCheck` for its trees. |
| `DatasetPreflight` | loading a registry entry, judging a data set in either scope, selecting by name, id and tag. |
| `InputFit` | sampling of one output, division of a budget among outputs, the fit loop. |
| `SchemaCheck` | the walk over a candidate schema with its limits and capped issues; the round-robin of mismatches. |
| `SchemaPlan` | the plan compiler, up to the schema it returns, which `SchemaCheck` judges. |
| `JudgedInputs` | what `InputFit`, `TrialTracer`, `TrialVerdicts` and `DatasetPreflight`, which need no recursion over trees, promise of one input: four of the invariants of `MCAlgorithms`. |
| `MCAlgorithms` | one action per algorithm, which picks an input; the properties are invariants of the state it leads to: those of `JudgedInputs`, and two about trees. |
| `EvaluationProofs` | proofs about `TrialRun`, and of the invariants of `JudgedInputs` for inputs of any size. |

Composition: `Workflow` composes runner and session by EXTENDS and implements
`GenerationContract`; `PhaseDeadline` and `IsolatedParse` both implement
`BoundedCall`; `ProgressQueue` implements `LossyFifo`, which `RunEvents` uses as
its queues; `SchemaPlan` extends `SchemaCheck` and is checked against it.  A
validator's verdict in `GenerationSession` is what `IsolatedParse` returns
(`worker_failed` is its `lost`, `exception` its `broken`).  `RunLifecycle` takes the
generation as `Workflow` shows it to be (it answers), `RunEvents` one run as
`RunLifecycle` lets it live, and `TrialRun` a trial's generation as `Workflow`'s.

Operators named `X_Suffix` beside a definition `X` are plausible mistakes in the
code (a dropped guard, a limit off by one, a forgotten reset).  Put in place of
`X`, each makes TLC find the property violated that `PROJECT.json` names with it.

## 3. What the runs check

Passing runs:

| run | question | properties |
|---|---|---|
| `workflow` | Is every answer right, whatever the model, the validators, the clock and the canceller do? | `IInv`, which holds the budgets (`BudgetsHold`) and the two repair counters together (`RepairStreaksAgree`); `SuccessIsEarned`: a success carries the frozen schema and the very template the model finished over, validated, before the deadline and within the submission budget. `FailureHasItsCause`: each reason was so, and `agent_stopped` is left for an interrupted call and for a phase without time for another round. `FinishClosesTheCandidate`, `NoRoundPastTheEnd` (steps). `MeetsContract`: refines `GenerationContract`, in which a schema, once settled, stays. |
| `answered` | Is every request answered? | `EventuallyAnswered`, by the deadline alone and by the budgets alone (section 6). |
| `conversation` | What does the model get to see, and how does each of its calls end? | `IInv`, from which the proofs go. `SentIsAllowed`: of a rejected completion nothing it had said or done up to its last rejected call goes back to the provider, only results of calls after that one (`RejectedOutputIsNotSent`), and reasoning once retained survives restores, summaries and forced calls (`KeptReasoningStays`). `CallsAreConducted`: a submission is forced exactly on the last retry after retained reasoning, so that the model's view of the last reply and the runner's never part, and no attempt stays open. `HistoryIsKept`: only pure, cut reasoning is retained, a result is collapsed only under a later one (except for a provider that numbers its calls afresh, once a call was answered after a rejected one), and an attempt's outcome is final. |
| `parse` | Does a parse in its own process return, with the right answer, and clean up? | `IInv` (no process outlives its call: `NoWorkerIsLeft`; a verdict is left unread only if its worker had exited: `StatusHasItsCause`), `CallReturns`, `MeetsContract` (refines `BoundedCall`). |
| `deadline` | Does a phase that swallows cancellations still end? | `IInv`, with `TaskIsSeenOff`: nothing is left unwatched, and nothing is given up on early, `WorkInTimeCounts`: work that ended in time is never called late, and `CancellationIsKept`: a cancellation of the request reaches its caller, unless the deadline had passed first. `WatchdogReturns`, `MeetsContract`. |
| `queue` | Is the progress queue a FIFO that loses deltas only? | `QueueInv`: types, the limit, losses are told, a waiting reader is woken, and what was read and what still waits is what was put, in order, less the deltas lost (`InOrder`). `DropsOnlyAtTheLimit`, `NothingIsStuck` (what is put is read, and a closed queue's reader ends), `MeetsContract` (refines `LossyFifo`). |
| `events` | Does a page that opens and reconnects at any time see every event and the end? | `PagesHaveNoHoles`, `ToldPagesShowTheEnd`, the invariant `IInv` from which both are proved, and `PagesAreTold`.  `IInv` also holds that a run's end, once recorded, is on its way to the transcript and lost only where a cancellation or a restart cuts the pump (`EndIsOnItsWay`). |
| `lifecycle` | What may two handlers, a worker thread, failing operations and a restart do to the runs? | `IInv`: a live run is the manager's, and no thread removes its directory (`OneGenerationUnlessOverwritten` and `LiveRunsAreNotDeleted` follow), and whatever is in the middle of a run will settle it (`SettledInv`). `RunsAtRestAreSettled`: a run nobody works on says how it ended, unless a crash, a failed write or a failed deletion cut it short. `FinishedRunsAreKept`. `RerunsUseTheReviewedSchema`: a rerun starts from the schema whose save was answered. `RunsEndAndFreeTheManager` (liveness). |
| `trials` | What may a summary, a baseline and an exit status say? | `IInv`, which holds `SlotsAreKept` (no slot of the semaphore is lost, however a trial ends), `SummaryCoversEveryTrial`, `NothingRunsAfterExit`, `FrozenSchemasAreMeasured`. `VerdictIsAboutTheGivenBaseline`, even when the run replaces it. `BaselineIsAFinishedRun` (step). `EveryInvocationEnds` (liveness). |
| `algorithms` | Do the deterministic parts do what they are for, on every small input? | `InputsAreFitted`: no character is shown twice, no output exceeds its share, the loop ends within both limits. `TreesAreJudged`: the walk accepts exactly the supported subset, no record takes all the feedback, a schema's contract leads back to it, the counts of a comparison account for its verdicts, of a pair, a case and over cases, and a trial's leaves tell the same as its whole records. `PlansAreCompiled`: evidence has one owner on each level, required fields were seen in every record, names come from the source, and the schema passes the schema check, unless it is over the check's size limit or has no scalar. `TrialsAreTraced`: what a trial is scored by is what its session froze. `TrialsAreScored`: a trial passes exactly when its template, run again, gives the records reported and expected, is blamed on the stage that failed, is scored alike at once and by input, and is in every total of its run; a contract only ever costs a pass, and a percentile is of the nearest rank. `DataSetsAreJudged`: half assembled sets are pending, passing is exact, the full scope implies the default one, filters intersect, and a filter given twice or a tag that can be none is refused. |

Runs that show a disagreement between the code and what the repository says of it:

| run | what TLC finds |
|---|---|
| `one_generation` | README.md: only one generation runs at a time.  `active_run` tests `_task.done()` and then assigns, and `def` endpoints call it in worker threads.  A thread that was suspended between the two wipes the entry of a run started meanwhile: that run can no longer be cancelled, and the next POST starts a second one beside it. |
| `evidence` | A comment in `agent/runner.py` says that after a rejected completion earlier tool evidence remains unchanged.  A submission collapses the result of the one before it and is then removed with its reply by an invalid call after it: the model goes on without the outcome of either. |

## 4. Known disagreements

Besides those two, the following are known.  The first seven are stated as
definitions; put into the named run's `.cfg` (as INVARIANT, the last as PROPERTY),
TLC finds each violated.

| definition, run | what the code does |
|---|---|
| `RefusedRoundEndsAsTimeout`, `workflow` | The runtime documentation says that when the time left cannot hold a model call the request ends directly as `generation_timeout`.  The runner notes that reason and leaves the phase, but `_phase_stopped_failure` does not look at it: the answer is `agent_stopped`. |
| `ZeroTestBudgetOnlyWithholdsTheTool`, `workflow` with `MaxTests = 0` | At a zero test budget the test tool is withheld "rather than offered and always refused".  `estimate_initial_model_tokens` insists on the full tool list and raises, so every TTP phase of such a request ends as `internal_error` before its first round. |
| `CancellationIsRaisedAgain`, `deadline` | A cancellation of the request that arrives while the deadline's drain is under way is dropped; the comment in `_cancel_and_drain` says the caller raises it again. |
| `WholeCompletionsAreRemoved`, `conversation` | The comment at the restore says "Remove the whole rejected completion with both call and result".  The reply is stopped only at the retry limit or the end of the phase; otherwise the calls left in it run, on the restored context, and their results are appended after the repair message and sent, without the calls they answer.  Compaction then skips the phase as ambiguous, or, where the provider reuses ids, may take such a result for that of another reply's call (`Steady`). |
| `TranscriptIsInOrder`, `events` | A run that ends while a stream replays its transcript gets a second terminal event, numbered 1, at the end of `events.jsonl`: the stream's snapshot had none, and the numbering was forgotten when the run ended. |
| `RunsEndIsStored`, `events` | A cancellation that finds the run finished but its pump still draining cancels the pump, and the terminal event is lost. |
| `RestartIsSurvived`, `events` | A page that was open across a restart reconnects for ever: the terminal event made up for it is numbered 1, below its `Last-Event-ID`, and is never sent. |

The rest is visible in the models and has no definition of its own.

* `SchemaPlan`: a plan within its own limit of bytes may compile to a schema above that of
  the schema check (64 KiB), as every field gets a description; such a plan compiles, and
  is refused as a schema.
* `IsolatedParse`: the caller polls an empty pipe and then asks `is_alive`; a worker
  that sends its verdict and exits between the two is reported as
  `worker_bootstrap_failed` ("exited before reporting a result") although the
  verdict waits in the pipe.
* `PhaseDeadline`: a task that swallows the first cancellation goes on until the next
  slice, and one that swallows all of them goes on after the answer, where
  `docs/architecture.md` rules out another model request.
* `RunLifecycle`: a deletion that meets another one of the same run, or a save, may stop
  half way and leave a half deleted directory behind (`contested`); a run that was live when the server
  was killed stays "running" (`cutShort`).
* `TrialRun`: the baseline is read only after all trials, so an unreadable one costs
  the whole run its summary (exit 2); exit 1 stands for a regression as well as for
  an operating-system error; the baseline is rewritten in place; Ctrl-C in the final
  synchronous part lets it finish and then exits 130; a `ttp-only` run without a
  runnable case ignores `--baseline` and `--write-baseline` and exits 0; malformed
  entries of a baseline are skipped or raise, depending on the entry.  Whether a loss
  of exactly the tolerance regresses depends on binary rounding (4 of 5 against 3 of
  5), which is why `VerdictIsAboutTheGivenBaseline` leaves that case open.
* `TrialTracer`: a `submit_result_schema` after the freeze is counted once more and a
  cancelled one once less, so `submission_observation_complete` may be wrong by one
  in either direction; `SubmissionsAreObservedOnce` names the two exceptions.
* `DatasetPreflight`: the docstring of `load_dataset_registry` says missing files are
  represented as pending, but with only one of `schema.json` and `expected.json`
  present the whole registry is rejected.

## 5. Bounds

| run | bounds and why they are enough |
|---|---|
| `workflow` | `MaxSubmissions` 3: a rejected, a kept and a last submission, so that the limit meets a kept template, an unchanged resubmission and a finish.  Three templates, two of them valid (interchangeable, hence the symmetry), so that a kept template can be replaced by another valid one.  Two schemas, one acceptable.  `MaxRounds` 4 lets the schema phase use up one to three rounds and leaves the TTP phase what remains.  `MaxCalls` 2 gives a finish before, after and beside a submission, and one stray call.  `TotalTime` 3 with `MinRound` 2 lets the deadline pass before, in and after a round and refuses a round with time left.  `MaxTtpNoToolRetries` 2 is above `MaxProtocolFailures` - 1 and `MaxSchemaNoToolRetries` 0 below it, so that either limit is the one that ends a phase. |
| `answered` | Smaller budgets (2 submissions, 3 rounds, 2 ticks) without symmetry, which liveness does not allow. |
| `parse`, `deadline` | No bounds but `Attempts` = 3, the value in the code. |
| `queue` | `MaxItems` 2, `MaxDeltaChars` 2, deltas of up to 3 characters and two blocks: a delta is joined, filled exactly, cut, flushed by another block, by an event, by the timer and by `close`, and the queue overflows with deltas, with events and with both.  `MaxSent` 5 characters and events, `MaxLost` 2. |
| `events` | Two pages, three progress events, one lost connection, one restart, one cancellation.  The proofs have no bounds. |
| `lifecycle` | Two runs, of which the second may rerun the first, two requests in one worker thread, one failure or restart: a deletion meets a save, a listing meets a creation, a failed write meets either.  Two schemas tell the reviewed one from the artifact's.  The proofs hold for any number of each. |
| `one_generation` | A third run is needed to be started beside the forgotten one; one request and no failure suffice. |
| `conversation`, `evidence` | Three rounds hold a submission, a repair and a second submission; `MaxProtocolFailures` 3 lets two rejections pass; `MaxNoToolRetries` 1 makes the second no-tool reply the one that forces; one provider retry gives an attempt that fails before one that does not; `ContextLimit` 5 is reached by retained reasoning.  `MaxSubmissions` 3 is reached, and `MaxCalls` 2 lets a call run after a rejected one and be rejected or answered.  The proofs have no bounds. |
| `trials` | Two cases, two trials, two slots: fewer, as many and more trials than slots, cases that differ, and baselines of up to two trials per case with tolerance 0 or 1.  The proofs hold for any numbers. |
| `algorithms` | Outputs of up to three lines; schemas of up to seven levels against `MaxDepth` 6 and up to two properties with faults in every place against `MaxIssues` 3, on either side of `MaxSchemaSize` 13; plans of up to three nodes over three levels, and one of four against `MaxPlanNodes` 3, with 8, 9 and 10 references against `MaxReferences` 9 and on either side of `MaxPlanSize` 17, some within it whose schema is not; up to four submissions, six recoveries and four activations against lists of two; up to three proposals of one case out of 8 forms and pairs out of 38, two cases of up to four proposals; trials of one or two inputs with every outcome, runs of up to three of them, percentiles of up to 25 values. |

`TimePasses` stops at the deadline (`timeLeft` = 0); validators, model calls and
tools take any number of ticks, including none.

## 6. Fairness

* `Workflow!FairSpec`: steps of the workflow and runner that are ready are run (one
  asyncio loop).  Besides that *either* the clock reaches the deadline, and then
  model calls and validators may hang for ever, *or* model calls and validators
  return, and then the deadline may never come.  The request is answered in both
  worlds, so neither the deadline nor the budgets depend on the other.
* `IsolatedParse!FairSpec`: the calling thread runs, the clock runs, a killed
  process ends, and a worker that has begun to send its verdict finishes or dies
  (otherwise `recv` blocks: the code has no time limit there).
* `PhaseDeadline!FairSpec`: the watchdog and the clock run.  Nothing is assumed of
  the task.
* `ProgressQueue!FairSpec`: the timer fires and the reader runs.  Nothing is
  assumed of the writer, and `close` need not come.
* `RunEvents!FairSpec`: the generation is answered (shown by `answered`), the event
  loop runs, an open page's `EventSource` reads and reconnects.  Opening a page,
  cancelling, restarting and losing a connection never have to happen.
* `RunLifecycle!FairSpec`: the event loop runs what is ready and the generation
  answers.  Nothing is assumed of worker threads: one may stay suspended for ever,
  and runs still end.
* `TrialRun!FairSpec`: the event loop gives the runner and every trial its turn, and a
  generation ends (its phases and parses have deadlines).  Ctrl-C and failing writes
  never have to happen.
* `Conversation` and `MCAlgorithms` state safety only.  That a phase ends is
  `AgentRunner`'s matter, and the algorithms' loops end because what they work on
  gets smaller in every pass.

## 7. What is proved

The proofs hold for every value of the constants that satisfies the named
assumptions `SessionAssumption`, `RunnerAssumption`, `WorkflowAssumption`,
`ConversationAssumption`, `DeadlineAssumption`, `QueueAssumption`,
`EventsAssumption`, `LifecycleAssumption`, `ContentAssumption`, `TrialAssumption`,
`FitAssumption`, `TracerAssumption` and `PreflightAssumption` (budgets and bounds are
naturals, some positive as the configuration requires; `None`, `Nothing` and the marks
for missing files are no schemas, templates, numbers or contents), which TLC evaluates
too.

* `WorkflowProofs`.  None of the safety properties is inductive alone.  `IInv` adds
  where the phase can be and what its reply then holds (`PlaceInv`), that a
  validator only works for the call that waits for it, in the right phase, for a
  session that had not finished (`FlightInv`), what each phase may have produced
  (`ArtifactInv`), what has been decided (`AnswerInv`), and that a running phase
  still has room in its repair budgets (`CounterInv`).  `FlightInv` is the crux:
  a template's verdict arrives steps after its submission, possibly after the
  runner has cancelled the reply, and must not undo a finish.  The tools are
  summarised by one lemma, `ToolEffect` (all a call may do up to its answer or its
  first wait); `RunnerInv`, `AgentInv`, `WorkflowInv` and `OtherInv` take the
  actions one by one.  From `Invariant` follow `TypeCorrect`, `SuccessEarned`,
  `BudgetsHeld`, `StreaksAgree`, the step properties `SchemaFrozen` and
  `FinishCloses`, and `Refinement`: every step is a step of `GenerationContract` or
  a stutter.
  A reason is noted in one step and read several later, so `CauseInv` adds to `IInv`
  that every noted reason was so when it was noted and still is, or cannot be read
  any more, that a phase whose round is under way had room for it, and that a phase
  that is over, or whose reply was stopped, has met what ended it (`EndInv`).
  `CauseInvariant`, `FailureCaused` and `NoRoundPast` follow.
* `ConversationProofs`.  For any budgets, retries, limits and numbers of calls in a
  reply, and contexts of any length.  `ContextInv` is the crux: the context, and what a restore would make of it,
  hold no block that may not be sent and all the reasoning retained so far, at
  every point of a reply, because which of the two the provider sees next is only
  decided when the reply ends.  `ReasoningInv` keeps the model's view of the last
  reply equal to the runner's, `AttemptInv` says that there is an attempt where one
  is settled, `PlaceInv` and `BudgetInv` where the phase is.  `HistoryInv` is about
  the order of blocks: along the flattened context rounds do not decrease, calls and
  results of a round are in the order of the reply, a result of a reply that was not
  rejected is in its call's message, collapsed results come before the full ones, and both the context and
  what a restore would make of it end in a message whose latest submission is in
  full.  It holds under `Steady`: always where ids are not repeated, and else until a
  call is answered after a rejected one.  `SupersededResults` shows from it that a compaction collapses all results
  but the last, `CollapseConsistent` and `RestoredConsistent` that the order
  survives it, and `FlattenAppend` and `ByMessages` carry facts about messages over to
  the flattened context (the fold behind `FlattenSeq` is taken apart by `LeastNat`
  and `Induct`, as in `ProgressQueueProofs`).  `Invariant`, `SentAllowed`,
  `CallsConducted`, `PureReasoningRetained`, `OutcomesStand`, `ResultsSucceeded`, and
  the three step properties together, `HistoryKept`.
* `IsolatedParseProofs`.  `IInv` relates the caller's decision to its cause in the
  pipe, the worker or the clock, and the caller's place in the disposal to the
  signal sent.  The pipe follows the worker (`PipeFollowsWorker`), so a verdict that is
  left unread is that of a process which had exited.  `ParseInvariant`, `WorkerStopped`, and `ParseMeetsContract`
  (implements `BoundedCall`).
* `PhaseDeadlineProofs`.  For every number of drain attempts: `WatchdogInvariant`,
  `TaskSeenOff`, `InTimeCounts`, and `WatchdogMeetsItsContract`.  `WatchdogInvariant` holds
  where a cancellation of the request may be lost (`CancellationIsKept`).
* `ProgressQueueProofs`.  For any limits, blocks, deltas and events.  The loops of
  `_enqueue` and `_put_delta` are recursive functions, so induction on the naturals is
  derived first, from their being well-founded (`LeastNat`, `Induct`); `LoopUnrolls`
  shows that such a function exists, and `TurnByTurn` that what every turn keeps
  the loop keeps.  On them rest the eviction of deltas (`EvictionTurns`, `RoomMade`)
  and the cutting of long ones (`PieceTurns`, `PutTextGood`).  Every method has a
  lemma that it takes a good queue to a good one and changes it as the contract
  allows (`AppendsGood`, `EnqueueGood`, `FlushGood`, `PutPieceGood`).  `QueueInv` is
  inductive thanks to `InOrder`, which ties the items to what was put.  `Invariant`,
  `DropsAtTheLimit`, and `MeetsTheContract` (implements `LossyFifo`).
* `RunEventsProofs`.  For any number of pages, events and faults.  `LogInv`: the
  transcript's numbers leave none out, each comes after its predecessor, and the
  pump's counter is the highest of them as long as it runs (after a restart it is
  not, which is where made-up events come from).  `EndInv`: wherever a terminal
  event is, in the transcript, a queue, or a page's memory, the status has been
  stored or the server killed.  `PageInv` is the crux of `PagesHaveNoHoles`: the
  snapshot of the transcript and the queue, taken together with what the page has
  seen, leave no number out although both change while the stream is suspended.
  `StretchGrows`, `SnapshotInOrder`, `ReplayedInOrder`, `FollowedInOrder` and
  `PumpedInOrder` carry it.  `EndArrives` takes a run's end through queue and pump to
  the transcript.  `Invariant`, `NoHoles`, `ToldShowTheEnd`.
* `RunLifecycleProofs`.  For any number of runs, worker threads, requests and
  failures.  `ThreadsInv` is the crux: what a thread found in its last look still
  holds when it acts, because a task that is done stays done and an id cannot be
  named before it was handed out.  With it, `ManagerInv`, `HandlerInv`, `FutureInv`
  and `ReviewInv` are inductive.  `SettledInv` says of every run in the middle of
  something who will settle it: its task, the loop that writes its status last, or a
  deletion.  `Invariant`, `RunsSettled`, `OneGenerationAtATime` and
  `LiveRunsKeepTheirFiles` (both unless a thread wiped the manager's entry, the case
  of the run `one_generation`), `FinishedKept`, `RerunsReviewed`.
* `EvaluationProofs`, `TrialRun`.  For any number of cases, trials and slots.
  `PlaceInv` says which trials there are and what the files hold at each place of the
  runner, `JudgedInv` what a verdict meant when it was reached, before the baseline was
  replaced.  `TrialRunInvariant`, `SlotsKept`, `SummaryCovers`, `NothingLeftRunning`,
  `FrozenMeasured`, `VerdictRight`, `BaselineFromFinishedRun`.
* `EvaluationProofs`, algorithms.  The four invariants of `JudgedInputs` say of one
  input what its algorithm promises; they are proved for inputs of any size:
  `EveryInputIsFitted` (`InputsAreFitted`), `EveryTrialIsTraced` (`TrialsAreTraced`),
  `EveryTrialIsScored` (`TrialsAreScored`), `EveryDataSetIsJudged`
  (`DataSetsAreJudged`).  Underneath, `FoldExists` shows by induction that the recursive
  function behind `FoldLeft` exists; lemmas named after it (`PhaseAppends`,
  `RecoveryRuns`, `SelectionRuns`, `CodesRun`, `MeanRuns` and others) say what each fold
  is for a sequence one longer.  `SumsAddUp` shows that a sum over a set of places does not
  depend on the order in which `CHOOSE` takes them.
  - `TrialKnowsItsSession`: any sequence of calls, any schemas.  `Together` relates the
    session after some calls to the tracer after their events: same schema, as many
    submissions, the same first one; `FallbackKept` adds the pending plan, where no
    schema is submitted directly.  `OutcomeFollows` says what each tool leaves beside
    the event it announces, and `CallTogether` that both relations survive it.  Assumed:
    "nothing seen" is no schema (`UnseenIsApart`).
  - `RecoveryIsOfOnePolicy`, `ActivationsAreCounted`, `FactsAreTheLastTold`: any
    events and any limit of the lists.  The step of each induction says which event is
    counted and which is listed; `Ranks` and `ListsOneMore` give the place of the next
    event in its guard's list.  Assumed: "nothing seen" is no policy, and events have the
    fields their observers read (`AreActivations`, `AreTold`).
  - `DefaultIsTheCheaperScope`, `PassedRecordsAreExact`, `UnfinishedIsPending`: data
    sets of any size.  Assumed: there is one result of the template for each input, and
    records are neither "has issues" nor "malformed" (`IsDataSet`).  `FiltersIntersect`:
    any registry that loads, as a command stops at one that does not (`IsSelection`).
  - `EveryCutIsHonest`, `TheFitLoopIsSound`: any outputs, marker, framing and limits.
    `RoundsEnd` shows that the loop's recursive function exists, `BudgetsShrink` that
    every round has a smaller budget of at least one character, and `RoundIsGood` is
    the step of the induction: a budget is never above the rounds left by more than
    one.  Assumed: outputs and their lines are not empty (`Requests`), as the request's
    validators and `splitlines(keepends=True)` have it.
  - `PassesAreEarned`, `BlamesAreCounted`, `EveryInputCounts`: any trial, whatever its
    records and codes.  Assumed: a success has one record of each input and anything
    else has none (`IsTrial`), which the validation and the result's own validator
    see to.  `ContractsAreScored`: any two contracts.  Assumed: no two nodes share a
    path, as they are a dictionary's, and the expected one is not empty
    (`IsContract`).
  - `EveryTrialIsCounted`: runs of any length.  `SumsCompare` bounds the pooled matches
    from both sides, and `PooledIsAveraged` shows by induction (`IsOver`) that where all
    trials have as many inputs the pooled rate is the mean of the trials' rates, as
    exact fractions.  `PercentilesAreNearestRanks`: any numbers; `RankReaches` is
    the arithmetic of the rank.

  Every input that `MCAlgorithms` picks satisfies these assumptions.

Only model-checked: everything under fairness (liveness is beyond the prover), and
`TreesAreJudged` and `PlansAreCompiled`: `SchemaCheck`, `SchemaPlan`,
`SchemaComparison` and the leaves of `TrialScores` walk trees with RECURSIVE operators.

## 8. What is not modelled

* The content of schemas and templates, prompts, feedback and answers' wording.  In
  the generation a proposal is a model value, its validation a verdict;
  `SchemaCheck` and `SchemaPlan` look inside, on their own.  TTP itself and the check
  of a template's language are the verdict of `IsolatedParse`.
* The draft compiler (`schema_draft.py`) and the source view of a prompt; the plan
  and draft tools, whose events `TrialTracer` reads, are not in the repository.
* AgentScope and the provider, which appear in `AgentRunner` and `Conversation` as
  what they may do.  After an interrupted tool call it is taken to end the reply.
* Of a tool result: a call of an offered tool that never entered it counts as one with
  invalid arguments, which the code only does if its state is an error (no other
  outcome of such a call is known).  In `Conversation` a call's arguments are judged by
  themselves, where the code keeps one boundary mark for each tool, and the deadline
  does not stop a reply at a result; `AgentRunner` has both.
* Bytes: the size of a schema and of a plan is a count of their parts, and what is not
  serializable is a number that is not finite, not text that cannot be encoded or a
  tree too deep for the interpreter.
* Spans, logs and the numbering of progress events; no decision reads them.  The
  public generator builds a workflow and maps its result.
* Events other than structural ones in `RunEvents`, and a listener's queue that
  fills up there; `ProgressQueue` covers both for one queue.
* Human reviews and their summaries, candidate trajectories, span statistics, context
  ablation, comparison scripts: reports on finished results.  The terminal client, the
  launcher and the display of the WebUI.
* In `TrialVerdicts`, `TrialScores` and `SchemaComparison`: the confidence intervals, the
  counters copied from a result's metadata, the rounding of rates, JSON values other
  than strings and null (where Python's `==` and the canonical text may disagree), and
  targets whose contract is malformed, which `score_executor_output` counts as met by a
  schema that is malformed too.
* WebUI adapter and runtime configuration: projections and merges without state.

## 9. Plan

Done, in the order of importance: session, runner, workflow and their contract;
progress queue; run events; isolated parse and phase deadline; run lifecycle;
conversation; evaluation runner, its observers, scores and data sets; fit, schema check
and comparison, plan compiler; with proofs for all state machines and for the algorithms
that do not walk trees.  What would add most next:

1. The draft compiler, with `SchemaCheck` as its judge, as for plans.
2. `PhaseDeadline` composed with `Workflow`: the abandoned task keeps its session
   while the request is already answered.
3. `RunEvents` with deltas and a listener's queue at its limit, on top of
   `LossyFifo`.
