---------------------------- MODULE JudgedInputs ----------------------------
(***************************************************************************)
(* An input of one of the algorithms that need no recursion, and what they *)
(* promise of it: fitting command outputs to a budget (InputFit), folding  *)
(* a trial's events (TrialTracer), what is decided of a trial and counted  *)
(* of a run (TrialVerdicts), judging and selecting data sets               *)
(* (DatasetPreflight).  MCAlgorithms picks the input from small sets;      *)
(* EvaluationProofs takes any that the program can be given.               *)
(***************************************************************************)
EXTENDS InputFit, TrialTracer, TrialVerdicts, DatasetPreflight

VARIABLE job   \* what the input is of, and the input

\* Sampling never shows a character twice nor more than an output's share; the fit loop
\* ends, and what it passes on keeps both limits.
InputsAreFitted ==
  job.kind = "fit" =>
    LET input == job.input
    IN  /\ CutsAreHonest(input.outputs, input.total)
        /\ FitIsSound(input.outputs, input.total, input.maxTokens)

\* What a trial is scored by is what its session froze: the schema and the fallback names
\* of the frozen plan.  Submissions are observed once, up to the two known exceptions,
\* recoveries of one policy, activations beyond the lists, and execution facts whether or
\* not rows are recorded.
TrialsAreTraced ==
  /\ job.kind = "calls" =>
       /\ FrozenSchemaIsTheSessions(job.input)
       /\ FallbackIsTheFrozenPlans(job.input)
       /\ SubmissionsAreObservedOnce(job.input)
  /\ job.kind = "recoveries" => RecoveriesAreOfOnePolicy(job.input)
  /\ job.kind = "activations" => ActivationsAreReported(job.input)
  /\ job.kind = "rounds" => FactsOutliveRows(job.input.events, job.input.recording)

TrialIsScored(trial, score, facts) ==
  /\ PassIsEarned(trial, score, facts.category)
  /\ BlameIsCounted(trial, facts)
  /\ InputsAddUp(score)

ContractTrialIsScored(trial, template, score) ==
  ContractIsScored(template.candidatePass = 1, score, FactsOf(trial, score.verdict).category)

\* A trial passes by what its template gives when it is run again, is blamed on the stage
\* that failed, and is scored alike all at once and input by input; a run's numbers leave
\* no trial out.
TrialsAreScored ==
  /\ job.kind = "trial" =>
       TrialIsScored(job.input, VerdictOf(job.input), FactsOf(job.input, VerdictOf(job.input)))
  /\ job.kind = "contract" =>
       LET trial == job.input.trial
       IN  ContractTrialIsScored(trial, VerdictOf(trial),
             ScoreExecutorOutput(trial.result, AcceptanceOf(trial), trial.expected,
                                 job.input.actual, job.input.expected))
  /\ job.kind = "run" =>
       RunIsCounted(job.input, [i \in DOMAIN job.input |-> VerdictOf(job.input[i])])
  /\ job.kind = "percentile" => PercentileIsNearestRank(job.input)

\* A data set that lacks a declared file is pending; a complete one passes by the records
\* of the same inputs, in the default scope wherever in the full one; filters intersect.
DataSetsAreJudged ==
  /\ job.kind = "dataset" =>
       /\ FullImpliesDefault(job.input)
       /\ PassedIsExact(job.input)
       /\ \A part \in Parts : AssemblyIsPending(job.input, part)
  /\ job.kind = "selection" => SelectionIsTheIntersection(job.input.registry, job.input.asked)
=============================================================================
