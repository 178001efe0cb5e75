--------------------------- MODULE TrialVerdicts ---------------------------
(***************************************************************************)
(* What is decided of a trial (evaluation.py, scripts/run_test_sets.py):   *)
(* the acceptance repeated outside the agent, whether records and contract *)
(* are those expected, the blame for a failure, and the numbers a run      *)
(* makes of its trials.  A record is a value that is compared whole;       *)
(* TrialScores looks inside.                                               *)
(***************************************************************************)
EXTENDS Tallies, Functions

-----------------------------------------------------------------------------
\* A result is what the generator returned: "success" with records, or "failed" with the
\* codes of its issues; what the checks find of its artifact when they are run again is
\* "again".  A code is its first part and whether there is another.

Rejected(codes) == [valid |-> FALSE, codes |-> codes]

(* Mutation used by the runs: the records of the second parse are not       *)
(* compared with those that are scored.                                    *)
IndependentAcceptance_AnyRecords(result, inputs, again) ==
  IF result.status # "success" THEN Rejected(<<>>)
  ELSE IF again.schemaIssues # <<>> THEN Rejected(again.schemaIssues)
  ELSE [valid |-> again.valid /\ Len(again.records) = inputs, codes |-> again.issues]

IndependentAcceptance(result, inputs, again) ==
  IF result.status # "success" THEN Rejected(<<>>)
  ELSE IF again.schemaIssues # <<>> THEN Rejected(again.schemaIssues)
  ELSE [valid |-> /\ again.valid
                  /\ Len(again.records) = inputs
                  /\ again.records = result.records,
        codes |-> again.issues]

One(holds) == IF holds THEN 1 ELSE 0

\* A trial that raised has no result, and scores nothing for each of its inputs.
Raised == [status |-> "raised", records |-> <<>>, codes |-> <<>>]

\* An input without a record of its own is no match of anything.
PresentAt(actual, i) == i <= Len(actual)
ExactAt(actual, expected, i) == PresentAt(actual, i) /\ actual[i] = expected[i]

\* The metrics of a trial, but for those of leaves.
TemplateVerdict(result, acceptance, expected) ==
  LET exact == result.records = expected
      returned == result.status # "raised"
      exactInputs == Cardinality({i \in DOMAIN expected : ExactAt(result.records, expected, i)})
  IN  [candidatePass |-> One(result.status = "success" /\ acceptance.valid /\ exact),
       generationSuccess |-> One(result.status = "success"),
       independentAcceptance |-> One(returned /\ acceptance.valid),
       recordCountMatch |-> One(returned /\ Len(result.records) = Len(expected)),
       recordsExactMatch |-> One(returned /\ exact),
       inputCount |-> Len(expected),
       inputPresentCount |-> Cardinality({i \in DOMAIN expected : PresentAt(result.records, i)}),
       inputExactCount |-> exactInputs,
       inputExactRate |-> Fraction(exactInputs, Len(expected))]

\* Of two counters, by the size of what they share.
PrecisionRecallF1(overlap, actual, expected) ==
  [precision |-> Fraction(overlap, actual), recall |-> Fraction(overlap, expected),
   f1 |-> Fraction(2 * overlap, actual + expected)]

\* A contract is a set of nodes with a path, a type and a required mark, one of each path;
\* that of no schema is empty.  It is scored whole, and by each mark alone; as paths are
\* not repeated, neither is anything that is counted with them.
Marks == {"whole", "path", "type", "required"}
MarkOf(n, mark) ==
  IF mark = "whole" THEN <<n>> ELSE IF mark = "path" THEN <<n.path>> ELSE <<n.path, n[mark]>>
MarksOf(nodes, mark) == {MarkOf(n, mark) : n \in nodes}

ScoreContract(actual, expected) ==
  [match |-> actual = expected,
   by |-> [mark \in Marks |->
             LET one == MarksOf(actual, mark)
                 two == MarksOf(expected, mark)
             IN  PrecisionRecallF1(Cardinality(one \intersect two),
                                   Cardinality(one), Cardinality(two))]]

\* With a contract, a candidate has to meet that as well.  A result is free of public
\* issues, that is of errors, just where it is a success
\* (GenerationResult.status_matches_payload).
ScoreExecutorOutput(result, acceptance, expected, actualContract, expectedContract) ==
  LET template == TemplateVerdict(result, acceptance, expected)
      contract == ScoreContract(actualContract, expectedContract)
  IN  [verdict |-> [template EXCEPT !.candidatePass =
                      One(/\ template.candidatePass = 1
                          /\ template.recordCountMatch = 1
                          /\ contract.match)],
       contract |-> contract]

-----------------------------------------------------------------------------
\* The domain of a code, by its first part.
Domains == {"agent", "acceptance", "budget", "generation", "model", "records", "runner",
            "schema", "telemetry", "ttp", "worker"}
IssueDomain(code) ==
  IF code.first \in Domains THEN code.first
  ELSE IF code.first \in {"record", "record_count"} THEN "records"
  ELSE IF code.first \in {"timeout", "cancel", "cleanup"} THEN "budget" ELSE "unknown"

IssueTaxonomy(codes) ==
  [total |-> Len(codes), unique |-> Cardinality(ToSet(codes)),
   domains |-> [d \in {IssueDomain(codes[i]) : i \in DOMAIN codes} |->
                  Cardinality({i \in DOMAIN codes : IssueDomain(codes[i]) = d})]]

\* The codes of the result, then those of the acceptance that are new.
IssueCodes(result, acceptance) ==
  FoldLeft(LAMBDA codes, c : IF c \in ToSet(codes) THEN codes ELSE Append(codes, c),
           result.codes, acceptance.codes)

BlamedOn(domain, codes) == \E c \in ToSet(codes) : c.first = domain /\ c.dotted

FailureCategory(result, codes, score) ==
  CASE result.status = "raised" -> "runner"
    [] result.status # "raised" /\ score.candidatePass = 1 -> "none"
    [] result.status = "failed" ->
         IF BlamedOn("schema", codes) THEN "schema"
         ELSE IF BlamedOn("ttp", codes) THEN "ttp"
         ELSE IF BlamedOn("model", codes) THEN "model" ELSE "generation"
    [] OTHER ->
         IF score.independentAcceptance # 1 THEN "acceptance"
         ELSE IF score.recordsExactMatch # 1 THEN "records" ELSE "schema_contract"

SafeTrialFacts(result, acceptance, score) ==
  LET codes == IF result.status = "raised" THEN <<>> ELSE IssueCodes(result, acceptance)
  IN  [category |-> FailureCategory(result, codes, score), codes |-> codes,
       taxonomy |-> IssueTaxonomy(codes)]

-----------------------------------------------------------------------------
\* The k-th of the values in their order (sorted(values)[k - 1]).
AtRank(values, k) ==
  CHOOSE v \in Range(values) :
    /\ Cardinality({i \in DOMAIN values : values[i] < v}) < k
    /\ k <= Cardinality({i \in DOMAIN values : values[i] <= v})

\* The nearest rank below which p per cent of the values lie.
NumericPercentile(values, p) ==
  LET n == Cardinality(DOMAIN values)
      rank == (p * n + 99) \div 100
  IN  AtRank(values, Max({1, Min({n, rank})}))

\* Of one metric over the trials that have it.
Unobserved == -1
AggregateTrialScores(values) ==
  LET seen == {i \in DOMAIN values : values[i] # Unobserved}
  IN  [count |-> Cardinality(seen), sum |-> SumOver(values, seen),
       successes |-> Cardinality({i \in seen : values[i] = 1}),
       percentiles |-> [p \in IF seen = {} THEN {} ELSE {50, 95, 99} |->
                          NumericPercentile([i \in seen |-> values[i]], p)]]

\* Exact matches pooled over the inputs of all trials.
InputExactMatchMicro(scores) ==
  LET pooled(metric) ==
        SumOver([i \in DOMAIN scores |-> scores[i][metric]], DOMAIN scores)
  IN  [successes |-> pooled("inputExactCount"), observations |-> pooled("inputCount")]

-----------------------------------------------------------------------------
\* A trial: what the generator returned, what the checks find when they are run again,
\* and the expected records, one of each input.
AcceptanceOf(trial) == IndependentAcceptance(trial.result, Len(trial.expected), trial.again)
VerdictOf(trial) == TemplateVerdict(trial.result, AcceptanceOf(trial), trial.expected)
FactsOf(trial, score) == SafeTrialFacts(trial.result, AcceptanceOf(trial), score)

\* A trial passes only if the generator succeeded and its template, run again apart from
\* the agent, gives every input the record that is expected of it.  A trial that does not
\* pass is blamed on one stage, the first that went wrong, and never on a schema contract,
\* which this mode does not compare.
PassIsEarned(trial, score, category) ==
  LET result == trial.result
      again == trial.again
      reproduced == /\ again.schemaIssues = <<>>
                    /\ again.valid
                    /\ again.records = result.records
  IN  /\ score.candidatePass = 1 <=>
           /\ result.status = "success"
           /\ reproduced
           /\ again.records = trial.expected
      /\ category = "none" <=> score.candidatePass = 1
      /\ category = "acceptance" <=> result.status = "success" /\ ~ reproduced
      /\ category = "records" <=>
           result.status = "success" /\ reproduced /\ result.records # trial.expected
      /\ category # "schema_contract"

\* The codes that are reported explain the blame: what a failure is blamed on is a domain
\* of the taxonomy, and no issue is counted once more for the acceptance that repeats it.
BlameIsCounted(trial, facts) ==
  /\ facts.category \in {"schema", "ttp", "model"} =>
       facts.category \in DOMAIN facts.taxonomy.domains
  /\ IsInjective(trial.result.codes) => facts.taxonomy.total = facts.taxonomy.unique

\* All records at once and input by input, the comparison has one outcome.
InputsAddUp(score) ==
  score.recordsExactMatch = 1 <=>
    score.recordCountMatch = 1 /\ score.inputExactCount = score.inputCount

\* With a contract to meet as well, a candidate passes exactly when it would without one
\* and the contract is met, and only what is left then is blamed on the contract.  The
\* contract is met exactly when the score of its whole nodes is full, and when those of
\* types and of required marks both are; no whole node matches that a mark does not.
\* "passes" is the verdict without the contract.
ContractIsScored(passes, score, category) ==
  LET full(part) == Equal(part.f1, <<1, 1>>)
      atMost(r, q) == r[1] * q[2] <= q[1] * r[2]
      contract == score.contract
  IN  /\ score.verdict.candidatePass = 1 <=> passes /\ contract.match
      /\ category = "schema_contract" <=> passes /\ ~ contract.match
      /\ contract.match <=> full(contract.by["whole"])
      /\ contract.match <=> full(contract.by["type"]) /\ full(contract.by["required"])
      /\ \A mark \in Marks : atMost(contract.by["whole"].recall, contract.by[mark].recall)

\* No trial is left out of a run's numbers: each counts once, one that raised counts as a
\* failure with all its inputs missed, and what was not observed of a trial ("absent facts
\* remain unknown") counts neither way.  Pooled inputs and averaged trials differ only
\* where trials have different numbers of inputs.
EveryTrialCounts(trials, scores, passes, frozen, micro) ==
  LET inputsOf(S) == SumOver([i \in DOMAIN trials |-> Len(trials[i].expected)], S)
      passed == {i \in DOMAIN trials : FactsOf(trials[i], scores[i]).category = "none"}
  IN  /\ passes.count = Len(trials)
      /\ passes.sum = passes.successes
      /\ passes.successes = Cardinality(passed)
      /\ frozen.count = Cardinality({i \in DOMAIN trials : trials[i].frozen # Unobserved})
      /\ micro.observations = inputsOf(DOMAIN trials)
      /\ micro.successes >= inputsOf(passed)
      /\ micro.successes <=
           inputsOf({i \in DOMAIN trials : trials[i].result.status = "success"})
      /\ (\A i, j \in DOMAIN trials : scores[i].inputCount = scores[j].inputCount) =>
           Equal(Fraction(micro.successes, micro.observations),
                 Mean([i \in DOMAIN trials |-> scores[i].inputExactRate]))

\* The same of the numbers aggregate_trial_scores and _input_exact_match_micro make.
RunIsCounted(trials, scores) ==
  EveryTrialCounts(trials, scores,
    AggregateTrialScores([i \in DOMAIN trials |-> scores[i].candidatePass]),
    AggregateTrialScores([i \in DOMAIN trials |-> trials[i].frozen]),
    InputExactMatchMicro(scores))

\* A percentile is one of the values, at least that share of which are no larger, and it
\* is the smallest such value (_numeric_percentile counts ranks from zero).
PercentileIsNearestRank(values) ==
  \A p \in {50, 95, 99} :
    LET upTo(v) == Cardinality({i \in DOMAIN values : values[i] <= v})
        enough == {v \in Range(values) : 100 * upTo(v) >= p * Len(values)}
    IN  NumericPercentile(values, p) = Min(enough)
=============================================================================
