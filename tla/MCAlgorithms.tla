---------------------------- MODULE MCAlgorithms ----------------------------
(***************************************************************************)
(* The deterministic parts of the generator and of its evaluation harness, *)
(* each on every input within small bounds: one action per algorithm picks *)
(* an input, and the properties are invariants of the state it leads to.   *)
(***************************************************************************)
EXTENDS JudgedInputs, SchemaPlan, SchemaComparison, TrialScores

vars == <<job>>

\* What the only step of a behaviour is to be about, chosen beforehand: TLC then holds the
\* inputs of one job at a time.
Jobs == {"fit", "schema", "ownership", "names", "presence", "tree",
         "slot", "size", "feedback", "tracer", "recovery", "activation", "rounds",
         "assembly", "outcome", "selection", "proposals", "overview", "score",
         "contract", "run", "percentile"}

Init == job \in [kind : {"none"}, about : Jobs]
IsAbout(about) == job.kind = "none" /\ job.about = about

Given(kind, input) == job' = [kind |-> kind, input |-> input]

\* One or two outputs of up to three lines, against several budgets.
FitJob ==
  \E outputs \in BoundedSeq(BoundedSeq({1, 4, 9}, 3) \ {<<>>}, 2) \ {<<>>} :
  \E total \in {5, 8, 14, 22}, maxTokens \in {3, 6} :
    Given("fit", [outputs |-> outputs, total |-> total, maxTokens |-> maxTokens])

\* Candidates of up to seven levels.  Every fault a node can have occurs at the root,
\* and the common ones below it.
LeafNodes ==
  {Scalar("string"), Scalar("integer"), Node("other"),
   [Scalar("string") EXCEPT !.keywords = {"forbidden"}],
   [Scalar("string") EXCEPT !.enum = "values"],
   [Scalar("string") EXCEPT !.enum = "null"],
   [Scalar("string") EXCEPT !.draft = "right"]}
Inner ==
  {Object(<<>>), Array(<<>>)}
  \union {Object(<<<<name, leaf>>>>) : name \in {"a", "ignore"}, leaf \in LeafNodes}
  \union {Array(<<leaf>>) :
             leaf \in LeafNodes \union {[Scalar("integer") EXCEPT !.enum = "infinite"]}}
Deep == {Array(<<node>>) : node \in Inner} \union {Object(<<<<"a", node>>>>) : node \in Inner}
Deepest == {Array(<<Array(<<Array(<<node>>)>>)>>) : node \in Deep}
Below == LeafNodes \union Inner \union Deep \union Deepest
Faulty(root) ==
  {root, [root EXCEPT !.closed = FALSE], [root EXCEPT !.declares = FALSE, !.properties = <<>>],
   [root EXCEPT !.required = <<"a", "a">>],
   [root EXCEPT !.keywords = {"forbidden", "foreign"}],
   [root EXCEPT !.draft = "right"], [root EXCEPT !.draft = "wrong"],
   [root EXCEPT !.enum = "values"], [root EXCEPT !.enum = "large"],
   [root EXCEPT !.enum = "infinite"], [root EXCEPT !.prose = MaxSchemaSize - 3]}

SchemaJob ==
  \/ \E root \in Below : Given("schema", root)
  \/ \E name \in Names, child \in Below :
       \E root \in Faulty(Object(<<<<name, child>>>>)) : Given("schema", root)
  \/ \E one, two \in Names, left \in LeafNodes \union Inner, right \in Below :
       one # two /\ Given("schema", Object(<<<<one, left>>, <<two, right>>>>))

\* Plans over short texts.  A node starts out as a field of the root.
Field(id, label, occurrences) ==
  [id |-> id, parent |-> "root", kind |-> "value", labels |-> label, qualifiers |-> <<>>,
   reason |-> "none", fallback |-> <<>>, role |-> "text", capture |-> "single",
   evidenceComplete |-> TRUE, instances |-> <<>>, occurrences |-> occurrences,
   empties |-> <<>>]
Container(kind, id, label, instances) ==
  [Field(id, label, <<>>) EXCEPT !.kind = kind, !.instances = instances]
Fragment(text, complete) == [text |-> text, complete |-> complete]
At(from, to) == Ref(<<0, 0>>, from, to)
Word(i) == At(i, i + 1)
Alone(text) == [key \in {<<0, 0>>} |-> Fragment(text, TRUE)]
GivenPlan(plan, fragments) == Given("plan", [plan |-> plan, fragments |-> fragments])

\* Who owns which stretch, over three levels, with as many references as are allowed,
\* one less, and one that makes the plan too large.
OwnershipJob ==
  \E one, two \in {At(f, t) : f \in 0 .. 2, t \in 1 .. 3}, kind \in {"object", "collection"},
     left, right, part \in {Word(i) : i \in 0 .. 2},
     p, q \in {"i1", "i2"}, o \in {"j1", "j2"}, words \in 1 .. 3 :
    GivenPlan(
      <<Container("collection", "n1", <<Word(0)>>,
          <<Instance("i1", "input_0", <<one>>, TRUE),
            Instance("i2", "input_0", <<two>>, TRUE)>>),
        [Container(kind, "n2", <<Word(1)>>,
           <<Instance("j1", p, <<left>>, TRUE), Instance("j2", q, <<right>>, TRUE)>>)
           EXCEPT !.parent = "n1"],
        [Field("n3", [i \in 1 .. words |-> Word(i - 1)], <<Occurrence(o, <<part>>, <<>>)>>)
           EXCEPT !.parent = "n2", !.role = "count"]>>,
      Alone(<<"a", "b", "1">>))

\* Two fields with every label, qualifier and fallback.
Labels == {<<>>} \union {<<Word(i)>> : i \in 0 .. 6 \union {8}}
Fallbacks ==
  {<<"none", <<>>>>}
  \union {<<reason, name>> : reason \in {"unlabeled", "invalid_name", "conflict",
                                        "split_component"}, name \in {<<"a">>, <<"x">>}}
NamesJob ==
  \E left, right \in Labels, l, r \in Fallbacks,
     qualifier \in {<<>>, <<Word(1)>>}, together \in BOOLEAN :
    GivenPlan(
      <<[Field("n1", left, <<Occurrence("input_0", <<Word(7)>>, <<>>)>>)
           EXCEPT !.reason = l[1], !.fallback = l[2], !.qualifiers = qualifier],
        [Field("n2", right, <<Occurrence("input_0",
                               <<Word(IF together THEN 7 ELSE 1)>>, <<>>)>>)
           EXCEPT !.reason = r[1], !.fallback = r[2]]>>,
      Alone(<<"a", "b", "1", "keyword", "ignore", "foreign", "blank", "c", "a">>))

\* What was shown of two inputs, or of one in two pieces, and where fields were seen.
PresenceJob ==
  \E second \in {<<0, 1>>, <<1, 0>>}, shown, told \in [1 .. 2 -> BOOLEAN],
     seen, below \in SUBSET {1, 2}, whole \in BOOLEAN, empty \in BOOLEAN :
    LET keys == <<<<0, 0>>, second>>
        owner(i) == InputNames[keys[i][1] + 1]
        piece(i) == Ref(keys[i], 0, 1)
        ids == <<"i1", "i2">>
        taken(S, F(_)) == [k \in DOMAIN SetToSeq(S) |-> F(SetToSeq(S)[k])]
    IN  GivenPlan(
          <<[Container("collection", "n1", <<Word(0)>>,
               taken(seen, LAMBDA i : Instance(ids[i], owner(i), <<piece(i)>>, whole)))
               EXCEPT !.evidenceComplete = told[1],
                      !.empties = IF empty THEN <<[parent |-> owner(2), marker |-> piece(2)]>>
                                  ELSE <<>>],
            [Field("n2", <<Word(0)>>,
               taken(below, LAMBDA i : Occurrence(ids[i], <<piece(i)>>, <<>>)))
               EXCEPT !.parent = "n1", !.evidenceComplete = told[2]]>>,
          [key \in {<<0, 0>>, second} |->
             Fragment(<<"a">>, IF key = second THEN shown[2] ELSE shown[1])])

\* Every way three nodes can hang together, or fail to.
TreeJob ==
  \E parents \in [1 .. 3 -> {"root", "n1", "n2", "n3"}],
     kinds \in [1 .. 3 -> {"object", "collection", "value"}] :
    LET ids == <<"n1", "n2", "n3">>
        inside(i) == CASE parents[i] = "n1" -> "i1" [] parents[i] = "n2" -> "i2"
                       [] parents[i] = "n3" -> "i3" [] OTHER -> "input_0"
        node(i) ==
          [Field(ids[i], <<Word(i - 1)>>, <<>>)
             EXCEPT !.parent = parents[i], !.kind = kinds[i],
               !.occurrences = IF kinds[i] = "value"
                 THEN <<Occurrence(inside(i), <<At(0, 3)>>, <<>>)>> ELSE <<>>,
               !.instances = IF kinds[i] # "value"
                 THEN <<Instance(<<"i1", "i2", "i3">>[i], inside(i), <<At(0, 3)>>, TRUE)>>
                 ELSE <<>>]
    IN  GivenPlan([i \in 1 .. 3 |-> node(i)], Alone(<<"a", "b", "c">>))

\* An empty value, and values in two segments, on every line.
SlotJob ==
  \E from, to, start, end \in 0 .. 4, capture \in {"single", "joined_values"},
     last \in {"blank", "return"} :
    \/ GivenPlan(<<[Field("n1", <<Word(0)>>,
                     <<Occurrence("input_0", <<At(from, from)>>, <<At(start, end)>>)>>)
                     EXCEPT !.capture = capture]>>,
                 Alone(<<"a", last, "newline", "b">>))
    \/ GivenPlan(<<[Field("n1", <<Word(0)>>,
                     <<Occurrence("input_0", <<At(from, to), At(start, end)>>, <<>>)>>)
                     EXCEPT !.capture = capture]>>,
                 Alone(<<"a", "b", "newline", "1">>))

\* As many fields as a plan may have, and one more, with labels of every length.
SizeJob ==
  \E n \in 0 .. MaxPlanNodes + 1, words \in 1 .. 4, whole \in BOOLEAN :
    GivenPlan([i \in 1 .. n |->
                 [Field(<<"n1", "n2", "n3", "n4">>[i], [k \in 1 .. words |-> Word(i + k - 2)],
                        <<Occurrence("input_0", <<Word(6)>>, <<>>)>>)
                    EXCEPT !.evidenceComplete = whole]],
              Alone(<<"a", "b", "c", "d", "a", "b", "c">>))

FeedbackJob ==
  \E lengths \in [1 .. 3 -> 0 .. 5] :
    Given("feedback", [o \in 1 .. 3 |-> [k \in 1 .. lengths[o] |-> <<o, k>>]])

\* A schema phase knows one kind of submission only.
TracerJob ==
  \E calls \in BoundedSeq(DirectCalls({1, 2}), 3) \union BoundedSeq(PlanCalls({1, 2}), 4)
                 \union BoundedSeq(DraftCalls({1, 2}), 4) :
    Given("calls", calls)

RecoveryJob == \E events \in BoundedSeq({"v1", "v2"}, 6) : Given("recoveries", events)

ActivationJob ==
  \E events \in BoundedSeq([kind : {"truncated", "forced", "view"}, calls : {1, 2},
                            wellFormed : BOOLEAN], 4) :
    Given("activations", events)

Told(name, sensitive, phase, versioned, value) ==
  [name |-> name, sensitive |-> sensitive, phase |-> phase,
   versioned |-> versioned, value |-> value]
RoundEvents ==
  {Told("facts", s, "schema", TRUE, v) : s \in BOOLEAN, v \in {1, 2}}
  \union {Told("forced", s, p, v, 1) : s \in BOOLEAN, p \in {"schema", "ttp"}, v \in BOOLEAN}
  \union {Told(n, s, "schema", TRUE, 1) : n \in {"attempt", "private"}, s \in BOOLEAN}

RoundsJob ==
  \E events \in BoundedSeq(RoundEvents, 3), recording \in BOOLEAN :
    Given("rounds", [events |-> events, recording |-> recording])

\* A data set at every stage of its assembly, and a complete one with every outcome
\* of its template.
DataSet(declared, present, inputs) ==
  [name |-> "n1", id |-> 1, tags |-> {}, declared |-> declared, present |-> present,
   inputs |-> inputs, default |-> 1, legible |-> TRUE, supported |-> TRUE,
   parsed |-> <<"r1", "r2">>, expected |-> <<"r1", "r2">>]

AssemblyJob ==
  \E declared, present \in SUBSET Parts, default \in 0 .. 3, legible \in BOOLEAN,
     inputs \in [1 .. 2 -> {"legible", "absent", "illegible"}] :
    Given("dataset", [DataSet(declared, present, inputs)
                          EXCEPT !.default = default, !.legible = legible])

OutcomeJob ==
  \E parts \in {{"template"}, Parts, {"schema", "expected"}}, default \in 0 .. 2,
     supported \in BOOLEAN, parsed \in [1 .. 2 -> {"r1", "r2", Issues}],
     expected \in BoundedSeq({"r1", "r2", Malformed}, 3) :
    Given("dataset", [DataSet(parts, parts, <<"legible", "legible">>)
                          EXCEPT !.default = default, !.supported = supported,
                                 !.parsed = parsed, !.expected = expected])

SelectionJob ==
  \E tags \in [1 .. 3 -> SUBSET {"t1", "t2"}], names \in SUBSET {"n1", "n2", "n4"},
     ids \in SUBSET {1, 3, 4}, asked \in SUBSET {"t1", "t2"} \cup {{InvalidTag}},
     repeats \in BOOLEAN :
    LET d == DataSet(Parts, Parts, <<"legible", "legible">>)
    IN  Given("selection",
          [registry |-> <<[d EXCEPT !.tags = tags[1]],
                          [d EXCEPT !.tags = tags[2], !.name = "n2", !.id = 2],
                          [d EXCEPT !.tags = tags[3], !.name = "n3", !.id = 3]>>,
           asked |-> [names |-> names, ids |-> ids, tags |-> asked, repeats |-> repeats]])

\* Proposals of one case: leaves that differ in type, constraint or title, containers that
\* hold them, and fields that are required or not.
Titled(node) == [title |-> "t"] @@ node
ComparedLeaves == {Scalar("string"), Scalar("integer"), Titled(Scalar("string")),
                   [Scalar("string") EXCEPT !.enum = "values"]}
Compared ==
  LET leaves == ComparedLeaves
      fields == leaves \union {Object(<<<<"b", leaf>>>>) : leaf \in leaves}
                \union {Array(<<leaf>>) : leaf \in leaves}
  IN  {[Object(<<<<"a", field>>>>) EXCEPT !.required = required] :
         field \in fields, required \in {<<>>, <<"a">>}}
      \union {Object(<<<<"a", Scalar("string")>>, <<"b", field>>>>) : field \in fields}
      \union {Object(<<>>), [Object(<<<<"a", Scalar("string")>>>>) EXCEPT !.closed = FALSE]}

ProposalsJob ==
  LET few == {[Object(<<<<"a", leaf>>>>) EXCEPT !.required = required] :
                leaf \in ComparedLeaves, required \in {<<>>, <<"a">>}}
  IN  \E proposals \in BoundedSeq(Compared, 2) \union BoundedSeq(few, 3) :
        Given("proposals", proposals)

\* Cases with up to four proposals of a few forms.
OverviewJob ==
  LET forms == {Object(<<<<"a", Scalar("string")>>>>), Object(<<<<"a", Scalar("integer")>>>>),
                Object(<<<<"b", Scalar("string")>>>>)}
  IN  \E left, right \in BoundedSeq(forms, 4) : Given("cases", <<left, right>>)

\* Trials of one or two inputs, with every outcome of the generator and of the checks that
\* are run again.
Records ==
  {Dict(<<>>)} \union {Dict(<<<<"a", leaf>>>>) : leaf \in {Leaf("v"), Leaf("null")}}
  \union {Dict(<<<<"a", Leaf("v")>>, <<"b", leaf>>>>) : leaf \in {Leaf("v"), Leaf("")}}
  \union {Dict(<<<<"a", List(items)>>>>) :
                 items \in {<<>>, <<Leaf("v"), Leaf("")>>, <<Leaf(""), Leaf("v")>>}}
Code(first, dotted) == [first |-> first, dotted |-> dotted]
Codes == {Code(first, TRUE) : first \in {"schema", "ttp", "model", "worker"}}
         \union {Code("schema", FALSE), Code("record_count", FALSE), Code("timeout", FALSE)}
Again(schemaIssues, valid, records, issues) ==
  [schemaIssues |-> schemaIssues, valid |-> valid, records |-> records, issues |-> issues]
Trial(result, again, expected) ==
  [result |-> result, again |-> again, expected |-> expected, frozen |-> Unobserved]
Returned(status, records, codes) == [status |-> status, records |-> records, codes |-> codes]

ScoreJob ==
  \E n \in {1, 2} :
  \E expected \in [1 .. n -> Records] :
    \/ Given("trial", Trial(Raised, Again(<<>>, FALSE, <<>>, <<>>), expected))
    \/ \E codes \in BoundedSeq(Codes, 2) \ {<<>>} :
         /\ expected \in [1 .. n -> {Dict(<<>>)}]
         /\ Given("trial", Trial(Returned("failed", <<>>, codes),
                                 Again(<<>>, FALSE, <<>>, <<>>), expected))
    \/ \E records \in [1 .. n -> Records],
          again \in {"same", "first", "other", "invalid", "schema"} :
         LET code == <<Code("ttp", TRUE)>>
             result == Returned("success", records, IF n = 1 THEN code ELSE <<>>)
             other == [i \in 1 .. n |-> Dict(<<<<"a", Leaf("v")>>>>)]
         IN  Given("trial", Trial(result,
               CASE again = "same" -> Again(<<>>, TRUE, records, <<>>)
                 [] again = "first" -> Again(<<>>, TRUE, <<records[1]>>, <<>>)
                 [] again = "other" -> Again(<<>>, TRUE, other, <<>>)
                 [] again = "invalid" -> Again(<<>>, FALSE, records, code \o code)
                 [] again = "schema" -> Again(<<Code("schema", TRUE)>>, FALSE, <<>>, <<>>),
               expected))

\* A trial whose schema is compared as well; a failed one has no schema.
ContractJob ==
  \E left, right \in Compared, outcome \in {"right", "wrong", "failed"} :
    LET expected == <<Dict(<<<<"a", Leaf("v")>>>>)>>
        records == IF outcome = "right" THEN expected ELSE <<Dict(<<>>)>>
    IN  Given("contract",
          IF outcome = "failed"
          THEN [trial |-> Trial(Returned("failed", <<>>, <<Code("worker", TRUE)>>),
                                Again(<<>>, FALSE, <<>>, <<>>), expected),
                actual |-> {}, expected |-> SchemaSignature(right)]
          ELSE [trial |-> Trial(Returned("success", records, <<>>),
                                Again(<<>>, TRUE, records, <<>>), expected),
                actual |-> SchemaSignature(left), expected |-> SchemaSignature(right)])

\* Runs of up to three trials, of cases with one input and with two.
RunJob ==
  LET right == Dict(<<<<"a", Leaf("v")>>>>)
      wrong == Dict(<<<<"a", Leaf("")>>>>)
      expected(n) == [i \in 1 .. n |-> right]
      nothing == Again(<<>>, FALSE, <<>>, <<>>)
      outcomes(n) ==
        {Trial(Raised, nothing, expected(n)),
         Trial(Returned("failed", <<>>, <<Code("ttp", TRUE)>>), nothing, expected(n))}
        \union {Trial(Returned("success", records, <<>>), Again(<<>>, valid, records, <<>>),
                      expected(n)) :
                  records \in [1 .. n -> {right, wrong}], valid \in BOOLEAN}
  IN  \E trials \in BoundedSeq(outcomes(1) \union outcomes(2), 3), frozen \in {0, 1} :
        Given("run", [i \in DOMAIN trials |->
                        [trials[i] EXCEPT !.frozen = IF i = 2 THEN frozen ELSE @]])

PercentileJob ==
  \E n \in 1 .. 25, shape \in {"distinct", "equal", "falling", "two"} :
    Given("percentile", [i \in 1 .. n |-> CASE shape = "distinct" -> i [] shape = "equal" -> 1
                                            [] shape = "falling" -> n - i
                                            [] shape = "two" -> i \div 20])

Next ==
  \/ IsAbout("fit") /\ FitJob
  \/ IsAbout("schema") /\ SchemaJob
  \/ IsAbout("ownership") /\ OwnershipJob
  \/ IsAbout("names") /\ NamesJob
  \/ IsAbout("presence") /\ PresenceJob
  \/ IsAbout("tree") /\ TreeJob
  \/ IsAbout("slot") /\ SlotJob
  \/ IsAbout("size") /\ SizeJob
  \/ IsAbout("feedback") /\ FeedbackJob
  \/ IsAbout("tracer") /\ TracerJob
  \/ IsAbout("recovery") /\ RecoveryJob
  \/ IsAbout("activation") /\ ActivationJob
  \/ IsAbout("rounds") /\ RoundsJob
  \/ IsAbout("assembly") /\ AssemblyJob
  \/ IsAbout("outcome") /\ OutcomeJob
  \/ IsAbout("selection") /\ SelectionJob
  \/ IsAbout("proposals") /\ ProposalsJob
  \/ IsAbout("overview") /\ OverviewJob
  \/ IsAbout("score") /\ ScoreJob
  \/ IsAbout("contract") /\ ContractJob
  \/ IsAbout("run") /\ RunJob
  \/ IsAbout("percentile") /\ PercentileJob

Spec == Init /\ [][Next]_vars

-----------------------------------------------------------------------------
\* The properties of the modules, each of the inputs it speaks of.

CasesAreCompared(cases) ==
  OverviewWeighsPairs(cases, SchemaConsistencyOverview(cases),
                      SchemaConsistencyOverview([c \in Eligible(cases) |-> cases[c]]))

\* A candidate is accepted just where it belongs to the supported subset, and no record
\* takes the whole of the mismatch feedback.  What a comparison of proposals counts accounts
\* for what it concludes, of a pair, of a case and over cases.  Records that are scored
\* leaf by leaf, each alone and all at once, are scored alike.
TreesAreJudged ==
  /\ job.kind = "schema" => /\ WalkDecidesTheSubset(job.input)
                            /\ ContractsAreInverse(job.input)
  /\ job.kind = "proposals" =>
       /\ ConsistencyAddsUp(job.input, SchemaContractConsistency(job.input),
            SchemaRepeatConsistency(job.input), Variants(job.input, ContractForm))
       /\ Len(job.input) = 2 =>
            DifferencesExplainInequality(PairMetrics(job.input[1], job.input[2]),
                                         PairMetrics(job.input[2], job.input[1]))
  /\ job.kind = "cases" =>
       CasesAreCompared([c \in DOMAIN job.input |-> SchemaContractConsistency(job.input[c])])
  /\ job.kind = "feedback" => FeedbackIsShared(job.input)
  /\ job.kind = "trial" => RecordScoresAgree(job.input, ScoreOf(job.input))

\* A plan whose evidence has one owner on every level becomes a schema that passes the
\* schema check unless it is too large or has no scalar, with the fields required that
\* were seen in every record, and with names the source gives wherever it can.
PlansAreCompiled ==
  job.kind = "plan" =>
    LET plan == job.input.plan
        fragments == job.input.fragments
    IN  /\ EvidenceHasOneOwner(plan, fragments)
        /\ RequiredIsObserved(plan, fragments)
        /\ CompiledPlansAreSupported(plan, fragments)
        /\ NamesAreEvidenced(plan, fragments)
=============================================================================
