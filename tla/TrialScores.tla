---------------------------- MODULE TrialScores ----------------------------
(***************************************************************************)
(* How much of a trial's records is right (evaluation.py): their leaves    *)
(* against the expected ones, all at once and input by input.              *)
(*                                                                         *)
(* A JSON value is a leaf with a text, or an object or an array with       *)
(* children: pairs of a name, "*" in an array, and a value; an object's    *)
(* are in the order of their names, so that two values are equal exactly   *)
(* when their canonical texts are.  Leaves are strings and null.           *)
(***************************************************************************)
EXTENDS TrialVerdicts, TLC

Leaf(text) == [kind |-> "leaf", text |-> text, children |-> <<>>]
Dict(children) == [kind |-> "object", text |-> "none", children |-> children]
List(items) ==
  [kind |-> "array", text |-> "none", children |-> [i \in DOMAIN items |-> <<"*", items[i]>>]]

RECURSIVE Leaves(_, _)
\* The leaves of a value, each with the path that leads to it.
Leaves(value, path) ==
  IF value.kind = "leaf" THEN <<<<path, value.text>>>>
  ELSE FlattenSeq([i \in DOMAIN value.children |->
         Leaves(value.children[i][2], Append(path, value.children[i][1]))])

RECURSIVE EmptyContainers(_)
EmptyContainers(value) ==
  IF value.kind # "leaf" /\ value.children = <<>> THEN 1
  ELSE FoldLeft(LAMBDA sum, child : sum + EmptyContainers(child[2]), 0, value.children)

Times(item, items) == Cardinality({i \in DOMAIN items : items[i] = item})
Overlap(actual, expected) ==
  MapThenSumSet(LAMBDA item : Min({Times(item, actual), Times(item, expected)}), ToSet(actual))

\* The scores of two lists of leaves, as bags.
LeafScores(actual, expected) ==
  PrecisionRecallF1(Overlap(actual, expected), Len(actual), Len(expected))

ScoreRecord(present, exact, actual, expected) ==
  LET leaves == IF present THEN Leaves(actual, <<>>) ELSE <<>>
  IN  [present |-> present, exact |-> exact,
       leaf |-> LeafScores(leaves, Leaves(expected, <<>>)),
       scalars |-> Len(leaves),
       empty |-> Cardinality({i \in DOMAIN leaves : leaves[i][2] = ""}),
       null |-> Cardinality({i \in DOMAIN leaves : leaves[i][2] = "null"}),
       emptyContainers |-> IF present THEN EmptyContainers(actual) ELSE 0]

ScoreRecordsByInput(actual, expected) ==
  [i \in DOMAIN expected |->
     ScoreRecord(PresentAt(actual, i), ExactAt(actual, expected, i),
                 IF PresentAt(actual, i) THEN actual[i] ELSE Leaf("null"), expected[i])]

\* The metrics of leaves, beside the others.
ScoreTtpTemplateOutput(result, acceptance, expected) ==
  LET inputs == ScoreRecordsByInput(result.records, expected)
  IN  TemplateVerdict(result, acceptance, expected)
      @@ [leaf |-> LeafScores(Leaves(List(result.records), <<>>),
                              Leaves(List(expected), <<>>)),
          leafMacro |-> [rate \in {"precision", "recall", "f1"} |->
                           Mean([i \in DOMAIN inputs |-> inputs[i].leaf[rate]])],
          inputs |-> inputs]

ScoreOf(trial) == ScoreTtpTemplateOutput(trial.result, AcceptanceOf(trial), trial.expected)

-----------------------------------------------------------------------------
RECURSIVE HasArray(_)
HasArray(value) ==
  value.kind = "array" \/ \E i \in DOMAIN value.children : HasArray(value.children[i][2])

\* Leaves and whole records tell the same of an input: leaves that all match leave only
\* the nesting of arrays and empty containers unsaid.  The leaves of all inputs pooled can
\* only score better than each input's alone, as they may match another input's.
RecordScoresAgree(trial, score) ==
  LET actual == trial.result.records
      alone(i) == Overlap(Leaves(actual[i], <<>>), Leaves(trial.expected[i], <<>>))
      compared == DOMAIN actual \intersect DOMAIN score.inputs
      full(i) == Equal(score.inputs[i].leaf.f1, <<1, 1>>)
      telling(value) == ~ HasArray(value) /\ EmptyContainers(value) = 0
  IN  /\ \A i \in compared :
           /\ score.inputs[i].exact => full(i) \/ Leaves(actual[i], <<>>) = <<>>
           /\ full(i) /\ telling(actual[i]) /\ telling(trial.expected[i]) =>
                score.inputs[i].exact
      /\ Overlap(Leaves(List(actual), <<>>), Leaves(List(trial.expected), <<>>)) >=
           MapThenSumSet(alone, compared)
=============================================================================
