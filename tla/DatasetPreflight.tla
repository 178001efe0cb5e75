-------------------------- MODULE DatasetPreflight --------------------------
(***************************************************************************)
(* The test-set registry of the evaluation harness (evaluation.py): how it *)
(* is loaded, how the deterministic preflight judges each data set in one  *)
(* of two input scopes, and how a selection is taken from it.              *)
(*                                                                         *)
(* A data set is a record.  "declared" and "present" are the parts named   *)
(* in the registry and those on disk; "inputs" says of each input file     *)
(* whether it is there and legible; "parsed" is what the template makes of *)
(* each input, "Issues" where it makes nothing; "expected" is the list of  *)
(* records of expected.json, "Malformed" where one is no object or breaks  *)
(* the schema.  "default" is the index of default_input, 0 for none.       *)
(***************************************************************************)
EXTENDS Integers, Sequences, SequencesExt

CONSTANTS
  Issues,     \* an input the template does not parse
  Malformed   \* an expected record that is no object, or breaks the schema

ASSUME PreflightAssumption == Issues # Malformed

Parts == {"template", "schema", "expected"}
Scopes == {"default", "full"}

\* A file that is there is read at once, whatever stage the data set is at.
Illegible(d) ==
  \/ \E i \in DOMAIN d.inputs : d.inputs[i] = "illegible"
  \/ "template" \in d.declared \intersect d.present /\ ~ d.legible

\* Registry drift is an error of the whole registry.
EntryRejected(d, directories) ==
  \/ d.name \notin directories
  \/ d.inputs = <<>>
  \/ d.default \notin 0 .. Len(d.inputs)
  \/ ("schema" \in d.declared) # ("expected" \in d.declared)
  \/ ("schema" \in d.present) # ("expected" \in d.present)
  \/ Illegible(d)

LoadRejected(registry, directories) ==
  \/ registry = <<>>
  \/ ~ IsInjective([i \in DOMAIN registry |-> registry[i].id])
  \/ ~ IsInjective([i \in DOMAIN registry |-> registry[i].name])
  \/ \E i \in DOMAIN registry : EntryRejected(registry[i], directories)
  \/ directories # {registry[i].name : i \in DOMAIN registry}

\* What the loaded entry says of the files on disk.
Stage(d) ==
  IF "schema" \in d.present THEN "complete"
  ELSE IF "template" \in d.present THEN "template" ELSE "inputs-only"

RegistryErrors(d) == d.present \ d.declared

MissingFiles(d) ==
  {<<"inputs", i>> : i \in {i \in DOMAIN d.inputs : d.inputs[i] = "absent"}}
  \union {<<part, 0>> : part \in d.declared \ d.present}

\* The indices of the inputs a scope takes, in order.
ScopedIndices(d, scope) ==
  IF scope = "full" THEN [i \in DOMAIN d.inputs |-> i]
  ELSE IF d.default = 0 THEN <<>> ELSE <<d.default>>

(* Mutation used by the runs: the first records are taken, as many as inputs. *)
SelectedExpected_Prefix(d, scope) == SubSeq(d.expected, 1, Len(ScopedIndices(d, scope)))

\* The expected records of the selected inputs.
SelectedExpected(d, scope) ==
  [i \in DOMAIN ScopedIndices(d, scope) |-> d.expected[ScopedIndices(d, scope)[i]]]

\* Only the full scope asks for as many records as inputs; records that are not
\* selected are not looked at.
CompleteCaseRejected(d, scope) ==
  \/ "template" \notin d.declared
  \/ ~ d.supported
  \/ scope = "full" /\ Len(d.expected) # Len(d.inputs)
  \/ \E i \in ToSet(ScopedIndices(d, scope)) : i > Len(d.expected)
  \/ \E i \in DOMAIN SelectedExpected(d, scope) : SelectedExpected(d, scope)[i] = Malformed

\* The standard template, run on the selected inputs.
Baseline(d, scope) ==
  [i \in DOMAIN ScopedIndices(d, scope) |-> d.parsed[ScopedIndices(d, scope)[i]]]

Report(status, checked) == [status |-> status, checked |-> checked]

\* At the template stage the inputs are tried in order, up to the first that fails.
SmokeReport(d, scope) ==
  LET parsed == Baseline(d, scope)
      fails == {i \in DOMAIN parsed : parsed[i] = Issues}
  IN  IF fails = {} THEN Report("passed", Len(parsed))
      ELSE Report("failed", CHOOSE i \in fails : \A j \in fails : i <= j)

CompleteReport(d, scope) ==
  IF CompleteCaseRejected(d, scope) THEN Report("failed", 0)
  ELSE IF SelectedExpected(d, scope) # Baseline(d, scope) THEN Report("failed", 0)
  ELSE Report("passed", Len(ScopedIndices(d, scope)))

Preflight(d, scope) ==
  IF RegistryErrors(d) # {} THEN Report("failed", 0)
  ELSE IF MissingFiles(d) # {} THEN Report("pending", 0)
  ELSE IF scope = "default" /\ d.default = 0 THEN Report("pending", 0)
  ELSE IF Stage(d) = "inputs-only" THEN Report("pending", 0)
  ELSE IF "template" \notin d.declared THEN Report("failed", 0)
  ELSE IF Stage(d) = "template" THEN SmokeReport(d, scope)
  ELSE CompleteReport(d, scope)

\* A tag that is none by its form (_TAG_RE), asked for by a caller.
InvalidTag == "no tag"

\* Names and ids are alternatives, tags are all required.
Chosen(d, asked) ==
  /\ asked.names = {} \/ d.name \in asked.names
  /\ asked.ids = {} \/ d.id \in asked.ids
  /\ asked.tags \subseteq d.tags

\* In the registry's order.
ChosenOf(registry, asked) ==
  FoldLeft(LAMBDA chosen, d : IF Chosen(d, asked) THEN Append(chosen, d) ELSE chosen,
           <<>>, registry)

\* A filter given twice, unknown names and ids, a tag that cannot be one, and an empty
\* selection are refused.
Select(registry, asked) ==
  LET known == /\ asked.names \subseteq {registry[i].name : i \in DOMAIN registry}
               /\ asked.ids \subseteq {registry[i].id : i \in DOMAIN registry}
      valid == ~ asked.repeats /\ InvalidTag \notin asked.tags
      chosen == ChosenOf(registry, asked)
  IN  IF known /\ valid /\ chosen # <<>> THEN [refused |-> FALSE, datasets |-> chosen]
      ELSE [refused |-> TRUE, datasets |-> <<>>]

-----------------------------------------------------------------------------
\* The default scope is the cheaper check of the same data set: what the full scope
\* passes it passes too, unless there is no default input to take
\* (preflight_dataset_registry).
FullImpliesDefault(d) ==
  ~ LoadRejected(<<d>>, {d.name}) /\ Preflight(d, "full").status = "passed" =>
    IF d.default = 0 THEN Preflight(d, "default").status = "pending"
    ELSE Preflight(d, "default") = Report("passed", 1)

\* A complete data set passes only where the template reproduces, of at least one
\* input, the record that is expected of that same input, and in the full scope of
\* every one.
PassedIsExact(d) ==
  ~ LoadRejected(<<d>>, {d.name}) /\ Stage(d) = "complete" =>
    \A scope \in {s \in Scopes : Preflight(d, s).status = "passed"} :
      LET taken == IF scope = "full" THEN DOMAIN d.inputs ELSE {d.default}
      IN  \A i \in taken : d.parsed[i] # Issues /\ d.parsed[i] = d.expected[i]

\* "Missing files are represented as pending state so list remains useful while a
\* case is being assembled": a data set that lacks a declared file is pending, and
\* neither judged nor failed, as long as the registry loads at all.
AssemblyIsPending(d, part) ==
  LET without == [d EXCEPT !.present = @ \ {part}]
  IN  part \in d.declared /\ RegistryErrors(d) = {} /\ ~ LoadRejected(<<without>>, {d.name})
        => \A scope \in Scopes : Preflight(without, scope).status = "pending"

\* Filters intersect: each data set of a selection answers every filter that was
\* given, none that does is left out, and the registry's order is kept.
SelectionIsTheIntersection(registry, asked) ==
  LET names == IF asked.names = {} THEN {registry[i].name : i \in DOMAIN registry}
               ELSE asked.names
      ids == IF asked.ids = {} THEN {registry[i].id : i \in DOMAIN registry}
             ELSE asked.ids
      selected == Select(registry, asked)
      places == [k \in DOMAIN selected.datasets |->
                   CHOOSE i \in DOMAIN registry : registry[i] = selected.datasets[k]]
  IN  ~ selected.refused =>
        /\ ToSet(places) = {i \in DOMAIN registry :
                              /\ registry[i].name \in names
                              /\ registry[i].id \in ids
                              /\ \A tag \in asked.tags : tag \in registry[i].tags}
        /\ \A k, l \in DOMAIN places : k < l => places[k] < places[l]
=============================================================================
