---------------------------- MODULE SchemaCheck ----------------------------
(***************************************************************************)
(* The check of a result schema (ttp_generation/validation/json_schema.py):*)
(* the walk over a candidate that lists what is wrong with it, and the     *)
(* order in which the mismatches of several parsed records are reported.   *)
(*                                                                         *)
(* A node of a candidate is a record.  "properties" and "items" are        *)
(* sequences: of <<name, child>> pairs, and of at most one child.  Names   *)
(* and the values of keywords are told apart only as far as the walk tells *)
(* them apart; of titles and descriptions there is their length.           *)
(***************************************************************************)
EXTENDS Integers, FiniteSets, Sequences, SequencesExt, FiniteSetsExt

CONSTANTS
  MaxSchemaSize, \* max_schema_bytes
  MaxDepth,      \* max_schema_depth
  MaxProperties, \* max_schema_properties
  MaxIssues      \* MAX_VALIDATION_ISSUES

ASSUME SchemaCheckAssumption ==
  {MaxSchemaSize, MaxDepth, MaxProperties, MaxIssues} \subseteq Nat \ {0}

ScalarTypes == {"string", "integer"}
Types == ScalarTypes \union {"object", "array"}

\* Legal names; a keyword of the template's host language; the name TTP keeps
\* for itself; not snake case.
Names == {"a", "b", "keyword", "ignore", "Illegal"}

\* "other" stands for a node that is no JSON object, or declares no single type
\* of the subset.
Node(type) ==
  [type |-> type, keywords |-> {}, draft |-> "absent", enum |-> "absent",
   declares |-> type = "object", closed |-> type = "object",
   required |-> <<>>, properties |-> <<>>, items |-> <<>>, prose |-> 0]
Scalar(type) == Node(type)
Object(properties) == [Node("object") EXCEPT !.properties = properties]
Array(items) == [Node("array") EXCEPT !.items = items]

Append1(state, wrong, code) ==
  IF wrong THEN [state EXCEPT !.issues = Append(@, code)] ELSE state

\* What is wrong with the keywords a node uses, wherever it stands.
KeywordIssues(node, isRoot, state) ==
  LET s1 == Append1(state, "forbidden" \in node.keywords, "forbidden_keyword")
      s2 == Append1(s1, "foreign" \in node.keywords
                        \/ (node.draft # "absent" /\ ~ isRoot), "unsupported_keyword")
      s3 == Append1(s2, node.draft = "wrong", "wrong_draft")
  IN  Append1(s3, \/ node.enum \in {"empty", "mistyped", "large"}
                  \/ node.enum = "values" /\ node.type \notin ScalarTypes,
              IF node.enum = "large" THEN "enum_too_large" ELSE "invalid_enum")

RECURSIVE Walk(_, _, _, _)

\* The walk over one property: an illegal name is not looked into.
WalkProperty(property, depth, state) ==
  LET name == property[1]
      child == property[2]
      s1 == Append1(state, name = "keyword", "python_keyword_property_name")
      s2 == Append1(s1, name = "ignore" /\ child.type \in ScalarTypes,
                    "reserved_scalar_field_name")
  IN  IF name = "Illegal" THEN Append1(state, TRUE, "invalid_property_name")
      ELSE Walk(child, depth + 1, FALSE, s2)

(* Mutation used by the runs: the depth is looked at in objects only.      *)
TooDeep_Objects(node, depth) == node.type = "object" /\ depth > MaxDepth

TooDeep(node, depth) == depth > MaxDepth

Walk(node, depth, isRoot, state) ==
  LET here == KeywordIssues(node, isRoot, state)
      counted == [here EXCEPT !.properties = @ + Len(node.properties)]
      open == Append1(counted, ~ node.closed, "object_not_closed")
  IN  IF Len(state.issues) >= MaxIssues THEN state
      ELSE IF TooDeep(node, depth) THEN Append1(state, TRUE, "depth_exceeded")
      ELSE IF node.type = "other" THEN Append1(state, TRUE, "invalid_type")
      ELSE IF node.type \in ScalarTypes
        THEN [here EXCEPT !.leaf = @ \/ depth > 1]
      ELSE IF node.type = "array"
        THEN IF node.items = <<>> THEN Append1(here, TRUE, "items_required")
             ELSE Walk(node.items[1], depth + 1, FALSE, here)
      ELSE IF ~ node.declares THEN Append1(here, TRUE, "properties_required")
      ELSE IF open.properties > MaxProperties
        THEN Append1(open, TRUE, "property_limit_exceeded")
      ELSE FoldLeft(LAMBDA s, p : WalkProperty(p, depth, s), open, node.properties)

SumSeq(numbers) == FoldLeft(LAMBDA a, b : a + b, 0, numbers)

RECURSIVE SchemaSize(_)

\* How much there is to encode: nodes, names, keywords, and the texts for a reader.
SchemaSize(node) ==
  1 + node.prose + Len(node.required)
  + Cardinality(node.keywords \union ({node.draft, node.enum} \ {"absent"}))
  + SumSeq([i \in DOMAIN node.properties |-> 1 + SchemaSize(node.properties[i][2])])
  + SumSeq([i \in DOMAIN node.items |-> SchemaSize(node.items[i])])

RECURSIVE Serializable(_)

\* A number of an enum need not be finite, and then is no JSON.
Serializable(node) ==
  /\ node.enum # "infinite"
  /\ \A i \in DOMAIN node.properties : Serializable(node.properties[i][2])
  /\ \A i \in DOMAIN node.items : Serializable(node.items[i])

RECURSIVE MetaValid(_)

\* The draft's own schema refuses an enum that is no array and a list of required
\* names that repeats one; it knows nothing of the subset.
MetaValid(node) ==
  /\ node.enum # "null"
  /\ IsInjective(node.required)
  /\ \A i \in DOMAIN node.properties : MetaValid(node.properties[i][2])
  /\ \A i \in DOMAIN node.items : MetaValid(node.items[i])

ValidateResultSchema(schema) ==
  LET start == [issues |-> <<>>, properties |-> 0, leaf |-> FALSE]
      rooted == Append1(start, schema.type # "object", "root_not_object")
      walked == Walk(schema, 1, TRUE, rooted)
      drafted == Append1(walked, ~ MetaValid(schema), "invalid_draft_2020_12")
      leafed == Append1(drafted, ~ drafted.leaf, "no_leaf_fields")
  IN  IF ~ Serializable(schema) THEN <<"not_json_serializable">>
      ELSE IF SchemaSize(schema) > MaxSchemaSize THEN <<"too_large">>
      ELSE SubSeq(leafed.issues, 1, Min({Len(leafed.issues), MaxIssues}))

-----------------------------------------------------------------------------
\* The mismatches of each record, one kind of each path once, are handed on in
\* rounds: the first of every record, the second of every record, and so on.

Interleaved(byOutput) ==
  LET capped == [o \in DOMAIN byOutput |->
                   SubSeq(byOutput[o], 1, Min({Len(byOutput[o]), MaxIssues}))]
      round(r) == FlattenSeq([o \in DOMAIN capped |->
                    IF r \in DOMAIN capped[o] THEN <<capped[o][r]>> ELSE <<>>])
      all == FlattenSeq([r \in 1 .. MaxIssues |-> round(r)])
  IN  SubSeq(all, 1, Min({Len(all), MaxIssues}))

-----------------------------------------------------------------------------
RECURSIVE NodesOf(_, _)
NodesOf(node, depth) ==
  {<<node, depth>>}
  \union UNION {NodesOf(node.properties[i][2], depth + 1) : i \in DOMAIN node.properties}
  \union UNION {NodesOf(node.items[i], depth + 1) : i \in DOMAIN node.items}

RECURSIVE PropertyCount(_)
PropertyCount(node) ==
  Len(node.properties)
  + SumSeq([i \in DOMAIN node.properties |-> PropertyCount(node.properties[i][2])])
  + SumSeq([i \in DOMAIN node.items |-> PropertyCount(node.items[i])])

\* The subset, stated of the whole tree at once, the limit on its size included.
InSubset(schema) ==
  LET nodes == NodesOf(schema, 1)
      wellFormed(n, d) ==
        /\ d <= MaxDepth
        /\ n.type \in Types
        /\ n.keywords = {}
        /\ n.draft = "absent" \/ (d = 1 /\ n.draft = "right")
        /\ n.enum = "absent" \/ (n.enum = "values" /\ n.type \in ScalarTypes)
        /\ IsInjective(n.required)
        /\ n.type = "object" => n.declares /\ n.closed
        /\ n.type = "array" => n.items # <<>>
        /\ \A i \in DOMAIN n.properties :
             /\ n.properties[i][1] \in {"a", "b", "ignore"}
             /\ n.properties[i][1] = "ignore" => n.properties[i][2].type \notin ScalarTypes
  IN  /\ schema.type = "object"
      /\ SchemaSize(schema) <= MaxSchemaSize
      /\ \A nd \in nodes : wellFormed(nd[1], nd[2])
      /\ PropertyCount(schema) <= MaxProperties
      /\ \E nd \in nodes : nd[1].type \in ScalarTypes

\* The walk, which stops early, counts across branches and drops what is over its
\* budget, accepts exactly the schemas of the subset; what it reports is bounded.
WalkDecidesTheSubset(schema) ==
  LET issues == ValidateResultSchema(schema)
  IN  /\ issues = <<>> <=> InSubset(schema)
      /\ Len(issues) <= MaxIssues

\* However noisy one record is, it has at most one more mismatch reported than any
\* other record that still had one to report ("a noisy first sample cannot consume
\* the full feedback budget").
FeedbackIsShared(byOutput) ==
  LET reported == Interleaved(byOutput)
      told(o) == Cardinality({i \in DOMAIN reported : reported[i][1] = o})
  IN  /\ Len(reported) = Min({MaxIssues, SumSeq([o \in DOMAIN byOutput |-> Len(byOutput[o])])})
      /\ \A o, p \in DOMAIN byOutput :
           told(o) < Len(byOutput[o]) => told(p) <= told(o) + 1
=============================================================================
