----------------------------- MODULE SchemaPlan -----------------------------
(***************************************************************************)
(* The compiler of schema plans (ttp_generation/schema_plan.py): a plan    *)
(* names every field by references into the displayed source, the compiler *)
(* checks the references and who owns them, derives the names and which    *)
(* fields are required, and returns a result schema (SchemaCheck).         *)
(*                                                                         *)
(* A fragment's text is a sequence of words; "blank", "return" and         *)
(* "newline" are space, "1" is a number, "keyword" and "ignore" are        *)
(* reserved, "foreign" is not ASCII.  A reference is a half-open stretch of one fragment, and  *)
(* a name is the sequence of its words.  A plan is a sequence of nodes.    *)
(***************************************************************************)
EXTENDS SchemaCheck

CONSTANTS
  MaxPlanSize,   \* MAX_PLAN_BYTES
  MaxPlanNodes,  \* MAX_PLAN_NODES
  MaxPlanDepth,  \* MAX_PLAN_DEPTH
  MaxReferences  \* MAX_PLAN_REFERENCES

\* A plan may be as deep, and have as many nodes, as a schema has levels and properties.
ASSUME PlanAssumption ==
  /\ {MaxPlanSize, MaxPlanNodes, MaxPlanDepth, MaxReferences} \subseteq Nat
  /\ MaxPlanDepth <= MaxDepth
  /\ MaxPlanNodes <= MaxProperties

Space == {"blank", "return", "newline"}
Ref(at, from, to) == [at |-> at, from |-> from, to |-> to]
Instance(id, parent, spans, complete) ==
  [id |-> id, parent |-> parent, spans |-> spans, complete |-> complete]
Occurrence(parent, segments, line) ==
  [parent |-> parent, segments |-> segments, line |-> line]

Contains1(outer, inner) ==
  outer.at = inner.at /\ outer.from <= inner.from /\ inner.to <= outer.to

Overlaps(left, right) ==
  /\ left.at = right.at
  /\ Max({left.from, right.from}) < Min({left.to, right.to})

TextOf(fragments, ref) == SubSeq(fragments[ref.at].text, ref.from + 1, ref.to)
Nodes(plan) == ToSet(plan)
ChildrenOf(plan, id) == {n \in Nodes(plan) : n.parent = id}
OrderedApart(refs) ==
  \A i \in 1 .. Len(refs) - 1 :
    refs[i].at = refs[i + 1].at /\ refs[i].to <= refs[i + 1].from

NodeRefs(n) ==
  n.labels \o n.qualifiers
  \o FlattenSeq([i \in DOMAIN n.instances |-> n.instances[i].spans])
  \o [i \in DOMAIN n.empties |-> n.empties[i].marker]
  \o FlattenSeq([i \in DOMAIN n.occurrences |->
       n.occurrences[i].segments \o n.occurrences[i].line])

ReferenceCount(plan) == SumSeq([i \in DOMAIN plan |-> Len(NodeRefs(plan[i]))])

\* How much there is to read: nodes, references, and the records that hold them.
PlanSize(plan) ==
  Len(plan) + ReferenceCount(plan)
  + SumSeq([i \in DOMAIN plan |-> Len(plan[i].instances) + Len(plan[i].occurrences)
                                  + Len(plan[i].empties) + Len(plan[i].fallback)])

-----------------------------------------------------------------------------
\* The displayed fragments: inputs are numbered from 0 without a gap, and one that
\* shows nothing is not complete.
SourcesInvalid(fragments) ==
  LET inputs == {key[1] : key \in DOMAIN fragments}
  IN  \/ fragments = <<>>
      \/ inputs # 0 .. Cardinality(inputs) - 1
      \/ \E key \in DOMAIN fragments : fragments[key].text = <<>> /\ fragments[key].complete

ReferenceIssues(plan, fragments, n) ==
  LET refs == ToSet(NodeRefs(n))
      known(ref) == /\ ref.at \in DOMAIN fragments
                    /\ ref.from <= ref.to
                    /\ ref.to <= Len(fragments[ref.at].text)
                    /\ fragments[ref.at].text # <<>>
      empty(ref) == ToSet(TextOf(fragments, ref)) \subseteq Space
  IN  {code \in {"invalid_reference"} : \E ref \in refs : ~ known(ref)}
      \union {code \in {"empty_label"} :
                \E ref \in ToSet(n.labels \o n.qualifiers) : known(ref) /\ empty(ref)}
      \union {code \in {"label_order"} :
                ~ OrderedApart(n.labels) \/ ~ OrderedApart(n.qualifiers)}
      \union {code \in {"invalid_parent"} :
                /\ n.parent # "root"
                /\ ~ \E p \in Nodes(plan) : p.id = n.parent /\ p.kind # "value"}

\* A collection is an array and the object in it.
Levels(n) == IF n.kind = "collection" THEN 2 ELSE 1

\* The nodes that hang on the root, level by level; a node on a cycle never does.
DepthsOf(plan) ==
  LET grow(depths) ==
        LET ready == {n \in Nodes(plan) :
                        n.id \notin DOMAIN depths /\ n.parent \in DOMAIN depths}
        IN  [id \in DOMAIN depths \union {n.id : n \in ready} |->
               IF id \in DOMAIN depths THEN depths[id]
               ELSE LET n == CHOOSE m \in ready : m.id = id
                    IN  depths[n.parent] + Levels(n)]
  IN  FoldLeft(LAMBDA depths, n : grow(depths), [id \in {"root"} |-> 1], plan)

TreeIssues(plan, fragments) ==
  LET depths == DepthsOf(plan)
  IN  UNION {ReferenceIssues(plan, fragments, n) : n \in Nodes(plan)}
      \union {code \in {"invalid_parent"} : \E n \in Nodes(plan) : n.id \notin DOMAIN depths}
      \union {code \in {"depth_exceeded"} :
                \E id \in DOMAIN depths \ {"root"} : depths[id] > MaxPlanDepth}

-----------------------------------------------------------------------------
InputNames == <<"input_0", "input_1", "input_2", "input_3", "input_4">>

\* Every input is an instance of the root; it is complete if it is shown in one piece.
RootInstances(fragments) ==
  {LET keys == {key \in DOMAIN fragments : key[1] = i} IN
     Instance(InputNames[i + 1], "root",
       SetToSeq({Ref(key, 0, Len(fragments[key].text)) : key \in keys}),
       Cardinality(keys) = 1 /\ \A key \in keys : fragments[key].complete) :
   i \in {key[1] : key \in DOMAIN fragments}}

InstancesOf(plan, fragments, id) ==
  IF id = "root" THEN RootInstances(fragments)
  ELSE UNION {ToSet(n.instances) : n \in {n \in Nodes(plan) : n.id = id}}

\* The parent instances in which a node was seen, one entry for each time.
SeenIn(n) ==
  IF n.kind = "value" THEN [i \in DOMAIN n.occurrences |-> n.occurrences[i].parent]
  ELSE [i \in DOMAIN n.instances |-> n.instances[i].parent]
       \o [i \in DOMAIN n.empties |-> n.empties[i].parent]

Repeats(n) == ~ IsInjective(SeenIn(n))

(* Mutation used by the runs: a span need not be its parent's.             *)
OutsideParent_ValuesOnly(n, parents) ==
  \E o \in ToSet(n.occurrences), p \in parents :
    /\ o.parent = p.id
    /\ \E ref \in ToSet(o.segments \o o.line) :
         ~ \E span \in ToSet(p.spans) : Contains1(span, ref)

OutsideParent(n, parents) ==
  LET owned(refs, p) == \A ref \in ToSet(refs) :
                          \E span \in ToSet(p.spans) : Contains1(span, ref)
  IN  \E p \in parents :
        \/ \E o \in ToSet(n.occurrences) : o.parent = p.id /\ ~ owned(o.segments \o o.line, p)
        \/ \E i \in ToSet(n.instances) : i.parent = p.id /\ ~ owned(i.spans, p)
        \/ \E e \in ToSet(n.empties) : e.parent = p.id /\ ~ owned(<<e.marker>>, p)

\* An empty value needs a line of its own: whole, not blank, and around the slot.
EmptySlotUnproven(fragments, o) ==
  LET line == o.line[1]
      slot == o.segments[1]
      source == fragments[line.at].text
      text == TextOf(fragments, line)
      without(words, end) ==
        IF words # <<>> /\ Last(words) = end THEN Front(words) ELSE words
      content == without(without(text, "newline"), "return")
  IN  IF \A ref \in ToSet(o.segments) : ref.from < ref.to THEN o.line # <<>>
      ELSE \/ Len(o.segments) # 1
           \/ o.line = <<>>
           \/ line.from = line.to
           \/ ~ Contains1(line, slot)
           \/ ToSet(content) \subseteq Space
           \/ ToSet(content) \intersect {"newline", "return"} # {}
           \/ slot.from > line.from + Len(content)
           \/ line.from # 0 /\ source[line.from] # "newline"
           \/ /\ line.to # Len(source)
              /\ source[line.to] # "newline"
              /\ source[line.to + 1] # "newline"

OccurrenceIssues(fragments, n, o) ==
  {code \in {"invalid_segments"} :
     \/ n.capture = "single" /\ Len(o.segments) # 1
     \/ ~ OrderedApart(o.segments)}
  \union {code \in {"empty_slot_evidence"} : EmptySlotUnproven(fragments, o)}

InstanceIssues(plan, fragments, n) ==
  LET parents == InstancesOf(plan, fragments, n.parent)
      ids == {p.id : p \in parents}
      mine == n.instances
      overlap(a, b) == \E left \in ToSet(a), right \in ToSet(b) : Overlaps(left, right)
  IN  {code \in {"invalid_instance"} :
         \/ \E i \in DOMAIN n.occurrences : n.occurrences[i].parent \notin ids
         \/ \E i \in DOMAIN mine :
              \/ mine[i].parent \notin ids
              \/ \E ref \in ToSet(mine[i].spans) : ref.from = ref.to
              \/ \E k, l \in DOMAIN mine[i].spans :
                   k < l /\ Overlaps(mine[i].spans[k], mine[i].spans[l])
         \/ n.kind = "object" /\ Repeats(n)}
      \union {code \in {"duplicate_occurrence"} : n.kind = "value" /\ Repeats(n)}
      \union {code \in {"overlapping_instances"} :
                \E i, j \in DOMAIN mine : /\ i # j /\ mine[i].parent = mine[j].parent
                                          /\ overlap(mine[i].spans, mine[j].spans)}
      \union {code \in {"outside_parent"} : OutsideParent(n, parents)}
      \union {code \in {"empty_collection_evidence"} :
                \E i \in DOMAIN n.empties :
                  \/ n.empties[i].parent \notin ids
                  \/ ToSet(TextOf(fragments, n.empties[i].marker)) \subseteq Space
                  \/ Cardinality({k \in DOMAIN SeenIn(n) :
                                    SeenIn(n)[k] = n.empties[i].parent}) > 1}
      \union UNION {OccurrenceIssues(fragments, n, o) : o \in ToSet(n.occurrences)}

OwnershipIssues(plan, fragments) ==
  LET ids == FlattenSeq([k \in DOMAIN plan |->
               [i \in DOMAIN plan[k].instances |-> plan[k].instances[i].id]])
  IN  {code \in {"duplicate_id"} :
         \/ ~ IsInjective(ids)
         \/ \E root \in RootInstances(fragments) : root.id \in ToSet(ids)}
      \union UNION {InstanceIssues(plan, fragments, n) : n \in Nodes(plan)}

RECURSIVE Complete(_, _, _)

\* All of a field's evidence was shown: the plan says so, and so it does of every
\* node above it, whose instances are all complete.
Complete(plan, fragments, n) ==
  LET parents == InstancesOf(plan, fragments, n.parent)
  IN  /\ n.evidenceComplete
      /\ parents # {} /\ \A p \in parents : p.complete
      /\ \A p \in Nodes(plan) : p.id = n.parent => Complete(plan, fragments, p)
      /\ \A i \in ToSet(n.instances) : i.complete
      /\ ReferenceCount(plan) < MaxReferences

Required(plan, fragments, n) ==
  /\ Complete(plan, fragments, n)
  /\ ToSet(SeenIn(n)) = {p.id : p \in InstancesOf(plan, fragments, n.parent)}

-----------------------------------------------------------------------------
\* Names.  A label that is not ASCII has no name.
Normalized(fragments, refs) ==
  LET words == FlattenSeq([i \in DOMAIN refs |-> TextOf(fragments, refs[i])])
  IN  IF "foreign" \in ToSet(words) THEN <<>>
      ELSE SelectSeq(words, LAMBDA w : w \notin Space)

ValidName(name, kind) ==
  /\ name # <<>> /\ Head(name) # "1"
  /\ name # <<"keyword">>
  /\ name = <<"ignore">> => kind # "value"

BaseName(fragments, n) == Normalized(fragments, n.labels)

QualifiedName(fragments, n) ==
  IF n.qualifiers = <<>> THEN BaseName(fragments, n)
  ELSE Normalized(fragments, n.qualifiers \o n.labels)

Conflicts(plan, fragments, n) ==
  \E m \in ChildrenOf(plan, n.parent) \ {n} :
    QualifiedName(fragments, m) = QualifiedName(fragments, n)

\* The parts of a split value have one label and lie apart.
SplitPartners(plan, n) ==
  {m \in ChildrenOf(plan, n.parent) \ {n} :
     n.kind = "value" /\ n.labels # <<>> /\ m.kind = "value" /\ m.labels = n.labels}

PartsMeet(plan, n) ==
  \E m \in SplitPartners(plan, n) :
  \E o \in ToSet(n.occurrences), q \in ToSet(m.occurrences) :
    /\ o.parent = q.parent
    /\ \E a \in ToSet(o.segments), b \in ToSet(q.segments) : Overlaps(a, b)

ValidSplit(plan, n) == SplitPartners(plan, n) # {} /\ ~ PartsMeet(plan, n)

FallbackAllowed(plan, fragments, n) ==
  LET name == QualifiedName(fragments, n)
  IN  CASE n.reason = "unlabeled" -> n.labels = <<>>
        [] n.reason = "invalid_name" -> n.labels # <<>> /\ ~ ValidName(name, n.kind)
        [] n.reason = "conflict" -> name # <<>> /\ Conflicts(plan, fragments, n)
        [] n.reason = "split_component" -> ValidSplit(plan, n)

NameOf(fragments, n) ==
  IF n.reason = "none" THEN QualifiedName(fragments, n) ELSE n.fallback

NameIssues(plan, fragments) ==
  LET collides(n) == \E m \in ChildrenOf(plan, n.parent) \ {n} :
                       BaseName(fragments, m) = BaseName(fragments, n)
  IN  {code \in {"invalid_qualifier"} :
         \E n \in Nodes(plan) : /\ n.qualifiers # <<>>
                                /\ BaseName(fragments, n) = <<>> \/ ~ collides(n)}
      \union {code \in {"unnecessary_fallback"} :
                \E n \in Nodes(plan) : n.reason # "none" /\ ~ FallbackAllowed(plan, fragments, n)}
      \union {code \in {"invalid_split"} :
                \E n \in Nodes(plan) : n.reason = "split_component" /\ PartsMeet(plan, n)}
      \union {code \in {"invalid_name"} :
                \E n \in Nodes(plan) : ~ ValidName(NameOf(fragments, n), n.kind)}
      \union {code \in {"name_collision"} :
                \E n, m \in Nodes(plan) : /\ n # m /\ n.parent = m.parent
                                          /\ NameOf(fragments, n) = NameOf(fragments, m)}

-----------------------------------------------------------------------------
\* What the schema check sees of a name.
FieldName(name) ==
  CASE name = <<>> \/ Head(name) = "1" -> "Illegal"
    [] name = <<"keyword">> -> "keyword"
    [] name = <<"ignore">> -> "ignore"
    [] OTHER -> "a"

\* A count whose every value was a number is an integer.
ValueType(plan, fragments, n) ==
  IF /\ n.role = "count" /\ n.capture = "single" /\ Complete(plan, fragments, n)
     /\ \A o \in ToSet(n.occurrences) : TextOf(fragments, o.segments[1]) = <<"1">>
    THEN "integer" ELSE "string"

\* A description repeats the label if it is a name.
Described(fragments, n) ==
  LET label == BaseName(fragments, n)
  IN  IF ValidName(label, n.kind) THEN Len(label) ELSE 0

RECURSIVE ObjectSchema(_, _, _)

ObjectSchema(plan, fragments, id) ==
  LET below == SelectSeq(plan, LAMBDA n : n.parent = id)
      needed == SelectSeq(below, LAMBDA n : Required(plan, fragments, n))
      shape(n) == CASE n.kind = "value" -> [Scalar(ValueType(plan, fragments, n))
                                              EXCEPT !.prose = Described(fragments, n)]
                    [] n.kind = "object" -> ObjectSchema(plan, fragments, n.id)
                    [] OTHER -> Array(<<ObjectSchema(plan, fragments, n.id)>>)
  IN  [Object([k \in DOMAIN below |->
                 <<FieldName(NameOf(fragments, below[k])), shape(below[k])>>])
         EXCEPT !.required = [k \in DOMAIN needed |-> NameOf(fragments, needed[k])]]

CompiledSchema(plan, fragments) ==
  [ObjectSchema(plan, fragments, "root") EXCEPT !.draft = "right"]

\* The checks run in stages; each needs the ones before it to have found nothing.
PlanIssues(plan, fragments) ==
  LET ids == [i \in DOMAIN plan |-> plan[i].id]
  IN  IF PlanSize(plan) > MaxPlanSize THEN {"too_large"}
      ELSE IF Len(plan) \notin 1 .. MaxPlanNodes THEN {"invalid_shape"}
      ELSE IF SourcesInvalid(fragments) THEN {"invalid_sources"}
      ELSE IF ~ IsInjective(ids) \/ "root" \in ToSet(ids) THEN {"duplicate_id"}
      ELSE IF ReferenceCount(plan) > MaxReferences THEN {"reference_limit"}
      ELSE IF TreeIssues(plan, fragments) # {} THEN TreeIssues(plan, fragments)
      ELSE IF OwnershipIssues(plan, fragments) # {} THEN OwnershipIssues(plan, fragments)
      ELSE NameIssues(plan, fragments)

\* A plan that passes is compiled, and what it compiles to is checked once more.
PlanAccepted(plan, fragments) ==
  /\ PlanIssues(plan, fragments) = {}
  /\ ValidateResultSchema(CompiledSchema(plan, fragments)) = <<>>

-----------------------------------------------------------------------------
\* However deep the tree, no stretch of source belongs to two instances of one node,
\* and all evidence of a node lies inside an instance of every node above it.
EvidenceHasOneOwner(plan, fragments) ==
  PlanIssues(plan, fragments) = {} =>
    \A n \in Nodes(plan) :
      /\ \A i, j \in DOMAIN n.instances :
           i # j => \A a \in ToSet(n.instances[i].spans), b \in ToSet(n.instances[j].spans) :
                      ~ Overlaps(a, b)
      /\ \A m \in Nodes(plan) : m.parent = n.id =>
           \A o \in ToSet(m.occurrences) : \A ref \in ToSet(o.segments) :
             \E top \in InstancesOf(plan, fragments, n.parent) :
               \E span \in ToSet(top.spans) : Contains1(span, ref)

\* A required field is one that every observed record of its parent has, once unless
\* it is a collection, in source of which nothing was left out: no observed record
\* fails its own schema.
RequiredIsObserved(plan, fragments) ==
  PlanIssues(plan, fragments) = {} =>
    \A n \in {n \in Nodes(plan) : Required(plan, fragments, n)} :
      /\ \A p \in InstancesOf(plan, fragments, n.parent) :
           LET times == Cardinality({k \in DOMAIN SeenIn(n) : SeenIn(n)[k] = p.id})
           IN  times = 1 \/ (times > 1 /\ n.kind = "collection")
      /\ \A key \in DOMAIN fragments : fragments[key].complete

\* What the compiler lets through, the schema check does too, unless it has no scalar
\* field at all, or has grown over the limit of a schema, which the limit of a plan does
\* not preclude: names, depth, properties and required lists are judged alike in both.
CompiledPlansAreSupported(plan, fragments) ==
  PlanIssues(plan, fragments) = {} =>
    LET schema == CompiledSchema(plan, fragments)
        issues == ToSet(ValidateResultSchema(schema))
    IN  IF SchemaSize(schema) > MaxSchemaSize THEN issues = {"too_large"}
        ELSE issues \subseteq {"no_leaf_fields"}

\* "semantic naming cannot replace a valid unambiguous label": a name that is not in
\* the source stands for a label that is missing, illegal or shared by a sibling, or
\* for one part of a split value.
NamesAreEvidenced(plan, fragments) ==
  PlanIssues(plan, fragments) = {} =>
    \A n \in Nodes(plan) : n.reason # "none" =>
      \/ ~ ValidName(QualifiedName(fragments, n), n.kind)
      \/ \E m \in ChildrenOf(plan, n.parent) \ {n} :
           \/ n.reason = "split_component" /\ m.labels = n.labels
           \/ QualifiedName(fragments, m) = QualifiedName(fragments, n)
=============================================================================
