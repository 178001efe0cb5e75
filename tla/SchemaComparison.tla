-------------------------- MODULE SchemaComparison --------------------------
(***************************************************************************)
(* How the evaluation harness (evaluation.py) compares result schemas: the *)
(* structural contract of one schema and back, the differences of a pair,  *)
(* how far the proposals of one case agree, and the overview over cases.   *)
(*                                                                         *)
(* Schemas are the trees of SchemaCheck; a node may also have a "title",   *)
(* its annotation.  A path is the sequence of the names that lead to a     *)
(* node, "*" for the items of an array.  A rate is a fraction <<n, d>>.    *)
(***************************************************************************)
EXTENDS SchemaCheck

\* The properties of an object and the items of an array, by the last part of their path.
NamedChildren(node) ==
  IF node.type = "object" THEN node.properties
  ELSE IF node.type = "array" THEN <<<<"*", node.items[1]>>>> ELSE <<>>

\* The nodes a walk reaches that is not stopped by one it cannot take.
Unsupported(node) ==
  \/ node.type \notin Types
  \/ node.type = "object" /\ ~ node.declares
  \/ node.type = "array" /\ node.items = <<>>

RequiredIn(node, name) == node.type = "object" /\ name \in ToSet(node.required)

RECURSIVE Visit(_, _, _)
Visit(node, path, required) ==
  {[path |-> path, required |-> required, node |-> node]}
  \union (IF Unsupported(node) THEN {}
          ELSE UNION {Visit(child[2], Append(path, child[1]), RequiredIn(node, child[1])) :
                        child \in ToSet(NamedChildren(node))})

Supported(schema) == \A v \in Visit(schema, <<>>, FALSE) : ~ Unsupported(v.node)

Contracted(v) == [path |-> v.path, type |-> v.node.type, required |-> v.required]

\* The structural contract of a supported schema: its nodes, one of each path.
SchemaSignature(schema) == {Contracted(v) : v \in Visit(schema, <<>>, FALSE)}

-----------------------------------------------------------------------------
\* The way back.  A contract may be wrong in itself.

ContractChildren(nodes, path) == {n \in nodes : n.path # <<>> /\ Front(n.path) = path}

\* What lies below a scalar, or beside the items of an array, is not built.
BuiltAt(nodes, n) ==
  \A k \in DOMAIN n.path :
    \E m \in nodes : /\ m.path = SubSeq(n.path, 1, k - 1)
                     /\ m.type = "object" \/ (m.type = "array" /\ n.path[k] = "*")

ContractRejected(nodes) ==
  LET at(path) == {n \in nodes : n.path = path}
      built == {n \in nodes : BuiltAt(nodes, n)}
      arrayOf(n) == {c \in ContractChildren(nodes, n.path) : Last(c.path) = "*"}
  IN  \/ \E n, m \in nodes : n # m /\ n.path = m.path
      \/ ~ \E n \in at(<<>>) : n.type = "object"
      \/ \E n \in nodes : n.path # <<>> /\ at(Front(n.path)) = {}
      \/ \E n \in built : n.type = "object" /\ arrayOf(n) # {}
      \/ \E n \in built : n.type = "array" /\ Cardinality(arrayOf(n)) # 1

RECURSIVE Built(_, _)
Built(nodes, node) ==
  LET children == SetToSeq(ContractChildren(nodes, node.path))
      below == [i \in DOMAIN children |->
                  <<Last(children[i].path), Built(nodes, children[i])>>]
      required == SelectSeq(children, LAMBDA c : c.required)
      items == SelectSeq(below, LAMBDA c : c[1] = "*")
  IN  CASE node.type = "object" -> [Object(below) EXCEPT
                                      !.required = [i \in DOMAIN required |-> Last(required[i].path)]]
        [] node.type = "array" -> Array(<<items[1][2]>>)
        [] OTHER -> Scalar(node.type)

SchemaFromContract(nodes) == Built(nodes, CHOOSE n \in nodes : n.path = <<>>)

-----------------------------------------------------------------------------
\* What a view of a node tells beside its place and its type.
Constraints(node) == <<node.type = "object" /\ node.closed, node.enum>>
Annotations(node) == IF "title" \in DOMAIN node THEN node.title ELSE "none"

\* The views of a schema, by path.
Views(schema) ==
  LET visited == Visit(schema, <<>>, FALSE)
  IN  [path \in {v.path : v \in visited} |-> CHOOSE v \in visited : v.path = path]

Kinds == {"path", "container_type", "scalar_type", "required", "constraint", "annotation"}

\* How many nodes of a pair differ in each respect, and of how many, by its views.
ViewMetrics(a, b, structureEqual) ==
  LET common == DOMAIN a \intersect DOMAIN b
      properties == {p \in common : p # <<>> /\ Last(p) # "*"}
      sameType == {p \in common : a[p].node.type = b[p].node.type}
      container == {p \in common \ sameType :
                      {a[p].node.type, b[p].node.type} \intersect {"object", "array"} # {}}
      paths == (DOMAIN a \union DOMAIN b) \ {<<>>}
      differing ==
        [path |-> paths \ common,
         container_type |-> container,
         scalar_type |-> (common \ sameType) \ container,
         required |-> {p \in properties : a[p].required # b[p].required},
         constraint |-> {p \in sameType : Constraints(a[p].node) # Constraints(b[p].node)},
         annotation |-> {p \in common : Annotations(a[p].node) # Annotations(b[p].node)}]
      comparable ==
        [path |-> paths, container_type |-> common, scalar_type |-> common,
         required |-> properties, constraint |-> sameType, annotation |-> common]
  IN  [structureEqual |-> structureEqual,
       contractEqual |-> structureEqual /\ differing.constraint = {},
       overlap |-> IF paths = {} THEN <<1, 1>>
                   ELSE <<Cardinality(paths \intersect common), Cardinality(paths)>>,
       differences |-> [k \in Kinds |-> Cardinality(differing[k])],
       comparable |-> [k \in Kinds |-> Cardinality(comparable[k])]]

PairMetrics(left, right) ==
  ViewMetrics(Views(left), Views(right), SchemaSignature(left) = SchemaSignature(right))

-----------------------------------------------------------------------------
\* All pairs of the proposals of one case.
PairsOf(proposals) == {p \in (DOMAIN proposals) \X (DOMAIN proposals) : p[1] < p[2]}

\* The rate of nothing is missing.
None == <<0, 0>>
Rate(n, d) == IF d = 0 THEN None ELSE <<n, d>>
PlusRate(r, s) == <<r[1] * s[2] + s[1] * r[2], r[2] * s[2]>>
Total(Rates(_), S) == FoldSet(LAMBDA x, sum : PlusRate(Rates(x), sum), <<0, 1>>, S)
Over(r, n) == IF n = 0 THEN None ELSE <<r[1], r[2] * n>>
MeanRate(Rates(_), S) == Over(Total(Rates, S), Cardinality(S))
SameRate(r, s) ==
  IF r = None \/ s = None THEN r = s ELSE r[1] * s[2] = s[1] * r[2]

\* How many proposals there are of each variant, the variants told apart by Form.
Variants(proposals, Form(_)) ==
  [form \in {Form(proposals[i]) : i \in DOMAIN proposals} |->
     Cardinality({i \in DOMAIN proposals : Form(proposals[i]) = form})]
Dominant(counts, n) == IF n = 0 THEN None ELSE <<Max({counts[f] : f \in DOMAIN counts}), n>>

SchemaRepeatConsistency(proposals) ==
  LET counts == Variants(proposals, SchemaSignature)
      n == Len(proposals)
      equal == MapThenSumSet(LAMBDA f : (counts[f] * (counts[f] - 1)) \div 2, DOMAIN counts)
  IN  [variants |-> Cardinality(DOMAIN counts), dominant |-> Dominant(counts, n),
       pairs |-> (n * (n - 1)) \div 2, equalPairs |-> equal,
       consistency |-> Rate(equal, (n * (n - 1)) \div 2)]

\* The structure of a schema and the constraints of every node.
ContractForm(schema) ==
  {<<Contracted(v), Constraints(v.node)>> : v \in Visit(schema, <<>>, FALSE)}

ContractConsistency(n, pairs, metrics, counts) ==
  LET equal == Cardinality({p \in pairs : metrics[p].contractEqual})
  IN  [variants |-> Cardinality(DOMAIN counts), dominant |-> Dominant(counts, n),
       pairs |-> Cardinality(pairs), equalPairs |-> equal,
       consistency |-> Rate(equal, Cardinality(pairs)),
       meanOverlap |-> MeanRate(LAMBDA p : metrics[p].overlap, pairs),
       differences |->
         [k \in Kinds |->
            [affected |-> Cardinality({p \in pairs : metrics[p].differences[k] > 0}),
             nodes |-> MapThenSumSet(LAMBDA p : metrics[p].differences[k], pairs),
             comparable |-> MapThenSumSet(LAMBDA p : metrics[p].comparable[k], pairs)]]]

SchemaContractConsistency(proposals) ==
  ContractConsistency(Len(proposals), PairsOf(proposals),
    [p \in PairsOf(proposals) |-> PairMetrics(proposals[p[1]], proposals[p[2]])],
    Variants(proposals, ContractForm))

\* Over cases, each with the consistency of its proposals.
OverviewOf(cases, eligible, pairs) ==
  LET weighted(c) == <<cases[c].meanOverlap[1] * cases[c].pairs, cases[c].meanOverlap[2]>>
  IN  [comparable |-> Cardinality(eligible), pairs |-> pairs,
       macroContract |-> MeanRate(LAMBDA c : cases[c].consistency, eligible),
       weightedContract |-> Rate(MapThenSumSet(LAMBDA c : cases[c].equalPairs, eligible), pairs),
       macroOverlap |-> MeanRate(LAMBDA c : cases[c].meanOverlap, eligible),
       weightedOverlap |-> Over(Total(weighted, eligible), pairs),
       affected |-> [k \in Kinds |->
         MapThenSumSet(LAMBDA c : cases[c].differences[k].affected, eligible)]]

Eligible(cases) == {c \in DOMAIN cases : cases[c].pairs > 0}
SchemaConsistencyOverview(cases) ==
  OverviewOf(cases, Eligible(cases), MapThenSumSet(LAMBDA c : cases[c].pairs, Eligible(cases)))

-----------------------------------------------------------------------------
\* "the inverse of schema_signature": the contract of a schema that has an object for
\* its root is accepted, and what is built of it has that contract again.
ContractsAreInverse(schema) ==
  Supported(schema) /\ schema.type = "object" =>
    LET nodes == SchemaSignature(schema)
    IN  /\ ~ ContractRejected(nodes)
        /\ SchemaSignature(SchemaFromContract(nodes)) = nodes

\* The counts of a pair account for its verdict: two schemas have one contract exactly
\* when no path, type, required mark or constraint differs, whichever comes first:
\* "m" compares them one way and "reversed" the other.
DifferencesExplainInequality(m, reversed) ==
  /\ m.contractEqual <=> \A k \in Kinds \ {"annotation"} : m.differences[k] = 0
  /\ m = reversed
  /\ \A k \in Kinds : m.differences[k] <= m.comparable[k]

\* Three ways to count agree: the pairs found equal one by one, the pairs within the
\* variants, and, without the constraints, the older structural metric, which can only
\* find more agreement.
ConsistencyAddsUp(proposals, contract, structure, counts) ==
  /\ contract.pairs = structure.pairs
  /\ contract.equalPairs =
       MapThenSumSet(LAMBDA f : (counts[f] * (counts[f] - 1)) \div 2, DOMAIN counts)
  /\ structure.equalPairs = Cardinality({p \in PairsOf(proposals) :
       PairMetrics(proposals[p[1]], proposals[p[2]]).structureEqual})
  /\ contract.equalPairs <= structure.equalPairs
  /\ contract.variants >= structure.variants
  /\ contract.variants = 1 <=> contract.dominant # None /\ SameRate(contract.dominant, <<1, 1>>)

\* Cases with less than two proposals leave the overview alone, and where all cases
\* have as many pairs the mean over cases and the mean over pairs are the same;
\* "ofEligible" is the overview without the other cases.
OverviewWeighsPairs(cases, overview, ofEligible) ==
  /\ (\A c, d \in Eligible(cases) : cases[c].pairs = cases[d].pairs) =>
       /\ SameRate(overview.macroContract, overview.weightedContract)
       /\ SameRate(overview.macroOverlap, overview.weightedOverlap)
  /\ ofEligible = overview
  /\ overview.weightedContract = None <=> Eligible(cases) = {}
=============================================================================
