-------------------------- MODULE ConditionEvaluator --------------------------
(***************************************************************************)
(* evaluate_condition of detection/evaluator.py: one pass over a condition *)
(* tree that leaves a trace for every node, or raises.  The recursion is   *)
(* unrolled: the nodes of a tree are numbered in the order in which        *)
(* _evaluate returns from them, so that a node comes after its children    *)
(* and the last one is the root "$".  Values of event fields are           *)
(* abstracted to what a leaf's comparison makes of them.                   *)
(***************************************************************************)
EXTENDS Naturals, Sequences

CONSTANTS
  Trees,        \* the condition trees evaluated
  LeafTests     \* what a leaf may meet in an event; see IsLeafTest

ConditionOutcome == {"true", "false", "unknown"}

FieldPresence == {"present", "missing", "absent"}

EXISTENCE_OPERATORS == {"exists", "not_exists"}

\* op: an existence operator, or "comparison" for any other one.  valid: the field
\* path, the operands and the type of an actual value pass their checks.  holds:
\* what _compare answers if it is asked.
IsLeafTest(t) ==
  t \in [op : EXISTENCE_OPERATORS \cup {"comparison"}, valid : BOOLEAN,
         presence : FieldPresence, holds : BOOLEAN]

\* The trees LeafCondition, AllCondition, AnyCondition and NotCondition allow.
IsTree(t) ==
  /\ t.size \in Nat \ {0}
  /\ t.kind \in [1..t.size -> {"leaf", "not", "all", "any"}]
  /\ t.children \in [1..t.size -> SUBSET (1..t.size)]
  /\ \A n \in 1..t.size :
       /\ \A c \in t.children[n] : c < n
       /\ t.kind[n] = "leaf" => t.children[n] = {}
       /\ t.kind[n] = "not" => \E c \in t.children[n] : t.children[n] = {c}
       /\ t.kind[n] \in {"all", "any"} => t.children[n] # {}
       /\ \A m \in 1..t.size : m # n => t.children[m] \cap t.children[n] = {}

ASSUME TreesAssumption == \A t \in Trees : IsTree(t)
ASSUME LeafTestsAssumption == \A t \in LeafTests : IsLeafTest(t)

VARIABLES
  tree,         \* the condition
  test,         \* test[n]: what leaf n of the condition meets in the event
  trace,        \* the outcomes of the nodes evaluated so far
  status        \* "running", "returned" or "raised"

vars == <<tree, test, trace, status>>

Outcome(holds) == IF holds THEN "true" ELSE "false"

\* The field is resolved and the operands are checked before the operator is looked
\* at; an operator other than an existence test of a value that is not there is
\* "unknown".
LeafOutcome(t) ==
  IF t.op \in EXISTENCE_OPERATORS
  THEN Outcome((t.presence = "present") = (t.op = "exists"))
  ELSE IF t.presence # "present" THEN "unknown" ELSE Outcome(t.holds)

\* Mutant: absent evidence negated into a match.
NegatedUnknownHolds(outcome) == IF outcome = "true" THEN "false" ELSE "true"

Negated(outcome) ==
  CASE outcome = "true" -> "false"
    [] outcome = "false" -> "true"
    [] OTHER -> "unknown"

\* Mutant: an unknown child outweighs a decisive one.
AggregatedUnknownFirst(outcomes, decisive, otherwise) ==
  IF "unknown" \in outcomes THEN "unknown"
  ELSE IF decisive \in outcomes THEN decisive
  ELSE otherwise

\* The outcome of an all (any) node, whose decisive outcome is "false" ("true").
Aggregated(outcomes, decisive, otherwise) ==
  IF decisive \in outcomes THEN decisive
  ELSE IF "unknown" \in outcomes THEN "unknown"
  ELSE otherwise

-----------------------------------------------------------------------------

Leaves == {n \in 1..tree.size : tree.kind[n] = "leaf"}

Init ==
  /\ tree \in Trees
  /\ test \in [Leaves -> LeafTests]
  /\ trace = <<>>
  /\ status = "running"

\* The node the recursion returns from next.
Node == Len(trace) + 1

Reaches(kind) ==
  /\ status = "running"
  /\ tree.kind[Node] = kind

Record(outcome) ==
  /\ trace' = Append(trace, outcome)
  /\ status' = IF Node = tree.size THEN "returned" ELSE "running"
  /\ UNCHANGED <<tree, test>>

ChildOutcomes == {trace[c] : c \in tree.children[Node]}

EvaluateLeaf ==
  /\ Reaches("leaf")
  /\ test[Node].valid
  /\ Record(LeafOutcome(test[Node]))

\* Mutant: a leaf that fails its checks counts as absent evidence.
RaiseSwallowed ==
  /\ Reaches("leaf")
  /\ ~test[Node].valid
  /\ Record("unknown")

\* A DetectionEvaluationError ends the evaluation; no partial trace is returned.
RaiseAtLeaf ==
  /\ Reaches("leaf")
  /\ ~test[Node].valid
  /\ trace' = <<>>
  /\ status' = "raised"
  /\ UNCHANGED <<tree, test>>

EvaluateNot ==
  /\ Reaches("not")
  /\ \E outcome \in ChildOutcomes : Record(Negated(outcome))

EvaluateAll ==
  /\ Reaches("all")
  /\ Record(Aggregated(ChildOutcomes, "false", "true"))

EvaluateAny ==
  /\ Reaches("any")
  /\ Record(Aggregated(ChildOutcomes, "true", "false"))

Next == EvaluateLeaf \/ RaiseAtLeaf \/ EvaluateNot \/ EvaluateAll \/ EvaluateAny

Spec == Init /\ [][Next]_vars

-----------------------------------------------------------------------------
(* Properties.                                                             *)

\* The tree stays one the models allow, the trace never outgrows it.
TypeOK ==
  /\ IsTree(tree)
  /\ test \in [Leaves -> LeafTests]
  /\ trace \in Seq(ConditionOutcome) /\ Len(trace) <= tree.size
  /\ status \in {"running", "returned", "raised"}

\* Two-valued readings of a condition t whose leaves meet e: a leaf whose value the
\* event lacks may be either way, every other node is what the connectives make it.
ReadsAs(t, e, v, n) ==
  CASE t.kind[n] = "leaf" ->
         LeafOutcome(e[n]) # "unknown" => v[n] = (LeafOutcome(e[n]) = "true")
    [] t.kind[n] = "not" -> \A c \in t.children[n] : v[n] = ~v[c]
    [] t.kind[n] = "all" -> v[n] = (\A c \in t.children[n] : v[c])
    [] t.kind[n] = "any" -> v[n] = (\E c \in t.children[n] : v[c])

IsReadingOf(t, e, v) == \A n \in 1..t.size : ReadsAs(t, e, v, n)

IsReading(v) == IsReadingOf(tree, test, v)

Readings == {v \in [1..tree.size -> BOOLEAN] : IsReading(v)}

\* An outcome of "true" or "false" is certain: whatever the values the event lacks
\* would have been, the node reads that way.  Above all, negation never turns
\* absent evidence into a match (docs/detection-engine-scope.md).
DecidedIsCertain ==
  \A n \in 1..Len(trace) : trace[n] # "unknown" =>
    \A v \in [1..tree.size -> BOOLEAN] : IsReading(v) => v[n] = (trace[n] = "true")

\* An outcome of "unknown" is never idle: some value the event lacks would make the
\* node true and another would make it false, so no match is given away.  (Every leaf is
\* read for itself: the code does not notice that two leaves name the same field.)
UnknownIsUndecided ==
  \A n \in 1..Len(trace) : trace[n] = "unknown" =>
    /\ \E v \in Readings : v[n]
    /\ \E v \in Readings : ~v[n]

\* A returned trace covers every node, and no leaf that fails its checks stays
\* hidden behind a sibling that already decides the outcome: there is no
\* short-circuiting (docs/architecture/detection-engine.md).
NothingSkipped ==
  /\ status = "returned" =>
       /\ Len(trace) = tree.size
       /\ \A n \in Leaves : test[n].valid
  /\ status = "raised" =>
       /\ trace = <<>>
       /\ \E n \in Leaves : ~test[n].valid

=============================================================================
