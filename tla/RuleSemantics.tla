----------------------------- MODULE RuleSemantics -----------------------------
(***************************************************************************)
(* The life of a detection rule: validated by its model, checked by        *)
(* validate_detection_rule_semantics when it is loaded, and evaluated on   *)
(* events, where the evaluator checks it again.  Rules and events are      *)
(* ordinary objects that a caller may change after they were validated.    *)
(***************************************************************************)
EXTENDS RuleChecks

CONSTANTS
  Rules,        \* DetectionRule objects, validated or not; see IsRule
  EditedRules,  \* those a caller's edit may leave
  Events,       \* NormalizedEvent objects, valid or changed since
  NoEvent

ASSUME RulesAssumption == EditedRules \subseteq Rules /\ \A r \in Rules : IsRule(r)
ASSUME MarkAssumption == NoEvent \notin Events
\* A changed event still has one of the categories and a source of its own.
ASSUME EventsAssumption ==
  \A e \in Events : e.category \in EventCategory /\ AnySource # {e.source}

VARIABLES
  pc,          \* "construct", "check", "idle", "evaluate" or, for a rule refused, "end"
  rule,        \* the rule in the caller's hands
  constructed, \* whether it is as DetectionRule's own validation left it
  node,        \* the node of its condition the walk or the evaluation is at
  verdict,     \* of validate_detection_rule_semantics: "none", "accepted" or what it raised
  event,       \* the event under evaluation, or NoEvent
  outcome      \* of evaluate_condition: "none", "returned" or its error

vars == <<pc, rule, constructed, node, verdict, event, outcome>>

\* Nodes each of which is nested in the next.
IsChain(t, nodes) ==
  \A n \in nodes :
    /\ \A m \in nodes : n < m => \E p \in nodes : n \in t.children[p]
    /\ Cardinality(t.children[n] \cap nodes) <= 1

\* Walk and evaluator recurse, and what is nested deeper than a rule may be can exhaust
\* the interpreter's stack; how deep it must be is not said.
MayExhaust(t) ==
  \E nodes \in SUBSET (1..t.size) : IsChain(t, nodes) /\ Cardinality(nodes) > MaxDepth

\* A rule is given to validation, or was made without (model_construct, model_copy).
Init ==
  /\ pc \in {"construct", "idle"}
  /\ rule \in Rules /\ constructed = FALSE
  /\ node = 1
  /\ verdict = "none"
  /\ event = NoEvent /\ outcome = "none"

\* DetectionRule.model_validate, which a refused rule does not survive.
RefuseRule ==
  /\ pc = "construct" /\ ~Constructs(rule)
  /\ pc' = "end"
  /\ UNCHANGED <<rule, constructed, node, verdict, event, outcome>>

ConstructRule ==
  /\ pc = "construct" /\ Constructs(rule)
  /\ pc' = "check"
  /\ constructed' = TRUE
  /\ UNCHANGED <<rule, node, verdict, event, outcome>>

\* _validate_node: only a leaf can be at fault, and the first one ends the walk.
Passes(n) ==
  n \in DOMAIN rule.leaf => LeafError(rule.leaf[n], rule.categories, rule.sources) = "none"

CheckNode ==
  /\ pc = "check" /\ node <= rule.condition.size
  /\ Passes(node)
  /\ node' = node + 1
  /\ UNCHANGED <<pc, rule, constructed, verdict, event, outcome>>

RejectLeaf ==
  /\ pc = "check" /\ node <= rule.condition.size
  /\ ~Passes(node)
  /\ pc' = "idle"
  /\ verdict' = LeafError(rule.leaf[node], rule.categories, rule.sources)
  /\ UNCHANGED <<rule, constructed, node, event, outcome>>

\* Nothing translates the RecursionError of the walk.
ExhaustWalk ==
  /\ pc = "check" /\ MayExhaust(rule.condition)
  /\ pc' = "idle"
  /\ verdict' = "RecursionError"
  /\ UNCHANGED <<rule, constructed, node, event, outcome>>

AcceptRule ==
  /\ pc = "check" /\ node > rule.condition.size
  /\ pc' = "idle"
  /\ verdict' = "accepted"
  /\ UNCHANGED <<rule, constructed, node, event, outcome>>

\* A constructed rule is a plain mutable object: the caller may give it another
\* condition, operand or target, which nothing validates.
\* (An evaluation leaves nothing behind, so that edits come before it is no loss.)
EditRule ==
  /\ pc = "idle" /\ event = NoEvent
  /\ \E r \in EditedRules \ {rule} : rule' = r
  /\ constructed' = FALSE
  /\ node' = 1
  /\ verdict' = "none"
  /\ UNCHANGED <<pc, event, outcome>>

CheckAgain ==
  /\ pc = "idle"
  /\ pc' = "check"
  /\ node' = 1
  /\ verdict' = "none"
  /\ event' = NoEvent /\ outcome' = "none"
  /\ UNCHANGED <<rule, constructed>>

\* evaluate_condition.  It takes the condition alone, accepted or not, of a rule that
\* targets the event or does not.
BeginEvaluation ==
  /\ pc = "idle"
  /\ \E e \in Events : event' = e
  /\ pc' = "evaluate"
  /\ node' = 1
  /\ outcome' = "none"
  /\ UNCHANGED <<rule, constructed, verdict>>

\* The trace of a node over children is refused when there are none.
NodeError(n) ==
  IF n \in DOMAIN rule.leaf THEN EvaluationError(rule.leaf[n], event)
  ELSE IF rule.condition.children[n] = {} THEN "invalid_evaluation_input" ELSE "none"

Evaluates(n) == NodeError(n) = "none"

EvaluateNode ==
  /\ pc = "evaluate" /\ node <= rule.condition.size
  /\ Evaluates(node)
  /\ node' = node + 1
  /\ UNCHANGED <<pc, rule, constructed, verdict, event, outcome>>

RaiseAtNode ==
  /\ pc = "evaluate" /\ node <= rule.condition.size
  /\ ~Evaluates(node)
  /\ pc' = "idle"
  /\ outcome' = NodeError(node)
  /\ UNCHANGED <<rule, constructed, node, verdict, event>>

\* That of the evaluator is one of those evaluate_condition translates.
ExhaustEvaluation ==
  /\ pc = "evaluate" /\ MayExhaust(rule.condition)
  /\ pc' = "idle"
  /\ outcome' = "invalid_evaluation_input"
  /\ UNCHANGED <<rule, constructed, node, verdict, event>>

ReturnTrace ==
  /\ pc = "evaluate" /\ node > rule.condition.size
  /\ pc' = "idle"
  /\ outcome' = "returned"
  /\ UNCHANGED <<rule, constructed, node, verdict, event>>

Next ==
  \/ RefuseRule \/ ConstructRule \/ CheckNode \/ RejectLeaf \/ ExhaustWalk \/ AcceptRule
  \/ EditRule \/ CheckAgain \/ BeginEvaluation \/ EvaluateNode \/ RaiseAtNode
  \/ ExhaustEvaluation \/ ReturnTrace

Spec == Init /\ [][Next]_vars

-----------------------------------------------------------------------------
(* Properties.                                                             *)

LeafErrors ==
  {"sources_required", "invalid_field", "incompatible_category_types", "unsupported_operator",
   "unexpected_operand", "incompatible_field_type", "invalid_cidr", "invalid_operand_list",
   "invalid_literal_type_or_value", "AttributeError"}

EvaluationErrors ==
  LeafErrors \cup {"invalid_context_type", "invalid_actual_type", "invalid_evaluation_input"}

\* Walk and evaluation stay within the condition, evaluation has an event, and the checks
\* raise nothing but the errors they declare, or else the exhaustion of the stack.
TypeOK ==
  /\ pc \in {"construct", "check", "idle", "evaluate", "end"}
  /\ IsRule(rule)
  /\ node \in 1..(rule.condition.size + 1)
  /\ verdict \in LeafErrors \cup {"none", "accepted", "RecursionError"}
  /\ constructed \in BOOLEAN
  /\ event \in Events \cup {NoEvent}
  /\ outcome \in EvaluationErrors \cup {"none", "returned"}
  /\ pc = "evaluate" => event \in Events

Raised == outcome \notin {"none", "returned"}

HasUtcTime(e) == e.own["timestamp"].in_range

\* A rule that was accepted, and not changed since, never makes the evaluator raise on a
\* valid event of a category it targets, whatever optional fields that event lacks, unless
\* a list of conditions in it is empty or its nesting exhausts the stack, which the
\* semantic checks do not look for.  The three tables of fields - the event models, the
\* semantic types, the context classes - and the two sets of operand checks agree.  (An
\* event whose aware time has no UTC equivalent is the exception.)
AcceptedNeverRaises ==
  (/\ verdict = "accepted" /\ event # NoEvent
   /\ NoneEmpty(rule.condition) /\ ~MayExhaust(rule.condition)
   /\ IsValidEvent(event) /\ HasUtcTime(event)
   /\ event.category \in rule.categories) => ~Raised

\* A leaf is refused for a reason: but for the two errors about the rule's targets, the
\* evaluator refuses that leaf too, on every valid event of some category the rule
\* targets, even if the field is absent.  (A changed rule may target no category at all.)
RefusalsAreReal ==
  (/\ verdict \in LeafErrors \ {"sources_required", "incompatible_category_types"}
   /\ rule.categories # {}) =>
    \E n \in DOMAIN rule.leaf : \E c \in rule.categories : \A e \in Events :
      (IsValidEvent(e) /\ e.category = c) => EvaluationError(rule.leaf[n], e) # "none"

\* Whether an event has an attribute for every field the semantic checks know.
IsWhole(e) ==
  /\ DOMAIN COMMON_FIELDS \subseteq DOMAIN e.own
  /\ e.context_type = CONTEXT_TYPES[e.category] =>
       DOMAIN CONTEXT_FIELDS[e.category] \subseteq DOMAIN e.context

\* Nothing the checks let through is refused when the evidence is built: the trace of a
\* leaf fails its own validation for no rule and no event, so an evaluation fails only for
\* what the checks found, for an attribute that was deleted, for a time without a UTC
\* equivalent, for an emptied list, or for nesting beyond what validation allows.
EvidenceCanBeBuilt ==
  outcome = "invalid_evaluation_input" =>
    \/ ~IsWhole(event) \/ ~HasUtcTime(event)
    \/ ~NoneEmpty(rule.condition) \/ MayExhaust(rule.condition)

\* A rule that was constructed nests at most MaxDepth nodes and has at most MaxLeaves
\* leaves, however the tree is shaped: the recursion of the evaluator is bounded.
ConstructedIsBounded ==
  constructed =>
    /\ Cardinality(LeavesOf(rule.condition)) <= MaxLeaves
    /\ \A nodes \in SUBSET (1..rule.condition.size) :
         IsChain(rule.condition, nodes) => Cardinality(nodes) <= MaxDepth

=============================================================================
