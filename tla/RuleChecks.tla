------------------------------ MODULE RuleChecks ------------------------------
(***************************************************************************)
(* The checks a detection rule meets: those of its own models in models/   *)
(* detection.py, the static ones of detection/semantics.py, which need no  *)
(* event, and those _evaluate_leaf of detection/evaluator.py makes of a    *)
(* leaf and an event.  As in ConditionEvaluator, the nodes of a condition  *)
(* are numbered children first, so its leaves are met in ascending order.  *)
(***************************************************************************)
EXTENDS EventModels, FiniteSets, Sequences, FiniteSetsExt

CONSTANTS
  AnySource,    \* the sources of a rule that declares none
  Segments,     \* the names _SEGMENT matches
  Addresses,    \* the texts ip_address accepts
  Networks,     \* the texts ip_network accepts
  Timestamps,   \* the texts fromisoformat reads as an aware instant astimezone can produce
  MaxDepth,     \* 8 in the code
  MaxLeaves     \* 64 in the code

EXISTENCE_OPERATORS == {"exists", "not_exists"}
ORDER_OPERATORS == {"greater_than", "greater_or_equal", "less_than", "less_or_equal"}
TEXT_OPERATORS == {"contains", "starts_with", "ends_with"}
LIST_OPERATORS == {"contains_any", "in", "not_in"}

DetectionOperator ==
  EXISTENCE_OPERATORS \cup ORDER_OPERATORS \cup TEXT_OPERATORS \cup LIST_OPERATORS
    \cup {"equals", "not_equals", "ip_in_cidr"}

COMMON_FIELDS ==
  [source |-> "string", provider |-> "string", event_id |-> "integer", channel |-> "string",
   timestamp |-> "timestamp", computer |-> "string", record_id |-> "integer",
   category |-> "string"]

CONTEXT_FIELDS ==
  [authentication |->
     [outcome |-> "string", user |-> "string", domain |-> "string", logon_type |-> "integer",
      source_ip |-> "ip", source_port |-> "integer", workstation |-> "string"],
   process |->
     [image |-> "string", process_id |-> "integer", command_line |-> "string",
      parent_process_id |-> "integer", parent_image |-> "string", user |-> "string"],
   network |->
     [source_ip |-> "ip", source_port |-> "integer", destination_ip |-> "ip",
      destination_port |-> "integer", protocol |-> "string", process_id |-> "integer",
      process_image |-> "string"],
   file |-> [target_path |-> "string", process_id |-> "integer", process_image |-> "string"],
   dns |->
     [query_name |-> "string", query_status |-> "string", query_results |-> "string",
      process_id |-> "integer", process_image |-> "string"]]

\* The context class the semantic checks expect: a table of their own.
CONTEXT_TYPES ==
  [authentication |-> "AuthenticationContext", process |-> "ProcessContext",
   network |-> "NetworkContext", file |-> "FileContext", dns |-> "DnsContext"]

(***************************************************************************)
(* Conditions.  The path of a leaf is split at its first dot: space is     *)
(* "source_data" or "context" for what begins with that prefix, whatever   *)
(* follows (the name may hold further dots, and is then no segment),       *)
(* "event" for a bare name and "other" for the rest.  An operand is a      *)
(* typed scalar or a list of them; Omitted is a field that the rule does   *)
(* not set, and an explicit null is None.                                  *)
(***************************************************************************)

Omitted == [type |-> "omitted"]
List(items) == [type |-> "list", items |-> items]

\* Every node but the last, the root, is a child of another.  A leaf has no list, a
\* NotCondition one child; the list of another may have been emptied since it was validated.
IsTree(t) ==
  /\ t.size \in Nat \ {0}
  /\ t.kind \in [1..t.size -> {"leaf", "not", "all", "any"}]
  /\ t.children \in [1..t.size -> SUBSET (1..t.size)]
  /\ \A n \in 1..t.size :
       /\ \A c \in t.children[n] : c < n
       /\ t.kind[n] = "leaf" => t.children[n] = {}
       /\ t.kind[n] = "not" => \E c \in t.children[n] : t.children[n] = {c}
  /\ \A c \in 1..(t.size - 1) : \E n \in 1..t.size : c \in t.children[n]

LeavesOf(t) == {n \in 1..t.size : t.kind[n] = "leaf"}

IsRule(r) ==
  /\ IsTree(r.condition)
  /\ DOMAIN r.leaf = LeavesOf(r.condition)
  /\ \A c \in r.categories : c \in EventCategory

ASSUME LimitsAssumption == MaxDepth \in Nat /\ MaxLeaves \in Nat
ASSUME SegmentsAssumption == \A c \in EventCategory : DOMAIN CONTEXT_FIELDS[c] \subseteq Segments

-----------------------------------------------------------------------------
(* Structure: LeafCondition, DetectionRule.                                *)

ValidPath(path) ==
  \/ path.space = "event" /\ path.name \in DOMAIN COMMON_FIELDS
  \/ path.space \in {"context", "source_data"} /\ path.name \in Segments

Items(v) == {v.items[i] : i \in DOMAIN v.items}

ValidOperand(op, v) ==
  /\ op \in LIST_OPERATORS =>
       /\ v.type = "list" /\ v.items # <<>>
       /\ \E as \in (IF op = "contains_any" THEN {"str"} ELSE {"str", "int"}) :
            \A item \in Items(v) : item.type = as
  /\ op \in ORDER_OPERATORS => v.type = "int"
  /\ op \in TEXT_OPERATORS \cup {"ip_in_cidr"} => v.type = "str"
  /\ op \in {"equals", "not_equals"} => v.type \in {"str", "int"}

ValidLeaf(leaf) ==
  /\ leaf.op \in DetectionOperator
  /\ ValidPath(leaf.field)
  /\ IF leaf.op \in EXISTENCE_OPERATORS
     THEN leaf.value = Omitted
     ELSE leaf.value # Omitted /\ ValidOperand(leaf.op, leaf.value)

\* Mutant: leaves add no level.
DepthFromZero(t) ==
  LET depth[n \in 1..t.size] ==
        IF t.kind[n] = "leaf" THEN 0 ELSE 1 + Max({depth[c] : c \in t.children[n]})
  IN depth[t.size]

\* Depth and number of leaves of a condition.
Depth(t) ==
  LET depth[n \in 1..t.size] ==
        IF t.kind[n] = "leaf" THEN 1 ELSE 1 + Max({depth[c] : c \in t.children[n]})
  IN depth[t.size]

LeafCount(t) ==
  LET count[n \in 1..t.size] ==
        IF t.kind[n] = "leaf" THEN 1
        ELSE MapThenSumSet(LAMBDA c : count[c], t.children[n])
  IN count[t.size]

\* AllCondition and AnyCondition are of one or more conditions.
NoneEmpty(t) == \A n \in 1..t.size : t.kind[n] = "leaf" \/ t.children[n] # {}

UsesSourceData(r) == \E n \in DOMAIN r.leaf : r.leaf[n].field.space = "source_data"

\* well_formed: the ID, version, title and description, and no category or source is
\* listed twice.
Constructs(r) ==
  /\ r.well_formed /\ r.categories # {}
  /\ \A n \in DOMAIN r.leaf : ValidLeaf(r.leaf[n])
  /\ NoneEmpty(r.condition)
  /\ Depth(r.condition) <= MaxDepth /\ LeafCount(r.condition) <= MaxLeaves
  /\ UsesSourceData(r) => r.sources # AnySource

-----------------------------------------------------------------------------
(* Semantics: field_type, validated_operands, _validate_node.  The result  *)
(* is "none" or the reason of the error raised.                            *)

NoType == "no type"

FieldType(path, category) ==
  IF path.space = "event" /\ path.name \in DOMAIN COMMON_FIELDS
  THEN COMMON_FIELDS[path.name]
  ELSE IF path.space = "context" /\ path.name \in DOMAIN CONTEXT_FIELDS[category]
  THEN CONTEXT_FIELDS[category][path.name]
  ELSE IF path.space = "source_data" /\ path.name \in Segments THEN "string"
  ELSE NoType

IsLiteral(kind, v) ==
  \/ kind = "integer" /\ v.type = "int"
  \/ kind = "string" /\ v.type = "str"
  \/ kind = "ip" /\ v.type = "str" /\ v.text \in Addresses
  \/ kind = "timestamp" /\ v.type = "str" /\ v.text \in Timestamps

\* Mutant: an empty list is let through.
ListErrorUnlessTyped(kind, leaf) ==
  IF leaf.value.type # "list" THEN "invalid_operand_list"
  ELSE IF \A item \in Items(leaf.value) : IsLiteral(kind, item)
  THEN "none" ELSE "invalid_literal_type_or_value"

ListError(kind, leaf) ==
  IF leaf.value.type # "list" \/ leaf.value.items = <<>> THEN "invalid_operand_list"
  ELSE IF \A item \in Items(leaf.value) : IsLiteral(kind, item)
  THEN "none" ELSE "invalid_literal_type_or_value"

OperandError(kind, leaf) ==
  IF leaf.op \notin DetectionOperator THEN "unsupported_operator"
  ELSE IF leaf.op \in EXISTENCE_OPERATORS
  THEN IF leaf.value = Omitted THEN "none" ELSE "unexpected_operand"
  ELSE IF \/ leaf.op \in TEXT_OPERATORS \cup {"contains_any"} /\ kind # "string"
          \/ leaf.op \in ORDER_OPERATORS /\ kind # "integer"
          \/ leaf.op = "ip_in_cidr" /\ kind # "ip"
  THEN "incompatible_field_type"
  ELSE IF leaf.op = "ip_in_cidr"
  THEN IF leaf.value.type = "str" /\ leaf.value.text \in Networks THEN "none" ELSE "invalid_cidr"
  ELSE IF leaf.op \in LIST_OPERATORS THEN ListError(kind, leaf)
  ELSE IF IsLiteral(kind, leaf.value) THEN "none" ELSE "invalid_literal_type_or_value"

\* Mutant: it is enough that the leaf makes sense for one category.
LeafErrorOneCategory(leaf, categories, sources) ==
  IF leaf.field.space = "source_data" /\ sources = AnySource THEN "sources_required"
  ELSE IF \E c \in categories : OperandError(FieldType(leaf.field, c), leaf) = "none"
  THEN "none" ELSE "incompatible_category_types"

\* The two errors about the rule's targets quote op.value, which only a member has.
TargetError(reason, leaf) == IF leaf.op \in DetectionOperator THEN reason ELSE "AttributeError"

\* Mutant: more than one kind is refused, and none at all is not.
LeafErrorOfNoKind(leaf, categories, sources) ==
  LET kinds == {FieldType(leaf.field, c) : c \in categories}
  IN IF leaf.field.space = "source_data" /\ sources = AnySource
     THEN TargetError("sources_required", leaf)
     ELSE IF NoType \in kinds THEN "invalid_field"
     ELSE IF kinds = {} THEN "IndexError"
     ELSE IF \A kind \in kinds : kinds # {kind}
     THEN TargetError("incompatible_category_types", leaf)
     ELSE OperandError(CHOOSE kind \in kinds : TRUE, leaf)

LeafError(leaf, categories, sources) ==
  LET kinds == {FieldType(leaf.field, c) : c \in categories}
  IN IF leaf.field.space = "source_data" /\ sources = AnySource
     THEN TargetError("sources_required", leaf)
     ELSE IF NoType \in kinds THEN "invalid_field"
     ELSE IF \A kind \in kinds : kinds # {kind}
     THEN TargetError("incompatible_category_types", leaf)
     ELSE OperandError(CHOOSE kind \in kinds : TRUE, leaf)

-----------------------------------------------------------------------------
(* What the evaluator checks of a leaf and an event.                       *)

Value(path, e) ==
  IF path.space = "source_data" THEN e.source_data[path.name]
  ELSE IF path.space = "context" THEN e.context[path.name]
  ELSE e.own[path.name]

IsPresent(path, e) ==
  IF path.space = "source_data"
  THEN path.name \in DOMAIN e.source_data
  ELSE Value(path, e) # None

\* Enum members stand for their text.
HasKind(kind, v) ==
  \/ kind = "string" /\ v.type \in {"str", "enum"}
  \/ kind = "integer" /\ v.type = "int"
  \/ kind = "ip" /\ v.type = "ip"
  \/ kind = "timestamp" /\ v.type = "datetime"

\* Attributes can be deleted too: model_dump then has no value under the name.
Lacks(e, path) ==
  \/ path.space = "context" /\ path.name \notin DOMAIN e.context
  \/ path.space = "event" /\ path.name \notin DOMAIN e.own

ResolveError(path, e) ==
  IF FieldType(path, e.category) = NoType THEN "invalid_field"
  ELSE IF path.space = "context" /\ e.context_type # CONTEXT_TYPES[e.category]
  THEN "invalid_context_type"
  ELSE IF Lacks(e, path) THEN "invalid_evaluation_input"
  ELSE IF IsPresent(path, e) /\ ~HasKind(FieldType(path, e.category), Value(path, e))
  THEN "invalid_actual_type"
  ELSE "none"

\* The trace of a leaf is validated like any model: path, operator, operand and value.
IsValidTrace(leaf, e) ==
  /\ leaf.op \in DetectionOperator
  /\ ValidPath(leaf.field)
  /\ leaf.op \notin EXISTENCE_OPERATORS => ValidOperand(leaf.op, leaf.value)
  /\ IsPresent(leaf.field, e) =>
       Value(leaf.field, e).type \in {"str", "int", "bool", "ip", "enum", "datetime"}

\* astimezone overflows for an aware time too close to the limits of datetime.
Overflows(leaf, e) ==
  /\ leaf.op \notin EXISTENCE_OPERATORS
  /\ IsPresent(leaf.field, e)
  /\ Value(leaf.field, e).type = "datetime"
  /\ ~Value(leaf.field, e).in_range

\* Mutant: the operand is looked at only when there is a value to compare it with.
EvaluationErrorIfPresent(leaf, e) ==
  IF ResolveError(leaf.field, e) # "none" THEN ResolveError(leaf.field, e)
  ELSE IF ~IsPresent(leaf.field, e) THEN "none"
  ELSE IF OperandError(FieldType(leaf.field, e.category), leaf) # "none"
  THEN OperandError(FieldType(leaf.field, e.category), leaf)
  ELSE IF Overflows(leaf, e) \/ ~IsValidTrace(leaf, e) THEN "invalid_evaluation_input"
  ELSE "none"

EvaluationError(leaf, e) ==
  IF ResolveError(leaf.field, e) # "none" THEN ResolveError(leaf.field, e)
  ELSE IF OperandError(FieldType(leaf.field, e.category), leaf) # "none"
  THEN OperandError(FieldType(leaf.field, e.category), leaf)
  ELSE IF Overflows(leaf, e) \/ ~IsValidTrace(leaf, e) THEN "invalid_evaluation_input"
  ELSE "none"

=============================================================================
