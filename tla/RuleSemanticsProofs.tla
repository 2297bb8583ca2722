--------------------------- MODULE RuleSemanticsProofs ---------------------------
(***************************************************************************)
(* Proofs about RuleSemantics: the two sets of checks agree for every      *)
(* rule, event and library verdict on texts.                               *)
(***************************************************************************)
EXTENDS RuleSemantics, FiniteSetTheorems, TLAPS

-----------------------------------------------------------------------------
(* The tables.                                                             *)

LEMMA ModelTable ==
  /\ ModelFields["NormalizedEvent"] = NormalizedEvent
  /\ ModelFields[CONTEXT_TYPE_BY_CATEGORY["authentication"]] = AuthenticationContext
  /\ ModelFields[CONTEXT_TYPE_BY_CATEGORY["process"]] = ProcessContext
  /\ ModelFields[CONTEXT_TYPE_BY_CATEGORY["network"]] = NetworkContext
  /\ ModelFields[CONTEXT_TYPE_BY_CATEGORY["file"]] = FileContext
  /\ ModelFields[CONTEXT_TYPE_BY_CATEGORY["dns"]] = DnsContext
BY DEF ModelFields, CONTEXT_TYPE_BY_CATEGORY

(***************************************************************************)
(* The fields a semantic table declares for a category are those of the    *)
(* model, and what the model accepts is of the declared kind.              *)
(***************************************************************************)
Declares(kind, as) ==
  \/ kind = "string" /\ as \in {"Enum", "StrictStr", "NonEmptyString"}
  \/ kind = "integer" /\ as \in {"NonNegativeInteger", "PositiveInteger", "Port"}
  \/ kind = "ip" /\ as = "IPvAnyAddress"
  \/ kind = "timestamp" /\ as = "AwareDatetime"

Agree(kinds, model) ==
  /\ DOMAIN kinds = DOMAIN model
  /\ \A f \in DOMAIN kinds : Declares(kinds[f], model[f].as)

LEMMA AcceptedHasKind ==
  ASSUME NEW kind, NEW as, NEW v, Declares(kind, as), Accepts(as, v)
  PROVE HasKind(kind, v)
BY DEF Declares, Accepts, HasKind

LEMMA AuthenticationContextAgrees ==
  Agree(CONTEXT_FIELDS["authentication"], AuthenticationContext)
<1>1. CONTEXT_FIELDS["authentication"] =
      [outcome |-> "string", user |-> "string", domain |-> "string", logon_type |-> "integer",
       source_ip |-> "ip", source_port |-> "integer", workstation |-> "string"]
  BY DEF CONTEXT_FIELDS
<1>2. DOMAIN CONTEXT_FIELDS["authentication"] = DOMAIN AuthenticationContext
  BY <1>1 DEF AuthenticationContext
<1> QED  BY <1>1, <1>2 DEF Agree, Declares, AuthenticationContext, Required, Optional

LEMMA ProcessContextAgrees ==
  Agree(CONTEXT_FIELDS["process"], ProcessContext)
<1>1. CONTEXT_FIELDS["process"] =
      [image |-> "string", process_id |-> "integer", command_line |-> "string",
       parent_process_id |-> "integer", parent_image |-> "string", user |-> "string"]
  BY DEF CONTEXT_FIELDS
<1>2. DOMAIN CONTEXT_FIELDS["process"] = DOMAIN ProcessContext
  BY <1>1 DEF ProcessContext
<1> QED  BY <1>1, <1>2 DEF Agree, Declares, ProcessContext, Required, Optional

LEMMA NetworkContextAgrees ==
  Agree(CONTEXT_FIELDS["network"], NetworkContext)
<1>1. CONTEXT_FIELDS["network"] =
      [source_ip |-> "ip", source_port |-> "integer", destination_ip |-> "ip",
       destination_port |-> "integer", protocol |-> "string", process_id |-> "integer",
       process_image |-> "string"]
  BY DEF CONTEXT_FIELDS
<1>2. DOMAIN CONTEXT_FIELDS["network"] = DOMAIN NetworkContext
  BY <1>1 DEF NetworkContext
<1> QED  BY <1>1, <1>2 DEF Agree, Declares, NetworkContext, Required, Optional

LEMMA FileContextAgrees ==
  Agree(CONTEXT_FIELDS["file"], FileContext)
<1>1. CONTEXT_FIELDS["file"] =
      [target_path |-> "string", process_id |-> "integer", process_image |-> "string"]
  BY DEF CONTEXT_FIELDS
<1>2. DOMAIN CONTEXT_FIELDS["file"] = DOMAIN FileContext
  BY <1>1 DEF FileContext
<1> QED  BY <1>1, <1>2 DEF Agree, Declares, FileContext, Required, Optional

LEMMA DnsContextAgrees ==
  Agree(CONTEXT_FIELDS["dns"], DnsContext)
<1>1. CONTEXT_FIELDS["dns"] =
      [query_name |-> "string", query_status |-> "string", query_results |-> "string",
       process_id |-> "integer", process_image |-> "string"]
  BY DEF CONTEXT_FIELDS
<1>2. DOMAIN CONTEXT_FIELDS["dns"] = DOMAIN DnsContext
  BY <1>1 DEF DnsContext
<1> QED  BY <1>1, <1>2 DEF Agree, Declares, DnsContext, Required, Optional

LEMMA ContextTables ==
  \A c \in EventCategory :
    Agree(CONTEXT_FIELDS[c], ModelFields[CONTEXT_TYPE_BY_CATEGORY[c]])
BY ModelTable, AuthenticationContextAgrees, ProcessContextAgrees, NetworkContextAgrees,
   FileContextAgrees, DnsContextAgrees DEF EventCategory

LEMMA CommonTable ==
  Agree(COMMON_FIELDS, NormalizedEvent)
<1>1. DOMAIN COMMON_FIELDS = DOMAIN NormalizedEvent
  BY DEF COMMON_FIELDS, NormalizedEvent
<1> QED  BY <1>1 DEF Agree, Declares, COMMON_FIELDS, NormalizedEvent, Required, Optional

LEMMA ClassTables ==
  \A c \in EventCategory : CONTEXT_TYPES[c] = CONTEXT_TYPE_BY_CATEGORY[c]
BY DEF EventCategory, CONTEXT_TYPES, CONTEXT_TYPE_BY_CATEGORY

LEMMA FieldTypePath ==
  ASSUME NEW c \in EventCategory, NEW path, FieldType(path, c) # NoType
  PROVE ValidPath(path)
BY SegmentsAssumption DEF FieldType, ValidPath

-----------------------------------------------------------------------------
(* Leaves.                                                                 *)

\* An operand the semantic checks accept is one the models accept: the trace that
\* quotes it can be built.
LEMMA CheckedOperandIsValid ==
  ASSUME NEW kind, NEW leaf, OperandError(kind, leaf) = "none",
         leaf.op \notin EXISTENCE_OPERATORS
  PROVE ValidOperand(leaf.op, leaf.value)
<1>1. CASE leaf.op \in LIST_OPERATORS
  <2>1. ListError(kind, leaf) = "none"
    BY <1>1 DEF OperandError, EXISTENCE_OPERATORS, ORDER_OPERATORS, TEXT_OPERATORS,
                LIST_OPERATORS, DetectionOperator
  <2>2. /\ leaf.value.type = "list" /\ leaf.value.items # <<>>
        /\ \A item \in Items(leaf.value) : IsLiteral(kind, item)
    BY <2>1 DEF ListError
  <2>3. leaf.op = "contains_any" => kind = "string"
    BY DEF OperandError, EXISTENCE_OPERATORS, ORDER_OPERATORS, TEXT_OPERATORS,
           LIST_OPERATORS, DetectionOperator
  <2>4. \E as \in (IF leaf.op = "contains_any" THEN {"str"} ELSE {"str", "int"}) :
          \A item \in Items(leaf.value) : item.type = as
    <3>1. CASE kind = "integer"
      BY <3>1, <2>2, <2>3 DEF IsLiteral
    <3>2. CASE kind # "integer"
      BY <3>2, <2>2, <2>3 DEF IsLiteral
    <3> QED  BY <3>1, <3>2
  <2> QED
    BY <1>1, <2>2, <2>4 DEF ValidOperand, LIST_OPERATORS, ORDER_OPERATORS, TEXT_OPERATORS
<1>2. CASE leaf.op \notin LIST_OPERATORS
  BY <1>2 DEF OperandError, ValidOperand, IsLiteral, EXISTENCE_OPERATORS, ORDER_OPERATORS,
              TEXT_OPERATORS, LIST_OPERATORS, DetectionOperator
<1> QED  BY <1>1, <1>2

\* Static acceptance says for every category what the evaluator will ask.
LEMMA AcceptedLeaf ==
  ASSUME NEW leaf, NEW categories, NEW sources, NEW c \in categories,
         LeafError(leaf, categories, sources) = "none"
  PROVE /\ FieldType(leaf.field, c) # NoType
        /\ OperandError(FieldType(leaf.field, c), leaf) = "none"
<1> DEFINE kinds == {FieldType(leaf.field, d) : d \in categories}
<1>1. /\ NoType \notin kinds
      /\ \E kind \in kinds : kinds = {kind}
      /\ OperandError(CHOOSE kind \in kinds : TRUE, leaf) = "none"
  BY DEF LeafError, TargetError
<1>2. FieldType(leaf.field, c) \in kinds
  OBVIOUS
<1>3. kinds = {FieldType(leaf.field, c)}
  BY <1>1, <1>2
<1>4. (CHOOSE kind \in kinds : TRUE) = FieldType(leaf.field, c)
  BY <1>3
<1> QED  BY <1>1, <1>2, <1>4

\* A field of the event's category, in a valid event, holds nothing or a value of its kind.
LEMMA ValidEventsResolve ==
  ASSUME NEW e, NEW path, IsValidEvent(e), FieldType(path, e.category) # NoType
  PROVE ResolveError(path, e) = "none"
<1> DEFINE model == CONTEXT_TYPE_BY_CATEGORY[e.category]
<1>0. /\ e.category \in EventCategory
      /\ e.context_type = model /\ CONTEXT_TYPES[e.category] = model
      /\ IsInstanceOf(e.own, "NormalizedEvent")
      /\ IsInstanceOf(e.context, model)
      /\ \A name \in DOMAIN e.source_data : e.source_data[name].type = "str"
  BY ClassTables DEF IsValidEvent
<1>0a. DOMAIN e.own = DOMAIN COMMON_FIELDS /\ DOMAIN e.context = DOMAIN CONTEXT_FIELDS[e.category]
  BY <1>0, CommonTable, ModelTable, ContextTables DEF IsInstanceOf, Agree
<1>0b. ~Lacks(e, path)
  BY <1>0a DEF FieldType, Lacks
<1> SUFFICES ASSUME IsPresent(path, e)
             PROVE HasKind(FieldType(path, e.category), Value(path, e))
  BY <1>0, <1>0b DEF ResolveError
<1>1. CASE path.space = "event" /\ path.name \in DOMAIN COMMON_FIELDS
  <2>1. FieldType(path, e.category) = COMMON_FIELDS[path.name]
    BY <1>1 DEF FieldType
  <2>2. Value(path, e) = e.own[path.name] /\ Value(path, e) # None
    BY <1>1 DEF Value, IsPresent
  <2>3. path.name \in DOMAIN ModelFields["NormalizedEvent"]
    BY <1>1, CommonTable, ModelTable DEF Agree
  <2>4. Accepts(ModelFields["NormalizedEvent"][path.name].as, Value(path, e))
    BY <1>0, <2>2, <2>3 DEF IsInstanceOf
  <2> QED  BY <1>1, <2>1, <2>4, CommonTable, ModelTable, AcceptedHasKind DEF Agree
<1>2. CASE path.space = "context" /\ path.name \in DOMAIN CONTEXT_FIELDS[e.category]
  <2>1. FieldType(path, e.category) = CONTEXT_FIELDS[e.category][path.name]
    BY <1>2 DEF FieldType
  <2>2. Value(path, e) = e.context[path.name] /\ Value(path, e) # None
    BY <1>2 DEF Value, IsPresent
  <2>3. path.name \in DOMAIN ModelFields[model]
    BY <1>0, <1>2, ContextTables DEF Agree
  <2>4. Accepts(ModelFields[model][path.name].as, Value(path, e))
    BY <1>0, <2>2, <2>3 DEF IsInstanceOf
  <2> QED  BY <1>0, <1>2, <2>1, <2>4, ContextTables, AcceptedHasKind DEF Agree
<1>3. CASE path.space = "source_data"
  BY <1>0, <1>3 DEF FieldType, IsPresent, Value, HasKind
<1> QED  BY <1>1, <1>2, <1>3 DEF FieldType

\* Only the event's own timestamp is a time.
LEMMA TimesAreTimestamps ==
  ASSUME NEW e, NEW path, e.category \in EventCategory,
         FieldType(path, e.category) # NoType, ResolveError(path, e) = "none",
         IsPresent(path, e), Value(path, e).type = "datetime"
  PROVE Value(path, e) = e.own["timestamp"]
<1>1. FieldType(path, e.category) = "timestamp"
  BY DEF ResolveError, HasKind
<1>2. \A f \in DOMAIN COMMON_FIELDS : COMMON_FIELDS[f] = "timestamp" => f = "timestamp"
  BY DEF COMMON_FIELDS
<1>3. \A f \in DOMAIN CONTEXT_FIELDS[e.category] : CONTEXT_FIELDS[e.category][f] # "timestamp"
  BY DEF CONTEXT_FIELDS, EventCategory
<1> QED  BY <1>1, <1>2, <1>3 DEF FieldType, NoType, Value

\* A leaf the checks of the evaluator let through has a trace that can be built.
LEMMA CheckedLeafTraces ==
  ASSUME NEW leaf, NEW e, e.category \in EventCategory,
         ResolveError(leaf.field, e) = "none",
         OperandError(FieldType(leaf.field, e.category), leaf) = "none"
  PROVE IsValidTrace(leaf, e)
<1>1. FieldType(leaf.field, e.category) # NoType
  BY DEF ResolveError
<1>2. leaf.op \in DetectionOperator
  BY DEF OperandError
<1>3. ValidPath(leaf.field)
  BY <1>1, FieldTypePath
<1>4. leaf.op \notin EXISTENCE_OPERATORS => ValidOperand(leaf.op, leaf.value)
  BY CheckedOperandIsValid
<1>5. IsPresent(leaf.field, e) =>
        Value(leaf.field, e).type \in {"str", "int", "bool", "ip", "enum", "datetime"}
  BY <1>1 DEF ResolveError, HasKind
<1> QED  BY <1>2, <1>3, <1>4, <1>5 DEF IsValidTrace

\* A field of the category can be missing only where the event lost an attribute.
LEMMA LackingIsNotWhole ==
  ASSUME NEW path, NEW e, ResolveError(path, e) = "invalid_evaluation_input"
  PROVE ~IsWhole(e)
<1>1. /\ FieldType(path, e.category) # NoType
      /\ path.space = "context" => e.context_type = CONTEXT_TYPES[e.category]
      /\ Lacks(e, path)
  BY DEF ResolveError
<1> QED  BY <1>1 DEF Lacks, FieldType, IsWhole

\* What can still fail when a leaf is evaluated is the conversion of the event's time.
LEMMA OnlyTheTimeFails ==
  ASSUME NEW leaf, NEW e, e.category \in EventCategory, IsWhole(e),
         EvaluationError(leaf, e) = "invalid_evaluation_input"
  PROVE ~HasUtcTime(e)
<1>1. ResolveError(leaf.field, e) = "none"
  BY LackingIsNotWhole DEF EvaluationError
<1>2. OperandError(FieldType(leaf.field, e.category), leaf) = "none"
  BY <1>1 DEF EvaluationError, OperandError, ListError
<1>3. Overflows(leaf, e)
  BY <1>1, <1>2, CheckedLeafTraces DEF EvaluationError
<1>4. FieldType(leaf.field, e.category) # NoType
  BY <1>1 DEF ResolveError
<1> QED  BY <1>1, <1>3, <1>4, TimesAreTimestamps DEF Overflows, HasUtcTime

\* The static checks are all that evaluation on a valid event of a target needs.
LEMMA AcceptedLeafEvaluates ==
  ASSUME NEW leaf, NEW categories, NEW sources, NEW e,
         LeafError(leaf, categories, sources) = "none",
         IsValidEvent(e), HasUtcTime(e), e.category \in categories
  PROVE EvaluationError(leaf, e) = "none"
<1>0. e.category \in EventCategory
  BY DEF IsValidEvent
<1>1. /\ FieldType(leaf.field, e.category) # NoType
      /\ OperandError(FieldType(leaf.field, e.category), leaf) = "none"
  BY AcceptedLeaf
<1>2. ResolveError(leaf.field, e) = "none"
  BY <1>1, ValidEventsResolve
<1>3. EvaluationError(leaf, e) \in {"none", "invalid_evaluation_input"}
  BY <1>1, <1>2 DEF EvaluationError
<1>4. IsWhole(e)
  BY <1>0, ClassTables, CommonTable, ModelTable, ContextTables
     DEF IsValidEvent, IsInstanceOf, Agree, IsWhole
<1> QED  BY <1>0, <1>3, <1>4, OnlyTheTimeFails

\* And the evaluator asks of the event's own category all that the static checks would.
LEMMA EvaluatedLeafIsAccepted ==
  ASSUME NEW leaf, NEW e, AnySource # {e.source}, EvaluationError(leaf, e) = "none"
  PROVE LeafError(leaf, {e.category}, {e.source}) = "none"
<1> DEFINE kind == FieldType(leaf.field, e.category)
           kinds == {FieldType(leaf.field, c) : c \in {e.category}}
<1>1. ResolveError(leaf.field, e) = "none" /\ OperandError(kind, leaf) = "none"
  BY DEF EvaluationError
<1>2. kind # NoType
  BY <1>1 DEF ResolveError
<1>3. kinds = {kind} /\ (CHOOSE k \in kinds : TRUE) = kind
  <2>1. kinds = {kind}
    OBVIOUS
  <2> QED  BY <2>1
<1> QED  BY <1>1, <1>2, <1>3 DEF LeafError, TargetError

LEMMA OperandErrorRange ==
  ASSUME NEW kind, NEW leaf
  PROVE OperandError(kind, leaf) \in LeafErrors \cup {"none"}
BY DEF OperandError, ListError, LeafErrors

LEMMA LeafErrorRange ==
  ASSUME NEW leaf, NEW categories, NEW sources
  PROVE LeafError(leaf, categories, sources) \in LeafErrors \cup {"none"}
<1>1. TargetError("sources_required", leaf) \in LeafErrors
  BY DEF TargetError, LeafErrors
<1>2. TargetError("incompatible_category_types", leaf) \in LeafErrors
  BY DEF TargetError, LeafErrors
<1>3. "invalid_field" \in LeafErrors
  BY DEF LeafErrors
<1> QED  BY <1>1, <1>2, <1>3, OperandErrorRange DEF LeafError

LEMMA EvaluationErrorRange ==
  ASSUME NEW leaf, NEW e
  PROVE EvaluationError(leaf, e) \in EvaluationErrors \cup {"none"}
<1>1. ResolveError(leaf.field, e) \in EvaluationErrors \cup {"none"}
  BY DEF ResolveError, EvaluationErrors, LeafErrors
<1>2. OperandError(FieldType(leaf.field, e.category), leaf) \in EvaluationErrors \cup {"none"}
  BY OperandErrorRange DEF EvaluationErrors
<1>3. "invalid_evaluation_input" \in EvaluationErrors
  BY DEF EvaluationErrors
<1> QED  BY <1>1, <1>2, <1>3 DEF EvaluationError

LEMMA NodeErrorRange ==
  ASSUME NEW n
  PROVE NodeError(n) \in EvaluationErrors \cup {"none"}
<1>1. "invalid_evaluation_input" \in EvaluationErrors
  BY DEF EvaluationErrors
<1> QED  BY <1>1, EvaluationErrorRange DEF NodeError

-----------------------------------------------------------------------------
(* The walk and the evaluation: a node that was passed, passes; an error   *)
(* is that of a node.                                                      *)

StateOK ==
  /\ pc \in {"construct", "check", "idle", "evaluate", "end"}
  /\ IsRule(rule)
  /\ node \in 1..(rule.condition.size + 1)
  /\ constructed \in BOOLEAN

WalkOK ==
  /\ verdict \in LeafErrors \cup {"none", "accepted", "RecursionError"}
  /\ verdict = "accepted" => \A n \in DOMAIN rule.leaf : Passes(n)
  /\ pc = "construct" => node = 1 /\ verdict = "none"
  /\ pc = "check" => verdict = "none" /\ \A n \in DOMAIN rule.leaf : n < node => Passes(n)

EvaluationOK ==
  /\ event \in Events \cup {NoEvent}
  /\ outcome \in EvaluationErrors \cup {"none", "returned"}
  /\ outcome # "none" => event \in Events
  /\ pc = "evaluate" =>
       /\ event \in Events /\ outcome = "none"
       /\ \A n \in 1..rule.condition.size : n < node => Evaluates(n)
  /\ outcome = "returned" => \A n \in 1..rule.condition.size : Evaluates(n)
  /\ Raised => \/ \E n \in 1..rule.condition.size : outcome = NodeError(n)
               \/ outcome = "invalid_evaluation_input" /\ MayExhaust(rule.condition)

LEMMA LeavesAreNodes ==
  ASSUME StateOK
  PROVE /\ rule.condition.size \in Nat /\ node \in Nat
        /\ \A n \in DOMAIN rule.leaf : n \in Nat /\ 1 <= n /\ n <= rule.condition.size
BY DEF StateOK, IsRule, IsTree, LeavesOf

LEMMA InitOK == Init => StateOK /\ WalkOK /\ EvaluationOK
<1> SUFFICES ASSUME Init PROVE StateOK /\ WalkOK /\ EvaluationOK
  OBVIOUS
<1>1. IsRule(rule)
  BY RulesAssumption DEF Init
<1>2. StateOK
  <2>1. rule.condition.size \in Nat
    BY <1>1 DEF IsRule, IsTree
  <2>2. constructed \in BOOLEAN
    BY DEF Init
  <2>3. node \in 1..(rule.condition.size + 1)
    BY <2>1 DEF Init
  <2>4. pc \in {"construct", "check", "idle", "evaluate", "end"}
    BY DEF Init
  <2> QED  BY <1>1, <2>2, <2>3, <2>4 DEF StateOK
<1>3. WalkOK
  BY DEF Init, WalkOK
<1>4. EvaluationOK
  BY DEF Init, EvaluationOK, Raised
<1> QED  BY <1>2, <1>3, <1>4

LEMMA StateStep == StateOK /\ [Next]_vars => StateOK'
<1> SUFFICES ASSUME StateOK, [Next]_vars PROVE StateOK'
  OBVIOUS
<1>1. IsRule(rule')
  <2>1. EditRule \/ rule' = rule
    BY DEF Next, vars, RefuseRule, ConstructRule, CheckNode, RejectLeaf, AcceptRule,
       CheckAgain, BeginEvaluation, EvaluateNode, RaiseAtNode, ReturnTrace, ExhaustWalk,
     ExhaustEvaluation
  <2>2. CASE EditRule
    BY <2>2, RulesAssumption DEF EditRule
  <2>3. CASE rule' = rule
    BY <2>3 DEF StateOK
  <2> QED  BY <2>1, <2>2, <2>3
<1>2. node' \in 1..(rule'.condition.size + 1)
  <2>1. rule'.condition.size \in Nat
    BY <1>1 DEF IsRule, IsTree
  <2>2. CASE node' = 1
    BY <2>1, <2>2
  <2>3. CASE rule' = rule /\ node' = node
    BY <2>3 DEF StateOK
  <2>4. CASE rule' = rule /\ node' = node + 1 /\ node <= rule.condition.size
    BY <2>1, <2>4 DEF StateOK
  <2> QED
    BY <2>2, <2>3, <2>4 DEF Next, vars, RefuseRule, ConstructRule, CheckNode, RejectLeaf,
       AcceptRule, EditRule, CheckAgain, BeginEvaluation, EvaluateNode, RaiseAtNode,
     ReturnTrace, ExhaustWalk, ExhaustEvaluation
<1>3. pc' \in {"construct", "check", "idle", "evaluate", "end"}
  BY DEF StateOK, Next, vars, RefuseRule, ConstructRule, CheckNode, RejectLeaf, AcceptRule,
     EditRule, CheckAgain, BeginEvaluation, EvaluateNode, RaiseAtNode, ReturnTrace,
     ExhaustWalk, ExhaustEvaluation
<1>4. constructed' \in BOOLEAN
  BY ZenonT(30) DEF StateOK, Next, vars, RefuseRule, ConstructRule, CheckNode, RejectLeaf,
     AcceptRule, EditRule, CheckAgain, BeginEvaluation, EvaluateNode, RaiseAtNode,
     ReturnTrace, ExhaustWalk, ExhaustEvaluation
<1> QED  BY <1>1, <1>2, <1>3, <1>4 DEF StateOK

LEMMA WalkStep == StateOK /\ WalkOK /\ [Next]_vars => WalkOK'
<1> SUFFICES ASSUME StateOK, WalkOK, [Next]_vars PROVE WalkOK'
  OBVIOUS
<1>1. ASSUME rule' = rule, NEW n PROVE Passes(n)' <=> Passes(n)
  BY <1>1 DEF Passes
<1> USE LeavesAreNodes DEF WalkOK
<1>2. CASE ConstructRule
  BY <1>2, <1>1 DEF ConstructRule
<1>3. CASE CheckNode
  <2>1. \A n \in DOMAIN rule.leaf : n < node + 1 => n < node \/ n = node
    OBVIOUS
  <2> QED  BY <1>3, <1>1, <2>1 DEF CheckNode
<1>4. CASE RejectLeaf
  <2>1. verdict' \in LeafErrors
    BY <1>4, LeafErrorRange DEF RejectLeaf, Passes
  <2> QED  BY <1>4, <1>1, <2>1 DEF RejectLeaf, LeafErrors
<1>5. CASE AcceptRule
  <2>1. \A n \in DOMAIN rule.leaf : n < node
    BY <1>5 DEF AcceptRule
  <2> QED  BY <1>5, <1>1, <2>1 DEF AcceptRule
<1>5a. CASE ExhaustWalk
  BY <1>5a DEF ExhaustWalk
<1>6. CASE EditRule
  BY <1>6 DEF EditRule
<1>7. CASE CheckAgain
  BY <1>7, <1>1 DEF CheckAgain, StateOK, IsRule, IsTree, LeavesOf
<1>8. CASE \/ RefuseRule \/ BeginEvaluation \/ EvaluateNode \/ RaiseAtNode
           \/ ExhaustEvaluation \/ ReturnTrace
  BY <1>8, <1>1 DEF RefuseRule, BeginEvaluation, EvaluateNode, RaiseAtNode, ExhaustEvaluation,
     ReturnTrace
<1>9. CASE UNCHANGED vars
  BY <1>9, <1>1 DEF vars
<1> QED  BY <1>2, <1>3, <1>4, <1>5, <1>5a, <1>6, <1>7, <1>8, <1>9 DEF Next

LEMMA EvaluationStep == StateOK /\ EvaluationOK /\ [Next]_vars => EvaluationOK'
<1> SUFFICES ASSUME StateOK, EvaluationOK, [Next]_vars PROVE EvaluationOK'
  OBVIOUS
<1>1. ASSUME rule' = rule, event' = event, NEW n
      PROVE NodeError(n)' = NodeError(n) /\ (Evaluates(n)' <=> Evaluates(n))
  BY <1>1 DEF Evaluates, NodeError
<1> USE LeavesAreNodes, MarkAssumption DEF EvaluationOK, Raised
<1>2. CASE EditRule
  BY <1>2 DEF EditRule
<1>3. CASE CheckAgain
  BY <1>3 DEF CheckAgain
<1>4. CASE BeginEvaluation
  BY <1>4 DEF BeginEvaluation, StateOK
<1>5. CASE EvaluateNode
  <2>1. \A n \in 1..rule.condition.size : n < node + 1 => n < node \/ n = node
    OBVIOUS
  <2> QED  BY <1>5, <1>1, <2>1 DEF EvaluateNode
<1>6. CASE RaiseAtNode
  <2>1. node \in 1..rule.condition.size /\ NodeError(node) # "none"
    BY <1>6 DEF RaiseAtNode, Evaluates, StateOK
  <2>2. outcome' \in EvaluationErrors /\ outcome' # "none"
    BY <1>6, <2>1, NodeErrorRange DEF RaiseAtNode
  <2>3. "returned" \notin EvaluationErrors
    BY DEF EvaluationErrors, LeafErrors
  <2>4. PICK n \in 1..rule.condition.size : n = node
    BY <2>1
  <2>5. NodeError(n)' = NodeError(n) /\ rule' = rule /\ event' = event
    BY <1>6, <1>1 DEF RaiseAtNode
  <2> QED  BY <1>6, <2>1, <2>2, <2>3, <2>4, <2>5 DEF RaiseAtNode
<1>6a. CASE ExhaustEvaluation
  <2>1. outcome' \in EvaluationErrors
    BY <1>6a DEF ExhaustEvaluation, EvaluationErrors
  <2> QED  BY <1>6a, <2>1 DEF ExhaustEvaluation
<1>7. CASE ReturnTrace
  <2>1. \A n \in 1..rule.condition.size : n < node
    BY <1>7 DEF ReturnTrace
  <2> QED  BY <1>7, <1>1, <2>1 DEF ReturnTrace
<1>8. CASE RefuseRule \/ ConstructRule \/ CheckNode \/ RejectLeaf \/ ExhaustWalk \/ AcceptRule
  BY <1>8, <1>1 DEF RefuseRule, ConstructRule, CheckNode, RejectLeaf, ExhaustWalk, AcceptRule
<1>9. CASE UNCHANGED vars
  BY <1>9, <1>1 DEF vars
<1> QED  BY <1>2, <1>3, <1>4, <1>5, <1>6, <1>6a, <1>7, <1>8, <1>9 DEF Next

THEOREM Invariant == Spec => [](StateOK /\ WalkOK /\ EvaluationOK)
<1>1. Init => StateOK /\ WalkOK /\ EvaluationOK
  BY InitOK
<1>2. StateOK /\ WalkOK /\ EvaluationOK /\ [Next]_vars => (StateOK /\ WalkOK /\ EvaluationOK)'
  BY StateStep, WalkStep, EvaluationStep
<1> QED  BY <1>1, <1>2, PTL DEF Spec

\* Walk and evaluation stay within the condition, evaluation has an event, and the two
\* errors are of their declared kinds.
THEOREM TypesHold == Spec => []TypeOK
<1>1. StateOK /\ WalkOK /\ EvaluationOK => TypeOK
  BY DEF StateOK, WalkOK, EvaluationOK, TypeOK
<1> QED  BY <1>1, Invariant, PTL

\* What validate_detection_rule_semantics accepted, and nobody changed, evaluate_condition
\* never refuses on a valid event of a target category, whatever the tables' three
\* libraries of texts say and whatever the events hold, unless a list of conditions is empty
\* or the nesting exhausts the stack.
THEOREM AcceptanceSuffices == Spec => []AcceptedNeverRaises
<1>1. StateOK /\ WalkOK /\ EvaluationOK => AcceptedNeverRaises
  <2> SUFFICES ASSUME StateOK, WalkOK, EvaluationOK, verdict = "accepted", event # NoEvent,
                      NoneEmpty(rule.condition), ~MayExhaust(rule.condition),
                      IsValidEvent(event), HasUtcTime(event), event.category \in rule.categories, Raised
               PROVE FALSE
    BY DEF AcceptedNeverRaises
  <2>1. PICK n \in DOMAIN rule.leaf : outcome = EvaluationError(rule.leaf[n], event)
    <3>1. PICK n \in 1..rule.condition.size : outcome = NodeError(n) /\ outcome # "none"
      BY DEF EvaluationOK, Raised
    <3>2. n \in DOMAIN rule.leaf
      BY <3>1 DEF NodeError, NoneEmpty, StateOK, IsRule, LeavesOf
    <3> QED  BY <3>1, <3>2 DEF NodeError
  <2>2. LeafError(rule.leaf[n], rule.categories, rule.sources) = "none"
    BY DEF WalkOK, Passes
  <2>3. EvaluationError(rule.leaf[n], event) = "none"
    BY <2>2, AcceptedLeafEvaluates
  <2> QED  BY <2>1, <2>3 DEF Raised
<1> QED  BY <1>1, Invariant, PTL

\* The evaluator does not rely on the loader: a condition it gets through, of a rule
\* edited or never accepted, has no empty list and passes the static checks for the
\* event's own category.
EvaluatedIsChecked ==
  outcome = "returned" =>
    /\ NoneEmpty(rule.condition)
    /\ \A n \in DOMAIN rule.leaf :
         LeafError(rule.leaf[n], {event.category}, {event.source}) = "none"

\* The evaluator relies on nobody: what it returns a trace for passes the static checks
\* for the event's category, whether or not any loader looked at the rule.
THEOREM EvaluationSuffices == Spec => []EvaluatedIsChecked
<1>1. StateOK /\ WalkOK /\ EvaluationOK => EvaluatedIsChecked
  <2> SUFFICES ASSUME StateOK, EvaluationOK, outcome = "returned"
               PROVE EvaluatedIsChecked
    BY DEF EvaluatedIsChecked
  <2>1. ASSUME NEW n \in DOMAIN rule.leaf
        PROVE LeafError(rule.leaf[n], {event.category}, {event.source}) = "none"
    <3>1. n \in 1..rule.condition.size
      BY DEF StateOK, IsRule, LeavesOf
    <3>2. EvaluationError(rule.leaf[n], event) = "none" /\ event \in Events
      BY <3>1 DEF EvaluationOK, Evaluates, NodeError
    <3> QED  BY <3>2, EventsAssumption, EvaluatedLeafIsAccepted
  <2>2. NoneEmpty(rule.condition)
    <3>1. \A n \in 1..rule.condition.size : Evaluates(n)
      BY DEF EvaluationOK
    <3> QED  BY <3>1 DEF NoneEmpty, Evaluates, NodeError, StateOK, IsRule, LeavesOf
  <2> QED  BY <2>1, <2>2 DEF EvaluatedIsChecked
<1> QED  BY <1>1, Invariant, PTL

\* Evidence for what the checks let through always passes its own validation; only a deleted
\* attribute, a time without a UTC equivalent, an emptied list and an exhausted stack are
\* left to fail.
THEOREM EvidenceIsBuilt == Spec => []EvidenceCanBeBuilt
<1>1. StateOK /\ WalkOK /\ EvaluationOK => EvidenceCanBeBuilt
  <2> SUFFICES ASSUME StateOK, EvaluationOK, outcome = "invalid_evaluation_input",
                      NoneEmpty(rule.condition), ~MayExhaust(rule.condition), IsWhole(event)
               PROVE ~HasUtcTime(event)
    BY DEF EvidenceCanBeBuilt
  <2>1. PICK n \in DOMAIN rule.leaf : outcome = EvaluationError(rule.leaf[n], event)
    <3>1. PICK n \in 1..rule.condition.size : outcome = NodeError(n) /\ outcome # "none"
      BY DEF EvaluationOK, Raised
    <3>2. n \in DOMAIN rule.leaf
      BY <3>1 DEF NodeError, NoneEmpty, StateOK, IsRule, LeavesOf
    <3> QED  BY <3>1, <3>2 DEF NodeError
  <2>2. event.category \in EventCategory
    BY EventsAssumption DEF EvaluationOK
  <2> QED  BY <2>1, <2>2, OnlyTheTimeFails
<1> QED  BY <1>1, Invariant, PTL

-----------------------------------------------------------------------------
(* Refusals.                                                               *)

\* A leaf refused for itself, not for the rule's targets, is refused by the evaluator on
\* any event of one of the categories.
LEMMA RefusedLeafRaises ==
  ASSUME NEW leaf, NEW categories, NEW sources, categories # {},
         LeafError(leaf, categories, sources)
           \notin {"none", "sources_required", "incompatible_category_types"}
  PROVE \E c \in categories : \A e : e.category = c => EvaluationError(leaf, e) # "none"
<1>1. CASE leaf.op \notin DetectionOperator
  <2>1. \A kind : OperandError(kind, leaf) # "none"
    BY <1>1 DEF OperandError
  <2> QED  BY <2>1 DEF EvaluationError
<1>2. CASE leaf.op \in DetectionOperator
  <2> DEFINE kinds == {FieldType(leaf.field, c) : c \in categories}
  <2>1. \/ NoType \in kinds
        \/ \E kind \in kinds : kinds = {kind} /\ OperandError(kind, leaf) # "none"
    <3>1. ASSUME NoType \notin kinds
          PROVE  \E kind \in kinds : kinds = {kind} /\ OperandError(kind, leaf) # "none"
      <4>1. PICK kind \in kinds : kinds = {kind}
        BY <1>2, <3>1 DEF LeafError, TargetError
      <4>2. (CHOOSE k \in kinds : TRUE) = kind
        BY <4>1
      <4>3. OperandError(CHOOSE k \in kinds : TRUE, leaf) = LeafError(leaf, categories, sources)
        BY <1>2, <3>1, <4>1 DEF LeafError, TargetError
      <4> QED  BY <4>1, <4>2, <4>3
    <3> QED  BY <3>1
  <2>2. CASE NoType \in kinds
    <3>1. PICK c \in categories : FieldType(leaf.field, c) = NoType
      BY <2>2
    <3>2. \A e : e.category = c => ResolveError(leaf.field, e) = "invalid_field"
      BY <3>1 DEF ResolveError
    <3> QED  BY <3>2 DEF EvaluationError
  <2>3. CASE \E kind \in kinds : kinds = {kind} /\ OperandError(kind, leaf) # "none"
    <3>1. PICK c \in categories : OperandError(FieldType(leaf.field, c), leaf) # "none"
      BY <2>3
    <3> QED  BY <3>1 DEF EvaluationError
  <2> QED  BY <2>1, <2>2, <2>3
<1> QED  BY <1>1, <1>2

\* The error of the walk, where it is not exhausted, is that of one of the leaves.
RefusalOK ==
  verdict \notin {"none", "accepted", "RecursionError"} =>
    \E n \in DOMAIN rule.leaf :
      verdict = LeafError(rule.leaf[n], rule.categories, rule.sources)

LEMMA RefusalStep == RefusalOK /\ [Next]_vars => RefusalOK'
<1> SUFFICES ASSUME RefusalOK, [Next]_vars PROVE RefusalOK'
  OBVIOUS
<1>1. CASE RejectLeaf
  BY <1>1 DEF RejectLeaf, Passes, RefusalOK
<1>2. CASE ExhaustWalk \/ AcceptRule \/ EditRule \/ CheckAgain
  BY <1>2 DEF ExhaustWalk, AcceptRule, EditRule, CheckAgain, RefusalOK
<1>3. CASE \/ RefuseRule \/ ConstructRule \/ CheckNode \/ BeginEvaluation \/ EvaluateNode
           \/ RaiseAtNode \/ ExhaustEvaluation \/ ReturnTrace \/ UNCHANGED vars
  BY <1>3 DEF RefuseRule, ConstructRule, CheckNode, BeginEvaluation, EvaluateNode,
     RaiseAtNode, ExhaustEvaluation, ReturnTrace, vars, RefusalOK
<1> QED  BY <1>1, <1>2, <1>3 DEF Next

\* Whatever the rule: a refusal by the semantic checks that is not about the rule's targets
\* is of a leaf that the evaluator refuses too, on every event of some category the rule
\* targets; the static checks refuse nothing that would have worked.
THEOREM RefusalsHaveCause == Spec => []RefusalsAreReal
<1>1. Init => RefusalOK
  BY DEF Init, RefusalOK
<1>2. RefusalOK => RefusalsAreReal
  <2> SUFFICES ASSUME RefusalOK, rule.categories # {},
                      verdict \in LeafErrors \ {"sources_required", "incompatible_category_types"}
               PROVE \E n \in DOMAIN rule.leaf : \E c \in rule.categories : \A e \in Events :
                       e.category = c => EvaluationError(rule.leaf[n], e) # "none"
    BY DEF RefusalsAreReal
  <2>1. verdict \notin {"none", "accepted", "RecursionError", "sources_required",
                        "incompatible_category_types"}
    BY DEF LeafErrors
  <2>2. PICK n \in DOMAIN rule.leaf :
          verdict = LeafError(rule.leaf[n], rule.categories, rule.sources)
    BY <2>1 DEF RefusalOK
  <2> QED  BY <2>1, <2>2, RefusedLeafRaises
<1> QED  BY <1>1, <1>2, RefusalStep, PTL DEF Spec

-----------------------------------------------------------------------------
(* Numbers and nodes: what is proved of all by way of the smallest or the  *)
(* largest that would be otherwise.                                        *)

LEMMA SmallestOf ==
  ASSUME NEW S, S \subseteq Nat, S # {}
  PROVE \E x \in S : \A y \in S : x <= y
<1>1. PICK x \in S : \A y \in S : ~ (<<y, x>> \in OpToRel(<, Nat))
  BY NatLessThanWellFounded, WFMin
<1>2. ASSUME NEW y \in S PROVE ~ (y < x)
  BY <1>1 DEF OpToRel
<1> QED  BY <1>2

LEMMA LargestOf ==
  ASSUME NEW b \in Nat, NEW S, S \subseteq 0..b, S # {}
  PROVE \E x \in S : \A y \in S : y <= x
<1> DEFINE T == {k \in Nat : \A y \in S : y <= k}
<1>1. b \in T
  OBVIOUS
<1>2. PICK k \in T : \A j \in T : k <= j
  BY <1>1, SmallestOf
<1>3. k \in S
  <2> SUFFICES ASSUME k \notin S PROVE FALSE
    OBVIOUS
  <2>1. PICK y \in S : TRUE
    OBVIOUS
  <2>2. k > 0
    BY <2>1
  <2>3. k - 1 \in T
    BY <2>2
  <2> QED  BY <1>2, <2>3
<1> QED  BY <1>3

LEMMA MaxIs ==
  ASSUME NEW b \in Nat, NEW S, S \subseteq 0..b, S # {}
  PROVE Max(S) \in S /\ \A y \in S : Max(S) >= y
<1>1. \E x \in S : \A y \in S : x >= y
  BY LargestOf
<1> QED  BY <1>1 DEF Max

LEMMA NodesAreFinite ==
  ASSUME NEW t, IsTree(t), NEW S, S \subseteq 1..t.size
  PROVE IsFiniteSet(S) /\ Cardinality(S) \in Nat
<1>1. t.size \in Nat
  BY DEF IsTree
<1>2. IsFiniteSet(1..t.size)
  BY <1>1, FS_Interval
<1>3. IsFiniteSet(S)
  BY <1>2, FS_Subset
<1> QED  BY <1>3, FS_CardinalityType

LEMMA LowestNode ==
  ASSUME NEW t, IsTree(t), NEW S, S \subseteq 1..t.size, S # {}
  PROVE \E x \in S : \A y \in S : x <= y
<1>1. S \subseteq Nat
  BY DEF IsTree
<1> QED  BY <1>1, SmallestOf

LEMMA HighestNode ==
  ASSUME NEW t, IsTree(t), NEW S, S \subseteq 1..t.size, S # {}
  PROVE \E x \in S : \A y \in S : y <= x
<1>1. t.size \in Nat /\ S \subseteq 0..t.size
  BY DEF IsTree
<1> QED  BY <1>1, LargestOf

-----------------------------------------------------------------------------
(* The depth _measure computes is a function of the nodes that obeys its   *)
(* recursion, and no chain of nested nodes is longer.                      *)

DepthBody(t, f, n) == IF t.kind[n] = "leaf" THEN 1 ELSE 1 + Max({f[c] : c \in t.children[n]})

IsDepth(t, f, k) == f = [n \in 1..k |-> DepthBody(t, f, n)]

LEMMA DepthExtends ==
  ASSUME NEW t, IsTree(t), NEW k \in Nat, k < t.size, NEW f, IsDepth(t, f, k)
  PROVE \E g : IsDepth(t, g, k + 1)
<1> DEFINE g == [n \in 1..(k + 1) |-> IF n \in 1..k THEN f[n] ELSE DepthBody(t, f, n)]
<1>1. ASSUME NEW n \in 1..(k + 1) PROVE DepthBody(t, g, n) = DepthBody(t, f, n)
  <2>1. \A c \in t.children[n] : c \in 1..k
    BY DEF IsTree
  <2>2. \A c \in t.children[n] : g[c] = f[c]
    BY <2>1
  <2>3. {g[c] : c \in t.children[n]} = {f[c] : c \in t.children[n]}
    BY <2>2
  <2> QED  BY <2>3 DEF DepthBody
<1>2. ASSUME NEW n \in 1..(k + 1) PROVE g[n] = DepthBody(t, f, n)
  <2>1. f = [m \in 1..k |-> DepthBody(t, f, m)]
    BY DEF IsDepth
  <2> QED  BY <2>1
<1> HIDE DEF g
<1>3. g = [n \in 1..(k + 1) |-> g[n]]
  BY DEF g
<1>4. g = [n \in 1..(k + 1) |-> DepthBody(t, g, n)]
  BY <1>1, <1>2, <1>3
<1> QED  BY <1>4 DEF IsDepth

LEMMA DepthExists ==
  ASSUME NEW t, IsTree(t)
  PROVE \E f : IsDepth(t, f, t.size)
<1> DEFINE T == {k \in Nat : k <= t.size /\ ~ \E f : IsDepth(t, f, k)}
<1> SUFFICES ASSUME T # {} PROVE FALSE
  BY DEF IsTree
<1>1. PICK k \in T : \A j \in T : k <= j
  BY SmallestOf
<1>2. k # 0
  <2>1. IsDepth(t, [n \in {} |-> 0], 0)
    <3>1. 1..0 = {}
      OBVIOUS
    <3> QED  BY <3>1 DEF IsDepth
  <2> QED  BY <2>1
<1>3. PICK j \in Nat : j + 1 = k /\ j \notin T /\ j < t.size /\ j <= t.size
  <2>1. k - 1 \in Nat /\ k - 1 + 1 = k /\ k - 1 \notin T /\ k - 1 < t.size /\ k - 1 <= t.size
    BY <1>1, <1>2 DEF IsTree
  <2> QED  BY <2>1
<1>4. \E f : IsDepth(t, f, j)
  BY <1>3
<1>5. \E g : IsDepth(t, g, j + 1)
  BY <1>3, <1>4, DepthExtends
<1> QED  BY <1>3, <1>5

LEMMA DepthIs ==
  ASSUME NEW t, IsTree(t)
  PROVE \E f : IsDepth(t, f, t.size) /\ Depth(t) = f[t.size]
<1> DEFINE depth == CHOOSE f : IsDepth(t, f, t.size)
<1>1. IsDepth(t, depth, t.size)
  BY DepthExists
<1>2. Depth(t) = depth[t.size]
  BY DEF Depth, IsDepth, DepthBody
<1> HIDE DEF depth
<1> QED  BY <1>1, <1>2

LEMMA DepthValues ==
  ASSUME NEW t, IsTree(t), NoneEmpty(t), NEW d, IsDepth(t, d, t.size)
  PROVE \A n \in 1..t.size : d[n] \in 1..n
<1> DEFINE T == {n \in 1..t.size : d[n] \notin 1..n}
<1> SUFFICES ASSUME T # {} PROVE FALSE
  OBVIOUS
<1>0. t.size \in Nat
  BY DEF IsTree
<1>1. PICK n \in T : \A m \in T : n <= m
  BY LowestNode
<1>2. d[n] = DepthBody(t, d, n)
  BY DEF IsDepth
<1>3. t.kind[n] # "leaf"
  BY <1>0, <1>2 DEF DepthBody
<1>4. \A c \in t.children[n] : c \in 1..t.size /\ c < n
  BY DEF IsTree
<1>5. \A c \in t.children[n] : d[c] \in 1..c
  BY <1>0, <1>1, <1>4
<1>6. {d[c] : c \in t.children[n]} \subseteq 1..(n - 1)
  BY <1>0, <1>4, <1>5
<1>7. {d[c] : c \in t.children[n]} # {}
  <2>1. t.children[n] # {}
    BY <1>3 DEF NoneEmpty
  <2> QED  BY <2>1
<1>8. Max({d[c] : c \in t.children[n]}) \in 1..(n - 1)
  <2>1. n \in Nat
    BY <1>0
  <2>2. {d[c] : c \in t.children[n]} \subseteq 0..n
    <3>1. 1..(n - 1) \subseteq 0..n
      BY <2>1
    <3> QED  BY <1>6, <3>1
  <2> QED  BY <1>6, <1>7, <2>1, <2>2, MaxIs
<1> QED  BY <1>0, <1>2, <1>3, <1>8 DEF DepthBody

LEMMA ChildIsShallower ==
  ASSUME NEW t, IsTree(t), NoneEmpty(t), NEW d, IsDepth(t, d, t.size), NEW n \in 1..t.size,
         NEW c \in t.children[n]
  PROVE d[c] \in Nat /\ d[n] \in Nat /\ d[c] + 1 <= d[n]
<1>0. t.size \in Nat /\ t.children[n] \in SUBSET (1..t.size)
  BY DEF IsTree
<1>1. \A m \in 1..t.size : d[m] \in 1..m
  BY DepthValues
<1>2. {d[m] : m \in t.children[n]} \subseteq 0..t.size
  BY <1>0, <1>1
<1>3. Max({d[m] : m \in t.children[n]}) >= d[c]
  BY <1>0, <1>2, MaxIs
<1>4. Max({d[m] : m \in t.children[n]}) \in 0..t.size
  BY <1>0, <1>2, MaxIs
<1>5. d[n] = 1 + Max({d[m] : m \in t.children[n]})
  BY DEF IsDepth, DepthBody, IsTree
<1> QED  BY <1>0, <1>1, <1>3, <1>4, <1>5

LEMMA RootIsDeepest ==
  ASSUME NEW t, IsTree(t), NoneEmpty(t), NEW d, IsDepth(t, d, t.size), NEW n \in 1..t.size
  PROVE d[n] <= d[t.size]
<1> DEFINE T == {m \in 1..t.size : ~ (d[m] <= d[t.size])}
<1> SUFFICES ASSUME T # {} PROVE FALSE
  OBVIOUS
<1>0. t.size \in Nat \ {0}
  BY DEF IsTree
<1>1. \A m \in 1..t.size : d[m] \in 1..m
  BY DepthValues
<1>2. PICK m \in T : \A k \in T : k <= m
  BY HighestNode
<1>3. m # t.size
  BY <1>0, <1>1
<1>4. PICK p \in 1..t.size : m \in t.children[p]
  BY <1>0, <1>3 DEF IsTree
<1>5. m < p
  BY <1>4 DEF IsTree
<1>6. p \notin T
  BY <1>0, <1>2, <1>5
<1>7. d[m] + 1 <= d[p]
  BY <1>4, ChildIsShallower
<1> QED  BY <1>0, <1>1, <1>6, <1>7

\* A chain is at most as long as its topmost node is deep: without that node it is one too,
\* of a child of it.
LEMMA ChainWithoutTop ==
  ASSUME NEW t, IsTree(t), NEW nodes \in SUBSET (1..t.size), IsChain(t, nodes),
         NEW k \in nodes, \A n \in nodes : n <= k,
         NEW j \in nodes \ {k}, \A n \in nodes \ {k} : n <= j
  PROVE j \in t.children[k] /\ IsChain(t, nodes \ {k})
<1>0. t.size \in Nat /\ \A n \in 1..t.size : \A c \in t.children[n] : c < n
  BY DEF IsTree
<1>1. j \in t.children[k]
  <2>0. j \in Nat /\ k \in Nat /\ j <= k /\ j # k
    BY <1>0
  <2>1. PICK p \in nodes : j \in t.children[p]
    <3>1. j < k
      BY <2>0
    <3> QED  BY <3>1 DEF IsChain
  <2>2. p \in Nat /\ j < p
    BY <1>0, <2>1
  <2>3. p \notin nodes \ {k}
    BY <2>0, <2>2
  <2> QED  BY <2>1, <2>3
<1>2. ASSUME NEW n \in nodes \ {k}, NEW m \in nodes \ {k}, n < m
      PROVE \E p \in nodes \ {k} : n \in t.children[p]
  <2>1. PICK p \in nodes : n \in t.children[p]
    BY <1>2 DEF IsChain
  <2>2. p # k
    <3> SUFFICES ASSUME p = k PROVE FALSE
      OBVIOUS
    <3> DEFINE S == t.children[k] \cap nodes
    <3>1. n \in S /\ j \in S /\ n # j
      BY <1>0, <1>1, <1>2, <2>1
    <3>2. Cardinality(S) <= 1
      BY DEF IsChain
    <3>3. IsFiniteSet(S)
      BY NodesAreFinite
    <3> HIDE DEF S
    <3>4. {n, j} \in SUBSET S
      BY <3>1
    <3>5. Cardinality({n, j}) <= 1 /\ IsFiniteSet({n, j})
      <4>1. IsFiniteSet({n, j}) /\ Cardinality({n, j}) <= Cardinality(S)
        BY <3>3, <3>4, FS_Subset
      <4>2. Cardinality({n, j}) \in Nat /\ Cardinality(S) \in Nat
        BY <3>3, <4>1, FS_CardinalityType
      <4> QED  BY <3>2, <4>1, <4>2
    <3>6. Cardinality({n} \cup {j}) = Cardinality({n}) + 1 /\ Cardinality({n}) = 1
      BY <3>1, FS_Singleton, FS_AddElement
    <3>7. {n, j} = {n} \cup {j}
      OBVIOUS
    <3> QED  BY <3>5, <3>6, <3>7
  <2> QED  BY <2>1, <2>2
<1>3. ASSUME NEW n \in nodes \ {k}
      PROVE Cardinality(t.children[n] \cap (nodes \ {k})) <= 1
  <2> DEFINE S == t.children[n] \cap nodes
             R == t.children[n] \cap (nodes \ {k})
  <2>1. IsFiniteSet(S)
    BY NodesAreFinite
  <2>2. Cardinality(S) <= 1
    BY DEF IsChain
  <2>3. R \in SUBSET S
    OBVIOUS
  <2> HIDE DEF S, R
  <2>4. IsFiniteSet(R) /\ Cardinality(R) <= Cardinality(S)
    BY <2>1, <2>3, FS_Subset
  <2>5. Cardinality(R) \in Nat /\ Cardinality(S) \in Nat
    BY <2>1, <2>4, FS_CardinalityType
  <2>6. Cardinality(R) <= 1
    BY <2>2, <2>4, <2>5
  <2> QED  BY <2>6 DEF R
<1> QED  BY <1>1, <1>2, <1>3 DEF IsChain

LongChain(t, d, nodes, k) ==
  /\ nodes \in SUBSET (1..t.size) /\ IsChain(t, nodes)
  /\ k \in nodes /\ \A n \in nodes : n <= k
  /\ ~ (Cardinality(nodes) <= d[k])

LEMMA ChainIsShort ==
  ASSUME NEW t, IsTree(t), NoneEmpty(t), NEW d, IsDepth(t, d, t.size)
  PROVE ~ \E nodes, k : LongChain(t, d, nodes, k)
<1> DEFINE T == {k \in 1..t.size : \E nodes : LongChain(t, d, nodes, k)}
<1> SUFFICES ASSUME T # {} PROVE FALSE
  BY DEF LongChain
<1>0. t.size \in Nat /\ \A n \in 1..t.size : d[n] \in 1..n
  BY DepthValues DEF IsTree
<1>1. PICK k \in T : \A j \in T : k <= j
  BY LowestNode
<1>2. PICK nodes : LongChain(t, d, nodes, k)
  OBVIOUS
<1>2a. nodes \subseteq 1..t.size
  BY <1>2 DEF LongChain
<1>3. IsFiniteSet(nodes)
  BY <1>2a, NodesAreFinite
<1> DEFINE rest == nodes \ {k}
<1>4. IsFiniteSet(rest) /\ Cardinality(rest) = Cardinality(nodes) - 1 /\ Cardinality(rest) \in Nat
  BY <1>2, <1>3, FS_RemoveElement, FS_CardinalityType DEF LongChain
<1>5. Cardinality(nodes) \in Nat
  BY <1>3, FS_CardinalityType
<1>6. rest # {}
  <2> SUFFICES ASSUME rest = {} PROVE FALSE
    OBVIOUS
  <2>1. Cardinality(rest) = 0
    BY FS_EmptySet
  <2> HIDE DEF rest, T
  <2>2. d[k] \in 1..k
    BY <1>0, <1>2 DEF LongChain
  <2> QED  BY <1>0, <1>2, <1>4, <1>5, <2>1, <2>2 DEF LongChain
<1>7. PICK j \in rest : \A n \in rest : n <= j
  BY <1>2, <1>6, <1>2a, HighestNode
<1>8. j \in t.children[k] /\ IsChain(t, rest)
  BY <1>2, <1>7, ChainWithoutTop DEF LongChain
<1>9. j \in 1..t.size /\ j < k /\ rest \in SUBSET (1..t.size)
  BY <1>2, <1>8 DEF LongChain, IsTree
<1>10. j \notin T
  BY <1>0, <1>1, <1>9
<1>11. ~ LongChain(t, d, rest, j)
  BY <1>9, <1>10
<1> HIDE DEF T, rest
<1>12. Cardinality(rest) <= d[j]
  BY <1>7, <1>8, <1>9, <1>11 DEF LongChain
<1>13. d[j] \in Nat /\ d[k] \in Nat /\ d[j] + 1 <= d[k]
  BY <1>8, ChildIsShallower, <1>2 DEF LongChain
<1>14. Cardinality(nodes) <= d[k]
  BY <1>4, <1>5, <1>12, <1>13
<1> QED  BY <1>2, <1>14 DEF LongChain

LEMMA DepthBounds ==
  ASSUME NEW t, IsTree(t), NoneEmpty(t), NEW nodes \in SUBSET (1..t.size), IsChain(t, nodes)
  PROVE Cardinality(nodes) <= Depth(t) /\ Depth(t) \in Nat
<1>0. t.size \in Nat \ {0}
  BY DEF IsTree
<1>1. PICK d : IsDepth(t, d, t.size) /\ Depth(t) = d[t.size]
  BY DepthIs
<1>2. \A n \in 1..t.size : d[n] \in 1..n /\ d[n] <= d[t.size]
  BY <1>1, DepthValues, RootIsDeepest
<1>3. Depth(t) \in Nat /\ Depth(t) > 0
  BY <1>0, <1>1, <1>2
<1>4. CASE nodes = {}
  BY <1>3, <1>4, FS_EmptySet
<1>5. CASE nodes # {}
  <2>1. PICK k \in nodes : \A n \in nodes : n <= k
    BY <1>5, HighestNode
  <2>2. Cardinality(nodes) <= d[k]
    BY <1>1, <2>1, ChainIsShort DEF LongChain
  <2>3. Cardinality(nodes) \in Nat
    BY NodesAreFinite
  <2> QED  BY <1>0, <1>1, <1>2, <1>3, <2>2, <2>3
<1> QED  BY <1>3, <1>4, <1>5

-----------------------------------------------------------------------------
(* Sums over a set, as MapThenSumSet takes its elements one by one, bound  *)
(* the number of elements of a union.                                      *)

SumOf(f, S) == MapThenSumSet(LAMBDA c : f[c], S)

Some(s) == CHOOSE x \in s : TRUE

IsSum(sum, f, sets) ==
  sum = [s \in sets |-> IF s = {} THEN 0 ELSE f[Some(s)] + sum[s \ {Some(s)}]]

Small(S, k) == {s \in SUBSET S : Cardinality(s) <= k}

LEMMA SomeIsTaken ==
  ASSUME NEW s, IsFiniteSet(s), s # {}
  PROVE /\ Some(s) \in s /\ IsFiniteSet(s \ {Some(s)})
        /\ Cardinality(s) \in Nat /\ Cardinality(s \ {Some(s)}) \in Nat
        /\ Cardinality(s \ {Some(s)}) + 1 = Cardinality(s)
<1>1. Some(s) \in s
  BY DEF Some
<1>2. IsFiniteSet(s \ {Some(s)}) /\ Cardinality(s \ {Some(s)}) = Cardinality(s) - 1
  BY <1>1, FS_RemoveElement
<1>3. Cardinality(s) \in Nat /\ Cardinality(s \ {Some(s)}) \in Nat
  BY <1>2, FS_CardinalityType
<1> QED  BY <1>1, <1>2, <1>3

LEMMA SumExtends ==
  ASSUME NEW S, IsFiniteSet(S), NEW f, NEW k \in Nat, NEW sum, IsSum(sum, f, Small(S, k))
  PROVE \E more : IsSum(more, f, Small(S, k + 1))
<1> DEFINE term(s) == IF s = {} THEN 0 ELSE f[Some(s)] + sum[s \ {Some(s)}]
           more == [s \in Small(S, k + 1) |-> term(s)]
<1>1. ASSUME NEW s \in Small(S, k + 1), s # {}
      PROVE s \ {Some(s)} \in Small(S, k) /\ s \ {Some(s)} \in Small(S, k + 1)
  <2>1. IsFiniteSet(s)
    BY FS_Subset DEF Small
  <2>2. Cardinality(s) <= k + 1
    BY DEF Small
  <2>3. Cardinality(s \ {Some(s)}) <= k /\ Cardinality(s \ {Some(s)}) <= k + 1
    BY <1>1, <2>1, <2>2, SomeIsTaken
  <2> QED  BY <2>3 DEF Small
<1>2. ASSUME NEW s \in Small(S, k) PROVE sum[s] = term(s)
  BY DEF IsSum
<1>3. ASSUME NEW s \in Small(S, k + 1), s # {}
      PROVE more[s \ {Some(s)}] = sum[s \ {Some(s)}]
  BY <1>1, <1>2, <1>3
<1>4. more = [s \in Small(S, k + 1) |-> IF s = {} THEN 0 ELSE f[Some(s)] + more[s \ {Some(s)}]]
  <2> DEFINE step(s) == IF s = {} THEN 0 ELSE f[Some(s)] + more[s \ {Some(s)}]
  <2>1. \A s \in Small(S, k + 1) : term(s) = step(s)
    BY <1>3
  <2> HIDE DEF term, step
  <2>2. [s \in Small(S, k + 1) |-> term(s)] = [s \in Small(S, k + 1) |-> step(s)]
    BY <2>1
  <2> QED  BY <2>2 DEF step
<1> HIDE DEF more
<1> QED  BY <1>4 DEF IsSum

LEMMA SumExistsUpTo ==
  ASSUME NEW S, IsFiniteSet(S), NEW f, NEW n \in Nat
  PROVE \E sum : IsSum(sum, f, Small(S, n))
<1> DEFINE T == {k \in Nat : ~ \E sum : IsSum(sum, f, Small(S, k))}
<1> SUFFICES ASSUME T # {} PROVE FALSE
  OBVIOUS
<1>1. PICK k \in T : \A j \in T : k <= j
  BY SmallestOf
<1>2. k # 0
  <2>1. Small(S, 0) = {{}}
    <3>1. ASSUME NEW s \in SUBSET S PROVE Cardinality(s) <= 0 <=> s = {}
      <4>1. IsFiniteSet(s)
        BY FS_Subset
      <4>2. Cardinality(s) \in Nat
        BY <4>1, FS_CardinalityType
      <4> QED  BY <4>1, <4>2, FS_EmptySet
    <3> QED  BY <3>1 DEF Small
  <2>2. IsSum([s \in {{}} |-> 0], f, {{}})
    BY DEF IsSum
  <2> QED  BY <2>1, <2>2
<1>3. PICK j \in Nat : j + 1 = k /\ j \notin T
  <2>1. k - 1 \in Nat /\ k - 1 + 1 = k /\ k - 1 \notin T
    BY <1>1, <1>2
  <2> QED  BY <2>1
<1>4. \E sum : IsSum(sum, f, Small(S, j))
  BY <1>3
<1> QED  BY <1>3, <1>4, SumExtends

LEMMA SumExists ==
  ASSUME NEW S, IsFiniteSet(S), NEW f
  PROVE \E sum : IsSum(sum, f, SUBSET S)
<1>1. Cardinality(S) \in Nat
  BY FS_CardinalityType
<1>2. Small(S, Cardinality(S)) = SUBSET S
  <2>1. \A s \in SUBSET S : Cardinality(s) <= Cardinality(S)
    BY FS_Subset
  <2> QED  BY <2>1 DEF Small
<1>3. \E sum : IsSum(sum, f, Small(S, Cardinality(S)))
  BY <1>1, SumExistsUpTo
<1> QED  BY <1>2, <1>3

LEMMA SumIs ==
  ASSUME NEW S, IsFiniteSet(S), NEW f
  PROVE \E sum : IsSum(sum, f, SUBSET S) /\ SumOf(f, S) = sum[S]
<1> DEFINE iter == CHOOSE sum : IsSum(sum, f, SUBSET S)
<1>1. IsSum(iter, f, SUBSET S)
  BY SumExists
<1>2. SumOf(f, S) = iter[S]
  BY DEF SumOf, MapThenSumSet, MapThenFoldSet, IsSum, Some
<1> HIDE DEF iter
<1> QED  BY <1>1, <1>2

LEMMA SmallestSubset ==
  ASSUME NEW S, IsFiniteSet(S), NEW T, T \subseteq SUBSET S, T # {}
  PROVE \E s \in T : \A r \in T : Cardinality(s) <= Cardinality(r)
<1> DEFINE N == {Cardinality(s) : s \in T}
<1>1. \A s \in T : Cardinality(s) \in Nat
  <2>1. \A s \in T : IsFiniteSet(s)
    BY FS_Subset
  <2> QED  BY <2>1, FS_CardinalityType
<1>2. N \subseteq Nat /\ N # {}
  BY <1>1
<1>3. PICK k \in N : \A j \in N : k <= j
  BY <1>2, SmallestOf
<1> QED  BY <1>3

LEMMA SmallestWrong ==
  ASSUME NEW S, IsFiniteSet(S), NEW T, T \subseteq SUBSET S, T # {}, {} \notin T
  PROVE \E s \in SUBSET S : /\ s \in T /\ s # {} /\ Some(s) \in s
                            /\ s \ {Some(s)} \in SUBSET S /\ s \ {Some(s)} \notin T
<1>1. PICK s \in T : \A r \in T : Cardinality(s) <= Cardinality(r)
  BY SmallestSubset
<1>2. IsFiniteSet(s) /\ s # {}
  BY FS_Subset
<1>3. /\ Some(s) \in s /\ Cardinality(s) \in Nat /\ Cardinality(s \ {Some(s)}) \in Nat
      /\ Cardinality(s \ {Some(s)}) + 1 = Cardinality(s)
  BY <1>2, SomeIsTaken
<1>4. s \ {Some(s)} \notin T
  BY <1>1, <1>3
<1> QED  BY <1>2, <1>3, <1>4

LEMMA SumSame ==
  ASSUME NEW S, IsFiniteSet(S), NEW f, NEW g, \A c \in S : f[c] = g[c]
  PROVE SumOf(f, S) = SumOf(g, S)
<1>1. PICK a : IsSum(a, f, SUBSET S) /\ SumOf(f, S) = a[S]
  BY SumIs
<1>2. PICK b : IsSum(b, g, SUBSET S) /\ SumOf(g, S) = b[S]
  BY SumIs
<1> DEFINE T == {s \in SUBSET S : a[s] # b[s]}
<1> SUFFICES ASSUME T # {} PROVE FALSE
  BY <1>1, <1>2
<1>3. {} \notin T
  BY <1>1, <1>2 DEF IsSum
<1>4. PICK s \in SUBSET S : /\ s \in T /\ s # {} /\ Some(s) \in s
                            /\ s \ {Some(s)} \in SUBSET S /\ s \ {Some(s)} \notin T
  BY <1>3, SmallestWrong
<1>5. a[s] = f[Some(s)] + a[s \ {Some(s)}] /\ b[s] = g[Some(s)] + b[s \ {Some(s)}]
  BY <1>1, <1>2, <1>4 DEF IsSum
<1>6. a[s \ {Some(s)}] = b[s \ {Some(s)}]
  BY <1>4
<1> QED  BY <1>4, <1>5, <1>6

Unite(B, s) == UNION {B[c] : c \in s}

Within(B, s, n) == n \in Nat /\ IsFiniteSet(Unite(B, s)) /\ Cardinality(Unite(B, s)) <= n

LEMMA SumBounds ==
  ASSUME NEW S, IsFiniteSet(S), NEW f, NEW B,
         \A c \in S : f[c] \in Nat /\ IsFiniteSet(B[c]) /\ Cardinality(B[c]) <= f[c]
  PROVE Within(B, S, SumOf(f, S))
<1>1. PICK a : IsSum(a, f, SUBSET S) /\ SumOf(f, S) = a[S]
  BY SumIs
<1> DEFINE T == {s \in SUBSET S : ~ Within(B, s, a[s])}
<1> SUFFICES ASSUME T # {} PROVE FALSE
  BY <1>1
<1>3. {} \notin T
  <2>1. a[{}] = 0
    BY <1>1 DEF IsSum
  <2>2. Unite(B, {}) = {}
    BY DEF Unite
  <2>3. IsFiniteSet({}) /\ Cardinality({}) = 0
    BY FS_EmptySet
  <2>4. Within(B, {}, a[{}])
    BY <2>1, <2>2, <2>3 DEF Within
  <2> QED  BY <2>4
<1>4. PICK s \in SUBSET S : /\ s \in T /\ s # {} /\ Some(s) \in s
                            /\ s \ {Some(s)} \in SUBSET S /\ s \ {Some(s)} \notin T
  BY <1>3, SmallestWrong
<1> DEFINE c == Some(s)
           r == s \ {Some(s)}
<1>5. a[s] = f[c] + a[r]
  BY <1>1, <1>4 DEF IsSum
<1>6. Within(B, r, a[r])
  BY <1>4
<1>7. c \in S /\ c \in s
  BY <1>4
<1>8. Unite(B, s) = Unite(B, r) \cup B[c]
  BY <1>7 DEF Unite
<1>9. ~ Within(B, s, a[s])
  BY <1>4
<1> HIDE DEF T, r, c
<1>10. f[c] \in Nat /\ IsFiniteSet(B[c]) /\ Cardinality(B[c]) <= f[c]
  BY <1>7
<1>11. a[r] \in Nat /\ IsFiniteSet(Unite(B, r)) /\ Cardinality(Unite(B, r)) <= a[r]
  BY <1>6 DEF Within
<1>12. /\ IsFiniteSet(Unite(B, r) \cup B[c])
       /\ Cardinality(Unite(B, r) \cup B[c])
            = Cardinality(Unite(B, r)) + Cardinality(B[c]) - Cardinality(Unite(B, r) \cap B[c])
  BY <1>10, <1>11, FS_Union
<1>13. Cardinality(Unite(B, r) \cap B[c]) \in Nat
  <2>1. IsFiniteSet(Unite(B, r) \cap B[c])
    BY <1>10, FS_Subset
  <2> QED  BY <2>1, FS_CardinalityType
<1>14. Cardinality(Unite(B, r)) \in Nat /\ Cardinality(B[c]) \in Nat
  BY <1>10, <1>11, FS_CardinalityType
<1>15. a[s] \in Nat /\ Cardinality(Unite(B, s)) <= a[s]
  BY <1>5, <1>8, <1>10, <1>11, <1>12, <1>13, <1>14
<1> QED  BY <1>8, <1>9, <1>12, <1>15 DEF Within

-----------------------------------------------------------------------------
(* The leaves _measure counts.                                             *)

CountBody(t, f, n) == IF t.kind[n] = "leaf" THEN 1 ELSE SumOf(f, t.children[n])

IsCount(t, f, k) == f = [n \in 1..k |-> CountBody(t, f, n)]

LEMMA CountExtends ==
  ASSUME NEW t, IsTree(t), NEW k \in Nat, k < t.size, NEW f, IsCount(t, f, k)
  PROVE \E g : IsCount(t, g, k + 1)
<1> DEFINE g == [n \in 1..(k + 1) |-> IF n \in 1..k THEN f[n] ELSE CountBody(t, f, n)]
<1>1. ASSUME NEW n \in 1..(k + 1) PROVE CountBody(t, g, n) = CountBody(t, f, n)
  <2>1. \A c \in t.children[n] : c \in 1..k
    BY DEF IsTree
  <2>2. \A c \in t.children[n] : g[c] = f[c]
    BY <2>1
  <2>3. IsFiniteSet(t.children[n])
    <3>1. t.children[n] \subseteq 1..t.size
      BY DEF IsTree
    <3> QED  BY <3>1, NodesAreFinite
  <2> HIDE DEF g
  <2>4. SumOf(g, t.children[n]) = SumOf(f, t.children[n])
    BY <2>2, <2>3, SumSame
  <2> QED  BY <2>4 DEF CountBody
<1>2. ASSUME NEW n \in 1..(k + 1) PROVE g[n] = CountBody(t, f, n)
  <2>1. f = [m \in 1..k |-> CountBody(t, f, m)]
    BY DEF IsCount
  <2> QED  BY <2>1
<1> HIDE DEF g
<1>3. g = [n \in 1..(k + 1) |-> g[n]]
  BY DEF g
<1>4. g = [n \in 1..(k + 1) |-> CountBody(t, g, n)]
  BY <1>1, <1>2, <1>3
<1> QED  BY <1>4 DEF IsCount

LEMMA CountExists ==
  ASSUME NEW t, IsTree(t)
  PROVE \E f : IsCount(t, f, t.size)
<1> DEFINE T == {k \in Nat : k <= t.size /\ ~ \E f : IsCount(t, f, k)}
<1> SUFFICES ASSUME T # {} PROVE FALSE
  BY DEF IsTree
<1>1. PICK k \in T : \A j \in T : k <= j
  BY SmallestOf
<1>2. k # 0
  <2>1. IsCount(t, [n \in {} |-> 0], 0)
    <3>1. 1..0 = {}
      OBVIOUS
    <3> QED  BY <3>1 DEF IsCount
  <2> QED  BY <2>1
<1>3. PICK j \in Nat : j + 1 = k /\ j \notin T /\ j < t.size /\ j <= t.size
  <2>1. k - 1 \in Nat /\ k - 1 + 1 = k /\ k - 1 \notin T /\ k - 1 < t.size /\ k - 1 <= t.size
    BY <1>1, <1>2 DEF IsTree
  <2> QED  BY <2>1
<1>4. \E f : IsCount(t, f, j)
  BY <1>3
<1>5. \E g : IsCount(t, g, j + 1)
  BY <1>3, <1>4, CountExtends
<1> QED  BY <1>3, <1>5

LEMMA LeafCountIs ==
  ASSUME NEW t, IsTree(t)
  PROVE \E f : IsCount(t, f, t.size) /\ LeafCount(t) = f[t.size]
<1> DEFINE count == CHOOSE f : IsCount(t, f, t.size)
<1>1. IsCount(t, count, t.size)
  BY CountExists
<1>2. LeafCount(t) = count[t.size]
  BY DEF LeafCount, IsCount, CountBody, SumOf, MapThenSumSet, MapThenFoldSet
<1> HIDE DEF count
<1> QED  BY <1>1, <1>2

\* The leaves of the subtree at a node: those that no set which has the node, and with
\* every node its children, can leave out.
Closed(t, S) == \A n \in S : t.children[n] \subseteq S

LeavesUnder(t, n) ==
  {l \in LeavesOf(t) : \A S \in SUBSET (1..t.size) : n \in S /\ Closed(t, S) => l \in S}

LEMMA UnderALeaf ==
  ASSUME NEW t, IsTree(t), NEW n \in 1..t.size, t.kind[n] = "leaf"
  PROVE LeavesUnder(t, n) \subseteq {n}
<1>1. t.children[n] = {}
  BY DEF IsTree
<1>2. {n} \in SUBSET (1..t.size) /\ Closed(t, {n})
  BY <1>1 DEF Closed
<1> QED  BY <1>2 DEF LeavesUnder

LEMMA UnderANode ==
  ASSUME NEW t, IsTree(t), NEW n \in 1..t.size, t.kind[n] # "leaf"
  PROVE LeavesUnder(t, n) \subseteq UNION {LeavesUnder(t, c) : c \in t.children[n]}
<1> SUFFICES ASSUME NEW l \in LeavesUnder(t, n),
                    \A c \in t.children[n] : l \notin LeavesUnder(t, c)
             PROVE FALSE
  OBVIOUS
<1> DEFINE Avoids(S) == S \in SUBSET (1..t.size) /\ Closed(t, S) /\ l \notin S
           Others == {m \in 1..t.size : \E S \in SUBSET (1..t.size) : Avoids(S) /\ m \in S}
<1>1. l \in LeavesOf(t) /\ l # n
  BY DEF LeavesUnder, LeavesOf
<1>2. t.children[n] \subseteq Others
  <2> SUFFICES ASSUME NEW c \in t.children[n] PROVE c \in Others
    OBVIOUS
  <2>1. c \in 1..t.size
    BY DEF IsTree
  <2>2. \E S \in SUBSET (1..t.size) : c \in S /\ Closed(t, S) /\ l \notin S
    BY <1>1 DEF LeavesUnder
  <2> QED  BY <2>1, <2>2
<1>3. \A m \in Others : t.children[m] \subseteq Others
  <2> SUFFICES ASSUME NEW m \in Others, NEW c \in t.children[m] PROVE c \in Others
    OBVIOUS
  <2>1. PICK S \in SUBSET (1..t.size) : Avoids(S) /\ m \in S
    OBVIOUS
  <2>2. c \in S
    BY <2>1 DEF Closed
  <2> QED  BY <2>1, <2>2
<1>4. l \notin Others
  OBVIOUS
<1>5. Others \cup {n} \in SUBSET (1..t.size)
  OBVIOUS
<1> HIDE DEF Others
<1>6. Closed(t, Others \cup {n})
  BY <1>2, <1>3 DEF Closed
<1> QED  BY <1>1, <1>4, <1>5, <1>6 DEF LeavesUnder

LEMMA UnderTheRoot ==
  ASSUME NEW t, IsTree(t)
  PROVE LeavesOf(t) \subseteq LeavesUnder(t, t.size)
<1> SUFFICES ASSUME NEW l \in LeavesOf(t), NEW S \in SUBSET (1..t.size),
                    t.size \in S, Closed(t, S), l \notin S
             PROVE FALSE
  BY DEF LeavesUnder
<1>0. t.size \in Nat \ {0}
  BY DEF IsTree
<1> DEFINE T == (1..t.size) \ S
<1>1. T # {}
  BY DEF LeavesOf
<1>2. PICK m \in T : \A k \in T : k <= m
  BY <1>1, HighestNode
<1>3. PICK p \in 1..t.size : m \in t.children[p]
  BY <1>0 DEF IsTree
<1>4. m < p
  BY <1>3 DEF IsTree
<1>5. p \in S
  BY <1>0, <1>2, <1>4
<1> QED  BY <1>3, <1>5 DEF Closed

LEMMA LeavesCounted ==
  ASSUME NEW t, IsTree(t), NEW f, IsCount(t, f, t.size)
  PROVE \A n \in 1..t.size :
          f[n] \in Nat /\ IsFiniteSet(LeavesUnder(t, n)) /\ Cardinality(LeavesUnder(t, n)) <= f[n]
<1> DEFINE B == [n \in 1..t.size |-> LeavesUnder(t, n)]
           Counted(n) == f[n] \in Nat /\ IsFiniteSet(B[n]) /\ Cardinality(B[n]) <= f[n]
           T == {n \in 1..t.size : ~ Counted(n)}
<1> SUFFICES ASSUME T # {} PROVE FALSE
  OBVIOUS
<1>1. PICK n \in T : \A m \in T : n <= m
  BY LowestNode
<1>2. f[n] = CountBody(t, f, n)
  BY DEF IsCount
<1>3. CASE t.kind[n] = "leaf"
  <2>1. B[n] \subseteq {n}
    BY <1>3, UnderALeaf
  <2>2. IsFiniteSet({n}) /\ Cardinality({n}) = 1
    BY FS_Singleton
  <2>3. IsFiniteSet(B[n]) /\ Cardinality(B[n]) <= 1
    BY <2>1, <2>2, FS_Subset
  <2>4. f[n] = 1
    BY <1>2, <1>3 DEF CountBody
  <2> QED  BY <2>3, <2>4
<1>4. CASE t.kind[n] # "leaf"
  <2> DEFINE C == t.children[n]
  <2>1. IsFiniteSet(C) /\ C \subseteq 1..t.size /\ \A c \in C : c < n
    <3>1. C \subseteq 1..t.size /\ \A c \in C : c < n
      BY DEF IsTree
    <3> QED  BY <3>1, NodesAreFinite
  <2>2. \A c \in C : Counted(c)
    <3>1. t.size \in Nat
      BY DEF IsTree
    <3>2. \A c \in C : c \notin T
      BY <1>1, <2>1, <3>1
    <3> QED  BY <2>1, <3>2
  <2>3. B[n] \subseteq Unite(B, C)
    <3>1. B[n] \subseteq UNION {LeavesUnder(t, c) : c \in C}
      BY <1>4, UnderANode
    <3>2. \A c \in C : B[c] = LeavesUnder(t, c)
      BY <2>1
    <3> QED  BY <3>1, <3>2 DEF Unite
  <2>4. f[n] = SumOf(f, C)
    BY <1>2, <1>4 DEF CountBody
  <2>5. ~ Counted(n)
    OBVIOUS
  <2>6. \A c \in C : f[c] \in Nat /\ IsFiniteSet(B[c]) /\ Cardinality(B[c]) <= f[c]
    BY <2>2
  <2> HIDE DEF T, B, C
  <2>7. Within(B, C, SumOf(f, C))
    BY <2>1, <2>6, SumBounds
  <2>8. f[n] \in Nat /\ IsFiniteSet(Unite(B, C)) /\ Cardinality(Unite(B, C)) <= f[n]
    BY <2>4, <2>7 DEF Within
  <2>9. IsFiniteSet(B[n]) /\ Cardinality(B[n]) <= Cardinality(Unite(B, C))
    BY <2>3, <2>8, FS_Subset
  <2>10. Cardinality(B[n]) \in Nat /\ Cardinality(Unite(B, C)) \in Nat
    BY <2>8, <2>9, FS_CardinalityType
  <2> QED  BY <2>5, <2>8, <2>9, <2>10
<1> QED  BY <1>3, <1>4

LEMMA LeafCountBounds ==
  ASSUME NEW t, IsTree(t)
  PROVE Cardinality(LeavesOf(t)) <= LeafCount(t) /\ LeafCount(t) \in Nat
<1>1. PICK f : IsCount(t, f, t.size) /\ LeafCount(t) = f[t.size]
  BY LeafCountIs
<1>2. t.size \in 1..t.size
  BY DEF IsTree
<1>3. /\ f[t.size] \in Nat /\ IsFiniteSet(LeavesUnder(t, t.size))
      /\ Cardinality(LeavesUnder(t, t.size)) <= f[t.size]
  BY <1>1, <1>2, LeavesCounted
<1>4. IsFiniteSet(LeavesOf(t)) /\ Cardinality(LeavesOf(t)) <= Cardinality(LeavesUnder(t, t.size))
  BY <1>3, UnderTheRoot, FS_Subset
<1>5. Cardinality(LeavesOf(t)) \in Nat /\ Cardinality(LeavesUnder(t, t.size)) \in Nat
  BY <1>3, <1>4, FS_CardinalityType
<1> QED  BY <1>1, <1>3, <1>4, <1>5

-----------------------------------------------------------------------------
(* Rules that were constructed.                                            *)

LimitsOK == constructed => Constructs(rule)

LEMMA LimitsStep == StateOK /\ LimitsOK /\ [Next]_vars => LimitsOK'
<1> SUFFICES ASSUME LimitsOK, [Next]_vars PROVE LimitsOK'
  OBVIOUS
<1>1. CASE ConstructRule
  BY <1>1 DEF ConstructRule, LimitsOK
<1>2. CASE EditRule
  BY <1>2 DEF EditRule, LimitsOK
<1>3. CASE rule' = rule /\ constructed' = constructed
  BY <1>3 DEF LimitsOK
<1> QED
  BY <1>1, <1>2, <1>3 DEF Next, vars, RefuseRule, CheckNode, RejectLeaf, AcceptRule,
     CheckAgain, BeginEvaluation, EvaluateNode, RaiseAtNode, ReturnTrace, ExhaustWalk,
     ExhaustEvaluation

\* A rule DetectionRule's validation let through, of whatever size and shape, nests no
\* deeper than the limit and has no more leaves: what _measure computes recursively is an
\* upper bound for every path down the condition and for all its leaves.
THEOREM LimitsHold == Spec => []ConstructedIsBounded
<1>1. Init => LimitsOK
  BY DEF Init, LimitsOK
<1>2. StateOK /\ LimitsOK => ConstructedIsBounded
  <2> SUFFICES ASSUME StateOK, LimitsOK, constructed PROVE ConstructedIsBounded
    BY DEF ConstructedIsBounded
  <2> DEFINE t == rule.condition
  <2>1. IsTree(t) /\ NoneEmpty(t) /\ Depth(t) <= MaxDepth /\ LeafCount(t) <= MaxLeaves
    BY DEF StateOK, LimitsOK, Constructs, IsRule
  <2> HIDE DEF t
  <2>2. Cardinality(LeavesOf(t)) <= MaxLeaves
    <3>1. Cardinality(LeavesOf(t)) <= LeafCount(t) /\ LeafCount(t) \in Nat
      BY <2>1, LeafCountBounds
    <3>2. Cardinality(LeavesOf(t)) \in Nat
      BY <2>1, NodesAreFinite DEF LeavesOf
    <3> QED  BY <2>1, <3>1, <3>2, LimitsAssumption
  <2>3. ASSUME NEW nodes \in SUBSET (1..t.size), IsChain(t, nodes)
        PROVE Cardinality(nodes) <= MaxDepth
    <3>1. Cardinality(nodes) <= Depth(t) /\ Depth(t) \in Nat
      BY <2>1, <2>3, DepthBounds
    <3>2. Cardinality(nodes) \in Nat
      BY <2>1, NodesAreFinite
    <3> QED  BY <2>1, <3>1, <3>2, LimitsAssumption
  <2> QED  BY <2>2, <2>3 DEF ConstructedIsBounded, t
<1>3. Spec => []StateOK
  BY Invariant, PTL
<1> QED  BY <1>1, <1>2, <1>3, LimitsStep, PTL DEF Spec

=============================================================================
