----------------------------- MODULE MCRuleSemantics -----------------------------
(***************************************************************************)
(* Single leaves of every kind of field, operator and operand under three  *)
(* targets, small trees, and events valid and changed, for RuleSemantics.  *)
(***************************************************************************)
EXTENDS RuleSemantics, TLC

MCSegments ==
  UNION {DOMAIN CONTEXT_FIELDS[c] : c \in EventCategory} \cup {"SubjectLogonId"}

MCAddresses == {"192.0.2.1"}
MCNetworks == {"192.0.2.1", "192.0.2.0/24"}
MCTimestamps == {"2024-05-01T00:00:00Z"}

At(space, name) == [space |-> space, name |-> name]

\* An integer of several categories, a text of two, an address, a time, a text of one
\* category, retained text, and paths that some check must refuse.
TypedFields ==
  {At("context", "process_id"), At("context", "user"), At("context", "source_ip"),
   At("event", "timestamp"), At("source_data", "SubjectLogonId")}

OtherFields ==
  {At("event", "category"), At("event", "record_id"), At("context", "query_name"),
   At("context", "SubjectLogonId"), At("event", "process_id"), At("source_data", "no-segment"),
   At("source_data", "SubjectLogonId.more"), At("other", "a.b.c")}

Scalars ==
  {Integer(5), Text("word"), Text("192.0.2.1"), Text("192.0.2.0/24"), Text("2024-05-01T00:00:00Z")}

Lists ==
  {List(<<>>), List(<<Integer(5), Integer(7)>>), List(<<Text("word"), Text("192.0.2.1")>>),
   List(<<Text("192.0.2.1"), Text("192.0.2.1")>>), List(<<Text("word"), Integer(5)>>)}

Leaf(field, op, value) == [field |-> field, op |-> op, value |-> value]

MCLeaves ==
  {Leaf(f, op, v) : f \in TypedFields, v \in Scalars \cup Lists \cup {None},
     op \in {"equals", "greater_than", "contains", "in", "contains_any", "ip_in_cidr"}}
    \cup {Leaf(f, op, v) : f \in TypedFields, op \in {"exists", "matches"},
             v \in {Omitted, None, Integer(5), Text("word")}}
    \cup {Leaf(f, op, v) : f \in OtherFields, op \in {"not_exists", "not_in"},
             v \in {Omitted, List(<<Text("word")>>), List(<<Integer(5), Integer(7)>>)}}

Tree(kind, children) ==
  [size |-> Len(kind), kind |-> kind, children |-> children]

Rule(tree, leaf, categories, sources, ok) ==
  [condition |-> tree, leaf |-> leaf, categories |-> categories, sources |-> sources,
   well_formed |-> ok]

LeafTree == Tree(<<"leaf">>, <<{}>>)

Good == Leaf(At("context", "process_id"), "in", List(<<Integer(5)>>))
Bad == Leaf(At("context", "process_id"), "contains", Text("5"))
Worse == Leaf(At("context", "no_such_field"), "exists", Omitted)

\* Depth and leaves at and beyond the bounds of the instance (4 and 2), and an empty list.
Trees ==
  {Tree(<<"leaf", "leaf", "all">>, <<{}, {}, {1, 2}>>),
   Tree(<<"leaf", "not", "not", "not">>, <<{}, {1}, {2}, {3}>>),
   Tree(<<"leaf", "not", "not", "not", "not">>, <<{}, {1}, {2}, {3}, {4}>>),
   Tree(<<"leaf", "leaf", "not", "any">>, <<{}, {}, {2}, {1, 3}>>),
   Tree(<<"leaf", "leaf", "leaf", "any", "all">>, <<{}, {}, {}, {2, 3}, {1, 4}>>),
   Tree(<<"leaf", "any", "all">>, <<{}, {}, {1, 2}>>)}

\* What a caller's edit may leave: another operand, another operator, retained text
\* without a source, a category that lacks the field, no condition at all, or nesting
\* beyond the limit.
MCEditedRules ==
  {Rule(LeafTree, <<l>>, {"process"}, AnySource, TRUE) :
     l \in {Good, Bad, Worse, Leaf(At("source_data", "SubjectLogonId"), "exists", Omitted),
            Leaf(At("context", "process_id"), "in", List(<<>>)),
            Leaf(At("context", "process_id"), "matches", Text("word"))}}
    \cup {Rule(Tree(<<"all">>, <<{}>>), <<>>, {"process"}, AnySource, TRUE),
          Rule(Tree(<<"leaf", "not", "not", "not", "not">>, <<{}, {1}, {2}, {3}, {4}>>),
               <<Good>>, {"process"}, AnySource, TRUE)}

Targets(field) ==
  IF field.name = "process_id" THEN {{"process", "network"}, {"process", "authentication"}}
  ELSE IF field.name = "query_name" THEN {{"dns"}}
  ELSE {{"process"}, {"authentication", "network"}}

Sources(field) == IF field.space = "source_data" THEN {{"sysmon"}, AnySource} ELSE {AnySource}

MCRules ==
  UNION {{Rule(LeafTree, <<l>>, c, s, TRUE) :
            c \in Targets(l.field), s \in Sources(l.field)} : l \in MCLeaves}
    \cup UNION {{Rule(t, f, {"process", "dns"}, AnySource, TRUE) :
                   f \in [LeavesOf(t) -> {Good, Bad, Worse}]} : t \in Trees}
    \cup {Rule(LeafTree, <<Good>>, {}, AnySource, TRUE),
          Rule(LeafTree, <<Good>>, {"process"}, AnySource, FALSE)}
    \cup MCEditedRules

\* Events: of every category, with all optional fields or with none.
Typical(as) ==
  CASE as = "Enum" -> Member("process")
    [] as \in {"StrictStr", "NonEmptyString"} -> Text("word")
    [] as = "IPvAnyAddress" -> Address("192.0.2.1")
    [] as = "AwareDatetime" -> Instant(0, TRUE)
    [] OTHER -> Integer(5)

Full(model) == [f \in DOMAIN ModelFields[model] |-> Typical(ModelFields[model][f].as)]

Bare(model) ==
  [f \in DOMAIN ModelFields[model] |->
     IF ModelFields[model][f].optional THEN None ELSE Typical(ModelFields[model][f].as)]

Event(category, own, context, data) ==
  [source |-> "sysmon", category |-> category,
   context_type |-> CONTEXT_TYPE_BY_CATEGORY[category],
   own |-> own, context |-> context, source_data |-> data]

Retained == [name \in {"SubjectLogonId"} |-> Text("0x3e7")]

ValidEvents ==
  {Event(c, Full("NormalizedEvent"), Full(CONTEXT_TYPE_BY_CATEGORY[c]), Retained) :
     c \in EventCategory}
    \cup {Event(c, Bare("NormalizedEvent"), Bare(CONTEXT_TYPE_BY_CATEGORY[c]), <<>>) :
            c \in EventCategory}

Process == CHOOSE e \in ValidEvents : e.category = "process" /\ e.own["record_id"] # None

Without(values, name) == [f \in DOMAIN values \ {name} |-> values[f]]

\* A time with no UTC equivalent; a category, an integer and a text changed after validation,
\* and attributes deleted.
MCEvents ==
  ValidEvents
    \cup {[Process EXCEPT !.own["timestamp"] = Instant(0, FALSE)],
          [Process EXCEPT !.category = "dns"],
          [Process EXCEPT !.context["process_id"] = Text("5")],
          [Process EXCEPT !.context = Without(@, "process_id")],
          [Process EXCEPT !.own = Without(@, "timestamp")],
          [Process EXCEPT !.context["user"] = [type |-> "bool"],
                          !.source_data["SubjectLogonId"] = Integer(5)]}

==================================================================================
