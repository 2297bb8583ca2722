-------------------------------- MODULE Pipeline --------------------------------
(***************************************************************************)
(* From the rules of a library and an XML record to alerts: the calls of   *)
(* the integration tests, load_detection_rules, then for every record      *)
(* normalize_windows_event_xml, evaluate_event and one create_alert per    *)
(* match.  Ingestion is EventNormalization and the engine DetectionEngine, *)
(* step by step; what a leaf meets in an event, an input of the engine's   *)
(* own model, is computed here from the event the normalizer made.         *)
(***************************************************************************)
EXTENDS RuleChecks, EventNormalization, SequencesExt

CONSTANTS
  Libraries,    \* sequences of rules, by path of their files; see IsRule
  MaxRules,     \* bound on the rules of a library
  Occurs,       \* pairs of texts: the first occurs in the second
  Begins, Ends, \* pairs of texts: the second begins, ends with the first
  Covers,       \* pairs of the text of a network and an address in it
  Denotes,      \* the address or the UTC instant a text stands for
  IdRank, Junk, NoCondition
                \* as in DetectionEngine

VARIABLES
  stage,        \* "load", "refused", "ingest", "detect", "alert" or "done"
  library,      \* the rules loaded
  call, seen, given, ordered, position, matches, answer, reply, tree, test, trace, status,
                \* evaluate_event; call is its pc, and seen the event as its leaves see it
  alerts        \* the matches alerts were created of

detection ==
  <<call, seen, given, ordered, position, matches, answer, reply, tree, test, trace, status>>
vars == <<stage, library, ingestion, detection, alerts>>

-----------------------------------------------------------------------------
(* What a leaf meets: evaluator.py.                                        *)

\* The value of a field as it is compared; the text of an address or a time in an operand
\* stands for what it denotes.
Actual(v) ==
  CASE v.type = "int" -> v.n
    [] v.type \in {"str", "enum"} -> v.text
    [] v.type = "ip" -> Denotes[v.text]
    [] v.type = "datetime" -> v.utc

Literal(kind, v) ==
  CASE kind = "integer" -> v.n
    [] kind = "string" -> v.text
    [] kind \in {"ip", "timestamp"} -> Denotes[v.text]

\* _compare.
Holds(leaf, kind, actual) ==
  \/ leaf.op = "equals" /\ actual = Literal(kind, leaf.value)
  \/ leaf.op = "not_equals" /\ actual # Literal(kind, leaf.value)
  \/ leaf.op = "in" /\ \E item \in Items(leaf.value) : actual = Literal(kind, item)
  \/ leaf.op = "not_in" /\ \A item \in Items(leaf.value) : actual # Literal(kind, item)
  \/ leaf.op = "contains" /\ <<leaf.value.text, actual>> \in Occurs
  \/ leaf.op = "contains_any" /\ \E item \in Items(leaf.value) : <<item.text, actual>> \in Occurs
  \/ leaf.op = "starts_with" /\ <<leaf.value.text, actual>> \in Begins
  \/ leaf.op = "ends_with" /\ <<leaf.value.text, actual>> \in Ends
  \/ leaf.op = "greater_than" /\ actual > leaf.value.n
  \/ leaf.op = "greater_or_equal" /\ actual >= leaf.value.n
  \/ leaf.op = "less_than" /\ actual < leaf.value.n
  \/ leaf.op = "less_or_equal" /\ actual <= leaf.value.n
  \/ leaf.op = "ip_in_cidr" /\ <<leaf.value.text, actual>> \in Covers

Meets(leaf, e) ==
  LET resolves == ResolveError(leaf.field, e) = "none"
      valid == EvaluationError(leaf, e) = "none"
      present == resolves /\ IsPresent(leaf.field, e)
      exists == leaf.op \in EXISTENCE_OPERATORS
  IN [op |-> IF exists THEN leaf.op ELSE "comparison", valid |-> valid,
      presence |-> IF present THEN "present"
                   ELSE IF leaf.field.space = "source_data" THEN "missing" ELSE "absent",
      holds |-> /\ valid /\ present /\ ~exists
                /\ Holds(leaf, FieldType(leaf.field, e.category), Actual(Value(leaf.field, e)))]

Rules == UNION {Range(rules) : rules \in Libraries}
Leaves == UNION {Range(r.leaf) : r \in Rules}

Seen(e) ==
  [category |-> e.category, source |-> e.source, meets |-> [leaf \in Leaves |-> Meets(leaf, e)]]

\* DetectionMatch asks of a rule's identity what DetectionRule asks too.
EngineRule(r) ==
  [id |-> r.id, categories |-> r.categories, sources |-> r.sources, condition |-> r.condition,
   leaf |-> r.leaf, valid_match |-> r.well_formed]

-----------------------------------------------------------------------------
(* The components.                                                         *)

Engine == INSTANCE DetectionEngine WITH
  DetectionRules <- {EngineRule(r) : r \in Rules},
  Events <- {Seen(e) : e \in NormalizedEvents},
  LeafConditions <- Leaves,
  LeafTests <- {Meets(leaf, e) : leaf \in Leaves, e \in NormalizedEvents},
  pc <- call, event <- seen

\* The files hold rules, of whatever kind; identities are ordered; what stands for no value,
\* or for a value of another type, is none of the values.
ASSUME LibrariesAssumption == \A rules \in Libraries : rules \in Seq(Rules) /\ Len(rules) <= MaxRules
ASSUME MaxRulesAssumption == MaxRules \in Nat
ASSUME RulesAssumption == \A r \in Rules : IsRule(r) /\ Engine!IsRule(EngineRule(r))
ASSUME IdRankAssumption ==
  /\ IdRank \in [DOMAIN IdRank -> Nat]
  /\ \A x, y \in DOMAIN IdRank : IdRank[x] = IdRank[y] => x = y
ASSUME JunkAssumption ==
  Junk \notin {EngineRule(r) : r \in Rules} \cup {Seen(e) : e \in NormalizedEvents}

Init ==
  /\ stage = "load" /\ library = <<>>
  /\ IngestionInit
  /\ call = "idle" /\ seen = NoEvent /\ given = <<>>
  /\ ordered = <<>> /\ position = 1 /\ matches = <<>> /\ answer = <<>> /\ reply = <<"none">>
  /\ tree = NoCondition /\ test = <<>> /\ trace = <<>> /\ status = "none"
  /\ alerts = <<>>

-----------------------------------------------------------------------------
(* The calls.                                                              *)

\* Every file has a rule its model and the semantic checks accept, and no ID is repeated.
IsAccepted(rules) ==
  /\ \A i \in DOMAIN rules :
       /\ Constructs(rules[i])
       /\ \A n \in DOMAIN rules[i].leaf :
            LeafError(rules[i].leaf[n], rules[i].categories, rules[i].sources) = "none"
  /\ \A i, j \in DOMAIN rules : rules[i].id = rules[j].id => i = j

LoadRules ==
  /\ stage \in {"load", "refused"}
  /\ \E rules \in Libraries :
       IF IsAccepted(rules)
       THEN stage' = "ingest" /\ library' = rules
       ELSE stage' = "refused" /\ library' = <<>>
  /\ UNCHANGED <<ingestion, detection, alerts>>

Ingest ==
  /\ stage = "ingest"
  /\ \/ RefuseRecord \/ IngestRecord
     \/ Dispatch \/ NotRegistered
     \/ RefuseRaw \/ Normalize
  /\ UNCHANGED <<stage, library, detection, alerts>>

DropRecord ==
  /\ stage = "ingest" /\ failure # "none"
  /\ stage' = "done"
  /\ UNCHANGED <<library, ingestion, detection, alerts>>

\* evaluate_event on the tuple of rules loaded: copying a tuple neither fails nor changes it,
\* so the call is entered with the copy made.
BeginDetection ==
  /\ stage = "ingest" /\ event # NoEvent
  /\ stage' = "detect"
  /\ call' = "check"
  /\ seen' = Seen(event)
  /\ given' = [i \in DOMAIN library |-> EngineRule(library[i])]
  /\ UNCHANGED <<library, ingestion, ordered, position, matches, answer, reply, tree, test,
                 trace, status, alerts>>

Detect ==
  /\ stage = "detect"
  /\ Engine!Next
  /\ UNCHANGED <<stage, library, ingestion, alerts>>

EndDetection ==
  /\ stage = "detect" /\ call = "returned"
  /\ stage' = "alert"
  /\ UNCHANGED <<library, ingestion, detection, alerts>>

\* The match of a rule passes the validation an Alert makes of it: the event and every
\* trace are valid.
IsOwnable(m) ==
  /\ IsValidEvent(event)
  /\ \A n \in DOMAIN m.rule.leaf : IsValidTrace(m.rule.leaf[n], event)

\* create_alert for the next match, with an identity and an instant of the caller's that are
\* in order.
CreateAlert ==
  /\ stage = "alert" /\ Len(alerts) < Len(answer)
  /\ LET m == answer[Len(alerts) + 1] IN
     IF IsOwnable(m)
     THEN alerts' = Append(alerts, m) /\ UNCHANGED stage
     ELSE stage' = "done" /\ UNCHANGED alerts
  /\ UNCHANGED <<library, ingestion, detection>>

EndAlerts ==
  /\ stage = "alert" /\ Len(alerts) = Len(answer)
  /\ stage' = "done"
  /\ UNCHANGED <<library, ingestion, detection, alerts>>

ReceiveRecord ==
  /\ stage = "done"
  /\ stage' = "ingest"
  /\ pc' = "ingest" /\ record' \in Records
  /\ raw' = NoRaw /\ normalizer' = "none" /\ event' = NoEvent /\ failure' = "none"
  /\ call' = "idle" /\ seen' = NoEvent /\ given' = <<>>
  /\ ordered' = <<>> /\ position' = 1 /\ matches' = <<>> /\ answer' = <<>>
  /\ reply' = <<"none">>
  /\ tree' = NoCondition /\ test' = <<>> /\ trace' = <<>> /\ status' = "none"
  /\ alerts' = <<>>
  /\ UNCHANGED library

Next ==
  \/ LoadRules \/ Ingest \/ DropRecord \/ BeginDetection \/ Detect \/ EndDetection
  \/ CreateAlert \/ EndAlerts \/ ReceiveRecord

Spec == Init /\ [][Next]_vars

-----------------------------------------------------------------------------
(* Properties.                                                             *)

\* With rules that were loaded, nothing fails once a record has become an event: the
\* engine raises for no rule and no event, and every match becomes an alert.  What the
\* normalizers produce, what the event models allow and what the rule checks expect are
\* three independent tables, and the evidence is validated again when an alert is made.
EventsAlwaysGetThrough ==
  /\ reply[1] \in {"none", "ok"}
  /\ stage = "done" => alerts = answer

=============================================================================
