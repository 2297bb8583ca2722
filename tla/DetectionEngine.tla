---------------------------- MODULE DetectionEngine ----------------------------
(***************************************************************************)
(* evaluate_event of detection/engine.py: one event against a collection   *)
(* of rules.  The collection, any object of the caller's that can be       *)
(* iterated over, is copied to its end, checked and put in order of rule   *)
(* ID; the conditions of the applicable rules are evaluated one after the  *)
(* other by ConditionEvaluator, whose variables are the evaluation that is *)
(* under way, and the call ends with all the matches or with one error.    *)
(***************************************************************************)
EXTENDS Naturals, Sequences, SequencesExt

CONSTANTS
  DetectionRules,  \* the DetectionRule objects; see IsRule
  IdRank,          \* position of a rule ID in lexical order
  Events,          \* the NormalizedEvent objects; see IsEvent
  LeafConditions,  \* the leaves of all conditions: field, operator and operand
  LeafTests,       \* what a leaf may meet in an event
  AnySource,       \* the sources of a rule that declares none
  Junk,            \* any argument, or item of the collection, of another type
  MaxRules,        \* bound on the items an iterator yields
  NoCondition      \* no evaluation is under way

VARIABLES
  pc,              \* the step of evaluate_event to be run next, or "returned"
  event,           \* an argument of the call
  given,           \* Junk for an argument that is no Collection, else what the iterator of
                   \* the collection has yielded so far, in the collection's own order
  ordered,         \* the rules by ascending ID
  position,        \* the rule whose turn it is
  matches,         \* the matches accumulated
  answer,          \* the tuple the call returned
  reply,           \* <<"none">> while the call runs, then <<"ok">>, or the reason of its
                   \* error and the ID of the rule it names, if it names one
  tree, test, trace, status      \* the evaluation under way

call == <<event, given>>
evaluation == <<tree, test, trace, status>>
vars == <<pc, call, ordered, position, matches, answer, reply, evaluation>>

Evaluator == INSTANCE ConditionEvaluator WITH
  Trees <- {r.condition : r \in DetectionRules}

\* valid_match: DetectionMatch accepts the identity; a rule edited by model_copy may fail.
IsRule(r) ==
  /\ r.id \in DOMAIN IdRank
  /\ r.valid_match \in BOOLEAN
  /\ Evaluator!IsTree(r.condition)
  /\ \A n \in 1..r.condition.size : r.condition.kind[n] = "leaf" => r.leaf[n] \in LeafConditions

\* meets: what every leaf condition finds in the event.
IsEvent(e) == e.meets \in [LeafConditions -> LeafTests]

ASSUME RulesAssumption == \A r \in DetectionRules : IsRule(r)
ASSUME EventsAssumption == \A e \in Events : IsEvent(e)
ASSUME LeafTestsAssumption == \A t \in LeafTests : Evaluator!IsLeafTest(t)
ASSUME MaxRulesAssumption == MaxRules \in Nat
ASSUME JunkAssumption == Junk \notin DetectionRules
ASSUME IdRankAssumption ==
  /\ IdRank \in [DOMAIN IdRank -> Nat]
  /\ \A x, y \in DOMAIN IdRank : IdRank[x] = IdRank[y] => x = y

IdBefore(r, s) == IdRank[r.id] < IdRank[s.id]

\* Mutant: another version of a rule counts as another rule.
SharesVersion(rules, i) == \E j \in DOMAIN rules : j # i /\ rules[j] = rules[i]

\* Rules are told apart by their ID alone, whatever their version.
SharesId(rules, i) == \E j \in DOMAIN rules : j # i /\ rules[j].id = rules[i].id

Applicable(r, e) ==
  /\ e.category \in r.categories
  /\ r.sources # AnySource => e.source \in r.sources

\* What the leaves of a rule's condition meet in an event.
Evidence(r, e) ==
  [n \in {m \in 1..r.condition.size : r.condition.kind[m] = "leaf"} |-> e.meets[r.leaf[n]]]

Rule == ordered[position]

-----------------------------------------------------------------------------

Collections == {Junk} \cup SeqOf(DetectionRules \cup {Junk}, MaxRules)

\* The function keeps nothing between calls: a behaviour is one call.
Init ==
  /\ pc = "begin"
  /\ event \in Events \cup {Junk}
  /\ given \in {Junk, <<>>}
  /\ ordered = <<>> /\ position = 1 /\ matches = <<>> /\ answer = <<>> /\ reply = <<"none">>
  /\ tree = NoCondition /\ test = <<>> /\ trace = <<>> /\ status = "none"

Return(result, outcome) ==
  /\ pc' = "returned"
  /\ answer' = result
  /\ reply' = outcome
  /\ UNCHANGED <<call, ordered, position, matches>>
  /\ tree' = NoCondition /\ test' = <<>> /\ trace' = <<>> /\ status' = "none"

Fail(reason) == Return(<<>>, <<reason>>)

FailFor(reason, id) == Return(<<>>, <<reason, id>>)

RejectArguments ==
  /\ pc = "begin"
  /\ \/ event = Junk /\ Fail("invalid_event")
     \/ event # Junk /\ given = Junk /\ Fail("invalid_rule_collection")

StepTo(next) ==
  /\ pc' = next
  /\ UNCHANGED <<event, ordered, position, matches, answer, reply, evaluation>>

\* list(rules): the caller's iterator yields items of any kind.  It need not end.
BeginSnapshot == pc = "begin" /\ event # Junk /\ given # Junk /\ StepTo("take") /\ UNCHANGED given

TakeItem ==
  /\ pc = "take" /\ Len(given) < MaxRules
  /\ \E item \in DetectionRules \cup {Junk} : given' = Append(given, item)
  /\ StepTo("take")

EndOfItems == pc = "take" /\ StepTo("check") /\ UNCHANGED given

\* What the iterator raises is the caller's, and is not translated.
IterationRaises == pc = "take" /\ Fail("iterator_error")

\* The first of the rules in order of ID that repeats an ID is the one reported.
RejectItems ==
  /\ pc = "check"
  /\ \/ Junk \in Range(given) /\ Fail("invalid_rule_item")
     \/ /\ Junk \notin Range(given)
        /\ \E i \in DOMAIN given :
             /\ SharesId(given, i)
             /\ \A j \in DOMAIN given : SharesId(given, j) => ~IdBefore(given[j], given[i])
             /\ FailFor("duplicate_rule_id", given[i].id)

\* Mutant: the rules are taken as the collection enumerates them.
TakeRulesAsGiven ==
  /\ pc = "check"
  /\ Junk \notin Range(given)
  /\ \A i \in DOMAIN given : ~SharesId(given, i)
  /\ ordered' = given
  /\ pc' = "next"
  /\ UNCHANGED <<call, position, matches, answer, reply, evaluation>>

OrderRules ==
  /\ pc = "check"
  /\ Junk \notin Range(given)
  /\ \A i \in DOMAIN given : ~SharesId(given, i)
  /\ \E rules \in [DOMAIN given -> Range(given)] :
       /\ Range(rules) = Range(given)
       /\ \A i, j \in DOMAIN rules : i < j => ~IdBefore(rules[j], rules[i])
       /\ ordered' = rules
  /\ pc' = "next"
  /\ UNCHANGED <<call, position, matches, answer, reply, evaluation>>

SkipRule ==
  /\ pc = "next"
  /\ position <= Len(ordered)
  /\ ~Applicable(Rule, event)
  /\ position' = position + 1
  /\ UNCHANGED <<pc, call, ordered, matches, answer, reply, evaluation>>

\* Mutant: the condition is evaluated before the rule's targets are looked at.
BeginRegardless ==
  /\ pc = "next"
  /\ position <= Len(ordered)
  /\ pc' = "evaluate"
  /\ tree' = Rule.condition
  /\ test' = Evidence(Rule, event)
  /\ trace' = <<>>
  /\ status' = "running"
  /\ UNCHANGED <<call, ordered, position, matches, answer, reply>>

BeginEvaluation ==
  /\ pc = "next"
  /\ position <= Len(ordered)
  /\ Applicable(Rule, event)
  /\ pc' = "evaluate"
  /\ tree' = Rule.condition
  /\ test' = Evidence(Rule, event)
  /\ trace' = <<>>
  /\ status' = "running"
  /\ UNCHANGED <<call, ordered, position, matches, answer, reply>>

Evaluate ==
  /\ pc = "evaluate"
  /\ Evaluator!Next
  /\ UNCHANGED <<pc, call, ordered, position, matches, answer, reply>>

\* evaluate_condition raised.  Its error, which tells of a field and an operator but of no
\* rule, goes through as it is.
PropagateError ==
  /\ pc = "evaluate"
  /\ status = "raised"
  /\ Fail("evaluation_error")

RootOutcome == trace[Len(trace)]

\* The condition is true, but DetectionMatch refuses the rule's identity.
RejectMatch ==
  /\ pc = "evaluate"
  /\ status = "returned"
  /\ RootOutcome = "true" /\ ~Rule.valid_match
  /\ FailFor("invalid_match", Rule.id)

\* Mutants: "unknown" counts as a match; the rule after a match is passed over.
ConcludeUnlessFalse ==
  /\ pc = "evaluate"
  /\ status = "returned"
  /\ \/ RootOutcome = "false" /\ UNCHANGED matches
     \/ /\ RootOutcome # "false" /\ Rule.valid_match
        /\ matches' = Append(matches, [rule |-> Rule, trace |-> trace])
  /\ pc' = "next"
  /\ position' = position + 1
  /\ UNCHANGED <<call, ordered, answer, reply, evaluation>>

ConcludeAndPassOver ==
  /\ pc = "evaluate"
  /\ status = "returned"
  /\ \/ RootOutcome # "true" /\ position' = position + 1 /\ UNCHANGED matches
     \/ /\ RootOutcome = "true" /\ Rule.valid_match
        /\ matches' = Append(matches, [rule |-> Rule, trace |-> trace])
        /\ position' = position + 2
  /\ pc' = "next"
  /\ UNCHANGED <<call, ordered, answer, reply, evaluation>>

ConcludeRule ==
  /\ pc = "evaluate"
  /\ status = "returned"
  /\ \/ RootOutcome # "true" /\ UNCHANGED matches
     \/ /\ RootOutcome = "true" /\ Rule.valid_match
        /\ matches' = Append(matches, [rule |-> Rule, trace |-> trace])
  /\ pc' = "next"
  /\ position' = position + 1
  /\ UNCHANGED <<call, ordered, answer, reply, evaluation>>

ReturnMatches ==
  /\ pc = "next"
  /\ position > Len(ordered)
  /\ Return(matches, <<"ok">>)

Next ==
  \/ RejectArguments \/ BeginSnapshot \/ TakeItem \/ EndOfItems \/ IterationRaises
  \/ RejectItems \/ OrderRules \/ SkipRule \/ BeginEvaluation \/ Evaluate
  \/ PropagateError \/ RejectMatch \/ ConcludeRule \/ ReturnMatches

Spec == Init /\ [][Next]_vars

-----------------------------------------------------------------------------
(* Properties.                                                             *)

Reasons ==
  {"none", "ok", "invalid_event", "invalid_rule_collection", "iterator_error",
   "invalid_rule_item", "duplicate_rule_id", "evaluation_error", "invalid_match"}

Matches == [rule : DetectionRules, trace : Seq({"true", "false", "unknown"})]

\* The engine works on rules once it has checked the collection, and while it
\* evaluates, the evaluation is that of the rule whose turn it is.
TypeOK ==
  /\ pc \in {"begin", "take", "check", "next", "evaluate", "returned"}
  /\ event \in Events \cup {Junk}
  /\ given \in Collections
  /\ ordered \in Seq(DetectionRules)
  /\ position \in 1..(Len(ordered) + 1)
  /\ matches \in Seq(Matches) /\ answer \in Seq(Matches)
  /\ reply[1] \in Reasons
  /\ pc \in {"take", "check", "next", "evaluate"} => event \in Events
  /\ pc = "evaluate" =>
       /\ position <= Len(ordered)
       /\ tree = Rule.condition /\ test = Evidence(Rule, event)
       /\ Evaluator!TypeOK

\* The condition of the rule holds in the event however its leaves are read whose
\* values the event lacks.
Certain(r, e) ==
  \A v \in [1..r.condition.size -> BOOLEAN] :
    Evaluator!IsReadingOf(r.condition, Evidence(r, e), v) => v[r.condition.size]

EvaluationFails(r, e) == \E n \in DOMAIN Evidence(r, e) : ~Evidence(r, e)[n].valid

Fails(r, e) ==
  Applicable(r, e) /\ (EvaluationFails(r, e) \/ (Certain(r, e) /\ ~r.valid_match))

\* A match, accumulated or returned, is evidence: its rule is one of the caller's, it
\* targets the event, its trace covers the whole condition, and the condition is
\* certain; no match rests on a value the event lacks.
MatchesAreCertain ==
  \A m \in Range(matches) \cup Range(answer) :
    /\ m.rule \in Range(given)
    /\ event \in Events
    /\ Applicable(m.rule, event)
    /\ Len(m.trace) = m.rule.condition.size
    /\ Certain(m.rule, event)

\* Nothing is evaluated before the collection has been copied to its end and checked: a
\* duplicate or a foreign item is found even if it would never apply to the event.
CollectionCheckedFirst ==
  (pc = "evaluate" \/ reply[1] \in {"ok", "evaluation_error", "invalid_match"}) =>
    /\ event # Junk
    /\ Junk \notin Range(given)
    /\ \A i, j \in DOMAIN given : given[i].id = given[j].id => i = j

\* A successful call returns a match for every applicable rule whose condition is
\* certain and for no other, each once, by ascending ID: the answer depends on which
\* rules were given and not on how the collection enumerates them.
AnswerIsDetermined ==
  reply = <<"ok">> =>
    /\ {m.rule : m \in Range(answer)} =
         {r \in Range(given) : Applicable(r, event) /\ Certain(r, event)}
    /\ \A i, j \in DOMAIN answer : i < j => IdBefore(answer[i].rule, answer[j].rule)

IsFirstToFail(r) ==
  /\ r \in Range(given) /\ Fails(r, event)
  /\ \A other \in Range(given) : IdBefore(other, r) => ~Fails(other, event)

\* A failing call fails as a whole, for a reason the rules determine.  Of several IDs that
\* are repeated it names the smallest.  Otherwise what counts is the first rule by ID that
\* fails: its condition is the one that cannot be evaluated, though the error does not name
\* it, or it is the rule the error names whose match is refused; rules that do not apply to
\* the event cannot fail it.
FailureIsDetermined ==
  /\ reply # <<"ok">> => answer = <<>>
  /\ reply[1] = "ok" => \A r \in Range(given) : ~Fails(r, event)
  /\ reply[1] = "duplicate_rule_id" =>
       \E i \in DOMAIN given : given[i].id = reply[2] /\ SharesId(given, i) /\
         \A j \in DOMAIN given : SharesId(given, j) => ~IdBefore(given[j], given[i])
  /\ reply[1] = "evaluation_error" =>
       \E r \in Range(given) : IsFirstToFail(r) /\ EvaluationFails(r, event)
  /\ reply[1] = "invalid_match" =>
       \E r \in Range(given) : IsFirstToFail(r) /\ ~EvaluationFails(r, event) /\ r.id = reply[2]

=============================================================================
