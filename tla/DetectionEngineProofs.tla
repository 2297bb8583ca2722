------------------------- MODULE DetectionEngineProofs -------------------------
(* What evaluate_event shows for every collection of rules and every event:   *)
(* its matches are certain, and none is made before the collection has been   *)
(* checked; no match is missing, and an error is that of the first rule that  *)
(* fails.  The facts about the evaluation of one condition are those of       *)
(* ConditionEvaluatorProofs.                                                  *)
EXTENDS DetectionEngine, FiniteSetTheorems, TLAPS

EvaluatorProofs == INSTANCE ConditionEvaluatorProofs WITH
  Trees <- {r.condition : r \in DetectionRules}

-----------------------------------------------------------------------------

\* Both instances of the evaluator take the same steps.
LEMMA SameNext == Evaluator!Next => EvaluatorProofs!Next
BY DEF Evaluator!Next, Evaluator!EvaluateLeaf, Evaluator!RaiseAtLeaf, Evaluator!EvaluateNot,
       Evaluator!EvaluateAll, Evaluator!EvaluateAny, Evaluator!Reaches, Evaluator!Record,
       Evaluator!Node, Evaluator!ChildOutcomes, Evaluator!LeafOutcome, Evaluator!Negated,
       Evaluator!Aggregated, Evaluator!Outcome, Evaluator!EXISTENCE_OPERATORS,
       EvaluatorProofs!Next, EvaluatorProofs!EvaluateLeaf, EvaluatorProofs!RaiseAtLeaf,
       EvaluatorProofs!EvaluateNot, EvaluatorProofs!EvaluateAll, EvaluatorProofs!EvaluateAny,
       EvaluatorProofs!Reaches, EvaluatorProofs!Record, EvaluatorProofs!Node,
       EvaluatorProofs!ChildOutcomes, EvaluatorProofs!LeafOutcome, EvaluatorProofs!Negated,
       EvaluatorProofs!Aggregated, EvaluatorProofs!Outcome, EvaluatorProofs!EXISTENCE_OPERATORS

\* And mean the same by a reading.
LEMMA SameReading ==
  \A t, e, v : Evaluator!IsReadingOf(t, e, v) <=> EvaluatorProofs!IsReadingOf(t, e, v)
<1>1. \A t, e, v, n : Evaluator!ReadsAs(t, e, v, n) = EvaluatorProofs!ReadsAs(t, e, v, n)
  BY DEF Evaluator!ReadsAs, EvaluatorProofs!ReadsAs, Evaluator!LeafOutcome,
         EvaluatorProofs!LeafOutcome, Evaluator!Outcome, EvaluatorProofs!Outcome,
         Evaluator!EXISTENCE_OPERATORS, EvaluatorProofs!EXISTENCE_OPERATORS
<1>. QED  BY <1>1 DEF Evaluator!IsReadingOf, EvaluatorProofs!IsReadingOf

\* The evaluator's assumptions follow from the engine's.
LEMMA EvaluatorAssumptions ==
  /\ \A t \in {r.condition : r \in DetectionRules} : EvaluatorProofs!IsTree(t)
  /\ \A t \in LeafTests : EvaluatorProofs!IsLeafTest(t)
BY RulesAssumption, LeafTestsAssumption
   DEF IsRule, Evaluator!IsTree, EvaluatorProofs!IsTree, Evaluator!IsLeafTest,
       EvaluatorProofs!IsLeafTest, Evaluator!EXISTENCE_OPERATORS, Evaluator!FieldPresence,
       EvaluatorProofs!EXISTENCE_OPERATORS, EvaluatorProofs!FieldPresence

\* So what is proved of an evaluation holds of the one the engine starts, also in the
\* state after a step.
LEMMA EvaluationStarts == EvaluatorProofs!Init => EvaluatorProofs!EvaluationInv
BY EvaluatorAssumptions, EvaluatorProofs!EvaluationInit

\* The same in the next state, where BeginEvaluation puts it.
LEMMA EvaluationStartsNext == EvaluatorProofs!Init' => EvaluatorProofs!EvaluationInv'
BY EvaluationStarts, PTL

\* And it is kept by every step of the evaluation.
LEMMA EvaluationSteps ==
  EvaluatorProofs!EvaluationInv /\ Evaluator!Next => EvaluatorProofs!EvaluationInv'
BY EvaluatorAssumptions, EvaluatorProofs!EvaluationNext, SameNext

-----------------------------------------------------------------------------

Checked ==
  /\ event \in Events /\ event # Junk
  /\ Junk \notin Range(given)
  /\ \A i, j \in DOMAIN given : given[i].id = given[j].id => i = j

\* What a match of the call shows.
IsCertainMatch(m) ==
  /\ m.rule \in Range(given)
  /\ event \in Events
  /\ Applicable(m.rule, event)
  /\ Len(m.trace) = m.rule.condition.size
  /\ Certain(m.rule, event)

\* The rules in order are rules of the checked collection.
OrderInv ==
  pc \in {"next", "evaluate"} =>
    /\ Checked
    /\ DOMAIN ordered = 1..Len(ordered) /\ Len(ordered) \in Nat
    /\ \A i \in 1..Len(ordered) : ordered[i] \in Range(given) \cap DetectionRules

\* The loop and the evaluation of the condition of the rule whose turn it is.
LoopInv ==
  /\ position \in Nat \ {0}
  /\ given \in Collections /\ event \in Events \cup {Junk}
  /\ pc \in {"begin", "take", "check", "next", "evaluate", "returned"}
  /\ pc \in {"take", "check"} => event # Junk
  /\ pc \in {"take", "check", "next", "evaluate"} => given \in SeqOf(DetectionRules \cup {Junk}, MaxRules)
  /\ pc = "evaluate" =>
       /\ position <= Len(ordered)
       /\ Applicable(Rule, event)
       /\ tree = Rule.condition /\ test = Evidence(Rule, event)
       /\ EvaluatorProofs!EvaluationInv

\* The matches accumulated and returned.
MatchInv ==
  /\ \E n \in Nat : matches \in [1..n -> Range(matches)]
  /\ \A m \in Range(matches) : IsCertainMatch(m)
  /\ \A m \in Range(answer) : IsCertainMatch(m)
  /\ pc \in {"begin", "take", "check"} => matches = <<>> /\ answer = <<>>

\* What has been answered was answered after the check.
ReplyInv ==
  /\ pc # "returned" => reply = <<"none">>
  /\ reply[1] \in {"ok", "evaluation_error", "invalid_match"} => Checked

\* The inductive invariant.
EngineInv == OrderInv /\ LoopInv /\ MatchInv /\ ReplyInv

\* A call that has evaluated nothing: before it has begun, or with a collection copied.
Entered ==
  /\ pc \in {"begin", "check"}
  /\ event \in Events \cup {Junk} /\ given \in Collections
  /\ pc = "check" => event # Junk /\ given \in SeqOf(DetectionRules \cup {Junk}, MaxRules)
  /\ ordered = <<>> /\ position = 1 /\ matches = <<>> /\ answer = <<>> /\ reply = <<"none">>
  /\ tree = NoCondition /\ test = <<>> /\ trace = <<>> /\ status = "none"

LEMMA InitEnters == Init => Entered
<1>1. <<>> \in [1..0 -> DetectionRules \cup {Junk}] /\ 0 \in 0..MaxRules
  BY MaxRulesAssumption
<1>2. <<>> \in Collections
  BY <1>1 DEF SeqOf, Collections
<1>. QED  BY <1>2 DEF Init, Entered, Collections

\* Nothing has been matched or answered when a call starts.
LEMMA EngineInit == Entered => EngineInv
<1>. SUFFICES ASSUME Entered  PROVE EngineInv
  OBVIOUS
<1>1. OrderInv
  BY DEF Entered, OrderInv
<1>2. LoopInv
  BY DEF Entered, LoopInv
<1>3. MatchInv
  <2>1. Range(<<>>) = {}
    BY DEF Range
  <2>2. matches = <<>> /\ answer = <<>>
    BY DEF Entered
  <2>3. matches \in [1..0 -> Range(matches)]
    BY <2>2
  <2>. QED  BY <2>1, <2>2, <2>3 DEF MatchInv
<1>4. ReplyInv
  BY DEF Entered, ReplyInv
<1>. QED  BY <1>1, <1>2, <1>3, <1>4 DEF EngineInv

\* Evidence of an event for a rule is what the evaluator expects of a leaf.
LEMMA EvidenceFits ==
  ASSUME NEW r \in DetectionRules, NEW e \in Events
  PROVE  Evidence(r, e) \in [{m \in 1..r.condition.size : r.condition.kind[m] = "leaf"} -> LeafTests]
BY RulesAssumption, EventsAssumption DEF Evidence, IsRule, IsEvent

\* A returned evaluation whose root is true makes its rule certain.
LEMMA TrueRootIsCertain ==
  ASSUME EngineInv, pc = "evaluate", status = "returned", RootOutcome = "true"
  PROVE  Len(trace) = Rule.condition.size /\ Certain(Rule, event)
<1>1. /\ EvaluatorProofs!EvaluationInv
      /\ tree = Rule.condition /\ test = Evidence(Rule, event)
  BY DEF EngineInv, LoopInv
<1>2. /\ Len(trace) = tree.size
      /\ tree.size \in Nat \ {0}
      /\ EvaluatorProofs!DecidedIsCertain
  BY <1>1 DEF EvaluatorProofs!EvaluationInv, EvaluatorProofs!Progress,
              EvaluatorProofs!NothingSkipped, EvaluatorProofs!TypeOK, EvaluatorProofs!IsTree
<1>3. ASSUME NEW v \in [1..tree.size -> BOOLEAN], EvaluatorProofs!IsReading(v)
      PROVE  v[tree.size]
  BY <1>2, <1>3 DEF EvaluatorProofs!DecidedIsCertain, RootOutcome
<1>4. \A v : Evaluator!IsReadingOf(tree, test, v) => EvaluatorProofs!IsReading(v)
  BY SameReading DEF EvaluatorProofs!IsReading
<1>5. Certain(Rule, event)
  BY <1>1, <1>3, <1>4 DEF Certain
<1>. QED  BY <1>1, <1>2, <1>5

\* Returning keeps everything, given that what is returned is certain.
LEMMA ReturnKeeps ==
  ASSUME EngineInv, NEW result, NEW outcome, Return(result, outcome),
         \A m \in Range(result) : IsCertainMatch(m),
         outcome[1] \in {"ok", "evaluation_error", "invalid_match"} => Checked
  PROVE  EngineInv'
<1>1. /\ pc' = "returned" /\ answer' = result /\ reply' = outcome
      /\ event' = event /\ given' = given /\ ordered' = ordered
      /\ position' = position /\ matches' = matches
  BY DEF Return, call
<1>2. \A m : IsCertainMatch(m)' <=> IsCertainMatch(m)
  BY <1>1 DEF IsCertainMatch
<1>3. Checked' <=> Checked
  BY <1>1 DEF Checked
<1>4. OrderInv'
  BY <1>1 DEF OrderInv
<1>5. LoopInv'
  BY <1>1 DEF EngineInv, LoopInv
<1>6. MatchInv'
  BY <1>1, <1>2 DEF EngineInv, MatchInv
<1>7. ReplyInv'
  BY <1>1, <1>3 DEF ReplyInv
<1>. QED  BY <1>4, <1>5, <1>6, <1>7 DEF EngineInv

\* Failing returns nothing.
LEMMA FailKeeps ==
  ASSUME EngineInv, NEW outcome, Return(<<>>, outcome),
         outcome[1] \in {"ok", "evaluation_error", "invalid_match"} => Checked
  PROVE  EngineInv'
<1>1. Range(<<>>) = {}
  BY DEF Range
<1>. QED  BY <1>1, ReturnKeeps

\* One more item of the iterator leaves the bound on them kept.
LEMMA TakenStays ==
  ASSUME NEW S, NEW items \in SeqOf(S, MaxRules), Len(items) < MaxRules, NEW item \in S
  PROVE  Append(items, item) \in SeqOf(S, MaxRules)
<1>1. PICK n \in 0..MaxRules : items \in [1..n -> S]
  BY DEF SeqOf
<1>2. items \in Seq(S) /\ Len(items) = n
  BY <1>1
<1>3. Append(items, item) \in [1..(n + 1) -> S]
  <2>1. PICK longer : longer = Append(items, item)
    OBVIOUS
  <2>2. longer \in Seq(S) /\ Len(longer) = n + 1
    BY <1>2, <2>1
  <2>3. longer \in [1..Len(longer) -> S]
    BY <2>2
  <2>. QED  BY <2>1, <2>2, <2>3
<1>4. n + 1 \in 0..MaxRules
  BY <1>2, MaxRulesAssumption
<1>. QED  BY <1>3, <1>4 DEF SeqOf

\* Every step keeps the invariant.
LEMMA EngineNext == EngineInv /\ [Next]_vars => EngineInv'
<1>. SUFFICES ASSUME EngineInv, [Next]_vars  PROVE EngineInv'
  OBVIOUS
<1>0. OrderInv /\ LoopInv /\ MatchInv /\ ReplyInv
  BY DEF EngineInv
<1>. DEFINE Late == {"ok", "evaluation_error", "invalid_match"}
<1>a. ASSUME NEW reason, Fail(reason), reason \notin Late
      PROVE  EngineInv'
  <2>1. Return(<<>>, <<reason>>) /\ <<reason>>[1] = reason
    BY <1>a DEF Fail
  <2>. QED  BY <1>a, <2>1, FailKeeps
<1>b. CASE RejectArguments
  <2>1. Fail("invalid_event") \/ Fail("invalid_rule_collection")
    BY <1>b DEF RejectArguments
  <2>. QED  BY <1>a, <2>1
<1>c. ASSUME NEW next \in {"take", "check"}, StepTo(next), given' \in SeqOf(DetectionRules \cup {Junk}, MaxRules),
             event # Junk, pc \in {"begin", "take"}, matches = <<>>, answer = <<>>
      PROVE  EngineInv'
  <2>1. /\ pc' = next /\ event' = event /\ ordered' = ordered /\ position' = position
        /\ matches' = matches /\ answer' = answer /\ reply' = reply
    BY <1>c DEF StepTo
  <2>2. OrderInv'
    BY <1>c, <2>1 DEF OrderInv
  <2>3. LoopInv'
    BY <1>0, <1>c, <2>1 DEF LoopInv, Collections
  <2>4. MatchInv'
    <3>1. Range(<<>>) = {} /\ <<>> \in [1..0 -> {}]
      BY DEF Range
    <3>. QED  BY <1>c, <2>1, <3>1 DEF MatchInv
  <2>5. reply[1] \notin Late /\ ReplyInv'
    BY <1>0, <1>c, <2>1 DEF ReplyInv
  <2>. QED  BY <2>2, <2>3, <2>4, <2>5 DEF EngineInv
<1>1. CASE BeginSnapshot \/ TakeItem \/ EndOfItems
  <2>1. PICK next \in {"take", "check"} : StepTo(next)
    BY <1>1 DEF BeginSnapshot, TakeItem, EndOfItems
  <2>2. /\ event # Junk /\ pc \in {"begin", "take"}
        /\ given \in SeqOf(DetectionRules \cup {Junk}, MaxRules)
    BY <1>0, <1>1 DEF BeginSnapshot, TakeItem, EndOfItems, LoopInv, Collections
  <2>3. given' \in SeqOf(DetectionRules \cup {Junk}, MaxRules)
    <3>1. CASE given' = given
      BY <2>2, <3>1
    <3>2. CASE TakeItem
      BY <2>2, <3>2, TakenStays DEF TakeItem
    <3>. QED  BY <1>1, <3>1, <3>2 DEF BeginSnapshot, EndOfItems
  <2>4. matches = <<>> /\ answer = <<>>
    BY <1>0, <2>2 DEF MatchInv
  <2>. QED  BY <1>c, <2>1, <2>2, <2>3, <2>4
<1>d. CASE IterationRaises
  BY <1>a, <1>d DEF IterationRaises
<1>e. CASE RejectItems
  <2>1. ASSUME NEW id, FailFor("duplicate_rule_id", id)
        PROVE  EngineInv'
    <3>1. Return(<<>>, <<"duplicate_rule_id", id>>)
      BY <2>1 DEF FailFor
    <3>2. <<"duplicate_rule_id", id>>[1] = "duplicate_rule_id"
      OBVIOUS
    <3>. QED  BY <3>1, <3>2, FailKeeps
  <2>2. Fail("invalid_rule_item") \/ \E id : FailFor("duplicate_rule_id", id)
    BY <1>e DEF RejectItems
  <2>. QED  BY <1>a, <2>1, <2>2
<1>2. CASE OrderRules
  <2>1. /\ pc = "check" /\ event # Junk /\ Junk \notin Range(given)
        /\ \A i \in DOMAIN given : ~SharesId(given, i)
        /\ ordered' \in [DOMAIN given -> Range(given)]
        /\ pc' = "next" /\ event' = event /\ given' = given /\ position' = position
        /\ matches' = matches /\ answer' = answer /\ reply' = reply
    BY <1>0, <1>2 DEF OrderRules, LoopInv, call
  <2>2. Checked
    BY <1>0, <2>1 DEF LoopInv, Checked, SharesId
  <2>3. PICK n \in Nat : given \in [1..n -> DetectionRules \cup {Junk}]
    BY <1>0, <2>1 DEF LoopInv, Collections, SeqOf
  <2>4. Range(given) \subseteq DetectionRules
    BY <2>1, <2>3 DEF Range
  <2>5. DOMAIN ordered' = 1..Len(ordered') /\ Len(ordered') = n
    <3>1. ordered' \in Seq(DetectionRules)
      BY <2>1, <2>3, <2>4
    <3>. QED  BY <2>1, <2>3, <3>1
  <2>6. OrderInv'
    BY <2>1, <2>2, <2>3, <2>4, <2>5 DEF OrderInv, Checked
  <2>7. LoopInv'
    BY <1>0, <2>1 DEF LoopInv
  <2>8. MatchInv'
    BY <1>0, <2>1 DEF MatchInv, IsCertainMatch
  <2>9. ReplyInv'
    BY <1>0, <2>1 DEF ReplyInv
  <2>. QED  BY <2>6, <2>7, <2>8, <2>9 DEF EngineInv
<1>3. CASE SkipRule
  <2>1. /\ pc = "next" /\ pc' = pc /\ event' = event /\ given' = given /\ ordered' = ordered
        /\ position' = position + 1
        /\ matches' = matches /\ answer' = answer /\ reply' = reply
    BY <1>3 DEF SkipRule, call
  <2>2. OrderInv'
    BY <1>0, <2>1 DEF OrderInv, Checked
  <2>3. LoopInv'
    BY <1>0, <2>1 DEF LoopInv
  <2>4. MatchInv'
    BY <1>0, <2>1 DEF MatchInv, IsCertainMatch
  <2>5. ReplyInv'
    BY <1>0, <2>1 DEF ReplyInv, Checked
  <2>. QED  BY <2>2, <2>3, <2>4, <2>5 DEF EngineInv
<1>4. CASE BeginEvaluation
  <2>1. /\ pc = "next" /\ pc' = "evaluate" /\ event' = event /\ given' = given
        /\ ordered' = ordered /\ position' = position /\ position <= Len(ordered)
        /\ matches' = matches /\ answer' = answer /\ reply' = reply
        /\ Applicable(Rule, event)
        /\ tree' = Rule.condition /\ test' = Evidence(Rule, event)
        /\ trace' = <<>> /\ status' = "running"
    BY <1>4 DEF BeginEvaluation, call
  <2>2. OrderInv'
    BY <1>0, <2>1 DEF OrderInv, Checked
  <2>3. Rule \in DetectionRules /\ event \in Events
    BY <1>0, <2>1 DEF OrderInv, LoopInv, Rule, Checked
  <2>4. EvaluatorProofs!Init'
    BY <2>1, <2>3, EvidenceFits DEF EvaluatorProofs!Init, EvaluatorProofs!Leaves
  <2>5. LoopInv'
    BY <1>0, <2>1, <2>4, EvaluationStartsNext DEF LoopInv, Rule
  <2>6. MatchInv'
    BY <1>0, <2>1 DEF MatchInv, IsCertainMatch
  <2>7. ReplyInv'
    BY <1>0, <2>1 DEF ReplyInv, Checked
  <2>. QED  BY <2>2, <2>5, <2>6, <2>7 DEF EngineInv
<1>5. CASE Evaluate
  <2>1. /\ pc = "evaluate" /\ pc' = pc /\ event' = event /\ given' = given
        /\ ordered' = ordered /\ position' = position
        /\ matches' = matches /\ answer' = answer /\ reply' = reply
        /\ Evaluator!Next
    BY <1>5 DEF Evaluate, call
  <2>2. tree' = tree /\ test' = test
    BY <2>1 DEF Evaluator!Next, Evaluator!EvaluateLeaf, Evaluator!RaiseAtLeaf,
                Evaluator!EvaluateNot, Evaluator!EvaluateAll, Evaluator!EvaluateAny,
                Evaluator!Record
  <2>3. OrderInv'
    BY <1>0, <2>1 DEF OrderInv, Checked
  <2>4. EvaluatorProofs!EvaluationInv'
    BY <1>0, <2>1, EvaluationSteps DEF LoopInv
  <2>5. LoopInv'
    BY <1>0, <2>1, <2>2, <2>4 DEF LoopInv, Rule
  <2>6. MatchInv'
    BY <1>0, <2>1 DEF MatchInv, IsCertainMatch
  <2>7. ReplyInv'
    BY <1>0, <2>1 DEF ReplyInv, Checked
  <2>. QED  BY <2>3, <2>5, <2>6, <2>7 DEF EngineInv
<1>6. CASE PropagateError
  <2>1. Return(<<>>, <<"evaluation_error">>) /\ Checked
    BY <1>0, <1>6 DEF PropagateError, Fail, OrderInv
  <2>. QED  BY <2>1, FailKeeps
<1>7. CASE RejectMatch
  <2>1. Return(<<>>, <<"invalid_match", Rule.id>>) /\ Checked
    BY <1>0, <1>7 DEF RejectMatch, FailFor, OrderInv
  <2>. QED  BY <2>1, FailKeeps
<1>8. CASE ConcludeRule
  <2>1. /\ pc = "evaluate" /\ status = "returned" /\ pc' = "next"
        /\ event' = event /\ given' = given /\ ordered' = ordered
        /\ position' = position + 1 /\ answer' = answer /\ reply' = reply
    BY <1>8 DEF ConcludeRule, call
  <2>2. OrderInv'
    BY <1>0, <2>1 DEF OrderInv, Checked
  <2>3. LoopInv'
    BY <1>0, <2>1 DEF LoopInv
  <2>4. ReplyInv'
    BY <1>0, <2>1 DEF ReplyInv, Checked
  <2>5. MatchInv'
    <3>1. CASE UNCHANGED matches
      BY <1>0, <2>1, <3>1 DEF MatchInv, IsCertainMatch
    <3>2. CASE RootOutcome = "true" /\ matches' = Append(matches, [rule |-> Rule, trace |-> trace])
      <4>. DEFINE new == [rule |-> Rule, trace |-> trace]
      <4>1. IsCertainMatch(new)
        <5>1. Len(trace) = Rule.condition.size /\ Certain(Rule, event)
          BY <2>1, <3>2, TrueRootIsCertain
        <5>2. Rule \in Range(given) /\ event \in Events /\ Applicable(Rule, event)
          BY <1>0, <2>1 DEF OrderInv, LoopInv, Rule, Checked
        <5>. QED  BY <5>1, <5>2 DEF IsCertainMatch
      <4>2. PICK n \in Nat : matches \in [1..n -> Range(matches)]
        BY <1>0 DEF MatchInv
      <4>. HIDE DEF new
      <4>3. matches' = Append(matches, new)
        BY <3>2 DEF new
      <4>4. matches' \in [1..(n + 1) -> Range(matches')] /\ Range(matches') \subseteq Range(matches) \cup {new}
        <5>1. matches \in Seq(Range(matches)) /\ Len(matches) = n
          BY <4>2
        <5>2. matches' \in [1..(n + 1) -> Range(matches) \cup {new}]
          <6>. DEFINE S == Range(matches) \cup {new}
          <6>1. matches \in Seq(S) /\ new \in S
            BY <5>1
          <6>. HIDE DEF S
          <6>2. matches' \in Seq(S) /\ Len(matches') = n + 1
            BY <4>3, <5>1, <6>1
          <6>. QED  BY <6>2 DEF S
        <5>. QED  BY <5>2 DEF Range
      <4>. QED  BY <1>0, <2>1, <4>1, <4>4 DEF MatchInv, IsCertainMatch
    <3>. QED  BY <1>8, <3>1, <3>2 DEF ConcludeRule
  <2>. QED  BY <2>2, <2>3, <2>4, <2>5 DEF EngineInv
<1>9. CASE ReturnMatches
  <2>1. Return(matches, <<"ok">>) /\ Checked
    BY <1>0, <1>9 DEF ReturnMatches, OrderInv
  <2>2. \A m \in Range(matches) : IsCertainMatch(m)
    BY <1>0 DEF MatchInv
  <2>. QED  BY <2>1, <2>2, ReturnKeeps
<1>10. CASE UNCHANGED vars
  <2>1. /\ pc' = pc /\ event' = event /\ given' = given /\ ordered' = ordered
        /\ position' = position /\ matches' = matches /\ answer' = answer /\ reply' = reply
        /\ tree' = tree /\ test' = test /\ trace' = trace /\ status' = status
    BY <1>10 DEF vars, call, evaluation
  <2>2. OrderInv'
    BY <1>0, <2>1 DEF OrderInv, Checked
  <2>3. MatchInv'
    BY <1>0, <2>1 DEF MatchInv, IsCertainMatch
  <2>4. ReplyInv'
    BY <1>0, <2>1 DEF ReplyInv, Checked
  <2>5. LoopInv'
    <3>1. EvaluatorProofs!EvaluationInv => EvaluatorProofs!EvaluationInv'
      BY <2>1, EvaluatorAssumptions, EvaluatorProofs!EvaluationNext DEF EvaluatorProofs!vars
    <3>. QED  BY <1>0, <2>1, <3>1 DEF LoopInv, Rule
  <2>. QED  BY <2>2, <2>3, <2>4, <2>5 DEF EngineInv
<1>. QED
  BY <1>b, <1>1, <1>d, <1>e, <1>2, <1>3, <1>4, <1>5, <1>6, <1>7, <1>8, <1>9, <1>10 DEF Next

\* Whatever the rules, the event and the conditions: a match, accumulated or returned,
\* is of an applicable rule of the caller's whose condition is certain, and its trace
\* covers the condition.
THEOREM EngineMatchesCertain == Spec => []MatchesAreCertain
<1>1. EngineInv => MatchesAreCertain
  BY DEF EngineInv, MatchInv, IsCertainMatch, MatchesAreCertain
<1>. QED  BY InitEnters, EngineInit, EngineNext, <1>1, PTL DEF Spec

\* No condition is evaluated, and no outcome of an evaluation returned, before the
\* whole collection has been found to hold rules of different IDs only.
THEOREM EngineChecksFirst == Spec => []CollectionCheckedFirst
<1>1. EngineInv => CollectionCheckedFirst
  BY DEF EngineInv, OrderInv, ReplyInv, Checked, CollectionCheckedFirst
<1>. QED  BY InitEnters, EngineInit, EngineNext, <1>1, PTL DEF Spec

-----------------------------------------------------------------------------
(* Completeness: no match is missing, and a failure is the first there is.    *)

\* What follows in an evaluation the engine starts, and in each of its steps.
LEMMA FollowsStarts == EvaluatorProofs!Init' => EvaluatorProofs!TraceFollows'
<1>1. EvaluatorProofs!Init => EvaluatorProofs!TraceFollows
  BY EvaluatorAssumptions, EvaluatorProofs!FollowsInit
<1>. QED  BY <1>1, PTL

LEMMA FollowsSteps ==
  EvaluatorProofs!EvaluationInv /\ EvaluatorProofs!TraceFollows /\ Evaluator!Next =>
    EvaluatorProofs!TraceFollows'
BY EvaluatorAssumptions, EvaluatorProofs!FollowsNext, SameNext

\* The rules of the checked collection, strictly by ascending ID.
Sorted ==
  /\ ordered \in Seq(DetectionRules)
  /\ position \in 1..(Len(ordered) + 1)
  /\ pc \in {"begin", "take", "check"} => position = 1 /\ matches = <<>>
  /\ pc \in {"next", "evaluate"} =>
       /\ Range(ordered) = Range(given)
       /\ \A i, j \in 1..Len(ordered) : i < j => IdBefore(ordered[i], ordered[j])

\* The matches of the rules behind the one whose turn it is, none of which failed.
Gathered ==
  pc \in {"next", "evaluate"} =>
    /\ \A i \in 1..(position - 1) : ~Fails(ordered[i], event)
    /\ \A i \in 1..(position - 1) :
         Applicable(ordered[i], event) /\ Certain(ordered[i], event) =>
           \E m \in Range(matches) : m.rule = ordered[i]
    /\ \A m \in Range(matches) : \E i \in 1..(position - 1) : m.rule = ordered[i]
    /\ \A i, j \in 1..Len(matches) : i < j => IdBefore(matches[i].rule, matches[j].rule)

Typed ==
  /\ matches \in Seq(Matches) /\ answer \in Seq(Matches)
  /\ reply[1] \in Reasons
  /\ pc = "evaluate" => EvaluatorProofs!TraceFollows

\* What an error says is so.
Justified(o) ==
  /\ o[1] = "duplicate_rule_id" =>
       \E i \in DOMAIN given : given[i].id = o[2] /\ SharesId(given, i) /\
         \A j \in DOMAIN given : SharesId(given, j) => ~IdBefore(given[j], given[i])
  /\ o[1] = "evaluation_error" =>
       \E r \in Range(given) : IsFirstToFail(r) /\ EvaluationFails(r, event)
  /\ o[1] = "invalid_match" =>
       \E r \in Range(given) : IsFirstToFail(r) /\ ~EvaluationFails(r, event) /\ r.id = o[2]

Settled ==
  /\ reply # <<"ok">> => answer = <<>>
  /\ reply[1] = "ok" => \A r \in Range(given) : ~Fails(r, event)
  /\ Justified(reply)
  /\ AnswerIsDetermined

CompleteInv == Sorted /\ Gathered /\ Typed /\ Settled

LEMMA CompleteInit == Entered => CompleteInv
<1>. SUFFICES ASSUME Entered  PROVE CompleteInv
  OBVIOUS
<1>1. /\ pc \in {"begin", "check"} /\ ordered = <<>> /\ position = 1 /\ matches = <<>>
      /\ answer = <<>> /\ reply = <<"none">> /\ reply[1] = "none" /\ Len(ordered) = 0
  BY DEF Entered
<1>2. Sorted
  BY <1>1 DEF Sorted
<1>3. Gathered
  BY <1>1 DEF Gathered
<1>4. Typed
  BY <1>1 DEF Typed, Reasons
<1>5. reply # <<"ok">>
  BY <1>1
<1>6. Settled
  BY <1>1, <1>5 DEF Settled, Justified, AnswerIsDetermined
<1>. QED  BY <1>2, <1>3, <1>4, <1>6 DEF CompleteInv

\* A function from the places of a collection without repetitions onto its rules repeats
\* none of them.
LEMMA OntoIsOneToOne ==
  ASSUME NEW n \in Nat, NEW S, NEW g \in [1..n -> S], \A i, j \in 1..n : g[i] = g[j] => i = j,
         NEW h \in [1..n -> Range(g)], Range(h) = Range(g)
  PROVE  \A i, j \in 1..n : h[i] = h[j] => i = j
<1>1. IsFiniteSet(1..n) /\ Cardinality(1..n) = n
  BY FS_Interval
<1>2. g \in Surjection(1..n, Range(g)) /\ g \in Injection(1..n, Range(g))
  <2>1. g \in [1..n -> Range(g)] /\ \A x \in Range(g) : \E i \in 1..n : g[i] = x
    BY DEF Range
  <2>. QED  BY <2>1 DEF Surjection, Injection, IsInjective
<1>3. IsFiniteSet(Range(g)) /\ Cardinality(Range(g)) = Cardinality(1..n)
  BY <1>1, <1>2, FS_Surjection
<1>4. h \in Surjection(1..n, Range(g))
  BY DEF Surjection, Range
<1>5. h \in Injection(1..n, Range(g))
  BY <1>1, <1>3, <1>4, FS_Surjection
<1>. QED  BY <1>5 DEF Injection, IsInjective

\* An evaluation that returned anything but a true root found every leaf valid, and the
\* event leaves the condition open or false.
LEMMA RootIsSharp ==
  ASSUME EngineInv, Typed, pc = "evaluate", status = "returned"
  PROVE  /\ ~EvaluationFails(Rule, event)
         /\ RootOutcome # "true" => ~Certain(Rule, event)
<1>1. /\ EvaluatorProofs!EvaluationInv /\ EvaluatorProofs!TraceFollows
      /\ tree = Rule.condition /\ test = Evidence(Rule, event)
  BY DEF EngineInv, LoopInv, Typed
<1>2. /\ EvaluatorProofs!IsTree(tree)
      /\ Len(trace) = tree.size
      /\ \A n \in EvaluatorProofs!Leaves : test[n].valid
      /\ trace \in Seq(EvaluatorProofs!ConditionOutcome)
  BY <1>1 DEF EvaluatorProofs!EvaluationInv, EvaluatorProofs!Progress,
              EvaluatorProofs!NothingSkipped, EvaluatorProofs!TypeOK
<1>3. tree.size \in Nat \ {0}
  BY <1>2 DEF EvaluatorProofs!IsTree
<1>4. ~EvaluationFails(Rule, event)
  BY <1>1, <1>2 DEF EvaluationFails, Evidence, EvaluatorProofs!Leaves
<1>5. ASSUME RootOutcome # "true"  PROVE ~Certain(Rule, event)
  <2>1. PICK k \in Nat : k = tree.size /\ k \in 1..k
    BY <1>3
  <2>2. \A n \in 1..k : EvaluatorProofs!Follows(tree, test, trace, n)
    BY <1>1, <1>2, <2>1 DEF EvaluatorProofs!TraceFollows
  <2>3. trace[k] # "true"
    BY <1>2, <1>5, <2>1 DEF RootOutcome
  <2>4. \E v \in EvaluatorProofs!Assignments(tree) :
          EvaluatorProofs!IsReadingOf(tree, test, v) /\ ~v[k]
    <3>1. k <= tree.size
      BY <2>1
    <3>. QED  BY <1>2, <2>1, <2>2, <2>3, <3>1, EvaluatorAssumptions,
                 EvaluatorProofs!NotTrueIsNotCertain
  <2>5. PICK v \in [1..tree.size -> BOOLEAN] :
          Evaluator!IsReadingOf(tree, test, v) /\ ~v[tree.size]
    BY <2>1, <2>4, SameReading DEF EvaluatorProofs!Assignments
  <2>. QED  BY <1>1, <2>5 DEF Certain
<1>. QED  BY <1>4, <1>5

\* An evaluation that raised found a leaf that fails its checks.
LEMMA RaisedIsFailure ==
  ASSUME EngineInv, pc = "evaluate", status = "raised"
  PROVE  EvaluationFails(Rule, event)
<1>1. /\ EvaluatorProofs!EvaluationInv
      /\ tree = Rule.condition /\ test = Evidence(Rule, event)
  BY DEF EngineInv, LoopInv
<1>2. \E n \in EvaluatorProofs!Leaves : ~test[n].valid
  BY <1>1 DEF EvaluatorProofs!EvaluationInv, EvaluatorProofs!Progress,
              EvaluatorProofs!NothingSkipped
<1>. QED  BY <1>1, <1>2 DEF EvaluationFails, Evidence, EvaluatorProofs!Leaves

\* While the loop runs the arguments have been checked, and no rule before the one whose
\* turn it is fails.
LEMMA FirstToFail ==
  ASSUME EngineInv, Sorted, Gathered, pc = "evaluate"
  PROVE  /\ Rule \in Range(given) /\ Rule \in DetectionRules
         /\ Applicable(Rule, event)
         /\ \A other \in Range(given) : IdBefore(other, Rule) => ~Fails(other, event)
<1>1. position \in 1..Len(ordered) /\ Len(ordered) \in Nat
  BY DEF EngineInv, LoopInv, Sorted
<1>2. Rule \in Range(given) \cap DetectionRules
  BY <1>1 DEF EngineInv, OrderInv, Rule
<1>3. ASSUME NEW other \in Range(given), IdBefore(other, Rule)
      PROVE  ~Fails(other, event)
  <2>0. other \in Range(ordered) /\ DOMAIN ordered = 1..Len(ordered)
    BY <1>3 DEF Sorted
  <2>1. PICK i \in 1..Len(ordered) : other = ordered[i]
    BY <2>0 DEF Range
  <2>2. other \in DetectionRules
    BY <2>1 DEF EngineInv, OrderInv
  <2>3. IdRank[other.id] \in Nat /\ IdRank[Rule.id] \in Nat
    BY <1>2, <2>2, RulesAssumption, IdRankAssumption DEF IsRule
  <2>4. ~IdBefore(Rule, other)
    BY <1>3, <2>3 DEF IdBefore
  <2>5. ~(position < i)
    BY <1>1, <2>1, <2>4 DEF Sorted, Rule
  <2>6. i # position
    BY <1>3, <2>1, <2>3 DEF Rule, IdBefore
  <2>7. i \in 1..(position - 1)
    BY <1>1, <2>5, <2>6
  <2>. QED  BY <2>1, <2>7 DEF Gathered
<1>. QED  BY <1>2, <1>3 DEF EngineInv, LoopInv

\* An error that is justified leaves everything in order.
LEMMA FailureSettles ==
  ASSUME CompleteInv, NEW o, Return(<<>>, o), o[1] \in Reasons \ {"none", "ok"}, Justified(o)
  PROVE  CompleteInv'
<1>1. /\ pc' = "returned" /\ answer' = <<>> /\ reply' = o
      /\ event' = event /\ given' = given /\ ordered' = ordered
      /\ position' = position /\ matches' = matches
  BY DEF Return, call
<1>2. Sorted'
  BY <1>1 DEF CompleteInv, Sorted
<1>3. Gathered'
  BY <1>1 DEF Gathered
<1>4. Typed'
  <2>1. answer' \in Seq(Matches)
    BY <1>1
  <2>. QED  BY <1>1, <2>1 DEF CompleteInv, Typed
<1>5. o # <<"ok">> /\ o[1] # "ok"
  <2>1. <<"ok">>[1] = "ok"
    OBVIOUS
  <2>. QED  BY <2>1
<1>6. Justified(o)' <=> Justified(o)
  BY <1>1 DEF Justified, IsFirstToFail
<1>7. Justified(reply)'
  BY <1>1 DEF Justified, IsFirstToFail
<1>8. Settled'
  BY <1>1, <1>5, <1>7 DEF Settled, AnswerIsDetermined
<1>. QED  BY <1>2, <1>3, <1>4, <1>8 DEF CompleteInv

LEMMA RejectSettles ==
  ASSUME CompleteInv, RejectArguments \/ IterationRaises \/ RejectItems
  PROVE  CompleteInv'
<1>1. ASSUME NEW reason, Fail(reason),
             reason \in {"invalid_event", "invalid_rule_collection", "iterator_error",
                        "invalid_rule_item"}
      PROVE  CompleteInv'
  <2>1. PICK o : o = <<reason>>
    OBVIOUS
  <2>2. o[1] = reason /\ Return(<<>>, o)
    BY <1>1, <2>1 DEF Fail
  <2>3. Justified(o) /\ o[1] \in Reasons \ {"none", "ok"}
    BY <1>1, <2>2 DEF Justified, Reasons
  <2>. QED  BY <2>2, <2>3, FailureSettles
<1>2. ASSUME NEW i \in DOMAIN given, SharesId(given, i),
             \A j \in DOMAIN given : SharesId(given, j) => ~IdBefore(given[j], given[i]),
             FailFor("duplicate_rule_id", given[i].id)
      PROVE  CompleteInv'
  <2>1. PICK o : o = <<"duplicate_rule_id", given[i].id>>
    OBVIOUS
  <2>2. o[1] = "duplicate_rule_id" /\ o[2] = given[i].id /\ Return(<<>>, o)
    BY <1>2, <2>1 DEF FailFor
  <2>3. Justified(o) /\ o[1] \in Reasons \ {"none", "ok"}
    BY <1>2, <2>2 DEF Justified, Reasons
  <2>. QED  BY <2>2, <2>3, FailureSettles
<1>. QED  BY <1>1, <1>2 DEF RejectArguments, IterationRaises, RejectItems

\* Before the rules are in order nothing has been gathered, and nothing is settled but the
\* arguments.
LEMMA TakingSettles ==
  ASSUME EngineInv, CompleteInv, BeginSnapshot \/ TakeItem \/ EndOfItems
  PROVE  CompleteInv'
<1>1. /\ pc \in {"begin", "take"} /\ pc' \in {"take", "check"}
      /\ ordered' = ordered /\ position' = position
      /\ matches' = matches /\ answer' = answer /\ reply' = reply
  BY DEF BeginSnapshot, TakeItem, EndOfItems, StepTo
<1>2. reply = <<"none">> /\ reply[1] = "none" /\ reply # <<"ok">>
  <2>1. reply = <<"none">>
    BY <1>1 DEF EngineInv, ReplyInv
  <2>. QED  BY <2>1
<1>3. Sorted'
  BY <1>1 DEF CompleteInv, Sorted
<1>4. Gathered'
  BY <1>1 DEF Gathered
<1>5. Typed'
  BY <1>1 DEF CompleteInv, Typed
<1>6. Justified(reply)' /\ AnswerIsDetermined'
  BY <1>1, <1>2 DEF Justified, AnswerIsDetermined
<1>7. Settled'
  BY <1>1, <1>2, <1>6 DEF CompleteInv, Settled
<1>. QED  BY <1>3, <1>4, <1>5, <1>7 DEF CompleteInv

LEMMA PropagateSettles ==
  ASSUME EngineInv, CompleteInv, PropagateError
  PROVE  CompleteInv'
<1>1. pc = "evaluate" /\ status = "raised" /\ Fail("evaluation_error")
  BY DEF PropagateError
<1>2. PICK o : o = <<"evaluation_error">>
  OBVIOUS
<1>3. o[1] = "evaluation_error" /\ Return(<<>>, o)
  BY <1>1, <1>2 DEF Fail
<1>4. EvaluationFails(Rule, event)
  BY <1>1, RaisedIsFailure
<1>5. Rule \in Range(given) /\ IsFirstToFail(Rule)
  BY <1>1, <1>4, FirstToFail DEF CompleteInv, Fails, IsFirstToFail
<1>6. Justified(o)
  BY <1>3, <1>4, <1>5 DEF Justified
<1>. QED  BY <1>3, <1>6, FailureSettles DEF Reasons

LEMMA RejectMatchSettles ==
  ASSUME EngineInv, CompleteInv, RejectMatch
  PROVE  CompleteInv'
<1>1. /\ pc = "evaluate" /\ status = "returned" /\ RootOutcome = "true"
      /\ ~Rule.valid_match /\ FailFor("invalid_match", Rule.id)
  BY DEF RejectMatch
<1>2. PICK o : o = <<"invalid_match", Rule.id>>
  OBVIOUS
<1>3. o[1] = "invalid_match" /\ o[2] = Rule.id /\ Return(<<>>, o)
  BY <1>1, <1>2 DEF FailFor
<1>4. Certain(Rule, event) /\ ~EvaluationFails(Rule, event)
  BY <1>1, TrueRootIsCertain, RootIsSharp DEF CompleteInv
<1>5. Rule \in Range(given) /\ IsFirstToFail(Rule)
  BY <1>1, <1>4, FirstToFail DEF CompleteInv, Fails, IsFirstToFail
<1>6. Justified(o)
  BY <1>3, <1>4, <1>5 DEF Justified
<1>. QED  BY <1>3, <1>6, FailureSettles DEF Reasons

\* What is not touched stays settled.
LEMMA SettledStays ==
  ASSUME Settled, event' = event, given' = given, answer' = answer, reply' = reply
  PROVE  Settled'
<1>1. Justified(reply)' <=> Justified(reply)
  BY DEF Justified, IsFirstToFail
<1>2. AnswerIsDetermined' <=> AnswerIsDetermined
  BY DEF AnswerIsDetermined
<1>. QED  BY <1>1, <1>2 DEF Settled

LEMMA OrderSettles ==
  ASSUME EngineInv, CompleteInv, OrderRules
  PROVE  CompleteInv'
<1>1. /\ pc = "check" /\ pc' = "next" /\ event' = event /\ given' = given
      /\ position' = position /\ matches' = matches /\ answer' = answer /\ reply' = reply
      /\ Junk \notin Range(given)
      /\ \A i \in DOMAIN given : ~SharesId(given, i)
  BY DEF OrderRules, call
<1>2. PICK rules \in [DOMAIN given -> Range(given)] :
        /\ Range(rules) = Range(given)
        /\ \A i, j \in DOMAIN rules : i < j => ~IdBefore(rules[j], rules[i])
        /\ ordered' = rules
  BY DEF OrderRules
<1>3. PICK n \in Nat : given \in [1..n -> DetectionRules \cup {Junk}]
  BY <1>1 DEF EngineInv, LoopInv, Collections, SeqOf
<1>4. \A i \in 1..n : given[i] \in DetectionRules
  BY <1>1, <1>3 DEF Range
<1>5. \A i, j \in 1..n : given[i].id = given[j].id => i = j
  BY <1>1, <1>3 DEF SharesId
<1>6. rules \in [1..n -> Range(given)] /\ Range(given) \subseteq DetectionRules
  BY <1>2, <1>3, <1>4 DEF Range
<1>7. rules \in Seq(DetectionRules) /\ Len(rules) = n
  BY <1>6
<1>8. \A i, j \in 1..n : given[i] = given[j] => i = j
  BY <1>5
<1>9. \A i, j \in 1..n : rules[i] = rules[j] => i = j
  <2>1. PICK g : g = given
    OBVIOUS
  <2>2. /\ g \in [1..n -> DetectionRules \cup {Junk}]
        /\ \A i, j \in 1..n : g[i] = g[j] => i = j
        /\ rules \in [1..n -> Range(g)] /\ Range(rules) = Range(g)
    BY <1>2, <1>3, <1>6, <1>8, <2>1
  <2>. QED  BY <2>2, OntoIsOneToOne
<1>10. ASSUME NEW i \in 1..n, NEW j \in 1..n, i < j
       PROVE  IdBefore(rules[i], rules[j])
  <2>1. rules[i] # rules[j]
    BY <1>9, <1>10
  <2>2. PICK a \in 1..n : rules[i] = given[a]
    BY <1>3, <1>6, <1>10 DEF Range
  <2>3. PICK b \in 1..n : rules[j] = given[b]
    BY <1>3, <1>6, <1>10 DEF Range
  <2>4. rules[i].id # rules[j].id
    BY <1>5, <2>1, <2>2, <2>3
  <2>5. rules[i].id \in DOMAIN IdRank /\ rules[j].id \in DOMAIN IdRank
    BY <1>4, <2>2, <2>3, RulesAssumption DEF IsRule
  <2>6. /\ IdRank[rules[i].id] \in Nat /\ IdRank[rules[j].id] \in Nat
        /\ IdRank[rules[i].id] # IdRank[rules[j].id]
    BY <2>4, <2>5, IdRankAssumption
  <2>7. ~(IdRank[rules[j].id] < IdRank[rules[i].id])
    BY <1>2, <1>6, <1>10 DEF IdBefore
  <2>. QED  BY <2>6, <2>7 DEF IdBefore
<1>11. position = 1 /\ matches = <<>>
  BY <1>1 DEF CompleteInv, Sorted
<1>12. Sorted'
  BY <1>1, <1>2, <1>7, <1>10, <1>11 DEF Sorted
<1>13. Gathered'
  <2>1. Range(matches') = {} /\ Len(matches') = 0 /\ 1..(position' - 1) = {}
    BY <1>1, <1>11 DEF Range
  <2>. QED  BY <2>1 DEF Gathered
<1>14. Typed'
  BY <1>1 DEF CompleteInv, Typed
<1>15. Settled'
  BY <1>1, SettledStays DEF CompleteInv
<1>. QED  BY <1>12, <1>13, <1>14, <1>15 DEF CompleteInv

\* What the loop gathers when a rule that neither fails nor matches is passed.
LEMMA PassingGathers ==
  ASSUME EngineInv, Sorted, Gathered, pc \in {"next", "evaluate"}, position <= Len(ordered),
         event' = event, ordered' = ordered, position' = position + 1, matches' = matches,
         ~Fails(Rule, event), ~(Applicable(Rule, event) /\ Certain(Rule, event))
  PROVE  Gathered'
<1>1. position \in Nat \ {0} /\ position' - 1 = position
  BY DEF EngineInv, LoopInv
<1>2. \A i \in 1..position : i = position \/ i \in 1..(position - 1)
  BY <1>1
<1>3. Rule = ordered[position]
  BY DEF Rule
<1>4. \A i \in 1..position : ~Fails(ordered[i], event)
  BY <1>2, <1>3 DEF Gathered
<1>5. \A i \in 1..position :
        Applicable(ordered[i], event) /\ Certain(ordered[i], event) =>
          \E m \in Range(matches) : m.rule = ordered[i]
  BY <1>2, <1>3 DEF Gathered
<1>6. \A m \in Range(matches) : \E i \in 1..position : m.rule = ordered[i]
  BY <1>1 DEF Gathered
<1>7. \A i, j \in 1..Len(matches) : i < j => IdBefore(matches[i].rule, matches[j].rule)
  BY DEF Gathered
<1>. QED  BY <1>1, <1>4, <1>5, <1>6, <1>7 DEF Gathered

LEMMA SkipSettles ==
  ASSUME EngineInv, CompleteInv, SkipRule
  PROVE  CompleteInv'
<1>1. /\ pc = "next" /\ pc' = pc /\ event' = event /\ given' = given /\ ordered' = ordered
      /\ position <= Len(ordered) /\ position' = position + 1
      /\ matches' = matches /\ answer' = answer /\ reply' = reply
      /\ ~Applicable(Rule, event)
  BY DEF SkipRule, call
<1>2. Sorted'
  BY <1>1 DEF CompleteInv, Sorted
<1>3. Gathered'
  BY <1>1, PassingGathers DEF CompleteInv, Fails
<1>4. Typed'
  BY <1>1 DEF CompleteInv, Typed
<1>5. Settled'
  BY <1>1, SettledStays DEF CompleteInv
<1>. QED  BY <1>2, <1>3, <1>4, <1>5 DEF CompleteInv

\* Steps that leave the loop where it is.
LEMMA StandingSettles ==
  ASSUME CompleteInv, pc \in {"next", "evaluate"}, pc' = "evaluate",
         event' = event, given' = given, ordered' = ordered, position' = position,
         matches' = matches, answer' = answer, reply' = reply,
         EvaluatorProofs!TraceFollows'
  PROVE  CompleteInv'
<1>1. Sorted'
  BY DEF CompleteInv, Sorted
<1>2. Gathered'
  BY DEF CompleteInv, Gathered
<1>3. Typed'
  BY DEF CompleteInv, Typed
<1>4. Settled'
  BY SettledStays DEF CompleteInv
<1>. QED  BY <1>1, <1>2, <1>3, <1>4 DEF CompleteInv

LEMMA BeginSettles ==
  ASSUME EngineInv, CompleteInv, BeginEvaluation
  PROVE  CompleteInv'
<1>1. /\ pc = "next" /\ pc' = "evaluate" /\ event' = event /\ given' = given
      /\ ordered' = ordered /\ position' = position /\ position <= Len(ordered)
      /\ matches' = matches /\ answer' = answer /\ reply' = reply
      /\ tree' = Rule.condition /\ test' = Evidence(Rule, event)
      /\ trace' = <<>> /\ status' = "running"
  BY DEF BeginEvaluation, call
<1>2. Rule \in DetectionRules /\ event \in Events
  BY <1>1 DEF EngineInv, OrderInv, LoopInv, Rule, Checked
<1>3. EvaluatorProofs!Init'
  BY <1>1, <1>2, EvidenceFits DEF EvaluatorProofs!Init, EvaluatorProofs!Leaves
<1>4. EvaluatorProofs!TraceFollows'
  BY <1>3, FollowsStarts
<1>. QED  BY <1>1, <1>4, StandingSettles

LEMMA EvaluateSettles ==
  ASSUME EngineInv, CompleteInv, Evaluate
  PROVE  CompleteInv'
<1>1. /\ pc = "evaluate" /\ pc' = pc /\ event' = event /\ given' = given
      /\ ordered' = ordered /\ position' = position
      /\ matches' = matches /\ answer' = answer /\ reply' = reply
      /\ Evaluator!Next
  BY DEF Evaluate, call
<1>2. EvaluatorProofs!TraceFollows'
  BY <1>1, FollowsSteps DEF EngineInv, LoopInv, CompleteInv, Typed
<1>. QED  BY <1>1, <1>2, StandingSettles

LEMMA ReturnSettles ==
  ASSUME EngineInv, CompleteInv, ReturnMatches
  PROVE  CompleteInv'
<1>1. /\ pc = "next" /\ pc' = "returned" /\ position > Len(ordered)
      /\ answer' = matches /\ reply' = <<"ok">>
      /\ event' = event /\ given' = given /\ ordered' = ordered
      /\ position' = position /\ matches' = matches
  BY DEF ReturnMatches, Return, call
<1>2. Len(ordered) \in Nat /\ position - 1 = Len(ordered)
  BY <1>1 DEF CompleteInv, Sorted
<1>3. ASSUME NEW r \in Range(given)
      PROVE  \E i \in 1..(position - 1) : r = ordered[i]
  <2>1. r \in Range(ordered) /\ DOMAIN ordered = 1..Len(ordered)
    BY <1>1 DEF EngineInv, OrderInv, CompleteInv, Sorted
  <2>. QED  BY <1>2, <2>1 DEF Range
<1>4. reply'[1] = "ok"
  BY <1>1
<1>5. Sorted'
  BY <1>1 DEF CompleteInv, Sorted
<1>6. Gathered'
  BY <1>1 DEF Gathered
<1>7. Typed'
  BY <1>1, <1>4 DEF CompleteInv, Typed, Reasons
<1>8. \A r \in Range(given) : ~Fails(r, event)
  BY <1>1, <1>3 DEF CompleteInv, Gathered
<1>9. {m.rule : m \in Range(matches)} =
        {r \in Range(given) : Applicable(r, event) /\ Certain(r, event)}
  <2>1. \A m \in Range(matches) :
          m.rule \in Range(given) /\ Applicable(m.rule, event) /\ Certain(m.rule, event)
    BY DEF EngineInv, MatchInv, IsCertainMatch
  <2>2. ASSUME NEW r \in Range(given), Applicable(r, event), Certain(r, event)
        PROVE  \E m \in Range(matches) : m.rule = r
    BY <1>1, <1>3, <2>2 DEF CompleteInv, Gathered
  <2>. QED  BY <2>1, <2>2
<1>10. \A i, j \in DOMAIN matches : i < j => IdBefore(matches[i].rule, matches[j].rule)
  <2>1. DOMAIN matches = 1..Len(matches)
    BY DEF CompleteInv, Typed
  <2>. QED  BY <1>1, <2>1 DEF CompleteInv, Gathered
<1>11. AnswerIsDetermined'
  BY <1>1, <1>9, <1>10 DEF AnswerIsDetermined
<1>12. Justified(reply)'
  BY <1>4 DEF Justified
<1>13. Settled'
  BY <1>1, <1>8, <1>11, <1>12 DEF Settled
<1>. QED  BY <1>5, <1>6, <1>7, <1>13 DEF CompleteInv

\* A match is appended behind the matches of rules of smaller IDs.
LEMMA AppendingGathers ==
  ASSUME EngineInv, Sorted, Gathered, pc \in {"next", "evaluate"}, position <= Len(ordered),
         event' = event, ordered' = ordered, position' = position + 1,
         matches \in Seq(Matches), NEW new \in Matches, new.rule = Rule,
         matches' = Append(matches, new), ~Fails(Rule, event)
  PROVE  Gathered'
<1>1. position \in 1..Len(ordered) /\ Len(ordered) \in Nat /\ position' - 1 = position
  BY DEF Sorted
<1>2. \A i \in 1..position : i = position \/ i \in 1..(position - 1)
  BY <1>1
<1>3. Rule = ordered[position]
  BY DEF Rule
<1>4. \A i \in 1..position : ~Fails(ordered[i], event)
  BY <1>2, <1>3 DEF Gathered
<1>5. PICK n \in Nat : n = Len(matches) /\ matches \in [1..n -> Matches]
  OBVIOUS
<1>6. PICK longer \in Seq(Matches) : longer = Append(matches, new)
  OBVIOUS
<1>7. /\ Len(longer) = n + 1 /\ longer[n + 1] = new /\ \A i \in 1..n : longer[i] = matches[i]
      /\ DOMAIN longer = 1..(n + 1)
  BY <1>5, <1>6
<1>8. \A m : m \in Range(longer) <=> m = new \/ m \in Range(matches)
  <2>1. \A i \in 1..(n + 1) : i = n + 1 \/ i \in 1..n
    BY <1>5
  <2>2. Range(longer) = {longer[i] : i \in 1..(n + 1)} /\ Range(matches) = {matches[i] : i \in 1..n}
    BY <1>5, <1>7 DEF Range
  <2>3. n + 1 \in 1..(n + 1) /\ \A i \in 1..n : i \in 1..(n + 1)
    BY <1>5
  <2>. QED  BY <1>7, <2>1, <2>2, <2>3
<1>9. \A i \in 1..position :
        Applicable(ordered[i], event) /\ Certain(ordered[i], event) =>
          \E m \in Range(longer) : m.rule = ordered[i]
  BY <1>2, <1>3, <1>8 DEF Gathered
<1>10. \A m \in Range(longer) : \E i \in 1..position : m.rule = ordered[i]
  BY <1>1, <1>3, <1>8 DEF Gathered
<1>11. ASSUME NEW i \in 1..(n + 1), NEW j \in 1..(n + 1), i < j
       PROVE  IdBefore(longer[i].rule, longer[j].rule)
  <2>1. i \in 1..n
    BY <1>5, <1>11
  <2>2. CASE j \in 1..n
    BY <1>5, <1>7, <1>11, <2>1, <2>2 DEF Gathered
  <2>3. CASE j = n + 1
    <3>1. matches[i] \in Range(matches)
      BY <1>5, <2>1 DEF Range
    <3>2. PICK k \in 1..(position - 1) : matches[i].rule = ordered[k]
      BY <3>1 DEF Gathered
    <3>3. k \in 1..Len(ordered) /\ k < position
      BY <1>1, <3>2
    <3>4. IdBefore(ordered[k], ordered[position])
      BY <1>1, <3>3 DEF Sorted
    <3>. QED  BY <1>3, <1>7, <2>1, <2>3, <3>2, <3>4
  <2>. QED  BY <1>5, <2>2, <2>3
<1>12. matches' = longer
  BY <1>6
<1>. QED  BY <1>1, <1>4, <1>7, <1>9, <1>10, <1>11, <1>12 DEF Gathered

LEMMA ConcludeSettles ==
  ASSUME EngineInv, CompleteInv, ConcludeRule
  PROVE  CompleteInv'
<1>1. /\ pc = "evaluate" /\ status = "returned" /\ pc' = "next"
      /\ event' = event /\ given' = given /\ ordered' = ordered
      /\ position' = position + 1 /\ answer' = answer /\ reply' = reply
  BY DEF ConcludeRule, call
<1>2. /\ position <= Len(ordered) /\ Rule \in DetectionRules
      /\ ~EvaluationFails(Rule, event)
      /\ RootOutcome # "true" => ~Certain(Rule, event)
  BY <1>1, RootIsSharp, FirstToFail DEF EngineInv, LoopInv, CompleteInv
<1>3. Sorted'
  BY <1>1, <1>2 DEF CompleteInv, Sorted
<1>4. Settled'
  BY <1>1, SettledStays DEF CompleteInv
<1>5. CASE RootOutcome # "true" /\ matches' = matches
  <2>1. ~Certain(Rule, event) /\ ~Fails(Rule, event)
    BY <1>2, <1>5 DEF Fails
  <2>2. Gathered'
    BY <1>1, <1>2, <1>5, <2>1, PassingGathers DEF CompleteInv
  <2>3. Typed'
    BY <1>1, <1>5 DEF CompleteInv, Typed
  <2>. QED  BY <1>3, <1>4, <2>2, <2>3 DEF CompleteInv
<1>6. CASE Rule.valid_match /\ matches' = Append(matches, [rule |-> Rule, trace |-> trace])
  <2>1. ~Fails(Rule, event)
    BY <1>2, <1>6 DEF Fails
  <2>2. trace \in Seq({"true", "false", "unknown"})
    BY <1>1 DEF EngineInv, LoopInv, EvaluatorProofs!EvaluationInv, EvaluatorProofs!TypeOK,
                EvaluatorProofs!ConditionOutcome
  <2>3. PICK new : new = [rule |-> Rule, trace |-> trace]
    OBVIOUS
  <2>4. new \in Matches /\ new.rule = Rule
    BY <1>2, <2>2, <2>3 DEF Matches
  <2>5. matches \in Seq(Matches) /\ matches' = Append(matches, new)
    BY <1>6, <2>3 DEF CompleteInv, Typed
  <2>6. Gathered'
    BY <1>1, <1>2, <2>1, <2>4, <2>5, AppendingGathers DEF CompleteInv
  <2>7. matches' \in Seq(Matches)
    BY <2>4, <2>5
  <2>8. Typed'
    BY <1>1, <2>7 DEF CompleteInv, Typed
  <2>. QED  BY <1>3, <1>4, <2>6, <2>8 DEF CompleteInv
<1>. QED  BY <1>5, <1>6 DEF ConcludeRule

LEMMA StutterSettles ==
  ASSUME CompleteInv, UNCHANGED vars
  PROVE  CompleteInv'
<1>1. /\ pc' = pc /\ event' = event /\ given' = given /\ ordered' = ordered
      /\ position' = position /\ matches' = matches /\ answer' = answer /\ reply' = reply
      /\ tree' = tree /\ test' = test /\ trace' = trace /\ status' = status
  BY DEF vars, call, evaluation
<1>2. Sorted'
  BY <1>1 DEF CompleteInv, Sorted
<1>3. Gathered'
  BY <1>1 DEF CompleteInv, Gathered
<1>4. Typed'
  <2>1. EvaluatorProofs!TraceFollows' <=> EvaluatorProofs!TraceFollows
    BY <1>1 DEF EvaluatorProofs!TraceFollows
  <2>. QED  BY <1>1, <2>1 DEF CompleteInv, Typed
<1>5. Settled'
  BY <1>1, SettledStays DEF CompleteInv
<1>. QED  BY <1>2, <1>3, <1>4, <1>5 DEF CompleteInv

LEMMA CompleteNext == EngineInv /\ CompleteInv /\ [Next]_vars => CompleteInv'
BY RejectSettles, TakingSettles, OrderSettles, SkipSettles, BeginSettles, EvaluateSettles, PropagateSettles,
   RejectMatchSettles, ConcludeSettles, ReturnSettles, StutterSettles DEF Next

LEMMA EngineCompletes == Spec => [](EngineInv /\ CompleteInv)
BY InitEnters, EngineInit, EngineNext, CompleteInit, CompleteNext, PTL DEF Spec

\* Whatever the rules, the event and the conditions: a successful call returns a match for
\* every applicable rule whose condition is certain and for no other, each once and by
\* ascending ID, however the collection enumerates the rules.
THEOREM EngineMissesNothing == Spec => []AnswerIsDetermined
<1>1. CompleteInv => AnswerIsDetermined
  BY DEF CompleteInv, Settled
<1>. QED  BY EngineCompletes, <1>1, PTL

\* A failing call returns nothing, and a call that succeeds was given no rule that fails.  An
\* error about repeated IDs names the smallest of them.  An error of an evaluation, which
\* names no rule, is that of the condition of the first rule by ID that fails; an error about
\* a match names the first rule by ID that fails.
THEOREM EngineFailsForTheFirst == Spec => []FailureIsDetermined
<1>1. CompleteInv => FailureIsDetermined
  BY DEF CompleteInv, Settled, Justified, FailureIsDetermined
<1>. QED  BY EngineCompletes, <1>1, PTL

\* The engine works on rules once it has checked the collection, and its evaluation is
\* that of the rule whose turn it is.
THEOREM EngineWellTyped == Spec => []TypeOK
<1>1. ASSUME EngineInv, CompleteInv  PROVE TypeOK
  <2>1. /\ pc \in {"begin", "take", "check", "next", "evaluate", "returned"}
        /\ event \in Events \cup {Junk} /\ given \in Collections
        /\ ordered \in Seq(DetectionRules) /\ position \in 1..(Len(ordered) + 1)
        /\ matches \in Seq(Matches) /\ answer \in Seq(Matches)
        /\ reply[1] \in Reasons
        /\ pc \in {"take", "check", "next", "evaluate"} => event \in Events
    BY <1>1 DEF EngineInv, OrderInv, LoopInv, Checked, CompleteInv, Sorted, Typed
  <2>2. ASSUME pc = "evaluate"
        PROVE  /\ position <= Len(ordered)
               /\ tree = Rule.condition /\ test = Evidence(Rule, event)
               /\ Evaluator!TypeOK
    <3>1. EvaluatorProofs!TypeOK
      BY <1>1, <2>2 DEF EngineInv, LoopInv, EvaluatorProofs!EvaluationInv
    <3>2. Evaluator!TypeOK
      BY <3>1 DEF Evaluator!TypeOK, EvaluatorProofs!TypeOK, Evaluator!IsTree,
                  EvaluatorProofs!IsTree, Evaluator!Leaves, EvaluatorProofs!Leaves,
                  Evaluator!ConditionOutcome, EvaluatorProofs!ConditionOutcome
    <3>. QED  BY <1>1, <2>2, <3>2 DEF EngineInv, LoopInv
  <2>. QED  BY <2>1, <2>2 DEF TypeOK
<1>. QED  BY EngineCompletes, <1>1, PTL

=============================================================================
