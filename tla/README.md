# A verification development of the SOC Investigation Lab backend

TLA+ specifications of the backend under `src/backend/app`, the TLC models that check them on
small instances, and TLAPS proofs of what holds for every instance. Every definition is a
translation of the Python source; the documents under `src/docs` supply the promises the
properties state. `PROJECT.json` maps each definition to the lines it stands for.

## The system

The backend turns security telemetry into alerts that analysts handle:

    raw event --parsers--> NormalizedEvent --+
                                             +--> evaluate_event --> DetectionMatch
    rule files --load_detection_rules--> rules +                        |
                                                                   create_alert
                                                                        v
      list_alerts <--- collections of Alerts <--- acknowledge / close / set_severity / set_priority

At this commit it is a library of synchronous functions. There is no store, no thread and no
server; what makes it hard is elsewhere:

- **Values instead of a store.** An Alert is an immutable value. Callers copy it, keep superseded
  copies, edit copies with `model_copy` (which validates nothing) and hand any of them to any
  operation. The history of an alert must survive all of that.
- **Caller code inside library code.** A collection's `len()` and iterator and a `tzinfo` run the
  caller's code in the middle of a call, and may raise, lie or never end.
- **Three-valued logic.** Absent evidence is `unknown`, through negations and aggregations of any
  depth, and must never become a match.
- **Whole-call failure.** Loader, evaluator, engine and queue return everything or nothing, and
  which error they report must not depend on an accidental order.
- **A file system that moves.** The loader looks at names, resolves paths and reads files in
  separate steps, between which the library can change.

### Components

| Component | Source | State | Operations | Model |
|---|---|---|---|---|
| Alert value, validation | `models/alert.py`, `alerts/_validation.py` | the fields of a value | field checks, UTC conversion, revalidation | `AlertValues` |
| Alert operations | `alerts/creation.py`, `lifecycle.py`, `policy.py` | none; the caller's values | create, acknowledge, close, set severity, set priority | `AlertManagement`, abstractly `AlertLedger` |
| Alert queue | `alerts/queue.py` | the locals of one call | `list_alerts` | `AlertQueue` |
| Condition evaluator | `detection/evaluator.py` | the recursion of one call | `evaluate_condition` | `ConditionEvaluator` |
| Detection engine | `detection/engine.py` | the locals of one call | `evaluate_event` | `DetectionEngine`, with the evaluator inside |
| Rule library loader | `detection/loader.py`, `errors.py` | the locals of one call, the file system | `load_detection_rules` | `RuleLoader` |
| Detection models | `models/detection.py` | values | shapes of conditions, rules, traces, matches | `RuleChecks`, `RuleSemantics`; trees in `ConditionEvaluator` |
| Rule semantics | `detection/semantics.py` | the walk over one rule | static checks of a rule | `RuleChecks`, `RuleSemantics` |
| Event ingestion | `parsers/*` | the locals of one call | XML record to raw event, dispatch, two normalizers | `EventNormalization` |
| Event models | `models/normalized_event.py`, `raw_event.py` | values | field checks | `EventModels`, `EventNormalization` |
| Owned evidence | `models/alert.py`, `alerts/creation.py`, `_validation.py` | objects shared by reference | copies at creation, validation, access | `AlertEvidence` |
| Detection rules | `rules/windows` | data | - | `RuleLibrary` |
| All of it in a row | `tests/integration`, `parsers/pipeline.py` | the caller's | load, normalize, evaluate, create | `Pipeline` |
| API, services, schemas, core, investigation, frontend | empty packages | - | - | nothing to model |

How they interact: a caller normalizes a record and gives the event to the engine with the rules the
loader returned; the engine calls the evaluator once per applicable rule and keeps its traces;
`create_alert` takes a match and keeps it as evidence; every alert operation and the queue
revalidate what they are given through `_validation.py`. The rule semantics are asked twice, by the
loader for a rule alone and by the evaluator for a leaf and an event. All of it is call and return; what
two parties share is the caller's collection (queue), the file system (loader), and the mutable objects a
match refers to: the caller's event, and the lists in its traces.

### What makes each component correct

- *Alert operations*: history is entered once and in order, whichever copies are used; a request is
  refused exactly when the history forbids it; what the library returns it accepts again; errors
  are of the documented kinds.
- *Queue*: nothing is answered before the whole input is checked; the answer is the documented
  selection in the documented order; it always answers.
- *Evaluator*: decided means certain, unknown means open, no invalid leaf is passed over.
- *Engine*: matches are certain and belong to the caller's applicable rules; answer and failure are
  functions of the set of rules, which is copied and checked before anything is evaluated.
- *Loader*: the whole library or an error; order and errors do not depend on the search; no link is
  passed unless one is put into the library during the load; it ends.
- *Rule semantics*: what the loader accepts the evaluator never trips over, and what it refuses could not
  have been evaluated; conditions are bounded in depth and size.
- *Ingestion*: no entry of a record is lost, told twice or made up; no half-built event is returned;
  the registry and the normalizers' own checks agree; errors are of the documented kinds.
- *Evidence*: what an alert holds never changes, whatever the caller does to the objects it was made of.
- *The whole*: once a record is an event, nothing fails, and the alerts are the ones the rules'
  descriptions call for.

## The models

### Alert Management (`AlertValues`, `AlertManagement`, `AlertLedger`)

`AlertValues` holds the data and the decisions. Identities and matches are model values, an instant
is a number in `0..MaxTime` (`datetime.min` to `datetime.max`), a caller's time is a wall-clock
reading with a UTC offset, without one (`Naive`), or with a `tzinfo` that raises (`Broken`).
`UtcInstant` subtracts the offset, and `HasUtcInstant` fails where `astimezone` overflows. Enum
members carry their class name because `AlertSeverity.HIGH` and `AlertPriority.HIGH` have equal text
and the code tells them apart. `CreateReply`, `TransitionReply`, `PolicyReply` are the guards of the
operations in the order the code evaluates them; `NewAlert`, `Transitioned`, `Reassessed` the values
they produce, revalidated before they are returned.

`AlertManagement` is the caller's view: `held` gives the value in each of the caller's variables
(`Slots`), and one action per operation reads any slot and writes any slot, so that copies
become stale freely. `Edit` is `model_copy(update=...)`, `Assign` plain assignment. `lineage` is a
history variable: whether a value is the library's own work (and then when it was acknowledged),
the caller's edit, or derived from one.

`AlertLedger` is what `docs/alert-management-scope.md` promises, without the Alert record: a line per
value with the instants of its opening, acknowledgement, closing and last touch. `EntryOf` maps a slot
to its line; `ImplementsLedger` is the refinement.

### Alert queue (`AlertQueue`)

One step per call into the collection (`Measure`, `Take`, `EndOfEntries`), each of which may give any
answer, then one per turn of the validation loop (`Validate`) and one for filters and sort (`Select`). The sort
is stable, so of the places that match the filters (`Matching`) there is one arrangement by the keys, and
within equal keys by place: `InQueueOrder`.

### Condition evaluator (`ConditionEvaluator`)

The recursion is unrolled into the order in which `_evaluate` returns: a node comes after its children,
the last is the root. Each step returns from one node and appends its outcome to `trace`. What a
comparison finds in the event (does the leaf pass its checks, is the value there, does it hold) is
a record per leaf; how strings and numbers are compared is not modelled.

### Detection engine (`DetectionEngine`)

`evaluate_event` with the evaluator's variables as its own (`INSTANCE ConditionEvaluator`): argument
checks, the copy of the collection, ordering by ID, and a loop that skips a rule, or evaluates it step by
step and concludes. The copy, `list(rules)`, is an item per step: the caller's iterator yields what it likes
(`TakeItem`), ends (`EndOfItems`) or raises, and what it raises reaches the caller (`IterationRaises`). It
need not end, as nothing in the code makes it; the model claims no termination of the call.
An error about a repeated ID or a refused match names the rule. That of an evaluation goes through
unchanged and names none; which rule it came from is a matter of the properties (`IsFirstToFail`).
A behaviour is one call, as nothing is kept between calls. One leaf condition may appear in several
rules and meets the same thing in all of them.

### Rule loader (`RuleLoader`)

A directory tree `fs` maps paths to what is there; a path is the sequence of its names. Every look at
a name (`lstat`), the resolution of a path, every directory read, stat and file read is a step that may
fail, and `Replace` lets another process put something else in place of a node between any two. An access
that passes a link may find anything, and a resolution through one may end anywhere in the tree or
outside. The content of a file is abstracted to the rule ID it yields or its error category, so
YAML syntax and the rule models do not appear. Whether the argument is absolute, and how resolving the
root fails, is left open: `StartAtRoot` may fail at any time.

History variables tell what was replaced since the load began (`changed`), whether a link was among
what was put in place (`planted`), and whether an access has been led through any link, wherever it is and
however old (`strayed`). Links are looked for on the whole path an access resolves; an access that passes
one may pass others behind it, which a history of single links would have to guess, and which `strayed`
has no need to tell apart. `OnlyNewLinksLeadAstray` is what the code guarantees and no more: with a link
planted between the check and the access (`iterdir` at `loader.py:82`, say) it may be led through that link
and an old one behind it, against which `load_detection_rules` asks that the library be left unchanged
(`loader.py:147-148`).

### Rule semantics (`EventModels`, `RuleChecks`, `RuleSemantics`)

`EventModels` has the fields of an event and of its four contexts, with the type and the optionality each
model declares. `RuleChecks` has three tables and the checks made with them: what the models of
`models/detection.py` accept, the first error `semantics.py` finds in a leaf (`LeafError`), and the first
error `_evaluate_leaf` finds in a leaf and an event (`EvaluationError`). Whether a text is an address, a
network or a timestamp, and which are path segments, are sets of texts. `RuleSemantics` is the life of a
rule: constructed or refused, walked node by node, accepted, changed by a caller, evaluated on an event
that may itself have been changed since it was validated.

A rule that was never validated, or was changed since, may have an `all` or `any` over an emptied list. The
walk passes it, as it looks at leaves; the evaluator does not, because the trace of such a node is refused
(`NodeError`). Both functions are documented for validated conditions, so `AcceptedNeverRaises` says
`NoneEmpty` where it would otherwise fail. Nor does anything limit how deep an unvalidated condition nests. What
nests deeper than validation allows may exhaust the interpreter's stack, at a depth the model leaves open
(`MayExhaust`): the walk then raises the `RecursionError` itself (`ExhaustWalk`), `evaluate_condition` turns
it into its own error (`ExhaustEvaluation`).

A changed event may also lack an attribute, so that the evaluator's `model_dump` has no entry for it (`Lacks`).
A path is a space (`source_data`, `context` or none) and the name after it; what follows the name is of no
account where an entry of `source_data` or a missing source is concerned.

### Ingestion and normalization (`EventNormalization`)

A record is its elements as the XML parser gives them: how often each occurs, the texts of `System`, the
entries of `EventData`. A text is what the record says, and constants are the library's verdict on it
(`Stripped`, `Decimal`, `Hexadecimal`, `Addresses`, `Times`). `RefuseRecord` and `Ingest` are
`parse_windows_event_xml` with its checks in order, `Dispatch` and `NotRegistered` the registry, `RefuseRaw` and
`Normalize` the normalizers; `CallDirectly` is a caller that takes a normalizer without the registry.
The fields a normalizer reads and the entries it takes out of `source_data` are separate tables, as in the code.

### Evidence (`AlertEvidence`)

A heap of events, operand lists and matches; `held` and `alerts` are references into it. `Evaluate`, `CreateAlert`,
`ReadMatch` and `UpdateAlert` create the objects the code creates and keep the references it keeps;
`EditRule`, `EditEvent` and `EditMatch` change any object the caller can reach, and `ForgeAlert` is a
`model_copy` that installs a match. Of validation it keeps that some values are refused and some rewritten,
since `own_validated_match` turns the latter down. `TypeOK` contains what that is for: the match of an alert
the library made is valid and already normalized, whatever alert or match it was made of.

### Pipeline (`Pipeline`, `RuleLibrary`)

`EventNormalization`, which `Pipeline` extends, and `INSTANCE DetectionEngine`, step by step, between the loader's
verdict and the alerts: `Ingest` takes one step of the first, `Detect` one of the second, `CreateAlert` makes the
alert of the next match, and `EndAlerts` and `ReceiveRecord` go on to the next record. What a leaf meets, an input of the engine's own model, is computed by `Meets` from the event
the normalizer produced, with `RuleChecks`. A library has at most `MaxRules` rules, which bounds nothing but the set of sequences the
engine is given. `RuleLibrary` has the six rules of the repository and, apart from them,
what the documentation says each selects, told of the XML record.

## What TLC checks

| Run | Question | Properties |
|---|---|---|
| `alert_management` | one value through every operation with overflowing, naive and raising times, and caller edits | `TypeOK`, `OutputsStayReadable`, `TimestampsTellHistory`, `AcceptsExactlyThePermitted`, `ImplementsLedger` |
| `stale_copies` | two variables holding different versions | `ImplementsLedger` |
| `alert_failures` | does `create_alert` fail only in its documented way? (it does not) | `FailuresAreControlled` |
| `alert_queue` | collections that lie, two versions of one alert, malformed filters | `WholeInputChecked`, `AnswerIsTheQueue`, `RefusalsAreJustified`, `OrderIsDecided`, `CallAnswers` |
| `condition_evaluator` | every condition tree up to five nodes | `DecidedIsCertain`, `UnknownIsUndecided`, `NothingSkipped` |
| `detection_engine` | every iterator of up to three items, ending or raising, in every order | `TypeOK`, `MatchesAreCertain`, `CollectionCheckedFirst`, `AnswerIsDetermined`, `FailureIsDetermined` |
| `rule_loader` | every small library, two changes while it is loaded | `TypeOK`, `WholeLibraryLoaded`, `ResultIsALibrary`, `RefusalsAreJustified`, `OnlyNewLinksLeadAstray`, `LoadEnds` |
| `rule_semantics` | rules of every kind of field, operator and operand, on valid and changed events | `TypeOK`, `AcceptedNeverRaises`, `RefusalsAreReal`, `EvidenceCanBeBuilt`, `ConstructedIsBounded` |
| `event_normalization` | every supported record with every kind of defect | `TypeOK`, `EvidenceIsKept`, `DispatchAgrees` |
| `ingestion_failures` | does ingestion fail only in its documented way? (it does not) | `FailuresAreControlled` |
| `alert_evidence` | a caller that changes the objects it shares | `TypeOK`, `DisagreementIsTheCallers`, `EvidenceNeverChanges`, `EvidenceIsAsGiven` |
| `pipeline` | records through all stages, with the repository's rules and others | `EventsAlwaysGetThrough`, `AlertsAreWhatTheRulesSelect` |

### Bounds, and why they are enough

- *Alert Management*: four instants order creation, acknowledgement, closing and one event more;
  offsets -1, 0 and 1 overflow at both ends. The edits make values the library accepts (a moved
  `updated_at`, a forged state) and values it must refuse. With two slots (`stale_copies`) a value and a
  superseded copy coexist; three instants order the two events of a lifecycle after the creation. The two
  slots are interchangeable, which the symmetry set states. The operations read one value each, so more
  slots add copies but no behaviour of a single chain.
- *Queue*: three identities, a pool with two versions of two alerts, ties on every prefix of the sort
  key, a value in disorder and a foreign object; collections report up to three entries and may yield
  one more.
- *Evaluator*: five nodes hold a negation over an aggregation with a negated child, which needs every
  entry of the two tables, nested. `DecidedIsCertain` is also proved for every size.
- *Engine*: `MaxRules` bounds what the iterator yields, by choice of the model alone; three items allow a duplicate and a third rule on either side of it. The five rules cover
  targeting by category and source, an invalid leaf behind a decisive one, and identities
  `DetectionMatch` refuses; events vary over what two leaves meet.
- *Loader*: a directory whose files sort before a file found earlier, files that share an ID, a second
  directory, links and special files at every level. `MaxChanges = 2` replacements suffice to swap a
  checked name for a link and to put something else in its place again.
- *Rule semantics*: leaves are the product of typed fields, operators and operands, each under targets where
  the field belongs to all, to some and to none of the categories. `MaxDepth` and `MaxLeaves` are 4 and 2 instead of
  the code's 8 and 64, so that trees at and one beyond each bound are small, two conditions have an emptied list, and an edit may leave one that nests too deep. Events have all
  optional fields or none, and one each of the changes a caller can make, a deleted attribute included.
- *Ingestion*: for each of the seven supported events the good record, the record without one entry, and the
  record with one entry saying each of nine texts; each `System` element missing, doubled or
  malformed; and every pairing of provider, channel and event ID. A defect is independent of the others
  because every check looks at one element, so one at a time suffices but for the order of errors,
  which the pairings of time and channel exercise.
- *Evidence*: eleven objects are the event, the rule's list and three more creations; sharing needs two (a match and
  an alert, or an alert and its copy), a change of one seen in the other a third.
- *Pipeline*: per rule a record it selects and records that miss it by one detail, from both providers where both
  fill the category; a second library uses the operators the six rules do not.

`CHECK_DEADLOCK FALSE` is set where a behaviour is one call, which ends (`ConditionEvaluator`,
`DetectionEngine`, `RuleLoader`, `RuleSemantics`, `EventNormalization`), and for `AlertEvidence`, which stops when its
bounds on objects and changes are used up.

### Fairness

Only that a running call is not suspended for ever: weak fairness of the library's own steps
(`Library`, `Loader`), which a synchronous Python function has. No caller is obliged to call, to
end its iterator, or to change or leave the file system. `CallAnswers` holds without the iterator ever
ending, because the code asks for at most one entry more than `len()` reported. `LoadEnds` assumes that the
library is changed only finitely often (`MaxChanges`): a process that kept re-linking a directory to the
root at the right moments could keep the search going. Nothing of the kind is claimed of `evaluate_event`: its
loop is over a list, which ends, but the list is made of an iterator that need not.

### Two divergences

`alert_failures` shows that `create_alert` (`alerts/creation.py:59`) lets an exception through that a
caller's `tzinfo` raises and that is none of `ValidationError`, `TypeError`, `ValueError`,
`OverflowError`, while the scope document asks for a small domain-specific error family, and the other
operations translate it (`alerts/_validation.py:15`).

`ingestion_failures` shows that a `SystemTime` whose UTC instant is outside the range of `datetime` leaves
`parse_windows_event_xml` as an `OverflowError` (`parsers/windows_event.py:65`), while
`docs/architecture/event-processing.md` promises a controlled ingestion error for an invalid timestamp.

## What is proved

TLAPS checks the following for every value of the constants that satisfies the named `ASSUME`s. They say that
marks such as `Junk` or `NoTime` differ from the values they stand beside, that instants, bounds and limits are
naturals and offsets integers, that IDs are ranked injectively (lexical order) and paths ordered totally, that edits
change one field, that filter arguments hold enum members or foreign objects, that validating twice changes nothing
more, and that the given trees, rules, records and events have the shapes the models of the code, or Python itself,
enforce. Of how texts relate the theorems know one thing: none of the rules' markers occurs in, or ends, the
empty text or `-`, which a normalizer takes for no value (`MarkersAssumption`).

| Module | Theorem | Statement |
|---|---|---|
| `AlertManagementProofs` | `TypeCorrect`, `OutputsReadable` | types, and that outputs are accepted again |
| | `TimestampsTruthful` | stored timestamps tell the history |
| | `RepliesDecidedByHistory` | requests are accepted exactly when the ledger permits them |
| | `LedgerImplemented` | `Spec => Ledger!Spec` |
| `AlertQueueProofs` | `InputCheckedFirst` | nothing answered before everything is checked |
| | `QueueIsRight` | the answer is the documented selection in the documented order |
| | `RefusalsJustified` | a complaint about an entry or a filter has its cause there, and all that is checked before it is in order |
| | `BeforeTransitive`, `OrderDecided` | the key orders validated entries strictly and totally |
| `ConditionEvaluatorProofs` | `OutcomesCertain`, `TracesComplete`, `EvaluatorTypeCorrect` | for trees of any size |
| | `UnknownsAreOpen` | an unknown root can be read either way |
| `DetectionEngineProofs` | `EngineMatchesCertain`, `EngineChecksFirst`, `EngineWellTyped` | for collections and conditions of any size |
| | `EngineMissesNothing` | the answer is a function of the set of rules and the event |
| | `EngineFailsForTheFirst` | the smallest repeated ID is named; otherwise the first rule by ID that fails ends the call, and is named if its match is refused |
| `RuleLoaderProofs` | `OldLinksLeadNowhere` | for any tree and any replacements: an access is led through a link only after a link was put there during the load |
| | `ResultsAreLibraries` | for any tree and any replacements |
| | `LibrariesAreWhole`, `LoadRefusalsJustified` | a library left alone is loaded whole, or the error is its own |
| | `SearchWellTyped` | types |
| `RuleSemanticsProofs` | `AcceptanceSuffices` | what the loader accepts never makes the evaluator raise |
| | `RefusalsHaveCause` | what the semantic checks refuse would not have worked |
| | `EvaluationSuffices`, `EvidenceIsBuilt` | what the evaluator gets through passes the static checks and the validation of traces |
| | `LimitsHold` | a constructed rule is bounded in depth and leaves, whatever its shape |
| | `Invariant`, `TypesHold` | the inductive invariant, types |
| `PipelineProofs` | `EvidenceWhole` | no entry lost, told twice or made up, for any record |
| | `DispatchConsistent`, `NothingHalfBuilt` | registry and normalizers agree; events are valid or absent |
| | `EverythingGetsThrough` | with any library the loader accepts, nothing fails behind the normalizers |
| | `AlertsAreRight` | with the repository's rules, the alerts are those the record calls for |
| `AlertEvidenceProofs` | `EvidenceIsForGood`, `EvidenceIsTaken` | evidence never changes, and is what was given, for heaps and validations of any kind |
| | `DisagreementExplained` | only a change of an event or a match makes a trace disagree |
| | `ReferencesInOrder` | references lead to objects of their kind; the matches of the library's alerts are valid and normalized |

The arguments:

- *Alert Management.* `Sound` (types, and every value that is not the caller's own edit is readable) is
  inductive because each operation revalidates its result. `History` adds, per slot, what its lineage
  says of its timestamps; `TimestampsTellHistory` alone is not inductive, as it forgets
  the types of edited values. Each operation's effect is a lemma about values (`AcknowledgeTells`, ...), the
  bookkeeping of slots another (`StoreTells`). The refinement uses `History` in every step: the guard of
  a transition compares with `updated_at`, the ledger's with the last touch, and only the history equates the two.
- *Queue.* `LoopInv` says that the validated prefix is readable and that `seen` is exactly its
  identities; only with both does the end of the loop yield `EntriesInOrder`. The answer is a `CHOOSE`, so there
  must be an arrangement to choose: the number of places that come before a place is its rank, and no two
  have the same (`ArrangementExists`). It is onto (`ArrangementComplete`), hence nothing selected is missing, and as no two validated
  entries share an identity its order is strict.
- *Evaluator.* `EvaluationInv` says that the trace so far has outcomes only, is certain at every node and
  that its leaves passed their checks. Children precede their parents, so a step needs the certainty of
  earlier entries only, and no induction over trees.

  That an unknown is open is harder: a reading has to be found for the whole tree. Each node is one visit of the
  evaluator, so the children of two nodes are disjoint (`IsTree`) and the subtrees below the roots of the
  evaluated part share no leaf. `RootsIndependent` says that these roots can be read at will, each in
  any way its outcome allows, all by one reading. Its induction over the nodes is by least counterexample
  (`LeastExists`), as the library's induction theorems cannot be instantiated.
- *Engine.* `EngineInv` contains the evaluator's invariant for the evaluation under way, which the
  evaluator's own lemmas, instantiated, carry over each of its steps; at the root it turns a `true` into
  certainty for the match, and anything else into a reading in which the condition fails.

  `CompleteInv` says the rest of the loop: the order is strict and has the rules given, every applicable and
  certain rule behind the position has its match, none behind it failed. The order is strict because an onto function
  between the places of a collection without repetitions repeats nothing (`OntoIsOneToOne`).

- *Loader.* `Held` types the queues of the search and ties the path in hand to the queue it came from. `Linked`
  says that a name already looked at, and everything the resolved path passes, is a link only if it was replaced
  since, and that a link where something was replaced is one that was planted (`LinksArePlanted`), so an access
  led through any link comes after that; it needs the tree (`Rooted`), because a look through a link may find anything, but nothing is
  below a link in the library itself. `Ordered` says that from the sort on the loaded rules and the files to come form
  one sequence in path order.

  While nothing has been replaced, `Intact` adds that every path that is there is either settled (looked
  at, or found as a rule file) or below a directory still open, each once; when the queues are empty, nothing
  is below an open directory and the search is complete.
- *Rule semantics.* The invariant says that the walk has passed its first leaves without an error, and what a trace
  in the making has passed. The rest is lemmas about tables: a field all target categories share has the same kind in
  the event of any of them, and an operand that is right for the kind is right for the evaluator.

  The limits are about what `_measure` computes recursively, and need recursion to be reasoned about. That a
  function obeying its equations exists is shown up to every node in turn (`DepthExists`, `CountExists`), by the
  smallest node it would fail at; the same for the sums over sets of children (`SumExists`). The
  topmost node of a chain is as deep as the chain is long, because without it the chain is one below a child of
  it (`ChainIsShort`). The leaves under a node are those no set closed under children can leave out; they are covered
  by the leaves under its children, and a union has no more elements than its parts together (`SumBounds`).
- *Ingestion.* Each stage keeps what its checks established (`Stages`), each error ends it with nothing kept (`Ends`). The
  evidence theorem rests on a bijection: every entry taken out of `source_data` is read by exactly one field, for
  every row of both tables.
- *Pipeline.* The theorems of the engine and of the rule checks are taken as they are, for the instances the
  pipeline is made of (`EngineAssumptions`, `SemanticsAssumptions`). What is new is that the parts fit: every
  event the normalizers make is valid and has a UTC form (`EventsAreSound`), so a leaf the loader accepted fails on
  none of them, and `PipelineInv` carries the engine's invariant and the absence of failure through the stages.
- *The repository's rules.* `IsMadeOf` says of an event which record and normalizer it is of, and from it what
  each field says (`IsTextOf`), including that an empty text or `-` says nothing. Certainty quantifies over every
  reading of the values an event lacks; for each shape the six conditions have, it is reduced to which of its
  leaves are found (`CertainLeaf`, `CertainPair`, `CertainTree`), and for each rule to the words of the record.
  `EngineMissesNothing` then gives a match for exactly the rules selected.
- *Evidence.* Alerts of the library's are `Isolated`: no object of theirs is in the caller's reach, because each was
  created by the step that stored it and is only ever copied out. Because nothing in reach changes it, what was valid
  and normalized when it was stored stays so (`OwnersKeepEvidence`), and what is stored anew was validated or copied
  from an alert of which that holds (`OwnersTakeEvidence`). The rule's list is in no match (`RuleApart`), so
  traces agree until an event or a match is changed.

Only model-checked: the liveness properties (`CallAnswers`, `LoadEnds`), whose fairness is
beyond the prover. Every invariant and every action property of the passing runs, and the refinement, is a
theorem. `FailuresAreControlled` is violated, see above.

## Not modelled, and why

- *How texts relate* (substrings, address arithmetic, the syntax of times and numbers): the standard
  library's and pydantic's; sets and functions of texts in the models, computed from the texts in `MCPipeline`.
- *XML and YAML syntax*: the standard library's and PyYAML's; a record is parsed or not, a rule file yields a rule
  or an error category.
- *The wording rules of rule IDs, titles and references*: one flag of a rule.
- *Message texts, logging, serialization layout.*
- *Placeholder packages* contain no code; fixtures and documents are data.

## Plan

1. Done: the alert core and its ledger, queue, evaluator, engine, loader.
2. Done: the shared objects (`AlertEvidence`), the rule semantics, ingestion, and the whole as `Pipeline`.
3. Done: proofs for all of them, the completeness of loader, evaluator and engine (nothing missing, and every
   error with its cause), the queue's answer, the limits of rules, and the pipeline from record to alert.
4. Left: measures that every step of a call decreases, as the provable half of the liveness properties;
   evaluation traces as objects of the pipeline, with the texts a comparison met.
