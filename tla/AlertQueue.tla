------------------------------ MODULE AlertQueue ------------------------------
(***************************************************************************)
(* list_alerts of alerts/queue.py, step by step.  The collection is the    *)
(* caller's: its len() and its iterator run caller code, between whose     *)
(* answers it can grow, shrink or be replaced, and an iterator may never   *)
(* end.  Every call to it is therefore a step of its own that may give any *)
(* answer; once the entries are taken the call depends on nothing else.    *)
(***************************************************************************)
EXTENDS AlertValues, FiniteSets, Sequences, TLC

CONSTANTS
  Pool,                 \* the objects the collection may yield
  MaxSize,              \* bound on what the collection's len() reports
  IdRank,               \* position of an identity in ASCII lexical order
  NoFilter,             \* an omitted filter argument
  FilterArgs            \* the records of filter arguments the caller passes

ASSUME PoolAssumption == Pool \subseteq EditedFields \cup {NotAnAlert}
ASSUME MaxSizeAssumption == MaxSize \in Nat

\* An argument: omitted, no collection at all, or a collection that may hold foreign objects.
IsFilterArg(filter, members) ==
  filter = NoFilter \/ filter = Junk \/ filter \subseteq members \cup {Junk}

ASSUME FilterAssumption == \A f \in FilterArgs :
  /\ DOMAIN f = {"states", "severities", "priorities"}
  /\ IsFilterArg(f.states, AlertState)
  /\ IsFilterArg(f.severities, AlertSeverity)
  /\ IsFilterArg(f.priorities, AlertPriority)
ASSUME IdRankAssumption ==
  /\ IdRank \in [AlertIds -> Nat]
  /\ \A x, y \in AlertIds : IdRank[x] = IdRank[y] => x = y

VARIABLES
  pc,                   \* "idle", or the step of list_alerts to be run next
  size,                 \* what len() reported
  entries,              \* the entries taken from the collection so far
  seen,                 \* seen_ids
  validated,            \* the Alerts read from the first entries
  filters,              \* the filter arguments of the call
  answer,               \* the tuple the call returned
  reply                 \* "none" while the call runs, then "ok" or the reason of its error

vars == <<pc, size, entries, seen, validated, filters, answer, reply>>

ActiveStates == {"AlertState.NEW", "AlertState.ACKNOWLEDGED"}

PriorityRank ==
  [p \in AlertPriority |->
     CASE p = "AlertPriority.URGENT" -> 0
       [] p = "AlertPriority.HIGH"   -> 1
       [] p = "AlertPriority.NORMAL" -> 2
       [] p = "AlertPriority.LOW"    -> 3]

SeverityRank ==
  [s \in AlertSeverity |->
     CASE s = "AlertSeverity.CRITICAL"      -> 0
       [] s = "AlertSeverity.HIGH"          -> 1
       [] s = "AlertSeverity.MEDIUM"        -> 2
       [] s = "AlertSeverity.LOW"           -> 3
       [] s = "AlertSeverity.INFORMATIONAL" -> 4
       [] s = "AlertSeverity.UNASSIGNED"    -> 5]

\* Mutants: age before severity; no identity to break a tie.
QueueKeyByAge(a) ==
  <<PriorityRank[a.priority], a.created_at, SeverityRank[a.severity], IdRank[a.alert_id]>>

QueueKeyWithoutId(a) ==
  <<PriorityRank[a.priority], SeverityRank[a.severity], a.created_at, 0>>

QueueKey(a) ==
  <<PriorityRank[a.priority], SeverityRank[a.severity], a.created_at, IdRank[a.alert_id]>>

\* Tuples compare lexicographically.
KeyBefore(k, l) ==
  \/ k[1] < l[1]
  \/ k[1] = l[1] /\ k[2] < l[2]
  \/ k[1] = l[1] /\ k[2] = l[2] /\ k[3] < l[3]
  \/ k[1] = l[1] /\ k[2] = l[2] /\ k[3] = l[3] /\ k[4] < l[4]

Before(a, b) == KeyBefore(QueueKey(a), QueueKey(b))

\* What _read_filter accepts: None, or a nonempty set of members of the enum.
WellFormed(filter, members) ==
  \/ filter = NoFilter
  \/ filter \notin {NoFilter, Junk, {}} /\ filter \subseteq members

Selected(a, f) ==
  /\ a.state \in IF f.states = NoFilter THEN ActiveStates ELSE f.states
  /\ f.severities = NoFilter \/ a.severity \in f.severities
  /\ f.priorities = NoFilter \/ a.priority \in f.priorities

\* The places of the entries that match the filters.
Matching == {i \in 1..Len(validated) : Selected(validated[i], filters)}

\* sorted() is stable: entries with equal keys keep their places.
Precedes(i, j) ==
  \/ Before(validated[i], validated[j])
  \/ ~Before(validated[j], validated[i]) /\ i < j

\* The places, arranged in the order of their keys.
InQueueOrder(places) ==
  CHOOSE order \in [1..Cardinality(places) -> places] :
    \A k, l \in 1..Cardinality(places) : k < l => Precedes(order[k], order[l])

-----------------------------------------------------------------------------

Init ==
  /\ pc = "idle" /\ size = 0 /\ entries = <<>> /\ seen = {} /\ validated = <<>>
  /\ filters \in FilterArgs
  /\ answer = <<>> /\ reply = "none"

\* Mutant: seen_ids outlives the call, as it would as a module variable.
CallKeepingSeen ==
  /\ pc = "idle"
  /\ pc' = "measure"
  /\ filters' \in FilterArgs
  /\ size' = 0 /\ entries' = <<>> /\ validated' = <<>>
  /\ answer' = <<>> /\ reply' = "none"
  /\ UNCHANGED seen

Call ==
  /\ pc = "idle"
  /\ pc' = "measure"
  /\ filters' \in FilterArgs
  /\ size' = 0 /\ entries' = <<>> /\ seen' = {} /\ validated' = <<>>
  /\ answer' = <<>> /\ reply' = "none"

Fail(reason) ==
  /\ pc' = "idle"
  /\ reply' = reason
  /\ UNCHANGED answer

\* isinstance checks and len(), which may raise.
Measure ==
  /\ pc = "measure"
  /\ \/ Fail("invalid_collection") /\ UNCHANGED size
     \/ /\ size' \in 0..MaxSize
        /\ pc' = "take"
        /\ UNCHANGED <<answer, reply>>
  /\ UNCHANGED <<entries, seen, validated, filters>>

\* islice pulls at most one entry more than len() reported.
Take ==
  /\ pc = "take"
  /\ Len(entries) < size + 1
  /\ \E entry \in Pool : entries' = Append(entries, entry)
  /\ UNCHANGED <<pc, size, seen, validated, filters, answer, reply>>

\* The iterator ends or raises, or islice stops asking.
EndOfEntries ==
  /\ pc = "take"
  /\ IF Len(entries) = size
     THEN \/ pc' = "validate" /\ UNCHANGED <<answer, reply>>
          \/ Fail("invalid_collection")
     ELSE Fail("invalid_collection")
  /\ UNCHANGED <<size, entries, seen, validated, filters>>

\* Mutants: a repeated identity is passed over, so that the newest version of an
\* Alert could win, without moving to the next entry; the loop checks no identities.
ValidateWithoutAdvance ==
  /\ pc = "validate"
  /\ Len(validated) < Len(entries)
  /\ LET entry == entries[Len(validated) + 1] IN
     \/ /\ ~Readable(entry)
        /\ Fail("invalid_alert")
        /\ UNCHANGED <<seen, validated>>
     \/ /\ Readable(entry) /\ entry.alert_id \in seen
        /\ UNCHANGED <<pc, answer, reply, seen, validated>>
     \/ /\ Readable(entry) /\ entry.alert_id \notin seen
        /\ seen' = seen \cup {entry.alert_id}
        /\ validated' = Append(validated, entry)
        /\ UNCHANGED <<pc, answer, reply>>
  /\ UNCHANGED <<size, entries, filters>>

ValidateWithoutIdentity ==
  /\ pc = "validate"
  /\ Len(validated) < Len(entries)
  /\ LET entry == entries[Len(validated) + 1] IN
     \/ /\ ~Readable(entry)
        /\ Fail("invalid_alert")
        /\ UNCHANGED <<seen, validated>>
     \/ /\ Readable(entry)
        /\ seen' = seen \cup {entry.alert_id}
        /\ validated' = Append(validated, entry)
        /\ UNCHANGED <<pc, answer, reply>>
  /\ UNCHANGED <<size, entries, filters>>

\* One turn of the loop over the entries.
Validate ==
  /\ pc = "validate"
  /\ Len(validated) < Len(entries)
  /\ LET entry == entries[Len(validated) + 1] IN
     \/ /\ ~Readable(entry)
        /\ Fail("invalid_alert")
        /\ UNCHANGED <<seen, validated>>
     \/ /\ Readable(entry) /\ entry.alert_id \in seen
        /\ Fail("duplicate_alert_id")
        /\ UNCHANGED <<seen, validated>>
     \/ /\ Readable(entry) /\ entry.alert_id \notin seen
        /\ seen' = seen \cup {entry.alert_id}
        /\ validated' = Append(validated, entry)
        /\ UNCHANGED <<pc, answer, reply>>
  /\ UNCHANGED <<size, entries, filters>>

\* The filters are read only when every entry has been validated.
Select ==
  /\ pc = "validate"
  /\ Len(validated) = Len(entries)
  /\ \/ ~WellFormed(filters.states, AlertState) /\ Fail("invalid_filter: states")
     \/ /\ WellFormed(filters.states, AlertState)
        /\ ~WellFormed(filters.severities, AlertSeverity)
        /\ Fail("invalid_filter: severities")
     \/ /\ WellFormed(filters.states, AlertState)
        /\ WellFormed(filters.severities, AlertSeverity)
        /\ ~WellFormed(filters.priorities, AlertPriority)
        /\ Fail("invalid_filter: priorities")
     \/ /\ WellFormed(filters.states, AlertState)
        /\ WellFormed(filters.severities, AlertSeverity)
        /\ WellFormed(filters.priorities, AlertPriority)
        /\ answer' = [k \in 1..Cardinality(Matching) |-> validated[InQueueOrder(Matching)[k]]]
        /\ reply' = "ok"
        /\ pc' = "idle"
  /\ UNCHANGED <<size, entries, seen, validated, filters>>

Library == Measure \/ Take \/ EndOfEntries \/ Validate \/ Select

Next == Call \/ Library

\* The caller need not call; a call that runs is not suspended for ever.
Spec == Init /\ [][Next]_vars /\ WF_vars(Library)

-----------------------------------------------------------------------------
(* Properties.                                                             *)

FilterErrors ==
  {"invalid_filter: states", "invalid_filter: severities", "invalid_filter: priorities"}

Answered(outcome) == pc = "idle" /\ reply = outcome

\* The first n entries are readable Alerts and no two have the same identity.
InOrderUpTo(n) ==
  /\ \A i \in 1..n : Readable(entries[i])
  /\ \A i, j \in 1..n : entries[i].alert_id = entries[j].alert_id => i = j

EntriesInOrder == InOrderUpTo(Len(entries))

\* The whole input is validated before anything is returned or any filter is
\* looked at: a result, and a complaint about a filter, both imply that the
\* collection had the length it reported and that every Alert in it, one the
\* filters exclude included, was readable and had an identity of its own.
WholeInputChecked ==
  pc = "idle" /\ reply \in {"ok"} \cup FilterErrors =>
    Len(entries) = size /\ EntriesInOrder

\* The order docs/alert-management-scope.md lists, written as its lists.
ListedBefore(list, x, y) ==
  \E i, j \in 1..Len(list) : i < j /\ list[i] = x /\ list[j] = y

ContractBefore(a, b) ==
  LET urgency == <<"AlertPriority.URGENT", "AlertPriority.HIGH", "AlertPriority.NORMAL",
                   "AlertPriority.LOW">>
      significance == <<"AlertSeverity.CRITICAL", "AlertSeverity.HIGH", "AlertSeverity.MEDIUM",
                        "AlertSeverity.LOW", "AlertSeverity.INFORMATIONAL",
                        "AlertSeverity.UNASSIGNED">>
  IN  \/ ListedBefore(urgency, a.priority, b.priority)
      \/ /\ a.priority = b.priority
         /\ \/ ListedBefore(significance, a.severity, b.severity)
            \/ /\ a.severity = b.severity
               /\ \/ a.created_at < b.created_at
                  \/ a.created_at = b.created_at /\ IdRank[a.alert_id] < IdRank[b.alert_id]

\* What the contract says a filter argument selects.
ContractSelects(f, default, value) == value \in (IF f = NoFilter THEN default ELSE f)

\* A returned queue holds exactly the selected Alerts of the collection, each once,
\* in the documented order: OR within a filter, AND across filters, active states
\* by default.
AnswerIsTheQueue ==
  Answered("ok") =>
    LET all == {entries[i] : i \in 1..Len(entries)}
        selected == {a \in all :
          /\ ContractSelects(filters.states, AlertState \ {"AlertState.CLOSED"}, a.state)
          /\ ContractSelects(filters.severities, AlertSeverity, a.severity)
          /\ ContractSelects(filters.priorities, AlertPriority, a.priority)}
    IN  /\ {answer[i] : i \in 1..Len(answer)} = selected
        /\ \A i, j \in 1..Len(answer) : i < j => ContractBefore(answer[i], answer[j])

\* A collection with a foreign member, an empty one or none at all.
Malformed(filter) == filter # NoFilter /\ (filter \in {Junk, {}} \/ Junk \in filter)

\* A complaint about an entry or a filter is justified, and of several faults it is about
\* the first: everything before the entry is in order, and so are the filters before the
\* filter (and all the entries, see WholeInputChecked).  invalid_collection answers to the
\* collection's own len() and iterator, and nothing is said of it.
RefusalsAreJustified ==
  /\ Answered("invalid_alert") =>
       \E n \in 1..Len(entries) : InOrderUpTo(n - 1) /\ ~Readable(entries[n])
  /\ Answered("duplicate_alert_id") =>
       \E n \in 1..Len(entries) :
         /\ InOrderUpTo(n - 1) /\ Readable(entries[n])
         /\ \E i \in 1..(n - 1) : entries[i].alert_id = entries[n].alert_id
  /\ Answered("invalid_filter: states") => Malformed(filters.states)
  /\ Answered("invalid_filter: severities") =>
       ~Malformed(filters.states) /\ Malformed(filters.severities)
  /\ Answered("invalid_filter: priorities") =>
       /\ ~Malformed(filters.states) /\ ~Malformed(filters.severities)
       /\ Malformed(filters.priorities)

\* The key decides the place of every two Alerts that passed validation, one way
\* only, so the queue does not depend on the order in which the collection was
\* enumerated ("Queue order is independent of collection iteration order").
OrderIsDecided ==
  \A i, j \in 1..Len(validated) : i # j =>
    (Before(validated[i], validated[j]) <=> ~Before(validated[j], validated[i]))

\* Every call is answered, even when the collection's iterator never ends: the
\* one-entry lookahead of _snapshot_collection bounds what is taken from it.
CallAnswers == pc # "idle" ~> pc = "idle"

=============================================================================
