--------------------------- MODULE AlertManagement ---------------------------
(***************************************************************************)
(* Alert Management as its caller sees it.  An Alert is an immutable value *)
(* and there is no store: the caller keeps values in variables (slots),    *)
(* passes any of them, a superseded one included, to any operation, and    *)
(* keeps the result in any slot.  It can also put a value of its own       *)
(* making in a slot with model_copy(update=...).                           *)
(***************************************************************************)
EXTENDS AlertValues

CONSTANTS
  Slots,           \* the caller's variables
  SeverityArgs,    \* the severities the caller passes, Junk possibly among them
  PriorityArgs,    \* the priorities the caller passes
  EditArgs,        \* the <<field, value>> updates the caller gives model_copy
  NoTime,          \* lineage of a value created and only ever updated by the library
  Edited,          \* lineage of a value the caller's model_copy made
  Derived          \* lineage of a value an operation made from an Edited or Derived one

VARIABLES
  held,            \* the object in each slot
  lineage,         \* history variable: the instant at which the value in the slot was
                   \* acknowledged, or one of the three marks above
  reply            \* how the last call ended: "ok", or the reason of its error

vars == <<held, lineage, reply>>

Lineages == Instants \cup {NoTime, Edited, Derived}

ASSUME LineageAssumption ==
  /\ {NoTime, Edited, Derived} \cap Int = {}
  /\ NoTime # Edited /\ NoTime # Derived /\ Edited # Derived

ASSUME ArgumentAssumption ==
  /\ SeverityArgs \subseteq AlertSeverity \cup {Junk}
  /\ PriorityArgs \subseteq AlertPriority \cup {Junk}
  /\ \A edit \in EditArgs : \A a \in AlertFields :
        [a EXCEPT ![edit[1]] = edit[2]] \in EditedFields

Genuine(s) == lineage[s] \in Instants \cup {NoTime}

Init ==
  /\ held = [s \in Slots |-> NotAnAlert]
  /\ lineage = [s \in Slots |-> Edited]
  /\ reply = "ok"

-----------------------------------------------------------------------------

Store(d, value, mark) ==
  /\ held' = [held EXCEPT ![d] = value]
  /\ lineage' = [lineage EXCEPT ![d] = mark]
  /\ reply' = "ok"

Refuse(reason) ==
  /\ reason # "ok"
  /\ reply' = reason
  /\ UNCHANGED <<held, lineage>>

\* The lineage of what an operation returns for the value in slot s.
Inherited(s) == IF Genuine(s) THEN lineage[s] ELSE Derived

Create(d, match, id, t, severity, priority) ==
  LET answer == CreateReply(match, id, t, severity, priority) IN
  \/ Refuse(answer)
  \/ /\ answer = "ok"
     /\ Store(d, NewAlert(match, id, UtcInstant(t), severity, priority), NoTime)

AcknowledgeAlert(s, d, t) ==
  LET answer == TransitionReply(held[s], t, "AlertState.NEW", "AlertState.ACKNOWLEDGED") IN
  \/ Refuse(answer)
  \/ /\ answer = "ok"
     /\ Store(d, Transitioned(held[s], UtcInstant(t), "AlertState.ACKNOWLEDGED"),
              IF lineage[s] = NoTime THEN UtcInstant(t) ELSE Inherited(s))

CloseAlert(s, d, t) ==
  LET answer == TransitionReply(held[s], t, "AlertState.ACKNOWLEDGED", "AlertState.CLOSED") IN
  \/ Refuse(answer)
  \/ /\ answer = "ok"
     /\ Store(d, Transitioned(held[s], UtcInstant(t), "AlertState.CLOSED"), Inherited(s))

SetSeverity(s, d, value, t) ==
  LET answer == PolicyReply(held[s], t, "severity", AlertSeverity, value) IN
  \/ Refuse(answer)
  \/ /\ answer = "ok"
     /\ Store(d, Reassessed(held[s], UtcInstant(t), "severity", value), Inherited(s))

SetPriority(s, d, value, t) ==
  LET answer == PolicyReply(held[s], t, "priority", AlertPriority, value) IN
  \/ Refuse(answer)
  \/ /\ answer = "ok"
     /\ Store(d, Reassessed(held[s], UtcInstant(t), "priority", value), Inherited(s))

\* model_copy(update={field: value}) on a value of the library.
Edit(s, d, edit) ==
  /\ lineage[s] # Edited
  /\ Store(d, [held[s] EXCEPT ![edit[1]] = edit[2]], Edited)

\* Plain assignment between the caller's variables.
Assign(s, d) ==
  /\ s # d
  /\ Store(d, held[s], lineage[s])

Next ==
  \/ \E d \in Slots, match \in TrueMatches \cup {Junk}, id \in AlertIds \cup {Junk},
        t \in TimeArgs, severity \in SeverityArgs, priority \in PriorityArgs :
        Create(d, match, id, t, severity, priority)
  \/ \E s, d \in Slots, t \in TimeArgs :
        \/ AcknowledgeAlert(s, d, t)
        \/ CloseAlert(s, d, t)
        \/ \E value \in SeverityArgs : SetSeverity(s, d, value, t)
        \/ \E value \in PriorityArgs : SetPriority(s, d, value, t)
  \/ \E s, d \in Slots, edit \in EditArgs : Edit(s, d, edit)
  \/ \E s, d \in Slots : Assign(s, d)

Spec == Init /\ [][Next]_vars

-----------------------------------------------------------------------------
(* Properties.                                                             *)

Replies ==
  {"ok", "invalid_severity", "invalid_priority", "uncontrolled", "invalid_input",
   "invalid_alert_id", "invalid_match", "invalid_created_at", "invalid_alert",
   "invalid_at", "out_of_order_at", "forbidden_transition", "invalid_value",
   "invalid_changed_at", "out_of_order_changed_at", "closed_alert"}

TypeOK ==
  /\ held \in [Slots -> EditedFields \cup {NotAnAlert}]
  /\ lineage \in [Slots -> Lineages]
  /\ reply \in Replies

\* Every Alert the library returned, even one derived from a caller's edited copy,
\* is one that the library accepts again: no operation yields a value that a later
\* acknowledge, close, set or list call rejects as invalid (alerts/_validation.py).
OutputsStayReadable ==
  \A s \in Slots : lineage[s] # Edited => Readable(held[s])

\* The three stored timestamps of an Alert only the library touched tell its true
\* history: a new one was never moved, an acknowledged one says when it was
\* acknowledged, and a closed one was acknowledged between its creation and its
\* closing and has not been touched since, whichever stale copies were used.
TimestampsTellHistory ==
  \A s \in Slots : Genuine(s) =>
    LET a == held[s] IN
    /\ Readable(a)
    /\ a.state = "AlertState.NEW" =>
         lineage[s] = NoTime /\ a.state_changed_at = a.created_at
    /\ a.state = "AlertState.ACKNOWLEDGED" =>
         lineage[s] \in Instants /\ lineage[s] = a.state_changed_at
    /\ a.state = "AlertState.CLOSED" =>
         /\ lineage[s] \in Instants
         /\ a.created_at <= lineage[s]
         /\ lineage[s] <= a.state_changed_at
         /\ a.state_changed_at = a.updated_at

\* The ledger line a slot stands for.
EntryOf(s) ==
  IF ~Genuine(s) THEN Edited
  ELSE [id |-> held[s].alert_id, match |-> held[s].source_match,
        opened |-> held[s].created_at, acknowledged |-> lineage[s],
        closed |-> IF held[s].state = "AlertState.CLOSED" THEN held[s].state_changed_at ELSE NoTime,
        touched |-> held[s].updated_at,
        severity |-> held[s].severity, priority |-> held[s].priority]

Ledger == INSTANCE AlertLedger WITH
  ledger <- [s \in Slots |-> EntryOf(s)], Matches <- TrueMatches,
  Severities <- AlertSeverity, Priorities <- AlertPriority, NoEntry <- Edited

ASSUME EntryAssumption == Edited \notin Ledger!Entries

\* Alert Management implements the ledger of docs/alert-management-scope.md: an
\* event's instant is entered once, in order, never before the last entry and never
\* after the closing, and identity, evidence and creation time are never rewritten.
ImplementsLedger == Ledger!Spec

\* The code refuses exactly what the ledger forbids: for every value only the
\* library touched and every representable instant, acknowledge_alert, close_alert,
\* set_severity and set_priority succeed if and only if the recorded history
\* permits the request (lifecycle.py, policy.py).
AcceptsExactlyThePermitted ==
  \A s \in Slots, t \in TimeArgs : Genuine(s) /\ HasUtcInstant(t) =>
    LET at == UtcInstant(t) IN
    /\ TransitionReply(held[s], t, "AlertState.NEW", "AlertState.ACKNOWLEDGED") = "ok"
         <=> Ledger!MayAcknowledge(EntryOf(s), at)
    /\ TransitionReply(held[s], t, "AlertState.ACKNOWLEDGED", "AlertState.CLOSED") = "ok"
         <=> Ledger!MayClose(EntryOf(s), at)
    /\ \A value \in AlertSeverity :
         PolicyReply(held[s], t, "severity", AlertSeverity, value) = "ok"
           <=> Ledger!MayAssess(EntryOf(s), at)
    /\ \A value \in AlertPriority :
         PolicyReply(held[s], t, "priority", AlertPriority, value) = "ok"
           <=> Ledger!MayAssess(EntryOf(s), at)

\* docs/alert-management-scope.md promises a small domain error family for every
\* rejected creation or change: no call ends in an exception of another kind.
FailuresAreControlled == reply # "uncontrolled"

=============================================================================
