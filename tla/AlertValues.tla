----------------------------- MODULE AlertValues -----------------------------
(***************************************************************************)
(* Alert values and the checks every alert operation applies to them:      *)
(* models/alert.py, alerts/_validation.py and the operations of            *)
(* alerts/creation.py, alerts/lifecycle.py and alerts/policy.py, written   *)
(* as operators from their arguments to a reply and a resulting Alert.     *)
(* An enum member is written with its Python name, so members of two       *)
(* enums that share their text (AlertSeverity.HIGH, AlertPriority.HIGH)    *)
(* stay different values, as the type checks in the code require.          *)
(***************************************************************************)
EXTENDS Integers

CONSTANTS
  AlertIds,     \* the slugs validate_alert_id accepts
  TrueMatches,  \* the DetectionMatch values own_validated_match accepts
  MaxTime,      \* datetime.max in UTC; datetime.min is 0
  Offsets,      \* the UTC offsets a caller's time may carry
  Naive,        \* in place of an offset: a datetime without one
  Broken,       \* in place of an offset: a tzinfo that raises an exception of its own
  Junk,         \* any value a field or an argument does not accept
  NotAnAlert    \* any object read_alert_snapshot rejects for its type or keys

ASSUME MaxTimeAssumption == MaxTime \in Nat
ASSUME OffsetsAssumption == Offsets \subseteq Int
ASSUME MarkAssumption ==
  /\ Naive # Broken
  /\ {Naive, Broken} \cap Offsets = {}

AlertState == {"AlertState.NEW", "AlertState.ACKNOWLEDGED", "AlertState.CLOSED"}

AlertSeverity ==
  {"AlertSeverity.UNASSIGNED", "AlertSeverity.INFORMATIONAL", "AlertSeverity.LOW",
   "AlertSeverity.MEDIUM", "AlertSeverity.HIGH", "AlertSeverity.CRITICAL"}

AlertPriority ==
  {"AlertPriority.LOW", "AlertPriority.NORMAL", "AlertPriority.HIGH", "AlertPriority.URGENT"}

ASSUME JunkAssumption ==
  Junk \notin AlertIds \cup TrueMatches \cup Int \cup AlertState \cup AlertSeverity \cup AlertPriority

-----------------------------------------------------------------------------
(* Times.  A wall-clock reading has the range of datetime; its UTC instant *)
(* is the reading minus the offset and may fall outside that range, where  *)
(* astimezone raises OverflowError.                                        *)

Instants == 0..MaxTime

TimeArgs == [wall : Instants, offset : Offsets \cup {Naive, Broken}]

UtcInstant(t) == t.wall - t.offset

Aware(t) == t.offset \in Offsets

\* Mutant: no attempt to convert to UTC, so an overflow goes unnoticed.
HasUtcInstantUnchecked(t) == Aware(t)

HasUtcInstant(t) == Aware(t) /\ UtcInstant(t) \in Instants

-----------------------------------------------------------------------------
(* Alert values.                                                           *)

AlertFields ==
  [alert_id : AlertIds, source_match : TrueMatches, created_at : Instants,
   state : AlertState, state_changed_at : Instants,
   severity : AlertSeverity, priority : AlertPriority, updated_at : Instants]

\* What a caller can hold after model_copy(update=...), which validates nothing.
EditedFields ==
  [alert_id : AlertIds \cup {Junk}, source_match : TrueMatches \cup {Junk},
   created_at : Instants \cup {Junk}, state : AlertState \cup {Junk},
   state_changed_at : Instants \cup {Junk}, severity : AlertSeverity \cup {Junk},
   priority : AlertPriority \cup {Junk}, updated_at : Instants \cup {Junk}]

ASSUME NotAnAlertAssumption == NotAnAlert \notin EditedFields

ValidTimestampOrder(a) ==
  a.created_at <= a.state_changed_at /\ a.state_changed_at <= a.updated_at

\* read_alert_snapshot returns a value, and validate_alert_fields accepts the fields.
Readable(v) == v \in AlertFields /\ ValidTimestampOrder(v)

-----------------------------------------------------------------------------
(* create_alert.  An exception that is no ValueError ends the validation   *)
(* at once, before the errors of the other fields are reported; the one a  *)
(* caller's tzinfo raises is not among those create_alert translates.      *)

CreateReply(match, id, t, severity, priority) ==
  IF severity \notin AlertSeverity THEN "invalid_severity"
  ELSE IF priority \notin AlertPriority THEN "invalid_priority"
  ELSE IF t.offset = Broken THEN "uncontrolled"
  ELSE IF Aware(t) /\ ~HasUtcInstant(t) THEN "invalid_input"
  ELSE IF id \notin AlertIds THEN "invalid_alert_id"
  ELSE IF match \notin TrueMatches THEN "invalid_match"
  ELSE IF ~Aware(t) THEN "invalid_created_at"
  ELSE "ok"

NewAlert(match, id, at, severity, priority) ==
  [alert_id |-> id, source_match |-> match, created_at |-> at,
   state |-> "AlertState.NEW", state_changed_at |-> at,
   severity |-> severity, priority |-> priority, updated_at |-> at]

(* acknowledge_alert and close_alert.  Mutants of the reply: the input and *)
(* the result are not revalidated; a change is ordered after the creation  *)
(* and not after the last change.                                          *)

Transitioned(a, at, target) ==
  IF a.state = target
  THEN a
  ELSE [a EXCEPT !.state = target, !.state_changed_at = at, !.updated_at = at]

TransitionReplyTrusting(v, t, source, target) ==
  IF v = NotAnAlert THEN "invalid_alert"
  ELSE IF ~HasUtcInstant(t) THEN "invalid_at"
  ELSE IF v.updated_at # Junk /\ UtcInstant(t) < v.updated_at THEN "out_of_order_at"
  ELSE IF v.state # target /\ v.state # source THEN "forbidden_transition"
  ELSE "ok"

TransitionReplyAfterCreation(v, t, source, target) ==
  IF ~Readable(v) THEN "invalid_alert"
  ELSE IF ~HasUtcInstant(t) THEN "invalid_at"
  ELSE IF UtcInstant(t) < v.created_at THEN "out_of_order_at"
  ELSE IF v.state # target /\ v.state # source THEN "forbidden_transition"
  ELSE IF ~Readable(Transitioned(v, UtcInstant(t), target)) THEN "invalid_alert"
  ELSE "ok"

TransitionReply(v, t, source, target) ==
  IF ~Readable(v) THEN "invalid_alert"
  ELSE IF ~HasUtcInstant(t) THEN "invalid_at"
  ELSE IF UtcInstant(t) < v.updated_at THEN "out_of_order_at"
  ELSE IF v.state # target /\ v.state # source THEN "forbidden_transition"
  ELSE IF ~Readable(Transitioned(v, UtcInstant(t), target)) THEN "invalid_alert"
  ELSE "ok"

(* set_severity and set_priority; members are the values of the field's    *)
(* enum.  Mutants: an assessment counts as a change of state; a change     *)
(* must come strictly after the last; a closed Alert can be reassessed.    *)

ReassessedAsTransition(a, at, field, value) ==
  IF a[field] = value
  THEN a
  ELSE [a EXCEPT ![field] = value, !.updated_at = at, !.state_changed_at = at]

Reassessed(a, at, field, value) ==
  IF a[field] = value THEN a ELSE [a EXCEPT ![field] = value, !.updated_at = at]

PolicyReplyStrictlyLater(v, t, field, members, value) ==
  IF ~Readable(v) THEN "invalid_alert"
  ELSE IF value \notin members THEN "invalid_value"
  ELSE IF ~HasUtcInstant(t) THEN "invalid_changed_at"
  ELSE IF UtcInstant(t) <= v.updated_at THEN "out_of_order_changed_at"
  ELSE IF v.state = "AlertState.CLOSED" THEN "closed_alert"
  ELSE "ok"

PolicyReplyForClosed(v, t, field, members, value) ==
  IF ~Readable(v) THEN "invalid_alert"
  ELSE IF value \notin members THEN "invalid_value"
  ELSE IF ~HasUtcInstant(t) THEN "invalid_changed_at"
  ELSE IF UtcInstant(t) < v.updated_at THEN "out_of_order_changed_at"
  ELSE "ok"

PolicyReply(v, t, field, members, value) ==
  IF ~Readable(v) THEN "invalid_alert"
  ELSE IF value \notin members THEN "invalid_value"
  ELSE IF ~HasUtcInstant(t) THEN "invalid_changed_at"
  ELSE IF UtcInstant(t) < v.updated_at THEN "out_of_order_changed_at"
  ELSE IF v.state = "AlertState.CLOSED" THEN "closed_alert"
  ELSE IF ~Readable(Reassessed(v, UtcInstant(t), field, value)) THEN "invalid_alert"
  ELSE "ok"

=============================================================================
