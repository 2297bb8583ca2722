----------------------------- MODULE AlertLedger -----------------------------
(***************************************************************************)
(* What the alert operations promise, without the Alert record: each value *)
(* a caller holds stands for one line of a ledger of handling events,      *)
(* written in the words of docs/alert-management-scope.md.  An event's     *)
(* instant is entered once and never changed; nothing is entered before    *)
(* the last entry, and nothing at all after the closing.  AlertManagement  *)
(* is shown to implement this specification.                               *)
(***************************************************************************)
EXTENDS Integers

CONSTANTS
  Slots,          \* the variables in which the caller keeps values
  AlertIds, Matches, Instants, Severities, Priorities,
  NoTime,         \* an event that has not happened
  NoEntry         \* a value that vouches for nothing: never created, or edited by the caller

VARIABLE ledger   \* what each slot's value stands for

Entries ==
  [id : AlertIds, match : Matches, opened : Instants,
   acknowledged : Instants \cup {NoTime}, closed : Instants \cup {NoTime},
   touched : Instants, severity : Severities, priority : Priorities]

Init == ledger = [s \in Slots |-> NoEntry]

Enter(d, entry) == ledger' = [ledger EXCEPT ![d] = entry]

-----------------------------------------------------------------------------
(* Which requests the contract accepts.                                    *)

MayAcknowledge(e, at) == at >= e.touched /\ e.closed = NoTime

MayClose(e, at) == at >= e.touched /\ e.acknowledged # NoTime

MayAssess(e, at) == at >= e.touched /\ e.closed = NoTime

(* The entry after a request that is accepted and is not a repetition.     *)

WithAcknowledgement(e, at) == [e EXCEPT !.acknowledged = at, !.touched = at]

WithClosing(e, at) == [e EXCEPT !.closed = at, !.touched = at]

WithSeverity(e, value, at) == [e EXCEPT !.severity = value, !.touched = at]

WithPriority(e, value, at) == [e EXCEPT !.priority = value, !.touched = at]

-----------------------------------------------------------------------------

Open(d, id, match, at, severity, priority) ==
  Enter(d, [id |-> id, match |-> match, opened |-> at, acknowledged |-> NoTime,
            closed |-> NoTime, touched |-> at, severity |-> severity, priority |-> priority])

Acknowledge(s, d, at) ==
  /\ ledger[s] # NoEntry
  /\ ledger[s].acknowledged = NoTime
  /\ MayAcknowledge(ledger[s], at)
  /\ Enter(d, WithAcknowledgement(ledger[s], at))

Close(s, d, at) ==
  /\ ledger[s] # NoEntry
  /\ ledger[s].closed = NoTime
  /\ MayClose(ledger[s], at)
  /\ Enter(d, WithClosing(ledger[s], at))

AssessSeverity(s, d, value, at) ==
  /\ ledger[s] # NoEntry
  /\ MayAssess(ledger[s], at)
  /\ Enter(d, WithSeverity(ledger[s], value, at))

AssessPriority(s, d, value, at) ==
  /\ ledger[s] # NoEntry
  /\ MayAssess(ledger[s], at)
  /\ Enter(d, WithPriority(ledger[s], value, at))

\* A request that changes nothing, or an assignment by the caller.
Keep(s, d) == Enter(d, ledger[s])

Lose(d) == Enter(d, NoEntry)

Next ==
  \/ \E d \in Slots : Lose(d)
  \/ \E s, d \in Slots : Keep(s, d)
  \/ \E s, d \in Slots, at \in Instants :
        \/ Acknowledge(s, d, at)
        \/ Close(s, d, at)
        \/ \E value \in Severities : AssessSeverity(s, d, value, at)
        \/ \E value \in Priorities : AssessPriority(s, d, value, at)
  \/ \E d \in Slots, id \in AlertIds, match \in Matches, at \in Instants,
        severity \in Severities, priority \in Priorities :
        Open(d, id, match, at, severity, priority)

Spec == Init /\ [][Next]_ledger

=============================================================================
