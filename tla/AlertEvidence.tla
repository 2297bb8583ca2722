----------------------------- MODULE AlertEvidence -----------------------------
(***************************************************************************)
(* Who shares which mutable object: a NormalizedEvent, the operand list of *)
(* a rule, the DetectionMatch the engine makes of them (its trace part of  *)
(* it here), and the Alert values that must own their evidence: models/    *)
(* alert.py, alerts/creation.py, alerts/_validation.py, the end of         *)
(* evaluate_event and the trace _evaluate_leaf builds.  An object is a     *)
(* place in the heap; Python code that holds a place may change what is    *)
(* there, and everyone who refers to it sees the change.                   *)
(***************************************************************************)
EXTENDS Naturals, Sequences

CONSTANTS
  Values,      \* what an event, an operand list or the actual value of a trace may hold
  Valid,       \* those validation accepts
  Normal,      \* what validation makes of them
  AlertNames,  \* the Alert values in use
  MaxObjects,  \* bound on the objects created
  MaxEdits     \* bound on the caller's changes

ASSUME ValuesAssumption ==
  /\ Valid \subseteq Values
  /\ Normal \in [Valid -> Valid]
  /\ \A v \in Valid : Normal[Normal[v]] = Normal[v]
ASSUME BoundsAssumption == MaxObjects \in Nat /\ MaxObjects >= 2 /\ MaxEdits \in Nat

\* The places of the caller's event and of the rule's operand list.
Event == 1
RuleList == 2

VARIABLES
  heap,    \* the objects, in order of creation
  held,    \* the places of the matches the caller holds
  alerts,  \* the place of the match each Alert stores
  forged,  \* the alerts model_copy gave a match of the caller's
  edits,   \* how often the caller changed an object
  touched  \* whether one of them was not the rule's list

vars == <<heap, held, alerts, forged, edits, touched>>

Cell(v) == [value |-> v]

\* quotes: the actual value in the trace; asked is auxiliary, the operand evaluated.
Match(event, list, quotes, asked) ==
  [event |-> event, list |-> list, quotes |-> quotes, asked |-> asked]

Init ==
  /\ \E e \in Values, l \in Valid : heap = <<Cell(e), Cell(l)>>
  /\ held = {} /\ alerts = [a \in {} |-> 0] /\ forged = {}
  /\ edits = 0 /\ touched = FALSE

New == Len(heap)

HasRoom == New + 3 <= MaxObjects

Evidence(m) == <<heap[heap[m].event].value, heap[heap[m].list].value, heap[m].quotes>>

-----------------------------------------------------------------------------
(* The detection library.                                                  *)

\* Mutant: the operands are not copied; the trace refers to the rule's own list.
EvaluateAliased(event) ==
  /\ HasRoom
  /\ heap[RuleList].value \in Valid
  /\ heap' = heap \o
       <<Cell(heap[RuleList].value), Match(event, RuleList, heap[event].value, heap[RuleList].value)>>
  /\ held' = held \cup {New + 2}
  /\ UNCHANGED <<alerts, forged, edits, touched>>

\* A rule is true of an event.  The match refers to the caller's event, which nothing
\* validates again, and to a copy of the rule's operand list.
Evaluate(event) ==
  /\ HasRoom
  /\ heap[RuleList].value \in Valid
  /\ heap' = heap \o
       <<Cell(heap[RuleList].value), Match(event, New + 1, heap[event].value, heap[RuleList].value)>>
  /\ held' = held \cup {New + 2}
  /\ UNCHANGED <<alerts, forged, edits, touched>>

-----------------------------------------------------------------------------
(* Alerts.                                                                 *)

\* deepcopy: the match, its event and its list, after the objects there are.
Copied(m) ==
  heap \o <<heap[heap[m].event], heap[heap[m].list],
            [heap[m] EXCEPT !.event = New + 1, !.list = New + 2]>>

\* What model_validate makes of a dump of the match: objects of its own, normalized.
Snapshot(m) ==
  heap \o <<Cell(Normal[heap[heap[m].event].value]), Cell(Normal[heap[heap[m].list].value]),
            [heap[m] EXCEPT !.event = New + 1, !.list = New + 2, !.quotes = Normal[@]]>>

\* Mutant: evidence that validation rewrites is taken all the same.
IsOwnableNormalized(m) == \A i \in 1..3 : Evidence(m)[i] \in Valid

\* own_validated_match: valid, and as it is.
IsOwnable(m) == \A i \in 1..3 : Evidence(m)[i] \in Valid /\ Normal[Evidence(m)[i]] = Evidence(m)[i]

Store(a, place, isForged) ==
  /\ a \notin DOMAIN alerts
  /\ alerts' = [b \in DOMAIN alerts \cup {a} |-> IF b = a THEN place ELSE alerts[b]]
  /\ forged' = IF isForged THEN forged \cup {a} ELSE forged

\* Mutant: the caller's match is stored once it has passed validation.
CreateAlertShared(m, a) ==
  /\ HasRoom /\ IsOwnable(m)
  /\ heap' = Snapshot(m)
  /\ Store(a, m, FALSE)
  /\ UNCHANGED <<held, edits, touched>>

\* Mutant: the match is copied and stored, but not validated.
CreateAlertUnchecked(m, a) ==
  /\ HasRoom
  /\ heap' = Copied(m)
  /\ Store(a, New + 3, FALSE)
  /\ UNCHANGED <<held, edits, touched>>

CreateAlert(m, a) ==
  /\ HasRoom /\ IsOwnable(m)
  /\ heap' = Snapshot(m)
  /\ Store(a, New + 3, FALSE)
  /\ UNCHANGED <<held, edits, touched>>

\* Mutant: no deepcopy.
ReadMatchStored(a) ==
  /\ HasRoom
  /\ heap' = Copied(alerts[a])
  /\ held' = held \cup {alerts[a]}
  /\ UNCHANGED <<alerts, forged, edits, touched>>

\* alert.source_match, and iteration over the alert.
ReadMatch(a) ==
  /\ HasRoom
  /\ heap' = Copied(alerts[a])
  /\ held' = held \cup {New + 3}
  /\ UNCHANGED <<alerts, forged, edits, touched>>

\* A transition, a policy operation or the queue: read_alert_snapshot, then a new Alert.
UpdateAlert(a, b) ==
  /\ HasRoom /\ IsOwnable(alerts[a])
  /\ heap' = Snapshot(alerts[a])
  /\ Store(b, New + 3, FALSE)
  /\ UNCHANGED <<held, edits, touched>>

\* model_copy is shallow, and validates no update.
CopyAlert(a, b) ==
  /\ Store(b, alerts[a], a \in forged)
  /\ UNCHANGED <<heap, held, edits, touched>>

ForgeAlert(m, b) ==
  /\ Store(b, m, TRUE)
  /\ UNCHANGED <<heap, held, edits, touched>>

-----------------------------------------------------------------------------
(* The caller, who may change whatever it can reach.                       *)

EventsHeld == {Event} \cup {heap[m].event : m \in held}

Edit(place, object, evidence) ==
  /\ edits < MaxEdits
  /\ heap' = [heap EXCEPT ![place] = object]
  /\ edits' = edits + 1
  /\ touched' = (touched \/ evidence)
  /\ UNCHANGED <<held, alerts, forged>>

EditRule == \E v \in Values : Edit(RuleList, Cell(v), FALSE)

EditEvent == \E p \in EventsHeld, v \in Values : Edit(p, Cell(v), TRUE)

EditMatch ==
  \E m \in held :
    \/ \E v \in Values : Edit(m, [heap[m] EXCEPT !.quotes = v], TRUE)
    \/ \E v \in Values : Edit(heap[m].list, Cell(v), TRUE)
    \/ \E p \in EventsHeld : Edit(m, [heap[m] EXCEPT !.event = p], TRUE)

Next ==
  \/ \E p \in EventsHeld : Evaluate(p)
  \/ \E m \in held, b \in AlertNames : CreateAlert(m, b) \/ ForgeAlert(m, b)
  \/ \E a \in DOMAIN alerts : ReadMatch(a)
  \/ \E a \in DOMAIN alerts, b \in AlertNames : UpdateAlert(a, b) \/ CopyAlert(a, b)
  \/ EditRule \/ EditEvent \/ EditMatch

Spec == Init /\ [][Next]_vars

-----------------------------------------------------------------------------
(* Properties.                                                             *)

Cells == [value : Values]
Matches == [event : Nat, list : Nat, quotes : Values, asked : Valid]

IsCell(p) == p \in 1..Len(heap) /\ heap[p] \in Cells

IsMatch(p) ==
  /\ p \in 1..Len(heap) /\ heap[p] \in Matches
  /\ IsCell(heap[p].event) /\ IsCell(heap[p].list)

\* The alerts the library made, and their copies.
Owners == DOMAIN alerts \ forged

\* The kinds of the objects; and what an alert of the library's stores is valid and in
\* normal form, however the match it was made of, or another alert, was changed or forged.
TypeOK ==
  /\ heap \in Seq(Cells \cup Matches) /\ Len(heap) <= MaxObjects
  /\ IsCell(Event) /\ IsCell(RuleList)
  /\ \A m \in held : IsMatch(m)
  /\ DOMAIN alerts \subseteq AlertNames /\ \A a \in DOMAIN alerts : IsMatch(alerts[a])
  /\ forged \subseteq DOMAIN alerts
  /\ \A a \in Owners : IsOwnable(alerts[a])
  /\ edits \in 0..MaxEdits /\ touched \in BOOLEAN

\* The evidence of an alert is for good: no change the caller makes to its events, rules and
\* matches, to matches it read from the alert, or through a copy of the alert, is seen in
\* it (docs/alert-management-scope.md: an owned, detached, read-only snapshot).
EvidenceNeverChanges ==
  [][\A a \in Owners : Evidence(alerts[a])' = Evidence(alerts[a])]_vars

\* An alert is made of evidence as it was given, of a match or of another alert; what
\* validation would rewrite is turned down.
EvidenceIsAsGiven ==
  [][\A a \in Owners' \ Owners :
       \E m \in held \cup {alerts[b] : b \in DOMAIN alerts} :
         Evidence(alerts[a])' = Evidence(m)]_vars

\* The trace of a match or an alert disagrees with the event beside it, or with the operand
\* the rule had when it was evaluated, only if the caller changed an event or a match; a
\* change of the rule is not enough.
DisagreementIsTheCallers ==
  ~touched => \A m \in held \cup {alerts[a] : a \in DOMAIN alerts} :
                /\ heap[m].quotes = heap[heap[m].event].value
                /\ heap[heap[m].list].value = heap[m].asked

=============================================================================
