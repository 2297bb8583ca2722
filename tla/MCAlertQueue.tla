----------------------------- MODULE MCAlertQueue -----------------------------
(* A small instance of AlertQueue: a pool that holds two versions of one Alert, *)
(* Alerts that tie on the first keys, a closed Alert, an Alert a caller edited  *)
(* into disorder and an object that is no Alert.                                *)
EXTENDS AlertQueue

CONSTANTS a1, a2, a3, m1

MCIdRank == (a1 :> 1) @@ (a2 :> 0) @@ (a3 :> 2)

MCAlert(id, created, state, severity, priority, updated) ==
  [alert_id |-> id, source_match |-> m1, created_at |-> created, state |-> state,
   state_changed_at |-> created, severity |-> severity, priority |-> priority,
   updated_at |-> updated]

MCPool ==
  {MCAlert(a1, 0, "AlertState.NEW", "AlertSeverity.HIGH", "AlertPriority.NORMAL", 0),
   MCAlert(a1, 0, "AlertState.ACKNOWLEDGED", "AlertSeverity.LOW", "AlertPriority.HIGH", 1),
   MCAlert(a2, 0, "AlertState.NEW", "AlertSeverity.HIGH", "AlertPriority.NORMAL", 1),
   MCAlert(a2, 0, "AlertState.CLOSED", "AlertSeverity.UNASSIGNED", "AlertPriority.URGENT", 1),
   MCAlert(a3, 1, "AlertState.NEW", "AlertSeverity.HIGH", "AlertPriority.NORMAL", 1),
   MCAlert(a3, 1, "AlertState.NEW", "AlertSeverity.CRITICAL", "AlertPriority.NORMAL", 1),
   MCAlert(a3, 1, "AlertState.NEW", "AlertSeverity.HIGH", "AlertPriority.NORMAL", 0),
   NotAnAlert}

MCArgs(states, severities, priorities) ==
  [states |-> states, severities |-> severities, priorities |-> priorities]

MCFilterArgs ==
  {MCArgs(NoFilter, NoFilter, NoFilter),
   MCArgs({"AlertState.CLOSED", "AlertState.NEW"}, NoFilter, NoFilter),
   MCArgs({"AlertState.CLOSED"}, {"AlertSeverity.HIGH"}, NoFilter),
   MCArgs(AlertState, {"AlertSeverity.HIGH", "AlertSeverity.UNASSIGNED"}, {"AlertPriority.URGENT"}),
   MCArgs({}, Junk, NoFilter),
   MCArgs({"AlertState.CLOSED", Junk}, {}, {}),
   MCArgs(NoFilter, {"AlertSeverity.HIGH", Junk}, Junk),
   MCArgs(NoFilter, NoFilter, {})}

MCOffsets == {0}

=============================================================================
