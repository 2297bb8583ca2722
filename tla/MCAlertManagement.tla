-------------------------- MODULE MCAlertManagement --------------------------
(* A small instance of AlertManagement: one alert identity, four instants,  *)
(* times that overflow on either side, and a few caller edits, some of      *)
(* which yield values the library accepts and some that it must reject.     *)
EXTENDS AlertManagement, TLC

CONSTANTS a1, m1, s1, s2

MCOffsets == {-1, 0, 1}

MCSeverityArgs == {"AlertSeverity.UNASSIGNED", "AlertSeverity.HIGH", Junk}

MCPriorityArgs == {"AlertPriority.NORMAL", "AlertPriority.HIGH", Junk}

MCEditArgs ==
  {<<"state", "AlertState.CLOSED">>, <<"state", "AlertState.NEW">>,
   <<"state_changed_at", 2>>, <<"updated_at", 0>>,
   <<"created_at", Junk>>, <<"source_match", Junk>>}

\* For the runs with two slots: stale copies of a value, and no edits.
MCUtcOnly == {0}

MCTwoSeverities == {"AlertSeverity.UNASSIGNED", "AlertSeverity.HIGH"}

MCOnePriority == {"AlertPriority.NORMAL"}

\* The caller's variables are interchangeable.
MCSlotSymmetry == Permutations(Slots)

=============================================================================
