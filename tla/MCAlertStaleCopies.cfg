SPECIFICATION Spec
CONSTANTS
  a1 = a1
  m1 = m1
  s1 = s1
  s2 = s2
  AlertIds = {a1}
  TrueMatches = {m1}
  MaxTime = 2
  Offsets <- MCUtcOnly
  Naive = Naive
  Broken = Broken
  Junk = Junk
  NotAnAlert = NotAnAlert
  Slots = {s1, s2}
  SeverityArgs <- MCTwoSeverities
  PriorityArgs <- MCOnePriority
  EditArgs = {}
  NoTime = NoTime
  Edited = Edited
  Derived = Derived
SYMMETRY MCSlotSymmetry
PROPERTY ImplementsLedger
