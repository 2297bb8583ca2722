SPECIFICATION Spec
CONSTANTS
  a1 = a1
  m1 = m1
  s1 = s1
  s2 = s2
  AlertIds = {a1}
  TrueMatches = {m1}
  MaxTime = 3
  Offsets <- MCOffsets
  Naive = Naive
  Broken = Broken
  Junk = Junk
  NotAnAlert = NotAnAlert
  Slots = {s1}
  SeverityArgs <- MCSeverityArgs
  PriorityArgs <- MCPriorityArgs
  EditArgs <- MCEditArgs
  NoTime = NoTime
  Edited = Edited
  Derived = Derived
INVARIANTS
  TypeOK
  OutputsStayReadable
  TimestampsTellHistory
  AcceptsExactlyThePermitted
PROPERTY ImplementsLedger
