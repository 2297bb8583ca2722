SPECIFICATION Spec
CONSTANTS
  a1 = a1
  a2 = a2
  a3 = a3
  m1 = m1
  AlertIds = {a1, a2, a3}
  TrueMatches = {m1}
  MaxTime = 1
  Offsets <- MCOffsets
  Naive = Naive
  Broken = Broken
  Junk = Junk
  NotAnAlert = NotAnAlert
  Pool <- MCPool
  MaxSize = 3
  IdRank <- MCIdRank
  NoFilter = NoFilter
  FilterArgs <- MCFilterArgs
INVARIANTS
  WholeInputChecked
  AnswerIsTheQueue
  RefusalsAreJustified
  OrderIsDecided
PROPERTY CallAnswers
