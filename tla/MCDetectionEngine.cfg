SPECIFICATION Spec
CONSTANTS
  x = x
  y = y
  z = z
  DetectionRules <- MCRules
  IdRank <- MCIdRank
  Events <- MCEvents
  LeafConditions = {x, y, z}
  LeafTests <- MCLeafTests
  AnySource = AnySource
  Junk = Junk
  MaxRules = 3
  NoCondition = NoCondition
INVARIANTS
  TypeOK
  MatchesAreCertain
  CollectionCheckedFirst
  AnswerIsDetermined
  FailureIsDetermined
CHECK_DEADLOCK FALSE
