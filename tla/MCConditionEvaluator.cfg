SPECIFICATION Spec
CONSTANTS
  MCSize = 5
  Trees <- MCTrees
  LeafTests <- MCLeafTests
INVARIANTS
  DecidedIsCertain
  UnknownIsUndecided
  NothingSkipped
CHECK_DEADLOCK FALSE
