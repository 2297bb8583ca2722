SPECIFICATION Spec
CONSTANTS
  Rules <- MCRules
  EditedRules <- MCEditedRules
  Events <- MCEvents
  AnySource = AnySource
  Segments <- MCSegments
  Addresses <- MCAddresses
  Networks <- MCNetworks
  Timestamps <- MCTimestamps
  MaxDepth = 4
  MaxLeaves = 2
  NoEvent = NoEvent
INVARIANTS
  TypeOK
  AcceptedNeverRaises
  RefusalsAreReal
  EvidenceCanBeBuilt
  ConstructedIsBounded
CHECK_DEADLOCK FALSE
