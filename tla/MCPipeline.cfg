SPECIFICATION Spec
CONSTANTS
  AnySource = AnySource
  Segments <- MCSegments
  Addresses <- MCAddresses
  AddressTexts <- MCAddresses
  Networks <- MCNetworks
  Timestamps <- MCTimestamps
  MaxDepth = 8
  MaxLeaves = 64
  Libraries <- MCLibraries
  MaxRules = 6
  Occurs <- MCOccurs
  Begins <- MCBegins
  Ends <- MCEnds
  Covers <- MCCovers
  Denotes <- MCDenotes
  Records <- MCRecords
  Stripped <- MCStripped
  Decimal <- MCDecimal
  Hexadecimal <- MCHexadecimal
  Times <- MCTimes
  Missing = Missing
  NoRaw = NoRaw
  NoEvent = NoEvent
  IdRank <- MCIdRank
  Junk = Junk
  NoCondition = NoCondition
INVARIANTS
  EventsAlwaysGetThrough
  AlertsAreWhatTheRulesSelect
