SPECIFICATION IngestionSpec
CONSTANTS
  Records <- MCRecords
  Stripped <- MCStripped
  Decimal <- Numbers
  Hexadecimal <- HexNumbers
  AddressTexts <- MCAddresses
  Times <- MCTimes
  Missing = Missing
  NoRaw = NoRaw
  NoEvent = NoEvent
INVARIANTS
  TypeOK
  EvidenceIsKept
  DispatchAgrees
CHECK_DEADLOCK FALSE
