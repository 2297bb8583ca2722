SPECIFICATION IngestionSpec
CONSTANTS
  Records <- MCRecords
  Stripped <- MCStripped
  Decimal <- Numbers
  Hexadecimal <- HexNumbers
  AddressTexts <- MCAddresses
  Times <- MCTimes
  Missing = Missing
  NoRaw = NoRaw
  NoEvent = NoEvent
INVARIANT
  FailuresAreControlled
CHECK_DEADLOCK FALSE
