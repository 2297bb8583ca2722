SPECIFICATION Spec
CONSTANTS
  Values = {"seen", "other", "odd", "bad"}
  Valid = {"seen", "other", "odd"}
  Normal <- MCNormal
  AlertNames = {"first", "second"}
  MaxObjects = 11
  MaxEdits = 2
INVARIANTS
  TypeOK
  DisagreementIsTheCallers
PROPERTIES
  EvidenceNeverChanges
  EvidenceIsAsGiven
CHECK_DEADLOCK FALSE
