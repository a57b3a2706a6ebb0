CONSTANTS
  Ids = {"i1", "i2", "i3"}
  MaxLagging = 1
  NoToken = NoToken
  BadToken = BadToken
  TagKeys <- MCTagKeys
  OddKeys <- MCOddKeys
  HashOrder <- MCHashOrder
  Times <- MCTimes
  PartOf <- MCPartOf
  Scenarios <- MCScenarios
SPECIFICATION Spec
INVARIANTS
  TypeOK
  Readable
  FieldsReturned
  PutBackStable
  WalkComplete
  SeenOnce
  RefusedByChange
PROPERTY WalkAdvances
CHECK_DEADLOCK FALSE
