SPECIFICATION Spec
CONSTANTS
  i1 = i1
  i2 = i2
  NoRow = NoRow
  NoRequest = NoRequest
  Required <- RequiredColumns
  Optional <- OptionalColumns
  Trimmed <- RequiredColumns
  Ids <- TwoIds
  WritersStopped = TRUE
INVARIANTS
  TypeOK
  AcceptedWritesLand
  MigrationLands
