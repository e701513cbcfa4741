SPECIFICATION Spec
CONSTANTS
  r1 = r1
  r2 = r2
  Rows <- TwoRows
  BypassesRls = TRUE
  WritersStopped = TRUE
  MaxFailures = 2
CHECK_DEADLOCK FALSE
INVARIANTS
  TypeOK
  NoStatementFails
PROPERTIES
  KeyKept
  StripLands
