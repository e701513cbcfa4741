SPECIFICATION Spec
CONSTANTS
  r1 = r1
  r2 = r2
  Rows <- TwoRows
  BypassesRls = FALSE
  WritersStopped = TRUE
  MaxFailures = 0
CHECK_DEADLOCK FALSE
PROPERTY KeyKept
