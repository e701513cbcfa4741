SPECIFICATION Spec
CONSTANTS
  c1 = c1
  a = a
  b = b
  p = p
  q = q
  NoJob = NoJob
  Calls <- OneCall
  ItemKeys <- TwoKeys
  Blank = Blank
  Payloads <- TwoPayloads
  Huge = Huge
  MaxItems = 3
CHECK_DEADLOCK FALSE
INVARIANTS TypeOK CreatedJobIsWhole AnswerIsTrue
PROPERTIES StoreSpec
