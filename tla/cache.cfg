CONSTANTS
  info = info
  table = table
  Nil = Nil
  Failed = Failed
  None = None
  Keys <- TwoKeys
  InfoKey = info
  Concurrent = 3
  MaxRequests = 3
SPECIFICATION Spec
INVARIANTS TypeOK AckedKept RefusedLeavesNoTrace
PROPERTY StoreOnlyGrows
CHECK_DEADLOCK FALSE
