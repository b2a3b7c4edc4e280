CONSTANTS
  info = info
  table = table
  Nil = Nil
  Failed = Failed
  None = None
  Keys <- TwoKeys
  InfoKey = info
  Concurrent = 2
  MaxRequests = 2
SPECIFICATION Spec
PROPERTIES FillKeepsUpdates
CHECK_DEADLOCK FALSE
