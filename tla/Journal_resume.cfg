CONSTANTS
  w1 = w1  w2 = w2  u1 = u1  u2 = u2  entity = entity  reply = reply
  catalog = catalog  doc = doc
  Windows = {w1, w2}
  Shards = {catalog, doc}
  ShardOf <- MC_ShardOf
  Answers <- MC_Answers
  Ends <- MC_Ends
  NoWindow = NoWindow
  Off = Off
  MaxRuns = 3
SPECIFICATION Spec
INVARIANTS JournalledStaged LosesOnlyInFlight
PROPERTIES RepliesDrawn
CHECK_DEADLOCK FALSE
