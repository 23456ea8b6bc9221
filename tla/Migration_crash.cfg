CONSTANTS
  c1 = c1  c2 = c2  g1 = g1  g2 = g2  x1 = x1  x2 = x2  x3 = x3
  None = None  Torn = Torn
  Records = {x1, x2, x3}
  MaxCells = 4
  Commands = {c1}
  Readers = {g1, g2}
SPECIFICATION FairSpec
INVARIANTS TypeOK RecordsSomewhere SettleLosesNothing
PROPERTIES ImplementsAckedLog LockReturned
