CONSTANTS
  c1 = c1  c2 = c2  d1 = d1  d2 = d2  t1 = t1  r1 = r1  r2 = r2
  None = None
  Commands = {c1, c2}
  Docs = {d1, d2}
  Tids = {t1}
  Readings = {r1, r2}
  Of <- MC_Of
  Entries <- MC_Entries
  Content = {}
  Carries <- MC_Empty
  Redacts <- MC_Empty
  MaxVersions = 2
SPECIFICATION TextSpec
SYMMETRY Alike
INVARIANTS LibTypeOK RuleZ Backed
PROPERTIES RedactedFirst
