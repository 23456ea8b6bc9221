CONSTANTS
  c1 = c1  c2 = c2  t1 = t1  r1 = r1
  u1 = u1  u2 = u2  u3 = u3  u4 = u4  a2 = a2  a3 = a3
  x1 = x1  m1 = m1
  n1 = n1  n2 = n2  n3 = n3
  None = None
  Commands = {c1, c2}
  Docs = {}
  Tids = {t1}
  Readings = {r1}
  Of <- MC_Of
  Entries <- MC_Entries
  Content <- MC_Content
  Carries <- MC_Carries
  Redacts <- MC_Redacts
  MaxVersions = 1
  Units = {u1, u2, u3, u4}
  Direct = {a2, a3}
  Names <- MC_Names
  Provides <- MC_Provides
  Findings <- MC_Findings
  Imports = {n1, n2, n3}
  File <- MC_Files
  MaxTroubles = 1
SPECIFICATION Spec
INVARIANTS ImportTypeOK Retained OrderFree WaitsForMissing
