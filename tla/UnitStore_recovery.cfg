CONSTANTS
  w1 = w1  w2 = w2  r1 = r1  p1 = p1  p2 = p2
  u1 = u1  a1 = a1  h1 = h1
  None = None  Torn = Torn
  Units = {u1}  Atts = {a1}  Hots = {h1}
  Subject <- MC_Subject
  Kind = "one"
  Writers = {w1, w2}  Readers = {r1}  Procs = {p1, p2}
  ProcOf <- MC_ProcOf
  Batches <- MC_Batches
  Faults = {"kill", "power", "io", "db", "open"}
SPECIFICATION Spec
INVARIANTS CaughtUpDescribes TablesSayRow SnapshotNotBehind
