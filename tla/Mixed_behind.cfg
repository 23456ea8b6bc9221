CONSTANTS
  w1 = w1  p1 = p1  s1 = s1
  u1 = u1  a1 = a1  h1 = h1
  None = None  Torn = Torn
  Units = {u1}  Atts = {a1}  Hots = {h1}
  Subject <- MC_Subject
  Kind = "one"
  Writers = {w1}  Readers = {}  Procs = {p1}
  ProcOf <- MC_ProcOf
  Batches <- MC_Batches
  Faults = {"db", "open", "kill"}
  Plain = {s1}
  MaxCells = 4
SPECIFICATION MixedSpec
INVARIANTS StoreBehindLog
