CONSTANTS
  p1 = p1  p2 = p2
  u1 = u1  e1 = e1  k1 = k1  k2 = k2  a1 = a1  b1 = b1
  t1 = t1  t2 = t2  t3 = t3  v1 = v1  w1 = w1  n1 = n1
  None = None
  Peers = {p1, p2}
  Units = {u1}  Relations = {k1, k2}  Attestations = {a1, b1}
  Threads = {t1, t2, t3}  Views = {v1}  Contentions = {}  Kept = {w1}
  Edges = {e1}  Names = {n1}
  Edge <- MC_Edge
  Subject <- MC_Subject
  Named <- MC_Named
  Stamp <- MC_Stamp
  Bytes <- MC_Bytes
  Writes <- MC_Writes
  MaxBatch = 2
SPECIFICATION Spec
INVARIANTS MergeTypeOK Converged UnionAnswers
CHECK_DEADLOCK FALSE
