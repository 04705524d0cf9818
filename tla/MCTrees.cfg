CONSTANTS
  Proc = {p1, p2}
  Key = {k1, k2}
  Nobody = Nobody
  Keep = 0
  MaxLive = 2
  Pid = {q1, q2}
  Name = {n1, n2, n3}
SYMMETRY Launches
SPECIFICATION TreesSpec
INVARIANTS CacheBounded LiveExtractionKept
PROPERTIES AppearsComplete RunningTreeKept DeadTreesReaped
