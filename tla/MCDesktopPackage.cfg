SPECIFICATION PackageSpec
CONSTANTS
  a1 = a1
  a2 = a2
  t1 = t1
  t2 = t2
  t3 = t3
  t4 = t4
  App = {a1, a2}
  Tree = {t1, t2, t3, t4}
  None = None
  Option <- Opts
  MaxBuilds = 3
  MaxKills = 1
  Together = 1
SYMMETRY Apps
INVARIANTS PackagedRuns RebuildAccepted
PROPERTY UserDirKept
CHECK_DEADLOCK FALSE
