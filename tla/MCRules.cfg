SPECIFICATION Spec
CONSTANTS
  Sample <- MCSample
  MaxTuples = 2
  MaxLines = 2
  MaxReleases = 3
  Project <- MCProject
  MaxReleased = 2
  Import <- MCImport
  Mapping <- MCMapping
  Disk <- MCDisk
  MaxPublished = 2
  Payload <- MCPayload
  WordSize = 64
  Window = {w1, w2}
  Notice = {n1}
  Call = {c1}
  Fn = {f1, f2}
  Capacity = 2
  Nobody = Nobody
SYMMETRY MCSymmetry
INVARIANTS
  VersionsFollowed
  RepackagedWhole
  InstalledVerified
  BuildRunAgree
  FetchedRunsOffline
  ReadsAsPacked
  CallsAnswered
  WindowsTracked
CHECK_DEADLOCK FALSE
