CONSTANTS
  user = user  home = home
  Damaged = Damaged
  Missing = Missing
  Dir = {user, home}
  Proc = {p1}
  Updater = {u1, u2}
  MaxUpdates = 2
  Tuple <- MCTuple
  View <- MCView
  Artifact <- MCArtifact
SPECIFICATION Spec
INVARIANTS RunsWhatItAllows StoreVerified UpdateReachesLaunch
