CONSTANTS
  Updater = {u1}
  Missing = Missing
  Torn = Torn
  Releases <- MCReleases
  First <- S1
SPECIFICATION Spec
INVARIANTS CurrentMeansAsNew NeverLeftMissing
PROPERTIES NeverDowngrades
