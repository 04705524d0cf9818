\* Deadlock is off: once a build that cannot be loaded is installed, nothing runs.
CONSTANTS
  v0 = v0  v1 = v1  v2 = v2  v3 = v3
  NoFile = NoFile
  Torn = Torn
  Proc = {p1}
  Image <- MCImage
  Dies <- MCDies
  Unloadable <- MCUnloadable
  FirstImage = v0
SPECIFICATION UpdateSpec
INVARIANTS SwapRecoverable SentinelIsForDylib
PROPERTIES SwapsAtomically
CHECK_DEADLOCK FALSE
