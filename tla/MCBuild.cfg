SPECIFICATION Spec
CONSTANTS
  A = A  B = B  X1 = X1  X2 = X2  C1 = C1  C2 = C2
  NoFolder = NoFolder
  Folder <- MCFolder
  NameOf <- MCNameOf
  Category <- MCCategory
  PathCategory <- MCPathCategory
  Plain = {"host"}
  Relative = {"rel"}
  Project <- MCProject
  Token <- MCToken
  MaxTokens = 2
  Toolchain = {"dev", "beta"}
  Store <- MCStore
  Floor <- MCFloor
INVARIANTS RunsAsGranted StartsAsBuilt EmbeddedResolves
PROPERTIES ReplacesAtomically
CHECK_DEADLOCK FALSE
