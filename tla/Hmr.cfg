\* Deadlock is off: when the changes are used up and handled, nothing happens.
CONSTANTS
  File = {main, lazy}
  Main = main
  Absent = Absent
  MaxSaves = 3
SPECIFICATION Spec
INVARIANTS StaleExplained
PROPERTIES Converges
CHECK_DEADLOCK FALSE
