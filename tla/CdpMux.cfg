SPECIFICATION MuxSpec
CONSTANTS
  MaxAsked = 2
  MaxEvents = 1
  MaxClients = 1
INVARIANTS RoutedBySession AnnouncedInTime
PROPERTIES GateOpensAfterPause UnifiedEnds
CHECK_DEADLOCK FALSE
