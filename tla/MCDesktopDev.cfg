SPECIFICATION MCSpec
CONSTANTS
  Session = {dev, other}
  Subject = dev
  Ask <- MCAsk
  MaxKills = 1
INVARIANTS OneWindow EntryStays
PROPERTIES SomethingShows NothingCut ClosingCleans
CHECK_DEADLOCK FALSE
