SPECIFICATION MCSpec
CONSTANTS
  Session = {dev, other}
  Subject = dev
  Ask <- MCAsk
  MaxKills = 1
INVARIANT NoServerLeft
CHECK_DEADLOCK FALSE
