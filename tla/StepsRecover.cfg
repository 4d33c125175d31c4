SPECIFICATION FairSpec
CONSTANTS
  none = none
  unset = unset
  Absent = none
  Unset = unset
  NoRelease = none
  NotGiven = unset
  OtherRelease = TRUE
  MaxInt32 = 127
  Plans <- MCPlans
  Commands <- LiveCommands
  Attempts = 2
  MaxRuns = 2
  MaxFaults = 2
  MaxOthers = 1
PROPERTY
  ResetRecovers
