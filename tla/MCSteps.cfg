SPECIFICATION Spec
CONSTANTS
  none = none
  unset = unset
  Absent = none
  Unset = unset
  NoRelease = none
  NotGiven = unset
  OtherRelease = TRUE
  MaxInt32 = 127
  Plans <- MCPlans
  Commands <- MCCommands
  Attempts = 2
  MaxRuns = 2
  MaxFaults = 3
  MaxOthers = 1
INVARIANTS
  TypeOK
  PromiseHolds
  JobRunsOnce
  FreshVolumes
PROPERTIES
  JobIsOurs
  DryRunChangesNothing
