SPECIFICATION Spec
CONSTANTS
  none = none
  unset = unset
  Absent = none
  Unset = unset
  MaxInt32 = 3
  Failures <- MCFailures
  Configurations <- MCConfigurations
  Views <- MCViews
INVARIANTS
  PermanentIsFinal
  LoadedStepsRun
  ObserversAgree
