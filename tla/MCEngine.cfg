SPECIFICATION Spec
CONSTANTS
  Configs <- SafetyConfigs
  Channels = {"slack", "webhook"}
  Flaky = {"webhook"}
  ScriptCodes = {1, 4}
INVARIANTS
  TypeOK
  InterruptMeansSignal
  TripIsReportedAsStall
  OnErrorDiscipline
  FailureIsAccountedFor
PROPERTIES
  FailFast
  RetryDiscipline
  WholeAttempt
