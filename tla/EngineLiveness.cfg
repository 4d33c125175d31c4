SPECIFICATION FairSpec
CONSTANTS
  Configs <- LivenessConfigs
  Channels = {"slack", "webhook"}
  Flaky = {"webhook"}
  ScriptCodes = {1, 4}
PROPERTIES
  Termination
  CancelTerminates
