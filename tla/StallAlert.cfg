SPECIFICATION Spec
CONSTANTS
  Configs <- ReliableConfigs
  Channels = {"slack", "webhook"}
  Flaky = {}
  ScriptCodes = {1}
INVARIANT
  StallAlertDelivered
