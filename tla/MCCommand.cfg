SPECIFICATION Spec
CONSTANTS
  Setups <- SmallSetups
  Refs = {"release", "claim"}
  Clusters = {"prod", "test"}
  Names = {"main"}
  ScriptCodes = {1, 4}
  MaxClock = 2
  MaxStarts = 2
INVARIANTS
  TypeOK
  GateHolds
  NoLitter
  ExitCodeTells
  EventsTellOutcome
PROPERTY
  SkipIsEarned
