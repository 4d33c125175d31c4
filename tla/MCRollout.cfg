SPECIFICATION Spec
CONSTANTS
  WorkloadSteps <- SmallSteps
  Attempts = 2
  MaxReplicas = 1
  Disturbances = 2
INVARIANTS
  TypeOK
  DeploymentsSurvive
  SuccessIsApplied
PROPERTY
  ReadyIsBelieved
