SPECIFICATION ReliableSpec
CONSTANTS
  WorkloadSteps <- WaitSteps
  Attempts = 12
  MaxReplicas = 2
  Disturbances = 1
PROPERTY
  Succeeds
