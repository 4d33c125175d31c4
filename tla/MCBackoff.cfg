SPECIFICATION Spec
CONSTANTS
  MaxInt = 127
  MaxBackoff = 24
  DefaultDelay = 5
  Delays <- AllDelays
  MaxTry = 7
INVARIANTS
  TypeOK
  WaitIsSafe
  CeilingIsExponential
