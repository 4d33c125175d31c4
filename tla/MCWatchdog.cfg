SPECIFICATION FairSpec
CONSTANTS
  Settings <- SmallSettings
  DefaultInterval = 1
  DefaultFailAfter = 5
  MaxTime = 16
INVARIANTS
  TypeOK
  OutageIsNoticed
  RecoveryIsNoticed
PROPERTIES
  TripMeansOutage
  Exits
  TripsAsPromised
