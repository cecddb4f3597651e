SPECIFICATION ArrivalSpec
CONSTANTS
  MembersTarget = 3
  InstallmentAmount = 100
  CreditAmount = 200
  EscrowReleaseBps = 2500
  CycleDuration = 2
  GracePeriod = 1
  OrderingPolicy = "ArrivalOrder"
  Levels = {1}
  Funds <- Tight
  MayPause = TRUE
  MaxLag = 1
INVARIANTS
  TypeOK
  TalliesMatchVaults
  StakeNeverOverReleased
  AttestationsTellTheStory
PROPERTIES
  ImplementsRotation
  ImplementsTimeline
CHECK_DEADLOCK FALSE
