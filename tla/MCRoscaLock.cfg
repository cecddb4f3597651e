SPECIFICATION ServingSpec
CONSTANTS
  MembersTarget = 2
  InstallmentAmount = 100
  CreditAmount = 140
  EscrowReleaseBps = 2500
  CycleDuration = 1
  GracePeriod = 1
  OrderingPolicy = "ArrivalOrder"
  Levels = {1}
  Funds <- Ample
  MayPause = FALSE
  MaxLag = 1
  Payers = {1}
PROPERTIES
  NoIndefiniteLocks
CHECK_DEADLOCK FALSE
