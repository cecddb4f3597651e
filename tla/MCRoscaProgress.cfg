SPECIFICATION ServingSpec
CONSTANTS
  MembersTarget = 2
  InstallmentAmount = 100
  CreditAmount = 70
  EscrowReleaseBps = 2500
  CycleDuration = 2
  GracePeriod = 1
  OrderingPolicy = "Sorteio"
  Levels = {1}
  Funds <- Ample
  MayPause = FALSE
  MaxLag = 1
  Payers = {1}
PROPERTIES
  NoWrongfulLate
  DefaultNeedsAFullWindow
  NoIndefiniteLocks
CHECK_DEADLOCK FALSE
