SPECIFICATION Spec
CONSTANTS
  MembersTarget = 3
  InstallmentAmount = 100
  CreditAmount = 200
  EscrowReleaseBps = 2500
  CycleDuration = 1
  GracePeriod = 1
  OrderingPolicy = "ArrivalOrder"
  Levels = {1}
  Funds <- Tight
  MayPause = FALSE
  MaxLag = 1
INVARIANTS
  EscrowBacked
CHECK_DEADLOCK FALSE
