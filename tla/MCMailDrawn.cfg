SPECIFICATION EmailSpec
CONSTANTS
  MembersTarget = 2
  CycleDuration = 1
  GracePeriod = 1
  MaxLag = 1
  Subscribers = {0}
  TurnOf <- Drawn
  DueWindow = 1
  Ticks = {"k1"}
  MaxFaults = 0
PROPERTY WinnerIsTold
CHECK_DEADLOCK FALSE
