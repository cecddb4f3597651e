SPECIFICATION WebSpec
CONSTANTS
  MembersTarget = 2
  CycleDuration = 1
  GracePeriod = 1
  MaxLag = 1
  Me = 0
  SeatOf <- Drawn
  MaxAdrift = 1
INVARIANTS
  SuccessIsReal
  PaidAsConfirmed
  OffersMatchChain
CHECK_DEADLOCK FALSE
PROPERTIES
  ViewCatchesUp
