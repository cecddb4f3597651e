SPECIFICATION WebSpec
CONSTANTS
  MembersTarget = 3
  CycleDuration = 1
  GracePeriod = 1
  MaxLag = 1
  Me = 0
  SeatOf <- Drawn
  MaxAdrift = 1
INVARIANT SchemaMirrorsProgram
CHECK_DEADLOCK FALSE
