SPECIFICATION CrankSpec
CONSTANTS
  MembersTarget = 2
  CycleDuration = 1
  GracePeriod = 1
  MaxLag = 2
  Replicas = {"c1", "c2"}
  LeaseEnabled = TRUE
  MaxOutages = 0
  MaxCrashes = 0
  MaxAhead = 0
PROPERTIES
  DelinquentsAreSettled
CHECK_DEADLOCK FALSE
