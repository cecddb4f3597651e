SPECIFICATION StandaloneSpec
CONSTANTS
  Small = {0, 1, 2, 3, 4}
  Installments = {0, 1, 3, 99, 101, 777, 3000}
  SomeBps = {0, 1, 2500, 9900}
  SomeSizes = {1, 2, 24, 64}
  N = 5
  Sizes = {2, 3}
  CreditAmount = 1200
  StakePct = 10
  UpfrontPct = 35
  EscrowPct = 65
  ReleaseMonths = 1
  KaminoApy = 120
  YieldFeePct = 20
  MembersTarget = 2
  CycleDuration = 1
  GracePeriod = 1
  MaxLag = 2
  Replicas = {"c1"}
  LeaseEnabled = TRUE
  MaxOutages = 1
  MaxCrashes = 1
  MaxAhead = 1
  Subscribers = {0}
  TurnOf <- Drawn
  DueWindow = 1
  Ticks = {"k1", "k2"}
  MaxFaults = 1
INVARIANTS
  CascadeIsBest
  ViablePoolIsFunded
  DrawIsPermutation
  NobodyIsOverpaid
  HealthyGroupEndsEven
  NeverMailedTwice
  ClaimsAreLeases
PROPERTIES
  InfraMissIsDeferred
  DelinquencyEnds
CHECK_DEADLOCK FALSE
