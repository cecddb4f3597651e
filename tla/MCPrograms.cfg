SPECIFICATION ProgramsSpec
CONSTANTS
  MembersTarget = 3
  InstallmentAmount = 100
  CreditAmount = 200
  EscrowReleaseBps = 2500
  CycleDuration = 1
  GracePeriod = 1
  OrderingPolicy = "Sorteio"
  Levels = {1, 3}
  Funds <- Purses
  MayPause = TRUE
  MaxLag = 1
  MaxEnvelopes = 2
  Wallets = {"ana", "bia", "caio", "davi"}
  FirstOwner <- Founders
  OutsideFunds <- Savings
  Prices = {50}
  CommitRevealRequired = FALSE
  RevealCooldown = 1
  Float = 6
  Credit = 10
  fee_bps_yield = 2000
  lp_share_bps = 6500
  guarantee_fund_bps = 15000
  MAX_HARVEST_YIELD_MULTIPLE = 1
  MaxInstallments = 5
  MaxPayouts = 3
  Interests = {5, 8}
  MaxInterests = 2
  LEVEL_THRESHOLD <- Thresholds
  LEVEL_MIN_CYCLES <- MinCycles
  MIN_POOL_COMPLETE_COOLDOWN_SECS = 2
  MIN_ADMIN_ATTEST_COOLDOWN_SECS = 1
  Attested = {"PAYMENT", "POOL_COMPLETE", "DEFAULT"}
  IdentityFloors = {3}
  Ttls = {1}
  MaxAttestations = 3
  MaxClock = 5
  Fields = {"treasury", "fee_bps_yield"}
  Values <- Proposals
  Adapters = {"mock", "kamino"}
  Genesis <- AtGenesis
  Timelock <- Windows
  NoProposal = NoProposal
  MAX_FEE_BPS_YIELD = 3000
  MaxBlockTime = 4
  Pools = {"small", "other", "large"}
  Flow <- Flows
  Caps = {0, 3, 5}
INVARIANTS
  ServedInOrder
  SettlementNeverBlocked
  StandingDepthIsReal
  ListingsAreTheOwners
  USDCConserved
  EarmarksAreSound
  LevelsAreEarnedSlowly
  ScoreCoversTheRecord
  LockedTreasuryIsSettled
  CommittedIsReserved
  LanceAdviceIsSound
PROPERTIES
  TurnsOnlyExchanged
  NobodyAnswersAReveal
  ChangesAreAnnounced
CHECK_DEADLOCK FALSE
