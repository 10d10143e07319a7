\* Two accounts, both registered, one of them posting: an open job for every level
\* and a wave of two slots with the seats, holds and numbers between them, while
\* reviews change levels and agents go inactive. The clients' offers and preflights
\* are asked in every state.
SPECIFICATION MarketSpec
CONSTANTS
  treasury = treasury
  MCBuyer = a2
  first = a1
  p1 = p1
  Account = {a1, a2}
  Agent = {a1, a2}
  Profile = {p1}
  REGISTRY_VERSION = 2
  LaunchRegistryVersion = 2
  LaunchAgents <- MCBothAgents
  Receiver = {treasury}
  JobId = {j1, j2}
  OpeningId = {o1}
  BatchId = {b1}
  NoBatch = NoBatch
  NoJob = NoJob
  VERSION = 9
  BPS_DENOMINATOR = 10000
  MAX_FEE_BPS = 1000
  MAX_REVIEW_WINDOW_MS = 1
  MAX_DELIVER_HORIZON_MS = 1
  MAX_OPEN_WINDOW_MS = 1
  MIN_JOB_AMOUNT_FLOOR = 10
  MAX_JOB_AMOUNT_CEILING = 100
  MAX_BATCH_SLOTS_CEILING = 2
  U64_MAX = 9
  MaxNow = 3
  LaunchCfg <- MCLaunchCfg
  PROVEN_MIN_REVIEWS = 1
  PROVEN_MIN_AVG_STARS_X10 = 40
  AVG_SCALE = 10
  LEVEL4_MIN_REVIEWS = 2
  LEVEL4_MAX_NO_DELIVERY = 0
  MAX_STARS = 5
  Amount = {41}
  Duration = {1, 2}
  Split = {}
  FeeBps = {}
  AmountBound = {}
  TierCap = {}
  Floor = {}
  SlotMax = {}
  NextVersion = {}
  Stars = {5}
  SeatValue = {}
  Poster = {a2}
  OpenWindow = {1}
  MinLevel = {0, 2}
  Payment = {82}
  SlotsTotal = {2}
  MaxClaims = {2}
  SELLER_LEVEL_ACTIVE_CAPS <- MCCaps
  NO_DELIVERY_REGRESSION_FLOOR = 1
  MIN_JOB_USDC = 40
  MAX_JOB_USDC = 41
  MIN_JOB_SLA = 1
  MAX_BATCH_SLOTS_DEFAULT = 2
  MAX_RELEASES_PER_TX = 25
  RUNWAY = 1
SYMMETRY Symmetry
INVARIANTS
  OpeningFundsGoOnce
  OpeningMintable
  SeatsMatch
  WaveFundsAccountedFor
  WaveHoldsMatch
  OffersAreExact
  ClaimPreflightIsExact
PROPERTIES
  CapRespected
  VerifiedJobIsSafe
CHECK_DEADLOCK FALSE
