\* One agent and one buyer who works from the command line on a hire, an open
\* job and a wave of one slot, with both watch loops running over an index that
\* lags behind the chain.
SPECIFICATION MCWatchSpec
CONSTANTS
  treasury = treasury
  MCBuyer = a2
  first = a1
  p1 = p1
  Account = {a1, a2}
  Agent = {a1}
  Profile = {p1}
  REGISTRY_VERSION = 2
  LaunchRegistryVersion = 2
  LaunchAgents <- MCLaunchAgents
  Receiver = {treasury}
  JobId = {j1}
  OpeningId = {o1}
  BatchId = {b1}
  NoBatch = NoBatch
  NoJob = NoJob
  VERSION = 9
  BPS_DENOMINATOR = 10000
  MAX_FEE_BPS = 1000
  MAX_REVIEW_WINDOW_MS = 1
  MAX_DELIVER_HORIZON_MS = 1
  MAX_OPEN_WINDOW_MS = 1
  MIN_JOB_AMOUNT_FLOOR = 10
  MAX_JOB_AMOUNT_CEILING = 100
  MAX_BATCH_SLOTS_CEILING = 2
  U64_MAX = 9
  MaxNow = 3
  LaunchCfg <- MCLaunchCfg
  PROVEN_MIN_REVIEWS = 1
  PROVEN_MIN_AVG_STARS_X10 = 40
  AVG_SCALE = 10
  LEVEL4_MIN_REVIEWS = 2
  LEVEL4_MAX_NO_DELIVERY = 0
  MAX_STARS = 5
  Amount = {41}
  Duration = {1}
  Split = {2500}
  FeeBps = {}
  AmountBound = {}
  TierCap = {}
  Floor = {}
  SlotMax = {}
  NextVersion = {}
  Stars = {5}
  SeatValue = {}
  Poster = {a2}
  OpenWindow = {1}
  MinLevel = {0}
  Payment = {41}
  SlotsTotal = {1}
  MaxClaims = {1}
  SELLER_LEVEL_ACTIVE_CAPS <- MCCaps
  NO_DELIVERY_REGRESSION_FLOOR = 1
  MIN_JOB_USDC = 40
  MAX_JOB_USDC = 41
  MIN_JOB_SLA = 1
  MAX_BATCH_SLOTS_DEFAULT = 2
  MAX_RELEASES_PER_TX = 25
  RUNWAY = 1
  ReviewWindow = {1}
  MaxSales = 1
  brief = brief
  other = other
  Body = {brief, other}
  Draft = {brief}
  HashOnly = HashOnly
  DAILY_CAP = 82
  TrustKnob = {"open"}
  ApiOrigin = "https://api.t2000.ai"
  AllowUntrustedApi = FALSE
  BULK_JOB_MAX = 1
INVARIANTS
  PinnedIsReadable
  GoodwillIsAsked
  EscrowedIsCounted
  InboxTellsTheTruth
PROPERTIES
  LapseIsAnnounced
CHECK_DEADLOCK FALSE
