\* A hire, an open job and a wave, with one party that cranks and another that
\* may do anything, before and after the registry's cutover, while the
\* administrator may overwrite a seat counter with zero.
SPECIFICATION LiveSpec
CONSTANTS
  treasury = treasury
  MCBuyer = a2
  first = a1
  p1 = p1
  Account = {a1, a2}
  Agent = {a1}
  Profile = {p1}
  REGISTRY_VERSION = 2
  LaunchRegistryVersion = 1
  LaunchAgents <- MCLaunchAgents
  Receiver = {treasury}
  JobId = {j1}
  OpeningId = {o1}
  BatchId = {b1}
  NoBatch = NoBatch
  NoJob = NoJob
  VERSION = 9
  BPS_DENOMINATOR = 10000
  MAX_FEE_BPS = 1000
  MAX_REVIEW_WINDOW_MS = 1
  MAX_DELIVER_HORIZON_MS = 1
  MAX_OPEN_WINDOW_MS = 1
  MIN_JOB_AMOUNT_FLOOR = 10
  MAX_JOB_AMOUNT_CEILING = 100
  MAX_BATCH_SLOTS_CEILING = 2
  U64_MAX = 9
  MaxNow = 4
  LaunchCfg <- MCLaunchCfg
  PROVEN_MIN_REVIEWS = 1
  PROVEN_MIN_AVG_STARS_X10 = 40
  AVG_SCALE = 10
  LEVEL4_MIN_REVIEWS = 2
  LEVEL4_MAX_NO_DELIVERY = 0
  MAX_STARS = 5
  Amount = {41}
  Duration = {1}
  Split = {10000}
  FeeBps = {}
  AmountBound = {}
  TierCap = {}
  Floor = {}
  SlotMax = {}
  NextVersion = {}
  Stars = {}
  SeatValue = {0}
  Poster = {a1, a2}
  OpenWindow = {1}
  MinLevel = {0}
  Payment = {82}
  SlotsTotal = {2}
  MaxClaims = {1}
  SELLER_LEVEL_ACTIVE_CAPS <- MCCaps
  NO_DELIVERY_REGRESSION_FLOOR = 1
  MIN_JOB_USDC = 40
  MAX_JOB_USDC = 41
  MIN_JOB_SLA = 1
  MAX_BATCH_SLOTS_DEFAULT = 2
  MAX_RELEASES_PER_TX = 25
  RUNWAY = 1
PROPERTIES
  BuyerIsNeverStuck
  DeliveredIsSettled
CHECK_DEADLOCK FALSE
