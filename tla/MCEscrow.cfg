\* One Job, every term, any caller: all interleavings of delivery, settlement,
\* time, setters, and the cutovers to this package and to its successor.
SPECIFICATION EscrowSpec
CONSTANTS
  treasury = treasury
  Account = {a1, a2, a3}
  Receiver = {treasury, vault}
  JobId = {j1}
  BatchId = {b1}
  NoBatch = NoBatch
  VERSION = 9
  BPS_DENOMINATOR = 10000
  MAX_FEE_BPS = 1000
  MAX_REVIEW_WINDOW_MS = 1
  MAX_DELIVER_HORIZON_MS = 2
  MIN_JOB_AMOUNT_FLOOR = 10
  MAX_JOB_AMOUNT_CEILING = 100
  MAX_BATCH_SLOTS_CEILING = 2
  U64_MAX = 8
  MaxNow = 4
  LaunchCfg <- MCStaleCfg
  Amount = {41}
  Duration = {0, 1, 2}
  Split = {2500, 10000}
  FeeBps = {250, 1001}
  AmountBound = {9, 40, 41, 101}
  TierCap = {0, 1}
  Floor = {0, 1}
  SlotMax = {0, 2, 3}
  NextVersion = {10}
SYMMETRY Symmetry
INVARIANTS
  EscrowTypeOK
  EscrowBacked
  FeeWithinTerms
  TimeoutsReachable
PROPERTIES
  TermsNeverMove
  KeepsPromise
CHECK_DEADLOCK FALSE
