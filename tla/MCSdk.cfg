\* The spending gate: two calls of one process, limits set and reset under them,
\* over two days.  The composer: every plan of up to three steps, sponsored and
\* self-funded, the wallet changing between the legs.  Token moves: a send or a swap, with and without a quote, while the
\* market and the wallet move.  The catalog: two commands of one seller at once.
SPECIFICATION SdkSpec
CONSTANTS
  None = None
  Unreadable = Unreadable
  NoPrice = NoPrice
  c1 = c1
  c2 = c2
  h1 = h1
  me = me
  seller = seller
  self = me
  Wallet = {me, seller}
  Network = {"sui:mainnet", "sui:testnet", "base"}
  Usd = {0, 1, 2, 3}
  Date = {0, 1}
  Price = {1, 2, 3}
  Call = {c1, c2}
  Host = {h1}
  HostOf <- OneHost
  Operator = h1
  Verb <- MCVerbs
  Settings <- MCSettings
  Answers <- MCAnswers
  InitialFile <- MCFiles
  InitialPurse <- MCPurse
  MaxDeposits = 1
  Absent = Absent
  All = All
  Refused = Refused
  Unmerged = Unmerged
  sender = sender
  bob = bob
  GASLESS_MIN = 1
  CoinType = {"SUI", "USDC"}
  Stables = {"USDC"}
  Plan <- MCPlan
  InitialWallet <- MCWallet
  Balances <- MCBalances
  MaxChanges = 1
  NoRoute = NoRoute
  Junk = Junk
  usdc = usdc
  alt = alt
  Coin = {usdc, alt}
  Registered = {usdc}
  Gasless = {usdc}
  Decimals <- MCDecimals
  GuessedDecimals <- MCGuess
  Amount = {0, 1, 2}
  GASLESS_FLOOR = 2
  Rate = {2, 3}
  Slippage = {5}
  SLIPPAGE_MIN = 1
  SLIPPAGE_MAX = 2
  SLIPPAGE_UNIT = 10
  NEAR = 5
  FRESH_MS = 2
  MaxNow = 2
  Funds <- MCFunds
  MaxQuotes = 1
  MaxMoves = 1
  basic = basic
  standard = standard
  premium = premium
  cheap = cheap
  dear = dear
  short = short
  long = long
  home = home
  field = field
  api = api
  cmd1 = cmd1
  cmd2 = cmd2
  Omitted = Omitted
  Command = {cmd1, cmd2}
  Slug = {basic, standard, premium}
  Offer = {cheap, dear}
  Listable = {cheap, dear}
  Terms = {short, long}
  DefaultTerms = short
  AGENT_CATEGORIES = {home, field}
  Endpoint = {api}
  Tiers <- MCTiers
  Request <- MCRequest
  InitialListings <- MCListings
  InitialStanding <- MCStanding
SYMMETRY SdkSymmetry
INVARIANTS
  NoRewriteLosesAnything
  OverlapIsTheOnlyOvershoot UndisturbedPaymentIsFunded
  OutputsGoWhereNamed MergedCoinIsLinear SponsorIsNotSurprised
  MigrationIsLeast
  ListingsChangeAsAsked
  QuoteIsBinding ReportIsWhatArrived
CHECK_DEADLOCK FALSE
