\* One send or swap of a coin that no registry names, while its metadata may or
\* may not be readable.
SPECIFICATION TokenSpec
CONSTANTS
  NoRoute = NoRoute
  Junk = Junk
  usdc = usdc
  alt = alt
  Coin = {usdc, alt}
  Registered = {usdc}
  Gasless = {usdc}
  Decimals <- MCDecimals
  GuessedDecimals <- MCGuess
  Amount = {0, 1, 2}
  GASLESS_FLOOR = 2
  Rate = {2, 3}
  Slippage = {5}
  SLIPPAGE_MIN = 1
  SLIPPAGE_MAX = 2
  SLIPPAGE_UNIT = 10
  NEAR = 5
  FRESH_MS = 2
  MaxNow = 3
  Funds <- MCFunds
  MaxQuotes = 1
  MaxMoves = 1
INVARIANTS
  SentIsWhatWasAsked
CHECK_DEADLOCK FALSE
