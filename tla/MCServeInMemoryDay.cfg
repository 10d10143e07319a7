\* The default in-memory store of one long-lived process: keys live for a
\* day, payments for up to two.
SPECIFICATION SteadySpec
CONSTANTS
  p1 = p1
  p2 = p2
  p3 = p3
  c1 = c1
  db = db
  Request = {r1, r2}
  Payment = {p1}
  Challenge = {c1}
  challengeOf <- MCOneChallenge
  Accepted = {p1}
  Fitting = {p1}
  pays <- MCPays
  PRICE <- MCPrice
  Process = {s1}
  Store = {db}
  storeOf <- MCShared
  SetIfAbsent = FALSE
  Volatile = TRUE
  StoreFaults = FALSE
  ATTEMPTS = 3
  EPOCH = 2
  TTL = 2
  MaxNow = 4
SYMMETRY Symmetry
INVARIANT ReplayNeverServed
CHECK_DEADLOCK FALSE
