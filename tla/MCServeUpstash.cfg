\* Two processes behind one Upstash store over three and a half days: copies of
\* a full payment, of a short one and of one the chain refuses, for one
\* challenge, with restarts and failing calls.
SPECIFICATION ServeSpec
CONSTANTS
  p1 = p1
  p2 = p2
  p3 = p3
  c1 = c1
  db = db
  Request = {r1, r2}
  Payment = {p1, p2, p3}
  Challenge = {c1}
  challengeOf <- MCOneChallenge
  Accepted = {p1, p2}
  Fitting = {p1, p2, p3}
  pays <- MCPays
  PRICE <- MCPrice
  Process = {s1, s2}
  Store = {db}
  storeOf <- MCShared
  SetIfAbsent = TRUE
  Volatile = FALSE
  StoreFaults = TRUE
  ATTEMPTS = 3
  EPOCH = 2
  TTL = 6
  MaxNow = 7
SYMMETRY Symmetry
INVARIANT ServedOnce
INVARIANT ServedOnlyIfPaid
INVARIANT ChargedOnlyForResults
INVARIANT ChargedStaysServable
CHECK_DEADLOCK FALSE
