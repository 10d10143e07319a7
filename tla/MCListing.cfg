\* One seller's commands one after another: does a category that was asked for
\* reach the listing?
SPECIFICATION CatalogSpec
CONSTANTS
  basic = basic
  standard = standard
  premium = premium
  cheap = cheap
  dear = dear
  short = short
  long = long
  home = home
  field = field
  api = api
  cmd1 = cmd1
  cmd2 = cmd2
  Omitted = Omitted
  Command = {cmd1, cmd2}
  Slug = {basic, standard, premium}
  Offer = {cheap, dear}
  Listable = {cheap, dear}
  Terms = {short, long}
  DefaultTerms = short
  AGENT_CATEGORIES = {home, field}
  Endpoint = {api}
  Tiers <- MCTiers
  Request <- MCRequest
  InitialListings <- MCListings
  InitialStanding <- MCStanding
SYMMETRY CommandSymmetry
INVARIANT CategoryTakesEffect
CHECK_DEADLOCK FALSE
