SPECIFICATION CadenceSpec
CONSTANTS
  Unset = Unset
  User = {u1, u2}
  Coin = {1, 2, 3, 4}
  Value = {0, 1, 4}
  Portfolios <- MCPortfolios
  Pegged = {1}
  Wrappers = {4}
  Desired <- MCDesired
  Multipliers = {2, 3, 4, 8}
  IdsPerCredit = 2
  Reserve = 25
  TopShare = 80
  ReplanEvery = 12
  RwaEvery = 4
  RwaCost = 1
  RwaStale = 9
  LowEvery = 8
  LowsPerRun = 1
  LowTtl = 16
  LowCost <- MCLowCost
  MinQuoteAge = 1
  Month = 32
  Limits = {14, 40, 80}
  MaxChanges = 1
SYMMETRY Symmetry
CHECK_DEADLOCK FALSE
INVARIANTS
  QuotesAreUsable
  CreditsAreEnough
PROPERTY TopCoversPortfolio
