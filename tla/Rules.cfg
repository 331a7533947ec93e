SPECIFICATION RulesSpec
CONSTANTS
  eth = eth
  gold = gold
  usdc = usdc
  alts = alts
  chains = chains
  None = None
  Coin = {eth, gold, usdc}
  Category = {alts, chains}
  Pegged = {usdc}
  Tags <- MCTags
  Thematic = {alts}
  Feed <- MCFeed
  Market <- MCMarket
  Holding <- MCHolding
  MaxRows = 3
  Prefs <- MCPrefs
  Whole = 20
  Dollar = 200
INVARIANTS
  OneVoicePerCoin
  StaleIsSilent
  DeeperIsLouder
  PortfolioDropHasACause
