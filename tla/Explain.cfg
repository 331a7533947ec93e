SPECIFICATION ExplainSpec
CONSTANTS
  None = None
  coin = coin
  eth = eth
  usdc = usdc
  usdt = usdt
  base = base
  ethereum = ethereum
  Coin <- MCCoin
  Chain <- MCChain
  Stable <- MCStable
  Order <- MCOrder
  Native = eth
  Platforms <- MCPlatforms
  ChainOn <- MCChainOn
  Histories <- MCHistories
  Falls <- MCFalls
  Cases <- MCCases
  Floor = 8
  Recent = 1
  Merge = 2
  MaxAge = 1
  MinPoints = 3
  MaxSwapped = 1
  MaxClock = 2
  MaxDeeper = 30
INVARIANTS
  HistoryIsRight
  NothingIsMadeUp
  BlameFollowsDepth
  SwapsAreSafe
CHECK_DEADLOCK FALSE
