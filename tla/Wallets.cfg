SPECIFICATION WalletsSpec
CONSTANTS
  first = first
  second = second
  ethereum = ethereum
  base = base
  Caller = {first, second}
  arbitrum = arbitrum
  CHAINS = {ethereum, base, arbitrum}
  Token = {"spent", "coin", "spam", "old", "small"}
  Asks <- MCAsks
  Providers <- MCProviders
  Native = {ethereum}
  Transfers <- MCTransfers
  Rows <- MCRows
  Held = {"coin", "spam", "old", "small"}
  Worth <- MCWorth
  Named = {"coin", "small", "old"}
  Listed = {"coin", "small", "old"}
  MinInterval = 2
  TxPage = 2
  MaxTxPages = 2
  MaxTokens = 3
  RowPage = 2
  MaxPages = 2
  MinWorth = 1
  MaxPriced = 1
  MaxUnpriced = 3
CHECK_DEADLOCK FALSE
INVARIANTS
  OneProviderTellsAll
  SpamHidesNothing
PROPERTIES
  CallsAreSpaced
  EveryRequestEnds
