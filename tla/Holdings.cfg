SPECIFICATION Spec
CONSTANTS
  r1 = r1
  r2 = r2
  r3 = r3
  eth = eth
  usdc = usdc
  base = base
  mainnet = mainnet
  vault = vault
  Request = {r1, r2, r3}
  Coin = {eth, usdc}
  Chain = {base, mainnet}
  Wallet = {vault}
  SampleCoin = {eth, usdc}
  MaxHoldings = 3
SYMMETRY Symmetry
CHECK_DEADLOCK FALSE
INVARIANTS
  RoomIsHonest
  WindowCatchesUp
PROPERTY ImportsAreWhole
