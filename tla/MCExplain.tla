------------------------------ MODULE MCExplain ------------------------------
(***************************************************************************)
(* Explain over every history of up to six days with four prices, every    *)
(* mix of the moves that the blame turns on, and a few portfolios with two *)
(* stablecoins, a coin and ether on two chains.                            *)
(***************************************************************************)
EXTENDS Explain

CONSTANTS coin, eth, usdc, usdt, base, ethereum

MCCoin == {coin, eth, usdc, usdt}
MCChain == {base, ethereum}
MCStable == {usdc, usdt}
MCOrder == <<usdt, usdc>>
MCPlatforms ==
  (coin :> {"Base", "Ethereum", "Solana"}) @@ (eth :> {}) @@ (usdc :> {"Base", "Ethereum"})
    @@ (usdt :> {"Ethereum", "Solana"})
MCChainOn == ("Base" :> base) @@ ("Ethereum" :> ethereum)

Prices == {0, 7, 9, 10}
DaysOf(n, prices) == {[k \in 1..n |-> [day |-> k, price |-> p[k]]] : p \in [1..n -> prices]}
Days(n) == DaysOf(n, Prices)

\* The histories as they are read: days without a price have been left out.
MCHistories == {SelectSeq(s, LAMBDA p : p.price > 0) : s \in Days(4) \cup Days(6)}
MCFalls == {50, 70}

NoQuotes == [c \in MCCoin |-> [age |-> None, price |-> "on"]]

AlertOf(kind) ==
  [kind |-> kind, coin |-> IF kind = "depeg" THEN usdc ELSE coin, simulated |-> FALSE, change |-> -10,
   change24h |-> -10, market |-> None, group |-> None, scope |-> "window", groups |-> None]

Opened(a) ==
  [wants |-> "explanation", alert |-> a, quote |-> 0, pts |-> <<>>, held |-> {}, quotes |-> NoQuotes, level |-> 1]

Pasts ==
  {[Opened(AlertOf(kind)) EXCEPT !.pts = s] : kind \in {"price_drop_24h", "depeg"}, s \in DaysOf(4, Prices \cup {None}) \cup Days(6)}

Moves == {[Opened([AlertOf(kind) EXCEPT !.change24h = c, !.market = m, !.group = g]) EXCEPT !.quote = None] :
            kind \in OfDrops, c \in {None} \cup -14..-1, m \in {None, -6, -3, -2, 0}, g \in {None, -7, -3, 1}}

Kinds ==
  {[Opened([AlertOf(kind) EXCEPT !.simulated = s, !.scope = p, !.groups = g, !.market = m]) EXCEPT !.quote = q] :
     kind \in OfCoins \cup {"category_rotation", "portfolio_drop"}, s \in BOOLEAN, p \in {"window", "all_time"},
     g \in {None, {}, {coin}}, m \in {None, -1}, q \in {None, 0, 1, 2}}

Held(c, where) == {[coin |-> c, chain |-> ch, worth |-> w] : ch \in where, w \in {1, 2}}

Portfolios == {p \in SUBSET (Held(coin, {None, base, ethereum}) \cup Held(usdc, {ethereum})) : Cardinality(p) <= 3}

Standing ==
  {[age |-> 0, price |-> "on"], [age |-> 1, price |-> "on"], [age |-> 0, price |-> "off"], [age |-> None, price |-> "on"]}

Swaps ==
  {[Opened(AlertOf(kind)) EXCEPT !.wants = "swaps", !.alert.groups = g, !.level = IF h = {} THEN 1 ELSE 2,
      !.held = IF h = {} THEN Held(coin, {None}) ELSE h,
      !.quotes = (usdc :> a) @@ (usdt :> b) @@ (coin :> a) @@ (eth :> a)] :
     kind \in {"price_drop_24h", "depeg", "portfolio_drop"}, g \in {None, {coin}},
     h \in Portfolios, a \in Standing, b \in Standing}

\* Ether may be on any chain; the stablecoin of one of them may be off its peg.
Ethers ==
  {[Opened([AlertOf("price_drop_24h") EXCEPT !.coin = eth]) EXCEPT !.wants = "swaps", !.level = 2, !.held = Held(eth, {where}),
      !.quotes = (usdc :> a) @@ (usdt :> b) @@ (coin :> a) @@ (eth :> a)] :
     where \in {None, base}, a \in Standing, b \in Standing}

MCCases == Ethers \cup Pasts \cup Moves \cup Kinds \cup Swaps
=============================================================================
