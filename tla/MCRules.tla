------------------------------- MODULE MCRules -------------------------------
(* Two coins of one theme, one of them a token of a real-world asset, and a    *)
(* stablecoin.  20 units make 100 %, so that one is 5 %; prices in half cents. *)
EXTENDS Rules

CONSTANTS eth, gold, usdc, alts, chains

Tag(group, platform) == [names |-> group, platform |-> platform]

MCTags ==
  [c \in Coin |->
     IF c = eth THEN <<Tag(chains, FALSE), Tag(alts, FALSE)>>
     ELSE IF c = gold THEN <<Tag(alts, TRUE), Tag(alts, FALSE)>> ELSE <<Tag(chains, FALSE)>>]

MCPrefs ==
  [drop1h |-> 1, drop24h |-> 2, depegFloor |-> 196, stableVolume |-> 10,
   volumeSpike |-> 5, volumeDryUp |-> 14, portfolioDrop |-> 2, nearLowWithin |-> 2,
   categoryDrop |-> 2, rwaDrift |-> 1]

Quote(price, change1h, change24h, volume) ==
  [price |-> price, change1h |-> change1h, change24h |-> change24h, volume |-> volume,
   liquid |-> TRUE, fresh |-> TRUE]

\* eth falls in small and in large steps, in an hour, in a day, or wholly; gold
\* drifts from its asset; usdc loses its peg or trades oddly.
MCFeed ==
  [c \in Coin |->
     IF c = eth THEN
       {Quote(40, 0, -2, 80), Quote(36, 0, -4, 0), Quote(32, -1, -4, -14),
        Quote(32, -2, -2, None), Quote(20, None, -20, 0),
        [Quote(36, -1, None, 80) EXCEPT !.liquid = FALSE]}
     ELSE IF c = gold THEN
       {Quote(40, 0, 0, 0), Quote(32, 0, -4, -15), Quote(46, 1, None, 85)}
     ELSE {Quote(200, 0, 0, 200), Quote(194, 0, 0, 200), Quote(None, None, None, None)}]

MCHolding ==
  {[coin |-> eth, amount |-> 2, basis |-> None], [coin |-> eth, amount |-> 1, basis |-> 34],
   [coin |-> gold, amount |-> 2, basis |-> 38], [coin |-> usdc, amount |-> 1, basis |-> None]}

Low(allTime, year) == [allTime |-> allTime, year |-> year]

Group(name, average) == [name |-> name, average |-> average]

Asset(named, average, wrappers) == [named |-> named, average |-> average, wrappers |-> wrappers]

\* A market that fell some hours ago, and one that stands still.  CoinMarketCap may
\* list a group twice, a row without a name and an asset without one.
MCMarket ==
  {[global |-> -2, old |-> {"global", "categories"},
    categories |-> <<Group(chains, -5), Group(alts, -4)>>,
    low |-> [c \in Coin |-> IF c = gold THEN Low(20, {38}) ELSE Low(None, {})],
    assets |-> <<Asset(TRUE, 0, <<gold>>)>>],
   [global |-> -1, old |-> {},
    categories |-> <<Group(None, -9), Group(alts, -3), Group(alts, 0)>>,
    low |-> [c \in Coin |-> IF c = eth THEN Low(None, {33, 40}) ELSE Low(None, {})],
    assets |-> <<Asset(TRUE, 38, <<None, gold>>), Asset(FALSE, 90, <<eth, gold>>)>>]}
=============================================================================
