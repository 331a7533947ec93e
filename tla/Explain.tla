-------------------------------- MODULE Explain --------------------------------
(***************************************************************************)
(* What the user is told when an alert is opened: the explanation          *)
(* (apps/api/src/services/evaluator.ts, explainAlert; packages/alerts/src/ *)
(* explain.ts) and the swaps that are suggested (routes/alerts.ts,         *)
(* packages/alerts/src/actions.ts).                                        *)
(*                                                                         *)
(* Texts are left out but for what they speak of.  The alert's row does    *)
(* not change; quotes are read first, and time passes until CoinMarketCap  *)
(* has answered.                                                           *)
(***************************************************************************)
EXTENDS History, FiniteSets, SequencesExt

CONSTANTS
  Cases,      \* what may be opened: [alert, quote, pts, wants]
  Coin, Chain,
  Stable,     \* PEGGED_IDS
  Order,      \* STABLE_ORDER, a sequence of them
  Native,     \* NATIVE_CMC_ID: the coin that every chain has
  Platforms,  \* Coin -> the platforms that CoinMarketCap names a contract on
  ChainOn,    \* CHAIN_BY_PLATFORM_NAME, a function on some of them
  MaxAge,     \* maxQuoteAgeMs
  MinPoints,  \* how many points it takes to speak of the past
  MaxSwapped, \* MAX_SUGGESTIONS
  MaxClock,   \* bound on the clock
  MaxDeeper   \* bound on how much deeper a fall might have been

OfDrops == {"price_drop_1h", "price_drop_24h"}

OfCoins ==
  OfDrops \cup {"depeg", "below_cost_basis", "near_low", "volume_spike", "stable_volume_anomaly",
                "volume_dry_up", "rwa_drift"}

Alert ==
  [kind : OfCoins \cup {"category_rotation", "portfolio_drop"}, coin : Coin, simulated : BOOLEAN,
   change : Int, change24h : Int \cup {None}, market : Int \cup {None}, group : Int \cup {None},
   scope : {"window", "all_time"}, groups : {None} \cup SUBSET Coin]

Holding == [coin : Coin, chain : Chain \cup {None}, worth : Nat]

Quote == [age : Nat \cup {None}, price : {"on", "off"}]

Daily == [day : Nat, price : Nat \cup {None}]

Case ==
  [wants : {"explanation", "swaps"}, alert : Alert, quote : Nat \cup {None}, pts : Seq(Daily),
   held : SUBSET Holding, quotes : [Coin -> Quote], level : Nat]

\* The fall that is looked for, in tenths of a percent: 70 % of the alert's, 5 % at least.
Like(change) == IF -change * 7 > 50 THEN -change * 7 ELSE 50

\* parseHistorical: a day without a price in dollars is left out.
ParseHistorical(quotes) == SelectSeq(quotes, LAMBDA q : q.price # None)

\* sortedPoints: and so is one with a price of nothing.
Usable(quotes) == SelectSeq(ParseHistorical(quotes), LAMBDA p : p.price > 0)

\* The loops are given what is left of the history of a case, which are points.
ASSUME ExplainAssumption ==
  /\ Cases \subseteq Case /\ \A k \in Cases : IsFiniteSet(k.held)
  /\ \A k \in Cases : Usable(k.pts) \in Seq(Point)
  /\ Order \in Seq(Coin) /\ ToSet(Order) = Stable /\ Native \in Coin
  /\ Platforms \in [Coin -> SUBSET STRING]
  /\ ChainOn \in [DOMAIN ChainOn -> Chain] /\ IsFiniteSet(Chain)
  /\ {MaxAge, MaxClock, MinPoints, MaxDeeper} \subseteq Nat /\ MaxSwapped \in Nat \ {0}
  /\ None \notin Int \cup Chain

VARIABLES
  clock,
  case,   \* what was opened
  at,     \* "opened", "asking", "walking", "composing", "told"
  past,   \* what is known of the past: "unasked", a loop that has walked, or "unavailable"
  reply

vars == <<clock, case, at, past, reply, history>>

alert == case.alert

-----------------------------------------------------------------------------
(* Asking for the past *)

InitExplain ==
  /\ Rest
  /\ clock = 0
  /\ case \in Cases
  /\ at = "opened"
  /\ past = "unasked"
  /\ reply = None

\* metaFor and quotesFor have answered; history is asked for when it bears on the alert.
Open ==
  /\ at = "opened" /\ case.wants = "explanation"
  /\ at' = IF alert.kind \in OfDrops \cup {"depeg"} THEN "asking" ELSE "composing"
  /\ UNCHANGED <<clock, case, past, reply, history>>

\* getHistorical answers; too few points are as good as none.
HistoryCame ==
  /\ at = "asking"
  /\ LET usable == Usable(case.pts) IN
     IF Len(usable) < MinPoints
     THEN at' = "composing" /\ past' = "unavailable" /\ UNCHANGED history
     ELSE /\ at' = "walking" /\ past' = past
          /\ Begin(usable, Like(alert.change), IF alert.kind = "depeg" THEN "peg" ELSE "drops")
  /\ UNCHANGED <<clock, case, reply>>

\* The plan does not include it, the rate is limited, the answer has another shape, or
\* anything else.
HistoryFailed ==
  /\ at = "asking"
  /\ at' = "composing" /\ past' = "unavailable"
  /\ UNCHANGED <<clock, case, reply, history>>

Walk == at = "walking" /\ (DropTurn \/ PegTurn) /\ UNCHANGED <<clock, case, at, past, reply>>

WalkEnds ==
  /\ at = "walking" /\ Walked
  /\ at' = "composing" /\ past' = loop
  /\ UNCHANGED <<clock, case, reply, history>>

Tick ==
  /\ at \in {"opened", "asking"} /\ clock < MaxClock
  /\ clock' = clock + 1
  /\ UNCHANGED <<case, at, past, reply, history>>

-----------------------------------------------------------------------------
(* The explanation *)

\* Slip: freshness is judged when the quote is read.
FreshWhenRead(q) == q # None /\ q <= MaxAge

\* freshOrNull: case.quote is the age of the quote when it was read.
Fresh(q) == q # None /\ q + clock <= MaxAge

\* sinceAlert, when it has a price to speak of: never one beside a simulated alert.
Since == ~alert.simulated /\ Fresh(case.quote)

Given(known, what) == IF known THEN {what} ELSE {}

\* Slip: the market is compared with the coin the wrong way round.
BlameSwapped(a) ==
  IF a.kind = "price_drop_1h" /\ (a.change24h = None \/ a.change24h > -3) THEN "fast"
  ELSE IF a.change24h # None /\ a.market # None /\ a.market <= -3 /\ a.market - a.change24h > -6 THEN "everyone"
  ELSE IF a.change24h # None /\ a.group # None /\ a.group <= -3 /\ a.change24h - a.group > -6 THEN "group"
  ELSE IF a.change24h # None /\ a.market # None /\ a.change24h - a.market <= -8 THEN "coin"
  ELSE IF a.market = None THEN "unknown"
  ELSE IF a.market >= 0 THEN "coin" ELSE "partly"

\* wherePriceDropCame
Blame(a) ==
  IF a.kind = "price_drop_1h" /\ (a.change24h = None \/ a.change24h > -3) THEN "fast"
  ELSE IF a.change24h # None /\ a.market # None /\ a.market <= -3 /\ a.change24h - a.market > -6 THEN "everyone"
  ELSE IF a.change24h # None /\ a.group # None /\ a.group <= -3 /\ a.change24h - a.group > -6 THEN "group"
  ELSE IF a.change24h # None /\ a.market # None /\ a.change24h - a.market <= -8 THEN "coin"
  ELSE IF a.market = None THEN "unknown"
  ELSE IF a.market >= 0 THEN "coin" ELSE "partly"

\* What each kind of alert is explained with, of what needs data, and what is said to be
\* missing.  The rest of an explanation is always told.
DropHistory == [sections |-> Given(past = "drops", "past"), gaps |-> Given(past = "unavailable", "past")]

PriceDrop == [DropHistory EXCEPT !.sections = @ \cup Given(Since, "since")]

Depeg ==
  [sections |-> Given(past = "peg", "past") \cup Given(Since, "since"), gaps |-> Given(past = "unavailable", "past")]

CostBasis == [sections |-> Given(Since, "since"), gaps |-> {}]

NearLow == [sections |-> Given(Since, "since"), gaps |-> Given(alert.scope = "window", "all-time low")]

Volume == [sections |-> {}, gaps |-> Given(alert.kind = "volume_dry_up", "order book")]

Category ==
  [sections |-> Given(alert.market # None, "market"), gaps |-> Given(alert.market = None, "market")]

\* A breakdown without groups is neither told nor missed.
Portfolio ==
  [sections |-> Given(alert.groups \notin {None, {}}, "breakdown") \cup Given(alert.market # None, "market"),
   gaps |-> Given(alert.groups = None, "breakdown")]

RwaDrift == [sections |-> {}, gaps |-> {}]

\* explain
Explained ==
  CASE alert.kind \in OfDrops -> PriceDrop
    [] alert.kind = "depeg" -> Depeg
    [] alert.kind = "below_cost_basis" -> CostBasis
    [] alert.kind = "near_low" -> NearLow
    [] alert.kind \in {"volume_spike", "stable_volume_anomaly", "volume_dry_up"} -> Volume
    [] alert.kind = "category_rotation" -> Category
    [] alert.kind = "portfolio_drop" -> Portfolio
    [] alert.kind = "rwa_drift" -> RwaDrift

Compose ==
  /\ at = "composing"
  /\ at' = "told"
  /\ LET told == Explained.sections IN
       reply' = [sections |-> told \cup Given(alert.simulated, "simulation"), gaps |-> Explained.gaps,
                 blame |-> IF alert.kind \in OfDrops THEN Blame(alert) ELSE None,
                 priceAge |-> IF "since" \in told THEN case.quote + clock ELSE None]
  /\ UNCHANGED <<clock, case, past, history>>

-----------------------------------------------------------------------------
(* The swaps.  A holding is [coin, chain, worth], its chain None when it was entered   *)
(* by hand; case.quotes has the age of each quote and how it stands to the peg.         *)

\* parseInfo: the chains of a coin's contracts; platforms that are not supported are left out.
Homes(c) == {ChainOn[p] : p \in Platforms[c] \cap DOMAIN ChainOn}

OnPeg(s) ==
  LET q == case.quotes[s] IN q.age # None /\ q.age + clock <= MaxAge /\ q.price # "off"

\* Slip: a stablecoin is on its peg when it was.
PickTargetOnceOnPeg(chain, from) ==
  {s \in ToSet(Order) \ {from} : case.quotes[s].price # "off" /\ chain \in Homes(s)}

\* pickTarget: the stablecoins on the chain that are fresh and on their peg, the coin
\* itself excluded; the first of them is taken.
PickTarget(chain, from) ==
  {s \in ToSet(Order) \ {from} : OnPeg(s) /\ chain \in Homes(s)}

FirstOf(targets) == Order[CHOOSE n \in DOMAIN Order : Order[n] \in targets /\ \A m \in 1..(n - 1) : Order[m] \notin targets]

\* chainsFor
ChainsFor(h) ==
  IF h.chain # None THEN {h.chain} ELSE IF h.coin = Native THEN Chain ELSE Homes(h.coin)

\* The MaxSwapped largest of hs.
Largest(hs) == {h \in hs : Cardinality({g \in hs : g.worth > h.worth}) < MaxSwapped}

\* selectActionHoldings
Selected ==
  LET others == {h \in case.held : h.coin \notin Stable}
      named == {h \in others : h.coin \in alert.groups}
  IN
  CASE alert.kind \in OfCoins -> {h \in case.held : h.coin = alert.coin}
    [] alert.kind = "category_rotation" -> Largest(named)
    [] OTHER -> Largest(IF alert.groups \in {None, {}} THEN others ELSE named)

Smaller(m, n) == IF m < n THEN m ELSE n

\* buildActions: a swap for every chain a holding may be on, into the first stablecoin that
\* will do there.  A reason is given when there is no swap at all.
Suggest ==
  /\ at = "opened" /\ case.wants = "swaps"
  /\ at' = "told"
  /\ LET exits == {e \in Selected \X Chain :
                    case.level >= 2 /\ e[2] \in ChainsFor(e[1]) /\ PickTarget(e[2], e[1].coin) # {}}
     IN \E kept \in SUBSET exits :
          /\ Cardinality(kept) = Smaller(Cardinality(exits), 3 * MaxSwapped)
          /\ reply' = [swaps |-> {[from |-> e[1], chain |-> e[2], to |-> FirstOf(PickTarget(e[2], e[1].coin))] : e \in kept},
                       reason |-> kept = {}]
  /\ UNCHANGED <<clock, case, past, history>>

-----------------------------------------------------------------------------
ExplainNext ==
  \/ Open
  \/ HistoryCame
  \/ HistoryFailed
  \/ Walk
  \/ WalkEnds
  \/ Tick
  \/ Compose
  \/ Suggest

ExplainSpec == InitExplain /\ [][ExplainNext]_vars

-----------------------------------------------------------------------------
(* Correctness *)

Told(what) == at = "told" /\ case.wants = what

\* What was in hand when the alert was opened may be missing or old by the time it is told,
\* and nothing is made up for it: a fall is either compared with the past or the user reads
\* that it could not be; "right now" is never a price older than two refreshes
\* (evaluator.ts:142-161); and no real price is held against a simulated one (:166).
NothingIsMadeUp ==
  Told("explanation") =>
    /\ alert.kind \in OfDrops \cup {"depeg"} => ("past" \in reply.sections) # ("past" \in reply.gaps)
    /\ "since" \in reply.sections => ~alert.simulated /\ reply.priceAge \in 0..MaxAge
    /\ "simulation" \in reply.sections <=> alert.simulated

\* From the whole market to the coin alone.
BlameRank == [fast |-> 1, everyone |-> 2, group |-> 3, partly |-> 4, coin |-> 5, unknown |-> 6]

\* The coin has fallen far more than what it is compared with.
FarBelow(a) ==
  a.change24h <= -3 /\ \A other \in {a.market, a.group} \ {None} : a.change24h - other <= -8

\* The reading "is it just this coin, or everyone?" is decided by a chain of thresholds on
\* differences (explain.ts:82-118): had the coin fallen more, with all else equal, the blame
\* would not move from the coin towards its group, or to the whole market; and had it fallen
\* far more than anything it is compared with, the blame would be on no one else.
BlameFollowsDepth ==
  Told("explanation") /\ alert.kind \in OfDrops /\ alert.change24h # None =>
    \A deeper \in 0..MaxDeeper :
      LET had == [alert EXCEPT !.change24h = @ - deeper] IN
      /\ BlameRank[Blame(had)] >= BlameRank[reply.blame]
      /\ FarBelow(had) => Blame(had) \in {"coin", "unknown"}

SafeTarget(t, h, c) ==
  /\ t \in Stable \ {h.coin} /\ c \in Homes(t)
  /\ case.quotes[t].age \in 0..(MaxAge - clock) /\ case.quotes[t].price = "on"

\* Money is only pointed to a stablecoin that is fresh and on its peg as the user reads it,
\* on the chain the coin is on, and never to the coin that slipped; stablecoins are left alone
\* unless the alert is about them; and a coin that could leave does not stay because the
\* first stablecoin of the list will not do (actions.ts:61-91, 108-140).
SwapsAreSafe ==
  Told("swaps") =>
    /\ reply.reason <=> reply.swaps = {}
    /\ \A w \in reply.swaps :
         /\ case.level >= 2 /\ w.from \in case.held
         /\ w.from.chain \in {None, w.chain} /\ SafeTarget(w.to, w.from, w.chain)
         /\ alert.kind \notin OfCoins => w.from.coin \notin Stable
    /\ reply.reason /\ case.level >= 2 /\ alert.kind \in OfCoins =>
         \A h \in case.held, c \in Chain :
           h.coin = alert.coin /\ (IF h.chain = None THEN h.coin = Native \/ c \in Homes(h.coin) ELSE c = h.chain) =>
             \A t \in Stable : ~SafeTarget(t, h, c)
=============================================================================
