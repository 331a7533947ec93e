-------------------------------- MODULE Rules --------------------------------
(***************************************************************************)
(* The alert rules: which candidates one evaluation hands to the gate      *)
(* (packages/alerts/src/rules.ts, portfolio.ts and evaluate in engine.ts). *)
(* A percentage is an integer, Whole of which make 100 %; a price is an    *)
(* integer, Dollar of which make a dollar.  Texts, facts and scores are    *)
(* left out.                                                               *)
(***************************************************************************)
EXTENDS Integers, FiniteSets, SequencesExt

CONSTANTS
  Coin, Category,
  Pegged,      \* PEGGED_IDS: coins that are meant to be worth a dollar
  Tags,        \* Coin -> its tags in order: the group each names, and whether it is of a platform
  Thematic,    \* isThematicCategory: the groups that say what a coin is about
  Feed,        \* Coin -> the quotes that CoinMarketCap may give for it
  Market,      \* what it may say of global metrics, categories, lows and assets
  Holding,     \* the rows that a user may add
  MaxRows,
  Prefs,       \* users.preferences
  Whole, Dollar,
  None         \* null

Kind ==
  {"price_drop_1h", "price_drop_24h", "below_cost_basis", "near_low", "depeg",
   "stable_volume_anomaly", "volume_spike", "volume_dry_up",
   "category_rotation", "portfolio_drop", "rwa_drift"}

ASSUME RulesAssumption ==
  /\ Pegged \subseteq Coin
  /\ None \notin Int
  /\ Tags \in [Coin -> Seq([names : Category, platform : BOOLEAN])] /\ Thematic \subseteq Category
  /\ Whole \in Nat \ {0} /\ Dollar \in Nat \ {0}
  /\ IsFiniteSet(Coin) /\ IsFiniteSet(Category)
  /\ Coin \cap Category = {} /\ None \notin Coin \cup Category
  /\ Holding \subseteq [coin : Coin, amount : Nat \ {0}, basis : Nat \cup {None}]
  /\ Feed \in [Coin -> SUBSET [price : Nat \cup {None}, change1h : Int \cup {None},
                               change24h : Int \cup {None}, volume : Int \cup {None},
                               liquid : BOOLEAN, fresh : BOOLEAN]]
  /\ \A c \in Coin : None \notin Feed[c]
  /\ {Prefs.drop1h, Prefs.drop24h, Prefs.portfolioDrop} \subseteq Nat \ {0}

VARIABLES
  rows,     \* the user's holdings, in the order in which they were added
  quotes,   \* Coin -> its latest quote, or None
  market

rulesVars == <<rows, quotes, market>>

-----------------------------------------------------------------------------
(* What the rules may look at *)

\* Slip: whether the quote is fresh is not asked.
AnyPrice(Q, c) == Q[c] # None /\ Q[c].price # None

\* freshQuotes: the quote is there, has a price and is not stale.
Usable(Q, c) == Q[c] # None /\ Q[c].price # None /\ Q[c].fresh

\* Slip: the row's own value, looked up among all quotes.
ValueAtLast(r, Q) == IF AnyPrice(Q, r.coin) THEN Q[r.coin].price * r.amount ELSE 0

\* valueUsd of a row; 0 stands for null as well, which every sum takes alike.
Value(r, Q) == IF Usable(Q, r.coin) THEN Q[r.coin].price * r.amount ELSE 0

Worth(R, Q, coins) ==
  SumFunctionOnSet([i \in DOMAIN R |-> Value(R[i], Q)], {i \in DOMAIN R : R[i].coin \in coins})

\* valueShare: a coin is at least so much of the portfolio.
ShareAtLeast(R, Q, c, percent) ==
  LET total == Worth(R, Q, Coin) IN
  total > 0 /\ 100 * Worth(R, Q, {c}) >= percent * total

\* Slip: one entry per row.
HeldRowByRow(R, Q) ==
  LET held == SelectSeq(R, LAMBDA r : Usable(Q, r.coin)) IN
  [i \in DOMAIN held |-> held[i].coin]

\* What a Map or a Set of ids makes of some of the rows: each coin once, at its first row.
CoinsOf(R, some) ==
  FlattenSeq([i \in DOMAIN R |->
                IF i \in some /\ ~\E j \in some : j < i /\ R[j].coin = R[i].coin
                  THEN <<R[i].coin>> ELSE <<>>])

\* heldRows: one entry per coin, however many rows hold it.
Held(R, Q) == CoinsOf(R, {i \in DOMAIN R : Usable(Q, R[i].coin)})

\* parseCategories, and byKey of categoryFor: rows without a name are left out, and the
\* first of a name counts.
ParseCategories(list) ==
  LET named == SelectSeq(list, LAMBDA row : row.name # None) IN
  [k \in {row.name : row \in ToSet(named)} |->
     named[SelectInSeq(named, LAMBDA row : row.name = k)].average]

\* parseRwaQuotes: assets without a name and tokens without an id are left out.
ParseRwaQuotes(list) ==
  LET named == SelectSeq(list, LAMBDA asset : asset.named) IN
  [i \in DOMAIN named |->
     [named[i] EXCEPT !.wrappers = SelectSeq(@, LAMBDA c : c # None)]]

\* rwaByWrapperId: the price of the asset that each coin stands for, the last that lists it.
RwaByWrapperId(assets) ==
  [c \in Coin |->
     LET of == SelectSeq(assets, LAMBDA asset : Contains(asset.wrappers, c)) IN
     IF of = <<>> THEN None ELSE Last(of).average]

\* categoryFor: the first tag that names a thematic group, if CoinMarketCap lists that
\* group, and is not of a platform.
CategoryOf(c, M) ==
  LET telling == SelectSeq(Tags[c], LAMBDA tag :
                   ~tag.platform /\ tag.names \in Thematic \cap DOMAIN M.change)
  IN IF telling = <<>> THEN None ELSE Head(telling).names

\* getPriceLow: the all-time low, or else the lowest of the year's prices, if there are any.
PriceLow(seen) ==
  IF seen.allTime # None THEN seen.allTime ELSE IF seen.year = {} THEN None ELSE Min(seen.year)

\* evaluate: market context that is too old is not there.
InContext(M) ==
  [M EXCEPT !.global = IF "global" \in M.old THEN None ELSE @,
            !.change = IF "categories" \in M.old THEN <<>> ELSE @,
            !.anchor = IF "assets" \in M.old THEN [c \in Coin |-> None] ELSE @]

Magnitude(x) == IF x < 0 THEN -x ELSE x

-----------------------------------------------------------------------------
(* The rules.  Each yields the candidates for one coin: none or one. *)

Raise(condition, kind, severity, subject, name) ==
  IF condition
    THEN <<[kind |-> kind, severity |-> severity, about |-> subject,
            dedupeKey |-> <<name, subject>>]>>
    ELSE <<>>

Each(subjects, Rule(_)) == FlattenSeq([i \in DOMAIN subjects |-> Rule(subjects[i])])

Falls(change, threshold) == change # None /\ change <= -threshold

\* Slip: the hour has precedence whenever it is down enough.
DropFirstHour(Q, c) ==
  LET hour == Falls(Q[c].change1h, Prefs.drop1h)
      change == IF hour THEN Q[c].change1h ELSE Q[c].change24h
      threshold == IF hour THEN Prefs.drop1h ELSE Prefs.drop24h
  IN Raise(c \notin Pegged /\ (hour \/ Falls(Q[c].change24h, Prefs.drop24h)),
           IF hour THEN "price_drop_1h" ELSE "price_drop_24h",
           IF -change >= 2 * threshold THEN "critical" ELSE "warning", c, "price_drop")

\* priceDropRules: the hour or the day, whichever is further past its threshold.
PriceDrop(Q, c) ==
  LET q == Q[c]
      hour == Falls(q.change1h, Prefs.drop1h)
      day == Falls(q.change24h, Prefs.drop24h)
      useHour == hour /\ (day => q.change1h * Prefs.drop24h <= q.change24h * Prefs.drop1h)
      change == IF useHour THEN q.change1h ELSE q.change24h
      threshold == IF useHour THEN Prefs.drop1h ELSE Prefs.drop24h
  IN Raise(c \notin Pegged /\ (hour \/ day),
           IF useHour THEN "price_drop_1h" ELSE "price_drop_24h",
           IF -change >= 2 * threshold THEN "critical" ELSE "warning", c, "price_drop")

\* costBasisRules: the price was not below what was paid a day ago, and is now.
Crossed(Q, r) ==
  LET q == Q[r.coin] IN
  /\ Usable(Q, r.coin)
  /\ r.basis # None /\ q.change24h # None
  /\ q.change24h > -Whole
  /\ q.price * Whole >= r.basis * (Whole + q.change24h)
  /\ q.price < r.basis

CostBasis(R, Q) ==
  Each(CoinsOf(R, {i \in DOMAIN R : Crossed(Q, R[i])}),
       LAMBDA c : Raise(TRUE, "below_cost_basis", "warning", c, "below_cost_basis"))

NearLow(Q, M, c) ==
  LET low == PriceLow(M.low[c]) price == Q[c].price IN
  Raise(/\ low # None /\ c \notin Pegged
        /\ Whole * (price - low) <= Prefs.nearLowWithin * low,
        "near_low", IF price <= low THEN "warning" ELSE "info", c, "near_low")

Depeg(Q, c) ==
  Raise(c \in Pegged /\ Q[c].price < Prefs.depegFloor, "depeg", "critical", c, "depeg")

\* volumeRules: far more trading than the day before.
Spike(Q, c) ==
  LET q == Q[c]
      pegged == c \in Pegged
      multiple == IF pegged THEN Prefs.stableVolume ELSE Prefs.volumeSpike
      stressed == IF pegged THEN 1000 * q.price < 995 * Dollar
                            ELSE q.change24h # None /\ 100 * q.change24h <= -5 * Whole
      kind == IF pegged THEN "stable_volume_anomaly" ELSE "volume_spike"
  IN Raise(/\ q.volume # None
           /\ q.volume >= (multiple - 1) * Whole /\ q.liquid,
           kind, IF stressed THEN "warning" ELSE "info", c, kind)

\* volumeRules: far less trading while the price falls.
DryUp(R, Q, c) ==
  LET q == Q[c] IN
  Raise(/\ c \notin Pegged
        /\ Falls(q.volume, Prefs.volumeDryUp)
        /\ q.change24h # None /\ 100 * q.change24h <= -3 * Whole
        /\ ShareAtLeast(R, Q, c, 10),
        "volume_dry_up", "warning", c, "volume_dry_up")

\* rwaDriftRules: a gap too wide for the market is a mismatch of units.
RwaDrift(Q, M, c) ==
  LET anchor == M.anchor[c] gap == Magnitude(Q[c].price - anchor) IN
  Raise(/\ anchor # None
        /\ anchor > 0
        /\ Whole * gap >= Prefs.rwaDrift * anchor
        /\ 100 * gap <= 25 * anchor,
        "rwa_drift", IF Whole * gap >= 3 * Prefs.rwaDrift * anchor THEN "critical" ELSE "warning",
        c, "rwa_drift")

\* categoryRules: a group that falls more than the market, and is held.
CategoryRotation(R, Q, M, k) ==
  LET change == M.change[k]
      members == {c \in Coin \ Pegged : CategoryOf(c, M) = k}
      total == Worth(R, Q, Coin)
  IN Raise(/\ k \in DOMAIN M.change
           /\ Falls(change, Prefs.categoryDrop)
           /\ total > 0 /\ 10 * Worth(R, Q, members) >= total
           /\ M.global # None /\ 100 * (change - M.global) <= -5 * Whole,
           "category_rotation", "warning", k, "category_rotation")

-----------------------------------------------------------------------------
(* The portfolio as a whole *)

\* What portfolioChange24h can follow back a day.
Covered(Q, c) == Usable(Q, c) /\ Q[c].change24h # None /\ Q[c].change24h > -Whole

CoveredCoins(R, Q) == {c \in Coin : Covered(Q, c) /\ \E i \in DOMAIN R : R[i].coin = c}

\* Slip: what cannot be followed is taken to have been worth the same.
FollowedFromAll(R, Q) ==
  LET value(c) == Worth(R, Q, {c}) IN
  FoldSet(LAMBDA c, s :
            IF Covered(Q, c)
              THEN [now |-> s.now + value(c),
                    num |-> s.num * (Whole + Q[c].change24h) + value(c) * Whole * s.den,
                    den |-> s.den * (Whole + Q[c].change24h)]
              ELSE [s EXCEPT !.num = s.num + value(c) * s.den],
          [now |-> 0, num |-> 0, den |-> 1], Coin)

\* portfolioChange24h: the value now, and a day ago as a fraction num / den.  Rows
\* of one coin have moved alike and are added first.
Followed(R, Q) ==
  FoldFunction(LAMBDA coin, s :
                 [now |-> s.now + coin.value,
                  num |-> s.num * coin.then + coin.value * Whole * s.den,
                  den |-> s.den * coin.then],
               [now |-> 0, num |-> 0, den |-> 1],
               [c \in CoveredCoins(R, Q) |->
                  [value |-> Worth(R, Q, {c}), then |-> Whole + Q[c].change24h]])

FellBy(R, Q, percent) ==
  LET s == Followed(R, Q) IN
  s.num > 0 /\ Whole * s.now * s.den <= (Whole - percent) * s.num

\* attributeDrop, byCategory: the groups that lost something.
LosingGroups(R, Q, M) ==
  {CategoryOf(c, M) : c \in {d \in CoveredCoins(R, Q) : Worth(R, Q, {d}) > 0 /\ Q[d].change24h < 0}}

Incomplete(R, Q) == \E r \in ToSet(R) : ~Usable(Q, r.coin)

Diversified(R, Q) == \A c \in Coin : 100 * Worth(R, Q, {c}) < 85 * Worth(R, Q, Coin)

PortfolioDrop(R, Q) ==
  Raise(/\ ~Incomplete(R, Q)
        /\ 100 * Worth(R, Q, CoveredCoins(R, Q)) >= 80 * Worth(R, Q, Coin)
        /\ Diversified(R, Q)
        /\ FellBy(R, Q, Prefs.portfolioDrop),
        "portfolio_drop",
        IF FellBy(R, Q, 2 * Prefs.portfolioDrop) THEN "critical" ELSE "warning",
        None, "portfolio_drop")

\* evaluate, candidates.
CandidatesOf(R, Q, told) ==
  LET M == InContext(told) held == Held(R, Q) IN
  FlattenSeq(<<
    Each(held, LAMBDA c : RwaDrift(Q, M, c)),
    Each(held, LAMBDA c : PriceDrop(Q, c)),
    CostBasis(R, Q),
    Each(held, LAMBDA c : NearLow(Q, M, c)),
    Each(held, LAMBDA c : Depeg(Q, c)),
    Each(held, LAMBDA c : Spike(Q, c) \o DryUp(R, Q, c)),
    Each(SetToSeq(Category), LAMBDA k : CategoryRotation(R, Q, M, k)),
    PortfolioDrop(R, Q)>>)

-----------------------------------------------------------------------------
(* What changes between two evaluations *)

\* Each reply of CoinMarketCap, as it is stored and read.
Stored ==
  [reply \in Market |->
     [global |-> reply.global, low |-> reply.low, old |-> reply.old,
      change |-> ParseCategories(reply.categories),
      anchor |-> RwaByWrapperId(ParseRwaQuotes(reply.assets))]]

RulesInit ==
  /\ rows = <<>>
  /\ quotes = [c \in Coin |-> None]
  /\ market \in {Stored[reply] : reply \in Market}

\* refreshQuotes.  A quote may be stale when it arrives: its age is told by
\* CoinMarketCap's own last_updated.
RefreshQuotes(c, q) ==
  /\ quotes' = [quotes EXCEPT ![c] = q]
  /\ UNCHANGED <<rows, market>>

Age(c) ==
  /\ quotes[c] # None
  /\ quotes' = [quotes EXCEPT ![c].fresh = FALSE]
  /\ UNCHANGED <<rows, market>>

\* refreshGlobal, refreshCategories, refreshRwa, refreshLow; or what they stored gets old.
RefreshMarket(reply) ==
  /\ market' = Stored[reply]
  /\ UNCHANGED <<rows, quotes>>

AddHolding(h) ==
  /\ Len(rows) < MaxRows
  /\ rows' = Append(rows, h)
  /\ UNCHANGED <<quotes, market>>

DeleteHolding(i) ==
  /\ rows' = RemoveAt(rows, i)
  /\ UNCHANGED <<quotes, market>>

RulesNext ==
  \/ \E c \in Coin : Age(c) \/ \E q \in Feed[c] : RefreshQuotes(c, q)
  \/ \E reply \in Market : RefreshMarket(reply)
  \/ \E h \in Holding : AddHolding(h)
  \/ \E i \in DOMAIN rows : DeleteHolding(i)

RulesSpec == RulesInit /\ [][RulesNext]_rulesVars

-----------------------------------------------------------------------------
(* Correctness *)

Now == CandidatesOf(rows, quotes, market)

Verdicts(R, Q, M) == ToSet(CandidatesOf(R, Q, M))

\* Of one evaluation, no two candidates share a dedupe key, however many rows hold
\* a coin: the gate compares candidates with the past only, so that the second of
\* two would not meet the cooldown of the first (rules.ts:47-62, engine.ts:107-121).
OneCandidatePerKey ==
  LET now == Now IN
  \A i, j \in DOMAIN now : now[i].dedupeKey = now[j].dedupeKey => i = j

\* A stale quote produces no alert, on its own coin or through the weight it gives
\* to others: whatever a stale quote says, the candidates are the same
\* (docs/HONEST_LIMITS.md:42; engine.ts:79-92, rules.ts:395-399).  Nor does a group of
\* coins fall, or an asset drift, by figures of long ago (engine.ts:66-71).
StaleIsSilent ==
  LET now == Now IN
  /\ \A a \in ToSet(now) :
       /\ a.kind = "category_rotation" => market.old \cap {"global", "categories"} = {}
       /\ a.kind = "rwa_drift" => "assets" \notin market.old
  /\ \A c \in Coin : quotes[c] # None /\ ~quotes[c].fresh =>
       /\ \A a \in ToSet(now) : a.about # c
       /\ \A q \in Feed[c] :
            CandidatesOf(rows, [quotes EXCEPT ![c] = [q EXCEPT !.fresh = FALSE]], market) = now

\* How a position is booked makes no difference: neither the order of rows nor one
\* coin split over two of them (rules.ts:47-62, portfolio.ts:25-30).
BookingIsIrrelevant ==
  LET now == ToSet(Now)
      same(R) == Verdicts(R, quotes, market) = now
  IN
  /\ \A i \in DOMAIN rows \ {1} : same([rows EXCEPT ![i] = rows[i - 1], ![i - 1] = rows[i]])
  /\ \A i \in DOMAIN rows : rows[i].amount > 1 =>
       same(InsertAt([rows EXCEPT ![i].amount = @ - 1], i, [rows[i] EXCEPT !.amount = 1]))

\* One voice per coin, however it is booked.
OneVoicePerCoin == OneCandidatePerKey /\ BookingIsIrrelevant

Loudness(S, c) ==
  LET severities == {a.severity : a \in {b \in S : b.dedupeKey = <<"price_drop", c>>}} IN
  IF "critical" \in severities THEN 2 ELSE IF severities = {} THEN 0 ELSE 1

\* A deeper fall is never quieter: when a quote shows a coin lower against both an
\* hour and a day ago, its alert stays or grows worse, although the window it
\* speaks of may change (rules.ts:75-86).
DeeperIsLouder ==
  LET now == ToSet(Now)
      Deeper(x, y) == x = None \/ (y # None /\ y <= x)
  IN
  \A c \in ToSet(Held(rows, quotes)) : \A q \in Feed[c] :
    /\ q.fresh /\ q.price # None
    /\ Deeper(quotes[c].change1h, q.change1h)
    /\ Deeper(quotes[c].change24h, q.change24h)
    => Loudness(Verdicts(rows, [quotes EXCEPT ![c] = q], market), c) >= Loudness(now, c)

\* A portfolio alert is about a portfolio: of two coins at least, each with a fresh
\* price, one of which has fallen as much as the alert says; and there is a group of
\* coins to put the loss on (portfolio.ts:39-54, 102-143; rules.ts:352-366).
PortfolioDropHasACause ==
  \A a \in ToSet(Now) : a.kind = "portfolio_drop" =>
    LET depth == IF a.severity = "critical" THEN 2 * Prefs.portfolioDrop ELSE Prefs.portfolioDrop IN
    /\ \A r \in ToSet(rows) : Usable(quotes, r.coin)
    /\ Cardinality({r.coin : r \in ToSet(rows)}) > 1
    /\ \E r \in ToSet(rows) : Falls(quotes[r.coin].change24h, depth)
    /\ LosingGroups(rows, quotes, InContext(market)) # {}
=============================================================================
