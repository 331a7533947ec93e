----------------------------- MODULE ExplainProofs -----------------------------
(***************************************************************************)
(* What users read when they open an alert is so: the two loops over a     *)
(* coin's past count what they should, for any prices, thresholds and      *)
(* distances, nothing is made up, and swaps go where they may, for any     *)
(* coins, chains, quotes and ages.                                         *)
(***************************************************************************)
EXTENDS Explain, FiniteSetTheorems, WellFoundedInduction, TLAPS

TypeOK ==
  /\ pts \in Seq(Point)
  /\ i \in Nat \ {0}

\* The loop over the falls has found those before i, and remembers the latest one that
\* counted, whether it started an event or not.
DropsInv ==
  loop = "drops" =>
    /\ i >= 2
    /\ events = {k \in Slides : k < i}
    /\ last = None => \A k \in 2..Len(pts) : k < i => ~Counts(k)
    /\ last # None =>
         /\ last \in 2..Len(pts) /\ last < i /\ Counts(last)
         /\ \A k \in 2..Len(pts) : k < i /\ Counts(k) => k <= last

\* The loop below the floor has found the stretches that ended before i, and is in one
\* exactly if the point before i is in it.
PegInv ==
  loop = "peg" =>
    /\ i <= Len(pts) + 1
    /\ spells = {s \in Stretches : s[2] < i}
    /\ start = None => i = 1 \/ ~Below(i - 1)
    /\ start # None =>
         /\ start \in 1..Len(pts) /\ start < i
         /\ \A k \in start..(i - 1) : Below(k)
         /\ start = 1 \/ ~Below(start - 1)

IInv == TypeOK /\ DropsInv /\ PegInv

-----------------------------------------------------------------------------
\* What counts, and what is below the floor, depends on the points and the threshold alone.
LEMMA Frame ==
  ASSUME pts' = pts, fall' = fall
  PROVE  /\ Slides' = Slides /\ Stretches' = Stretches
         /\ \A k : Counts(k)' <=> Counts(k)
         /\ \A k : Below(k)' <=> Below(k)
  BY DEF Slides, Stretches, Counts, Below

\* Nothing changes while neither loop turns.
LEMMA Stays ==
  ASSUME IInv, UNCHANGED history
  PROVE  IInv'
<1>1. /\ Slides' = Slides /\ Stretches' = Stretches
      /\ \A k : Counts(k)' <=> Counts(k)
      /\ \A k : Below(k)' <=> Below(k)
  BY Frame DEF history
<1>. QED
  BY <1>1 DEF history, IInv, TypeOK, DropsInv, PegInv

\* A loop begins with nothing before it.
LEMMA Starts ==
  ASSUME NEW points \in Seq(Point), NEW percent, NEW which \in {"drops", "peg"},
         Begin(points, percent, which)
  PROVE  IInv'
<1>1. TypeOK'
  BY DEF Begin, TypeOK
<1>2. DropsInv'
  <2>1. ASSUME NEW k \in Slides'
        PROVE  ~(k < 2)
    BY <2>1, <1>1 DEF Slides, TypeOK
  <2>. QED
    BY <1>1, <2>1 DEF Begin, DropsInv, TypeOK
<1>3. PegInv'
  <2>1. ASSUME NEW s \in Stretches'
        PROVE  ~(s[2] < 1)
    BY <2>1, <1>1 DEF Stretches, TypeOK
  <2>. QED
    BY <1>1, <2>1 DEF Begin, PegInv, TypeOK
<1>. QED
  BY <1>1, <1>2, <1>3 DEF IInv

\* A fall starts an event exactly if the latest one before it is too far away.
LEMMA Drops ==
  ASSUME IInv, DropTurn
  PROVE  IInv'
<1>. USE DEF TypeOK
<1>1. pts' = pts /\ fall' = fall /\ loop' = loop /\ loop = "drops" /\ i' = i + 1 /\ i \in 2..Len(pts)
  BY DEF DropTurn, IInv, DropsInv
<1>2. /\ Slides' = Slides
      /\ \A k : Counts(k)' <=> Counts(k)
  BY <1>1, Frame
<1>3. TypeOK'
  BY <1>1 DEF IInv
<1>4. DropsInv'
  <2>1. CASE ~Counts(i)
    <3>1. i \notin Slides
      BY <2>1 DEF Slides
    <3>2. last' = last /\ events' = events
      BY <2>1 DEF DropTurn
    <3>. QED
      BY <1>1, <1>2, <1>3, <2>1, <3>1, <3>2 DEF IInv, DropsInv, Slides
  <2>2. CASE Counts(i)
    <3>1. last' = i
      BY <2>2 DEF DropTurn
    <3>2. CASE last # None /\ i - last <= Merge
      <4>1. events' = events
        BY <2>2, <3>2 DEF DropTurn
      <4>2. i \notin Slides
        BY <1>1, <3>2, HistoryAssumption DEF IInv, DropsInv, Slides
      <4>. QED
        BY <1>1, <1>2, <1>3, <2>2, <3>1, <4>1, <4>2, HistoryAssumption DEF IInv, DropsInv, Slides
    <3>3. CASE ~(last # None /\ i - last <= Merge)
      <4>1. events' = events \cup {i}
        BY <2>2, <3>3 DEF DropTurn
      <4>2. ASSUME NEW f \in 2..(i - 1), Counts(f)
            PROVE  i - f > Merge
        BY <1>1, <3>3, <4>2, HistoryAssumption DEF IInv, DropsInv
      <4>3. i \in Slides
        BY <1>1, <2>2, <4>2 DEF Slides
      <4>. QED
        BY <1>1, <1>2, <1>3, <2>2, <3>1, <4>1, <4>3, HistoryAssumption DEF IInv, DropsInv, Slides
    <3>. QED
      BY <3>2, <3>3
  <2>. QED
    BY <2>1, <2>2
<1>5. PegInv'
  BY <1>1 DEF PegInv
<1>. QED
  BY <1>3, <1>4, <1>5 DEF IInv

\* A stretch that ends at i is the one the loop is in, and only that one.
LEMMA Ends ==
  ASSUME IInv, loop = "peg", i \in 1..Len(pts), ~Below(i), NEW s \in Stretches, s[2] = i
  PROVE  start # None /\ s = <<start, i>>
<1>. USE DEF TypeOK
<1>1. /\ s[1] \in 1..Len(pts) /\ s[1] < i /\ s = <<s[1], i>>
      /\ \A k \in s[1]..(i - 1) : Below(k)
      /\ s[1] = 1 \/ ~Below(s[1] - 1)
  BY DEF Stretches
<1>2. start # None
  BY <1>1 DEF IInv, PegInv
<1>3. ~(s[1] < start)
  <2>. SUFFICES ASSUME s[1] < start PROVE FALSE
    OBVIOUS
  <2>1. start - 1 \in s[1]..(i - 1)
    BY <1>1, <1>2 DEF IInv, PegInv
  <2>. QED
    BY <1>1, <1>2, <2>1 DEF IInv, PegInv
<1>4. ~(start < s[1])
  <2>. SUFFICES ASSUME start < s[1] PROVE FALSE
    OBVIOUS
  <2>1. s[1] - 1 \in start..(i - 1)
    BY <1>1, <1>2 DEF IInv, PegInv
  <2>. QED
    BY <1>1, <1>2, <2>1 DEF IInv, PegInv
<1>. QED
  BY <1>1, <1>2, <1>3, <1>4 DEF IInv, PegInv

\* Every point either goes on with the stretch the loop is in or ends it.
LEMMA Pegs ==
  ASSUME IInv, PegTurn
  PROVE  IInv'
<1>. USE DEF TypeOK
<1>1. pts' = pts /\ fall' = fall /\ loop' = loop /\ loop = "peg" /\ i' = i + 1 /\ i \in 1..Len(pts)
  BY DEF PegTurn, IInv
<1>2. /\ Stretches' = Stretches
      /\ \A k : Below(k)' <=> Below(k)
  BY <1>1, Frame
<1>3. TypeOK'
  BY <1>1 DEF IInv
<1>4. DropsInv'
  BY <1>1 DEF DropsInv
<1>5. PegInv'
  <2>1. CASE Below(i)
    <3>1. \A s \in Stretches : s[2] \in Nat /\ s[2] # i
      BY <2>1 DEF Stretches
    <3>2. spells' = spells /\ start' = IF start = None THEN i ELSE start
      BY <2>1 DEF PegTurn
    <3>3. spells' = {s \in Stretches' : s[2] < i'}
      BY <1>1, <1>2, <3>1, <3>2 DEF IInv, PegInv
    <3>4. start' # None
      BY <1>1, <3>2, HistoryAssumption
    <3>5. /\ start' \in 1..Len(pts) /\ start' <= i
          /\ start' = 1 \/ ~Below(start' - 1)
          /\ \A k \in start'..(i - 1) : Below(k)
      <4>1. CASE start = None
        BY <1>1, <3>2, <4>1 DEF IInv, PegInv
      <4>2. CASE start # None
        BY <1>1, <3>2, <4>2 DEF IInv, PegInv
      <4>. QED
        BY <4>1, <4>2
    <3>6. \A k \in start'..i : Below(k)
      BY <1>1, <2>1, <3>5
    <3>7. i' <= Len(pts') + 1 /\ i' - 1 = i /\ start' < i'
      BY <1>1, <3>5
    <3>. QED
      BY <1>1, <1>2, <3>3, <3>4, <3>5, <3>6, <3>7 DEF PegInv
  <2>2. CASE ~Below(i)
    <3>1. start' = None
      BY <2>2 DEF PegTurn
    <3>2. \A s \in Stretches : s[2] \in Nat
      BY DEF Stretches
    <3>3. spells' = {s \in Stretches' : s[2] < i'}
      <4>1. CASE start = None
        <5>1. spells' = spells
          BY <2>2, <4>1 DEF PegTurn
        <5>2. \A s \in Stretches : s[2] # i
          BY <1>1, <2>2, <4>1, Ends
        <5>. QED
          BY <1>1, <1>2, <3>2, <5>1, <5>2 DEF IInv, PegInv
      <4>2. CASE start # None
        <5>1. spells' = spells \cup {<<start, i>>}
          BY <2>2, <4>2 DEF PegTurn
        <5>2. \A s \in Stretches : s[2] = i => s = <<start, i>>
          BY <1>1, <2>2, Ends
        <5>3. <<start, i>> \in Stretches
          BY <1>1, <2>2, <4>2 DEF IInv, PegInv, Stretches
        <5>. QED
          BY <1>1, <1>2, <3>2, <5>1, <5>2, <5>3 DEF IInv, PegInv
      <4>. QED
        BY <4>1, <4>2
    <3>. QED
      BY <1>1, <1>2, <2>2, <3>1, <3>3 DEF IInv, PegInv
  <2>. QED
    BY <2>1, <2>2
<1>. QED
  BY <1>3, <1>4, <1>5 DEF IInv

-----------------------------------------------------------------------------
\* What both loops have found before i is right at every turn (similar-drops.ts:28-48, 75-89).
THEOREM Invariance == Spec => []IInv
<1>1. Init => IInv
  BY DEF Init, Rest, IInv, TypeOK, DropsInv, PegInv
<1>2. IInv /\ [Next]_history => IInv'
  <2>. SUFFICES ASSUME IInv, [Next]_history PROVE IInv'
    OBVIOUS
  <2>1. ASSUME NEW points \in Histories, NEW percent \in Falls, NEW which \in {"drops", "peg"},
               Begin(points, percent, which)
        PROVE  IInv'
    BY <2>1, Starts, HistoryAssumption
  <2>2. CASE DropTurn
    BY <2>2, Drops
  <2>3. CASE PegTurn
    BY <2>3, Pegs
  <2>4. CASE UNCHANGED history
    BY <2>4, Stays
  <2>. QED
    BY <2>1, <2>2, <2>3, <2>4 DEF Next
<1>. QED
  BY <1>1, <1>2, PTL DEF Spec

\* What the loops know at their end is what is to be counted.
LEMMA Counted == IInv => HistoryIsRight
<1>1. ASSUME IInv PROVE DropsAreCounted
  <2>. SUFFICES ASSUME Walked, loop = "drops" PROVE events = Slides
    BY DEF DropsAreCounted
  <2>1. \A k \in Slides : k < i
    BY <1>1 DEF Walked, Slides, IInv, TypeOK
  <2>. QED
    BY <1>1, <2>1 DEF IInv, DropsInv, Slides
<1>2. ASSUME IInv PROVE SpellsAreCounted
  <2>. SUFFICES ASSUME Walked, loop = "peg"
                PROVE  /\ spells = Stretches
                       /\ IF start = None THEN pts = <<>> \/ ~Below(Len(pts))
                          ELSE /\ start \in 1..Len(pts)
                               /\ \A k \in start..Len(pts) : Below(k)
                               /\ start = 1 \/ ~Below(start - 1)
    BY DEF SpellsAreCounted
  <2>1. i = Len(pts) + 1
    BY <1>2 DEF Walked, IInv, PegInv, TypeOK
  <2>2. \A s \in Stretches : s[2] < i
    BY <1>2, <2>1 DEF Stretches, IInv, TypeOK
  <2>3. spells = Stretches
    BY <1>2, <2>2 DEF IInv, PegInv
  <2>4. CASE start = None
    <3>1. i = 1 \/ ~Below(i - 1)
      BY <1>2, <2>4 DEF IInv, PegInv
    <3>2. i = 1 => pts = <<>>
      BY <1>2, <2>1 DEF IInv, TypeOK
    <3>3. i - 1 = Len(pts)
      BY <1>2, <2>1 DEF IInv, TypeOK
    <3>. QED
      BY <2>3, <2>4, <3>1, <3>2, <3>3
  <2>5. CASE start # None
    <3>1. i - 1 = Len(pts)
      BY <1>2, <2>1 DEF IInv, TypeOK
    <3>. QED
      BY <1>2, <2>3, <2>5, <3>1 DEF IInv, PegInv
  <2>. QED
    BY <2>4, <2>5
<1>. QED
  BY <1>1, <1>2 DEF HistoryIsRight

\* The falls and the stretches users read about are those the prices show, for any
\* prices, thresholds and distances (similar-drops.ts:22-99).
THEOREM TrueHistory == Spec => []HistoryIsRight
BY Counted, Invariance, PTL

-----------------------------------------------------------------------------
(* The explanation and the swaps                                             *)

ExplainTypeOK ==
  /\ clock \in 0..MaxClock /\ case \in Case
  /\ at \in {"opened", "asking", "walking", "composing", "told"}
  /\ past \in {"unasked", "drops", "peg", "unavailable"}

AsksForThePast == alert.kind \in OfDrops \cup {"depeg"}

Which == IF alert.kind = "depeg" THEN "peg" ELSE "drops"

\* What is composed knows of the past what its kind asks for.
PastKnown ==
  /\ at \in {"asking", "walking"} => AsksForThePast
  /\ at \in {"asking", "walking", "composing"} => case.wants = "explanation"
  /\ at = "walking" => loop = Which
  /\ at = "composing" => past \in IF AsksForThePast THEN {Which, "unavailable"} ELSE {"unasked"}
  /\ at = "opened" => past = "unasked"

CaseIsSmall == IsFiniteSet(case.held) /\ Usable(case.pts) \in Seq(Point)

Right == NothingIsMadeUp /\ BlameFollowsDepth /\ SwapsAreSafe

ExplainIInv == IInv /\ ExplainTypeOK /\ CaseIsSmall /\ PastKnown /\ Right

-----------------------------------------------------------------------------
\* There is nothing to be right about before it is told.
LEMMA NotYet ==
  ASSUME at' # "told"
  PROVE  Right'
  BY DEF Right, NothingIsMadeUp, BlameFollowsDepth, SwapsAreSafe, Told

\* What the past and the case are known to be, at every step but the last.
LEMMA Before ==
  ASSUME ExplainIInv, Open \/ HistoryCame \/ HistoryFailed \/ Walk \/ WalkEnds \/ Tick
  PROVE  ExplainIInv'
<1>. USE DEF ExplainIInv, ExplainTypeOK, alert
<1>1. case' = case /\ at' # "told" /\ at' \in {"opened", "asking", "walking", "composing", "told"}
  BY DEF Open, HistoryCame, HistoryFailed, Walk, WalkEnds, Tick
<1>2. /\ Right' /\ CaseIsSmall'
      /\ (AsksForThePast <=> AsksForThePast') /\ Which' = Which
  BY <1>1, NotYet DEF CaseIsSmall, AsksForThePast, Which
<1>3. CASE Open
  BY <1>1, <1>2, <1>3, Stays DEF Open, PastKnown, AsksForThePast
<1>4. CASE HistoryCame
  <2>1. CASE Len(Usable(case.pts)) < MinPoints
    BY <1>1, <1>2, <1>4, <2>1, Stays DEF HistoryCame, PastKnown
  <2>2. CASE ~(Len(Usable(case.pts)) < MinPoints)
    <3>1. /\ at = "asking" /\ at' = "walking" /\ past' = past /\ clock' = clock
          /\ Begin(Usable(case.pts), Like(alert.change), Which)
      BY <1>4, <2>2 DEF HistoryCame, Which
    <3>2. Which \in {"drops", "peg"} /\ Usable(case.pts) \in Seq(Point)
      BY DEF Which, CaseIsSmall
    <3>3. IInv' /\ loop' = Which
      BY <3>1, <3>2, Starts DEF Begin
    <3>. QED
      BY <1>1, <1>2, <3>1, <3>3 DEF PastKnown
  <2>. QED
    BY <2>1, <2>2
<1>5. CASE HistoryFailed
  BY <1>1, <1>2, <1>5, Stays DEF HistoryFailed, PastKnown
<1>6. CASE Walk
  <2>1. IInv' /\ loop' = loop
    BY <1>6, Drops, Pegs DEF Walk, DropTurn, PegTurn
  <2>. QED
    BY <1>1, <1>2, <1>6, <2>1 DEF Walk, PastKnown
<1>7. CASE WalkEnds
  <2>1. at = "walking" /\ at' = "composing" /\ past' = Which /\ UNCHANGED <<clock, history>>
    BY <1>7 DEF WalkEnds, PastKnown
  <2>2. past' \in {"drops", "peg"}
    BY <2>1 DEF Which
  <2>. QED
    BY <1>1, <1>2, <2>1, <2>2, Stays DEF PastKnown
<1>8. CASE Tick
  <2>1. clock' \in 0..MaxClock /\ UNCHANGED <<at, past, history>>
    BY <1>8, ExplainAssumption DEF Tick
  <2>2. loop' = loop
    BY <2>1 DEF history
  <2>. QED
    BY <1>1, <1>2, <2>1, <2>2, Stays DEF PastKnown
<1>. QED
  BY <1>3, <1>4, <1>5, <1>6, <1>7, <1>8

\* What is told, kind by kind: a comparison with the past exactly if it was found, a gap in
\* its place exactly if it was not, and a price since the alert only if it is fresh.
LEMMA ByKind ==
  ASSUME alert \in Alert
  PROVE  /\ "since" \in Explained.sections => Since
         /\ "simulation" \notin Explained.sections
         /\ AsksForThePast => /\ "past" \in Explained.sections <=> past = Which
                              /\ "past" \in Explained.gaps <=> past = "unavailable"
<1>. USE DEF OfDrops, Given, AsksForThePast, Which
<1>1. CASE alert.kind \in OfDrops
  BY <1>1 DEF Explained, PriceDrop, DropHistory
<1>2. CASE alert.kind = "depeg"
  BY <1>2 DEF Explained, Depeg
<1>3. CASE alert.kind \in {"below_cost_basis", "near_low"}
  BY <1>3 DEF Explained, CostBasis, NearLow
<1>4. CASE alert.kind \in {"volume_spike", "stable_volume_anomaly", "volume_dry_up", "rwa_drift"}
  BY <1>4 DEF Explained, Volume, RwaDrift
<1>5. CASE alert.kind \in {"category_rotation", "portfolio_drop"}
  BY <1>5 DEF Explained, Category, Portfolio
<1>. QED
  BY <1>1, <1>2, <1>3, <1>4, <1>5 DEF Alert, OfCoins

\* Depth moves the blame towards the coin.
LEMMA Depth ==
  ASSUME NEW a \in Alert, a.kind \in OfDrops, a.change24h # None, NEW deeper \in Nat
  PROVE  LET had == [a EXCEPT !.change24h = @ - deeper] IN
         /\ BlameRank[Blame(had)] >= BlameRank[Blame(a)]
         /\ FarBelow(had) => Blame(had) \in {"coin", "unknown"}
<1>. DEFINE had == [a EXCEPT !.change24h = @ - deeper]
<1>1. /\ a.change24h \in Int /\ a.market \in Int \cup {None} /\ a.group \in Int \cup {None}
      /\ None \notin Int
  BY ExplainAssumption DEF Alert
<1>2. /\ had.kind = a.kind /\ had.market = a.market /\ had.group = a.group
      /\ had.change24h = a.change24h - deeper /\ had.change24h \in Int
  BY <1>1 DEF Alert
<1>. HIDE DEF had
<1>3. BlameRank[Blame(had)] >= BlameRank[Blame(a)]
  <2>1. CASE a.market = None
    BY <1>1, <1>2, <2>1 DEF BlameRank, Blame
  <2>2. CASE a.market # None
    BY <1>1, <1>2, <2>2 DEF BlameRank, Blame
  <2>. QED
    BY <2>1, <2>2
<1>4. FarBelow(had) => Blame(had) \in {"coin", "unknown"}
  BY <1>1, <1>2 DEF Blame, FarBelow
<1>. QED
  BY <1>3, <1>4 DEF had

\* What is composed is right.
LEMMA Composed ==
  ASSUME ExplainIInv, Compose
  PROVE  ExplainIInv'
<1>. USE DEF ExplainIInv, ExplainTypeOK
<1>. DEFINE told == Explained.sections
<1>1. /\ at = "composing" /\ at' = "told" /\ case.wants = "explanation"
      /\ UNCHANGED <<clock, case, past, history>>
      /\ reply' = [sections |-> told \cup Given(alert.simulated, "simulation"), gaps |-> Explained.gaps,
                   blame |-> IF alert.kind \in OfDrops THEN Blame(alert) ELSE None,
                   priceAge |-> IF "since" \in told THEN case.quote + clock ELSE None]
  BY DEF Compose, PastKnown
<1>2. alert' = alert /\ alert \in Alert /\ case.quote \in Nat \cup {None}
  BY <1>1 DEF alert, Case
<1>3. /\ "since" \in told => Since
      /\ "simulation" \notin told
      /\ AsksForThePast => /\ "past" \in told <=> past = Which
                           /\ "past" \in Explained.gaps <=> past = "unavailable"
  BY <1>2, ByKind
<1>. HIDE DEF told
<1>4. NothingIsMadeUp'
  <2>1. AsksForThePast => ("past" \in reply'.sections) # ("past" \in reply'.gaps)
    BY <1>1, <1>3 DEF PastKnown, Which, Given
  <2>2. "since" \in reply'.sections => ~alert.simulated /\ reply'.priceAge \in 0..MaxAge
    BY <1>1, <1>2, <1>3, ExplainAssumption DEF Since, Fresh, Given
  <2>3. "simulation" \in reply'.sections <=> alert.simulated
    BY <1>1, <1>3 DEF Given
  <2>. QED
    BY <1>2, <2>1, <2>2, <2>3 DEF NothingIsMadeUp, AsksForThePast
<1>5. BlameFollowsDepth'
  <2>. SUFFICES ASSUME alert.kind \in OfDrops, alert.change24h # None, NEW deeper \in 0..MaxDeeper
                PROVE  LET had == [alert EXCEPT !.change24h = @ - deeper] IN
                       /\ BlameRank[Blame(had)] >= BlameRank[Blame(alert)]
                       /\ FarBelow(had) => Blame(had) \in {"coin", "unknown"}
    BY <1>1, <1>2 DEF BlameFollowsDepth
  <2>. QED
    BY <1>2, Depth, ExplainAssumption
<1>6. SwapsAreSafe'
  BY <1>1 DEF SwapsAreSafe, Told
<1>7. CaseIsSmall' /\ PastKnown'
  BY <1>1 DEF CaseIsSmall, PastKnown
<1>. QED
  BY <1>1, <1>4, <1>5, <1>6, <1>7, Stays DEF Right

-----------------------------------------------------------------------------
\* A set of natural numbers that is not empty has a least one: the numbers below the members
\* are finite sets, and no chain of ever smaller ones goes on for ever.
LEMMA Least ==
  ASSUME NEW S \in SUBSET Nat, S # {}
  PROVE  \E n \in S : \A m \in S : n <= m
<1>. DEFINE T == {0..(n - 1) : n \in S}
<1>1. T \subseteq FiniteSubsetsOf(Nat)
  <2>1. ASSUME NEW n \in S
        PROVE  0..(n - 1) \in FiniteSubsetsOf(Nat)
    <3>1. n \in Nat /\ n - 1 \in Int /\ 0 \in Int
      OBVIOUS
    <3>2. IsFiniteSet(0..(n - 1))
      BY <3>1, FS_Interval
    <3>3. 0..(n - 1) \subseteq Nat
      BY <3>1
    <3>. QED
      BY <3>2, <3>3 DEF FiniteSubsetsOf
  <2>. QED
    BY <2>1
<1>2. IsWellFoundedOn(StrictSubsetOrdering(Nat), FiniteSubsetsOf(Nat))
  BY FS_StrictSubsetOrderingWellFounded
<1>3. T # {}
  OBVIOUS
<1>4. PICK x \in T : \A y \in T : <<y, x>> \notin StrictSubsetOrdering(Nat)
  <2>. HIDE DEF T
  <2>. QED
    BY <1>1, <1>2, <1>3, WFMin
<1>5. PICK n \in S : x = 0..(n - 1)
  BY <1>4
<1>6. ASSUME NEW m \in S, m < n
      PROVE  FALSE
  <2>1. 0..(m - 1) \in T
    OBVIOUS
  <2>2. 0..(m - 1) \subseteq 0..(n - 1) /\ 0..(m - 1) # 0..(n - 1)
    <3>1. m \in 0..(n - 1) /\ m \notin 0..(m - 1)
      BY <1>6
    <3>. QED
      BY <1>6, <3>1
  <2>3. 0..(m - 1) \in SUBSET Nat /\ x \in SUBSET Nat
    BY <1>5
  <2>. QED
    BY <1>4, <1>5, <2>1, <2>2, <2>3 DEF StrictSubsetOrdering
<1>. QED
  BY <1>6

\* The first of the targets in the order of the list is one of them.
LEMMA First ==
  ASSUME NEW targets \in SUBSET ToSet(Order), targets # {}
  PROVE  FirstOf(targets) \in targets
<1>. DEFINE S == {n \in DOMAIN Order : Order[n] \in targets}
<1>1. DOMAIN Order = 1..Len(Order) /\ Len(Order) \in Nat
  BY ExplainAssumption
<1>2. S \in SUBSET Nat /\ S # {}
  BY <1>1 DEF ToSet
<1>3. PICK n \in S : \A m \in S : n <= m
  BY <1>2, Least
<1>4. \A m \in 1..(n - 1) : Order[m] \notin targets
  BY <1>1, <1>3
<1>. QED
  BY <1>3, <1>4 DEF FirstOf

\* What is selected is what was held, and no stablecoin unless the alert is about a coin.
LEMMA SelectedIs ==
  ASSUME NEW h \in Selected, alert \in Alert
  PROVE  h \in case.held /\ (alert.kind \notin OfCoins => h.coin \notin Stable)
BY DEF Selected, Largest, Alert

LEMMA FiniteExits ==
  ASSUME IsFiniteSet(case.held), alert \in Alert, NEW exits \in SUBSET (Selected \X Chain)
  PROVE  IsFiniteSet(exits)
<1>1. Selected \subseteq case.held
  BY SelectedIs
<1>2. IsFiniteSet(Selected) /\ IsFiniteSet(Chain)
  BY <1>1, FS_Subset, ExplainAssumption
<1>3. IsFiniteSet(Selected \X Chain)
  BY <1>2, FS_Product
<1>. QED
  BY <1>3, FS_Subset

\* A stablecoin is a target exactly if it is safe to go to.
LEMMA Targets ==
  ASSUME ExplainTypeOK, NEW h \in Holding, NEW c \in Chain
  PROVE  \A t : t \in PickTarget(c, h.coin) <=> SafeTarget(t, h, c)
<1>1. ToSet(Order) = Stable /\ Stable \subseteq Coin
  BY ExplainAssumption DEF ToSet
<1>2. \A t \in Stable : /\ case.quotes[t].age \in Nat \cup {None}
                        /\ case.quotes[t].price \in {"on", "off"}
  BY <1>1 DEF ExplainTypeOK, Case, Quote
<1>3. \A t \in Stable : OnPeg(t) <=> /\ case.quotes[t].age \in 0..(MaxAge - clock)
                                     /\ case.quotes[t].price = "on"
  BY <1>2, ExplainAssumption DEF OnPeg, ExplainTypeOK
<1>. QED
  BY <1>1, <1>3 DEF PickTarget, SafeTarget

\* What is suggested is right.
LEMMA Suggested ==
  ASSUME ExplainIInv, Suggest
  PROVE  ExplainIInv'
<1>. USE DEF ExplainIInv, ExplainTypeOK
<1>. DEFINE To(e) == FirstOf(PickTarget(e[2], e[1].coin))
            exits == {e \in Selected \X Chain :
                       case.level >= 2 /\ e[2] \in ChainsFor(e[1]) /\ PickTarget(e[2], e[1].coin) # {}}
<1>1. /\ at = "opened" /\ at' = "told" /\ case.wants = "swaps"
      /\ UNCHANGED <<clock, case, past, history>>
  BY DEF Suggest
<1>2. PICK kept \in SUBSET exits :
        /\ Cardinality(kept) = Smaller(Cardinality(exits), 3 * MaxSwapped)
        /\ reply' = [swaps |-> {[from |-> e[1], chain |-> e[2], to |-> To(e)] : e \in kept},
                     reason |-> kept = {}]
  BY Zenon DEF Suggest
<1>3. alert' = alert /\ alert \in Alert /\ case.held \in SUBSET Holding
  BY <1>1 DEF alert, Case
<1>4. ASSUME NEW e \in exits
      PROVE  /\ e[1] \in case.held /\ case.level >= 2 /\ e[1].chain \in {None, e[2]}
             /\ SafeTarget(To(e), e[1], e[2])
             /\ alert.kind \notin OfCoins => e[1].coin \notin Stable
  <2>1. e[1] \in Selected /\ e[2] \in Chain /\ e[2] \in ChainsFor(e[1]) /\ case.level >= 2
    OBVIOUS
  <2>2. e[1] \in case.held /\ (alert.kind \notin OfCoins => e[1].coin \notin Stable)
    BY <1>3, <2>1, SelectedIs
  <2>3. PickTarget(e[2], e[1].coin) \in SUBSET ToSet(Order) /\ PickTarget(e[2], e[1].coin) # {}
    BY DEF PickTarget
  <2>4. To(e) \in PickTarget(e[2], e[1].coin)
    BY <2>3, First
  <2>5. SafeTarget(To(e), e[1], e[2])
    BY <1>3, <2>1, <2>2, <2>4, Targets
  <2>6. e[1].chain \in {None, e[2]}
    BY <2>1 DEF ChainsFor
  <2>. QED
    BY <2>1, <2>2, <2>5, <2>6
<1>5. kept = {} => exits = {}
  <2>1. IsFiniteSet(exits)
    BY <1>3, FiniteExits DEF CaseIsSmall
  <2>2. Cardinality(exits) \in Nat /\ Cardinality({}) = 0
    BY <2>1, FS_CardinalityType, FS_EmptySet
  <2>3. kept = {} => Cardinality(exits) = 0
    BY <1>2, <2>2, ExplainAssumption DEF Smaller
  <2>. QED
    BY <2>1, <2>3, FS_EmptySet
<1>6. ASSUME exits = {}, case.level >= 2, alert.kind \in OfCoins, NEW h \in case.held, NEW c \in Chain,
             h.coin = alert.coin, IF h.chain = None THEN h.coin = Native \/ c \in Homes(h.coin) ELSE c = h.chain,
             NEW t \in Stable
      PROVE  ~SafeTarget(t, h, c)
  <2>1. h \in Selected
    BY <1>6 DEF Selected, OfCoins, OfDrops
  <2>2. c \in ChainsFor(h)
    BY <1>6 DEF ChainsFor
  <2>3. PickTarget(c, h.coin) = {}
    <3>1. <<h, c>> \in Selected \X Chain /\ <<h, c>>[1] = h /\ <<h, c>>[2] = c
      BY <2>1
    <3>. QED
      BY <1>6, <2>2, <3>1
  <2>. QED
    BY <1>3, <2>3, Targets
<1>. HIDE DEF exits
<1>7. SwapsAreSafe'
  <2>1. \A t, h, c : SafeTarget(t, h, c)' <=> SafeTarget(t, h, c)
    BY <1>1 DEF SafeTarget
  <2>2. reply'.reason <=> reply'.swaps = {}
    BY <1>2
  <2>3. \A w \in reply'.swaps :
          /\ case.level >= 2 /\ w.from \in case.held
          /\ w.from.chain \in {None, w.chain} /\ SafeTarget(w.to, w.from, w.chain)
          /\ alert.kind \notin OfCoins => w.from.coin \notin Stable
    BY <1>2, <1>4
  <2>4. reply'.reason => exits = {}
    BY <1>2, <1>5
  <2>. QED
    BY <1>1, <1>3, <1>6, <2>1, <2>2, <2>3, <2>4 DEF SwapsAreSafe
<1>8. NothingIsMadeUp' /\ BlameFollowsDepth'
  BY <1>1 DEF NothingIsMadeUp, BlameFollowsDepth, Told
<1>9. CaseIsSmall' /\ PastKnown'
  BY <1>1 DEF CaseIsSmall, PastKnown
<1>. QED
  BY <1>1, <1>7, <1>8, <1>9, Stays DEF Right

-----------------------------------------------------------------------------
\* What is known at every step of an explanation, and of the swaps, is so
\* (evaluator.ts:126-174, actions.ts:93-147).
THEOREM ExplainInvariance == ExplainSpec => []ExplainIInv
<1>1. ASSUME InitExplain PROVE ExplainIInv
  <2>1. IInv
    BY <1>1 DEF InitExplain, Rest, IInv, TypeOK, DropsInv, PegInv
  <2>2. ExplainTypeOK /\ CaseIsSmall
    BY <1>1, ExplainAssumption DEF InitExplain, ExplainTypeOK, CaseIsSmall
  <2>3. PastKnown /\ Right
    BY <1>1 DEF InitExplain, PastKnown, Right, NothingIsMadeUp, BlameFollowsDepth, SwapsAreSafe, Told
  <2>. QED
    BY <2>1, <2>2, <2>3 DEF ExplainIInv
<1>2. ASSUME ExplainIInv, [ExplainNext]_vars PROVE ExplainIInv'
  <2>1. CASE Open \/ HistoryCame \/ HistoryFailed \/ Walk \/ WalkEnds \/ Tick
    BY <1>2, <2>1, Before
  <2>2. CASE Compose
    BY <1>2, <2>2, Composed
  <2>3. CASE Suggest
    BY <1>2, <2>3, Suggested
  <2>4. CASE UNCHANGED vars
    <3>1. UNCHANGED <<clock, case, at, past, reply, history>> /\ loop' = loop
      BY <2>4 DEF vars, history
    <3>2. IInv'
      BY <1>2, <3>1, Stays DEF ExplainIInv
    <3>3. ExplainTypeOK' /\ CaseIsSmall' /\ PastKnown'
      BY <1>2, <3>1 DEF ExplainIInv, ExplainTypeOK, CaseIsSmall, PastKnown, AsksForThePast, Which, alert
    <3>4. NothingIsMadeUp'
      BY <1>2, <3>1 DEF ExplainIInv, Right, NothingIsMadeUp, Told, alert
    <3>5. BlameFollowsDepth'
      BY <1>2, <3>1 DEF ExplainIInv, Right, BlameFollowsDepth, Told, alert
    <3>6. SwapsAreSafe'
      <4>1. \A t, h, c : SafeTarget(t, h, c)' <=> SafeTarget(t, h, c)
        BY <3>1 DEF SafeTarget
      <4>. QED
        BY <1>2, <3>1, <4>1 DEF ExplainIInv, Right, SwapsAreSafe, Told, alert
    <3>. QED
      BY <3>2, <3>3, <3>4, <3>5, <3>6 DEF ExplainIInv, Right
  <2>. QED
    BY <1>2, <2>1, <2>2, <2>3, <2>4 DEF ExplainNext
<1>. QED
  BY <1>1, <1>2, PTL DEF ExplainSpec

\* The past that an explanation walks through is what the prices say, whatever the case
\* (similar-drops.ts:22-99, evaluator.ts:141-145).
THEOREM TruePast == ExplainSpec => []HistoryIsRight
<1>1. ExplainIInv => HistoryIsRight
  BY Counted DEF ExplainIInv
<1>. QED
  BY <1>1, ExplainInvariance, PTL

\* Nothing is made up for what is missing or old (evaluator.ts:142-172).
THEOREM Honest == ExplainSpec => []NothingIsMadeUp
<1>1. ExplainIInv => NothingIsMadeUp
  BY DEF ExplainIInv, Right
<1>. QED
  BY <1>1, ExplainInvariance, PTL

\* A deeper fall never moves the blame away from the coin, for any changes and any depth
\* (explain.ts:82-118).
THEOREM Blamed == ExplainSpec => []BlameFollowsDepth
<1>1. ExplainIInv => BlameFollowsDepth
  BY DEF ExplainIInv, Right
<1>. QED
  BY <1>1, ExplainInvariance, PTL

\* Swaps are safe, and missing only if there is none, for any coins, chains, holdings and
\* quotes (actions.ts:61-147).
THEOREM SafeSwaps == ExplainSpec => []SwapsAreSafe
<1>1. ExplainIInv => SwapsAreSafe
  BY DEF ExplainIInv, Right
<1>. QED
  BY <1>1, ExplainInvariance, PTL
=============================================================================
