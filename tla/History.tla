-------------------------------- MODULE History --------------------------------
(***************************************************************************)
(* What a coin's daily prices say of the past                              *)
(* (packages/alerts/src/similar-drops.ts): the falls like today's, slides  *)
(* of several days counted once, and the stretches a stablecoin spent      *)
(* below its floor.  Each step of the module is one turn of a loop.        *)
(*                                                                         *)
(* Points are in order, without the ones that carry no price, and times    *)
(* are whole days.  Medians and extremes of what is counted are left out.  *)
(***************************************************************************)
EXTENDS Integers, Sequences

CONSTANTS
  Histories, \* sequences of [day, price]
  Falls,     \* what may count as a fall, in tenths of a percent
  Floor,     \* depegFloorUsd
  Recent,    \* RECENT_EXCLUDE_DAYS
  Merge,     \* MERGE_WITHIN_DAYS
  None

Point == [day : Nat, price : Nat \ {0}]

ASSUME HistoryAssumption ==
  /\ Histories \subseteq Seq(Point)
  /\ Falls \subseteq Nat /\ Floor \in Nat /\ Recent \in Nat /\ Merge \in Nat
  /\ None \notin Nat

VARIABLES
  pts,    \* the points that are looked at
  fall,   \* thresholdPct
  loop,   \* which of the two loops runs
  i,      \* its index
  last,   \* lastEventIndex, or None
  events, \* the points at which events started
  start,  \* startIndex, or None
  spells  \* the stretches that have ended, by their first point and the point after

history == <<pts, fall, loop, i, last, events, start, spells>>

\* The day's close is lower than the day before's by the threshold, and it is not what
\* is being explained.
Counts(k) ==
  /\ 1000 * pts[k].price <= (1000 - fall) * pts[k - 1].price
  /\ pts[Len(pts)].day - pts[k].day >= Recent

Below(k) == pts[k].price < Floor

Rest ==
  /\ pts = <<>> /\ fall = 0 /\ loop = "none" /\ i = 1
  /\ last = None /\ events = {} /\ start = None /\ spells = {}

\* findSimilarDrops, summarizePegExcursions: the loops begin.
Begin(points, percent, which) ==
  /\ pts' = points /\ fall' = percent /\ loop' = which
  /\ i' = IF which = "drops" THEN 2 ELSE 1
  /\ last' = None /\ events' = {} /\ start' = None /\ spells' = {}

\* Slip: a day of a slide is compared with the day the slide began.
DropTurnFromStart ==
  /\ loop = "drops" /\ i <= Len(pts)
  /\ i' = i + 1
  /\ IF Counts(i) /\ (last = None \/ i - last > Merge)
     THEN last' = i /\ events' = events \cup {i}
     ELSE UNCHANGED <<last, events>>
  /\ UNCHANGED <<pts, fall, loop, start, spells>>

\* A fall is an event of its own unless it goes on with a slide; it prolongs the slide
\* either way.
DropTurn ==
  /\ loop = "drops" /\ i <= Len(pts)
  /\ i' = i + 1
  /\ IF Counts(i)
     THEN /\ last' = i
          /\ events' = IF last # None /\ i - last <= Merge THEN events ELSE events \cup {i}
     ELSE UNCHANGED <<last, events>>
  /\ UNCHANGED <<pts, fall, loop, start, spells>>

PegTurn ==
  /\ loop = "peg" /\ i <= Len(pts)
  /\ i' = i + 1
  /\ IF Below(i)
     THEN start' = (IF start = None THEN i ELSE start) /\ spells' = spells
     ELSE start' = None /\ spells' = (IF start = None THEN spells ELSE spells \cup {<<start, i>>})
  /\ UNCHANGED <<pts, fall, loop, last, events>>

Walked == loop # "none" /\ i > Len(pts)

Init == Rest

Next ==
  \/ \E points \in Histories, percent \in Falls, which \in {"drops", "peg"} : Begin(points, percent, which)
  \/ DropTurn
  \/ PegTurn

Spec == Init /\ [][Next]_history

-----------------------------------------------------------------------------
(* Correctness *)

\* The falls that are not within Merge points of another one before.
Slides ==
  {k \in 2..Len(pts) : Counts(k) /\ \A f \in 2..(k - 1) : Counts(f) => k - f > Merge}

\* The falls that are counted are exactly those that no earlier fall runs into
\* (similar-drops.ts:28-48).
DropsAreCounted == Walked /\ loop = "drops" => events = Slides

\* The longest stretches below the floor, each with the point that ended it.
Stretches ==
  {s \in (1..Len(pts)) \X (1..Len(pts)) :
     /\ s[1] < s[2] /\ ~Below(s[2])
     /\ \A k \in s[1]..(s[2] - 1) : Below(k)
     /\ s[1] = 1 \/ ~Below(s[1] - 1)}

\* Every stretch below the floor is counted once, from its first day to the first day
\* after it; the one that has not ended is the last (similar-drops.ts:75-89).
SpellsAreCounted ==
  Walked /\ loop = "peg" =>
    /\ spells = Stretches
    /\ IF start = None THEN pts = <<>> \/ ~Below(Len(pts))
       ELSE /\ start \in 1..Len(pts)
            /\ \A k \in start..Len(pts) : Below(k)
            /\ start = 1 \/ ~Below(start - 1)

\* The past that users read about is what the prices say, however the loops got there:
\* falls and stretches alike (similar-drops.ts:22-99).
HistoryIsRight == DropsAreCounted /\ SpellsAreCounted
=============================================================================
