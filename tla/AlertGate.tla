------------------------------ MODULE AlertGate ------------------------------
(***************************************************************************)
(* The alert-fatigue gate of packages/alerts/src/engine.ts: which of the   *)
(* candidates that the rules of one poll produced are emitted.  In order:  *)
(* cooldown per dedupe key, roll-up of single-coin drops into the          *)
(* portfolio alert, a daily cap on critical alerts and a weekly cap on the *)
(* rest, the highest scores first.                                         *)
(*                                                                         *)
(* The module has no state.  Time is an integer in a unit the constants    *)
(* share: Day, Week and Cooldown give the lengths the code writes in       *)
(* milliseconds.  A candidate keeps the four fields the gate reads.        *)
(***************************************************************************)
EXTENDS Integers, FiniteSets

CONSTANTS
  DedupeKey,           \* the dedupe keys of one user's possible alerts
  Cooldown,            \* COOLDOWN_MS: kind -> how long it stays silent
  Day, Week,           \* the windows of the two caps
  CriticalPerDayCap,   \* CRITICAL_PER_DAY_CAP
  MaxWeeklyCap         \* the largest weeklyCap the preferences schema accepts

AlertKind ==
  {"price_drop_1h", "price_drop_24h", "below_cost_basis", "near_low", "depeg",
   "stable_volume_anomaly", "volume_spike", "volume_dry_up",
   "category_rotation", "portfolio_drop", "rwa_drift"}

Severity == {"info", "warning", "critical"}

\* Kinds about one coin's price; the portfolio alert covers them.
TokenDrop == {"price_drop_1h", "price_drop_24h"}

\* The order of severities, as numbers so that they can be compared.
SeverityWeight == [info |-> 10, warning |-> 50, critical |-> 100]

Rank(severity) == SeverityWeight[severity]

Candidate ==
  [kind : AlertKind, severity : Severity, dedupeKey : DedupeKey, score : Nat]

\* A row of the alerts table, as far as the gate reads it (PastAlert).
AlertRow ==
  [kind : AlertKind, severity : Severity, dedupeKey : DedupeKey,
   createdAt : Nat, simulated : BOOLEAN]

ASSUME GateAssumption ==
  /\ Cooldown \in [AlertKind -> Nat \ {0}]
  /\ Day \in Nat \ {0}
  /\ Week \in Nat \ {0}
  /\ CriticalPerDayCap \in Nat
  /\ MaxWeeklyCap \in Nat \ {0}

-----------------------------------------------------------------------------
(* Cooldown *)

Real(rows) == {a \in rows : ~a.simulated}

IsCritical(x) == x.severity = "critical"

\* Slip: simulated alerts count as well.
LatestOfAnyFor(past, key) ==
  {p \in past :
     /\ p.dedupeKey = key
     /\ \A q \in past : q.dedupeKey = key => q.createdAt <= p.createdAt}

\* The newest real alert with this key; empty when there is none.
LatestFor(past, key) ==
  {p \in Real(past) :
     /\ p.dedupeKey = key
     /\ \A q \in Real(past) : q.dedupeKey = key => q.createdAt <= p.createdAt}

\* Two kinds share a key when they report the same thing (a coin's drop over
\* an hour and over a day); the longer of their cooldowns applies.
Window(kind, lastKind) ==
  IF Cooldown[kind] >= Cooldown[lastKind] THEN Cooldown[kind] ELSE Cooldown[lastKind]

Escalates(c, last) == Rank(c.severity) > Rank(last.severity)

InCooldown(c, past, now) ==
  \E last \in LatestFor(past, c.dedupeKey) :
    /\ now - last.createdAt < Window(c.kind, last.kind)
    /\ ~Escalates(c, last)

AfterCooldown(candidates, past, now) ==
  {c \in candidates : ~InCooldown(c, past, now)}

-----------------------------------------------------------------------------
(* Roll-up *)

HasPortfolio(candidates) == \E c \in candidates : c.kind = "portfolio_drop"

\* Slip: any critical alert stands for the coins, not the portfolio's alone.
RolledUpByAny(candidates) ==
  {c \in candidates :
     /\ \E d \in candidates : IsCritical(d)
     /\ c.kind \in TokenDrop
     /\ ~IsCritical(c)}

RolledUp(candidates) ==
  {c \in candidates :
     /\ HasPortfolio(candidates)
     /\ c.kind \in TokenDrop
     /\ ~IsCritical(c)}

Surviving(candidates, past, now) ==
  LET passed == AfterCooldown(candidates, past, now)
  IN  passed \ RolledUp(passed)

-----------------------------------------------------------------------------
(* Caps *)

\* Slip: the window of a day is a tick short.
CriticalLately(past, now) ==
  Cardinality({p \in Real(past) : IsCritical(p) /\ now - p.createdAt < Day - 1})

CriticalToday(past, now) ==
  Cardinality({p \in Real(past) : IsCritical(p) /\ now - p.createdAt < Day})

NonCriticalWeek(past, now) ==
  Cardinality({p \in Real(past) : ~IsCritical(p) /\ now - p.createdAt < Week})

\* What a cap leaves: never below zero.
Room(cap, used) == IF used >= cap THEN 0 ELSE cap - used

\* The n highest scores of a set.  Candidates with equal scores keep the order
\* in which the rules produced them; here any of them may come first.
Best(candidates, n) ==
  {S \in SUBSET candidates :
     /\ Cardinality(S) <= n
     /\ S # candidates => Cardinality(S) = n
     /\ \A x \in S, y \in candidates \ S : x.score >= y.score}

\* The sets of candidates that one evaluation may emit.
Emissions(candidates, past, now, weeklyCap) ==
  LET surviving == Surviving(candidates, past, now)
      critical  == {c \in surviving : IsCritical(c)}
      rest      == {c \in surviving : ~IsCritical(c)}
  IN  {C \cup R :
         C \in Best(critical, Room(CriticalPerDayCap, CriticalToday(past, now))),
         R \in Best(rest, Room(weeklyCap, NonCriticalWeek(past, now)))}

\* The order in which they are emitted: critical ones first, then by score.
Before(c, d) ==
  \/ IsCritical(c) /\ ~IsCritical(d)
  \/ (IsCritical(c) <=> IsCritical(d)) /\ c.score > d.score
=============================================================================
