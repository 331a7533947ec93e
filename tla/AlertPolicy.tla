----------------------------- MODULE AlertPolicy -----------------------------
(***************************************************************************)
(* What the alert-fatigue rules promise a user, with no word on how they   *)
(* are kept: alerts are raised one at a time, and one is raised only while *)
(* its cap has room in the window that ends now and no alert with the same *)
(* dedupe key is still cooling down, unless this one is worse.             *)
(*                                                                         *)
(* Evaluator, which decides a whole batch from a snapshot and stores it    *)
(* row by row later, is shown to implement this.                           *)
(***************************************************************************)
EXTENDS AlertGate

VARIABLES
  now,     \* the time
  raised   \* the alerts raised so far, as rows of the alerts table

policyVars == <<now, raised>>

HasRoom(a) ==
  IF IsCritical(a)
  THEN CriticalToday(raised, now) < CriticalPerDayCap
  ELSE NonCriticalWeek(raised, now) < MaxWeeklyCap

Raise(a) ==
  /\ raised' = raised \cup {a}
  /\ \A r \in raised : r.dedupeKey = a.dedupeKey => r.createdAt < now
  /\ ~InCooldown(a, raised, now)
  /\ HasRoom(a)
  /\ UNCHANGED now

RaiseSome ==
  \E kind \in AlertKind, severity \in Severity, key \in DedupeKey :
    Raise([kind |-> kind, severity |-> severity, dedupeKey |-> key,
           createdAt |-> now, simulated |-> FALSE])

Pass ==
  /\ now' \in Nat
  /\ now' > now
  /\ UNCHANGED raised

PolicyInit == now = 0 /\ raised = {}

PolicyNext == RaiseSome \/ Pass

PolicySpec == PolicyInit /\ [][PolicyNext]_policyVars

-----------------------------------------------------------------------------
(* What follows from raising alerts this way *)

PolicyTypeOK ==
  /\ now \in Nat
  /\ raised \subseteq AlertRow
  /\ IsFiniteSet(raised)
  /\ \A r \in raised : r.createdAt <= now /\ ~r.simulated

\* The alerts, critical or not, raised in the window of a cap that ends at t.
CriticalInDay(t) ==
  {r \in raised : IsCritical(r) /\ r.createdAt <= t /\ t - r.createdAt < Day}

OthersInWeek(t) ==
  {r \in raised : ~IsCritical(r) /\ r.createdAt <= t /\ t - r.createdAt < Week}

CapsHold ==
  \A t \in 0..now :
    /\ Cardinality(CriticalInDay(t)) <= CriticalPerDayCap
    /\ Cardinality(OthersInWeek(t)) <= MaxWeeklyCap

\* b is the next alert raised for a's dedupe key.
NextForKey(a, b) ==
  /\ a.dedupeKey = b.dedupeKey
  /\ a # b
  /\ a.createdAt <= b.createdAt
  /\ \A m \in raised :
       m.dedupeKey = a.dedupeKey => m.createdAt <= a.createdAt \/ m.createdAt >= b.createdAt

CooldownsHold ==
  \A a, b \in raised :
    NextForKey(a, b) =>
      b.createdAt - a.createdAt >= Window(b.kind, a.kind) \/ Escalates(b, a)
=============================================================================
