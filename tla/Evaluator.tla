------------------------------ MODULE Evaluator ------------------------------
(***************************************************************************)
(* Evaluation of one user (apps/api/src/services/evaluator.ts): load a     *)
(* snapshot, run the engine's gate on the candidates of the rules, store   *)
(* the emitted alerts row by row, then deliver them (module Delivery says  *)
(* what that does; here the evaluation just stays busy meanwhile).         *)
(*                                                                         *)
(* Between any two of those steps the process yields: time passes, the     *)
(* user changes the weekly cap or asks for a simulated alert, an insert    *)
(* fails, or the process dies and a later poll starts afresh.  The poller  *)
(* never runs two evaluations at once, so there is one evaluation here.    *)
(***************************************************************************)
EXTENDS AlertGate

CONSTANTS
  Candidates,     \* the candidates the rules can produce for this user
  Lookback,       \* how far back pastAlerts reads (8 days)
  MaxSimulated,   \* bound on the simulated alerts
  MaxClock        \* bound on the clock

ASSUME EvaluatorAssumption ==
  /\ Candidates \subseteq Candidate
  /\ Lookback \in Nat
  /\ Day <= Lookback
  /\ Week <= Lookback
  /\ \A kind \in AlertKind : Cooldown[kind] <= Lookback
  /\ MaxSimulated \in Nat
  /\ MaxClock \in Nat

VARIABLES
  clock,      \* now()
  alerts,     \* the user's rows of the alerts table
  weeklyCap,  \* users.preferences.weeklyCap
  phase,      \* of the evaluation: "idle", "loading" its input, "storing" its rows
  capSeen,    \* the weekly cap in the user row that it works from
  loadedAt,   \* its input.now
  output,     \* what evaluate() returned to it
  plan        \* emitted candidates that persist() has still to insert

vars == <<clock, alerts, weeklyCap, phase, capSeen, loadedAt, output, plan>>

evaluation == <<phase, capSeen, loadedAt, output, plan>>

NoOutput == [batch |-> {}, rolled |-> {}, emit |-> {}]

\* The rules produce at most one candidate per dedupe key: they merge the rows
\* of a coin, and report a coin's drop over the hour or over the day.
Batches ==
  {B \in SUBSET Candidates :
     /\ IsFiniteSet(B)
     /\ \A c, d \in B : c.dedupeKey = d.dedupeKey => c = d}

\* pastAlerts: the rows of the last Lookback.
PastAlerts == {a \in alerts : a.createdAt > clock - Lookback}

\* Slip: the row carries the time of the decision.
RowAsDecided(c, simulated) ==
  [kind |-> c.kind, severity |-> c.severity, dedupeKey |-> c.dedupeKey,
   createdAt |-> loadedAt, simulated |-> simulated]

Row(c, simulated) ==
  [kind |-> c.kind, severity |-> c.severity, dedupeKey |-> c.dedupeKey,
   createdAt |-> clock, simulated |-> simulated]

\* The scenarios of simulate() produce these kinds.
Simulated ==
  {c \in Candidates :
     c.kind \in {"price_drop_24h", "volume_spike", "depeg", "portfolio_drop"}}

-----------------------------------------------------------------------------
Init ==
  /\ clock = 0
  /\ alerts = {}
  /\ weeklyCap \in 1..MaxWeeklyCap
  /\ phase = "idle"
  /\ capSeen = 0
  /\ loadedAt = 0
  /\ output = NoOutput
  /\ plan = {}

\* The poller reads the user's row, preferences and all, and awaits the rest of
\* the input.  A poll starts at least a tick after the previous one stored its
\* last row, so its clock is later than theirs.
Load ==
  /\ phase = "idle"
  /\ \A a \in Real(alerts) : a.createdAt < clock
  /\ phase' = "loading"
  /\ capSeen' = weeklyCap
  /\ UNCHANGED <<clock, alerts, weeklyCap, loadedAt, output, plan>>

\* The input is complete and evaluate() decides, with no await in between.
Evaluate(batch) ==
  /\ phase = "loading"
  /\ phase' = "storing"
  /\ loadedAt' = clock
  /\ plan' \in Emissions(batch, PastAlerts, clock, capSeen)
  /\ output' = [batch  |-> batch,
                rolled |-> RolledUp(AfterCooldown(batch, PastAlerts, clock)),
                emit   |-> plan']
  /\ UNCHANGED <<clock, alerts, weeklyCap, capSeen>>

\* One insertAlert of persist(), in the order the engine emitted.
Insert(c) ==
  /\ phase = "storing"
  /\ \A d \in plan : ~Before(d, c)
  /\ alerts' = alerts \cup {Row(c, FALSE)}
  /\ plan' = plan \ {c}
  /\ UNCHANGED <<clock, weeklyCap, phase, capSeen, loadedAt, output>>

Forget ==
  /\ phase' = "idle"
  /\ capSeen' = 0
  /\ loadedAt' = 0
  /\ output' = NoOutput
  /\ plan' = {}
  /\ UNCHANGED <<clock, alerts, weeklyCap>>

\* Every row is stored, and delivered as far as that went.
Finish == phase = "storing" /\ plan = {} /\ Forget

\* A failed query or insert throws, and the poller goes on to the next user; a
\* user without holdings is left alone; a crash of the process leaves the same
\* behind: some rows, and no plan.
Abort == (phase = "loading" \/ plan # {}) /\ Forget

\* simulate(): the engine runs on a made-up input with no past alerts and one
\* candidate is stored, flagged.  It may run in the middle of an evaluation.
Simulate(c) ==
  /\ Cardinality(alerts \ Real(alerts)) < MaxSimulated
  /\ alerts' = alerts \cup {Row(c, TRUE)}
  /\ UNCHANGED <<clock, weeklyCap, evaluation>>

SetWeeklyCap(cap) ==
  /\ cap # weeklyCap
  /\ weeklyCap' = cap
  /\ UNCHANGED <<clock, alerts, evaluation>>

Tick ==
  /\ clock < MaxClock
  /\ clock' = clock + 1
  /\ UNCHANGED <<alerts, weeklyCap, evaluation>>

Next ==
  \/ Load
  \/ \E batch \in Batches : Evaluate(batch)
  \/ \E c \in plan : Insert(c)
  \/ Finish
  \/ Abort
  \/ \E c \in Simulated : Simulate(c)
  \/ \E cap \in 1..MaxWeeklyCap : SetWeeklyCap(cap)
  \/ Tick

Spec == Init /\ [][Next]_vars

-----------------------------------------------------------------------------
(* Correctness *)

TypeOK ==
  /\ clock \in Nat
  /\ alerts \subseteq AlertRow
  /\ weeklyCap \in 1..MaxWeeklyCap
  /\ phase \in {"idle", "loading", "storing"}
  /\ capSeen \in 0..MaxWeeklyCap
  /\ loadedAt \in Nat
  /\ output \in [batch : SUBSET Candidates, rolled : SUBSET Candidates,
                 emit : SUBSET Candidates]
  /\ plan \subseteq Candidates

\* The real critical, and other, alerts whose window of that length holds t.
CriticalAround(t) ==
  {a \in Real(alerts) : IsCritical(a) /\ a.createdAt <= t /\ t - a.createdAt < Day}

OthersAround(t) ==
  {a \in Real(alerts) : ~IsCritical(a) /\ a.createdAt <= t /\ t - a.createdAt < Week}

\* Critical alerts keep to their cap in every window of a day, whatever
\* happens between the decision and the inserts (engine.ts:135-150).
CriticalCapHolds ==
  \A t \in 0..clock : Cardinality(CriticalAround(t)) <= CriticalPerDayCap

\* The others keep to the largest weekly cap in every window of a week, even
\* when the user moves the cap while a batch is being stored (engine.ts:151-159).
WeeklyCapHolds ==
  \A t \in 0..clock : Cardinality(OthersAround(t)) <= MaxWeeklyCap

\* Both caps.
CapsHold == CriticalCapHolds /\ WeeklyCapHolds

\* Two real alerts in a row with one dedupe key are apart by the longer of
\* their kinds' cooldowns, or the second is worse (engine.ts:109-121).
CooldownHolds ==
  \A a, b \in Real(alerts) :
    /\ a.dedupeKey = b.dedupeKey
    /\ a # b
    /\ a.createdAt <= b.createdAt
    /\ \A m \in Real(alerts) :
         m.dedupeKey = a.dedupeKey => m.createdAt <= a.createdAt \/ m.createdAt >= b.createdAt
    => b.createdAt - a.createdAt >= Window(b.kind, a.kind) \/ Escalates(b, a)

\* The real alerts that were stored before the current evaluation began.
Earlier == {a \in Real(alerts) : a.createdAt < loadedAt}

\* Nothing earlier with its key holds c back.
DueAgain(c) ==
  \A a \in Earlier :
    a.dedupeKey = c.dedupeKey =>
      loadedAt - a.createdAt >= Window(c.kind, a.kind) \/ Escalates(c, a)

\* The gate is never silent without a reason (engine.ts:107-148).  A candidate that is due
\* and still not emitted was either rolled up, or its cap is used up by the real alerts before
\* and the candidates that are emitted, each of which scores at least as high.  Simulated
\* rows, the cooldown of the portfolio alert and the caps of the other class are no reasons.
NeverSilenced ==
  LET critical == {e \in output.emit : IsCritical(e)}
      others   == output.emit \ critical
      beats(S, c) == \A e \in S : e.score >= c.score
  IN
  phase = "storing" =>
    \A c \in output.batch \ output.emit :
      DueAgain(c) =>
        IF IsCritical(c)
        THEN CriticalToday(Earlier, loadedAt) + Cardinality(critical) >= CriticalPerDayCap
             /\ beats(critical, c)
        ELSE \/ c \in output.rolled
             \/ NonCriticalWeek(Earlier, loadedAt) + Cardinality(others) >= capSeen
                /\ beats(others, c)

\* Drops that were held back because the portfolio alert covers them are covered
\* by one, which goes out with the same evaluation (engine.ts:123-131), unless the
\* cap of its class is used up by the time of its turn: the roll-up is decided
\* before the caps, so that nothing at all may go out.
RolledUpIsCovered ==
  LET critical == {e \in output.emit : IsCritical(e)}
      others   == output.emit \ critical
  IN
  output.rolled # {} =>
    \/ HasPortfolio(output.emit)
    \/ \E p \in output.batch :
         /\ HasPortfolio({p})
         /\ IF IsCritical(p)
            THEN CriticalToday(Earlier, loadedAt) + Cardinality(critical) >= CriticalPerDayCap
            ELSE NonCriticalWeek(Earlier, loadedAt) + Cardinality(others) >= capSeen

Policy == INSTANCE AlertPolicy WITH now <- clock, raised <- Real(alerts)

\* Deciding a batch on a snapshot and storing it later, row by row, amounts to
\* raising alerts one at a time under the caps and cooldowns of that moment.
ImplementsPolicy == Policy!PolicySpec

-----------------------------------------------------------------------------
(* Why it does: what holds between the decision and the last insert.  The     *)
(* inductive invariant of EvaluatorProofs is the conjunction of these.        *)

TypesAndTimes ==
  /\ TypeOK
  /\ IsFiniteSet(alerts)
  /\ IsFiniteSet(plan)
  /\ \A a \in alerts : a.createdAt <= clock
  /\ loadedAt <= clock
  /\ phase = "loading" => \A a \in Real(alerts) : a.createdAt < clock

\* A batch never holds two candidates that would cool each other down.
PlanKeysDiffer == \A c, d \in plan : c.dedupeKey = d.dedupeKey => c = d

\* What was due when the batch was decided is still due, because nothing with
\* its key has been stored since.
PlanDue ==
  \A c \in plan :
    /\ \A a \in Real(alerts) : a.dedupeKey = c.dedupeKey => a.createdAt < loadedAt
    /\ \A last \in LatestFor(alerts, c.dedupeKey) :
         loadedAt - last.createdAt >= Window(c.kind, last.kind) \/ Escalates(c, last)

PlannedCritical == {c \in plan : IsCritical(c)}

PlannedOthers == {c \in plan : ~IsCritical(c)}

\* The rest of a batch fits under its cap together with what is stored.
PlanFits ==
  /\ PlannedCritical # {} =>
       CriticalToday(alerts, loadedAt) + Cardinality(PlannedCritical) <= CriticalPerDayCap
  /\ PlannedOthers # {} =>
       NonCriticalWeek(alerts, loadedAt) + Cardinality(PlannedOthers) <= MaxWeeklyCap

IInv == TypesAndTimes /\ PlanKeysDiffer /\ PlanDue /\ PlanFits
=============================================================================
