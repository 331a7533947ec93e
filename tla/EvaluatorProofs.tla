--------------------------- MODULE EvaluatorProofs ---------------------------
(***************************************************************************)
(* Proofs about Evaluator: its inductive invariant, that it implements     *)
(* AlertPolicy, and with that the caps and the cooldowns, for every set of *)
(* candidates, every cooldown and every cap.  Then about Rules, which      *)
(* finds the candidates: which they are, that a deeper fall is never       *)
(* quieter, that stale quotes say nothing, that a portfolio alert has a    *)
(* cause and that the way in which holdings are booked does not matter,    *)
(* for every set of coins, rows, quotes and preferences.                   *)
(***************************************************************************)
EXTENDS Evaluator, Rules, FiniteSetTheorems, WellFoundedInduction, SequenceTheorems, TLAPS

(* Lemmas about the gate *)

LEMMA WindowBounds ==
  ASSUME NEW k \in AlertKind, NEW l \in AlertKind
  PROVE  Window(k, l) \in Nat /\ Window(k, l) <= Lookback
BY GateAssumption, EvaluatorAssumption DEF Window

\* The rows that pastAlerts leaves out are too old for any cooldown ...
LEMMA NewestInSight ==
  ASSUME TypesAndTimes, NEW key, NEW last \in LatestFor(alerts, key)
  PROVE  \/ last \in LatestFor(PastAlerts, key)
         \/ clock - last.createdAt >= Lookback
<1>1. last \in alerts /\ last \in AlertRow /\ clock \in Nat /\ Lookback \in Nat
  BY EvaluatorAssumption DEF TypesAndTimes, TypeOK, LatestFor, Real
<1>2. CASE last \in PastAlerts
  BY <1>2 DEF LatestFor, Real, PastAlerts
<1>3. CASE last \notin PastAlerts
  BY <1>1, <1>3 DEF PastAlerts, AlertRow
<1> QED
  BY <1>2, <1>3

\* ... and for the windows of the caps.
LEMMA CountsInSight ==
  ASSUME TypesAndTimes
  PROVE  /\ CriticalToday(PastAlerts, clock) = CriticalToday(alerts, clock)
         /\ NonCriticalWeek(PastAlerts, clock) = NonCriticalWeek(alerts, clock)
<1>1. \A a \in alerts : a.createdAt \in Nat
  BY DEF TypesAndTimes, TypeOK, AlertRow
<1>2. clock \in Nat /\ Day \in Nat /\ Week \in Nat /\ Lookback \in Nat
      /\ Day <= Lookback /\ Week <= Lookback
  BY GateAssumption, EvaluatorAssumption DEF TypesAndTimes, TypeOK
<1>3. {p \in Real(PastAlerts) : IsCritical(p) /\ clock - p.createdAt < Day}
        = {p \in Real(alerts) : IsCritical(p) /\ clock - p.createdAt < Day}
  BY <1>1, <1>2 DEF Real, PastAlerts
<1>4. {p \in Real(PastAlerts) : ~IsCritical(p) /\ clock - p.createdAt < Week}
        = {p \in Real(alerts) : ~IsCritical(p) /\ clock - p.createdAt < Week}
  BY <1>1, <1>2 DEF Real, PastAlerts
<1> QED
  BY <1>3, <1>4 DEF CriticalToday, NonCriticalWeek

\* A count is a number, and counts no more when time has passed.
LEMMA CountsShrink ==
  ASSUME TypesAndTimes, NEW t \in Nat, t <= clock
  PROVE  /\ CriticalToday(alerts, t) \in Nat /\ NonCriticalWeek(alerts, t) \in Nat
         /\ CriticalToday(alerts, clock) \in Nat /\ NonCriticalWeek(alerts, clock) \in Nat
         /\ CriticalToday(alerts, clock) <= CriticalToday(alerts, t)
         /\ NonCriticalWeek(alerts, clock) <= NonCriticalWeek(alerts, t)
<1> DEFINE C(u) == {p \in Real(alerts) : IsCritical(p) /\ u - p.createdAt < Day}
           O(u) == {p \in Real(alerts) : ~IsCritical(p) /\ u - p.createdAt < Week}
<1>1. \A a \in alerts : a.createdAt \in Nat
  BY DEF TypesAndTimes, TypeOK, AlertRow
<1>2. clock \in Nat /\ Day \in Nat /\ Week \in Nat
  BY GateAssumption DEF TypesAndTimes, TypeOK
<1>3. C(clock) \subseteq C(t) /\ O(clock) \subseteq O(t)
  BY <1>1, <1>2 DEF Real
<1>4. /\ C(clock) \subseteq alerts /\ C(t) \subseteq alerts
      /\ O(clock) \subseteq alerts /\ O(t) \subseteq alerts
  BY DEF Real
<1>5. /\ IsFiniteSet(C(clock)) /\ IsFiniteSet(C(t))
      /\ IsFiniteSet(O(clock)) /\ IsFiniteSet(O(t))
  BY <1>4, FS_Subset DEF TypesAndTimes
<1> HIDE DEF C, O
<1>6. /\ Cardinality(C(clock)) \in Nat /\ Cardinality(C(t)) \in Nat
      /\ Cardinality(O(clock)) \in Nat /\ Cardinality(O(t)) \in Nat
      /\ Cardinality(C(clock)) <= Cardinality(C(t))
      /\ Cardinality(O(clock)) <= Cardinality(O(t))
  BY <1>3, <1>5, FS_Subset, FS_CardinalityType
<1> QED
  BY <1>6 DEF CriticalToday, NonCriticalWeek, C, O

LEMMA GainOne ==
  ASSUME NEW S, NEW T, NEW x, IsFiniteSet(S), T \subseteq S \cup {x}
  PROVE  IsFiniteSet(T) /\ Cardinality(T) \in Nat /\ Cardinality(T) <= Cardinality(S) + 1
<1>1. IsFiniteSet(S \cup {x}) /\ Cardinality(S) \in Nat
  BY FS_AddElement, FS_CardinalityType
<1>2. Cardinality(S \cup {x}) = Cardinality(S) \/ Cardinality(S \cup {x}) = Cardinality(S) + 1
  BY FS_AddElement
<1>3. IsFiniteSet(T) /\ Cardinality(T) <= Cardinality(S \cup {x})
  BY <1>1, FS_Subset
<1>4. Cardinality(T) \in Nat
  BY <1>3, FS_CardinalityType
<1> QED
  BY <1>1, <1>2, <1>3, <1>4

-----------------------------------------------------------------------------
(* The inductive invariant, action by action *)

LEMMA NoOutputType ==
  NoOutput \in [batch : SUBSET Candidates, rolled : SUBSET Candidates,
                emit : SUBSET Candidates]
BY DEF NoOutput

LEMMA InitHolds == Init => IInv
<1> SUFFICES ASSUME Init PROVE IInv
  OBVIOUS
<1>1. IsFiniteSet({})
  BY FS_EmptySet
<1>2. TypesAndTimes
  <2>1. output \in [batch : SUBSET Candidates, rolled : SUBSET Candidates,
                     emit : SUBSET Candidates]
    BY NoOutputType DEF Init
  <2>2. /\ clock \in Nat /\ loadedAt \in Nat /\ capSeen \in 0..MaxWeeklyCap
        /\ phase \in {"idle", "loading", "storing"} /\ phase # "loading"
    BY GateAssumption DEF Init
  <2>3. loadedAt <= clock /\ \A a \in alerts : a.createdAt <= clock
    BY DEF Init
  <2>4. /\ alerts \subseteq AlertRow /\ plan \subseteq Candidates
        /\ weeklyCap \in 1..MaxWeeklyCap
        /\ IsFiniteSet(alerts) /\ IsFiniteSet(plan)
    BY <1>1 DEF Init
  <2> QED
    BY <2>1, <2>2, <2>3, <2>4 DEF TypesAndTimes, TypeOK
<1> QED
  BY <1>2 DEF Init, IInv, PlanKeysDiffer, PlanDue, PlanFits, PlannedCritical, PlannedOthers

\* What an evaluation decides: a part of its batch, due, and within the caps.
LEMMA Decision ==
  ASSUME IInv, NEW batch \in Batches,
         NEW E \in Emissions(batch, PastAlerts, clock, capSeen)
  PROVE  /\ E \subseteq AfterCooldown(batch, PastAlerts, clock)
         /\ {c \in E : IsCritical(c)} # {} =>
              CriticalToday(alerts, clock) + Cardinality({c \in E : IsCritical(c)})
                <= CriticalPerDayCap
         /\ {c \in E : ~IsCritical(c)} # {} =>
              NonCriticalWeek(alerts, clock) + Cardinality({c \in E : ~IsCritical(c)})
                <= MaxWeeklyCap
<1> DEFINE surviving == Surviving(batch, PastAlerts, clock)
           critical  == {c \in surviving : IsCritical(c)}
           rest      == {c \in surviving : ~IsCritical(c)}
           usedC     == CriticalToday(PastAlerts, clock)
           usedW     == NonCriticalWeek(PastAlerts, clock)
<1>1. PICK C \in Best(critical, Room(CriticalPerDayCap, usedC)),
           R \in Best(rest, Room(capSeen, usedW)) : E = C \cup R
  BY DEF Emissions
<1>2. C \subseteq critical /\ Cardinality(C) <= Room(CriticalPerDayCap, usedC)
  BY <1>1 DEF Best
<1>3. R \subseteq rest /\ Cardinality(R) <= Room(capSeen, usedW)
  BY <1>1 DEF Best
<1>4. {c \in E : IsCritical(c)} = C /\ {c \in E : ~IsCritical(c)} = R
  BY <1>1, <1>2, <1>3
<1>5. E \subseteq AfterCooldown(batch, PastAlerts, clock)
  BY <1>1, <1>2, <1>3 DEF Surviving
<1>6. IsFiniteSet(batch)
  BY DEF Batches
<1>7. C \subseteq batch /\ R \subseteq batch
  BY <1>2, <1>3 DEF Surviving, AfterCooldown
<1>8. IsFiniteSet(C) /\ IsFiniteSet(R)
  BY <1>6, <1>7, FS_Subset
<1>9. /\ Cardinality(C) \in Nat /\ (C # {} => Cardinality(C) > 0)
      /\ Cardinality(R) \in Nat /\ (R # {} => Cardinality(R) > 0)
  BY <1>8, FS_CardinalityType, FS_EmptySet
<1>10. /\ usedC = CriticalToday(alerts, clock) /\ usedC \in Nat
       /\ usedW = NonCriticalWeek(alerts, clock) /\ usedW \in Nat
  BY CountsInSight, CountsShrink DEF IInv, TypesAndTimes, TypeOK
<1>11. CriticalPerDayCap \in Nat /\ capSeen \in Nat /\ MaxWeeklyCap \in Nat
       /\ capSeen <= MaxWeeklyCap
  BY GateAssumption, EvaluatorAssumption DEF IInv, TypesAndTimes, TypeOK
<1> HIDE DEF usedC, usedW, surviving, critical, rest
<1>12. C # {} => usedC + Cardinality(C) <= CriticalPerDayCap
  BY <1>2, <1>9, <1>10, <1>11 DEF Room
<1>13. R # {} => usedW + Cardinality(R) <= MaxWeeklyCap
  BY <1>3, <1>9, <1>10, <1>11 DEF Room
<1> QED
  BY <1>4, <1>5, <1>10, <1>12, <1>13

LEMMA LoadKeeps ==
  ASSUME IInv, Load
  PROVE  IInv'
<1>1. /\ phase' = "loading" /\ capSeen' = weeklyCap
      /\ \A a \in Real(alerts) : a.createdAt < clock
      /\ UNCHANGED <<clock, alerts, weeklyCap, loadedAt, output, plan>>
  BY DEF Load
<1>2. capSeen' \in 0..MaxWeeklyCap
  BY <1>1, GateAssumption DEF IInv, TypesAndTimes, TypeOK
<1>3. TypesAndTimes'
  BY <1>1, <1>2 DEF IInv, TypesAndTimes, TypeOK
<1> QED
  BY <1>1, <1>3 DEF IInv, PlanKeysDiffer, PlanDue, PlanFits, PlannedCritical, PlannedOthers

LEMMA EvaluateKeeps ==
  ASSUME IInv, NEW batch \in Batches, Evaluate(batch)
  PROVE  IInv'
<1>1. /\ phase' = "storing" /\ loadedAt' = clock
      /\ plan' \in Emissions(batch, PastAlerts, clock, capSeen)
      /\ UNCHANGED <<clock, alerts, weeklyCap, capSeen>>
      /\ \A a \in Real(alerts) : a.createdAt < clock
  BY DEF Evaluate, IInv, TypesAndTimes
<1>2. plan' \subseteq AfterCooldown(batch, PastAlerts, clock)
  BY <1>1, Decision
<1>3. AfterCooldown(batch, PastAlerts, clock) \subseteq batch
  BY DEF AfterCooldown
<1>4. batch \subseteq Candidates /\ IsFiniteSet(batch)
  BY DEF Batches
<1>5. TypesAndTimes'
  <2>1. output' \in [batch : SUBSET Candidates, rolled : SUBSET Candidates,
                     emit : SUBSET Candidates]
    BY <1>2, <1>3, <1>4 DEF Evaluate, RolledUp
  <2>2. plan' \subseteq Candidates /\ IsFiniteSet(plan')
    BY <1>2, <1>3, <1>4, FS_Subset
  <2> QED
    BY <1>1, <2>1, <2>2 DEF IInv, TypesAndTimes, TypeOK
<1>6. PlanKeysDiffer'
  BY <1>2, <1>3 DEF PlanKeysDiffer, Batches
<1>7. PlanDue'
  <2> SUFFICES ASSUME NEW c \in plan'
               PROVE  /\ \A a \in Real(alerts) : a.dedupeKey = c.dedupeKey => a.createdAt < clock
                      /\ \A last \in LatestFor(alerts, c.dedupeKey) :
                           clock - last.createdAt >= Window(c.kind, last.kind) \/ Escalates(c, last)
    BY <1>1 DEF PlanDue
  <2>1. c \in AfterCooldown(batch, PastAlerts, clock) /\ c \in Candidates
    BY <1>2, <1>3, <1>4
  <2>2. ASSUME NEW last \in LatestFor(alerts, c.dedupeKey)
        PROVE  clock - last.createdAt >= Window(c.kind, last.kind) \/ Escalates(c, last)
    <3>1. /\ last \in AlertRow /\ c \in Candidate /\ clock \in Nat
          /\ c.kind \in AlertKind /\ last.kind \in AlertKind /\ last.createdAt \in Nat
      BY <2>1, <2>2, EvaluatorAssumption
      DEF IInv, TypesAndTimes, TypeOK, LatestFor, Real, AlertRow, Candidate
    <3>2. Window(c.kind, last.kind) \in Nat /\ Window(c.kind, last.kind) <= Lookback
      BY <3>1, WindowBounds
    <3>3. Lookback \in Nat
      BY EvaluatorAssumption
    <3>4. CASE last \in LatestFor(PastAlerts, c.dedupeKey)
      BY <2>1, <3>1, <3>2, <3>4 DEF AfterCooldown, InCooldown
    <3>5. CASE clock - last.createdAt >= Lookback
      BY <3>1, <3>2, <3>3, <3>5
    <3> QED
      BY <2>2, <3>4, <3>5, NewestInSight DEF IInv
  <2> QED
    BY <1>1, <2>2
<1>8. PlanFits'
  BY <1>1, Decision DEF PlanFits, PlannedCritical, PlannedOthers, CriticalToday, NonCriticalWeek
<1> QED
  BY <1>5, <1>6, <1>7, <1>8 DEF IInv

\* Inserting a planned candidate: its row is real and is stamped with the present.
LEMMA InsertedRow ==
  ASSUME IInv, NEW c \in plan, Insert(c)
  PROVE  /\ Row(c, FALSE) \in AlertRow
         /\ Row(c, FALSE).createdAt = clock
         /\ ~Row(c, FALSE).simulated
         /\ Row(c, FALSE).dedupeKey = c.dedupeKey
         /\ Row(c, FALSE).kind = c.kind
         /\ Row(c, FALSE).severity = c.severity
         /\ Real(alerts') = Real(alerts) \cup {Row(c, FALSE)}
<1>1. c \in Candidate /\ clock \in Nat
  BY EvaluatorAssumption DEF IInv, TypesAndTimes, TypeOK
<1>2. alerts' = alerts \cup {Row(c, FALSE)}
  BY DEF Insert
<1> QED
  BY <1>1, <1>2 DEF Row, AlertRow, Candidate, Real

LEMMA InsertKeeps ==
  ASSUME IInv, NEW c \in plan, Insert(c)
  PROVE  IInv'
<1> DEFINE row == Row(c, FALSE)
<1>1. /\ alerts' = alerts \cup {row} /\ plan' = plan \ {c}
      /\ UNCHANGED <<clock, weeklyCap, phase, capSeen, loadedAt, output>>
  BY DEF Insert
<1>2. /\ row \in AlertRow /\ row.createdAt = clock /\ ~row.simulated
      /\ row.dedupeKey = c.dedupeKey /\ row.severity = c.severity
      /\ Real(alerts') = Real(alerts) \cup {row}
  BY InsertedRow
<1>3. clock \in Nat /\ loadedAt \in Nat /\ loadedAt <= clock
  BY DEF IInv, TypesAndTimes, TypeOK
<1> HIDE DEF row
<1>4. TypesAndTimes'
  <2>1. IsFiniteSet(alerts') /\ IsFiniteSet(plan')
    BY <1>1, FS_AddElement, FS_Subset DEF IInv, TypesAndTimes
  <2>2. phase' # "loading"
    BY <1>1 DEF Insert
  <2> QED
    BY <1>1, <1>2, <1>3, <2>1, <2>2 DEF IInv, TypesAndTimes, TypeOK
<1>5. PlanKeysDiffer'
  BY <1>1 DEF IInv, PlanKeysDiffer
<1>6. PlanDue'
  <2> SUFFICES ASSUME NEW d \in plan'
               PROVE  /\ \A a \in Real(alerts') : a.dedupeKey = d.dedupeKey => a.createdAt < loadedAt
                      /\ \A last \in LatestFor(alerts', d.dedupeKey) :
                           loadedAt - last.createdAt >= Window(d.kind, last.kind) \/ Escalates(d, last)
    BY <1>1 DEF PlanDue
  <2>1. d \in plan /\ d.dedupeKey # row.dedupeKey
    BY <1>1, <1>2 DEF IInv, PlanKeysDiffer
  <2>2. LatestFor(alerts', d.dedupeKey) = LatestFor(alerts, d.dedupeKey)
    BY <1>2, <2>1 DEF LatestFor
  <2> QED
    BY <1>2, <2>1, <2>2 DEF IInv, PlanDue
<1>7. PlanFits'
  <2> DEFINE C  == {p \in Real(alerts) : IsCritical(p) /\ loadedAt - p.createdAt < Day}
             O  == {p \in Real(alerts) : ~IsCritical(p) /\ loadedAt - p.createdAt < Week}
             C2 == {p \in Real(alerts') : IsCritical(p) /\ loadedAt - p.createdAt < Day}
             O2 == {p \in Real(alerts') : ~IsCritical(p) /\ loadedAt - p.createdAt < Week}
  <2>1. C \subseteq alerts /\ O \subseteq alerts
    BY DEF Real
  <2>2. IsFiniteSet(C) /\ IsFiniteSet(O) /\ Cardinality(C) \in Nat /\ Cardinality(O) \in Nat
    BY <2>1, FS_Subset, FS_CardinalityType DEF IInv, TypesAndTimes
  <2>3. /\ CriticalToday(alerts, loadedAt) = Cardinality(C)
        /\ NonCriticalWeek(alerts, loadedAt) = Cardinality(O)
        /\ CriticalToday(alerts, loadedAt)' = Cardinality(C2)
        /\ NonCriticalWeek(alerts, loadedAt)' = Cardinality(O2)
    BY <1>1 DEF CriticalToday, NonCriticalWeek
  <2>4. /\ IsCritical(c) => C2 \subseteq C \cup {row} /\ O2 = O
        /\ ~IsCritical(c) => O2 \subseteq O \cup {row} /\ C2 = C
    BY <1>2 DEF IsCritical
  <2>5. PlannedCritical \subseteq plan /\ PlannedOthers \subseteq plan
    BY DEF PlannedCritical, PlannedOthers
  <2>6. IsFiniteSet(PlannedCritical) /\ IsFiniteSet(PlannedOthers)
    BY <2>5, FS_Subset DEF IInv, TypesAndTimes
  <2> HIDE DEF C, O, C2, O2
  <2>7. CriticalPerDayCap \in Nat /\ MaxWeeklyCap \in Nat
    BY GateAssumption, EvaluatorAssumption
  <2>8. CASE IsCritical(c)
    <3>1. PlannedCritical' = PlannedCritical \ {c} /\ c \in PlannedCritical
      BY <1>1, <2>8 DEF PlannedCritical
    <3>2. PlannedOthers' = PlannedOthers
      BY <1>1, <2>8 DEF PlannedOthers
    <3>3. /\ Cardinality(PlannedCritical \ {c}) = Cardinality(PlannedCritical) - 1
          /\ Cardinality(PlannedCritical) \in Nat
      BY <2>6, <3>1, FS_RemoveElement, FS_CardinalityType
    <3>4. Cardinality(C2) \in Nat /\ Cardinality(C2) <= Cardinality(C) + 1
      BY <2>2, <2>4, <2>8, GainOne
    <3>5. Cardinality(C) + Cardinality(PlannedCritical) <= CriticalPerDayCap
      BY <2>3, <3>1 DEF IInv, PlanFits
    <3>6. Cardinality(C2) + Cardinality(PlannedCritical') <= CriticalPerDayCap
      BY <2>2, <2>7, <3>1, <3>3, <3>4, <3>5
    <3> QED
      BY <2>3, <2>4, <2>8, <3>2, <3>6 DEF IInv, PlanFits
  <2>9. CASE ~IsCritical(c)
    <3>1. PlannedOthers' = PlannedOthers \ {c} /\ c \in PlannedOthers
      BY <1>1, <2>9 DEF PlannedOthers
    <3>2. PlannedCritical' = PlannedCritical
      BY <1>1, <2>9 DEF PlannedCritical
    <3>3. /\ Cardinality(PlannedOthers \ {c}) = Cardinality(PlannedOthers) - 1
          /\ Cardinality(PlannedOthers) \in Nat
      BY <2>6, <3>1, FS_RemoveElement, FS_CardinalityType
    <3>4. Cardinality(O2) \in Nat /\ Cardinality(O2) <= Cardinality(O) + 1
      BY <2>2, <2>4, <2>9, GainOne
    <3>5. Cardinality(O) + Cardinality(PlannedOthers) <= MaxWeeklyCap
      BY <2>3, <3>1 DEF IInv, PlanFits
    <3>6. Cardinality(O2) + Cardinality(PlannedOthers') <= MaxWeeklyCap
      BY <2>2, <2>7, <3>1, <3>3, <3>4, <3>5
    <3> QED
      BY <2>3, <2>4, <2>9, <3>2, <3>6 DEF IInv, PlanFits
  <2> QED
    BY <2>8, <2>9
<1> QED
  BY <1>4, <1>5, <1>6, <1>7 DEF IInv

LEMMA ForgetKeeps ==
  ASSUME IInv, Forget
  PROVE  IInv'
<1>1. IsFiniteSet({})
  BY FS_EmptySet
<1>2. TypesAndTimes'
  <2>1. output' \in [batch : SUBSET Candidates, rolled : SUBSET Candidates,
                     emit : SUBSET Candidates]
    BY NoOutputType DEF Forget
  <2>2. /\ loadedAt' \in Nat /\ capSeen' \in 0..MaxWeeklyCap
        /\ phase' \in {"idle", "loading", "storing"} /\ phase' # "loading"
        /\ plan' \subseteq Candidates /\ IsFiniteSet(plan')
    BY <1>1, GateAssumption DEF Forget
  <2>3. loadedAt' <= clock'
    BY DEF Forget, IInv, TypesAndTimes, TypeOK
  <2>4. UNCHANGED <<clock, alerts, weeklyCap>>
    BY DEF Forget
  <2> QED
    BY <2>1, <2>2, <2>3, <2>4 DEF IInv, TypesAndTimes, TypeOK
<1> QED
  BY <1>2 DEF Forget, IInv, PlanKeysDiffer, PlanDue, PlanFits, PlannedCritical, PlannedOthers

\* A simulated row is nothing the gate looks at.
LEMMA SimulateKeeps ==
  ASSUME IInv, NEW c \in Simulated, Simulate(c)
  PROVE  IInv' /\ Real(alerts') = Real(alerts)
<1> DEFINE row == Row(c, TRUE)
<1>1. /\ alerts' = alerts \cup {row}
      /\ UNCHANGED <<clock, weeklyCap, evaluation>>
  BY DEF Simulate
<1>2. c \in Candidate /\ clock \in Nat
  BY EvaluatorAssumption DEF Simulated, IInv, TypesAndTimes, TypeOK
<1>3. row \in AlertRow /\ row.createdAt = clock /\ row.simulated
  BY <1>2 DEF Row, AlertRow, Candidate
<1> HIDE DEF row
<1>4. Real(alerts') = Real(alerts)
  BY <1>1, <1>3 DEF Real
<1>5. TypesAndTimes'
  <2>1. IsFiniteSet(alerts')
    BY <1>1, FS_AddElement DEF IInv, TypesAndTimes
  <2>2. alerts' \subseteq AlertRow /\ \A a \in alerts' : a.createdAt <= clock
    BY <1>1, <1>2, <1>3 DEF IInv, TypesAndTimes, TypeOK
  <2>3. UNCHANGED <<clock, weeklyCap, phase, capSeen, loadedAt, output, plan>>
    BY <1>1 DEF evaluation
  <2>4. TypeOK'
    BY <2>2, <2>3 DEF IInv, TypesAndTimes, TypeOK
  <2> QED
    BY <1>4, <2>1, <2>2, <2>3, <2>4 DEF IInv, TypesAndTimes
<1>6. PlanKeysDiffer' /\ PlanDue'
  BY <1>1, <1>4 DEF evaluation, IInv, PlanKeysDiffer, PlanDue, LatestFor
<1>7. PlanFits'
  BY <1>1, <1>4
  DEF evaluation, IInv, PlanFits, PlannedCritical, PlannedOthers, CriticalToday, NonCriticalWeek
<1> QED
  BY <1>4, <1>5, <1>6, <1>7 DEF IInv

\* What the remaining steps change, the clock and the cap, no part of the plan
\* depends on.
LEMMA OutsideKeeps ==
  ASSUME IInv, UNCHANGED <<alerts, evaluation>>, clock' \in Nat, clock <= clock',
         weeklyCap' \in 1..MaxWeeklyCap
  PROVE  IInv'
<1>1. TypesAndTimes'
  <2>1. Real(alerts') = Real(alerts) /\ Real(alerts) \subseteq alerts
    BY DEF Real
  <2>2. TypeOK'
    BY DEF evaluation, IInv, TypesAndTimes, TypeOK
  <2>3. \A a \in alerts : a.createdAt \in Nat
    BY DEF IInv, TypesAndTimes, TypeOK, AlertRow
  <2>4. clock \in Nat /\ loadedAt \in Nat
    BY DEF IInv, TypesAndTimes, TypeOK
  <2> QED
    BY <2>1, <2>2, <2>3, <2>4 DEF evaluation, IInv, TypesAndTimes
<1>2. PlanKeysDiffer' /\ PlanDue'
  BY DEF evaluation, IInv, PlanKeysDiffer, PlanDue
<1>3. PlanFits'
  BY DEF evaluation, IInv, PlanFits, PlannedCritical, PlannedOthers
<1> QED
  BY <1>1, <1>2, <1>3 DEF IInv

\* The inductive invariant.
THEOREM Invariance == Spec => []IInv
<1>1. IInv /\ [Next]_vars => IInv'
  <2> SUFFICES ASSUME IInv, [Next]_vars PROVE IInv'
    OBVIOUS
  <2>0. clock \in Nat /\ weeklyCap \in 1..MaxWeeklyCap
    BY DEF IInv, TypesAndTimes, TypeOK
  <2>1. CASE Load \/ \E batch \in Batches : Evaluate(batch)
    BY <2>1, LoadKeeps, EvaluateKeeps
  <2>2. CASE \E c \in plan : Insert(c)
    BY <2>2, InsertKeeps
  <2>3. CASE Finish \/ Abort
    BY <2>3, ForgetKeeps DEF Finish, Abort
  <2>4. CASE \E c \in Simulated : Simulate(c)
    BY <2>4, SimulateKeeps
  <2>5. CASE \E cap \in 1..MaxWeeklyCap : SetWeeklyCap(cap)
    BY <2>0, <2>5, OutsideKeeps DEF SetWeeklyCap
  <2>6. CASE Tick
    BY <2>0, <2>6, OutsideKeeps DEF Tick
  <2>7. CASE UNCHANGED vars
    BY <2>0, <2>7, OutsideKeeps DEF vars, evaluation
  <2> QED
    BY <2>1, <2>2, <2>3, <2>4, <2>5, <2>6, <2>7 DEF Next
<1> QED
  BY <1>1, InitHolds, PTL DEF Spec

\* Types are correct.
THEOREM TypeCorrect == Spec => []TypeOK
<1>1. IInv => TypeOK
  BY DEF IInv, TypesAndTimes
<1> QED
  BY <1>1, Invariance, PTL

-----------------------------------------------------------------------------
(* Every step raises one alert under the policy's guards, lets time pass, or  *)
(* changes nothing the policy sees.                                           *)

LEMMA SameCardinality == ASSUME NEW S PROVE Policy!Cardinality(S) = Cardinality(S)
BY DEF Policy!Cardinality, Cardinality

LEMMA RealOfReal == Real(Real(alerts)) = Real(alerts)
BY DEF Real

LEMMA InsertRaises ==
  ASSUME IInv, NEW c \in plan, Insert(c)
  PROVE  Policy!RaiseSome
<1> DEFINE row == Row(c, FALSE)
<1>1. /\ row \in AlertRow /\ row.createdAt = clock /\ ~row.simulated
      /\ row.dedupeKey = c.dedupeKey /\ row.kind = c.kind /\ row.severity = c.severity
      /\ Real(alerts') = Real(alerts) \cup {row}
  BY InsertedRow
<1>2. /\ clock \in Nat /\ loadedAt \in Nat /\ loadedAt <= clock
      /\ c.kind \in AlertKind /\ c.severity \in Severity /\ c.dedupeKey \in DedupeKey
      /\ alerts \subseteq AlertRow
  BY EvaluatorAssumption DEF IInv, TypesAndTimes, TypeOK, Candidate
<1>3. row = [kind |-> c.kind, severity |-> c.severity, dedupeKey |-> c.dedupeKey,
             createdAt |-> clock, simulated |-> FALSE]
  BY DEF Row
<1>4. clock' = clock
  BY DEF Insert
<1> HIDE DEF row
<1>5. \A r \in Real(alerts) : r.dedupeKey = row.dedupeKey => r.createdAt < clock
  BY <1>1, <1>2 DEF IInv, PlanDue, Real, AlertRow
<1>6. ~Policy!InCooldown(row, Real(alerts), clock)
  <2>1. SUFFICES ASSUME NEW last \in LatestFor(alerts, c.dedupeKey),
                        clock - last.createdAt < Window(c.kind, last.kind)
                 PROVE  Escalates(c, last)
    BY <1>1, RealOfReal
    DEF Policy!InCooldown, Policy!LatestFor, Policy!Real, Policy!Window,
        Policy!Escalates, Policy!Rank, Policy!SeverityWeight,
        LatestFor, Real, Window, Escalates, Rank, SeverityWeight
  <2>2. last.createdAt \in Nat /\ last.kind \in AlertKind
    BY <1>2 DEF LatestFor, Real, AlertRow
  <2>3. Window(c.kind, last.kind) \in Nat
    BY <1>2, <2>2, WindowBounds
  <2>4. loadedAt - last.createdAt >= Window(c.kind, last.kind) \/ Escalates(c, last)
    BY DEF IInv, PlanDue
  <2> QED
    BY <1>2, <2>1, <2>2, <2>3, <2>4
<1>7. /\ CriticalToday(alerts, clock) \in Nat /\ NonCriticalWeek(alerts, clock) \in Nat
      /\ CriticalToday(alerts, loadedAt) \in Nat /\ NonCriticalWeek(alerts, loadedAt) \in Nat
      /\ CriticalToday(alerts, clock) <= CriticalToday(alerts, loadedAt)
      /\ NonCriticalWeek(alerts, clock) <= NonCriticalWeek(alerts, loadedAt)
  BY <1>2, CountsShrink DEF IInv
<1>8. CriticalPerDayCap \in Nat /\ MaxWeeklyCap \in Nat
  BY GateAssumption, EvaluatorAssumption
<1>9. /\ IsFiniteSet(PlannedCritical) /\ IsFiniteSet(PlannedOthers)
  <2>1. PlannedCritical \subseteq plan /\ PlannedOthers \subseteq plan
    BY DEF PlannedCritical, PlannedOthers
  <2> QED
    BY <2>1, FS_Subset DEF IInv, TypesAndTimes
<1>10. /\ Policy!CriticalToday(Real(alerts), clock) = CriticalToday(alerts, clock)
       /\ Policy!NonCriticalWeek(Real(alerts), clock) = NonCriticalWeek(alerts, clock)
  BY RealOfReal, SameCardinality
  DEF Policy!CriticalToday, Policy!NonCriticalWeek, Policy!Real, Policy!IsCritical,
      CriticalToday, NonCriticalWeek, Real, IsCritical
<1>11. Policy!HasRoom(row)
  <2>1. CASE IsCritical(c)
    <3>1. PlannedCritical # {}
      BY <2>1 DEF PlannedCritical
    <3>2. Cardinality(PlannedCritical) \in Nat /\ Cardinality(PlannedCritical) > 0
      BY <1>9, <3>1, FS_CardinalityType, FS_EmptySet
    <3>3. CriticalToday(alerts, loadedAt) + Cardinality(PlannedCritical) <= CriticalPerDayCap
      BY <3>1 DEF IInv, PlanFits
    <3>4. CriticalToday(alerts, clock) < CriticalPerDayCap
      BY <1>7, <1>8, <3>2, <3>3
    <3> QED
      BY <1>1, <1>10, <2>1, <3>4 DEF Policy!HasRoom, Policy!IsCritical, IsCritical
  <2>2. CASE ~IsCritical(c)
    <3>1. PlannedOthers # {}
      BY <2>2 DEF PlannedOthers
    <3>2. Cardinality(PlannedOthers) \in Nat /\ Cardinality(PlannedOthers) > 0
      BY <1>9, <3>1, FS_CardinalityType, FS_EmptySet
    <3>3. NonCriticalWeek(alerts, loadedAt) + Cardinality(PlannedOthers) <= MaxWeeklyCap
      BY <3>1 DEF IInv, PlanFits
    <3>4. NonCriticalWeek(alerts, clock) < MaxWeeklyCap
      BY <1>7, <1>8, <3>2, <3>3
    <3> QED
      BY <1>1, <1>10, <2>2, <3>4 DEF Policy!HasRoom, Policy!IsCritical, IsCritical
  <2> QED
    BY <2>1, <2>2
<1>12. Policy!Raise(row)
  BY <1>1, <1>4, <1>5, <1>6, <1>11 DEF Policy!Raise
<1> QED
  BY <1>2, <1>3, <1>12 DEF Policy!RaiseSome, Policy!AlertKind, Policy!Severity, AlertKind, Severity

\* The evaluator implements the alert policy.
THEOREM Refinement == Spec => ImplementsPolicy
<1>1. Init => Policy!PolicyInit
  BY DEF Init, Policy!PolicyInit, Real
<1>2. IInv /\ [Next]_vars => [Policy!PolicyNext]_(Policy!policyVars)
  <2> SUFFICES ASSUME IInv, [Next]_vars
               PROVE  Policy!PolicyNext \/ UNCHANGED <<clock, Real(alerts)>>
    BY DEF Policy!policyVars
  <2>1. CASE Load \/ \E batch \in Batches : Evaluate(batch)
    BY <2>1 DEF Load, Evaluate, Real
  <2>2. CASE \E c \in plan : Insert(c)
    BY <2>2, InsertRaises DEF Policy!PolicyNext
  <2>3. CASE Finish \/ Abort
    BY <2>3 DEF Finish, Abort, Forget, Real
  <2>4. CASE \E c \in Simulated : Simulate(c)
    BY <2>4, SimulateKeeps DEF Simulate
  <2>5. CASE \E cap \in 1..MaxWeeklyCap : SetWeeklyCap(cap)
    BY <2>5 DEF SetWeeklyCap, Real
  <2>6. CASE Tick
    BY <2>6 DEF Tick, Real, IInv, TypesAndTimes, TypeOK, Policy!PolicyNext, Policy!Pass
  <2>7. CASE UNCHANGED vars
    BY <2>7 DEF vars, Real
  <2> QED
    BY <2>1, <2>2, <2>3, <2>4, <2>5, <2>6, <2>7 DEF Next
<1> QED
  BY <1>1, <1>2, Invariance, PTL DEF Spec, ImplementsPolicy, Policy!PolicySpec

-----------------------------------------------------------------------------
(* What the policy promises, the evaluator therefore keeps.                   *)

Proved == INSTANCE AlertPolicyProofs WITH now <- clock, raised <- Real(alerts)

\* Policy and Proved are the same module with the same substitution.
LEMMA SamePolicy ==
  /\ Policy!PolicyInit <=> Proved!PolicyInit
  /\ Policy!PolicyNext <=> Proved!PolicyNext
  /\ Policy!policyVars = Proved!policyVars
<1>1. ASSUME NEW S PROVE Policy!Cardinality(S) = Proved!Cardinality(S)
  BY DEF Policy!Cardinality, Proved!Cardinality
<1>2. ASSUME NEW a PROVE Policy!InCooldown(a, Real(alerts), clock) <=> Proved!InCooldown(a, Real(alerts), clock)
  BY DEF Policy!InCooldown, Policy!LatestFor, Policy!Real, Policy!Window, Policy!Escalates,
         Policy!Rank, Policy!SeverityWeight, Proved!InCooldown, Proved!LatestFor, Proved!Real,
         Proved!Window, Proved!Escalates, Proved!Rank, Proved!SeverityWeight
<1>3. ASSUME NEW a PROVE Policy!HasRoom(a) <=> Proved!HasRoom(a)
  BY <1>1 DEF Policy!HasRoom, Policy!CriticalToday, Policy!NonCriticalWeek, Policy!Real,
              Policy!IsCritical, Proved!HasRoom, Proved!CriticalToday,
              Proved!NonCriticalWeek, Proved!Real, Proved!IsCritical
<1>4. ASSUME NEW a PROVE Policy!Raise(a) <=> Proved!Raise(a)
  BY <1>2, <1>3 DEF Policy!Raise, Proved!Raise
<1>5. Policy!RaiseSome <=> Proved!RaiseSome
  BY <1>4 DEF Policy!RaiseSome, Policy!AlertKind, Policy!Severity,
              Proved!RaiseSome, Proved!AlertKind, Proved!Severity
<1> QED
  BY <1>5 DEF Policy!PolicyInit, Proved!PolicyInit, Policy!PolicyNext, Proved!PolicyNext,
              Policy!Pass, Proved!Pass, Policy!policyVars, Proved!policyVars

\* The policy assumes no more of its constants than the evaluator does.
LEMMA PolicyAssumptions == Proved!GateAssumption
BY GateAssumption DEF Proved!GateAssumption, GateAssumption, Proved!AlertKind, AlertKind

\* The policy's caps and cooldowns, read as the evaluator's.
LEMMA PolicyPromises == Spec => [](Proved!CapsHold /\ Proved!CooldownsHold)
<1>1. Proved!PolicySpec => []Proved!CapsHold
  BY PolicyAssumptions, Proved!PolicyCaps
<1>2. Proved!PolicySpec => []Proved!CooldownsHold
  BY PolicyAssumptions, Proved!PolicyCooldowns
<1>3. ImplementsPolicy => Proved!PolicySpec
  <2>1. Policy!PolicyInit => Proved!PolicyInit
    BY SamePolicy
  <2>2. [Policy!PolicyNext]_(Policy!policyVars) => [Proved!PolicyNext]_(Proved!policyVars)
    BY SamePolicy DEF Policy!policyVars, Proved!policyVars
  <2> QED
    BY <2>1, <2>2, PTL DEF ImplementsPolicy, Policy!PolicySpec, Proved!PolicySpec
<1> QED
  BY <1>1, <1>2, <1>3, Refinement, PTL

\* At most CriticalPerDayCap critical alerts in any day (engine.ts:135-150).
THEOREM CriticalCap == Spec => []CriticalCapHolds
<1>1. Proved!CapsHold => CriticalCapHolds
  <2> SUFFICES ASSUME Proved!CapsHold, NEW t \in 0..clock
               PROVE  Cardinality(CriticalAround(t)) <= CriticalPerDayCap
    BY DEF CriticalCapHolds
  <2>1. Proved!CriticalInDay(t) = CriticalAround(t)
    BY DEF Proved!CriticalInDay, Proved!IsCritical, CriticalAround, IsCritical
  <2>2. Proved!Cardinality(CriticalAround(t)) = Cardinality(CriticalAround(t))
    BY DEF Proved!Cardinality, Cardinality
  <2> QED
    BY <2>1, <2>2 DEF Proved!CapsHold
<1> QED
  BY <1>1, PolicyPromises, PTL

\* At most MaxWeeklyCap other alerts in any week, whatever the user does to the
\* cap meanwhile (engine.ts:151-159).
THEOREM WeeklyCap == Spec => []WeeklyCapHolds
<1>1. Proved!CapsHold => WeeklyCapHolds
  <2> SUFFICES ASSUME Proved!CapsHold, NEW t \in 0..clock
               PROVE  Cardinality(OthersAround(t)) <= MaxWeeklyCap
    BY DEF WeeklyCapHolds
  <2>1. Proved!OthersInWeek(t) = OthersAround(t)
    BY DEF Proved!OthersInWeek, Proved!IsCritical, OthersAround, IsCritical
  <2>2. Proved!Cardinality(OthersAround(t)) = Cardinality(OthersAround(t))
    BY DEF Proved!Cardinality, Cardinality
  <2> QED
    BY <2>1, <2>2 DEF Proved!CapsHold
<1> QED
  BY <1>1, PolicyPromises, PTL

\* Both caps hold in every window.
THEOREM Caps == Spec => []CapsHold
BY CriticalCap, WeeklyCap, PTL DEF CapsHold

\* Alerts in a row with one dedupe key keep their cooldown (engine.ts:109-121).
THEOREM Cooldowns == Spec => []CooldownHolds
<1>1. Proved!CooldownsHold => CooldownHolds
  BY DEF Proved!CooldownsHold, Proved!NextForKey, Proved!Window, Proved!Escalates,
         Proved!Rank, Proved!SeverityWeight,
         CooldownHolds, Window, Escalates, Rank, SeverityWeight
<1> QED
  BY <1>1, PolicyPromises, PTL

-----------------------------------------------------------------------------
(* Silence: what the gate keeps back, it keeps back for a reason *)

\* What an evaluation has decided, and on what, stands until it is over.
Verdict ==
  /\ phase # "storing" => output = NoOutput
  /\ phase # "idle" => capSeen \in 1..MaxWeeklyCap
  /\ NeverSilenced
  /\ RolledUpIsCovered

\* What is left out is left out because the cap is used up by what scores at least as high.
LEMMA BestFillsCap ==
  ASSUME NEW S, NEW used \in Nat, NEW cap \in Nat, NEW B \in Best(S, Room(cap, used)),
         NEW p \in S \ B
  PROVE  used + Cardinality(B) >= cap /\ \A e \in B : e.score >= p.score
<1>1. B # S
  OBVIOUS
<1>2. Cardinality(B) = Room(cap, used)
  BY <1>1 DEF Best
<1> QED
  BY <1>2 DEF Room, Best

\* As an evaluation decides, all real alerts are earlier ones, and what pastAlerts
\* reads of them gives the same counts.
LEMMA AllEarlier ==
  ASSUME IInv, phase = "loading"
  PROVE  /\ {a \in Real(alerts) : a.createdAt < clock} = Real(alerts)
         /\ CriticalToday(Real(alerts), clock) = CriticalToday(PastAlerts, clock)
         /\ NonCriticalWeek(Real(alerts), clock) = NonCriticalWeek(PastAlerts, clock)
<1>1. \A a \in Real(alerts) : a.createdAt < clock
  BY DEF IInv, TypesAndTimes
<1>2. Real(Real(alerts)) = Real(alerts)
  BY DEF Real
<1>3. CriticalToday(Real(alerts), clock) = CriticalToday(alerts, clock)
      /\ NonCriticalWeek(Real(alerts), clock) = NonCriticalWeek(alerts, clock)
  BY <1>2 DEF CriticalToday, NonCriticalWeek
<1> QED
  BY <1>1, <1>3, CountsInSight DEF IInv

LEMMA EvaluateSpeaks ==
  ASSUME IInv, Verdict, NEW batch \in Batches, Evaluate(batch)
  PROVE  Verdict'
<1> DEFINE passed    == AfterCooldown(batch, PastAlerts, clock)
           surviving == Surviving(batch, PastAlerts, clock)
           critical  == {c \in surviving : IsCritical(c)}
           rest      == {c \in surviving : ~IsCritical(c)}
           usedC     == CriticalToday(PastAlerts, clock)
           usedW     == NonCriticalWeek(PastAlerts, clock)
<1>1. /\ phase = "loading" /\ phase' = "storing" /\ loadedAt' = clock
      /\ output' = [batch |-> batch, rolled |-> RolledUp(passed), emit |-> plan']
      /\ UNCHANGED <<clock, alerts, weeklyCap, capSeen>>
  BY DEF Evaluate
<1>2. PICK C \in Best(critical, Room(CriticalPerDayCap, usedC)),
           R \in Best(rest, Room(capSeen, usedW)) : plan' = C \cup R
  BY DEF Evaluate, Emissions
<1>3. C \subseteq critical /\ R \subseteq rest
  BY <1>2 DEF Best
<1>4. {e \in plan' : IsCritical(e)} = C /\ plan' \ {e \in plan' : IsCritical(e)} = R
  BY <1>2, <1>3
<1>5. Earlier' = Real(alerts)
  BY <1>1, AllEarlier DEF Earlier
<1>6. /\ CriticalToday(Earlier, loadedAt)' = usedC
      /\ NonCriticalWeek(Earlier, loadedAt)' = usedW
  <2>1. /\ CriticalToday(Earlier, loadedAt)' = CriticalToday(Real(alerts), clock)
        /\ NonCriticalWeek(Earlier, loadedAt)' = NonCriticalWeek(Real(alerts), clock)
    BY <1>1, <1>5 DEF CriticalToday, NonCriticalWeek
  <2> QED
    BY <1>1, <2>1, AllEarlier
<1>7. /\ usedC \in Nat /\ usedW \in Nat /\ CriticalPerDayCap \in Nat
      /\ capSeen \in Nat /\ capSeen >= 1
  <2>1. usedC \in Nat /\ usedW \in Nat
    BY CountsInSight, CountsShrink DEF IInv, TypesAndTimes, TypeOK
  <2> QED
    BY <1>1, <2>1, GateAssumption DEF Verdict
<1>8. surviving = passed \ RolledUp(passed)
  BY DEF Surviving
<1> HIDE DEF usedC, usedW, surviving
<1>9. NeverSilenced'
  <2> SUFFICES ASSUME NEW c \in batch \ plan', DueAgain(c)'
               PROVE  IF IsCritical(c)
                      THEN usedC + Cardinality(C) >= CriticalPerDayCap /\ \A e \in C : e.score >= c.score
                      ELSE \/ c \in RolledUp(passed)
                           \/ usedW + Cardinality(R) >= capSeen /\ \A e \in R : e.score >= c.score
    BY <1>1, <1>4, <1>6 DEF NeverSilenced, IsCritical
  <2>1. c \in passed
    <3>1. LatestFor(PastAlerts, c.dedupeKey) \subseteq Real(alerts)
      BY DEF LatestFor, Real, PastAlerts
    <3>2. \A a \in Real(alerts) :
            a.dedupeKey = c.dedupeKey => clock - a.createdAt >= Window(c.kind, a.kind) \/ Escalates(c, a)
      BY <1>1, <1>5 DEF DueAgain
    <3>3. \A last \in LatestFor(PastAlerts, c.dedupeKey) : last.dedupeKey = c.dedupeKey
      BY DEF LatestFor
    <3>4. \A a \in Real(alerts) : /\ clock \in Nat /\ a.createdAt \in Nat
                                  /\ Window(c.kind, a.kind) \in Nat
      <4>1. \A a \in Real(alerts) : a.createdAt \in Nat /\ a.kind \in AlertKind
        BY DEF IInv, TypesAndTimes, TypeOK, Real, AlertRow
      <4>2. c.kind \in AlertKind
        BY EvaluatorAssumption DEF Batches, Candidate
      <4> QED
        BY <4>1, <4>2, WindowBounds DEF IInv, TypesAndTimes, TypeOK
    <3> QED
      BY <3>1, <3>2, <3>3, <3>4 DEF AfterCooldown, InCooldown
  <2>2. CASE IsCritical(c)
    <3>1. c \in critical
      BY <1>8, <2>1, <2>2 DEF RolledUp
    <3>2. c \in critical \ C
      BY <1>2, <3>1
    <3> QED
      BY <1>2, <1>7, <2>2, <3>2, BestFillsCap
  <2>3. CASE ~IsCritical(c) /\ c \notin RolledUp(passed)
    <3>1. c \in rest \ R
      BY <1>2, <1>8, <2>1, <2>3
    <3> QED
      BY <1>2, <1>7, <2>3, <3>1, BestFillsCap
  <2> QED
    BY <2>2, <2>3
<1>10. RolledUpIsCovered'
  <2> SUFFICES ASSUME RolledUp(passed) # {}, ~HasPortfolio(plan')
               PROVE  \E p \in batch :
                        /\ HasPortfolio({p})
                        /\ IF IsCritical(p)
                           THEN usedC + Cardinality(C) >= CriticalPerDayCap
                           ELSE usedW + Cardinality(R) >= capSeen
    BY <1>1, <1>4, <1>6 DEF RolledUpIsCovered, HasPortfolio, IsCritical
  <2>1. PICK p \in passed : p.kind = "portfolio_drop"
    BY DEF RolledUp, HasPortfolio
  <2>2. p \in surviving /\ p \in batch
    BY <1>8, <2>1 DEF RolledUp, TokenDrop, AfterCooldown
  <2>3. p \notin C /\ p \notin R
    BY <1>2, <2>1 DEF HasPortfolio
  <2>4. CASE IsCritical(p)
    BY <1>2, <1>7, <2>1, <2>2, <2>3, <2>4, BestFillsCap DEF HasPortfolio
  <2>5. CASE ~IsCritical(p)
    BY <1>2, <1>7, <2>1, <2>2, <2>3, <2>5, BestFillsCap DEF HasPortfolio
  <2> QED
    BY <2>4, <2>5
<1> QED
  BY <1>1, <1>7, <1>9, <1>10 DEF Verdict, IInv, TypesAndTimes, TypeOK

\* While a batch is stored, nothing is added that its decision was made on.
LEMMA EarlierStays ==
  ASSUME IInv, [Next]_vars, phase = "storing", phase' = "storing"
  PROVE  /\ Earlier' = Earlier
         /\ UNCHANGED <<output, loadedAt, capSeen>>
<1>1. CASE \E c \in plan : Insert(c)
  <2>1. PICK c \in plan : Insert(c)
    BY <1>1
  <2>2. /\ Real(alerts') = Real(alerts) \cup {Row(c, FALSE)}
        /\ Row(c, FALSE).createdAt = clock
    BY <2>1, InsertedRow
  <2>3. clock \in Nat /\ loadedAt \in Nat /\ loadedAt <= clock
    BY DEF IInv, TypesAndTimes, TypeOK
  <2>4. UNCHANGED <<output, loadedAt, capSeen>>
    BY <2>1 DEF Insert
  <2>5. ~(Row(c, FALSE).createdAt < loadedAt)
    <3>1. ~(clock < loadedAt)
      BY <2>3
    <3>2. Row(c, FALSE).createdAt = clock
      BY <2>2
    <3> QED
      BY <3>1, <3>2, Zenon
  <2>6. \A S, x : ~(x.createdAt < loadedAt) =>
          {a \in S \cup {x} : a.createdAt < loadedAt} = {a \in S : a.createdAt < loadedAt}
    OBVIOUS
  <2>7. {a \in Real(alerts') : a.createdAt < loadedAt} = {a \in Real(alerts) : a.createdAt < loadedAt}
    BY <2>2, <2>5, <2>6
  <2>8. Earlier' = {a \in Real(alerts') : a.createdAt < loadedAt}
    BY <2>4 DEF Earlier
  <2> QED
    BY <2>4, <2>7, <2>8 DEF Earlier
<1>2. CASE \E c \in Simulated : Simulate(c)
  BY <1>2, SimulateKeeps DEF Simulate, evaluation, Earlier
<1>3. CASE UNCHANGED <<alerts, evaluation>>
  BY <1>3 DEF evaluation, Earlier
<1>4. CASE Load \/ (\E batch \in Batches : Evaluate(batch)) \/ Finish \/ Abort
  BY <1>4 DEF Load, Evaluate, Finish, Abort, Forget
<1> QED
  BY <1>1, <1>2, <1>3, <1>4 DEF Next, SetWeeklyCap, Tick, vars, evaluation

LEMMA VerdictStands ==
  ASSUME IInv, Verdict, [Next]_vars
  PROVE  Verdict'
<1>1. CASE \E batch \in Batches : Evaluate(batch)
  BY <1>1, EvaluateSpeaks
<1>2. CASE Load
  <2>1. /\ phase' = "loading" /\ output' = NoOutput /\ capSeen' \in 1..MaxWeeklyCap
    BY <1>2 DEF Load, Verdict, IInv, TypesAndTimes, TypeOK
  <2> QED
    BY <2>1 DEF Verdict, NeverSilenced, RolledUpIsCovered, NoOutput
<1>3. CASE Finish \/ Abort
  BY <1>3 DEF Finish, Abort, Forget, Verdict, NeverSilenced, RolledUpIsCovered, NoOutput
<1>4. CASE UNCHANGED <<phase, output, capSeen>>
  <2>1. CASE phase = "storing"
    <3>1. Earlier' = Earlier /\ UNCHANGED <<output, loadedAt, capSeen>>
      BY <1>4, <2>1, EarlierStays
    <3>2. NeverSilenced'
      BY <1>4, <3>1 DEF Verdict, NeverSilenced, DueAgain, CriticalToday, NonCriticalWeek
    <3>3. RolledUpIsCovered'
      BY <1>4, <3>1 DEF Verdict, RolledUpIsCovered, CriticalToday, NonCriticalWeek
    <3> QED
      BY <1>4, <2>1, <3>2, <3>3 DEF Verdict
  <2>2. CASE phase # "storing"
    BY <1>4, <2>2 DEF Verdict, NeverSilenced, RolledUpIsCovered, NoOutput
  <2> QED
    BY <2>1, <2>2
<1> QED
  BY <1>1, <1>2, <1>3, <1>4
  DEF Next, Insert, Simulate, SetWeeklyCap, Tick, vars, evaluation

LEMMA VerdictAlways == Spec => []Verdict
<1>1. Init => Verdict
  BY DEF Init, Verdict, NeverSilenced, RolledUpIsCovered, NoOutput
<1> QED
  BY <1>1, VerdictStands, Invariance, PTL DEF Spec

\* A candidate that is due is told of, unless it was rolled up or its cap is used up by real
\* alerts before and by candidates that score at least as high (engine.ts:107-166).
THEOREM SpeaksUp == Spec => []NeverSilenced
BY VerdictAlways, PTL DEF Verdict

\* Drops that were rolled up are covered by the portfolio's alert, unless its cap was
\* used up (engine.ts:123-159).
THEOREM RolledUpCovered == Spec => []RolledUpIsCovered
BY VerdictAlways, PTL DEF Verdict
-----------------------------------------------------------------------------
(* The rules: what is found of sets and of sequences of sequences *)

\* A set of numbers has a least one.
LEMMA Least ==
  ASSUME NEW S \in SUBSET Nat, S # {}
  PROVE  \E n \in S : \A m \in S : n <= m
<1>. DEFINE T == {0..(n - 1) : n \in S}
<1>1. T \subseteq FiniteSubsetsOf(Nat)
  <2>1. ASSUME NEW n \in S
        PROVE  0..(n - 1) \in FiniteSubsetsOf(Nat)
    <3>1. n \in Nat /\ n - 1 \in Int /\ 0 \in Int
      OBVIOUS
    <3>2. IsFiniteSet(0..(n - 1))
      BY <3>1, FS_Interval
    <3>3. 0..(n - 1) \subseteq Nat
      BY <3>1
    <3>. QED
      BY <3>2, <3>3 DEF FiniteSubsetsOf
  <2>. QED
    BY <2>1
<1>2. IsWellFoundedOn(StrictSubsetOrdering(Nat), FiniteSubsetsOf(Nat))
  BY FS_StrictSubsetOrderingWellFounded
<1>3. T # {}
  OBVIOUS
<1>4. PICK x \in T : \A y \in T : <<y, x>> \notin StrictSubsetOrdering(Nat)
  <2>. HIDE DEF T
  <2>. QED
    BY <1>1, <1>2, <1>3, WFMin
<1>5. PICK n \in S : x = 0..(n - 1)
  BY <1>4
<1>6. ASSUME NEW m \in S, m < n
      PROVE  FALSE
  <2>1. 0..(m - 1) \in T
    OBVIOUS
  <2>2. 0..(m - 1) \subseteq 0..(n - 1) /\ 0..(m - 1) # 0..(n - 1)
    <3>1. m \in 0..(n - 1) /\ m \notin 0..(m - 1)
      BY <1>6
    <3>. QED
      BY <1>6, <3>1
  <2>3. 0..(m - 1) \in SUBSET Nat /\ x \in SUBSET Nat
    BY <1>5
  <2>. QED
    BY <1>4, <1>5, <2>1, <2>2, <2>3 DEF StrictSubsetOrdering
<1>. QED
  BY <1>6

-----------------------------------------------------------------------------
(* Sequences put together of sequences *)

\* The first n steps of putting the sequences of s together.
Grown(s, n, f) == [i \in 1..n |-> IF i = 1 THEN s[i] ELSE f[i - 1] \o s[i]]

\* They can be gone.
LEMMA FlatGrows ==
  ASSUME NEW E, NEW s \in Seq(Seq(E)), NEW k \in 1..Len(s)
  PROVE  \E f \in [1..k -> Seq(E)] : f = Grown(s, k, f)
<1>. DEFINE Missing == {n \in 1..Len(s) : ~\E f \in [1..n -> Seq(E)] : f = Grown(s, n, f)}
<1>. SUFFICES ASSUME Missing # {} PROVE FALSE
  OBVIOUS
<1>1. PICK n \in Missing : \A m \in Missing : n <= m
  <2>1. Missing \in SUBSET Nat
    OBVIOUS
  <2>. HIDE DEF Missing
  <2>. QED
    BY <2>1, Least
<1>2. n \in 1..Len(s) /\ n \in Nat /\ Len(s) \in Nat
  BY <1>1
<1>3. CASE n = 1
  <2>. DEFINE f == [i \in 1..1 |-> s[i]]
  <2>1. f \in [1..1 -> Seq(E)]
    BY <1>2, <1>3
  <2>2. f = Grown(s, 1, f)
    BY DEF Grown
  <2>. QED
    BY <1>1, <1>3, <2>1, <2>2
<1>4. CASE n # 1
  <2>1. n - 1 \in 1..Len(s)
    BY <1>2, <1>4
  <2>2. n - 1 \notin Missing
    <3>. HIDE DEF Missing
    <3>1. ~(n <= n - 1)
      BY <1>2
    <3>. QED
      BY <1>1, <3>1
  <2>3. PICK g \in [1..(n - 1) -> Seq(E)] : g = Grown(s, n - 1, g)
    BY <2>1, <2>2
  <2>. DEFINE f == [i \in 1..n |-> IF i = n THEN g[n - 1] \o s[n] ELSE g[i]]
  <2>4. s[n] \in Seq(E) /\ g[n - 1] \in Seq(E)
    BY <1>2, <1>4
  <2>5. f \in [1..n -> Seq(E)]
    <3>1. g[n - 1] \o s[n] \in Seq(E)
      BY <2>4
    <3>2. \A i \in 1..n : i # n => i \in 1..(n - 1)
      BY <1>2
    <3>. QED
      BY <3>1, <3>2
  <2>6. ASSUME NEW i \in 1..n PROVE f[i] = IF i = 1 THEN s[i] ELSE f[i - 1] \o s[i]
    <3>1. CASE i = n
      <4>1. f[i] = g[n - 1] \o s[n]
        BY <3>1
      <4>2. n - 1 \in 1..n /\ n - 1 # n
        BY <1>2, <1>4
      <4>3. f[n - 1] = g[n - 1]
        BY <4>2
      <4>. QED
        BY <1>4, <3>1, <4>1, <4>3
    <3>2. CASE i # n
      <4>1. i \in 1..(n - 1) /\ (i # 1 => i - 1 \in 1..n /\ i - 1 # n)
        BY <1>2, <3>2
      <4>2. f[i] = g[i] /\ (i # 1 => f[i - 1] = g[i - 1])
        BY <3>2, <4>1
      <4>3. g[i] = IF i = 1 THEN s[i] ELSE g[i - 1] \o s[i]
        BY <2>3, <4>1 DEF Grown
      <4>. HIDE DEF f
      <4>. QED
        BY <4>2, <4>3
    <3>. QED
      BY <3>1, <3>2
  <2>7. f = Grown(s, n, f)
    <3>1. Grown(s, n, f) = [i \in 1..n |-> f[i]]
      <4>. HIDE DEF f
      <4>. QED
        BY <2>6 DEF Grown
    <3>. QED
      BY <3>1
  <2>. HIDE DEF f
  <2>. QED
    BY <1>1, <2>5, <2>7
<1>. QED
  BY <1>3, <1>4

\* f tells what one has after each sequence of s.
Way(E, s, f) ==
  /\ f \in [1..Len(s) -> Seq(E)]
  /\ f[1] = s[1] /\ f[Len(s)] = FlattenSeq(s)
  /\ \A i \in 2..Len(s) : f[i] = f[i - 1] \o s[i]

\* One sequence after the other: there is a way from the first to the whole.
LEMMA FlatSteps ==
  ASSUME NEW E, NEW s \in Seq(Seq(E)), Len(s) # 0
  PROVE  \E f : Way(E, s, f)
<1>. DEFINE n == Len(s)
            flat == CHOOSE f : f = Grown(s, n, f)
<1>1. n \in Nat \ {0} /\ n \in 1..n
  OBVIOUS
<1>2. FlattenSeq(s) = flat[n]
  BY <1>1 DEF FlattenSeq, Grown
<1>3. flat = Grown(s, n, flat)
  BY <1>1, FlatGrows
<1>. HIDE DEF flat
<1>4. \A i \in 1..n : flat[i] = IF i = 1 THEN s[i] ELSE flat[i - 1] \o s[i]
  BY <1>3 DEF Grown
<1>. DEFINE Bad == {i \in 1..n : flat[i] \notin Seq(E)}
<1>5. Bad = {}
  <2>. SUFFICES ASSUME Bad # {} PROVE FALSE
    OBVIOUS
  <2>1. PICK i \in Bad : \A m \in Bad : i <= m
    <3>1. Bad \in SUBSET Nat
      OBVIOUS
    <3>. HIDE DEF Bad
    <3>. QED
      BY <3>1, Least
  <2>2. i \in 1..n /\ i \in Nat /\ n \in Nat /\ s[i] \in Seq(E)
    BY <1>1, <2>1
  <2>3. i # 1
    BY <1>4, <2>1, <2>2
  <2>4. i - 1 \in 1..n /\ ~(i <= i - 1)
    BY <2>2, <2>3
  <2>5. flat[i - 1] \in Seq(E)
    BY <2>1, <2>4
  <2>6. flat[i - 1] \o s[i] \in Seq(E)
    BY <2>2, <2>5
  <2>. QED
    BY <1>4, <2>1, <2>2, <2>3, <2>6
<1>6. flat \in [1..n -> Seq(E)]
  <2>1. flat = [i \in 1..n |-> IF i = 1 THEN s[i] ELSE flat[i - 1] \o s[i]]
    BY <1>3 DEF Grown
  <2>2. \A i \in 1..n : flat[i] \in Seq(E)
    BY <1>5
  <2>. HIDE DEF n
  <2>. QED
    BY <1>4, <2>1, <2>2
<1>7. \A i \in 2..n : i \in 1..n /\ i # 1
  BY <1>1
<1>8. Way(E, s, flat)
  <2>1. flat[1] = s[1] /\ flat[n] = FlattenSeq(s)
    BY <1>1, <1>2, <1>4
  <2>2. \A i \in 2..n : flat[i] = flat[i - 1] \o s[i]
    BY <1>4, <1>7
  <2>. QED
    BY <1>6, <2>1, <2>2, Zenon DEF Way
<1>. QED
  BY <1>8

\* Two sequences together have what each has.
LEMMA BothHave ==
  ASSUME NEW E, NEW a \in Seq(E), NEW b \in Seq(E)
  PROVE  ToSet(a \o b) = ToSet(a) \cup ToSet(b)
<1>1. /\ Len(a) \in Nat /\ Len(b) \in Nat
      /\ DOMAIN a = 1..Len(a) /\ DOMAIN b = 1..Len(b) /\ DOMAIN (a \o b) = 1..(Len(a) + Len(b))
      /\ \A i \in 1..(Len(a) + Len(b)) : (a \o b)[i] = IF i <= Len(a) THEN a[i] ELSE b[i - Len(a)]
  OBVIOUS
<1>2. ASSUME NEW i \in 1..(Len(a) + Len(b)) PROVE (a \o b)[i] \in ToSet(a) \cup ToSet(b)
  <2>1. IF i <= Len(a) THEN i \in 1..Len(a) ELSE i - Len(a) \in 1..Len(b)
    BY <1>1
  <2>. QED
    BY <1>1, <2>1 DEF ToSet
<1>3. ASSUME NEW i \in 1..Len(a) PROVE a[i] \in ToSet(a \o b)
  <2>1. i \in 1..(Len(a) + Len(b)) /\ i <= Len(a)
    BY <1>1
  <2>. QED
    BY <1>1, <2>1 DEF ToSet
<1>4. ASSUME NEW i \in 1..Len(b) PROVE b[i] \in ToSet(a \o b)
  <2>1. i + Len(a) \in 1..(Len(a) + Len(b)) /\ ~(i + Len(a) <= Len(a)) /\ i + Len(a) - Len(a) = i
    BY <1>1
  <2>2. (a \o b)[i + Len(a)] = b[i + Len(a) - Len(a)]
    BY <1>1, <2>1
  <2>. QED
    BY <1>1, <2>1, <2>2 DEF ToSet
<1>5. ToSet(a \o b) \subseteq ToSet(a) \cup ToSet(b)
  BY <1>1, <1>2 DEF ToSet
<1>6. ToSet(a) \subseteq ToSet(a \o b) /\ ToSet(b) \subseteq ToSet(a \o b)
  BY <1>1, <1>3, <1>4 DEF ToSet
<1>. QED
  BY <1>5, <1>6

\* What the first i sequences of s hold.
UpTo(s, i) == UNION {ToSet(s[j]) : j \in 1..i}

\* On the way, each part so far has given all that it has.
LEMMA FlatGives ==
  ASSUME NEW E, NEW s \in Seq(Seq(E)), NEW f, Way(E, s, f)
  PROVE  \A i \in 1..Len(s) : ToSet(f[i]) = UpTo(s, i)
<1>. DEFINE Bad == {i \in 1..Len(s) : ToSet(f[i]) # UpTo(s, i)}
<1>. SUFFICES ASSUME Bad # {} PROVE FALSE
  OBVIOUS
<1>1. PICK i \in Bad : \A m \in Bad : i <= m
  <2>1. Bad \in SUBSET Nat
    OBVIOUS
  <2>. HIDE DEF Bad
  <2>. QED
    BY <2>1, Least
<1>2. i \in 1..Len(s) /\ i \in Nat /\ Len(s) \in Nat
  BY <1>1
<1>3. ToSet(f[i]) # UpTo(s, i)
  BY <1>1
<1>. HIDE DEF Bad
<1>0. /\ f \in [1..Len(s) -> Seq(E)] /\ f[1] = s[1]
      /\ \A j \in 2..Len(s) : f[j] = f[j - 1] \o s[j]
  BY DEF Way
<1>4. CASE i = 1
  <2>1. 1..i = {1}
    BY <1>4
  <2>. QED
    BY <1>0, <1>3, <1>4, <2>1 DEF UpTo
<1>5. CASE i # 1
  <2>1. i - 1 \in 1..Len(s) /\ ~(i <= i - 1) /\ i \in 2..Len(s)
    BY <1>2, <1>5
  <2>0. 1..i = 1..(i - 1) \cup {i}
    BY <1>2, <1>5
  <2>2. ToSet(f[i - 1]) = UpTo(s, i - 1)
    BY <1>1, <2>1 DEF Bad
  <2>3. ToSet(f[i]) = ToSet(f[i - 1]) \cup ToSet(s[i])
    <3>1. f[i - 1] \in Seq(E) /\ f[i] = f[i - 1] \o s[i]
      BY <1>0, <2>1, Zenon
    <3>2. s[i] \in Seq(E)
      BY <1>2
    <3>. QED
      BY <3>1, <3>2, BothHave
  <2>. QED
    BY <1>3, <2>0, <2>2, <2>3 DEF UpTo
<1>. QED
  BY <1>4, <1>5

\* What sequences hold together, one after the other.
LEMMA FlatHas ==
  ASSUME NEW E, NEW s \in Seq(Seq(E))
  PROVE  /\ FlattenSeq(s) \in Seq(E)
         /\ ToSet(FlattenSeq(s)) = UNION {ToSet(s[i]) : i \in DOMAIN s}
<1>1. CASE Len(s) = 0
  <2>1. s = <<>> /\ FlattenSeq(s) = <<>>
    BY <1>1 DEF FlattenSeq
  <2>2. <<>> \in Seq(E) /\ ToSet(<<>>) = {} /\ DOMAIN s = {}
    BY <2>1 DEF ToSet
  <2>. QED
    BY <2>1, <2>2
<1>2. CASE Len(s) # 0
  <2>1. PICK f : Way(E, s, f)
    BY <1>2, FlatSteps
  <2>2. Len(s) \in 1..Len(s) /\ DOMAIN s = 1..Len(s)
    BY <1>2
  <2>3. \A i \in 1..Len(s) : ToSet(f[i]) = UpTo(s, i)
    BY <2>1, FlatGives, Zenon
  <2>4. ToSet(f[Len(s)]) = UpTo(s, Len(s)) /\ f[Len(s)] \in Seq(E)
    BY <2>1, <2>2, <2>3, Zenon DEF Way
  <2>. QED
    BY <2>1, <2>2, <2>4, Zenon DEF Way, UpTo
<1>. QED
  BY <1>1, <1>2

\* No two entries of a sequence have the same key.
Apart(s, key) == \A m, n \in DOMAIN s : key[s[m]] = key[s[n]] => m = n

\* Two sequences that share no key, each without two of one.
LEMMA BothApart ==
  ASSUME NEW E, NEW a \in Seq(E), NEW b \in Seq(E), NEW key, Apart(a, key), Apart(b, key),
         \A x \in ToSet(a), y \in ToSet(b) : key[x] # key[y]
  PROVE  Apart(a \o b, key)
<1>1. /\ Len(a) \in Nat /\ Len(b) \in Nat
      /\ DOMAIN a = 1..Len(a) /\ DOMAIN b = 1..Len(b) /\ DOMAIN (a \o b) = 1..(Len(a) + Len(b))
      /\ \A i \in 1..(Len(a) + Len(b)) : (a \o b)[i] = IF i <= Len(a) THEN a[i] ELSE b[i - Len(a)]
  OBVIOUS
<1>2. ASSUME NEW m \in 1..(Len(a) + Len(b)), NEW n \in 1..(Len(a) + Len(b)),
             key[(a \o b)[m]] = key[(a \o b)[n]]
      PROVE  m = n
  <2>1. CASE m <= Len(a) /\ n <= Len(a)
    <3>1. m \in 1..Len(a) /\ n \in 1..Len(a)
      BY <1>1, <2>1
    <3>. QED
      BY <1>1, <1>2, <2>1, <3>1 DEF Apart
  <2>2. CASE ~(m <= Len(a)) /\ ~(n <= Len(a))
    <3>1. m - Len(a) \in 1..Len(b) /\ n - Len(a) \in 1..Len(b)
      BY <1>1, <2>2
    <3>2. m - Len(a) = n - Len(a)
      BY <1>1, <1>2, <2>2, <3>1 DEF Apart
    <3>. QED
      BY <1>1, <3>2
  <2>3. CASE m <= Len(a) /\ ~(n <= Len(a))
    <3>1. m \in 1..Len(a) /\ n - Len(a) \in 1..Len(b)
      BY <1>1, <2>3
    <3>2. a[m] \in ToSet(a) /\ b[n - Len(a)] \in ToSet(b)
      BY <1>1, <3>1 DEF ToSet
    <3>. QED
      BY <1>1, <1>2, <2>3, <3>2
  <2>4. CASE ~(m <= Len(a)) /\ n <= Len(a)
    <3>1. n \in 1..Len(a) /\ m - Len(a) \in 1..Len(b)
      BY <1>1, <2>4
    <3>2. a[n] \in ToSet(a) /\ b[m - Len(a)] \in ToSet(b)
      BY <1>1, <3>1 DEF ToSet
    <3>. QED
      BY <1>1, <1>2, <2>4, <3>2
  <2>. QED
    BY <2>1, <2>2, <2>3, <2>4
<1>. QED
  BY <1>1, <1>2 DEF Apart

\* Sequences that share no key, each without two of one, have no two of one together.
LEMMA FlatApart ==
  ASSUME NEW E, NEW s \in Seq(Seq(E)), NEW key, \A i \in DOMAIN s : Apart(s[i], key),
         \A i, j \in DOMAIN s : i # j => \A x \in ToSet(s[i]), y \in ToSet(s[j]) : key[x] # key[y]
  PROVE  Apart(FlattenSeq(s), key)
<1>1. CASE Len(s) = 0
  <2>1. s = <<>> /\ FlattenSeq(s) = <<>>
    BY <1>1 DEF FlattenSeq
  <2>. QED
    BY <2>1 DEF Apart
<1>2. CASE Len(s) # 0
  <2>0. Len(s) \in Nat /\ Len(s) \in 1..Len(s) /\ DOMAIN s = 1..Len(s)
    BY <1>2
  <2>1. PICK f : Way(E, s, f)
    BY <1>2, FlatSteps
  <2>2. \A i \in 1..Len(s) : ToSet(f[i]) = UpTo(s, i)
    BY <2>1, FlatGives, Zenon
  <2>. DEFINE Bad == {i \in 1..Len(s) : ~Apart(f[i], key)}
  <2>. SUFFICES ASSUME Bad # {} PROVE FALSE
    BY <2>0, <2>1 DEF Way
  <2>3. PICK i \in Bad : \A m \in Bad : i <= m
    <3>1. Bad \in SUBSET Nat
      OBVIOUS
    <3>. HIDE DEF Bad
    <3>. QED
      BY <3>1, Least
  <2>4. i \in 1..Len(s) /\ i \in Nat /\ ~Apart(f[i], key)
    BY <2>3
  <2>5. i # 1
    BY <2>0, <2>1, <2>4 DEF Way
  <2>6. i - 1 \in 1..Len(s) /\ ~(i <= i - 1) /\ i \in 2..Len(s)
    BY <2>0, <2>4, <2>5
  <2>7. Apart(f[i - 1], key) /\ Apart(s[i], key)
    BY <2>0, <2>3, <2>4, <2>6
  <2>8. ASSUME NEW x \in ToSet(f[i - 1]), NEW y \in ToSet(s[i]) PROVE key[x] # key[y]
    <3>1. PICK j \in 1..(i - 1) : x \in ToSet(s[j])
      <4>1. ToSet(f[i - 1]) = UpTo(s, i - 1)
        BY <2>2, <2>6
      <4>. QED
        BY <4>1 DEF UpTo
    <3>2. j \in DOMAIN s /\ i \in DOMAIN s /\ j # i
      BY <2>0, <2>4
    <3>. QED
      BY <3>1, <3>2
  <2>9. f[i - 1] \in Seq(E) /\ f[i] = f[i - 1] \o s[i]
    BY <2>1, <2>6, Zenon DEF Way
  <2>10. s[i] \in Seq(E)
    BY <2>0, <2>4
  <2>. QED
    BY <2>4, <2>7, <2>8, <2>9, <2>10, BothApart
<1>. QED
  BY <1>1, <1>2
-----------------------------------------------------------------------------
(* What the rules raise *)

\* A row of the holdings.
Position == [coin : Coin, amount : Nat \ {0}, basis : Nat \cup {None}]

\* All that a candidate may be about.
Subject == Coin \cup Category \cup {None}

\* What a dedupe key may start with.
Name == Kind \cup {"price_drop"}

\* A candidate, as a rule raises it.
Finding == [kind : Kind, severity : Severity, about : Subject, dedupeKey : Name \X Subject]

KeyOf == [a \in Finding |-> a.dedupeKey]

\* No coin occurs twice.
Once(s) == \A m, n \in DOMAIN s : s[m] = s[n] => m = n

\* Each coin of some rows occurs, and once.
LEMMA CoinsAre ==
  ASSUME NEW R \in Seq(Position), NEW some \in SUBSET DOMAIN R
  PROVE  /\ CoinsOf(R, some) \in Seq(Coin)
         /\ ToSet(CoinsOf(R, some)) = {R[i].coin : i \in some}
         /\ Once(CoinsOf(R, some))
<1>. DEFINE first(i) == i \in some /\ ~\E j \in some : j < i /\ R[j].coin = R[i].coin
            s == [i \in DOMAIN R |-> IF first(i) THEN <<R[i].coin>> ELSE <<>>]
            key == [c \in Coin |-> c]
<1>1. \A i \in DOMAIN R : R[i].coin \in Coin /\ i \in Nat
  <2>1. \A i \in DOMAIN R : i \in Nat
    OBVIOUS
  <2>2. \A i \in DOMAIN R : R[i] \in Position
    OBVIOUS
  <2>. QED
    BY <2>1, <2>2 DEF Position
<1>2. s \in Seq(Seq(Coin)) /\ DOMAIN s = DOMAIN R
  <2>1. \A i \in DOMAIN R : (IF first(i) THEN <<R[i].coin>> ELSE <<>>) \in Seq(Coin)
    <3>1. \A i \in DOMAIN R : <<R[i].coin>> \in Seq(Coin)
      BY <1>1
    <3>2. <<>> \in Seq(Coin)
      OBVIOUS
    <3>. HIDE DEF first
    <3>. QED
      BY <3>1, <3>2, Zenon
  <2>2. DOMAIN R = 1..Len(R) /\ Len(R) \in Nat
    OBVIOUS
  <2>3. s \in [1..Len(R) -> Seq(Coin)]
    <3>. HIDE DEF first
    <3>. QED
      BY <2>1, <2>2
  <2>. HIDE DEF s
  <2>. QED
    BY <2>2, <2>3, SeqDef
<1>3. CoinsOf(R, some) = FlattenSeq(s)
  BY DEF CoinsOf
<1>4. \A i \in DOMAIN s : ToSet(s[i]) = IF first(i) THEN {R[i].coin} ELSE {}
  <2>1. \A c : ToSet(<<c>>) = {c}
    BY DEF ToSet
  <2>2. ToSet(<<>>) = {}
    BY DEF ToSet
  <2>. HIDE DEF first
  <2>. QED
    BY <1>2, <2>1, <2>2
<1>5. FlattenSeq(s) \in Seq(Coin) /\ ToSet(FlattenSeq(s)) = UNION {ToSet(s[i]) : i \in DOMAIN s}
  <2>. HIDE DEF s
  <2>. QED
    BY <1>2, FlatHas
<1>6. ASSUME NEW i \in some PROVE \E j \in DOMAIN R : first(j) /\ R[j].coin = R[i].coin
  <2>. DEFINE same == {j \in some : R[j].coin = R[i].coin}
  <2>1. PICK j \in same : \A m \in same : j <= m
    <3>1. same \in SUBSET Nat /\ same # {}
      BY <1>1
    <3>. HIDE DEF same
    <3>. QED
      BY <3>1, Least
  <2>2. j \in DOMAIN R /\ j \in some /\ R[j].coin = R[i].coin
    OBVIOUS
  <2>3. ASSUME NEW m \in some, m < j, R[m].coin = R[j].coin PROVE FALSE
    <3>1. m \in same /\ m \in Nat /\ j \in Nat
      BY <1>1, <2>2, <2>3
    <3>. QED
      BY <2>1, <2>3, <3>1
  <2>. QED
    BY <2>2, <2>3
<1>7. ToSet(FlattenSeq(s)) = {R[i].coin : i \in some}
  <2>1. \A i \in DOMAIN R : first(i) => i \in some
    OBVIOUS
  <2>. HIDE DEF first, s
  <2>. QED
    BY <1>2, <1>4, <1>5, <1>6, <2>1
<1>8. ASSUME NEW i \in DOMAIN s, NEW j \in DOMAIN s, i # j,
             NEW x \in ToSet(s[i]), NEW y \in ToSet(s[j])
      PROVE  key[x] # key[y]
  <2>1. first(i) /\ first(j) /\ x = R[i].coin /\ y = R[j].coin
    <3>. HIDE DEF first, s
    <3>. QED
      BY <1>4
  <2>2. i \in Nat /\ j \in Nat /\ x \in Coin /\ y \in Coin
    BY <1>1, <1>2, <2>1
  <2>3. x # y
    BY <1>8, <2>1, <2>2
  <2>. QED
    BY <2>2, <2>3
<1>9. \A i \in DOMAIN s : Apart(s[i], key)
  <2>1. \A i \in DOMAIN s : \A m, n \in DOMAIN s[i] : m = n
    <3>. HIDE DEF first
    <3>. QED
      BY <1>2
  <2>. QED
    BY <2>1 DEF Apart
<1>10. Apart(FlattenSeq(s), key)
  <2>. HIDE DEF s, key
  <2>. QED
    BY <1>2, <1>8, <1>9, FlatApart
<1>11. Once(FlattenSeq(s))
  <2>1. \A m \in DOMAIN FlattenSeq(s) : FlattenSeq(s)[m] \in Coin
    BY <1>5
  <2>. HIDE DEF s
  <2>. QED
    BY <1>10, <2>1 DEF Once, Apart
<1>. QED
  BY <1>3, <1>5, <1>7, <1>11

\* The candidates of s, of one rule, are about x: no two of them share a key.
Speaks(s, kinds, names, x) ==
  /\ s \in Seq(Finding)
  /\ Apart(s, KeyOf)
  /\ \A a \in ToSet(s) :
       a.kind \in kinds /\ a.about = x /\ \E name \in names : a.dedupeKey = <<name, x>>

\* What is raised, is on its condition, and of the kind and the subject asked for.
LEMMA RaiseSpeaks ==
  ASSUME NEW condition, NEW kind \in Kind, NEW severity \in Severity, NEW x \in Subject,
         NEW name \in Name
  PROVE  /\ Speaks(Raise(condition, kind, severity, x, name), {kind}, {name}, x)
         /\ ToSet(Raise(condition, kind, severity, x, name)) =
              IF condition
                THEN {[kind |-> kind, severity |-> severity, about |-> x, dedupeKey |-> <<name, x>>]}
                ELSE {}
<1>. DEFINE a == [kind |-> kind, severity |-> severity, about |-> x, dedupeKey |-> <<name, x>>]
            s == Raise(condition, kind, severity, x, name)
<1>1. a \in Finding
  BY DEF Finding
<1>2. s = IF condition THEN <<a>> ELSE <<>>
  BY DEF Raise
<1>3. a.kind = kind /\ a.about = x /\ a.dedupeKey = <<name, x>>
  OBVIOUS
<1>. HIDE DEF a, s
<1>4. s \in Seq(Finding) /\ \A m, n \in DOMAIN s : m = n
  BY <1>1, <1>2
<1>5. ToSet(s) = IF condition THEN {a} ELSE {}
  BY <1>2 DEF ToSet
<1>6. Speaks(s, {kind}, {name}, x)
  BY <1>3, <1>4, <1>5 DEF Speaks, Apart
<1>. QED
  BY <1>5, <1>6 DEF a, s

\* What a rule says of each of several subjects.
LEMMA EachSpeaks ==
  ASSUME NEW subjects \in Seq(Subject), Once(subjects), NEW g, DOMAIN g = ToSet(subjects),
         NEW kinds, NEW names, \A x \in ToSet(subjects) : Speaks(g[x], kinds, names, x)
  PROVE  LET all == FlattenSeq([i \in DOMAIN subjects |-> g[subjects[i]]]) IN
         /\ all \in Seq(Finding)
         /\ Apart(all, KeyOf)
         /\ ToSet(all) = UNION {ToSet(g[x]) : x \in ToSet(subjects)}
         /\ \A a \in ToSet(all) :
              a.kind \in kinds /\ \E name \in names, x \in Subject : a.dedupeKey = <<name, x>>
<1>. DEFINE s == [i \in DOMAIN subjects |-> g[subjects[i]]]
<1>1. \A i \in DOMAIN subjects : subjects[i] \in ToSet(subjects) /\ subjects[i] \in Subject
  BY DEF ToSet
<1>2. DOMAIN subjects = 1..Len(subjects) /\ Len(subjects) \in Nat
  OBVIOUS
<1>3. \A i \in DOMAIN subjects : Speaks(s[i], kinds, names, subjects[i])
  BY <1>1
<1>4. DOMAIN s = DOMAIN subjects
  OBVIOUS
<1>. HIDE DEF s
<1>5. s \in Seq(Seq(Finding))
  <2>1. s = [i \in 1..Len(subjects) |-> s[i]]
    BY <1>2 DEF s
  <2>2. \A i \in 1..Len(subjects) : s[i] \in Seq(Finding)
    BY <1>2, <1>3 DEF Speaks
  <2>3. s \in [1..Len(subjects) -> Seq(Finding)]
    BY <2>1, <2>2
  <2>. QED
    BY <1>2, <2>3, SeqDef
<1>6. \A i \in DOMAIN s : Apart(s[i], KeyOf)
  BY <1>3, <1>4 DEF Speaks
<1>7. ASSUME NEW i \in DOMAIN s, NEW j \in DOMAIN s, i # j, NEW a \in ToSet(s[i]), NEW b \in ToSet(s[j])
      PROVE  KeyOf[a] # KeyOf[b]
  <2>1. s[i] \in Seq(Finding) /\ s[j] \in Seq(Finding)
    BY <1>3, <1>4 DEF Speaks
  <2>2. a \in Finding /\ b \in Finding
    BY <2>1 DEF ToSet
  <2>3. PICK n \in names : a.dedupeKey = <<n, subjects[i]>>
    BY <1>3, <1>4 DEF Speaks
  <2>4. PICK m \in names : b.dedupeKey = <<m, subjects[j]>>
    BY <1>3, <1>4 DEF Speaks
  <2>5. subjects[i] # subjects[j]
    BY <1>4, <1>7 DEF Once
  <2>6. a.dedupeKey # b.dedupeKey
    BY <2>3, <2>4, <2>5
  <2>. QED
    BY <2>2, <2>6 DEF KeyOf
<1>8. FlattenSeq(s) \in Seq(Finding) /\ ToSet(FlattenSeq(s)) = UNION {ToSet(s[i]) : i \in DOMAIN s}
  BY <1>5, FlatHas
<1>9. Apart(FlattenSeq(s), KeyOf)
  BY <1>5, <1>6, <1>7, FlatApart
<1>10. UNION {ToSet(s[i]) : i \in DOMAIN s} = UNION {ToSet(g[x]) : x \in ToSet(subjects)}
  <2>1. \A i \in DOMAIN s : s[i] = g[subjects[i]]
    BY <1>4 DEF s
  <2>2. ToSet(subjects) = {subjects[i] : i \in DOMAIN s}
    BY <1>4 DEF ToSet
  <2>. QED
    BY <2>1, <2>2
<1>11. ASSUME NEW a \in ToSet(FlattenSeq(s))
       PROVE  a.kind \in kinds /\ \E name \in names, x \in Subject : a.dedupeKey = <<name, x>>
  <2>1. PICK i \in DOMAIN s : a \in ToSet(s[i])
    BY <1>8
  <2>2. subjects[i] \in Subject
    BY <1>1, <1>4
  <2>. QED
    BY <1>3, <1>4, <2>1, <2>2 DEF Speaks
<1>. QED
  BY <1>8, <1>9, <1>10, <1>11 DEF s

\* A finite set as a sequence has each member once.
LEMMA ListOfSet ==
  ASSUME NEW S, IsFiniteSet(S)
  PROVE  SetToSeq(S) \in Seq(S) /\ Once(SetToSeq(S)) /\ ToSet(SetToSeq(S)) = S
<1>. DEFINE n == Cardinality(S)
            s == SetToSeq(S)
<1>1. n \in Nat /\ \E f \in [1..n -> S] : IsInjective(f)
  BY FS_CardinalityType DEF ExistsBijection, Bijection, Injection
<1>2. s \in [1..n -> S] /\ IsInjective(s)
  BY <1>1 DEF SetToSeq
<1>. HIDE DEF s
<1>3. s \in Surjection(1..n, S)
  <2>1. IsFiniteSet(1..n) /\ Cardinality(1..n) = n
    BY <1>1, FS_Interval
  <2>2. s \in Injection(1..n, S)
    BY <1>2 DEF Injection
  <2>. QED
    BY <2>1, <2>2, FS_Injection
<1>4. ToSet(s) = S
  BY <1>2, <1>3 DEF ToSet, Surjection
<1>5. s \in Seq(S)
  BY <1>1, <1>2, SeqDef
<1>. QED
  BY <1>2, <1>4, <1>5 DEF s, Once, IsInjective

\* The candidates of s are those of has, no two of them share a key, and all keys are of names.
Group(s, names, has) ==
  /\ s \in Seq(Finding)
  /\ Apart(s, KeyOf)
  /\ ToSet(s) = has
  /\ \A a \in has : \E name \in names, x \in Subject : a.dedupeKey = <<name, x>>

\* What a rule says of each of several subjects, in order and together.
InOrder(subjects, g) == FlattenSeq([i \in DOMAIN subjects |-> g[subjects[i]]])
Together(subjects, g) == UNION {ToSet(g[x]) : x \in ToSet(subjects)}

\* The rule says of the subjects what it says of each, and no two of it share a key.
LEMMA EachGroup ==
  ASSUME NEW subjects \in Seq(Subject), Once(subjects), NEW g, DOMAIN g = ToSet(subjects),
         NEW kinds, NEW names, \A x \in ToSet(subjects) : Speaks(g[x], kinds, names, x)
  PROVE  Group(InOrder(subjects, g), names, Together(subjects, g))
<1>. DEFINE all == FlattenSeq([i \in DOMAIN subjects |-> g[subjects[i]]])
<1>1. /\ all \in Seq(Finding)
      /\ Apart(all, KeyOf)
      /\ ToSet(all) = UNION {ToSet(g[x]) : x \in ToSet(subjects)}
      /\ \A a \in ToSet(all) :
           a.kind \in kinds /\ \E name \in names, x \in Subject : a.dedupeKey = <<name, x>>
  BY EachSpeaks
<1>. HIDE DEF all
<1>2. Group(all, names, UNION {ToSet(g[x]) : x \in ToSet(subjects)})
  BY <1>1 DEF Group
<1>. QED
  BY <1>2 DEF all, InOrder, Together

\* The coins that the rules for one coin look at, and those just below their cost.
HeldIn(R, Q) == {R[i].coin : i \in {j \in DOMAIN R : Usable(Q, R[j].coin)}}
CrossedIn(R, Q) == {R[i].coin : i \in {j \in DOMAIN R : Crossed(Q, R[j])}}

\* The rules for one coin look at each coin held with a quote that can be used, once.
LEMMA HeldIs ==
  ASSUME NEW R \in Seq(Position), NEW Q
  PROVE  /\ Held(R, Q) \in Seq(Subject) /\ Once(Held(R, Q))
         /\ ToSet(Held(R, Q)) = HeldIn(R, Q)
         /\ HeldIn(R, Q) \subseteq Coin
<1>1. Held(R, Q) \in Seq(Coin) /\ Once(Held(R, Q)) /\ ToSet(Held(R, Q)) = HeldIn(R, Q)
  <2>. DEFINE some == {i \in DOMAIN R : Usable(Q, R[i].coin)}
  <2>1. some \in SUBSET DOMAIN R
    OBVIOUS
  <2>2. Held(R, Q) = CoinsOf(R, some) /\ HeldIn(R, Q) = {R[i].coin : i \in some}
    BY DEF Held, HeldIn
  <2>. HIDE DEF some
  <2>. QED
    BY <2>1, <2>2, CoinsAre
<1>2. Held(R, Q) \in Seq(Subject)
  BY <1>1 DEF Subject
<1>3. ToSet(Held(R, Q)) \subseteq Coin
  BY <1>1 DEF ToSet
<1>. QED
  BY <1>1, <1>2, <1>3

\* The rules for one coin speak of that coin, each under its own names (rules.ts:64-345).
LEMMA RuleSpeaks ==
  ASSUME NEW R, NEW Q, NEW M, NEW c \in Coin
  PROVE  /\ Speaks(RwaDrift(Q, M, c), {"rwa_drift"}, {"rwa_drift"}, c)
         /\ Speaks(PriceDrop(Q, c), {"price_drop_1h", "price_drop_24h"}, {"price_drop"}, c)
         /\ Speaks(NearLow(Q, M, c), {"near_low"}, {"near_low"}, c)
         /\ Speaks(Depeg(Q, c), {"depeg"}, {"depeg"}, c)
         /\ Speaks(Spike(Q, c), {"stable_volume_anomaly", "volume_spike"},
                   {"stable_volume_anomaly", "volume_spike"}, c)
         /\ Speaks(DryUp(R, Q, c), {"volume_dry_up"}, {"volume_dry_up"}, c)
<1>1. /\ c \in Subject
      /\ "rwa_drift" \in Kind /\ "near_low" \in Kind /\ "depeg" \in Kind
      /\ "volume_dry_up" \in Kind /\ "price_drop_1h" \in Kind /\ "price_drop_24h" \in Kind
      /\ "stable_volume_anomaly" \in Kind /\ "volume_spike" \in Kind
      /\ Kind \subseteq Name /\ "price_drop" \in Name
      /\ "critical" \in Severity /\ "warning" \in Severity
  BY DEF Subject, Kind, Name, Severity
<1>2. Speaks(RwaDrift(Q, M, c), {"rwa_drift"}, {"rwa_drift"}, c)
  <2>. DEFINE anchor == M.anchor[c]
              gap == Magnitude(Q[c].price - anchor)
              condition == /\ anchor # None
                           /\ anchor > 0
                           /\ Whole * gap >= Prefs.rwaDrift * anchor
                           /\ 100 * gap <= 25 * anchor
              severity == IF Whole * gap >= 3 * Prefs.rwaDrift * anchor THEN "critical" ELSE "warning"
  <2>1. RwaDrift(Q, M, c) = Raise(condition, "rwa_drift", severity, c, "rwa_drift")
    BY DEF RwaDrift
  <2>2. severity \in Severity
    BY DEF Severity
  <2>. HIDE DEF condition, severity
  <2>3. "rwa_drift" \in Kind /\ "rwa_drift" \in Name
    BY <1>1
  <2>4. Speaks(Raise(condition, "rwa_drift", severity, c, "rwa_drift"), {"rwa_drift"}, {"rwa_drift"}, c)
    BY <1>1, <2>2, <2>3, RaiseSpeaks, Zenon
  <2>. QED
    BY <2>1, <2>4
<1>3. Speaks(PriceDrop(Q, c), {"price_drop_1h", "price_drop_24h"}, {"price_drop"}, c)
  <2>. DEFINE q == Q[c]
              hour == Falls(q.change1h, Prefs.drop1h)
              day == Falls(q.change24h, Prefs.drop24h)
              useHour == hour /\ (day => q.change1h * Prefs.drop24h <= q.change24h * Prefs.drop1h)
              change == IF useHour THEN q.change1h ELSE q.change24h
              threshold == IF useHour THEN Prefs.drop1h ELSE Prefs.drop24h
              condition == c \notin Pegged /\ (hour \/ day)
              kind == IF useHour THEN "price_drop_1h" ELSE "price_drop_24h"
              severity == IF -change >= 2 * threshold THEN "critical" ELSE "warning"
  <2>1. PriceDrop(Q, c) = Raise(condition, kind, severity, c, "price_drop")
    BY DEF PriceDrop
  <2>2. severity \in Severity /\ kind \in {"price_drop_1h", "price_drop_24h"}
    <3>. HIDE DEF useHour, change, threshold
    <3>. QED
      BY DEF Severity
  <2>. HIDE DEF condition, kind, severity
  <2>3. kind \in Kind /\ "price_drop" \in Name
    BY <1>1, <2>2
  <2>4. Speaks(Raise(condition, kind, severity, c, "price_drop"), {kind}, {"price_drop"}, c)
    BY <1>1, <2>2, <2>3, RaiseSpeaks, Zenon
  <2>. QED
    BY <2>1, <2>2, <2>4 DEF Speaks
<1>4. Speaks(NearLow(Q, M, c), {"near_low"}, {"near_low"}, c)
  <2>. DEFINE low == PriceLow(M.low[c])
              price == Q[c].price
              condition == /\ low # None /\ c \notin Pegged
                           /\ Whole * (price - low) <= Prefs.nearLowWithin * low
              severity == IF price <= low THEN "warning" ELSE "info"
  <2>1. NearLow(Q, M, c) = Raise(condition, "near_low", severity, c, "near_low")
    BY DEF NearLow
  <2>2. severity \in Severity
    BY DEF Severity
  <2>. HIDE DEF condition, severity
  <2>3. "near_low" \in Kind /\ "near_low" \in Name
    BY <1>1
  <2>4. Speaks(Raise(condition, "near_low", severity, c, "near_low"), {"near_low"}, {"near_low"}, c)
    BY <1>1, <2>2, <2>3, RaiseSpeaks, Zenon
  <2>. QED
    BY <2>1, <2>4
<1>5. Speaks(Depeg(Q, c), {"depeg"}, {"depeg"}, c)
  <2>. DEFINE condition == c \in Pegged /\ Q[c].price < Prefs.depegFloor
  <2>1. Depeg(Q, c) = Raise(condition, "depeg", "critical", c, "depeg")
    BY DEF Depeg
  <2>. HIDE DEF condition
  <2>2. "depeg" \in Kind /\ "depeg" \in Name
    BY <1>1
  <2>3. Speaks(Raise(condition, "depeg", "critical", c, "depeg"), {"depeg"}, {"depeg"}, c)
    BY <1>1, <2>2, RaiseSpeaks, Zenon
  <2>. QED
    BY <2>1, <2>3
<1>6. Speaks(Spike(Q, c), {"stable_volume_anomaly", "volume_spike"},
             {"stable_volume_anomaly", "volume_spike"}, c)
  <2>. DEFINE q == Q[c]
              pegged == c \in Pegged
              multiple == IF pegged THEN Prefs.stableVolume ELSE Prefs.volumeSpike
              stressed == IF pegged THEN 1000 * q.price < 995 * Dollar
                                    ELSE q.change24h # None /\ 100 * q.change24h <= -5 * Whole
              kind == IF pegged THEN "stable_volume_anomaly" ELSE "volume_spike"
              condition == /\ q.volume # None
                           /\ q.volume >= (multiple - 1) * Whole /\ q.liquid
              severity == IF stressed THEN "warning" ELSE "info"
  <2>1. Spike(Q, c) = Raise(condition, kind, severity, c, kind)
    BY DEF Spike
  <2>2. severity \in Severity /\ kind \in {"stable_volume_anomaly", "volume_spike"}
    BY DEF Severity
  <2>. HIDE DEF condition, kind, severity
  <2>3. kind \in Kind /\ kind \in Name
    BY <1>1, <2>2
  <2>4. Speaks(Raise(condition, kind, severity, c, kind), {kind}, {kind}, c)
    BY <1>1, <2>2, <2>3, RaiseSpeaks, Zenon
  <2>. QED
    BY <2>1, <2>2, <2>4 DEF Speaks
<1>7. Speaks(DryUp(R, Q, c), {"volume_dry_up"}, {"volume_dry_up"}, c)
  <2>. DEFINE q == Q[c]
              condition == /\ c \notin Pegged
                           /\ Falls(q.volume, Prefs.volumeDryUp)
                           /\ q.change24h # None /\ 100 * q.change24h <= -3 * Whole
                           /\ ShareAtLeast(R, Q, c, 10)
  <2>1. DryUp(R, Q, c) = Raise(condition, "volume_dry_up", "warning", c, "volume_dry_up")
    BY DEF DryUp
  <2>. HIDE DEF condition
  <2>2. "volume_dry_up" \in Kind /\ "volume_dry_up" \in Name
    BY <1>1
  <2>3. Speaks(Raise(condition, "volume_dry_up", "warning", c, "volume_dry_up"),
               {"volume_dry_up"}, {"volume_dry_up"}, c)
    BY <1>1, <2>2, RaiseSpeaks, Zenon
  <2>. QED
    BY <2>1, <2>3
<1>. QED
  BY <1>2, <1>3, <1>4, <1>5, <1>6, <1>7

\* The rule for a group speaks of the group (rules.ts:282-322).
LEMMA CategorySpeaks ==
  ASSUME NEW R, NEW Q, NEW M, NEW k \in Category
  PROVE  Speaks(CategoryRotation(R, Q, M, k), {"category_rotation"}, {"category_rotation"}, k)
<1>. DEFINE change == M.change[k]
            members == {c \in Coin \ Pegged : CategoryOf(c, M) = k}
            total == Worth(R, Q, Coin)
            condition == /\ k \in DOMAIN M.change
                         /\ Falls(change, Prefs.categoryDrop)
                         /\ total > 0 /\ 10 * Worth(R, Q, members) >= total
                         /\ M.global # None /\ 100 * (change - M.global) <= -5 * Whole
<1>1. CategoryRotation(R, Q, M, k) =
        Raise(condition, "category_rotation", "warning", k, "category_rotation")
  BY DEF CategoryRotation
<1>. HIDE DEF condition
<1>2. k \in Subject /\ "category_rotation" \in Kind /\ "category_rotation" \in Name /\ "warning" \in Severity
  BY DEF Subject, Kind, Name, Severity
<1>3. Speaks(Raise(condition, "category_rotation", "warning", k, "category_rotation"),
             {"category_rotation"}, {"category_rotation"}, k)
  BY <1>2, RaiseSpeaks, Zenon
<1>. QED
  BY <1>1, <1>3

\* The rule for the portfolio speaks of it (rules.ts:347-393).
LEMMA PortfolioSpeaks ==
  ASSUME NEW R, NEW Q
  PROVE  Speaks(PortfolioDrop(R, Q), {"portfolio_drop"}, {"portfolio_drop"}, None)
<1>. DEFINE condition == /\ ~Incomplete(R, Q)
                         /\ 100 * Worth(R, Q, CoveredCoins(R, Q)) >= 80 * Worth(R, Q, Coin)
                         /\ Diversified(R, Q)
                         /\ FellBy(R, Q, Prefs.portfolioDrop)
            severity == IF FellBy(R, Q, 2 * Prefs.portfolioDrop) THEN "critical" ELSE "warning"
<1>1. PortfolioDrop(R, Q) = Raise(condition, "portfolio_drop", severity, None, "portfolio_drop")
  BY DEF PortfolioDrop
<1>2. severity \in Severity
  BY DEF Severity
<1>. HIDE DEF condition, severity
<1>3. None \in Subject /\ "portfolio_drop" \in Kind /\ "portfolio_drop" \in Name
  BY DEF Subject, Kind, Name
<1>4. Speaks(Raise(condition, "portfolio_drop", severity, None, "portfolio_drop"),
             {"portfolio_drop"}, {"portfolio_drop"}, None)
  BY <1>2, <1>3, RaiseSpeaks, Zenon
<1>. QED
  BY <1>1, <1>4

\* The names under which the volume rules speak.
VolumeNames == {"stable_volume_anomaly", "volume_spike", "volume_dry_up"}

\* Both volume rules.
LEMMA VolumeSpeaks ==
  ASSUME NEW R, NEW Q, NEW c \in Coin
  PROVE  /\ Speaks(Spike(Q, c) \o DryUp(R, Q, c), VolumeNames, VolumeNames, c)
         /\ ToSet(Spike(Q, c) \o DryUp(R, Q, c)) = ToSet(Spike(Q, c)) \cup ToSet(DryUp(R, Q, c))
<1>. DEFINE a == Spike(Q, c)
            b == DryUp(R, Q, c)
            spikes == {"stable_volume_anomaly", "volume_spike"}
<1>1. Speaks(a, spikes, spikes, c) /\ Speaks(b, {"volume_dry_up"}, {"volume_dry_up"}, c)
  BY RuleSpeaks
<1>. HIDE DEF a, b
<1>2. a \in Seq(Finding) /\ b \in Seq(Finding)
  BY <1>1 DEF Speaks
<1>3. ToSet(a \o b) = ToSet(a) \cup ToSet(b)
  BY <1>2, BothHave
<1>4. ASSUME NEW x \in ToSet(a), NEW y \in ToSet(b) PROVE KeyOf[x] # KeyOf[y]
  <2>1. x \in Finding /\ y \in Finding
    BY <1>2 DEF ToSet
  <2>2. PICK n \in spikes : x.dedupeKey = <<n, c>>
    BY <1>1 DEF Speaks
  <2>3. y.dedupeKey = <<"volume_dry_up", c>>
    BY <1>1 DEF Speaks
  <2>4. x.dedupeKey # y.dedupeKey
    BY <2>2, <2>3
  <2>. QED
    BY <2>1, <2>4 DEF KeyOf
<1>5. Apart(a \o b, KeyOf)
  <2>1. Apart(a, KeyOf) /\ Apart(b, KeyOf)
    BY <1>1 DEF Speaks
  <2>. QED
    BY <1>2, <1>4, <2>1, BothApart
<1>6. a \o b \in Seq(Finding)
  BY <1>2
<1>7. \A x \in ToSet(a \o b) :
        x.kind \in VolumeNames /\ x.about = c /\ \E n \in VolumeNames : x.dedupeKey = <<n, c>>
  BY <1>1, <1>3 DEF Speaks, VolumeNames
<1>8. Speaks(a \o b, VolumeNames, VolumeNames, c)
  BY <1>5, <1>6, <1>7 DEF Speaks
<1>. QED
  BY <1>3, <1>8 DEF a, b

\* What is said of one coin.
Cost(c) == Raise(TRUE, "below_cost_basis", "warning", c, "below_cost_basis")

\* The cost rule speaks of the coin.
LEMMA CostSpeaks ==
  ASSUME NEW c \in Coin
  PROVE  Speaks(Cost(c), {"below_cost_basis"}, {"below_cost_basis"}, c)
<1>1. c \in Subject /\ "below_cost_basis" \in Kind /\ "below_cost_basis" \in Name /\ "warning" \in Severity
  BY DEF Subject, Kind, Name, Severity
<1>. QED
  BY <1>1, RaiseSpeaks, Zenon DEF Cost

\* What one evaluation says: of a coin, of all coins, of those just below their cost, of
\* the groups, and of everything.
OfCoin(R, Q, M, c) ==
  ToSet(RwaDrift(Q, M, c)) \cup ToSet(PriceDrop(Q, c)) \cup ToSet(NearLow(Q, M, c))
  \cup ToSet(Depeg(Q, c)) \cup ToSet(Spike(Q, c)) \cup ToSet(DryUp(R, Q, c))

OfCoins(R, Q, M) == UNION {OfCoin(R, Q, M, c) : c \in HeldIn(R, Q)}
OfCosts(R, Q) == UNION {ToSet(Cost(c)) : c \in CrossedIn(R, Q)}
OfGroups(R, Q, M) == UNION {ToSet(CategoryRotation(R, Q, M, k)) : k \in Category}

Said(R, Q, M) == OfCoins(R, Q, M) \cup OfCosts(R, Q) \cup OfGroups(R, Q, M) \cup ToSet(PortfolioDrop(R, Q))

\* The names of each group of candidates, in the order in which evaluate lists them.
Names ==
  <<{"rwa_drift"}, {"price_drop"}, {"below_cost_basis"}, {"near_low"}, {"depeg"}, VolumeNames,
    {"category_rotation"}, {"portfolio_drop"}>>

\* The groups in which the candidates are listed, and what each has.
Parts(R, Q, M) ==
  <<Each(Held(R, Q), LAMBDA c : RwaDrift(Q, M, c)),
    Each(Held(R, Q), LAMBDA c : PriceDrop(Q, c)),
    CostBasis(R, Q),
    Each(Held(R, Q), LAMBDA c : NearLow(Q, M, c)),
    Each(Held(R, Q), LAMBDA c : Depeg(Q, c)),
    Each(Held(R, Q), LAMBDA c : Spike(Q, c) \o DryUp(R, Q, c)),
    Each(SetToSeq(Category), LAMBDA k : CategoryRotation(R, Q, M, k)),
    PortfolioDrop(R, Q)>>

Has(R, Q, M) ==
  <<UNION {ToSet(RwaDrift(Q, M, c)) : c \in HeldIn(R, Q)},
    UNION {ToSet(PriceDrop(Q, c)) : c \in HeldIn(R, Q)},
    OfCosts(R, Q),
    UNION {ToSet(NearLow(Q, M, c)) : c \in HeldIn(R, Q)},
    UNION {ToSet(Depeg(Q, c)) : c \in HeldIn(R, Q)},
    UNION {ToSet(Spike(Q, c) \o DryUp(R, Q, c)) : c \in HeldIn(R, Q)},
    OfGroups(R, Q, M),
    ToSet(PortfolioDrop(R, Q))>>

\* Each group of candidates that an evaluation finds.
LEMMA Groups ==
  ASSUME NEW R \in Seq(Position), NEW Q, NEW M
  PROVE  \A i \in 1..8 : Group(Parts(R, Q, M)[i], Names[i], Has(R, Q, M)[i])
<1>1. /\ Held(R, Q) \in Seq(Subject) /\ Once(Held(R, Q))
      /\ ToSet(Held(R, Q)) = HeldIn(R, Q)
      /\ HeldIn(R, Q) \subseteq Coin
  BY HeldIs
<1>2. \A i \in DOMAIN Held(R, Q) : Held(R, Q)[i] \in HeldIn(R, Q)
  BY <1>1 DEF ToSet
<1>3. Group(Each(Held(R, Q), LAMBDA c : RwaDrift(Q, M, c)), {"rwa_drift"},
           UNION {ToSet(RwaDrift(Q, M, c)) : c \in HeldIn(R, Q)})
  <2>. DEFINE g == [c \in HeldIn(R, Q) |-> RwaDrift(Q, M, c)]
              had == UNION {ToSet(RwaDrift(Q, M, c)) : c \in HeldIn(R, Q)}
  <2>1. \A c \in HeldIn(R, Q) : g[c] = RwaDrift(Q, M, c) /\ Speaks(RwaDrift(Q, M, c), {"rwa_drift"}, {"rwa_drift"}, c)
    BY <1>1, RuleSpeaks
  <2>2. Each(Held(R, Q), LAMBDA c : RwaDrift(Q, M, c)) = FlattenSeq([i \in DOMAIN Held(R, Q) |-> g[Held(R, Q)[i]]])
    BY <1>2, <2>1 DEF Each
  <2>3. DOMAIN g = HeldIn(R, Q) /\ had = UNION {ToSet(g[c]) : c \in HeldIn(R, Q)}
    BY <2>1
  <2>. HIDE DEF g, had
  <2>4. \A x \in ToSet(Held(R, Q)) : Speaks(g[x], {"rwa_drift"}, {"rwa_drift"}, x)
    BY <1>1, <2>1
  <2>5. Group(InOrder(Held(R, Q), g), {"rwa_drift"}, Together(Held(R, Q), g))
    BY <1>1, <2>3, <2>4, EachGroup, Zenon
  <2>6. Group(Each(Held(R, Q), LAMBDA c : RwaDrift(Q, M, c)), {"rwa_drift"}, had)
    BY <1>1, <2>2, <2>3, <2>5 DEF InOrder, Together
  <2>. QED
    BY <2>6 DEF had
<1>4. Group(Each(Held(R, Q), LAMBDA c : PriceDrop(Q, c)), {"price_drop"},
           UNION {ToSet(PriceDrop(Q, c)) : c \in HeldIn(R, Q)})
  <2>. DEFINE g == [c \in HeldIn(R, Q) |-> PriceDrop(Q, c)]
              had == UNION {ToSet(PriceDrop(Q, c)) : c \in HeldIn(R, Q)}
  <2>1. \A c \in HeldIn(R, Q) : g[c] = PriceDrop(Q, c) /\ Speaks(PriceDrop(Q, c), {"price_drop_1h", "price_drop_24h"}, {"price_drop"}, c)
    BY <1>1, RuleSpeaks
  <2>2. Each(Held(R, Q), LAMBDA c : PriceDrop(Q, c)) = FlattenSeq([i \in DOMAIN Held(R, Q) |-> g[Held(R, Q)[i]]])
    BY <1>2, <2>1 DEF Each
  <2>3. DOMAIN g = HeldIn(R, Q) /\ had = UNION {ToSet(g[c]) : c \in HeldIn(R, Q)}
    BY <2>1
  <2>. HIDE DEF g, had
  <2>4. \A x \in ToSet(Held(R, Q)) : Speaks(g[x], {"price_drop_1h", "price_drop_24h"}, {"price_drop"}, x)
    BY <1>1, <2>1
  <2>5. Group(InOrder(Held(R, Q), g), {"price_drop"}, Together(Held(R, Q), g))
    BY <1>1, <2>3, <2>4, EachGroup, Zenon
  <2>6. Group(Each(Held(R, Q), LAMBDA c : PriceDrop(Q, c)), {"price_drop"}, had)
    BY <1>1, <2>2, <2>3, <2>5 DEF InOrder, Together
  <2>. QED
    BY <2>6 DEF had
<1>5. Group(Each(Held(R, Q), LAMBDA c : NearLow(Q, M, c)), {"near_low"},
           UNION {ToSet(NearLow(Q, M, c)) : c \in HeldIn(R, Q)})
  <2>. DEFINE g == [c \in HeldIn(R, Q) |-> NearLow(Q, M, c)]
              had == UNION {ToSet(NearLow(Q, M, c)) : c \in HeldIn(R, Q)}
  <2>1. \A c \in HeldIn(R, Q) : g[c] = NearLow(Q, M, c) /\ Speaks(NearLow(Q, M, c), {"near_low"}, {"near_low"}, c)
    BY <1>1, RuleSpeaks
  <2>2. Each(Held(R, Q), LAMBDA c : NearLow(Q, M, c)) = FlattenSeq([i \in DOMAIN Held(R, Q) |-> g[Held(R, Q)[i]]])
    BY <1>2, <2>1 DEF Each
  <2>3. DOMAIN g = HeldIn(R, Q) /\ had = UNION {ToSet(g[c]) : c \in HeldIn(R, Q)}
    BY <2>1
  <2>. HIDE DEF g, had
  <2>4. \A x \in ToSet(Held(R, Q)) : Speaks(g[x], {"near_low"}, {"near_low"}, x)
    BY <1>1, <2>1
  <2>5. Group(InOrder(Held(R, Q), g), {"near_low"}, Together(Held(R, Q), g))
    BY <1>1, <2>3, <2>4, EachGroup, Zenon
  <2>6. Group(Each(Held(R, Q), LAMBDA c : NearLow(Q, M, c)), {"near_low"}, had)
    BY <1>1, <2>2, <2>3, <2>5 DEF InOrder, Together
  <2>. QED
    BY <2>6 DEF had
<1>6. Group(Each(Held(R, Q), LAMBDA c : Depeg(Q, c)), {"depeg"},
           UNION {ToSet(Depeg(Q, c)) : c \in HeldIn(R, Q)})
  <2>. DEFINE g == [c \in HeldIn(R, Q) |-> Depeg(Q, c)]
              had == UNION {ToSet(Depeg(Q, c)) : c \in HeldIn(R, Q)}
  <2>1. \A c \in HeldIn(R, Q) : g[c] = Depeg(Q, c) /\ Speaks(Depeg(Q, c), {"depeg"}, {"depeg"}, c)
    BY <1>1, RuleSpeaks
  <2>2. Each(Held(R, Q), LAMBDA c : Depeg(Q, c)) = FlattenSeq([i \in DOMAIN Held(R, Q) |-> g[Held(R, Q)[i]]])
    BY <1>2, <2>1 DEF Each
  <2>3. DOMAIN g = HeldIn(R, Q) /\ had = UNION {ToSet(g[c]) : c \in HeldIn(R, Q)}
    BY <2>1
  <2>. HIDE DEF g, had
  <2>4. \A x \in ToSet(Held(R, Q)) : Speaks(g[x], {"depeg"}, {"depeg"}, x)
    BY <1>1, <2>1
  <2>5. Group(InOrder(Held(R, Q), g), {"depeg"}, Together(Held(R, Q), g))
    BY <1>1, <2>3, <2>4, EachGroup, Zenon
  <2>6. Group(Each(Held(R, Q), LAMBDA c : Depeg(Q, c)), {"depeg"}, had)
    BY <1>1, <2>2, <2>3, <2>5 DEF InOrder, Together
  <2>. QED
    BY <2>6 DEF had
<1>7. Group(Each(Held(R, Q), LAMBDA c : Spike(Q, c) \o DryUp(R, Q, c)), VolumeNames,
           UNION {ToSet(Spike(Q, c) \o DryUp(R, Q, c)) : c \in HeldIn(R, Q)})
  <2>. DEFINE g == [c \in HeldIn(R, Q) |-> Spike(Q, c) \o DryUp(R, Q, c)]
              had == UNION {ToSet(Spike(Q, c) \o DryUp(R, Q, c)) : c \in HeldIn(R, Q)}
  <2>1. \A c \in HeldIn(R, Q) : g[c] = Spike(Q, c) \o DryUp(R, Q, c) /\ Speaks(Spike(Q, c) \o DryUp(R, Q, c), VolumeNames, VolumeNames, c)
    BY <1>1, VolumeSpeaks
  <2>2. Each(Held(R, Q), LAMBDA c : Spike(Q, c) \o DryUp(R, Q, c)) = FlattenSeq([i \in DOMAIN Held(R, Q) |-> g[Held(R, Q)[i]]])
    BY <1>2, <2>1 DEF Each
  <2>3. DOMAIN g = HeldIn(R, Q) /\ had = UNION {ToSet(g[c]) : c \in HeldIn(R, Q)}
    BY <2>1
  <2>. HIDE DEF g, had
  <2>4. \A x \in ToSet(Held(R, Q)) : Speaks(g[x], VolumeNames, VolumeNames, x)
    BY <1>1, <2>1
  <2>5. Group(InOrder(Held(R, Q), g), VolumeNames, Together(Held(R, Q), g))
    BY <1>1, <2>3, <2>4, EachGroup, Zenon
  <2>6. Group(Each(Held(R, Q), LAMBDA c : Spike(Q, c) \o DryUp(R, Q, c)), VolumeNames, had)
    BY <1>1, <2>2, <2>3, <2>5 DEF InOrder, Together
  <2>. QED
    BY <2>6 DEF had
<1>8. Group(CostBasis(R, Q), {"below_cost_basis"},
           UNION {ToSet(Cost(c)) : c \in CrossedIn(R, Q)})
  <2>. DEFINE subjects == CoinsOf(R, {j \in DOMAIN R : Crossed(Q, R[j])})
              g == [c \in CrossedIn(R, Q) |-> Cost(c)]
              had == UNION {ToSet(Cost(c)) : c \in CrossedIn(R, Q)}
  <2>1. /\ subjects \in Seq(Subject) /\ Once(subjects) /\ ToSet(subjects) = CrossedIn(R, Q)
        /\ CrossedIn(R, Q) \subseteq Coin
    <3>. DEFINE some == {j \in DOMAIN R : Crossed(Q, R[j])}
    <3>1. some \in SUBSET DOMAIN R /\ CrossedIn(R, Q) = {R[i].coin : i \in some}
      BY DEF CrossedIn
    <3>. HIDE DEF some
    <3>2. CoinsOf(R, some) \in Seq(Coin) /\ Once(CoinsOf(R, some)) /\ ToSet(CoinsOf(R, some)) = CrossedIn(R, Q)
      BY <3>1, CoinsAre
    <3>3. CoinsOf(R, some) \in Seq(Subject) /\ ToSet(CoinsOf(R, some)) \subseteq Coin
      BY <3>2 DEF Subject, ToSet
    <3>. QED
      BY <3>2, <3>3 DEF some
  <2>2. \A c \in CrossedIn(R, Q) : g[c] = Cost(c) /\ Speaks(Cost(c), {"below_cost_basis"}, {"below_cost_basis"}, c)
    BY <2>1, CostSpeaks
  <2>3. \A i \in DOMAIN subjects : subjects[i] \in CrossedIn(R, Q)
    BY <2>1 DEF ToSet
  <2>4. CostBasis(R, Q) = FlattenSeq([i \in DOMAIN subjects |-> g[subjects[i]]])
    BY <2>2, <2>3 DEF Each, CostBasis, Cost
  <2>5. DOMAIN g = CrossedIn(R, Q) /\ had = UNION {ToSet(g[c]) : c \in CrossedIn(R, Q)}
    BY <2>2
  <2>. HIDE DEF g, had, subjects
  <2>6. \A x \in ToSet(subjects) : Speaks(g[x], {"below_cost_basis"}, {"below_cost_basis"}, x)
    BY <2>1, <2>2
  <2>7. Group(InOrder(subjects, g), {"below_cost_basis"}, Together(subjects, g))
    BY <2>1, <2>5, <2>6, EachGroup, Zenon
  <2>8. Group(CostBasis(R, Q), {"below_cost_basis"}, had)
    BY <2>1, <2>4, <2>5, <2>7 DEF InOrder, Together
  <2>. QED
    BY <2>8 DEF had
<1>9. Group(Each(SetToSeq(Category), LAMBDA k : CategoryRotation(R, Q, M, k)), {"category_rotation"},
           UNION {ToSet(CategoryRotation(R, Q, M, k)) : k \in Category})
  <2>. DEFINE subjects == SetToSeq(Category)
              g == [k \in Category |-> CategoryRotation(R, Q, M, k)]
              had == UNION {ToSet(CategoryRotation(R, Q, M, k)) : k \in Category}
  <2>1. subjects \in Seq(Subject) /\ Once(subjects) /\ ToSet(subjects) = Category
    <3>1. SetToSeq(Category) \in Seq(Category) /\ Once(SetToSeq(Category)) /\ ToSet(SetToSeq(Category)) = Category
      BY RulesAssumption, ListOfSet
    <3>2. SetToSeq(Category) \in Seq(Subject)
      BY <3>1 DEF Subject
    <3>. QED
      BY <3>1, <3>2
  <2>2. \A k \in Category : g[k] = CategoryRotation(R, Q, M, k) /\ Speaks(CategoryRotation(R, Q, M, k), {"category_rotation"}, {"category_rotation"}, k)
    BY <2>1, CategorySpeaks
  <2>3. \A i \in DOMAIN subjects : subjects[i] \in Category
    BY <2>1 DEF ToSet
  <2>4. Each(SetToSeq(Category), LAMBDA k : CategoryRotation(R, Q, M, k)) = FlattenSeq([i \in DOMAIN subjects |-> g[subjects[i]]])
    BY <2>2, <2>3 DEF Each
  <2>5. DOMAIN g = Category /\ had = UNION {ToSet(g[k]) : k \in Category}
    BY <2>2
  <2>. HIDE DEF g, had, subjects
  <2>6. \A x \in ToSet(subjects) : Speaks(g[x], {"category_rotation"}, {"category_rotation"}, x)
    BY <2>1, <2>2
  <2>7. Group(InOrder(subjects, g), {"category_rotation"}, Together(subjects, g))
    BY <2>1, <2>5, <2>6, EachGroup, Zenon
  <2>8. Group(Each(SetToSeq(Category), LAMBDA k : CategoryRotation(R, Q, M, k)), {"category_rotation"}, had)
    BY <2>1, <2>4, <2>5, <2>7 DEF InOrder, Together
  <2>. QED
    BY <2>8 DEF had
<1>10. Group(PortfolioDrop(R, Q), {"portfolio_drop"}, ToSet(PortfolioDrop(R, Q)))
  <2>1. Speaks(PortfolioDrop(R, Q), {"portfolio_drop"}, {"portfolio_drop"}, None) /\ None \in Subject
    BY PortfolioSpeaks DEF Subject
  <2>. QED
    BY <2>1 DEF Speaks, Group
<1>11. 1..8 = {1, 2, 3, 4, 5, 6, 7, 8}
  OBVIOUS
<1>12. Group(Parts(R, Q, M)[1], Names[1], Has(R, Q, M)[1])
  BY <1>3 DEF Parts, Names, Has
<1>13. Group(Parts(R, Q, M)[2], Names[2], Has(R, Q, M)[2])
  BY <1>4 DEF Parts, Names, Has
<1>14. Group(Parts(R, Q, M)[3], Names[3], Has(R, Q, M)[3])
  BY <1>8 DEF Parts, Names, Has, OfCosts
<1>15. Group(Parts(R, Q, M)[4], Names[4], Has(R, Q, M)[4])
  BY <1>5 DEF Parts, Names, Has
<1>16. Group(Parts(R, Q, M)[5], Names[5], Has(R, Q, M)[5])
  BY <1>6 DEF Parts, Names, Has
<1>17. Group(Parts(R, Q, M)[6], Names[6], Has(R, Q, M)[6])
  BY <1>7 DEF Parts, Names, Has
<1>18. Group(Parts(R, Q, M)[7], Names[7], Has(R, Q, M)[7])
  BY <1>9 DEF Parts, Names, Has, OfGroups
<1>19. Group(Parts(R, Q, M)[8], Names[8], Has(R, Q, M)[8])
  BY <1>10 DEF Parts, Names, Has
<1>. QED
  BY <1>11, <1>12, <1>13, <1>14, <1>15, <1>16, <1>17, <1>18, <1>19

\* What eight groups have.
AllOf(has) == UNION {has[i] : i \in 1..8}

\* Groups that have no name in common.
LEMMA GroupsTogether ==
  ASSUME NEW s \in [1..8 -> Seq(Finding)], NEW names, NEW has,
         \A i \in 1..8 : Group(s[i], names[i], has[i]),
         \A i, j \in 1..8 : i # j => names[i] \cap names[j] = {}
  PROVE  /\ FlattenSeq(s) \in Seq(Finding)
         /\ Apart(FlattenSeq(s), KeyOf)
         /\ ToSet(FlattenSeq(s)) = AllOf(has)
<1>1. s \in Seq(Seq(Finding)) /\ DOMAIN s = 1..8
  <2>. DEFINE n == 8
  <2>1. n \in Nat /\ s \in [1..n -> Seq(Finding)]
    OBVIOUS
  <2>2. DOMAIN s = 1..8
    OBVIOUS
  <2>. HIDE DEF n
  <2>3. s \in Seq(Seq(Finding))
    BY <2>1, SeqDef
  <2>. QED
    BY <2>2, <2>3
<1>2. \A i \in DOMAIN s : Apart(s[i], KeyOf) /\ ToSet(s[i]) = has[i]
  BY <1>1 DEF Group
<1>3. ASSUME NEW i \in DOMAIN s, NEW j \in DOMAIN s, i # j, NEW a \in ToSet(s[i]), NEW b \in ToSet(s[j])
      PROVE  KeyOf[a] # KeyOf[b]
  <2>1. s[i] \in Seq(Finding) /\ s[j] \in Seq(Finding)
    BY <1>1
  <2>2. a \in Finding /\ b \in Finding
    BY <2>1 DEF ToSet
  <2>7. i \in 1..8 /\ j \in 1..8 /\ a \in has[i] /\ b \in has[j]
    BY <1>1, <1>2
  <2>8. /\ \E m \in names[i], x \in Subject : a.dedupeKey = <<m, x>>
        /\ \E l \in names[j], y \in Subject : b.dedupeKey = <<l, y>>
    BY <2>7, Zenon DEF Group
  <2>3. PICK m \in names[i], x \in Subject : a.dedupeKey = <<m, x>>
    BY <2>8
  <2>4. PICK l \in names[j], y \in Subject : b.dedupeKey = <<l, y>>
    BY <2>8
  <2>5. m # l
    BY <1>1, <1>3, <2>3, <2>4
  <2>6. a.dedupeKey # b.dedupeKey
    BY <2>3, <2>4, <2>5
  <2>. QED
    BY <2>2, <2>6 DEF KeyOf
<1>4. FlattenSeq(s) \in Seq(Finding) /\ ToSet(FlattenSeq(s)) = UNION {ToSet(s[i]) : i \in DOMAIN s}
  BY <1>1, FlatHas
<1>5. Apart(FlattenSeq(s), KeyOf)
  BY <1>1, <1>2, <1>3, FlatApart
<1>6. UNION {ToSet(s[i]) : i \in DOMAIN s} = AllOf(has)
  <2>1. \A i \in 1..8 : ToSet(s[i]) = has[i]
    BY <1>1, <1>2
  <2>. QED
    BY <1>1, <2>1 DEF AllOf
<1>. QED
  BY <1>4, <1>5, <1>6

\* The groups together have what is said.
LEMMA HasAll ==
  ASSUME NEW R \in Seq(Position), NEW Q, NEW M
  PROVE  AllOf(Has(R, Q, M)) = Said(R, Q, M)
<1>. DEFINE h1 == UNION {ToSet(RwaDrift(Q, M, c)) : c \in HeldIn(R, Q)}
            h2 == UNION {ToSet(PriceDrop(Q, c)) : c \in HeldIn(R, Q)}
            h3 == OfCosts(R, Q)
            h4 == UNION {ToSet(NearLow(Q, M, c)) : c \in HeldIn(R, Q)}
            h5 == UNION {ToSet(Depeg(Q, c)) : c \in HeldIn(R, Q)}
            h6 == UNION {ToSet(Spike(Q, c) \o DryUp(R, Q, c)) : c \in HeldIn(R, Q)}
            h7 == OfGroups(R, Q, M)
            h8 == ToSet(PortfolioDrop(R, Q))
            coins == OfCoins(R, Q, M)
<1>1. Has(R, Q, M) = <<h1, h2, h3, h4, h5, h6, h7, h8>>
  BY DEF Has
<1>2. Said(R, Q, M) = coins \cup h3 \cup h7 \cup h8
  BY DEF Said
<1>3. coins = h1 \cup h2 \cup h4 \cup h5 \cup h6
  <2>1. HeldIn(R, Q) \subseteq Coin
    BY HeldIs
  <2>2. \A c \in HeldIn(R, Q) :
          ToSet(Spike(Q, c) \o DryUp(R, Q, c)) = ToSet(Spike(Q, c)) \cup ToSet(DryUp(R, Q, c))
    BY <2>1, VolumeSpeaks
  <2>3. ASSUME NEW a PROVE a \in coins <=> a \in h1 \cup h2 \cup h4 \cup h5 \cup h6
    BY <2>2 DEF OfCoin, OfCoins
  <2>. HIDE DEF h1, h2, h4, h5, h6, coins
  <2>. QED
    BY <2>3
<1>. HIDE DEF h1, h2, h3, h4, h5, h6, h7, h8, coins
<1>4. 1..8 = {1, 2, 3, 4, 5, 6, 7, 8}
  OBVIOUS
<1>5. AllOf(Has(R, Q, M)) = h1 \cup h2 \cup h3 \cup h4 \cup h5 \cup h6 \cup h7 \cup h8
  BY <1>1, <1>4 DEF AllOf
<1>. QED
  BY <1>2, <1>3, <1>5

\* The candidates are what the rules say of the coins held, of the groups and of
\* the portfolio, and no two of them share a key.
LEMMA CandidatesAre ==
  ASSUME NEW R \in Seq(Position), NEW Q, NEW told
  PROVE  /\ CandidatesOf(R, Q, told) \in Seq(Finding)
         /\ Apart(CandidatesOf(R, Q, told), KeyOf)
         /\ Verdicts(R, Q, told) = Said(R, Q, InContext(told))
<1>. DEFINE M == InContext(told)
            s == Parts(R, Q, M)
            has == Has(R, Q, M)
<1>1. CandidatesOf(R, Q, told) = FlattenSeq(s)
  BY DEF CandidatesOf, Parts
<1>2. \A i \in 1..8 : Group(s[i], Names[i], has[i])
  BY Groups
<1>3. \A i, j \in 1..8 : i # j => Names[i] \cap Names[j] = {}
  BY DEF Names, VolumeNames
<1>4. s = [i \in 1..8 |-> s[i]]
  <2>1. \E p1, p2, p3, p4, p5, p6, p7, p8 : s = <<p1, p2, p3, p4, p5, p6, p7, p8>>
    BY Zenon DEF Parts
  <2>. QED
    BY <2>1
<1>5. AllOf(has) = Said(R, Q, M)
  BY HasAll
<1>. HIDE DEF s, has, M
<1>6. /\ FlattenSeq(s) \in Seq(Finding)
      /\ Apart(FlattenSeq(s), KeyOf)
      /\ ToSet(FlattenSeq(s)) = AllOf(has)
  <2>1. \A i \in 1..8 : s[i] \in Seq(Finding)
    BY <1>2 DEF Group
  <2>2. s \in [1..8 -> Seq(Finding)]
    BY <1>4, <2>1
  <2>. QED
    BY <1>2, <1>3, <2>2, GroupsTogether
<1>. QED
  BY <1>1, <1>5, <1>6 DEF Verdicts, M
-----------------------------------------------------------------------------
(* The price-drop rule, for every pair of thresholds and every quote *)

\* A change in percent, or none when the quote lacks it.
Change == Int \cup {None}

\* The severity of a coin's drop, as a number: 0 when there is none.
DropSeverity(Q, c) ==
  IF PriceDrop(Q, c) = <<>> THEN 0
  ELSE IF PriceDrop(Q, c)[1].severity = "critical" THEN 2 ELSE 1

\* A fall to y is at least as deep as a fall to x.
Deeper(x, y) == x = None \/ (y # None /\ y <= x)

\* Of two windows that are both past their thresholds h and d, the further one is
\* twice past its own as soon as either is.
LEMMA FurtherWindow ==
  ASSUME NEW x \in Int, NEW y \in Int, NEW h \in Nat \ {0}, NEW d \in Nat \ {0}
  PROVE  /\ x * d <= y * h /\ y <= -(2 * d) => x <= -(2 * h)
         /\ ~(x * d <= y * h) /\ x <= -(2 * h) => y <= -(2 * d)
<1>1. ASSUME x * d <= y * h, y <= -(2 * d) PROVE x <= -(2 * h)
  <2>1. y * h <= -(2 * d) * h
    BY <1>1
  <2>2. SUFFICES ASSUME x >= 1 - 2 * h PROVE FALSE
    OBVIOUS
  <2>3. x * d >= (1 - 2 * h) * d
    BY <2>2
  <2>4. (1 - 2 * h) * d = d - 2 * h * d /\ -(2 * d) * h = -(2 * h * d)
    OBVIOUS
  <2> QED
    BY <1>1, <2>1, <2>3, <2>4
<1>2. ASSUME ~(x * d <= y * h), x <= -(2 * h) PROVE y <= -(2 * d)
  <2>1. x * d <= -(2 * h) * d
    BY <1>2
  <2>2. SUFFICES ASSUME y >= 1 - 2 * d PROVE FALSE
    OBVIOUS
  <2>3. y * h >= (1 - 2 * d) * h
    BY <2>2
  <2>4. (1 - 2 * d) * h = h - 2 * h * d /\ -(2 * h) * d = -(2 * h * d)
    OBVIOUS
  <2> QED
    BY <1>2, <2>1, <2>3, <2>4
<1> QED
  BY <1>1, <1>2
-----------------------------------------------------------------------------
\* The quote Q[c] is one the providers can send.
Sane(Q, c) == Q[c].change1h \in Change /\ Q[c].change24h \in Change

\* Both thresholds are positive, as the validation of preferences demands.
Thresholds == Prefs.drop1h \in Nat \ {0} /\ Prefs.drop24h \in Nat \ {0}

\* Whatever window the alert speaks of, there is one if either window is past its
\* threshold, and it is critical if either is twice past it.
LEMMA EitherWindow ==
  ASSUME NEW Q, NEW c, Sane(Q, c), Thresholds
  PROVE  /\ DropSeverity(Q, c) \in 0..2
         /\ DropSeverity(Q, c) >= 1 <=>
              /\ c \notin Pegged
              /\ \/ Falls(Q[c].change1h, Prefs.drop1h)
                 \/ Falls(Q[c].change24h, Prefs.drop24h)
         /\ DropSeverity(Q, c) = 2 <=>
              /\ c \notin Pegged
              /\ \/ Falls(Q[c].change1h, 2 * Prefs.drop1h)
                 \/ Falls(Q[c].change24h, 2 * Prefs.drop24h)
<1> DEFINE x == Q[c].change1h
           y == Q[c].change24h
           h == Prefs.drop1h
           d == Prefs.drop24h
           hour == Falls(x, h)
           day == Falls(y, d)
           useHour == hour /\ (day => x * d <= y * h)
           critical == IF useHour THEN -x >= 2 * h ELSE -y >= 2 * d
<1>0. h \in Nat \ {0} /\ d \in Nat \ {0} /\ x \in Change /\ y \in Change /\ None \notin Int
  BY RulesAssumption DEF Sane, Thresholds
<1>1. DropSeverity(Q, c) =
        IF c \notin Pegged /\ (hour \/ day) THEN IF critical THEN 2 ELSE 1 ELSE 0
  <2> HIDE DEF x, y, h, d
  <2> QED
    BY DEF DropSeverity, PriceDrop, Raise, x, y, h, d
<1> HIDE DEF x, y, h, d
<1>2. ASSUME hour \/ day
      PROVE  critical <=> Falls(x, 2 * h) \/ Falls(y, 2 * d)
  <2>1. CASE hour /\ day
    <3>1. x \in Int /\ y \in Int
      BY <1>0, <2>1 DEF Falls, Change
    <3>2. /\ x * d <= y * h /\ y <= -(2 * d) => x <= -(2 * h)
          /\ ~(x * d <= y * h) /\ x <= -(2 * h) => y <= -(2 * d)
      BY <1>0, <3>1, FurtherWindow
    <3>3. (Falls(x, 2 * h) <=> x <= -(2 * h)) /\ (Falls(y, 2 * d) <=> y <= -(2 * d))
      BY <1>0, <3>1 DEF Falls
    <3>4. CASE x * d <= y * h
      <4>1. critical <=> x <= -(2 * h)
        BY <1>0, <2>1, <3>1, <3>4
      <4> QED
        BY <3>2, <3>3, <3>4, <4>1
    <3>5. CASE ~(x * d <= y * h)
      <4>1. critical <=> y <= -(2 * d)
        BY <1>0, <2>1, <3>1, <3>5
      <4> QED
        BY <3>2, <3>3, <3>5, <4>1
    <3> QED
      BY <3>4, <3>5
  <2>2. CASE hour /\ ~day
    BY <1>0, <2>2 DEF Falls, Change
  <2>3. CASE ~hour /\ day
    BY <1>0, <2>3 DEF Falls, Change
  <2> QED
    BY <1>2, <2>1, <2>2, <2>3
<1>3. (Falls(x, 2 * h) => hour) /\ (Falls(y, 2 * d) => day)
  BY <1>0 DEF Falls, Change
<1> HIDE DEF critical, hour, day
<1>4. /\ DropSeverity(Q, c) \in 0..2
      /\ DropSeverity(Q, c) >= 1 <=> c \notin Pegged /\ (hour \/ day)
      /\ DropSeverity(Q, c) = 2 <=> c \notin Pegged /\ (hour \/ day) /\ critical
  BY <1>1
<1> QED
  BY <1>2, <1>3, <1>4 DEF hour, day, x, y, h, d

\* A deeper fall is never quieter, whatever the two thresholds are and whichever
\* window the alert speaks of before and after (rules.ts:75-86).
THEOREM DeeperDrop ==
  ASSUME NEW Q, NEW P, NEW c, Sane(Q, c), Sane(P, c), Thresholds,
         Deeper(Q[c].change1h, P[c].change1h),
         Deeper(Q[c].change24h, P[c].change24h)
  PROVE  DropSeverity(Q, c) <= DropSeverity(P, c)
<1>1. /\ Falls(Q[c].change1h, Prefs.drop1h) => Falls(P[c].change1h, Prefs.drop1h)
      /\ Falls(Q[c].change24h, Prefs.drop24h) => Falls(P[c].change24h, Prefs.drop24h)
      /\ Falls(Q[c].change1h, 2 * Prefs.drop1h) => Falls(P[c].change1h, 2 * Prefs.drop1h)
      /\ Falls(Q[c].change24h, 2 * Prefs.drop24h) => Falls(P[c].change24h, 2 * Prefs.drop24h)
  BY RulesAssumption DEF Sane, Thresholds, Deeper, Falls, Change
<1>2. DropSeverity(Q, c) \in 0..2 /\ DropSeverity(P, c) \in 0..2
  BY EitherWindow
<1>3. DropSeverity(Q, c) >= 1 => DropSeverity(P, c) >= 1
  BY <1>1, EitherWindow
<1>4. DropSeverity(Q, c) = 2 => DropSeverity(P, c) = 2
  BY <1>1, EitherWindow
<1> QED
  BY <1>2, <1>3, <1>4
-----------------------------------------------------------------------------
(* The inductive invariant *)

\* A quote as CoinMarketCap gives it.
Quote ==
  [price : Nat \cup {None}, change1h : Int \cup {None}, change24h : Int \cup {None},
   volume : Int \cup {None}, liquid : BOOLEAN, fresh : BOOLEAN]

Quotes == [Coin -> Quote \cup {None}]

\* Holdings, quotes and the market are what they should be.
RulesIInv ==
  /\ rows \in Seq(Position)
  /\ quotes \in Quotes
  /\ market \in {Stored[reply] : reply \in Market}

\* Whatever comes and goes, the rules have rows, quotes and a market of the right shape
\* to look at (rules.ts:26-45).
THEOREM RulesInvariance == RulesSpec => []RulesIInv
<1>1. RulesInit => RulesIInv
  BY DEF RulesInit, RulesIInv, Quotes
<1>2. ASSUME RulesIInv, [RulesNext]_rulesVars PROVE RulesIInv'
  <2>1. CASE UNCHANGED rulesVars
    BY <1>2, <2>1 DEF rulesVars, RulesIInv
  <2>2. ASSUME NEW c \in Coin, Age(c) PROVE RulesIInv'
    <3>1. quotes[c] \in Quote
      BY <1>2, <2>2 DEF RulesIInv, Quotes, Age
    <3>2. [quotes[c] EXCEPT !.fresh = FALSE] \in Quote
      BY <3>1 DEF Quote
    <3>. QED
      BY <1>2, <2>2, <3>2 DEF RulesIInv, Quotes, Age
  <2>3. ASSUME NEW c \in Coin, NEW q \in Feed[c], RefreshQuotes(c, q) PROVE RulesIInv'
    <3>1. q \in Quote
      BY RulesAssumption DEF Quote
    <3>. QED
      BY <1>2, <2>3, <3>1 DEF RulesIInv, Quotes, RefreshQuotes
  <2>4. ASSUME NEW reply \in Market, RefreshMarket(reply) PROVE RulesIInv'
    BY <1>2, <2>4 DEF RulesIInv, RefreshMarket
  <2>5. ASSUME NEW h \in Holding, AddHolding(h) PROVE RulesIInv'
    <3>1. h \in Position
      BY RulesAssumption DEF Position
    <3>. QED
      BY <1>2, <2>5, <3>1 DEF RulesIInv, AddHolding
  <2>6. ASSUME NEW i \in DOMAIN rows, DeleteHolding(i) PROVE RulesIInv'
    <3>1. SubSeq(rows, 1, i - 1) \in Seq(Position) /\ SubSeq(rows, i + 1, Len(rows)) \in Seq(Position)
      <4>1. rows \in Seq(Position) /\ i \in 1..Len(rows) /\ Len(rows) \in Nat
        BY <1>2 DEF RulesIInv
      <4>. QED
        BY <4>1, SubSeqProperties
    <3>2. rows' \in Seq(Position)
      BY <2>6, <3>1 DEF DeleteHolding, RemoveAt
    <3>. QED
      BY <1>2, <2>6, <3>2 DEF RulesIInv, DeleteHolding
  <2>. QED
    BY <1>2, <2>1, <2>2, <2>3, <2>4, <2>5, <2>6 DEF RulesNext
<1>. QED
  BY <1>1, <1>2, PTL DEF RulesSpec

\* Of what an evaluation says of a coin held, what has the key of its price drop.
LEMMA DropKey ==
  ASSUME NEW R \in Seq(Position), NEW Q, NEW told, NEW c \in HeldIn(R, Q)
  PROVE  {a \in Verdicts(R, Q, told) : a.dedupeKey = <<"price_drop", c>>} = ToSet(PriceDrop(Q, c))
<1>. DEFINE M == InContext(told)
            has == Has(R, Q, M)
            drops == UNION {ToSet(PriceDrop(Q, d)) : d \in HeldIn(R, Q)}
<1>0. HeldIn(R, Q) \subseteq Coin
  BY HeldIs
<1>1. Verdicts(R, Q, told) = AllOf(has)
  BY CandidatesAre, HasAll
<1>2. \A i \in 1..8 : \A a \in has[i] : \E name \in Names[i], x \in Subject : a.dedupeKey = <<name, x>>
  BY Groups DEF Group
<1>3. has[2] = drops
  BY DEF Has
<1>6. ASSUME NEW d \in HeldIn(R, Q), NEW a \in ToSet(PriceDrop(Q, d))
      PROVE  a.dedupeKey = <<"price_drop", d>>
  <2>1. Speaks(PriceDrop(Q, d), {"price_drop_1h", "price_drop_24h"}, {"price_drop"}, d)
    BY <1>0, RuleSpeaks
  <2>. QED
    BY <2>1, <1>6 DEF Speaks
<1>. HIDE DEF has
<1>4. ASSUME NEW a \in Verdicts(R, Q, told), a.dedupeKey = <<"price_drop", c>>
      PROVE  a \in ToSet(PriceDrop(Q, c))
  <2>1. PICK i \in 1..8 : a \in has[i]
    BY <1>1 DEF AllOf
  <2>2. PICK name \in Names[i], x \in Subject : a.dedupeKey = <<name, x>>
    BY <1>2, <2>1
  <2>3. name = "price_drop"
    BY <1>4, <2>2
  <2>4. i = 2
    BY <2>2, <2>3 DEF Names, VolumeNames
  <2>5. PICK d \in HeldIn(R, Q) : a \in ToSet(PriceDrop(Q, d))
    BY <1>3, <2>1, <2>4
  <2>6. a.dedupeKey = <<"price_drop", d>>
    BY <1>6, <2>5
  <2>. QED
    BY <1>4, <2>5, <2>6
<1>5. ASSUME NEW a \in ToSet(PriceDrop(Q, c))
      PROVE  a \in Verdicts(R, Q, told) /\ a.dedupeKey = <<"price_drop", c>>
  <2>1. a.dedupeKey = <<"price_drop", c>>
    BY <1>5, <1>6
  <2>2. a \in has[2] /\ 2 \in 1..8
    BY <1>3
  <2>. QED
    BY <1>1, <2>1, <2>2 DEF AllOf
<1>. QED
  BY <1>4, <1>5

\* How loud an evaluation is about the fall of a coin held is up to the rule for it.
LEMMA LoudnessIs ==
  ASSUME NEW R \in Seq(Position), NEW Q, NEW told, NEW c \in HeldIn(R, Q)
  PROVE  Loudness(Verdicts(R, Q, told), c) = DropSeverity(Q, c)
<1>. DEFINE p == PriceDrop(Q, c)
            S == {a \in Verdicts(R, Q, told) : a.dedupeKey = <<"price_drop", c>>}
<1>1. S = ToSet(p)
  BY DropKey
<1>2. p = <<>> \/ \E a : p = <<a>>
  BY DEF PriceDrop, Raise
<1>3. Loudness(Verdicts(R, Q, told), c) =
        LET severities == {a.severity : a \in S} IN
        IF "critical" \in severities THEN 2 ELSE IF severities = {} THEN 0 ELSE 1
  BY DEF Loudness
<1>4. DropSeverity(Q, c) = IF p = <<>> THEN 0 ELSE IF p[1].severity = "critical" THEN 2 ELSE 1
  BY DEF DropSeverity
<1>. HIDE DEF p, S
<1>5. CASE p = <<>>
  <2>1. S = {}
    BY <1>1, <1>5 DEF ToSet
  <2>. QED
    BY <1>3, <1>4, <1>5, <2>1
<1>6. CASE p # <<>>
  <2>1. PICK a : p = <<a>>
    BY <1>2, <1>6
  <2>2. S = {a}
    BY <1>1, <2>1 DEF ToSet
  <2>. QED
    BY <1>3, <1>4, <1>6, <2>1, <2>2
<1>. QED
  BY <1>5, <1>6

\* A deeper fall is never quieter, in all that an evaluation says (rules.ts:75-86).
THEOREM Louder == RulesSpec => []DeeperIsLouder
<1>1. ASSUME RulesIInv PROVE DeeperIsLouder
  <2>. DEFINE deeper(x, y) == x = None \/ (y # None /\ y <= x)
  <2>1. SUFFICES ASSUME NEW c \in ToSet(Held(rows, quotes)), NEW q \in Feed[c],
                        q.fresh, q.price # None,
                        deeper(quotes[c].change1h, q.change1h),
                        deeper(quotes[c].change24h, q.change24h)
                 PROVE  Loudness(Verdicts(rows, [quotes EXCEPT ![c] = q], market), c)
                          >= Loudness(ToSet(Now), c)
    BY DEF DeeperIsLouder
  <2>. DEFINE P == [quotes EXCEPT ![c] = q]
  <2>2. rows \in Seq(Position) /\ quotes \in Quotes /\ c \in HeldIn(rows, quotes) /\ c \in Coin
    BY <1>1, HeldIs DEF RulesIInv
  <2>3. q \in Quote /\ P[c] = q
    BY <2>2, RulesAssumption DEF Quote, Quotes
  <2>4. Usable(quotes, c) /\ \E i \in DOMAIN rows : rows[i].coin = c
    BY <2>2 DEF HeldIn
  <2>5. q # None /\ quotes[c] \in Quote
    <3>1. quotes[c] \in Quote
      BY <2>2, <2>4 DEF Usable, Quotes
    <3>2. q # None
      BY <2>2, RulesAssumption
    <3>. QED
      BY <3>1, <3>2
  <2>6. c \in HeldIn(rows, P)
    <3>1. Usable(P, c)
      BY <2>1, <2>3, <2>5 DEF Usable
    <3>. QED
      BY <2>4, <3>1 DEF HeldIn
  <2>7. Sane(quotes, c) /\ Sane(P, c) /\ Thresholds
    BY <2>3, <2>5, RulesAssumption DEF Sane, Thresholds, Change, Quote
  <2>8. Deeper(quotes[c].change1h, P[c].change1h) /\ Deeper(quotes[c].change24h, P[c].change24h)
    BY <2>1, <2>3 DEF Deeper
  <2>9. DropSeverity(quotes, c) <= DropSeverity(P, c)
    BY <2>7, <2>8, DeeperDrop
  <2>10. /\ DropSeverity(quotes, c) \in 0..2 /\ DropSeverity(P, c) \in 0..2
    BY <2>7, EitherWindow
  <2>11. /\ Loudness(Verdicts(rows, quotes, market), c) = DropSeverity(quotes, c)
         /\ Loudness(Verdicts(rows, P, market), c) = DropSeverity(P, c)
    BY <2>2, <2>6, LoudnessIs
  <2>12. ToSet(Now) = Verdicts(rows, quotes, market)
    BY DEF Now, Verdicts
  <2>. HIDE DEF P
  <2>13. Loudness(Verdicts(rows, P, market), c) >= Loudness(ToSet(Now), c)
    BY <2>9, <2>10, <2>11, <2>12
  <2>. QED
    BY <2>13 DEF P
<1>. QED
  BY <1>1, RulesInvariance, PTL

\* No two candidates of one evaluation share a dedupe key.
LEMMA KeysApart == RulesIInv => OneCandidatePerKey
<1>. SUFFICES ASSUME RulesIInv PROVE OneCandidatePerKey
  OBVIOUS
<1>1. Now \in Seq(Finding) /\ Apart(Now, KeyOf)
  BY CandidatesAre DEF RulesIInv, Now
<1>2. \A i \in DOMAIN Now : Now[i] \in Finding
  BY <1>1
<1>3. \A i \in DOMAIN Now : KeyOf[Now[i]] = Now[i].dedupeKey
  BY <1>2 DEF KeyOf
<1>. QED
  BY <1>1, <1>3 DEF Apart, OneCandidatePerKey
-----------------------------------------------------------------------------
(* Stale quotes *)

\* The rules see the same of both quotes: what is usable, and that alike.
Alike(Q, P) == \A c \in Coin : (Usable(Q, c) <=> Usable(P, c)) /\ (Usable(Q, c) => Q[c] = P[c])

\* Quotes that look the same weigh the rows the same.
LEMMA SameRows ==
  ASSUME NEW R \in Seq(Position), NEW Q, NEW P, Alike(Q, P)
  PROVE  /\ Held(R, Q) = Held(R, P)
         /\ CostBasis(R, Q) = CostBasis(R, P)
         /\ \A S : Worth(R, Q, S) = Worth(R, P, S)
         /\ CoveredCoins(R, Q) = CoveredCoins(R, P)
<1>1. \A i \in DOMAIN R : R[i].coin \in Coin
  <2>1. \A i \in DOMAIN R : R[i] \in Position
    OBVIOUS
  <2>. QED
    BY <2>1 DEF Position
<1>2. {i \in DOMAIN R : Usable(Q, R[i].coin)} = {i \in DOMAIN R : Usable(P, R[i].coin)}
  BY <1>1 DEF Alike
<1>3. {i \in DOMAIN R : Crossed(Q, R[i])} = {i \in DOMAIN R : Crossed(P, R[i])}
  <2>1. ASSUME NEW i \in DOMAIN R PROVE Crossed(Q, R[i]) <=> Crossed(P, R[i])
    <3>1. (Usable(Q, R[i].coin) <=> Usable(P, R[i].coin)) /\ (Usable(Q, R[i].coin) => Q[R[i].coin] = P[R[i].coin])
      BY <1>1 DEF Alike
    <3>2. CASE ~Usable(Q, R[i].coin)
      BY <3>1, <3>2 DEF Crossed
    <3>3. CASE Usable(Q, R[i].coin)
      BY <3>1, <3>3 DEF Crossed
    <3>. QED
      BY <3>2, <3>3
  <2>. QED
    BY <2>1
<1>4. \A i \in DOMAIN R : Value(R[i], Q) = Value(R[i], P)
  BY <1>1 DEF Alike, Value
<1>5. [i \in DOMAIN R |-> Value(R[i], Q)] = [i \in DOMAIN R |-> Value(R[i], P)]
  BY <1>4
<1>6. ASSUME NEW S PROVE Worth(R, Q, S) = Worth(R, P, S)
  BY <1>5, Zenon DEF Worth
<1>7. CoveredCoins(R, Q) = CoveredCoins(R, P)
  <2>1. \A c \in Coin : Covered(Q, c) <=> Covered(P, c)
    BY DEF Alike, Covered
  <2>. QED
    BY <2>1 DEF CoveredCoins
<1>8. Held(R, Q) = Held(R, P)
  BY <1>2, Zenon DEF Held
<1>9. CostBasis(R, Q) = CostBasis(R, P)
  BY <1>3, Zenon DEF CostBasis
<1>. QED
  BY <1>6, <1>7, <1>8, <1>9

\* Quotes that look the same tell the same of the portfolio.
LEMMA SameFall ==
  ASSUME NEW R \in Seq(Position), NEW Q, NEW P, Alike(Q, P)
  PROVE  PortfolioDrop(R, Q) = PortfolioDrop(R, P)
<1>1. /\ \A S : Worth(R, Q, S) = Worth(R, P, S)
      /\ CoveredCoins(R, Q) = CoveredCoins(R, P)
  BY SameRows
<1>2. Incomplete(R, Q) <=> Incomplete(R, P)
  <2>1. \A r \in ToSet(R) : r.coin \in Coin
    <3>1. \A r \in ToSet(R) : r \in Position
      BY DEF ToSet
    <3>. QED
      BY <3>1 DEF Position
  <2>. QED
    BY <2>1 DEF Alike, Incomplete
<1>3. Diversified(R, Q) <=> Diversified(R, P)
  BY <1>1 DEF Diversified
<1>4. Followed(R, Q) = Followed(R, P)
  <2>. DEFINE f(X) == [c \in CoveredCoins(R, X) |->
                         [value |-> Worth(R, X, {c}), then |-> Whole + X[c].change24h]]
  <2>1. \A c \in CoveredCoins(R, Q) : Q[c] = P[c]
    BY DEF CoveredCoins, Covered, Alike
  <2>2. f(Q) = f(P)
    BY <1>1, <2>1
  <2>. QED
    BY <2>2, Zenon DEF Followed
<1>5. \A percent : FellBy(R, Q, percent) <=> FellBy(R, P, percent)
  BY <1>4 DEF FellBy
<1>. DEFINE condition(X) == /\ ~Incomplete(R, X)
                            /\ 100 * Worth(R, X, CoveredCoins(R, X)) >= 80 * Worth(R, X, Coin)
                            /\ Diversified(R, X)
                            /\ FellBy(R, X, Prefs.portfolioDrop)
            severity(X) == IF FellBy(R, X, 2 * Prefs.portfolioDrop) THEN "critical" ELSE "warning"
<1>6. condition(Q) <=> condition(P)
  BY <1>1, <1>2, <1>3, <1>5
<1>7. severity(Q) = severity(P)
  BY <1>5
<1>8. \A X : PortfolioDrop(R, X) =
        Raise(condition(X), "portfolio_drop", severity(X), None, "portfolio_drop")
  BY DEF PortfolioDrop
<1>. HIDE DEF condition, severity
<1>. QED
  BY <1>6, <1>7, <1>8 DEF Raise

\* Quotes that look the same yield the same candidates, in the same order.
LEMMA SameCandidates ==
  ASSUME NEW R \in Seq(Position), NEW Q, NEW P, Alike(Q, P), NEW told
  PROVE  CandidatesOf(R, Q, told) = CandidatesOf(R, P, told)
<1>. DEFINE M == InContext(told)
            h == Held(R, Q)
<1>1. /\ h = Held(R, P)
      /\ CostBasis(R, Q) = CostBasis(R, P)
      /\ \A S : Worth(R, Q, S) = Worth(R, P, S)
  BY SameRows
<1>2. \A i \in DOMAIN h : Q[h[i]] = P[h[i]] /\ h[i] \in Coin
  <2>1. \A i \in DOMAIN h : h[i] \in HeldIn(R, Q)
    BY HeldIs DEF ToSet
  <2>2. \A c \in HeldIn(R, Q) : Usable(Q, c) /\ c \in Coin
    BY HeldIs DEF HeldIn
  <2>. QED
    BY <2>1, <2>2 DEF Alike
<1>. HIDE DEF h, M
<1>3. \A i \in DOMAIN h : RwaDrift(Q, M, h[i]) = RwaDrift(P, M, h[i])
  BY <1>2, Zenon DEF RwaDrift
<1>4. \A i \in DOMAIN h : PriceDrop(Q, h[i]) = PriceDrop(P, h[i])
  BY <1>2, Zenon DEF PriceDrop
<1>5. \A i \in DOMAIN h : NearLow(Q, M, h[i]) = NearLow(P, M, h[i])
  BY <1>2, Zenon DEF NearLow
<1>6. \A i \in DOMAIN h : Depeg(Q, h[i]) = Depeg(P, h[i])
  BY <1>2, Zenon DEF Depeg
<1>7. \A i \in DOMAIN h : Spike(Q, h[i]) = Spike(P, h[i])
  BY <1>2 DEF Spike, Raise
<1>8. \A c : ShareAtLeast(R, Q, c, 10) <=> ShareAtLeast(R, P, c, 10)
  BY <1>1 DEF ShareAtLeast
<1>9. \A i \in DOMAIN h : DryUp(R, Q, h[i]) = DryUp(R, P, h[i])
  BY <1>2, <1>8, Zenon DEF DryUp
<1>10. ASSUME NEW k PROVE CategoryRotation(R, Q, M, k) = CategoryRotation(R, P, M, k)
  <2>. DEFINE members == {c \in Coin \ Pegged : CategoryOf(c, M) = k}
  <2>1. Worth(R, Q, members) = Worth(R, P, members) /\ Worth(R, Q, Coin) = Worth(R, P, Coin)
    BY <1>1
  <2>. QED
    BY <2>1, Zenon DEF CategoryRotation
<1>11. PortfolioDrop(R, Q) = PortfolioDrop(R, P)
  BY SameFall
<1>12. Each(h, LAMBDA c : RwaDrift(Q, M, c)) = Each(h, LAMBDA c : RwaDrift(P, M, c))
  BY <1>3 DEF Each
<1>13. Each(h, LAMBDA c : PriceDrop(Q, c)) = Each(h, LAMBDA c : PriceDrop(P, c))
  BY <1>4 DEF Each
<1>14. Each(h, LAMBDA c : NearLow(Q, M, c)) = Each(h, LAMBDA c : NearLow(P, M, c))
  BY <1>5 DEF Each
<1>15. Each(h, LAMBDA c : Depeg(Q, c)) = Each(h, LAMBDA c : Depeg(P, c))
  BY <1>6 DEF Each
<1>16. Each(h, LAMBDA c : Spike(Q, c) \o DryUp(R, Q, c)) = Each(h, LAMBDA c : Spike(P, c) \o DryUp(R, P, c))
  BY <1>7, <1>9 DEF Each
<1>17. Each(SetToSeq(Category), LAMBDA k : CategoryRotation(R, Q, M, k))
         = Each(SetToSeq(Category), LAMBDA k : CategoryRotation(R, P, M, k))
  BY <1>10 DEF Each
<1>. QED
  BY <1>1, <1>11, <1>12, <1>13, <1>14, <1>15, <1>16, <1>17, Zenon DEF CandidatesOf, h, M

\* What a candidate of some kind tells of.
LEMMA Kinds ==
  ASSUME NEW R \in Seq(Position), NEW Q, NEW told, NEW a \in Verdicts(R, Q, told)
  PROVE  LET M == InContext(told) IN
         /\ a.about \in HeldIn(R, Q) \cup Category \cup {None}
         /\ a.kind = "rwa_drift" => \E c \in HeldIn(R, Q) : a \in ToSet(RwaDrift(Q, M, c))
         /\ a.kind = "category_rotation" => \E k \in Category : a \in ToSet(CategoryRotation(R, Q, M, k))
         /\ a.kind = "portfolio_drop" => a \in ToSet(PortfolioDrop(R, Q))
<1>. DEFINE M == InContext(told)
<1>1. a \in Said(R, Q, M)
  BY CandidatesAre
<1>. HIDE DEF M
<1>2. HeldIn(R, Q) \subseteq Coin
  BY HeldIs
<1>3. CASE a \in OfCoins(R, Q, M)
  <2>1. PICK c \in HeldIn(R, Q) : a \in OfCoin(R, Q, M, c)
    BY <1>3 DEF OfCoins
  <2>2. /\ Speaks(RwaDrift(Q, M, c), {"rwa_drift"}, {"rwa_drift"}, c)
        /\ Speaks(PriceDrop(Q, c), {"price_drop_1h", "price_drop_24h"}, {"price_drop"}, c)
        /\ Speaks(NearLow(Q, M, c), {"near_low"}, {"near_low"}, c)
        /\ Speaks(Depeg(Q, c), {"depeg"}, {"depeg"}, c)
        /\ Speaks(Spike(Q, c), {"stable_volume_anomaly", "volume_spike"},
                  {"stable_volume_anomaly", "volume_spike"}, c)
        /\ Speaks(DryUp(R, Q, c), {"volume_dry_up"}, {"volume_dry_up"}, c)
    BY <1>2, RuleSpeaks
  <2>3. a.about = c
    BY <2>1, <2>2 DEF OfCoin, Speaks
  <2>4. a.kind # "category_rotation" /\ a.kind # "portfolio_drop"
    BY <2>1, <2>2 DEF OfCoin, Speaks
  <2>5. a.kind = "rwa_drift" => a \in ToSet(RwaDrift(Q, M, c))
    BY <2>1, <2>2 DEF OfCoin, Speaks
  <2>. QED
    BY <2>3, <2>4, <2>5 DEF M
<1>4. CASE a \in OfCosts(R, Q)
  <2>1. PICK c \in CrossedIn(R, Q) : a \in ToSet(Cost(c))
    BY <1>4 DEF OfCosts
  <2>2. c \in HeldIn(R, Q)
    BY <2>1 DEF CrossedIn, HeldIn, Crossed
  <2>3. Speaks(Cost(c), {"below_cost_basis"}, {"below_cost_basis"}, c)
    BY <1>2, <2>2, CostSpeaks
  <2>4. a.about = c /\ a.kind = "below_cost_basis"
    BY <2>1, <2>3 DEF Speaks
  <2>. QED
    BY <2>2, <2>4
<1>5. CASE a \in OfGroups(R, Q, M)
  <2>1. PICK k \in Category : a \in ToSet(CategoryRotation(R, Q, M, k))
    BY <1>5 DEF OfGroups
  <2>2. Speaks(CategoryRotation(R, Q, M, k), {"category_rotation"}, {"category_rotation"}, k)
    BY CategorySpeaks
  <2>3. a.about = k /\ a.kind = "category_rotation"
    BY <2>1, <2>2 DEF Speaks
  <2>. QED
    BY <2>1, <2>3 DEF M
<1>6. CASE a \in ToSet(PortfolioDrop(R, Q))
  <2>1. Speaks(PortfolioDrop(R, Q), {"portfolio_drop"}, {"portfolio_drop"}, None)
    BY PortfolioSpeaks
  <2>2. a.about = None /\ a.kind = "portfolio_drop"
    BY <1>6, <2>1 DEF Speaks
  <2>. QED
    BY <1>6, <2>2
<1>. QED
  BY <1>1, <1>3, <1>4, <1>5, <1>6 DEF Said

\* Something is raised only on a condition.
LEMMA RaisedOn ==
  ASSUME NEW condition, NEW kind, NEW severity, NEW x, NEW name,
         NEW a \in ToSet(Raise(condition, kind, severity, x, name))
  PROVE  condition /\ a.severity = severity
<1>1. CASE condition
  BY <1>1 DEF Raise, ToSet
<1>2. CASE ~condition
  BY <1>2 DEF Raise, ToSet
<1>. QED
  BY <1>1, <1>2

\* Whatever a stale quote says, the candidates are the same, and figures of long ago
\* move no group and no asset (engine.ts:64-92, rules.ts:395-399).
THEOREM Silence == RulesSpec => []StaleIsSilent
<1>1. ASSUME RulesIInv PROVE StaleIsSilent
  <2>. DEFINE M == InContext(market)
  <2>0. rows \in Seq(Position) /\ quotes \in Quotes /\ ToSet(Now) = Verdicts(rows, quotes, market)
    BY <1>1 DEF RulesIInv, Now, Verdicts
  <2>1. PICK reply \in Market : market = Stored[reply]
    BY <1>1 DEF RulesIInv
  <2>2. \E g, l, o, t, r : market = [global |-> g, low |-> l, old |-> o, change |-> t, anchor |-> r]
    BY <2>1, Zenon DEF Stored
  <2>3. /\ "global" \in market.old => M.global = None
        /\ "categories" \in market.old => M.change = <<>>
        /\ "assets" \in market.old => M.anchor = [c \in Coin |-> None]
    BY <2>2 DEF InContext
  <2>. HIDE DEF M
  <2>4. ASSUME NEW a \in ToSet(Now), a.kind = "category_rotation"
        PROVE  market.old \cap {"global", "categories"} = {}
    <3>1. PICK k \in Category : a \in ToSet(CategoryRotation(rows, quotes, M, k))
      BY <2>0, <2>4, Kinds DEF M
    <3>2. k \in DOMAIN M.change /\ M.global # None
      BY <3>1, RaisedOn DEF CategoryRotation
    <3>3. DOMAIN <<>> = {}
      OBVIOUS
    <3>. QED
      BY <2>3, <3>2, <3>3
  <2>5. ASSUME NEW a \in ToSet(Now), a.kind = "rwa_drift"
        PROVE  "assets" \notin market.old
    <3>1. PICK c \in HeldIn(rows, quotes) : a \in ToSet(RwaDrift(quotes, M, c))
      BY <2>0, <2>5, Kinds DEF M
    <3>2. M.anchor[c] # None
      BY <3>1, RaisedOn DEF RwaDrift
    <3>3. c \in Coin
      BY <2>0, HeldIs
    <3>. QED
      BY <2>3, <3>2, <3>3
  <2>6. ASSUME NEW c \in Coin, quotes[c] # None, ~quotes[c].fresh
        PROVE  /\ \A a \in ToSet(Now) : a.about # c
               /\ \A q \in Feed[c] :
                    CandidatesOf(rows, [quotes EXCEPT ![c] = [q EXCEPT !.fresh = FALSE]], market) = Now
    <3>1. ~Usable(quotes, c)
      BY <2>6 DEF Usable
    <3>2. c \notin HeldIn(rows, quotes) /\ c \notin Category /\ c # None
      BY <3>1, RulesAssumption DEF HeldIn
    <3>3. \A a \in ToSet(Now) : a.about # c
      BY <2>0, <3>2, Kinds
    <3>4. ASSUME NEW q \in Feed[c]
          PROVE  CandidatesOf(rows, [quotes EXCEPT ![c] = [q EXCEPT !.fresh = FALSE]], market) = Now
      <4>. DEFINE P == [quotes EXCEPT ![c] = [q EXCEPT !.fresh = FALSE]]
      <4>1. q \in Quote
        BY RulesAssumption DEF Quote
      <4>2. P[c] = [q EXCEPT !.fresh = FALSE] /\ ~[q EXCEPT !.fresh = FALSE].fresh
        BY <2>0, <4>1 DEF Quotes, Quote
      <4>3. \A d \in Coin : d # c => P[d] = quotes[d]
        BY <2>0 DEF Quotes
      <4>. HIDE DEF P
      <4>4. ~Usable(P, c)
        BY <4>2 DEF Usable
      <4>5. Alike(quotes, P)
        BY <3>1, <4>3, <4>4 DEF Alike, Usable
      <4>6. CandidatesOf(rows, quotes, market) = CandidatesOf(rows, P, market)
        BY <2>0, <4>5, SameCandidates
      <4>. QED
        BY <4>6 DEF Now, P
    <3>. QED
      BY <3>3, <3>4
  <2>. QED
    BY <2>4, <2>5, <2>6 DEF StaleIsSilent
<1>. QED
  BY <1>1, RulesInvariance, PTL
-----------------------------------------------------------------------------
(* What rows are worth together *)

\* A unit for each that a member of S counts.
Units(h, S) == {p \in S \X Nat : p[2] \in 1..h[p[1]]}

\* As units, one member adds what it counts.
LEMMA OneMore ==
  ASSUME NEW h, NEW S, IsFiniteSet(S), NEW x \in S, h[x] \in Nat,
         IsFiniteSet(Units(h, S \ {x}))
  PROVE  /\ IsFiniteSet(Units(h, S))
         /\ Cardinality(Units(h, S)) = h[x] + Cardinality(Units(h, S \ {x}))
<1>. DEFINE own == {x} \X (1..h[x])
<1>1. IsFiniteSet(own) /\ Cardinality(own) = h[x]
  <2>1. IsFiniteSet({x}) /\ Cardinality({x}) = 1
    BY FS_Singleton
  <2>2. IsFiniteSet(1..h[x]) /\ Cardinality(1..h[x]) = h[x]
    BY FS_Interval
  <2>3. IsFiniteSet(own) /\ Cardinality(own) = 1 * h[x]
    BY <2>1, <2>2, FS_Product
  <2>. QED
    BY <2>3
<1>2. Units(h, S) = own \cup Units(h, S \ {x})
  BY DEF Units
<1>3. own \cap Units(h, S \ {x}) = {}
  BY DEF Units
<1>. HIDE DEF own
<1>4. /\ IsFiniteSet(Units(h, S))
      /\ Cardinality(Units(h, S)) =
           Cardinality(own) + Cardinality(Units(h, S \ {x})) - Cardinality({})
  <2>. DEFINE rest == Units(h, S \ {x})
  <2>1. IsFiniteSet(own) /\ IsFiniteSet(rest) /\ own \cap rest = {} /\ Units(h, S) = own \cup rest
    BY <1>1, <1>2, <1>3
  <2>. HIDE DEF rest
  <2>2. /\ IsFiniteSet(own \cup rest)
        /\ Cardinality(own \cup rest) = Cardinality(own) + Cardinality(rest) - Cardinality(own \cap rest)
    BY <2>1, FS_Union, Zenon
  <2>3. /\ IsFiniteSet(Units(h, S))
        /\ Cardinality(Units(h, S)) = Cardinality(own) + Cardinality(rest) - Cardinality({})
    BY <2>1, <2>2, Zenon
  <2>. QED
    BY <2>3 DEF rest
<1>5. Cardinality({}) = 0 /\ Cardinality(Units(h, S \ {x})) \in Nat
  BY FS_EmptySet, FS_CardinalityType
<1>. QED
  BY <1>1, <1>4, <1>5

\* Of a collection of subsets of a finite set one has none of the others inside.
LEMMA Smallest ==
  ASSUME NEW S, IsFiniteSet(S), NEW C \in SUBSET (SUBSET S), C # {}
  PROVE  \E s \in C : \A r \in C : r \subseteq s => r = s
<1>1. C \subseteq FiniteSubsetsOf(S)
  BY FS_FiniteSubsetsOfFinite
<1>2. IsWellFoundedOn(StrictSubsetOrdering(S), FiniteSubsetsOf(S))
  BY FS_StrictSubsetOrderingWellFounded
<1>3. PICK s \in C : \A r \in C : <<r, s>> \notin StrictSubsetOrdering(S)
  BY <1>1, <1>2, WFMin
<1>4. ASSUME NEW r \in C, r \subseteq s PROVE r = s
  BY <1>3, <1>4 DEF StrictSubsetOrdering
<1>. QED
  BY <1>4

\* The units of a finite set can be counted.
LEMMA UnitsFinite ==
  ASSUME NEW h, NEW S, IsFiniteSet(S), \A x \in S : h[x] \in Nat
  PROVE  IsFiniteSet(Units(h, S))
<1>. DEFINE C == {s \in SUBSET S : ~IsFiniteSet(Units(h, s))}
<1>. SUFFICES ASSUME C # {} PROVE FALSE
  OBVIOUS
<1>1. PICK s \in C : \A r \in C : r \subseteq s => r = s
  <2>. HIDE DEF C
  <2>1. C \in SUBSET (SUBSET S)
    BY DEF C
  <2>. QED
    BY <2>1, Smallest
<1>2. IsFiniteSet(s) /\ s \subseteq S /\ ~IsFiniteSet(Units(h, s))
  BY <1>1, FS_Subset
<1>3. CASE s = {}
  <2>1. Units(h, s) = {}
    BY <1>3 DEF Units
  <2>. QED
    BY <1>2, <2>1, FS_EmptySet
<1>4. CASE s # {}
  <2>1. PICK x \in s : TRUE
    BY <1>4
  <2>2. s \ {x} \notin C
    BY <1>1, <2>1
  <2>3. IsFiniteSet(Units(h, s \ {x}))
    BY <1>2, <2>2
  <2>. QED
    BY <1>2, <2>1, <2>3, OneMore
<1>. QED
  BY <1>3, <1>4

\* A sum is the number of the units.
LEMMA SumIs ==
  ASSUME NEW h, NEW S, IsFiniteSet(S), \A x \in S : h[x] \in Nat
  PROVE  SumFunctionOnSet(h, S) = Cardinality(Units(h, S))
<1>. DEFINE step(f) == [s \in SUBSET S |-> IF s = {} THEN 0 ELSE LET x == CHOOSE x \in s : TRUE IN h[x] + f[s \ {x}]]
            sum == CHOOSE f : f = step(f)
            units == [s \in SUBSET S |-> Cardinality(Units(h, s))]
<1>1. SumFunctionOnSet(h, S) = sum[S]
  BY DEF SumFunctionOnSet, FoldFunctionOnSet, MapThenFoldSet
<1>2. ASSUME NEW s \in SUBSET S, s # {}, NEW x \in s
      PROVE  units[s] = h[x] + units[s \ {x}]
  <2>1. IsFiniteSet(s) /\ IsFiniteSet(s \ {x}) /\ s \ {x} \in SUBSET S
    BY FS_Subset
  <2>2. IsFiniteSet(Units(h, s \ {x}))
    BY <2>1, UnitsFinite
  <2>. QED
    BY <2>1, <2>2, OneMore
<1>3. units[{}] = 0
  <2>1. Units(h, {}) = {}
    BY DEF Units
  <2>. QED
    BY <2>1, FS_EmptySet
<1>4. units = step(units)
  <2>1. ASSUME NEW s \in SUBSET S
        PROVE  units[s] = step(units)[s]
    <3>. HIDE DEF units
    <3>. QED
      BY <1>2, <1>3
  <2>. QED
    BY <2>1
<1>5. sum = step(sum)
  <2>. HIDE DEF step, units
  <2>. QED
    BY <1>4
<1>6. ASSUME NEW s \in SUBSET S, s # {}
      PROVE  \E x \in s : sum[s] = h[x] + sum[s \ {x}]
  <2>. HIDE DEF sum
  <2>. QED
    BY <1>5, <1>6
<1>7. sum[{}] = 0
  <2>. HIDE DEF sum
  <2>. QED
    BY <1>5
<1>8. \A s \in SUBSET S : sum[s] = units[s]
  <2>. HIDE DEF sum, units, step
  <2>. DEFINE C == {s \in SUBSET S : sum[s] # units[s]}
  <2>. SUFFICES ASSUME C # {} PROVE FALSE
    OBVIOUS
  <2>1. PICK s \in C : \A r \in C : r \subseteq s => r = s
    <3>. HIDE DEF C
    <3>1. C \in SUBSET (SUBSET S)
      BY DEF C
    <3>. QED
      BY <3>1, Smallest
  <2>2. s # {}
    BY <1>3, <1>7
  <2>3. PICK x \in s : sum[s] = h[x] + sum[s \ {x}]
    BY <1>6, <2>2
  <2>4. s \ {x} \notin C /\ s \ {x} \in SUBSET S
    BY <2>1, <2>3
  <2>5. sum[s \ {x}] = units[s \ {x}]
    BY <2>4
  <2>. QED
    BY <1>2, <2>2, <2>3, <2>5
<1>. QED
  BY <1>1, <1>8


\* More members count no less.
LEMMA SumGrows ==
  ASSUME NEW h, NEW S, IsFiniteSet(S), \A x \in S : h[x] \in Nat, NEW T \in SUBSET S
  PROVE  /\ SumFunctionOnSet(h, T) \in Nat /\ SumFunctionOnSet(h, S) \in Nat
         /\ SumFunctionOnSet(h, T) <= SumFunctionOnSet(h, S)
<1>1. IsFiniteSet(T) /\ \A x \in T : h[x] \in Nat
  BY FS_Subset
<1>2. /\ SumFunctionOnSet(h, T) = Cardinality(Units(h, T))
      /\ SumFunctionOnSet(h, S) = Cardinality(Units(h, S))
  BY <1>1, SumIs
<1>3. IsFiniteSet(Units(h, S)) /\ Units(h, T) \subseteq Units(h, S)
  BY UnitsFinite DEF Units
<1>4. IsFiniteSet(Units(h, T)) /\ Cardinality(Units(h, T)) <= Cardinality(Units(h, S))
  BY <1>3, FS_Subset
<1>. QED
  BY <1>2, <1>3, <1>4, FS_CardinalityType

\* The rows of some coins.
RowsOf(R, coins) == {i \in DOMAIN R : R[i].coin \in coins}

\* What some coins are worth, as a number of units of the rows that hold them.
LEMMA WorthIs ==
  ASSUME NEW R \in Seq(Position), NEW Q \in Quotes, NEW coins
  PROVE  LET h == [i \in DOMAIN R |-> Value(R[i], Q)] IN
         /\ IsFiniteSet(DOMAIN R) /\ \A i \in DOMAIN R : h[i] \in Nat
         /\ Worth(R, Q, coins) = SumFunctionOnSet(h, RowsOf(R, coins))
         /\ Worth(R, Q, coins) \in Nat
<1>. DEFINE h == [i \in DOMAIN R |-> Value(R[i], Q)]
<1>1. IsFiniteSet(DOMAIN R)
  <2>1. DOMAIN R = 1..Len(R) /\ Len(R) \in Nat
    OBVIOUS
  <2>. QED
    BY <2>1, FS_Interval
<1>2. ASSUME NEW i \in DOMAIN R PROVE Value(R[i], Q) \in Nat
  <2>1. R[i] \in Position
    OBVIOUS
  <2>2. R[i].coin \in Coin /\ R[i].amount \in Nat
    BY <2>1 DEF Position
  <2>3. CASE Usable(Q, R[i].coin)
    <3>1. Q[R[i].coin] \in Quote
      BY <2>2, <2>3 DEF Usable, Quotes
    <3>2. Q[R[i].coin].price \in Nat
      BY <2>3, <3>1 DEF Usable, Quote
    <3>. QED
      BY <2>2, <2>3, <3>2 DEF Value
  <2>. QED
    BY <2>3 DEF Value
<1>3. \A i \in DOMAIN R : h[i] \in Nat
  BY <1>2
<1>4. Worth(R, Q, coins) = SumFunctionOnSet(h, RowsOf(R, coins))
  BY Zenon DEF Worth, RowsOf
<1>. HIDE DEF h
<1>5. SumFunctionOnSet(h, RowsOf(R, coins)) \in Nat
  <2>1. RowsOf(R, coins) \in SUBSET DOMAIN R
    BY DEF RowsOf
  <2>. QED
    BY <1>1, <1>3, <2>1, SumGrows
<1>. QED
  BY <1>1, <1>3, <1>4, <1>5 DEF h
-----------------------------------------------------------------------------
(* A fold over a set, one member after the other *)

\* The member that a fold takes first.
Pick(s) == CHOOSE x \in s : TRUE

\* One step of the fold, for each subset of S.
Iter(o, base, S, f) ==
  [s \in SUBSET S |-> IF s = {} THEN base ELSE o[<<Pick(s), f[s \ {Pick(s)}]>>]]

\* What the fold makes of a subset does not depend on the set it is a subset of.
LEMMA FoldsAgree ==
  ASSUME NEW S, IsFiniteSet(S), NEW a \in SUBSET S, NEW b \in SUBSET S, NEW o, NEW base,
         NEW f, NEW g, f = Iter(o, base, a, f), g = Iter(o, base, b, g)
  PROVE  \A t \in SUBSET (a \cap b) : f[t] = g[t]
<1>. DEFINE C == {t \in SUBSET S : t \subseteq a \cap b /\ f[t] # g[t]}
<1>. SUFFICES ASSUME C # {} PROVE FALSE
  OBVIOUS
<1>1. PICK t \in C : \A r \in C : r \subseteq t => r = t
  <2>1. C \in SUBSET (SUBSET S)
    OBVIOUS
  <2>. HIDE DEF C
  <2>. QED
    BY <2>1, Smallest
<1>2. t \in SUBSET a /\ t \in SUBSET b /\ f[t] # g[t] /\ t \in SUBSET S
  BY <1>1
<1>3. /\ f[t] = IF t = {} THEN base ELSE o[<<Pick(t), f[t \ {Pick(t)}]>>]
      /\ g[t] = IF t = {} THEN base ELSE o[<<Pick(t), g[t \ {Pick(t)}]>>]
  BY <1>2 DEF Iter
<1>4. t # {}
  BY <1>2, <1>3
<1>5. Pick(t) \in t
  BY <1>4 DEF Pick
<1>6. t \ {Pick(t)} \notin C /\ t \ {Pick(t)} \in SUBSET S /\ t \ {Pick(t)} \subseteq a \cap b
  BY <1>1, <1>2, <1>5
<1>7. f[t \ {Pick(t)}] = g[t \ {Pick(t)}]
  BY <1>6
<1>. QED
  BY <1>2, <1>3, <1>7

\* A way to take in one more of S, and what f then makes of each subset.
TakesIn(o, S, T) == o \in [S \X T -> T]
IsFold(o, base, S, T, f) == f \in [SUBSET S -> T] /\ f = Iter(o, base, S, f)

\* There is such a fold.
LEMMA FoldExists ==
  ASSUME NEW S, IsFiniteSet(S), NEW T, NEW base \in T, NEW o, TakesIn(o, S, T)
  PROVE  \E f : IsFold(o, base, S, T, f)
<1>. USE DEF TakesIn
<1>. DEFINE Good(a, f) == f \in [SUBSET a -> T] /\ f = Iter(o, base, a, f)
            C == {a \in SUBSET S : ~\E f : Good(a, f)}
<1>. SUFFICES ASSUME C # {} PROVE FALSE
  BY DEF IsFold
<1>1. PICK s \in C : \A r \in C : r \subseteq s => r = s
  <2>1. C \in SUBSET (SUBSET S)
    OBVIOUS
  <2>. HIDE DEF C
  <2>. QED
    BY <2>1, Smallest
<1>2. s \in SUBSET S /\ ~\E f : Good(s, f)
  BY <1>1
<1>. DEFINE part(t) == CHOOSE f : Good(t, f)
            less(t) == t \ {Pick(t)}
<1>3. ASSUME NEW t \in SUBSET s, t # s PROVE Good(t, part(t))
  <2>1. t \notin C /\ t \in SUBSET S
    BY <1>1, <1>2, <1>3
  <2>2. \E f : Good(t, f)
    BY <2>1
  <2>. HIDE DEF Good
  <2>. QED
    BY <2>2
<1>. DEFINE F == [t \in SUBSET s |-> IF t = {} THEN base ELSE o[<<Pick(t), part(less(t))[less(t)]>>]]
<1>4. ASSUME NEW t \in SUBSET s, t # {}
      PROVE  /\ Pick(t) \in S /\ Pick(t) \in t
             /\ less(t) \in SUBSET s /\ less(t) # s /\ less(t) \in SUBSET t
  <2>1. Pick(t) \in t
    BY <1>4 DEF Pick
  <2>. QED
    BY <1>2, <2>1
<1>. HIDE DEF part, less, C
<1>5. F \in [SUBSET s -> T]
  <2>1. ASSUME NEW t \in SUBSET s, t # {} PROVE o[<<Pick(t), part(less(t))[less(t)]>>] \in T
    <3>1. part(less(t))[less(t)] \in T
      <4>. DEFINE r == less(t)
                  g == part(r)
      <4>1. g \in [SUBSET r -> T] /\ r \in SUBSET r
        BY <1>3, <1>4, <2>1
      <4>. HIDE DEF r, g
      <4>2. g[r] \in T
        BY <4>1
      <4>. QED
        BY <4>2 DEF r, g
    <3>. QED
      BY <1>4, <2>1, <3>1
  <2>. QED
    BY <2>1
<1>6. ASSUME NEW u \in SUBSET s, u # s PROVE F[u] = part(u)[u]
  <2>1. Good(u, part(u))
    BY <1>3, <1>6
  <2>2. part(u)[u] = IF u = {} THEN base ELSE o[<<Pick(u), part(u)[less(u)]>>]
    BY <2>1 DEF Iter, less
  <2>3. CASE u = {}
    BY <2>2, <2>3
  <2>4. CASE u # {}
    <3>1. Good(less(u), part(less(u)))
      BY <1>3, <1>4, <2>4
    <3>2. less(u) \in SUBSET (u \cap less(u)) /\ u \in SUBSET S /\ less(u) \in SUBSET S
      BY <1>2, <1>4, <2>4
    <3>3. part(u)[less(u)] = part(less(u))[less(u)]
      <4>1. part(u) = Iter(o, base, u, part(u)) /\ part(less(u)) = Iter(o, base, less(u), part(less(u)))
        BY <2>1, <3>1
      <4>. QED
        BY <3>2, <4>1, FoldsAgree
    <3>. QED
      BY <2>2, <2>4, <3>3
  <2>. QED
    BY <2>3, <2>4
<1>7. ASSUME NEW t \in SUBSET s
      PROVE  F[t] = IF t = {} THEN base ELSE o[<<Pick(t), F[t \ {Pick(t)}]>>]
  <2>1. CASE t = {}
    BY <2>1
  <2>2. CASE t # {}
    <3>1. F[less(t)] = part(less(t))[less(t)]
      BY <1>4, <1>6, <2>2
    <3>2. F[t] = o[<<Pick(t), part(less(t))[less(t)]>>]
      BY <2>2
    <3>. HIDE DEF F
    <3>. QED
      BY <2>2, <3>1, <3>2 DEF less
  <2>. QED
    BY <2>1, <2>2
<1>8. F = Iter(o, base, s, F)
  <2>1. F = [t \in SUBSET s |-> F[t]]
    OBVIOUS
  <2>. HIDE DEF F
  <2>. QED
    BY <1>7, <2>1 DEF Iter
<1>. HIDE DEF F
<1>. QED
  BY <1>2, <1>5, <1>8
-----------------------------------------------------------------------------
(* What a portfolio has lost *)

\* A coin that did not fall by a percentage keeps the value above what such a fall leaves.
LEMMA Keeps ==
  ASSUME NEW W \in Nat \ {0}, NEW k \in Int, NEW now \in Nat, NEW num \in Nat,
         NEW den \in Nat \ {0}, NEW v \in Nat, NEW t \in Nat \ {0}, v = 0 \/ t > k,
         W * now * den >= k * num, num > 0 => W * now * den > k * num
  PROVE  /\ W * (now + v) * (den * t) >= k * (num * t + v * W * den)
         /\ num * t + v * W * den > 0 => W * (now + v) * (den * t) > k * (num * t + v * W * den)
<1>. DEFINE A == W * now * den
            B == k * num
            D == v * W * den
<1>0. A \in Int /\ B \in Int /\ D \in Nat
  OBVIOUS
<1>1. W * (now + v) * (den * t) = A * t + D * t
  BY Z3
<1>2. k * (num * t + D) = B * t + D * k
  BY Z3
<1>3. num * t + D > 0 => num > 0 \/ v > 0
  OBVIOUS
<1>4. v > 0 => D > 0
  OBVIOUS
<1>5. A >= B /\ (num > 0 => A > B)
  OBVIOUS
<1>6. v = 0 => D = 0
  OBVIOUS
<1>. HIDE DEF A, B, D
<1>7. A * t >= B * t /\ (A > B => A * t > B * t)
  BY <1>0, <1>5, Z3
<1>8. D * t >= D * k /\ (v > 0 => D * t > D * k)
  <2>1. CASE v = 0
    BY <1>0, <1>6, <2>1
  <2>2. CASE v > 0
    <3>1. t > k /\ D > 0
      BY <1>4, <2>2
    <3>2. D * t > D * k
      BY <1>0, <3>1, Z3
    <3>. QED
      BY <1>0, <2>2, <3>2
  <2>. QED
    BY <2>1, <2>2
<1>9. A * t \in Int /\ B * t \in Int /\ D * t \in Int /\ D * k \in Int
  BY <1>0
<1>10. A * t + D * t >= B * t + D * k
  BY <1>7, <1>8, <1>9
<1>11. num * t + D > 0 => A * t + D * t > B * t + D * k
  BY <1>3, <1>5, <1>7, <1>8, <1>9
<1>12. W * (now + v) * (den * t) >= k * (num * t + D)
  BY <1>1, <1>2, <1>10
<1>13. num * t + D > 0 => W * (now + v) * (den * t) > k * (num * t + D)
  BY <1>1, <1>2, <1>11
<1>. QED
  BY <1>12, <1>13 DEF D

\* What the fold has summed up.
Sums == [now : Nat, num : Nat, den : Nat \ {0}]

\* A portfolio fell by a percentage only if a coin that is worth something did.
LEMMA SomeFell ==
  ASSUME NEW R \in Seq(Position), NEW Q \in Quotes, NEW percent \in Nat \ {0}, FellBy(R, Q, percent)
  PROVE  \E c \in CoveredCoins(R, Q) : Worth(R, Q, {c}) > 0 /\ Q[c].change24h <= -percent
<1>. DEFINE cov == CoveredCoins(R, Q)
            coins == [c \in cov |-> [value |-> Worth(R, Q, {c}), then |-> Whole + Q[c].change24h]]
            base == [now |-> 0, num |-> 0, den |-> 1]
            o == [p \in cov \X Sums |->
                    [now |-> p[2].now + coins[p[1]].value,
                     num |-> p[2].num * coins[p[1]].then + coins[p[1]].value * Whole * p[2].den,
                     den |-> p[2].den * coins[p[1]].then]]
            step(f) == [s \in SUBSET cov |->
                          IF s = {} THEN base
                          ELSE LET x == CHOOSE x \in s : TRUE IN
                               [now |-> f[s \ {x}].now + coins[x].value,
                                num |-> f[s \ {x}].num * coins[x].then + coins[x].value * Whole * f[s \ {x}].den,
                                den |-> f[s \ {x}].den * coins[x].then]]
            sum == CHOOSE f : f = step(f)
<1>. SUFFICES ASSUME \A c \in cov : ~(Worth(R, Q, {c}) > 0 /\ Q[c].change24h <= -percent) PROVE FALSE
  OBVIOUS
<1>1. IsFiniteSet(cov) /\ cov \subseteq Coin
  BY RulesAssumption, FS_Subset DEF CoveredCoins
<1>2. Whole \in Nat \ {0}
  BY RulesAssumption
<1>3. ASSUME NEW c \in cov
      PROVE  /\ coins[c].value \in Nat /\ coins[c].then \in Nat \ {0}
             /\ coins[c].value = 0 \/ coins[c].then > Whole - percent
  <2>1. Worth(R, Q, {c}) \in Nat
    BY WorthIs
  <2>2. Q[c].change24h \in Int /\ Q[c].change24h > -Whole
    <3>1. Covered(Q, c) /\ c \in Coin
      BY DEF CoveredCoins
    <3>2. Q[c] \in Quote
      BY <3>1 DEF Covered, Usable, Quotes
    <3>. QED
      BY <3>1, <3>2 DEF Covered, Quote
  <2>3. Worth(R, Q, {c}) = 0 \/ Q[c].change24h > -percent
    <3>. DEFINE w == Worth(R, Q, {c})
                x == Q[c].change24h
    <3>1. ~(w > 0 /\ x <= -percent)
      OBVIOUS
    <3>2. w \in Nat /\ x \in Int
      BY <2>1, <2>2
    <3>. HIDE DEF w, x, cov, coins
    <3>3. w = 0 \/ x > -percent
      BY <3>1, <3>2
    <3>. QED
      BY <3>3 DEF w, x
  <2>4. coins[c].value = Worth(R, Q, {c}) /\ coins[c].then = Whole + Q[c].change24h
    OBVIOUS
  <2>. HIDE DEF coins
  <2>. QED
    BY <1>2, <2>1, <2>2, <2>3, <2>4
<1>4. DOMAIN coins = cov
  OBVIOUS
<1>5. Followed(R, Q) = sum[cov]
  BY <1>4 DEF Followed, FoldFunction, FoldFunctionOnSet, MapThenFoldSet
<1>. HIDE DEF coins
<1>6. base \in Sums
  BY DEF Sums
<1>7. o \in [cov \X Sums -> Sums]
  <2>1. ASSUME NEW p \in cov \X Sums PROVE o[p] \in Sums
    <3>1. p[1] \in cov /\ p[2].now \in Nat /\ p[2].num \in Nat /\ p[2].den \in Nat \ {0}
      BY DEF Sums
    <3>2. coins[p[1]].value \in Nat /\ coins[p[1]].then \in Nat \ {0}
      BY <1>3, <3>1
    <3>3. /\ p[2].now + coins[p[1]].value \in Nat
          /\ p[2].num * coins[p[1]].then + coins[p[1]].value * Whole * p[2].den \in Nat
          /\ p[2].den * coins[p[1]].then \in Nat \ {0}
      <4>1. \A now, num, v \in Nat, den, t \in Nat \ {0} :
              now + v \in Nat /\ num * t + v * Whole * den \in Nat /\ den * t \in Nat \ {0}
        BY <1>2, Z3
      <4>. QED
        BY <3>1, <3>2, <4>1
    <3>. QED
      BY <3>3 DEF Sums
  <2>. QED
    BY <2>1
<1>8. PICK f \in [SUBSET cov -> Sums] : f = Iter(o, base, cov, f)
  <2>. DEFINE T == Sums
  <2>. HIDE DEF cov, o, base, T
  <2>1. IsFiniteSet(cov) /\ base \in T /\ TakesIn(o, cov, T)
    BY <1>1, <1>6, <1>7 DEF T, TakesIn
  <2>2. \E f : IsFold(o, base, cov, T, f)
    BY <2>1, FoldExists, Zenon
  <2>. QED
    BY <2>2, Zenon DEF T, IsFold
<1>9. f = step(f)
  <2>1. ASSUME NEW s \in SUBSET cov PROVE f[s] = step(f)[s]
    <3>1. f[s] = IF s = {} THEN base ELSE o[<<Pick(s), f[s \ {Pick(s)}]>>]
      BY <1>8 DEF Iter
    <3>2. CASE s = {}
      BY <3>1, <3>2
    <3>3. CASE s # {}
      <4>1. Pick(s) \in s /\ s \ {Pick(s)} \in SUBSET cov
        BY <3>3 DEF Pick
      <4>2. <<Pick(s), f[s \ {Pick(s)}]>> \in cov \X Sums
        BY <4>1
      <4>. QED
        BY <3>1, <3>3, <4>2 DEF Pick
    <3>. QED
      BY <3>2, <3>3
  <2>2. f = [s \in SUBSET cov |-> f[s]]
    OBVIOUS
  <2>. HIDE DEF o, base, cov
  <2>. QED
    BY <2>1, <2>2
<1>10. sum = step(sum)
  <2>. HIDE DEF step
  <2>. QED
    BY <1>9
<1>. HIDE DEF sum, cov
<1>11. sum[{}] = base
  BY <1>10
<1>12. ASSUME NEW s \in SUBSET cov, s # {}
       PROVE  \E x \in s :
                /\ sum[s].now = sum[s \ {x}].now + coins[x].value
                /\ sum[s].num = sum[s \ {x}].num * coins[x].then + coins[x].value * Whole * sum[s \ {x}].den
                /\ sum[s].den = sum[s \ {x}].den * coins[x].then
  <2>. DEFINE x == CHOOSE x \in s : TRUE
  <2>1. x \in s
    BY <1>12
  <2>2. sum[s] = [now |-> sum[s \ {x}].now + coins[x].value,
                  num |-> sum[s \ {x}].num * coins[x].then + coins[x].value * Whole * sum[s \ {x}].den,
                  den |-> sum[s \ {x}].den * coins[x].then]
    BY <1>10, <1>12
  <2>. HIDE DEF x, step
  <2>3. /\ sum[s].now = sum[s \ {x}].now + coins[x].value
        /\ sum[s].num = sum[s \ {x}].num * coins[x].then + coins[x].value * Whole * sum[s \ {x}].den
        /\ sum[s].den = sum[s \ {x}].den * coins[x].then
    BY <2>2
  <2>. QED
    BY <2>1, <2>3, Zenon
<1>. HIDE DEF step
<1>. DEFINE Fine(u) == /\ u.now \in Nat /\ u.num \in Nat /\ u.den \in Nat \ {0}
                       /\ Whole * u.now * u.den >= (Whole - percent) * u.num
                       /\ u.num > 0 => Whole * u.now * u.den > (Whole - percent) * u.num
            Bad == {s \in SUBSET cov : ~Fine(sum[s])}
<1>13. Bad = {}
  <2>. SUFFICES ASSUME Bad # {} PROVE FALSE
    OBVIOUS
  <2>1. PICK s \in Bad : \A r \in Bad : r \subseteq s => r = s
    <3>1. Bad \in SUBSET (SUBSET cov)
      OBVIOUS
    <3>. HIDE DEF Bad
    <3>. QED
      BY <1>1, <3>1, Smallest
  <2>2. s \in SUBSET cov /\ ~Fine(sum[s])
    BY <2>1
  <2>3. CASE s = {}
    <3>1. sum[s].now = 0 /\ sum[s].num = 0 /\ sum[s].den = 1
      BY <1>11, <2>3
    <3>. QED
      BY <1>2, <2>2, <3>1
  <2>4. CASE s # {}
    <3>1. PICK x \in s :
            /\ sum[s].now = sum[s \ {x}].now + coins[x].value
            /\ sum[s].num = sum[s \ {x}].num * coins[x].then + coins[x].value * Whole * sum[s \ {x}].den
            /\ sum[s].den = sum[s \ {x}].den * coins[x].then
      BY <1>12, <2>2, <2>4
    <3>2. s \ {x} \in SUBSET cov /\ s \ {x} \notin Bad /\ x \in cov
      BY <2>1, <2>2
    <3>3. Fine(sum[s \ {x}])
      BY <3>2
    <3>. DEFINE now == sum[s \ {x}].now
                num == sum[s \ {x}].num
                den == sum[s \ {x}].den
                v == coins[x].value
                t == coins[x].then
                k == Whole - percent
    <3>4. /\ now \in Nat /\ num \in Nat /\ den \in Nat \ {0} /\ v \in Nat /\ t \in Nat \ {0} /\ k \in Int
          /\ v = 0 \/ t > k
      BY <1>2, <1>3, <3>2, <3>3
    <3>5. Whole * now * den >= k * num /\ (num > 0 => Whole * now * den > k * num)
      BY <3>3
    <3>. HIDE DEF now, num, den, v, t, k
    <3>6. /\ Whole * (now + v) * (den * t) >= k * (num * t + v * Whole * den)
          /\ num * t + v * Whole * den > 0 =>
               Whole * (now + v) * (den * t) > k * (num * t + v * Whole * den)
      BY <1>2, <3>4, <3>5, Keeps
    <3>7. now + v \in Nat /\ num * t + v * Whole * den \in Nat /\ den * t \in Nat \ {0}
      BY <1>2, <3>4
    <3>8. sum[s].now = now + v /\ sum[s].num = num * t + v * Whole * den /\ sum[s].den = den * t
      BY <3>1 DEF now, num, den, v, t
    <3>9. Fine(sum[s])
      BY <3>6, <3>7, <3>8 DEF k
    <3>. QED
      BY <2>2, <3>9
  <2>. QED
    BY <2>3, <2>4
<1>14. Fine(Followed(R, Q))
  <2>1. cov \in SUBSET cov
    OBVIOUS
  <2>2. Fine(sum[cov])
    BY <1>13, <2>1
  <2>. QED
    BY <1>5, <2>2
<1>15. LET s == Followed(R, Q) IN s.num > 0 /\ Whole * s.now * s.den <= (Whole - percent) * s.num
  BY DEF FellBy
<1>. QED
  <2>. DEFINE s == Followed(R, Q)
              left == Whole * s.now * s.den
              right == (Whole - percent) * s.num
  <2>1. left \in Int /\ right \in Int
    BY <1>2, <1>14
  <2>2. left > right /\ left <= right
    BY <1>14, <1>15
  <2>. HIDE DEF left, right
  <2>. QED
    BY <2>1, <2>2

\* A portfolio alert is about several coins with fresh prices, one of which fell as much
\* as the alert says, and there is a group to put the loss on (portfolio.ts:39-54,
\* 102-143, rules.ts:350-366).
THEOREM Caused == RulesSpec => []PortfolioDropHasACause
<1>1. ASSUME RulesIInv PROVE PortfolioDropHasACause
  <2>. DEFINE R == rows
              Q == quotes
              p == Prefs.portfolioDrop
  <2>0. R \in Seq(Position) /\ Q \in Quotes /\ p \in Nat \ {0}
    BY <1>1, RulesAssumption DEF RulesIInv
  <2>. SUFFICES ASSUME NEW a \in ToSet(Now), a.kind = "portfolio_drop"
                PROVE  LET depth == IF a.severity = "critical" THEN 2 * p ELSE p IN
                       /\ \A r \in ToSet(R) : Usable(Q, r.coin)
                       /\ Cardinality({r.coin : r \in ToSet(R)}) > 1
                       /\ \E r \in ToSet(R) : Falls(Q[r.coin].change24h, depth)
                       /\ LosingGroups(R, Q, InContext(market)) # {}
    BY DEF PortfolioDropHasACause
  <2>. DEFINE depth == IF a.severity = "critical" THEN 2 * p ELSE p
              coins == {r.coin : r \in ToSet(R)}
              condition == /\ ~Incomplete(R, Q)
                           /\ 100 * Worth(R, Q, CoveredCoins(R, Q)) >= 80 * Worth(R, Q, Coin)
                           /\ Diversified(R, Q)
                           /\ FellBy(R, Q, p)
              severity == IF FellBy(R, Q, 2 * p) THEN "critical" ELSE "warning"
  <2>1. a \in ToSet(PortfolioDrop(R, Q))
    <3>1. a \in Verdicts(R, Q, market)
      BY DEF Now, Verdicts
    <3>. HIDE DEF R, Q
    <3>. QED
      BY <2>0, <3>1, Kinds
  <2>2. condition /\ a.severity = severity
    <3>1. PortfolioDrop(R, Q) = Raise(condition, "portfolio_drop", severity, None, "portfolio_drop")
      BY DEF PortfolioDrop
    <3>. HIDE DEF condition, severity
    <3>. QED
      BY <2>1, <3>1, RaisedOn
  <2>. HIDE DEF R, Q, p
  <2>3. FellBy(R, Q, p) /\ FellBy(R, Q, depth) /\ depth \in Nat \ {0}
    BY <2>0, <2>2
  <2>4. ASSUME NEW c \in CoveredCoins(R, Q)
        PROVE  c \in Coin /\ Q[c].change24h \in Int /\ \E r \in ToSet(R) : r.coin = c
    <3>1. Covered(Q, c) /\ c \in Coin /\ \E i \in DOMAIN R : R[i].coin = c
      BY DEF CoveredCoins
    <3>2. Q[c] \in Quote
      BY <2>0, <3>1 DEF Covered, Usable, Quotes
    <3>. QED
      BY <3>1, <3>2 DEF Covered, Quote, ToSet
  <2>5. \A r \in ToSet(R) : Usable(Q, r.coin)
    BY <2>2 DEF Incomplete
  <2>6. \E r \in ToSet(R) : Falls(Q[r.coin].change24h, depth)
    <3>. HIDE DEF depth
    <3>1. PICK c \in CoveredCoins(R, Q) : Q[c].change24h <= -depth
      BY <2>0, <2>3, SomeFell
    <3>2. Q[c].change24h # None
      BY <2>4, RulesAssumption
    <3>. QED
      BY <2>4, <3>1, <3>2 DEF Falls
  <2>7. PICK c \in CoveredCoins(R, Q) : Worth(R, Q, {c}) > 0 /\ Q[c].change24h <= -p
    BY <2>0, <2>3, SomeFell
  <2>8. LosingGroups(R, Q, InContext(market)) # {}
    <3>1. Q[c].change24h < 0
      BY <2>0, <2>4, <2>7
    <3>. QED
      BY <2>7, <3>1 DEF LosingGroups
  <2>9. Cardinality(coins) > 1
    <3>1. coins \subseteq Coin
      <4>1. \A r \in ToSet(R) : r \in Position
        BY <2>0 DEF ToSet
      <4>. QED
        BY <4>1 DEF Position
    <3>2. IsFiniteSet(coins) /\ Cardinality(coins) \in Nat
      BY <3>1, RulesAssumption, FS_Subset, FS_CardinalityType
    <3>3. c \in coins
      BY <2>4
    <3>. SUFFICES ASSUME Cardinality(coins) <= 1 PROVE FALSE
      BY <3>2
    <3>4. \A r \in ToSet(R) : r.coin \in coins
      OBVIOUS
    <3>. HIDE DEF coins
    <3>5. coins = {c}
      <4>1. Cardinality(coins) # 0
        BY <3>2, <3>3, FS_EmptySet
      <4>2. Cardinality(coins) = 1
        BY <3>2, <4>1
      <4>3. \E d : coins = {d}
        BY <3>2, <4>2, FS_Singleton
      <4>. QED
        BY <3>3, <4>3
    <3>6. RowsOf(R, {c}) = RowsOf(R, Coin)
      <4>1. \A i \in DOMAIN R : R[i].coin = c
        BY <3>4, <3>5 DEF ToSet
      <4>. QED
        BY <2>4, <4>1 DEF RowsOf
    <3>7. Worth(R, Q, {c}) = Worth(R, Q, Coin) /\ Worth(R, Q, {c}) \in Nat
      <4>1. Worth(R, Q, {c}) = Worth(R, Q, Coin)
        BY <3>6, Zenon DEF Worth, RowsOf
      <4>2. Worth(R, Q, {c}) \in Nat
        BY <2>0, WorthIs
      <4>. QED
        BY <4>1, <4>2
    <3>8. 100 * Worth(R, Q, {c}) < 85 * Worth(R, Q, Coin)
      BY <2>2, <2>4 DEF Diversified
    <3>. DEFINE w == Worth(R, Q, {c})
    <3>9. w \in Nat /\ 100 * w < 85 * w
      BY <3>7, <3>8
    <3>. HIDE DEF w
    <3>. QED
      BY <3>9
  <2>. QED
    BY <2>5, <2>6, <2>8, <2>9
<1>. QED
  BY <1>1, RulesInvariance, PTL
-----------------------------------------------------------------------------
(* How a position is booked *)

\* Every row of R has one of P for the same coin at the same cost.
Covers(P, R) ==
  \A i \in DOMAIN R : \E j \in DOMAIN P : P[j].coin = R[i].coin /\ P[j].basis = R[i].basis

\* Two ways to book that differ in no coin's rows, costs or worth say the same.
LEMMA SaidAlike ==
  ASSUME NEW R \in Seq(Position), NEW P \in Seq(Position), NEW Q, NEW M, Covers(P, R), Covers(R, P),
         \A S : Worth(R, Q, S) = Worth(P, Q, S)
  PROVE  Said(R, Q, M) = Said(P, Q, M)
<1>0. /\ \A i \in DOMAIN R : \E j \in DOMAIN P : P[j].coin = R[i].coin /\ P[j].basis = R[i].basis
      /\ \A i \in DOMAIN P : \E j \in DOMAIN R : R[j].coin = P[i].coin /\ R[j].basis = P[i].basis
  BY DEF Covers
<1>1. HeldIn(R, Q) = HeldIn(P, Q)
  <2>1. ASSUME NEW c PROVE c \in HeldIn(R, Q) <=> c \in HeldIn(P, Q)
    <3>1. /\ c \in HeldIn(R, Q) <=> \E i \in DOMAIN R : Usable(Q, R[i].coin) /\ R[i].coin = c
          /\ c \in HeldIn(P, Q) <=> \E i \in DOMAIN P : Usable(Q, P[i].coin) /\ P[i].coin = c
      <4>1. ASSUME NEW X
            PROVE  c \in HeldIn(X, Q) <=> \E i \in DOMAIN X : Usable(Q, X[i].coin) /\ X[i].coin = c
        <5>1. c \in HeldIn(X, Q) <=> \E i \in {j \in DOMAIN X : Usable(Q, X[j].coin)} : X[i].coin = c
          BY DEF HeldIn
        <5>2. (\E i \in {j \in DOMAIN X : Usable(Q, X[j].coin)} : X[i].coin = c)
                <=> \E i \in DOMAIN X : Usable(Q, X[i].coin) /\ X[i].coin = c
          OBVIOUS
        <5>. QED
          BY <5>1, <5>2
      <4>. QED
        BY <4>1
    <3>2. (\E i \in DOMAIN R : Usable(Q, R[i].coin) /\ R[i].coin = c)
            <=> \E i \in DOMAIN P : Usable(Q, P[i].coin) /\ P[i].coin = c
      <4>1. ASSUME NEW i \in DOMAIN R, Usable(Q, R[i].coin), R[i].coin = c
            PROVE  \E j \in DOMAIN P : Usable(Q, P[j].coin) /\ P[j].coin = c
        BY <1>0, <4>1
      <4>2. ASSUME NEW i \in DOMAIN P, Usable(Q, P[i].coin), P[i].coin = c
            PROVE  \E j \in DOMAIN R : Usable(Q, R[j].coin) /\ R[j].coin = c
        BY <1>0, <4>2
      <4>. QED
        BY <4>1, <4>2
    <3>. QED
      BY <3>1, <3>2, Zenon
  <2>. QED
    BY <2>1
<1>2. CrossedIn(R, Q) = CrossedIn(P, Q)
  <2>1. \A r, s : r.coin = s.coin /\ r.basis = s.basis => (Crossed(Q, r) <=> Crossed(Q, s))
    BY DEF Crossed
  <2>2. \A i \in DOMAIN R : Crossed(Q, R[i]) => \E j \in DOMAIN P : Crossed(Q, P[j]) /\ P[j].coin = R[i].coin
    BY <2>1 DEF Covers
  <2>3. \A i \in DOMAIN P : Crossed(Q, P[i]) => \E j \in DOMAIN R : Crossed(Q, R[j]) /\ R[j].coin = P[i].coin
    BY <2>1 DEF Covers
  <2>. QED
    BY <2>2, <2>3 DEF CrossedIn
<1>3. CoveredCoins(R, Q) = CoveredCoins(P, Q)
  <2>1. ASSUME NEW c PROVE (\E i \in DOMAIN R : R[i].coin = c) <=> \E i \in DOMAIN P : P[i].coin = c
    <3>1. ASSUME NEW i \in DOMAIN R, R[i].coin = c PROVE \E j \in DOMAIN P : P[j].coin = c
      BY <1>0, <3>1
    <3>2. ASSUME NEW i \in DOMAIN P, P[i].coin = c PROVE \E j \in DOMAIN R : R[j].coin = c
      BY <1>0, <3>2
    <3>. QED
      BY <3>1, <3>2
  <2>. QED
    BY <2>1 DEF CoveredCoins
<1>4. Incomplete(R, Q) <=> Incomplete(P, Q)
  <2>1. /\ Incomplete(R, Q) <=> \E i \in DOMAIN R : ~Usable(Q, R[i].coin)
        /\ Incomplete(P, Q) <=> \E i \in DOMAIN P : ~Usable(Q, P[i].coin)
    BY Zenon DEF Incomplete, ToSet
  <2>2. (\E i \in DOMAIN R : ~Usable(Q, R[i].coin)) <=> \E i \in DOMAIN P : ~Usable(Q, P[i].coin)
    BY <1>0, Zenon
  <2>. QED
    BY <2>1, <2>2
<1>5. Diversified(R, Q) <=> Diversified(P, Q)
  BY DEF Diversified
<1>6. \A c : ShareAtLeast(R, Q, c, 10) <=> ShareAtLeast(P, Q, c, 10)
  BY DEF ShareAtLeast
<1>7. ASSUME NEW c PROVE DryUp(R, Q, c) = DryUp(P, Q, c)
  BY <1>6, Zenon DEF DryUp
<1>8. ASSUME NEW k PROVE CategoryRotation(R, Q, M, k) = CategoryRotation(P, Q, M, k)
  <2>. DEFINE members == {c \in Coin \ Pegged : CategoryOf(c, M) = k}
  <2>1. Worth(R, Q, members) = Worth(P, Q, members) /\ Worth(R, Q, Coin) = Worth(P, Q, Coin)
    OBVIOUS
  <2>. QED
    BY <2>1, Zenon DEF CategoryRotation
<1>9. Followed(R, Q) = Followed(P, Q)
  <2>. DEFINE f(X) == [c \in CoveredCoins(X, Q) |->
                         [value |-> Worth(X, Q, {c}), then |-> Whole + Q[c].change24h]]
  <2>1. f(R) = f(P)
    BY <1>3
  <2>. QED
    BY <2>1, Zenon DEF Followed
<1>10. \A percent : FellBy(R, Q, percent) <=> FellBy(P, Q, percent)
  BY <1>9 DEF FellBy
<1>11. PortfolioDrop(R, Q) = PortfolioDrop(P, Q)
  <2>. DEFINE condition(X) == /\ ~Incomplete(X, Q)
                              /\ 100 * Worth(X, Q, CoveredCoins(X, Q)) >= 80 * Worth(X, Q, Coin)
                              /\ Diversified(X, Q)
                              /\ FellBy(X, Q, Prefs.portfolioDrop)
              severity(X) == IF FellBy(X, Q, 2 * Prefs.portfolioDrop) THEN "critical" ELSE "warning"
  <2>1. condition(R) <=> condition(P)
    BY <1>3, <1>4, <1>5, <1>10
  <2>2. severity(R) = severity(P)
    BY <1>10
  <2>3. \A X : PortfolioDrop(X, Q) =
          Raise(condition(X), "portfolio_drop", severity(X), None, "portfolio_drop")
    BY DEF PortfolioDrop
  <2>. HIDE DEF condition, severity
  <2>. QED
    BY <2>1, <2>2, <2>3 DEF Raise
<1>12. \A c : OfCoin(R, Q, M, c) = OfCoin(P, Q, M, c)
  BY <1>7, Zenon DEF OfCoin
<1>13. OfCoins(R, Q, M) = OfCoins(P, Q, M)
  BY <1>1, <1>12 DEF OfCoins
<1>14. OfCosts(R, Q) = OfCosts(P, Q)
  BY <1>2, Zenon DEF OfCosts
<1>15. OfGroups(R, Q, M) = OfGroups(P, Q, M)
  BY <1>8 DEF OfGroups
<1>. QED
  BY <1>11, <1>13, <1>14, <1>15, Zenon DEF Said

\* m takes the members of S to those of T, each to one of its own.
Moves(m, S, T) ==
  /\ \A x \in S : m[x] \in T
  /\ \A x, y \in S : m[x] = m[y] => x = y
  /\ \A t \in T : \E x \in S : m[x] = t

\* A sum does not depend on the names of what is summed up.
LEMMA SumMoved ==
  ASSUME NEW h, NEW g, NEW m, NEW S, NEW T, IsFiniteSet(S), IsFiniteSet(T), Moves(m, S, T),
         \A x \in S : h[x] \in Nat /\ g[m[x]] = h[x]
  PROVE  SumFunctionOnSet(g, T) = SumFunctionOnSet(h, S)
<1>. DEFINE f == [p \in Units(h, S) |-> <<m[p[1]], p[2]>>]
<1>1. \A t \in T : g[t] \in Nat
  BY DEF Moves
<1>2. ASSUME NEW p \in Units(h, S)
      PROVE  p[1] \in S /\ p[2] \in Nat /\ p[2] \in 1..h[p[1]] /\ p = <<p[1], p[2]>>
  BY DEF Units
<1>3. \A p \in Units(h, S) : f[p] \in Units(g, T)
  BY <1>2 DEF Units, Moves
<1>4. ASSUME NEW p \in Units(h, S), NEW q \in Units(h, S), f[p] = f[q] PROVE p = q
  <2>1. m[p[1]] = m[q[1]] /\ p[2] = q[2]
    BY <1>4
  <2>2. p[1] = q[1]
    BY <1>2, <2>1 DEF Moves
  <2>. QED
    BY <1>2, <2>1, <2>2
<1>5. ASSUME NEW u \in Units(g, T) PROVE \E p \in Units(h, S) : f[p] = u
  <2>1. u[1] \in T /\ u[2] \in Nat /\ u[2] \in 1..g[u[1]] /\ u = <<u[1], u[2]>>
    BY DEF Units
  <2>2. PICK x \in S : m[x] = u[1]
    BY <2>1 DEF Moves
  <2>3. <<x, u[2]>> \in Units(h, S)
    BY <2>1, <2>2 DEF Units
  <2>. QED
    BY <2>1, <2>2, <2>3
<1>6. f \in Bijection(Units(h, S), Units(g, T))
  <2>1. f \in [Units(h, S) -> Units(g, T)]
    BY <1>3
  <2>. HIDE DEF f
  <2>. QED
    BY <1>4, <1>5, <2>1 DEF Bijection, Injection, Surjection, IsInjective
<1>7. IsFiniteSet(Units(h, S))
  BY UnitsFinite
<1>8. Cardinality(Units(g, T)) = Cardinality(Units(h, S))
  BY <1>6, <1>7, FS_Bijection DEF ExistsBijection
<1>9. SumFunctionOnSet(h, S) = Cardinality(Units(h, S))
  BY SumIs
<1>10. SumFunctionOnSet(g, T) = Cardinality(Units(g, T))
  BY <1>1, SumIs
<1>. QED
  BY <1>8, <1>9, <1>10

\* One member more.
LEMMA SumMore ==
  ASSUME NEW h, NEW S, IsFiniteSet(S), \A y \in S : h[y] \in Nat, NEW x \in S
  PROVE  SumFunctionOnSet(h, S) = h[x] + SumFunctionOnSet(h, S \ {x})
<1>1. IsFiniteSet(S \ {x}) /\ \A y \in S \ {x} : h[y] \in Nat
  BY FS_Subset
<1>2. IsFiniteSet(Units(h, S \ {x}))
  BY <1>1, UnitsFinite
<1>3. Cardinality(Units(h, S)) = h[x] + Cardinality(Units(h, S \ {x}))
  BY <1>2, OneMore
<1>4. /\ SumFunctionOnSet(h, S) = Cardinality(Units(h, S))
      /\ SumFunctionOnSet(h, S \ {x}) = Cardinality(Units(h, S \ {x}))
  BY <1>1, SumIs
<1>. QED
  BY <1>3, <1>4

\* The same rows in another order say the same.
LEMMA Reordered ==
  ASSUME NEW R \in Seq(Position), NEW P \in Seq(Position), NEW Q \in Quotes, NEW M, NEW m,
         Moves(m, DOMAIN R, DOMAIN P), \A j \in DOMAIN R : P[m[j]] = R[j]
  PROVE  Said(P, Q, M) = Said(R, Q, M)
<1>1. Covers(P, R) /\ Covers(R, P)
  BY DEF Covers, Moves
<1>2. ASSUME NEW S PROVE Worth(P, Q, S) = Worth(R, Q, S)
  <2>. DEFINE h == [j \in DOMAIN R |-> Value(R[j], Q)]
              g == [j \in DOMAIN P |-> Value(P[j], Q)]
              A == RowsOf(R, S)
              B == RowsOf(P, S)
  <2>1. /\ IsFiniteSet(DOMAIN R) /\ \A j \in DOMAIN R : h[j] \in Nat
        /\ Worth(R, Q, S) = SumFunctionOnSet(h, A)
    BY WorthIs
  <2>2. IsFiniteSet(DOMAIN P) /\ Worth(P, Q, S) = SumFunctionOnSet(g, B)
    BY WorthIs
  <2>3. A \subseteq DOMAIN R /\ B \subseteq DOMAIN P
    BY DEF RowsOf
  <2>4. IsFiniteSet(A) /\ IsFiniteSet(B)
    BY <2>1, <2>2, <2>3, FS_Subset
  <2>5. \A x \in A : h[x] \in Nat /\ g[m[x]] = h[x]
    <3>1. \A x \in DOMAIN R : h[x] = Value(R[x], Q) /\ m[x] \in DOMAIN P /\ g[m[x]] = Value(P[m[x]], Q)
      BY DEF Moves
    <3>. HIDE DEF h, g, A
    <3>. QED
      BY <2>1, <2>3, <3>1
  <2>6. Moves(m, A, B)
    BY DEF Moves, RowsOf
  <2>. HIDE DEF h, g, A, B
  <2>7. SumFunctionOnSet(g, B) = SumFunctionOnSet(h, A)
    BY <2>4, <2>5, <2>6, SumMoved
  <2>. QED
    BY <2>1, <2>2, <2>7
<1>. QED
  BY <1>1, <1>2, SaidAlike

\* P has for the row i of R two in a row, which together are as much.
Splits(P, R, i) ==
  /\ i \in DOMAIN R /\ Len(P) = Len(R) + 1
  /\ \A j \in DOMAIN R : j < i => P[j] = R[j]
  /\ \A j \in DOMAIN R : j > i => P[j + 1] = R[j]
  /\ \A k \in {i, i + 1} : P[k].coin = R[i].coin /\ P[k].basis = R[i].basis
  /\ P[i].amount + P[i + 1].amount = R[i].amount

\* One row made two says the same.
LEMMA SplitInTwo ==
  ASSUME NEW R \in Seq(Position), NEW P \in Seq(Position), NEW Q \in Quotes, NEW M, NEW i, Splits(P, R, i)
  PROVE  Said(P, Q, M) = Said(R, Q, M)
<1>. DEFINE n == Len(R)
            m == [j \in 1..n |-> IF j < i THEN j ELSE j + 1]
<1>1. n \in Nat /\ DOMAIN R = 1..n /\ DOMAIN P = 1..(n + 1) /\ i \in 1..n /\ i + 1 \in 1..(n + 1)
  <2>1. n \in Nat /\ DOMAIN R = 1..n /\ DOMAIN P = 1..Len(P) /\ Len(P) = n + 1 /\ i \in DOMAIN R
    BY DEF Splits
  <2>. QED
    BY <2>1
<1>. HIDE DEF n
<1>2. \A j \in 1..n : m[j] = IF j < i THEN j ELSE j + 1
  OBVIOUS
<1>. HIDE DEF m
<1>3. \A j \in 1..n : j # i => m[j] \in 1..(n + 1) /\ m[j] # i /\ m[j] # i + 1 /\ P[m[j]] = R[j]
  <2>1. ASSUME NEW j \in 1..n, j < i PROVE P[j] = R[j]
    BY <1>1, <2>1 DEF Splits
  <2>2. ASSUME NEW j \in 1..n, j > i PROVE P[j + 1] = R[j]
    BY <1>1, <2>2 DEF Splits
  <2>3. ASSUME NEW j \in 1..n, j # i
        PROVE  m[j] \in 1..(n + 1) /\ m[j] # i /\ m[j] # i + 1 /\ P[m[j]] = R[j]
    <3>1. CASE j < i
      BY <1>1, <1>2, <2>1, <3>1
    <3>2. CASE j > i
      BY <1>1, <1>2, <2>2, <3>2
    <3>. QED
      BY <1>1, <2>3, <3>1, <3>2
  <2>. QED
    BY <2>3
<1>4. \A j, k \in 1..n : m[j] = m[k] => j = k
  BY <1>1, <1>2
<1>5. ASSUME NEW t \in 1..(n + 1), t # i, t # i + 1
      PROVE  \E j \in 1..n : j # i /\ m[j] = t
  <2>1. CASE t < i
    BY <1>1, <1>2, <2>1
  <2>2. CASE ~(t < i)
    <3>1. t - 1 \in 1..n /\ t - 1 # i /\ ~(t - 1 < i) /\ t - 1 + 1 = t
      BY <1>1, <1>5, <2>2
    <3>. QED
      BY <1>2, <3>1
  <2>. QED
    BY <2>1, <2>2
<1>6. \A k \in {i, i + 1} : P[k].coin = R[i].coin /\ P[k].basis = R[i].basis
  BY DEF Splits
<1>7. Covers(P, R)
  <2>1. ASSUME NEW j \in 1..n
        PROVE  \E k \in 1..(n + 1) : P[k].coin = R[j].coin /\ P[k].basis = R[j].basis
    <3>1. CASE j = i
      BY <1>1, <1>6, <3>1
    <3>2. CASE j # i
      BY <1>3, <3>2
    <3>. QED
      BY <3>1, <3>2
  <2>. QED
    BY <1>1, <2>1 DEF Covers
<1>8. Covers(R, P)
  <2>1. ASSUME NEW t \in 1..(n + 1)
        PROVE  \E k \in 1..n : R[k].coin = P[t].coin /\ R[k].basis = P[t].basis
    <3>1. CASE t \in {i, i + 1}
      BY <1>1, <1>6, <3>1
    <3>2. CASE t \notin {i, i + 1}
      <4>1. PICK j \in 1..n : j # i /\ m[j] = t
        BY <1>5, <3>2
      <4>. QED
        BY <1>3, <4>1
    <3>. QED
      BY <3>1, <3>2
  <2>. QED
    BY <1>1, <2>1 DEF Covers
<1>9. ASSUME NEW S PROVE Worth(P, Q, S) = Worth(R, Q, S)
  <2>. DEFINE h == [j \in DOMAIN R |-> Value(R[j], Q)]
              g == [j \in DOMAIN P |-> Value(P[j], Q)]
              A == RowsOf(R, S)
              B == RowsOf(P, S)
              rest == (B \ {i}) \ {i + 1}
  <2>1. /\ IsFiniteSet(DOMAIN R) /\ \A j \in DOMAIN R : h[j] \in Nat
        /\ Worth(R, Q, S) = SumFunctionOnSet(h, A)
    BY WorthIs
  <2>2. /\ IsFiniteSet(DOMAIN P) /\ \A j \in DOMAIN P : g[j] \in Nat
        /\ Worth(P, Q, S) = SumFunctionOnSet(g, B)
    BY WorthIs
  <2>3. A \subseteq 1..n /\ B \subseteq 1..(n + 1)
    BY <1>1 DEF RowsOf
  <2>4. IsFiniteSet(A) /\ IsFiniteSet(B) /\ IsFiniteSet(A \ {i}) /\ IsFiniteSet(B \ {i}) /\ IsFiniteSet(rest)
    <3>1. IsFiniteSet(A) /\ IsFiniteSet(B)
      BY <1>1, <2>1, <2>2, <2>3, FS_Subset
    <3>. HIDE DEF A, B
    <3>. QED
      BY <3>1, FS_Subset
  <2>5. \A x \in A \ {i} : h[x] \in Nat /\ g[m[x]] = h[x]
    <3>1. \A x \in 1..n : h[x] = Value(R[x], Q)
      BY <1>1
    <3>2. \A x \in 1..(n + 1) : g[x] = Value(P[x], Q)
      BY <1>1
    <3>. HIDE DEF h, g, A
    <3>. QED
      BY <1>1, <1>3, <2>1, <2>3, <3>1, <3>2
  <2>6. Moves(m, A \ {i}, rest)
    <3>1. \A x \in A : x \in 1..n /\ R[x].coin \in S
      BY <1>1 DEF RowsOf
    <3>2. \A t : t \in rest <=> t \in 1..(n + 1) /\ t # i /\ t # i + 1 /\ P[t].coin \in S
      BY <1>1 DEF RowsOf
    <3>3. \A x \in 1..n : R[x].coin \in S => x \in A
      BY <1>1 DEF RowsOf
    <3>. HIDE DEF A, rest
    <3>4. \A x \in A \ {i} : m[x] \in rest
      BY <1>3, <3>1, <3>2
    <3>5. \A x, y \in A \ {i} : m[x] = m[y] => x = y
      BY <1>4, <3>1
    <3>6. ASSUME NEW t \in rest PROVE \E x \in A \ {i} : m[x] = t
      <4>1. PICK j \in 1..n : j # i /\ m[j] = t
        BY <1>5, <3>2
      <4>2. j \in A
        BY <1>3, <3>2, <3>3, <4>1
      <4>. QED
        BY <4>1, <4>2
    <3>. QED
      BY <3>4, <3>5, <3>6 DEF Moves
  <2>7. i \in A <=> R[i].coin \in S
    BY <1>1 DEF RowsOf
  <2>8. /\ i \in B <=> R[i].coin \in S
        /\ i + 1 \in B <=> R[i].coin \in S
    BY <1>1, <1>6 DEF RowsOf
  <2>9. h[i] = g[i] + g[i + 1]
    <3>1. h[i] = Value(R[i], Q) /\ g[i] = Value(P[i], Q) /\ g[i + 1] = Value(P[i + 1], Q)
      BY <1>1
    <3>2. P[i].coin = R[i].coin /\ P[i + 1].coin = R[i].coin
      BY <1>6
    <3>3. R[i] \in Position /\ P[i] \in Position /\ P[i + 1] \in Position
      BY <1>1
    <3>4. R[i].amount \in Nat /\ P[i].amount \in Nat /\ P[i + 1].amount \in Nat /\ R[i].coin \in Coin
      BY <3>3 DEF Position
    <3>5. P[i].amount + P[i + 1].amount = R[i].amount
      BY DEF Splits
    <3>. HIDE DEF h, g
    <3>6. CASE Usable(Q, R[i].coin)
      <4>. DEFINE price == Q[R[i].coin].price
                  a == P[i].amount
                  b == P[i + 1].amount
      <4>1. price \in Nat
        <5>1. Q[R[i].coin] \in Quote
          BY <3>4, <3>6 DEF Usable, Quotes
        <5>. QED
          BY <3>6, <5>1 DEF Usable, Quote
      <4>2. h[i] = price * (a + b) /\ g[i] = price * a /\ g[i + 1] = price * b
        BY <3>1, <3>2, <3>5, <3>6 DEF Value
      <4>3. a \in Nat /\ b \in Nat
        BY <3>4
      <4>. HIDE DEF price, a, b
      <4>4. price * (a + b) = price * a + price * b
        BY <4>1, <4>3, Z3
      <4>. QED
        BY <4>2, <4>4
    <3>7. CASE ~Usable(Q, R[i].coin)
      BY <3>1, <3>2, <3>7 DEF Value
    <3>. QED
      BY <3>6, <3>7
  <2>10. i \in DOMAIN R /\ i \in DOMAIN P /\ i + 1 \in DOMAIN P /\ i + 1 # i
    BY <1>1
  <2>11. \A j \in B : g[j] \in Nat
    BY <1>1, <2>2, <2>3
  <2>12. \A j \in A : h[j] \in Nat
    BY <1>1, <2>1, <2>3
  <2>. HIDE DEF h, g, A, B
  <2>13. SumFunctionOnSet(g, rest) = SumFunctionOnSet(h, A \ {i})
    <3>. HIDE DEF rest
    <3>. QED
      BY <2>4, <2>5, <2>6, SumMoved
  <2>14. CASE R[i].coin \in S
    <3>1. SumFunctionOnSet(h, A) = h[i] + SumFunctionOnSet(h, A \ {i})
      BY <2>4, <2>7, <2>12, <2>14, SumMore
    <3>2. SumFunctionOnSet(g, B) = g[i] + SumFunctionOnSet(g, B \ {i})
      BY <2>4, <2>8, <2>11, <2>14, SumMore
    <3>3. SumFunctionOnSet(g, B \ {i}) = g[i + 1] + SumFunctionOnSet(g, rest)
      BY <2>4, <2>8, <2>10, <2>11, <2>14, SumMore
    <3>4. SumFunctionOnSet(g, rest) \in Nat
      BY <2>4, <2>11, SumGrows
    <3>5. g[i] \in Nat /\ g[i + 1] \in Nat
      BY <2>2, <2>10
    <3>. QED
      BY <2>1, <2>2, <2>9, <2>13, <3>1, <3>2, <3>3, <3>4, <3>5
  <2>15. CASE R[i].coin \notin S
    <3>1. A \ {i} = A /\ rest = B
      BY <2>7, <2>8, <2>15
    <3>. QED
      BY <2>1, <2>2, <2>13, <3>1
  <2>. QED
    BY <2>14, <2>15
<1>. QED
  BY <1>7, <1>8, <1>9, SaidAlike

\* Of one evaluation no two candidates share a dedupe key, and how a position is
\* booked makes no difference (rules.ts:47-62, portfolio.ts:25-30).
THEOREM OneVoice == RulesSpec => []OneVoicePerCoin
<1>1. ASSUME RulesIInv PROVE OneVoicePerCoin
  <2>1. rows \in Seq(Position) /\ quotes \in Quotes
    BY <1>1 DEF RulesIInv
  <2>. DEFINE M == InContext(market)
  <2>2. \A R \in Seq(Position) : Verdicts(R, quotes, market) = Said(R, quotes, M)
    BY CandidatesAre
  <2>3. ToSet(Now) = Said(rows, quotes, M)
    BY <2>1, <2>2 DEF Now, Verdicts
  <2>. HIDE DEF M
  <2>4. ASSUME NEW i \in DOMAIN rows \ {1}
        PROVE  Verdicts([rows EXCEPT ![i] = rows[i - 1], ![i - 1] = rows[i]], quotes, market) = ToSet(Now)
    <3>. DEFINE P == [rows EXCEPT ![i] = rows[i - 1], ![i - 1] = rows[i]]
                n == Len(rows)
                m == [j \in 1..n |-> IF j = i THEN i - 1 ELSE IF j = i - 1 THEN i ELSE j]
    <3>1. n \in Nat /\ DOMAIN rows = 1..n /\ i \in 1..n /\ i - 1 \in 1..n /\ i - 1 # i
      BY <2>1
    <3>2. /\ rows \in [1..n -> Position]
          /\ \A j \in 1..n : P[j] = IF j = i THEN rows[i - 1] ELSE IF j = i - 1 THEN rows[i] ELSE rows[j]
      BY <2>1, <3>1
    <3>3. P \in Seq(Position) /\ DOMAIN P = 1..n
      <4>1. DOMAIN P = 1..n /\ P = [j \in 1..n |-> P[j]]
        BY <3>2
      <4>2. \A j \in 1..n : P[j] \in Position
        BY <3>1, <3>2
      <4>. HIDE DEF P, n
      <4>3. P \in [1..n -> Position]
        BY <4>1, <4>2
      <4>. QED
        BY <3>1, <4>1, <4>3, SeqDef
    <3>. HIDE DEF P, n
    <3>4. \A j \in 1..n : m[j] = IF j = i THEN i - 1 ELSE IF j = i - 1 THEN i ELSE j
      OBVIOUS
    <3>. HIDE DEF m
    <3>5. Moves(m, DOMAIN rows, DOMAIN P)
      <4>1. \A j \in 1..n : m[j] \in 1..n /\ m[m[j]] = j
        BY <3>1, <3>4
      <4>. QED
        BY <3>1, <3>3, <4>1 DEF Moves
    <3>6. \A j \in DOMAIN rows : P[m[j]] = rows[j]
      BY <3>1, <3>2, <3>4
    <3>7. Said(P, quotes, M) = Said(rows, quotes, M)
      <4>1. \A R \in Seq(Position), T \in Seq(Position), Q \in Quotes : \A N :
              Moves(m, DOMAIN R, DOMAIN T) /\ (\A j \in DOMAIN R : T[m[j]] = R[j])
              => Said(T, Q, N) = Said(R, Q, N)
        BY Reordered
      <4>. QED
        BY <2>1, <3>3, <3>5, <3>6, <4>1, Zenon
    <3>. QED
      BY <2>2, <2>3, <3>3, <3>7 DEF P
  <2>5. ASSUME NEW i \in DOMAIN rows, rows[i].amount > 1
        PROVE  Verdicts(InsertAt([rows EXCEPT ![i].amount = @ - 1], i, [rows[i] EXCEPT !.amount = 1]),
                        quotes, market) = ToSet(Now)
    <3>. DEFINE n == Len(rows)
                r == rows[i]
                one == [r EXCEPT !.amount = 1]
                less == [r EXCEPT !.amount = @ - 1]
                T == [rows EXCEPT ![i] = less]
                a == SubSeq(T, 1, i - 1)
                b == SubSeq(T, i, n)
                P == a \o <<one>> \o b
    <3>1. n \in Nat /\ DOMAIN rows = 1..n /\ i \in 1..n /\ r \in Position /\ rows \in [1..n -> Position]
      BY <2>1
    <3>2. /\ one \in Position /\ less \in Position
          /\ one.coin = r.coin /\ one.basis = r.basis /\ less.coin = r.coin /\ less.basis = r.basis
          /\ one.amount + less.amount = r.amount
      <4>1. r.amount \in Nat \ {0} /\ r.amount > 1
        BY <2>5, <3>1 DEF Position
      <4>2. r.amount - 1 \in Nat \ {0}
        BY <4>1
      <4>. QED
        BY <3>1, <4>1, <4>2 DEF Position
    <3>3. InsertAt([rows EXCEPT ![i].amount = @ - 1], i, [rows[i] EXCEPT !.amount = 1]) = P
      <4>1. [rows EXCEPT ![i].amount = @ - 1] = T
        BY <3>1
      <4>2. Len(T) = n
        BY <3>1
      <4>. HIDE DEF T, n
      <4>. QED
        BY <4>1, <4>2 DEF InsertAt
    <3>4. \A j \in 1..n : T[j] = (IF j = i THEN less ELSE rows[j]) /\ T[j] \in Position
      BY <3>1, <3>2
    <3>. HIDE DEF one, less, T, n, r
    <3>5. /\ a \in Seq(Position) /\ Len(a) = i - 1 /\ \A j \in 1..(i - 1) : a[j] = T[j]
          /\ b \in Seq(Position) /\ Len(b) = n - i + 1 /\ \A j \in 1..(n - i + 1) : b[j] = T[i + j - 1]
      <4>1. 1 \in Int /\ i \in Int /\ i - 1 \in Int /\ n \in Int
        BY <3>1
      <4>2. \A j \in 1..(i - 1) : T[j] \in Position
        BY <3>1, <3>4
      <4>3. \A j \in i..n : T[j] \in Position
        BY <3>1, <3>4
      <4>4. /\ a \in Seq(Position) /\ Len(a) = IF 1 <= i - 1 THEN i - 1 - 1 + 1 ELSE 0
            /\ \A j \in 1..(i - 1 - 1 + 1) : a[j] = T[1 + j - 1]
        BY <4>1, <4>2, SubSeqProperties
      <4>5. /\ b \in Seq(Position) /\ Len(b) = IF i <= n THEN n - i + 1 ELSE 0
            /\ \A j \in 1..(n - i + 1) : b[j] = T[i + j - 1]
        BY <4>1, <4>3, SubSeqProperties
      <4>6. i - 1 - 1 + 1 = i - 1 /\ (IF 1 <= i - 1 THEN i - 1 ELSE 0) = i - 1 /\ i <= n
            /\ \A j \in 1..(i - 1) : 1 + j - 1 = j
        BY <3>1
      <4>. HIDE DEF a, b
      <4>7. \A j \in 1..(i - 1) : a[j] = T[j]
        BY <4>4, <4>6
      <4>8. Len(a) = i - 1 /\ Len(b) = n - i + 1
        BY <4>4, <4>5, <4>6
      <4>. QED
        BY <4>4, <4>5, <4>7, <4>8
    <3>. HIDE DEF a, b
    <3>. DEFINE front == a \o <<one>>
    <3>6. /\ front \in Seq(Position) /\ Len(front) = i
          /\ \A j \in 1..i : front[j] = IF j <= i - 1 THEN a[j] ELSE one
      BY <3>1, <3>2, <3>5
    <3>. HIDE DEF front
    <3>7. /\ P \in Seq(Position) /\ Len(P) = n + 1
          /\ \A j \in 1..(n + 1) : P[j] = IF j <= i THEN front[j] ELSE b[j - i]
      <4>1. P = front \o b
        BY DEF front
      <4>2. /\ front \o b \in Seq(Position) /\ Len(front \o b) = Len(front) + Len(b)
            /\ \A j \in 1..(Len(front) + Len(b)) :
                 (front \o b)[j] = IF j <= Len(front) THEN front[j] ELSE b[j - Len(front)]
        BY <3>5, <3>6, ConcatProperties
      <4>3. Len(front) + Len(b) = n + 1
        BY <3>1, <3>5, <3>6
      <4>. HIDE DEF P
      <4>. QED
        BY <3>6, <4>1, <4>2, <4>3
    <3>. HIDE DEF P
    <3>8. ASSUME NEW j \in 1..n, j < i PROVE P[j] = rows[j]
      <4>1. j \in 1..(i - 1) /\ j \in 1..i /\ j \in 1..(n + 1) /\ j # i
        BY <3>1, <3>8
      <4>2. j \in 1..n /\ j <= i /\ j <= i - 1
        BY <3>1, <3>8
      <4>3. P[j] = front[j]
        BY <3>7, <4>1, <4>2, Zenon
      <4>4. front[j] = a[j]
        BY <3>6, <4>1, <4>2, Zenon
      <4>5. a[j] = T[j]
        BY <3>5, <4>1, Zenon
      <4>6. T[j] = rows[j]
        BY <3>4, <4>1, <4>2, Zenon
      <4>. QED
        BY <4>3, <4>4, <4>5, <4>6, Zenon
    <3>9. ASSUME NEW j \in 1..n, j >= i PROVE P[j + 1] = T[j]
      <4>1. /\ j + 1 \in 1..(n + 1) /\ ~(j + 1 <= i) /\ j + 1 - i \in 1..(n - i + 1)
            /\ i + (j + 1 - i) - 1 = j
        BY <3>1, <3>9
      <4>. DEFINE k == j + 1
                  l == j + 1 - i
      <4>2. k \in 1..(n + 1) /\ ~(k <= i) /\ l \in 1..(n - i + 1) /\ i + l - 1 = j /\ k - i = l
        BY <3>1, <4>1
      <4>. HIDE DEF k, l
      <4>3. P[k] = b[k - i]
        BY <3>7, <4>2
      <4>4. b[l] = T[i + l - 1]
        BY <3>5, <4>2
      <4>5. P[k] = T[j]
        BY <4>2, <4>3, <4>4
      <4>. QED
        BY <4>5 DEF k
    <3>10. P[i] = one /\ P[i + 1] = less
      <4>1. i \in 1..i /\ i \in 1..(n + 1) /\ ~(i <= i - 1) /\ i >= i
        BY <3>1
      <4>. QED
        BY <3>1, <3>4, <3>6, <3>7, <3>9, <4>1
    <3>11. Splits(P, rows, i)
      <4>1. \A j \in DOMAIN rows : j < i => P[j] = rows[j]
        BY <3>1, <3>8
      <4>2. \A j \in DOMAIN rows : j > i => P[j + 1] = rows[j]
        BY <3>1, <3>4, <3>9
      <4>3. \A k \in {i, i + 1} : P[k].coin = rows[i].coin /\ P[k].basis = rows[i].basis
        BY <3>2, <3>10 DEF r
      <4>4. P[i].amount + P[i + 1].amount = rows[i].amount
        BY <3>2, <3>10 DEF r
      <4>5. Len(P) = Len(rows) + 1
        BY <3>7 DEF n
      <4>. QED
        BY <4>1, <4>2, <4>3, <4>4, <4>5 DEF Splits
    <3>12. Said(P, quotes, M) = Said(rows, quotes, M)
      BY <2>1, <3>7, <3>11, SplitInTwo
    <3>. QED
      BY <2>2, <2>3, <3>3, <3>7, <3>12
  <2>6. BookingIsIrrelevant
    <3>1. ToSet(Now) = ToSet(Now)
      OBVIOUS
    <3>. QED
      BY <2>4, <2>5, Zenon DEF BookingIsIrrelevant
  <2>. QED
    BY <1>1, <2>6, KeysApart DEF OneVoicePerCoin
<1>. QED
  BY <1>1, RulesInvariance, PTL
=============================================================================
