-------------------------- MODULE AlertPolicyProofs --------------------------
(***************************************************************************)
(* Proofs about AlertPolicy: raising alerts one at a time under its guards *)
(* keeps every window of a day and of a week within its cap, and two       *)
(* alerts in a row with one dedupe key a cooldown apart.                   *)
(***************************************************************************)
EXTENDS AlertPolicy, FiniteSetTheorems, TLAPS

\* A cooldown is a natural number for every pair of kinds.
LEMMA WindowType ==
  ASSUME NEW k \in AlertKind, NEW l \in AlertKind
  PROVE  Window(k, l) \in Nat
BY GateAssumption DEF Window

\* What every raise comes down to: a real row, stamped with the present.
LEMMA RaiseIsRow ==
  ASSUME PolicyTypeOK, RaiseSome
  PROVE  \E a \in AlertRow : a.createdAt = now /\ ~a.simulated /\ Raise(a)
<1>1. PICK kind \in AlertKind, severity \in Severity, key \in DedupeKey :
        Raise([kind |-> kind, severity |-> severity, dedupeKey |-> key,
               createdAt |-> now, simulated |-> FALSE])
  BY DEF RaiseSome
<1> DEFINE a == [kind |-> kind, severity |-> severity, dedupeKey |-> key,
                 createdAt |-> now, simulated |-> FALSE]
<1>2. a \in AlertRow /\ a.createdAt = now /\ ~a.simulated /\ Raise(a)
  BY <1>1 DEF AlertRow, PolicyTypeOK
<1> HIDE DEF a
<1> QED
  BY <1>2

\* Types, and that no row lies in the future.
THEOREM PolicyTypeCorrect == PolicySpec => []PolicyTypeOK
<1>1. PolicyInit => PolicyTypeOK
  BY FS_EmptySet DEF PolicyInit, PolicyTypeOK
<1>2. PolicyTypeOK /\ [PolicyNext]_policyVars => PolicyTypeOK'
  <2> SUFFICES ASSUME PolicyTypeOK, [PolicyNext]_policyVars
               PROVE  PolicyTypeOK'
    OBVIOUS
  <2>1. ASSUME NEW a, a \in AlertRow, a.createdAt = now, ~a.simulated, Raise(a)
        PROVE  PolicyTypeOK'
    <3>1. IsFiniteSet(raised')
      BY <2>1, FS_AddElement DEF PolicyTypeOK, Raise
    <3> QED
      BY <2>1, <3>1 DEF PolicyTypeOK, Raise
  <2>2. CASE RaiseSome
    BY <2>1, <2>2, RaiseIsRow
  <2>3. CASE Pass
    BY <2>3 DEF Pass, PolicyTypeOK, AlertRow
  <2>4. CASE UNCHANGED policyVars
    BY <2>4 DEF policyVars, PolicyTypeOK
  <2> QED
    BY <2>2, <2>3, <2>4 DEF PolicyNext
<1> QED
  BY <1>1, <1>2, PTL DEF PolicySpec

-----------------------------------------------------------------------------
(* The caps.  Raising an alert changes only the window that ends now, and the *)
(* guard left room in it; a window that ends later holds nothing that the     *)
(* window ending now does not.                                                *)

\* With no row in the future, the counts of the gate are those of the windows.
LEMMA WindowEndingNow ==
  ASSUME PolicyTypeOK
  PROVE  /\ CriticalToday(raised, now) = Cardinality(CriticalInDay(now))
         /\ NonCriticalWeek(raised, now) = Cardinality(OthersInWeek(now))
<1>1. CriticalInDay(now) = {p \in Real(raised) : IsCritical(p) /\ now - p.createdAt < Day}
  BY DEF PolicyTypeOK, CriticalInDay, Real
<1>2. OthersInWeek(now) = {p \in Real(raised) : ~IsCritical(p) /\ now - p.createdAt < Week}
  BY DEF PolicyTypeOK, OthersInWeek, Real
<1> QED
  BY <1>1, <1>2 DEF CriticalToday, NonCriticalWeek

LEMMA WindowsFinite ==
  ASSUME PolicyTypeOK, NEW t
  PROVE  /\ IsFiniteSet(CriticalInDay(t)) /\ Cardinality(CriticalInDay(t)) \in Nat
         /\ IsFiniteSet(OthersInWeek(t)) /\ Cardinality(OthersInWeek(t)) \in Nat
<1>1. CriticalInDay(t) \subseteq raised /\ OthersInWeek(t) \subseteq raised
  BY DEF CriticalInDay, OthersInWeek
<1> QED
  BY <1>1, FS_Subset, FS_CardinalityType DEF PolicyTypeOK

\* A set that gains at most one element gains at most one in size.
LEMMA GainOne ==
  ASSUME NEW S, NEW T, NEW x, IsFiniteSet(S), T \subseteq S \cup {x}
  PROVE  IsFiniteSet(T) /\ Cardinality(T) \in Nat /\ Cardinality(T) <= Cardinality(S) + 1
<1>1. IsFiniteSet(S \cup {x}) /\ Cardinality(S) \in Nat
  BY FS_AddElement, FS_CardinalityType
<1>2. Cardinality(S \cup {x}) = Cardinality(S) \/ Cardinality(S \cup {x}) = Cardinality(S) + 1
  BY FS_AddElement
<1>3. IsFiniteSet(T) /\ Cardinality(T) <= Cardinality(S \cup {x})
  BY <1>1, FS_Subset
<1>4. Cardinality(T) \in Nat
  BY <1>3, FS_CardinalityType
<1> QED
  BY <1>1, <1>2, <1>3, <1>4

LEMMA RaiseKeepsCaps ==
  ASSUME PolicyTypeOK, CapsHold, NEW a \in AlertRow, a.createdAt = now, Raise(a),
         NEW t \in 0..now
  PROVE  /\ Cardinality(CriticalInDay(t)') <= CriticalPerDayCap
         /\ Cardinality(OthersInWeek(t)') <= MaxWeeklyCap
<1>1. now \in Nat /\ raised' = raised \cup {a} /\ HasRoom(a)
  BY DEF PolicyTypeOK, Raise
<1>2. CASE t < now
  <2>1. CriticalInDay(t)' = CriticalInDay(t) /\ OthersInWeek(t)' = OthersInWeek(t)
    BY <1>1, <1>2 DEF CriticalInDay, OthersInWeek
  <2> QED
    BY <2>1 DEF CapsHold
<1>3. CASE t = now /\ IsCritical(a)
  <2>1. OthersInWeek(t)' = OthersInWeek(t)
    BY <1>1, <1>3 DEF OthersInWeek
  <2>2. CriticalInDay(t)' \subseteq CriticalInDay(t) \cup {a}
    BY <1>1 DEF CriticalInDay
  <2>3. Cardinality(CriticalInDay(t)) < CriticalPerDayCap
    BY <1>1, <1>3, WindowEndingNow DEF HasRoom
  <2>4. /\ Cardinality(CriticalInDay(t)') \in Nat
        /\ Cardinality(CriticalInDay(t)') <= Cardinality(CriticalInDay(t)) + 1
    BY <2>2, WindowsFinite, GainOne, Zenon
  <2>5. Cardinality(CriticalInDay(t)') <= CriticalPerDayCap
    BY <2>3, <2>4, WindowsFinite, GateAssumption
  <2> QED
    BY <2>1, <2>5 DEF CapsHold
<1>4. CASE t = now /\ ~IsCritical(a)
  <2>1. CriticalInDay(t)' = CriticalInDay(t)
    BY <1>1, <1>4 DEF CriticalInDay
  <2>2. OthersInWeek(t)' \subseteq OthersInWeek(t) \cup {a}
    BY <1>1 DEF OthersInWeek
  <2>3. Cardinality(OthersInWeek(t)) < MaxWeeklyCap
    BY <1>1, <1>4, WindowEndingNow DEF HasRoom
  <2>4. /\ Cardinality(OthersInWeek(t)') \in Nat
        /\ Cardinality(OthersInWeek(t)') <= Cardinality(OthersInWeek(t)) + 1
    BY <2>2, WindowsFinite, GainOne, Zenon
  <2>5. Cardinality(OthersInWeek(t)') <= MaxWeeklyCap
    BY <2>3, <2>4, WindowsFinite, GateAssumption
  <2> QED
    BY <2>1, <2>5 DEF CapsHold
<1> QED
  BY <1>1, <1>2, <1>3, <1>4

LEMMA PassKeepsCaps ==
  ASSUME PolicyTypeOK, CapsHold, Pass, NEW t \in 0..now'
  PROVE  /\ Cardinality(CriticalInDay(t)') <= CriticalPerDayCap
         /\ Cardinality(OthersInWeek(t)') <= MaxWeeklyCap
<1>1. now \in Nat /\ now' \in Nat /\ raised' = raised
  BY DEF PolicyTypeOK, Pass
<1>2. CriticalInDay(t)' = CriticalInDay(t) /\ OthersInWeek(t)' = OthersInWeek(t)
  BY <1>1 DEF CriticalInDay, OthersInWeek
<1>3. CASE t <= now
  BY <1>1, <1>2, <1>3 DEF CapsHold
<1>4. CASE t > now
  <2>1. /\ CriticalInDay(t) \subseteq CriticalInDay(now)
        /\ OthersInWeek(t) \subseteq OthersInWeek(now)
    BY <1>1, <1>4, GateAssumption
    DEF CriticalInDay, OthersInWeek, PolicyTypeOK, AlertRow
  <2>2. /\ Cardinality(CriticalInDay(t)) <= Cardinality(CriticalInDay(now))
        /\ Cardinality(OthersInWeek(t)) <= Cardinality(OthersInWeek(now))
    BY <2>1, WindowsFinite, FS_Subset
  <2>3. /\ Cardinality(CriticalInDay(now)) <= CriticalPerDayCap
        /\ Cardinality(OthersInWeek(now)) <= MaxWeeklyCap
    BY <1>1 DEF CapsHold
  <2>4. CriticalPerDayCap \in Nat /\ MaxWeeklyCap \in Nat
    BY GateAssumption
  <2> QED
    BY <1>2, <2>2, <2>3, <2>4, WindowsFinite
<1> QED
  BY <1>1, <1>3, <1>4

\* Every window of a day and of a week, past and present, is within its cap.
THEOREM PolicyCaps == PolicySpec => []CapsHold
<1>1. PolicyInit => CapsHold
  <2> SUFFICES ASSUME PolicyInit, NEW t \in 0..now
               PROVE  /\ Cardinality(CriticalInDay(t)) <= CriticalPerDayCap
                      /\ Cardinality(OthersInWeek(t)) <= MaxWeeklyCap
    BY DEF CapsHold
  <2>1. CriticalInDay(t) = {} /\ OthersInWeek(t) = {}
    BY DEF PolicyInit, CriticalInDay, OthersInWeek
  <2> QED
    BY <2>1, FS_EmptySet, GateAssumption
<1>2. PolicyTypeOK /\ CapsHold /\ [PolicyNext]_policyVars => CapsHold'
  <2> SUFFICES ASSUME PolicyTypeOK, CapsHold, [PolicyNext]_policyVars
               PROVE  CapsHold'
    OBVIOUS
  <2>1. CASE RaiseSome
    <3>1. PICK a \in AlertRow : a.createdAt = now /\ Raise(a)
      BY <2>1, RaiseIsRow
    <3>2. now' = now
      BY <3>1 DEF Raise
    <3> QED
      BY <3>1, <3>2, RaiseKeepsCaps DEF CapsHold
  <2>2. CASE Pass
    BY <2>2, PassKeepsCaps DEF CapsHold
  <2>3. CASE UNCHANGED policyVars
    BY <2>3 DEF policyVars, CapsHold, CriticalInDay, OthersInWeek
  <2> QED
    BY <2>1, <2>2, <2>3 DEF PolicyNext
<1> QED
  BY <1>1, <1>2, PolicyTypeCorrect, PTL DEF PolicySpec

-----------------------------------------------------------------------------
(* The cooldowns.  A new alert comes after every other with its key, so the   *)
(* one it follows is the newest, which is the one the guard looked at.        *)

LEMMA RaiseKeepsCooldowns ==
  ASSUME PolicyTypeOK, CooldownsHold, NEW x \in AlertRow,
         x.createdAt = now, ~x.simulated, Raise(x),
         NEW a \in raised', NEW b \in raised', NextForKey(a, b)'
  PROVE  b.createdAt - a.createdAt >= Window(b.kind, a.kind) \/ Escalates(b, a)
<1>1. /\ raised' = raised \cup {x}
      /\ \A r \in raised : r.dedupeKey = x.dedupeKey => r.createdAt < now
      /\ ~InCooldown(x, raised, now)
  BY DEF Raise
<1>2. /\ a.dedupeKey = b.dedupeKey
      /\ a # b
      /\ a.createdAt <= b.createdAt
      /\ \A m \in raised' :
           m.dedupeKey = a.dedupeKey => m.createdAt <= a.createdAt \/ m.createdAt >= b.createdAt
  BY DEF NextForKey
<1>3. now \in Nat /\ raised \subseteq AlertRow /\ \A r \in raised : ~r.simulated
  BY DEF PolicyTypeOK
<1>4. CASE a \in raised /\ b \in raised
  <2>1. NextForKey(a, b)
    BY <1>1, <1>2, <1>4 DEF NextForKey
  <2> QED
    BY <2>1, <1>4 DEF CooldownsHold
<1>5. CASE a \in raised /\ b = x
  <2>1. \A m \in raised : m.dedupeKey = x.dedupeKey => m.createdAt <= a.createdAt
    BY <1>1, <1>2, <1>3, <1>5 DEF AlertRow
  <2>2. a \in LatestFor(raised, x.dedupeKey)
    BY <1>2, <1>3, <1>5, <2>1 DEF LatestFor, Real
  <2>3. ~(now - a.createdAt < Window(x.kind, a.kind)) \/ Escalates(x, a)
    BY <1>1, <2>2 DEF InCooldown
  <2>4. Window(x.kind, a.kind) \in Nat /\ a.createdAt \in Nat
    BY <1>3, <1>5, WindowType DEF AlertRow
  <2> QED
    BY <1>3, <1>5, <2>3, <2>4
<1>6. CASE a = x
  <2>1. b \in raised /\ b.createdAt < now
    BY <1>1, <1>2, <1>6
  <2> QED
    BY <1>2, <1>3, <1>6, <2>1 DEF AlertRow
<1> QED
  BY <1>1, <1>4, <1>5, <1>6

\* Two alerts in a row with one dedupe key are a cooldown apart, or the second
\* is worse.
THEOREM PolicyCooldowns == PolicySpec => []CooldownsHold
<1>1. PolicyInit => CooldownsHold
  BY DEF PolicyInit, CooldownsHold
<1>2. PolicyTypeOK /\ CooldownsHold /\ [PolicyNext]_policyVars => CooldownsHold'
  <2> SUFFICES ASSUME PolicyTypeOK, CooldownsHold, [PolicyNext]_policyVars
               PROVE  CooldownsHold'
    OBVIOUS
  <2>1. CASE RaiseSome
    <3>1. PICK x \in AlertRow : x.createdAt = now /\ ~x.simulated /\ Raise(x)
      BY <2>1, RaiseIsRow
    <3> QED
      BY <3>1, RaiseKeepsCooldowns DEF CooldownsHold
  <2>2. CASE UNCHANGED raised
    BY <2>2 DEF CooldownsHold, NextForKey
  <2> QED
    BY <2>1, <2>2 DEF PolicyNext, Pass, policyVars
<1> QED
  BY <1>1, <1>2, PolicyTypeCorrect, PTL DEF PolicySpec
=============================================================================
