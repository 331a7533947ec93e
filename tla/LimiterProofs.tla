---------------------------- MODULE LimiterProofs ----------------------------
(***************************************************************************)
(* Proofs about Limiter, for any number of callers, any window, wait and   *)
(* rate: the invariant, that no minute holds more requests than the limit  *)
(* allowed when they were let through, and that refusals have a cause; and *)
(* that it keeps its word under the client and the market store of Feed.   *)
(* Then about these: jobs end in time, nothing is paid for twice, and what *)
(* is given out is recent, for any callers, ids, waits and time-outs.      *)
(* At the end, about Cadence, which spends the credits: what is polled     *)
(* often covers the portfolios, quotes are no older than they may be, and  *)
(* a month costs what it was planned to, which the key can pay for.        *)
(***************************************************************************)
EXTENDS Feed, Cadence, FiniteSetTheorems, WellFoundedInduction, TLAPS

\* What one turn of the loop starts from and where it leaves the window.
LEMMA WindowFacts ==
  ASSUME IInv, NEW h \in head..Len(grants) + 1, FirstInWindow(h, clock)
  PROVE  /\ h \in 1..Len(grants) + 1
         /\ clock \in Nat /\ Minute \in Nat /\ Len(grants) \in Nat
         /\ \A i \in DOMAIN grants : grants[i] \in Nat
         /\ DOMAIN grants = 1..Len(grants)
         /\ \A i \in 1..h - 1 : grants[i] <= clock - Minute
         /\ h <= Len(grants) => grants[h] > clock - Minute
<1>1. /\ grants \in Seq(Nat) /\ head \in 1..Len(grants) + 1
      /\ clock \in Nat /\ Minute \in Nat
  BY LimiterAssumption DEF IInv, TypeOK
<1>2. \A i \in 1..h - 1 : grants[i] <= clock - Minute
  <2> SUFFICES ASSUME NEW i \in 1..h - 1
               PROVE  grants[i] <= clock - Minute
    OBVIOUS
  <2>1. CASE i \in 1..head - 1
    BY <2>1 DEF IInv, ShiftedAreOld
  <2>2. CASE i \notin 1..head - 1
    <3>1. i \in head..h - 1
      BY <1>1, <2>2
    <3> QED
      BY <3>1 DEF FirstInWindow
  <2> QED
    BY <2>1, <2>2
<1> QED
  BY <1>1, <1>2 DEF FirstInWindow

LEMMA Begins == Init => IInv
BY LimiterAssumption
DEF Init, IInv, TypeOK, Call, InOrder, NotAhead, ShiftedAreOld

\* A turn of the loop keeps the log in order and drops only what is old.
LEMMA TryKeeps ==
  ASSUME IInv, NEW c \in Caller, NEW deadline \in Nat, Try(c, deadline)
  PROVE  IInv'
<1>1. PICK h \in head..Len(grants) + 1 :
        FirstInWindow(h, clock) /\ head' = h /\ Decide(c, deadline, h)
  BY DEF Try
<1>2. /\ h \in 1..Len(grants) + 1
      /\ clock \in Nat /\ Minute \in Nat /\ Len(grants) \in Nat
      /\ \A i \in DOMAIN grants : grants[i] \in Nat
      /\ DOMAIN grants = 1..Len(grants)
      /\ \A i \in 1..h - 1 : grants[i] <= clock - Minute
  BY <1>1, WindowFacts
<1>3. clock' = clock /\ perMinute' = perMinute
  BY DEF Try
<1>4. /\ grants \in Seq(Nat) /\ perMinute \in 1..MaxRate /\ MaxRate \in Nat
      /\ calls \in [Caller -> Call]
  BY LimiterAssumption DEF IInv, TypeOK
<1>5. CASE grants' = Append(grants, clock) /\ Becomes(c, "granted", deadline, 0)
  <2>1. /\ grants' \in Seq(Nat) /\ Len(grants') = Len(grants) + 1
        /\ DOMAIN grants' = 1..Len(grants) + 1
        /\ grants'[Len(grants) + 1] = clock
        /\ \A i \in 1..Len(grants) : grants'[i] = grants[i]
    BY <1>2, <1>4, <1>5
  <2>2. calls' \in [Caller -> Call]
    BY <1>4, <1>5 DEF Becomes, Call
  <2>3. TypeOK'
    BY <1>1, <1>2, <1>3, <1>4, <2>1, <2>2 DEF TypeOK
  <2>4. InOrder'
    <3> SUFFICES ASSUME NEW i \in DOMAIN grants', NEW j \in DOMAIN grants', i <= j
                 PROVE  grants'[i] <= grants'[j]
      BY DEF InOrder
    <3>1. CASE j = Len(grants) + 1
      BY <1>2, <2>1, <3>1 DEF IInv, NotAhead
    <3>2. CASE j # Len(grants) + 1
      <4>1. Len(grants) \in Nat /\ i \in Int /\ j \in Int /\ i \in 1..Len(grants) /\ j \in 1..Len(grants)
        BY <1>4, <2>1, <3>2
      <4>2. DOMAIN grants = 1..Len(grants)
        BY <1>4
      <4>3. grants[i] <= grants[j]
        BY <1>2, <4>1, <4>2 DEF IInv, InOrder
      <4>. QED
        BY <2>1, <4>1, <4>3
    <3> QED
      BY <3>1, <3>2
  <2>5. NotAhead'
    BY <1>2, <1>3, <2>1 DEF IInv, NotAhead
  <2>6. ShiftedAreOld'
    BY <1>1, <1>2, <1>3, <2>1 DEF ShiftedAreOld
  <2> QED
    BY <2>3, <2>4, <2>5, <2>6 DEF IInv
<1>6. CASE /\ grants' = grants
           /\ \E status \in {"refused", "waiting"}, wakeAt \in Nat :
                Becomes(c, status, deadline, wakeAt)
  <2>1. calls' \in [Caller -> Call]
    BY <1>4, <1>6 DEF Becomes, Call
  <2> QED
    BY <1>1, <1>2, <1>3, <1>4, <1>6, <2>1
    DEF IInv, TypeOK, InOrder, NotAhead, ShiftedAreOld
<1>7. FreesAt(h) \in Nat \/ Stamps(h) < perMinute
  BY <1>2, <1>4 DEF FreesAt, Stamps
<1> QED
  BY <1>1, <1>4, <1>5, <1>6, <1>7 DEF Decide, Stamps

\* The inductive invariant of Limiter: the log is in order, and what was dropped
\* from the stamps is a minute old.
THEOREM Invariance == Spec => []IInv
<1>1. IInv /\ [Next]_vars => IInv'
  <2> SUFFICES ASSUME IInv, [Next]_vars
               PROVE  IInv'
    OBVIOUS
  <2>1. ASSUME NEW c \in Caller, Acquire(c)
        PROVE  IInv'
    <3>1. clock + MaxWait \in Nat
      BY LimiterAssumption DEF IInv, TypeOK
    <3> QED
      BY <2>1, <3>1, TryKeeps DEF Acquire
  <2>2. ASSUME NEW c \in Caller, Wake(c)
        PROVE  IInv'
    <3>1. calls[c].deadline \in Nat
      BY DEF IInv, TypeOK, Call
    <3> QED
      BY <2>2, <3>1, TryKeeps DEF Wake
  <2>3. ASSUME NEW rate \in 1..MaxRate, SetPerMinute(rate)
        PROVE  IInv'
    BY <2>3 DEF SetPerMinute, IInv, TypeOK, InOrder, NotAhead, ShiftedAreOld
  <2>4. CASE Tick
    <3>1. /\ clock' = clock + 1 /\ clock \in Nat /\ Minute \in Nat
          /\ UNCHANGED <<perMinute, grants, head, calls>>
          /\ grants \in Seq(Nat) /\ head \in 1..Len(grants) + 1
      BY <2>4, LimiterAssumption DEF Tick, IInv, TypeOK
    <3>2. TypeOK' /\ InOrder'
      BY <3>1 DEF IInv, TypeOK, InOrder
    <3>3. NotAhead' /\ ShiftedAreOld'
      <4>1. \A i \in DOMAIN grants : grants[i] \in Nat
        BY <3>1
      <4>2. \A i \in 1..head - 1 : i \in DOMAIN grants
        BY <3>1
      <4> QED
        BY <3>1, <4>1, <4>2 DEF IInv, NotAhead, ShiftedAreOld
    <3> QED
      BY <3>2, <3>3 DEF IInv
  <2>5. CASE UNCHANGED vars
    BY <2>5 DEF vars, IInv, TypeOK, InOrder, NotAhead, ShiftedAreOld
  <2> QED
    BY <2>1, <2>2, <2>3, <2>4, <2>5 DEF Next
<1> QED
  BY <1>1, Begins, PTL DEF Spec

\* A turn that lets a request through finds room for it in the whole log.
LEMMA GrantHasRoom ==
  ASSUME IInv, NEW c \in Caller, NEW deadline \in Nat, Try(c, deadline),
         grants' # grants
  PROVE  Cardinality(LastMinute(grants', clock)) <= perMinute
<1>1. PICK h \in head..Len(grants) + 1 :
        FirstInWindow(h, clock) /\ Decide(c, deadline, h)
  BY DEF Try
<1>2. Stamps(h) < perMinute /\ grants' = Append(grants, clock)
  BY <1>1 DEF Decide
<1>3. /\ h \in 1..Len(grants) + 1
      /\ clock \in Nat /\ Minute \in Nat /\ Len(grants) \in Nat
      /\ \A i \in DOMAIN grants : grants[i] \in Nat
      /\ \A i \in 1..h - 1 : grants[i] <= clock - Minute
  BY <1>1, WindowFacts
<1>4. /\ grants \in Seq(Nat) /\ perMinute \in Nat
  BY LimiterAssumption DEF IInv, TypeOK
<1>5. /\ DOMAIN grants' = 1..Len(grants) + 1
      /\ \A i \in 1..Len(grants) : grants'[i] = grants[i]
  BY <1>2, <1>3, <1>4
<1>6. LastMinute(grants', clock) \subseteq h..Len(grants) + 1
  <2> SUFFICES ASSUME NEW i \in 1..Len(grants) + 1, clock - Minute < grants'[i], i < h
               PROVE  FALSE
    BY <1>3, <1>5 DEF LastMinute
  <2>1. i \in 1..h - 1 /\ i \in 1..Len(grants)
    BY <1>3
  <2>2. grants'[i] = grants[i] /\ grants[i] \in Nat /\ grants[i] <= clock - Minute
    BY <1>3, <1>4, <1>5, <2>1
  <2> QED
    BY <1>3, <2>2
<1>7. /\ IsFiniteSet(h..Len(grants) + 1)
      /\ Cardinality(h..Len(grants) + 1) <= Len(grants) + 2 - h
  BY <1>3, FS_Interval
<1>8. Cardinality(LastMinute(grants', clock)) <= Cardinality(h..Len(grants) + 1)
  BY <1>6, <1>7, FS_Subset
<1>9. /\ Cardinality(LastMinute(grants', clock)) \in Nat
      /\ Cardinality(h..Len(grants) + 1) \in Nat
  BY <1>6, <1>7, FS_Subset, FS_CardinalityType
<1> QED
  BY <1>2, <1>3, <1>4, <1>7, <1>8, <1>9 DEF Stamps

\* Dropping old stamps and changing the limit never let a request through that
\* the limit in force forbids (limiter.ts:15-40).
THEOREM Rate == Spec => GrantFits
<1>1. IInv /\ [Next]_vars =>
        [grants' # grants => Cardinality(LastMinute(grants', clock)) <= perMinute]_vars
  <2> SUFFICES ASSUME IInv, Next, grants' # grants
               PROVE  Cardinality(LastMinute(grants', clock)) <= perMinute
    BY DEF vars
  <2>1. ASSUME NEW c \in Caller, Acquire(c)
        PROVE  Cardinality(LastMinute(grants', clock)) <= perMinute
    <3>1. clock + MaxWait \in Nat
      BY LimiterAssumption DEF IInv, TypeOK
    <3> QED
      BY <2>1, <3>1, GrantHasRoom DEF Acquire
  <2>2. ASSUME NEW c \in Caller, Wake(c)
        PROVE  Cardinality(LastMinute(grants', clock)) <= perMinute
    <3>1. calls[c].deadline \in Nat
      BY DEF IInv, TypeOK, Call
    <3> QED
      BY <2>2, <3>1, GrantHasRoom DEF Wake
  <2> QED
    BY <2>1, <2>2 DEF Next, SetPerMinute, Tick
<1> QED
  BY <1>1, Invariance, PTL DEF Spec, GrantFits

\* A turn that refuses has a full window at the deadline.
LEMMA RefusalHasCause ==
  ASSUME IInv, NEW d \in Caller, NEW deadline \in Nat, Try(d, deadline),
         NEW c \in Caller, calls'[c] # calls[c], calls'[c].status = "refused"
  PROVE  Cardinality(LastMinute(grants, calls'[c].deadline)) >= perMinute
<1>1. PICK h \in head..Len(grants) + 1 :
        FirstInWindow(h, clock) /\ Decide(d, deadline, h)
  BY DEF Try
<1>2. calls \in [Caller -> Call] /\ grants \in Seq(Nat) /\ perMinute \in Nat /\ perMinute >= 1
  BY LimiterAssumption DEF IInv, TypeOK
<1>3. c = d
  BY <1>1, <1>2 DEF Decide, Becomes
<1>4. /\ Stamps(h) >= perMinute /\ FreesAt(h) > deadline
      /\ calls'[c].deadline = deadline
  BY <1>1, <1>2, <1>3 DEF Decide, Becomes
<1>5. /\ h \in 1..Len(grants) + 1
      /\ clock \in Nat /\ Minute \in Nat /\ Len(grants) \in Nat
      /\ \A i \in DOMAIN grants : grants[i] \in Nat
      /\ DOMAIN grants = 1..Len(grants)
  BY <1>1, WindowFacts
<1>6. h <= Len(grants)
  BY <1>2, <1>4, <1>5 DEF Stamps
<1>7. h..Len(grants) \subseteq LastMinute(grants, deadline)
  <2> SUFFICES ASSUME NEW i \in h..Len(grants)
               PROVE  i \in DOMAIN grants /\ deadline - Minute < grants[i]
    BY DEF LastMinute
  <2>1. i \in DOMAIN grants /\ h \in DOMAIN grants /\ h <= i
    BY <1>5, <1>6
  <2>2. grants[h] <= grants[i]
    BY <2>1 DEF IInv, InOrder
  <2> QED
    BY <1>4, <1>5, <2>1, <2>2 DEF FreesAt
<1>8. /\ Cardinality(h..Len(grants)) = Len(grants) - h + 1
      /\ IsFiniteSet(1..Len(grants))
  <2>1. h \in Int /\ Len(grants) \in Int /\ 1 \in Int
    BY <1>5
  <2>2. /\ Cardinality(h..Len(grants)) = IF h > Len(grants) THEN 0 ELSE Len(grants) - h + 1
        /\ IsFiniteSet(1..Len(grants))
    BY <2>1, FS_Interval, Zenon
  <2> QED
    BY <1>6, <2>1, <2>2
<1>9. IsFiniteSet(LastMinute(grants, deadline))
  BY <1>5, <1>8, FS_Subset DEF LastMinute
<1>10. /\ Cardinality(h..Len(grants)) <= Cardinality(LastMinute(grants, deadline))
       /\ Cardinality(LastMinute(grants, deadline)) \in Nat
  BY <1>7, <1>9, FS_Subset, FS_CardinalityType
<1> QED
  BY <1>2, <1>4, <1>5, <1>8, <1>10 DEF Stamps

\* Nobody is refused who could have been served in time by waiting alone
\* (limiter.ts:24-32).
THEOREM Refusals == Spec => RefusedForCause
<1>1. IInv /\ [Next]_vars =>
        [\A c \in Caller :
           /\ calls'[c] # calls[c]
           /\ calls'[c].status = "refused"
           => Cardinality(LastMinute(grants, calls'[c].deadline)) >= perMinute]_vars
  <2> SUFFICES ASSUME IInv, Next, NEW c \in Caller,
                      calls'[c] # calls[c], calls'[c].status = "refused"
               PROVE  Cardinality(LastMinute(grants, calls'[c].deadline)) >= perMinute
    BY DEF vars
  <2>1. ASSUME NEW d \in Caller, Acquire(d)
        PROVE  Cardinality(LastMinute(grants, calls'[c].deadline)) >= perMinute
    <3>1. clock + MaxWait \in Nat
      BY LimiterAssumption DEF IInv, TypeOK
    <3> QED
      BY <2>1, <3>1, RefusalHasCause DEF Acquire
  <2>2. ASSUME NEW d \in Caller, Wake(d)
        PROVE  Cardinality(LastMinute(grants, calls'[c].deadline)) >= perMinute
    <3>1. calls[d].deadline \in Nat
      BY DEF IInv, TypeOK, Call
    <3> QED
      BY <2>2, <3>1, RefusalHasCause DEF Wake
  <2> QED
    BY <2>1, <2>2 DEF Next, SetPerMinute, Tick
<1> QED
  BY <1>1, Invariance, PTL DEF Spec, RefusedForCause

-----------------------------------------------------------------------------
(* The limiter in its place: under the client and the market store *)

\* What the client, its cache and the market store do to the limiter is a step of
\* the limiter, or leaves it alone.
LEMMA FeedStepsLimit ==
  ASSUME [FeedNext]_<<limiter, feed>>
  PROVE  [Next]_vars
<1>1. ASSUME NEW t \in Caller, Step(t)
      PROVE  Acquire(t) \/ Wake(t) \/ UNCHANGED vars
  BY <1>1 DEF Step, Hit, Join, Miss, Awake, Refuse, Fail, Store, Return, limiter, vars
<1>2. ASSUME NEW t \in Caller, NEW k, Fail(t, k)
      PROVE  UNCHANGED vars
  BY <1>2 DEF Fail, limiter, vars
<1>3. ASSUME NEW t \in Caller, NEW answer, Settle(t, answer)
      PROVE  UNCHANGED vars
  BY <1>3 DEF Settle, limiter, vars
<1>4. CASE \E t \in Caller : Answer(t) \/ NothingFound(t) \/ CallFails(t)
  BY <1>2, <1>3, <1>4 DEF Answer, NothingFound, CallFails
<1>5. CASE \E t \in Caller : StoreFails(t) \/ (\E job \in Jobs[t] : Start(t, job))
  BY <1>5 DEF StoreFails, Start, limiter, vars
<1>6. CASE \E t \in Caller, rate \in 1..MaxRate : Replan(t, rate)
  BY <1>6 DEF Replan, Next
<1>7. CASE Pass
  BY <1>7 DEF Pass, Next
<1>8. CASE UNCHANGED <<limiter, feed>>
  BY <1>8 DEF limiter, vars
<1>9. CASE \E t \in Caller : Step(t)
  BY <1>1, <1>9 DEF Next
<1> QED
  BY <1>4, <1>5, <1>6, <1>7, <1>8, <1>9 DEF FeedNext

\* The callers of the limiter are the loads of the cache, and the poller tells it of
\* a new plan: whatever they do, it behaves as its specification says
\* (client.ts:134-152, limiter.ts:15-40).
THEOREM InPlace == FeedSpec => Spec
<1>1. FeedInit => Init
  BY DEF FeedInit
<1> QED
  BY <1>1, FeedStepsLimit, PTL DEF FeedSpec, Spec

\* Whoever shares the client, no minute holds more of its requests than the limit in
\* force allowed when they were let through (limiter.ts:15-40).
THEOREM FeedRate == FeedSpec => GrantFits
BY InPlace, Rate

-----------------------------------------------------------------------------
(* How a job is cut into calls *)

LEMMA DivMod ==
  ASSUME NEW t \in Int, NEW D \in Nat \ {0}
  PROVE  /\ t \div D \in Int /\ t % D \in 0..(D - 1)
         /\ t = (t \div D) * D + (t % D)
         /\ t >= 0 => t \div D >= 0
<1>1. t % D \in 0..(D - 1) /\ t \div D \in Int
  BY Z3
<1>2. t = D * (t \div D) + (t % D)
  BY Z3
<1>3. t >= 0 => t \div D >= 0
  BY Z3
<1>. QED
  BY <1>1, <1>2, <1>3

\* More factors make no less.
LEMMA Products ==
  ASSUME NEW W \in Nat
  PROVE  /\ 0 * W = 0
         /\ \A a \in Int : a * W \in Int /\ (a + 1) * W = a * W + W
         /\ \A a, b \in Int : a <= b => a * W <= b * W
<1>1. \A a \in Int : a * W \in Int /\ (a + 1) * W = a * W + W
  BY SMT
<1>2. ASSUME NEW a \in Int, NEW b \in Int, a <= b
      PROVE  a * W <= b * W
  <2>1. PICK d \in Nat : b = a + d
    <3>1. b - a \in Nat /\ b = a + (b - a)
      BY <1>2
    <3>. QED
      BY <3>1
  <2>2. b * W = a * W + d * W
    BY <2>1, SMT
  <2>3. d * W \in Nat
    BY <2>1, SMT
  <2>4. a * W \in Int
    BY SMT
  <2>. QED
    BY <2>2, <2>3, <2>4
<1>. QED
  BY <1>1, <1>2

\* A quotient is found by its bounds.
LEMMA Quotient ==
  ASSUME NEW x \in Int, NEW D \in Nat \ {0}, NEW q \in Int
  PROVE  x \div D = q <=> q * D <= x /\ x < q * D + D
<1>. DEFINE p == x \div D
            r == x % D
<1>1. x = p * D + r /\ r \in 0..(D - 1) /\ p \in Int
  BY DivMod
<1>. HIDE DEF p, r
<1>2. /\ \A a \in Int : a * D \in Int /\ (a + 1) * D = a * D + D
      /\ \A a, b \in Int : a <= b => a * D <= b * D
  BY Products
<1>3. ASSUME p = q PROVE q * D <= x /\ x < q * D + D
  BY <1>1, <1>2, <1>3
<1>4. ASSUME q * D <= x, x < q * D + D, p # q PROVE FALSE
  <2>1. CASE p < q
    <3>1. (p + 1) * D <= q * D /\ (p + 1) * D = p * D + D /\ p * D \in Int
      BY <1>1, <1>2, <2>1
    <3>. QED
      BY <1>1, <1>4, <3>1
  <2>2. CASE q < p
    <3>1. (q + 1) * D <= p * D /\ (q + 1) * D = q * D + D /\ q * D \in Int /\ p * D \in Int
      BY <1>1, <1>2, <2>2
    <3>. QED
      BY <1>1, <1>4, <3>1
  <2>. QED
    BY <1>1, <1>4, <2>1, <2>2
<1>. QED
  BY <1>3, <1>4 DEF p

\* The ids of a job are ranked from nought on.
LEMMA Ranks ==
  ASSUME NEW ids \in SUBSET Id
  PROVE  /\ Cardinality(ids) \in Nat /\ IsFiniteSet(ids)
         /\ \A i \in ids : Rank(ids, i) \in 0..(Cardinality(ids) - 1)
         /\ \A i, j \in ids : Rank(ids, i) = Rank(ids, j) => i = j
         /\ \A r \in 0..(Cardinality(ids) - 1) : \E i \in ids : Rank(ids, i) = r
<1>1. IsFiniteSet(ids) /\ ids \subseteq Nat /\ Cardinality(ids) \in Nat
  BY FeedAssumption, FS_Subset, FS_CardinalityType
<1>2. ASSUME NEW S \in SUBSET ids
      PROVE  IsFiniteSet(S) /\ Cardinality(S) \in Nat /\ Cardinality(S) <= Cardinality(ids)
  BY <1>1, FS_Subset, FS_CardinalityType
<1>3. ASSUME NEW i \in ids
      PROVE  Rank(ids, i) \in 0..(Cardinality(ids) - 1)
  <2>1. {j \in ids : j < i} \in SUBSET ids /\ {j \in ids : j < i} # ids
    BY <1>1
  <2>2. Cardinality({j \in ids : j < i}) # Cardinality(ids)
    BY <1>1, <2>1, FS_Subset
  <2>. QED
    BY <1>1, <1>2, <2>1, <2>2 DEF Rank
<1>4. ASSUME NEW i \in ids, NEW j \in ids, i < j
      PROVE  Rank(ids, i) # Rank(ids, j)
  <2>. DEFINE I == {n \in ids : n < i}
              J == {n \in ids : n < j}
  <2>. \A n \in ids : n \in Nat
    BY <1>1
  <2>1. I \in SUBSET J /\ i \in J /\ i \notin I /\ J \in SUBSET ids
    BY <1>4
  <2>2. IsFiniteSet(J)
    BY <1>2, <2>1
  <2>3. Cardinality(J) # Cardinality(I)
    BY <2>1, <2>2, FS_Subset
  <2>. QED
    BY <2>3 DEF Rank
<1>5. \A i, j \in ids : Rank(ids, i) = Rank(ids, j) => i = j
  <2>1. \A i, j \in ids : i \in Nat /\ j \in Nat
    BY <1>1
  <2>. QED
    BY <1>4, <2>1
<1>6. \A r \in 0..(Cardinality(ids) - 1) : \E i \in ids : Rank(ids, i) = r
  <2>. DEFINE f == [i \in ids |-> Rank(ids, i)]
              C == Cardinality(ids)
  <2>1. f \in Injection(ids, 0..(C - 1))
    BY <1>3, <1>5 DEF Injection, IsInjective
  <2>2. IsFiniteSet(0..(C - 1)) /\ Cardinality(0..(C - 1)) = C
    <3>1. 0 \in Int /\ C - 1 \in Int /\ (0 > C - 1 <=> C = 0) /\ (C - 1) - 0 + 1 = C
      BY <1>1
    <3>2. /\ IsFiniteSet(0..(C - 1))
          /\ Cardinality(0..(C - 1)) = IF 0 > C - 1 THEN 0 ELSE (C - 1) - 0 + 1
      <4>. HIDE DEF C
      <4>. QED
        BY <3>1, FS_Interval, Zenon
    <3>. QED
      BY <3>1, <3>2
  <2>3. f \in Surjection(ids, 0..(C - 1))
    BY <2>1, <2>2, FS_Injection
  <2>. QED
    BY <2>3 DEF Surjection
<1>. QED
  BY <1>1, <1>3, <1>5, <1>6

\* The calls of a job ask for all of its ids, each for one to MaxIds of them; and more
\* ids never take fewer calls.
LEMMA ChunksCover ==
  ASSUME NEW ids \in SUBSET Id
  PROVE  /\ Chunks(ids) \in Seq(Key)
         /\ \A i \in ids : \E n \in DOMAIN Chunks(ids) : i \in Chunks(ids)[n]
         /\ \A more \in SUBSET Id : ids \subseteq more => Len(Chunks(ids)) <= Len(Chunks(more))
<1>. DEFINE C == Cardinality(ids)
            N == (C + MaxIds - 1) \div MaxIds
            chunk(n) == {i \in ids : Rank(ids, i) \div MaxIds = n - 1}
<1>1. MaxIds \in Nat \ {0} /\ MaxIds \in Nat
  BY FeedAssumption
<1>2. /\ C \in Nat /\ IsFiniteSet(ids)
      /\ \A i \in ids : Rank(ids, i) \in 0..(C - 1)
      /\ \A i, j \in ids : Rank(ids, i) = Rank(ids, j) => i = j
      /\ \A r \in 0..(C - 1) : \E i \in ids : Rank(ids, i) = r
  BY Ranks
<1>3. /\ \A a \in Int : a * MaxIds \in Int /\ (a + 1) * MaxIds = a * MaxIds + MaxIds
      /\ \A a, b \in Int : a <= b => a * MaxIds <= b * MaxIds
      /\ 0 * MaxIds = 0
  BY <1>1, Products
<1>4. /\ N \in Nat
      /\ N * MaxIds <= C + MaxIds - 1 /\ C + MaxIds - 1 < N * MaxIds + MaxIds
  <2>1. C + MaxIds - 1 \in Nat
    BY <1>1, <1>2
  <2>2. N \in Nat
    BY <1>1, <2>1, DivMod
  <2>. HIDE DEF C
  <2>3. N * MaxIds <= C + MaxIds - 1 /\ C + MaxIds - 1 < N * MaxIds + MaxIds
    BY <1>1, <2>1, <2>2, Quotient
  <2>. QED
    BY <2>2, <2>3
<1>5. Chunks(ids) = [n \in 1..N |-> chunk(n)]
  BY DEF Chunks
<1>. HIDE DEF C, N
<1>6. ASSUME NEW i \in ids, NEW n \in Int
      PROVE  i \in chunk(n) <=> (n - 1) * MaxIds <= Rank(ids, i) /\ Rank(ids, i) < n * MaxIds
  <2>1. Rank(ids, i) \in Int /\ n - 1 \in Int /\ n * MaxIds = (n - 1) * MaxIds + MaxIds
    BY <1>2, <1>3
  <2>2. Rank(ids, i) \div MaxIds = n - 1
          <=> (n - 1) * MaxIds <= Rank(ids, i) /\ Rank(ids, i) < (n - 1) * MaxIds + MaxIds
    BY <1>1, <2>1, Quotient
  <2>. QED
    BY <2>1, <2>2
<1>7. ASSUME NEW n \in 1..N
      PROVE  chunk(n) \in Key
  <2>. DEFINE lo == (n - 1) * MaxIds
  <2>1. /\ lo \in Nat /\ n * MaxIds = lo + MaxIds
        /\ lo + MaxIds <= N * MaxIds
    <3>1. n \in Int /\ n - 1 \in Int /\ 0 <= n - 1 /\ n <= N /\ N \in Int /\ 0 \in Int
      BY <1>4
    <3>2. 0 * MaxIds <= lo /\ n * MaxIds <= N * MaxIds /\ n * MaxIds = lo + MaxIds /\ lo \in Int
      BY <1>3, <3>1
    <3>. QED
      BY <1>3, <3>1, <3>2
  <2>. HIDE DEF lo
  <2>2. lo \in 0..(C - 1)
    BY <1>1, <1>2, <1>4, <2>1
  <2>3. chunk(n) # {}
    <3>1. PICK i \in ids : Rank(ids, i) = lo
      BY <1>2, <2>2
    <3>2. i \in chunk(n)
      BY <1>1, <1>6, <2>1, <3>1 DEF lo
    <3>. QED
      BY <3>2
  <2>4. Cardinality(chunk(n)) <= MaxIds
    <3>. DEFINE f == [i \in chunk(n) |-> Rank(ids, i)]
                S == chunk(n)
                T == lo..(lo + MaxIds - 1)
    <3>1. \A i \in S : i \in ids /\ Rank(ids, i) \in T
      <4>1. ASSUME NEW i \in S
            PROVE  i \in ids /\ Rank(ids, i) \in Nat /\ lo <= Rank(ids, i) /\ Rank(ids, i) < lo + MaxIds
        <5>1. i \in ids
          OBVIOUS
        <5>. QED
          BY <1>2, <1>6, <2>1, <5>1 DEF lo
      <4>. QED
        BY <1>1, <2>1, <4>1
    <3>. HIDE DEF S, T
    <3>2. f \in Injection(S, T)
      BY <1>2, <3>1 DEF Injection, IsInjective, S
    <3>3. IsFiniteSet(T) /\ Cardinality(T) = MaxIds
      <4>1. lo \in Int /\ lo + MaxIds - 1 \in Int /\ ~(lo > lo + MaxIds - 1)
            /\ (lo + MaxIds - 1) - lo + 1 = MaxIds
        BY <1>1, <2>1
      <4>2. /\ IsFiniteSet(T)
            /\ Cardinality(T) = IF lo > lo + MaxIds - 1 THEN 0 ELSE (lo + MaxIds - 1) - lo + 1
        BY <4>1, FS_Interval, Zenon DEF T
      <4>. QED
        BY <4>1, <4>2
    <3>. QED
      BY <3>2, <3>3, FS_Injection DEF S
  <2>. QED
    BY <2>3, <2>4 DEF Key
<1>8. Chunks(ids) \in Seq(Key) /\ Len(Chunks(ids)) = N /\ DOMAIN Chunks(ids) = 1..N
  <2>. HIDE DEF chunk
  <2>1. Chunks(ids) \in [1..N -> Key]
    BY <1>5, <1>7
  <2>. QED
    BY <1>4, <2>1
<1>9. ASSUME NEW i \in ids
      PROVE  \E n \in DOMAIN Chunks(ids) : i \in Chunks(ids)[n]
  <2>. DEFINE r == Rank(ids, i)
              n == (r \div MaxIds) + 1
  <2>1. r \in 0..(C - 1) /\ r \in Int /\ r >= 0
    BY <1>2
  <2>. HIDE DEF r
  <2>2. r \div MaxIds \in Int /\ 0 <= r \div MaxIds
    BY <1>1, <2>1, DivMod
  <2>3. (r \div MaxIds) * MaxIds <= r
    BY <1>1, <2>1, <2>2, Quotient
  <2>4. n <= N
    <3>1. SUFFICES ASSUME N <= r \div MaxIds PROVE FALSE
      BY <1>4, <2>2
    <3>2. N * MaxIds <= (r \div MaxIds) * MaxIds
      BY <1>3, <1>4, <2>2, <3>1
    <3>3. N * MaxIds \in Int /\ (r \div MaxIds) * MaxIds \in Int
      BY <1>3, <1>4, <2>2
    <3>. QED
      BY <1>1, <1>2, <1>4, <2>1, <2>3, <3>2, <3>3
  <2>5. n \in 1..N /\ n - 1 = r \div MaxIds
    BY <1>4, <2>2, <2>4
  <2>6. i \in chunk(n)
    BY <2>5 DEF r
  <2>. HIDE DEF n
  <2>7. Chunks(ids)[n] = chunk(n)
    BY <1>5, <2>5
  <2>. QED
    BY <1>8, <2>5, <2>6, <2>7
<1>10. ASSUME NEW more \in SUBSET Id, ids \subseteq more
       PROVE  Len(Chunks(ids)) <= Len(Chunks(more))
  <2>. DEFINE D == Cardinality(more)
              M == (D + MaxIds - 1) \div MaxIds
  <2>1. D \in Nat /\ IsFiniteSet(more)
    BY Ranks
  <2>2. C <= D
    BY <1>10, <2>1, FS_Subset DEF C
  <2>3. M \in Nat
    BY <1>1, <2>1, DivMod
  <2>4. Len(Chunks(more)) = M
    BY <2>3 DEF Chunks
  <2>. HIDE DEF D
  <2>5. D + MaxIds - 1 < M * MaxIds + MaxIds
    BY <1>1, <2>1, <2>3, Quotient
  <2>. HIDE DEF M
  <2>6. N <= M
    <3>1. SUFFICES ASSUME M + 1 <= N PROVE FALSE
      BY <1>4, <2>3
    <3>2. (M + 1) * MaxIds <= N * MaxIds /\ (M + 1) * MaxIds = M * MaxIds + MaxIds
      BY <1>3, <1>4, <2>3, <3>1
    <3>3. N * MaxIds \in Int /\ M * MaxIds \in Int
      BY <1>3, <1>4, <2>3
    <3>. QED
      BY <1>1, <1>2, <1>4, <2>1, <2>2, <2>5, <3>2, <3>3
  <2>. QED
    BY <1>8, <2>4, <2>6
<1>. QED
  BY <1>8, <1>9, <1>10

-----------------------------------------------------------------------------
(* Every step keeps every task on track *)

\* Asking for one key more takes one wait and one timeout more.
LEMMA Spans ==
  /\ AtMost(0) = 0
  /\ \A n \in Int : AtMost(n) \in Int /\ AtMost(n + 1) = AtMost(n) + MaxWait + Timeout
  /\ \A m, n \in Int : m <= n => AtMost(m) <= AtMost(n)
<1>. DEFINE W == MaxWait + Timeout
<1>1. W \in Nat /\ MaxWait \in Nat /\ Timeout \in Nat
  BY LimiterAssumption, FeedAssumption
<1>. HIDE DEF W
<1>2. /\ 0 * W = 0
      /\ \A n \in Int : n * W \in Int /\ (n + 1) * W = n * W + W
      /\ \A m, n \in Int : m <= n => m * W <= n * W
  BY <1>1, Products
<1>3. \A n \in Int : AtMost(n) = n * W
  BY DEF AtMost, W
<1>4. \A n \in Int : AtMost(n) \in Int /\ AtMost(n + 1) = AtMost(n) + W
  BY <1>2, <1>3
<1>5. \A m, n \in Int : m <= n => AtMost(m) <= AtMost(n)
  BY <1>2, <1>3
<1>6. AtMost(0) = 0
  BY <1>2, <1>3
<1>7. \A x \in Int : x + W = x + MaxWait + Timeout
  BY <1>1 DEF W
<1>. QED
  BY <1>4, <1>5, <1>6, <1>7

\* What the types say.
LEMMA Facts ==
  ASSUME IInv, FeedTypeOK
  PROVE  /\ clock \in Nat /\ calls \in [Caller -> Call] /\ MaxWait \in Nat
         /\ Timeout \in Nat /\ Ttl \in Nat \ {0}
         /\ \A t \in Caller :
              /\ calls[t].deadline \in Nat /\ calls[t].wakeAt \in Nat
              /\ calls[t].status \in {"idle", "waiting", "granted", "refused"}
              /\ tasks[t] \in Task
              /\ tasks[t].at \in {"idle", "asking", "loading", "storing"}
              /\ tasks[t].job \in Job \cup {None}
              /\ tasks[t].todo \in Seq(Key) /\ Len(tasks[t].todo) \in Nat
              /\ tasks[t].got \subseteq [id : Id, at : Nat]
              /\ tasks[t].missing \subseteq Id
              /\ tasks[t].since \in Nat /\ tasks[t].sent \in Nat /\ tasks[t].jobs \in 0..MaxJobs
              /\ tasks[t].todo # <<>> => Head(tasks[t].todo) \in Key /\ Len(tasks[t].todo) >= 1
<1>1. clock \in Nat /\ calls \in [Caller -> Call] /\ tasks \in [Caller -> Task]
  BY DEF IInv, TypeOK, FeedTypeOK
<1>2. MaxWait \in Nat /\ Timeout \in Nat /\ Ttl \in Nat \ {0}
  BY LimiterAssumption, FeedAssumption
<1>3. ASSUME NEW t \in Caller
      PROVE  /\ calls[t].deadline \in Nat /\ calls[t].wakeAt \in Nat
             /\ calls[t].status \in {"idle", "waiting", "granted", "refused"}
  BY <1>1 DEF Call
<1>4. ASSUME NEW t \in Caller
      PROVE  /\ tasks[t] \in Task
             /\ tasks[t].at \in {"idle", "asking", "loading", "storing"}
             /\ tasks[t].job \in Job \cup {None}
             /\ tasks[t].todo \in Seq(Key)
             /\ tasks[t].got \subseteq [id : Id, at : Nat]
             /\ tasks[t].missing \subseteq Id
             /\ tasks[t].since \in Nat /\ tasks[t].sent \in Nat /\ tasks[t].jobs \in 0..MaxJobs
  BY <1>1 DEF Task
<1>5. ASSUME NEW t \in Caller
      PROVE  /\ Len(tasks[t].todo) \in Nat
             /\ tasks[t].todo # <<>> => Head(tasks[t].todo) \in Key /\ Len(tasks[t].todo) >= 1
  BY <1>4
<1>. QED
  BY <1>1, <1>2, <1>3, <1>4, <1>5

\* A task that waits for a load waits for one of a task that pays for it, and not long.
LEMMA Waits ==
  ASSUME IInv, FeedIInv, NEW t \in Caller, tasks[t].at = "loading"
  PROVE  LET k == Head(tasks[t].todo)
             o == inflight[k]
         IN  /\ k \in Key /\ o \in Caller /\ tasks[o].at = "loading" /\ Head(tasks[o].todo) = k
             /\ Owns(o) /\ ~Fresh(k)
             /\ Began(t) = calls[o].deadline - MaxWait
             /\ Began(t) \in Int /\ Began(t) <= clock
             /\ clock <= Began(t) + MaxWait + Timeout
<1>. DEFINE k == Head(tasks[t].todo)
            o == inflight[k]
<1>1. k \in Key
  BY Facts DEF FeedIInv, OnTrack
<1>2. o \in Caller /\ o # None
  BY <1>1 DEF FeedIInv, FeedTypeOK, Led
<1>3. tasks[o].at = "loading" /\ Head(tasks[o].todo) = k /\ ~Fresh(k)
  BY <1>1, <1>2 DEF FeedIInv, Led
<1>4. Owns(o)
  BY <1>3 DEF Owns
<1>5. Began(t) = calls[o].deadline - MaxWait
  BY DEF Began
<1>. HIDE DEF k, o
<1>6. /\ calls[o].deadline \in Nat /\ clock \in Nat /\ MaxWait \in Nat /\ Timeout \in Nat
      /\ calls[o].wakeAt \in Nat /\ tasks[o].sent \in Nat
      /\ calls[o].status \in {"idle", "waiting", "granted", "refused"}
  BY <1>2, Facts DEF FeedIInv
<1>7. /\ calls[o].status # "idle"
      /\ calls[o].deadline <= clock + MaxWait
      /\ calls[o].status = "waiting" => clock <= calls[o].wakeAt /\ calls[o].wakeAt <= calls[o].deadline
      /\ calls[o].status = "refused" => clock <= calls[o].deadline
      /\ calls[o].status = "granted" =>
           tasks[o].sent <= calls[o].deadline /\ clock <= tasks[o].sent + Timeout
  BY <1>2, <1>4 DEF FeedIInv, Paced
<1>8. clock <= calls[o].deadline + Timeout
  BY <1>6, <1>7
<1>9. Began(t) \in Int /\ Began(t) <= clock /\ clock <= Began(t) + MaxWait + Timeout
  BY <1>5, <1>6, <1>7, <1>8
<1>. QED
  BY <1>1, <1>2, <1>3, <1>4, <1>5, <1>9, Zenon DEF k, o

\* A task stays on track when nothing happens to it.
LEMMA Unmoved ==
  ASSUME NEW t \in Caller, OnTrack(t), tasks'[t] = tasks[t], clock' = clock,
         Began(t)' = Began(t)
  PROVE  OnTrack(t)'
BY DEF OnTrack, Busy, Done

\* What is left of a list without its head.
LEMMA Rest ==
  ASSUME NEW S, NEW s \in Seq(S), s # <<>>
  PROVE  /\ Len(s) \in Nat /\ Len(s) >= 1 /\ Head(s) \in S /\ Head(s) = s[1]
         /\ Tail(s) \in Seq(S) /\ Len(Tail(s)) = Len(s) - 1
         /\ Tail(s) # <<>> <=> Len(s) # 1
         /\ \A n \in DOMAIN s : n = 1 \/ (n - 1 \in DOMAIN Tail(s) /\ Tail(s)[n - 1] = s[n])
<1>1. Len(s) \in Nat /\ Len(s) >= 1 /\ Head(s) \in S /\ Head(s) = s[1]
  OBVIOUS
<1>2. Tail(s) \in Seq(S) /\ Len(Tail(s)) = Len(s) - 1
  OBVIOUS
<1>3. Tail(s) # <<>> <=> Len(s) # 1
  <2>1. \A x \in Seq(S) : x = <<>> <=> Len(x) = 0
    OBVIOUS
  <2>2. Tail(s) = <<>> <=> Len(Tail(s)) = 0
    BY <1>2, <2>1, Zenon
  <2>3. Len(Tail(s)) = 0 <=> Len(s) = 1
    BY <1>1, <1>2
  <2>. QED
    BY <2>2, <2>3, Zenon
<1>4. \A n \in DOMAIN s : n = 1 \/ (n - 1 \in DOMAIN Tail(s) /\ Tail(s)[n - 1] = s[n])
  BY <1>1, <1>2
<1>. QED
  BY <1>1, <1>2, <1>3, <1>4

\* How far a task is when it gets an answer.
LEMMA Taken ==
  ASSUME IInv, FeedIInv, NEW t \in Caller, tasks[t].at \in {"asking", "loading"},
         NEW answer \in [at : Nat, ids : SUBSET Id],
         answer.at <= clock, clock < answer.at + Ttl,
         tasks'[t] = Take(tasks[t], answer), clock' = clock
  PROVE  /\ tasks'[t] \in Task /\ tasks'[t].at \in {"asking", "storing"}
         /\ OnTrack(t)'
<1>. DEFINE r == tasks[t]
            n == tasks'[t]
            new == {[id |-> i, at |-> answer.at] : i \in answer.ids}
            K == Len(Chunks(r.job.ids))
<1>1. /\ clock \in Nat /\ Ttl \in Nat \ {0} /\ MaxWait \in Nat /\ Timeout \in Nat
      /\ r \in Task /\ r.job \in Job \cup {None}
      /\ r.todo \in Seq(Key) /\ Len(r.todo) \in Nat
      /\ r.got \subseteq [id : Id, at : Nat] /\ r.missing \subseteq Id
      /\ r.since \in Nat /\ r.sent \in Nat /\ r.jobs \in 0..MaxJobs
      /\ answer.at \in Nat /\ answer.ids \subseteq Id
  BY Facts DEF FeedIInv
<1>2. /\ r.todo # <<>> /\ Busy(t)
      /\ r.job \in Job /\ Len(r.todo) <= K
      /\ r.since <= clock /\ Began(t) - r.since <= AtMost(Done(t))
      /\ \A q \in r.got : q.at <= clock /\ Began(t) - q.at < Ttl + AtMost(Done(t) - 1)
  BY DEF FeedIInv, OnTrack, Busy
<1>3. /\ Len(r.todo) >= 1 /\ Tail(r.todo) \in Seq(Key) /\ Len(Tail(r.todo)) = Len(r.todo) - 1
      /\ Tail(r.todo) # <<>> <=> Len(r.todo) # 1
      /\ Head(r.todo) \in Key
  <2>. HIDE DEF r
  <2>. QED
    BY <1>1, <1>2, Rest
<1>4. /\ n.at = IF Len(r.todo) = 1 THEN "storing" ELSE "asking"
      /\ n.todo = Tail(r.todo) /\ n.got = r.got \cup new
      /\ n.job = r.job /\ n.since = r.since /\ n.jobs = r.jobs
      /\ n.missing = r.missing \cup (Head(r.todo) \ answer.ids)
      /\ n.sent = 0
      /\ n = [at |-> IF Len(r.todo) = 1 THEN "storing" ELSE "asking",
              job |-> r.job, todo |-> Tail(r.todo), got |-> r.got \cup new,
              missing |-> r.missing \cup (Head(r.todo) \ answer.ids),
              since |-> r.since, jobs |-> r.jobs, sent |-> 0]
  BY <1>1 DEF Take, Task
<1>5. new \subseteq [id : Id, at : Nat] /\ \A q \in new : q.at = answer.at
  BY <1>1
<1>6. Head(r.todo) \subseteq Id
  BY <1>3 DEF Key
<1>7. n \in Task
  <2>. HIDE DEF n, r, new
  <2>1. /\ r.got \cup new \subseteq [id : Id, at : Nat]
        /\ r.missing \cup (Head(r.todo) \ answer.ids) \subseteq Id
    BY <1>1, <1>5, <1>6
  <2>. QED
    BY <1>1, <1>2, <1>3, <1>4, <2>1 DEF Task
<1>8. K \in Nat
  <2>1. r.job.ids \in SUBSET Id
    BY <1>2 DEF Job
  <2>2. Chunks(r.job.ids) \in Seq(Key)
    BY <2>1, ChunksCover
  <2>. QED
    BY <2>2
<1>9. Began(t) \in Int /\ Began(t) <= clock /\ clock <= Began(t) + MaxWait + Timeout
  <2>1. CASE tasks[t].at = "loading"
    BY <2>1, Waits
  <2>2. CASE tasks[t].at = "asking"
    BY <1>1, <2>2 DEF Began
  <2>. QED
    BY <2>1, <2>2
<1>0. clock \in Nat /\ Ttl \in Nat /\ MaxWait \in Nat /\ Timeout \in Nat
  BY <1>1
<1>. DEFINE d == Done(t)
<1>10. /\ Began(t)' = clock /\ Done(t)' = d + 1 /\ d \in Int /\ d >= 0
       /\ Done(t) - 1 = d - 1 /\ Done(t)' - 1 = d
  <2>1. d = K - Len(r.todo) /\ Done(t)' = Len(Chunks(n.job.ids)) - Len(n.todo)
    BY DEF Done
  <2>2. Began(t)' = clock'
    BY <1>4 DEF Began
  <2>3. Len(Chunks(n.job.ids)) = K
    BY <1>4
  <2>. DEFINE l == Len(r.todo)
              m == Len(n.todo)
  <2>4. l \in Nat /\ l <= K /\ m = l - 1
    BY <1>1, <1>2, <1>3, <1>4
  <2>. HIDE DEF K, l, m
  <2>5. d = K - l /\ Done(t)' = K - m
    BY <2>1, <2>3 DEF l, m
  <2>. HIDE DEF d
  <2>6. Done(t)' = d + 1 /\ d \in Int /\ d >= 0
    BY <1>8, <2>4, <2>5
  <2>7. Done(t) - 1 = d - 1 /\ Done(t)' - 1 = d
    BY <2>6 DEF d
  <2>. QED
    BY <2>2, <2>6, <2>7
<1>11. /\ AtMost(d) \in Int /\ AtMost(d - 1) \in Int /\ AtMost(d + 1) \in Int
       /\ AtMost(d + 1) = AtMost(d) + MaxWait + Timeout
       /\ AtMost(d) = AtMost(d - 1) + MaxWait + Timeout /\ AtMost(d) >= 0
  <2>. HIDE DEF d
  <2>1. d - 1 \in Int /\ (d - 1) + 1 = d /\ d + 1 \in Int /\ 0 \in Int
    BY <1>10
  <2>. QED
    BY <1>10, <2>1, Spans
<1>. DEFINE B == Began(t)
            later == AtMost(Done(t)' - 1)
<1>17. later = AtMost(d) /\ AtMost(Done(t)') = AtMost(d + 1)
  BY <1>10
<1>12. ASSUME NEW q \in n.got
       PROVE  q.at <= clock /\ Began(t)' - q.at < Ttl + AtMost(Done(t)' - 1)
  <2>1. q.at \in Nat
    BY <1>1, <1>4, <1>5
  <2>2. CASE q \in r.got
    <3>1. q.at <= clock /\ B - q.at < Ttl + AtMost(d - 1)
      BY <1>2, <1>10, <2>2
    <3>2. B \in Int /\ clock <= B + MaxWait + Timeout
      BY <1>9
    <3>. HIDE DEF d, B, later
    <3>3. clock - q.at < Ttl + AtMost(d)
      BY <1>0, <1>11, <2>1, <3>1, <3>2
    <3>. QED
      BY <1>10, <1>17, <3>1, <3>3 DEF later
  <2>3. CASE q \in new
    <3>1. q.at = answer.at
      BY <1>5, <2>3
    <3>. HIDE DEF d, later
    <3>2. q.at <= clock /\ clock - q.at < Ttl + AtMost(d)
      BY <1>1, <1>11, <3>1
    <3>. QED
      BY <1>10, <1>17, <3>2 DEF later
  <2>. QED
    BY <1>4, <2>2, <2>3
<1>13. Began(t)' - n.since <= AtMost(Done(t)')
  <2>1. B - r.since <= AtMost(d) /\ B \in Int /\ clock <= B + MaxWait + Timeout /\ r.since \in Nat
    BY <1>1, <1>2, <1>9
  <2>. HIDE DEF d, n, r, B
  <2>2. clock - r.since <= AtMost(d + 1)
    BY <1>0, <1>11, <2>1
  <2>. QED
    BY <1>4, <1>10, <1>17, <2>2
<1>14. /\ n.at \in {"asking", "loading"} <=> n.todo # <<>>
       /\ n.job \in Job /\ n.since <= clock /\ Len(n.todo) <= Len(Chunks(n.job.ids))
       /\ n.at # "idle"
  <2>. HIDE DEF n, r
  <2>. QED
    BY <1>1, <1>2, <1>3, <1>4, <1>8
<1>15. n.at \in {"asking", "storing"}
  BY <1>4
<1>16. OnTrack(t)'
  <2>. HIDE DEF d
  <2>. QED
    BY <1>12, <1>13, <1>14 DEF OnTrack, Busy
<1>. QED
  BY <1>7, <1>15, <1>16

\* A step of a task that waits for no load, before or after, touches no load.
LEMMA Aside ==
  ASSUME IInv, FeedIInv, NEW t \in Caller, tasks[t].at # "loading",
         NEW r \in Task, r.at # "loading", tasks' = [tasks EXCEPT ![t] = r],
         UNCHANGED <<clock, calls, entries, inflight>>,
         stored' \in [Id -> Nat \cup {None}],
         \A i \in Id : stored'[i] # None => stored'[i] <= clock,
         OnTrack(t)'
  PROVE  FeedIInv'
<1>1. tasks \in [Caller -> Task] /\ tasks'[t] = r /\ \A u \in Caller : u # t => tasks'[u] = tasks[u]
  BY DEF FeedIInv, FeedTypeOK
<1>2. FeedTypeOK'
  BY <1>1 DEF FeedIInv, FeedTypeOK
<1>3. Led'
  <2>1. ASSUME NEW u \in Caller, tasks'[u].at = "loading"
        PROVE  inflight'[Head(tasks'[u].todo)] # None
    BY <1>1, <2>1 DEF FeedIInv, Led
  <2>2. ASSUME NEW k \in Key, inflight'[k] # None
        PROVE  /\ tasks'[inflight'[k]].at = "loading" /\ Head(tasks'[inflight'[k]].todo) = k
               /\ ~Fresh(k)'
    <3>1. inflight[k] \in Caller /\ tasks[inflight[k]].at = "loading"
          /\ Head(tasks[inflight[k]].todo) = k /\ ~Fresh(k)
      BY <2>2 DEF FeedIInv, FeedTypeOK, Led
    <3>2. inflight[k] # t
      BY <3>1
    <3>. QED
      BY <1>1, <3>1, <3>2 DEF Fresh
  <2>. QED
    BY <2>1, <2>2 DEF Led
<1>4. Paced'
  <2> SUFFICES ASSUME NEW u \in Caller, Owns(u)'
               PROVE  /\ tasks'[u] = tasks[u] /\ Owns(u)
    BY DEF FeedIInv, Paced
  <2>. QED
    BY <1>1 DEF Owns
<1>5. OfThePast'
  BY DEF FeedIInv, OfThePast
<1>6. ASSUME NEW u \in Caller
      PROVE  OnTrack(u)'
  <2>1. CASE u = t
    BY <2>1
  <2>2. CASE u # t
    <3>1. tasks'[u] = tasks[u] /\ OnTrack(u)
      BY <1>1, <2>2 DEF FeedIInv
    <3>2. Began(u)' = Began(u)
      BY <3>1 DEF Began
    <3>. QED
      BY <3>1, <3>2, Unmoved
  <2>. QED
    BY <2>1, <2>2
<1>. QED
  BY <1>2, <1>3, <1>4, <1>5, <1>6 DEF FeedIInv

\* What a job takes on is on track.
LEMMA StartKeeps ==
  ASSUME IInv, FeedIInv, NEW t \in Caller, NEW job \in Jobs[t], Start(t, job)
  PROVE  FeedIInv'
<1>. DEFINE asked == IF job.does = "ensure" THEN Stale(job.ids) ELSE job.ids
            keys == Chunks(asked)
            r == Begun(tasks[t], job, keys)
<1>1. job \in Job /\ job.ids \in SUBSET Id /\ asked \in SUBSET Id /\ asked \subseteq job.ids
  <2>1. job \in Job
    BY FeedAssumption
  <2>. QED
    BY <2>1 DEF Job, Stale
<1>2. keys \in Seq(Key) /\ Len(keys) \in Nat /\ Len(Chunks(job.ids)) \in Nat
      /\ Len(keys) <= Len(Chunks(job.ids))
  <2>. HIDE DEF asked
  <2>1. keys \in Seq(Key) /\ Len(keys) <= Len(Chunks(job.ids)) /\ Chunks(job.ids) \in Seq(Key)
    BY <1>1, ChunksCover
  <2>. QED
    BY <2>1
<1>3. /\ tasks[t].at = "idle" /\ tasks[t].got = {} /\ tasks[t].jobs < MaxJobs
      /\ tasks' = [tasks EXCEPT ![t] = r] /\ UNCHANGED <<clock, calls, entries, inflight, stored>>
  <2>1. /\ tasks[t].at = "idle" /\ tasks[t].jobs < MaxJobs
        /\ UNCHANGED <<clock, calls, entries, inflight, stored>>
    BY DEF Start, Busy, limiter
  <2>2. tasks[t].got = {}
    BY <2>1 DEF FeedIInv, OnTrack, Busy
  <2>3. tasks' = [tasks EXCEPT ![t] = r]
    BY Zenon DEF Start
  <2>. QED
    BY <2>1, <2>2, <2>3
<1>4. /\ clock \in Nat /\ tasks[t] \in Task /\ tasks[t].got \subseteq [id : Id, at : Nat]
      /\ tasks[t].missing \subseteq Id /\ tasks[t].sent \in Nat /\ tasks[t].jobs \in 0..MaxJobs
  BY Facts DEF FeedIInv
<1>. HIDE DEF keys
<1>6. tasks[t].jobs + 1 \in 0..MaxJobs
  BY <1>3, <1>4, FeedAssumption
<1>7. r \in Task /\ r.at \in {"storing", "asking"}
  BY <1>1, <1>2, <1>4, <1>6 DEF Begun, Task
<1>5. /\ r.at = IF keys = <<>> THEN "storing" ELSE "asking"
      /\ r.job = job /\ r.todo = keys /\ r.got = {} /\ r.since = clock
  BY <1>3, <1>4 DEF Begun, Task
<1>8. tasks'[t] = r
  BY <1>3 DEF FeedIInv, FeedTypeOK
<1>. HIDE DEF r
<1>9. OnTrack(t)'
  <2>1. Began(t)' = clock
    BY <1>3, <1>7, <1>8 DEF Began
  <2>2. Done(t)' = Len(Chunks(job.ids)) - Len(keys)
    BY <1>5, <1>8 DEF Done
  <2>3. AtMost(Done(t)') \in Int /\ AtMost(Done(t)') >= 0
    <3>1. Done(t)' \in Int /\ 0 \in Int /\ 0 <= Done(t)'
      BY <1>2, <2>2
    <3>. QED
      BY <3>1, Spans
  <2>4. Began(t)' - clock <= AtMost(Done(t)')
    BY <1>4, <2>1, <2>3
  <2>. QED
    BY <1>1, <1>2, <1>3, <1>4, <1>5, <1>8, <2>4 DEF OnTrack, Busy
<1>. QED
  BY <1>3, <1>7, <1>9, Aside DEF FeedIInv, FeedTypeOK, OfThePast

\* An answer of the cache is as old as answers may be.
LEMMA HitKeeps ==
  ASSUME IInv, FeedIInv, NEW t \in Caller, Hit(t)
  PROVE  FeedIInv'
<1>. DEFINE k == Head(tasks[t].todo)
            r == Take(tasks[t], entries[k])
<1>1. /\ tasks[t].at = "asking" /\ Fresh(k) /\ tasks' = [tasks EXCEPT ![t] = r]
      /\ UNCHANGED <<clock, calls, entries, inflight, stored>>
  BY DEF Hit, limiter
<1>2. k \in Key
  BY <1>1, Facts DEF FeedIInv, OnTrack
<1>3. /\ entries[k] \in [at : Nat, ids : SUBSET Id] /\ entries[k].at <= clock
      /\ clock < entries[k].at + Ttl
  <2>1. entries[k] # None /\ entries[k].at + Ttl > clock
    BY <1>1 DEF Fresh
  <2>2. entries[k] \in [at : Nat, ids : SUBSET Id] /\ entries[k].at <= clock
    BY <1>2, <2>1 DEF FeedIInv, FeedTypeOK, OfThePast
  <2>3. clock \in Nat /\ Ttl \in Nat /\ entries[k].at \in Nat
    BY <2>2, Facts DEF FeedIInv
  <2>. QED
    BY <2>1, <2>2, <2>3
<1>4. tasks'[t] = r
  BY <1>1 DEF FeedIInv, FeedTypeOK
<1>5. r \in Task /\ r.at \in {"asking", "storing"} /\ OnTrack(t)'
  <2>. HIDE DEF k
  <2>. QED
    BY <1>1, <1>3, <1>4, Taken
<1>. QED
  BY <1>1, <1>5, Aside DEF FeedIInv, FeedTypeOK, OfThePast

\* A task that has ended owes nothing.
LEMMA Ends ==
  ASSUME IInv, FeedIInv, NEW t \in Caller, tasks'[t] = Ended(tasks[t])
  PROVE  tasks'[t] \in Task /\ tasks'[t].at = "idle" /\ OnTrack(t)'
<1>1. tasks[t].jobs \in 0..MaxJobs
  BY Facts DEF FeedIInv
<1>2. tasks'[t] = [at |-> "idle", job |-> None, todo |-> <<>>, got |-> {}, missing |-> {},
                   since |-> 0, jobs |-> tasks[t].jobs, sent |-> 0]
  BY DEF Ended, Idle
<1>3. tasks'[t] \in Task
  BY <1>1, <1>2 DEF Task
<1>. QED
  BY <1>2, <1>3 DEF OnTrack, Busy

LEMMA EndKeeps ==
  ASSUME IInv, FeedIInv, NEW t \in Caller, Return(t) \/ StoreFails(t)
  PROVE  FeedIInv'
<1>1. /\ tasks[t].at = "storing" /\ tasks' = [tasks EXCEPT ![t] = Ended(tasks[t])]
      /\ UNCHANGED <<clock, calls, entries, inflight, stored>>
  BY DEF Return, StoreFails, limiter
<1>2. tasks'[t] = Ended(tasks[t])
  BY <1>1 DEF FeedIInv, FeedTypeOK
<1>3. Ended(tasks[t]) \in Task /\ Ended(tasks[t]).at = "idle" /\ OnTrack(t)'
  BY <1>2, Ends
<1>. QED
  BY <1>1, <1>3, Aside DEF FeedIInv, FeedTypeOK, OfThePast

LEMMA StoreKeeps ==
  ASSUME IInv, FeedIInv, NEW t \in Caller, NEW q \in tasks[t].got, Store(t, q)
  PROVE  FeedIInv'
<1>. DEFINE r == [tasks[t] EXCEPT !.got = @ \ {q}]
<1>1. /\ tasks[t].at = "storing" /\ tasks' = [tasks EXCEPT ![t] = r]
      /\ stored' = [stored EXCEPT ![q.id] = q.at]
      /\ UNCHANGED <<clock, calls, entries, inflight>>
  BY DEF Store, limiter, FeedIInv, FeedTypeOK
<1>2. tasks[t] \in Task /\ q \in [id : Id, at : Nat] /\ q.at <= clock /\ OnTrack(t)
  BY Facts DEF FeedIInv, OnTrack
<1>3. r \in Task /\ r.at = "storing"
  BY <1>1, <1>2 DEF Task
<1>4. tasks'[t] = r
  BY <1>1 DEF FeedIInv, FeedTypeOK
<1>5. /\ r.todo = tasks[t].todo /\ r.job = tasks[t].job /\ r.since = tasks[t].since
      /\ r.got \subseteq tasks[t].got
  BY <1>2 DEF Task
<1>. HIDE DEF r
<1>6. Began(t)' = Began(t) /\ Done(t)' = Done(t)
  BY <1>1, <1>3, <1>4, <1>5 DEF Began, Done
<1>7. OnTrack(t)'
  BY <1>1, <1>2, <1>3, <1>4, <1>5, <1>6 DEF OnTrack, Busy
<1>8. /\ stored' \in [Id -> Nat \cup {None}]
      /\ \A i \in Id : stored'[i] # None => stored'[i] <= clock
  BY <1>1, <1>2 DEF FeedIInv, FeedTypeOK, OfThePast
<1>. QED
  BY <1>1, <1>3, <1>7, <1>8, Aside

LEMMA ReplanKeeps ==
  ASSUME IInv, FeedIInv, NEW t \in Caller, NEW rate, Replan(t, rate)
  PROVE  FeedIInv'
<1>. DEFINE r == [tasks[t] EXCEPT !.jobs = @ + 1]
<1>1. /\ tasks[t].at = "idle" /\ tasks[t].jobs < MaxJobs /\ tasks' = [tasks EXCEPT ![t] = r]
      /\ UNCHANGED <<clock, calls, entries, inflight, stored>>
  BY DEF Replan, SetPerMinute, Busy, FeedIInv, FeedTypeOK
<1>2. tasks[t] \in Task /\ tasks[t].jobs \in 0..MaxJobs /\ OnTrack(t)
  BY Facts DEF FeedIInv
<1>3. tasks[t].jobs + 1 \in 0..MaxJobs
  BY <1>1, <1>2, FeedAssumption
<1>4. /\ r \in Task /\ r.at = "idle" /\ r.todo = tasks[t].todo /\ r.job = tasks[t].job
      /\ r.since = tasks[t].since /\ r.got = tasks[t].got
  BY <1>1, <1>2, <1>3 DEF Task
<1>5. tasks'[t] = r
  BY <1>1 DEF FeedIInv, FeedTypeOK
<1>. HIDE DEF r
<1>6. OnTrack(t)'
  BY <1>1, <1>2, <1>4, <1>5 DEF OnTrack, Busy
<1>. QED
  BY <1>1, <1>4, <1>6, Aside DEF FeedIInv, FeedTypeOK, OfThePast

\* A task that joins a load waits for it from then on.
LEMMA JoinKeeps ==
  ASSUME IInv, FeedIInv, NEW t \in Caller, Join(t)
  PROVE  FeedIInv'
<1>. DEFINE k == Head(tasks[t].todo)
            o == inflight[k]
            r == [tasks[t] EXCEPT !.at = "loading"]
<1>1. /\ tasks[t].at = "asking" /\ ~Fresh(k) /\ o # None
      /\ tasks' = [tasks EXCEPT ![t] = r]
      /\ UNCHANGED <<clock, calls, entries, inflight, stored>>
  BY DEF Join, limiter, FeedIInv, FeedTypeOK
<1>2. /\ tasks[t] \in Task /\ OnTrack(t) /\ k \in Key /\ tasks[t].todo # <<>>
      /\ clock \in Nat /\ MaxWait \in Nat /\ tasks[t].since \in Nat
      /\ tasks[t].got \subseteq [id : Id, at : Nat]
  BY <1>1, Facts DEF FeedIInv, OnTrack
<1>3. o \in Caller /\ tasks[o].at = "loading" /\ Head(tasks[o].todo) = k /\ Owns(o) /\ o # t
  BY <1>1, <1>2 DEF FeedIInv, FeedTypeOK, Led, Owns
<1>4. /\ r \in Task /\ r.at = "loading" /\ r.todo = tasks[t].todo /\ r.job = tasks[t].job
      /\ r.since = tasks[t].since /\ r.got = tasks[t].got
  BY <1>2 DEF Task
<1>5. /\ tasks'[t] = r /\ tasks' \in [Caller -> Task]
      /\ \A u \in Caller : u # t => tasks'[u] = tasks[u]
  BY <1>1, <1>4 DEF FeedIInv, FeedTypeOK
<1>. HIDE DEF r
<1>6. FeedTypeOK' /\ OfThePast'
  BY <1>1, <1>5 DEF FeedIInv, FeedTypeOK, OfThePast
<1>7. Led'
  <2>1. ASSUME NEW u \in Caller, tasks'[u].at = "loading"
        PROVE  inflight'[Head(tasks'[u].todo)] # None
    <3>1. CASE u = t
      BY <1>1, <1>4, <1>5, <3>1
    <3>2. CASE u # t
      BY <1>1, <1>5, <2>1, <3>2 DEF FeedIInv, Led
    <3>. QED
      BY <3>1, <3>2
  <2>2. ASSUME NEW j \in Key, inflight'[j] # None
        PROVE  /\ tasks'[inflight'[j]].at = "loading" /\ Head(tasks'[inflight'[j]].todo) = j
               /\ ~Fresh(j)'
    <3>1. inflight[j] \in Caller /\ tasks[inflight[j]].at = "loading"
          /\ Head(tasks[inflight[j]].todo) = j /\ ~Fresh(j) /\ inflight[j] # t
      BY <1>1, <2>2 DEF FeedIInv, FeedTypeOK, Led
    <3>. QED
      BY <1>1, <1>5, <3>1 DEF Fresh
  <2>. QED
    BY <2>1, <2>2 DEF Led
<1>8. Paced'
  <2> SUFFICES ASSUME NEW u \in Caller, Owns(u)'
               PROVE  tasks'[u] = tasks[u] /\ Owns(u)
    BY <1>1 DEF FeedIInv, Paced
  <2>. QED
    BY <1>1, <1>3, <1>4, <1>5 DEF Owns
<1>9. OnTrack(t)'
  <2>1. /\ calls[o].deadline <= clock + MaxWait /\ calls[o].deadline \in Nat
    BY <1>3, Facts DEF FeedIInv, Paced
  <2>2. Began(t)' = calls[o].deadline - MaxWait
    BY <1>1, <1>4, <1>5 DEF Began
  <2>3. Began(t) = clock
    BY <1>1 DEF Began
  <2>4. Began(t)' \in Int /\ Began(t)' <= Began(t)
    BY <1>2, <2>1, <2>2, <2>3
  <2>5. /\ Busy(t) /\ Busy(t)' /\ Done(t)' = Done(t)
    BY <1>1, <1>4, <1>5 DEF Busy, Done
  <2>6. AtMost(Done(t)) \in Int /\ AtMost(Done(t) - 1) \in Int
    <3>1. tasks[t].job \in Job
      BY <1>2, <2>5 DEF OnTrack
    <3>2. tasks[t].job.ids \in SUBSET Id
      BY <3>1 DEF Job
    <3>3. Len(Chunks(tasks[t].job.ids)) \in Nat
      <4>1. Chunks(tasks[t].job.ids) \in Seq(Key)
        BY <3>2, ChunksCover
      <4>. QED
        BY <4>1
    <3>4. Done(t) \in Int /\ Done(t) - 1 \in Int
      BY <3>3, Facts DEF FeedIInv, Done
    <3>. QED
      BY <3>4, Spans
  <2>7. Began(t)' - tasks[t].since <= AtMost(Done(t))
    <3>1. Began(t) - tasks[t].since <= AtMost(Done(t))
      BY <1>2, <2>5 DEF OnTrack
    <3>. QED
      BY <1>2, <2>3, <2>4, <2>6, <3>1
  <2>8. ASSUME NEW q \in tasks[t].got
        PROVE  q.at <= clock /\ Began(t)' - q.at < Ttl + AtMost(Done(t) - 1)
    <3>1. q.at <= clock /\ Began(t) - q.at < Ttl + AtMost(Done(t) - 1) /\ q.at \in Nat
      BY <1>2 DEF OnTrack
    <3>2. Ttl \in Nat
      BY FeedAssumption
    <3>. QED
      BY <1>2, <2>3, <2>4, <2>6, <3>1, <3>2
  <2>9. /\ tasks'[t].at \in {"asking", "loading"} /\ tasks'[t].todo # <<>>
        /\ tasks'[t].job \in Job
        /\ Len(tasks'[t].todo) <= Len(Chunks(tasks'[t].job.ids))
        /\ tasks'[t].since <= clock'
    BY <1>1, <1>2, <1>4, <1>5, <2>5 DEF OnTrack
  <2>. QED
    BY <1>1, <1>4, <1>5, <2>5, <2>7, <2>8, <2>9 DEF OnTrack
<1>10. ASSUME NEW u \in Caller, u # t
       PROVE  OnTrack(u)'
  <2>1. tasks'[u] = tasks[u] /\ OnTrack(u)
    BY <1>5, <1>10 DEF FeedIInv
  <2>2. Began(u)' = Began(u)
    BY <1>1, <2>1 DEF Began
  <2>. QED
    BY <1>1, <2>1, <2>2, Unmoved
<1>. QED
  BY <1>6, <1>7, <1>8, <1>9, <1>10 DEF FeedIInv

\* What a turn in the limiter comes to.
LEMMA Turned ==
  ASSUME IInv, NEW t \in Caller, NEW deadline \in Nat, clock <= deadline, Try(t, deadline)
  PROVE  /\ clock' = clock
         /\ calls' \in [Caller -> Call] /\ \A u \in Caller : u # t => calls'[u] = calls[u]
         /\ calls'[t].deadline = deadline /\ calls'[t].status # "idle"
         /\ calls'[t].status = "waiting" =>
              clock <= calls'[t].wakeAt /\ calls'[t].wakeAt <= deadline
<1>1. PICK h \in head..Len(grants) + 1 : FirstInWindow(h, clock) /\ Decide(t, deadline, h)
  BY DEF Try
<1>2. calls \in [Caller -> Call] /\ IInv'
  BY TryKeeps DEF IInv, TypeOK
<1>3. calls' \in [Caller -> Call] /\ clock' = clock
  BY <1>2 DEF IInv, TypeOK, Try
<1>4. /\ \A u \in Caller : u # t => calls'[u] = calls[u]
      /\ calls'[t].deadline = deadline /\ calls'[t].status # "idle"
  BY <1>1, <1>2 DEF Decide, Becomes
<1>5. ASSUME calls'[t].status = "waiting"
      PROVE  clock <= calls'[t].wakeAt /\ calls'[t].wakeAt <= deadline
  <2>1. Stamps(h) >= perMinute /\ FreesAt(h) <= deadline /\ calls'[t].wakeAt = FreesAt(h)
    BY <1>1, <1>2, <1>5 DEF Decide, Becomes
  <2>2. /\ h \in 1..Len(grants) + 1 /\ clock \in Nat /\ Minute \in Nat /\ Len(grants) \in Nat
        /\ \A i \in DOMAIN grants : grants[i] \in Nat
        /\ DOMAIN grants = 1..Len(grants)
        /\ h <= Len(grants) => grants[h] > clock - Minute
    BY <1>1, WindowFacts
  <2>3. perMinute \in Nat /\ perMinute >= 1
    BY LimiterAssumption DEF IInv, TypeOK
  <2>4. h <= Len(grants)
    BY <2>1, <2>2, <2>3 DEF Stamps
  <2>. QED
    BY <2>1, <2>2, <2>4 DEF FreesAt
<1>. QED
  BY <1>3, <1>4, <1>5

\* A task that begins a load, or is woken up while it does, has a call in the limiter that
\* began when the task asked.
LEMMA LoadKeeps ==
  ASSUME IInv, FeedIInv, NEW t \in Caller, Miss(t) \/ Awake(t)
  PROVE  FeedIInv'
<1>. DEFINE k == Head(tasks[t].todo)
            deadline == IF tasks[t].at = "loading" THEN calls[t].deadline ELSE clock + MaxWait
            sent == IF calls'[t].status = "granted" THEN clock ELSE tasks[t].sent
            r == [tasks[t] EXCEPT !.at = "loading", !.sent = sent]
<1>1. /\ \/ tasks[t].at = "asking" /\ inflight[k] = None
         \/ tasks[t].at = "loading" /\ inflight[k] = t
      /\ ~Fresh(k) /\ inflight' = [inflight EXCEPT ![k] = t]
      /\ Try(t, deadline) /\ clock <= deadline
      /\ tasks' = [tasks EXCEPT ![t] = r]
      /\ UNCHANGED <<entries, stored>>
  <2>1. CASE Miss(t)
    <3>1. /\ tasks[t].at = "asking" /\ inflight[k] = None /\ ~Fresh(k)
          /\ inflight' = [inflight EXCEPT ![k] = t]
          /\ Try(t, deadline) /\ UNCHANGED <<entries, stored>>
      BY <2>1 DEF Miss, Acquire
    <3>2. tasks' = [tasks EXCEPT ![t] = r]
      BY <2>1 DEF Miss, Loads, FeedIInv, FeedTypeOK
    <3>3. clock <= deadline
      BY <3>1, Facts DEF FeedIInv
    <3>. QED
      BY <3>1, <3>2, <3>3
  <2>2. CASE Awake(t)
    <3>1. /\ tasks[t].at = "loading" /\ inflight[k] = t
          /\ inflight' = inflight
          /\ Try(t, deadline) /\ UNCHANGED <<entries, stored>>
      BY <2>2 DEF Awake, Owns, Wake
    <3>2. tasks' = [tasks EXCEPT ![t] = r]
      BY <2>2 DEF Awake, Loads, FeedIInv, FeedTypeOK
    <3>3. ~Fresh(k) /\ k \in Key
      BY <3>1, Waits
    <3>4. inflight' = [inflight EXCEPT ![k] = t]
      BY <3>1, <3>3 DEF FeedIInv, FeedTypeOK
    <3>5. clock <= deadline
      <4>1. calls[t].status = "waiting" /\ clock <= calls[t].wakeAt /\ calls[t].wakeAt <= calls[t].deadline
        BY <2>2 DEF Awake, Wake, FeedIInv, Paced
      <4>. QED
        BY <3>1, <4>1, Facts DEF FeedIInv
    <3>. QED
      BY <3>1, <3>2, <3>3, <3>4, <3>5
  <2>. QED
    BY <2>1, <2>2
<1>2. /\ tasks[t] \in Task /\ OnTrack(t) /\ k \in Key /\ tasks[t].todo # <<>>
      /\ clock \in Nat /\ MaxWait \in Nat /\ Timeout \in Nat /\ tasks[t].sent \in Nat
      /\ calls[t].deadline \in Nat
  BY <1>1, Facts DEF FeedIInv, OnTrack
<1>3. deadline \in Nat
  BY <1>2
<1>4. deadline <= clock + MaxWait
  <2>1. CASE tasks[t].at = "asking"
    BY <1>2, <2>1
  <2>2. CASE tasks[t].at = "loading" /\ inflight[k] = t
    BY <2>2 DEF FeedIInv, Paced, Owns
  <2>. QED
    BY <1>1, <2>1, <2>2
<1>5. Began(t) = deadline - MaxWait
  <2>1. CASE tasks[t].at = "asking"
    BY <1>2, <2>1 DEF Began
  <2>2. CASE tasks[t].at = "loading" /\ inflight[k] = t
    BY <2>2 DEF Began
  <2>. QED
    BY <1>1, <2>1, <2>2
<1>. HIDE DEF deadline
<1>6. /\ clock' = clock
      /\ calls' \in [Caller -> Call] /\ \A u \in Caller : u # t => calls'[u] = calls[u]
      /\ calls'[t].deadline = deadline /\ calls'[t].status # "idle"
      /\ calls'[t].status = "waiting" =>
           clock <= calls'[t].wakeAt /\ calls'[t].wakeAt <= deadline
  BY <1>1, <1>3, Turned
<1>7. /\ r \in Task /\ r.at = "loading" /\ r.todo = tasks[t].todo /\ r.job = tasks[t].job
      /\ r.since = tasks[t].since /\ r.got = tasks[t].got
      /\ calls'[t].status = "granted" => r.sent = clock
  BY <1>2 DEF Task
<1>8. /\ tasks'[t] = r /\ tasks' \in [Caller -> Task]
      /\ \A u \in Caller : u # t => tasks'[u] = tasks[u]
  BY <1>1, <1>7 DEF FeedIInv, FeedTypeOK
<1>9. /\ inflight' \in [Key -> Caller \cup {None}] /\ inflight'[k] = t
      /\ \A j \in Key : j # k => inflight'[j] = inflight[j]
  BY <1>1, <1>2 DEF FeedIInv, FeedTypeOK
<1>. HIDE DEF r
<1>10. FeedTypeOK' /\ OfThePast'
  BY <1>1, <1>6, <1>8, <1>9 DEF FeedIInv, FeedTypeOK, OfThePast
<1>11. Led'
  <2>1. ASSUME NEW u \in Caller, tasks'[u].at = "loading"
        PROVE  inflight'[Head(tasks'[u].todo)] # None
    <3>1. CASE Head(tasks'[u].todo) = k
      BY <1>9, <3>1, FeedAssumption
    <3>2. CASE Head(tasks'[u].todo) # k
      <4>1. u # t
        BY <1>7, <1>8, <3>2
      <4>2. tasks'[u] = tasks[u] /\ tasks[u].at = "loading"
        BY <1>8, <2>1, <4>1
      <4>3. Head(tasks[u].todo) \in Key
        BY <4>2, Waits
      <4>. QED
        BY <1>9, <3>2, <4>2, <4>3 DEF FeedIInv, Led
    <3>. QED
      BY <3>1, <3>2
  <2>2. ASSUME NEW j \in Key, inflight'[j] # None
        PROVE  /\ tasks'[inflight'[j]].at = "loading" /\ Head(tasks'[inflight'[j]].todo) = j
               /\ ~Fresh(j)'
    <3>1. CASE j = k
      BY <1>1, <1>6, <1>7, <1>8, <1>9, <3>1 DEF Fresh
    <3>2. CASE j # k
      <4>1. inflight'[j] = inflight[j]
        BY <1>9, <3>2
      <4>2. inflight[j] \in Caller /\ tasks[inflight[j]].at = "loading"
            /\ Head(tasks[inflight[j]].todo) = j /\ ~Fresh(j)
        BY <2>2, <4>1 DEF FeedIInv, FeedTypeOK, Led
      <4>3. inflight[j] # t
        BY <3>2, <4>2
      <4>. QED
        BY <1>1, <1>6, <1>8, <4>1, <4>2, <4>3 DEF Fresh
    <3>. QED
      BY <3>1, <3>2
  <2>. QED
    BY <2>1, <2>2 DEF Led
<1>12. ASSUME NEW u \in Caller, u # t, tasks[u].at = "loading"
       PROVE  /\ inflight'[Head(tasks[u].todo)] = inflight[Head(tasks[u].todo)]
              /\ calls'[inflight[Head(tasks[u].todo)]].deadline
                   = calls[inflight[Head(tasks[u].todo)]].deadline
  <2>. DEFINE j == Head(tasks[u].todo)
  <2>1. j \in Key /\ inflight[j] \in Caller /\ inflight[j] # None /\ Head(tasks[inflight[j]].todo) = j
        /\ tasks[inflight[j]].at = "loading"
    BY <1>12, Waits, FeedAssumption
  <2>2. inflight'[j] = inflight[j]
    <3>1. CASE j = k
      BY <1>1, <1>9, <2>1, <3>1
    <3>2. CASE j # k
      BY <1>9, <2>1, <3>2
    <3>. QED
      BY <3>1, <3>2
  <2>3. calls'[inflight[j]].deadline = calls[inflight[j]].deadline
    <3>1. CASE inflight[j] # t
      BY <1>6, <2>1, <3>1
    <3>2. CASE inflight[j] = t
      <4>1. tasks[t].at = "loading"
        BY <2>1, <3>2
      <4>. QED
        BY <1>6, <3>2, <4>1 DEF deadline
    <3>. QED
      BY <3>1, <3>2
  <2>. QED
    BY <2>2, <2>3
<1>13. Paced'
  <2> SUFFICES ASSUME NEW u \in Caller, Owns(u)'
               PROVE  /\ calls'[u].status # "idle"
                      /\ calls'[u].deadline <= clock + MaxWait
                      /\ calls'[u].status = "waiting" =>
                           clock <= calls'[u].wakeAt /\ calls'[u].wakeAt <= calls'[u].deadline
                      /\ calls'[u].status = "refused" => clock <= calls'[u].deadline
                      /\ calls'[u].status = "granted" =>
                           tasks'[u].sent <= calls'[u].deadline /\ clock <= tasks'[u].sent + Timeout
    BY <1>6 DEF Paced
  <2>1. CASE u = t
    <3>1. calls'[t].status = "granted" =>
            tasks'[t].sent <= calls'[t].deadline /\ clock <= tasks'[t].sent + Timeout
      BY <1>1, <1>2, <1>6, <1>7, <1>8
    <3>. QED
      BY <1>1, <1>4, <1>6, <2>1, <3>1
  <2>2. CASE u # t
    <3>1. tasks'[u] = tasks[u] /\ calls'[u] = calls[u] /\ tasks[u].at = "loading"
      BY <1>6, <1>8, <2>2 DEF Owns
    <3>2. Owns(u)
      BY <1>12, <2>2, <3>1 DEF Owns
    <3>. QED
      BY <3>1, <3>2 DEF FeedIInv, Paced
  <2>. QED
    BY <2>1, <2>2
<1>14. ASSUME NEW u \in Caller
       PROVE  OnTrack(u)'
  <2>1. CASE u = t
    <3>1. Began(t)' = Began(t)
      BY <1>5, <1>6, <1>7, <1>8, <1>9 DEF Began
    <3>2. Busy(t) /\ Busy(t)' /\ Done(t)' = Done(t)
      BY <1>1, <1>7, <1>8 DEF Busy, Done
    <3>. QED
      BY <1>2, <1>6, <1>7, <1>8, <2>1, <3>1, <3>2 DEF OnTrack
  <2>2. CASE u # t
    <3>1. tasks'[u] = tasks[u] /\ OnTrack(u)
      BY <1>8, <2>2 DEF FeedIInv
    <3>2. Began(u)' = Began(u)
      BY <1>6, <1>12, <2>2, <3>1 DEF Began
    <3>. QED
      BY <1>6, <3>1, <3>2, Unmoved
  <2>. QED
    BY <2>1, <2>2
<1>. QED
  BY <1>10, <1>11, <1>13, <1>14 DEF FeedIInv

\* When a load ends, whoever waited for it goes on, or ends with it; the rest does not see it.
LEMMA LoadEnds ==
  ASSUME IInv, FeedIInv, NEW t \in Caller, NEW k, k = Head(tasks[t].todo), Owns(t),
         UNCHANGED <<clock, calls, stored>>,
         entries' \in [Key -> [at : Nat, ids : SUBSET Id] \cup {None}],
         \A j \in Key : entries'[j] # None => entries'[j].at <= clock,
         \A j \in Key : j # k => entries'[j] \in {entries[j], None},
         inflight' = [inflight EXCEPT ![k] = None],
         tasks' \in [Caller -> Task],
         \A u \in Caller : u \notin Waiting(k) => tasks'[u] = tasks[u],
         \A u \in Waiting(k) : tasks'[u].at # "loading" /\ OnTrack(u)'
  PROVE  FeedIInv'
<1>1. k \in Key
  BY Waits DEF Owns
<1>2. /\ inflight' \in [Key -> Caller \cup {None}] /\ inflight'[k] = None
      /\ \A j \in Key : j # k => inflight'[j] = inflight[j]
  BY <1>1 DEF FeedIInv, FeedTypeOK
<1>3. FeedTypeOK' /\ OfThePast'
  BY <1>2 DEF FeedIInv, FeedTypeOK, OfThePast
<1>4. ASSUME NEW u \in Caller, tasks'[u].at = "loading"
      PROVE  /\ tasks'[u] = tasks[u] /\ Head(tasks[u].todo) \in Key /\ Head(tasks[u].todo) # k
             /\ inflight'[Head(tasks[u].todo)] = inflight[Head(tasks[u].todo)]
  <2>1. u \notin Waiting(k)
    BY <1>4
  <2>2. tasks'[u] = tasks[u]
    BY <2>1
  <2>3. Head(tasks[u].todo) \in Key /\ Head(tasks[u].todo) # k
    BY <1>4, <2>1, <2>2, Waits DEF Waiting
  <2>. QED
    BY <1>2, <2>2, <2>3
<1>5. Led'
  <2>1. ASSUME NEW u \in Caller, tasks'[u].at = "loading"
        PROVE  inflight'[Head(tasks'[u].todo)] # None
    BY <1>4, <2>1 DEF FeedIInv, Led
  <2>2. ASSUME NEW j \in Key, inflight'[j] # None
        PROVE  /\ tasks'[inflight'[j]].at = "loading" /\ Head(tasks'[inflight'[j]].todo) = j
               /\ ~Fresh(j)'
    <3>1. j # k /\ inflight'[j] = inflight[j]
      BY <1>2, <2>2
    <3>2. inflight[j] \in Caller /\ tasks[inflight[j]].at = "loading"
          /\ Head(tasks[inflight[j]].todo) = j /\ ~Fresh(j)
      BY <2>2, <3>1 DEF FeedIInv, FeedTypeOK, Led
    <3>3. tasks'[inflight[j]] = tasks[inflight[j]]
      BY <3>1, <3>2 DEF Waiting
    <3>4. ~Fresh(j)'
      BY <3>1, <3>2 DEF Fresh
    <3>. QED
      BY <3>1, <3>2, <3>3, <3>4
  <2>. QED
    BY <2>1, <2>2 DEF Led
<1>6. Paced'
  <2> SUFFICES ASSUME NEW u \in Caller, Owns(u)'
               PROVE  tasks'[u] = tasks[u] /\ Owns(u)
    BY DEF FeedIInv, Paced
  <2>. QED
    BY <1>4 DEF Owns
<1>7. ASSUME NEW u \in Caller
      PROVE  OnTrack(u)'
  <2>1. CASE u \in Waiting(k)
    BY <2>1
  <2>2. CASE u \notin Waiting(k)
    <3>1. tasks'[u] = tasks[u] /\ OnTrack(u)
      BY <2>2 DEF FeedIInv
    <3>2. Began(u)' = Began(u)
      BY <1>4, <3>1 DEF Began
    <3>. QED
      BY <3>1, <3>2, Unmoved
  <2>. QED
    BY <2>1, <2>2
<1>. QED
  BY <1>3, <1>5, <1>6, <1>7 DEF FeedIInv

LEMMA SettleKeeps ==
  ASSUME IInv, FeedIInv, NEW t \in Caller, NEW answer \in [at : Nat, ids : SUBSET Id],
         answer.at = clock, Settle(t, answer)
  PROVE  FeedIInv'
<1>. DEFINE k == Head(tasks[t].todo)
            known == [entries EXCEPT ![k] = answer]
<1>1. /\ Owns(t) /\ entries' = Sweep(known) /\ inflight' = [inflight EXCEPT ![k] = None]
      /\ tasks' = [u \in Caller |-> IF u \in Waiting(k) THEN Take(tasks[u], answer) ELSE tasks[u]]
      /\ UNCHANGED <<clock, calls, stored>>
  BY DEF Settle, limiter
<1>2. k \in Key /\ clock \in Nat /\ Ttl \in Nat \ {0}
  BY <1>1, Waits, Facts DEF Owns, FeedIInv
<1>. HIDE DEF k
<1>3. /\ known \in [Key -> [at : Nat, ids : SUBSET Id] \cup {None}]
      /\ \A j \in Key : known[j] # None => known[j].at <= clock
      /\ \A j \in Key : j # k => known[j] = entries[j]
  BY <1>2 DEF FeedIInv, FeedTypeOK, OfThePast
<1>4. entries' \in [Key -> [at : Nat, ids : SUBSET Id] \cup {None}]
      /\ \A j \in Key : entries'[j] \in {known[j], None}
  <2>. HIDE DEF known
  <2>1. entries' = known \/ entries' = [j \in Key |-> IF known[j] # None /\ known[j].at + Ttl <= clock
                                                        THEN None ELSE known[j]]
    BY <1>1 DEF Sweep
  <2>. QED
    BY <1>3, <2>1
<1>. HIDE DEF known
<1>5. ASSUME NEW u \in Waiting(k)
      PROVE  tasks'[u] \in Task /\ tasks'[u].at # "loading" /\ OnTrack(u)'
  <2>1. u \in Caller /\ tasks[u].at = "loading" /\ tasks'[u] = Take(tasks[u], answer)
    BY <1>1 DEF Waiting
  <2>2. answer.at <= clock /\ clock < answer.at + Ttl
    BY <1>2
  <2>. QED
    BY <1>1, <2>1, <2>2, Taken
<1>6. \A u \in Caller : u \notin Waiting(k) => tasks'[u] = tasks[u]
  BY <1>1
<1>7. tasks' \in [Caller -> Task]
  BY <1>1, <1>5, <1>6 DEF FeedIInv, FeedTypeOK
<1>8. k = Head(tasks[t].todo)
  BY DEF k
<1>. QED
  BY <1>1, <1>3, <1>4, <1>5, <1>6, <1>7, <1>8, LoadEnds

LEMMA AnswerKeeps ==
  ASSUME IInv, FeedIInv, NEW t \in Caller, Answer(t) \/ NothingFound(t)
  PROVE  FeedIInv'
<1>1. tasks[t].at = "loading" /\ Head(tasks[t].todo) \in Key /\ Head(tasks[t].todo) \subseteq Id
      /\ clock \in Nat
  <2>1. tasks[t].at = "loading"
    BY DEF Answer, NothingFound
  <2>. QED
    BY <2>1, Waits, Facts DEF Key, FeedIInv
<1>2. CASE Answer(t)
  <2>1. PICK body \in Body(Head(tasks[t].todo)) : Settle(t, ParseQuotes(body))
    BY <1>2 DEF Answer
  <2>2. DOMAIN body = Head(tasks[t].todo)
    BY DEF Body
  <2>3. ParseQuotes(body) \in [at : Nat, ids : SUBSET Id] /\ ParseQuotes(body).at = clock
    BY <1>1, <2>2 DEF ParseQuotes
  <2>. QED
    BY <2>1, <2>3, SettleKeeps
<1>3. CASE NothingFound(t)
  BY <1>1, <1>3, SettleKeeps DEF NothingFound
<1>. QED
  BY <1>2, <1>3

\* A load that fails takes with it whoever waits for it, and leaves nothing behind.
LEMMA FailKeeps ==
  ASSUME IInv, FeedIInv, NEW t \in Caller, Refuse(t) \/ CallFails(t)
  PROVE  FeedIInv'
<1>. DEFINE k == Head(tasks[t].todo)
<1>1. Owns(t) /\ Fail(t, k)
  BY DEF Refuse, CallFails
<1>2. /\ tasks' = [u \in Caller |-> IF u \in Waiting(k) THEN Ended(tasks[u]) ELSE tasks[u]]
      /\ inflight' = [inflight EXCEPT ![k] = None]
      /\ UNCHANGED <<clock, calls, entries, stored>>
  BY <1>1 DEF Fail, limiter
<1>3. ASSUME NEW u \in Waiting(k)
      PROVE  tasks'[u] \in Task /\ tasks'[u].at # "loading" /\ OnTrack(u)'
  BY <1>2, Ends DEF Waiting
<1>4. \A u \in Caller : u \notin Waiting(k) => tasks'[u] = tasks[u]
  BY <1>2
<1>5. tasks' \in [Caller -> Task]
  BY <1>2, <1>3, <1>4 DEF FeedIInv, FeedTypeOK
<1>6. /\ entries' \in [Key -> [at : Nat, ids : SUBSET Id] \cup {None}]
      /\ \A j \in Key : entries'[j] # None => entries'[j].at <= clock
      /\ \A j \in Key : j # k => entries'[j] \in {entries[j], None}
  BY <1>2 DEF FeedIInv, FeedTypeOK, OfThePast
<1>7. k = Head(tasks[t].todo)
  OBVIOUS
<1>. HIDE DEF k
<1>. QED
  BY <1>1, <1>2, <1>3, <1>4, <1>5, <1>6, <1>7, LoadEnds

\* Time passes only while every call is within its time.
LEMMA PassKeeps ==
  ASSUME IInv, FeedIInv, Pass
  PROVE  FeedIInv'
<1>1. /\ clock' = clock + 1 /\ clock \in Nat /\ Timeout \in Nat /\ MaxWait \in Nat /\ Ttl \in Nat
      /\ UNCHANGED <<calls, entries, inflight, tasks, stored>>
  BY Facts DEF Pass, Tick, feed, FeedIInv
<1>2. FeedTypeOK'
  BY <1>1 DEF FeedIInv, FeedTypeOK
<1>3. OfThePast'
  <2>1. ASSUME NEW j \in Key, entries[j] # None
        PROVE  entries[j].at <= clock + 1
    <3>1. entries[j].at \in Nat /\ entries[j].at <= clock
      BY <2>1 DEF FeedIInv, FeedTypeOK, OfThePast
    <3>. QED
      BY <1>1, <3>1
  <2>2. ASSUME NEW i \in Id, stored[i] # None
        PROVE  stored[i] <= clock + 1
    <3>1. stored[i] \in Nat /\ stored[i] <= clock
      BY <2>2 DEF FeedIInv, FeedTypeOK, OfThePast
    <3>. QED
      BY <1>1, <3>1
  <2>. QED
    BY <1>1, <2>1, <2>2 DEF OfThePast
<1>4. Led'
  <2>1. \A u \in Caller : tasks'[u].at = "loading" => inflight'[Head(tasks'[u].todo)] # None
    BY <1>1 DEF FeedIInv, Led
  <2>2. ASSUME NEW j \in Key, inflight'[j] # None
        PROVE  /\ tasks'[inflight'[j]].at = "loading" /\ Head(tasks'[inflight'[j]].todo) = j
               /\ ~Fresh(j)'
    <3>1. tasks[inflight[j]].at = "loading" /\ Head(tasks[inflight[j]].todo) = j /\ ~Fresh(j)
      BY <1>1, <2>2 DEF FeedIInv, Led
    <3>2. entries[j] # None => entries[j].at \in Nat
      BY DEF FeedIInv, FeedTypeOK
    <3>3. ~Fresh(j)'
      BY <1>1, <3>1, <3>2 DEF Fresh
    <3>. QED
      BY <1>1, <3>1, <3>3
  <2>. QED
    BY <2>1, <2>2 DEF Led
<1>5. Paced'
  <2> SUFFICES ASSUME NEW u \in Caller, Owns(u)'
               PROVE  /\ calls[u].status # "idle"
                      /\ calls[u].deadline <= clock' + MaxWait
                      /\ calls[u].status = "waiting" =>
                           clock' <= calls[u].wakeAt /\ calls[u].wakeAt <= calls[u].deadline
                      /\ calls[u].status = "refused" => clock' <= calls[u].deadline
                      /\ calls[u].status = "granted" =>
                           tasks[u].sent <= calls[u].deadline /\ clock' <= tasks[u].sent + Timeout
    BY <1>1 DEF Paced
  <2>1. Owns(u)
    BY <1>1 DEF Owns
  <2>2. \/ calls[u].status = "waiting" /\ clock < calls[u].wakeAt
        \/ calls[u].status = "granted" /\ clock < tasks[u].sent + Timeout
    BY <2>1 DEF Pass
  <2>3. calls[u].deadline \in Nat /\ calls[u].wakeAt \in Nat /\ tasks[u].sent \in Nat
    BY Facts DEF FeedIInv
  <2>4. /\ calls[u].deadline <= clock + MaxWait
        /\ calls[u].status = "waiting" => calls[u].wakeAt <= calls[u].deadline
        /\ calls[u].status = "granted" => tasks[u].sent <= calls[u].deadline
    BY <2>1 DEF FeedIInv, Paced
  <2>. QED
    BY <1>1, <2>2, <2>3, <2>4
<1>6. ASSUME NEW u \in Caller
      PROVE  OnTrack(u)'
  <2>1. /\ OnTrack(u) /\ tasks[u].at \in {"idle", "loading"} /\ tasks[u].since \in Nat
        /\ tasks[u].got \subseteq [id : Id, at : Nat]
    BY Facts DEF FeedIInv, Pass
  <2>2. Done(u)' = Done(u) /\ (tasks[u].at = "loading" => Began(u)' = Began(u))
    BY <1>1 DEF Done, Began
  <2>3. CASE tasks[u].at = "idle"
    BY <1>1, <2>1, <2>3 DEF OnTrack, Busy
  <2>4. CASE tasks[u].at = "loading"
    <3>1. tasks[u].since <= clock + 1
      BY <1>1, <2>1, <2>4 DEF OnTrack, Busy
    <3>2. ASSUME NEW q \in tasks[u].got
          PROVE  q.at <= clock + 1 /\ Began(u) - q.at < Ttl + AtMost(Done(u) - 1)
      <4>1. q.at <= clock /\ q.at \in Nat /\ Began(u) - q.at < Ttl + AtMost(Done(u) - 1)
        BY <2>1 DEF OnTrack
      <4>. QED
        BY <1>1, <4>1
    <3>. QED
      BY <1>1, <2>1, <2>2, <2>4, <3>1, <3>2 DEF OnTrack, Busy
  <2>. QED
    BY <2>1, <2>3, <2>4
<1>. QED
  BY <1>2, <1>3, <1>4, <1>5, <1>6 DEF FeedIInv

LEMMA FeedBegins == FeedInit => FeedIInv
<1> SUFFICES ASSUME FeedInit
             PROVE  FeedIInv
  OBVIOUS
<1>1. FeedTypeOK
  BY FeedAssumption DEF FeedInit, FeedTypeOK, Idle, Task
<1>2. \A t \in Caller : tasks[t] = Idle
  BY DEF FeedInit
<1>3. Led /\ Paced /\ OfThePast
  BY <1>2 DEF FeedInit, Led, Paced, OfThePast, Owns, Idle
<1>4. \A t \in Caller : OnTrack(t)
  BY <1>2 DEF OnTrack, Busy, Idle
<1>. QED
  BY <1>1, <1>3, <1>4 DEF FeedIInv

\* The inductive invariant of the client and the market store: each load under way is paid
\* for by one task that waits for it, no call outlasts one wait and one timeout, and so every
\* task is within the time of the keys it is done with (cache.ts:14-40, client.ts:134-190).
THEOREM FeedInvariance == FeedSpec => [](IInv /\ FeedIInv)
<1>1. FeedSpec => []IInv
  BY InPlace, Invariance
<1>2. IInv /\ FeedIInv /\ [FeedNext]_<<limiter, feed>> => FeedIInv'
  <2> SUFFICES ASSUME IInv, FeedIInv, [FeedNext]_<<limiter, feed>>
               PROVE  FeedIInv'
    OBVIOUS
  <2>1. ASSUME NEW t \in Caller, NEW job \in Jobs[t], Start(t, job)
        PROVE  FeedIInv'
    BY <2>1, StartKeeps
  <2>2. ASSUME NEW t \in Caller, Step(t)
        PROVE  FeedIInv'
    BY <2>2, HitKeeps, JoinKeeps, LoadKeeps, FailKeeps, StoreKeeps, EndKeeps DEF Step
  <2>3. ASSUME NEW t \in Caller, Answer(t) \/ NothingFound(t) \/ CallFails(t) \/ StoreFails(t)
        PROVE  FeedIInv'
    BY <2>3, AnswerKeeps, FailKeeps, EndKeeps
  <2>4. ASSUME NEW t \in Caller, NEW rate \in 1..MaxRate, Replan(t, rate)
        PROVE  FeedIInv'
    BY <2>4, ReplanKeeps
  <2>5. CASE Pass
    BY <2>5, PassKeeps
  <2>6. CASE UNCHANGED <<limiter, feed>>
    <3>1. UNCHANGED <<clock, calls, entries, inflight, tasks, stored>>
      BY <2>6 DEF limiter, feed
    <3>2. FeedTypeOK' /\ Led' /\ Paced' /\ OfThePast'
      BY <3>1 DEF FeedIInv, FeedTypeOK, Led, Paced, OfThePast, Owns, Fresh
    <3>3. ASSUME NEW t \in Caller
          PROVE  OnTrack(t)'
      <4>1. Began(t)' = Began(t) /\ tasks'[t] = tasks[t] /\ OnTrack(t)
        BY <3>1 DEF Began, FeedIInv
      <4>. QED
        BY <3>1, <4>1, Unmoved
    <3>. QED
      BY <3>2, <3>3 DEF FeedIInv
  <2>. QED
    BY <2>1, <2>2, <2>3, <2>4, <2>5, <2>6 DEF FeedNext
<1>. QED
  BY <1>1, <1>2, FeedBegins, PTL DEF FeedSpec

-----------------------------------------------------------------------------
(* What follows for jobs, calls and quotes *)

\* How many calls a job takes.
LEMMA Calls ==
  ASSUME IInv, FeedIInv, NEW t \in Caller, Busy(t)
  PROVE  /\ Len(Chunks(tasks[t].job.ids)) \in Nat /\ Len(Chunks(Id)) \in Nat
         /\ Len(Chunks(tasks[t].job.ids)) <= Len(Chunks(Id))
         /\ Done(t) \in Int /\ Done(t) <= Len(Chunks(tasks[t].job.ids))
         /\ tasks[t].at = "loading" => Done(t) <= Len(Chunks(tasks[t].job.ids)) - 1
<1>1. tasks[t].job.ids \in SUBSET Id
  BY DEF FeedIInv, OnTrack, Job
<1>2. /\ Chunks(tasks[t].job.ids) \in Seq(Key) /\ Chunks(Id) \in Seq(Key)
      /\ Len(Chunks(tasks[t].job.ids)) <= Len(Chunks(Id))
  BY <1>1, ChunksCover
<1>3. /\ Len(tasks[t].todo) \in Nat
      /\ tasks[t].at = "loading" => Len(tasks[t].todo) >= 1
  BY Facts DEF FeedIInv, OnTrack
<1>4. Len(Chunks(tasks[t].job.ids)) \in Nat /\ Len(Chunks(Id)) \in Nat
  BY <1>2
<1>. DEFINE K == Len(Chunks(tasks[t].job.ids))
            l == Len(tasks[t].todo)
<1>5. Done(t) = K - l
  BY DEF Done
<1>6. K \in Nat /\ l \in Nat /\ (tasks[t].at = "loading" => l >= 1)
  BY <1>3, <1>4
<1>. HIDE DEF K, l
<1>7. Done(t) \in Int /\ Done(t) <= K /\ (tasks[t].at = "loading" => Done(t) <= K - 1)
  BY <1>5, <1>6
<1>. QED
  BY <1>2, <1>4, <1>7 DEF K

\* Every job ends in time, whoever fails while it shares a load and whoever takes the
\* place in the window that it woke up for (cache.ts:20-38, limiter.ts:15-35).
THEOREM EndInTime == FeedSpec => []JobsEndInTime
<1>1. IInv /\ FeedIInv => JobsEndInTime
  <2> SUFFICES ASSUME IInv, FeedIInv, NEW t \in Caller, Busy(t)
               PROVE  clock - tasks[t].since <= AtMost(Len(Chunks(tasks[t].job.ids)))
    BY DEF JobsEndInTime, AtMost
  <2>. DEFINE K == Len(Chunks(tasks[t].job.ids))
              d == Done(t)
              B == Began(t)
  <2>1. K \in Nat /\ d \in Int /\ d <= K /\ (tasks[t].at = "loading" => d <= K - 1)
    BY Calls
  <2>2. /\ clock \in Nat /\ tasks[t].since \in Nat /\ MaxWait \in Nat /\ Timeout \in Nat
        /\ B - tasks[t].since <= AtMost(d)
    BY Facts DEF FeedIInv, OnTrack
  <2>3. CASE tasks[t].at = "loading"
    <3>1. B \in Int /\ clock <= B + MaxWait + Timeout
      BY <2>3, Waits
    <3>. HIDE DEF K, d, B
    <3>2. d + 1 \in Int /\ d + 1 <= K
      BY <2>1, <2>3
    <3>3. /\ AtMost(d) \in Int /\ AtMost(d + 1) = AtMost(d) + MaxWait + Timeout
          /\ AtMost(d + 1) <= AtMost(K) /\ AtMost(K) \in Int
      BY <2>1, <3>2, Spans
    <3>4. clock - tasks[t].since <= AtMost(K)
      BY <2>2, <3>1, <3>3
    <3>. QED
      BY <3>4 DEF K
  <2>4. CASE tasks[t].at # "loading"
    <3>1. B = clock
      BY <2>4 DEF Began
    <3>. HIDE DEF K, d, B
    <3>2. AtMost(d) \in Int /\ AtMost(d) <= AtMost(K) /\ AtMost(K) \in Int
      BY <2>1, Spans
    <3>3. clock - tasks[t].since <= AtMost(K)
      BY <2>2, <3>1, <3>2
    <3>. QED
      BY <3>3 DEF K
  <2>. QED
    BY <2>3, <2>4
<1>. QED
  BY <1>1, FeedInvariance, PTL

\* Who is let through does so for a key that nobody else pays for.
LEMMA PaidStep ==
  ASSUME IInv, FeedIInv, [FeedNext]_<<limiter, feed>>, NEW t \in Caller,
         tasks'[t].at = "loading", calls'[t] # calls[t]
  PROVE  LET k == Head(tasks'[t].todo) IN ~Fresh(k) /\ inflight[k] \in {None, t}
<1>1. ASSUME NEW u \in Caller, NEW deadline, Try(u, deadline)
      PROVE  u = t
  <2>1. calls \in [Caller -> Call]
    BY DEF IInv, TypeOK
  <2>2. \A v \in Caller : v # u => calls'[v] = calls[v]
    BY <1>1, <2>1 DEF Try, Decide, Becomes
  <2>. QED
    BY <2>2
<1>2. Miss(t) \/ Awake(t)
  <2>1. PICK u \in Caller : Miss(u) \/ Awake(u)
    <3>1. \A u \in Caller : \A job : ~Start(u, job)
      BY DEF Start, limiter
    <3>2. \A u \in Caller : ~Hit(u) /\ ~Join(u) /\ ~Refuse(u) /\ ~Return(u) /\ ~StoreFails(u) /\ ~CallFails(u)
      BY DEF Hit, Join, Refuse, Return, StoreFails, CallFails, Fail, limiter
    <3>3. \A u \in Caller : ~Answer(u) /\ ~NothingFound(u) /\ \A q : ~Store(u, q)
      BY DEF Answer, NothingFound, Settle, Store, limiter
    <3>4. ~Pass /\ \A u \in Caller, rate \in 1..MaxRate : ~Replan(u, rate)
      BY DEF Pass, Tick, Replan, SetPerMinute
    <3>5. ~UNCHANGED <<limiter, feed>>
      BY DEF limiter
    <3>. QED
      BY <3>1, <3>2, <3>3, <3>4, <3>5 DEF FeedNext, Step
  <2>2. u = t
    BY <1>1, <2>1 DEF Miss, Awake, Acquire, Wake
  <2>. QED
    BY <2>1, <2>2
<1>3. tasks'[t].todo = tasks[t].todo
  BY <1>2 DEF Miss, Awake, Loads, FeedIInv, FeedTypeOK, Task
<1>4. CASE Miss(t)
  BY <1>3, <1>4 DEF Miss
<1>5. CASE Awake(t)
  BY <1>3, <1>5, Waits DEF Awake, Owns
<1>. QED
  BY <1>2, <1>4, <1>5

\* Nothing is paid for twice: a call goes out only when no answer to the same request
\* would still serve and no other call for it is under way, however long it slept
\* (cache.ts:14-40).
THEOREM Paid == FeedSpec => PaidOnce
<1>1. IInv /\ FeedIInv /\ [FeedNext]_<<limiter, feed>> =>
        [\A t \in Caller :
           tasks'[t].at = "loading" /\ calls'[t] # calls[t] /\ calls'[t].status = "granted" =>
             LET k == Head(tasks'[t].todo) IN ~Fresh(k) /\ inflight[k] \in {None, t}]_<<limiter, feed>>
  BY PaidStep
<1>. QED
  BY <1>1, FeedInvariance, PTL DEF FeedSpec, PaidOnce

\* How old an answer can be when it is stored.
LEMMA NoOlder ==
  ASSUME IInv, FeedIInv, NEW t \in Caller, NEW q \in tasks[t].got
  PROVE  /\ q.at \in Nat /\ q.id \in Id /\ q.at <= clock
         /\ AtMost(Len(Chunks(Id)) - 1) \in Int
         /\ clock - q.at < Ttl + AtMost(Len(Chunks(Id)) - 1)
<1>. DEFINE K == Len(Chunks(Id))
            d == Done(t)
            B == Began(t)
<1>1. /\ Busy(t) /\ q.at \in Nat /\ q.id \in Id /\ q.at <= clock
      /\ B - q.at < Ttl + AtMost(d - 1)
      /\ clock \in Nat /\ MaxWait \in Nat /\ Timeout \in Nat /\ Ttl \in Nat
  BY Facts DEF FeedIInv, OnTrack
<1>2. K \in Nat /\ d \in Int /\ d <= K /\ (tasks[t].at = "loading" => d <= K - 1)
  BY <1>1, Calls
<1>3. CASE tasks[t].at = "loading"
  <2>1. B \in Int /\ clock <= B + MaxWait + Timeout
    BY <1>3, Waits
  <2>. HIDE DEF K, d, B
  <2>2. d - 1 \in Int /\ (d - 1) + 1 = d /\ d <= K - 1 /\ K - 1 \in Int
    BY <1>2, <1>3
  <2>3. /\ AtMost(d - 1) \in Int /\ AtMost(d) = AtMost(d - 1) + MaxWait + Timeout
        /\ AtMost(d) <= AtMost(K - 1) /\ AtMost(K - 1) \in Int
    BY <1>2, <2>2, Spans
  <2>4. clock - q.at < Ttl + AtMost(K - 1)
    BY <1>1, <2>1, <2>3
  <2>. QED
    BY <1>1, <2>3, <2>4 DEF K
<1>4. CASE tasks[t].at # "loading"
  <2>1. B = clock
    BY <1>4 DEF Began
  <2>. HIDE DEF K, d, B
  <2>2. d - 1 \in Int /\ d - 1 <= K - 1 /\ K - 1 \in Int
    BY <1>2
  <2>3. AtMost(d - 1) \in Int /\ AtMost(d - 1) <= AtMost(K - 1) /\ AtMost(K - 1) \in Int
    BY <1>2, <2>2, Spans
  <2>4. clock - q.at < Ttl + AtMost(K - 1)
    BY <1>1, <2>1, <2>3
  <2>. QED
    BY <1>1, <2>3, <2>4 DEF K
<1>. QED
  BY <1>3, <1>4

\* Only one of the answers that a task holds changes a stored quote.
LEMMA StoredBy ==
  ASSUME IInv, FeedIInv, [FeedNext]_<<limiter, feed>>, NEW i \in Id, stored'[i] # stored[i]
  PROVE  \E t \in Caller : \E q \in tasks[t].got : q.id = i /\ stored'[i] = q.at
<1>0. PICK t \in Caller : \E q \in tasks[t].got : Store(t, q)
  <2>1. \A u \in Caller : \A job : ~Start(u, job)
    BY DEF Start
  <2>2. \A u \in Caller : ~Hit(u) /\ ~Join(u) /\ ~Refuse(u) /\ ~Return(u) /\ ~StoreFails(u) /\ ~CallFails(u)
                          /\ ~Miss(u) /\ ~Awake(u)
    BY DEF Hit, Join, Refuse, Return, StoreFails, CallFails, Fail, Miss, Awake
  <2>3. \A u \in Caller : ~Answer(u) /\ ~NothingFound(u)
    BY DEF Answer, NothingFound, Settle
  <2>4. ~Pass /\ \A u \in Caller, rate \in 1..MaxRate : ~Replan(u, rate)
    BY DEF Pass, feed, Replan
  <2>5. ~UNCHANGED <<limiter, feed>>
    BY DEF feed
  <2>. QED
    BY <2>1, <2>2, <2>3, <2>4, <2>5 DEF FeedNext, Step
<1>1. PICK q \in tasks[t].got : Store(t, q)
  BY <1>0
<1>2. stored' = [stored EXCEPT ![q.id] = q.at] /\ stored \in [Id -> Nat \cup {None}]
  BY <1>1 DEF Store, FeedIInv, FeedTypeOK
<1>3. q.id = i /\ stored'[i] = q.at
  BY <1>2
<1>. QED
  BY <1>3

\* A stored quote goes back in time by less than an answer is cached for and the later
\* calls of one refresh may take (market.ts:26-33, client.ts:214-232).
THEOREM Backwards == FeedSpec => BackwardsByLittle
<1>1. IInv /\ FeedIInv /\ [FeedNext]_<<limiter, feed>> =>
        [\A i \in Id :
           stored[i] # None /\ stored'[i] # stored[i] =>
             stored[i] - stored'[i] < Ttl + (Len(Chunks(Id)) - 1) * (MaxWait + Timeout)]_<<limiter, feed>>
  <2> SUFFICES ASSUME IInv, FeedIInv, [FeedNext]_<<limiter, feed>>, NEW i \in Id,
                      stored[i] # None, stored'[i] # stored[i]
               PROVE  stored[i] - stored'[i] < Ttl + AtMost(Len(Chunks(Id)) - 1)
    BY DEF AtMost
  <2>0. PICK t \in Caller : \E q \in tasks[t].got : stored'[i] = q.at
    BY StoredBy
  <2>1. PICK q \in tasks[t].got : stored'[i] = q.at
    BY <2>0
  <2>2. /\ q.at \in Nat /\ AtMost(Len(Chunks(Id)) - 1) \in Int
        /\ clock - q.at < Ttl + AtMost(Len(Chunks(Id)) - 1)
    BY NoOlder
  <2>3. stored[i] \in Nat /\ stored[i] <= clock /\ clock \in Nat /\ Ttl \in Nat
    BY Facts DEF FeedIInv, FeedTypeOK, OfThePast
  <2>. QED
    BY <2>1, <2>2, <2>3
<1>. QED
  BY <1>1, FeedInvariance, PTL DEF FeedSpec, BackwardsByLittle

\* What a step does to a task and to the stored quotes leaves its ids pursued.
LEMMA StaysPursued ==
  ASSUME IInv, FeedIInv, AgeCoversRefresh, [FeedNext]_<<limiter, feed>>,
         NEW t \in Caller, Pursued(t), Busy(t)' => Busy(t),
         tasks'[t].job = tasks[t].job, tasks'[t].missing = tasks[t].missing,
         tasks'[t].since = tasks[t].since, tasks'[t].todo = tasks[t].todo,
         \A q \in tasks[t].got : q \in tasks'[t].got \/ stored'[q.id] = q.at
  PROVE  Pursued(t)'
<1>1. SUFFICES ASSUME Busy(t)', tasks'[t].job.does = "ensure",
                      NEW i \in tasks'[t].job.ids \ tasks'[t].missing
               PROVE  \/ \E n \in DOMAIN tasks'[t].todo : i \in tasks'[t].todo[n]
                      \/ \E q \in tasks'[t].got : q.id = i
                      \/ stored'[i] # None /\ tasks'[t].since - stored'[i] <= MaxAge
  BY DEF Pursued
<1>2. /\ Busy(t) /\ tasks[t].job \in Job /\ tasks[t].since <= clock
      /\ tasks[t].since \in Nat /\ clock \in Nat /\ MaxAge \in Nat
  BY <1>1, Facts, FeedAssumption DEF FeedIInv, OnTrack
<1>3. i \in Id
  BY <1>2 DEF Job
<1>4. ASSUME NEW u \in Caller, NEW q \in tasks[u].got
      PROVE  q.at # None /\ tasks[t].since - q.at <= MaxAge
  <2>1. /\ q.at \in Nat /\ AtMost(Len(Chunks(Id)) - 1) \in Int
        /\ clock - q.at < Ttl + AtMost(Len(Chunks(Id)) - 1)
    BY NoOlder
  <2>2. Ttl + AtMost(Len(Chunks(Id)) - 1) <= MaxAge + 1 /\ Ttl \in Nat
    BY FeedAssumption DEF AgeCoversRefresh
  <2>3. tasks[t].since - q.at <= MaxAge
    BY <1>2, <2>1, <2>2
  <2>. QED
    BY <2>1, <2>3, FeedAssumption
<1>5. CASE \E n \in DOMAIN tasks[t].todo : i \in tasks[t].todo[n]
  BY <1>5
<1>6. CASE \E q \in tasks[t].got : q.id = i
  BY <1>4, <1>6
<1>7. CASE stored[i] # None /\ tasks[t].since - stored[i] <= MaxAge
  <2>1. CASE stored'[i] = stored[i]
    BY <1>7, <2>1
  <2>2. CASE stored'[i] # stored[i]
    <3>1. PICK u \in Caller : \E q \in tasks[u].got : stored'[i] = q.at
      BY <1>3, <2>2, StoredBy
    <3>. QED
      BY <1>4, <3>1
  <2>. QED
    BY <2>1, <2>2
<1>. QED
  BY <1>1, <1>2, <1>5, <1>6, <1>7 DEF Pursued

\* A task that takes an answer has each of its ids in it, or among the missing ones.
LEMMA TakenPursued ==
  ASSUME IInv, FeedIInv, NEW t \in Caller, Pursued(t), tasks[t].at \in {"asking", "loading"},
         NEW answer, tasks'[t] = Take(tasks[t], answer), UNCHANGED stored
  PROVE  Pursued(t)'
<1>. DEFINE todo == tasks[t].todo
            new == {[id |-> i, at |-> answer.at] : i \in answer.ids}
<1>1. /\ tasks[t] \in Task /\ Busy(t) /\ todo \in Seq(Key) /\ todo # <<>>
  BY Facts DEF FeedIInv, OnTrack, Busy
<1>2. /\ tasks'[t].todo = Tail(todo) /\ tasks'[t].got = tasks[t].got \cup new
      /\ tasks'[t].job = tasks[t].job /\ tasks'[t].since = tasks[t].since
      /\ tasks'[t].missing = tasks[t].missing \cup (Head(todo) \ answer.ids)
  BY <1>1 DEF Take, Task
<1>3. /\ Head(todo) = todo[1]
      /\ \A n \in DOMAIN todo : n = 1 \/ (n - 1 \in DOMAIN Tail(todo) /\ Tail(todo)[n - 1] = todo[n])
  <2>. HIDE DEF todo
  <2>. QED
    BY <1>1, Rest
<1>. HIDE DEF todo
<1>4. SUFFICES ASSUME tasks[t].job.does = "ensure",
                      NEW i \in tasks[t].job.ids \ tasks'[t].missing
               PROVE  \/ \E n \in DOMAIN Tail(todo) : i \in Tail(todo)[n]
                      \/ \E q \in tasks[t].got \cup new : q.id = i
                      \/ stored[i] # None /\ tasks[t].since - stored[i] <= MaxAge
  BY <1>2 DEF Pursued
<1>5. i \in tasks[t].job.ids \ tasks[t].missing /\ (i \in Head(todo) => i \in answer.ids)
  BY <1>2, <1>4
<1>6. CASE \E n \in DOMAIN todo : i \in todo[n]
  <2>1. PICK n \in DOMAIN todo : i \in todo[n]
    BY <1>6
  <2>2. CASE n = 1
    <3>. DEFINE q == [id |-> i, at |-> answer.at]
    <3>1. q \in new
      BY <1>3, <1>5, <2>1, <2>2
    <3>2. q.id = i
      OBVIOUS
    <3>. HIDE DEF q, new
    <3>. QED
      BY <3>1, <3>2
  <2>3. CASE n # 1
    BY <1>3, <2>1, <2>3
  <2>. QED
    BY <2>2, <2>3
<1>7. CASE \E q \in tasks[t].got : q.id = i
  BY <1>7
<1>. QED
  BY <1>1, <1>4, <1>5, <1>6, <1>7 DEF Pursued, todo

\* A request pursues all of its ids from the start: what it does not ask for is recent.
LEMMA StartPursued ==
  ASSUME IInv, FeedIInv, NEW t \in Caller, NEW job \in Jobs[t], Start(t, job)
  PROVE  Pursued(t)'
<1>. DEFINE asked == IF job.does = "ensure" THEN Stale(job.ids) ELSE job.ids
<1>1. /\ tasks'[t] = Begun(tasks[t], job, Chunks(asked)) /\ tasks[t] \in Task
      /\ UNCHANGED stored
  BY DEF Start, FeedIInv, FeedTypeOK
<1>2. /\ tasks'[t].job = job /\ tasks'[t].todo = Chunks(asked)
      /\ tasks'[t].since = clock
  BY <1>1 DEF Begun, Task
<1>3. job \in Job /\ job.ids \in SUBSET Id /\ asked \in SUBSET Id
  <2>1. job \in Job
    BY FeedAssumption
  <2>. QED
    BY <2>1 DEF Job, Stale
<1>4. ASSUME job.does = "ensure", NEW i \in job.ids
      PROVE  \/ \E n \in DOMAIN Chunks(asked) : i \in Chunks(asked)[n]
             \/ stored[i] # None /\ clock - stored[i] <= MaxAge
  <2>1. CASE i \in asked
    <3>. HIDE DEF asked
    <3>. QED
      BY <1>3, <2>1, ChunksCover
  <2>2. CASE i \notin asked
    <3>1. stored[i] # None /\ ~(clock - stored[i] > MaxAge)
      BY <1>4, <2>2 DEF Stale
    <3>2. stored[i] \in Nat /\ clock \in Nat /\ MaxAge \in Nat
      BY <1>3, <3>1, Facts, FeedAssumption DEF FeedIInv, FeedTypeOK
    <3>. QED
      BY <3>1, <3>2
  <2>. QED
    BY <2>1, <2>2
<1>. HIDE DEF asked
<1>. QED
  BY <1>1, <1>2, <1>4 DEF Pursued

\* Every step leaves every request's ids pursued.
LEMMA PursuedStep ==
  ASSUME IInv, FeedIInv, AgeCoversRefresh, Ensured, [FeedNext]_<<limiter, feed>>
  PROVE  Ensured'
<1>1. SUFFICES ASSUME NEW t \in Caller
               PROVE  Pursued(t)'
  BY DEF Ensured
<1>2. Pursued(t) /\ tasks \in [Caller -> Task] /\ tasks[t] \in Task
  BY DEF Ensured, FeedIInv, FeedTypeOK
<1>3. ASSUME tasks'[t] = tasks[t]
      PROVE  Pursued(t)'
  BY <1>2, <1>3, StaysPursued DEF Busy
<1>4. ASSUME tasks'[t] = Ended(tasks[t])
      PROVE  Pursued(t)'
  BY <1>4, Ends DEF Pursued, Busy
<1>5. ASSUME NEW u \in Caller, NEW job \in Jobs[u], Start(u, job)
      PROVE  Pursued(t)'
  <2>1. CASE u = t
    BY <1>5, <2>1, StartPursued
  <2>2. CASE u # t
    BY <1>2, <1>3, <1>5, <2>2 DEF Start
  <2>. QED
    BY <2>1, <2>2
<1>6. ASSUME NEW u \in Caller, Hit(u)
      PROVE  Pursued(t)'
  <2>1. CASE u = t
    <3>1. tasks[t].at = "asking" /\ UNCHANGED stored
          /\ tasks'[t] = Take(tasks[t], entries[Head(tasks[t].todo)])
      BY <1>2, <1>6, <2>1 DEF Hit
    <3>. QED
      BY <1>2, <3>1, TakenPursued
  <2>2. CASE u # t
    BY <1>2, <1>3, <1>6, <2>2 DEF Hit
  <2>. QED
    BY <2>1, <2>2
<1>7. ASSUME NEW u \in Caller, Join(u) \/ Miss(u) \/ Awake(u)
      PROVE  Pursued(t)'
  <2>1. CASE u = t
    <3>1. /\ Busy(t)
          /\ \E sent : tasks' = [tasks EXCEPT ![t].at = "loading", ![t].sent = sent]
      <4>1. CASE Join(t)
        <5>1. tasks' = [tasks EXCEPT ![t].at = "loading", ![t].sent = tasks[t].sent] /\ Busy(t)
          BY <1>2, <4>1 DEF Join, Task, Busy
        <5>. QED
          BY <5>1
      <4>2. CASE Miss(t) \/ Awake(t)
        BY <4>2 DEF Miss, Awake, Loads, Owns, Busy
      <4>. QED
        BY <1>7, <2>1, <4>1, <4>2
    <3>2. /\ tasks'[t].job = tasks[t].job /\ tasks'[t].missing = tasks[t].missing
          /\ tasks'[t].since = tasks[t].since /\ tasks'[t].todo = tasks[t].todo
          /\ tasks'[t].got = tasks[t].got
      BY <1>2, <3>1 DEF Task
    <3>. QED
      BY <1>2, <3>1, <3>2, StaysPursued
  <2>2. CASE u # t
    BY <1>2, <1>3, <1>7, <2>2 DEF Join, Miss, Awake, Loads
  <2>. QED
    BY <2>1, <2>2
<1>8. ASSUME NEW u \in Caller, Refuse(u) \/ CallFails(u) \/ StoreFails(u) \/ Return(u)
      PROVE  Pursued(t)'
  <2>1. tasks'[t] = Ended(tasks[t]) \/ tasks'[t] = tasks[t]
    BY <1>2, <1>8 DEF Refuse, CallFails, Fail, StoreFails, Return
  <2>. QED
    BY <1>3, <1>4, <2>1
<1>9. ASSUME NEW u \in Caller, NEW answer, Settle(u, answer)
      PROVE  Pursued(t)'
  <2>1. UNCHANGED stored
    BY <1>9 DEF Settle
  <2>2. CASE t \in Waiting(Head(tasks[u].todo))
    <3>1. tasks[t].at = "loading" /\ tasks'[t] = Take(tasks[t], answer)
      BY <1>9, <2>2 DEF Settle, Waiting
    <3>. QED
      BY <1>2, <2>1, <3>1, TakenPursued
  <2>3. CASE t \notin Waiting(Head(tasks[u].todo))
    BY <1>3, <1>9, <2>3 DEF Settle
  <2>. QED
    BY <2>2, <2>3
<1>10. ASSUME NEW u \in Caller, NEW q \in tasks[u].got, Store(u, q)
       PROVE  Pursued(t)'
  <2>1. CASE u = t
    <3>1. /\ tasks'[t].job = tasks[t].job /\ tasks'[t].missing = tasks[t].missing
          /\ tasks'[t].since = tasks[t].since /\ tasks'[t].todo = tasks[t].todo
          /\ tasks'[t].got = tasks[t].got \ {q} /\ tasks'[t].at = tasks[t].at
      BY <1>2, <1>10, <2>1 DEF Store, Task
    <3>2. stored' = [stored EXCEPT ![q.id] = q.at] /\ q.id \in Id
      BY <1>10, NoOlder DEF Store
    <3>3. stored'[q.id] = q.at
      BY <3>2 DEF FeedIInv, FeedTypeOK
    <3>4. \A p \in tasks[t].got : p \in tasks'[t].got \/ stored'[p.id] = p.at
      BY <3>1, <3>3
    <3>5. Busy(t)' => Busy(t)
      BY <3>1 DEF Busy
    <3>. QED
      BY <1>2, <3>1, <3>4, <3>5, StaysPursued
  <2>2. CASE u # t
    BY <1>2, <1>3, <1>10, <2>2 DEF Store
  <2>. QED
    BY <2>1, <2>2
<1>11. ASSUME NEW u \in Caller, NEW rate \in 1..MaxRate, Replan(u, rate)
       PROVE  Pursued(t)'
  <2>1. CASE u = t
    BY <1>2, <1>11, <2>1 DEF Replan, Busy, Task, Pursued
  <2>2. CASE u # t
    BY <1>2, <1>3, <1>11, <2>2 DEF Replan
  <2>. QED
    BY <2>1, <2>2
<1>12. CASE Pass
  BY <1>3, <1>12 DEF Pass, feed
<1>13. CASE UNCHANGED <<limiter, feed>>
  BY <1>3, <1>13 DEF feed
<1>. QED
  BY <1>5, <1>6, <1>7, <1>8, <1>9, <1>10, <1>11, <1>12, <1>13
  DEF FeedNext, Step, Answer, NothingFound

\* If what counts as recent leaves room for the time in which all ids are refreshed, then
\* a request's quotes are recent, whatever older answers others store meanwhile; and in
\* any case no stored quote goes back by more than that time (market.ts:17-49).
THEOREM StaysRecent ==
  ASSUME AgeCoversRefresh
  PROVE  FeedSpec => QuotesStayRecent
<1>1. FeedInit => Ensured
  BY DEF FeedInit, Ensured, Pursued, Busy, Idle
<1>2. IInv /\ FeedIInv /\ Ensured /\ [FeedNext]_<<limiter, feed>> => Ensured'
  BY PursuedStep
<1>3. IInv /\ FeedIInv /\ Ensured /\ [FeedNext]_<<limiter, feed>> =>
        [\A t \in Caller :
           Return(t) /\ tasks[t].job.does = "ensure" =>
             \A i \in tasks[t].job.ids \ tasks[t].missing :
               stored[i] # None /\ tasks[t].since - stored[i] <= MaxAge]_<<limiter, feed>>
  <2> SUFFICES ASSUME FeedIInv, IInv, Ensured, NEW t \in Caller, Return(t),
                      tasks[t].job.does = "ensure",
                      NEW i \in tasks[t].job.ids \ tasks[t].missing
               PROVE  stored[i] # None /\ tasks[t].since - stored[i] <= MaxAge
    OBVIOUS
  <2>1. tasks[t].at = "storing" /\ tasks[t].got = {} /\ Busy(t)
    BY DEF Return, Busy
  <2>2. tasks[t].todo = <<>>
    BY <2>1 DEF FeedIInv, OnTrack
  <2>3. ~\E n \in DOMAIN tasks[t].todo : i \in tasks[t].todo[n]
    BY <2>2
  <2>. QED
    BY <2>1, <2>3 DEF Ensured, Pursued
<1>4. FeedSpec => EnsuredIsRecent
  BY <1>1, <1>2, <1>3, FeedInvariance, PTL DEF FeedSpec, EnsuredIsRecent
<1>. QED
  BY <1>4, Backwards DEF QuotesStayRecent

-----------------------------------------------------------------------------
(* The credits: the tiers and cadences of module Cadence                       *)

\* A unit of worth for each that a coin of S is worth.
Units(h, S) == {p \in S \X Nat : p[2] \in 1..h[p[1]]}

\* As units, one coin adds what it is worth.
LEMMA OneMore ==
  ASSUME NEW h, NEW S, IsFiniteSet(S), NEW x \in S, h[x] \in Nat,
         IsFiniteSet(Units(h, S \ {x}))
  PROVE  /\ IsFiniteSet(Units(h, S))
         /\ Cardinality(Units(h, S)) = h[x] + Cardinality(Units(h, S \ {x}))
<1>. DEFINE own == {x} \X (1..h[x])
<1>1. IsFiniteSet(own) /\ Cardinality(own) = h[x]
  <2>1. IsFiniteSet({x}) /\ Cardinality({x}) = 1
    BY FS_Singleton
  <2>2. IsFiniteSet(1..h[x]) /\ Cardinality(1..h[x]) = h[x]
    BY FS_Interval
  <2>3. IsFiniteSet(own) /\ Cardinality(own) = 1 * h[x]
    BY <2>1, <2>2, FS_Product
  <2>. QED
    BY <2>3
<1>2. Units(h, S) = own \cup Units(h, S \ {x})
  BY DEF Units
<1>3. own \cap Units(h, S \ {x}) = {}
  BY DEF Units
<1>. HIDE DEF own
<1>4. /\ IsFiniteSet(Units(h, S))
      /\ Cardinality(Units(h, S)) =
           Cardinality(own) + Cardinality(Units(h, S \ {x})) - Cardinality({})
  <2>. DEFINE rest == Units(h, S \ {x})
  <2>1. IsFiniteSet(own) /\ IsFiniteSet(rest) /\ own \cap rest = {}
    BY <1>1, <1>3
  <2>. HIDE DEF rest
  <2>2. /\ IsFiniteSet(own \cup rest)
        /\ Cardinality(own \cup rest) = Cardinality(own) + Cardinality(rest) - Cardinality(own \cap rest)
    BY <2>1, FS_Union
  <2>3. Units(h, S) = own \cup rest
    BY <1>2 DEF rest
  <2>. QED
    BY <2>1, <2>2, <2>3 DEF rest
<1>5. Cardinality({}) = 0 /\ Cardinality(Units(h, S \ {x})) \in Nat
  BY FS_EmptySet, FS_CardinalityType
<1>. QED
  BY <1>1, <1>4, <1>5

\* Of a collection of subsets of a finite set one has none of the others inside.
LEMMA Smallest ==
  ASSUME NEW S, IsFiniteSet(S), NEW C \in SUBSET (SUBSET S), C # {}
  PROVE  \E s \in C : \A r \in C : r \subseteq s => r = s
<1>1. C \subseteq FiniteSubsetsOf(S)
  BY FS_FiniteSubsetsOfFinite
<1>2. IsWellFoundedOn(StrictSubsetOrdering(S), FiniteSubsetsOf(S))
  BY FS_StrictSubsetOrderingWellFounded
<1>3. PICK s \in C : \A r \in C : <<r, s>> \notin StrictSubsetOrdering(S)
  BY <1>1, <1>2, WFMin
<1>4. ASSUME NEW r \in C, r \subseteq s PROVE r = s
  BY <1>3, <1>4 DEF StrictSubsetOrdering
<1>. QED
  BY <1>4

LEMMA UnitsFinite ==
  ASSUME NEW h, NEW S, IsFiniteSet(S), \A x \in S : h[x] \in Nat
  PROVE  IsFiniteSet(Units(h, S))
<1>. DEFINE C == {s \in SUBSET S : ~IsFiniteSet(Units(h, s))}
<1>. SUFFICES ASSUME C # {} PROVE FALSE
  OBVIOUS
<1>1. PICK s \in C : \A r \in C : r \subseteq s => r = s
  <2>. HIDE DEF C
  <2>1. C \in SUBSET (SUBSET S)
    BY DEF C
  <2>. QED
    BY <2>1, Smallest
<1>2. IsFiniteSet(s) /\ s \subseteq S /\ ~IsFiniteSet(Units(h, s))
  BY <1>1, FS_Subset
<1>3. CASE s = {}
  <2>1. Units(h, s) = {}
    BY <1>3 DEF Units
  <2>. QED
    BY <1>2, <2>1, FS_EmptySet
<1>4. CASE s # {}
  <2>1. PICK x \in s : TRUE
    BY <1>4
  <2>2. s \ {x} \notin C
    BY <1>1, <2>1
  <2>3. IsFiniteSet(Units(h, s \ {x}))
    BY <1>2, <2>2
  <2>. QED
    BY <1>2, <2>1, <2>3, OneMore
<1>. QED
  BY <1>3, <1>4

\* What coins are worth together is the number of the units.
LEMMA WorthIs ==
  ASSUME NEW h, NEW S, IsFiniteSet(S), \A x \in S : h[x] \in Nat
  PROVE  Worth(h, S) = Cardinality(Units(h, S))
<1>. DEFINE step(f) == [s \in SUBSET S |-> IF s = {} THEN 0 ELSE LET x == CHOOSE x \in s : TRUE IN h[x] + f[s \ {x}]]
            sum == CHOOSE f : f = step(f)
            units == [s \in SUBSET S |-> Cardinality(Units(h, s))]
<1>1. Worth(h, S) = sum[S]
  BY DEF Worth, SumFunctionOnSet, FoldFunctionOnSet, MapThenFoldSet
<1>2. ASSUME NEW s \in SUBSET S, s # {}, NEW x \in s
      PROVE  units[s] = h[x] + units[s \ {x}]
  <2>1. IsFiniteSet(s) /\ IsFiniteSet(s \ {x}) /\ s \ {x} \in SUBSET S
    BY FS_Subset
  <2>2. IsFiniteSet(Units(h, s \ {x}))
    BY <2>1, UnitsFinite
  <2>. QED
    BY <2>1, <2>2, OneMore
<1>3. units[{}] = 0
  <2>1. Units(h, {}) = {}
    BY DEF Units
  <2>. QED
    BY <2>1, FS_EmptySet
<1>4. units = step(units)
  <2>1. ASSUME NEW s \in SUBSET S
        PROVE  units[s] = step(units)[s]
    <3>. HIDE DEF units
    <3>. QED
      BY <1>2, <1>3
  <2>. QED
    BY <2>1
<1>5. sum = step(sum)
  <2>. HIDE DEF step, units
  <2>. QED
    BY <1>4
<1>6. ASSUME NEW s \in SUBSET S, s # {}
      PROVE  \E x \in s : sum[s] = h[x] + sum[s \ {x}]
  <2>. HIDE DEF sum
  <2>. QED
    BY <1>5, <1>6
<1>7. sum[{}] = 0
  <2>. HIDE DEF sum
  <2>. QED
    BY <1>5
<1>8. \A s \in SUBSET S : sum[s] = units[s]
  <2>. HIDE DEF sum, units, step
  <2>. DEFINE C == {s \in SUBSET S : sum[s] # units[s]}
  <2>. SUFFICES ASSUME C # {} PROVE FALSE
    OBVIOUS
  <2>1. PICK s \in C : \A r \in C : r \subseteq s => r = s
    <3>. HIDE DEF C
    <3>1. C \in SUBSET (SUBSET S)
      BY DEF C
    <3>. QED
      BY <3>1, Smallest
  <2>2. s # {}
    BY <1>3, <1>7
  <2>3. PICK x \in s : sum[s] = h[x] + sum[s \ {x}]
    BY <1>6, <2>2
  <2>4. s \ {x} \notin C /\ s \ {x} \in SUBSET S
    BY <2>1, <2>3
  <2>5. sum[s \ {x}] = units[s \ {x}]
    BY <2>4
  <2>. QED
    BY <1>2, <2>2, <2>3, <2>5
<1>. QED
  BY <1>1, <1>8

\* More coins are worth no less.
LEMMA WorthGrows ==
  ASSUME NEW h, NEW S, IsFiniteSet(S), \A x \in S : h[x] \in Nat, NEW R \in SUBSET S
  PROVE  Worth(h, R) \in Nat /\ Worth(h, S) \in Nat /\ Worth(h, R) <= Worth(h, S)
<1>1. IsFiniteSet(R) /\ \A x \in R : h[x] \in Nat
  BY FS_Subset
<1>2. Worth(h, R) = Cardinality(Units(h, R)) /\ Worth(h, S) = Cardinality(Units(h, S))
  BY <1>1, WorthIs
<1>3. IsFiniteSet(Units(h, S)) /\ Units(h, R) \subseteq Units(h, S)
  BY UnitsFinite DEF Units
<1>4. IsFiniteSet(Units(h, R)) /\ Cardinality(Units(h, R)) <= Cardinality(Units(h, S))
  BY <1>3, FS_Subset
<1>. QED
  BY <1>2, <1>3, <1>4, FS_CardinalityType

Holder == [Coin -> Value \cup {Unset}]

\* The coins that a tier leaves out come after coins worth the share: the first of them does,
\* and all before it are in.
LEMMA TopIsEnough ==
  ASSUME NEW h \in Holder, NEW seen \in SUBSET RowsOf(h), TopOf(h) \subseteq seen
  PROVE  100 * Worth(h, seen) >= TopShare * Worth(h, RowsOf(h))
<1>. DEFINE rows == RowsOf(h)
            total == Worth(h, rows)
            out == rows \ TopOf(h)
<1>1. /\ IsFiniteSet(rows) /\ rows \subseteq Nat /\ \A c \in rows : h[c] \in Nat
      /\ TopShare \in 0..100
  BY FS_Subset, CadenceAssumption DEF RowsOf, Holder
<1>2. /\ \A cs \in SUBSET rows : Worth(h, cs) \in Nat
      /\ \A cs \in SUBSET seen : Worth(h, cs) <= Worth(h, seen)
  BY <1>1, WorthGrows, FS_Subset
<1>3. \A c \in rows : Before(h, c) \in SUBSET rows
  BY DEF Before
<1>4. CASE out = {}
  <2>1. seen = rows
    BY <1>4
  <2>2. total \in Nat
    BY <1>2
  <2>3. TopShare * total <= 100 * total
    BY <1>1, <2>2, Products
  <2>4. 100 * Worth(h, seen) = 100 * total
    BY <2>1
  <2>. HIDE DEF total, rows
  <2>5. 100 * total >= TopShare * total
    <3>1. TopShare * total \in Int /\ 100 * total \in Int
      BY <1>1, <2>2, Products
    <3>. QED
      BY <2>3, <3>1
  <2>. QED
    BY <2>4, <2>5 DEF total, rows
<1>5. CASE out # {}
  <2>. DEFINE fronts == {Before(h, c) : c \in out}
  <2>1. PICK f \in fronts : \A g \in fronts : g \subseteq f => g = f
    <3>1. fronts \in SUBSET (SUBSET rows) /\ fronts # {}
      BY <1>3, <1>5
    <3>2. IsFiniteSet(rows)
      BY <1>1
    <3>. HIDE DEF fronts, rows
    <3>. QED
      BY <3>1, <3>2, Smallest
  <2>2. PICK c \in out : f = Before(h, c)
    BY <2>1
  <2>3. ASSUME NEW d \in Before(h, c), d \in out
        PROVE  FALSE
    <3>1. c \in Nat /\ d \in Nat /\ h[c] \in Nat /\ h[d] \in Nat /\ d \in rows
      BY <1>1, <2>3
    <3>2. Before(h, d) \subseteq Before(h, c)
      <4>. SUFFICES ASSUME NEW b \in Before(h, d) PROVE b \in Before(h, c)
        OBVIOUS
      <4>1. b \in rows /\ b \in Nat /\ h[b] \in Nat
        BY <1>1 DEF Before
      <4>. QED
        BY <2>3, <3>1, <4>1 DEF Before
    <3>3. d \notin Before(h, d)
      BY <3>1 DEF Before
    <3>. QED
      BY <2>1, <2>2, <2>3, <3>2, <3>3
  <2>4. Before(h, c) \subseteq seen
    BY <1>3, <2>3
  <2>5. 100 * Worth(h, Before(h, c)) >= TopShare * total
    <3>1. Worth(h, Before(h, c)) \in Nat /\ total \in Nat
      BY <1>2, <1>3
    <3>2. ~(100 * Worth(h, Before(h, c)) < TopShare * total)
      BY <2>2 DEF TopOf
    <3>3. TopShare * total \in Int
      BY <1>1, <3>1
    <3>. QED
      BY <3>1, <3>2, <3>3
  <2>6. /\ Worth(h, Before(h, c)) <= Worth(h, seen)
        /\ Worth(h, Before(h, c)) \in Nat /\ Worth(h, seen) \in Nat /\ TopShare * total \in Int
    BY <1>1, <1>2, <1>3, <2>4
  <2>. QED
    BY <2>5, <2>6
<1>. QED
  BY <1>4, <1>5

-----------------------------------------------------------------------------
\* Among as many ticks in a row as a cadence is long, one is due.
LEMMA SomeIsDue ==
  ASSUME NEW p \in Nat \ {0}, NEW a \in Int, NEW b \in Int, a <= b,
         \A k \in a..(b - 1) : ~Due(k, p)
  PROVE  b - a < p
<1>. SUFFICES ASSUME b - a >= p PROVE FALSE
  OBVIOUS
<1>. DEFINE q == a \div p
            k == IF a % p = 0 THEN a ELSE (q + 1) * p
<1>1. q \in Int /\ a % p \in 0..(p - 1) /\ a = q * p + (a % p) /\ (q + 1) * p = q * p + p
      /\ q * p \in Int
  BY DivMod, Products
<1>2. k \in a..(b - 1)
  <2>. HIDE DEF q
  <2>. QED
    BY <1>1
<1>3. k % p = 0
  <2>1. ((q + 1) * p) % p = 0
    <3>1. \A m \in Int : (m * p) % p = 0
      BY Z3
    <3>. QED
      BY <1>1, <3>1
  <2>. QED
    BY <2>1
<1>. QED
  BY <1>2, <1>3 DEF Due

Above(S, x) == {y \in S : y > x}

Below(S, x) == {y \in S : y < x}

\* A set of numbers with an end has a largest and a least member.
LEMMA Extremes ==
  ASSUME NEW S, IsFiniteSet(S), S # {}, \A x \in S : x \in Nat
  PROVE  Max(S) \in S /\ Min(S) \in S /\ \A x \in S : Min(S) <= x /\ x <= Max(S)
<1>1. \A C \in SUBSET (SUBSET S) : C # {} => \E s \in C : \A r \in C : r \subseteq s => r = s
  BY Smallest
<1>2. \E x \in S : \A y \in S : x >= y
  <2>1. \A x \in S : Above(S, x) \in SUBSET S
    BY DEF Above
  <2>2. PICK x \in S : \A y \in S : Above(S, y) \subseteq Above(S, x) => Above(S, y) = Above(S, x)
    <3>. DEFINE C == {Above(S, x) : x \in S}
    <3>1. C \in SUBSET (SUBSET S) /\ C # {}
      BY <2>1
    <3>. HIDE DEF C
    <3>2. PICK s \in C : \A r \in C : r \subseteq s => r = s
      BY <1>1, <3>1
    <3>. QED
      BY <3>2 DEF C
  <2>3. ASSUME NEW y \in S, y > x
        PROVE  FALSE
    <3>1. /\ Above(S, y) \subseteq Above(S, x)
          /\ y \in Above(S, x) /\ y \notin Above(S, y)
      BY <2>3 DEF Above
    <3>. QED
      BY <2>2, <3>1
  <2>. QED
    BY <2>3
<1>3. \E x \in S : \A y \in S : x <= y
  <2>1. \A x \in S : Below(S, x) \in SUBSET S
    BY DEF Below
  <2>2. PICK x \in S : \A y \in S : Below(S, y) \subseteq Below(S, x) => Below(S, y) = Below(S, x)
    <3>. DEFINE C == {Below(S, x) : x \in S}
    <3>1. C \in SUBSET (SUBSET S) /\ C # {}
      BY <2>1
    <3>. HIDE DEF C
    <3>2. PICK s \in C : \A r \in C : r \subseteq s => r = s
      BY <1>1, <3>1
    <3>. QED
      BY <3>2 DEF C
  <2>3. ASSUME NEW y \in S, y < x
        PROVE  FALSE
    <3>1. /\ Below(S, y) \subseteq Below(S, x)
          /\ y \in Below(S, x) /\ y \notin Below(S, y)
      BY <2>3 DEF Below
    <3>. QED
      BY <2>2, <3>1
  <2>. QED
    BY <2>3
<1>. QED
  BY <1>2, <1>3 DEF Max, Min

\* Of two.
LEMMA OfTwo ==
  ASSUME NEW a \in Int, NEW b \in Int
  PROVE  /\ Max({a, b}) \in {a, b} /\ Max({a, b}) >= a /\ Max({a, b}) >= b
         /\ Min({a, b}) \in {a, b} /\ Min({a, b}) <= a /\ Min({a, b}) <= b
<1>1. /\ \E x \in {a, b} : \A y \in {a, b} : x >= y
      /\ \E x \in {a, b} : \A y \in {a, b} : x <= y
  OBVIOUS
<1>. QED
  BY <1>1 DEF Max, Min

Cadences == [Lane -> Nat \ {0}]

\* Whatever is planned is a cadence of at least one tick for each lane.
LEMMA PlansAre ==
  ASSUME NEW credits, NEW w
  PROVE  PlanFor(credits, w).cadence \in Cadences
<1>1. ASSUME NEW m \in Multipliers
      PROVE  Collapse(Scale(m), w) \in Cadences
  <2>1. Scale(m) \in Cadences
    <3>1. ASSUME NEW l \in Lane
          PROVE  Max({1, (Desired[l] * m + 1) \div 2}) \in Nat \ {0}
      <4>. DEFINE ticks == (Desired[l] * m + 1) \div 2
      <4>1. Desired[l] \in Nat /\ m \in Nat
        BY CadenceAssumption
      <4>2. ticks \in Int
        BY <4>1, Products, DivMod
      <4>. HIDE DEF ticks
      <4>3. Max({1, ticks}) \in {1, ticks} /\ Max({1, ticks}) >= 1
        BY <4>2, OfTwo
      <4>. QED
        BY <4>2, <4>3 DEF ticks
    <3>. QED
      BY <3>1 DEF Scale, Cadences
  <2>. QED
    BY <2>1 DEF Collapse, Cadences, Lane, Tier
<1>2. ASSUME NEW ms \in SUBSET Multipliers, ms # {}
      PROVE  Max(ms) \in Multipliers /\ Min(ms) \in Multipliers
  BY <1>2, Extremes, FS_Subset, CadenceAssumption
<1>3. Desired \in Cadences /\ Multipliers # {}
  BY CadenceAssumption DEF Cadences
<1>4. CASE credits = Unset
  BY <1>3, <1>4 DEF PlanFor
<1>5. CASE credits # Unset
  <2>1. \E m \in Multipliers : PlanFor(credits, w).cadence = Collapse(Scale(m), w)
    BY <1>2, <1>3, <1>5 DEF PlanFor
  <2>. QED
    BY <1>1, <2>1
<1>. QED
  BY <1>4, <1>5

-----------------------------------------------------------------------------
CadenceTypeOK ==
  /\ tickCount \in 0..Month
  /\ held \in [User -> Holder]
  /\ plan = Unset \/ plan.cadence \in Cadences
  /\ age \in [Coin -> Nat] /\ moved \in [Coin -> 0..2]
  /\ \A c \in Coin : age[c] <= tickCount

\* A coin is polled with one tier.
OneTier ==
  /\ \A t \in Tier : workload[t] \subseteq Coin
  /\ \A t, o \in Tier : t # o => workload[t] \cap workload[o] = {}

\* Since its last refresh no tick that came was one of the coin's tier, nor, up to the tick s in
\* which it changed, of the one before.
Waited(c, t, s, o) ==
  /\ s \in (tickCount - age[c])..tickCount
  /\ \A k \in (tickCount - age[c])..(s - 1) : ~Due(k, plan.cadence[o])
  /\ \A k \in s..(tickCount - 1) : ~Due(k, plan.cadence[t])
  /\ moved[c] = 0 => s = tickCount - age[c]

Overdue ==
  plan # Unset =>
    \A t \in Tier : \A c \in workload[t] : moved[c] <= 1 => \E s \in Int, o \in Tier : Waited(c, t, s, o)

CadenceIInv == CadenceTypeOK /\ OneTier /\ Overdue

\* The tiers of any holdings.
LEMMA Tiers ==
  ASSUME NEW hs
  PROVE  /\ \A t \in Tier : Workload(hs)[t] \subseteq Coin
         /\ \A t, o \in Tier : t # o => Workload(hs)[t] \cap Workload(hs)[o] = {}
<1>1. Pegged \subseteq Coin /\ \A u \in User : TopOf(hs[u]) \subseteq Coin /\ RowsOf(hs[u]) \subseteq Coin
  BY CadenceAssumption DEF TopOf, RowsOf
<1>. QED
  BY <1>1 DEF Workload, Tier

\* A first change of tier is counted, and the second, but no more.
LEMMA MovedOnce ==
  ASSUME NEW m \in 0..2
  PROVE  Min({m + 1, 2}) = IF m = 0 THEN 1 ELSE 2
<1>1. m + 1 \in Int /\ 2 \in Int
  OBVIOUS
<1>2. /\ Min({m + 1, 2}) \in {m + 1, 2}
      /\ Min({m + 1, 2}) <= m + 1 /\ Min({m + 1, 2}) <= 2
  BY <1>1, OfTwo
<1>. QED
  BY <1>2

\* A tick refreshes a coin, or lets it wait for a tick more.
LEMMA Ages ==
  ASSUME CadenceTypeOK, Aged, tickCount < Month, NEW c \in Coin
  PROVE  LET renewed == c \in IdsDue(tickCount, plan'.cadence, workload') \/ c \notin Watched(workload)
         IN /\ renewed => age'[c] = 0 /\ moved'[c] = 0
            /\ ~renewed =>
                 /\ age'[c] = age[c] + 1
                 /\ IF plan = Unset \/ plan'.cadence # plan.cadence THEN moved'[c] = 2
                    ELSE IF TierOf(c, workload') # TierOf(c, workload)
                    THEN moved'[c] = IF moved[c] = 0 THEN 1 ELSE 2
                    ELSE moved'[c] = moved[c]
<1>. DEFINE due == IdsDue(tickCount, plan'.cadence, workload')
            renewed == c \in due \/ c \notin Watched(workload)
            same == plan = Unset \/ plan'.cadence # plan.cadence
            moves == TierOf(c, workload') # TierOf(c, workload)
<1>1. /\ age'[c] = IF renewed THEN 0 ELSE Min({age[c] + 1, Month})
      /\ moved'[c] = IF renewed THEN 0 ELSE IF same THEN 2
                     ELSE IF moves THEN Min({moved[c] + 1, 2}) ELSE moved[c]
  BY DEF Aged
<1>. HIDE DEF due, same, moves
<1>2. Min({age[c] + 1, Month}) = age[c] + 1
  <2>1. age[c] + 1 \in Int /\ Month \in Int /\ age[c] + 1 <= Month
    BY CadenceAssumption DEF CadenceTypeOK
  <2>. HIDE DEF renewed
  <2>2. Min({age[c] + 1, Month}) \in {age[c] + 1, Month} /\ Min({age[c] + 1, Month}) <= age[c] + 1
    BY <2>1, OfTwo
  <2>. QED
    BY <2>1, <2>2
<1>3. Min({moved[c] + 1, 2}) = IF moved[c] = 0 THEN 1 ELSE 2
  <2>1. moved[c] \in 0..2
    BY DEF CadenceTypeOK
  <2>. QED
    BY <2>1, MovedOnce
<1>. QED
  BY <1>1, <1>2, <1>3 DEF due, same, moves

\* A tick leaves no coin waiting for longer than its tiers let it.
LEMMA Ticks ==
  ASSUME CadenceIInv, NEW info \in Replies, RunTick(info)
  PROVE  CadenceIInv'
<1>1. CadenceTypeOK /\ OneTier /\ Overdue
  BY DEF CadenceIInv
<1>2. /\ tickCount \in Nat /\ tickCount < Month /\ Month \in Nat /\ tickCount' = tickCount + 1
      /\ held' = held /\ workload' = Workload(held) /\ Planned(info) /\ Aged
  BY <1>1, CadenceAssumption DEF RunTick, CadenceTypeOK
<1>3. plan'.cadence \in Cadences
  BY <1>1, <1>2, PlansAre DEF Planned, Replans, CadenceTypeOK
<1>. DEFINE due == IdsDue(tickCount, plan'.cadence, workload')
            renewed(c) == c \in due \/ c \notin Watched(workload)
<1>4. ASSUME NEW c \in Coin
      PROVE  /\ renewed(c) => age'[c] = 0 /\ moved'[c] = 0
             /\ ~renewed(c) =>
                  /\ age'[c] = age[c] + 1
                  /\ IF plan = Unset \/ plan'.cadence # plan.cadence THEN moved'[c] = 2
                     ELSE IF TierOf(c, workload') # TierOf(c, workload)
                     THEN moved'[c] = IF moved[c] = 0 THEN 1 ELSE 2
                     ELSE moved'[c] = moved[c]
             /\ age[c] \in Nat /\ age[c] <= tickCount /\ moved[c] \in 0..2
  BY <1>1, <1>2, Ages DEF CadenceTypeOK
<1>. HIDE DEF renewed
<1>5. age' \in [Coin -> Nat] /\ \A c \in Coin : age'[c] <= tickCount'
  <2>1. age' = [c \in Coin |-> age'[c]]
    BY <1>2 DEF Aged
  <2>2. ASSUME NEW c \in Coin
        PROVE  age'[c] \in Nat /\ age'[c] <= tickCount'
    <3>1. age'[c] = 0 \/ age'[c] = age[c] + 1
      BY <1>4
    <3>. QED
      BY <1>2, <1>4, <3>1
  <2>. QED
    BY <2>1, <2>2
<1>6. moved' \in [Coin -> 0..2]
  <2>1. moved' = [c \in Coin |-> moved'[c]]
    BY <1>2 DEF Aged
  <2>2. ASSUME NEW c \in Coin
        PROVE  moved'[c] \in 0..2
    <3>1. moved'[c] \in {0, 1, 2, moved[c]}
      BY <1>4
    <3>. QED
      BY <1>4, <3>1
  <2>. QED
    BY <2>1, <2>2
<1>7. CadenceTypeOK'
  BY <1>1, <1>2, <1>3, <1>5, <1>6 DEF CadenceTypeOK
<1>8. OneTier'
  BY <1>2, Tiers DEF OneTier
<1>9. Overdue'
  <2>. SUFFICES ASSUME NEW t \in Tier, NEW c \in workload'[t], moved'[c] <= 1
                PROVE  \E s \in Int, o \in Tier : Waited(c, t, s, o)'
    BY DEF Overdue
  <2>1. c \in Coin
    BY <1>8 DEF OneTier
  <2>2. PICK now \in Int : now = tickCount
    BY <1>2
  <2>3. CASE renewed(c)
    <3>1. age'[c] = 0 /\ moved'[c] = 0 /\ tickCount' = now + 1
      BY <1>2, <1>4, <2>1, <2>2, <2>3
    <3>2. Waited(c, t, now + 1, t)'
      BY <2>2, <3>1 DEF Waited
    <3>3. now + 1 \in Int
      BY <2>2
    <3>. QED
      BY <3>2, <3>3
  <2>4. CASE ~renewed(c)
    <3>1. PICK b \in Tier : c \in workload[b]
      BY <2>4 DEF Watched, Tier, renewed
    <3>2. /\ age'[c] = age[c] + 1 /\ age[c] \in Nat /\ moved[c] \in 0..2
          /\ plan # Unset /\ plan'.cadence = plan.cadence
          /\ IF TierOf(c, workload') # TierOf(c, workload)
             THEN moved'[c] = IF moved[c] = 0 THEN 1 ELSE 2
             ELSE moved'[c] = moved[c]
      <4>1. plan # Unset /\ plan'.cadence = plan.cadence
        <5>1. plan = Unset \/ plan'.cadence # plan.cadence => moved'[c] = 2
          BY <1>4, <2>1, <2>4
        <5>. QED
          BY <5>1
      <4>. QED
        BY <1>4, <2>1, <2>4, <4>1
    <3>3. ~Due(tickCount, plan.cadence[t])
      BY <2>4, <3>2 DEF IdsDue, renewed
    <3>4. tickCount' - age'[c] = tickCount - age[c] /\ tickCount' - 1 = tickCount
      BY <1>2, <3>2
    <3>5. CASE b = t
      <4>1. TierOf(c, workload') = TierOf(c, workload)
        BY <1>1, <1>8, <2>1, <3>1, <3>5 DEF TierOf, OneTier
      <4>2. moved'[c] = moved[c]
        BY <3>2, <4>1
      <4>3. PICK s \in Int, o \in Tier : Waited(c, t, s, o)
        BY <1>1, <3>1, <3>2, <3>5, <4>2 DEF Overdue
      <4>4. Waited(c, t, s, o)'
        BY <1>2, <3>2, <3>3, <3>4, <4>2, <4>3 DEF Waited
      <4>. QED
        BY <4>4
    <3>6. CASE b # t
      <4>1. TierOf(c, workload') # TierOf(c, workload)
        BY <1>1, <1>8, <2>1, <3>1, <3>6 DEF TierOf, OneTier
      <4>2. moved[c] = 0 /\ moved'[c] = 1
        BY <3>2, <4>1
      <4>3. PICK s \in Int, o \in Tier : Waited(c, b, s, o)
        BY <1>1, <3>1, <3>2, <4>2 DEF Overdue
      <4>4. \A k \in (tickCount - age[c])..(tickCount - 1) : ~Due(k, plan.cadence[b])
        BY <4>2, <4>3 DEF Waited
      <4>5. Waited(c, t, now, b)'
        BY <1>2, <2>2, <3>2, <3>3, <3>4, <4>2, <4>4 DEF Waited
      <4>. QED
        BY <2>2, <4>5
    <3>. QED
      BY <3>5, <3>6
  <2>. QED
    BY <2>3, <2>4
<1>. QED
  BY <1>7, <1>8, <1>9 DEF CadenceIInv

\* What is held changes between ticks only.
LEMMA Changes ==
  ASSUME CadenceIInv, NEW u \in User, NEW c \in Coin, NEW v \in Value \cup {Unset}, Change(u, c, v)
  PROVE  CadenceIInv'
<1>1. held' \in [User -> Holder]
  BY DEF Change, CadenceIInv, CadenceTypeOK, Holder
<1>2. UNCHANGED <<tickCount, plan, workload, age, moved>>
  BY DEF Change
<1>3. CadenceTypeOK' /\ OneTier'
  BY <1>1, <1>2 DEF CadenceIInv, CadenceTypeOK, OneTier
<1>4. \A c1, t, s, o : Waited(c1, t, s, o)' <=> Waited(c1, t, s, o)
  BY <1>2 DEF Waited
<1>. QED
  BY <1>2, <1>3, <1>4 DEF CadenceIInv, Overdue

\* How long a coin has waited against the ticks of its tier, for any holdings, plans and
\* credits (budget.ts:43-61, poller.ts:186-234).
THEOREM CadenceInvariance == CadenceSpec => []CadenceIInv
<1>1. ASSUME CadenceInit PROVE CadenceIInv
  <2>1. /\ held \in [User -> Holder]
        /\ tickCount = 0 /\ plan = Unset /\ workload = [t \in Tier |-> {}]
        /\ age = [c \in Coin |-> 0] /\ moved = [c \in Coin |-> 0]
    BY <1>1, CadenceAssumption DEF CadenceInit, Holder
  <2>2. CadenceTypeOK
    BY <2>1, CadenceAssumption DEF CadenceTypeOK
  <2>. QED
    BY <2>1, <2>2 DEF CadenceIInv, OneTier, Overdue
<1>2. ASSUME CadenceIInv, [CadenceNext]_cadenceVars PROVE CadenceIInv'
  <2>1. ASSUME NEW u \in User, NEW c \in Coin, NEW v \in Value \cup {Unset}, Change(u, c, v)
        PROVE  CadenceIInv'
    BY <1>2, <2>1, Changes
  <2>2. ASSUME NEW info \in Replies, RunTick(info)
        PROVE  CadenceIInv'
    BY <1>2, <2>2, Ticks
  <2>3. CASE UNCHANGED cadenceVars
    <3>1. UNCHANGED <<tickCount, held, plan, workload, age, moved>>
      BY <2>3 DEF cadenceVars
    <3>2. CadenceTypeOK' /\ OneTier'
      BY <1>2, <3>1 DEF CadenceIInv, CadenceTypeOK, OneTier
    <3>3. \A c, t, s, o : Waited(c, t, s, o)' <=> Waited(c, t, s, o)
      BY <3>1 DEF Waited
    <3>. QED
      BY <1>2, <3>1, <3>2, <3>3 DEF CadenceIInv, Overdue
  <2>. QED
    BY <1>2, <2>1, <2>2, <2>3 DEF CadenceNext
<1>. QED
  BY <1>1, <1>2, PTL DEF CadenceSpec

\* The quote of a watched coin is never too old for the alerts, for any cadences, as long as
\* its tier has changed at most once since it was refreshed (poller.ts:78-82).
THEOREM Usable == CadenceSpec => []QuotesAreUsable
<1>1. ASSUME CadenceIInv PROVE QuotesAreUsable
  <2>. SUFFICES ASSUME plan # Unset, NEW c \in Watched(workload), moved[c] <= 1
                PROVE  age[c] <= MaxQuoteAge
    BY DEF QuotesAreUsable
  <2>. DEFINE slowest == Max({plan.cadence[t] : t \in Tier})
  <2>1. plan.cadence \in Cadences
    BY <1>1 DEF CadenceIInv, CadenceTypeOK
  <2>2. slowest \in Nat /\ \A t \in Tier : plan.cadence[t] \in Nat \ {0} /\ plan.cadence[t] <= slowest
    <3>1. \A t \in Tier : plan.cadence[t] \in Nat \ {0}
      BY <2>1 DEF Cadences, Lane
    <3>. DEFINE S == {plan.cadence[t] : t \in Tier}
    <3>2. S = {plan.cadence["stable"], plan.cadence["top"], plan.cadence["small"]}
      BY DEF Tier
    <3>3. /\ \A x \in S : x \in Nat
          /\ S # {} /\ IsFiniteSet(S)
      <4>1. IsFiniteSet(S)
        <5>1. S = {plan.cadence["stable"]} \cup ({plan.cadence["top"]} \cup {plan.cadence["small"]})
          BY <3>2
        <5>. HIDE DEF S
        <5>. QED
          BY <5>1, FS_Singleton, FS_Union
      <4>. QED
        BY <3>1, <3>2, <4>1
    <3>. HIDE DEF S
    <3>4. Max(S) \in S /\ \A x \in S : x <= Max(S)
      BY <3>3, Extremes
    <3>. QED
      BY <3>1, <3>3, <3>4 DEF S
  <2>3. MaxQuoteAge >= 2 * slowest /\ MaxQuoteAge \in Int
    <3>1. MinQuoteAge \in Int
      BY CadenceAssumption
    <3>. HIDE DEF slowest
    <3>2. 2 * slowest \in Int
      BY <2>2
    <3>3. /\ Max({MinQuoteAge, 2 * slowest}) >= 2 * slowest
          /\ Max({MinQuoteAge, 2 * slowest}) \in {MinQuoteAge, 2 * slowest}
      BY <3>1, <3>2, OfTwo
    <3>. QED
      BY <3>1, <3>2, <3>3 DEF MaxQuoteAge, slowest
  <2>. HIDE DEF slowest
  <2>4. PICK t \in Tier : c \in workload[t]
    BY DEF Watched, Tier
  <2>5. c \in Coin /\ age[c] \in Nat /\ tickCount \in Nat
    BY <1>1, <2>4 DEF CadenceIInv, CadenceTypeOK, OneTier
  <2>6. PICK s \in Int, o \in Tier : Waited(c, t, s, o)
    BY <1>1, <2>4 DEF CadenceIInv, Overdue
  <2>7. PICK first \in Int, now \in Int, p \in Nat \ {0}, q \in Nat \ {0} :
          first = tickCount - age[c] /\ now = tickCount /\ p = plan.cadence[o] /\ q = plan.cadence[t]
    <3>1. tickCount - age[c] \in Int /\ tickCount \in Int
      BY <2>5
    <3>2. plan.cadence[o] \in Nat \ {0} /\ plan.cadence[t] \in Nat \ {0}
      BY <2>2
    <3>. QED
      BY <3>1, <3>2, Zenon
  <2>8. /\ first <= s /\ s <= now
        /\ \A k \in first..(s - 1) : ~Due(k, p)
        /\ \A k \in s..(now - 1) : ~Due(k, q)
    BY <2>5, <2>6, <2>7 DEF Waited
  <2>9. s - first < p /\ now - s < q
    BY <2>8, SomeIsDue
  <2>. QED
    BY <2>2, <2>3, <2>5, <2>7, <2>9
<1>. QED
  BY <1>1, CadenceInvariance, PTL

\* The coins that are polled with the stablecoins or the top coins make up the share of what
\* each user holds, for any users, coins, worth and share (portfolio.ts:56-72, watchlist.ts:10-24).
THEOREM Covered == CadenceSpec => TopCoversPortfolio
<1>1. ASSUME CadenceIInv, [CadenceNext]_cadenceVars, tickCount' # tickCount, NEW u \in User
      PROVE  LET seen == RowsOf(held[u]) \cap (workload'.top \cup workload'.stable) IN
             100 * Worth(held[u], seen) >= TopShare * Worth(held[u], RowsOf(held[u]))
  <2>1. workload' = Workload(held)
    BY <1>1 DEF CadenceNext, Change, RunTick, cadenceVars
  <2>2. held[u] \in Holder
    BY <1>1 DEF CadenceIInv, CadenceTypeOK
  <2>. DEFINE seen == RowsOf(held[u]) \cap (workload'.top \cup workload'.stable)
  <2>3. TopOf(held[u]) \subseteq seen /\ seen \in SUBSET RowsOf(held[u])
    BY <2>1 DEF Workload, TopOf
  <2>. HIDE DEF seen
  <2>4. 100 * Worth(held[u], seen) >= TopShare * Worth(held[u], RowsOf(held[u]))
    BY <2>2, <2>3, TopIsEnough
  <2>. QED
    BY <2>4 DEF seen
<1>2. CadenceIInv /\ [CadenceNext]_cadenceVars =>
        (tickCount' # tickCount =>
           \A u \in User :
             LET seen == RowsOf(held[u]) \cap (workload'.top \cup workload'.stable) IN
             100 * Worth(held[u], seen) >= TopShare * Worth(held[u], RowsOf(held[u])))
  BY <1>1
<1>. QED
  BY <1>2, CadenceInvariance, PTL DEF CadenceSpec, TopCoversPortfolio

-----------------------------------------------------------------------------
(* What a month costs *)

\* A set of numbers has a least one.
LEMMA Least ==
  ASSUME NEW S \in SUBSET Nat, S # {}
  PROVE  \E n \in S : \A m \in S : n <= m
<1>1. PICK k \in S : TRUE
  OBVIOUS
<1>. DEFINE T == {m \in S : m <= k}
<1>2. T \in SUBSET Nat /\ k \in Nat /\ T # {} /\ \A m \in T : m <= k
  <2>1. k \in T
    OBVIOUS
  <2>. QED
    BY <2>1
<1>. HIDE DEF T
<1>3. IsFiniteSet(T)
  BY <1>2, FS_BoundedSetOfNaturals
<1>4. Min(T) \in T /\ \A m \in T : Min(T) <= m
  BY <1>2, <1>3, Extremes
<1>5. Min(T) \in S /\ Min(T) <= k /\ Min(T) \in Nat
  BY <1>2, <1>4 DEF T
<1>6. ASSUME NEW m \in S PROVE Min(T) <= m
  <2>1. m \in Nat
    OBVIOUS
  <2>2. CASE m <= k
    BY <1>4, <2>2 DEF T
  <2>3. CASE m > k
    BY <1>2, <1>5, <2>1, <2>3
  <2>. QED
    BY <1>2, <2>1, <2>2, <2>3
<1>. QED
  BY <1>5, <1>6

\* n is p a number of times.
Multiple(n, p) == \E k \in Nat : n = k * p

\* The least common multiple is one, of both.
LEMMA Common ==
  ASSUME NEW a \in Nat \ {0}, NEW b \in Nat \ {0}
  PROVE  Lcm(a, b) \in Nat \ {0} /\ Multiple(Lcm(a, b), a) /\ Multiple(Lcm(a, b), b)
<1>. DEFINE I == {i \in 1..b : (i * a) % b = 0}
            S == {k * a : k \in I}
<1>1. b \in I
  <2>1. (a * b) % b = 0
    <3>1. \A m \in Int : (m * b) % b = 0
      BY Z3
    <3>. QED
      BY <3>1
  <2>2. b * a = a * b
    OBVIOUS
  <2>. QED
    BY <2>1, <2>2
<1>2. \A k \in I : k * a \in Nat /\ k * a <= b * a
  <2>1. b * a \in Int /\ \A x, y \in Int : x <= y => x * a <= y * a
    BY Products
  <2>2. \A k \in I : k \in Nat /\ k <= b
    OBVIOUS
  <2>3. \A k \in Nat : k * a \in Nat
    OBVIOUS
  <2>. HIDE DEF I
  <2>. QED
    BY <2>1, <2>2, <2>3
<1>3. S \in SUBSET Nat /\ \A x \in S : x <= b * a
  <2>. HIDE DEF I
  <2>. QED
    BY <1>2
<1>4. IsFiniteSet(S) /\ \A x \in S : x \in Nat
  <2>1. b * a \in Nat
    OBVIOUS
  <2>. HIDE DEF S
  <2>. QED
    BY <1>3, <2>1, FS_BoundedSetOfNaturals
<1>5. Min(S) \in S
  <2>1. S # {}
    BY <1>1
  <2>. HIDE DEF S
  <2>. QED
    BY <1>4, <2>1, Extremes
<1>6. PICK k \in I : Min(S) = k * a
  BY <1>5
<1>7. k \in Nat \ {0} /\ (k * a) % b = 0
  OBVIOUS
<1>8. k * a \in Nat \ {0}
  BY <1>7
<1>9. Multiple(k * a, b)
  <2>. DEFINE n == k * a
              q == n \div b
              r == n % b
  <2>1. n \in Int /\ n >= 0 /\ r = 0
    BY <1>7, <1>8
  <2>2. q \in Int /\ n = q * b + r /\ q >= 0
    <3>. HIDE DEF n
    <3>. QED
      BY <2>1, DivMod
  <2>. HIDE DEF n, q, r
  <2>3. n = q * b /\ q \in Nat
    <3>1. q * b \in Int
      BY <2>2, Products
    <3>. QED
      BY <2>1, <2>2, <3>1
  <2>. QED
    BY <2>3 DEF n, Multiple
<1>10. Lcm(a, b) = k * a
  BY <1>6 DEF Lcm
<1>. QED
  BY <1>7, <1>8, <1>9, <1>10 DEF Multiple

\* A multiple of a multiple.
LEMMA MultipleOf ==
  ASSUME NEW n, NEW m, NEW p \in Nat, Multiple(n, m), Multiple(m, p)
  PROVE  Multiple(n, p)
<1>1. PICK k \in Nat : n = k * m
  BY DEF Multiple
<1>2. PICK l \in Nat : m = l * p
  BY DEF Multiple
<1>3. k * (l * p) = (k * l) * p /\ k * l \in Nat
  OBVIOUS
<1>. QED
  BY <1>1, <1>2, <1>3 DEF Multiple

\* A cycle holds every lane's cadence a whole number of times.
LEMMA Cycles ==
  ASSUME NEW c \in Cadences
  PROVE  Cycle(c) \in Nat \ {0} /\ \A l \in Lane : Multiple(Cycle(c), c[l])
<1>. DEFINE a == Lcm(c["stable"], c["top"])
            b == Lcm(a, c["small"])
            d == Lcm(b, c["global"])
            e == Lcm(d, c["categories"])
<1>1. \A l \in {"stable", "top", "small", "global", "categories"} : c[l] \in Nat \ {0}
  BY DEF Cadences, Lane, Tier
<1>2. a \in Nat \ {0} /\ Multiple(a, c["stable"]) /\ Multiple(a, c["top"])
  BY <1>1, Common
<1>. HIDE DEF a
<1>3. b \in Nat \ {0} /\ Multiple(b, a) /\ Multiple(b, c["small"])
  BY <1>1, <1>2, Common
<1>. HIDE DEF b
<1>4. d \in Nat \ {0} /\ Multiple(d, b) /\ Multiple(d, c["global"])
  BY <1>1, <1>3, Common
<1>. HIDE DEF d
<1>5. e \in Nat \ {0} /\ Multiple(e, d) /\ Multiple(e, c["categories"])
  BY <1>1, <1>4, Common
<1>6. Cycle(c) = e
  BY DEF Cycle, a, b, d
<1>. HIDE DEF e
<1>7. Multiple(e, b) /\ Multiple(e, c["global"])
  BY <1>1, <1>3, <1>4, <1>5, MultipleOf
<1>8. Multiple(e, a) /\ Multiple(e, c["small"])
  BY <1>1, <1>2, <1>3, <1>7, MultipleOf
<1>9. Multiple(e, c["stable"]) /\ Multiple(e, c["top"])
  BY <1>1, <1>2, <1>8, MultipleOf
<1>. QED
  BY <1>5, <1>6, <1>7, <1>8, <1>9 DEF Lane, Tier

\* Whole periods leave the rest as it is.
LEMMA Shifted ==
  ASSUME NEW p \in Nat \ {0}, NEW k \in Nat, NEW t \in Nat
  PROVE  (t + k * p) % p = t % p
<1>. DEFINE q == t \div p
            r == t % p
            x == t + k * p
<1>1. t \in Int
  OBVIOUS
<1>2. q \in Int /\ r \in 0..(p - 1) /\ t = q * p + r
  BY <1>1, DivMod
<1>. HIDE DEF q, r
<1>3. q * p \in Int /\ k * p \in Int /\ (q + k) * p = q * p + k * p
  BY <1>2, Z3
<1>4. x \in Int /\ x = (q + k) * p + r
  BY <1>2, <1>3
<1>. HIDE DEF x
<1>. DEFINE y == (q + k) * p
            d == x \div p
            s == x % p
<1>5. q + k \in Int /\ y \in Int
  BY <1>2, <1>3
<1>6. y <= x /\ x < y + p
  BY <1>2, <1>4, <1>5
<1>7. d = q + k
  BY <1>4, <1>5, <1>6, Quotient
<1>8. s \in 0..(p - 1) /\ x = d * p + s
  BY <1>4, DivMod
<1>9. x = y + s
  BY <1>7, <1>8
<1>10. x = y + r
  BY <1>4
<1>. HIDE DEF y, s, d
<1>11. s = r
  BY <1>2, <1>5, <1>8, <1>9, <1>10
<1>. QED
  BY <1>11 DEF x, r, s

\* What is due is due again after any number of periods.
LEMMA DueAgain ==
  ASSUME NEW p \in Nat \ {0}, NEW n, Multiple(n, p), NEW t \in Nat
  PROVE  Due(t + n, p) <=> Due(t, p)
<1>1. PICK k \in Nat : n = k * p
  BY DEF Multiple
<1>2. (t + k * p) % p = t % p
  BY Shifted
<1>. QED
  BY <1>1, <1>2 DEF Due

\* The next one's rest.
LEMMA NextRest ==
  ASSUME NEW p \in Nat \ {0}, NEW t \in Nat
  PROVE  t % p \in Nat /\ ((t % p) + 1) % p = (t + 1) % p
<1>. DEFINE q == t \div p
            r == t % p
<1>1. q \in Nat /\ r \in Nat /\ t = q * p + r
  <2>1. t \in Int /\ t >= 0
    OBVIOUS
  <2>2. q \in Int /\ r \in 0..(p - 1) /\ t = q * p + r /\ q >= 0
    BY <2>1, DivMod
  <2>. HIDE DEF q, r
  <2>. QED
    BY <2>2
<1>. HIDE DEF q, r
<1>2. q * p \in Nat
  BY <1>1
<1>3. r + 1 \in Nat /\ t + 1 = (r + 1) + q * p
  BY <1>1, <1>2
<1>4. ((r + 1) + q * p) % p = (r + 1) % p
  BY <1>1, <1>3, Shifted
<1>. QED
  BY <1>1, <1>3, <1>4 DEF r

\* What is polled with the tiers are coins.
Polls(w) == \A t \in Tier : w[t] \subseteq Coin

\* A tick costs a whole number of credits, whatever is polled.
LEMMA CostIs ==
  ASSUME NEW c, NEW w, Polls(w), NEW t \in Nat
  PROVE  /\ IsFiniteSet(IdsDue(t, c, w)) /\ CreditsForIds(Cardinality(IdsDue(t, c, w))) \in Nat
         /\ Flat(t, c) \in Nat /\ Cost(t, c, w) \in Nat
<1>. DEFINE ids == IdsDue(t, c, w)
            n == Cardinality(ids)
<1>1. IsFiniteSet(ids)
  <2>1. ids \subseteq Coin
    BY DEF IdsDue, Polls
  <2>. HIDE DEF ids
  <2>. QED
    BY <2>1, FS_Subset, CadenceAssumption
<1>2. n \in Nat
  <2>. HIDE DEF ids
  <2>. QED
    BY <1>1, FS_CardinalityType
<1>. HIDE DEF n
<1>3. CreditsForIds(n) \in Nat
  <2>. DEFINE x == n + IdsPerCredit - 1
  <2>1. x \in Int /\ x >= 0 /\ IdsPerCredit \in Nat \ {0}
    BY <1>2, CadenceAssumption
  <2>. HIDE DEF x
  <2>2. x \div IdsPerCredit \in Int /\ x \div IdsPerCredit >= 0
    BY <2>1, DivMod
  <2>. QED
    BY <2>2 DEF CreditsForIds, x
<1>4. Flat(t, c) \in Nat
  BY DEF Flat
<1>. QED
  BY <1>1, <1>3, <1>4 DEF Cost, n

\* The cost of the first ticks grows with each by what the tick costs.
LEMMA CostGrows ==
  ASSUME NEW c, NEW w, Polls(w)
  PROVE  /\ CostOf(0, c, w) = 0
         /\ \A n \in Nat : /\ CostOf(n, c, w) \in Nat
                           /\ CostOf(n + 1, c, w) = CostOf(n, c, w) + Cost(n, c, w)
<1>. DEFINE f(n) == [t \in 0..(n - 1) |-> Cost(t, c, w)]
<1>1. ASSUME NEW n \in Nat
      PROVE  /\ IsFiniteSet(0..(n - 1)) /\ \A x \in 0..(n - 1) : f(n)[x] \in Nat
             /\ IsFiniteSet(Units(f(n), 0..(n - 1)))
             /\ CostOf(n, c, w) = Cardinality(Units(f(n), 0..(n - 1)))
  <2>1. IsFiniteSet(0..(n - 1))
    <3>1. 0 \in Int /\ n - 1 \in Int
      OBVIOUS
    <3>. QED
      BY <3>1, FS_Interval
  <2>2. \A x \in 0..(n - 1) : f(n)[x] \in Nat
    BY CostIs
  <2>3. CostOf(n, c, w) = Worth(f(n), 0..(n - 1))
    BY DEF CostOf, SumFunction, Worth
  <2>. HIDE DEF f
  <2>. QED
    BY <2>1, <2>2, <2>3, WorthIs, UnitsFinite
<1>2. ASSUME NEW n \in Nat
      PROVE  CostOf(n + 1, c, w) = CostOf(n, c, w) + Cost(n, c, w)
  <2>1. n + 1 \in Nat /\ n \in 0..n /\ 0..((n + 1) - 1) = 0..n /\ (0..n) \ {n} = 0..(n - 1)
    OBVIOUS
  <2>2. Units(f(n + 1), 0..(n - 1)) = Units(f(n), 0..(n - 1))
    <3>1. \A x \in 0..(n - 1) : f(n + 1)[x] = f(n)[x]
      OBVIOUS
    <3>. HIDE DEF f
    <3>. QED
      BY <3>1 DEF Units
  <2>3. f(n + 1)[n] = Cost(n, c, w) /\ Cost(n, c, w) \in Nat
    BY <2>1, CostIs
  <2>. HIDE DEF f
  <2>4. IsFiniteSet(0..n) /\ CostOf(n + 1, c, w) = Cardinality(Units(f(n + 1), 0..n))
    BY <1>1, <2>1
  <2>5. IsFiniteSet(Units(f(n + 1), (0..n) \ {n}))
    BY <1>1, <2>1, <2>2
  <2>6. Cardinality(Units(f(n + 1), 0..n)) = f(n + 1)[n] + Cardinality(Units(f(n + 1), (0..n) \ {n}))
    BY <2>1, <2>3, <2>4, <2>5, OneMore
  <2>7. Cardinality(Units(f(n + 1), (0..n) \ {n})) = CostOf(n, c, w) /\ CostOf(n, c, w) \in Nat
    BY <1>1, <2>1, <2>2, FS_CardinalityType
  <2>. QED
    BY <2>3, <2>4, <2>6, <2>7
<1>3. CostOf(0, c, w) = 0
  <2>1. 0..(0 - 1) = {}
    OBVIOUS
  <2>2. Units(f(0), {}) = {}
    BY DEF Units
  <2>. HIDE DEF f
  <2>. QED
    BY <1>1, <2>1, <2>2, FS_EmptySet
<1>4. ASSUME NEW n \in Nat PROVE CostOf(n, c, w) \in Nat
  <2>. HIDE DEF f
  <2>. QED
    BY <1>1, FS_CardinalityType
<1>. QED
  BY <1>2, <1>3, <1>4

\* Every tick costs what the one a cycle before did.
LEMMA Repeats ==
  ASSUME NEW c \in Cadences, NEW w, NEW t \in Nat
  PROVE  Cost(t + Cycle(c), c, w) = Cost(t, c, w)
<1>. DEFINE n == Cycle(c)
<1>1. \A l \in Lane : Due(t + n, c[l]) <=> Due(t, c[l])
  <2>1. n \in Nat \ {0} /\ \A l \in Lane : Multiple(n, c[l]) /\ c[l] \in Nat \ {0}
    BY Cycles DEF Cadences
  <2>. HIDE DEF n
  <2>. QED
    BY <2>1, DueAgain
<1>. HIDE DEF n
<1>2. IdsDue(t + n, c, w) = IdsDue(t, c, w)
  <2>1. {x \in Tier : Due(t + n, c[x])} = {x \in Tier : Due(t, c[x])}
    BY <1>1 DEF Lane
  <2>. QED
    BY <2>1 DEF IdsDue
<1>3. Flat(t + n, c) = Flat(t, c)
  BY <1>1 DEF Flat, Lane
<1>. QED
  BY <1>2, <1>3 DEF Cost, n

\* Whole cycles cost so many times what the first one does.
LEMMA SumRepeats ==
  ASSUME NEW c \in Cadences, NEW w, Polls(w), NEW n \in Nat
  PROVE  CostOf(n + Cycle(c), c, w) = CostOf(n, c, w) + CostOf(Cycle(c), c, w)
<1>. DEFINE y == Cycle(c)
            f(k) == CostOf(k, c, w)
            g(k) == Cost(k, c, w)
            S == {k \in Nat : f(k + y) # f(k) + f(y)}
<1>1. y \in Nat \ {0}
  BY Cycles
<1>2. /\ f(0) = 0
      /\ \A k \in Nat : f(k) \in Nat /\ f(k + 1) = f(k) + g(k) /\ g(k) \in Nat
  BY CostGrows, CostIs
<1>3. \A k \in Nat : g(k + y) = g(k)
  BY Repeats
<1>. HIDE DEF y, f, g
<1>. SUFFICES ASSUME S # {} PROVE FALSE
  BY DEF f, y
<1>4. PICK k \in S : \A m \in S : k <= m
  <2>1. S \in SUBSET Nat
    OBVIOUS
  <2>. HIDE DEF S
  <2>. QED
    BY <2>1, Least
<1>5. k \in Nat /\ f(k + y) # f(k) + f(y)
  BY <1>4
<1>6. CASE k = 0
  BY <1>1, <1>2, <1>5, <1>6
<1>7. CASE k # 0
  <2>1. PICK m \in Nat : k = m + 1
    <3>1. k - 1 \in Nat /\ k = (k - 1) + 1
      BY <1>5, <1>7
    <3>. QED
      BY <3>1
  <2>2. f(m + y) = f(m) + f(y)
    <3>1. ~(k <= m)
      BY <2>1
    <3>. QED
      BY <1>4, <2>1, <3>1
  <2>3. (m + 1) + y = (m + y) + 1 /\ m + y \in Nat
    BY <1>1, <2>1
  <2>4. f((m + 1) + y) = f(m + y) + g(m + y)
    BY <1>2, <2>3
  <2>5. f(m + 1) = f(m) + g(m) /\ g(m + y) = g(m) /\ f(m) \in Nat /\ f(y) \in Nat /\ g(m) \in Nat
    BY <1>1, <1>2, <1>3
  <2>. QED
    BY <1>5, <2>1, <2>2, <2>4, <2>5
<1>. QED
  BY <1>6, <1>7

\* However many cycles, and some ticks of one more.
LEMMA Cycled ==
  ASSUME NEW c \in Cadences, NEW w, Polls(w), NEW q \in Nat, NEW r \in Nat
  PROVE  CostOf(q * Cycle(c) + r, c, w) = q * CostOf(Cycle(c), c, w) + CostOf(r, c, w)
<1>. DEFINE y == Cycle(c)
            f(k) == CostOf(k, c, w)
            S == {k \in Nat : f(k * y + r) # k * f(y) + f(r)}
<1>1. y \in Nat \ {0}
  BY Cycles
<1>2. \A k \in Nat : f(k) \in Nat
  BY CostGrows
<1>3. \A k \in Nat : f(k + y) = f(k) + f(y)
  BY SumRepeats
<1>. HIDE DEF y, f
<1>. SUFFICES ASSUME S # {} PROVE FALSE
  BY DEF f, y
<1>4. PICK k \in S : \A m \in S : k <= m
  <2>1. S \in SUBSET Nat
    OBVIOUS
  <2>. HIDE DEF S
  <2>. QED
    BY <2>1, Least
<1>5. k \in Nat /\ f(k * y + r) # k * f(y) + f(r)
  BY <1>4
<1>6. f(y) \in Nat /\ f(r) \in Nat
  BY <1>1, <1>2
<1>7. CASE k = 0
  <2>1. 0 * y = 0 /\ 0 * f(y) = 0
    BY <1>1, <1>6, Products
  <2>. QED
    BY <1>5, <1>6, <1>7, <2>1
<1>8. CASE k # 0
  <2>1. PICK m \in Nat : k = m + 1
    <3>1. k - 1 \in Nat /\ k = (k - 1) + 1
      BY <1>5, <1>8
    <3>. QED
      BY <3>1
  <2>2. f(m * y + r) = m * f(y) + f(r)
    <3>1. ~(k <= m)
      BY <2>1
    <3>. QED
      BY <1>4, <2>1, <3>1
  <2>3. (m + 1) * y = m * y + y /\ (m + 1) * f(y) = m * f(y) + f(y) /\ m * f(y) \in Int
    BY <1>1, <1>6, <2>1, Products
  <2>4. m * y \in Nat
    BY <1>1, <2>1
  <2>5. m * y + r \in Nat /\ (m + 1) * y + r = (m * y + r) + y
    BY <1>1, <2>3, <2>4
  <2>6. f((m + 1) * y + r) = f(m * y + r) + f(y)
    BY <1>3, <2>5
  <2>. QED
    BY <1>5, <1>6, <2>1, <2>2, <2>3, <2>6
<1>. QED
  BY <1>7, <1>8

\* More ticks cost no less.
LEMMA CostMonotone ==
  ASSUME NEW c, NEW w, Polls(w), NEW n \in Nat, NEW m \in Nat, n <= m
  PROVE  CostOf(n, c, w) <= CostOf(m, c, w)
<1>. DEFINE f(k) == CostOf(k, c, w)
            g(k) == Cost(k, c, w)
            S == {k \in Nat : ~(f(n) <= f(n + k))}
<1>1. \A k \in Nat : f(k) \in Nat /\ f(k + 1) = f(k) + g(k) /\ g(k) \in Nat
  BY CostGrows, CostIs
<1>. HIDE DEF f, g
<1>2. S = {}
  <2>. SUFFICES ASSUME S # {} PROVE FALSE
    OBVIOUS
  <2>1. PICK k \in S : \A l \in S : k <= l
    <3>1. S \in SUBSET Nat
      OBVIOUS
    <3>. HIDE DEF S
    <3>. QED
      BY <3>1, Least
  <2>2. k \in Nat /\ ~(f(n) <= f(n + k))
    BY <2>1
  <2>3. k # 0
    <3>1. n + 0 = n /\ f(n) \in Nat
      BY <1>1
    <3>. QED
      BY <2>2, <3>1
  <2>4. k - 1 \in Nat /\ ~(k <= k - 1)
    BY <2>2, <2>3
  <2>5. f(n) <= f(n + (k - 1))
    BY <2>1, <2>4
  <2>6. n + (k - 1) \in Nat /\ n + k = (n + (k - 1)) + 1
    BY <2>2, <2>4
  <2>7. f(n + k) = f(n + (k - 1)) + g(n + (k - 1))
    BY <1>1, <2>6
  <2>8. f(n) \in Nat /\ f(n + (k - 1)) \in Nat /\ g(n + (k - 1)) \in Nat
    BY <1>1, <2>6
  <2>. QED
    BY <2>2, <2>5, <2>7, <2>8
<1>3. m - n \in Nat /\ n + (m - n) = m
  OBVIOUS
<1>4. f(n) <= f(n + (m - n))
  BY <1>2, <1>3
<1>. QED
  BY <1>3, <1>4 DEF f

\* What the plan counts for a month is what its ticks cost, but for the last cycle.
LEMMA MonthCosts ==
  ASSUME NEW c \in Cadences, NEW w, Polls(w)
  PROVE  /\ Estimate(c, w) \in Int /\ Uneven(c, w) \in Int
         /\ CostOf(Month, c, w) <= Estimate(c, w) + Uneven(c, w)
<1>. DEFINE y == Cycle(c)
            q == Month \div y
            rest == Month % y
            F == CostOf(y, c, w)
            R == CostOf(rest, c, w)
            A == F * rest
            d == A \div y
            x == F * Month + y - 1
            e == x \div y
<1>1. y \in Nat \ {0}
  BY Cycles
<1>2. Month \in Nat \ {0}
  BY CadenceAssumption
<1>3. q \in Nat /\ rest \in Nat /\ Month = q * y + rest
  <2>. HIDE DEF y
  <2>1. Month \in Int /\ Month >= 0
    BY <1>2
  <2>2. q \in Int /\ rest \in 0..(y - 1) /\ Month = q * y + rest /\ q >= 0
    BY <1>1, <2>1, DivMod
  <2>. QED
    BY <1>1, <2>2
<1>4. F \in Nat /\ R \in Nat
  <2>. HIDE DEF y, rest
  <2>. QED
    BY <1>1, <1>3, CostGrows
<1>5. CostOf(Month, c, w) = q * F + R
  <2>1. CostOf(q * y + rest, c, w) = q * CostOf(y, c, w) + CostOf(rest, c, w)
    <3>. HIDE DEF q, rest
    <3>. QED
      BY <1>3, Cycled
  <2>. HIDE DEF y, q, rest
  <2>. QED
    BY <1>3, <2>1
<1>6. Estimate(c, w) = e /\ Uneven(c, w) = R - d
  BY DEF Estimate, Uneven
<1>. HIDE DEF y, q, rest, F, R
<1>7. A \in Nat /\ F * Month \in Nat /\ q * F \in Nat
  BY <1>2, <1>3, <1>4
<1>8. F * Month = (q * F) * y + A
  <2>1. F * (q * y + rest) = (q * F) * y + F * rest
    BY <1>1, <1>3, <1>4, Z3
  <2>. QED
    BY <1>3, <2>1
<1>. HIDE DEF A
<1>9. d \in Int /\ d * y <= A /\ d * y \in Int
  <2>1. d \in Int /\ A % y \in 0..(y - 1) /\ A = d * y + (A % y)
    BY <1>1, <1>7, DivMod
  <2>2. d * y \in Int
    BY <1>1, <2>1, Products
  <2>. HIDE DEF d
  <2>. QED
    BY <1>1, <1>7, <2>1, <2>2
<1>. HIDE DEF d
<1>10. e \in Int /\ F * Month <= e * y /\ e * y \in Int
  <2>1. x \in Int
    BY <1>1, <1>7
  <2>. DEFINE m == x % y
  <2>2. e \in Int /\ m \in 0..(y - 1) /\ x = e * y + m
    <3>. HIDE DEF x
    <3>. QED
      BY <1>1, <2>1, DivMod
  <2>. HIDE DEF e, m
  <2>3. e * y \in Int
    BY <1>1, <2>2, Products
  <2>. QED
    BY <1>1, <1>7, <2>2, <2>3
<1>. HIDE DEF e, x
<1>11. q * F + d <= e
  <2>. SUFFICES ASSUME e + 1 <= q * F + d PROVE FALSE
    BY <1>7, <1>9, <1>10
  <2>. DEFINE s == q * F + d
  <2>1. s \in Int /\ e + 1 \in Int
    BY <1>7, <1>9, <1>10
  <2>2. (e + 1) * y <= s * y /\ (e + 1) * y = e * y + y
    <3>. HIDE DEF s
    <3>1. e + 1 <= s
      BY DEF s
    <3>. QED
      BY <1>1, <1>10, <2>1, <3>1, Products
  <2>3. s * y = (q * F) * y + d * y /\ (q * F) * y \in Int
    <3>1. \A a, b \in Int : (a + b) * y = a * y + b * y /\ a * y \in Int
      BY <1>1, Z3
    <3>. QED
      BY <1>7, <1>9, <3>1
  <2>. HIDE DEF s
  <2>4. s * y \in Int
    BY <1>9, <2>3
  <2>. QED
    BY <1>1, <1>7, <1>8, <1>9, <1>10, <2>2, <2>3, <2>4
<1>. QED
  BY <1>4, <1>5, <1>6, <1>7, <1>9, <1>10, <1>11

\* How often a multiple of p comes up among the first n numbers lies between multiples.
LEMMA TimesIs ==
  ASSUME NEW p \in Nat \ {0}, NEW n \in Nat
  PROVE  /\ Times(n, p) \in Nat /\ Times(n, p) * p \in Int
         /\ n <= Times(n, p) * p /\ Times(n, p) * p <= n + p - 1
<1>. DEFINE x == n + p - 1
            k == x \div p
            m == x % p
<1>1. x \in Int /\ x >= 0
  OBVIOUS
<1>2. k \in Int /\ k >= 0 /\ m \in 0..(p - 1) /\ x = k * p + m
  <2>. HIDE DEF x
  <2>. QED
    BY <1>1, DivMod
<1>3. Times(n, p) = k
  BY DEF Times
<1>. HIDE DEF k, m
<1>4. k * p \in Int
  BY <1>2, Products
<1>. QED
  BY <1>2, <1>3, <1>4

\* One more with each multiple.
LEMMA TimesGrow ==
  ASSUME NEW p \in Nat \ {0}
  PROVE  /\ Times(0, p) = 0
         /\ \A n \in Nat : Times(n, p) \in Nat
         /\ \A n, m \in Nat : n <= m => Times(n, p) <= Times(m, p)
         /\ \A n \in Nat : Times(n + 1, p) = IF n % p = 0 THEN Times(n, p) + 1 ELSE Times(n, p)
<1>. DEFINE f(n) == Times(n, p)
<1>1. ASSUME NEW n \in Nat, NEW q \in Int, q * p <= n + p - 1, n + p - 1 < q * p + p
      PROVE  f(n) = q
  <2>. DEFINE x == n + p - 1
  <2>1. x \in Int /\ q * p <= x /\ x < q * p + p
    BY <1>1
  <2>. HIDE DEF x
  <2>2. x \div p = q
    BY <2>1, Quotient
  <2>. QED
    BY <2>2 DEF x, Times
<1>2. ASSUME NEW n \in Nat
      PROVE  f(n) \in Nat /\ f(n) * p <= n + p - 1 /\ n <= f(n) * p /\ f(n) * p \in Int
  BY TimesIs
<1>3. ASSUME NEW n \in Nat, NEW m \in Nat, n <= m PROVE f(n) <= f(m)
  <2>. HIDE DEF f
  <2>. SUFFICES ASSUME f(m) + 1 <= f(n) PROVE FALSE
    BY <1>2
  <2>1. (f(m) + 1) * p <= f(n) * p /\ (f(m) + 1) * p = f(m) * p + p
    <3>1. f(m) + 1 \in Int /\ f(n) \in Int /\ f(m) \in Int
      BY <1>2
    <3>. QED
      BY <3>1, Products
  <2>. QED
    BY <1>2, <1>3, <2>1
<1>4. ASSUME NEW n \in Nat
      PROVE  f(n + 1) = IF n % p = 0 THEN f(n) + 1 ELSE f(n)
  <2>. DEFINE k == n \div p
              r == n % p
  <2>1. k \in Int /\ r \in 0..(p - 1) /\ n = k * p + r
    <3>1. n \in Int
      OBVIOUS
    <3>. QED
      BY <3>1, DivMod
  <2>. HIDE DEF k, r
  <2>2. k * p \in Int /\ (k + 1) * p = k * p + p /\ k + 1 \in Int /\ n + 1 \in Nat
    BY <2>1, Products
  <2>3. CASE r = 0
    <3>1. k * p <= n + p - 1 /\ n + p - 1 < k * p + p
      BY <2>1, <2>2, <2>3
    <3>2. (k + 1) * p <= (n + 1) + p - 1 /\ (n + 1) + p - 1 < (k + 1) * p + p
      BY <2>1, <2>2, <2>3
    <3>3. f(n) = k
      BY <1>1, <2>1, <3>1
    <3>4. f(n + 1) = k + 1
      BY <1>1, <2>2, <3>2
    <3>. QED
      BY <2>3, <3>3, <3>4 DEF r
  <2>4. CASE r # 0
    <3>1. (k + 1) * p <= n + p - 1 /\ n + p - 1 < (k + 1) * p + p
      BY <2>1, <2>2, <2>4
    <3>2. (k + 1) * p <= (n + 1) + p - 1 /\ (n + 1) + p - 1 < (k + 1) * p + p
      BY <2>1, <2>2, <2>4
    <3>3. f(n) = k + 1
      BY <1>1, <2>2, <3>1
    <3>4. f(n + 1) = k + 1
      BY <1>1, <2>2, <3>2
    <3>. QED
      BY <2>4, <3>3, <3>4 DEF r
  <2>. QED
    BY <2>3, <2>4
<1>5. f(0) = 0
  <2>1. 0 * p = 0
    BY Products
  <2>. QED
    BY <1>1, <2>1
<1>. QED
  BY <1>2, <1>3, <1>4, <1>5

\* A window of n numbers holds no more multiples than the first n do.
LEMMA Windows ==
  ASSUME NEW p \in Nat \ {0}, NEW x \in Nat, NEW n \in Nat
  PROVE  Times(x + n, p) <= Times(x, p) + Times(n, p)
<1>. DEFINE X == Times(x, p)
            N == Times(n, p)
            Z == Times(x + n, p)
<1>1. /\ X \in Nat /\ N \in Nat /\ X * p \in Int /\ N * p \in Int
      /\ x <= X * p /\ n <= N * p
  BY TimesIs
<1>2. Z \in Nat /\ Z * p \in Int /\ Z * p <= x + n + p - 1
  <2>1. x + n \in Nat
    OBVIOUS
  <2>. QED
    BY <2>1, TimesIs
<1>. HIDE DEF X, N, Z
<1>3. SUFFICES ASSUME X + N + 1 <= Z PROVE FALSE
  BY <1>1, <1>2 DEF X, N, Z
<1>4. (X + N + 1) * p <= Z * p
  <2>1. X + N + 1 \in Int /\ Z \in Int
    BY <1>1, <1>2
  <2>. HIDE DEF X, N, Z
  <2>. QED
    BY <1>3, <2>1, Products
<1>5. (X + N + 1) * p = X * p + N * p + p
  BY <1>1, Z3
<1>. QED
  BY <1>1, <1>2, <1>4, <1>5

\* What needs p ticks before it happens again, and the last time is g ticks ago.
LEMMA AtMostTimes ==
  ASSUME NEW p \in Nat \ {0}, NEW n \in Nat, NEW b \in Nat, NEW g \in Nat \ {0},
         (b - 1) * p + g <= n
  PROVE  b <= Times(n, p)
<1>. DEFINE N == Times(n, p)
<1>1. N \in Nat /\ N * p \in Int /\ n <= N * p
  BY TimesIs
<1>. HIDE DEF N
<1>2. SUFFICES ASSUME N <= b - 1 PROVE FALSE
  BY <1>1 DEF N
<1>3. N * p <= (b - 1) * p /\ (b - 1) * p \in Int
  <2>1. N \in Int /\ b - 1 \in Int
    BY <1>1
  <2>. QED
    BY <1>2, <2>1, Products
<1>. QED
  BY <1>1, <1>3

\* What a set is worth, a member apart.
LEMMA WorthStep ==
  ASSUME NEW h, NEW S, IsFiniteSet(S), \A x \in S : h[x] \in Nat
  PROVE  /\ Worth(h, {}) = 0 /\ Worth(h, S) \in Nat
         /\ \A x \in S : Worth(h, S) = h[x] + Worth(h, S \ {x}) /\ Worth(h, S \ {x}) \in Nat
<1>1. Worth(h, {}) = 0
  <2>1. Units(h, {}) = {}
    BY DEF Units
  <2>2. IsFiniteSet({}) /\ \A x \in {} : h[x] \in Nat
    BY FS_EmptySet
  <2>3. Worth(h, {}) = Cardinality(Units(h, {}))
    BY <2>2, WorthIs
  <2>. QED
    BY <2>1, <2>3, FS_EmptySet
<1>2. ASSUME NEW x \in S
      PROVE  Worth(h, S) = h[x] + Worth(h, S \ {x}) /\ Worth(h, S \ {x}) \in Nat
  <2>1. IsFiniteSet(S \ {x}) /\ \A y \in S \ {x} : h[y] \in Nat
    BY FS_Subset
  <2>2. /\ Worth(h, S) = Cardinality(Units(h, S))
        /\ Worth(h, S \ {x}) = Cardinality(Units(h, S \ {x})) /\ IsFiniteSet(Units(h, S \ {x}))
    BY <2>1, WorthIs, UnitsFinite
  <2>3. Worth(h, S \ {x}) \in Nat
    BY <2>1, WorthGrows
  <2>. QED
    BY <2>2, <2>3, OneMore
<1>3. Worth(h, S) \in Nat
  BY WorthGrows
<1>. QED
  BY <1>1, <1>2, <1>3

\* What some members gain, all gain together.
LEMMA WorthAdds ==
  ASSUME NEW f, NEW g, NEW h, NEW S, IsFiniteSet(S), NEW L \in SUBSET S,
         \A x \in S : f[x] \in Nat /\ h[x] \in Nat /\ g[x] = IF x \in L THEN f[x] + h[x] ELSE f[x]
  PROVE  Worth(g, S) = Worth(f, S) + Worth(h, L)
<1>. DEFINE C == {s \in SUBSET S : Worth(g, s) # Worth(f, s) + Worth(h, s \cap L)}
<1>. SUFFICES ASSUME C # {} PROVE FALSE
  <2>1. S \cap L = L
    OBVIOUS
  <2>. QED
    BY <2>1
<1>1. PICK s \in C : \A r \in C : r \subseteq s => r = s
  <2>1. C \in SUBSET (SUBSET S)
    OBVIOUS
  <2>. HIDE DEF C
  <2>. QED
    BY <2>1, Smallest
<1>2. /\ s \subseteq S /\ IsFiniteSet(s) /\ IsFiniteSet(s \cap L)
      /\ Worth(g, s) # Worth(f, s) + Worth(h, s \cap L)
      /\ \A x \in s : f[x] \in Nat /\ h[x] \in Nat /\ g[x] \in Nat
  BY <1>1, FS_Subset
<1>3. /\ Worth(g, {}) = 0 /\ Worth(f, {}) = 0 /\ Worth(h, {}) = 0
      /\ \A x \in s : Worth(g, s) = g[x] + Worth(g, s \ {x}) /\ Worth(g, s \ {x}) \in Nat
      /\ \A x \in s : Worth(f, s) = f[x] + Worth(f, s \ {x}) /\ Worth(f, s \ {x}) \in Nat
      /\ \A x \in s \cap L : /\ Worth(h, s \cap L) = h[x] + Worth(h, (s \cap L) \ {x})
                             /\ Worth(h, (s \cap L) \ {x}) \in Nat
      /\ Worth(h, s \cap L) \in Nat
  BY <1>2, WorthStep
<1>4. CASE s = {}
  <2>1. s \cap L = {}
    BY <1>4
  <2>. QED
    BY <1>2, <1>3, <1>4, <2>1
<1>5. CASE s # {}
  <2>1. PICK x \in s : TRUE
    BY <1>5
  <2>2. s \ {x} \notin C /\ s \ {x} \in SUBSET S
    BY <1>1, <1>2, <2>1
  <2>3. Worth(g, s \ {x}) = Worth(f, s \ {x}) + Worth(h, (s \ {x}) \cap L)
    BY <2>2
  <2>4. /\ Worth(g, s) = g[x] + Worth(g, s \ {x}) /\ Worth(f, s) = f[x] + Worth(f, s \ {x})
        /\ Worth(f, s \ {x}) \in Nat /\ f[x] \in Nat /\ h[x] \in Nat
    BY <1>2, <1>3, <2>1
  <2>. HIDE DEF C
  <2>5. CASE x \in L
    <3>1. (s \ {x}) \cap L = (s \cap L) \ {x} /\ g[x] = f[x] + h[x] /\ x \in s \cap L
      BY <1>2, <2>1, <2>5
    <3>2. /\ Worth(h, s \cap L) = h[x] + Worth(h, (s \cap L) \ {x})
          /\ Worth(h, (s \cap L) \ {x}) \in Nat
      BY <1>3, <3>1
    <3>3. Worth(h, (s \ {x}) \cap L) = Worth(h, (s \cap L) \ {x})
      BY <3>1
    <3>4. /\ Worth(g, s) # Worth(f, s) + Worth(h, s \cap L)
          /\ g[x] = f[x] + h[x]
      BY <1>2, <3>1
    <3>. QED
      BY <2>3, <2>4, <3>2, <3>3, <3>4
  <2>6. CASE x \notin L
    <3>1. (s \ {x}) \cap L = s \cap L /\ g[x] = f[x]
      BY <1>2, <2>1, <2>6
    <3>2. Worth(h, s \cap L) \in Nat
      BY <1>3
    <3>3. Worth(h, (s \ {x}) \cap L) = Worth(h, s \cap L)
      BY <3>1
    <3>4. /\ Worth(g, s) # Worth(f, s) + Worth(h, s \cap L)
          /\ g[x] = f[x]
      BY <1>2, <3>1
    <3>. QED
      BY <2>3, <2>4, <3>2, <3>3, <3>4
  <2>. QED
    BY <2>5, <2>6
<1>. QED
  BY <1>4, <1>5

\* Nor are many more than the many of what each is.
LEMMA WorthTimes ==
  ASSUME NEW f, NEW h, NEW S, IsFiniteSet(S), NEW k \in Nat,
         \A x \in S : f[x] \in Nat /\ h[x] \in Nat /\ f[x] <= k * h[x]
  PROVE  Worth(f, S) <= k * Worth(h, S)
<1>. DEFINE C == {s \in SUBSET S : ~(Worth(f, s) <= k * Worth(h, s))}
<1>. SUFFICES ASSUME C # {} PROVE FALSE
  OBVIOUS
<1>1. PICK s \in C : \A r \in C : r \subseteq s => r = s
  <2>1. C \in SUBSET (SUBSET S)
    OBVIOUS
  <2>. HIDE DEF C
  <2>. QED
    BY <2>1, Smallest
<1>2. /\ s \subseteq S /\ IsFiniteSet(s) /\ ~(Worth(f, s) <= k * Worth(h, s))
      /\ \A x \in s : f[x] \in Nat /\ h[x] \in Nat /\ f[x] <= k * h[x]
  BY <1>1, FS_Subset
<1>3. /\ Worth(f, {}) = 0 /\ Worth(h, {}) = 0
      /\ \A x \in s : Worth(f, s) = f[x] + Worth(f, s \ {x}) /\ Worth(f, s \ {x}) \in Nat
      /\ \A x \in s : Worth(h, s) = h[x] + Worth(h, s \ {x}) /\ Worth(h, s \ {x}) \in Nat
  BY <1>2, WorthStep
<1>4. CASE s = {}
  <2>1. k * 0 = 0
    OBVIOUS
  <2>. QED
    BY <1>2, <1>3, <1>4, <2>1
<1>5. CASE s # {}
  <2>1. PICK x \in s : TRUE
    BY <1>5
  <2>2. s \ {x} \notin C /\ s \ {x} \in SUBSET S
    BY <1>1, <1>2, <2>1
  <2>3. Worth(f, s \ {x}) <= k * Worth(h, s \ {x})
    BY <2>2
  <2>. DEFINE H == Worth(h, s \ {x})
              d == h[x]
  <2>4. k * (d + H) = k * d + k * H /\ k * d \in Nat /\ k * H \in Nat
    <3>1. d \in Nat /\ H \in Nat
      BY <1>2, <1>3, <2>1
    <3>. HIDE DEF d, H
    <3>. QED
      BY <3>1, Z3
  <2>5. f[x] <= k * d /\ f[x] \in Nat /\ Worth(f, s) = f[x] + Worth(f, s \ {x}) /\ Worth(h, s) = d + H
    BY <1>2, <1>3, <2>1
  <2>6. Worth(f, s \ {x}) \in Nat
    BY <1>3, <2>1
  <2>. HIDE DEF C
  <2>. QED
    BY <1>2, <2>3, <2>4, <2>5, <2>6
<1>. QED
  BY <1>4, <1>5

\* The ticks that polled the categories.
CategoryRuns(n, c) == Times(n, c["categories"])

\* They are counted so.
LEMMA RunsGrow ==
  ASSUME NEW c \in Cadences
  PROVE  /\ \A n \in Nat : CategoryRuns(n, c) \in Nat
         /\ \A n, m \in Nat : n <= m => CategoryRuns(n, c) <= CategoryRuns(m, c)
         /\ \A n, m \in Nat : CategoryRuns(n + m, c) <= CategoryRuns(n, c) + CategoryRuns(m, c)
         /\ \A n \in Nat : CategoryRuns(n + 1, c) =
              IF Due(n, c["categories"]) THEN CategoryRuns(n, c) + 1 ELSE CategoryRuns(n, c)
<1>. DEFINE p == c["categories"]
<1>1. p \in Nat \ {0}
  BY DEF Cadences, Lane
<1>2. \A n : CategoryRuns(n, c) = Times(n, p) /\ (Due(n, p) <=> n % p = 0)
  BY DEF CategoryRuns, Due
<1>. HIDE DEF p
<1>3. /\ \A n \in Nat : Times(n, p) \in Nat
      /\ \A n, m \in Nat : n <= m => Times(n, p) <= Times(m, p)
      /\ \A n \in Nat : Times(n + 1, p) = IF n % p = 0 THEN Times(n, p) + 1 ELSE Times(n, p)
  BY <1>1, TimesGrow
<1>4. \A n, m \in Nat : Times(n + m, p) <= Times(n, p) + Times(m, p)
  BY <1>1, Windows
<1>. QED
  BY <1>2, <1>3, <1>4 DEF p

\* Since tick s, when r category runs were counted, a of the asset refreshes came in their
\* turn and b because the assets went stale.
Refreshed(c, s, r, a, b) ==
  LET R == CategoryRuns(tickCount, c) - CategoryRuns(s, c) IN
  /\ runs = (r + R) % RwaEvery
  /\ a + b <= R
  /\ Times(r, RwaEvery) + a <= Times(r + R, RwaEvery)
  /\ b = 0 \/ (rwaAge # Unset /\ (b - 1) * (RwaStale + 1) + rwaAge <= tickCount - s)

\* Since tick s the price low of each coin was asked so often.
Asked(f, s) ==
  \A x \in Coin : f[x] = 0 \/ (f[x] - 1) * LowTtl + lowAge[x] <= tickCount - s

\* What the lows cost that were asked so often.
Lows(f) == [x \in Coin |-> LowCost[x] * f[x]]

\* The stablecoins' metadata.
Metadata(w) == CreditsForIds(Cardinality(w.stable))

\* What has been spent since tick s, when it was base, with what is watched, w, at the cadence c.
Accounted(w, c, s, base) ==
  \E r, a, b \in Nat, f \in [Coin -> Nat] :
    /\ Refreshed(c, s, r, a, b)
    /\ Asked(f, s)
    /\ spent - base <= CostOf(tickCount, c, w) - CostOf(s, c, w) + RwaCost * (a + b)
                         + (IF tickCount = s THEN 0 ELSE Metadata(w)) + Worth(Lows(f), w.top)

AccountTypes ==
  /\ key \in Limits /\ limit \in {Unset, key} /\ changes \in Nat /\ tickCount \in 0..Month
  /\ rwaAge = Unset \/ rwaAge \in 1..(RwaStale + 1)
  /\ runs \in 0..(RwaEvery - 1)
  /\ lowAge \in [Coin -> 1..LowTtl]
  /\ spent \in Nat /\ since \in 0..tickCount /\ before \in Nat
  /\ held \in [User -> Holder]

\* The metadata of what is held is stored, and once there was a tick that of the stablecoins.
Described ==
  /\ \A u \in User : RowsOf(held[u]) \subseteq described
  /\ tickCount > 0 => Pegged \subseteq described

Account ==
  /\ AccountTypes
  /\ Described
  /\ tickCount = 0 => plan = Unset /\ spent = 0
  /\ plan # Unset =>
       /\ Polls(workload) /\ workload.stable = Pegged /\ plan.cadence \in Cadences
       /\ since < tickCount
       /\ Accounted(workload, plan.cadence, since, before)
  /\ changes = 0 /\ ~blind =>
       /\ held \in [User -> Portfolios]
       /\ tickCount > 0 => /\ limit = key /\ workload = Workload(held) /\ plan = PlanFor(key, workload)
                           /\ plan # Unset => since = 0 /\ before = 0

\* One up to a limit.
LEMMA Capped ==
  ASSUME NEW x \in Int, NEW cap \in Int
  PROVE  Min({x, cap}) <= x /\ Min({x, cap}) <= cap /\ Min({x, cap}) \in {x, cap}
BY OfTwo

\* The age of the assets after a tick.
LEMMA RwaAges ==
  ASSUME AccountTypes, rwaAge' = IF RefreshRwa THEN 1 ELSE IF rwaAge = Unset THEN Unset ELSE Min({rwaAge + 1, RwaStale + 1})
  PROVE  /\ rwaAge' = Unset \/ rwaAge' \in 1..(RwaStale + 1)
         /\ RefreshRwa => rwaAge' = 1
         /\ ~RefreshRwa /\ rwaAge # Unset => rwaAge' # Unset /\ rwaAge' <= rwaAge + 1
<1>1. RwaStale \in Nat /\ RwaStale + 1 \in Int /\ Unset \notin Nat
  BY CadenceAssumption
<1>2. CASE ~RefreshRwa /\ rwaAge # Unset
  <2>1. rwaAge \in 1..(RwaStale + 1) /\ rwaAge + 1 \in Int
    BY <1>1, <1>2 DEF AccountTypes
  <2>2. /\ Min({rwaAge + 1, RwaStale + 1}) \in {rwaAge + 1, RwaStale + 1}
        /\ Min({rwaAge + 1, RwaStale + 1}) <= rwaAge + 1 /\ Min({rwaAge + 1, RwaStale + 1}) <= RwaStale + 1
    BY <1>1, <2>1, Capped
  <2>3. rwaAge' = Min({rwaAge + 1, RwaStale + 1})
    BY <1>2
  <2>4. rwaAge' \in 1..(RwaStale + 1) /\ rwaAge' <= rwaAge + 1
    BY <1>1, <2>1, <2>2, <2>3
  <2>. QED
    BY <1>1, <1>2, <2>4
<1>3. CASE RefreshRwa \/ rwaAge = Unset
  BY <1>1, <1>3
<1>. QED
  BY <1>2, <1>3

\* A tick refreshes the assets in their turn, or because they are stale, or not.
LEMMA TickRefreshes ==
  ASSUME AccountTypes, tickCount' = tickCount + 1, NEW c \in Cadences, plan'.cadence = c,
         NEW s \in 0..tickCount, NEW r \in Nat, NEW a \in Nat, NEW b \in Nat, Refreshed(c, s, r, a, b),
         runs' = IF Due(tickCount, c["categories"]) THEN (runs + 1) % RwaEvery ELSE runs,
         rwaAge' = IF RefreshRwa THEN 1 ELSE IF rwaAge = Unset THEN Unset ELSE Min({rwaAge + 1, RwaStale + 1})
  PROVE  \E x, y \in Nat : /\ Refreshed(c, s, r, x, y)'
                           /\ x + y = a + b + (IF RefreshRwa THEN 1 ELSE 0)
<1>. DEFINE t == tickCount
            due == Due(t, c["categories"])
            R == CategoryRuns(t, c) - CategoryRuns(s, c)
            N == CategoryRuns(t + 1, c) - CategoryRuns(s, c)
            T(n) == Times(n, RwaEvery)
<1>1. /\ t \in Nat /\ s \in Nat /\ s <= t /\ RwaEvery \in Nat \ {0} /\ RwaStale \in Nat
      /\ Unset \notin Nat /\ runs \in 0..(RwaEvery - 1)
  BY CadenceAssumption DEF AccountTypes
<1>2. R \in Nat /\ N = IF due THEN R + 1 ELSE R
  <2>1. /\ CategoryRuns(t, c) \in Nat /\ CategoryRuns(s, c) \in Nat /\ CategoryRuns(s, c) <= CategoryRuns(t, c)
        /\ CategoryRuns(t + 1, c) = IF due THEN CategoryRuns(t, c) + 1 ELSE CategoryRuns(t, c)
    BY <1>1, RunsGrow
  <2>. QED
    BY <2>1
<1>3. /\ runs = (r + R) % RwaEvery /\ a + b <= R /\ T(r) + a <= T(r + R)
      /\ b = 0 \/ (rwaAge # Unset /\ (b - 1) * (RwaStale + 1) + rwaAge <= t - s)
  BY DEF Refreshed
<1>4. RefreshRwa => due /\ (runs % RwaEvery = 0 \/ (rwaAge # Unset /\ rwaAge > RwaStale))
  BY DEF RefreshRwa
<1>5. /\ rwaAge = Unset \/ rwaAge \in 1..(RwaStale + 1)
      /\ RefreshRwa => rwaAge' = 1
      /\ ~RefreshRwa /\ rwaAge # Unset => rwaAge' # Unset /\ rwaAge' <= rwaAge + 1
      /\ rwaAge' = Unset \/ rwaAge' \in 1..(RwaStale + 1)
  BY RwaAges DEF AccountTypes
<1>6. ASSUME NEW x \in Nat, NEW y \in Nat, x + y <= N, T(r) + x <= T(r + N),
             y = 0 \/ (rwaAge' # Unset /\ (y - 1) * (RwaStale + 1) + rwaAge' <= t + 1 - s)
      PROVE  Refreshed(c, s, r, x, y)'
  <2>1. runs' = (r + N) % RwaEvery
    <3>1. (((r + R) % RwaEvery) + 1) % RwaEvery = ((r + R) + 1) % RwaEvery
      <4>1. r + R \in Nat
        BY <1>2
      <4>. HIDE DEF R
      <4>. QED
        BY <1>1, <4>1, NextRest
    <3>2. runs' = IF due THEN (runs + 1) % RwaEvery ELSE runs
      OBVIOUS
    <3>3. (r + R) + 1 = r + (R + 1)
      BY <1>2
    <3>. HIDE DEF due, R, N
    <3>. QED
      BY <1>2, <1>3, <3>1, <3>2, <3>3
  <2>2. /\ x + y <= N /\ Times(r, RwaEvery) + x <= Times(r + N, RwaEvery)
        /\ y = 0 \/ (rwaAge' # Unset /\ (y - 1) * (RwaStale + 1) + rwaAge' <= tickCount' - s)
    <3>1. tickCount' = t + 1
      OBVIOUS
    <3>2. Times(r, RwaEvery) = T(r) /\ Times(r + N, RwaEvery) = T(r + N)
      OBVIOUS
    <3>3. tickCount' - s = t + 1 - s
      BY <1>1, <3>1
    <3>4. x + y <= N /\ T(r) + x <= T(r + N)
      BY ONLY <1>6
    <3>5. y = 0 \/ (rwaAge' # Unset /\ (y - 1) * (RwaStale + 1) + rwaAge' <= t + 1 - s)
      BY ONLY <1>6
    <3>. HIDE DEF N, T, t
    <3>. QED
      BY <3>2, <3>3, <3>4, <3>5
  <2>3. N = CategoryRuns(tickCount', c) - CategoryRuns(s, c)
    OBVIOUS
  <2>. HIDE DEF N, T, t
  <2>. QED
    BY <2>1, <2>2, <2>3 DEF Refreshed
<1>7. /\ T(r) \in Nat /\ T(r + R) \in Nat /\ T(r + N) \in Nat /\ T(r + R) <= T(r + N)
      /\ due /\ (r + R) % RwaEvery = 0 => T(r + N) = T(r + R) + 1
  <2>1. r + R \in Nat /\ r + N \in Nat /\ r + R <= r + N /\ (due => r + N = (r + R) + 1)
    BY <1>2
  <2>. HIDE DEF R, N, due
  <2>. QED
    BY <1>1, <2>1, TimesGrow
<1>8. runs % RwaEvery = 0 => (r + R) % RwaEvery = 0
  <2>1. runs % RwaEvery = runs
    BY <1>1, Z3
  <2>. QED
    BY <1>3, <2>1
<1>. DEFINE B == (b - 1) * (RwaStale + 1)
<1>9. B \in Int /\ ((b + 1) - 1) * (RwaStale + 1) = B + RwaStale + 1
  <2>1. RwaStale + 1 \in Nat /\ b - 1 \in Int /\ (b + 1) - 1 = (b - 1) + 1
    BY <1>1
  <2>2. B \in Int /\ ((b - 1) + 1) * (RwaStale + 1) = B + (RwaStale + 1)
    BY <2>1, Products
  <2>3. B + (RwaStale + 1) = B + RwaStale + 1
    BY <1>1, <2>2
  <2>. QED
    BY <2>1, <2>2, <2>3
<1>10. b = 0 \/ (rwaAge # Unset /\ B + rwaAge <= t - s)
  BY <1>3
<1>11. \A x, y \in Nat :
         /\ x + y <= N /\ T(r) + x <= T(r + N)
         /\ y = 0 \/ (rwaAge' # Unset /\ (y - 1) * (RwaStale + 1) + rwaAge' <= t + 1 - s)
         => Refreshed(c, s, r, x, y)'
  BY <1>6
<1>. HIDE DEF due, R, N, T, t
<1>12. CASE ~RefreshRwa
  <2>1. b = 0 \/ (rwaAge' # Unset /\ B + rwaAge' <= t + 1 - s)
    <3>1. CASE b = 0
      BY <3>1
    <3>2. CASE b # 0
      <4>1. /\ rwaAge # Unset /\ rwaAge \in Int /\ B + rwaAge <= t - s
            /\ rwaAge' # Unset /\ rwaAge' \in Int /\ rwaAge' <= rwaAge + 1
        BY <1>1, <1>5, <1>10, <1>12, <3>2
      <4>. HIDE DEF B
      <4>. QED
        BY <1>1, <1>9, <4>1
    <3>. QED
      BY <3>1, <3>2
  <2>2. a + b <= N /\ T(r) + a <= T(r + N)
    BY <1>2, <1>3, <1>7
  <2>3. Refreshed(c, s, r, a, b)'
    BY <1>11, <2>1, <2>2
  <2>4. a + b = a + b + 0
    OBVIOUS
  <2>. QED
    BY <1>12, <2>3, <2>4
<1>13. CASE RefreshRwa /\ runs % RwaEvery = 0
  <2>1. rwaAge' = 1 /\ 1 # Unset
    BY <1>1, <1>5, <1>13
  <2>2. b = 0 \/ (rwaAge' # Unset /\ B + rwaAge' <= t + 1 - s)
    <3>1. CASE b = 0
      BY <3>1
    <3>2. CASE b # 0
      <4>1. rwaAge \in Int /\ rwaAge >= 1 /\ B + rwaAge <= t - s
        BY <1>1, <1>5, <1>10, <3>2
      <4>. HIDE DEF B
      <4>. QED
        BY <1>1, <1>9, <2>1, <4>1
    <3>. QED
      BY <3>1, <3>2
  <2>3. (a + 1) + b <= N /\ T(r) + (a + 1) <= T(r + N) /\ a + 1 \in Nat
    BY <1>2, <1>3, <1>4, <1>7, <1>8, <1>13
  <2>4. Refreshed(c, s, r, a + 1, b)'
    BY <1>11, <2>2, <2>3
  <2>5. (a + 1) + b = a + b + 1
    OBVIOUS
  <2>. QED
    BY <1>13, <2>3, <2>4, <2>5
<1>14. CASE RefreshRwa /\ rwaAge # Unset /\ rwaAge > RwaStale
  <2>1. rwaAge' = 1 /\ 1 # Unset /\ rwaAge \in Int /\ rwaAge >= RwaStale + 1
    BY <1>1, <1>5, <1>14
  <2>2. ((b + 1) - 1) * (RwaStale + 1) + rwaAge' <= t + 1 - s
    <3>1. CASE b = 0
      <4>1. ((b + 1) - 1) * (RwaStale + 1) = 0
        BY <1>1, <3>1
      <4>. QED
        BY <1>1, <2>1, <4>1
    <3>2. CASE b # 0
      <4>1. B + rwaAge <= t - s
        BY <1>10, <3>2
      <4>. HIDE DEF B
      <4>. QED
        BY <1>1, <1>9, <2>1, <4>1
    <3>. QED
      BY <3>1, <3>2
  <2>3. a + (b + 1) <= N /\ T(r) + a <= T(r + N) /\ b + 1 \in Nat
    BY <1>2, <1>3, <1>4, <1>7, <1>14
  <2>4. Refreshed(c, s, r, a, b + 1)'
    BY <1>11, <2>1, <2>2, <2>3
  <2>5. a + (b + 1) = a + b + 1
    OBVIOUS
  <2>. QED
    BY <1>14, <2>3, <2>4, <2>5
<1>. QED
  BY <1>4, <1>12, <1>13, <1>14

\* The age of each low after a tick.
LEMMA LowAges ==
  ASSUME AccountTypes, NEW lows,
         lowAge' = [c \in Coin |-> IF c \in lows THEN 1 ELSE Min({lowAge[c] + 1, LowTtl})]
  PROVE  /\ lowAge' \in [Coin -> 1..LowTtl]
         /\ \A x \in Coin : IF x \in lows THEN lowAge'[x] = 1 ELSE lowAge'[x] <= lowAge[x] + 1
<1>1. ASSUME NEW x \in Coin
      PROVE  /\ lowAge'[x] \in 1..LowTtl
             /\ IF x \in lows THEN lowAge'[x] = 1 ELSE lowAge'[x] <= lowAge[x] + 1
  <2>1. LowTtl \in Nat \ {0} /\ lowAge[x] \in 1..LowTtl
    BY CadenceAssumption DEF AccountTypes
  <2>2. /\ Min({lowAge[x] + 1, LowTtl}) <= lowAge[x] + 1 /\ Min({lowAge[x] + 1, LowTtl}) <= LowTtl
        /\ Min({lowAge[x] + 1, LowTtl}) \in {lowAge[x] + 1, LowTtl}
    <3>1. lowAge[x] + 1 \in Int /\ LowTtl \in Int
      BY <2>1
    <3>. QED
      BY <3>1, Capped
  <2>3. lowAge'[x] = IF x \in lows THEN 1 ELSE Min({lowAge[x] + 1, LowTtl})
    OBVIOUS
  <2>. QED
    BY <2>1, <2>2, <2>3
<1>. QED
  BY <1>1

\* A tick asks for lows that are stale.
LEMMA TickAsks ==
  ASSUME AccountTypes, tickCount' = tickCount + 1, NEW s \in 0..tickCount,
         NEW f \in [Coin -> Nat], Asked(f, s),
         NEW lows \in SUBSET Coin, \A x \in lows : lowAge[x] = LowTtl,
         lowAge' = [c \in Coin |-> IF c \in lows THEN 1 ELSE Min({lowAge[c] + 1, LowTtl})]
  PROVE  Asked([x \in Coin |-> IF x \in lows THEN f[x] + 1 ELSE f[x]], s)'
<1>. DEFINE g == [x \in Coin |-> IF x \in lows THEN f[x] + 1 ELSE f[x]]
<1>. SUFFICES ASSUME NEW x \in Coin, g[x] # 0
              PROVE  (g[x] - 1) * LowTtl + lowAge'[x] <= tickCount' - s
  <2>1. (\A x \in Coin : g[x] = 0 \/ (g[x] - 1) * LowTtl + lowAge'[x] <= tickCount' - s) => Asked(g, s)'
    <3>. HIDE DEF g
    <3>. QED
      BY DEF Asked
  <2>. QED
    BY <2>1
<1>1. /\ tickCount \in Int /\ s \in Int /\ s <= tickCount /\ LowTtl \in Nat
      /\ lowAge[x] \in Int /\ lowAge'[x] \in Int /\ f[x] \in Nat
      /\ IF x \in lows THEN lowAge'[x] = 1 ELSE lowAge'[x] <= lowAge[x] + 1
  <2>1. /\ lowAge' \in [Coin -> 1..LowTtl]
        /\ IF x \in lows THEN lowAge'[x] = 1 ELSE lowAge'[x] <= lowAge[x] + 1
    BY LowAges
  <2>2. tickCount \in Int /\ s \in Int /\ s <= tickCount
    BY DEF AccountTypes
  <2>3. LowTtl \in Nat /\ lowAge[x] \in Int /\ f[x] \in Nat
    BY CadenceAssumption DEF AccountTypes
  <2>4. lowAge'[x] \in Int
    BY <2>1
  <2>. QED
    BY <2>1, <2>2, <2>3, <2>4
<1>2. f[x] = 0 \/ (f[x] - 1) * LowTtl + lowAge[x] <= tickCount - s
  BY DEF Asked
<1>. DEFINE B == (f[x] - 1) * LowTtl
<1>3. B \in Int /\ ((f[x] - 1) + 1) * LowTtl = B + LowTtl
  <2>1. f[x] - 1 \in Int
    BY <1>1
  <2>. QED
    BY <1>1, <2>1, Products
<1>4. CASE x \in lows
  <2>1. g[x] - 1 = (f[x] - 1) + 1 /\ lowAge[x] = LowTtl
    BY <1>1, <1>4
  <2>2. (g[x] - 1) * LowTtl = B + LowTtl
    BY <1>3, <2>1
  <2>3. CASE f[x] = 0
    <3>1. g[x] - 1 = 0 /\ 0 * LowTtl = 0
      BY <1>1, <1>4, <2>3
    <3>2. (g[x] - 1) * LowTtl = 0
      BY <3>1
    <3>. HIDE DEF g
    <3>. QED
      BY <1>1, <1>4, <3>2
  <2>4. CASE f[x] # 0
    <3>1. B + LowTtl <= tickCount - s
      BY <1>2, <2>1, <2>4
    <3>. HIDE DEF g, B
    <3>. QED
      BY <1>1, <1>3, <1>4, <2>2, <3>1
  <2>. QED
    BY <2>3, <2>4
<1>5. CASE x \notin lows
  <2>1. g[x] = f[x] /\ B + lowAge[x] <= tickCount - s
    BY <1>2, <1>5
  <2>2. (g[x] - 1) * LowTtl = B
    BY <2>1
  <2>. HIDE DEF g, B
  <2>. QED
    BY <1>1, <1>3, <1>5, <2>1, <2>2
<1>. QED
  BY <1>4, <1>5

\* A set of coins is billed a whole number of credits, and a larger one no less.
LEMMA BilledIs ==
  ASSUME NEW X \in SUBSET Coin, NEW Y \in SUBSET X
  PROVE  /\ Billed(Y) \in Nat /\ CreditsForIds(Cardinality(X)) \in Nat
         /\ Billed(Y) <= CreditsForIds(Cardinality(X))
         /\ Y = {} => Billed(Y) = 0
<1>1. IsFiniteSet(X) /\ IsFiniteSet(Y) /\ Cardinality(Y) <= Cardinality(X)
  BY FS_Subset, CadenceAssumption
<1>2. Cardinality(X) \in Nat /\ Cardinality(Y) \in Nat /\ (Y = {} => Cardinality(Y) = 0)
  BY <1>1, FS_CardinalityType, FS_EmptySet
<1>3. /\ Billed(Y) = Times(Cardinality(Y), IdsPerCredit)
      /\ CreditsForIds(Cardinality(X)) = Times(Cardinality(X), IdsPerCredit)
  BY DEF Billed, CreditsForIds, Times
<1>4. IdsPerCredit \in Nat \ {0}
  BY CadenceAssumption
<1>. QED
  BY <1>1, <1>2, <1>3, <1>4, TimesGrow

\* The first tick asks for the stablecoins' metadata, and no other for any.
LEMMA TickDescribes ==
  ASSUME AccountTypes, Described, workload' = Workload(held), held' = held,
         tickCount' = tickCount + 1, described' = described \cup MissingMeta
  PROVE  /\ Billed(MissingMeta) \in Nat /\ Billed(MissingMeta) <= Metadata(Workload(held))
         /\ tickCount > 0 => Billed(MissingMeta) = 0
         /\ Described'
<1>. DEFINE w == Workload(held)
            all == UNION {RowsOf(held[u]) : u \in User}
<1>1. /\ w.stable = Pegged /\ Pegged \subseteq Watched(w)
      /\ Watched(w) \subseteq Pegged \cup all /\ Pegged \subseteq Coin
  BY CadenceAssumption DEF Workload, Watched, TopOf
<1>2. all \subseteq described
  BY DEF Described
<1>3. MissingMeta = Watched(w) \ described
  BY DEF MissingMeta
<1>. HIDE DEF w, all
<1>4. MissingMeta \subseteq Pegged /\ (tickCount > 0 => MissingMeta = {})
  BY <1>1, <1>2, <1>3 DEF Described
<1>5. /\ Billed(MissingMeta) \in Nat /\ Billed(MissingMeta) <= Metadata(w)
      /\ tickCount > 0 => Billed(MissingMeta) = 0
  BY <1>1, <1>4, BilledIs DEF Metadata
<1>6. Described'
  <2>1. Pegged \subseteq described'
    BY <1>1, <1>3
  <2>. QED
    BY <2>1 DEF Described
<1>. QED
  BY <1>5, <1>6 DEF w

\* Nothing has been spent in a stretch that only begins.
LEMMA StretchBegins ==
  ASSUME AccountTypes, NEW w, Polls(w), NEW c \in Cadences
  PROVE  Accounted(w, c, tickCount, spent)
<1>. DEFINE f == [x \in Coin |-> 0]
            K == CategoryRuns(tickCount, c)
<1>1. /\ tickCount \in Nat /\ spent \in Nat /\ RwaCost \in Nat
      /\ RwaEvery \in Nat \ {0} /\ runs \in 0..(RwaEvery - 1)
  BY CadenceAssumption DEF AccountTypes
<1>2. K \in Nat /\ Times(runs, RwaEvery) \in Nat
  <2>1. K \in Nat
    BY <1>1, RunsGrow
  <2>2. runs \in Nat
    BY <1>1
  <2>. QED
    BY <1>1, <2>1, <2>2, TimesGrow
<1>3. Refreshed(c, tickCount, runs, 0, 0)
  <2>1. runs = runs % RwaEvery
    BY <1>1, Z3
  <2>2. K - K = 0 /\ runs + 0 = runs
    BY <1>1, <1>2
  <2>. HIDE DEF K
  <2>3. /\ runs = (runs + (K - K)) % RwaEvery /\ 0 + 0 <= K - K
        /\ Times(runs, RwaEvery) + 0 <= Times(runs + (K - K), RwaEvery)
    BY <1>2, <2>1, <2>2
  <2>. QED
    BY <2>3 DEF Refreshed, K
<1>4. f \in [Coin -> Nat] /\ Asked(f, tickCount)
  BY DEF Asked
<1>5. Worth(Lows(f), w.top) \in Nat
  <2>1. w.top \subseteq Coin /\ IsFiniteSet(w.top)
    BY FS_Subset, CadenceAssumption DEF Polls, Tier
  <2>2. \A x \in Coin : Lows(f)[x] \in Nat
    BY CadenceAssumption DEF Lows
  <2>. HIDE DEF f
  <2>. QED
    BY <2>1, <2>2, WorthStep
<1>6. CostOf(tickCount, c, w) \in Nat
  BY <1>1, CostGrows
<1>7. spent - spent <= CostOf(tickCount, c, w) - CostOf(tickCount, c, w) + RwaCost * (0 + 0)
                        + (IF tickCount = tickCount THEN 0 ELSE Metadata(w)) + Worth(Lows(f), w.top)
  <2>1. RwaCost * (0 + 0) = 0
    BY <1>1
  <2>. HIDE DEF f
  <2>. QED
    BY <1>1, <1>5, <1>6, <2>1
<1>. HIDE DEF f
<1>8. runs \in Nat
  BY <1>1
<1>. QED
  BY <1>3, <1>4, <1>7, <1>8 DEF Accounted

\* What the lows cost grows by those that a tick asks for.
LEMMA LowsGrow ==
  ASSUME NEW f \in [Coin -> Nat], NEW S \in SUBSET Coin, NEW lows \in SUBSET S
  PROVE  LET g == [x \in Coin |-> IF x \in lows THEN f[x] + 1 ELSE f[x]] IN
         /\ g \in [Coin -> Nat]
         /\ Worth(Lows(f), S) \in Nat /\ Worth(LowCost, lows) \in Nat
         /\ Worth(Lows(g), S) = Worth(Lows(f), S) + Worth(LowCost, lows)
<1>. DEFINE g == [x \in Coin |-> IF x \in lows THEN f[x] + 1 ELSE f[x]]
<1>1. g \in [Coin -> Nat]
  OBVIOUS
<1>2. IsFiniteSet(S) /\ IsFiniteSet(lows)
  BY FS_Subset, CadenceAssumption
<1>3. ASSUME NEW x \in S
      PROVE  /\ Lows(f)[x] \in Nat /\ LowCost[x] \in Nat
             /\ Lows(g)[x] = IF x \in lows THEN Lows(f)[x] + LowCost[x] ELSE Lows(f)[x]
  <2>. DEFINE n == f[x]
              l == LowCost[x]
  <2>1. n \in Nat /\ l \in Nat
    BY CadenceAssumption
  <2>2. /\ Lows(f)[x] = l * n
        /\ Lows(g)[x] = l * g[x]
        /\ g[x] = IF x \in lows THEN n + 1 ELSE n
    BY DEF Lows
  <2>. HIDE DEF n, l
  <2>3. l * n \in Nat /\ l * (n + 1) = l * n + l
    BY <2>1, Z3
  <2>. HIDE DEF g
  <2>4. CASE x \in lows
    BY <2>1, <2>2, <2>3, <2>4 DEF l
  <2>5. CASE x \notin lows
    BY <2>1, <2>2, <2>3, <2>5 DEF l
  <2>. QED
    BY <2>4, <2>5
<1>. HIDE DEF g
<1>4. Worth(Lows(f), S) \in Nat
  BY <1>2, <1>3, WorthStep
<1>5. Worth(LowCost, lows) \in Nat
  BY <1>2, <1>3, WorthStep
<1>6. Worth(Lows(g), S) = Worth(Lows(f), S) + Worth(LowCost, lows)
  BY <1>2, <1>3, WorthAdds
<1>. QED
  BY <1>1, <1>4, <1>5, <1>6 DEF g

\* A tick pays for what is due, for the assets when they are refreshed, for the metadata and the
\* lows it asks for.
LEMMA TickPays ==
  ASSUME AccountTypes, NEW w, Polls(w), NEW c \in Cadences, NEW s \in 0..tickCount, NEW base \in Nat,
         Accounted(w, c, s, base), tickCount' = tickCount + 1, plan'.cadence = c,
         NEW meta \in Nat, meta <= Metadata(w), s < tickCount => meta = 0,
         NEW lows \in SUBSET w.top, \A x \in lows : lowAge[x] = LowTtl,
         lowAge' = [x \in Coin |-> IF x \in lows THEN 1 ELSE Min({lowAge[x] + 1, LowTtl})],
         spent' = spent + Billed(IdsDue(tickCount, c, w)) + Flat(tickCount, c)
                        + (IF RefreshRwa THEN RwaCost ELSE 0) + meta + Worth(LowCost, lows),
         runs' = IF Due(tickCount, c["categories"]) THEN (runs + 1) % RwaEvery ELSE runs,
         rwaAge' = IF RefreshRwa THEN 1 ELSE IF rwaAge = Unset THEN Unset ELSE Min({rwaAge + 1, RwaStale + 1})
  PROVE  Accounted(w, c, s, base)' /\ spent' \in Nat
<1>. DEFINE t == tickCount
            ids == CreditsForIds(Cardinality(IdsDue(t, c, w)))
            flat == Flat(t, c)
            X == CostOf(t, c, w)
            Y == CostOf(t + 1, c, w)
            Z == CostOf(s, c, w)
            M == Metadata(w)
            more == IF RefreshRwa THEN 1 ELSE 0
            L == Worth(LowCost, lows)
<1>1. /\ t \in Nat /\ s \in Nat /\ s <= t /\ RwaCost \in Nat /\ spent \in Nat
      /\ w.top \subseteq Coin /\ w.stable \subseteq Coin
  BY CadenceAssumption DEF AccountTypes, Polls, Tier
<1>2. M \in Nat
  BY <1>1, BilledIs DEF Metadata
<1>3. ids \in Nat /\ flat \in Nat /\ X \in Nat /\ Z \in Nat /\ Y = X + (ids + flat)
  BY <1>1, CostIs, CostGrows DEF Cost
<1>4. PICK r \in Nat, a \in Nat, b \in Nat, f \in [Coin -> Nat] :
        /\ Refreshed(c, s, r, a, b) /\ Asked(f, s)
        /\ spent - base <= X - Z + RwaCost * (a + b) + (IF t = s THEN 0 ELSE M) + Worth(Lows(f), w.top)
  BY DEF Accounted
<1>5. PICK x \in Nat, y \in Nat : Refreshed(c, s, r, x, y)' /\ x + y = a + b + more
  BY <1>4, TickRefreshes
<1>. DEFINE g == [z \in Coin |-> IF z \in lows THEN f[z] + 1 ELSE f[z]]
            F == Worth(Lows(f), w.top)
            G == Worth(Lows(g), w.top)
<1>6. Asked(g, s)'
  <2>1. lows \in SUBSET Coin
    BY <1>1
  <2>. QED
    BY <1>4, <2>1, TickAsks
<1>7. g \in [Coin -> Nat] /\ F \in Nat /\ L \in Nat /\ G = F + L
  BY <1>1, LowsGrow
<1>8. spent' = spent + ids + flat + (IF RefreshRwa THEN RwaCost ELSE 0) + meta + L
  BY DEF Billed, CreditsForIds
<1>9. RwaCost * (a + b) \in Nat /\ RwaCost * (x + y) = RwaCost * (a + b) + (IF RefreshRwa THEN RwaCost ELSE 0)
  <2>. DEFINE n == a + b
  <2>1. n \in Nat /\ x + y = n + more
    BY <1>5
  <2>. HIDE DEF n
  <2>2. RwaCost * n \in Nat /\ RwaCost * (n + 1) = RwaCost * n + RwaCost /\ RwaCost * (n + 0) = RwaCost * n
    BY <1>1, <2>1, Z3
  <2>3. RwaCost * (x + y) = RwaCost * n + (IF RefreshRwa THEN RwaCost ELSE 0)
    BY <1>1, <2>1, <2>2
  <2>. QED
    BY <2>2, <2>3 DEF n
<1>. DEFINE A == RwaCost * (a + b)
            B == RwaCost * (x + y)
<1>. HIDE DEF g, F, G, L, X, Y, Z, M, ids, flat, A, B
<1>10. spent' \in Nat
  BY <1>1, <1>3, <1>7, <1>8
<1>11. spent' - base <= Y - Z + B + M + G
  <2>1. spent - base <= X - Z + A + (IF t = s THEN 0 ELSE M) + F
    BY <1>4 DEF A, F
  <2>2. A \in Nat /\ B = A + (IF RefreshRwa THEN RwaCost ELSE 0)
    BY <1>9 DEF A, B
  <2>3. (IF t = s THEN 0 ELSE M) + meta <= M
    BY <1>1, <1>2 DEF M
  <2>. HIDE DEF t
  <2>4. spent' - base <= (X + (ids + flat)) - Z + (A + (IF RefreshRwa THEN RwaCost ELSE 0)) + M + (F + L)
    BY <1>1, <1>2, <1>3, <1>7, <1>8, <2>1, <2>2, <2>3
  <2>. QED
    BY <1>3, <1>7, <2>2, <2>4
<1>12. tickCount' # s /\ Y = CostOf(tickCount', c, w)
  BY <1>1 DEF Y
<1>13. spent' - base <= CostOf(tickCount', c, w) - CostOf(s, c, w) + RwaCost * (x + y)
                         + (IF tickCount' = s THEN 0 ELSE Metadata(w)) + Worth(Lows(g), w.top)
  BY <1>11, <1>12 DEF Z, B, M, G
<1>14. /\ Refreshed(c, s, r, x, y)' /\ Asked(g, s)' /\ g \in [Coin -> Nat]
  BY <1>5, <1>6, <1>7
<1>. QED
  BY <1>10, <1>13, <1>14 DEF Accounted

\* The counts and ages keep their types.
LEMMA TickTypes ==
  ASSUME Account, NEW info \in Replies, RunTick(info), spent' \in Nat
  PROVE  AccountTypes'
<1>1. /\ tickCount \in Nat /\ tickCount < Month /\ Month \in Nat /\ tickCount' = tickCount + 1
      /\ held' = held /\ key' = key /\ changes' = changes
      /\ key \in Limits /\ key \in Nat /\ key # Unset /\ AccountTypes
  BY CadenceAssumption DEF Account, AccountTypes, RunTick
<1>2. limit' \in {Unset, key}
  <2>1. limit' = IF info = Unset THEN limit ELSE info.creditLimitMonthly
    BY DEF RunTick, Planned
  <2>2. info # Unset => info.creditLimitMonthly \in {key, Unset}
    <3>1. info # Unset => info \in KeyInfo
      BY DEF Replies
    <3>. QED
      BY <3>1 DEF KeyInfo
  <2>. QED
    BY <1>1, <2>1, <2>2 DEF AccountTypes
<1>3. rwaAge' = Unset \/ rwaAge' \in 1..(RwaStale + 1)
  <2>1. rwaAge' = IF RefreshRwa THEN 1 ELSE IF rwaAge = Unset THEN Unset ELSE Min({rwaAge + 1, RwaStale + 1})
    BY DEF RunTick
  <2>. QED
    BY <1>1, <2>1, RwaAges
<1>4. lowAge' \in [Coin -> 1..LowTtl]
  <2>1. PICK lows : lowAge' = [c \in Coin |-> IF c \in lows THEN 1 ELSE Min({lowAge[c] + 1, LowTtl})]
    BY DEF RunTick
  <2>. QED
    BY <1>1, <2>1, LowAges
<1>5. runs' \in 0..(RwaEvery - 1)
  <2>1. runs \in 0..(RwaEvery - 1) /\ RwaEvery \in Nat \ {0}
    BY CadenceAssumption DEF Account, AccountTypes
  <2>2. (runs + 1) % RwaEvery \in 0..(RwaEvery - 1)
    <3>1. runs + 1 \in Int
      BY <2>1
    <3>. QED
      BY <2>1, <3>1, DivMod
  <2>3. runs' = (runs + 1) % RwaEvery \/ runs' = runs
    BY DEF RunTick
  <2>. QED
    BY <2>1, <2>2, <2>3
<1>6. since' \in 0..tickCount' /\ before' \in Nat
  <2>1. since \in 0..tickCount /\ before \in Nat /\ spent \in Nat
    BY DEF Account, AccountTypes
  <2>2. (since' = since \/ since' = tickCount) /\ (before' = before \/ before' = spent)
    BY DEF RunTick
  <2>. QED
    BY <1>1, <2>1, <2>2
<1>7. tickCount' \in 0..Month
  BY <1>1
<1>. QED
  BY <1>1, <1>2, <1>3, <1>4, <1>5, <1>6, <1>7 DEF AccountTypes

\* A stretch goes on or begins, and its account with it.
LEMMA TickAccounted ==
  ASSUME Account, NEW info \in Replies, RunTick(info)
  PROVE  /\ plan'.cadence \in Cadences /\ Polls(workload') /\ workload'.stable = Pegged
         /\ Accounted(workload, plan.cadence, since, before)'
         /\ spent' \in Nat /\ Described'
<1>. PICK w, c, s, base : w = Workload(held) /\ c = plan'.cadence /\ s = since' /\ base = before'
  OBVIOUS
<1>1. /\ AccountTypes /\ Described /\ tickCount \in Nat /\ tickCount' = tickCount + 1 /\ held' = held
      /\ workload' = w /\ spent \in Nat /\ described' = described \cup MissingMeta
  BY DEF Account, AccountTypes, RunTick
<1>2. Polls(w) /\ w.stable = Pegged
  <2>1. w.stable = Pegged
    BY DEF Workload
  <2>. QED
    BY <2>1, Tiers DEF Polls
<1>3. c \in Cadences
  <2>1. plan' = IF Replans THEN PlanFor(limit', workload') ELSE plan
    BY DEF RunTick, Planned
  <2>2. CASE Replans
    BY <2>1, <2>2, PlansAre
  <2>3. CASE ~Replans
    BY <2>1, <2>3 DEF Replans, Account
  <2>. QED
    BY <2>2, <2>3
<1>4. s \in 0..tickCount /\ base \in Nat /\ Accounted(w, c, s, base)
  <2>1. s = (IF Steady THEN since ELSE tickCount) /\ base = IF Steady THEN before ELSE spent
    BY DEF RunTick
  <2>2. CASE Steady
    <3>1. c = plan.cadence /\ w = workload /\ plan # Unset
      BY <1>1, <2>2 DEF Steady
    <3>2. Accounted(workload, plan.cadence, since, before) /\ since \in 0..tickCount /\ before \in Nat
      BY <3>1 DEF Account, AccountTypes
    <3>. QED
      BY <2>1, <2>2, <3>1, <3>2
  <2>3. CASE ~Steady
    <3>1. Accounted(w, c, tickCount, spent)
      BY <1>1, <1>2, <1>3, StretchBegins
    <3>. QED
      BY <1>1, <2>1, <2>3, <3>1
  <2>. QED
    BY <2>2, <2>3
<1>. DEFINE meta == Billed(MissingMeta)
<1>5. /\ meta \in Nat /\ meta <= Metadata(w) /\ (tickCount > 0 => meta = 0)
      /\ Described'
  BY <1>1, TickDescribes
<1>6. s < tickCount => meta = 0
  <2>. HIDE DEF meta
  <2>. QED
    BY <1>1, <1>4, <1>5
<1>7. PICK lows \in LowsToAsk :
        /\ lowAge' = [x \in Coin |-> IF x \in lows THEN 1 ELSE Min({lowAge[x] + 1, LowTtl})]
        /\ spent' = spent + Billed(IdsDue(tickCount, c, w)) + Flat(tickCount, c)
                          + (IF RefreshRwa THEN RwaCost ELSE 0) + meta + Worth(LowCost, lows)
  BY <1>1 DEF RunTick
<1>8. lows \in SUBSET w.top /\ \A x \in lows : lowAge[x] = LowTtl
  <2>1. lows \in SUBSET {x \in w.top : lowAge[x] = LowTtl}
    BY <1>1 DEF LowsToAsk
  <2>. QED
    BY <2>1
<1>9. /\ runs' = IF Due(tickCount, c["categories"]) THEN (runs + 1) % RwaEvery ELSE runs
      /\ rwaAge' = IF RefreshRwa THEN 1 ELSE IF rwaAge = Unset THEN Unset ELSE Min({rwaAge + 1, RwaStale + 1})
  BY DEF RunTick
<1>10. Accounted(w, c, s, base)' /\ spent' \in Nat
  <2>. HIDE DEF meta
  <2>. QED
    BY <1>1, <1>2, <1>3, <1>4, <1>5, <1>6, <1>7, <1>8, <1>9, TickPays
<1>11. Accounted(workload, plan.cadence, since, before)'
  BY <1>1, <1>10 DEF Accounted, Refreshed, Asked
<1>. QED
  BY <1>1, <1>2, <1>3, <1>5, <1>10, <1>11

\* The plan is kept to what is held, and its account goes on.
LEMMA TickAccount ==
  ASSUME Account, NEW info \in Replies, RunTick(info)
  PROVE  Account'
<1>1. /\ plan'.cadence \in Cadences /\ Polls(workload') /\ workload'.stable = Pegged
      /\ Accounted(workload, plan.cadence, since, before)'
      /\ spent' \in Nat /\ Described'
  BY TickAccounted
<1>2. AccountTypes'
  BY <1>1, TickTypes
<1>3. /\ tickCount \in Nat /\ tickCount' = tickCount + 1 /\ since \in 0..tickCount
      /\ held' = held /\ key' = key /\ changes' = changes /\ workload' = Workload(held)
      /\ key \in Nat /\ key # Unset
  BY CadenceAssumption DEF Account, AccountTypes, RunTick
<1>4. /\ since' = IF Steady THEN since ELSE tickCount
      /\ before' = IF Steady THEN before ELSE spent
  BY DEF RunTick
<1>5. since' < tickCount' /\ tickCount' # 0
  BY <1>3, <1>4
<1>6. ASSUME changes' = 0, ~blind'
      PROVE  /\ held' \in [User -> Portfolios]
             /\ limit' = key' /\ workload' = Workload(held') /\ plan' = PlanFor(key', workload')
             /\ plan' # Unset => since' = 0 /\ before' = 0
  <2>1. changes = 0 /\ ~blind /\ limit' = key
    BY <1>2, <1>3, <1>6 DEF RunTick, AccountTypes
  <2>2. /\ held \in [User -> Portfolios]
        /\ tickCount > 0 => /\ workload = Workload(held) /\ plan = PlanFor(key, workload)
                            /\ plan # Unset => since = 0 /\ before = 0
        /\ tickCount = 0 => plan = Unset /\ spent = 0
    BY <2>1 DEF Account
  <2>3. plan' = PlanFor(key, Workload(held))
    <3>1. plan' = IF Replans THEN PlanFor(key, Workload(held)) ELSE plan
      BY <1>3, <2>1 DEF RunTick, Planned
    <3>2. tickCount = 0 => Replans
      BY <2>2 DEF Replans
    <3>. QED
      BY <1>3, <2>2, <3>1, <3>2
  <2>4. plan' # Unset => since' = 0 /\ before' = 0
    <3>1. CASE tickCount = 0
      <4>1. ~Steady
        BY <2>2, <3>1 DEF Steady
      <4>. QED
        BY <1>4, <2>2, <3>1, <4>1
    <3>2. CASE tickCount > 0
      <4>1. plan' = plan /\ workload' = workload
        BY <1>3, <2>2, <2>3, <3>2
      <4>2. plan # Unset => Steady
        BY <4>1 DEF Steady
      <4>. QED
        BY <1>4, <2>2, <3>2, <4>1, <4>2
    <3>. QED
      BY <1>3, <3>1, <3>2
  <2>. QED
    BY <1>3, <2>1, <2>2, <2>3, <2>4
<1>. QED
  BY <1>1, <1>2, <1>5, <1>6 DEF Account

\* What the ticks have spent, for any holdings, keys and plans.
LEMMA AccountHolds == CadenceSpec => []Account
<1>1. ASSUME CadenceInit PROVE Account
  <2>1. /\ tickCount = 0 /\ held \in [User -> Portfolios] /\ key \in Limits /\ limit = Unset
        /\ plan = Unset /\ spent = 0 /\ since = 0 /\ before = 0 /\ changes = 0 /\ runs = 0 /\ rwaAge = Unset
        /\ lowAge = [c \in Coin |-> LowTtl] /\ described = UNION {RowsOf(held[u]) : u \in User}
    BY <1>1 DEF CadenceInit
  <2>2. /\ RwaEvery \in Nat \ {0} /\ LowTtl \in Nat \ {0} /\ Month \in Nat
        /\ Portfolios \subseteq Holder
    BY CadenceAssumption DEF Holder
  <2>3. AccountTypes
    BY <2>1, <2>2 DEF AccountTypes
  <2>4. Described
    BY <2>1 DEF Described
  <2>. QED
    BY <2>1, <2>3, <2>4 DEF Account
<1>2. ASSUME Account, [CadenceNext]_cadenceVars PROVE Account'
  <2>1. ASSUME NEW u \in User, NEW c \in Coin, NEW v \in Value \cup {Unset}, Change(u, c, v)
        PROVE  Account'
    <3>1. changes' = changes + 1 /\ changes \in Nat
      BY <1>2, <2>1 DEF Change, Account, AccountTypes
    <3>2. changes' # 0 /\ changes' \in Nat
      BY <3>1
    <3>3. UNCHANGED <<tickCount, key, limit, plan, workload, runs, rwaAge, lowAge, spent, since, before>>
      BY <2>1 DEF Change, account
    <3>4. held' = [held EXCEPT ![u][c] = v] /\ held \in [User -> Holder]
      BY <1>2, <2>1 DEF Change, Account, AccountTypes
    <3>5. held' \in [User -> Holder]
      BY <3>4 DEF Holder
    <3>6. AccountTypes'
      BY <1>2, <3>2, <3>3, <3>5 DEF Account, AccountTypes
    <3>7. Described'
      <4>1. /\ \A x \in User : RowsOf(held[x]) \subseteq described
            /\ tickCount > 0 => Pegged \subseteq described
            /\ described' = described \cup (IF v = Unset THEN {} ELSE {c})
        BY <1>2, <2>1 DEF Account, Described, Change
      <4>2. ASSUME NEW x \in User, NEW d \in RowsOf(held'[x])
            PROVE  d \in described'
        <5>1. d \in Coin /\ held'[x][d] # Unset
          BY DEF RowsOf
        <5>2. CASE x = u /\ d = c
          <6>1. v # Unset
            BY <3>4, <5>1, <5>2 DEF Holder
          <6>. QED
            BY <4>1, <5>2, <6>1
        <5>3. CASE ~(x = u /\ d = c)
          <6>1. held[x][d] # Unset
            BY <3>4, <5>1, <5>3 DEF Holder
          <6>. QED
            BY <4>1, <5>1, <6>1 DEF RowsOf
        <5>. QED
          BY <5>2, <5>3
      <4>. QED
        BY <3>3, <4>1, <4>2 DEF Described
    <3>8. Accounted(workload, plan.cadence, since, before) => Accounted(workload, plan.cadence, since, before)'
      BY <3>3 DEF Accounted, Refreshed, Asked
    <3>. QED
      BY <1>2, <3>2, <3>3, <3>6, <3>7, <3>8 DEF Account
  <2>2. ASSUME NEW info \in Replies, RunTick(info)
        PROVE  Account'
    BY <1>2, <2>2, TickAccount
  <2>3. CASE UNCHANGED cadenceVars
    <3>1. UNCHANGED <<tickCount, held, key, limit, plan, workload, runs, rwaAge, described, lowAge, spent,
                      since, before, blind, changes>>
      BY <2>3 DEF cadenceVars, account
    <3>2. Accounted(workload, plan.cadence, since, before) => Accounted(workload, plan.cadence, since, before)'
      BY <3>1 DEF Accounted, Refreshed, Asked
    <3>3. AccountTypes' /\ Described'
      BY <1>2, <3>1 DEF Account, AccountTypes, Described
    <3>. QED
      BY <1>2, <3>1, <3>2, <3>3 DEF Account
  <2>. QED
    BY <1>2, <2>1, <2>2, <2>3 DEF CadenceNext
<1>. QED
  BY <1>1, <1>2, PTL DEF CadenceSpec

\* The assets are refreshed no more often than the bound for the stretch says.
LEMMA RefreshBound ==
  ASSUME AccountTypes, NEW c \in Cadences, NEW s \in 0..tickCount,
         NEW r \in Nat, NEW a \in Nat, NEW b \in Nat, Refreshed(c, s, r, a, b)
  PROVE  a + b <= RwaRuns(tickCount - s, c)
<1>. DEFINE t == tickCount
            n == t - s
            K == CategoryRuns(n, c)
            R == CategoryRuns(t, c) - CategoryRuns(s, c)
            T(x) == Times(x, RwaEvery)
            D == Times(n, RwaStale + 1)
<1>1. /\ t \in Nat /\ s \in Nat /\ n \in Nat /\ s + n = t
      /\ RwaEvery \in Nat \ {0} /\ RwaStale + 1 \in Nat \ {0} /\ Unset \notin Nat
      /\ rwaAge = Unset \/ rwaAge \in Nat \ {0}
  BY CadenceAssumption DEF AccountTypes
<1>2. K \in Nat /\ R \in Nat /\ R <= K
  <2>1. /\ CategoryRuns(t, c) \in Nat /\ CategoryRuns(s, c) \in Nat /\ K \in Nat
        /\ CategoryRuns(s, c) <= CategoryRuns(t, c)
        /\ CategoryRuns(s + n, c) <= CategoryRuns(s, c) + CategoryRuns(n, c)
    <3>1. s <= t
      BY <1>1
    <3>. HIDE DEF t, n
    <3>2. CategoryRuns(t, c) \in Nat /\ CategoryRuns(s, c) \in Nat /\ CategoryRuns(n, c) \in Nat
      BY <1>1, RunsGrow
    <3>3. CategoryRuns(s, c) <= CategoryRuns(t, c)
      BY <1>1, <3>1, RunsGrow
    <3>4. CategoryRuns(s + n, c) <= CategoryRuns(s, c) + CategoryRuns(n, c)
      BY <1>1, RunsGrow
    <3>. QED
      BY <3>2, <3>3, <3>4
  <2>2. CategoryRuns(s + n, c) = CategoryRuns(t, c)
    BY <1>1
  <2>. HIDE DEF t, n
  <2>. QED
    BY <2>1, <2>2
<1>3. a + b <= R /\ T(r) + a <= T(r + R)
  BY DEF Refreshed
<1>4. a <= T(K) /\ T(K) \in Nat
  <2>. HIDE DEF K, R
  <2>1. /\ T(r) \in Nat /\ T(R) \in Nat /\ T(K) \in Nat /\ T(R) <= T(K)
    BY <1>1, <1>2, TimesGrow
  <2>2. T(r + R) <= T(r) + T(R)
    BY <1>1, <1>2, Windows
  <2>3. T(r + R) \in Nat
    <3>1. r + R \in Nat
      BY <1>2
    <3>. QED
      BY <1>1, <3>1, TimesGrow
  <2>. HIDE DEF T
  <2>. QED
    BY <1>3, <2>1, <2>2, <2>3
<1>5. b <= D /\ D \in Nat
  <2>1. D \in Nat
    <3>. HIDE DEF n
    <3>. QED
      BY <1>1, TimesGrow
  <2>2. CASE b = 0
    BY <2>1, <2>2
  <2>3. CASE b # 0
    <3>1. rwaAge \in Nat \ {0} /\ (b - 1) * (RwaStale + 1) + rwaAge <= n
      BY <1>1, <2>3 DEF Refreshed
    <3>. HIDE DEF n
    <3>. QED
      BY <1>1, <2>1, <3>1, AtMostTimes
  <2>. QED
    BY <2>2, <2>3
<1>6. RwaRuns(n, c) = Min({K, T(K) + D})
  BY DEF RwaRuns, CategoryRuns
<1>. HIDE DEF K, R, T, D, n
<1>7. Min({K, T(K) + D}) \in {K, T(K) + D}
  <2>1. K \in Int /\ T(K) + D \in Int
    BY <1>2, <1>4, <1>5
  <2>. QED
    BY <2>1, OfTwo
<1>8. a + b <= RwaRuns(n, c)
  BY <1>2, <1>3, <1>4, <1>5, <1>6, <1>7
<1>. QED
  BY <1>8 DEF n

\* Each low is asked no more often than it can go stale.
LEMMA LowsBound ==
  ASSUME AccountTypes, NEW s \in 0..tickCount, NEW f \in [Coin -> Nat], Asked(f, s), NEW S \in SUBSET Coin
  PROVE  /\ Worth(Lows(f), S) \in Nat
         /\ Worth(Lows(f), S) <= Times(tickCount - s, LowTtl) * Worth(LowCost, S)
<1>. DEFINE n == tickCount - s
            k == Times(n, LowTtl)
<1>1. n \in Nat /\ LowTtl \in Nat \ {0} /\ IsFiniteSet(S) /\ lowAge \in [Coin -> 1..LowTtl]
  <2>1. tickCount \in Int /\ lowAge \in [Coin -> 1..LowTtl]
    BY DEF AccountTypes
  <2>2. LowTtl \in Nat \ {0} /\ IsFiniteSet(S)
    BY FS_Subset, CadenceAssumption
  <2>3. n \in Nat
    BY <2>1
  <2>. QED
    BY <2>1, <2>2, <2>3
<1>2. k \in Nat
  <2>. HIDE DEF n
  <2>. QED
    BY <1>1, TimesGrow
<1>3. ASSUME NEW x \in S PROVE f[x] \in Nat /\ f[x] <= k
  <2>1. lowAge[x] \in Nat \ {0} /\ f[x] \in Nat
    BY <1>1
  <2>2. CASE f[x] = 0
    BY <1>2, <2>2
  <2>3. CASE f[x] # 0
    <3>1. (f[x] - 1) * LowTtl + lowAge[x] <= n
      BY <2>3 DEF Asked
    <3>. HIDE DEF n
    <3>. QED
      BY <1>1, <2>1, <3>1, AtMostTimes
  <2>. QED
    BY <2>1, <2>2, <2>3
<1>. HIDE DEF k, n
<1>4. ASSUME NEW x \in S
      PROVE  Lows(f)[x] \in Nat /\ LowCost[x] \in Nat /\ Lows(f)[x] <= k * LowCost[x]
  <2>. DEFINE l == LowCost[x]
              m == f[x]
  <2>1. l \in Nat /\ m \in Nat /\ m <= k /\ Lows(f)[x] = l * m
    BY <1>3, CadenceAssumption DEF Lows
  <2>. HIDE DEF l, m
  <2>2. l * m \in Nat /\ l * m = m * l
    BY <2>1, Z3
  <2>3. m * l <= k * l
    BY <1>2, <2>1, Products
  <2>. QED
    BY <2>1, <2>2, <2>3 DEF l
<1>5. Worth(Lows(f), S) <= k * Worth(LowCost, S)
  BY <1>1, <1>2, <1>4, WorthTimes
<1>6. Worth(Lows(f), S) \in Nat
  BY <1>1, <1>4, WorthStep
<1>. QED
  BY <1>5, <1>6 DEF k, n

\* What the plan leaves out is a number of credits, and no less in more ticks.
LEMMA LeftOutGrows ==
  ASSUME NEW c \in Cadences, NEW w, Polls(w), NEW n \in Nat, NEW m \in Nat, n <= m
  PROVE  /\ LeftOut(n, c, w) \in Nat /\ LeftOut(m, c, w) \in Nat
         /\ LeftOut(n, c, w) <= LeftOut(m, c, w)
         /\ RwaRuns(n, c) \in Nat /\ Metadata(w) \in Nat /\ Worth(LowCost, w.top) \in Nat
<1>. DEFINE K(x) == CategoryRuns(x, c)
            A(x) == Times(K(x), RwaEvery) + Times(x, RwaStale + 1)
            W == Worth(LowCost, w.top)
<1>1. /\ RwaEvery \in Nat \ {0} /\ RwaStale + 1 \in Nat \ {0} /\ LowTtl \in Nat \ {0} /\ RwaCost \in Nat
      /\ w.top \subseteq Coin /\ w.stable \subseteq Coin
  BY CadenceAssumption DEF Polls, Tier
<1>2. K(n) \in Nat /\ K(m) \in Nat /\ K(n) <= K(m)
  BY RunsGrow
<1>3. A(n) \in Nat /\ A(m) \in Nat /\ A(n) <= A(m)
  <2>1. /\ Times(n, RwaStale + 1) \in Nat /\ Times(m, RwaStale + 1) \in Nat
        /\ Times(n, RwaStale + 1) <= Times(m, RwaStale + 1)
    BY <1>1, TimesGrow
  <2>. HIDE DEF K
  <2>2. /\ Times(K(n), RwaEvery) \in Nat /\ Times(K(m), RwaEvery) \in Nat
        /\ Times(K(n), RwaEvery) <= Times(K(m), RwaEvery)
    BY <1>1, <1>2, TimesGrow
  <2>. QED
    BY <2>1, <2>2
<1>4. RwaRuns(n, c) = Min({K(n), A(n)}) /\ RwaRuns(m, c) = Min({K(m), A(m)})
  BY DEF RwaRuns, CategoryRuns
<1>. HIDE DEF K, A
<1>5. RwaRuns(n, c) \in Nat /\ RwaRuns(m, c) \in Nat /\ RwaRuns(n, c) <= RwaRuns(m, c)
  <2>1. /\ Min({K(n), A(n)}) \in {K(n), A(n)}
        /\ Min({K(n), A(n)}) <= K(n) /\ Min({K(n), A(n)}) <= A(n)
    <3>1. K(n) \in Int /\ A(n) \in Int
      BY <1>2, <1>3
    <3>. QED
      BY <3>1, OfTwo
  <2>2. Min({K(m), A(m)}) \in {K(m), A(m)}
    <3>1. K(m) \in Int /\ A(m) \in Int
      BY <1>2, <1>3
    <3>. QED
      BY <3>1, OfTwo
  <2>. QED
    BY <1>2, <1>3, <1>4, <2>1, <2>2
<1>6. W \in Nat
  <2>1. IsFiniteSet(w.top) /\ \A x \in w.top : LowCost[x] \in Nat
    BY <1>1, FS_Subset, CadenceAssumption
  <2>. QED
    BY <2>1, WorthStep
<1>7. Metadata(w) \in Nat
  BY <1>1, BilledIs DEF Metadata
<1>8. Times(n, LowTtl) \in Nat /\ Times(m, LowTtl) \in Nat /\ Times(n, LowTtl) <= Times(m, LowTtl)
  BY <1>1, TimesGrow
<1>. DEFINE i == RwaRuns(n, c)
            j == RwaRuns(m, c)
            k == Times(n, LowTtl)
            l == Times(m, LowTtl)
            M == Metadata(w)
<1>9. LeftOut(n, c, w) = RwaCost * i + M + k * W /\ LeftOut(m, c, w) = RwaCost * j + M + l * W
  BY DEF LeftOut, Metadata
<1>10. /\ i \in Nat /\ j \in Nat /\ i <= j /\ k \in Nat /\ l \in Nat /\ k <= l /\ M \in Nat /\ W \in Nat
  BY <1>5, <1>6, <1>7, <1>8
<1>. HIDE DEF i, j, k, l, M, W
<1>11. k * W <= l * W /\ k * W \in Nat /\ l * W \in Nat
  BY <1>10, Products
<1>12. RwaCost * i <= RwaCost * j /\ RwaCost * i \in Nat /\ RwaCost * j \in Nat
  <2>1. i * RwaCost <= j * RwaCost
    BY <1>1, <1>10, Products
  <2>2. RwaCost * i = i * RwaCost /\ RwaCost * j = j * RwaCost /\ RwaCost * i \in Nat /\ RwaCost * j \in Nat
    BY <1>1, <1>10, Z3
  <2>. QED
    BY <2>1, <2>2
<1>13. LeftOut(n, c, w) \in Nat /\ LeftOut(m, c, w) \in Nat /\ LeftOut(n, c, w) <= LeftOut(m, c, w)
  BY <1>9, <1>10, <1>11, <1>12
<1>. QED
  BY <1>5, <1>6, <1>7, <1>13 DEF W

\* What a stretch has cost is what its ticks do, and what the plan leaves out.
LEMMA StretchCosts ==
  ASSUME Account, plan # Unset
  PROVE  /\ spent - before <= CostOf(tickCount, plan.cadence, workload)
                                - CostOf(since, plan.cadence, workload)
                                + LeftOut(tickCount - since, plan.cadence, workload)
         /\ tickCount \in Nat /\ since \in Nat /\ since < tickCount /\ tickCount <= Month /\ Month \in Nat
         /\ plan.cadence \in Cadences /\ Polls(workload) /\ spent \in Nat /\ before \in Nat
<1>. DEFINE w == workload
            c == plan.cadence
            n == tickCount - since
            W == Worth(LowCost, w.top)
            k == Times(n, LowTtl)
            M == Metadata(w)
            X == CostOf(tickCount, c, w)
            Z == CostOf(since, c, w)
<1>1. /\ tickCount \in Nat /\ since \in Nat /\ since < tickCount /\ tickCount <= Month /\ Month \in Nat
      /\ c \in Cadences /\ Polls(w) /\ spent \in Nat /\ before \in Nat /\ AccountTypes /\ RwaCost \in Nat
      /\ since \in 0..tickCount /\ n \in Nat
  BY CadenceAssumption DEF Account, AccountTypes
<1>2. PICK r \in Nat, a \in Nat, b \in Nat, f \in [Coin -> Nat] :
        /\ Refreshed(c, since, r, a, b) /\ Asked(f, since)
        /\ spent - before <= X - Z + RwaCost * (a + b) + (IF tickCount = since THEN 0 ELSE M) + Worth(Lows(f), w.top)
  BY DEF Account, Accounted
<1>. HIDE DEF w, c
<1>3. a + b <= RwaRuns(n, c)
  BY <1>1, <1>2, RefreshBound
<1>4. Worth(Lows(f), w.top) \in Nat /\ Worth(Lows(f), w.top) <= k * W
  <2>1. w.top \in SUBSET Coin
    BY <1>1 DEF Polls, Tier
  <2>. QED
    BY <1>1, <1>2, <2>1, LowsBound
<1>5. RwaRuns(n, c) \in Nat /\ M \in Nat /\ W \in Nat /\ LeftOut(n, c, w) \in Nat
  <2>1. n <= n
    BY <1>1
  <2>. HIDE DEF n
  <2>. QED
    BY <1>1, <2>1, LeftOutGrows
<1>6. X \in Nat /\ Z \in Nat
  BY <1>1, CostGrows
<1>7. LeftOut(n, c, w) = RwaCost * RwaRuns(n, c) + M + k * W
  BY DEF LeftOut, Metadata
<1>8. k \in Nat /\ k * W \in Nat
  <2>1. k \in Nat
    <3>1. LowTtl \in Nat \ {0}
      BY CadenceAssumption
    <3>. HIDE DEF n
    <3>. QED
      BY <1>1, <3>1, TimesGrow
  <2>. HIDE DEF k, W
  <2>. QED
    BY <1>5, <2>1, Z3
<1>. DEFINE i == a + b
            j == RwaRuns(n, c)
            L == Worth(Lows(f), w.top)
<1>9. RwaCost * i <= RwaCost * j /\ RwaCost * i \in Nat /\ RwaCost * j \in Nat
  <2>1. i \in Nat /\ j \in Nat /\ i <= j
    BY <1>3, <1>5
  <2>. HIDE DEF i, j
  <2>2. i * RwaCost <= j * RwaCost
    BY <1>1, <2>1, Products
  <2>3. RwaCost * i = i * RwaCost /\ RwaCost * j = j * RwaCost /\ RwaCost * i \in Nat /\ RwaCost * j \in Nat
    BY <1>1, <2>1, Z3
  <2>. QED
    BY <2>2, <2>3
<1>10. spent - before <= X - Z + RwaCost * i + M + L
  <2>1. tickCount # since
    BY <1>1
  <2>. QED
    BY <1>2, <2>1
<1>11. spent - before <= X - Z + LeftOut(n, c, w)
  <2>. DEFINE P == RwaCost * i
              Q == RwaCost * j
              H == k * W
  <2>1. /\ spent - before <= X - Z + P + M + L /\ P <= Q /\ P \in Nat /\ Q \in Nat /\ H \in Nat
        /\ L \in Nat /\ L <= H /\ LeftOut(n, c, w) = Q + M + H
    BY <1>4, <1>7, <1>8, <1>9, <1>10
  <2>. HIDE DEF P, Q, H, L, M, X, Z
  <2>. QED
    BY <1>1, <1>5, <1>6, <2>1
<1>. QED
  BY <1>1, <1>11 DEF X, Z, w, c, n

\* However holdings, prices, plans and what is known of the key have changed before, polling
\* costs no more than the cycles begun since, and what the plan leaves out (budget.ts:81-161,
\* poller.ts:186-234).
THEOREM AsPlanned == CadenceSpec => []SpentAsPlanned
<1>1. ASSUME Account PROVE SpentAsPlanned
  <2>. SUFFICES ASSUME plan # Unset
                PROVE  spent - before <= Times(tickCount - since, Cycle(plan.cadence))
                                           * CostOf(Cycle(plan.cadence), plan.cadence, workload)
                                         + LeftOut(tickCount - since, plan.cadence, workload)
    BY DEF SpentAsPlanned
  <2>. DEFINE w == workload
              c == plan.cadence
              n == tickCount - since
              y == Cycle(c)
              q == Times(n, y)
              F == CostOf(y, c, w)
              X == CostOf(tickCount, c, w)
              Z == CostOf(since, c, w)
              O == LeftOut(n, c, w)
  <2>1. /\ spent - before <= X - Z + O
        /\ tickCount \in Nat /\ since \in Nat /\ since < tickCount
        /\ c \in Cadences /\ Polls(w) /\ spent \in Nat /\ before \in Nat
    BY <1>1, StretchCosts
  <2>2. y \in Nat \ {0} /\ n \in Nat /\ since + n = tickCount
    BY <2>1, Cycles
  <2>3. q \in Nat /\ q * y \in Int /\ n <= q * y
    <3>. HIDE DEF n, y
    <3>. QED
      BY <2>2, TimesIs
  <2>. HIDE DEF w, c
  <2>4. CostOf(q * y + since, c, w) = q * F + Z
    <3>. HIDE DEF q
    <3>. QED
      BY <2>1, <2>3, Cycled
  <2>5. X <= CostOf(q * y + since, c, w)
    <3>1. q * y + since \in Nat /\ tickCount <= q * y + since
      <4>. HIDE DEF q, y, n
      <4>. QED
        BY <2>1, <2>2, <2>3
    <3>. HIDE DEF q, y
    <3>. QED
      BY <2>1, <3>1, CostMonotone
  <2>6. X \in Nat /\ Z \in Nat /\ F \in Nat
    <3>. HIDE DEF y
    <3>. QED
      BY <2>1, <2>2, CostGrows
  <2>7. O \in Nat
    <3>1. n <= n
      BY <2>2
    <3>. HIDE DEF n
    <3>. QED
      BY <2>1, <2>2, <3>1, LeftOutGrows
  <2>8. spent - before <= q * F + O
    <3>1. q * F \in Nat
      <4>. HIDE DEF q, F
      <4>. QED
        BY <2>3, <2>6, Z3
    <3>. DEFINE P == q * F
    <3>2. P \in Nat /\ X <= P + Z
      BY <2>4, <2>5, <3>1
    <3>. HIDE DEF P, X, Z, O
    <3>3. spent - before <= P + O
      BY <2>1, <2>6, <2>7, <3>2
    <3>. QED
      BY <3>3 DEF P
  <2>. QED
    BY <2>8 DEF w, c
<1>. QED
  BY <1>1, AccountHolds, PTL

\* What a plan that fits leaves of the key.
LEMMA Fits ==
  ASSUME NEW k \in Nat, NEW w, PlanFor(k, w).verdict \in {"fits", "stretched"}
  PROVE  100 * Estimate(PlanFor(k, w).cadence, w) <= k * (100 - Reserve)
<1>. DEFINE with(m) == Collapse(Scale(m), w)
            fits(m) == 100 * Estimate(with(m), w) <= k * (100 - Reserve)
            fitting == {m \in Multipliers : fits(m)}
<1>1. k # Unset
  BY CadenceAssumption
<1>2. fitting # {} /\ PlanFor(k, w).cadence = with(Min(fitting))
  BY <1>1 DEF PlanFor
<1>3. Min(fitting) \in fitting
  <2>1. IsFiniteSet(fitting) /\ \A x \in fitting : x \in Nat
    BY FS_Subset, CadenceAssumption
  <2>. HIDE DEF fitting
  <2>. QED
    BY <1>2, <2>1, Extremes
<1>4. fits(Min(fitting))
  BY <1>3
<1>. HIDE DEF with, fitting
<1>. QED
  BY <1>2, <1>4

\* A month of polling costs no more than the key has, and each stretch of it no more than its
\* cycles, as long as the reserve covers what the plan leaves out (budget.ts:81-161,
\* poller.ts:186-234).
THEOREM MonthPaid ==
  ASSUME ReserveCovers
  PROVE  CadenceSpec => []CreditsAreEnough
<1>1. ASSUME Account PROVE MonthIsPaidFor
  <2>. SUFFICES ASSUME plan # Unset, plan.verdict \in {"fits", "stretched"}, changes = 0, ~blind
                PROVE  spent <= key
    BY DEF MonthIsPaidFor
  <2>. DEFINE w == workload
              c == plan.cadence
              X == CostOf(tickCount, c, w)
              Y == CostOf(Month, c, w)
              e == Estimate(c, w)
              v == Uneven(c, w)
              O == LeftOut(tickCount, c, w)
              Q == LeftOut(Month, c, w)
  <2>1. /\ spent - before <= X - CostOf(since, c, w) + LeftOut(tickCount - since, c, w)
        /\ tickCount \in Nat /\ since < tickCount /\ since \in Nat /\ tickCount <= Month /\ Month \in Nat
        /\ c \in Cadences /\ Polls(w) /\ spent \in Nat
    BY <1>1, StretchCosts
  <2>2. /\ held \in [User -> Portfolios] /\ w = Workload(held) /\ plan = PlanFor(key, w)
        /\ since = 0 /\ before = 0 /\ key \in Limits /\ key \in Nat
    <3>1. tickCount > 0
      BY <2>1
    <3>. QED
      BY <1>1, <3>1, CadenceAssumption DEF Account, AccountTypes
  <2>3. 100 * e <= key * (100 - Reserve)
    BY <2>2, Fits
  <2>4. 100 * (v + Q) <= Reserve * key
    BY <2>2 DEF ReserveCovers
  <2>. HIDE DEF w, c
  <2>5. CostOf(0, c, w) = 0 /\ X \in Nat /\ Y \in Nat /\ X <= Y
    BY <2>1, CostGrows, CostMonotone
  <2>6. e \in Int /\ v \in Int /\ Y <= e + v
    BY <2>1, MonthCosts
  <2>7. O \in Nat /\ Q \in Nat /\ O <= Q
    BY <2>1, LeftOutGrows
  <2>8. spent <= X + O
    <3>1. tickCount - since = tickCount
      BY <2>1, <2>2
    <3>2. spent - 0 <= X - 0 + O
      BY <2>1, <2>2, <2>5, <3>1
    <3>. HIDE DEF X, O
    <3>. QED
      BY <2>1, <2>5, <2>7, <3>2
  <2>. HIDE DEF X, Y, e, v, O, Q
  <2>9. spent <= e + v + Q
    BY <2>1, <2>5, <2>6, <2>7, <2>8
  <2>10. key * (100 - Reserve) + Reserve * key = 100 * key /\ key * (100 - Reserve) \in Int /\ Reserve * key \in Int
    <3>1. Reserve \in Int
      BY CadenceAssumption
    <3>. QED
      BY <2>2, <3>1, Z3
  <2>. DEFINE A == key * (100 - Reserve)
              B == Reserve * key
  <2>11. /\ 100 * e <= A /\ 100 * (v + Q) <= B /\ A + B = 100 * key /\ A \in Int /\ B \in Int
    BY <2>3, <2>4, <2>10
  <2>. HIDE DEF A, B
  <2>. QED
    BY <2>1, <2>2, <2>6, <2>7, <2>9, <2>11
<1>2. CadenceSpec => []MonthIsPaidFor
  BY <1>1, AccountHolds, PTL
<1>. QED
  BY <1>2, AsPlanned, PTL DEF CreditsAreEnough
=============================================================================
