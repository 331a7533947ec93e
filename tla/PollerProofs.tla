----------------------------- MODULE PollerProofs -----------------------------
(***************************************************************************)
(* Proofs about Poller, for any users, plans, cadences and pause: what a   *)
(* phase of a tick may rely on, that quota errors silence the ticks after  *)
(* them, that failures stay in their lane, and that a tick's steps only    *)
(* ever lead to its end.                                                   *)
(***************************************************************************)
EXTENDS Poller, TLAPS

\* Where a tick may be.
Phase == {"idle", "planning", "planned", "holders", "users", "digests"} \cup Metered

LEMMA Order ==
  /\ \A c \in Metered : After[c] \in Metered \cup {"holders"}
  /\ Lane \subseteq Metered
  /\ \A c \in Metered : c \notin {"idle", "planning", "planned", "holders", "users", "digests"}
  /\ \A c \in Metered : After[c] = "categories" => c = "global"
  /\ \A c \in Metered : After[c] \in {"rwa", "meta", "lows", "holders"} =>
       c \in {"categories", "rwa", "meta", "lows"}
  /\ \A c \in Metered : After[c] # "quotes"
BY DEF Metered, Unrecorded, Lane, After

LEMMA TwoQuotas == Quotas \subseteq BOOLEAN
BY DEF Quotas, OverQuota

LEMMA Start == Init => IInv
<1> SUFFICES ASSUME Init PROVE IInv
  OBVIOUS
<1>1. /\ Never \in Int /\ Never < 0 /\ Never + Pause = 0
      /\ MaxNow \in Nat /\ Pause \in Nat /\ MaxFailures \in Nat
  BY PollerAssumption DEF Never
<1>2. /\ lanes \in [Lane -> {Never} \cup 0..now] /\ stored \in [Lane -> {Never} \cup 0..now]
      /\ quotaAt \in [Metered -> {Never} \cup 0..now]
  BY DEF Init
<1>3. phase \notin Metered
  BY Order DEF Init
<1>4. TypeOK
  <2>1. running \in BOOLEAN /\ (running <=> phase # "idle") /\ refreshed \in BOOLEAN
    BY DEF Init
  <2>2. /\ now \in 0..MaxNow /\ began \in 0..now /\ pausedUntil \in 0..MaxNow + Pause
        /\ failures \in 0..MaxFailures /\ n \in Nat /\ tickCount = n + 1
    BY <1>1 DEF Init
  <2> QED
    BY <1>2, <2>1, <2>2 DEF Init, TypeOK
<1>5. \A l \in Lane : quotaAt[l] + Pause <= pausedUntil
  BY <1>1, Order DEF Init
<1>6. \A l \in Lane : stored[l] <= lanes[l]
  BY <1>1 DEF Init
<1>7. QuietSince /\ PlanInHand /\ TurnsTaken
  BY <1>3 DEF Init, QuietSince, PlanInHand, TurnsTaken
<1> QED
  BY <1>4, <1>5, <1>6, <1>7 DEF Init, IInv

\* A tick that begins knows nothing yet.
LEMMA BeginKeeps ==
  ASSUME IInv, NEW number \in Nat, Begin(number),
         now' \in 0..MaxNow, now' >= now,
         plan' \in Plans \cup {NoPlan}, pausedUntil' \in 0..MaxNow + Pause,
         lanes' \in [Lane -> {Never} \cup 0..now'], stored' = stored,
         quotaAt' \in [Metered -> {Never} \cup 0..now'], failures' \in 0..MaxFailures,
         \A l \in Lane : quotaAt'[l] + Pause <= pausedUntil',
         \A l \in Lane : stored[l] <= lanes'[l]
  PROVE  IInv'
<1>1. now \in 0..MaxNow /\ MaxNow \in Nat /\ stored \in [Lane -> {Never} \cup 0..now]
  BY PollerAssumption DEF IInv, TypeOK
<1>2. stored' \in [Lane -> {Never} \cup 0..now']
  <2> SUFFICES ASSUME NEW l \in Lane PROVE stored[l] \in {Never} \cup 0..now'
    BY <1>1
  <2> QED
    BY <1>1
<1>3. phase' \notin Metered
  BY Order DEF Begin
<1>4. TypeOK'
  <2>1. running' \in BOOLEAN /\ (running' <=> phase' # "idle") /\ refreshed' \in BOOLEAN
    BY DEF Begin
  <2>2. began' \in 0..now' /\ n' \in Nat /\ tickCount' = n' + 1
    BY <1>1 DEF Begin
  <2> QED
    BY <1>2, <2>1, <2>2 DEF Begin, TypeOK
<1>5. QuietSince' /\ PlanInHand' /\ TurnsTaken'
  BY <1>3 DEF Begin, QuietSince, PlanInHand, TurnsTaken
<1> QED
  BY <1>4, <1>5 DEF Begin, IInv

LEMMA MinuteKeeps == IInv /\ Minute => IInv'
<1> SUFFICES ASSUME IInv, Minute PROVE IInv'
  OBVIOUS
<1>1. /\ now \in 0..MaxNow /\ MaxNow \in Nat /\ Pause \in Nat /\ now' = now + 1 /\ now < MaxNow
      /\ lanes' = lanes /\ stored' = stored /\ quotaAt' = quotaAt
      /\ plan' = plan /\ pausedUntil' = pausedUntil /\ failures' = failures
  BY PollerAssumption DEF IInv, TypeOK, Minute
<1>2. now' \in 0..MaxNow /\ now' >= now /\ \A t : t \in {Never} \cup 0..now => t \in {Never} \cup 0..now'
  BY <1>1
<1>3. /\ lanes' \in [Lane -> {Never} \cup 0..now'] /\ stored' \in [Lane -> {Never} \cup 0..now']
      /\ quotaAt' \in [Metered -> {Never} \cup 0..now']
  <2>1. /\ lanes \in [Lane -> {Never} \cup 0..now] /\ stored \in [Lane -> {Never} \cup 0..now]
        /\ quotaAt \in [Metered -> {Never} \cup 0..now]
    BY DEF IInv, TypeOK
  <2> QED
    BY <1>1, <1>2, <2>1
<1>4. CASE ~running
  <2>1. Begin(tickCount) /\ tickCount \in Nat
    BY <1>4 DEF Minute, IInv, TypeOK
  <2>2. /\ plan' \in Plans \cup {NoPlan} /\ pausedUntil' \in 0..MaxNow + Pause
        /\ failures' \in 0..MaxFailures
        /\ \A l \in Lane : quotaAt'[l] + Pause <= pausedUntil'
        /\ \A l \in Lane : stored[l] <= lanes'[l]
    BY <1>1 DEF IInv, TypeOK
  <2> HIDE DEF IInv
  <2> QED
    BY <1>1, <1>2, <1>3, <2>1, <2>2, BeginKeeps
<1>5. CASE running
  <2>1. UNCHANGED <<running, phase, tickCount, thisTick>>
    BY <1>5 DEF Minute
  <2>2. TypeOK'
    <3>1. began' \in 0..now'
      BY <1>1, <2>1 DEF IInv, TypeOK, thisTick
    <3> QED
      BY <1>1, <1>2, <1>3, <2>1, <3>1 DEF IInv, TypeOK, thisTick
  <2>3. QuietSince'
    <3> SUFFICES ASSUME phase \in Metered, NEW l \in Lane, quotaAt[l] < began
                 PROVE  quotaAt[l] + Pause <= now'
      BY <1>1, <2>1 DEF QuietSince, thisTick
    <3>1. quotaAt[l] + Pause <= now
      BY DEF IInv, QuietSince
    <3>2. quotaAt[l] \in Int
      BY Order, PollerAssumption DEF IInv, TypeOK, Never
    <3> QED
      BY <1>1, <3>1, <3>2
  <2>4. PlanInHand' /\ TurnsTaken'
    BY <1>1, <2>1 DEF IInv, PlanInHand, TurnsTaken, Due, thisTick
  <2> QED
    BY <1>1, <2>1, <2>2, <2>3, <2>4 DEF IInv, thisTick
<1> QED
  BY <1>4, <1>5

\* A restart loads what was stored, and the pause is forgotten with the errors.
LEMMA RestartKeeps == IInv /\ Restart => IInv'
<1> SUFFICES ASSUME IInv, Restart PROVE IInv'
  OBVIOUS
<1>1. /\ Begin(0) /\ now' = now /\ lanes' = stored /\ stored' = stored
      /\ plan' = NoPlan /\ pausedUntil' = 0 /\ quotaAt' = [c \in Metered |-> Never]
      /\ failures < MaxFailures /\ failures' = failures + 1
  BY DEF Restart, Fail
<1>2. /\ now \in 0..MaxNow /\ MaxNow \in Nat /\ Pause \in Nat /\ Never \in Int /\ Never + Pause = 0
      /\ stored \in [Lane -> {Never} \cup 0..now] /\ failures \in 0..MaxFailures /\ MaxFailures \in Nat
  BY PollerAssumption DEF IInv, TypeOK, Never
<1>3. /\ \A l \in Lane : quotaAt'[l] + Pause <= pausedUntil'
      /\ \A l \in Lane : stored[l] \in Int /\ stored[l] <= lanes'[l]
      /\ quotaAt' \in [Metered -> {Never} \cup 0..now']
  BY <1>1, <1>2, Order
<1>4. /\ pausedUntil' \in 0..MaxNow + Pause /\ failures' \in 0..MaxFailures
      /\ lanes' \in [Lane -> {Never} \cup 0..now'] /\ now' >= now /\ now' \in 0..MaxNow
  BY <1>1, <1>2
<1> QED
  BY <1>1, <1>3, <1>4, BeginKeeps

LEMMA PlanningKeeps == IInv /\ Planning => IInv'
<1> SUFFICES ASSUME IInv, Planning PROVE IInv'
  OBVIOUS
<1>1. /\ phase' = "planned" /\ running' = running /\ phase = "planning"
      /\ UNCHANGED <<now, lanes, stored, thisTick, tickCount, pausedUntil, quotaAt, failures>>
  BY DEF Planning
<1>2. plan' \in Plans /\ plan' # NoPlan
  BY PollerAssumption DEF Planning, NeedsPlan, IInv, TypeOK
<1>3. phase' \notin Metered
  BY <1>1, Order
<1>4. TypeOK'
  BY <1>1, <1>2 DEF IInv, TypeOK, thisTick
<1>5. QuietSince' /\ PlanInHand' /\ TurnsTaken'
  BY <1>1, <1>2, <1>3 DEF QuietSince, PlanInHand, TurnsTaken
<1> QED
  BY <1>1, <1>4, <1>5 DEF IInv, thisTick

\* Beyond this point the pause is over.
LEMMA CheckPauseKeeps == IInv /\ CheckPause => IInv'
<1> SUFFICES ASSUME IInv, CheckPause PROVE IInv'
  OBVIOUS
<1>1. phase = "planned" /\ UNCHANGED <<now, lanes, stored, thisTick, memory, failures>>
  BY DEF CheckPause
<1>2. CASE Paused
  <2>1. phase' = "idle" /\ running' = FALSE /\ phase' \notin Metered
    BY <1>2, Order DEF CheckPause
  <2>2. TypeOK'
    BY <1>1, <2>1 DEF IInv, TypeOK, thisTick, memory
  <2>3. QuietSince' /\ PlanInHand' /\ TurnsTaken'
    BY <2>1 DEF QuietSince, PlanInHand, TurnsTaken
  <2> QED
    BY <1>1, <2>1, <2>2, <2>3 DEF IInv, thisTick, memory
<1>3. CASE ~Paused
  <2>1. phase' = "quotes" /\ running' = running
    BY <1>3 DEF CheckPause
  <2>2. TypeOK'
    BY <1>1, <2>1 DEF IInv, TypeOK, thisTick, memory, Metered, Unrecorded, Lane
  <2>3. QuietSince'
    <3> SUFFICES ASSUME NEW l \in Lane PROVE quotaAt[l] + Pause <= now
      BY <1>1 DEF QuietSince, thisTick, memory
    <3>1. pausedUntil \in Int /\ now \in Int /\ pausedUntil <= now
      BY <1>3, PollerAssumption DEF Paused, IInv, TypeOK
    <3>2. quotaAt[l] + Pause <= pausedUntil /\ quotaAt[l] + Pause \in Int
      BY Order, PollerAssumption DEF IInv, TypeOK, Never
    <3> QED
      BY <3>1, <3>2
  <2>4. PlanInHand' /\ TurnsTaken'
    BY <1>1, <2>1 DEF IInv, PlanInHand, TurnsTaken, thisTick, memory
  <2> QED
    BY <1>1, <2>1, <2>2, <2>3, <2>4 DEF IInv, thisTick, memory
<1> QED
  BY <1>2, <1>3

\* A lane has had its turn, or the tick is over.
LEMMA TurnKeeps ==
  ASSUME IInv, NEW call \in Metered, phase = call,
         \/ phase' = After[call] /\ running' = running
         \/ phase' = "idle" /\ running' = FALSE,
         Due(call) /\ call \in {"global", "categories"} => call \in tried',
         tried \subseteq tried', tried' \subseteq Metered, refreshed' \in BOOLEAN,
         UNCHANGED <<now, n, began, tickCount, plan, holders, todo, attempted>>,
         lanes' \in [Lane -> {Never} \cup 0..now], stored' \in [Lane -> {Never} \cup 0..now],
         \A l \in Lane : stored'[l] <= lanes'[l],
         quotaAt' \in [Metered -> {Never} \cup 0..now],
         \A c \in Metered : quotaAt'[c] \in {quotaAt[c], now},
         pausedUntil' \in 0..MaxNow + Pause,
         \A l \in Lane : quotaAt'[l] + Pause <= pausedUntil',
         failures' \in 0..MaxFailures
  PROVE  IInv'
<1>1. /\ phase' \in Metered \cup {"holders", "idle"}
      /\ phase' \notin {"users", "digests", "planning"}
      /\ phase # "idle" /\ phase # "planning"
  BY Order
<1>2. TypeOK'
  <2>1. running' \in BOOLEAN /\ (running' <=> phase' # "idle")
    <3>1. CASE phase' = After[call] /\ running' = running
      <4>1. phase' # "idle" /\ phase # "idle"
        BY <3>1, Order
      <4> QED
        BY <3>1, <4>1 DEF IInv, TypeOK
    <3>2. CASE phase' = "idle" /\ running' = FALSE
      BY <3>2
    <3> QED
      BY <3>1, <3>2
  <2>2. /\ phase' \in {"idle", "planning", "planned", "holders", "users", "digests"} \cup Metered
        /\ now' = now
    BY <1>1
  <2> QED
    BY <2>1, <2>2 DEF IInv, TypeOK
<1>3. QuietSince'
  <2> SUFFICES ASSUME NEW l \in Lane, quotaAt'[l] < began
               PROVE  quotaAt'[l] + Pause <= now
    BY DEF QuietSince
  <2>1. quotaAt'[l] = quotaAt[l]
    BY Order, PollerAssumption DEF IInv, TypeOK
  <2> QED
    BY <2>1 DEF IInv, QuietSince
<1>4. PlanInHand'
  BY <1>1 DEF IInv, PlanInHand
<1>5. TurnsTaken'
  <2>1. \A c : Due(c)' <=> Due(c)
    BY DEF Due
  <2>2. CASE phase' = "idle"
    BY <2>2 DEF TurnsTaken
  <2>3. CASE phase' = After[call]
    <3>1. phase' = "categories" => call = "global"
      BY <2>3, Order
    <3>2. phase' \in {"rwa", "meta", "lows", "holders"} =>
            call \in {"categories", "rwa", "meta", "lows"}
      BY <2>3, Order
    <3> QED
      BY <2>1, <3>1, <3>2 DEF IInv, TurnsTaken
  <2> QED
    BY <2>2, <2>3
<1> QED
  BY <1>1, <1>2, <1>3, <1>4, <1>5 DEF IInv

\* What the lemmas about calls need of the types.
LEMMA Types ==
  ASSUME IInv
  PROVE  /\ now \in Nat /\ now \in 0..MaxNow /\ Pause \in Nat /\ MaxNow \in Nat
         /\ lanes \in [Lane -> {Never} \cup 0..now] /\ stored \in [Lane -> {Never} \cup 0..now]
         /\ quotaAt \in [Metered -> {Never} \cup 0..now]
         /\ \A t : t \in {Never} \cup 0..now => t \in Int /\ t <= now
         /\ pausedUntil \in 0..MaxNow + Pause /\ pausedUntil \in Nat
         /\ failures \in 0..MaxFailures /\ MaxFailures \in Nat
         /\ tried \subseteq Metered /\ refreshed \in BOOLEAN
BY PollerAssumption DEF IInv, TypeOK, Never

LEMMA SkipKeeps ==
  ASSUME IInv, NEW call \in Metered, Skip(call)
  PROVE  IInv'
<1>1. /\ phase = call /\ phase' = After[call] /\ running' = running
      /\ call \in {"quotes", "rwa", "meta", "lows"} \/ ~Due(call)
      /\ UNCHANGED <<now, lanes, stored, thisTick, memory, failures>>
  BY DEF Skip
<1>2. Due(call) /\ call \in {"global", "categories"} => call \in tried'
  BY <1>1
<1>3. /\ \A l \in Lane : stored'[l] <= lanes'[l]
      /\ \A l \in Lane : quotaAt'[l] + Pause <= pausedUntil'
  BY <1>1 DEF IInv, memory
<1> HIDE DEF IInv
<1> QED
  BY <1>1, <1>2, <1>3, Types, TurnKeeps DEF thisTick, memory

\* A record is that of the lane's last success, stored or not.
LEMMA RecordFacts ==
  ASSUME IInv, NEW call \in Metered, NEW ok \in BOOLEAN, Record(call, ok), Recorded(call)
  PROVE  /\ lanes' \in [Lane -> {Never} \cup 0..now] /\ stored' \in [Lane -> {Never} \cup 0..now]
         /\ \A l \in Lane : stored'[l] <= lanes'[l]
         /\ \A l \in Lane : stored'[l] >= stored[l]
         /\ \/ phase' = After[call] /\ running' = running
            \/ phase' = "idle" /\ running' = FALSE /\ Fail
<1>1. /\ lanes \in [Lane -> {Never} \cup 0..now] /\ stored \in [Lane -> {Never} \cup 0..now]
      /\ \A t : t \in {Never} \cup 0..now => t \in Int /\ t <= now
      /\ now \in Nat
  BY Types
<1>2. /\ lanes' \in [Lane -> {Never} \cup 0..now]
      /\ \A l \in Lane : lanes'[l] >= lanes[l]
  BY <1>1 DEF Record
<1>3. \A l \in Lane : stored'[l] \in {stored[l], lanes'[l]}
  BY <1>1 DEF Recorded
<1>4. stored' \in [Lane -> {Never} \cup 0..now]
  BY <1>1, <1>2 DEF Recorded
<1>5. \A l \in Lane : /\ stored[l] \in Int /\ lanes[l] \in Int /\ lanes'[l] \in Int
                      /\ stored[l] <= lanes[l]
  BY <1>1, <1>2 DEF IInv
<1>6. \A l \in Lane : stored'[l] <= lanes'[l] /\ stored'[l] >= stored[l]
  BY <1>2, <1>3, <1>5
<1> QED
  BY <1>2, <1>4, <1>6 DEF Recorded

LEMMA SucceedKeeps ==
  ASSUME IInv, NEW call \in Metered, Succeed(call)
  PROVE  IInv'
<1>1. /\ phase = call /\ tried' = tried \cup {call}
      /\ UNCHANGED <<now, n, began, tickCount, plan, holders, todo, attempted, pausedUntil, quotaAt>>
      /\ Record(call, TRUE) /\ Recorded(call)
      /\ refreshed' = (refreshed \/ call = "quotes")
  BY DEF Succeed, Asked
<1>2. failures' \in 0..MaxFailures
  BY <1>1, Types, Order DEF Succeed, Recorded, Fail
<1>3. \A l \in Lane : quotaAt'[l] + Pause <= pausedUntil'
  BY <1>1 DEF IInv
<1>4. refreshed' \in BOOLEAN
  BY <1>1
<1> HIDE DEF IInv
<1> QED
  BY <1>1, <1>2, <1>3, <1>4, Types, RecordFacts, TurnKeeps

\* A quota error sets the pause that covers it, and it is no older than the tick.
LEMMA RefusedKeeps ==
  ASSUME IInv, NEW call \in Metered, NEW quota \in BOOLEAN, Refused(call, quota)
  PROVE  IInv'
<1>1. /\ phase = call /\ tried' = tried \cup {call}
      /\ UNCHANGED <<now, n, began, tickCount, plan, holders, todo, attempted, refreshed>>
      /\ Record(call, FALSE) /\ Recorded(call) /\ Fail
      /\ pausedUntil' = IF quota /\ call \in Lane THEN now + Pause ELSE pausedUntil
      /\ quotaAt' = IF quota THEN [quotaAt EXCEPT ![call] = now] ELSE quotaAt
  BY DEF Refused, Asked
<1>2. failures' \in 0..MaxFailures
  BY <1>1, Types DEF Fail
<1>3. /\ quotaAt' \in [Metered -> {Never} \cup 0..now]
      /\ \A c \in Metered : quotaAt'[c] \in {quotaAt[c], now}
      /\ pausedUntil' \in 0..MaxNow + Pause
  BY <1>1, Types
<1>4. ASSUME NEW l \in Lane PROVE quotaAt'[l] + Pause <= pausedUntil'
  <2>1. /\ quotaAt[l] \in Int /\ quotaAt[l] <= now /\ quotaAt[l] + Pause <= pausedUntil
        /\ l \in Metered
    BY Types, Order DEF IInv
  <2> QED
    BY <1>1, <2>1, Types
<1> HIDE DEF IInv
<1> QED
  BY <1>1, <1>2, <1>3, <1>4, Types, RecordFacts, TurnKeeps

\* Past the lanes only the users' turns change.
LEMMA UsersKeep ==
  ASSUME IInv,
         FindHolders \/ (\E u \in User : Evaluate(u)) \/ UsersDone \/ Digests
  PROVE  IInv'
<1>1. /\ UNCHANGED <<now, lanes, stored, memory>> /\ n' = n /\ began' = began
      /\ tried' = tried /\ refreshed' = refreshed
      /\ phase \in {"holders", "users", "digests"}
  BY DEF FindHolders, Evaluate, UsersDone, Digests, thisTick
<1>2. phase' \in {"users", "digests", "idle"} /\ phase' \notin Metered
  BY Order DEF FindHolders, Evaluate, UsersDone, Digests
<1>3. running' \in BOOLEAN /\ (running' <=> phase' # "idle")
  <2>1. CASE FindHolders
    BY <2>1 DEF IInv, TypeOK, FindHolders
  <2>2. CASE \E u \in User : Evaluate(u)
    BY <2>2 DEF IInv, TypeOK, Evaluate
  <2>3. CASE UsersDone
    BY <2>3 DEF IInv, TypeOK, UsersDone
  <2>4. CASE Digests
    BY <2>4 DEF Digests
  <2> QED
    BY <2>1, <2>2, <2>3, <2>4
<1>4. failures' \in 0..MaxFailures
  BY Types DEF FindHolders, Evaluate, UsersDone, Digests, Fail
<1>5. holders' \subseteq User /\ todo' \subseteq holders' /\ attempted' \subseteq User
  BY DEF FindHolders, Evaluate, UsersDone, Digests, thisTick, IInv, TypeOK
<1>6. TypeOK'
  BY <1>1, <1>2, <1>3, <1>4, <1>5 DEF IInv, TypeOK, memory
<1>7. QuietSince' /\ PlanInHand' /\ TurnsTaken'
  BY <1>1, <1>2 DEF IInv, QuietSince, PlanInHand, TurnsTaken, memory
<1>8. /\ phase' \in {"users", "digests"} => holders' \subseteq attempted' \cup todo'
      /\ phase' = "digests" => todo' = {}
  BY DEF FindHolders, Evaluate, UsersDone, Digests, thisTick, IInv
<1> QED
  BY <1>1, <1>6, <1>7, <1>8 DEF IInv, memory

LEMMA ThrowKeeps ==
  ASSUME IInv, Throw
  PROVE  IInv'
<1>1. /\ phase' = "idle" /\ running' = FALSE /\ phase' \notin Metered
      /\ UNCHANGED <<now, lanes, stored, thisTick, memory>>
      /\ failures' \in 0..MaxFailures
  BY Types, Order DEF Throw, Fail
<1>2. TypeOK'
  BY <1>1 DEF IInv, TypeOK, thisTick, memory
<1>3. QuietSince' /\ PlanInHand' /\ TurnsTaken'
  BY <1>1 DEF QuietSince, PlanInHand, TurnsTaken
<1> QED
  BY <1>1, <1>2, <1>3 DEF IInv, thisTick, memory

LEMMA Step == IInv /\ [Next]_vars => IInv'
<1> SUFFICES ASSUME IInv, [Next]_vars PROVE IInv'
  OBVIOUS
<1>1. CASE Minute
  BY <1>1, MinuteKeeps
<1>2. CASE Planning \/ CheckPause
  BY <1>2, PlanningKeeps, CheckPauseKeeps
<1>3. CASE \E call \in Metered : Skip(call) \/ Succeed(call)
  BY <1>3, SkipKeeps, SucceedKeeps
<1>4. CASE \E call \in Metered, quota \in Quotas : Refused(call, quota)
  BY <1>4, TwoQuotas, RefusedKeeps
<1>5. CASE FindHolders \/ (\E u \in User : Evaluate(u)) \/ UsersDone \/ Digests
  BY <1>5, UsersKeep
<1>6. CASE Throw \/ Restart
  BY <1>6, ThrowKeeps, RestartKeeps
<1>7. CASE UNCHANGED vars
  BY <1>7 DEF vars, IInv, TypeOK, QuietSince, PlanInHand, TurnsTaken, Due
<1> HIDE DEF IInv
<1> QED
  BY <1>1, <1>2, <1>3, <1>4, <1>5, <1>6, <1>7 DEF Next, Work

\* The inductive invariant: what each phase of a tick knows of the ones before,
\* and that the pause covers every quota error a lane has met (poller.ts:187-256).
THEOREM Invariance == Spec => []IInv
BY Start, Step, PTL DEF Spec

\* A failure in one lane keeps no other from its turn (poller.ts:197-232).
THEOREM Isolation == Spec => []LanesAreIsolated
<1>1. IInv => LanesAreIsolated
  BY DEF IInv, TurnsTaken, LanesAreIsolated
<1> QED
  BY <1>1, Invariance, PTL

\* A failed evaluation costs no other user theirs (poller.ts:238-250).
THEOREM Turns == Spec => []EveryHolderHasATurn
<1>1. IInv => EveryHolderHasATurn
  BY DEF IInv, EveryHolderHasATurn
<1> QED
  BY <1>1, Invariance, PTL

\* One failure costs nobody else their turn.
THEOREM EveryTurn == Spec => []EveryoneHasATurn
BY Isolation, Turns, PTL DEF EveryoneHasATurn

\* Nothing is polled without a plan (poller.ts:190-192).
THEOREM Planned == Spec => []PlannedBeforePolling
<1>1. IInv => PlannedBeforePolling
  BY Order DEF IInv, PlanInHand, PlannedBeforePolling
<1> QED
  BY <1>1, Invariance, PTL

\* Only a call adds to what a tick has asked for.
LEMMA CallsAreTurns ==
  ASSUME IInv, Next, Calls
  PROVE  phase \in Metered
BY DEF Calls, Next, Work, Minute, Begin, Restart, Throw, Planning, CheckPause, Skip, Succeed,
       Refused, Asked, FindHolders, Evaluate, UsersDone, Digests, thisTick

\* After a quota error of a lane, no later tick asks for anything until the
\* pause is over (poller.ts:134-143, 193).
THEOREM Quiet == Spec => QuietAfterQuota
<1>1. IInv /\ [Next]_vars =>
        [Calls => \A l \in Lane : quotaAt[l] < began => now >= quotaAt[l] + Pause]_vars
  <2> SUFFICES ASSUME IInv, Next, Calls, NEW l \in Lane, quotaAt[l] < began
               PROVE  now >= quotaAt[l] + Pause
    BY DEF vars
  <2>1. quotaAt[l] + Pause <= now
    BY CallsAreTurns DEF IInv, QuietSince
  <2>2. quotaAt[l] \in Int /\ now \in Int /\ Pause \in Int
    BY Types, Order
  <2> QED
    BY <2>1, <2>2
<1> QED
  BY <1>1, Invariance, PTL DEF Spec, QuietAfterQuota

\* A success that was stored is never taken back (poller.ts:124-132, 301-304).
THEOREM Successes == Spec => LastSuccessIsKept
<1>1. ASSUME IInv, [Next]_vars, NEW l \in Lane
      PROVE  stored'[l] >= stored[l] /\ lanes'[l] >= stored'[l]
  <2>1. /\ stored[l] \in Int /\ lanes[l] \in Int /\ stored[l] <= lanes[l]
    BY <1>1, Types DEF IInv
  <2>2. ASSUME NEW call \in Metered, NEW ok \in BOOLEAN, Record(call, ok), Recorded(call)
        PROVE  stored'[l] >= stored[l] /\ lanes'[l] >= stored'[l]
    <3>1. /\ stored'[l] >= stored[l] /\ stored'[l] <= lanes'[l]
          /\ stored'[l] \in Int /\ lanes'[l] \in Int
      BY <1>1, <2>2, RecordFacts, Types
    <3> QED
      BY <3>1
  <2>3. CASE \E call \in Metered : Succeed(call)
    BY <2>2, <2>3 DEF Succeed
  <2>4. CASE \E call \in Metered, quota \in Quotas : Refused(call, quota)
    BY <2>2, <2>4 DEF Refused
  <2>5. CASE Restart
    BY <2>1, <2>5 DEF Restart
  <2>6. CASE lanes' = lanes /\ stored' = stored
    BY <2>1, <2>6
  <2>7. CASE \/ Minute \/ Throw \/ Planning \/ CheckPause \/ UsersDone \/ Digests \/ FindHolders
             \/ (\E u \in User : Evaluate(u)) \/ (\E call \in Metered : Skip(call))
             \/ UNCHANGED vars
    BY <2>6, <2>7 DEF Minute, Throw, Planning, CheckPause, UsersDone, Digests, FindHolders,
                      Evaluate, Skip, vars
  <2> QED
    BY <1>1, <2>3, <2>4, <2>5, <2>7 DEF Next, Work
<1>2. IInv /\ [Next]_vars =>
        [\A l \in Lane : stored'[l] >= stored[l] /\ lanes'[l] >= stored'[l]]_vars
  BY <1>1
<1> QED
  BY <1>2, Invariance, PTL DEF Spec, LastSuccessIsKept

\* How many phases of a tick are still to come.
Left ==
  [p \in Phase |->
     CASE p = "planning" -> 11 [] p = "planned" -> 10 [] p = "quotes" -> 9 [] p = "global" -> 8
       [] p = "categories" -> 7 [] p = "rwa" -> 6 [] p = "meta" -> 5 [] p = "lows" -> 4
       [] p = "holders" -> 3 [] p = "users" -> 2 [] p = "digests" -> 1 [] p = "idle" -> 0]

\* A tick comes closer to its end: by a phase, or by a user.
Closer ==
  \/ Left[phase'] < Left[phase]
  \/ phase = "users" /\ phase' = "users" /\ todo' \subseteq todo /\ todo' # todo

\* A tick never goes back nor round in circles: each of its steps, a failed one too, brings it
\* closer to its end, and only time passes without one; unless the process starts again.
TickAdvances ==
  [][running /\ ~Restart => Closer \/ (now' = now + 1 /\ UNCHANGED <<running, phase, todo>>)]_vars

\* The phase after a phase, and the end of the tick, leave fewer to come.
LEMMA Onward ==
  /\ \A c \in Metered : Left[After[c]] < Left[c] /\ Left["idle"] < Left[c]
  /\ Left["planned"] < Left["planning"] /\ Left["quotes"] < Left["planned"]
  /\ Left["users"] < Left["holders"] /\ Left["digests"] < Left["users"]
  /\ \A p \in Phase \ {"idle"} : Left["idle"] < Left[p]
BY DEF Left, Phase, Metered, Lane, Unrecorded, After

\* Each step of a tick brings it closer to its end, for any users, plans and failures
\* (poller.ts:177-256).
THEOREM Advances == Spec => TickAdvances
<1>1. IInv /\ [Next]_vars =>
        [running /\ ~Restart => Closer \/ (now' = now + 1 /\ UNCHANGED <<running, phase, todo>>)]_vars
  <2> SUFFICES ASSUME IInv, Next, running, ~Restart
               PROVE  Closer \/ (now' = now + 1 /\ UNCHANGED <<running, phase, todo>>)
    OBVIOUS
  <2>1. phase \in Phase \ {"idle"}
    BY DEF IInv, TypeOK, Phase
  <2>2. CASE Minute
    BY <2>2 DEF Minute, thisTick
  <2>3. CASE Planning \/ CheckPause
    BY <2>1, <2>3, Onward DEF Planning, CheckPause, Closer
  <2>4. ASSUME NEW call \in Metered, Skip(call)
        PROVE  Closer
    BY <2>4, Onward DEF Skip, Closer
  <2>5. ASSUME NEW call \in Metered, phase = call, Recorded(call)
        PROVE  Closer
    BY <2>5, Onward DEF Recorded, Closer
  <2>6. ASSUME NEW call \in Metered, Succeed(call)
        PROVE  Closer
    BY <2>5, <2>6 DEF Succeed, Asked
  <2>7. ASSUME NEW call \in Metered, NEW quota \in Quotas, Refused(call, quota)
        PROVE  Closer
    BY <2>5, <2>7 DEF Refused, Asked
  <2>8. CASE FindHolders \/ UsersDone \/ Digests
    BY <2>1, <2>8, Onward DEF FindHolders, UsersDone, Digests, Closer
  <2>9. ASSUME NEW u \in User, Evaluate(u)
        PROVE  Closer
    BY <2>9 DEF Evaluate, Closer
  <2>10. CASE Throw
    BY <2>1, <2>10, Onward DEF Throw, Closer
  <2> QED
    BY <2>2, <2>3, <2>4, <2>6, <2>7, <2>8, <2>9, <2>10 DEF Next, Work
<1> QED
  BY <1>1, Invariance, PTL DEF Spec, TickAdvances
=============================================================================
