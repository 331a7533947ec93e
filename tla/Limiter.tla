-------------------------------- MODULE Limiter --------------------------------
(***************************************************************************)
(* The local rate limiter of the CoinMarketCap client                      *)
(* (packages/cmc-client/src/limiter.ts): a sliding window over the times   *)
(* of past requests.  A caller that finds the window full sleeps until its *)
(* oldest request leaves it and tries again, or is refused when that is    *)
(* later than it may wait.  The plan's limit may change in between.        *)
(*                                                                         *)
(* acquire() runs without interruption up to its sleep.  grants remembers  *)
(* every request ever let through; the code's stamps are its end, from     *)
(* head on, and shift() moves head.                                        *)
(***************************************************************************)
EXTENDS Integers, Sequences, FiniteSets

CONSTANTS
  Caller,    \* concurrent callers of acquire()
  Minute,    \* length of the window (60_000)
  MaxWait,   \* maxWaitMs
  MaxRate,   \* the largest rate a plan allows
  MaxClock   \* bound on the clock

ASSUME LimiterAssumption ==
  /\ Minute \in Nat \ {0}
  /\ MaxWait \in Nat
  /\ MaxRate \in Nat \ {0}
  /\ MaxClock \in Nat

VARIABLES
  clock,      \* now(), which does not run backwards
  perMinute,
  grants,     \* times of all requests let through
  head,       \* stamps are grants[head], grants[head + 1], ...
  calls       \* Caller -> its acquire()

vars == <<clock, perMinute, grants, head, calls>>

\* status: idle, waiting until wakeAt, granted or refused.
Call == [status : {"idle", "waiting", "granted", "refused"}, deadline : Nat, wakeAt : Nat]

-----------------------------------------------------------------------------
(* The window *)

\* The loop of shift() leaves head at h: the first stamp in the window.
FirstInWindow(h, t) ==
  /\ \A i \in head..h - 1 : grants[i] <= t - Minute
  /\ h <= Len(grants) => grants[h] > t - Minute

Stamps(h) == Len(grants) - h + 1

\* When the oldest stamp leaves the window.
FreesAt(h) == grants[h] + Minute

-----------------------------------------------------------------------------
Init ==
  /\ clock = 0
  /\ perMinute \in 1..MaxRate
  /\ grants = <<>>
  /\ head = 1
  /\ calls = [c \in Caller |-> [status |-> "idle", deadline |-> 0, wakeAt |-> 0]]

\* One turn of the loop in acquire(), when the old stamps are shifted out.
Becomes(c, status, deadline, wakeAt) ==
  calls' = [calls EXCEPT ![c] = [status |-> status, deadline |-> deadline, wakeAt |-> wakeAt]]

Decide(c, deadline, h) ==
  \/ /\ Stamps(h) < perMinute
     /\ grants' = Append(grants, clock)
     /\ Becomes(c, "granted", deadline, 0)
  \/ /\ Stamps(h) >= perMinute
     /\ FreesAt(h) > deadline
     /\ UNCHANGED grants
     /\ Becomes(c, "refused", deadline, 0)
  \/ /\ Stamps(h) >= perMinute
     /\ FreesAt(h) <= deadline
     /\ UNCHANGED grants
     /\ Becomes(c, "waiting", deadline, FreesAt(h))

Try(c, deadline) ==
  /\ \E h \in head..Len(grants) + 1 :
       /\ FirstInWindow(h, clock)
       /\ head' = h
       /\ Decide(c, deadline, h)
  /\ UNCHANGED <<clock, perMinute>>

\* acquire().  Callers come while there is time left to answer them.
Acquire(c) ==
  /\ calls[c].status # "waiting"
  /\ clock + MaxWait <= MaxClock
  /\ Try(c, clock + MaxWait)

\* The sleep is over; a timer may be late, and other callers come first.
Wake(c) ==
  /\ calls[c].status = "waiting"
  /\ clock >= calls[c].wakeAt
  /\ Try(c, calls[c].deadline)

\* Slip: a new limit starts with an empty window.
SetPerMinuteAfresh(rate) ==
  /\ rate # perMinute
  /\ perMinute' = rate
  /\ head' = Len(grants) + 1
  /\ UNCHANGED <<clock, grants, calls>>

SetPerMinute(rate) ==
  /\ rate # perMinute
  /\ perMinute' = rate
  /\ UNCHANGED <<clock, grants, head, calls>>

Tick ==
  /\ clock < MaxClock
  /\ clock' = clock + 1
  /\ UNCHANGED <<perMinute, grants, head, calls>>

Next ==
  \/ \E c \in Caller : Acquire(c)
  \/ \E c \in Caller : Wake(c)
  \/ \E rate \in 1..MaxRate : SetPerMinute(rate)
  \/ Tick

Spec == Init /\ [][Next]_vars

-----------------------------------------------------------------------------
(* Correctness *)

TypeOK ==
  /\ clock \in Nat
  /\ perMinute \in 1..MaxRate
  /\ grants \in Seq(Nat)
  /\ head \in 1..Len(grants) + 1
  /\ calls \in [Caller -> Call]

\* The requests let through in the minute up to t, of all there ever were.
LastMinute(log, t) == {i \in DOMAIN log : t - Minute < log[i]}

\* With every request let through, the last minute holds no more of them than
\* the limit in force, however many callers slept, overtook each other or saw
\* another limit: dropping old stamps loses nothing, and a change of the limit
\* keeps the window (limiter.ts:15-40, client.test.ts:205).
GrantFits ==
  [][grants' # grants =>
       Cardinality(LastMinute(grants', clock)) <= perMinute]_vars

\* A caller is refused for cause: were nobody else to come, the window would
\* still be full at its deadline (limiter.ts:24-32).
RefusedForCause ==
  [][\A c \in Caller :
       /\ calls'[c] # calls[c]
       /\ calls'[c].status = "refused"
       => Cardinality(LastMinute(grants, calls'[c].deadline)) >= perMinute]_vars

-----------------------------------------------------------------------------
(* Why it does: the log is in order, and what has been shifted out of the     *)
(* window stays out.                                                         *)

InOrder == \A i, j \in DOMAIN grants : i <= j => grants[i] <= grants[j]

NotAhead == \A i \in DOMAIN grants : grants[i] <= clock

ShiftedAreOld == \A i \in 1..head - 1 : grants[i] <= clock - Minute

IInv == TypeOK /\ InOrder /\ NotAhead /\ ShiftedAreOld
=============================================================================
