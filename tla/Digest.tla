-------------------------------- MODULE Digest --------------------------------
(***************************************************************************)
(* The daily email of one user with a confirmed address: the poller's tick *)
(* (apps/api/src/services/poller.ts) raises alerts and, every Every ticks, *)
(* runs the digests; sendDigest (services/delivery/index.ts) mails what a  *)
(* day's alerts still lack, records each alert as sent, and stamps the     *)
(* user's row.                                                             *)
(*                                                                         *)
(* Time is in minutes, one timer tick each.  A tick that finds the one     *)
(* before it still running is skipped and does not count; a restart begins *)
(* to count afresh.  Days begin with the digest hour here.                 *)
(***************************************************************************)
EXTENDS Integers, FiniteSets

CONSTANTS
  Day,        \* minutes of a day (1440)
  Hour,       \* minutes of the digest hour (60)
  Every,      \* ticks between two runs of the digests (15)
  MaxNow,     \* bound on the clock
  MaxAlerts,  \* bound on the alerts
  MaxDelays,  \* bound on skipped and paused ticks
  MaxLosses   \* bound on refused mails, lost answers, failed queries, crashes

ASSUME DigestAssumption ==
  /\ Day \in Nat \ {0} /\ Hour \in 1..Day /\ Every \in 1..Hour
  /\ Day % Every = 0
  /\ MaxNow \in Nat /\ MaxAlerts \in Nat /\ MaxDelays \in Nat /\ MaxLosses \in Nat

Never == -1     \* lastDigestAt is null

VARIABLES
  now,
  tickCount,      \* the poller's counter, modulo Every
  phase,          \* of the tick: idle, polling, telling, noting, digest, mailing,
                  \* recording, closing
  tick,           \* n, the number of the running tick
  alerts,         \* creation times of the alerts: at most one a tick
  recorded,       \* those with an email delivery on record as sent
  pending,        \* those in the mail that is being sent and recorded
  lastDigestAt,
  mails,          \* history: how many mails an alert was in
  digests,        \* history: how many digests went out on a day
  delays, losses

digestVars == <<now, tickCount, phase, tick, alerts, recorded, pending, lastDigestAt,
          mails, digests, delays, losses>>

DayOf(t) == t \div Day

InHour(t) == t % Day < Hour

Mailed(S) == mails' = [a \in DOMAIN mails |-> IF a \in S THEN mails[a] + 1 ELSE mails[a]]

Lose == losses < MaxLosses /\ losses' = losses + 1

Delay == delays < MaxDelays /\ delays' = delays + 1

\* Slip: what is on record as sent is not left out.
PendingEvenIfSent == {a \in alerts : a > now - Day}

\* Slip: the window is a quarter short.
PendingOfLate == {a \in alerts : a > now - Day + Every /\ a \notin recorded}

\* emailPendingAlerts, for the last 24 hours.
Pending == {a \in alerts : a > now - Day /\ a \notin recorded}

-----------------------------------------------------------------------------
DigestInit ==
  /\ now = 0
  /\ tickCount \in 0..Every - 1
  /\ phase = "idle"
  /\ tick = 0
  /\ alerts = {} /\ recorded = {} /\ pending = {}
  /\ lastDigestAt = Never
  /\ mails = [t \in 0..MaxNow |-> 0]
  /\ digests = [d \in 0..DayOf(MaxNow) |-> 0]
  /\ delays = 0 /\ losses = 0

\* The timer fires.  While the previous tick is running nothing else happens.
Minute ==
  /\ now < MaxNow
  /\ now' = now + 1
  /\ \/ /\ phase = "idle"
        /\ phase' = "polling"
        /\ tick' = tickCount
        /\ tickCount' = (tickCount + 1) % Every
        /\ UNCHANGED delays
     \/ phase # "idle" /\ Delay /\ UNCHANGED <<phase, tick, tickCount>>
  /\ UNCHANGED <<alerts, recorded, pending, lastDigestAt, mails, digests, losses>>

\* The quota is exhausted: the tick ends here, digests and all.
Paused ==
  /\ phase = "polling"
  /\ Delay
  /\ phase' = "idle"
  /\ UNCHANGED <<now, tickCount, tick, alerts, recorded, pending, lastDigestAt,
                 mails, digests, losses>>

\* The evaluations are done: the digests are next on every Every-th tick.
Polled == phase' = IF tick = 0 THEN "digest" ELSE "idle"

\* The user's evaluation: it may raise an alert, and goes on to mail it if it is critical.
Evaluate ==
  /\ phase = "polling"
  /\ \/ Polled /\ UNCHANGED <<alerts, pending>>
     \/ /\ Cardinality(alerts) < MaxAlerts
        /\ alerts' = alerts \cup {now}
        /\ \/ Polled /\ UNCHANGED pending
           \/ phase' = "telling" /\ pending' = {now}
  /\ UNCHANGED <<now, tickCount, tick, recorded, lastDigestAt, mails, digests, delays, losses>>

\* viaEmailImmediate: whatever becomes of the mail, the tick goes on.
Told == Polled /\ pending' = {}

\* The mail service refuses the alert's own mail, or takes it; its answer may be lost.
AnswerCritical ==
  /\ phase = "telling"
  /\ \/ Told /\ UNCHANGED <<mails, losses>>
     \/ /\ Mailed(pending)
        /\ \/ phase' = "noting" /\ UNCHANGED <<pending, losses>>
           \/ Told /\ Lose
  /\ UNCHANGED <<now, tickCount, tick, alerts, recorded, lastDigestAt, digests, delays>>

\* Its recordDelivery, which may fail: sendEmail returns false, and nobody asks.
RecordCritical ==
  /\ phase = "noting"
  /\ Told
  /\ \/ recorded' = recorded \cup pending /\ UNCHANGED losses
     \/ Lose /\ UNCHANGED recorded
  /\ UNCHANGED <<now, tickCount, tick, alerts, lastDigestAt, mails, digests, delays>>

\* runDigests and sendDigest up to the mail: once a day, in its hour, and only
\* with something to say.
RunDigests ==
  /\ phase = "digest"
  /\ IF InHour(now) /\ DayOf(lastDigestAt) # DayOf(now) /\ Pending # {}
     THEN phase' = "mailing" /\ pending' = Pending
     ELSE phase' = "idle" /\ UNCHANGED pending
  /\ UNCHANGED <<now, tickCount, tick, alerts, recorded, lastDigestAt, mails,
                 digests, delays, losses>>

GiveUp == phase' = "idle" /\ pending' = {} /\ Lose

\* The mail service takes the digest, or does not, or its answer is lost.
AnswerMail ==
  /\ phase = "mailing"
  /\ \/ UNCHANGED <<mails, digests>> /\ GiveUp
     \/ /\ Mailed(pending)
        /\ digests' = [digests EXCEPT ![DayOf(now)] = @ + 1]
        /\ \/ GiveUp
           \/ phase' = "recording" /\ UNCHANGED <<pending, losses>>
  /\ UNCHANGED <<now, tickCount, tick, alerts, recorded, lastDigestAt, delays>>

\* recordDelivery, alert by alert; a failed query ends it, and sendEmail
\* returns false as if nothing had been sent.
RecordMailed ==
  /\ phase = "recording"
  /\ \/ \E a \in pending :
          /\ recorded' = recorded \cup {a}
          /\ pending' = pending \ {a}
          /\ phase' = IF pending = {a} THEN "closing" ELSE "recording"
          /\ UNCHANGED losses
     \/ GiveUp /\ UNCHANGED recorded
  /\ UNCHANGED <<now, tickCount, tick, alerts, lastDigestAt, mails, digests, delays>>

\* setLastDigest.
Close ==
  /\ phase = "closing"
  /\ \/ lastDigestAt' = now /\ phase' = "idle" /\ UNCHANGED <<pending, losses>>
     \/ GiveUp /\ UNCHANGED lastDigestAt
  /\ UNCHANGED <<now, tickCount, tick, alerts, recorded, mails, digests, delays>>

Restart ==
  /\ GiveUp
  /\ tickCount' = 0
  /\ tick' = 0
  /\ UNCHANGED <<now, alerts, recorded, lastDigestAt, mails, digests, delays>>

DigestNext ==
  \/ Minute
  \/ Paused
  \/ Evaluate
  \/ AnswerCritical
  \/ RecordCritical
  \/ RunDigests
  \/ AnswerMail
  \/ RecordMailed
  \/ Close
  \/ Restart

DigestSpec == DigestInit /\ [][DigestNext]_digestVars

-----------------------------------------------------------------------------
(* Correctness *)

\* The digest repeats an alert, or itself (README.md:67), only to make up for an
\* answer or a record that was lost: each mail of an alert beyond the first, and each
\* digest of a day beyond the first, has a loss to its name, be it of a digest or of the
\* mail of a critical alert (delivery/index.ts:87-132, repo.ts:199-209).
MailedTwiceOnlyAfterLoss ==
  /\ \A a \in alerts : mails[a] <= 1 + losses
  /\ \A d \in DOMAIN digests : digests[d] <= 1 + losses

\* While ticks come every minute and mails and queries succeed, an alert is in a
\* mail a day later: the 24 hours that sendDigest looks back reach to where the
\* day before left off, wherever in the hour the ticks happen to fall.
MailedWithinADay ==
  delays = 0 /\ losses = 0 /\ phase = "idle" =>
    \A a \in alerts : now - a > Day => mails[a] = 1

-----------------------------------------------------------------------------
(* Why: a mail too many has a loss to its name, and while nothing is lost or late the *)
(* same minute of every day finds what the day before left.                           *)

\* The user's evaluation is due or going on.
Evaluating == {"polling", "telling", "noting"}

DigestTypeOK ==
  /\ now \in 0..MaxNow
  /\ tickCount \in 0..Every - 1 /\ tick \in 0..Every - 1
  /\ phase \in Evaluating \cup {"idle", "digest", "mailing", "recording", "closing"}
  /\ alerts \subseteq 0..now /\ recorded \subseteq alerts /\ pending \subseteq alerts
  /\ lastDigestAt \in {Never} \cup 0..now
  /\ mails \in [0..MaxNow -> Nat]
  /\ digests \in [0..DayOf(MaxNow) -> Nat]
  /\ delays \in Nat /\ losses \in Nat

\* Taken down, or about to be: the mail that needs no loss.
Booked == IF phase \in {"noting", "recording"} THEN recorded \cup pending ELSE recorded

MailsCounted ==
  /\ phase = "polling" => now \notin alerts
  /\ IF phase \in {"telling", "noting", "mailing", "recording"}
     THEN pending \cap recorded = {}
     ELSE pending = {}
  /\ \A t \in 0..MaxNow :
       /\ t \notin alerts => mails[t] = 0
       /\ t \notin Booked => mails[t] <= losses
       /\ t \in Booked => mails[t] \in 1..1 + losses

\* A digest that may yet go out today.
ToCome ==
  \/ phase = "mailing"
  \/ phase \in Evaluating \cup {"idle", "digest"} /\ DayOf(lastDigestAt) # DayOf(now)

DigestsCounted ==
  \A d \in DOMAIN digests :
    /\ digests[d] <= 1 + losses
    /\ d > DayOf(now) => digests[d] = 0
    /\ d = DayOf(now) /\ ToCome => digests[d] <= losses

\* The digests run in the minutes that leave this remainder: once in every Every minutes,
\* and Every divides the day.
Slot == (now + 1 + Every - tickCount) % Every

\* The first such minute of a day has seen to the alerts of the 24 hours before.
SlotSeen(t) == \A a \in alerts : a <= t /\ t - a < Day => a \in Booked

OnTime ==
  /\ phase # "idle" => tickCount = (tick + 1) % Every /\ lastDigestAt < now
  /\ phase \notin Evaluating \cup {"idle"} => tick = 0
  /\ lastDigestAt # Never => lastDigestAt % Every = Slot
  /\ phase = "mailing" => \A a \in alerts : now - a < Day => a \in recorded \cup pending
  /\ phase \in {"recording", "closing"} => SlotSeen(now)

SlotsSeen ==
  \A d \in 0..DayOf(now) :
    LET t == d * Day + Slot IN t < now \/ (t = now /\ phase = "idle") => SlotSeen(t)

Everyday == delays = 0 /\ losses = 0 => OnTime /\ SlotsSeen

DigestIInv == DigestTypeOK /\ MailsCounted /\ DigestsCounted /\ Everyday
=============================================================================
