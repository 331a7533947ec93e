------------------------------- MODULE Delivery -------------------------------
(***************************************************************************)
(* Delivery of stored alerts to one user                                   *)
(* (apps/api/src/services/delivery/index.ts and the three senders).        *)
(*                                                                         *)
(* persist() delivers the rows it has stored one after another.  For each  *)
(* row the three channels run at once; a channel asks its service, records *)
(* the answer, and drops a link that is dead.  All of that works from the  *)
(* user row read when the evaluation began, while the user may link,       *)
(* unlink and subscribe, a query may fail, and the process may die.        *)
(***************************************************************************)
EXTENDS Naturals, FiniteSets

CONSTANTS
  Alert,        \* rows of the alerts table that will be delivered
  Critical,     \* those that go out by email at once
  Chat,         \* Telegram chats the user may link
  NoChat,       \* telegramChatId is null
  Endpoint,     \* browser push endpoints
  Configured,   \* channels with a sender on this server
  MaxFailures,  \* bound on failed queries and crashes
  MaxChanges    \* bound on what the user and the services do meanwhile

Channel == {"telegram", "push", "email"}

Nothing == "nothing"

ASSUME DeliveryAssumption ==
  /\ Critical \subseteq Alert
  /\ Nothing \notin Alert
  /\ NoChat \notin Chat
  /\ Configured \subseteq Channel
  /\ MaxFailures \in Nat
  /\ MaxChanges \in Nat

\* One message of one alert: where it goes.
Job ==
  [channel : {"telegram"}, target : Chat] \cup
  [channel : {"push"}, target : Endpoint] \cup
  [channel : {"email"}, target : {"inbox"}]

\* due: a push message waiting for its turn; sending: asked the service; ok,
\* failed, dead, skipped: its answer, to be recorded; cleanup: the dead link is
\* to be dropped; rescue: in the catch block.
Stage == {"idle", "due", "sending", "ok", "failed", "dead", "skipped", "cleanup", "rescue"}

VARIABLES
  user,        \* [chat, channels]: the users row; email counts when verified
  subs,        \* push_subscriptions of the user
  dead,        \* chats that block the bot, endpoints that are gone
  fresh,       \* alerts not stored yet
  snapshot,    \* the user row that persist() works from
  rows,        \* stored rows it has still to deliver
  current,     \* the row being delivered
  jobs,        \* Job -> Stage, of the current row
  copies,      \* <<alert, job>> -> how many messages the service took
  deliveries,  \* the deliveries table
  owed,        \* history: the alert and channel pairs that a snapshot asked for
  failures, changes

vars == <<user, subs, dead, fresh, snapshot, rows, current, jobs, copies,
          deliveries, owed, failures, changes>>

batch == <<fresh, snapshot, rows, current, owed>>

world == <<user, subs, dead, changes>>

Status(stage) ==
  CASE stage = "ok" -> "sent" [] stage = "skipped" -> "skipped" [] OTHER -> "failed"

Idle == \A j \in Job : jobs[j] = "idle"

\* The guards of viaTelegram, viaPush and viaEmailImmediate.
Wanted(a, u) ==
  {j \in Job :
     /\ j.channel \in u.channels
     /\ j.channel = "telegram" => j.target = u.chat
     /\ j.channel = "push" => j.target \in subs
     /\ j.channel = "email" => a \in Critical}

\* The messages a user row asks for, but for push, whose endpoints are looked up
\* only when the alert's turn comes.
Owed(new, u) ==
  {o \in [alert : new, channel : {"telegram", "email"}] :
     \E j \in Wanted(o.alert, u) : j.channel = o.channel}

\* A channel without a sender records one row, whatever the targets.
FirstStage(j, wanted) ==
  IF j \notin wanted THEN "idle"
  ELSE IF j.channel \notin Configured
       THEN IF j = CHOOSE k \in wanted : k.channel = j.channel THEN "skipped" ELSE "idle"
       ELSE IF j.channel = "push" THEN "due" ELSE "sending"

-----------------------------------------------------------------------------
Init ==
  /\ user \in [chat : Chat \cup {NoChat}, channels : SUBSET Channel]
  /\ subs \in SUBSET Endpoint
  /\ dead = {}
  /\ fresh = Alert
  /\ snapshot = user
  /\ rows = {}
  /\ current = Nothing
  /\ jobs = [j \in Job |-> "idle"]
  /\ copies = [aj \in Alert \X Job |-> 0]
  /\ deliveries = {}
  /\ owed = {}
  /\ failures = 0
  /\ changes = 0

\* persist() has stored a batch and turns to its delivery.
Store(new) ==
  /\ current = Nothing /\ rows = {}
  /\ new # {}
  /\ fresh' = fresh \ new
  /\ rows' = new
  /\ snapshot' = user
  /\ owed' = owed \cup Owed(new, user)
  /\ UNCHANGED <<world, current, jobs, copies, deliveries, failures>>

\* deliver(): the three channels of the next row start at once.
Deliver(a) ==
  /\ current = Nothing /\ Idle
  /\ current' = a
  /\ rows' = rows \ {a}
  /\ jobs' = [j \in Job |-> FirstStage(j, Wanted(a, snapshot))]
  /\ UNCHANGED <<world, fresh, snapshot, owed, copies, deliveries, failures>>

\* The same when pushOf throws: Promise.all rejects and persist() gives up the
\* rows that are left, while the other two channels run on.
DeliverWithoutPush(a) ==
  /\ current = Nothing /\ Idle
  /\ "push" \in snapshot.channels
  /\ failures < MaxFailures
  /\ failures' = failures + 1
  /\ current' = a
  /\ rows' = {}
  /\ jobs' = [j \in Job |-> FirstStage(j, {k \in Wanted(a, snapshot) : k.channel # "push"})]
  /\ UNCHANGED <<world, fresh, snapshot, owed, copies, deliveries>>

\* Push subscriptions are served one after another.
SendPush(j) ==
  /\ jobs[j] = "due"
  /\ \A k \in Job : k.channel = "push" => jobs[k] \in {"idle", "due"}
  /\ jobs' = [jobs EXCEPT ![j] = "sending"]
  /\ UNCHANGED <<world, batch, copies, deliveries, failures>>

Took(j) == copies' = [copies EXCEPT ![<<current, j>>] = @ + 1]

\* Slip: the senders wait for the service for ever, and a dead target is one
\* that never answers.
AnswerOfTheLiving(j) ==
  /\ jobs[j] = "sending"
  /\ j.target \notin dead
  /\ jobs' = [jobs EXCEPT ![j] = "ok"] /\ Took(j)
  /\ UNCHANGED <<world, batch, deliveries, failures>>

\* Slip: an answer that got lost is a reason to send again.
AnswerOrRetry(j) ==
  /\ jobs[j] = "sending"
  /\ \/ jobs' = [jobs EXCEPT ![j] = "ok"] /\ Took(j)
     \/ jobs' = jobs /\ Took(j)
  /\ UNCHANGED <<world, batch, deliveries, failures>>

\* What a request can come to: the stage its answer leads to, and whether the
\* service took the message.  When only the answer is lost, or comes after the
\* sender's deadline, the message was taken and counts as failed all the same.
Outcome(stage, taken) == [stage |-> stage, taken |-> taken]

Lost == {Outcome("failed", TRUE), Outcome("failed", FALSE)}

TelegramOutcomes(chat) ==
  IF chat \in dead THEN {Outcome("dead", FALSE), Outcome("failed", FALSE)}
                   ELSE {Outcome("ok", TRUE)} \cup Lost

PushOutcomes(endpoint) ==
  IF endpoint \in dead THEN {Outcome("dead", FALSE), Outcome("failed", FALSE)}
                       ELSE {Outcome("ok", TRUE)} \cup Lost

EmailOutcomes == {Outcome("ok", TRUE)} \cup Lost

Outcomes(j) ==
  CASE j.channel = "telegram" -> TelegramOutcomes(j.target)
    [] j.channel = "push"     -> PushOutcomes(j.target)
    [] j.channel = "email"    -> EmailOutcomes

Answer(j) ==
  /\ jobs[j] = "sending"
  /\ \E o \in Outcomes(j) :
       /\ jobs' = [jobs EXCEPT ![j] = o.stage]
       /\ IF o.taken THEN Took(j) ELSE UNCHANGED copies
  /\ UNCHANGED <<world, batch, deliveries, failures>>

Ledger(j, status) ==
  deliveries' = deliveries \cup {[alert |-> current, channel |-> j.channel, status |-> status]}

\* Slip: whatever the service answered, the message went out.
RecordSent(j) ==
  /\ jobs[j] \in {"ok", "failed", "dead", "skipped"}
  /\ jobs' = [jobs EXCEPT ![j] = IF jobs[j] = "dead" THEN "cleanup" ELSE "idle"]
  /\ Ledger(j, "sent")
  /\ UNCHANGED <<world, batch, copies, failures>>

\* recordDelivery.
Record(j) ==
  /\ jobs[j] \in {"ok", "failed", "dead", "skipped"}
  /\ jobs' = [jobs EXCEPT ![j] = IF jobs[j] = "dead" THEN "cleanup" ELSE "idle"]
  /\ Ledger(j, Status(jobs[j]))
  /\ UNCHANGED <<world, batch, copies, failures>>

\* unlinkTelegram(user.id) clears whatever chat the user has now.
UnlinkBlocked ==
  /\ user' = [user EXCEPT !.chat = NoChat]
  /\ UNCHANGED subs

\* deletePushEndpoint removes the endpoint that was sent to.
DeleteGone(endpoint) ==
  /\ subs' = subs \ {endpoint}
  /\ UNCHANGED user

Cleanup(j) ==
  /\ jobs[j] = "cleanup"
  /\ jobs' = [jobs EXCEPT ![j] = "idle"]
  /\ IF j.channel = "telegram" THEN UnlinkBlocked ELSE DeleteGone(j.target)
  /\ UNCHANGED <<dead, changes, batch, copies, deliveries, failures>>

\* The catch block: the attempt is recorded as failed, sent or not.
Rescue(j) ==
  /\ jobs[j] = "rescue"
  /\ jobs' = [jobs EXCEPT ![j] = "idle"]
  /\ Ledger(j, "failed")
  /\ UNCHANGED <<world, batch, copies, failures>>

\* A failed query inside the try block goes to the catch block (which for email
\* only logs); anywhere else it rejects the delivery: the rest of the channel
\* and the rest of the batch are given up.
QueryFails(j) ==
  /\ jobs[j] \in {"ok", "failed", "dead", "skipped", "cleanup", "rescue"}
  /\ failures < MaxFailures
  /\ failures' = failures + 1
  /\ IF jobs[j] \in {"skipped", "rescue"}
     THEN /\ rows' = {}
          /\ jobs' = [k \in Job |-> IF k.channel = j.channel THEN "idle" ELSE jobs[k]]
     ELSE /\ jobs' = [jobs EXCEPT ![j] = IF j.channel = "email" THEN "idle" ELSE "rescue"]
          /\ UNCHANGED rows
  /\ UNCHANGED <<world, fresh, snapshot, current, owed, copies, deliveries>>

Delivered ==
  /\ current # Nothing /\ Idle
  /\ current' = Nothing
  /\ UNCHANGED <<world, fresh, snapshot, rows, owed, jobs, copies, deliveries, failures>>

\* The process dies; nothing makes up for the rows that were left.
Crash ==
  /\ failures < MaxFailures
  /\ failures' = failures + 1
  /\ current # Nothing \/ rows # {}
  /\ rows' = {}
  /\ current' = Nothing
  /\ jobs' = [j \in Job |-> "idle"]
  /\ UNCHANGED <<world, fresh, snapshot, owed, copies, deliveries>>

-----------------------------------------------------------------------------
(* Meanwhile: routes/channels.ts, routes/internal.ts, routes/portfolio.ts.    *)

Meanwhile ==
  /\ changes < MaxChanges
  /\ changes' = changes + 1
  /\ UNCHANGED <<batch, jobs, copies, deliveries, failures>>

\* linkTelegram.
Link(c) ==
  /\ Meanwhile
  /\ user.chat # c
  /\ user' = [user EXCEPT !.chat = c]
  /\ UNCHANGED <<subs, dead>>

\* unlinkTelegram, by /stop or from the web, or the chat is linked elsewhere.
Unlink ==
  /\ Meanwhile
  /\ user.chat # NoChat
  /\ user' = [user EXCEPT !.chat = NoChat]
  /\ UNCHANGED <<subs, dead>>

\* setPreferences, setEmail.
SetChannels(S) ==
  /\ Meanwhile
  /\ S # user.channels
  /\ user' = [user EXCEPT !.channels = S]
  /\ UNCHANGED <<subs, dead>>

\* savePush, deletePush.
Subscribe(e) ==
  /\ Meanwhile
  /\ subs' = IF e \in subs THEN subs \ {e} ELSE subs \cup {e}
  /\ UNCHANGED <<user, dead>>

\* A chat blocks the bot, or a browser drops its subscription.
Die(target) ==
  /\ Meanwhile
  /\ target \notin dead
  /\ dead' = dead \cup {target}
  /\ UNCHANGED <<user, subs>>

\* What the delivery does of its own accord.
Work ==
  \/ \E a \in rows : Deliver(a)
  \/ \E j \in Job : SendPush(j)
  \/ \E j \in Job : Answer(j)
  \/ \E j \in Job : Record(j)
  \/ \E j \in Job : Cleanup(j)
  \/ \E j \in Job : Rescue(j)
  \/ Delivered

Next ==
  \/ \E new \in SUBSET fresh : Store(new)
  \/ Work
  \/ \E a \in rows : DeliverWithoutPush(a)
  \/ \E j \in Job : QueryFails(j)
  \/ Crash
  \/ \E c \in Chat : Link(c)
  \/ Unlink
  \/ \E S \in SUBSET Channel : SetChannels(S)
  \/ \E e \in Endpoint : Subscribe(e)
  \/ \E target \in Chat \cup Endpoint : Die(target)

Spec == Init /\ [][Next]_vars

\* Every sender has a deadline (10 s, 10 s and 12 s) and the database answers.
FairSpec == Spec /\ WF_vars(Work)

-----------------------------------------------------------------------------
(* Correctness *)

\* Delivery never retries: whatever answers get lost, whatever queries fail and
\* whenever the process dies, no target gets an alert twice.
AtMostOnce == \A aj \in Alert \X Job : copies[aj] <= 1

\* A delivery that the ledger calls sent was taken by its service, for at least
\* one target of the channel (delivery/index.ts:41-63).
SentMeansTaken ==
  \A d \in deliveries :
    d.status = "sent" => \E j \in Job : j.channel = d.channel /\ copies[<<d.alert, j>>] >= 1

\* One channel's refusals, dead links and lost answers hold up neither another
\* channel nor the next alert of the batch: without failed queries and crashes,
\* every alert of a finished batch has a delivery record for each of the
\* channels that the user's row asked for (docs/ARCHITECTURE.md:41).
EveryRowAttempted ==
  failures = 0 /\ current = Nothing /\ rows = {} =>
    \A o \in owed : \E d \in deliveries : d.alert = o.alert /\ d.channel = o.channel

\* A batch comes to its end, although services may never answer (the poller waits
\* for it before it looks at the next user), and then it was delivered in full.
DeliveryEnds ==
  /\ (current # Nothing \/ rows # {}) ~> (current = Nothing /\ rows = {})
  /\ []EveryRowAttempted

-----------------------------------------------------------------------------
(* Why it does: an alert comes to its turn once, with nothing sent of it, and *)
(* a channel is asked once in that turn.                                      *)

TypeOK ==
  /\ user \in [chat : Chat \cup {NoChat}, channels : SUBSET Channel]
  /\ subs \subseteq Endpoint
  /\ dead \subseteq Chat \cup Endpoint
  /\ fresh \subseteq Alert
  /\ snapshot \in [chat : Chat \cup {NoChat}, channels : SUBSET Channel]
  /\ rows \subseteq Alert
  /\ current \in Alert \cup {Nothing}
  /\ jobs \in [Job -> Stage]
  /\ copies \in [Alert \X Job -> Nat]
  /\ deliveries \subseteq [alert : Alert, channel : Channel, status : {"sent", "failed", "skipped"}]
  /\ owed \subseteq [alert : Alert, channel : {"telegram", "email"}]
  /\ failures \in Nat
  /\ changes \in Nat

\* An alert is fresh, waits, has its turn or had it.
InTurn ==
  /\ fresh \cap rows = {}
  /\ current \notin fresh \cup rows
  /\ current = Nothing => Idle

\* Of alerts before their turn, and of messages that are asked for, nothing was taken;
\* of those that are ok, something was.
TakenInTurn ==
  /\ \A a \in fresh \cup rows, j \in Job : copies[<<a, j>>] = 0
  /\ \A j \in Job :
       /\ jobs[j] \in {"due", "sending"} => copies[<<current, j>>] = 0
       /\ jobs[j] = "ok" => copies[<<current, j>>] >= 1

Recorded(o) == \E d \in deliveries : d.alert = o.alert /\ d.channel = o.channel

\* A channel that has still to record what it did for the current alert.
Attempting(o) ==
  /\ o.alert = current
  /\ \E j \in Job : j.channel = o.channel /\ jobs[j] \in {"sending", "ok", "failed", "dead", "skipped"}

\* What is owed was recorded, is being done, or waits with the rest of its batch, which
\* still asks for it.
OwedInTurn ==
  /\ \A o \in owed :
       /\ o.alert \notin fresh
       /\ o.alert \in rows => \E j \in Wanted(o.alert, snapshot) : j.channel = o.channel
  /\ failures = 0 => \A o \in owed : Recorded(o) \/ Attempting(o) \/ o.alert \in rows

IInv == TypeOK /\ InTurn /\ TakenInTurn /\ AtMostOnce /\ SentMeansTaken /\ OwedInTurn
=============================================================================
