---------------------------- MODULE DeliveryProofs ----------------------------
(***************************************************************************)
(* Proofs about Delivery: no message goes out twice, the ledger does not   *)
(* call sent what was not taken, and no channel is left out, for any       *)
(* alerts, chats, browsers and senders, whatever fails and whenever the    *)
(* process dies; and about Digest: a mail too many has a loss to its name, *)
(* and no alert is left behind, for any day, hour and rhythm of the ticks. *)
(***************************************************************************)
EXTENDS Delivery, Digest, TLAPS

\* Channels that deliver by themselves are those of the jobs.
LEMMA JobChannels == \A j \in Job : j.channel \in Channel
BY DEF Job, Channel

LEMMA StartsRight == Init => IInv
<1> SUFFICES ASSUME Init
             PROVE  IInv
  OBVIOUS
<1>1. TypeOK
  BY DEF Init, TypeOK, Stage
<1>2. InTurn
  BY DeliveryAssumption DEF Init, InTurn, Idle
<1>3. TakenInTurn /\ AtMostOnce
  BY DEF Init, TakenInTurn, AtMostOnce
<1>4. SentMeansTaken /\ OwedInTurn
  BY DEF Init, SentMeansTaken, OwedInTurn
<1> QED
  BY <1>1, <1>2, <1>3, <1>4 DEF IInv

\* What delivery does not do itself leaves its own state alone.
LEMMA WorldKeeps ==
  ASSUME IInv, NEW u \in [chat : Chat \cup {NoChat}, channels : SUBSET Channel], user' = u,
         subs' \subseteq Endpoint, dead' \subseteq Chat \cup Endpoint, changes' \in Nat,
         UNCHANGED <<batch, jobs, copies, deliveries, failures>>
  PROVE  IInv'
<1>1. TypeOK'
  BY DEF IInv, TypeOK, batch
<1>2. InTurn' /\ TakenInTurn' /\ AtMostOnce' /\ SentMeansTaken'
  BY DEF IInv, InTurn, Idle, TakenInTurn, AtMostOnce, SentMeansTaken, batch
<1>3. ASSUME NEW o \in owed, NEW j \in Wanted(o.alert, snapshot), j.channel = o.channel
      PROVE  j \in Wanted(o.alert, snapshot)'
  <2>1. o.channel \in {"telegram", "email"}
    BY DEF IInv, TypeOK
  <2> QED
    BY <1>3, <2>1 DEF Wanted, batch
<1>4. OwedInTurn'
  BY <1>3 DEF IInv, OwedInTurn, Recorded, Attempting, batch
<1> QED
  BY <1>1, <1>2, <1>4 DEF IInv

\* A channel that has not begun, or has recorded what it did, moves on: nothing is taken
\* and nothing is recorded.
LEMMA StagesKeep ==
  ASSUME IInv, jobs' \in [Job -> Stage],
         \A j \in Job : jobs'[j] = jobs[j] \/ jobs'[j] \notin {"due", "sending", "ok"},
         failures' \in Nat,
         failures' = 0 => failures = 0 /\ \A j \in Job : jobs'[j] = jobs[j],
         current = Nothing => \A j \in Job : jobs'[j] = "idle",
         rows' = rows \/ (rows' = {} /\ failures' # 0),
         UNCHANGED <<world, fresh, snapshot, current, owed, copies, deliveries>>
  PROVE  IInv'
<1>1. TypeOK'
  BY DEF IInv, TypeOK, world
<1>2. InTurn'
  BY DEF IInv, InTurn, Idle
<1>3. TakenInTurn' /\ AtMostOnce' /\ SentMeansTaken'
  BY DEF IInv, TakenInTurn, AtMostOnce, SentMeansTaken
<1>4. ASSUME NEW o \in owed, NEW j \in Wanted(o.alert, snapshot)
      PROVE  j \in Wanted(o.alert, snapshot)'
  BY <1>4 DEF Wanted, world
<1>5. OwedInTurn'
  <2>1. /\ \A o \in owed' : o.alert \notin fresh'
        /\ \A o \in owed' : o.alert \in rows' => o.alert \in rows
    BY DEF IInv, OwedInTurn
  <2>2. \A o \in owed' : o.alert \in rows' => \E j \in Wanted(o.alert, snapshot)' : j.channel = o.channel
    BY <1>4, <2>1 DEF IInv, OwedInTurn
  <2>3. ASSUME failures' = 0
        PROVE  \A o \in owed' : Recorded(o)' \/ Attempting(o)' \/ o.alert \in rows'
    BY <2>3 DEF IInv, OwedInTurn, Recorded, Attempting
  <2> QED
    BY <2>1, <2>2, <2>3 DEF OwedInTurn
<1> QED
  BY <1>1, <1>2, <1>3, <1>5 DEF IInv

LEMMA StoreKeeps ==
  ASSUME IInv, NEW new \in SUBSET fresh, Store(new)
  PROVE  IInv'
<1>1. TypeOK'
  <2>1. owed' \subseteq [alert : Alert, channel : {"telegram", "email"}]
    BY DEF IInv, TypeOK, Store, Owed
  <2> QED
    BY <2>1 DEF IInv, TypeOK, Store, world
<1>2. InTurn'
  BY DEF IInv, InTurn, Idle, Store
<1>3. TakenInTurn' /\ AtMostOnce' /\ SentMeansTaken'
  BY DEF IInv, TakenInTurn, AtMostOnce, SentMeansTaken, Store
<1>4. ASSUME NEW o \in owed'
      PROVE  /\ o.alert \notin fresh'
             /\ o.alert \in rows' => \E j \in Wanted(o.alert, snapshot)' : j.channel = o.channel
  <2>1. CASE o \in owed
    BY <2>1 DEF IInv, OwedInTurn, Store
  <2>2. CASE o \in Owed(new, user)
    <3>1. o.alert \in new /\ \E j \in Wanted(o.alert, user) : j.channel = o.channel
      BY <2>2 DEF Owed
    <3>2. \A j \in Wanted(o.alert, user) : j \in Wanted(o.alert, snapshot)'
      BY DEF Wanted, Store, world
    <3> QED
      BY <3>1, <3>2 DEF Store
  <2> QED
    BY <2>1, <2>2 DEF Store
<1>5. ASSUME failures' = 0, NEW o \in owed'
      PROVE  Recorded(o)' \/ Attempting(o)' \/ o.alert \in rows'
  <2>1. CASE o \in owed
    <3>1. ~Attempting(o)
      BY DEF Attempting, Store, IInv, InTurn, Idle
    <3> QED
      BY <1>5, <2>1, <3>1 DEF IInv, OwedInTurn, Recorded, Store
  <2>2. CASE o \in Owed(new, user)
    BY <2>2 DEF Owed, Store
  <2> QED
    BY <2>1, <2>2 DEF Store
<1> QED
  BY <1>1, <1>2, <1>3, <1>4, <1>5 DEF IInv, OwedInTurn

\* Whoever is asked for, and has a channel, gets to work when the alert's turn comes.
LEMMA FirstStageStarts ==
  ASSUME NEW wanted \in SUBSET Job, NEW j \in wanted, j.channel # "push"
  PROVE  \E k \in Job : k.channel = j.channel /\ FirstStage(k, wanted) \in {"sending", "skipped"}
<1>1. CASE j.channel \in Configured
  BY <1>1 DEF FirstStage
<1>2. CASE j.channel \notin Configured
  <2> DEFINE k == CHOOSE k \in wanted : k.channel = j.channel
  <2>1. k \in wanted /\ k.channel = j.channel
    OBVIOUS
  <2>2. FirstStage(k, wanted) = "skipped"
    BY <1>2, <2>1 DEF FirstStage
  <2> QED
    BY <2>1, <2>2
<1> QED
  BY <1>1, <1>2

\* An alert comes to its turn: of those before, all is recorded.
LEMMA TurnComes ==
  ASSUME IInv, NEW a \in rows, current = Nothing, Idle,
         NEW wanted \in SUBSET Job,
         current' = a, rows' \subseteq rows \ {a}, failures' \in Nat,
         jobs' = [j \in Job |-> FirstStage(j, wanted)],
         failures' = 0 => failures = 0 /\ rows' = rows \ {a} /\ wanted = Wanted(a, snapshot),
         UNCHANGED <<world, fresh, snapshot, owed, copies, deliveries>>
  PROVE  IInv'
<1>1. \A j \in Job : FirstStage(j, wanted) \in {"idle", "skipped", "due", "sending"}
  BY DEF FirstStage
<1>2. TypeOK'
  BY <1>1 DEF IInv, TypeOK, Stage, world
<1>3. InTurn'
  BY DeliveryAssumption DEF IInv, TypeOK, InTurn
<1>4. TakenInTurn' /\ AtMostOnce' /\ SentMeansTaken'
  BY <1>1 DEF IInv, TakenInTurn, AtMostOnce, SentMeansTaken
<1>5. ASSUME NEW o \in owed, NEW j \in Wanted(o.alert, snapshot)
      PROVE  j \in Wanted(o.alert, snapshot)'
  BY <1>5 DEF Wanted, world
<1>6. ASSUME failures' = 0, NEW o \in owed
      PROVE  Recorded(o)' \/ Attempting(o)' \/ o.alert \in rows'
  <2>1. CASE Recorded(o)
    BY <2>1 DEF Recorded
  <2>2. ~Attempting(o)
    BY DEF Attempting, Idle
  <2>3. CASE o.alert \in rows /\ o.alert # a
    BY <1>6, <2>3
  <2>4. CASE o.alert = a
    <3>1. PICK j \in Wanted(a, snapshot) : j.channel = o.channel
      BY <2>4 DEF IInv, OwedInTurn
    <3>2. j.channel # "push" /\ j \in wanted
      BY <1>6, <3>1 DEF IInv, TypeOK
    <3>3. PICK k \in Job : k.channel = j.channel /\ FirstStage(k, wanted) \in {"sending", "skipped"}
      BY <3>2, FirstStageStarts
    <3> QED
      BY <2>4, <3>1, <3>3 DEF Attempting
  <2> QED
    BY <1>6, <2>1, <2>2, <2>3, <2>4 DEF IInv, OwedInTurn
<1>7. OwedInTurn'
  BY <1>5, <1>6 DEF IInv, OwedInTurn
<1> QED
  BY <1>2, <1>3, <1>4, <1>7 DEF IInv

LEMMA DeliverKeeps ==
  ASSUME IInv, NEW a \in rows, Deliver(a) \/ DeliverWithoutPush(a)
  PROVE  IInv'
<1>1. Wanted(a, snapshot) \in SUBSET Job
  BY DEF Wanted
<1>2. failures \in Nat /\ a \in rows
  BY DEF IInv, TypeOK
<1>3. CASE Deliver(a)
  BY <1>1, <1>2, <1>3, TurnComes DEF Deliver
<1>4. CASE DeliverWithoutPush(a)
  <2> DEFINE wanted == {k \in Wanted(a, snapshot) : k.channel # "push"}
  <2>1. wanted \in SUBSET Job
    BY <1>1
  <2>2. failures' \in Nat /\ failures' # 0 /\ rows' \subseteq rows \ {a}
    BY <1>2, <1>4 DEF DeliverWithoutPush
  <2>3. /\ current = Nothing /\ Idle /\ current' = a
        /\ jobs' = [j \in Job |-> FirstStage(j, wanted)]
        /\ UNCHANGED <<world, fresh, snapshot, owed, copies, deliveries>>
    BY <1>4 DEF DeliverWithoutPush
  <2> HIDE DEF wanted
  <2> QED
    BY <2>1, <2>2, <2>3, TurnComes
<1> QED
  BY <1>3, <1>4

\* A service is asked, or answers; at most one message is taken.
LEMMA AskKeeps ==
  ASSUME IInv, NEW j \in Job, SendPush(j) \/ Answer(j)
  PROVE  IInv'
<1>1. /\ UNCHANGED <<world, batch, deliveries, failures>>
      /\ \A k \in Job \ {j} : jobs'[k] = jobs[k]
      /\ jobs' \in [Job -> Stage]
      /\ \/ jobs[j] = "due" /\ jobs'[j] = "sending" /\ copies' = copies
         \/ /\ jobs[j] = "sending" /\ jobs'[j] \in {"ok", "failed", "dead"}
            /\ \/ copies' = [copies EXCEPT ![<<current, j>>] = @ + 1]
               \/ copies' = copies /\ jobs'[j] # "ok"
  <2>1. CASE SendPush(j)
    BY <2>1 DEF SendPush, IInv, TypeOK, Stage
  <2>2. CASE Answer(j)
    <3>1. PICK o \in Outcomes(j) :
            /\ jobs' = [jobs EXCEPT ![j] = o.stage]
            /\ IF o.taken THEN Took(j) ELSE UNCHANGED copies
      BY <2>2 DEF Answer
    <3>2. o.stage \in {"ok", "failed", "dead"} /\ (o.stage = "ok" => o.taken)
      <4>1. j.channel \in {"telegram", "push", "email"}
        BY JobChannels DEF Channel
      <4>2. o \in {Outcome("dead", FALSE), Outcome("failed", FALSE), Outcome("ok", TRUE), Outcome("failed", TRUE)}
        BY <4>1 DEF Outcomes, TelegramOutcomes, PushOutcomes, EmailOutcomes, Lost
      <4> QED
        BY <4>2 DEF Outcome
    <3> QED
      BY <2>2, <3>1, <3>2 DEF Answer, Took, IInv, TypeOK, Stage
  <2> QED
    BY <2>1, <2>2
<1>2. current \in Alert /\ current \notin fresh \cup rows
  BY <1>1 DEF IInv, TypeOK, InTurn, Idle
<1>3. /\ copies' \in [Alert \X Job -> Nat]
      /\ \A aj \in Alert \X Job : aj # <<current, j>> => copies'[aj] = copies[aj]
      /\ \A aj \in Alert \X Job : copies'[aj] >= copies[aj]
  BY <1>1, <1>2 DEF IInv, TypeOK
<1>4. TypeOK'
  BY <1>1, <1>3 DEF IInv, TypeOK, world, batch
<1>5. InTurn'
  BY <1>1, <1>2, DeliveryAssumption DEF IInv, TypeOK, InTurn, batch
<1>6. copies[<<current, j>>] = 0 /\ copies'[<<current, j>>] <= 1
      /\ (jobs'[j] = "ok" => copies'[<<current, j>>] >= 1)
      /\ (jobs'[j] = "sending" => copies'[<<current, j>>] = 0)
  BY <1>1, <1>2 DEF IInv, TypeOK, TakenInTurn
<1>7. TakenInTurn'
  <2>1. ASSUME NEW a \in (fresh \cup rows)', NEW k \in Job
        PROVE  copies'[<<a, k>>] = 0
    BY <1>1, <1>2, <1>3 DEF IInv, TypeOK, TakenInTurn, batch
  <2>2. ASSUME NEW k \in Job
        PROVE  /\ jobs'[k] \in {"due", "sending"} => copies'[<<current', k>>] = 0
               /\ jobs'[k] = "ok" => copies'[<<current', k>>] >= 1
    <3>1. CASE k = j
      BY <1>1, <1>6, <3>1 DEF batch
    <3>2. CASE k # j
      BY <1>1, <1>2, <1>3, <3>2 DEF IInv, TakenInTurn, batch
    <3> QED
      BY <3>1, <3>2
  <2> QED
    BY <2>1, <2>2 DEF TakenInTurn
<1>8. AtMostOnce'
  BY <1>3, <1>6 DEF IInv, AtMostOnce
<1>9. SentMeansTaken'
  <2> SUFFICES ASSUME NEW d \in deliveries, d.status = "sent"
               PROVE  \E k \in Job : k.channel = d.channel /\ copies'[<<d.alert, k>>] >= 1
    BY <1>1 DEF SentMeansTaken
  <2>1. PICK k \in Job : k.channel = d.channel /\ copies[<<d.alert, k>>] >= 1
    BY DEF IInv, SentMeansTaken
  <2>2. <<d.alert, k>> \in Alert \X Job
    BY DEF IInv, TypeOK
  <2>3. copies'[<<d.alert, k>>] >= copies[<<d.alert, k>>]
    BY <1>3, <2>2
  <2>4. copies'[<<d.alert, k>>] \in Nat /\ copies[<<d.alert, k>>] \in Nat
    BY <1>3, <2>2 DEF IInv, TypeOK
  <2> QED
    BY <2>1, <2>3, <2>4
<1>10. OwedInTurn'
  <2>1. \A o \in owed : \A k \in Wanted(o.alert, snapshot) : k \in Wanted(o.alert, snapshot)'
    BY <1>1 DEF Wanted, world, batch
  <2>2. \A o \in owed : Attempting(o) => Attempting(o)'
    BY <1>1 DEF Attempting, batch
  <2> QED
    BY <1>1, <2>1, <2>2 DEF IInv, OwedInTurn, Recorded, batch
<1> QED
  BY <1>4, <1>5, <1>7, <1>8, <1>9, <1>10 DEF IInv

\* What a channel did is recorded, as it was or as failed.
LEMMA RecordKeeps ==
  ASSUME IInv, NEW j \in Job, Record(j) \/ Rescue(j)
  PROVE  IInv'
<1>1. PICK status \in {"sent", "failed", "skipped"} :
        /\ deliveries' = deliveries \cup {[alert |-> current, channel |-> j.channel, status |-> status]}
        /\ status = "sent" => jobs[j] = "ok"
  BY DEF Record, Rescue, Ledger, Status
<1>2. /\ jobs[j] # "idle"
      /\ \E stage \in {"cleanup", "idle"} : jobs' = [jobs EXCEPT ![j] = stage]
      /\ UNCHANGED <<world, batch, copies, failures>>
  BY DEF Record, Rescue
<1>3. current \in Alert
  BY <1>2 DEF IInv, TypeOK, InTurn, Idle
<1>4. TypeOK'
  BY <1>1, <1>2, <1>3, JobChannels DEF IInv, TypeOK, Stage, world, batch
<1>5. InTurn'
  BY <1>2, <1>3, DeliveryAssumption DEF IInv, TypeOK, InTurn, batch
<1>6. TakenInTurn' /\ AtMostOnce'
  BY <1>2 DEF IInv, TypeOK, TakenInTurn, AtMostOnce, batch
<1>7. SentMeansTaken'
  <2> SUFFICES ASSUME NEW d \in deliveries', d.status = "sent"
               PROVE  \E k \in Job : k.channel = d.channel /\ copies[<<d.alert, k>>] >= 1
    BY <1>2 DEF SentMeansTaken
  <2>1. CASE d \in deliveries
    BY <2>1 DEF IInv, SentMeansTaken
  <2>2. CASE d = [alert |-> current, channel |-> j.channel, status |-> status]
    BY <1>1, <2>2 DEF IInv, TakenInTurn
  <2> QED
    BY <1>1, <2>1, <2>2
<1>8. OwedInTurn'
  <2>1. \A o \in owed : \A k \in Wanted(o.alert, snapshot) : k \in Wanted(o.alert, snapshot)'
    BY <1>2 DEF Wanted, world, batch
  <2>2. \A o \in owed : Recorded(o) => Recorded(o)'
    BY <1>1 DEF Recorded
  <2>3. ASSUME NEW o \in owed, Attempting(o)
        PROVE  Attempting(o)' \/ Recorded(o)'
    <3>1. PICK k \in Job : k.channel = o.channel /\ jobs[k] \in {"sending", "ok", "failed", "dead", "skipped"}
      BY <2>3 DEF Attempting
    <3>2. CASE k = j
      <4> DEFINE r == [alert |-> current, channel |-> j.channel, status |-> status]
      <4>1. r \in deliveries' /\ r.alert = o.alert /\ r.channel = o.channel
        BY <1>1, <2>3, <3>1, <3>2 DEF Attempting
      <4> HIDE DEF r
      <4> QED
        BY <4>1 DEF Recorded
    <3>3. CASE k # j
      BY <1>2, <2>3, <3>1, <3>3 DEF Attempting, IInv, TypeOK, batch
    <3> QED
      BY <3>2, <3>3
  <2> QED
    BY <1>2, <2>1, <2>2, <2>3 DEF IInv, OwedInTurn, batch
<1> QED
  BY <1>4, <1>5, <1>6, <1>7, <1>8 DEF IInv

\* A dead link is dropped: of the user as it is now, not as the snapshot has it.
LEMMA CleanupKeeps ==
  ASSUME IInv, NEW j \in Job, Cleanup(j)
  PROVE  IInv'
<1>1. /\ jobs[j] = "cleanup" /\ jobs' = [jobs EXCEPT ![j] = "idle"]
      /\ user' \in [chat : Chat \cup {NoChat}, channels : SUBSET Channel]
      /\ subs' \subseteq Endpoint
      /\ UNCHANGED <<dead, changes, batch, copies, deliveries, failures>>
  BY DEF Cleanup, UnlinkBlocked, DeleteGone, IInv, TypeOK
<1>2. TypeOK'
  BY <1>1 DEF IInv, TypeOK, Stage, batch
<1>3. InTurn'
  BY <1>1 DEF IInv, TypeOK, InTurn, Idle, batch
<1>4. TakenInTurn' /\ AtMostOnce' /\ SentMeansTaken'
  BY <1>1 DEF IInv, TypeOK, TakenInTurn, AtMostOnce, SentMeansTaken, batch
<1>5. OwedInTurn'
  <2>1. ASSUME NEW o \in owed, NEW k \in Wanted(o.alert, snapshot), k.channel = o.channel
        PROVE  k \in Wanted(o.alert, snapshot)'
    <3>1. o.channel \in {"telegram", "email"}
      BY DEF IInv, TypeOK
    <3> QED
      BY <1>1, <2>1, <3>1 DEF Wanted, batch
  <2>2. \A o \in owed : Attempting(o) => Attempting(o)'
    BY <1>1 DEF Attempting, IInv, TypeOK, batch
  <2> QED
    BY <1>1, <2>1, <2>2 DEF IInv, OwedInTurn, Recorded, batch
<1> QED
  BY <1>2, <1>3, <1>4, <1>5 DEF IInv

\* Whatever fails, the process goes on with less to do.
LEMMA FailureKeeps ==
  ASSUME IInv, (\E j \in Job : QueryFails(j)) \/ Crash
  PROVE  IInv'
<1>1. failures' \in Nat /\ failures' # 0
  BY DEF QueryFails, Crash, IInv, TypeOK
<1>2. CASE \E j \in Job : QueryFails(j)
  <2>1. PICK j \in Job : QueryFails(j)
    BY <1>2
  <2>2. current # Nothing
    BY <2>1 DEF QueryFails, IInv, InTurn, Idle
  <2>3. /\ jobs' \in [Job -> Stage]
        /\ \A k \in Job : jobs'[k] = jobs[k] \/ jobs'[k] \in {"idle", "rescue"}
        /\ rows' = rows \/ rows' = {}
        /\ UNCHANGED <<world, fresh, snapshot, current, owed, copies, deliveries>>
    BY <2>1 DEF QueryFails, IInv, TypeOK, Stage
  <2> QED
    BY <1>1, <2>2, <2>3, StagesKeep
<1>3. CASE Crash
  <2>1. /\ rows' = {} /\ current' = Nothing /\ jobs' = [j \in Job |-> "idle"]
        /\ UNCHANGED <<world, fresh, snapshot, owed, copies, deliveries>>
    BY <1>3 DEF Crash
  <2>2. TypeOK' /\ InTurn'
    BY <1>1, <2>1, DeliveryAssumption DEF IInv, TypeOK, Stage, InTurn, Idle, world
  <2>3. TakenInTurn' /\ AtMostOnce' /\ SentMeansTaken'
    BY <2>1 DEF IInv, TakenInTurn, AtMostOnce, SentMeansTaken
  <2>4. OwedInTurn'
    BY <1>1, <2>1 DEF IInv, OwedInTurn
  <2> QED
    BY <2>2, <2>3, <2>4 DEF IInv
<1> QED
  BY <1>2, <1>3

LEMMA DeliveredKeeps ==
  ASSUME IInv, Delivered
  PROVE  IInv'
<1>1. /\ current # Nothing /\ Idle /\ current' = Nothing
      /\ UNCHANGED <<world, fresh, snapshot, rows, owed, jobs, copies, deliveries, failures>>
  BY DEF Delivered
<1>2. TypeOK' /\ InTurn'
  BY <1>1, DeliveryAssumption DEF IInv, TypeOK, InTurn, Idle, world
<1>3. TakenInTurn' /\ AtMostOnce' /\ SentMeansTaken'
  BY <1>1 DEF IInv, TakenInTurn, Idle, AtMostOnce, SentMeansTaken
<1>4. \A o \in owed : \A k \in Wanted(o.alert, snapshot) : k \in Wanted(o.alert, snapshot)'
  BY <1>1 DEF Wanted, world
<1>5. \A o \in owed : ~Attempting(o)
  BY <1>1 DEF Attempting, Idle
<1>6. OwedInTurn'
  BY <1>1, <1>4, <1>5 DEF IInv, OwedInTurn, Recorded
<1> QED
  BY <1>2, <1>3, <1>6 DEF IInv

\* What the user, the services and the other requests do meanwhile.
LEMMA MeanwhileKeeps ==
  ASSUME IInv,
         \/ \E c \in Chat : Link(c)
         \/ Unlink
         \/ \E S \in SUBSET Channel : SetChannels(S)
         \/ \E e \in Endpoint : Subscribe(e)
         \/ \E target \in Chat \cup Endpoint : Die(target)
  PROVE  IInv'
<1>1. /\ user' \in [chat : Chat \cup {NoChat}, channels : SUBSET Channel]
      /\ subs' \subseteq Endpoint /\ dead' \subseteq Chat \cup Endpoint /\ changes' \in Nat
  BY DEF IInv, TypeOK, Link, Unlink, SetChannels, Subscribe, Die, Meanwhile
<1>2. UNCHANGED <<batch, jobs, copies, deliveries, failures>>
  BY DEF Link, Unlink, SetChannels, Subscribe, Die, Meanwhile
<1> QED
  BY <1>1, <1>2, WorldKeeps

\* The inductive invariant of Delivery: an alert has its turn once, and what was taken and
\* recorded of it was taken and recorded then.
THEOREM Invariance == Spec => []IInv
<1>1. IInv /\ [Next]_vars => IInv'
  <2> SUFFICES ASSUME IInv, [Next]_vars
               PROVE  IInv'
    OBVIOUS
  <2>1. CASE \E new \in SUBSET fresh : Store(new)
    BY <2>1, StoreKeeps
  <2>2. CASE \E a \in rows : Deliver(a) \/ DeliverWithoutPush(a)
    BY <2>2, DeliverKeeps
  <2>3. CASE \E j \in Job : SendPush(j) \/ Answer(j)
    BY <2>3, AskKeeps
  <2>4. CASE \E j \in Job : Record(j) \/ Rescue(j)
    BY <2>4, RecordKeeps
  <2>5. CASE \E j \in Job : Cleanup(j)
    BY <2>5, CleanupKeeps
  <2>6. CASE (\E j \in Job : QueryFails(j)) \/ Crash
    BY <2>6, FailureKeeps
  <2>7. CASE Delivered
    BY <2>7, DeliveredKeeps
  <2>8. CASE UNCHANGED vars
    <3>1. UNCHANGED <<batch, jobs, copies, deliveries, failures, user, subs, dead, changes>>
      BY <2>8 DEF vars, batch
    <3> QED
      BY <3>1, WorldKeeps DEF IInv, TypeOK
  <2> QED
    BY <2>1, <2>2, <2>3, <2>4, <2>5, <2>6, <2>7, <2>8, MeanwhileKeeps DEF Next, Work
<1> QED
  BY <1>1, StartsRight, PTL DEF Spec

\* No target gets an alert twice, whatever answers get lost, queries fail and processes
\* die (delivery/index.ts:15-108).
THEOREM NoDuplicates == Spec => []AtMostOnce
BY Invariance, PTL DEF IInv

\* What the ledger calls sent was taken by its service (delivery/index.ts:41-108).
THEOREM HonestLedger == Spec => []SentMeansTaken
BY Invariance, PTL DEF IInv

\* Without failed queries and crashes, no channel that was asked for is left out of a
\* batch that has ended, whatever the other channels and services do
\* (delivery/index.ts:24-108).
THEOREM EveryChannel == Spec => []EveryRowAttempted
<1>1. IInv => EveryRowAttempted
  BY DEF IInv, InTurn, Idle, OwedInTurn, Attempting, Recorded, EveryRowAttempted
<1> QED
  BY <1>1, Invariance, PTL

-----------------------------------------------------------------------------
(* The daily email: Digest *)

(* Arithmetic of days and of ticks *)

LEMMA DivMod ==
  ASSUME NEW t \in Int, NEW D \in Nat \ {0}
  PROVE  /\ t \div D \in Int /\ t % D \in 0..(D - 1)
         /\ t = (t \div D) * D + (t % D)
         /\ t >= 0 => t \div D >= 0
<1>1. t % D \in 0..(D - 1) /\ t \div D \in Int
  BY Z3
<1>2. t = D * (t \div D) + (t % D)
  BY Z3
<1>3. t >= 0 => t \div D >= 0
  BY Z3
<1>. QED
  BY <1>1, <1>2, <1>3

LEMMA Unique ==
  ASSUME NEW D \in Nat \ {0}, NEW x \in Int, NEW q \in Int, NEW r \in 0..(D - 1), x = q * D + r
  PROVE  x \div D = q /\ x % D = r
<1>1. x = D * q + r
  OBVIOUS
<1>2. (D * q + r) \div D = q /\ (D * q + r) % D = r
  BY SMT
<1>. QED
  BY <1>1, <1>2

\* Later times are of the same day or of a later one.
LEMMA Later ==
  ASSUME NEW s \in Int, NEW t \in Int, NEW D \in Nat \ {0}, s <= t
  PROVE  s \div D <= t \div D
<1>1. s = (s \div D) * D + (s % D) /\ s % D \in 0..(D - 1) /\ s \div D \in Int
  BY DivMod
<1>2. t = (t \div D) * D + (t % D) /\ t % D \in 0..(D - 1) /\ t \div D \in Int
  BY DivMod
<1>. DEFINE m == s \div D
            n == t \div D
<1>3. SUFFICES ASSUME n + 1 <= m PROVE FALSE
  BY <1>1, <1>2
<1>4. (n + 1) * D <= m * D
  <2>. HIDE DEF m, n
  <2>. QED
    BY <1>1, <1>2, <1>3 DEF m, n
<1>5. (n + 1) * D = n * D + D
  BY <1>2
<1>. QED
  BY <1>1, <1>2, <1>4, <1>5

\* Multiples of D leave a remainder alone.
LEMMA Shift ==
  ASSUME NEW D \in Nat \ {0}, NEW x \in Int, NEW t \in Int, NEW k \in Int, x = k * D + t
  PROVE  x % D = t % D
<1>. DEFINE q == t \div D
            r == t % D
<1>1. t = q * D + r /\ r \in 0..(D - 1) /\ q \in Int
  BY DivMod
<1>. HIDE DEF q, r
<1>2. x = (k + q) * D + r
  BY <1>1
<1>3. x % D = r
  BY <1>1, <1>2, Unique
<1>. QED
  BY <1>3 DEF r

\* Days follow one another.
LEMMA Days ==
  /\ \A t \in Nat : DayOf(t) \in Nat
  /\ \A s, t \in Nat : s <= t => DayOf(s) <= DayOf(t)
  /\ \A t, d \in Nat, r \in 0..(Day - 1) : t = d * Day + r => DayOf(t) = d /\ t % Day = r
<1>1. Day \in Nat \ {0}
  BY DigestAssumption
<1>2. \A t \in Nat : DayOf(t) \in Nat
  BY <1>1, DivMod DEF DayOf
<1>3. ASSUME NEW s \in Nat, NEW t \in Nat, s <= t PROVE DayOf(s) <= DayOf(t)
  BY <1>1, <1>3, Later DEF DayOf
<1>4. ASSUME NEW t \in Nat, NEW d \in Nat, NEW r \in 0..(Day - 1), t = d * Day + r
      PROVE  DayOf(t) = d /\ t % Day = r
  BY <1>1, <1>4, Unique DEF DayOf
<1>. QED
  BY <1>2, <1>3, <1>4

\* What is smaller than D is its own remainder.
LEMMA Small ==
  ASSUME NEW D \in Nat \ {0}, NEW r \in 0..(D - 1)
  PROVE  r % D = r /\ r \div D = 0
<1>1. r = 0 * D + r
  OBVIOUS
<1>. QED
  BY <1>1, Unique

LEMMA Whole ==
  ASSUME NEW D \in Nat \ {0}
  PROVE  D % D = 0
<1>1. D = 1 * D + 0 /\ 0 \in 0..(D - 1)
  OBVIOUS
<1>. QED
  BY <1>1, Unique

\* Counting modulo D.
LEMMA Successor ==
  ASSUME NEW D \in Nat \ {0}, NEW t \in 0..(D - 1)
  PROVE  (t + 1) % D = IF t + 1 = D THEN 0 ELSE t + 1
<1>1. CASE t + 1 = D
  BY <1>1, Whole
<1>2. CASE t + 1 # D
  <2>1. t + 1 \in 0..(D - 1)
    BY <1>2
  <2>. QED
    BY <1>2, <2>1, Small
<1>. QED
  BY <1>1, <1>2

\* Whole days do not shift the ticks on which the digests run.
LEMMA DaysKeepTicks ==
  ASSUME NEW d \in Int, NEW t \in Int, NEW x \in Int, x = d * Day + t
  PROVE  x % Every = t % Every
<1>. DEFINE k == Day \div Every
<1>1. Day = k * Every + 0 /\ k \in Int /\ Every \in Nat \ {0}
  BY DivMod, DigestAssumption
<1>. HIDE DEF k
<1>2. d * Day = (d * k) * Every /\ d * k \in Int
  BY <1>1, DigestAssumption
<1>. DEFINE dk == d * k
<1>3. x = dk * Every + t /\ dk \in Int
  BY <1>2
<1>. HIDE DEF dk
<1>. QED
  BY <1>1, <1>3, Shift

\* The slot is a minute of the first Every of a day.
LEMMA SlotType ==
  ASSUME DigestTypeOK
  PROVE  Slot \in 0..(Every - 1)
  BY DivMod, DigestAssumption DEF Slot, DigestTypeOK

\* The counter moves with the clock ...
LEMMA SlotStays ==
  ASSUME DigestTypeOK, now' = now + 1, tickCount' = (tickCount + 1) % Every
  PROVE  Slot' = Slot
<1>. DEFINE x == now + 1 + Every - tickCount
            y == now' + 1 + Every - tickCount'
<1>1. now \in Int /\ tickCount \in 0..(Every - 1) /\ Every \in Nat \ {0}
  BY DigestAssumption DEF DigestTypeOK
<1>2. tickCount' = IF tickCount + 1 = Every THEN 0 ELSE tickCount + 1
  BY <1>1, Successor
<1>3. x \in Int /\ y \in Int /\ (y = x \/ y = 1 * Every + x)
  BY <1>1, <1>2
<1>. HIDE DEF x, y
<1>4. y = 1 * Every + x => y % Every = x % Every
  BY <1>1, <1>3, 1 \in Int, Shift
<1>5. y % Every = x % Every
  BY <1>3, <1>4
<1>. QED
  BY <1>5 DEF Slot, x, y

\* ... so that the slot is now exactly if the tick is the one that runs the digests.
LEMMA SlotIsNow ==
  ASSUME DigestTypeOK, tickCount = (tick + 1) % Every
  PROVE  now % Every = Slot <=> tick = 0
<1>. DEFINE x == now + 1 + Every - tickCount
            q == now \div Every
            r == now % Every
<1>1. now \in Int /\ tick \in 0..(Every - 1) /\ tickCount \in 0..(Every - 1) /\ Every \in Nat \ {0}
  BY DigestAssumption DEF DigestTypeOK
<1>2. now = q * Every + r /\ r \in 0..(Every - 1) /\ q \in Int
  BY <1>1, DivMod
<1>3. tickCount = IF tick + 1 = Every THEN 0 ELSE tick + 1
  BY <1>1, Successor
<1>. HIDE DEF q, r
<1>4. /\ (q + 1) * Every = q * Every + Every /\ (q + 2) * Every = q * Every + Every + Every
      /\ q * Every \in Int
  BY <1>1, <1>2
<1>5. x = (q + 1) * Every + (r - tick) \/ x = (q + 2) * Every + (r - tick)
  BY <1>1, <1>2, <1>3, <1>4
<1>6. \E n \in Int : x = n * Every + (IF r >= tick THEN r - tick ELSE r - tick + Every)
  <2>1. CASE r >= tick
    BY <1>2, <1>5, <2>1
  <2>2. CASE r < tick
    <3>1. x = q * Every + (r - tick + Every) \/ x = (q + 1) * Every + (r - tick + Every)
      BY <1>1, <1>2, <1>4, <1>5
    <3>2. q + 1 \in Int
      BY <1>2
    <3>3. (IF r >= tick THEN r - tick ELSE r - tick + Every) = r - tick + Every
      BY <1>1, <1>2, <2>2
    <3>. HIDE DEF x
    <3>. QED
      BY <1>2, <3>1, <3>2, <3>3
  <2>. QED
    BY <1>1, <1>2, <2>1, <2>2
<1>7. PICK n \in Int : x = n * Every + (IF r >= tick THEN r - tick ELSE r - tick + Every)
  BY <1>6
<1>. DEFINE s == IF r >= tick THEN r - tick ELSE r - tick + Every
<1>8. s \in 0..(Every - 1) /\ (s = r <=> tick = 0) /\ x \in Int
  BY <1>1, <1>2
<1>9. x % Every = s
  <2>. HIDE DEF s, x
  <2>. QED
    BY <1>1, <1>7, <1>8, Unique DEF s
<1>. QED
  BY <1>8, <1>9 DEF Slot, r
-----------------------------------------------------------------------------
(* The inductive invariant, part by part *)

LEMMA DigestStarts == DigestInit => DigestIInv
<1>. SUFFICES ASSUME DigestInit PROVE DigestIInv
  OBVIOUS
<1>1. Every \in Nat \ {0} /\ Day \in Nat \ {0} /\ MaxNow \in Nat /\ Hour \in 1..Day /\ Every \in 1..Hour
  BY DigestAssumption
<1>2. DigestTypeOK
  BY <1>1 DEF DigestInit, DigestTypeOK, Evaluating
<1>3. MailsCounted
  BY <1>1 DEF DigestInit, MailsCounted, Booked
<1>4. DigestsCounted
  BY <1>1, <1>2 DEF DigestInit, DigestsCounted
<1>5. Everyday
  BY DEF DigestInit, Everyday, OnTime, SlotsSeen, SlotSeen
<1>. QED
  BY <1>2, <1>3, <1>4, <1>5 DEF DigestIInv

LEMMA DigestTypes ==
  ASSUME DigestTypeOK, DigestNext
  PROVE  DigestTypeOK'
<1>. USE DEF DigestNext, Minute, Paused, Evaluate, AnswerCritical, RecordCritical, RunDigests, AnswerMail, RecordMailed, Close, Restart,
             GiveUp, Told, Polled, Lose, Delay
<1>1. Every \in Nat \ {0} /\ Day \in Nat \ {0} /\ MaxNow \in Nat /\ now \in 0..MaxNow
  BY DigestAssumption DEF DigestTypeOK
<1>2. now' \in {now, now + 1} /\ now' \in 0..MaxNow
  BY <1>1
<1>3. tickCount' \in 0..(Every - 1)
  <2>1. tickCount \in 0..(Every - 1) /\ tickCount + 1 \in Int
    BY DEF DigestTypeOK
  <2>2. (tickCount + 1) % Every \in 0..(Every - 1)
    BY <1>1, <2>1, DivMod
  <2>. QED
    BY <1>1, <2>1, <2>2
<1>4. tick' \in 0..(Every - 1)
  BY <1>1 DEF DigestTypeOK
<1>5. phase' \in Evaluating \cup {"idle", "digest", "mailing", "recording", "closing"}
  BY DEF DigestTypeOK, Evaluating
<1>6. alerts' \subseteq 0..now'
  <2>1. alerts \subseteq 0..now /\ now \in 0..now /\ (alerts' = alerts \/ alerts' = alerts \cup {now})
    BY <1>1 DEF DigestTypeOK
  <2>. QED
    BY <1>1, <1>2, <2>1
<1>7. recorded' \subseteq alerts'
  BY DEF DigestTypeOK
<1>8. pending' \subseteq alerts'
  BY DEF DigestTypeOK, Pending
<1>9. lastDigestAt' \in {Never} \cup 0..now'
  <2>1. lastDigestAt \in {Never} \cup 0..now /\ lastDigestAt' \in {lastDigestAt, now}
    BY DEF DigestTypeOK
  <2>. QED
    BY <1>1, <1>2, <2>1
<1>10. mails' \in [0..MaxNow -> Nat]
  <2>1. mails' = mails \/ \E S \in SUBSET Nat : Mailed(S)
    BY <1>1 DEF DigestTypeOK
  <2>. QED
    BY <2>1 DEF Mailed, DigestTypeOK
<1>11. (digests \in [0..DayOf(MaxNow) -> Nat])'
  <2>1. digests' = digests \/ digests' = [digests EXCEPT ![DayOf(now)] = @ + 1]
    OBVIOUS
  <2>. HIDE DEF DigestNext, Minute, Paused, Evaluate, RunDigests, AnswerMail, RecordMailed, Close, Restart
  <2>2. digests' \in [0..DayOf(MaxNow) -> Nat]
    BY <2>1 DEF DigestTypeOK
  <2>. QED
    BY <2>2 DEF DayOf
<1>12. delays' \in Nat /\ losses' \in Nat
  BY DEF DigestTypeOK
<1>. QED
  BY <1>2, <1>3, <1>4, <1>5, <1>6, <1>7, <1>8, <1>9, <1>10, <1>11, <1>12 DEF DigestTypeOK

\* The minute is not the time of an alert before it has come.
LEMMA DigestMails ==
  ASSUME DigestTypeOK, MailsCounted, DigestNext
  PROVE  MailsCounted'
<1>1. losses \in Nat /\ now \in Nat /\ alerts \subseteq 0..now /\ recorded \subseteq alerts /\ pending \subseteq alerts
  BY DEF DigestTypeOK
<1>2. DOMAIN mails = 0..MaxNow /\ \A t \in 0..MaxNow : mails[t] \in Nat
  BY DEF DigestTypeOK
<1>3. CASE Minute
  <2>1. now' \notin alerts
    BY <1>1, <1>3 DEF Minute
  <2>2. Booked' = Booked
    BY <1>3 DEF Minute, Booked
  <2>. QED
    BY <1>3, <2>1, <2>2 DEF Minute, MailsCounted
<1>4. CASE Paused
  BY <1>4 DEF Paused, MailsCounted, Booked
<1>5. CASE Evaluate
  <2>1. /\ phase = "polling" /\ pending = {} /\ now \notin alerts /\ now \notin recorded
        /\ \/ phase' \in {"digest", "idle"} /\ pending' = {}
           \/ phase' = "telling" /\ pending' = {now}
        /\ alerts \subseteq alerts' /\ UNCHANGED <<recorded, mails, losses>>
    BY <1>1, <1>5 DEF Evaluate, Polled, MailsCounted
  <2>2. Booked = recorded /\ Booked' = recorded
    BY <2>1 DEF Booked
  <2>. QED
    BY <2>1, <2>2 DEF MailsCounted
<1>12. CASE AnswerCritical
  <2>1. /\ phase = "telling" /\ Booked = recorded /\ pending \cap recorded = {}
        /\ alerts' = alerts /\ recorded' = recorded
    BY <1>12 DEF AnswerCritical, MailsCounted, Booked
  <2>2. CASE Told /\ UNCHANGED <<mails, losses>>
    <3>1. Booked' = recorded /\ pending' = {} /\ phase' \in {"digest", "idle"}
      BY <2>1, <2>2 DEF Told, Polled, Booked
    <3>. QED
      BY <2>1, <2>2, <3>1 DEF MailsCounted
  <2>3. CASE Mailed(pending) /\ ((Told /\ Lose) \/ (phase' = "noting" /\ UNCHANGED <<pending, losses>>))
    <3>1. \A t \in 0..MaxNow : mails'[t] = IF t \in pending THEN mails[t] + 1 ELSE mails[t]
      BY <1>2, <2>3 DEF Mailed
    <3>2. \A t \in 0..MaxNow : t \notin alerts' => mails'[t] = 0
      BY <1>1, <2>1, <3>1 DEF MailsCounted
    <3>3. CASE Told /\ Lose
      <4>1. Booked' = recorded /\ pending' = {} /\ losses' = losses + 1 /\ phase' \in {"digest", "idle"}
        BY <2>1, <3>3 DEF Told, Polled, Lose, Booked
      <4>. QED
        BY <1>1, <1>2, <2>1, <3>1, <3>2, <4>1 DEF MailsCounted
    <3>4. CASE phase' = "noting" /\ UNCHANGED <<pending, losses>>
      <4>1. Booked' = recorded \cup pending
        BY <2>1, <3>4 DEF Booked
      <4>. QED
        BY <1>1, <1>2, <2>1, <3>1, <3>2, <3>4, <4>1 DEF MailsCounted
    <3>. QED
      BY <2>3, <3>3, <3>4
  <2>. QED
    BY <1>12, <2>2, <2>3 DEF AnswerCritical
<1>13. CASE RecordCritical
  <2>1. /\ phase = "noting" /\ Booked = recorded \cup pending /\ phase' \in {"digest", "idle"}
        /\ pending' = {} /\ UNCHANGED <<alerts, mails>>
        /\ \/ recorded' = recorded \cup pending /\ losses' = losses
           \/ recorded' = recorded /\ losses' = losses + 1
    BY <1>13 DEF RecordCritical, Told, Polled, Lose, Booked
  <2>2. Booked' = recorded'
    BY <2>1 DEF Booked
  <2>. QED
    BY <1>1, <1>2, <2>1, <2>2 DEF MailsCounted
<1>6. CASE RunDigests
  BY <1>6 DEF RunDigests, Pending, MailsCounted, Booked
<1>7. CASE AnswerMail
  <2>1. phase = "mailing" /\ Booked = recorded /\ pending \cap recorded = {} /\ alerts' = alerts /\ recorded' = recorded
    BY <1>7 DEF AnswerMail, MailsCounted, Booked
  <2>2. CASE mails' = mails /\ GiveUp
    BY <1>1, <1>2, <2>1, <2>2 DEF MailsCounted, GiveUp, Lose, Booked
  <2>3. CASE Mailed(pending) /\ (GiveUp \/ (phase' = "recording" /\ UNCHANGED <<pending, losses>>))
    <3>1. \A t \in 0..MaxNow : mails'[t] = IF t \in pending THEN mails[t] + 1 ELSE mails[t]
      BY <1>2, <2>3 DEF Mailed
    <3>2. \A t \in 0..MaxNow : t \notin alerts' => mails'[t] = 0
      BY <1>1, <2>1, <3>1 DEF MailsCounted
    <3>3. CASE GiveUp
      <4>1. Booked' = recorded /\ pending' = {} /\ losses' = losses + 1 /\ phase' = "idle"
        BY <2>1, <3>3 DEF GiveUp, Lose, Booked
      <4>. QED
        BY <1>1, <1>2, <2>1, <3>1, <3>2, <4>1 DEF MailsCounted
    <3>4. CASE phase' = "recording" /\ UNCHANGED <<pending, losses>>
      <4>1. Booked' = recorded \cup pending
        BY <2>1, <3>4 DEF Booked
      <4>. QED
        BY <1>1, <1>2, <2>1, <3>1, <3>2, <3>4, <4>1 DEF MailsCounted
    <3>. QED
      BY <2>3, <3>3, <3>4
  <2>. QED
    BY <1>7, <2>2, <2>3 DEF AnswerMail
<1>8. CASE RecordMailed
  <2>1. phase = "recording" /\ Booked = recorded \cup pending /\ pending \cap recorded = {} /\ alerts' = alerts /\ mails' = mails
    BY <1>8 DEF RecordMailed, MailsCounted, Booked
  <2>2. CASE GiveUp /\ recorded' = recorded
    <3>1. Booked' = recorded /\ pending' = {} /\ losses' = losses + 1 /\ phase' = "idle"
      BY <2>2 DEF GiveUp, Lose, Booked
    <3>. QED
      BY <1>1, <1>2, <2>1, <3>1 DEF MailsCounted
  <2>3. ASSUME NEW a \in pending, recorded' = recorded \cup {a}, pending' = pending \ {a}, losses' = losses,
               phase' = IF pending = {a} THEN "closing" ELSE "recording"
        PROVE  MailsCounted'
    <3>1. Booked' = Booked
      BY <2>1, <2>3 DEF Booked
    <3>2. pending' \cap recorded' = {} /\ (phase' = "closing" => pending' = {}) /\ phase' \in {"closing", "recording"}
      BY <2>1, <2>3
    <3>. QED
      BY <2>1, <2>3, <3>1, <3>2 DEF MailsCounted
  <2>. QED
    BY <1>8, <2>2, <2>3 DEF RecordMailed
<1>9. CASE Close
  <2>1. /\ Booked' = recorded /\ Booked = recorded /\ pending' = {} /\ phase' = "idle"
        /\ losses' \in {losses, losses + 1} /\ alerts' = alerts /\ mails' = mails
    BY <1>9 DEF Close, GiveUp, Lose, Booked, MailsCounted
  <2>. QED
    BY <1>1, <1>2, <2>1 DEF MailsCounted
<1>10. CASE Restart
  <2>1. Booked' = recorded /\ recorded \subseteq Booked /\ pending' = {} /\ losses' = losses + 1 /\ phase' = "idle" /\ alerts' = alerts /\ mails' = mails
    BY <1>10 DEF Restart, GiveUp, Lose, Booked
  <2>. QED
    BY <1>1, <1>2, <2>1 DEF MailsCounted
<1>. QED
  BY <1>3, <1>4, <1>5, <1>6, <1>7, <1>8, <1>9, <1>10, <1>12, <1>13 DEF DigestNext

LEMMA DigestDays ==
  ASSUME DigestTypeOK, DigestsCounted, DigestNext
  PROVE  DigestsCounted'
<1>1. losses \in Nat /\ now \in 0..MaxNow /\ lastDigestAt \in Int /\ Day \in Nat \ {0} /\ MaxNow \in Nat
  BY DigestAssumption DEF DigestTypeOK, Never
<1>2. DOMAIN digests = 0..DayOf(MaxNow) /\ \A d \in 0..DayOf(MaxNow) : digests[d] \in Nat
  BY DEF DigestTypeOK
<1>3. DayOf(now) \in Nat /\ DayOf(MaxNow) \in Nat /\ DayOf(now) <= DayOf(MaxNow)
  BY <1>1, DivMod, Later DEF DayOf
<1>4. CASE Minute
  <2>1. now' = now + 1 /\ digests' = digests /\ losses' = losses /\ lastDigestAt' = lastDigestAt
        /\ (phase' = phase \/ (phase = "idle" /\ phase' = "polling"))
    BY <1>4 DEF Minute
  <2>2. DayOf(now') \in Nat /\ DayOf(now) <= DayOf(now')
    BY <1>1, <2>1, DivMod, Later DEF DayOf
  <2>3. ASSUME NEW d \in DOMAIN digests, d = DayOf(now'), ToCome'
        PROVE  digests[d] <= losses
    <3>1. CASE DayOf(now') = DayOf(now)
      <4>1. ToCome
        BY <2>1, <2>3, <3>1 DEF ToCome, Evaluating, DayOf
      <4>. QED
        BY <2>3, <3>1, <4>1 DEF DigestsCounted
    <3>2. CASE DayOf(now') # DayOf(now)
      BY <1>1, <1>2, <1>3, <2>2, <2>3, <3>2 DEF DigestsCounted
    <3>. QED
      BY <3>1, <3>2
  <2>. QED
    BY <1>2, <1>3, <2>1, <2>2, <2>3 DEF DigestsCounted, DayOf
<1>5. CASE Paused
  BY <1>5 DEF Paused, DigestsCounted, ToCome, Evaluating, DayOf
<1>6. CASE Evaluate \/ AnswerCritical \/ RecordCritical
  <2>1. /\ phase \in Evaluating /\ phase' \in Evaluating \cup {"idle", "digest"} /\ losses' \in {losses, losses + 1}
        /\ UNCHANGED <<now, lastDigestAt, digests>> /\ DayOf(now') = DayOf(now)
    BY <1>6 DEF Evaluate, AnswerCritical, RecordCritical, Told, Polled, Lose, Evaluating, DayOf
  <2>2. ToCome' => ToCome
    BY <2>1 DEF ToCome, Evaluating, DayOf
  <2>. QED
    BY <1>1, <1>2, <2>1, <2>2 DEF DigestsCounted
<1>7. CASE RunDigests
  BY <1>7 DEF RunDigests, DigestsCounted, ToCome, Evaluating, DayOf
<1>8. CASE AnswerMail
  <2>1. now' = now /\ lastDigestAt' = lastDigestAt /\ phase = "mailing" /\ ToCome /\ DayOf(now') = DayOf(now)
    BY <1>8 DEF AnswerMail, ToCome, DayOf
  <2>2. CASE digests' = digests /\ GiveUp
    BY <1>1, <1>2, <2>1, <2>2 DEF DigestsCounted, GiveUp, Lose
  <2>3. CASE /\ digests' = [digests EXCEPT ![DayOf(now)] = @ + 1]
             /\ GiveUp \/ (phase' = "recording" /\ UNCHANGED <<pending, losses>>)
    <3>1. /\ DOMAIN digests' = DOMAIN digests
          /\ \A d \in DOMAIN digests : digests'[d] = IF d = DayOf(now) THEN digests[d] + 1 ELSE digests[d]
      BY <2>3
    <3>2. losses' = losses + 1 \/ (losses' = losses /\ ~ToCome')
      BY <2>3 DEF GiveUp, Lose, ToCome, Evaluating
    <3>. QED
      BY <1>1, <1>2, <1>3, <2>1, <3>1, <3>2 DEF DigestsCounted
  <2>. QED
    BY <1>8, <2>2, <2>3 DEF AnswerMail
<1>9. CASE RecordMailed
  <2>1. /\ digests' = digests /\ now' = now /\ DayOf(now') = DayOf(now)
        /\ losses' = losses + 1 \/ (losses' = losses /\ phase' \in {"closing", "recording"})
    BY <1>9 DEF RecordMailed, GiveUp, Lose, DayOf
  <2>. QED
    BY <1>1, <1>2, <2>1 DEF DigestsCounted, ToCome, Evaluating
<1>10. CASE Close
  <2>1. /\ digests' = digests /\ now' = now /\ DayOf(now') = DayOf(now)
        /\ losses' = losses + 1 \/ (losses' = losses /\ lastDigestAt' = now /\ phase' = "idle")
    BY <1>10 DEF Close, GiveUp, Lose, DayOf
  <2>2. CASE losses' = losses + 1
    BY <1>1, <1>2, <2>1, <2>2 DEF DigestsCounted
  <2>3. CASE losses' = losses /\ lastDigestAt' = now /\ phase' = "idle"
    <3>1. DayOf(lastDigestAt') = DayOf(now')
      BY <2>1, <2>3
    <3>2. ~ToCome'
      BY <2>3, <3>1 DEF ToCome, DayOf
    <3>. QED
      BY <2>1, <2>3, <3>2 DEF DigestsCounted
  <2>. QED
    BY <2>1, <2>2, <2>3
<1>11. CASE Restart
  <2>1. digests' = digests /\ now' = now /\ DayOf(now') = DayOf(now) /\ losses' = losses + 1
    BY <1>11 DEF Restart, GiveUp, Lose, DayOf
  <2>. QED
    BY <1>1, <1>2, <2>1 DEF DigestsCounted
<1>. QED
  BY <1>4, <1>5, <1>6, <1>7, <1>8, <1>9, <1>10, <1>11 DEF DigestNext
\* Without losses and delays the day's slot finds an hour in which no digest has gone out.
LEMMA SlotRuns ==
  ASSUME DigestTypeOK, MailsCounted, Everyday, delays = 0, losses = 0, RunDigests,
         phase' = "idle"
  PROVE  \A d \in 0..DayOf(now) : now = d * Day + Slot => SlotSeen(now)
<1>. SUFFICES ASSUME NEW d \in 0..DayOf(now), now = d * Day + Slot PROVE SlotSeen(now)
  OBVIOUS
<1>1. /\ Every \in Nat \ {0} /\ Day \in Nat \ {0} /\ Hour \in 1..Day /\ Every <= Hour /\ Every <= Day
      /\ now \in Nat /\ Slot \in 0..(Every - 1) /\ Slot \in 0..(Day - 1)
  BY DigestAssumption, SlotType DEF DigestTypeOK
<1>2. d \in Int /\ now % Day = Slot /\ DayOf(now) = d
  <2>1. d \in Nat
    BY <1>1, Days
  <2>. QED
    BY <1>1, <2>1, Days
<1>3. InHour(now)
  BY <1>1, <1>2 DEF InHour
<1>4. DayOf(lastDigestAt) # DayOf(now)
  <2>1. CASE lastDigestAt = Never
    <3>1. lastDigestAt = (-1) * Day + (Day - 1) /\ lastDigestAt \in Int /\ Day - 1 \in 0..(Day - 1)
      BY <1>1, <2>1 DEF Never
    <3>2. DayOf(lastDigestAt) = -1
      BY <1>1, <3>1, Unique DEF DayOf
    <3>. QED
      BY <1>2, <3>2
  <2>2. CASE lastDigestAt # Never
    <3>. DEFINE q == lastDigestAt \div Day
                r == lastDigestAt % Day
    <3>1. lastDigestAt \in Nat /\ lastDigestAt < now /\ lastDigestAt % Every = Slot
      BY <1>1, <2>2 DEF DigestTypeOK, Everyday, OnTime, RunDigests
    <3>2. lastDigestAt = q * Day + r /\ r \in 0..(Day - 1) /\ q \in Int
      BY <1>1, <3>1, DivMod
    <3>. HIDE DEF q, r
    <3>3. SUFFICES ASSUME q = d PROVE FALSE
      BY <1>2 DEF q, DayOf
    <3>4. r < Slot
      <4>1. q * Day \in Int /\ q * Day = d * Day
        BY <1>1, <3>2, <3>3
      <4>. QED
        BY <1>1, <3>1, <3>2, <4>1
    <3>5. r % Every = r
      BY <1>1, <3>2, <3>4, Small
    <3>6. lastDigestAt \in Int /\ r \in Int
      BY <3>1, <3>2
    <3>7. lastDigestAt % Every = r % Every
      BY <3>2, <3>6, DaysKeepTicks
    <3>. QED
      BY <1>1, <3>1, <3>2, <3>4, <3>5, <3>7
  <2>. QED
    BY <2>1, <2>2
<1>5. Pending = {}
  BY <1>3, <1>4 DEF RunDigests
<1>6. ASSUME NEW a \in alerts, a <= now, now - a < Day
      PROVE  a \in Booked
  <2>1. a > now - Day
    BY <1>1, <1>6 DEF DigestTypeOK
  <2>2. a \in recorded
    BY <1>5, <2>1 DEF Pending
  <2>. QED
    BY <2>2 DEF Booked
<1>. QED
  BY <1>6 DEF SlotSeen

\* Another minute does not bring another day's slot, but the next one.
LEMMA DigestEveryday ==
  ASSUME DigestTypeOK, MailsCounted, Everyday, DigestNext
  PROVE  Everyday'
<1>. SUFFICES ASSUME delays' = 0, losses' = 0 PROVE OnTime' /\ SlotsSeen'
  BY DEF Everyday
<1>1. delays = 0 /\ losses = 0 /\ ~GiveUp /\ ~Lose /\ ~Delay
  <2>1. delays \in Nat /\ losses \in Nat
    BY DEF DigestTypeOK
  <2>2. ~Lose /\ ~Delay
    BY <2>1 DEF Lose, Delay
  <2>3. delays' = delays \/ Delay
    BY DEF DigestNext, Minute, Paused, Evaluate, AnswerCritical, RecordCritical, RunDigests, AnswerMail,
           RecordMailed, Close, Restart
  <2>4. losses' = losses \/ Lose
    BY DEF DigestNext, Minute, Paused, Evaluate, AnswerCritical, RecordCritical, RunDigests, AnswerMail,
           RecordMailed, Close, Restart, GiveUp
  <2>. QED
    BY <2>2, <2>3, <2>4 DEF GiveUp
<1>2. /\ now \in Nat /\ alerts \subseteq 0..now /\ recorded \subseteq alerts /\ pending \subseteq alerts
      /\ lastDigestAt \in {Never} \cup 0..now /\ tick \in 0..(Every - 1)
      /\ Day \in Nat \ {0} /\ Every \in Nat \ {0} /\ Never < now
  BY DigestAssumption DEF DigestTypeOK, Never
<1>3. /\ phase # "idle" => tickCount = (tick + 1) % Every /\ lastDigestAt < now
      /\ phase \notin Evaluating \cup {"idle"} => tick = 0
      /\ lastDigestAt # Never => lastDigestAt % Every = Slot
      /\ phase = "mailing" => \A a \in alerts : now - a < Day => a \in recorded \cup pending
      /\ phase \in {"recording", "closing"} => SlotSeen(now)
  BY <1>1 DEF Everyday, OnTime
<1>4. ASSUME NEW d \in 0..DayOf(now), d * Day + Slot < now \/ (d * Day + Slot = now /\ phase = "idle")
      PROVE  SlotSeen(d * Day + Slot)
  BY <1>1, <1>4 DEF Everyday, SlotsSeen
<1>5. Slot \in Nat
  BY <1>2, SlotType
<1>6. CASE Minute
  <2>1. /\ phase = "idle" /\ phase' = "polling" /\ tick' = tickCount /\ tickCount' = (tickCount + 1) % Every
        /\ now' = now + 1 /\ alerts' = alerts /\ recorded' = recorded /\ pending' = pending
        /\ lastDigestAt' = lastDigestAt
    BY <1>1, <1>6 DEF Minute
  <2>2. Slot' = Slot
    BY <2>1, SlotStays
  <2>3. Booked' = Booked
    BY <2>1 DEF Booked
  <2>4. lastDigestAt' < now'
    BY <1>2, <2>1 DEF Never
  <2>5. ASSUME NEW d \in 0..DayOf(now'), d * Day + Slot < now'
        PROVE  SlotSeen(d * Day + Slot)
    <3>. DEFINE s == d * Day
    <3>1. d \in Nat /\ s \in Nat /\ s = d * Day + 0 /\ 0 \in 0..(Day - 1)
      BY <1>2, <2>1, Days
    <3>. HIDE DEF s
    <3>2. DayOf(s) = d
      BY <3>1, Days
    <3>3. s + Slot <= now /\ s <= now
      BY <1>2, <1>5, <2>1, <2>5, <3>1 DEF s
    <3>4. d \in 0..DayOf(now)
      BY <1>2, <3>1, <3>2, <3>3, Days
    <3>5. s + Slot < now \/ s + Slot = now
      BY <1>2, <1>5, <3>1, <3>3
    <3>. QED
      BY <1>4, <2>1, <3>4, <3>5 DEF s
  <2>6. SlotsSeen'
    BY <2>1, <2>2, <2>3, <2>5 DEF SlotsSeen, SlotSeen, DayOf
  <2>. QED
    BY <1>3, <2>1, <2>2, <2>4, <2>6 DEF OnTime, Evaluating
\* While the clock stands still, earlier slots remain seen ...
<1>7. ASSUME now' = now, tickCount' = tickCount, Booked \subseteq Booked', alerts' \subseteq alerts \cup {now},
             NEW t, t \in Int, t < now, SlotSeen(t)
      PROVE  \A a \in alerts' : a <= t /\ t - a < Day => a \in Booked'
  <2>1. \A a \in alerts' : a <= t => a \in alerts
    BY <1>2, <1>7
  <2>. QED
    BY <1>7, <2>1 DEF SlotSeen
\* ... so that the present one is left.
<1>8. ASSUME now' = now, tickCount' = tickCount, Booked \subseteq Booked', alerts' \subseteq alerts \cup {now},
             \A d \in 0..DayOf(now) :
                d * Day + Slot = now /\ phase' = "idle" => \A a \in alerts' : now - a < Day => a \in Booked'
      PROVE  SlotsSeen'
  <2>1. Slot' = Slot
    BY <1>8 DEF Slot
  <2>2. ASSUME NEW d \in 0..DayOf(now), NEW t \in Int, t = d * Day + Slot,
               t < now \/ (t = now /\ phase' = "idle")
        PROVE  \A a \in alerts' : a <= t /\ t - a < Day => a \in Booked'
    <3>1. CASE t < now
      BY <1>4, <1>7, <1>8, <2>2, <3>1
    <3>2. CASE t = now /\ phase' = "idle"
      BY <1>8, <2>2, <3>2
    <3>. QED
      BY <2>2, <3>1, <3>2
  <2>3. \A d \in 0..DayOf(now) : d * Day + Slot \in Int
    BY <1>2, <1>5, Days
  <2>. QED
    BY <1>8, <2>1, <2>2, <2>3 DEF SlotsSeen, SlotSeen, DayOf
<1>10. CASE Paused
  BY <1>1, <1>10 DEF Paused
<1>11. CASE Evaluate \/ AnswerCritical \/ RecordCritical
  <2>1. /\ phase \in Evaluating /\ phase' \in Evaluating \cup {"digest", "idle"}
        /\ phase' = "digest" => tick = 0
        /\ phase' = "idle" => tick # 0
        /\ UNCHANGED <<now, tick, tickCount, lastDigestAt>> /\ alerts' \subseteq alerts \cup {now}
    BY <1>11 DEF Evaluate, AnswerCritical, RecordCritical, Told, Polled, Evaluating
  <2>2. Booked \subseteq Booked'
    BY <1>1, <1>11 DEF Evaluate, AnswerCritical, RecordCritical, Told, Polled, Booked
  <2>3. Slot' = Slot
    BY <2>1 DEF Slot
  <2>4. CASE phase' \in Evaluating \cup {"digest"}
    <3>1. SlotsSeen'
      BY <1>8, <2>1, <2>2, <2>4 DEF Evaluating
    <3>. QED
      BY <1>3, <2>1, <2>3, <2>4, <3>1 DEF OnTime, Evaluating
  <2>5. CASE phase' = "idle"
    <3>1. now % Every # Slot
      BY <1>3, <2>1, <2>5, SlotIsNow DEF Evaluating
    <3>2. ASSUME NEW d \in 0..DayOf(now), d * Day + Slot = now
          PROVE  FALSE
      <4>. DEFINE s == Slot
      <4>1. d \in Int /\ s \in 0..(Every - 1) /\ s \in Int /\ now \in Int /\ now = d * Day + s
        BY <1>2, <3>2, Days, SlotType
      <4>. HIDE DEF s
      <4>2. now % Every = s % Every
        BY <4>1, DaysKeepTicks
      <4>3. s % Every = s
        BY <1>2, <4>1, Small
      <4>. QED
        BY <3>1, <4>2, <4>3 DEF s
    <3>3. SlotsSeen'
      BY <1>8, <2>1, <2>2, <3>2
    <3>. QED
      BY <1>3, <2>1, <2>3, <2>5, <3>3 DEF OnTime, Evaluating
  <2>. QED
    BY <2>1, <2>4, <2>5
<1>12. CASE RunDigests
  <2>1. /\ phase = "digest" /\ now' = now /\ tick' = tick /\ tickCount' = tickCount /\ lastDigestAt' = lastDigestAt
        /\ phase' \in {"mailing", "idle"} /\ recorded' = recorded /\ alerts' = alerts
    BY <1>12 DEF RunDigests
  <2>2. Booked' = recorded /\ Booked = recorded
    BY <2>1 DEF Booked
  <2>3. Slot' = Slot
    BY <2>1 DEF Slot
  <2>4. CASE phase' = "mailing"
    <3>1. SlotsSeen'
      BY <1>8, <2>1, <2>2, <2>4
    <3>2. pending' = Pending
      BY <1>12, <2>4 DEF RunDigests
    <3>3. \A a \in alerts : now - a < Day => a \in recorded \cup Pending
      BY <1>2 DEF Pending
    <3>. QED
      BY <1>3, <2>1, <2>3, <2>4, <3>1, <3>2, <3>3 DEF OnTime, Evaluating
  <2>5. CASE phase' = "idle"
    <3>1. ASSUME NEW d \in 0..DayOf(now), d * Day + Slot = now 
          PROVE  \A a \in alerts' : now - a < Day => a \in Booked'
      <4>1. SlotSeen(now)
        BY <1>1, <1>12, <2>5, <3>1, SlotRuns
      <4>. QED
        BY <1>2, <2>1, <2>2, <4>1 DEF SlotSeen
    <3>2. SlotsSeen'
      BY <1>8, <2>1, <2>2, <3>1
    <3>. QED
      BY <1>3, <2>1, <2>3, <2>5, <3>2 DEF OnTime, Evaluating
  <2>. QED
    BY <2>1, <2>4, <2>5
<1>13. CASE AnswerMail
  <2>1. /\ phase = "mailing" /\ phase' = "recording" /\ now' = now /\ tick' = tick /\ tickCount' = tickCount
        /\ lastDigestAt' = lastDigestAt /\ recorded' = recorded /\ alerts' = alerts /\ pending' = pending
    BY <1>1, <1>13 DEF AnswerMail
  <2>2. Booked' = recorded \cup pending /\ Booked = recorded
    BY <2>1 DEF Booked
  <2>3. Slot' = Slot
    BY <2>1 DEF Slot
  <2>4. SlotSeen(now)'
    BY <1>3, <2>1, <2>2 DEF SlotSeen
  <2>5. SlotsSeen'
    BY <1>8, <2>1, <2>2
  <2>. QED
    BY <1>3, <2>1, <2>3, <2>4, <2>5 DEF OnTime, Evaluating
<1>14. CASE RecordMailed
  <2>1. /\ phase = "recording" /\ now' = now /\ tick' = tick /\ tickCount' = tickCount
        /\ lastDigestAt' = lastDigestAt /\ alerts' = alerts
        /\ \E a \in pending : /\ recorded' = recorded \cup {a} /\ pending' = pending \ {a}
                             /\ phase' = IF pending = {a} THEN "closing" ELSE "recording"
    BY <1>1, <1>14 DEF RecordMailed
  <2>2. Booked' = Booked
    BY <2>1 DEF Booked
  <2>3. Slot' = Slot
    BY <2>1 DEF Slot
  <2>4. SlotSeen(now)' /\ phase' \in {"closing", "recording"}
    BY <1>3, <2>1, <2>2 DEF SlotSeen
  <2>5. SlotsSeen'
    BY <1>8, <2>1, <2>2, <2>4
  <2>. QED
    BY <1>3, <2>1, <2>3, <2>4, <2>5 DEF OnTime, Evaluating
<1>15. CASE Close
  <2>1. /\ phase = "closing" /\ phase' = "idle" /\ now' = now /\ tick' = tick /\ tickCount' = tickCount
        /\ lastDigestAt' = now /\ alerts' = alerts /\ recorded' = recorded
    BY <1>1, <1>15 DEF Close
  <2>2. Booked' = Booked
    BY <2>1 DEF Booked
  <2>3. Slot' = Slot /\ now % Every = Slot
    BY <1>3, <2>1, SlotIsNow DEF Slot, Evaluating
  <2>4. \A a \in alerts' : now - a < Day => a \in Booked'
    BY <1>2, <1>3, <2>1, <2>2 DEF SlotSeen
  <2>5. SlotsSeen'
    BY <1>8, <2>1, <2>2, <2>4
  <2>. QED
    BY <2>1, <2>3, <2>5 DEF OnTime, Evaluating
<1>16. CASE Restart
  BY <1>1, <1>16 DEF Restart
<1>. QED
  BY <1>6, <1>10, <1>11, <1>12, <1>13, <1>14, <1>15, <1>16 DEF DigestNext

-----------------------------------------------------------------------------
\* A mail too many has a loss to its name, and while nothing is lost or late the same
\* minute of every day finds what the day before left, for any day, hour and rhythm of
\* the ticks (poller.ts:177-256, delivery/index.ts:87-132).
THEOREM DigestInvariance == DigestSpec => []DigestIInv
<1>1. DigestIInv /\ [DigestNext]_digestVars => DigestIInv'
  <2>. SUFFICES ASSUME DigestIInv, [DigestNext]_digestVars PROVE DigestIInv'
    OBVIOUS
  <2>1. CASE DigestNext
    BY <2>1, DigestTypes, DigestMails, DigestDays, DigestEveryday DEF DigestIInv
  <2>2. CASE UNCHANGED digestVars
    BY <2>2 DEF digestVars, DigestIInv, DigestTypeOK, MailsCounted, Booked, DigestsCounted, ToCome, DayOf,
       Evaluating, Everyday, OnTime, SlotsSeen, Slot, SlotSeen, Never
  <2>. QED
    BY <2>1, <2>2
<1>. QED
  BY <1>1, DigestStarts, PTL DEF DigestSpec

\* No alert is mailed and no digest sent more often than once and once more for every
\* answer, record or process that was lost (README.md:67, delivery/index.ts:87-132).
THEOREM LossesPay == DigestSpec => []MailedTwiceOnlyAfterLoss
<1>1. DigestIInv => MailedTwiceOnlyAfterLoss
  <2>. SUFFICES ASSUME DigestIInv PROVE MailedTwiceOnlyAfterLoss
    OBVIOUS
  <2>1. ASSUME NEW a \in alerts PROVE mails[a] <= 1 + losses
    <3>1. a \in 0..MaxNow /\ mails[a] \in Nat /\ losses \in Nat
      BY DigestAssumption DEF DigestIInv, DigestTypeOK
    <3>. QED
      BY <3>1 DEF DigestIInv, MailsCounted
  <2>. QED
    BY <2>1 DEF MailedTwiceOnlyAfterLoss, DigestIInv, DigestsCounted
<1>. QED
  BY <1>1, DigestInvariance, PTL

\* An alert is in one mail a day later, while ticks come and calls succeed, for any
\* hour and any rhythm that divides the day (delivery/index.ts:110-126).
THEOREM WithinADay == DigestSpec => []MailedWithinADay
<1>1. DigestIInv => MailedWithinADay
  <2>. SUFFICES ASSUME DigestIInv, delays = 0, losses = 0, phase = "idle",
                       NEW a \in alerts, now - a > Day
                PROVE  mails[a] = 1
    BY DEF MailedWithinADay
  <2>. DEFINE q == a \div Day
              r == a % Day
  <2>1. /\ Every \in Nat \ {0} /\ Day \in Nat \ {0} /\ Every <= Day
        /\ now \in Nat /\ a \in Nat /\ a \in 0..MaxNow /\ Slot \in 0..(Every - 1) /\ Slot \in 0..(Day - 1)
    BY DigestAssumption, SlotType DEF DigestIInv, DigestTypeOK
  <2>2. a = q * Day + r /\ r \in 0..(Day - 1) /\ q \in Nat
    <3>1. a \in Int /\ a >= 0
      BY <2>1
    <3>2. a = q * Day + r /\ r \in 0..(Day - 1) /\ q \in Int
      BY <2>1, <3>1, DivMod
    <3>3. q \in Nat
      BY <2>1, Days DEF DayOf
    <3>. QED
      BY <3>2, <3>3
  <2>. HIDE DEF q, r
  <2>3. /\ q * Day \in Int /\ (q + 1) * Day \in Int
        /\ (q + 1) * Day = q * Day + Day
    BY <2>1, <2>2
  <2>4. \E d \in Nat : a <= d * Day + Slot /\ d * Day + Slot < a + Day
    <3>1. CASE r <= Slot
      BY <2>1, <2>2, <2>3, <3>1
    <3>2. CASE r > Slot
      <4>1. a <= (q + 1) * Day + Slot /\ (q + 1) * Day + Slot < a + Day
        BY <2>1, <2>2, <2>3, <3>2
      <4>. QED
        BY <2>2, <4>1
    <3>. QED
      BY <2>1, <2>2, <3>1, <3>2
  <2>5. PICK d \in Nat : a <= d * Day + Slot /\ d * Day + Slot < a + Day
    BY <2>4
  <2>. DEFINE t == d * Day + Slot
  <2>6. t \in Int /\ t = d * Day + Slot /\ a <= t /\ t < a + Day /\ t < now
    BY <2>1, <2>5
  <2>7. d <= DayOf(now) /\ DayOf(now) \in Int
    <3>. HIDE DEF t
    <3>1. t \in Nat
      BY <2>1, <2>6
    <3>2. DayOf(t) = d
      BY <2>1, <2>6, <3>1, Days
    <3>. QED
      BY <2>1, <2>6, <3>1, <3>2, Days
  <2>8. SlotSeen(t)
    BY <2>1, <2>6, <2>7 DEF DigestIInv, Everyday, SlotsSeen
  <2>9. a \in Booked
    <3>. HIDE DEF t
    <3>. QED
      BY <2>1, <2>6, <2>8 DEF SlotSeen
  <2>10. mails[a] \in 1..(1 + losses)
    BY <2>1, <2>9 DEF DigestIInv, MailsCounted
  <2>. QED
    BY <2>10
<1>. QED
  BY <1>1, DigestInvariance, PTL
=============================================================================
