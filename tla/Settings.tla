------------------------------- MODULE Settings -------------------------------
(***************************************************************************)
(* One user's settings, changed from several browsers at a time.            *)
(*                                                                         *)
(* Preferences: a window of the web app keeps a copy of the user's row (me),*)
(* the settings sheet a draft that was taken from it when the sheet opened  *)
(* (settings-sheet.tsx).  Saving sends what differs between the draft and   *)
(* the copy, switches and the protect section send their one field, and     *)
(* PUT /preferences merges what it is sent into a row that it read before   *)
(* (portfolio.ts, app.ts), then writes all of it.                           *)
(*                                                                         *)
(* Push: a browser subscribes with its push service, then with the server,  *)
(* which counts the user's subscriptions and saves in two queries; turning  *)
(* it off goes the same way (push.ts, channels-panel.tsx, channels.ts).     *)
(***************************************************************************)
EXTENDS Naturals, FiniteSets, Functions

CONSTANTS
  Window,      \* browsers, with one window each
  Sheet,       \* the fields of the settings sheet
  Switch,      \* the fields that have a switch of their own
  Value,       \* of a field
  Raised,      \* the field and value that the protect section sends
  Endpoint,    \* push subscriptions that push services hand out
  MaxPush,     \* MAX_PUSH_SUBSCRIPTIONS_PER_USER
  MaxClicks,   \* bound on what users do
  Null

Field == Sheet \cup Switch

Prefs == [Field -> Value]

\* What a save carries: some of the fields.
Patch == UNION {[S -> Value] : S \in SUBSET Field}

ASSUME SettingsAssumption ==
  /\ IsFiniteSet(Window) /\ IsFiniteSet(Endpoint)
  /\ Raised.field \in Sheet /\ Raised.value \in Value
  /\ MaxPush \in Nat \ {0} /\ MaxClicks \in Nat
  /\ Null \notin Prefs \cup Endpoint \cup Patch

\* Where a window has requests for preferences: one at a time each.
Lane == {"form", "switch", "raise", "me"}

VARIABLES
  prefs,     \* users.preferences
  me,        \* the copy of it in a window's query cache
  draft,     \* of the sheet, or Null while it is closed
  touched,   \* history: the fields moved since the sheet was opened
  learned,   \* history: the fields whose copy has changed since then
  requests,  \* of a window and lane
  devices,   \* push_subscriptions
  own,       \* the subscription that a browser holds itself
  sees,      \* whether the channels panel shows push as on
  push,      \* the request of a browser about push
  clicks

preferences == <<prefs, me, draft, touched, learned, requests>>

channels == <<devices, own, sees, push>>

settingsVars == <<preferences, channels, clicks>>

Click == clicks < MaxClicks /\ clicks' = clicks + 1

-----------------------------------------------------------------------------
SettingsInit ==
  /\ prefs \in Prefs
  /\ me = [w \in Window |-> prefs]
  /\ draft = [w \in Window |-> Null]
  /\ touched = [w \in Window |-> {}]
  /\ learned = [w \in Window |-> {}]
  /\ requests = [wl \in Window \X Lane |-> Null]
  /\ devices = {}
  /\ own = [w \in Window |-> Null]
  /\ sees = [w \in Window |-> FALSE]
  /\ push = [w \in Window |-> Null]
  /\ clicks = 0

-----------------------------------------------------------------------------
(* Preferences *)

draftFrom(p) == Restrict(p, Sheet)

OpenSheet(w) ==
  /\ draft[w] = Null
  /\ Click
  /\ draft' = [draft EXCEPT ![w] = draftFrom(me[w])]
  /\ UNCHANGED <<prefs, me, touched, learned, requests, channels>>

CloseSheet(w) ==
  /\ draft[w] # Null
  /\ draft' = [draft EXCEPT ![w] = Null]
  /\ touched' = [touched EXCEPT ![w] = {}]
  /\ learned' = [learned EXCEPT ![w] = {}]
  /\ UNCHANGED <<prefs, me, requests, channels, clicks>>

Move(w, f, v) ==
  /\ draft[w] # Null
  /\ Click
  /\ draft' = [draft EXCEPT ![w][f] = v]
  /\ touched' = [touched EXCEPT ![w] = @ \cup {f}]
  /\ UNCHANGED <<prefs, me, learned, requests, channels>>

\* Slip: the whole draft is sent.
ChangedOrNot(w) == Sheet

Changed(w) == {f \in Sheet : draft[w][f] # me[w][f]}

\* A request goes out, unless one of its kind is pending: its button is off then.
\* `chosen` and `told` keep, for the properties, what the user moved and what the
\* window was told since the sheet was opened.
Send(w, lane, patch, chosen, told) ==
  /\ requests[<<w, lane>>] = Null
  /\ requests' = [requests EXCEPT ![<<w, lane>>] =
       [at |-> "sent", patch |-> patch, row |-> Null, chosen |-> chosen, told |-> told]]
  /\ UNCHANGED <<prefs, me, draft, touched, learned, channels>>

Submit(w) ==
  /\ draft[w] # Null
  /\ Changed(w) # {}
  /\ Click
  /\ Send(w, "form", Restrict(draft[w], Changed(w)), touched[w], learned[w])

\* SendToggle: it shows what the copy says, and sends the opposite.
Toggle(w, f, v) ==
  /\ draft[w] # Null
  /\ v # me[w][f]
  /\ Click
  /\ Send(w, "switch", [x \in {f} |-> v], {f}, {})

Raise(w) ==
  /\ me[w][Raised.field] # Raised.value
  /\ Click
  /\ Send(w, "raise", [x \in {Raised.field} |-> Raised.value], {Raised.field}, {})

\* useMe asks again when the window gets the focus.
Focus(w) == Click /\ Send(w, "me", Null, {}, {})

\* requireUser reads the user's row.
RequireUser(w, lane) ==
  LET r == requests[<<w, lane>>] IN
  /\ r # Null /\ r.at = "sent"
  /\ requests' = [requests EXCEPT ![<<w, lane>>].at = IF lane = "me" THEN "answered" ELSE "read",
                                  ![<<w, lane>>].row = prefs]
  /\ UNCHANGED <<prefs, me, draft, touched, learned, channels, clicks>>

Merged(row, patch) == [f \in Field |-> IF f \in DOMAIN patch THEN patch[f] ELSE row[f]]

\* setPreferences writes the merged row, which is the answer as well.
SetPreferences(w, lane) ==
  LET r == requests[<<w, lane>>] IN
  /\ r # Null /\ r.at = "read"
  /\ prefs' = Merged(r.row, r.patch)
  /\ requests' = [requests EXCEPT ![<<w, lane>>].at = "answered", ![<<w, lane>>].row = prefs']
  /\ UNCHANGED <<me, draft, touched, learned, channels, clicks>>

\* onSuccess: the answer, however old, becomes the window's copy.  The draft stays.
Learn(w, lane) ==
  LET r == requests[<<w, lane>>] IN
  /\ r # Null /\ r.at = "answered"
  /\ me' = [me EXCEPT ![w] = r.row]
  /\ learned' = IF draft[w] = Null THEN learned
                ELSE [learned EXCEPT ![w] = @ \cup {f \in Field : me[w][f] # r.row[f]}]
  /\ requests' = [requests EXCEPT ![<<w, lane>>] = Null]
  /\ UNCHANGED <<prefs, draft, touched, channels, clicks>>

\* The request or its answer is lost; the window shows an error.
LoseSave(w, lane) ==
  /\ requests[<<w, lane>>] # Null /\ requests[<<w, lane>>].at \in {"sent", "answered"}
  /\ requests' = [requests EXCEPT ![<<w, lane>>] = Null]
  /\ UNCHANGED <<prefs, me, draft, touched, learned, channels, clicks>>

-----------------------------------------------------------------------------
(* Push *)

\* What is said of push: on, if any browser of the user has a subscription.
channelsView(subscriptions) == subscriptions # {}

\* The answer of the channels query.
Look(w) ==
  /\ push[w] = Null
  /\ sees' = [sees EXCEPT ![w] = channelsView(devices)]
  /\ UNCHANGED <<preferences, devices, own, push, clicks>>

\* enablePush: the browser's own subscription, or a new one, is sent to the server.
enablePush(w, e) ==
  /\ push[w] = Null /\ ~sees[w]
  /\ IF own[w] # Null THEN e = own[w] ELSE e \notin devices /\ \A x \in Window : own[x] # e
  /\ Click
  /\ own' = [own EXCEPT ![w] = e]
  /\ push' = [push EXCEPT ![w] = [at |-> "subscribing", endpoint |-> e, saw |-> {}]]
  /\ UNCHANGED <<preferences, devices, sees>>

\* Slip: the limit is passed before it is noticed.
FullLate(e) == Cardinality(devices) > MaxPush /\ e \notin devices

Full(e) == Cardinality(devices) >= MaxPush /\ e \notin devices

\* POST /channels/push/subscribe counts ...
PushOf(w) ==
  /\ push[w] # Null /\ push[w].at = "subscribing"
  /\ push' = [push EXCEPT ![w] = IF Full(@.endpoint) THEN Null
                                        ELSE [@ EXCEPT !.at = "counted", !.saw = devices]]
  /\ UNCHANGED <<preferences, devices, own, sees, clicks>>

\* ... and saves.  If the answer gets lost the panel shows the error, and not the
\* subscription.
SavePush(w) ==
  /\ push[w] # Null /\ push[w].at = "counted"
  /\ devices' = devices \cup {push[w].endpoint}
  /\ push' = [push EXCEPT ![w] = Null]
  /\ \E answered \in BOOLEAN : sees' = [sees EXCEPT ![w] = @ \/ answered]
  /\ UNCHANGED <<preferences, own, clicks>>

\* disablePush: first with the push service, then with the server.
disablePush(w) ==
  /\ push[w] = Null /\ sees[w]
  /\ Click
  /\ own' = [own EXCEPT ![w] = Null]
  /\ push' = [push EXCEPT ![w] = [at |-> "deleting", endpoint |-> own[w], saw |-> {}]]
  /\ UNCHANGED <<preferences, devices, sees>>

\* DELETE /channels/push: without an endpoint it deletes all that the user has.
DeletePush(w) ==
  /\ push[w] # Null /\ push[w].at = "deleting"
  /\ devices' = IF push[w].endpoint = Null THEN {} ELSE devices \ {push[w].endpoint}
  /\ push' = [push EXCEPT ![w] = Null]
  /\ \E answered \in BOOLEAN : sees' = [sees EXCEPT ![w] = IF answered THEN channelsView(devices') ELSE @]
  /\ UNCHANGED <<preferences, own, clicks>>

LosePush(w) ==
  /\ push[w] # Null /\ push[w].at \in {"subscribing", "deleting"}
  /\ push' = [push EXCEPT ![w] = Null]
  /\ UNCHANGED <<preferences, devices, own, sees, clicks>>

\* A delivery finds a subscription gone.
DeletePushEndpoint(e) ==
  /\ e \in devices
  /\ \A w \in Window : own[w] # e
  /\ devices' = devices \ {e}
  /\ UNCHANGED <<preferences, own, sees, push, clicks>>

-----------------------------------------------------------------------------
SettingsNext ==
  \/ \E w \in Window :
       \/ OpenSheet(w) \/ CloseSheet(w) \/ Submit(w) \/ Raise(w) \/ Focus(w)
       \/ \E f \in Sheet, v \in Value : Move(w, f, v)
       \/ \E f \in Switch, v \in Value : Toggle(w, f, v)
       \/ \E lane \in Lane :
            RequireUser(w, lane) \/ SetPreferences(w, lane) \/ Learn(w, lane) \/ LoseSave(w, lane)
       \/ \E e \in Endpoint : enablePush(w, e)
       \/ Look(w) \/ PushOf(w) \/ SavePush(w) \/ disablePush(w) \/ DeletePush(w) \/ LosePush(w)
  \/ \E e \in Endpoint : DeletePushEndpoint(e)

SettingsSpec == SettingsInit /\ [][SettingsNext]_settingsVars

-----------------------------------------------------------------------------
(* Correctness *)

\* A save changes a field that its user did not choose only in two ways: another save
\* came between its read and its write and is undone (portfolio.ts:193-198), or the
\* window was told another value after its sheet was opened, which the draft does not
\* take up and sends back (settings-sheet.tsx:80-94).  Without either, what one window
\* saves never undoes what another has saved.
UntouchedIsKept ==
  [][\A wl \in Window \X Lane :
       /\ requests[wl] # Null /\ requests[wl].at = "read" /\ prefs' # prefs
       /\ requests'[wl] # requests[wl]
       => \A f \in Field : prefs'[f] # prefs[f] =>
            \/ f \in requests[wl].chosen
            \/ f \in requests[wl].told
            \/ prefs[f] # requests[wl].row[f]]_settingsVars

\* The limit of browsers is passed only by requests that overlap: whoever saves one too
\* many counted before another had saved.  A request that is alone keeps the limit, the
\* subscriptions that lost requests left behind included (channels.ts:103-107,
\* push.ts:22-49).
PushLimitHolds ==
  [][\A w \in Window :
       /\ push[w] # Null /\ push[w].at = "counted" /\ push'[w] # push[w]
       /\ Cardinality(devices') > MaxPush /\ devices' # devices
       => devices # push[w].saw]_settingsVars
-----------------------------------------------------------------------------
(* Why they hold: what a request carries its user chose, or the window was    *)
(* told; and who goes on to save a subscription found room for it.            *)

SaveRequest ==
  [at : {"sent", "read", "answered"}, patch : Patch \cup {Null},
   row : Prefs \cup {Null}, chosen : SUBSET Field, told : SUBSET Field]

PushRequest ==
  [at : {"subscribing", "counted", "deleting"}, endpoint : Endpoint \cup {Null}, saw : SUBSET Endpoint]

SettingsTypeOK ==
  /\ prefs \in Prefs /\ me \in [Window -> Prefs]
  /\ draft \in [Window -> [Sheet -> Value] \cup {Null}]
  /\ touched \in [Window -> SUBSET Field] /\ learned \in [Window -> SUBSET Field]
  /\ requests \in [Window \X Lane -> SaveRequest \cup {Null}]
  /\ devices \subseteq Endpoint /\ own \in [Window -> Endpoint \cup {Null}]
  /\ sees \in [Window -> BOOLEAN] /\ push \in [Window -> PushRequest \cup {Null}]
  /\ clicks \in 0..MaxClicks

\* Where a draft differs from its window's copy, the user moved it or the copy changed.
DraftExplained(w) ==
  draft[w] # Null => \A f \in Sheet : draft[w][f] = me[w][f] \/ f \in touched[w] \/ f \in learned[w]

\* A save carries only what its user chose, or its window was told; what has read its
\* row has a row and a patch.
PatchExplained(w, lane) ==
  LET r == requests[<<w, lane>>] IN
  r # Null =>
    /\ lane # "me" => r.patch # Null /\ DOMAIN r.patch \subseteq r.chosen \cup r.told
    /\ r.at # "sent" => r.row # Null
    /\ r.at = "read" => lane # "me"

\* Who subscribes has a subscription, and whoever counted found room, or its own.
RoomSeen(w) ==
  push[w] # Null /\ push[w].at # "deleting" =>
    /\ push[w].endpoint # Null
    /\ push[w].at = "counted" =>
         Cardinality(push[w].saw) < MaxPush \/ push[w].endpoint \in push[w].saw

SettingsIInv ==
  /\ SettingsTypeOK
  /\ \A w \in Window : DraftExplained(w) /\ RoomSeen(w)
  /\ \A w \in Window, lane \in Lane : PatchExplained(w, lane)
=============================================================================
