------------------------------- MODULE Accounts -------------------------------
(***************************************************************************)
(* Users and what proves who they are: guests, sign-in with a wallet,      *)
(* confirmed email addresses and linked Telegram chats, all by tokens that *)
(* can be used once (apps/api/src/routes/auth.ts, channels.ts, internal.ts *)
(* and repo.ts).  A request is cut wherever it awaits; one SQL statement,  *)
(* or the transaction of linkTelegram, is one step.                        *)
(***************************************************************************)
EXTENDS FiniteSets

CONSTANTS
  Request,   \* requests that take more than one step, each sent once
  User,      \* ids of users, drawn at random when they are created
  Token,     \* random strings
  Wallet,
  Email,
  Chat,
  None       \* null

Purpose == {"siwe_nonce", "email_verify", "telegram_link"}

\* A row of users: a guest has no wallet.
Row ==
  [wallet : Wallet \cup {None}, email : Email \cup {None}, verified : BOOLEAN,
   chat : Chat \cup {None}]

Account(w) == [wallet |-> w, email |-> None, verified |-> FALSE, chat |-> None]

OneTimeToken ==
  [purpose : Purpose, user : User \cup {None}, payload : Email \cup {None},
   status : {"live", "expired", "used"}]

ASSUME AccountsAssumption ==
  /\ None \notin User \cup Token \cup Wallet \cup Email \cup Chat \cup Row \cup OneTimeToken
  /\ Wallet \cap Chat = {}

VARIABLES
  users,      \* User -> its row, or None
  tokens,     \* Token -> its row of one_time_tokens, or None
  at,         \* Request -> where it is
  token,      \* Request -> the token it presents
  subject,    \* Request -> the wallet, chat or email address it is about
  who,        \* Request -> the user it has read, or acts for
  spent,      \* history: Token -> the requests that went on with it
  overtaken   \* history: requests about to write what another has changed since
              \* they read it

vars == <<users, tokens, at, token, subject, who, spent, overtaken>>

request == <<token, subject, who>>

At ==
  {"unsent", "claiming", "session", "owner", "attaching", "creating", "losing",
   "reading", "verifying", "linking", "mailing", "stopping", "done", "refused"}

Ended == {"done", "refused"}

Owns(u, w) == users[u] # None /\ users[u].wallet = w

Taken(w) == \E u \in User : Owns(u, w)

Goes(r, place) == at' = [at EXCEPT ![r] = place]

Init ==
  /\ users = [u \in User |-> None]
  /\ tokens = [t \in Token |-> None]
  /\ at = [r \in Request |-> "unsent"]
  /\ token = [r \in Request |-> None]
  /\ subject = [r \in Request |-> None]
  /\ who = [r \in Request |-> None]
  /\ spent = [t \in Token |-> {}]
  /\ overtaken = {}

-----------------------------------------------------------------------------
(* Tokens *)

\* createToken.
CreateToken(t, purpose, u, payload) ==
  /\ tokens[t] = None
  /\ tokens' = [tokens EXCEPT ![t] =
       [purpose |-> purpose, user |-> u, payload |-> payload, status |-> "live"]]

Expire(t) ==
  /\ tokens[t] # None /\ tokens[t].status = "live"
  /\ tokens' = [tokens EXCEPT ![t].status = "expired"]
  /\ UNCHANGED <<users, at, request, spent, overtaken>>

\* Slip: a token of any purpose will do.
PresentAny(r, t, purpose, x, u) ==
  /\ at[r] = "unsent"
  /\ Goes(r, IF tokens[t] # None /\ tokens[t].status = "live" THEN "claiming" ELSE "refused")
  /\ token' = [token EXCEPT ![r] = t]
  /\ subject' = [subject EXCEPT ![r] = x]
  /\ who' = [who EXCEPT ![r] = u]
  /\ UNCHANGED <<users, tokens, spent, overtaken>>

\* consumeToken, its select: a request for purpose presents t on behalf of x, with
\* the session cookie of u.
Present(r, t, purpose, x, u) ==
  /\ at[r] = "unsent"
  /\ Goes(r, IF tokens[t] # None /\ tokens[t].purpose = purpose /\ tokens[t].status = "live"
             THEN "claiming" ELSE "refused")
  /\ token' = [token EXCEPT ![r] = t]
  /\ subject' = [subject EXCEPT ![r] = x]
  /\ who' = [who EXCEPT ![r] = u]
  /\ UNCHANGED <<users, tokens, spent, overtaken>>

\* Where a request goes on once its token is claimed.
Onwards(r) ==
  CASE subject[r] \in Wallet -> "session"
    [] subject[r] \in Chat -> "linking"
    [] OTHER -> "reading"

\* Slip: the update does not ask whether the token is still unused.
ClaimAgain(r) ==
  /\ at[r] = "claiming"
  /\ Goes(r, Onwards(r))
  /\ tokens' = [tokens EXCEPT ![token[r]].status = "used"]
  /\ spent' = [spent EXCEPT ![token[r]] = @ \cup {r}]
  /\ UNCHANGED <<users, request, overtaken>>

\* consumeToken, its conditional update: of two requests that have both seen the
\* token unused, one claims it.
Claim(r) ==
  /\ at[r] = "claiming"
  /\ IF tokens[token[r]].status = "used"
       THEN Goes(r, "refused") /\ UNCHANGED <<tokens, spent>>
       ELSE /\ Goes(r, Onwards(r))
            /\ tokens' = [tokens EXCEPT ![token[r]].status = "used"]
            /\ spent' = [spent EXCEPT ![token[r]] = @ \cup {r}]
  /\ UNCHANGED <<users, request, overtaken>>

-----------------------------------------------------------------------------
(* Guests, and sign-in with a wallet: auth.ts *)

\* POST /auth/guest without a session.
Guest(u) ==
  /\ users[u] = None
  /\ users' = [users EXCEPT ![u] = Account(None)]
  /\ UNCHANGED <<tokens, at, request, spent, overtaken>>

\* GET /auth/siwe/nonce.
Nonce(t) ==
  /\ CreateToken(t, "siwe_nonce", None, None)
  /\ UNCHANGED <<users, at, request, spent, overtaken>>

\* POST /auth/siwe/verify: the request comes with the cookie of a user, or none.
Verify(r, t, w, u) ==
  /\ u # None => users[u] # None
  /\ Present(r, t, "siwe_nonce", w, u)

\* Slip: a user who has a wallet is taken for a guest.
ReadSessionOfAnyone(r) ==
  /\ at[r] = "session"
  /\ Goes(r, "owner")
  /\ UNCHANGED <<users, tokens, request, spent, overtaken>>

\* The signature is good; the session's user counts only while it is a guest.
ReadSession(r) ==
  /\ at[r] = "session"
  /\ Goes(r, "owner")
  /\ who' = [who EXCEPT ![r] = IF @ # None /\ Owns(@, None) THEN @ ELSE None]
  /\ UNCHANGED <<users, tokens, token, subject, spent, overtaken>>

\* userByWallet.
ReadOwner(r) ==
  /\ at[r] = "owner"
  /\ \/ \E u \in User :
         /\ Owns(u, subject[r])
         /\ who' = [who EXCEPT ![r] = u]
         /\ Goes(r, "done")
     \/ /\ ~Taken(subject[r])
        /\ Goes(r, IF who[r] = None THEN "creating" ELSE "attaching")
        /\ UNCHANGED who
  /\ UNCHANGED <<users, tokens, token, subject, spent, overtaken>>

\* attachWallet: a unique index refuses a wallet that another user has.
Attach(r) ==
  /\ at[r] = "attaching"
  /\ \A u \in User : Owns(u, subject[r]) => u = who[r]
  /\ Goes(r, "done")
  /\ users' = [users EXCEPT ![who[r]].wallet = subject[r]]
  /\ overtaken' = overtaken \cup
       {q \in Request \ {r} : at[q] \in {"owner", "attaching"} /\ who[q] = who[r]}
  /\ UNCHANGED <<tokens, request, spent>>

\* createUser("wallet", address), under the same index.
Create(r, u) ==
  /\ at[r] = "creating"
  /\ ~Taken(subject[r])
  /\ users[u] = None
  /\ Goes(r, "done")
  /\ users' = [users EXCEPT ![u] = Account(subject[r])]
  /\ who' = [who EXCEPT ![r] = u]
  /\ UNCHANGED <<tokens, token, subject, spent, overtaken>>

\* The write failed, for the index or any other reason.
Lose(r) ==
  /\ at[r] \in {"attaching", "creating"}
  /\ Goes(r, "losing")
  /\ UNCHANGED <<users, tokens, request, spent, overtaken>>

\* The catch: whoever has the wallet now is the one to sign in.
FindWinner(r) ==
  /\ at[r] = "losing"
  /\ \E u \in User :
       /\ Owns(u, subject[r])
       /\ who' = [who EXCEPT ![r] = u]
  /\ Goes(r, "done")
  /\ UNCHANGED <<users, tokens, token, subject, spent, overtaken>>

-----------------------------------------------------------------------------
(* Email addresses: channels.ts *)

\* setEmail.
SetEmail(u, email, verified) ==
  /\ users' = [users EXCEPT ![u].email = email, ![u].verified = verified]
  /\ overtaken' = overtaken \cup
       {q \in Request : at[q] = "verifying" /\ who[q] = u /\ subject[q] # email}

\* POST /channels/email stores the address, then a token for it.
AddEmail(r, u, e) ==
  /\ at[r] = "unsent" /\ users[u] # None
  /\ SetEmail(u, e, FALSE)
  /\ Goes(r, "mailing")
  /\ subject' = [subject EXCEPT ![r] = e]
  /\ who' = [who EXCEPT ![r] = u]
  /\ UNCHANGED <<tokens, token, spent>>

MailToken(r, t) ==
  /\ at[r] = "mailing"
  /\ CreateToken(t, "email_verify", who[r], subject[r])
  /\ Goes(r, "done")
  /\ UNCHANGED <<users, request, spent, overtaken>>

\* POST /channels/email/verify, its consumeToken.
VerifyEmail(r, t) == Present(r, t, "email_verify", None, None)

\* The user must still have the address that the token was made for.
ReadUser(r) ==
  LET t == tokens[token[r]] IN
  /\ at[r] = "reading"
  /\ IF t.user # None /\ t.payload # None /\ users[t.user].email = t.payload
       THEN /\ Goes(r, "verifying")
            /\ who' = [who EXCEPT ![r] = t.user]
            /\ subject' = [subject EXCEPT ![r] = t.payload]
       ELSE Goes(r, "refused") /\ UNCHANGED <<who, subject>>
  /\ UNCHANGED <<users, tokens, token, spent, overtaken>>

\* The address that was read is written back with the flag.
Confirm(r) ==
  /\ at[r] = "verifying"
  /\ SetEmail(who[r], subject[r], TRUE)
  /\ Goes(r, "done")
  /\ UNCHANGED <<tokens, request, spent>>

\* DELETE /channels/email.
RemoveEmail(u) ==
  /\ users[u] # None
  /\ SetEmail(u, None, FALSE)
  /\ UNCHANGED <<tokens, at, request, spent>>

-----------------------------------------------------------------------------
(* Telegram chats: channels.ts, internal.ts *)

\* POST /channels/telegram/link-code.
LinkCode(u, t) ==
  /\ users[u] # None
  /\ CreateToken(t, "telegram_link", u, None)
  /\ UNCHANGED <<users, at, request, spent, overtaken>>

\* POST /internal/telegram/link, its consumeToken.
Link(r, t, c) == Present(r, t, "telegram_link", c, None)

\* linkTelegram: the chat leaves whoever had it.
LinkTelegram(r) ==
  LET u == tokens[token[r]].user IN
  /\ at[r] = "linking"
  /\ IF u = None THEN Goes(r, "refused") /\ UNCHANGED users
     ELSE /\ Goes(r, "done")
          /\ users' = [v \in User |->
               IF v = u THEN [users[v] EXCEPT !.chat = subject[r]]
               ELSE IF users[v] # None /\ users[v].chat = subject[r]
                    THEN [users[v] EXCEPT !.chat = None]
                    ELSE users[v]]
  /\ UNCHANGED <<tokens, request, spent, overtaken>>

UnlinkTelegram(u) == users' = [users EXCEPT ![u].chat = None]

\* DELETE /channels/telegram.
Unlink(u) ==
  /\ users[u] # None
  /\ UnlinkTelegram(u)
  /\ UNCHANGED <<tokens, at, request, spent, overtaken>>

\* POST /internal/telegram/unlink: who has the chat, then the update.
Stop(r, c) ==
  /\ at[r] = "unsent"
  /\ \E u \in User :
       /\ users[u] # None /\ users[u].chat = c
       /\ who' = [who EXCEPT ![r] = u]
  /\ Goes(r, "stopping")
  /\ UNCHANGED <<users, tokens, token, subject, spent, overtaken>>

Stopped(r) ==
  /\ at[r] = "stopping"
  /\ UnlinkTelegram(who[r])
  /\ Goes(r, "done")
  /\ UNCHANGED <<tokens, request, spent, overtaken>>

-----------------------------------------------------------------------------
\* A signature is bad, a query fails or the process dies: nothing more comes of
\* the request.
Abandon(r) ==
  /\ at[r] \notin Ended \cup {"unsent"}
  /\ Goes(r, "refused")
  /\ UNCHANGED <<users, tokens, request, spent, overtaken>>

Next ==
  \/ \E u \in User : Guest(u) \/ RemoveEmail(u) \/ Unlink(u)
  \/ \E t \in Token : Expire(t) \/ Nonce(t) \/ \E u \in User : LinkCode(u, t)
  \/ \E r \in Request :
       \/ \E t \in Token :
            \/ \E w \in Wallet, u \in User \cup {None} : Verify(r, t, w, u)
            \/ \E c \in Chat : Link(r, t, c)
            \/ VerifyEmail(r, t)
            \/ MailToken(r, t)
       \/ Claim(r)
       \/ ReadSession(r) \/ ReadOwner(r)
       \/ Attach(r) \/ Lose(r) \/ FindWinner(r)
       \/ \E u \in User : Create(r, u)
       \/ \E u \in User, e \in Email : AddEmail(r, u, e)
       \/ ReadUser(r) \/ Confirm(r)
       \/ LinkTelegram(r)
       \/ \E c \in Chat : Stop(r, c)
       \/ Stopped(r)
       \/ Abandon(r)

Spec == Init /\ [][Next]_vars

-----------------------------------------------------------------------------
(* Correctness *)

TypeOK ==
  /\ users \in [User -> Row \cup {None}]
  /\ tokens \in [Token -> OneTimeToken \cup {None}]
  /\ at \in [Request -> At]
  /\ token \in [Request -> Token \cup {None}]
  /\ subject \in [Request -> Wallet \cup Email \cup Chat \cup {None}]
  /\ who \in [Request -> User \cup {None}]
  /\ spent \in [Token -> SUBSET Request]
  /\ overtaken \subseteq Request

\* A link, a nonce or a code works once, however many requests bring it at the
\* same time (repo.ts:217-226; apps/api/test/api.test.ts:73, 426, 465).
SpentOnce == \A t \in Token : \A q, r \in spent[t] : q = r

\* An address counts as verified only if a token made for this user and this very
\* address has been used, whatever the address was changed to, and back, while a
\* confirmation was under way (channels.ts:58-92).
VerifiedWasConfirmed ==
  \A u \in User :
    users[u] # None /\ users[u].verified =>
      \E t \in Token :
        /\ spent[t] # {}
        /\ tokens[t].purpose = "email_verify"
        /\ tokens[t].user = u
        /\ tokens[t].payload = users[u].email

\* Alerts go to a chat that presented a code of this user, and to no chat of two
\* users (internal.ts:14-21, repo.ts:228-233).
ChatIsTheirs ==
  \A u \in User :
    users[u] # None /\ users[u].chat # None =>
      /\ \E t \in Token :
           /\ tokens[t] # None
           /\ tokens[t].purpose = "telegram_link"
           /\ tokens[t].user = u
           /\ \E r \in spent[t] : subject[r] = users[u].chat
      /\ \A v \in User : users[v] # None /\ users[v].chat = users[u].chat => v = u

\* A wallet is "the durable identity" (docs/SCOPE.md:27): the user it opens is
\* lost to it only by another sign-in that had read the same guest before the
\* wallet was attached (auth.ts:79-93).
WalletKeepsItsUser ==
  [][\A u \in User, w \in Wallet :
       Owns(u, w) /\ ~Owns(u, w)' =>
         \E r \in overtaken : at[r] = "attaching" /\ who[r] = u /\ at'[r] = "done"]_vars

\* An old confirmation link does not bring back an address that was removed or
\* replaced, unless it was being used at that very moment (channels.ts:83-91).
OldLinksAreDead ==
  [][\A u \in User :
       users[u] # None /\ users'[u].verified /\ users'[u].email # users[u].email =>
         \E r \in overtaken : at[r] = "verifying" /\ who[r] = u /\ at'[r] = "done"]_vars

\* Alerts go to addresses and chats that their user has proved to be theirs.
LinksAreTheirs == VerifiedWasConfirmed /\ ChatIsTheirs

\* What a wallet or an address is to an account changes behind its back only by a
\* request that was overtaken while under way.
OnlyOvertakenUndo == WalletKeepsItsUser /\ OldLinksAreDead

-----------------------------------------------------------------------------
(* The inductive invariant *)

TokensInOrder ==
  \A t \in Token :
    /\ spent[t] # {} => tokens[t] # None /\ tokens[t].status = "used"
    /\ \A r \in spent[t] : token[r] = t /\ at[r] \notin {"unsent", "claiming"}
    /\ tokens[t] # None /\ tokens[t].user # None => users[tokens[t].user] # None

\* What a request knows of its token.
TokenKnown ==
  \A r \in Request :
    /\ at[r] \in {"claiming", "reading", "verifying", "linking"} =>
         token[r] \in Token /\ tokens[token[r]] # None
    /\ at[r] = "claiming" =>
         \/ subject[r] \in Wallet
         \/ subject[r] \in Chat /\ tokens[token[r]].purpose = "telegram_link"
         \/ subject[r] = None /\ tokens[token[r]].purpose = "email_verify"
    /\ at[r] \in {"reading", "verifying"} =>
         r \in spent[token[r]] /\ tokens[token[r]].purpose = "email_verify"
    /\ at[r] = "verifying" =>
         /\ tokens[token[r]].user = who[r]
         /\ tokens[token[r]].payload = subject[r]
    /\ at[r] = "linking" =>
         /\ r \in spent[token[r]]
         /\ tokens[token[r]].purpose = "telegram_link"
         /\ subject[r] \in Chat

\* What it knows of the user it acts for: unless it has been overtaken, a sign-in
\* that would attach a wallet acts for a guest, and a confirmation for a user who
\* has the address.
UserKnown ==
  \A r \in Request :
    /\ at[r] \in {"claiming", "session", "owner"} /\ who[r] # None => users[who[r]] # None
    /\ at[r] \in {"attaching", "verifying", "mailing", "stopping"} =>
         who[r] # None /\ users[who[r]] # None
    /\ at[r] \in {"owner", "attaching"} /\ who[r] # None =>
         Owns(who[r], None) \/ r \in overtaken
    /\ at[r] = "verifying" => users[who[r]].email = subject[r] \/ r \in overtaken
    /\ at[r] \in {"session", "owner", "attaching", "creating", "losing"} => subject[r] \in Wallet
    /\ at[r] \in {"verifying", "mailing"} => subject[r] \in Email

IInv ==
  /\ TypeOK
  /\ TokensInOrder
  /\ TokenKnown
  /\ UserKnown
  /\ SpentOnce
  /\ VerifiedWasConfirmed
  /\ ChatIsTheirs
=============================================================================
