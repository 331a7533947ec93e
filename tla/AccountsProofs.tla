---------------------------- MODULE AccountsProofs ----------------------------
(***************************************************************************)
(* Proofs about Accounts, for any requests, users, tokens and addresses:   *)
(* tokens are spent once, what counts as verified was confirmed, chats get *)
(* the alerts of whoever gave them a code, and neither a wallet nor a      *)
(* removed address changes hands but in a race of requests.                *)
(* Then about Settings, for any windows, preferences and endpoints: what   *)
(* was entered stays entered, and no user has more subscriptions than the  *)
(* limit and the requests that overlapped account for.                     *)
(***************************************************************************)
EXTENDS Accounts, Settings, FiniteSetTheorems, TLAPS

LEMMA Start == Init => IInv
  BY AccountsAssumption
  DEF Init, IInv, TypeOK, At, TokensInOrder, TokenKnown, UserKnown, SpentOnce,
      VerifiedWasConfirmed, ChatIsTheirs

LEMMA Idle == IInv /\ UNCHANGED vars => IInv'
  BY DEF vars, IInv, TypeOK, TokensInOrder, TokenKnown, UserKnown, Owns, SpentOnce,
         VerifiedWasConfirmed, ChatIsTheirs

-----------------------------------------------------------------------------
(* What becomes of the rows of users *)

\* setEmail changes an address and its flag, and nothing else.
LEMMA EmailSet ==
  ASSUME IInv, NEW u \in User, users[u] # None,
         NEW e \in Email \cup {None}, NEW v \in BOOLEAN, SetEmail(u, e, v)
  PROVE  /\ users' \in [User -> Row \cup {None}]
         /\ overtaken' \subseteq Request
         /\ users'[u].email = e /\ users'[u].verified = v
         /\ \A x \in User : x # u => users'[x] = users[x]
         /\ \A x \in User : users[x] # None =>
              /\ users'[x] # None
              /\ users'[x].wallet = users[x].wallet
              /\ users'[x].chat = users[x].chat
<1> USE DEF IInv, TypeOK
<1>1. users[u] \in Row
  OBVIOUS
<1>2. users'[u] = [users[u] EXCEPT !.email = e, !.verified = v]
  BY DEF SetEmail
<1>3. users'[u] \in Row
  BY <1>1, <1>2 DEF Row
<1>4. \A x \in User : x # u => users'[x] = users[x]
  BY DEF SetEmail
<1>5. users' \in [User -> Row \cup {None}]
  BY <1>3, <1>4 DEF SetEmail
<1>6. \A x \in User : users[x] # None => users'[x] # None
  BY <1>3, <1>4, AccountsAssumption
<1>7. /\ users'[u].email = e /\ users'[u].verified = v
      /\ users'[u].wallet = users[u].wallet
      /\ users'[u].chat = users[u].chat
  BY <1>1, <1>2 DEF Row
<1> QED
  BY <1>4, <1>5, <1>6, <1>7 DEF SetEmail

\* A wallet that is attached changes a user's wallet, and nothing else.
LEMMA WalletSet ==
  ASSUME IInv, NEW u \in User, users[u] # None, NEW w \in Wallet,
         users' = [users EXCEPT ![u].wallet = w]
  PROVE  /\ users' \in [User -> Row \cup {None}]
         /\ users'[u].wallet = w
         /\ \A x \in User : x # u => users'[x] = users[x]
         /\ \A x \in User : users[x] # None =>
              /\ users'[x] # None
              /\ users'[x].email = users[x].email
              /\ users'[x].verified = users[x].verified
              /\ users'[x].chat = users[x].chat
<1> USE DEF IInv, TypeOK
<1>1. users[u] \in Row /\ users'[u] = [users[u] EXCEPT !.wallet = w]
  OBVIOUS
<1>2. users'[u] \in Row
  BY <1>1 DEF Row
<1>3. /\ users'[u].wallet = w
      /\ users'[u].email = users[u].email
      /\ users'[u].verified = users[u].verified
      /\ users'[u].chat = users[u].chat
  BY <1>1 DEF Row
<1> QED
  BY <1>2, <1>3, AccountsAssumption

\* A chat that is unlinked changes a user's chat, and nothing else.
LEMMA ChatUnset ==
  ASSUME IInv, NEW u \in User, users[u] # None, UnlinkTelegram(u)
  PROVE  /\ users' \in [User -> Row \cup {None}]
         /\ users'[u].chat = None
         /\ \A x \in User : x # u => users'[x] = users[x]
         /\ \A x \in User : users[x] # None =>
              /\ users'[x] # None
              /\ users'[x].wallet = users[x].wallet
              /\ users'[x].email = users[x].email
              /\ users'[x].verified = users[x].verified
<1> USE DEF IInv, TypeOK
<1>1. users[u] \in Row /\ users'[u] = [users[u] EXCEPT !.chat = None]
  BY DEF UnlinkTelegram
<1>2. users'[u] \in Row
  BY <1>1 DEF Row
<1>3. /\ users'[u].chat = None
      /\ users'[u].wallet = users[u].wallet
      /\ users'[u].email = users[u].email
      /\ users'[u].verified = users[u].verified
  BY <1>1 DEF Row
<1> QED
  BY <1>2, <1>3, AccountsAssumption DEF UnlinkTelegram

-----------------------------------------------------------------------------
(* Tokens *)

\* A nonce is made for nobody.
LEMMA NonceStep ==
  ASSUME IInv, NEW t \in Token, Nonce(t)
  PROVE  IInv'
<1> USE AccountsAssumption DEF IInv, TypeOK, Owns, request, Goes
<1>1. TypeOK'
  BY DEF Nonce, CreateToken, OneTimeToken, Purpose
<1>2. TokensInOrder'
  BY DEF Nonce, CreateToken, TokensInOrder
<1>3. TokenKnown'
  BY DEF Nonce, CreateToken, TokenKnown
<1>4. UserKnown'
  BY DEF Nonce, CreateToken, UserKnown
<1>5. SpentOnce'
  BY DEF Nonce, CreateToken, SpentOnce
<1>6. VerifiedWasConfirmed'
  BY DEF Nonce, CreateToken, TokensInOrder, VerifiedWasConfirmed
<1>7. ChatIsTheirs'
  BY DEF Nonce, CreateToken, ChatIsTheirs
<1> QED
  BY <1>1, <1>2, <1>3, <1>4, <1>5, <1>6, <1>7

\* A code is made for a user.
LEMMA LinkCodeStep ==
  ASSUME IInv, NEW u \in User, NEW t \in Token, LinkCode(u, t)
  PROVE  IInv'
<1> USE AccountsAssumption DEF IInv, TypeOK, Owns, request, Goes
<1>1. TypeOK'
  BY DEF LinkCode, CreateToken, OneTimeToken, Purpose
<1>2. TokensInOrder'
  BY DEF LinkCode, CreateToken, TokensInOrder
<1>3. TokenKnown'
  BY DEF LinkCode, CreateToken, TokenKnown
<1>4. UserKnown'
  BY DEF LinkCode, CreateToken, UserKnown
<1>5. SpentOnce'
  BY DEF LinkCode, CreateToken, SpentOnce
<1>6. VerifiedWasConfirmed'
  BY DEF LinkCode, CreateToken, TokensInOrder, VerifiedWasConfirmed
<1>7. ChatIsTheirs'
  BY DEF LinkCode, CreateToken, ChatIsTheirs
<1> QED
  BY <1>1, <1>2, <1>3, <1>4, <1>5, <1>6, <1>7

\* A token expires.
LEMMA ExpireStep ==
  ASSUME IInv, NEW t \in Token, Expire(t)
  PROVE  IInv'
<1> USE AccountsAssumption DEF IInv, TypeOK, Owns, request, Goes
<1>1. TypeOK'
  BY DEF Expire, OneTimeToken
<1>2. TokensInOrder'
  BY DEF Expire, TokensInOrder
<1>3. TokenKnown'
  BY DEF Expire, TokenKnown, OneTimeToken
<1>4. UserKnown'
  BY DEF Expire, UserKnown
<1>5. SpentOnce'
  BY DEF Expire, SpentOnce
<1>6. VerifiedWasConfirmed'
  BY DEF Expire, VerifiedWasConfirmed
<1>7. ChatIsTheirs'
  BY DEF Expire, ChatIsTheirs, OneTimeToken
<1> QED
  BY <1>1, <1>2, <1>3, <1>4, <1>5, <1>6, <1>7

\* A token is made for the address that was stored.
LEMMA MailTokenStep ==
  ASSUME IInv, NEW r \in Request, NEW t \in Token, MailToken(r, t)
  PROVE  IInv'
<1> USE AccountsAssumption DEF IInv, TypeOK, Owns, request, Goes
<1>1. TypeOK'
  BY DEF MailToken, CreateToken, At, OneTimeToken, Purpose, UserKnown
<1>2. TokensInOrder'
  BY DEF MailToken, CreateToken, TokensInOrder, UserKnown
<1>3. TokenKnown'
  BY DEF MailToken, CreateToken, TokenKnown
<1>4. UserKnown'
  BY DEF MailToken, CreateToken, UserKnown
<1>5. SpentOnce'
  BY DEF MailToken, CreateToken, SpentOnce
<1>6. VerifiedWasConfirmed'
  BY DEF MailToken, CreateToken, TokensInOrder, VerifiedWasConfirmed
<1>7. ChatIsTheirs'
  BY DEF MailToken, CreateToken, ChatIsTheirs
<1> QED
  BY <1>1, <1>2, <1>3, <1>4, <1>5, <1>6, <1>7

\* A request presents a token of the purpose it is meant for.
LEMMA PresentStep ==
  ASSUME IInv, NEW r \in Request, NEW t \in Token, NEW u \in User \cup {None},
         NEW purpose \in Purpose, NEW x \in Wallet \cup Chat \cup {None},
         u # None => users[u] # None,
         x \in Chat => purpose = "telegram_link",
         x = None => purpose = "email_verify",
         Present(r, t, purpose, x, u)
  PROVE  IInv'
<1> USE AccountsAssumption DEF IInv, TypeOK, Owns, request, Goes
<1>1. TypeOK'
  BY DEF Present, At
<1>2. TokensInOrder'
  BY DEF Present, TokensInOrder
<1>3. TokenKnown'
  BY DEF Present, TokenKnown
<1>4. UserKnown'
  BY DEF Present, UserKnown
<1>5. SpentOnce'
  BY DEF Present, SpentOnce
<1>6. VerifiedWasConfirmed'
  BY DEF Present, VerifiedWasConfirmed
<1>7. ChatIsTheirs'
  BY DEF Present, TokensInOrder, ChatIsTheirs
<1> QED
  BY <1>1, <1>2, <1>3, <1>4, <1>5, <1>6, <1>7

\* A token is claimed, or turns out to be.
LEMMA ClaimStep ==
  ASSUME IInv, NEW r \in Request, Claim(r)
  PROVE  IInv'
<1> USE AccountsAssumption DEF IInv, TypeOK, Owns, request, Goes
<1>1. token[r] \in Token /\ tokens[token[r]] \in OneTimeToken
  BY DEF Claim, TokenKnown
<1>2. [tokens[token[r]] EXCEPT !.status = "used"] \in OneTimeToken
  BY <1>1 DEF OneTimeToken
<1>3. tokens' \in [Token -> OneTimeToken \cup {None}]
  BY <1>1, <1>2 DEF Claim
<1>4. TypeOK'
  <2>1. at' \in [Request -> At]
    BY DEF Claim, Onwards, At
  <2>2. spent' \in [Token -> SUBSET Request]
    BY DEF Claim
  <2> QED
    BY <1>3, <2>1, <2>2 DEF Claim
<1>5. TokensInOrder'
  BY <1>1, <1>2, <1>3 DEF Claim, Onwards, TokensInOrder, OneTimeToken
<1>6. TokenKnown'
  BY DEF Claim, Onwards, TokenKnown, OneTimeToken
<1>7. UserKnown'
  BY <1>1, <1>2, <1>3 DEF Claim, Onwards, UserKnown
<1>8. SpentOnce'
  BY <1>1, <1>2, <1>3 DEF Claim, Onwards, TokensInOrder, SpentOnce
<1>9. VerifiedWasConfirmed'
  BY DEF Claim, Onwards, TokensInOrder, VerifiedWasConfirmed
<1>10. ChatIsTheirs'
  BY <1>1, <1>2, <1>3 DEF Claim, Onwards, ChatIsTheirs, OneTimeToken
<1> QED
  BY <1>4, <1>5, <1>6, <1>7, <1>8, <1>9, <1>10

-----------------------------------------------------------------------------
(* Sign-in *)

\* A guest begins with nothing.
LEMMA GuestStep ==
  ASSUME IInv, NEW u \in User, Guest(u)
  PROVE  IInv'
<1> USE AccountsAssumption DEF IInv, TypeOK, Owns, request, Goes
<1>1. TypeOK'
  BY DEF Guest, Account, Row
<1>2. TokensInOrder'
  BY DEF Guest, Account, TokensInOrder
<1>3. TokenKnown'
  BY DEF Guest, Account, TokenKnown
<1>4. UserKnown'
  BY DEF Guest, Account, UserKnown
<1>5. SpentOnce'
  BY DEF Guest, Account, SpentOnce
<1>6. VerifiedWasConfirmed'
  BY DEF Guest, Account, VerifiedWasConfirmed
<1>7. ChatIsTheirs'
  BY DEF Guest, Account, ChatIsTheirs
<1> QED
  BY <1>1, <1>2, <1>3, <1>4, <1>5, <1>6, <1>7

\* What a sign-in reads changes where it goes on, and for whom.
LEMMA SignInReads ==
  ASSUME IInv, NEW r \in Request,
         ReadSession(r) \/ ReadOwner(r) \/ Lose(r) \/ FindWinner(r)
  PROVE  IInv'
<1> USE AccountsAssumption DEF IInv, TypeOK, Owns, request, Goes
<1>1. TypeOK'
  BY DEF ReadSession, ReadOwner, Lose, FindWinner, Taken, At
<1>2. TokensInOrder'
  BY DEF ReadSession, ReadOwner, Lose, FindWinner, Taken, TokensInOrder
<1>3. TokenKnown'
  BY DEF ReadSession, ReadOwner, Lose, FindWinner, Taken, TokenKnown
<1>4. UserKnown'
  BY DEF ReadSession, ReadOwner, Lose, FindWinner, Taken, UserKnown
<1>5. SpentOnce'
  BY DEF ReadSession, ReadOwner, Lose, FindWinner, Taken, SpentOnce
<1>6. VerifiedWasConfirmed'
  BY DEF ReadSession, ReadOwner, Lose, FindWinner, Taken, VerifiedWasConfirmed
<1>7. ChatIsTheirs'
  BY DEF ReadSession, ReadOwner, Lose, FindWinner, Taken, ChatIsTheirs
<1> QED
  BY <1>1, <1>2, <1>3, <1>4, <1>5, <1>6, <1>7

\* A wallet is attached to the user that was read, guest or no more.
LEMMA AttachStep ==
  ASSUME IInv, NEW r \in Request, Attach(r)
  PROVE  IInv'
<1> USE AccountsAssumption DEF IInv, TypeOK, Owns, request, Goes
<1>1. who[r] \in User /\ users[who[r]] # None /\ subject[r] \in Wallet
  BY DEF Attach, UserKnown
<1>2. /\ users' \in [User -> Row \cup {None}]
      /\ users'[who[r]].wallet = subject[r]
      /\ \A x \in User : x # who[r] => users'[x] = users[x]
      /\ \A x \in User : users[x] # None =>
           /\ users'[x] # None
           /\ users'[x].email = users[x].email
           /\ users'[x].verified = users[x].verified
           /\ users'[x].chat = users[x].chat
  BY <1>1, WalletSet DEF Attach
<1>3. TypeOK'
  BY <1>1, <1>2 DEF Attach, At
<1>4. TokensInOrder'
  BY <1>1, <1>2 DEF Attach, TokensInOrder
<1>5. TokenKnown'
  BY <1>1, <1>2 DEF Attach, TokenKnown
<1>6. UserKnown'
  BY <1>1, <1>2 DEF Attach, UserKnown
<1>7. SpentOnce'
  BY <1>1, <1>2 DEF Attach, SpentOnce
<1>8. VerifiedWasConfirmed'
  BY <1>1, <1>2 DEF Attach, VerifiedWasConfirmed
<1>9. ChatIsTheirs'
  BY <1>1, <1>2 DEF Attach, ChatIsTheirs
<1> QED
  BY <1>3, <1>4, <1>5, <1>6, <1>7, <1>8, <1>9

\* A user is created for a wallet.
LEMMA CreateStep ==
  ASSUME IInv, NEW r \in Request, NEW u \in User, Create(r, u)
  PROVE  IInv'
<1> USE AccountsAssumption DEF IInv, TypeOK, Owns, request, Goes
<1>1. TypeOK'
  BY DEF Create, Account, At, Row, UserKnown
<1>2. TokensInOrder'
  BY DEF Create, Account, TokensInOrder
<1>3. TokenKnown'
  BY DEF Create, Account, TokenKnown
<1>4. UserKnown'
  BY DEF Create, Account, UserKnown
<1>5. SpentOnce'
  BY DEF Create, Account, SpentOnce
<1>6. VerifiedWasConfirmed'
  BY DEF Create, Account, VerifiedWasConfirmed
<1>7. ChatIsTheirs'
  BY DEF Create, Account, ChatIsTheirs
<1> QED
  BY <1>1, <1>2, <1>3, <1>4, <1>5, <1>6, <1>7

-----------------------------------------------------------------------------
(* Email addresses *)

\* An address is removed.
LEMMA RemoveEmailStep ==
  ASSUME IInv, NEW u \in User, RemoveEmail(u)
  PROVE  IInv'
<1> USE AccountsAssumption DEF IInv, TypeOK, Owns, request, Goes
<1>1. /\ users' \in [User -> Row \cup {None}]
      /\ overtaken' \subseteq Request
      /\ users'[u].email = None /\ users'[u].verified = FALSE
      /\ \A x \in User : x # u => users'[x] = users[x]
      /\ \A x \in User : users[x] # None =>
           /\ users'[x] # None
           /\ users'[x].wallet = users[x].wallet
           /\ users'[x].chat = users[x].chat
  BY EmailSet DEF RemoveEmail
<1>2. TypeOK'
  BY <1>1 DEF RemoveEmail
<1>3. TokensInOrder'
  BY <1>1 DEF RemoveEmail, TokensInOrder, OneTimeToken
<1>4. TokenKnown'
  BY <1>1 DEF RemoveEmail, TokenKnown
<1>5. UserKnown'
  BY <1>1 DEF RemoveEmail, SetEmail, UserKnown
<1>6. SpentOnce'
  BY <1>1 DEF RemoveEmail, SpentOnce
<1>7. VerifiedWasConfirmed'
  BY <1>1 DEF RemoveEmail, VerifiedWasConfirmed
<1>8. ChatIsTheirs'
  BY <1>1 DEF RemoveEmail, ChatIsTheirs
<1> QED
  BY <1>2, <1>3, <1>4, <1>5, <1>6, <1>7, <1>8

\* An address is stored, unverified.
LEMMA AddEmailStep ==
  ASSUME IInv, NEW r \in Request, NEW u \in User, NEW e \in Email, AddEmail(r, u, e)
  PROVE  IInv'
<1> USE AccountsAssumption DEF IInv, TypeOK, Owns, request, Goes
<1>1. /\ users' \in [User -> Row \cup {None}]
      /\ overtaken' \subseteq Request
      /\ users'[u].email = e /\ users'[u].verified = FALSE
      /\ \A x \in User : x # u => users'[x] = users[x]
      /\ \A x \in User : users[x] # None =>
           /\ users'[x] # None
           /\ users'[x].wallet = users[x].wallet
           /\ users'[x].chat = users[x].chat
  BY EmailSet DEF AddEmail
<1>2. TypeOK'
  BY <1>1 DEF AddEmail, At
<1>3. TokensInOrder'
  BY <1>1 DEF AddEmail, TokensInOrder, OneTimeToken
<1>4. TokenKnown'
  BY <1>1 DEF AddEmail, TokenKnown
<1>5. UserKnown'
  BY <1>1 DEF AddEmail, SetEmail, UserKnown
<1>6. SpentOnce'
  BY <1>1 DEF AddEmail, SpentOnce
<1>7. VerifiedWasConfirmed'
  BY <1>1 DEF AddEmail, VerifiedWasConfirmed
<1>8. ChatIsTheirs'
  BY <1>1 DEF AddEmail, TokensInOrder, ChatIsTheirs
<1> QED
  BY <1>2, <1>3, <1>4, <1>5, <1>6, <1>7, <1>8

\* A confirmation finds the address it is for, or stops.
LEMMA ReadUserStep ==
  ASSUME IInv, NEW r \in Request, ReadUser(r)
  PROVE  IInv'
<1> USE AccountsAssumption DEF IInv, TypeOK, Owns, request, Goes
<1>1. TypeOK'
  BY DEF ReadUser, At, OneTimeToken, TokenKnown
<1>2. TokensInOrder'
  BY DEF ReadUser, TokensInOrder
<1>3. TokenKnown'
  BY DEF ReadUser, TokenKnown
<1>4. UserKnown'
  BY DEF ReadUser, TokensInOrder, TokenKnown, UserKnown, OneTimeToken
<1>5. SpentOnce'
  BY DEF ReadUser, SpentOnce
<1>6. VerifiedWasConfirmed'
  BY DEF ReadUser, VerifiedWasConfirmed
<1>7. ChatIsTheirs'
  BY DEF ReadUser, TokensInOrder, TokenKnown, ChatIsTheirs
<1> QED
  BY <1>1, <1>2, <1>3, <1>4, <1>5, <1>6, <1>7

\* The address that a token was made for is verified.
LEMMA ConfirmStep ==
  ASSUME IInv, NEW r \in Request, Confirm(r)
  PROVE  IInv'
<1> USE AccountsAssumption DEF IInv, TypeOK, Owns, request, Goes
<1>1. who[r] \in User /\ users[who[r]] # None /\ subject[r] \in Email
  BY DEF Confirm, UserKnown
<1>2. /\ users' \in [User -> Row \cup {None}]
      /\ overtaken' \subseteq Request
      /\ users'[who[r]].email = subject[r] /\ users'[who[r]].verified = TRUE
      /\ \A x \in User : x # who[r] => users'[x] = users[x]
      /\ \A x \in User : users[x] # None =>
           /\ users'[x] # None
           /\ users'[x].wallet = users[x].wallet
           /\ users'[x].chat = users[x].chat
  BY <1>1, EmailSet DEF Confirm
<1>3. TypeOK'
  BY <1>1, <1>2 DEF Confirm, At
<1>4. TokensInOrder'
  BY <1>1, <1>2 DEF Confirm, TokensInOrder, OneTimeToken
<1>5. TokenKnown'
  BY <1>1, <1>2 DEF Confirm, TokenKnown
<1>6. UserKnown'
  BY <1>1, <1>2 DEF Confirm, SetEmail, UserKnown
<1>7. SpentOnce'
  BY <1>1, <1>2 DEF Confirm, SpentOnce
<1>8. VerifiedWasConfirmed'
  BY <1>1, <1>2 DEF Confirm, TokenKnown, VerifiedWasConfirmed
<1>9. ChatIsTheirs'
  BY <1>1, <1>2 DEF Confirm, ChatIsTheirs
<1> QED
  BY <1>3, <1>4, <1>5, <1>6, <1>7, <1>8, <1>9

-----------------------------------------------------------------------------
(* Chats *)

\* A user unlinks a chat.
LEMMA UnlinkStep ==
  ASSUME IInv, NEW u \in User, Unlink(u)
  PROVE  IInv'
<1> USE AccountsAssumption DEF IInv, TypeOK, Owns, request, Goes
<1>1. /\ users' \in [User -> Row \cup {None}]
      /\ users'[u].chat = None
      /\ \A x \in User : x # u => users'[x] = users[x]
      /\ \A x \in User : users[x] # None =>
           /\ users'[x] # None
           /\ users'[x].wallet = users[x].wallet
           /\ users'[x].email = users[x].email
           /\ users'[x].verified = users[x].verified
  BY ChatUnset DEF Unlink
<1>2. TypeOK'
  BY <1>1 DEF Unlink
<1>3. TokensInOrder'
  BY <1>1 DEF Unlink, TokensInOrder, OneTimeToken
<1>4. TokenKnown'
  BY <1>1 DEF Unlink, TokenKnown
<1>5. UserKnown'
  BY <1>1 DEF Unlink, UserKnown
<1>6. SpentOnce'
  BY <1>1 DEF Unlink, SpentOnce
<1>7. VerifiedWasConfirmed'
  BY <1>1 DEF Unlink, VerifiedWasConfirmed
<1>8. ChatIsTheirs'
  BY <1>1 DEF Unlink, ChatIsTheirs
<1> QED
  BY <1>2, <1>3, <1>4, <1>5, <1>6, <1>7, <1>8

\* A chat is unlinked from the user it belonged to when it asked.
LEMMA StoppedStep ==
  ASSUME IInv, NEW r \in Request, Stopped(r)
  PROVE  IInv'
<1> USE AccountsAssumption DEF IInv, TypeOK, Owns, request, Goes
<1>1. who[r] \in User /\ users[who[r]] # None
  BY DEF Stopped, UserKnown
<1>2. /\ users' \in [User -> Row \cup {None}]
      /\ users'[who[r]].chat = None
      /\ \A x \in User : x # who[r] => users'[x] = users[x]
      /\ \A x \in User : users[x] # None =>
           /\ users'[x] # None
           /\ users'[x].wallet = users[x].wallet
           /\ users'[x].email = users[x].email
           /\ users'[x].verified = users[x].verified
  BY <1>1, ChatUnset DEF Stopped
<1>3. TypeOK'
  BY <1>1, <1>2 DEF Stopped, At
<1>4. TokensInOrder'
  BY <1>1, <1>2 DEF Stopped, TokensInOrder, OneTimeToken
<1>5. TokenKnown'
  BY <1>1, <1>2 DEF Stopped, TokenKnown
<1>6. UserKnown'
  BY <1>1, <1>2 DEF Stopped, UserKnown
<1>7. SpentOnce'
  BY <1>1, <1>2 DEF Stopped, SpentOnce
<1>8. VerifiedWasConfirmed'
  BY <1>1, <1>2 DEF Stopped, VerifiedWasConfirmed
<1>9. ChatIsTheirs'
  <2> SUFFICES ASSUME NEW u \in User, users'[u] # None, users'[u].chat # None
               PROVE  /\ users'[u] = users[u]
                      /\ \A v \in User : users'[v] # None /\ users'[v].chat = users[u].chat =>
                           users'[v] = users[v]
    BY DEF Stopped, ChatIsTheirs
  <2> QED
    BY <1>1, <1>2
<1> QED
  BY <1>3, <1>4, <1>5, <1>6, <1>7, <1>8, <1>9

\* A chat is linked to the user whose code it presented, and to no other.
LEMMA LinkTelegramStep ==
  ASSUME IInv, NEW r \in Request, LinkTelegram(r)
  PROVE  IInv'
<1> USE AccountsAssumption DEF IInv, TypeOK, Owns, request, Goes
<1>1. subject[r] \in Chat /\ token[r] \in Token /\ tokens[token[r]] \in OneTimeToken
  BY DEF LinkTelegram, TokenKnown
<1>2. /\ users' \in [User -> Row \cup {None}]
      /\ \A x \in User : users[x] # None =>
           /\ users'[x] # None
           /\ users'[x].wallet = users[x].wallet
           /\ users'[x].email = users[x].email
           /\ users'[x].verified = users[x].verified
      /\ \A x \in User : users[x] = None => users'[x] = None
  BY <1>1 DEF LinkTelegram, TokensInOrder, Row, OneTimeToken
<1>3. TypeOK'
  BY <1>1, <1>2 DEF LinkTelegram, At, Row, OneTimeToken, Purpose, TokenKnown, UserKnown
<1>4. TokensInOrder'
  BY <1>1, <1>2 DEF LinkTelegram, TokensInOrder, TokenKnown, UserKnown, OneTimeToken
<1>5. TokenKnown'
  BY <1>1, <1>2 DEF LinkTelegram, TokensInOrder, TokenKnown, UserKnown, OneTimeToken,
                    Purpose
<1>6. UserKnown'
  BY <1>1, <1>2 DEF LinkTelegram, TokensInOrder, TokenKnown, UserKnown, OneTimeToken
<1>7. SpentOnce'
  BY <1>1, <1>2 DEF LinkTelegram, TokensInOrder, SpentOnce
<1>8. VerifiedWasConfirmed'
  BY <1>1, <1>2 DEF LinkTelegram, TokensInOrder, TokenKnown, UserKnown,
                    VerifiedWasConfirmed, OneTimeToken
<1>9. ChatIsTheirs'
  <2>1. CASE tokens[token[r]].user = None
    BY <2>1 DEF LinkTelegram, ChatIsTheirs
  <2>2. CASE tokens[token[r]].user # None
    <3> DEFINE u == tokens[token[r]].user
    <3>1. u \in User /\ users[u] # None
      BY <1>1, <2>2 DEF TokensInOrder, OneTimeToken, LinkTelegram, TokenKnown
    <3>2. users'[u].chat = subject[r]
      BY <2>2, <3>1 DEF LinkTelegram, Row
    <3>3. \A v \in User : v # u /\ users'[v] # None /\ users'[v].chat # None =>
             users'[v].chat = users[v].chat /\ users[v] # None /\ users'[v].chat # subject[r]
      BY <1>1, <2>2 DEF LinkTelegram, Row
    <3>4. /\ token[r] \in Token /\ tokens[token[r]] # None
          /\ tokens[token[r]].purpose = "telegram_link" /\ r \in spent[token[r]]
      BY DEF LinkTelegram, TokenKnown
    <3> QED
      BY <3>1, <3>2, <3>3, <3>4 DEF LinkTelegram, ChatIsTheirs
  <2> QED
    BY <2>1, <2>2
<1> QED
  BY <1>3, <1>4, <1>5, <1>6, <1>7, <1>8, <1>9

\* A request looks up a chat, or is given up.
LEMMA EndSteps ==
  ASSUME IInv, NEW r \in Request, (\E c \in Chat : Stop(r, c)) \/ Abandon(r)
  PROVE  IInv'
<1> USE AccountsAssumption DEF IInv, TypeOK, Owns, request, Goes
<1>1. TypeOK'
  BY DEF Stop, Abandon, Ended, At, Row, OneTimeToken, Purpose, TokenKnown, UserKnown
<1>2. TokensInOrder'
  BY DEF Stop, Abandon, Ended, TokensInOrder, TokenKnown, UserKnown, OneTimeToken
<1>3. TokenKnown'
  BY DEF Stop, Abandon, Ended, TokensInOrder, TokenKnown, UserKnown, OneTimeToken,
         Purpose
<1>4. UserKnown'
  BY DEF Stop, Abandon, Ended, TokensInOrder, TokenKnown, UserKnown, OneTimeToken
<1>5. SpentOnce'
  BY DEF Stop, Abandon, Ended, TokensInOrder, SpentOnce
<1>6. VerifiedWasConfirmed'
  BY DEF Stop, Abandon, Ended, TokensInOrder, TokenKnown, UserKnown,
         VerifiedWasConfirmed, OneTimeToken
<1>7. ChatIsTheirs'
  BY DEF Stop, Abandon, Ended, TokensInOrder, TokenKnown, UserKnown, ChatIsTheirs,
         OneTimeToken
<1> QED
  BY <1>1, <1>2, <1>3, <1>4, <1>5, <1>6, <1>7

-----------------------------------------------------------------------------
LEMMA Step == IInv /\ [Next]_vars => IInv'
<1> SUFFICES ASSUME IInv, [Next]_vars PROVE IInv'
  OBVIOUS
<1>1. CASE UNCHANGED vars
  BY <1>1, Idle
<1>2. ASSUME NEW u \in User, Guest(u) \/ RemoveEmail(u) \/ Unlink(u) PROVE IInv'
  BY <1>2, GuestStep, RemoveEmailStep, UnlinkStep
<1>3. ASSUME NEW t \in Token, Expire(t) \/ Nonce(t) \/ \E u \in User : LinkCode(u, t)
      PROVE  IInv'
  <2>1. CASE \E u \in User : LinkCode(u, t)
    BY <2>1, LinkCodeStep
  <2>2. CASE Expire(t)
    BY <2>2, ExpireStep
  <2>3. CASE Nonce(t)
    BY <2>3, NonceStep
  <2> QED
    BY <1>3, <2>1, <2>2, <2>3
<1>4. ASSUME NEW r \in Request, NEW t \in Token PROVE
        /\ \A w \in Wallet, u \in User \cup {None} : Verify(r, t, w, u) => IInv'
        /\ \A c \in Chat : Link(r, t, c) => IInv'
        /\ VerifyEmail(r, t) => IInv'
        /\ MailToken(r, t) => IInv'
  <2>1. ASSUME NEW w \in Wallet, NEW u \in User \cup {None}, Verify(r, t, w, u) PROVE IInv'
    BY <2>1, PresentStep, AccountsAssumption DEF Verify, Purpose
  <2>2. ASSUME NEW c \in Chat, Link(r, t, c) PROVE IInv'
    BY <2>2, PresentStep, AccountsAssumption DEF Link, Purpose
  <2>3. ASSUME VerifyEmail(r, t) PROVE IInv'
    BY <2>3, PresentStep, AccountsAssumption DEF VerifyEmail, Purpose
  <2> QED
    BY <2>1, <2>2, <2>3, MailTokenStep
<1>5. ASSUME NEW r \in Request PROVE
        /\ \A u \in User : Create(r, u) => IInv'
        /\ \A u \in User, e \in Email : AddEmail(r, u, e) => IInv'
        /\ Claim(r) \/ ReadSession(r) \/ ReadOwner(r) \/ Attach(r) \/ Lose(r) \/ FindWinner(r) => IInv'
        /\ ReadUser(r) \/ Confirm(r) \/ LinkTelegram(r) \/ Stopped(r) \/ Abandon(r) => IInv'
        /\ (\E c \in Chat : Stop(r, c)) => IInv'
  BY CreateStep, AddEmailStep, ClaimStep, SignInReads, AttachStep, ReadUserStep, ConfirmStep,
     LinkTelegramStep, StoppedStep, EndSteps
<1> QED
  BY <1>1, <1>2, <1>3, <1>4, <1>5 DEF Next

-----------------------------------------------------------------------------
\* What Accounts keeps at all times: what each request knows of its token and of the
\* user it acts for.
THEOREM Invariance == Spec => []IInv
  BY Start, Step, PTL DEF Spec

\* A link, a nonce or a code works once (repo.ts:217-226).
THEOREM SingleUse == Spec => []SpentOnce
<1>1. IInv => SpentOnce
  BY DEF IInv
<1> QED
  BY <1>1, Invariance, PTL

\* What counts as verified was confirmed, for this user and this address
\* (channels.ts:58-92).
THEOREM Verified == Spec => []VerifiedWasConfirmed
<1>1. IInv => VerifiedWasConfirmed
  BY DEF IInv
<1> QED
  BY <1>1, Invariance, PTL

\* A chat gets the alerts of the one user whose code it presented
\* (internal.ts:14-21, repo.ts:228-233).
THEOREM Chats == Spec => []ChatIsTheirs
<1>1. IInv => ChatIsTheirs
  BY DEF IInv
<1> QED
  BY <1>1, Invariance, PTL

\* Of a row that is there, the wallet is changed by attaching one, and the address to
\* a verified one by a confirmation.
LEMMA RowsKept ==
  ASSUME IInv, Next, NEW u \in User, users[u] # None
  PROVE  /\ users'[u] # None
         /\ users'[u].wallet # users[u].wallet => \E r \in Request : Attach(r) /\ who[r] = u
         /\ users'[u].email # users[u].email /\ users'[u].verified =>
              \E r \in Request : Confirm(r) /\ who[r] = u
<1>1. CASE users' = users
  BY <1>1
<1>2. ASSUME NEW x \in User, Guest(x) PROVE users'[u] = users[u]
  BY <1>2 DEF Guest, IInv, TypeOK
<1>3. ASSUME NEW x \in User, NEW e \in Email \cup {None}, users[x] # None, SetEmail(x, e, FALSE)
      PROVE  /\ users'[u] # None /\ users'[u].wallet = users[u].wallet
             /\ users'[u] = users[u] \/ users'[u].verified = FALSE
  BY <1>3, EmailSet
<1>4. ASSUME NEW r \in Request, Confirm(r)
      PROVE  /\ users'[u] # None /\ users'[u].wallet = users[u].wallet
             /\ who[r] # u => users'[u] = users[u]
  <2>1. who[r] \in User /\ users[who[r]] # None /\ subject[r] \in Email
    BY <1>4 DEF Confirm, IInv, TypeOK, UserKnown
  <2> QED
    BY <1>4, <2>1, EmailSet DEF Confirm
<1>5. ASSUME NEW x \in User, users[x] # None, UnlinkTelegram(x)
      PROVE  /\ users'[u] # None /\ users'[u].wallet = users[u].wallet
             /\ users'[u].email = users[u].email
  BY <1>5, ChatUnset
<1>6. ASSUME NEW r \in Request, LinkTelegram(r)
      PROVE  /\ users'[u] # None /\ users'[u].wallet = users[u].wallet
             /\ users'[u].email = users[u].email
  <2>1. subject[r] \in Chat
    BY <1>6 DEF LinkTelegram, IInv, TokenKnown
  <2> QED
    BY <1>6, <2>1, AccountsAssumption DEF LinkTelegram, IInv, TypeOK, Row
<1>7. ASSUME NEW r \in Request, Attach(r)
      PROVE  /\ users'[u] # None /\ users'[u].email = users[u].email
             /\ who[r] # u => users'[u] = users[u]
  <2>1. who[r] \in User /\ users[who[r]] # None /\ subject[r] \in Wallet
    BY <1>7 DEF Attach, IInv, TypeOK, UserKnown
  <2> QED
    BY <1>7, <2>1, WalletSet DEF Attach
<1>8. ASSUME NEW r \in Request, NEW x \in User, Create(r, x) PROVE users'[u] = users[u]
  BY <1>8 DEF Create, IInv, TypeOK
<1>9. ASSUME NEW r \in Request, Stopped(r)
      PROVE  who[r] \in User /\ users[who[r]] # None /\ UnlinkTelegram(who[r])
  BY <1>9 DEF Stopped, IInv, TypeOK, UserKnown
<1>10. CASE \E x \in User : Guest(x) \/ RemoveEmail(x) \/ Unlink(x)
  BY <1>2, <1>3, <1>5, <1>10 DEF RemoveEmail, Unlink
<1>11. CASE \E t \in Token : Expire(t) \/ Nonce(t) \/ \E x \in User : LinkCode(x, t)
  BY <1>1, <1>11 DEF Expire, Nonce, LinkCode
<1>12. CASE \E r \in Request, t \in Token :
              \/ \E w \in Wallet, x \in User \cup {None} : Verify(r, t, w, x)
              \/ \E c \in Chat : Link(r, t, c)
              \/ VerifyEmail(r, t) \/ MailToken(r, t)
  BY <1>1, <1>12 DEF Verify, Link, VerifyEmail, Present, MailToken
<1>13. CASE \E r \in Request :
              \/ Claim(r) \/ ReadSession(r) \/ ReadOwner(r) \/ Lose(r) \/ FindWinner(r)
              \/ ReadUser(r) \/ Abandon(r) \/ \E c \in Chat : Stop(r, c)
  BY <1>1, <1>13 DEF Claim, ReadSession, ReadOwner, Lose, FindWinner, ReadUser, Abandon,
                     Stop
<1>14. CASE \E r \in Request :
              \/ Attach(r) \/ Confirm(r) \/ LinkTelegram(r) \/ Stopped(r)
              \/ \E x \in User : Create(r, x)
  BY <1>4, <1>5, <1>6, <1>7, <1>8, <1>9, <1>14
<1>15. CASE \E r \in Request, x \in User, e \in Email : AddEmail(r, x, e)
  BY <1>3, <1>15 DEF AddEmail
<1> QED
  BY <1>10, <1>11, <1>12, <1>13, <1>14, <1>15 DEF Next

\* A wallet loses its user only to a sign-in that read the user as a guest before
\* (auth.ts:79-93).
THEOREM DurableWallets == Spec => WalletKeepsItsUser
<1>1. ASSUME IInv, Next, NEW u \in User, NEW w \in Wallet, Owns(u, w), ~Owns(u, w)'
      PROVE  \E r \in overtaken : at[r] = "attaching" /\ who[r] = u /\ at'[r] = "done"
  <2>1. users[u] # None /\ users[u].wallet = w /\ users'[u].wallet # w
    BY <1>1, RowsKept DEF Owns
  <2>2. PICK r \in Request : Attach(r) /\ who[r] = u
    BY <1>1, <2>1, RowsKept
  <2>3. ~Owns(u, None)
    BY <2>1, AccountsAssumption DEF Owns
  <2>4. at[r] = "attaching" /\ at'[r] = "done"
    BY <1>1, <2>2 DEF Attach, Goes, IInv, TypeOK
  <2>5. r \in overtaken
    BY <1>1, <2>2, <2>3, <2>4 DEF IInv, UserKnown
  <2> QED
    BY <2>2, <2>4, <2>5
<1>2. IInv /\ [Next]_vars =>
        [\A u \in User, w \in Wallet :
           Owns(u, w) /\ ~Owns(u, w)' =>
             \E r \in overtaken : at[r] = "attaching" /\ who[r] = u /\ at'[r] = "done"]_vars
  BY <1>1
<1> QED
  BY <1>2, Invariance, PTL DEF Spec, WalletKeepsItsUser

\* An old confirmation link brings no address back, but for one in use at the moment of
\* the change (channels.ts:83-91).
THEOREM DeadLinks == Spec => OldLinksAreDead
<1>1. ASSUME IInv, Next, NEW u \in User,
             users[u] # None, users'[u].verified, users'[u].email # users[u].email
      PROVE  \E r \in overtaken : at[r] = "verifying" /\ who[r] = u /\ at'[r] = "done"
  <2>1. PICK r \in Request : Confirm(r) /\ who[r] = u
    BY <1>1, RowsKept
  <2>2. at[r] = "verifying" /\ at'[r] = "done"
    BY <1>1, <2>1 DEF Confirm, Goes, IInv, TypeOK
  <2>3. subject[r] \in Email
    BY <1>1, <2>2 DEF IInv, UserKnown
  <2>4. users'[u].email = subject[r]
    BY <1>1, <2>1, <2>3, EmailSet DEF Confirm
  <2>5. r \in overtaken
    BY <1>1, <2>1, <2>2, <2>4 DEF IInv, UserKnown
  <2> QED
    BY <2>1, <2>2, <2>5
<1>2. IInv /\ [Next]_vars =>
        [\A u \in User :
           users[u] # None /\ users'[u].verified /\ users'[u].email # users[u].email =>
             \E r \in overtaken : at[r] = "verifying" /\ who[r] = u /\ at'[r] = "done"]_vars
  BY <1>1
<1> QED
  BY <1>2, Invariance, PTL DEF Spec, OldLinksAreDead

\* Addresses and chats are their users' own.
THEOREM Links == Spec => []LinksAreTheirs
BY Verified, Chats, PTL DEF LinksAreTheirs

\* Only a request that was overtaken takes a wallet's user or brings an address back.
THEOREM OnlyRaces == Spec => OnlyOvertakenUndo
BY DurableWallets, DeadLinks DEF OnlyOvertakenUndo

-----------------------------------------------------------------------------
(* Settings: preferences *)

LEMMA SettingsBegin == SettingsInit => SettingsIInv
<1> SUFFICES ASSUME SettingsInit PROVE SettingsIInv
  OBVIOUS
<1>1. SettingsTypeOK
  BY SettingsAssumption DEF SettingsInit, SettingsTypeOK
<1> QED
  BY <1>1 DEF SettingsInit, SettingsIInv, DraftExplained, RoomSeen, PatchExplained

\* What is about push only leaves the preferences alone, and the other way round.
LEMMA PreferencesKept ==
  ASSUME SettingsIInv, UNCHANGED preferences
  PROVE  /\ \A w \in Window : DraftExplained(w)'
         /\ \A w \in Window, lane \in Lane : PatchExplained(w, lane)'
BY DEF SettingsIInv, preferences, DraftExplained, PatchExplained

LEMMA ChannelsKept ==
  ASSUME SettingsIInv, UNCHANGED channels
  PROVE  \A w \in Window : RoomSeen(w)'
BY DEF SettingsIInv, channels, RoomSeen

LEMMA SheetStep ==
  ASSUME SettingsIInv, NEW w \in Window,
         \/ OpenSheet(w) \/ CloseSheet(w) \/ \E f \in Sheet, v \in Value : Move(w, f, v)
  PROVE  SettingsIInv'
<1> USE SettingsAssumption DEF SettingsIInv
<1>1. UNCHANGED channels /\ UNCHANGED requests
  BY DEF OpenSheet, CloseSheet, Move
<1>2. \A x \in Window : RoomSeen(x)'
  BY <1>1, ChannelsKept
<1>3. \A x \in Window, lane \in Lane : PatchExplained(x, lane)'
  BY <1>1 DEF PatchExplained
<1>4. CASE OpenSheet(w)
  <2>1. draftFrom(me[w]) \in [Sheet -> Value]
    BY DEF draftFrom, Restrict, SettingsTypeOK, Prefs, Field
  <2>2. SettingsTypeOK'
    BY <1>4, <2>1 DEF OpenSheet, Click, SettingsTypeOK, channels
  <2>3. \A x \in Window : DraftExplained(x)'
    BY <1>4, <2>1 DEF OpenSheet, DraftExplained, draftFrom, Restrict, SettingsTypeOK
  <2> QED
    BY <1>2, <1>3, <2>2, <2>3
<1>5. CASE CloseSheet(w)
  <2>1. SettingsTypeOK'
    BY <1>5 DEF CloseSheet, SettingsTypeOK, channels
  <2>2. \A x \in Window : DraftExplained(x)'
    BY <1>5 DEF CloseSheet, DraftExplained, SettingsTypeOK
  <2> QED
    BY <1>2, <1>3, <2>1, <2>2
<1>6. CASE \E f \in Sheet, v \in Value : Move(w, f, v)
  <2>1. PICK f \in Sheet, v \in Value : Move(w, f, v)
    BY <1>6
  <2>2. draft[w] \in [Sheet -> Value]
    BY <2>1 DEF Move, SettingsTypeOK
  <2>3. SettingsTypeOK'
    BY <2>1, <2>2 DEF Move, Click, SettingsTypeOK, channels, Field
  <2>4. \A x \in Window : DraftExplained(x)'
    BY <2>1, <2>2 DEF Move, DraftExplained, SettingsTypeOK, Field
  <2> QED
    BY <1>2, <1>3, <2>3, <2>4
<1> QED
  BY <1>4, <1>5, <1>6

\* A request that carries what it may carry.
LEMMA SendStep ==
  ASSUME SettingsIInv, NEW w \in Window, NEW lane \in Lane, NEW patch,
         NEW chosen \in SUBSET Field, NEW told \in SUBSET Field,
         patch \in Patch \cup {Null},
         lane # "me" => patch # Null /\ DOMAIN patch \subseteq chosen \cup told,
         Click, Send(w, lane, patch, chosen, told)
  PROVE  SettingsIInv'
<1> USE SettingsAssumption DEF SettingsIInv
<1> DEFINE r == [at |-> "sent", patch |-> patch, row |-> Null, chosen |-> chosen, told |-> told]
<1>1. r \in SaveRequest
  BY DEF SaveRequest
<1>2. requests' = [requests EXCEPT ![<<w, lane>>] = r] /\ UNCHANGED <<prefs, me, draft, touched, learned, channels>>
  BY DEF Send
<1> HIDE DEF r
<1>3. SettingsTypeOK'
  BY <1>1, <1>2 DEF SettingsTypeOK, channels, Click
<1>4. \A x \in Window : RoomSeen(x)'
  BY <1>2, ChannelsKept
<1>5. \A x \in Window : DraftExplained(x)'
  BY <1>2 DEF DraftExplained
<1>6. ASSUME NEW x \in Window, NEW l \in Lane
      PROVE  PatchExplained(x, l)'
  <2>1. CASE x = w /\ l = lane
    <3>1. requests'[<<w, lane>>] = r
      BY <1>2 DEF SettingsTypeOK
    <3> QED
      BY <2>1, <3>1 DEF PatchExplained, r
  <2>2. CASE ~(x = w /\ l = lane)
    <3>1. requests'[<<x, l>>] = requests[<<x, l>>]
      BY <1>2, <2>2 DEF SettingsTypeOK
    <3> QED
      BY <3>1 DEF PatchExplained
  <2> QED
    BY <2>1, <2>2
<1> QED
  BY <1>3, <1>4, <1>5, <1>6

LEMMA SavesStep ==
  ASSUME SettingsIInv, NEW w \in Window,
         \/ Submit(w) \/ Raise(w) \/ Focus(w) \/ \E f \in Switch, v \in Value : Toggle(w, f, v)
  PROVE  SettingsIInv'
<1> USE SettingsAssumption
<1>1. CASE Submit(w)
  <2> DEFINE patch == Restrict(draft[w], Changed(w))
  <2>1. draft[w] \in [Sheet -> Value] /\ Changed(w) \subseteq Sheet /\ Sheet \subseteq Field
    BY <1>1 DEF Submit, SettingsIInv, SettingsTypeOK, Changed, Field
  <2>2. patch \in [Changed(w) -> Value] /\ DOMAIN patch = Changed(w)
    BY <2>1 DEF Restrict
  <2>3. Changed(w) \subseteq touched[w] \cup learned[w]
    BY <1>1 DEF Submit, Changed, SettingsIInv, DraftExplained
  <2>4. touched[w] \in SUBSET Field /\ learned[w] \in SUBSET Field
    BY DEF SettingsIInv, SettingsTypeOK
  <2>5. patch \in Patch /\ patch # Null
    BY <2>1, <2>2 DEF Patch
  <2>6. Click /\ Send(w, "form", patch, touched[w], learned[w])
    BY <1>1 DEF Submit
  <2> HIDE DEF patch
  <2>7. "form" \in Lane
    BY DEF Lane
  <2> QED
    BY <2>2, <2>3, <2>4, <2>5, <2>6, <2>7, SendStep
<1>2. CASE Raise(w)
  <2> DEFINE patch == [x \in {Raised.field} |-> Raised.value]
  <2>1. /\ patch \in [{Raised.field} -> Value]
        /\ Raised.field \in Field
        /\ DOMAIN patch \subseteq {Raised.field} \cup {}
    BY DEF Field
  <2>2. patch \in Patch /\ patch # Null
    BY <2>1 DEF Patch
  <2>3. Click /\ Send(w, "raise", patch, {Raised.field}, {})
    BY <1>2 DEF Raise
  <2> HIDE DEF patch
  <2>4. "raise" \in Lane /\ {Raised.field} \in SUBSET Field /\ {} \in SUBSET Field
    BY <2>1 DEF Lane
  <2> QED
    BY <2>1, <2>2, <2>3, <2>4, SendStep
<1>3. CASE Focus(w)
  <2> DEFINE patch == Null
  <2>3. patch \in Patch \cup {Null}
    <3>1. \A T : Null \in T \cup {Null}
      OBVIOUS
    <3> QED
      BY <3>1
  <2>1. Click /\ Send(w, "me", patch, {}, {})
    BY <1>3 DEF Focus
  <2> HIDE DEF patch
  <2>2. "me" \in Lane /\ {} \in SUBSET Field
    BY DEF Lane
  <2> QED
    BY <2>1, <2>2, <2>3, SendStep
<1>4. ASSUME NEW f \in Switch, NEW v \in Value, Toggle(w, f, v)
      PROVE  SettingsIInv'
  <2> DEFINE patch == [x \in {f} |-> v]
  <2>1. patch \in [{f} -> Value] /\ f \in Field /\ DOMAIN patch \subseteq {f} \cup {}
    BY DEF Field
  <2>2. patch \in Patch /\ patch # Null
    BY <2>1 DEF Patch
  <2>3. Click /\ Send(w, "switch", patch, {f}, {})
    BY <1>4 DEF Toggle
  <2> HIDE DEF patch
  <2>4. "switch" \in Lane /\ {f} \in SUBSET Field /\ {} \in SUBSET Field
    BY <2>1 DEF Lane
  <2> QED
    BY <2>1, <2>2, <2>3, <2>4, SendStep
<1> QED
  BY <1>1, <1>2, <1>3, <1>4

\* A request goes on, or is over.
LEMMA RequestGoes ==
  ASSUME SettingsIInv, NEW w \in Window, NEW lane \in Lane, NEW r,
         requests' = [requests EXCEPT ![<<w, lane>>] = r],
         r \in SaveRequest \cup {Null},
         r # Null => PatchExplained(w, lane)'
  PROVE  /\ requests' \in [Window \X Lane -> SaveRequest \cup {Null}]
         /\ \A x \in Window, l \in Lane : PatchExplained(x, l)'
<1>1. requests \in [Window \X Lane -> SaveRequest \cup {Null}]
  BY DEF SettingsIInv, SettingsTypeOK
<1>2. requests'[<<w, lane>>] = r
  BY <1>1
<1>3. ASSUME NEW x \in Window, NEW l \in Lane, ~(x = w /\ l = lane)
      PROVE  PatchExplained(x, l)'
  <2>1. requests'[<<x, l>>] = requests[<<x, l>>]
    BY <1>1, <1>3
  <2> QED
    BY <2>1 DEF SettingsIInv, PatchExplained
<1>4. PatchExplained(w, lane)'
  BY <1>2 DEF PatchExplained
<1> QED
  BY <1>1, <1>3, <1>4

\* What is merged and written is a set of preferences.
LEMMA MergedIsPrefs ==
  ASSUME NEW row \in Prefs, NEW patch \in Patch
  PROVE  Merged(row, patch) \in Prefs
<1>1. PICK S \in SUBSET Field : patch \in [S -> Value]
  BY DEF Patch
<1> QED
  BY <1>1 DEF Merged, Prefs

LEMMA ServerStep ==
  ASSUME SettingsIInv, NEW w \in Window, NEW lane \in Lane,
         RequireUser(w, lane) \/ SetPreferences(w, lane) \/ LoseSave(w, lane)
  PROVE  SettingsIInv'
<1> USE SettingsAssumption
<1> DEFINE r == requests[<<w, lane>>]
<1>1. UNCHANGED <<me, draft, touched, learned, channels, clicks>>
  BY DEF RequireUser, SetPreferences, LoseSave
<1>2. /\ \A x \in Window : RoomSeen(x)'
      /\ \A x \in Window : DraftExplained(x)'
  BY <1>1, ChannelsKept DEF SettingsIInv, DraftExplained
<1>3. requests \in [Window \X Lane -> SaveRequest \cup {Null}] /\ prefs \in Prefs
  BY DEF SettingsIInv, SettingsTypeOK
<1>4. r # Null /\ r \in SaveRequest /\ PatchExplained(w, lane)
  BY <1>3 DEF RequireUser, SetPreferences, LoseSave, SettingsIInv
<1>5. CASE RequireUser(w, lane)
  <2> DEFINE s == [r EXCEPT !.at = IF lane = "me" THEN "answered" ELSE "read", !.row = prefs]
  <2>1. requests' = [requests EXCEPT ![<<w, lane>>] = s] /\ prefs' = prefs
    BY <1>3, <1>5 DEF RequireUser
  <2>2. s \in SaveRequest
    BY <1>3, <1>4 DEF SaveRequest
  <2>3. requests'[<<w, lane>>] = s
    BY <1>3, <2>1
  <2>4. PatchExplained(w, lane)'
    BY <1>3, <1>4, <2>3 DEF PatchExplained, SaveRequest
  <2> HIDE DEF s
  <2>5. /\ requests' \in [Window \X Lane -> SaveRequest \cup {Null}]
        /\ \A x \in Window, l \in Lane : PatchExplained(x, l)'
    BY <2>1, <2>2, <2>4, RequestGoes
  <2>6. SettingsTypeOK'
    BY <1>1, <2>1, <2>5 DEF SettingsIInv, SettingsTypeOK, channels
  <2> QED
    BY <1>2, <2>5, <2>6, Zenon DEF SettingsIInv
<1>6. CASE SetPreferences(w, lane)
  <2> DEFINE s == [r EXCEPT !.at = "answered", !.row = prefs']
  <2>1. r.row \in Prefs /\ r.patch \in Patch
    <3>1. r.at = "read"
      BY <1>6 DEF SetPreferences
    <3>2. r.row # Null /\ r.patch # Null
      BY <1>4, <3>1 DEF PatchExplained
    <3> HIDE DEF r
    <3> QED
      BY <1>4, <3>2 DEF SaveRequest
  <2>2. prefs' \in Prefs
    BY <1>6, <2>1, MergedIsPrefs DEF SetPreferences
  <2>3. requests' = [requests EXCEPT ![<<w, lane>>] = s]
    BY <1>3, <1>6 DEF SetPreferences
  <2>4. s \in SaveRequest
    BY <1>4, <2>2 DEF SaveRequest
  <2>5. requests'[<<w, lane>>] = s
    BY <1>3, <2>3
  <2>6. PatchExplained(w, lane)'
    BY <1>4, <2>2, <2>5 DEF PatchExplained, SaveRequest
  <2> HIDE DEF s
  <2>7. /\ requests' \in [Window \X Lane -> SaveRequest \cup {Null}]
        /\ \A x \in Window, l \in Lane : PatchExplained(x, l)'
    BY <2>3, <2>4, <2>6, RequestGoes
  <2> QED
    BY <1>1, <1>2, <2>2, <2>7 DEF SettingsIInv, SettingsTypeOK, channels
<1>7. CASE LoseSave(w, lane)
  <2>1. requests' = [requests EXCEPT ![<<w, lane>>] = Null] /\ prefs' = prefs
    BY <1>7 DEF LoseSave
  <2>2. /\ requests' \in [Window \X Lane -> SaveRequest \cup {Null}]
        /\ \A x \in Window, l \in Lane : PatchExplained(x, l)'
    BY <2>1, RequestGoes
  <2> QED
    BY <1>1, <1>2, <2>1, <2>2 DEF SettingsIInv, SettingsTypeOK, channels
<1> QED
  BY <1>5, <1>6, <1>7

\* What a window is told is noted where its draft stays behind.
LEMMA LearnStep ==
  ASSUME SettingsIInv, NEW w \in Window, NEW lane \in Lane, Learn(w, lane)
  PROVE  SettingsIInv'
<1> USE SettingsAssumption
<1> DEFINE r == requests[<<w, lane>>]
<1>1. SettingsTypeOK
  BY DEF SettingsIInv
<1>2. r # Null /\ r \in SaveRequest /\ r.at = "answered" /\ PatchExplained(w, lane)
  BY <1>1 DEF Learn, SettingsIInv, SettingsTypeOK
<1>3. r.row \in Prefs
  BY <1>2 DEF PatchExplained, SaveRequest
<1>4. /\ requests' = [requests EXCEPT ![<<w, lane>>] = Null] /\ me' = [me EXCEPT ![w] = r.row]
      /\ learned' = IF draft[w] = Null THEN learned
                    ELSE [learned EXCEPT ![w] = @ \cup {f \in Field : me[w][f] # r.row[f]}]
      /\ UNCHANGED <<prefs, draft, touched, channels, clicks>>
  BY DEF Learn
<1>5. /\ requests' \in [Window \X Lane -> SaveRequest \cup {Null}]
      /\ \A x \in Window, l \in Lane : PatchExplained(x, l)'
  BY <1>4, RequestGoes
<1>6. SettingsTypeOK'
  BY <1>1, <1>3, <1>4, <1>5 DEF SettingsTypeOK, channels
<1>7. \A x \in Window : RoomSeen(x)'
  BY <1>4, ChannelsKept
<1>8. ASSUME NEW x \in Window PROVE DraftExplained(x)'
  <2>1. DraftExplained(x)
    BY DEF SettingsIInv
  <2>2. CASE x # w
    BY <1>1, <1>4, <2>1, <2>2 DEF DraftExplained, SettingsTypeOK
  <2>3. CASE x = w /\ draft[w] = Null
    BY <1>4, <2>3 DEF DraftExplained
  <2>4. CASE x = w /\ draft[w] # Null
    <3>1. me'[w] = r.row /\ learned'[w] = learned[w] \cup {f \in Field : me[w][f] # r.row[f]}
      BY <1>1, <1>4, <2>4 DEF SettingsTypeOK
    <3> QED
      BY <1>4, <2>1, <2>4, <3>1 DEF DraftExplained, Field
  <2> QED
    BY <2>2, <2>3, <2>4
<1> QED
  BY <1>5, <1>6, <1>7, <1>8 DEF SettingsIInv

-----------------------------------------------------------------------------
(* Settings: push *)

LEMMA PushStep ==
  ASSUME SettingsIInv, NEW w \in Window,
         \/ \E e \in Endpoint : enablePush(w, e)
         \/ Look(w) \/ PushOf(w) \/ SavePush(w) \/ disablePush(w) \/ DeletePush(w) \/ LosePush(w)
  PROVE  SettingsIInv'
<1>1. UNCHANGED preferences
  BY DEF enablePush, Look, PushOf, SavePush, disablePush, DeletePush, LosePush
<1>2. /\ \A x \in Window : DraftExplained(x)'
      /\ \A x \in Window, lane \in Lane : PatchExplained(x, lane)'
  BY <1>1, PreferencesKept
<1>3. SettingsTypeOK
  BY DEF SettingsIInv
<1>4. /\ push \in [Window -> PushRequest \cup {Null}] /\ own \in [Window -> Endpoint \cup {Null}]
      /\ devices \subseteq Endpoint /\ sees \in [Window -> BOOLEAN] /\ clicks \in 0..MaxClicks
      /\ \A x \in Window : RoomSeen(x)
  BY DEF SettingsIInv, SettingsTypeOK
<1>5. SUFFICES /\ push' \in [Window -> PushRequest \cup {Null}]
               /\ own' \in [Window -> Endpoint \cup {Null}]
               /\ devices' \subseteq Endpoint /\ sees' \in [Window -> BOOLEAN]
               /\ clicks' \in 0..MaxClicks
               /\ \A x \in Window : RoomSeen(x)'
  <2>1. prefs' = prefs /\ me' = me /\ draft' = draft /\ touched' = touched
        /\ learned' = learned /\ requests' = requests
    BY <1>1 DEF preferences
  <2>2. SettingsTypeOK'
    BY <1>3, <1>5, <2>1 DEF SettingsTypeOK
  <2> QED
    BY <1>2, <1>5, <2>2, Zenon DEF SettingsIInv
<1>6. CASE \E e \in Endpoint : enablePush(w, e)
  <2>1. PICK e \in Endpoint : enablePush(w, e)
    BY <1>6
  <2>2. [at |-> "subscribing", endpoint |-> e, saw |-> {}] \in PushRequest
    BY DEF PushRequest
  <2> QED
    BY <1>4, <2>1, <2>2, SettingsAssumption DEF enablePush, Click, RoomSeen
<1>7. CASE Look(w)
  BY <1>4, <1>7 DEF Look, channelsView, RoomSeen
<1>8. CASE PushOf(w)
  <2> DEFINE p == push[w]
             q == [p EXCEPT !.at = "counted", !.saw = devices]
  <2>1. p \in PushRequest
    BY <1>4, <1>8 DEF PushOf
  <2>2. q \in PushRequest /\ q.at = "counted" /\ q.saw = devices /\ q.endpoint = p.endpoint
    BY <1>4, <2>1 DEF PushRequest
  <2>3. push' = [push EXCEPT ![w] = IF Full(p.endpoint) THEN Null ELSE q]
    BY <1>4, <1>8 DEF PushOf
  <2>4. UNCHANGED <<devices, own, sees, clicks>>
    BY <1>8 DEF PushOf
  <2> HIDE DEF q
  <2>5. push' \in [Window -> PushRequest \cup {Null}]
    BY <1>4, <2>2, <2>3
  <2>6. ASSUME NEW x \in Window PROVE RoomSeen(x)'
    <3>1. CASE x # w
      BY <1>4, <2>3, <3>1 DEF RoomSeen
    <3>2. CASE x = w /\ Full(p.endpoint)
      BY <1>4, <2>3, <3>2 DEF RoomSeen
    <3>3. CASE x = w /\ ~Full(p.endpoint)
      <4>1. push'[x] = q
        BY <1>4, <2>3, <3>3
      <4>2. IsFiniteSet(devices) /\ MaxPush \in Nat
        BY <1>4, FS_Subset, SettingsAssumption
      <4>3. Cardinality(devices) \in Nat
        BY <4>2, FS_CardinalityType
      <4>4. Cardinality(devices) < MaxPush \/ p.endpoint \in devices
        BY <3>3, <4>2, <4>3 DEF Full
      <4>5. p.endpoint # Null
        BY <1>4, <1>8 DEF PushOf, RoomSeen
      <4> QED
        BY <2>2, <4>1, <4>4, <4>5 DEF RoomSeen
    <3> QED
      BY <3>1, <3>2, <3>3
  <2> QED
    BY <1>4, <2>4, <2>5, <2>6
<1>9. CASE SavePush(w)
  <2>1. devices' = devices \cup {push[w].endpoint} /\ push' = [push EXCEPT ![w] = Null]
        /\ own' = own /\ clicks' = clicks
    BY <1>9 DEF SavePush
  <2>2. PICK answered \in BOOLEAN : sees' = [sees EXCEPT ![w] = @ \/ answered]
    BY <1>9 DEF SavePush
  <2>3. sees[w] \in BOOLEAN /\ (sees[w] \/ answered) \in BOOLEAN
    BY <1>4
  <2>4. sees' \in [Window -> BOOLEAN]
    BY <1>4, <2>2, <2>3
  <2>5. push[w].endpoint \in Endpoint
    BY <1>4, <1>9 DEF SavePush, RoomSeen, PushRequest
  <2> QED
    BY <1>4, <2>1, <2>4, <2>5 DEF RoomSeen
<1>10. CASE disablePush(w)
  <2>1. [at |-> "deleting", endpoint |-> own[w], saw |-> {}] \in PushRequest
    BY <1>4 DEF PushRequest
  <2> QED
    BY <1>4, <1>10, <2>1, SettingsAssumption DEF disablePush, Click, RoomSeen
<1>11. CASE DeletePush(w)
  BY <1>4, <1>11 DEF DeletePush, channelsView, RoomSeen
<1>12. CASE LosePush(w)
  BY <1>4, <1>12 DEF LosePush, RoomSeen
<1> QED
  BY <1>6, <1>7, <1>8, <1>9, <1>10, <1>11, <1>12

LEMMA GoneStep ==
  ASSUME SettingsIInv, NEW e \in Endpoint, DeletePushEndpoint(e)
  PROVE  SettingsIInv'
<1>1. UNCHANGED <<preferences, own, sees, push, clicks>> /\ devices' \subseteq devices
  BY DEF DeletePushEndpoint
<1>2. /\ \A x \in Window : DraftExplained(x)'
      /\ \A x \in Window, lane \in Lane : PatchExplained(x, lane)'
  BY <1>1, PreferencesKept
<1>3. \A x \in Window : RoomSeen(x)'
  BY <1>1 DEF SettingsIInv, RoomSeen
<1>4. SettingsTypeOK'
  BY <1>1 DEF SettingsIInv, SettingsTypeOK, preferences
<1> QED
  BY <1>2, <1>3, <1>4, Zenon DEF SettingsIInv

LEMMA SettingsStep == SettingsIInv /\ [SettingsNext]_settingsVars => SettingsIInv'
<1> SUFFICES ASSUME SettingsIInv, [SettingsNext]_settingsVars
             PROVE  SettingsIInv'
  OBVIOUS
<1>1. ASSUME NEW w \in Window, NEW lane \in Lane,
             RequireUser(w, lane) \/ SetPreferences(w, lane) \/ Learn(w, lane) \/ LoseSave(w, lane)
      PROVE  SettingsIInv'
  BY <1>1, ServerStep, LearnStep
<1>2. CASE UNCHANGED settingsVars
  <2>1. UNCHANGED preferences /\ UNCHANGED channels /\ clicks' = clicks
    BY <1>2 DEF settingsVars
  <2>2. /\ \A x \in Window : DraftExplained(x)' /\ RoomSeen(x)'
        /\ \A x \in Window, lane \in Lane : PatchExplained(x, lane)'
    BY <2>1, PreferencesKept, ChannelsKept
  <2>3. SettingsTypeOK'
    BY <2>1 DEF SettingsIInv, SettingsTypeOK, preferences, channels
  <2> QED
    BY <2>2, <2>3, Zenon DEF SettingsIInv
<1> QED
  BY <1>1, <1>2, SheetStep, SavesStep, PushStep, GoneStep, Zenon DEF SettingsNext

\* The inductive invariant of the settings: what a request carries its user chose or its
\* window was told, and who goes on to save a subscription found room for it.
THEOREM SettingsInvariance == SettingsSpec => []SettingsIInv
<1> QED
  BY SettingsBegin, SettingsStep, PTL DEF SettingsSpec

\* Of all steps only the write of a save changes the preferences, and only its request.
LEMMA WriteOnly ==
  ASSUME SettingsIInv, SettingsNext, prefs' # prefs
  PROVE  \E w \in Window, lane \in Lane : SetPreferences(w, lane)
BY DEF SettingsNext, OpenSheet, CloseSheet, Submit, Raise, Focus, Send, Move, Toggle, RequireUser,
       Learn, LoseSave, enablePush, Look, PushOf, SavePush, disablePush, DeletePush, LosePush,
       DeletePushEndpoint, preferences

\* A save changes a field its user did not choose only if it undoes a save that came
\* between its read and its write, or its window had been told another value after its
\* sheet was opened, for any windows, fields and requests (portfolio.ts:193-198,
\* settings-sheet.tsx:80-94).
THEOREM Untouched == SettingsSpec => UntouchedIsKept
<1>1. ASSUME SettingsIInv, SettingsNext, NEW wl \in Window \X Lane,
             requests[wl] # Null, requests[wl].at = "read", prefs' # prefs,
             requests'[wl] # requests[wl],
             NEW f \in Field, prefs'[f] # prefs[f]
      PROVE  \/ f \in requests[wl].chosen
             \/ f \in requests[wl].told
             \/ prefs[f] # requests[wl].row[f]
  <2>1. PICK w \in Window, lane \in Lane : SetPreferences(w, lane)
    BY <1>1, WriteOnly
  <2>2. requests \in [Window \X Lane -> SaveRequest \cup {Null}]
    BY <1>1 DEF SettingsIInv, SettingsTypeOK
  <2>3. wl = <<w, lane>>
    BY <1>1, <2>1, <2>2 DEF SetPreferences
  <2> DEFINE r == requests[<<w, lane>>]
  <2>4. prefs' = Merged(r.row, r.patch)
    BY <2>1 DEF SetPreferences
  <2>5. prefs'[f] = IF f \in DOMAIN r.patch THEN r.patch[f] ELSE r.row[f]
    BY <2>4 DEF Merged
  <2>6. DOMAIN r.patch \subseteq r.chosen \cup r.told
    BY <1>1, <2>3 DEF SettingsIInv, PatchExplained
  <2> HIDE DEF r
  <2>7. f \in r.chosen \/ f \in r.told \/ prefs[f] # r.row[f]
    BY <1>1, <2>5, <2>6
  <2> QED
    BY <2>3, <2>7 DEF r
<1>2. SettingsIInv /\ [SettingsNext]_settingsVars =>
        [\A wl \in Window \X Lane :
          /\ requests[wl] # Null /\ requests[wl].at = "read" /\ prefs' # prefs
          /\ requests'[wl] # requests[wl]
          => \A f \in Field : prefs'[f] # prefs[f] =>
               \/ f \in requests[wl].chosen
               \/ f \in requests[wl].told
               \/ prefs[f] # requests[wl].row[f]]_settingsVars
  BY <1>1
<1> QED
  BY <1>2, SettingsInvariance, PTL DEF SettingsSpec, UntouchedIsKept

\* A request saves one browser too many only if another has saved since it counted, for
\* any limit and any browsers (channels.ts:103-107, push.ts:22-49).
THEOREM PushLimit == SettingsSpec => PushLimitHolds
<1>1. ASSUME SettingsIInv, SettingsNext, NEW w \in Window,
             push[w] # Null, push[w].at = "counted", push'[w] # push[w],
             Cardinality(devices') > MaxPush, devices' # devices
      PROVE  devices # push[w].saw
  <2>1. push \in [Window -> PushRequest \cup {Null}] /\ devices \subseteq Endpoint
    BY <1>1 DEF SettingsIInv, SettingsTypeOK
  <2>2. SavePush(w)
    <3>1. PICK x \in Window :
            \/ \E e \in Endpoint : enablePush(x, e)
            \/ PushOf(x) \/ SavePush(x) \/ disablePush(x) \/ DeletePush(x) \/ LosePush(x)
      <4>1. ASSUME NEW x \in Window,
                   \/ OpenSheet(x) \/ CloseSheet(x) \/ Submit(x) \/ Raise(x) \/ Focus(x) \/ Look(x)
                   \/ \E f \in Sheet, v \in Value : Move(x, f, v)
                   \/ \E f \in Switch, v \in Value : Toggle(x, f, v)
            PROVE  push' = push
        BY <4>1 DEF OpenSheet, CloseSheet, Submit, Raise, Focus, Look, Move, Toggle, Send, channels
      <4>2. ASSUME NEW x \in Window, NEW lane \in Lane,
                   \/ RequireUser(x, lane) \/ SetPreferences(x, lane)
                   \/ Learn(x, lane) \/ LoseSave(x, lane)
            PROVE  push' = push
        BY <4>2 DEF RequireUser, SetPreferences, Learn, LoseSave, channels
      <4>3. ASSUME NEW e \in Endpoint, DeletePushEndpoint(e)
            PROVE  push' = push
        BY <4>3 DEF DeletePushEndpoint
      <4> QED
        BY <1>1, <4>1, <4>2, <4>3, Zenon DEF SettingsNext
    <3>2. x = w
      <4>1. \A y \in Window \ {x} : push'[y] = push[y]
        BY <2>1, <3>1 DEF enablePush, PushOf, SavePush, disablePush, DeletePush, LosePush
      <4> QED
        BY <1>1, <4>1
    <3> QED
      BY <1>1, <3>1, <3>2 DEF enablePush, PushOf, disablePush, DeletePush, LosePush
  <2>3. devices' = devices \cup {push[w].endpoint}
    BY <2>2 DEF SavePush
  <2>4. Cardinality(push[w].saw) < MaxPush \/ push[w].endpoint \in push[w].saw
    BY <1>1 DEF SettingsIInv, RoomSeen
  <2>5. IsFiniteSet(devices) /\ MaxPush \in Nat
    BY <2>1, FS_Subset, SettingsAssumption
  <2>6. Cardinality(devices) \in Nat
    BY <2>5, FS_CardinalityType
  <2> SUFFICES ASSUME devices = push[w].saw PROVE FALSE
    OBVIOUS
  <2>7. push[w].endpoint \notin devices
    BY <1>1, <2>3
  <2>8. Cardinality(devices') = Cardinality(devices) + 1
    BY <2>3, <2>5, <2>7, FS_AddElement
  <2> QED
    BY <1>1, <2>4, <2>5, <2>6, <2>7, <2>8
<1>2. SettingsIInv /\ [SettingsNext]_settingsVars =>
        [\A w \in Window :
          /\ push[w] # Null /\ push[w].at = "counted" /\ push'[w] # push[w]
          /\ Cardinality(devices') > MaxPush /\ devices' # devices
          => devices # push[w].saw]_settingsVars
  BY <1>1
<1> QED
  BY <1>2, SettingsInvariance, PTL DEF SettingsSpec, PushLimitHolds
=============================================================================
