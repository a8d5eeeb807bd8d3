------------------------ MODULE WebSession_proofs ------------------------
(***************************************************************************)
(* Theorems about the web session and the registrations next to it, for    *)
(* any number of registrations, tokens and calls.                          *)
(***************************************************************************)
EXTENDS WebSession, Accounts_proofs, SequenceTheorems

-------------------------------------------------------------------------
\* The calls carry and bring tokens that were issued, and a call with token 0
\* is not answered "ok".
CallsOK ==
  \A c \in calls :
    /\ c.token \in 0..Len(owner) /\ c.got \in 0..Len(owner)
    /\ c.kind # "login" /\ c.answer = "ok" => c.token # 0

\* AuthProvider waits for its call, and no other is out; after that it has
\* none.
WaitOK ==
  /\ page = "loading" => user = NoUser /\ \E c \in calls : calls = {c} /\ c.kind = "start"
  /\ page = "shown" => \A c \in calls : c.kind # "start"

SigningIn(c) == c.kind \in {"login", "me"}

\* A form that is not left waits alone, with nobody signed in.
FormOK ==
  page = "shown" /\ ~left =>
    \A c \in calls : SigningIn(c) =>
      user = NoUser /\ \A d \in calls : SigningIn(d) => d = c

\* The calls that ask for the user carry the token of now.
TokenOK ==
  page # "unloaded" /\ ~foreign /\ ~left =>
    \A c \in calls : c.kind \in {"start", "me"} => c.token = token

SessionInv ==
  /\ TypeOK /\ CallsOK /\ WaitOK /\ FormOK /\ TokenOK /\ ShownUserActs

-------------------------------------------------------------------------
LEMMA SeqGrows ==
  ASSUME NEW S, NEW T, S \subseteq T, NEW s \in Seq(S)
  PROVE  s \in Seq(T)
OBVIOUS

\* What an appended token leaves alone.
LEMMA Issued ==
  ASSUME TypeOK, NEW r \in users, owner' = Append(owner, r)
  PROVE  /\ owner' \in Seq(users)
         /\ Len(owner') = Len(owner) + 1
         /\ \A k \in 1..Len(owner) : owner'[k] = owner[k]
         /\ Len(owner) \in Nat
<1>1. owner \in Seq(users)
  BY DEF TypeOK
<1> QED
  BY <1>1, AppendProperties

LEMMA SessionInit == Init => SessionInv
<1> SUFFICES ASSUME Init PROVE SessionInv
  OBVIOUS
<1>1. AccountsTypeOK
  BY InitHolds DEF Init, IInv
<1>2. owner \in Seq(users) /\ Len(owner) = 0
  BY DEF Init
<1>3. foreign \in BOOLEAN /\ left \in BOOLEAN
  BY DEF Init
<1>4. Len(owner) <= MaxLogins /\ token \in 0..Len(owner) /\ expired \subseteq 1..Len(owner)
  BY <1>2, BoundsAssumption DEF Init
<1>5. TypeOK
  BY <1>1, <1>2, <1>3, <1>4 DEF Init, TypeOK
<1> QED
  BY <1>5 DEF Init, SessionInv, CallsOK, WaitOK, FormOK, TokenOK, ShownUserActs

\* Registrations commit users and take none away.
LEMMA RegistrationStep ==
  ASSUME IInv, SessionInv, AccountsNext, UNCHANGED sessionVars
  PROVE  SessionInv'
<1>1. AccountsTypeOK'
  BY StepKeeps DEF IInv
<1>2. users \subseteq users'
  BY OneMoves
<1>3. owner \in Seq(users')
  BY <1>2, SeqGrows DEF SessionInv, TypeOK
<1>4. TypeOK'
  BY <1>1, <1>2, <1>3 DEF SessionInv, TypeOK, sessionVars
<1> QED
  BY <1>4 DEF SessionInv, CallsOK, WaitOK, FormOK, SigningIn, TokenOK, ShownUserActs, sessionVars

\* Every other step leaves the registrations alone.
LEMMA AccountsStay ==
  ASSUME IInv, UNCHANGED accountVars
  PROVE  IInv' /\ AccountsTypeOK'
BY StepKeeps DEF IInv

LEMMA NewCallIs ==
  ASSUME NEW kind \in {"start", "login", "me", "fetch"}, NEW k \in 0..MaxLogins
  PROVE  LET c == NewCall(kind, k) IN
         /\ c \in Call /\ c.kind = kind /\ c.answer = "none" /\ c.got = 0
         /\ c.token = IF kind = "login" THEN 0 ELSE k
BY BoundsAssumption DEF NewCall, Call

LEMMA LoadStep ==
  ASSUME IInv, SessionInv, Load
  PROVE  SessionInv'
<1> USE DEF SessionInv
<1>1. AccountsTypeOK'
  BY AccountsStay DEF Load
<1>2. token \in 0..MaxLogins /\ Len(owner) \in Nat /\ token \in 0..Len(owner)
  BY BoundsAssumption DEF TypeOK
<1>3. CASE token = 0
  <2>1. page' = "shown" /\ calls' = {} /\ user' = NoUser /\ foreign' \in BOOLEAN /\ left' \in BOOLEAN
    BY <1>3 DEF Load
  <2>2. TypeOK'
    BY <1>1, <2>1 DEF Load, TypeOK, accountVars
  <2> QED
    BY <2>1, <2>2 DEF CallsOK, WaitOK, FormOK, TokenOK, ShownUserActs
<1>4. CASE token # 0
  <2> DEFINE c == NewCall("start", token)
  <2>1. page' = "loading" /\ calls' = {c} /\ user' = NoUser /\ foreign' \in BOOLEAN /\ left' \in BOOLEAN
    BY <1>4 DEF Load
  <2>2. /\ c \in Call /\ c.kind = "start" /\ c.answer = "none" /\ c.got = 0
        /\ c.token = token
    BY <1>2, NewCallIs
  <2> HIDE DEF c
  <2>3. TypeOK'
    BY <1>1, <2>1, <2>2 DEF Load, TypeOK, accountVars
  <2>4. CallsOK' /\ WaitOK' /\ TokenOK'
    BY <1>2, <2>1, <2>2 DEF Load, CallsOK, WaitOK, TokenOK
  <2> QED
    BY <2>1, <2>3, <2>4 DEF FormOK, ShownUserActs
<1> QED
  BY <1>3, <1>4

LEMMA ReloadStep ==
  ASSUME IInv, SessionInv, Reload
  PROVE  SessionInv'
<1>1. AccountsTypeOK'
  BY AccountsStay DEF Reload
<1>2. TypeOK'
  BY <1>1 DEF Reload, SessionInv, TypeOK, accountVars
<1>3. CallsOK'
  BY DEF Reload, SessionInv, CallsOK
<1> QED
  BY <1>2, <1>3 DEF Reload, SessionInv, WaitOK, FormOK, TokenOK, ShownUserActs

LEMMA SubmitStep ==
  ASSUME IInv, SessionInv, Submit
  PROVE  SessionInv'
<1> DEFINE new == NewCall("login", token)
<1> USE DEF SessionInv
<1>1. AccountsTypeOK'
  BY AccountsStay DEF Submit
<1>2. token \in 0..MaxLogins /\ Len(owner) \in Nat
  BY BoundsAssumption DEF TypeOK
<1>3. /\ new \in Call /\ new.kind = "login" /\ new.answer = "none" /\ new.got = 0
      /\ new.token = 0
  BY <1>2, NewCallIs
<1>4. calls' = calls \cup {new} /\ page' = "shown" /\ page = "shown" /\ user' = NoUser
  BY DEF Submit, TypeOK
<1> HIDE DEF new
<1>5. left' \in BOOLEAN /\ (~left' => ~left /\ \A c \in calls : ~SigningIn(c))
  BY DEF Submit, TypeOK, SigningIn
<1>6. TypeOK'
  BY <1>1, <1>3, <1>4, <1>5 DEF Submit, TypeOK, accountVars
<1>7. CallsOK'
  BY <1>2, <1>3, <1>4 DEF Submit, CallsOK
<1>8. WaitOK'
  BY <1>3, <1>4 DEF WaitOK
<1>9. FormOK'
  BY <1>3, <1>4, <1>5 DEF FormOK, SigningIn
<1>10. TokenOK'
  <2>1. foreign' = foreign /\ token' = token
    BY DEF Submit
  <2> QED
    BY <1>3, <1>4, <1>5, <2>1 DEF TokenOK
<1> QED
  BY <1>4, <1>6, <1>7, <1>8, <1>9, <1>10 DEF ShownUserActs

LEMMA FetchStep ==
  ASSUME IInv, SessionInv, Fetch
  PROVE  SessionInv'
<1> DEFINE new == NewCall("fetch", token)
<1> USE DEF SessionInv
<1>1. AccountsTypeOK'
  BY AccountsStay DEF Fetch
<1>2. token \in 0..MaxLogins /\ Len(owner) \in Nat /\ token \in 0..Len(owner)
  BY BoundsAssumption DEF TypeOK
<1>3. /\ new \in Call /\ new.kind = "fetch" /\ new.answer = "none" /\ new.got = 0
      /\ new.token = token
  BY <1>2, NewCallIs
<1>4. /\ calls' = calls \cup {new} /\ page' = page /\ page = "shown"
      /\ UNCHANGED <<owner, token, user, foreign, left>>
  BY DEF Fetch
<1> HIDE DEF new
<1>5. TypeOK'
  BY <1>1, <1>3, <1>4 DEF Fetch, TypeOK, accountVars
<1>6. CallsOK'
  BY <1>2, <1>3, <1>4 DEF CallsOK
<1>7. WaitOK'
  BY <1>3, <1>4 DEF WaitOK
<1>8. FormOK'
  BY <1>3, <1>4 DEF FormOK, SigningIn
<1>9. TokenOK'
  BY <1>3, <1>4 DEF TokenOK
<1>10. ShownUserActs'
  BY <1>4 DEF ShownUserActs
<1> QED
  BY <1>5, <1>6, <1>7, <1>8, <1>9, <1>10

LEMMA LogoutStep ==
  ASSUME IInv, SessionInv, Logout
  PROVE  SessionInv'
<1> USE DEF SessionInv
<1>1. AccountsTypeOK'
  BY AccountsStay DEF Logout
<1>2. /\ calls' = calls /\ page' = page /\ page = "shown" /\ token' = 0
      /\ user # NoUser /\ user' = NoUser /\ foreign' \in BOOLEAN
      /\ UNCHANGED <<owner, left>>
  BY DEF Logout, RemoveToken
<1>3. TypeOK'
  BY <1>1, <1>2 DEF Logout, TypeOK, accountVars
<1>4. FormOK' /\ WaitOK'
  BY <1>2 DEF FormOK, SigningIn, WaitOK
<1>5. TokenOK'
  <2>1. ~left => \A c \in calls : c.kind \notin {"start", "me"}
    BY <1>2 DEF FormOK, SigningIn, WaitOK
  <2> QED
    BY <1>2, <2>1 DEF TokenOK
<1> QED
  BY <1>2, <1>3, <1>4, <1>5 DEF CallsOK, ShownUserActs

\* The steps that replace a call by one of its kind and token.
LEMMA AnsweredStep ==
  ASSUME SessionInv, NEW c \in calls, NEW d \in Call,
         AccountsTypeOK', users' = users,
         calls' = (calls \ {c}) \cup {d},
         d.kind = c.kind, d.token = c.token,
         owner' \in Seq(users), Len(owner') \in Len(owner)..MaxLogins,
         \A k \in 1..Len(owner) : owner'[k] = owner[k],
         d.got \in 0..Len(owner'), d.kind # "login" /\ d.answer = "ok" => d.token # 0,
         UNCHANGED <<expired, token, page, user, foreign, left>>
  PROVE  SessionInv'
<1> USE DEF SessionInv
<1>1. Len(owner) \in Nat /\ Len(owner') \in Nat
  BY BoundsAssumption DEF TypeOK
<1>2. TypeOK'
  BY <1>1 DEF TypeOK
<1>3. CallsOK'
  BY <1>1 DEF CallsOK
<1>4. WaitOK'
  BY DEF WaitOK
<1>5. FormOK'
  BY DEF FormOK, SigningIn
<1>6. TokenOK'
  BY DEF TokenOK
<1>7. ShownUserActs'
  BY <1>1 DEF ShownUserActs, TypeOK
<1> QED
  BY <1>2, <1>3, <1>4, <1>5, <1>6, <1>7

LEMMA ServeLoginStep ==
  ASSUME IInv, SessionInv, NEW c \in calls, NEW r \in Requests, NEW e \in Emails,
         ServeLogin(c, r, e)
  PROVE  SessionInv'
<1>1. AccountsTypeOK' /\ users' = users
  BY AccountsStay DEF ServeLogin, accountVars
<1>2. /\ TypeOK /\ c \in Call /\ c.kind = "login" /\ owner \in Seq(users)
      /\ Len(owner) \in Nat /\ Len(owner) <= MaxLogins /\ MaxLogins \in Nat
      /\ c.got \in 0..Len(owner)
  BY BoundsAssumption DEF ServeLogin, SessionInv, TypeOK, CallsOK
<1>3. UNCHANGED <<expired, token, page, user, foreign, left>>
  BY DEF ServeLogin
<1>4. CASE r \in users /\ Email(r) = e
  <2> DEFINE d == [c EXCEPT !.answer = "ok", !.got = Len(owner) + 1]
  <2>1. /\ Len(owner) < MaxLogins /\ owner' = Append(owner, r)
        /\ calls' = (calls \ {c}) \cup {d}
    BY <1>4 DEF ServeLogin, Replace
  <2>2. /\ owner' \in Seq(users) /\ Len(owner') = Len(owner) + 1
        /\ \A k \in 1..Len(owner) : owner'[k] = owner[k]
    BY <1>2, <1>4, <2>1, Issued
  <2>3. /\ d \in Call /\ d.kind = c.kind /\ d.token = c.token
        /\ d.got = Len(owner) + 1 /\ d.kind = "login"
    <3>1. Len(owner) + 1 \in 0..MaxLogins
      BY <1>2, <2>1
    <3>2. \A n \in 0..MaxLogins :
            LET x == [c EXCEPT !.answer = "ok", !.got = n] IN
            x \in Call /\ x.kind = c.kind /\ x.token = c.token /\ x.got = n
      BY <1>2 DEF Call
    <3> QED
      BY <1>2, <3>1, <3>2
  <2> HIDE DEF d
  <2> QED
    BY <1>1, <1>2, <1>3, <2>1, <2>2, <2>3, AnsweredStep
<1>5. CASE ~(r \in users /\ Email(r) = e)
  <2> DEFINE d == [c EXCEPT !.answer = "401"]
  <2>1. owner' = owner /\ calls' = (calls \ {c}) \cup {d}
    BY <1>5 DEF ServeLogin, Replace
  <2>2. /\ d \in Call /\ d.kind = c.kind /\ d.token = c.token
        /\ d.got = c.got /\ d.kind = "login"
    BY <1>2 DEF Call
  <2> HIDE DEF d
  <2>3. /\ owner' \in Seq(users) /\ Len(owner') \in Len(owner)..MaxLogins
        /\ \A k \in 1..Len(owner) : owner'[k] = owner[k]
        /\ d.got \in 0..Len(owner')
    BY <1>2, <2>1, <2>2
  <2> QED
    BY <1>1, <1>3, <2>1, <2>2, <2>3, AnsweredStep
<1> QED
  BY <1>4, <1>5

\* The steps that remove a call and change nothing else of the tab.
LEMMA DroppedStep ==
  ASSUME SessionInv, NEW c \in calls, c.kind # "start",
         AccountsTypeOK', users' = users,
         calls' = calls \ {c},
         UNCHANGED <<owner, expired, token, page, user, foreign, left>>
  PROVE  SessionInv'
<1> USE DEF SessionInv
<1>1. TypeOK'
  BY DEF TypeOK
<1> QED
  BY <1>1 DEF CallsOK, WaitOK, FormOK, SigningIn, TokenOK, ShownUserActs

LEMMA ServeStep ==
  ASSUME IInv, SessionInv, NEW c \in calls, Serve(c)
  PROVE  SessionInv'
<1>1. AccountsTypeOK' /\ users' = users
  BY AccountsStay DEF Serve, accountVars
<1>2. /\ c \in Call /\ owner \in Seq(users)
      /\ Len(owner) \in Nat /\ Len(owner) <= MaxLogins /\ MaxLogins \in Nat
      /\ c.got \in 0..Len(owner)
  BY BoundsAssumption DEF SessionInv, TypeOK, CallsOK
<1>3. UNCHANGED <<owner, expired, token, page, user, foreign, left>>
  BY DEF Serve
<1>4. CASE ~Valid(c.token)
  <2> DEFINE d == [c EXCEPT !.answer = "401"]
  <2>1. calls' = (calls \ {c}) \cup {d}
    BY <1>4 DEF Serve, Replace
  <2>2. /\ d \in Call /\ d.kind = c.kind /\ d.token = c.token
        /\ d.got = c.got /\ d.answer = "401"
    BY <1>2 DEF Call
  <2> HIDE DEF d
  <2> QED
    BY <1>1, <1>2, <1>3, <2>1, <2>2, AnsweredStep
<1>5. CASE Valid(c.token) /\ c.kind = "fetch"
  <2>1. calls' = calls \ {c}
    BY <1>5 DEF Serve, Replace
  <2> QED
    BY <1>1, <1>3, <1>5, <2>1, DroppedStep
<1>6. CASE Valid(c.token) /\ c.kind # "fetch"
  <2> DEFINE d == [c EXCEPT !.answer = "ok"]
  <2>1. calls' = (calls \ {c}) \cup {d}
    BY <1>6 DEF Serve, Replace
  <2>2. /\ d \in Call /\ d.kind = c.kind /\ d.token = c.token
        /\ d.got = c.got /\ d.token # 0
    BY <1>2, <1>6 DEF Call, Valid
  <2> HIDE DEF d
  <2> QED
    BY <1>1, <1>2, <1>3, <2>1, <2>2, AnsweredStep
<1> QED
  BY <1>4, <1>5, <1>6

LEMMA BreakStep ==
  ASSUME IInv, SessionInv, NEW c \in calls, Break(c)
  PROVE  SessionInv'
<1>1. AccountsTypeOK' /\ users' = users
  BY AccountsStay DEF Break, BreakStart, BreakLogin, BreakFetch, accountVars
<1>2. calls' = calls \ {c} /\ UNCHANGED <<owner, expired, user, left>>
  BY DEF Break, BreakStart, BreakLogin, BreakFetch, Unanswered, Replace
<1>3. CASE c.kind # "start"
  BY <1>1, <1>2, <1>3, DroppedStep DEF Break, BreakStart, BreakLogin, BreakFetch
<1>4. CASE c.kind = "start"
  <2> USE DEF SessionInv
  <2>1. token' = 0 /\ page' = Shown /\ foreign' \in BOOLEAN
    BY <1>4 DEF Break, BreakStart, BreakLogin, BreakFetch, RemoveToken
  <2>2. page # "shown"
    BY <1>4 DEF WaitOK
  <2>3. CASE page = "loading"
    <3>1. page' = "shown" /\ calls' = {} /\ user' = NoUser
      BY <1>2, <2>1, <2>3 DEF Shown, WaitOK
    <3>2. TypeOK'
      BY <1>1, <1>2, <2>1, <3>1 DEF TypeOK
    <3> QED
      BY <3>1, <3>2 DEF CallsOK, WaitOK, FormOK, TokenOK, ShownUserActs
  <2>4. CASE page = "unloaded"
    <3>1. page' = "unloaded"
      BY <2>1, <2>4 DEF Shown
    <3>2. TypeOK'
      BY <1>1, <1>2, <2>1, <3>1 DEF TypeOK
    <3> QED
      BY <1>2, <3>1, <3>2 DEF CallsOK, WaitOK, FormOK, TokenOK, ShownUserActs
  <2> QED
    BY <2>2, <2>3, <2>4 DEF TypeOK
<1> QED
  BY <1>3, <1>4

LEMMA ReceiveTokenStep ==
  ASSUME IInv, SessionInv, NEW c \in calls, ReceiveToken(c)
  PROVE  SessionInv'
<1> USE DEF SessionInv
<1> DEFINE new == NewCall("me", c.got)
<1>1. AccountsTypeOK' /\ users' = users
  BY AccountsStay DEF ReceiveToken, accountVars
<1>2. /\ c.kind = "login" /\ token' = c.got /\ foreign' \in BOOLEAN
      /\ calls' = (calls \ {c}) \cup {new}
      /\ UNCHANGED <<owner, expired, page, user, left>>
  BY DEF ReceiveToken, Replace
<1>3. /\ c.got \in 0..Len(owner) /\ Len(owner) \in Nat /\ Len(owner) <= MaxLogins
      /\ c.got \in 0..MaxLogins
  BY BoundsAssumption DEF TypeOK, CallsOK
<1>4. /\ new \in Call /\ new.kind = "me" /\ new.answer = "none" /\ new.got = 0
      /\ new.token = c.got
  BY <1>3, NewCallIs
<1> HIDE DEF new
<1>5. page # "loading"
  BY <1>2 DEF WaitOK
<1>6. TypeOK'
  BY <1>1, <1>2, <1>3, <1>4, <1>5 DEF TypeOK
<1>7. CallsOK'
  BY <1>2, <1>3, <1>4 DEF CallsOK
<1>8. WaitOK'
  BY <1>2, <1>4, <1>5 DEF WaitOK
<1>9. FormOK'
  BY <1>2, <1>4 DEF FormOK, SigningIn
<1>10. TokenOK' /\ ShownUserActs'
  <2>1. CASE page = "shown" /\ ~left
    <3>1. user = NoUser /\ \A d \in calls : d # c => d.kind \notin {"login", "me", "start"}
      BY <1>2, <2>1 DEF FormOK, SigningIn, WaitOK
    <3> QED
      BY <1>2, <1>4, <3>1 DEF TokenOK, ShownUserActs
  <2>2. CASE page = "unloaded" \/ left
    BY <1>2, <2>2 DEF TokenOK, ShownUserActs
  <2> QED
    BY <1>5, <2>1, <2>2 DEF TypeOK
<1> QED
  BY <1>6, <1>7, <1>8, <1>9, <1>10

LEMMA ReceiveUserStep ==
  ASSUME IInv, SessionInv, NEW c \in calls, ReceiveUser(c)
  PROVE  SessionInv'
<1> USE DEF SessionInv
<1> DEFINE new == NewCall("fetch", token)
<1>1. AccountsTypeOK' /\ users' = users
  BY AccountsStay DEF ReceiveUser, accountVars
<1>2. /\ c.kind \in {"start", "me"} /\ c.answer = "ok" /\ user' = owner[c.token]
      /\ page' = Shown /\ calls' = (calls \ {c}) \cup {new}
      /\ UNCHANGED <<owner, expired, token, foreign, left>>
  BY DEF ReceiveUser, Replace
<1>3. /\ token \in 0..MaxLogins /\ token \in 0..Len(owner) /\ Len(owner) \in Nat
      /\ c.token \in 1..Len(owner)
  BY <1>2, BoundsAssumption DEF TypeOK, CallsOK
<1>4. /\ new \in Call /\ new.kind = "fetch" /\ new.answer = "none" /\ new.got = 0
      /\ new.token = token
  BY <1>3, NewCallIs
<1> HIDE DEF new
<1>5. owner[c.token] \in users
  BY <1>3 DEF TypeOK
<1>6. page' \in {"unloaded", "shown"} /\ (page' = "unloaded" <=> page = "unloaded")
  BY <1>2 DEF Shown, TypeOK
<1>7. TypeOK'
  BY <1>1, <1>2, <1>4, <1>5, <1>6 DEF TypeOK
<1>8. CallsOK'
  BY <1>2, <1>3, <1>4 DEF CallsOK
<1>9. WaitOK'
  BY <1>2, <1>4, <1>6 DEF WaitOK, TypeOK
<1>10. page # "unloaded" /\ ~left => \A d \in calls' : d.kind \notin {"start", "login", "me"}
  BY <1>2, <1>4 DEF FormOK, SigningIn, WaitOK, TypeOK
<1>11. FormOK'
  BY <1>2, <1>6, <1>10 DEF FormOK, SigningIn
<1>12. TokenOK'
  BY <1>2, <1>6, <1>10 DEF TokenOK
<1>13. ShownUserActs'
  BY <1>2, <1>3, <1>6 DEF TokenOK, ShownUserActs
<1> QED
  BY <1>7, <1>8, <1>9, <1>11, <1>12, <1>13

LEMMA Receive401Step ==
  ASSUME IInv, SessionInv, NEW c \in calls, Receive401(c)
  PROVE  SessionInv'
<1> USE DEF SessionInv
<1>1. AccountsTypeOK' /\ users' = users
  BY AccountsStay DEF Receive401, accountVars
<1>2. /\ token' = 0 /\ foreign' \in BOOLEAN /\ page' = "unloaded" /\ calls' = calls \ {c}
      /\ UNCHANGED <<owner, expired, user, left>>
  BY DEF Receive401, RemoveToken, Replace
<1>3. TypeOK'
  BY <1>1, <1>2 DEF TypeOK
<1> QED
  BY <1>2, <1>3 DEF CallsOK, WaitOK, FormOK, TokenOK, ShownUserActs

LEMMA OtherTabStep ==
  ASSUME IInv, SessionInv, OtherTab
  PROVE  SessionInv'
<1> USE DEF SessionInv
<1>1. AccountsTypeOK' /\ users' = users
  BY AccountsStay DEF OtherTab, accountVars
<1>2. foreign' = TRUE /\ UNCHANGED <<expired, page, user, calls, left>>
  BY DEF OtherTab
<1>3. /\ owner' \in Seq(users) /\ Len(owner) \in Nat /\ Len(owner') \in Len(owner)..MaxLogins
      /\ token' \in 0..Len(owner')
  <2>1. owner \in Seq(users) /\ Len(owner) \in 0..MaxLogins /\ MaxLogins \in Nat
    BY BoundsAssumption DEF TypeOK
  <2>2. CASE /\ Len(owner) < MaxLogins
             /\ \E r \in users : owner' = Append(owner, r)
             /\ token' = Len(owner) + 1
    BY <2>1, <2>2, Issued
  <2>3. CASE token' = 0 /\ UNCHANGED owner
    BY <2>1, <2>3
  <2> QED
    BY <2>2, <2>3 DEF OtherTab
<1>4. TypeOK'
  BY <1>1, <1>2, <1>3 DEF TypeOK
<1>5. CallsOK'
  BY <1>2, <1>3 DEF CallsOK
<1>6. TokenOK' /\ ShownUserActs'
  BY <1>2 DEF TokenOK, ShownUserActs
<1> QED
  BY <1>2, <1>4, <1>5, <1>6 DEF WaitOK, FormOK

LEMMA ExpireStep ==
  ASSUME IInv, SessionInv, NEW k \in 1..MaxLogins, Expire(k)
  PROVE  SessionInv'
<1>1. AccountsTypeOK'
  BY AccountsStay DEF Expire
<1>2. TypeOK'
  BY <1>1 DEF Expire, SessionInv, TypeOK, accountVars
<1> QED
  BY <1>2 DEF Expire, SessionInv, CallsOK, WaitOK, FormOK, TokenOK, ShownUserActs

-------------------------------------------------------------------------
LEMMA SessionStep ==
  ASSUME IInv, SessionInv, [Next]_vars
  PROVE  IInv' /\ SessionInv'
<1>1. [AccountsNext]_accountVars
  BY DEF Next, vars, Load, Reload, Submit, Fetch, Logout, Server, Receive, ServeLogin, Serve,
         Break, BreakStart, BreakLogin, BreakFetch, ReceiveToken, ReceiveUser, Receive401,
         OtherTab, Expire
<1>2. IInv'
  BY <1>1, StepKeeps
<1>3. SessionInv'
  <2>1. CASE AccountsNext /\ UNCHANGED sessionVars
    BY <2>1, RegistrationStep
  <2>2. CASE Load \/ Reload \/ Submit \/ Fetch \/ Logout
    BY <2>2, LoadStep, ReloadStep, SubmitStep, FetchStep, LogoutStep
  <2>3. CASE Server
    BY <2>3, ServeLoginStep, ServeStep, BreakStep DEF Server
  <2>4. CASE Receive
    BY <2>4, ReceiveTokenStep, ReceiveUserStep, Receive401Step DEF Receive
  <2>5. CASE OtherTab \/ \E k \in 1..MaxLogins : Expire(k)
    BY <2>5, OtherTabStep, ExpireStep
  <2>6. CASE UNCHANGED vars
    <3>1. AccountsTypeOK'
      BY <1>2 DEF IInv
    <3>2. TypeOK'
      BY <2>6, <3>1 DEF vars, sessionVars, accountVars, SessionInv, TypeOK
    <3> QED
      BY <2>6, <3>2 DEF vars, sessionVars, SessionInv, CallsOK, WaitOK, FormOK, TokenOK, ShownUserActs
  <2> QED
    BY <2>1, <2>2, <2>3, <2>4, <2>5, <2>6 DEF Next
<1> QED
  BY <1>2, <1>3

LEMMA SessionInvariance == Spec => [](IInv /\ SessionInv)
<1>1. Init => IInv /\ SessionInv
  BY InitHolds, SessionInit DEF Init
<1>2. IInv /\ SessionInv /\ [Next]_vars => IInv' /\ SessionInv'
  BY SessionStep
<1> QED
  BY <1>1, <1>2, PTL DEF Spec

-------------------------------------------------------------------------
\* The variables keep their types, and AuthProvider waits for as long as its
\* call is out.
THEOREM TypeCorrect == Spec => []TypeOK
<1>1. SessionInv => TypeOK
  BY DEF SessionInv
<1> QED
  BY <1>1, SessionInvariance, PTL

\* The tab's user is the one its calls act as, however many answers come late,
\* as long as no other tab touches the token and no form is left and sent
\* again (Login.jsx stores the token before it asks whose it is).
THEOREM ShownUserAlwaysActs == Spec => []ShownUserActs
<1>1. SessionInv => ShownUserActs
  BY DEF SessionInv
<1> QED
  BY <1>1, SessionInvariance, PTL

\* Next to the sessions the registrations keep their properties: no team
\* without its user, one account per address and slug, and no conflict
\* without an overlap (register).
THEOREM RegistrationsKeep ==
  Spec => [](TeamsHaveUsers /\ OneIsAccepted /\ ConflictNeedsOverlap)
<1>1. IInv => TeamsHaveUsers /\ OneIsAccepted /\ ConflictNeedsOverlap
  BY UniqueMeansOne DEF IInv
<1> QED
  BY <1>1, SessionInvariance, PTL

\* No step of a tab is a step of a registration, so the sessions' whole
\* behaviour implements the registry too (register, get_db).
THEOREM SessionsImplementRegistry == Spec => ImplementsRegistry
<1>1. Init => AccountsInit
  BY DEF Init
<1>2. ASSUME [Next]_vars PROVE [AccountsNext]_accountVars
  <2>1. CASE AccountsNext
    BY <2>1
  <2>2. CASE ~ AccountsNext
    BY <1>2, <2>2 DEF Next, vars, Load, Reload, Submit, Fetch, Logout, Server, Serve, Break,
       BreakStart, BreakLogin, BreakFetch, ServeLogin, Receive, ReceiveToken, ReceiveUser, Receive401, OtherTab, Expire
  <2> QED
    BY <2>1, <2>2
<1>3. Spec => AccountsSpec
  BY <1>1, <1>2, PTL DEF Spec, AccountsSpec
<1> QED
  BY <1>3, RegistrationImplements
=========================================================================
