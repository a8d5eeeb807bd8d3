--------------------------- MODULE WebSession ---------------------------
(***************************************************************************)
(* The session of the web front end, next to the registrations of          *)
(* Accounts.  A browser tab has its React state and shares the token in    *)
(* localStorage with the browser's other tabs, of which the module keeps   *)
(* what they do to the token.  Calls to the API carry the token that was   *)
(* there when they were sent; their answers arrive in any order, possibly  *)
(* after the token has changed.                                            *)
(***************************************************************************)
EXTENDS Accounts, Naturals, Sequences, FiniteSets

CONSTANTS
  NoUser,     \* user === null
  MaxLogins,  \* bound on the tokens issued
  MaxFetches  \* bound on the calls of a page that are under way

ASSUME NoUserAssumption == NoUser \notin Requests
ASSUME BoundsAssumption == MaxLogins \in Nat /\ MaxFetches \in Nat

VARIABLES
  owner,    \* owner[k]: whose token the k-th one is (its "sub")
  expired,  \* tokens whose exp has passed
  token,    \* localStorage.getItem('token'), 0 for none
  page,     \* unloaded: the browser is about to load the app.  loading:
            \* AuthProvider waits.  shown: routed
  user,     \* user of AuthContext
  calls,    \* the calls that have not come back to the tab
  foreign,  \* history: another tab has touched the token since this one did
  left      \* history: since the load, a form was sent while another waited

sessionVars == <<owner, expired, token, page, user, calls, foreign, left>>

vars == <<accountVars, sessionVars>>

-------------------------------------------------------------------------
\* start: getMe of AuthProvider.  login, me: the two calls of Login.  fetch:
\* any call of a page behind ProtectedRoute.
Call == [kind : {"start", "login", "me", "fetch"}, token : 0..MaxLogins,
         answer : {"none", "ok", "401"}, got : 0..MaxLogins]

\* client.js attaches the token to every call; a login's is not looked at.
NewCall(kind, k) ==
  [kind |-> kind, token |-> IF kind = "login" THEN 0 ELSE k, answer |-> "none", got |-> 0]

\* Mutant: the interceptor only redirects.
KeepToken == UNCHANGED <<token, foreign>>

RemoveToken == token' = 0 /\ foreign' = FALSE

\* get_current_user accepts a token.
Valid(k) == k # 0 /\ k \notin expired

Replace(c, new) == calls' = (calls \ {c}) \cup new

-------------------------------------------------------------------------
Init ==
  /\ AccountsInit
  /\ owner = <<>>
  /\ expired = {}
  /\ token = 0
  /\ page = "unloaded"
  /\ user = NoUser
  /\ calls = {}
  /\ foreign = FALSE
  /\ left = FALSE

\* The app is loaded, and what was there is gone.  AuthProvider asks who the
\* token belongs to.
Load ==
  /\ page = "unloaded"
  /\ IF token = 0
     THEN page' = "shown" /\ calls' = {}
     ELSE page' = "loading" /\ calls' = {NewCall("start", token)}
  /\ user' = NoUser
  /\ foreign' = FALSE /\ left' = FALSE
  /\ UNCHANGED <<accountVars, owner, expired, token>>

\* The user reloads the page.
Reload ==
  /\ page = "shown"
  /\ page' = "unloaded"
  /\ UNCHANGED <<accountVars, owner, expired, token, user, calls, foreign, left>>

\* The login form is sent.  Its button is disabled until handleSubmit ends,
\* but leaving for /register and coming back makes a new form.
Submit ==
  /\ page = "shown" /\ user = NoUser
  /\ NewCall("login", token) \notin calls
  /\ calls' = calls \cup {NewCall("login", token)}
  /\ left' = (left \/ \E c \in calls : c.kind \in {"login", "me"})
  /\ UNCHANGED <<accountVars, owner, expired, token, page, user, foreign>>

\* The user opens a page or changes a filter.
Fetch ==
  /\ page = "shown" /\ user # NoUser
  /\ Cardinality({c \in calls : c.kind = "fetch"}) < MaxFetches
  /\ calls' = calls \cup {NewCall("fetch", token)}
  /\ UNCHANGED <<accountVars, owner, expired, token, page, user, foreign, left>>

Logout ==
  /\ page = "shown" /\ user # NoUser
  /\ RemoveToken
  /\ user' = NoUser
  /\ UNCHANGED <<accountVars, owner, expired, page, calls, left>>

\* The server answers a login with the password of registration r under the
\* address e, which is compared with the stored one as it was typed.
ServeLogin(c, r, e) ==
  /\ c.kind = "login" /\ c.answer = "none"
  /\ \/ /\ r \in users /\ Email(r) = e
        /\ Len(owner) < MaxLogins
        /\ owner' = Append(owner, r)
        /\ Replace(c, {[c EXCEPT !.answer = "ok", !.got = Len(owner) + 1]})
     \/ /\ ~(r \in users /\ Email(r) = e)
        /\ Replace(c, {[c EXCEPT !.answer = "401"]})
        /\ UNCHANGED owner
  /\ UNCHANGED <<accountVars, expired, token, page, user, foreign, left>>

\* The server answers another call.  Data that a page fetched does nothing to
\* the session.
Serve(c) ==
  /\ c.kind # "login" /\ c.answer = "none"
  /\ Replace(c, IF ~Valid(c.token) THEN {[c EXCEPT !.answer = "401"]}
                ELSE IF c.kind = "fetch" THEN {} ELSE {[c EXCEPT !.answer = "ok"]})
  /\ UNCHANGED <<accountVars, owner, expired, token, page, user, foreign, left>>

\* The app is being unloaded, or AuthProvider's wait is over.
Shown == IF page = "unloaded" THEN page ELSE "shown"

\* A call of this tab gets no answer, or one of status 500.
Unanswered(c) == c.answer = "none" /\ Replace(c, {})

\* Mutant: without "finally".
BreakStartForGood(c) ==
  /\ c.kind = "start" /\ Unanswered(c)
  /\ RemoveToken
  /\ UNCHANGED <<accountVars, owner, expired, page, user, left>>

\* AuthProvider drops the token and stops waiting.
BreakStart(c) ==
  /\ c.kind = "start" /\ Unanswered(c)
  /\ RemoveToken
  /\ page' = Shown
  /\ UNCHANGED <<accountVars, owner, expired, user, left>>

\* Login shows an error and keeps the token it may have stored.
BreakLogin(c) ==
  /\ c.kind \in {"login", "me"} /\ Unanswered(c)
  /\ UNCHANGED <<accountVars, owner, expired, token, page, user, foreign, left>>

\* A page logs the error and shows what it had.
BreakFetch(c) ==
  /\ c.kind = "fetch" /\ Unanswered(c)
  /\ UNCHANGED <<accountVars, owner, expired, token, page, user, foreign, left>>

Break(c) == BreakStart(c) \/ BreakLogin(c) \/ BreakFetch(c)

\* Mutant: Login asks whose token it is before it stores it, and so sends
\* the one that was there before.
ReceiveTokenLast(c) ==
  /\ c.kind = "login" /\ c.answer = "ok"
  /\ token' = c.got /\ foreign' = FALSE
  /\ Replace(c, {NewCall("me", token)})
  /\ UNCHANGED <<accountVars, owner, expired, page, user, left>>

\* Login stores the token and asks whose it is.
ReceiveToken(c) ==
  /\ c.kind = "login" /\ c.answer = "ok"
  /\ token' = c.got /\ foreign' = FALSE
  /\ Replace(c, {NewCall("me", c.got)})
  /\ UNCHANGED <<accountVars, owner, expired, page, user, left>>

\* loginUser and navigate, or setUser of AuthProvider; either way the page of
\* the incidents appears and fetches them.
ReceiveUser(c) ==
  /\ c.kind \in {"start", "me"} /\ c.answer = "ok"
  /\ user' = owner[c.token]
  /\ page' = Shown
  /\ Replace(c, {NewCall("fetch", token)})
  /\ UNCHANGED <<accountVars, owner, expired, token, foreign, left>>

\* The response interceptor: whichever call it was, and whichever token it
\* carried, the token of now is removed and the browser told to load /login.
\* Until it does, handlers of other answers may run.
Receive401(c) ==
  /\ c.answer = "401"
  /\ RemoveToken
  /\ page' = "unloaded"
  /\ Replace(c, {})
  /\ UNCHANGED <<accountVars, owner, expired, user, left>>

\* Another tab signs in, or signs out, is refused or fails to load.
OtherTab ==
  /\ \/ /\ Len(owner) < MaxLogins
        /\ \E r \in users : owner' = Append(owner, r)
        /\ token' = Len(owner) + 1
     \/ token # 0 /\ token' = 0 /\ UNCHANGED owner
  /\ foreign' = TRUE
  /\ UNCHANGED <<accountVars, expired, page, user, calls, left>>

\* ACCESS_TOKEN_EXPIRE_MINUTES have passed.
Expire(k) ==
  /\ k \in 1..Len(owner) /\ k \notin expired
  /\ expired' = expired \cup {k}
  /\ UNCHANGED <<accountVars, owner, token, page, user, calls, foreign, left>>

Server ==
  \E c \in calls :
    Serve(c) \/ Break(c) \/ \E r \in Requests, e \in Emails : ServeLogin(c, r, e)

Receive == \E c \in calls : ReceiveToken(c) \/ ReceiveUser(c) \/ Receive401(c)

Next ==
  \/ AccountsNext /\ UNCHANGED sessionVars
  \/ Load \/ Reload \/ Submit \/ Fetch \/ Logout
  \/ Server
  \/ Receive
  \/ OtherTab
  \/ \E k \in 1..MaxLogins : Expire(k)

Spec == Init /\ [][Next]_vars

\* The browser loads what it was told to load and runs the handlers of what
\* arrives, the server answers or the connection breaks, and the queries of
\* a registration end.
Fairness ==
  /\ WF_vars(Load) /\ WF_vars(Server) /\ WF_vars(Receive)
  /\ \A r \in Requests : WF_vars(Progress(r) /\ UNCHANGED sessionVars)

FairSpec == Spec /\ Fairness

-------------------------------------------------------------------------
\* Type invariant.  AuthProvider waits for as long as its call is out, with
\* nobody signed in; tokens are issued to committed users.
TypeOK ==
  /\ AccountsTypeOK
  /\ owner \in Seq(users) /\ Len(owner) <= MaxLogins
  /\ expired \subseteq 1..Len(owner)
  /\ token \in 0..Len(owner)
  /\ page \in {"unloaded", "loading", "shown"}
  /\ user \in users \cup {NoUser}
  /\ calls \subseteq Call
  /\ foreign \in BOOLEAN /\ left \in BOOLEAN
  /\ page = "loading" => user = NoUser /\ \E c \in calls : c.kind = "start"

\* The user the tab shows is the one its calls act as, whatever late answers
\* of earlier sessions, refusals and broken calls come in, unless another tab
\* has touched the token since this one did, or the login form was left and
\* sent again before its answer came (Login, AuthProvider, and the
\* interceptors of client.js on one localStorage).
ShownUserActs ==
  page = "shown" /\ user # NoUser /\ ~foreign /\ ~left =>
    token # 0 /\ owner[token] = user

\* A tab that loads ends up showing a page: being sent to /login by a 401
\* never becomes a loop of redirects (client.js, AuthProvider).
TabSettles == page # "shown" ~> page = "shown"
=========================================================================
