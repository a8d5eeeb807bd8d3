---------------------------- MODULE Accounts ----------------------------
(***************************************************************************)
(* Registration: POST /auth/register.  A request looks for the e-mail and  *)
(* for the slug of the team's name, then inserts the team and the user in  *)
(* two flushes of one transaction, answers 201, and commits after that.    *)
(* Both columns are unique in the database, so an INSERT waits for an      *)
(* uncommitted row with the same value and fails on a committed one.       *)
(*                                                                         *)
(* The team and the user a request inserts have the request's name.        *)
(***************************************************************************)
CONSTANTS
  Requests,   \* registrations, each with its own session
  Forms,      \* Forms[r]: what the sender of r may fill in
  Emails,     \* e-mail addresses as people spell them
  TeamNames,
  normal,     \* normal[e]: the address EmailStr makes of e
  slugify     \* slugify[n]: the slug of a team's name

ASSUME FormAssumption ==
  Forms \in [Requests -> SUBSET [email : Emails, team_name : TeamNames]]
ASSUME NormalAssumption ==
  /\ normal \in [Emails -> Emails]
  /\ \A e \in Emails : normal[normal[e]] = normal[e]

VARIABLES
  stage,  \* where a registration is
  form,   \* what its sender filled in
  teams,  \* requests whose team is committed
  users,  \* requests whose user is committed
  after   \* history: the users that were committed when r began

accountVars == <<stage, form, teams, users, after>>

-------------------------------------------------------------------------
\* slug, team, user: the next statement.  answered: 201 was sent.  refused:
\* 400.  conflict: 500 from an IntegrityError.  failed, lost: another error
\* before the answer, or after it.
Working == {"slug", "team", "user"}
Stages == Working \cup {"idle", "answered", "done", "refused", "conflict", "failed", "lost"}

Email(r) == normal[form[r].email]

Slug(r) == slugify[form[r].team_name]

\* Mutant: a failed session keeps its transaction open.
InsertedForGood(r) == stage[r] \in {"user", "answered", "failed", "lost"}

\* The session of r has an uncommitted row in teams, in users.
TeamInserted(r) == stage[r] \in {"user", "answered"}

UserInserted(r) == stage[r] = "answered"

Goto(r, s) == stage' = [stage EXCEPT ![r] = s]

-------------------------------------------------------------------------
AccountsInit ==
  /\ stage = [r \in Requests |-> "idle"]
  /\ form \in {f \in [Requests -> UNION {Forms[r] : r \in Requests}] :
                \A r \in Requests : f[r] \in Forms[r]}
  /\ teams = {}
  /\ users = {}
  /\ after = [r \in Requests |-> {}]

\* The request arrives and looks for its e-mail.
CheckEmail(r) ==
  /\ stage[r] = "idle"
  /\ Goto(r, IF \E u \in users : Email(u) = Email(r) THEN "refused" ELSE "slug")
  /\ after' = [after EXCEPT ![r] = users]
  /\ UNCHANGED <<form, teams, users>>

\* Mutant: the name is looked for, not the slug.
CheckName(r) ==
  /\ stage[r] = "slug"
  /\ Goto(r, IF \E t \in teams : form[t].team_name = form[r].team_name
             THEN "refused" ELSE "team")
  /\ UNCHANGED <<form, teams, users, after>>

CheckSlug(r) ==
  /\ stage[r] = "slug"
  /\ Goto(r, IF \E t \in teams : Slug(t) = Slug(r) THEN "refused" ELSE "team")
  /\ UNCHANGED <<form, teams, users, after>>

\* Mutant: the team is committed to get its id.
InsertTeamAndCommit(r) ==
  /\ stage[r] = "team"
  /\ \A t \in teams : Slug(t) # Slug(r)
  /\ Goto(r, "user")
  /\ teams' = teams \cup {r}
  /\ UNCHANGED <<form, users, after>>

\* The INSERT into teams.  It waits as long as another session's uncommitted
\* team has the slug.
InsertTeam(r) ==
  /\ stage[r] = "team"
  /\ \/ /\ \E t \in teams : Slug(t) = Slug(r)
        /\ Goto(r, "conflict")
     \/ /\ \A t \in teams : Slug(t) # Slug(r)
        /\ \A q \in Requests : TeamInserted(q) => Slug(q) # Slug(r)
        /\ Goto(r, "user")
  /\ UNCHANGED <<form, teams, users, after>>

\* Mutant: users.email has an index, but not a unique one.
InsertUserUnchecked(r) ==
  /\ stage[r] = "user"
  /\ Goto(r, "answered")
  /\ UNCHANGED <<form, teams, users, after>>

\* hash_password, the INSERT into users, and the answer.
InsertUser(r) ==
  /\ stage[r] = "user"
  /\ \/ /\ \E u \in users : Email(u) = Email(r)
        /\ Goto(r, "conflict")
     \/ /\ \A u \in users : Email(u) # Email(r)
        /\ \A q \in Requests : UserInserted(q) => Email(q) # Email(r)
        /\ Goto(r, "answered")
  /\ UNCHANGED <<form, teams, users, after>>

\* get_db after the answer.
Commit(r) ==
  /\ stage[r] = "answered"
  /\ Goto(r, "done")
  /\ teams' = teams \cup {r}
  /\ users' = users \cup {r}
  /\ UNCHANGED <<form, after>>

\* A password of more than 72 bytes, which bcrypt refuses, a broken
\* connection or a crash: the transaction is rolled back.
Fail(r) ==
  /\ stage[r] \in Working \cup {"answered"}
  /\ Goto(r, IF stage[r] = "answered" THEN "lost" ELSE "failed")
  /\ UNCHANGED <<form, teams, users, after>>

Progress(r) ==
  CheckSlug(r) \/ InsertTeam(r) \/ InsertUser(r) \/ Commit(r)

AccountsNext == \E r \in Requests : CheckEmail(r) \/ Progress(r) \/ Fail(r)

AccountsSpec == AccountsInit /\ [][AccountsNext]_accountVars

\* Queries and commits end.
AccountsFairness == \A r \in Requests : WF_accountVars(Progress(r))

-------------------------------------------------------------------------
AccountsTypeOK ==
  /\ stage \in [Requests -> Stages]
  /\ DOMAIN form = Requests
  /\ \A r \in Requests : form[r] \in Forms[r]
  /\ teams \subseteq Requests
  /\ users \subseteq Requests
  /\ after \in [Requests -> SUBSET Requests]

Rivals(r, q) ==
  r # q /\ (normal[form[r].email] = normal[form[q].email] \/ Slug(r) = Slug(q))

\* No team without its user: a registration that fails between its two
\* INSERTs (bcrypt, a conflict on the e-mail) leaves no team behind whose
\* name nobody could register again (register, one transaction).
TeamsHaveUsers == teams = users

\* Of two registrations with one address or one slug at most one is told
\* 201, unless the commit of the other one fails after its answer: the
\* constraints are checked by the flushes, before the answer (register).
OneIsAccepted ==
  \A r, q \in Requests :
    Rivals(r, q) => ~ (stage[r] \in {"answered", "done"} /\ stage[q] \in {"answered", "done"})

\* The checks before the INSERTs (auth.py:31, 42) turn every conflict into a
\* 400 unless the rival committed after the request began.
ConflictNeedsOverlap ==
  \A r \in Requests : stage[r] = "conflict" =>
    \E q \in users \ after[r] : Rivals(r, q)

\* Registrations that wait for each other's rows do not wait for ever: both
\* tables are written in one order, and a row waited for is committed or
\* rolled back (register, get_db).  Each request runs once, so that in the
\* end none is at work.
RegistrationEnds ==
  (\E r \in Requests : stage[r] \in Working) ~> (\A r \in Requests : stage[r] \notin Working)

-------------------------------------------------------------------------
\* Between its first SELECT and its answer a registration is open.
Outcome == [r \in Requests |-> IF stage[r] \in Working THEN "open" ELSE stage[r]]

Clashing ==
  LET F == UNION {Forms[r] : r \in Requests}
  IN  {p \in F \X F : \/ normal[p[1].email] = normal[p[2].email]
                     \/ slugify[p[1].team_name] = slugify[p[2].team_name]}

Registry == INSTANCE Registry
              WITH status <- Outcome, known <- after, Clashes <- Clashing

\* The SELECTs, the flushes and the commit of concurrent registrations, with
\* uncommitted rows and requests that break off anywhere, look like one step
\* of each request, and one for its commit: 201 only without an accepted
\* rival, 400 only for a registered one, 500 only for one that came in
\* between (register, get_db).
ImplementsRegistry == Registry!Spec
=========================================================================
