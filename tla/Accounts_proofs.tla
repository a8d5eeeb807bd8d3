------------------------- MODULE Accounts_proofs -------------------------
(* Theorems about registration, for any number of requests and any forms. *)
EXTENDS Accounts, TLAPS

-------------------------------------------------------------------------
\* The strengthening.  A committed user is a registration that is done, and
\* what was committed when one began still is.
CommittedOK ==
  /\ \A r \in Requests : r \in users <=> stage[r] = "done"
  /\ \A r \in Requests : after[r] \subseteq users

\* A request past a check has no rival among those that had committed when
\* it began.
CheckedOK ==
  \A r \in Requests : \A q \in after[r] :
    /\ stage[r] \in {"slug", "team", "user", "answered", "conflict"} => Email(q) # Email(r)
    /\ stage[r] \in {"team", "user", "answered", "conflict"} => Slug(q) # Slug(r)

HasTeam(r) == stage[r] \in {"user", "answered", "done"}

HasUser(r) == stage[r] \in {"answered", "done"}

\* The unique columns, uncommitted rows included.
UniqueOK ==
  \A r, q \in Requests : r # q =>
    /\ HasTeam(r) /\ HasTeam(q) => Slug(r) # Slug(q)
    /\ HasUser(r) /\ HasUser(q) => Email(r) # Email(q)

IInv ==
  /\ AccountsTypeOK
  /\ TeamsHaveUsers
  /\ CommittedOK
  /\ CheckedOK
  /\ UniqueOK
  /\ ConflictNeedsOverlap

-------------------------------------------------------------------------
LEMMA InitHolds == AccountsInit => IInv
<1> SUFFICES ASSUME AccountsInit PROVE IInv
  OBVIOUS
<1>1. \A r \in Requests : stage[r] = "idle" /\ after[r] = {}
  BY DEF AccountsInit
<1>2. /\ form \in [Requests -> UNION {Forms[r] : r \in Requests}]
      /\ \A r \in Requests : form[r] \in Forms[r]
  BY DEF AccountsInit
<1>3. AccountsTypeOK
  BY <1>2 DEF AccountsInit, AccountsTypeOK, Stages, Working
<1>4. TeamsHaveUsers
  BY DEF AccountsInit, TeamsHaveUsers
<1>5. CommittedOK
  BY <1>1 DEF AccountsInit, CommittedOK
<1>6. CheckedOK
  BY <1>1 DEF CheckedOK
<1>7. UniqueOK
  BY <1>1 DEF UniqueOK, HasTeam, HasUser
<1>8. ConflictNeedsOverlap
  BY <1>1 DEF ConflictNeedsOverlap
<1> QED
  BY <1>3, <1>4, <1>5, <1>6, <1>7, <1>8 DEF IInv

\* What the actions have in common: they move one request, whose form stays.
LEMMA OneMoves ==
  ASSUME IInv, AccountsNext
  PROVE  /\ form' = form
         /\ \A q \in Requests : Email(q)' = Email(q) /\ Slug(q)' = Slug(q)
         /\ users \subseteq users'
         /\ \E r \in Requests :
              /\ CheckEmail(r) \/ CheckSlug(r) \/ InsertTeam(r) \/ InsertUser(r)
                   \/ Commit(r) \/ Fail(r)
              /\ \A q \in Requests : q # r => stage'[q] = stage[q] /\ after'[q] = after[q]
              /\ stage[r] # "done"
<1>1. PICK r \in Requests : CheckEmail(r) \/ Progress(r) \/ Fail(r)
  BY DEF AccountsNext
<1>2. form' = form
  BY <1>1 DEF CheckEmail, Progress, CheckSlug, InsertTeam, InsertUser, Commit, Fail
<1>3. \A q \in Requests : Email(q)' = Email(q) /\ Slug(q)' = Slug(q)
  BY <1>2 DEF Email, Slug
<1>4. users \subseteq users'
  BY <1>1 DEF CheckEmail, Progress, CheckSlug, InsertTeam, InsertUser, Commit, Fail
<1>5. /\ stage \in [Requests -> Stages]
      /\ after \in [Requests -> SUBSET Requests]
  BY DEF IInv, AccountsTypeOK
<1>6. \A q \in Requests : q # r => stage'[q] = stage[q] /\ after'[q] = after[q]
  BY <1>1, <1>5 DEF Goto, CheckEmail, Progress, CheckSlug, InsertTeam, InsertUser, Commit, Fail
<1>7. stage[r] # "done"
  BY <1>1 DEF CheckEmail, Progress, CheckSlug, InsertTeam, InsertUser, Commit, Fail, Working
<1> QED
  BY <1>1, <1>2, <1>3, <1>4, <1>6, <1>7 DEF Progress

LEMMA TypeStep ==
  ASSUME IInv, AccountsNext
  PROVE  AccountsTypeOK'
<1>1. PICK r \in Requests :
        CheckEmail(r) \/ CheckSlug(r) \/ InsertTeam(r) \/ InsertUser(r) \/ Commit(r) \/ Fail(r)
  BY DEF AccountsNext, Progress
<1>2. AccountsTypeOK
  BY DEF IInv
<1>3. CASE CheckEmail(r)
  BY <1>2, <1>3 DEF AccountsTypeOK, CheckEmail, Goto, Stages, Working
<1>4. CASE CheckSlug(r)
  BY <1>2, <1>4 DEF AccountsTypeOK, CheckSlug, Goto, Stages, Working
<1>5. CASE InsertTeam(r)
  BY <1>2, <1>5 DEF AccountsTypeOK, InsertTeam, Goto, Stages, Working
<1>6. CASE InsertUser(r)
  BY <1>2, <1>6 DEF AccountsTypeOK, InsertUser, Goto, Stages, Working
<1>7. CASE Commit(r)
  BY <1>2, <1>7 DEF AccountsTypeOK, Commit, Goto, Stages, Working
<1>8. CASE Fail(r)
  BY <1>2, <1>8 DEF AccountsTypeOK, Fail, Goto, Stages, Working
<1> QED
  BY <1>1, <1>3, <1>4, <1>5, <1>6, <1>7, <1>8

LEMMA TogetherStep ==
  ASSUME IInv, AccountsNext
  PROVE  TeamsHaveUsers'
<1>1. PICK r \in Requests :
        CheckEmail(r) \/ CheckSlug(r) \/ InsertTeam(r) \/ InsertUser(r) \/ Commit(r) \/ Fail(r)
  BY DEF AccountsNext, Progress
<1> QED
  BY <1>1 DEF IInv, TeamsHaveUsers, CheckEmail, CheckSlug, InsertTeam, InsertUser, Commit, Fail

LEMMA CommittedStep ==
  ASSUME IInv, AccountsNext
  PROVE  CommittedOK'
<1>1. PICK r \in Requests :
        /\ CheckEmail(r) \/ CheckSlug(r) \/ InsertTeam(r) \/ InsertUser(r) \/ Commit(r) \/ Fail(r)
        /\ \A q \in Requests : q # r => stage'[q] = stage[q] /\ after'[q] = after[q]
        /\ stage[r] # "done"
  BY OneMoves
<1>2. /\ stage \in [Requests -> Stages]
      /\ after \in [Requests -> SUBSET Requests]
      /\ users \subseteq Requests
      /\ CommittedOK
  BY DEF IInv, AccountsTypeOK
<1>3. CASE Commit(r)
  <2>1. users' = users \cup {r} /\ stage'[r] = "done" /\ after' = after
    BY <1>2, <1>3 DEF Commit, Goto
  <2> QED
    BY <1>1, <1>2, <2>1 DEF CommittedOK
<1>4. CASE ~ Commit(r)
  <2>1. users' = users
    BY <1>1, <1>4 DEF CheckEmail, CheckSlug, InsertTeam, InsertUser, Fail
  <2>2. stage'[r] # "done"
    BY <1>1, <1>2, <1>4 DEF CheckEmail, CheckSlug, InsertTeam, InsertUser, Fail, Goto
  <2>3. after'[r] \subseteq users
    BY <1>1, <1>2, <1>4 DEF CommittedOK, CheckEmail, CheckSlug, InsertTeam, InsertUser, Fail
  <2> QED
    BY <1>1, <1>2, <2>1, <2>2, <2>3 DEF CommittedOK
<1> QED
  BY <1>3, <1>4

LEMMA CheckedStep ==
  ASSUME IInv, AccountsNext
  PROVE  CheckedOK'
<1>1. PICK r \in Requests :
        /\ CheckEmail(r) \/ CheckSlug(r) \/ InsertTeam(r) \/ InsertUser(r) \/ Commit(r) \/ Fail(r)
        /\ \A q \in Requests : q # r => stage'[q] = stage[q] /\ after'[q] = after[q]
  BY OneMoves
<1>2. \A q \in Requests : Email(q)' = Email(q) /\ Slug(q)' = Slug(q)
  BY OneMoves
<1>3. /\ stage \in [Requests -> Stages]
      /\ after \in [Requests -> SUBSET Requests]
      /\ users \subseteq Requests
      /\ teams = users
      /\ \A q \in Requests : after[q] \subseteq users
      /\ CheckedOK
  BY DEF IInv, AccountsTypeOK, TeamsHaveUsers, CommittedOK
<1>4. ASSUME NEW q \in after'[r]
      PROVE  /\ stage'[r] \in {"slug", "team", "user", "answered", "conflict"} => Email(q) # Email(r)
             /\ stage'[r] \in {"team", "user", "answered", "conflict"} => Slug(q) # Slug(r)
  <2>1. CASE CheckEmail(r)
    BY <1>3, <1>4, <2>1 DEF CheckEmail, Goto
  <2>2. CASE CheckSlug(r)
    <3>1. after'[r] = after[r] /\ stage[r] = "slug" /\ q \in teams
      BY <1>3, <1>4, <2>2 DEF CheckSlug
    <3>2. Email(q) # Email(r)
      BY <1>3, <1>4, <3>1 DEF CheckedOK
    <3>3. stage'[r] # "refused" => Slug(q) # Slug(r)
      BY <1>3, <2>2, <3>1 DEF CheckSlug, Goto
    <3>4. stage'[r] \in {"team", "user", "answered", "conflict"} => stage'[r] # "refused"
      OBVIOUS
    <3> QED
      BY <3>2, <3>3, <3>4
  <2>3. CASE InsertTeam(r) \/ InsertUser(r) \/ Commit(r) \/ Fail(r)
    <3>1. after'[r] = after[r]
      BY <2>3 DEF InsertTeam, InsertUser, Commit, Fail
    <3>2. \/ stage[r] \in {"team", "user"}
          \/ stage'[r] \in {"done", "failed", "lost"}
      BY <1>3, <2>3 DEF InsertTeam, InsertUser, Commit, Fail, Goto
    <3> QED
      BY <1>3, <1>4, <3>1, <3>2 DEF CheckedOK
  <2> QED
    BY <1>1, <2>1, <2>2, <2>3
<1>5. after'[r] \subseteq Requests
  BY <1>1, <1>3 DEF CheckEmail, CheckSlug, InsertTeam, InsertUser, Commit, Fail
<1>6. SUFFICES ASSUME NEW p \in Requests, NEW q \in after'[p]
               PROVE  /\ stage'[p] \in {"slug", "team", "user", "answered", "conflict"} =>
                           Email(q)' # Email(p)'
                      /\ stage'[p] \in {"team", "user", "answered", "conflict"} =>
                           Slug(q)' # Slug(p)'
  BY DEF CheckedOK
<1>7. CASE p = r
  <2>1. Email(q)' = Email(q) /\ Slug(q)' = Slug(q) /\ Email(p)' = Email(p) /\ Slug(p)' = Slug(p)
    BY <1>2, <1>5, <1>6, <1>7
  <2> QED
    BY <1>4, <1>6, <1>7, <2>1
<1>8. CASE p # r
  <2>1. stage'[p] = stage[p] /\ after'[p] = after[p]
    BY <1>1, <1>8
  <2>2. Email(q)' = Email(q) /\ Slug(q)' = Slug(q) /\ Email(p)' = Email(p) /\ Slug(p)' = Slug(p)
    BY <1>2, <1>3, <1>6, <2>1
  <2> QED
    BY <1>3, <1>6, <2>1, <2>2 DEF CheckedOK
<1> QED
  BY <1>7, <1>8

\* A row that is there keeps others out: an INSERT succeeds only when neither
\* a committed row nor another session's has the value.
LEMMA UniqueStep ==
  ASSUME IInv, AccountsNext
  PROVE  UniqueOK'
<1>1. PICK r \in Requests :
        /\ CheckEmail(r) \/ CheckSlug(r) \/ InsertTeam(r) \/ InsertUser(r) \/ Commit(r) \/ Fail(r)
        /\ \A q \in Requests : q # r => stage'[q] = stage[q] /\ after'[q] = after[q]
  BY OneMoves
<1>2. \A q \in Requests : Email(q)' = Email(q) /\ Slug(q)' = Slug(q)
  BY OneMoves
<1>3. /\ stage \in [Requests -> Stages]
      /\ teams = users
      /\ \A q \in Requests : q \in users <=> stage[q] = "done"
      /\ UniqueOK
  BY DEF IInv, AccountsTypeOK, TeamsHaveUsers, CommittedOK
<1>4. ASSUME NEW q \in Requests, q # r
      PROVE  /\ HasTeam(r)' /\ HasTeam(q) => Slug(r) # Slug(q)
             /\ HasUser(r)' /\ HasUser(q) => Email(r) # Email(q)
  <2>1. CASE InsertTeam(r) /\ stage'[r] = "user"
    <3>1. /\ \A t \in teams : Slug(t) # Slug(r)
          /\ \A p \in Requests : TeamInserted(p) => Slug(p) # Slug(r)
      BY <1>3, <2>1 DEF InsertTeam, Goto
    <3>2. HasTeam(q) => Slug(q) # Slug(r)
      BY <1>3, <3>1 DEF HasTeam, TeamInserted
    <3> QED
      BY <2>1, <3>2 DEF HasUser
  <2>2. CASE InsertUser(r) /\ stage'[r] = "answered"
    <3>1. /\ \A u \in users : Email(u) # Email(r)
          /\ \A p \in Requests : UserInserted(p) => Email(p) # Email(r)
      BY <1>3, <2>2 DEF InsertUser, Goto
    <3>2. HasUser(q) => Email(q) # Email(r)
      BY <1>3, <3>1 DEF HasUser, UserInserted
    <3>3. HasTeam(r)
      BY <2>2 DEF InsertUser, HasTeam
    <3> QED
      BY <1>3, <1>4, <3>2, <3>3 DEF UniqueOK
  <2>3. CASE Commit(r)
    <3>1. HasTeam(r) /\ HasUser(r)
      BY <2>3 DEF Commit, HasTeam, HasUser
    <3> QED
      BY <1>3, <1>4, <3>1 DEF UniqueOK
  <2>4. CASE stage'[r] \notin {"user", "answered", "done"}
    BY <2>4 DEF HasTeam, HasUser
  <2>5. \/ InsertTeam(r) /\ stage'[r] = "user"
        \/ InsertUser(r) /\ stage'[r] = "answered"
        \/ Commit(r)
        \/ stage'[r] \notin {"user", "answered", "done"}
    BY <1>1, <1>3 DEF CheckEmail, CheckSlug, InsertTeam, InsertUser, Fail, Goto
  <2> QED
    BY <2>1, <2>2, <2>3, <2>4, <2>5
<1>5. \A q \in Requests : q # r => (HasTeam(q)' <=> HasTeam(q)) /\ (HasUser(q)' <=> HasUser(q))
  BY <1>1 DEF HasTeam, HasUser
<1>6. SUFFICES ASSUME NEW p \in Requests, NEW q \in Requests, p # q
               PROVE  /\ HasTeam(p)' /\ HasTeam(q)' => Slug(p) # Slug(q)
                      /\ HasUser(p)' /\ HasUser(q)' => Email(p) # Email(q)
  BY <1>2 DEF UniqueOK
<1>7. CASE p = r
  BY <1>4, <1>5, <1>6, <1>7
<1>8. CASE q = r
  BY <1>4, <1>5, <1>6, <1>8
<1>9. CASE p # r /\ q # r
  BY <1>3, <1>5, <1>6, <1>9 DEF UniqueOK
<1> QED
  BY <1>7, <1>8, <1>9

\* The row a conflict is about belongs to a user that is committed, and by
\* CheckedOK not to one that was when the request began.
LEMMA ConflictStep ==
  ASSUME IInv, AccountsNext
  PROVE  ConflictNeedsOverlap'
<1>1. PICK r \in Requests :
        /\ CheckEmail(r) \/ CheckSlug(r) \/ InsertTeam(r) \/ InsertUser(r) \/ Commit(r) \/ Fail(r)
        /\ \A q \in Requests : q # r => stage'[q] = stage[q] /\ after'[q] = after[q]
  BY OneMoves
<1>2. form' = form /\ users \subseteq users'
  BY OneMoves
<1>3. \A p, q \in Requests : Rivals(p, q)' <=> Rivals(p, q)
  BY <1>2 DEF Rivals, Slug
<1>4. /\ stage \in [Requests -> Stages]
      /\ users \subseteq Requests
      /\ teams = users
      /\ \A q \in Requests : q \in users <=> stage[q] = "done"
      /\ CheckedOK
      /\ ConflictNeedsOverlap
  BY DEF IInv, AccountsTypeOK, TeamsHaveUsers, CommittedOK
<1>5. ASSUME stage'[r] = "conflict"
      PROVE  \E q \in users \ after'[r] : Rivals(r, q)
  <2>1. CASE InsertTeam(r)
    <3>1. /\ stage[r] = "team" /\ after'[r] = after[r]
          /\ \E t \in teams : Slug(t) = Slug(r)
      BY <1>4, <1>5, <2>1 DEF InsertTeam, Goto
    <3>2. PICK t \in users : Slug(t) = Slug(r)
      BY <1>4, <3>1
    <3>3. t # r /\ t \notin after[r]
      BY <1>4, <3>1, <3>2 DEF CheckedOK
    <3> QED
      BY <3>1, <3>2, <3>3 DEF Rivals
  <2>2. CASE InsertUser(r)
    <3>1. /\ stage[r] = "user" /\ after'[r] = after[r]
          /\ \E u \in users : Email(u) = Email(r)
      BY <1>4, <1>5, <2>2 DEF InsertUser, Goto
    <3>2. PICK u \in users : Email(u) = Email(r)
      BY <3>1
    <3>3. u # r /\ u \notin after[r]
      BY <1>4, <3>1, <3>2 DEF CheckedOK
    <3> QED
      BY <3>1, <3>2, <3>3 DEF Rivals, Email
  <2>3. CASE CheckEmail(r) \/ CheckSlug(r) \/ Commit(r) \/ Fail(r)
    BY <1>4, <1>5, <2>3 DEF CheckEmail, CheckSlug, Commit, Fail, Goto
  <2> QED
    BY <1>1, <2>1, <2>2, <2>3
<1>6. SUFFICES ASSUME NEW p \in Requests, stage'[p] = "conflict"
               PROVE  \E q \in users' \ after'[p] : Rivals(p, q)'
  BY DEF ConflictNeedsOverlap
<1>7. \E q \in users \ after'[p] : Rivals(p, q)
  <2>1. CASE p = r
    BY <1>5, <1>6, <2>1
  <2>2. CASE p # r
    BY <1>1, <1>4, <1>6, <2>2 DEF ConflictNeedsOverlap
  <2> QED
    BY <2>1, <2>2
<1> QED
  BY <1>2, <1>3, <1>4, <1>7

LEMMA StepKeeps ==
  ASSUME IInv, [AccountsNext]_accountVars
  PROVE  IInv'
<1>1. CASE AccountsNext
  BY <1>1, TypeStep, TogetherStep, CommittedStep, CheckedStep, UniqueStep, ConflictStep DEF IInv
<1>2. CASE UNCHANGED accountVars
  BY <1>2 DEF accountVars, IInv, AccountsTypeOK, TeamsHaveUsers, CommittedOK, CheckedOK,
              UniqueOK, ConflictNeedsOverlap, Rivals, HasTeam, HasUser, Email, Slug
<1> QED
  BY <1>1, <1>2

LEMMA UniqueMeansOne == IInv => OneIsAccepted
<1>1. \A r \in Requests : HasUser(r) => HasTeam(r)
  BY DEF HasUser, HasTeam
<1> QED
  BY <1>1 DEF IInv, UniqueOK, OneIsAccepted, Rivals, HasUser, Email

LEMMA Invariance == AccountsSpec => []IInv
<1>1. AccountsInit => IInv
  BY InitHolds
<1>2. IInv /\ [AccountsNext]_accountVars => IInv'
  BY StepKeeps
<1> QED
  BY <1>1, <1>2, PTL DEF AccountsSpec

-------------------------------------------------------------------------
\* The variables keep their types.
THEOREM AccountsTypeCorrect == AccountsSpec => []AccountsTypeOK
<1>1. IInv => AccountsTypeOK
  BY DEF IInv
<1> QED
  BY <1>1, Invariance, PTL

\* A registration that fails between its INSERTs leaves no team behind
\* (register, one transaction).
THEOREM TeamsAlwaysHaveUsers == AccountsSpec => []TeamsHaveUsers
<1>1. IInv => TeamsHaveUsers
  BY DEF IInv
<1> QED
  BY <1>1, Invariance, PTL

\* However many registrations with one address or slug run at once, one at
\* most is told 201 and not rolled back later (register).
THEOREM OneIsAlwaysAccepted == AccountsSpec => []OneIsAccepted
<1>1. IInv => OneIsAccepted
  BY UniqueMeansOne
<1> QED
  BY <1>1, Invariance, PTL

\* A registration is answered 500 for a conflict only if its rival committed
\* after it began (register, the SELECTs before the INSERTs).
THEOREM ConflictAlwaysNeedsOverlap == AccountsSpec => []ConflictNeedsOverlap
<1>1. IInv => ConflictNeedsOverlap
  BY DEF IInv
<1> QED
  BY <1>1, Invariance, PTL

-------------------------------------------------------------------------
(***************************************************************************)
(* The refinement.  The INSERTs that wait and the uncommitted team are     *)
(* steps of an open request, which the registry does not see.              *)
(***************************************************************************)
LEMMA ClashIsRivalry ==
  ASSUME AccountsTypeOK, NEW r \in Requests, NEW q \in Requests
  PROVE  Rivals(r, q) <=> r # q /\ <<form[r], form[q]>> \in Clashing
<1> DEFINE F == UNION {Forms[p] : p \in Requests}
<1>1. form[r] \in F /\ form[q] \in F
  BY DEF AccountsTypeOK
<1>2. <<form[r], form[q]>> \in Clashing
        <=> \/ normal[form[r].email] = normal[form[q].email]
            \/ slugify[form[r].team_name] = slugify[form[q].team_name]
  BY <1>1 DEF Clashing
<1> QED
  BY <1>2 DEF Rivals, Slug

LEMMA TakenByRival ==
  ASSUME AccountsTypeOK, NEW r \in Requests, NEW S \in SUBSET Requests
  PROVE  Registry!Taken(r, S) <=> \E q \in S : Rivals(r, q)
BY ClashIsRivalry DEF Registry!Taken

LEMMA OutcomeOf ==
  ASSUME AccountsTypeOK, NEW r \in Requests, NEW s, Goto(r, s)
  PROVE  Registry!Goto(r, IF s \in Working THEN "open" ELSE s)
BY DEF AccountsTypeOK, Goto, Outcome, Registry!Goto

LEMMA StepRefines ==
  ASSUME IInv, ConflictNeedsOverlap', OneIsAccepted', AccountsNext
  PROVE  Registry!Next \/ UNCHANGED <<form, Outcome, teams, users, after>>
<1>1. PICK r \in Requests :
        /\ CheckEmail(r) \/ CheckSlug(r) \/ InsertTeam(r) \/ InsertUser(r) \/ Commit(r) \/ Fail(r)
        /\ \A q \in Requests : q # r => stage'[q] = stage[q] /\ after'[q] = after[q]
        /\ stage[r] # "done"
  BY OneMoves
<1>2. form' = form
  BY OneMoves
<1>3. \A p, q \in Requests : Rivals(p, q)' <=> Rivals(p, q)
  BY <1>2 DEF Rivals, Slug
<1>4. /\ AccountsTypeOK
      /\ stage \in [Requests -> Stages]
      /\ users \subseteq Requests
      /\ teams = users
      /\ \A q \in Requests : q \in users <=> stage[q] = "done"
  BY DEF IInv, AccountsTypeOK, TeamsHaveUsers, CommittedOK
<1>5. \A q \in Requests : Outcome[q] = IF stage[q] \in Working THEN "open" ELSE stage[q]
  BY DEF Outcome
<1>6. r \notin users
  BY <1>1, <1>4
<1> SUFFICES \/ Registry!Begin(r) \/ Registry!Refuse(r) \/ Registry!Accept(r)
             \/ Registry!Register(r) \/ Registry!Conflict(r) \/ Registry!Fail(r)
             \/ UNCHANGED <<form, Outcome, teams, users, after>>
  BY DEF Registry!Next
<1>7. ASSUME UNCHANGED <<form, teams, users, after>>, stage[r] \in Working,
             NEW s \in Working, Goto(r, s)
      PROVE  UNCHANGED <<form, Outcome, teams, users, after>>
  <2>1. stage'[r] \in Working /\ stage' \in [Requests -> Stages]
    BY <1>4, <1>7 DEF Goto, Stages
  <2>2. Outcome' = Outcome
    BY <1>1, <1>7, <2>1 DEF Outcome
  <2> QED
    BY <1>7, <2>2
\* The request that finds its address, or its slug, taken.
<1>8. CASE CheckEmail(r)
  <2>1. /\ Outcome[r] = "idle"
        /\ after' = [after EXCEPT ![r] = users]
        /\ UNCHANGED <<form, teams, users>>
    BY <1>5, <1>8 DEF CheckEmail, Working
  <2>2. CASE \E u \in users : Email(u) = Email(r)
    <3>1. Registry!Taken(r, users)
      BY <1>4, <1>6, <2>2, TakenByRival DEF Rivals, Email
    <3>2. Registry!Goto(r, "refused")
      BY <1>4, <1>8, <2>2, OutcomeOf DEF CheckEmail, Working
    <3> QED
      BY <2>1, <3>1, <3>2 DEF Registry!Begin
  <2>3. CASE ~ \E u \in users : Email(u) = Email(r)
    <3>1. Registry!Goto(r, "open")
      BY <1>4, <1>8, <2>3, OutcomeOf DEF CheckEmail, Working
    <3> QED
      BY <2>1, <3>1 DEF Registry!Begin
  <2> QED
    BY <2>2, <2>3
<1>9. CASE CheckSlug(r)
  <2>1. /\ stage[r] = "slug" /\ Outcome[r] = "open"
        /\ UNCHANGED <<form, teams, users, after>>
    BY <1>5, <1>9 DEF CheckSlug, Working
  <2>2. CASE \E t \in teams : Slug(t) = Slug(r)
    <3>1. Registry!Taken(r, users)
      BY <1>4, <1>6, <2>2, TakenByRival DEF Rivals
    <3>2. Registry!Goto(r, "refused")
      BY <1>4, <1>9, <2>2, OutcomeOf DEF CheckSlug, Working
    <3> QED
      BY <2>1, <3>1, <3>2 DEF Registry!Refuse
  <2>3. CASE ~ \E t \in teams : Slug(t) = Slug(r)
    <3>1. Goto(r, "team")
      BY <1>9, <2>3 DEF CheckSlug
    <3> QED
      BY <1>7, <2>1, <3>1 DEF Working
  <2> QED
    BY <2>2, <2>3
\* The INSERT that fails on a committed row.
<1>10. ASSUME UNCHANGED <<form, teams, users, after>>, stage[r] \in Working, Goto(r, "conflict")
       PROVE  Registry!Conflict(r)
  <2>1. stage'[r] = "conflict" /\ Outcome[r] = "open"
    BY <1>4, <1>5, <1>10 DEF Goto
  <2>2. \E q \in users \ after[r] : Rivals(r, q)
    BY <1>3, <1>4, <1>10, <2>1 DEF ConflictNeedsOverlap
  <2>3. Registry!Taken(r, users \ after[r])
    BY <1>4, <2>2, TakenByRival
  <2>4. Registry!Goto(r, "conflict")
    BY <1>4, <1>10, OutcomeOf DEF Working
  <2> QED
    BY <1>10, <2>1, <2>3, <2>4 DEF Registry!Conflict
<1>11. CASE InsertTeam(r)
  <2>1. stage[r] \in Working /\ UNCHANGED <<form, teams, users, after>>
    BY <1>11 DEF InsertTeam, Working
  <2>2. Goto(r, "conflict") \/ Goto(r, "user")
    BY <1>11 DEF InsertTeam
  <2> QED
    BY <1>7, <1>10, <2>1, <2>2 DEF Working
\* The INSERT that succeeds has no rival, by the unique columns.
<1>12. CASE InsertUser(r)
  <2>1. stage[r] \in Working /\ UNCHANGED <<form, teams, users, after>>
    BY <1>12 DEF InsertUser, Working
  <2>2. CASE Goto(r, "answered")
    <3>1. stage'[r] = "answered" /\ Outcome[r] = "open"
      BY <1>4, <1>5, <2>1, <2>2 DEF Goto
    <3>2. ASSUME NEW q \in Requests, Outcome[q] \in {"answered", "done"}, Rivals(r, q)
          PROVE  FALSE
      <4>1. q # r /\ stage[q] \in {"answered", "done"}
        BY <1>5, <3>1, <3>2 DEF Working
      <4>2. stage'[q] \in {"answered", "done"}
        BY <1>1, <4>1
      <4> QED
        BY <1>3, <3>1, <3>2, <4>2 DEF OneIsAccepted
    <3>3. ~ Registry!Taken(r, {q \in Requests : Outcome[q] \in {"answered", "done"}})
      <4>1. {q \in Requests : Outcome[q] \in {"answered", "done"}} \in SUBSET Requests
        OBVIOUS
      <4> QED
        BY <1>4, <3>2, <4>1, TakenByRival
    <3>4. Registry!Goto(r, "answered")
      BY <1>4, <2>2, OutcomeOf DEF Working
    <3> QED
      BY <2>1, <3>1, <3>3, <3>4 DEF Registry!Accept
  <2> QED
    BY <1>10, <1>12, <2>1, <2>2 DEF InsertUser
<1>13. CASE Commit(r)
  <2>1. /\ Outcome[r] = "answered"
        /\ teams' = teams \cup {r} /\ users' = users \cup {r}
        /\ UNCHANGED <<form, after>>
    BY <1>5, <1>13 DEF Commit, Working
  <2>2. Registry!Goto(r, "done")
    BY <1>4, <1>13, OutcomeOf DEF Commit, Working
  <2> QED
    BY <2>1, <2>2 DEF Registry!Register
<1>14. CASE Fail(r)
  <2>1. UNCHANGED <<form, teams, users, after>>
    BY <1>14 DEF Fail
  <2>2. CASE stage[r] = "answered"
    <3>1. Registry!Goto(r, "lost") /\ Outcome[r] = "answered"
      BY <1>4, <1>5, <1>14, <2>2, OutcomeOf DEF Fail, Working
    <3> QED
      BY <2>1, <3>1 DEF Registry!Fail
  <2>3. CASE stage[r] # "answered"
    <3>1. Registry!Goto(r, "failed") /\ Outcome[r] = "open"
      BY <1>4, <1>5, <1>14, <2>3, OutcomeOf DEF Fail, Working
    <3> QED
      BY <2>1, <3>1 DEF Registry!Fail
  <2> QED
    BY <2>2, <2>3
<1> QED
  BY <1>1, <1>8, <1>9, <1>11, <1>12, <1>13, <1>14

\* Registration implements the registry: however the statements of concurrent
\* requests interleave, and wherever they break off, each answer is one that
\* a registration in one step could have had (register, get_db).
THEOREM RegistrationImplements == AccountsSpec => ImplementsRegistry
<1>1. AccountsInit => Registry!Init
  BY DEF AccountsInit, Registry!Init, Outcome, Working
<1>2. IInv => OneIsAccepted /\ ConflictNeedsOverlap
  BY UniqueMeansOne DEF IInv
<1>3. ASSUME IInv, ConflictNeedsOverlap', OneIsAccepted', [AccountsNext]_accountVars
      PROVE  [Registry!Next]_<<form, Outcome, teams, users, after>>
  <2>1. CASE AccountsNext
    BY <1>3, <2>1, StepRefines
  <2>2. CASE UNCHANGED accountVars
    BY <2>2 DEF accountVars, Outcome
  <2> QED
    BY <1>3, <2>1, <2>2
<1> QED
  BY <1>1, <1>2, <1>3, Invariance, PTL
    DEF AccountsSpec, ImplementsRegistry, Registry!Spec, Registry!vars
=========================================================================
