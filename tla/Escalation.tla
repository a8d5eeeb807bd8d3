-------------------------- MODULE Escalation ---------------------------
(***************************************************************************)
(* The escalation runner, step by step.  A run loads the triggered         *)
(* incidents that have a policy, then takes them one at a time: it loads   *)
(* the policy's steps, awaits the Slack call for the step that is due and  *)
(* only then counts the step; one commit at the end writes all of it.      *)
(* Each query sends the UPDATEs of the incidents counted before it, whose  *)
(* rows stay locked until the run ends.  Meanwhile users change statuses,  *)
(* assign policies, add steps and delete policies.                         *)
(*                                                                         *)
(* An HTTP request is one action here: what two racing requests do to a    *)
(* row is the subject of IncidentLifecycle.                                *)
(***************************************************************************)
EXTENDS Naturals, Sequences, FiniteSets

CONSTANTS
  Incidents,
  Policies,
  NoPolicy,      \* escalation_policy_id IS NULL
  Steps,         \* every step that a policy has or may get
  PolicyOf,      \* PolicyOf[s]: policy_id of step s
  Order,         \* Order[s]: step_order, which need not be unique
  Delay,         \* Delay[s]: delay_minutes
  InitialSteps,  \* InitialSteps[p]: steps created with policy p
  MaxClock,      \* bound on the clock
  MaxFailures    \* bound on the runs that fail

ASSUME PolicyAssumption == NoPolicy \notin Policies
ASSUME StepAssumption ==
  /\ PolicyOf \in [Steps -> Policies]
  /\ Order \in [Steps -> Nat]
  /\ Delay \in [Steps -> Nat]
  /\ InitialSteps \in [Policies -> Seq(Steps)]
  /\ \A p \in Policies : \A k \in DOMAIN InitialSteps[p] : PolicyOf[InitialSteps[p][k]] = p
ASSUME BoundAssumption == MaxClock \in Nat /\ MaxFailures \in Nat

VARIABLES
  row,        \* committed incidents: status, policy, step reached
  policies,   \* committed escalation policies
  steps,      \* steps[p]: their steps, in the order of their creation
  pc,         \* where the run is
  now,        \* the run's datetime.now, taken once
  rows,       \* the incidents the run loaded, as it loaded them
  todo,       \* those the loop has not reached
  cache,      \* the policies whose steps the run has loaded, with the steps
  target,     \* the incident and the step whose Slack call is awaited
  fired,      \* the uncommitted increments: fired[i] is the step of i
  locked,     \* rows whose UPDATE has been sent
  clock,      \* minutes since the incidents were created
  told,       \* history: told[i]: the calls of notify_escalation for i, with the
              \* step and its index
  escalated,  \* committed incident.escalated audit rows of i, in order
  left,       \* history: incidents that left "triggered" during this run
  failures    \* history: how many runs have failed

session == <<pc, now, rows, todo, cache, target, fired, locked>>
vars == <<row, policies, steps, session, clock, told, escalated, left, failures>>

-------------------------------------------------------------------------
Statuses == {"triggered", "acknowledged", "resolved"}

Row == [status : Statuses, policy : Policies \cup {NoPolicy}, step : Nat]

Empty == [x \in {} |-> x]

\* The steps of S with a step_order up to that of s, and below it.
AtMost(S, s) == {t \in S : Order[t] <= Order[s]}
Below(S, s) == {t \in S : Order[t] < Order[s]}

\* Mutant: the steps are sorted downwards.
AtIndexDescending(S, n) ==
  {s \in S : Cardinality(S \ AtMost(S, s)) <= n /\ n < Cardinality(S \ Below(S, s))}

\* The steps that sorted(steps, key=step_order)[n] can be: the database
\* breaks ties as it likes.
AtIndex(S, n) ==
  {s \in S : Cardinality(Below(S, s)) <= n /\ n < Cardinality(AtMost(S, s))}

StepSet(p) == {steps[p][k] : k \in DOMAIN steps[p]}

\* The steps of p as the run sees them: the ORM fills a collection once in
\* the life of a session.
LoadedSteps(p) == IF p \in DOMAIN cache THEN cache[p] ELSE StepSet(p)

\* The session's identity map after it loaded the steps of p.
Cached(p) ==
  [q \in DOMAIN cache \cup {p} |-> IF q = p THEN LoadedSteps(p) ELSE cache[q]]

\* Mutant: acknowledged incidents are selected too.
EscalatableUnlessResolved ==
  {i \in Incidents : row[i].status # "resolved" /\ row[i].policy \in policies}

Escalatable ==
  {i \in Incidents : row[i].status = "triggered" /\ row[i].policy \in policies}

-------------------------------------------------------------------------
Init ==
  /\ row = [i \in Incidents |->
              [status |-> "triggered", policy |-> NoPolicy, step |-> 0]]
  /\ policies = Policies
  /\ steps = InitialSteps
  /\ pc = "idle" /\ now = 0
  /\ rows = Empty /\ todo = {} /\ cache = Empty /\ target = <<>>
  /\ fired = Empty /\ locked = {}
  /\ clock = 0
  /\ told = [i \in Incidents |-> <<>>]
  /\ escalated = [i \in Incidents |-> <<>>]
  /\ left = {}
  /\ failures = 0

\* The SELECT of run_escalations.
StartRun ==
  /\ pc = "idle"
  /\ Escalatable # {}
  /\ pc' = "loop"
  /\ now' = clock
  /\ rows' = [i \in Escalatable |-> row[i]]
  /\ todo' = Escalatable
  /\ left' = {}
  /\ UNCHANGED <<row, policies, steps, cache, target, fired, locked, clock, told,
                 escalated, failures>>

\* Mutant: the delay counts from one minute on.
IsDueLate(s) == now > Delay[s]

\* The clock counts from created_at, which is the same for all incidents.
IsDue(s) == now >= Delay[s]

Skip(i) ==
  /\ todo' = todo \ {i}
  /\ UNCHANGED <<pc, target>>

\* The loop reaches incident i, which is any of the rest (the SELECT has no
\* ORDER BY): its policy's steps are queried, which flushes what was counted
\* so far, and the next step is chosen.
TakeIncident(i) ==
  LET p == rows[i].policy
      candidates == AtIndex(LoadedSteps(p), rows[i].step) IN
  /\ pc = "loop"
  /\ i \in todo
  /\ locked' = DOMAIN fired
  /\ \/ /\ p \notin policies
        /\ Skip(i)
        /\ UNCHANGED cache
     \/ /\ p \in policies
        /\ cache' = Cached(p)
        /\ \/ /\ candidates = {}
              /\ Skip(i)
           \/ \E s \in candidates :
                \/ ~IsDue(s) /\ Skip(i)
                \/ /\ IsDue(s)
                   /\ pc' = "notify"
                   /\ target' = <<i, s>>
                   /\ UNCHANGED todo
  /\ UNCHANGED <<row, policies, steps, now, rows, fired, clock, told, escalated,
                 left, failures>>

\* notify_escalation is called with the step.  Which of the team's webhooks it
\* then calls (none, when there is no active config) and what they answer is
\* its own affair: it swallows every failure.
Announce(i, s) ==
  told' = [told EXCEPT ![i] = Append(@, [index |-> rows[i].step + 1, step |-> s])]

\* Mutant: the step is counted although the Slack call was skipped.
NotifyNobody ==
  /\ pc = "notify"
  /\ pc' = "loop"
  /\ fired' = [j \in DOMAIN fired \cup {target[1]} |->
                 IF j = target[1] THEN target[2] ELSE fired[j]]
  /\ todo' = todo \ {target[1]}
  /\ target' = <<>>
  /\ UNCHANGED <<row, policies, steps, now, rows, cache, locked, clock, told,
                 escalated, left, failures>>

\* notify_escalation returns, whether Slack answered or not; the step is
\* counted and an audit row added to the session.
NotifyEscalation ==
  LET i == target[1]
      s == target[2] IN
  /\ pc = "notify"
  /\ pc' = "loop"
  /\ Announce(i, s)
  /\ fired' = [j \in DOMAIN fired \cup {i} |-> IF j = i THEN s ELSE fired[j]]
  /\ todo' = todo \ {i}
  /\ target' = <<>>
  /\ UNCHANGED <<row, policies, steps, now, rows, cache, locked, clock,
                 escalated, left, failures>>

\* Mutant: all runs share one session.
EndRunKeepingSession ==
  /\ pc' = "idle" /\ now' = 0
  /\ rows' = Empty /\ todo' = {} /\ target' = <<>>
  /\ fired' = Empty /\ locked' = {}
  /\ UNCHANGED cache

EndRun ==
  /\ pc' = "idle" /\ now' = 0
  /\ rows' = Empty /\ todo' = {} /\ cache' = Empty /\ target' = <<>>
  /\ fired' = Empty /\ locked' = {}

\* Mutant: the step reached is not counted.
CommitUncounted ==
  /\ pc = "loop"
  /\ todo = {}
  /\ escalated' = [i \in Incidents |->
                     IF i \in DOMAIN fired THEN Append(escalated[i], fired[i])
                                           ELSE escalated[i]]
  /\ EndRun
  /\ UNCHANGED <<row, policies, steps, clock, told, left, failures>>

\* The run's one commit, after the last incident.
CommitRun ==
  /\ pc = "loop"
  /\ todo = {}
  /\ row' = [i \in Incidents |->
               IF i \in DOMAIN fired THEN [row[i] EXCEPT !.step = rows[i].step + 1]
                                     ELSE row[i]]
  /\ escalated' = [i \in Incidents |->
                     IF i \in DOMAIN fired THEN Append(escalated[i], fired[i])
                                           ELSE escalated[i]]
  /\ EndRun
  /\ UNCHANGED <<policies, steps, clock, told, left, failures>>

\* A database error, a deadlock victim or a shutdown in the middle of a run:
\* the increments are rolled back, the Slack calls are not.
FailRun ==
  /\ pc # "idle"
  /\ failures < MaxFailures
  /\ failures' = failures + 1
  /\ EndRun
  /\ UNCHANGED <<row, policies, steps, clock, told, escalated, left>>

-------------------------------------------------------------------------
\* A status request; a row whose UPDATE the run has sent makes it wait.  Any
\* move is possible when requests race.
TransitionStatus(i, t) ==
  /\ i \notin locked
  /\ row[i].status # t
  /\ row' = [row EXCEPT ![i].status = t]
  /\ left' = IF t = "triggered" THEN left ELSE left \cup {i}
  /\ UNCHANGED <<policies, steps, session, clock, told, escalated, failures>>

\* The foreign key refuses a policy that does not exist.
AssignEscalationPolicy(i, p) ==
  /\ i \notin locked
  /\ p \in policies
  /\ row[i].policy # p
  /\ row' = [row EXCEPT ![i].policy = p]
  /\ UNCHANGED <<policies, steps, session, clock, told, escalated, left, failures>>

AddEscalationStep(s) ==
  LET p == PolicyOf[s] IN
  /\ p \in policies
  /\ s \notin StepSet(p)
  /\ steps' = [steps EXCEPT ![p] = Append(@, s)]
  /\ UNCHANGED <<row, policies, session, clock, told, escalated, left, failures>>

\* The foreign key of incidents refuses a policy that is assigned; the
\* steps go with the policy.
DeleteEscalationPolicy(p) ==
  /\ p \in policies
  /\ \A i \in Incidents : row[i].policy # p
  /\ policies' = policies \ {p}
  /\ UNCHANGED <<row, steps, session, clock, told, escalated, left, failures>>

Tick ==
  /\ clock < MaxClock
  /\ clock' = clock + 1
  /\ UNCHANGED <<row, policies, steps, session, told, escalated, left, failures>>

Next ==
  \/ StartRun
  \/ \E i \in Incidents : TakeIncident(i)
  \/ NotifyEscalation
  \/ CommitRun
  \/ FailRun
  \/ \E i \in Incidents, t \in Statuses : TransitionStatus(i, t)
  \/ \E i \in Incidents, p \in Policies : AssignEscalationPolicy(i, p)
  \/ \E s \in Steps : AddEscalationStep(s)
  \/ \E p \in Policies : DeleteEscalationPolicy(p)
  \/ Tick

Spec == Init /\ [][Next]_vars

\* The scheduler starts a run every 60 s, and a run that does not fail goes
\* on: every await of it ends (a Slack call after 5 s at the latest).
Fairness ==
  /\ WF_vars(StartRun)
  /\ WF_vars(\E i \in Incidents : TakeIncident(i))
  /\ WF_vars(NotifyEscalation)
  /\ WF_vars(CommitRun)

FairSpec == Spec /\ Fairness

-------------------------------------------------------------------------
TablesOK ==
  /\ row \in [Incidents -> Row]
  /\ policies \subseteq Policies
  /\ steps \in [Policies -> Seq(Steps)]
  /\ clock \in Nat
  /\ told \in [Incidents -> Seq([index : Nat, step : Steps])]
  /\ escalated \in [Incidents -> Seq(Steps)]
  /\ left \subseteq Incidents
  /\ failures \in Nat

RunOK ==
  /\ pc \in {"idle", "loop", "notify"}
  /\ now \in Nat /\ now <= clock
  /\ DOMAIN rows \subseteq Incidents
  /\ \A i \in DOMAIN rows : rows[i] \in Row
  /\ todo \subseteq DOMAIN rows
  /\ DOMAIN cache \subseteq Policies
  /\ \A p \in DOMAIN cache : cache[p] \subseteq Steps
  /\ IF pc = "notify" THEN target \in todo \X Steps ELSE target = <<>>
  /\ DOMAIN fired \subseteq DOMAIN rows \ todo
  /\ \A i \in DOMAIN fired : fired[i] \in Steps
  /\ locked \subseteq DOMAIN fired
  /\ pc = "idle" => rows = Empty /\ cache = Empty

\* Type invariant.  A run holds what it loaded, counts an incident once, and
\* nothing of it is left when it has ended.
TypeOK == TablesOK /\ RunOK

Announced(i, n, s) == \E k \in DOMAIN told[i] : told[i][k] = [index |-> n, step |-> s]

\* Every escalation in the audit trail was announced before it was recorded,
\* the n-th one as the n-th, and current_escalation_step counts them.
RecordedWasAnnounced ==
  \A i \in Incidents :
    /\ row[i].step = Len(escalated[i])
    /\ \A n \in DOMAIN escalated[i] : Announced(i, n, escalated[i][n])

\* A step is announced again only because a run failed after it had called
\* Slack: what is announced but not counted is at most one step of the
\* present run and one for each failed run.
RepeatsNeedFailure ==
  \A i \in Incidents :
    Len(told[i]) <= row[i].step + failures + IF i \in DOMAIN fired THEN 1 ELSE 0

Ascending(q) == \A j, k \in DOMAIN q : j < k => Order[q[j]] < Order[q[k]]

\* If the steps of a policy were created in ascending order, and an incident
\* was escalated under that policy only, its n-th escalation went to the
\* n-th step, also when steps were added during the runs.
AuditFollowsPolicy ==
  \A i \in Incidents :
    LET p == row[i].policy
        done == escalated[i] IN
    (/\ p # NoPolicy
     /\ Ascending(steps[p])
     /\ \A n \in DOMAIN done : PolicyOf[done[n]] = p)
      => \A n \in DOMAIN done : n \in DOMAIN steps[p] /\ done[n] = steps[p][n]

\* An incident that is not triggered is announced only if it was when the run
\* loaded it and changed since.
StaleNeedsChange ==
  [][\A i \in Incidents :
       told'[i] # told[i] => row[i].status = "triggered" \/ i \in left]_vars

DueStep(i, n) ==
  /\ row[i].status = "triggered" /\ row[i].policy \in policies
  /\ row[i].step = n
  /\ \E s \in AtIndex(StepSet(row[i].policy), n) : clock >= Delay[s]

\* A step that is due is taken, unless the incident leaves "triggered" or its
\* policy changes first, although runs fail in between.
DueStepIsTaken ==
  \A i \in Incidents : \A n \in 0..Cardinality(Steps) :
    DueStep(i, n) ~> ~DueStep(i, n)

\* The announcements of each incident, repeated ones once.
Announcements ==
  [i \in Incidents |->
     {<<told[i][k].index, told[i][k].step>> : k \in DOMAIN told[i]}]

\* The n-th escalation of an incident goes to a step that stood at index n-1
\* of its policy when a run read it, is announced before it is recorded and
\* comes after the recorded ones, whatever fails, is reassigned or added in
\* between.  Under changing steps the index is kept, not the step: the
\* contract says what that allows (run_escalations).
EC == INSTANCE EscalationContract
        WITH announced <- Announcements, recorded <- escalated

ImplementsContract == EC!Spec

=========================================================================
