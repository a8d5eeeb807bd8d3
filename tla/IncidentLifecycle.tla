----------------------- MODULE IncidentLifecycle ------------------------
(***************************************************************************)
(* The life of an incident after it was created.  Three kinds of database  *)
(* sessions change incident rows: HTTP requests (PATCH .../status and      *)
(* PATCH .../assign-escalation), the SLA checker and the escalation        *)
(* runner.  Each loads rows, decides on what it loaded, and commits later; *)
(* PostgreSQL runs them at READ COMMITTED and the ORM's UPDATE writes, by  *)
(* primary key, only the columns whose value differs from the loaded one.  *)
(***************************************************************************)
EXTENDS Naturals, Sequences

CONSTANTS
  Incidents,
  Requests,    \* concurrent HTTP requests, each with its own session
  Policies,    \* escalation policies that exist
  NoPolicy,    \* escalation_policy_id IS NULL
  Steps,       \* Steps[p]: number of steps of policy p
  Deadline,    \* Deadline[i]: sla_deadline of i, 0 for NULL
  MaxClock     \* bound on the clock

ASSUME StepsAssumption == Steps \in [Policies -> Nat]
ASSUME DeadlineAssumption == Deadline \in [Incidents -> Nat]
ASSUME PolicyAssumption == NoPolicy \notin Policies
ASSUME SessionAssumption ==
  {"sla_checker", "escalation_runner"} \cap Requests = {}

VARIABLES
  row,      \* the committed row of each incident
  trail,    \* trail[i]: from_status and to_status of i's audit rows, as committed
  events,   \* events[i][e]: committed audit rows of i with a job's action e
  loaded,   \* loaded[s]: the rows session s holds, as it loaded them
  pending,  \* pending[s]: the same rows with the session's own changes
  logged,   \* logged[s]: action of the audit rows s will insert
  clock     \* datetime.now

vars == <<row, trail, events, loaded, pending, logged, clock>>

-------------------------------------------------------------------------
Statuses == {"triggered", "acknowledged", "resolved"}

WorkerEvents == {"sla.breached", "incident.escalated"}

\* The audit actions, with the status rows named for the status they enter.
Events == Statuses \cup WorkerEvents

NoEvent == "none"

\* A NULL timestamp is 0; the clock starts at 1.
Row == [status : Statuses, acknowledged_at : Nat, resolved_at : Nat,
        sla_breached : BOOLEAN, current_escalation_step : Nat,
        escalation_policy_id : Policies \cup {NoPolicy}]

NewRow == [status |-> "triggered", acknowledged_at |-> 0, resolved_at |-> 0,
           sla_breached |-> FALSE, current_escalation_step |-> 0,
           escalation_policy_id |-> NoPolicy]

\* Mutant: an acknowledgement of a resolved incident is let through.
VALID_TRANSITIONS_Lax ==
  [s \in Statuses |->
     CASE s = "triggered"    -> {"acknowledged", "resolved"}
       [] s = "acknowledged" -> {"resolved"}
       [] s = "resolved"     -> {"triggered", "acknowledged"}]

VALID_TRANSITIONS ==
  [s \in Statuses |->
     CASE s = "triggered"    -> {"acknowledged", "resolved"}
       [] s = "acknowledged" -> {"resolved"}
       [] s = "resolved"     -> {"triggered"}]

Sessions == Requests \cup {"sla_checker", "escalation_runner"}

Held(s) == DOMAIN loaded[s]

\* An HTTP request that is not running, a job whose last run has ended:
\* APScheduler starts no second instance of a job that still runs.
Idle(s) == Held(s) = {}

\* Session s has loaded the rows S and set the attributes that f gives.
Load(s, S, f, e) ==
  /\ loaded'  = [loaded  EXCEPT ![s] = [i \in S |-> row[i]]]
  /\ pending' = [pending EXCEPT ![s] = [i \in S |-> f[i]]]
  /\ logged'  = [logged  EXCEPT ![s] = e]
  /\ UNCHANGED <<row, trail, events>>

EndSession(s) ==
  /\ loaded'  = [loaded  EXCEPT ![s] = [i \in {} |-> NewRow]]
  /\ pending' = [pending EXCEPT ![s] = [i \in {} |-> NewRow]]
  /\ logged'  = [logged  EXCEPT ![s] = NoEvent]

-------------------------------------------------------------------------
Init ==
  /\ row = [i \in Incidents |-> NewRow]
  /\ trail = [i \in Incidents |-> <<>>]
  /\ events = [i \in Incidents |-> [e \in WorkerEvents |-> 0]]
  /\ loaded = [s \in Sessions |-> [i \in {} |-> NewRow]]
  /\ pending = [s \in Sessions |-> [i \in {} |-> NewRow]]
  /\ logged = [s \in Sessions |-> NoEvent]
  /\ clock = 1

\* Mutant: re-opening forgets to clear resolved_at.
TransitionedKeepingResolvedAt(r, t, now) ==
  CASE t = "acknowledged" -> [r EXCEPT !.status = t, !.acknowledged_at = now]
    [] t = "resolved"     -> [r EXCEPT !.status = t, !.resolved_at = now]
    [] t = "triggered"    -> [r EXCEPT !.status = t]

\* Mutant: local time is stored as if it were UTC.
TransitionedAtLocalTime(r, t, now) ==
  CASE t = "acknowledged" -> [r EXCEPT !.status = t, !.acknowledged_at = now + 1]
    [] t = "resolved"     -> [r EXCEPT !.status = t, !.resolved_at = now + 1]
    [] t = "triggered"    -> [r EXCEPT !.status = t, !.resolved_at = 0]

\* Mutant: reopening starts the escalation from the first step again.
TransitionedFromFirstStep(r, t, now) ==
  CASE t = "acknowledged" -> [r EXCEPT !.status = t, !.acknowledged_at = now]
    [] t = "resolved"     -> [r EXCEPT !.status = t, !.resolved_at = now]
    [] t = "triggered"    -> [r EXCEPT !.status = t, !.resolved_at = 0,
                                       !.current_escalation_step = 0]

\* The attributes transition_status assigns when it moves r to status t.
Transitioned(r, t, now) ==
  CASE t = "acknowledged" -> [r EXCEPT !.status = t, !.acknowledged_at = now]
    [] t = "resolved"     -> [r EXCEPT !.status = t, !.resolved_at = now]
    [] t = "triggered"    -> [r EXCEPT !.status = t, !.resolved_at = 0]

\* transition_status up to its return: the row is loaded, the transition is
\* validated against it, the attributes are set and an audit row is added.
TransitionStatus(s, i, t) ==
  /\ Idle(s)
  /\ t \in VALID_TRANSITIONS[row[i].status]
  /\ clock < MaxClock
  /\ clock' = clock + 1
  /\ Load(s, {i}, [j \in {i} |-> Transitioned(row[j], t, clock')], t)

\* assign_escalation_policy: neither the policy nor the step reached under
\* the previous policy is looked at.
AssignEscalationPolicy(s, i, p) ==
  /\ Idle(s)
  /\ Load(s, {i}, [j \in {i} |-> [row[j] EXCEPT !.escalation_policy_id = p]],
          NoEvent)
  /\ UNCHANGED clock

\* Mutant: incidents already marked are picked up again.
OverdueAgain(i) ==
  /\ Deadline[i] # 0
  /\ Deadline[i] < clock
  /\ row[i].status # "resolved"

\* Mutant: an acknowledged incident is taken to be within its SLA.
OverdueTriggered(i) ==
  /\ Deadline[i] # 0
  /\ Deadline[i] < clock
  /\ row[i].sla_breached = FALSE
  /\ row[i].status = "triggered"

Overdue(i) ==
  /\ Deadline[i] # 0
  /\ Deadline[i] < clock
  /\ row[i].sla_breached = FALSE
  /\ row[i].status # "resolved"

OverdueIncidents == {i \in Incidents : Overdue(i)}

\* check_sla_breaches up to its commit.
CheckSlaBreaches ==
  /\ Idle("sla_checker")
  /\ OverdueIncidents # {}
  /\ Load("sla_checker", OverdueIncidents,
          [i \in OverdueIncidents |-> [row[i] EXCEPT !.sla_breached = TRUE]],
          "sla.breached")
  /\ UNCHANGED clock

\* Triggered incidents whose policy has a step left.  Which of them are past
\* the delay of that step is left open.
Escalatable ==
  {i \in Incidents :
     /\ row[i].status = "triggered"
     /\ row[i].escalation_policy_id \in Policies
     /\ row[i].current_escalation_step < Steps[row[i].escalation_policy_id]}

\* run_escalations up to its commit, firing one step of each incident of S.
RunEscalations(S) ==
  /\ Idle("escalation_runner")
  /\ S # {}
  /\ Load("escalation_runner", S,
          [i \in S |-> [row[i] EXCEPT !.current_escalation_step = @ + 1]],
          "incident.escalated")
  /\ UNCHANGED clock

\* Mutant: every column is written, as it was loaded if nothing else.
ColumnAlways(cur, old, new) == new

\* The UPDATE of one row: a column is written when the session changed it.
Column(cur, old, new) == IF new # old THEN new ELSE cur

WrittenColumns(cur, old, new) ==
  [status          |-> Column(cur.status, old.status, new.status),
   acknowledged_at |-> Column(cur.acknowledged_at, old.acknowledged_at, new.acknowledged_at),
   resolved_at     |-> Column(cur.resolved_at, old.resolved_at, new.resolved_at),
   sla_breached    |-> Column(cur.sla_breached, old.sla_breached, new.sla_breached),
   current_escalation_step |-> Column(cur.current_escalation_step,
                                old.current_escalation_step, new.current_escalation_step),
   escalation_policy_id    |-> Column(cur.escalation_policy_id,
                                old.escalation_policy_id, new.escalation_policy_id)]

\* The payload of transition_status's audit row.
StatusEntry(s, i) == [from |-> loaded[s][i].status, to |-> logged[s]]

\* The session's commit: get_db after the endpoint, or the worker itself.
Commit(s) ==
  /\ ~Idle(s)
  /\ row' = [i \in Incidents |->
               IF i \in Held(s)
               THEN WrittenColumns(row[i], loaded[s][i], pending[s][i])
               ELSE row[i]]
  /\ trail' = [i \in Incidents |->
                 IF i \in Held(s) /\ logged[s] \in Statuses
                 THEN Append(trail[i], StatusEntry(s, i))
                 ELSE trail[i]]
  /\ events' = [i \in Incidents |->
                  IF i \in Held(s)
                  THEN [e \in WorkerEvents |-> IF e = logged[s] THEN events[i][e] + 1
                                                                ELSE events[i][e]]
                  ELSE events[i]]
  /\ EndSession(s)
  /\ UNCHANGED clock

\* A database error, a deadlock victim or a crash before the commit.
Rollback(s) ==
  /\ ~Idle(s)
  /\ EndSession(s)
  /\ UNCHANGED <<row, trail, events, clock>>

Tick ==
  /\ clock < MaxClock
  /\ clock' = clock + 1
  /\ UNCHANGED <<row, trail, events, loaded, pending, logged>>

Next ==
  \/ \E s \in Requests, i \in Incidents, t \in Statuses : TransitionStatus(s, i, t)
  \/ \E s \in Requests, i \in Incidents, p \in Policies : AssignEscalationPolicy(s, i, p)
  \/ CheckSlaBreaches
  \/ \E S \in SUBSET Escalatable : RunEscalations(S)
  \/ \E s \in Sessions : Commit(s)
  \/ \E s \in Sessions : Rollback(s)
  \/ Tick

Spec == Init /\ [][Next]_vars

\* The scheduler runs the SLA job every 60 s, and its commit does not fail
\* for ever.
Fairness ==
  /\ WF_vars(CheckSlaBreaches)
  /\ SF_vars(Commit("sla_checker"))

-------------------------------------------------------------------------
\* Type invariant.  No timestamp lies in the future of the clock, and a
\* session holds exactly the rows it has changes for.
TypeOK ==
  /\ row \in [Incidents -> Row]
  /\ trail \in [Incidents -> Seq([from : Statuses, to : Statuses])]
  /\ events \in [Incidents -> [WorkerEvents -> Nat]]
  /\ clock \in Nat \ {0}
  /\ logged \in [Sessions -> Events \cup {NoEvent}]
  /\ DOMAIN loaded = Sessions /\ DOMAIN pending = Sessions
  /\ \A s \in Sessions :
       /\ Held(s) \subseteq Incidents
       /\ DOMAIN pending[s] = Held(s)
       /\ \A i \in Held(s) : loaded[s][i] \in Row /\ pending[s][i] \in Row
  /\ \A i \in Incidents :
       row[i].acknowledged_at <= clock /\ row[i].resolved_at <= clock

StampsAgree(r) ==
  /\ r.status = "resolved"     => r.resolved_at # 0
  /\ r.status = "triggered"    => r.resolved_at = 0
  /\ r.status = "acknowledged" => r.acknowledged_at # 0

\* The timestamps agree with the status whatever interleaving of stale
\* commits produced them: resolved incidents carry resolved_at, triggered
\* ones do not (a re-open clears it), acknowledged ones carry
\* acknowledged_at (transition_status and the ORM's column-wise UPDATE).
StampsMatchStatus == \A i \in Incidents : StampsAgree(row[i])

\* The audit trail accounts for what the workers did to a row: one
\* sla.breached row iff the incident is marked, one incident.escalated row
\* for each escalation step taken, although HTTP commits of stale copies of
\* the same row fall in between (check_sla_breaches, run_escalations).
EventsMatchRow ==
  \A i \in Incidents :
    /\ events[i]["sla.breached"] = IF row[i].sla_breached = TRUE THEN 1 ELSE 0
    /\ events[i]["incident.escalated"] = row[i].current_escalation_step

\* No commit takes back a breach mark or an escalation step: an HTTP request
\* that loaded the row before the worker's commit does not overwrite it.
WorkerColumnsSurvive ==
  [][\A i \in Incidents :
       /\ row[i].sla_breached = TRUE => row'[i].sla_breached = TRUE
       /\ row[i].current_escalation_step <= row'[i].current_escalation_step]_vars

\* An overdue incident is marked breached unless it is resolved first
\* (check_sla_breaches every 60 s), whatever rolls back in between.
OverdueIsMarked ==
  \A i \in Incidents :
    Overdue(i) ~> (row[i].sla_breached = TRUE \/ row[i].status = "resolved")

\* The status a trail leads to, from that of a new incident.
Reached(tr) == IF tr = <<>> THEN NewRow.status ELSE tr[Len(tr)].to

\* With one status request at a time the audit trail replays to the status
\* of the row: it starts from a new incident, each entry takes up the status
\* the one before it left, and the last one left the status that is committed
\* now, although the jobs commit older copies of the row in between
\* (transition_status, check_sla_breaches, run_escalations).
AuditReplaysStatus ==
  \A i \in Incidents :
    /\ \A n \in DOMAIN trail[i] :
         trail[i][n].from = IF n = 1 THEN NewRow.status ELSE trail[i][n - 1].to
    /\ row[i].status = Reached(trail[i])

\* The statuses the database shows follow VALID_TRANSITIONS.
SM == INSTANCE IncidentStateMachine
        WITH status <- [i \in Incidents |-> row[i].status]

ImplementsStateMachine == SM!Spec

=========================================================================
