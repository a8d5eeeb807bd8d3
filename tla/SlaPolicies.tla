-------------------------- MODULE SlaPolicies --------------------------
(***************************************************************************)
(* SLA policies and the deadlines made from them.  Requests create, change *)
(* and delete the policies of one team while alerts open incidents under   *)
(* them and the two SLA jobs watch the deadlines.  Nothing but the SELECT  *)
(* in create_sla_policy keeps two policies of a priority apart; a foreign  *)
(* key keeps a policy that an incident refers to.                          *)
(*                                                                         *)
(* A request runs one operation.  The policy or the incident that request  *)
(* r inserts has the id r.  Alerts that join an open incident are left out:*)
(* they look the policy up, too, but drop what they find.  The clock       *)
(* counts minutes.                                                         *)
(***************************************************************************)
EXTENDS Integers, FiniteSets

CONSTANTS
  Requests,
  Spellings,   \* the priorities as clients write them
  Upper,       \* Upper[v]: v in upper case
  Minutes,     \* values of resolution_minutes; the schema takes any integer
  WARNING,     \* minutes before the deadline in which warnings are sent
  MaxClock,    \* bound on the clock
  NULL

ASSUME SpellingAssumption ==
  /\ Upper \in [Spellings -> Spellings]
  /\ \A v \in Spellings : Upper[Upper[v]] = Upper[v]
ASSUME TimeAssumption ==
  /\ Minutes \subseteq Int
  /\ WARNING \in Nat
  /\ MaxClock \in Nat

VARIABLES
  job,       \* what each request is at
  policy,    \* committed rows of sla_policies
  incident,  \* committed rows of incidents
  warner,    \* the run of check_sla_warnings
  clock,
  after,     \* history: the policies committed when request r began
  touched    \* history: incidents resolved since the warner's SELECT

vars == <<job, policy, incident, warner, clock, after, touched>>

-------------------------------------------------------------------------
Stages == {"idle", "insert", "update", "delete", "flush", "commit", "over"}
Id == Requests \cup {NULL}

\* What a request has asked for, and what it has found.
Job == [at : Stages, asked : Spellings \cup {NULL}, policy : Id,
        minutes : Minutes \cup {NULL}, deadline : Int \cup {NULL}]
\* Rows; asked is history, the priority as the client wrote it.
Policy == [priority : {Upper[v] : v \in Spellings}, asked : Spellings, minutes : Minutes]
Incident == [asked : Spellings, policy : Id, deadline : Int \cup {NULL},
             breached : BOOLEAN, resolved : BOOLEAN]

ASSUME NullAssumption ==
  /\ NULL \notin Requests \cup Spellings
  /\ NULL \notin Int
  /\ NULL \notin Policy
  /\ NULL \notin Incident

\* A request before and after its operation.
Idle == [at |-> "idle", asked |-> NULL, policy |-> NULL, minutes |-> NULL,
         deadline |-> NULL]
Over == [Idle EXCEPT !.at = "over"]

NoWarnings == [at |-> "idle", now |-> 0, todo |-> {}]

Policies == {p \in Requests : policy[p] # NULL}
Incidents == {i \in Requests : incident[i] # NULL}

\* Mutant: the priority is stored and looked up as it was written.
AsWritten(v) == v

\* The validator of SLAPolicyCreate and AlertIngestRequest.
uppercase_priority(v) == Upper[v]

\* The rows that both lookups by priority select.
PoliciesFor(v) ==
  {p \in Policies : policy[p].priority = uppercase_priority(v)}

Start(r, j) ==
  /\ job' = [job EXCEPT ![r] = j]
  /\ after' = [after EXCEPT ![r] = Policies]

\* The request ends without an effect, on an exception or with an error.
Fail(r) ==
  /\ job' = [job EXCEPT ![r] = Over]
  /\ UNCHANGED <<policy, incident>>

Init ==
  /\ job = [r \in Requests |-> Idle]
  /\ policy = [r \in Requests |-> NULL]
  /\ incident = [r \in Requests |-> NULL]
  /\ warner = NoWarnings
  /\ clock = 0
  /\ after = [r \in Requests |-> {}]
  /\ touched = {}

-------------------------------------------------------------------------
\* Mutant: the SELECT for a policy of the same priority is left out.
CreateUnchecked(r, v, m) ==
  /\ job[r] = Idle
  /\ Start(r, [Idle EXCEPT !.at = "insert", !.asked = v, !.minutes = m])
  /\ UNCHANGED <<policy, incident, warner, clock, touched>>

\* create_sla_policy up to its SELECT.  One row means 400, and on more
\* scalar_one_or_none raises.
CreatePolicy(r, v, m) ==
  /\ job[r] = Idle
  /\ \/ /\ PoliciesFor(v) = {}
        /\ Start(r, [Idle EXCEPT !.at = "insert", !.asked = v, !.minutes = m])
     \/ /\ PoliciesFor(v) # {}
        /\ Start(r, Over)
  /\ UNCHANGED <<policy, incident, warner, clock, touched>>

\* The INSERT and the commit; no constraint looks at the priority.
InsertPolicy(r) ==
  /\ job[r].at = "insert"
  /\ policy' = [policy EXCEPT ![r] = [priority |-> uppercase_priority(job[r].asked),
                                      asked    |-> job[r].asked,
                                      minutes  |-> job[r].minutes]]
  /\ job' = [job EXCEPT ![r] = Over]
  /\ UNCHANGED <<incident, warner, clock, after, touched>>

\* get_sla_policy, which answers 404 when there is no such row.  An update
\* to the value the row has already writes nothing.
UpdatePolicy(r, p, m) ==
  /\ job[r] = Idle
  /\ \/ /\ p \in Policies /\ policy[p].minutes # m
        /\ Start(r, [Idle EXCEPT !.at = "update", !.policy = p, !.minutes = m])
     \/ /\ p \in Policies => policy[p].minutes = m
        /\ Start(r, Over)
  /\ UNCHANGED <<policy, incident, warner, clock, touched>>

\* The UPDATE and the commit; SQLAlchemy raises when the row is gone.
SavePolicy(r) ==
  LET p == job[r].policy IN
  /\ job[r].at = "update"
  /\ \/ /\ p \in Policies
        /\ policy' = [policy EXCEPT ![p].minutes = job[r].minutes]
        /\ job' = [job EXCEPT ![r] = Over]
        /\ UNCHANGED incident
     \/ /\ p \notin Policies
        /\ Fail(r)
  /\ UNCHANGED <<warner, clock, after, touched>>

DeletePolicy(r, p) ==
  /\ job[r] = Idle
  /\ IF p \in Policies THEN Start(r, [Idle EXCEPT !.at = "delete", !.policy = p])
                       ELSE Start(r, Over)
  /\ UNCHANGED <<policy, incident, warner, clock, touched>>

\* The row lock that an uncommitted incident's foreign key holds.
Locked(p) == \E q \in Requests : job[q].at = "commit" /\ job[q].policy = p

\* Mutant: sla_policy_id is no foreign key.
ReferencedNever(p) == FALSE

Referenced(p) == \E i \in Incidents : incident[i].policy = p

\* The DELETE and the commit, after the answer 204 has been sent.
RemovePolicy(r) ==
  LET p == job[r].policy IN
  /\ job[r].at = "delete"
  /\ ~Locked(p)
  /\ \/ /\ ~Referenced(p)
        /\ policy' = [policy EXCEPT ![p] = NULL]
        /\ job' = [job EXCEPT ![r] = Over]
        /\ UNCHANGED incident
     \/ /\ Referenced(p)
        /\ Fail(r)
  /\ UNCHANGED <<warner, clock, after, touched>>

-------------------------------------------------------------------------
\* Mutant: of two policies either is taken.
LookUpFirst(r, v) ==
  /\ job[r] = Idle
  /\ \/ /\ PoliciesFor(v) = {}
        /\ Start(r, [Idle EXCEPT !.at = "flush", !.asked = v])
     \/ \E p \in PoliciesFor(v) :
          Start(r, [Idle EXCEPT !.at = "flush", !.asked = v, !.policy = p,
                                !.deadline = clock + policy[p].minutes])
  /\ UNCHANGED <<policy, incident, warner, clock, touched>>

\* ingest_alert up to _get_sla_deadline.
LookUpPolicy(r, v) ==
  /\ job[r] = Idle
  /\ \/ /\ PoliciesFor(v) = {}
        /\ Start(r, [Idle EXCEPT !.at = "flush", !.asked = v])
     \/ \E p \in Requests :
          /\ PoliciesFor(v) = {p}
          /\ Start(r, [Idle EXCEPT !.at = "flush", !.asked = v, !.policy = p,
                                   !.deadline = clock + policy[p].minutes])
     \/ /\ Cardinality(PoliciesFor(v)) > 1
        /\ Start(r, Over)
  /\ UNCHANGED <<policy, incident, warner, clock, touched>>

\* The INSERT of the incident, which locks the policy's row, or fails when
\* the row has been deleted since.
FlushIncident(r) ==
  /\ job[r].at = "flush"
  /\ \/ /\ job[r].policy \in Policies \cup {NULL}
        /\ job' = [job EXCEPT ![r].at = "commit"]
        /\ UNCHANGED <<policy, incident>>
     \/ /\ job[r].policy \notin Policies \cup {NULL}
        /\ Fail(r)
  /\ UNCHANGED <<warner, clock, after, touched>>

CommitIncident(r) ==
  /\ job[r].at = "commit"
  /\ incident' = [incident EXCEPT ![r] =
       [asked |-> job[r].asked, policy |-> job[r].policy,
        deadline |-> job[r].deadline, breached |-> FALSE, resolved |-> FALSE]]
  /\ job' = [job EXCEPT ![r] = Over]
  /\ UNCHANGED <<policy, warner, clock, after, touched>>

\* An exception anywhere, or a crash: get_db rolls back.
Abort(r) ==
  /\ job[r] \notin {Idle, Over}
  /\ Fail(r)
  /\ UNCHANGED <<warner, clock, after, touched>>

-------------------------------------------------------------------------
\* A status request has resolved the incident; reopening it is left out.
Resolve(i) ==
  /\ i \in Incidents
  /\ ~incident[i].resolved
  /\ incident' = [incident EXCEPT ![i].resolved = TRUE]
  /\ touched' = IF warner.at = "idle" THEN {} ELSE touched \cup {i}
  /\ UNCHANGED <<job, policy, warner, clock, after>>

\* The conditions the SELECTs of both jobs share.
Watched(i) == /\ i \in Incidents
              /\ incident[i].deadline # NULL
              /\ ~incident[i].breached
              /\ ~incident[i].resolved

CheckSlaBreaches ==
  LET overdue == {i \in Requests : Watched(i) /\ incident[i].deadline < clock} IN
  /\ overdue # {}
  /\ incident' = [i \in Requests |->
       IF i \in overdue THEN [incident[i] EXCEPT !.breached = TRUE] ELSE incident[i]]
  /\ UNCHANGED <<job, policy, warner, clock, after, touched>>

\* Mutant: an overdue incident is warned about until it is marked.
DueOrOverdue(i) == Watched(i) /\ incident[i].deadline <= clock + WARNING

\* Due to be warned about now.
Due(i) == /\ Watched(i)
          /\ incident[i].deadline <= clock + WARNING
          /\ incident[i].deadline > clock

CheckSlaWarnings ==
  /\ warner.at = "idle"
  /\ {i \in Requests : Due(i)} # {}
  /\ warner' = [at |-> "loop", now |-> clock, todo |-> {i \in Requests : Due(i)}]
  /\ UNCHANGED <<job, policy, incident, clock, after, touched>>

\* notify_sla_warning for the next incident of the SELECT's result.
NotifySlaWarning(i) ==
  /\ i \in warner.todo
  /\ warner' = [warner EXCEPT !.todo = @ \ {i}]
  /\ UNCHANGED <<job, policy, incident, clock, after, touched>>

\* The loop is done, or an exception ends it early.
EndWarnings ==
  /\ warner.at = "loop"
  /\ warner' = NoWarnings
  /\ touched' = {}
  /\ UNCHANGED <<job, policy, incident, clock, after>>

Tick ==
  /\ clock < MaxClock
  /\ clock' = clock + 1
  /\ UNCHANGED <<job, policy, incident, warner, after, touched>>

\* The routes under /sla-policies that change something.
PolicyRequest(r) ==
  \/ \E v \in Spellings, m \in Minutes : CreatePolicy(r, v, m)
  \/ InsertPolicy(r)
  \/ \E p \in Requests, m \in Minutes : UpdatePolicy(r, p, m)
  \/ SavePolicy(r)
  \/ \E p \in Requests : DeletePolicy(r, p)
  \/ RemovePolicy(r)

AlertRequest(r) ==
  \/ \E v \in Spellings : LookUpPolicy(r, v)
  \/ FlushIncident(r)
  \/ CommitIncident(r)

Next ==
  \/ \E r \in Requests : PolicyRequest(r)
  \/ \E r \in Requests : AlertRequest(r)
  \/ \E r \in Requests : Abort(r)
  \/ \E i \in Requests : Resolve(i)
  \/ CheckSlaBreaches
  \/ CheckSlaWarnings
  \/ \E i \in Requests : NotifySlaWarning(i)
  \/ EndWarnings
  \/ Tick

Spec == Init /\ [][Next]_vars

-------------------------------------------------------------------------
\* Type invariant.  Stored priorities are upper case, a request is at work
\* on what it read, and an incident has a deadline exactly when it has a
\* policy.
TypeOK ==
  /\ job \in [Requests -> Job]
  /\ policy \in [Requests -> Policy \cup {NULL}]
  /\ incident \in [Requests -> Incident \cup {NULL}]
  /\ warner \in [at : {"idle", "loop"}, now : 0..MaxClock, todo : SUBSET Incidents]
  /\ clock \in 0..MaxClock
  /\ after \in [Requests -> SUBSET Requests]
  /\ touched \subseteq Incidents
  /\ \A r \in Requests :
       /\ job[r].at \in {"update", "delete"} => job[r].policy # NULL
       /\ job[r].at \in {"insert", "update"} => job[r].minutes # NULL
       /\ job[r].at \in {"insert", "flush", "commit"} => job[r].asked # NULL
       /\ job[r].at \in {"flush", "commit"} => (job[r].policy = NULL <=> job[r].deadline = NULL)
  /\ \A i \in Incidents : incident[i].policy = NULL <=> incident[i].deadline = NULL

SamePriority(v, w) == Upper[v] = Upper[w]

\* create_sla_policy keeps its promise of one policy for each priority
\* except between two requests of which neither had committed when the other
\* looked: a policy that was there before is never doubled, in whatever case
\* the priorities are written and whatever is deleted meanwhile.
DuplicatesOverlapped ==
  \A p, q \in Policies :
    (/\ p # q
     /\ SamePriority(policy[p].asked, policy[q].asked))
      => p \notin after[q] /\ q \notin after[p]

\* An incident opens under the policy of its alert's priority that stood
\* while the alert was ingested: _get_sla_deadline neither misses it nor
\* chooses between two of them.
DeadlineByStandingPolicy ==
  \A i \in Incidents :
    {p \in after[i] \cap Policies : SamePriority(policy[p].asked, incident[i].asked)}
      \subseteq {incident[i].policy}

\* The policy an incident was opened under is never deleted, neither after
\* the incident was committed nor between the lookup and the commit.
NoDanglingPolicy ==
  \A i \in Incidents : incident[i].policy # NULL => incident[i].policy \in Policies

\* The job leaves the loop's next incident to Slack.
Warns(i) == i \in warner.todo /\ warner' = [warner EXCEPT !.todo = @ \ {i}]

\* check_sla_warnings warns about an incident that is resolved, marked as
\* breached or past its deadline only where time passed or a user resolved
\* it after the job's SELECT, never because the two jobs disagree on whose
\* the incident is.
StaleWarningNeedsChange ==
  [][\A i \in Requests :
       Warns(i) => \/ Watched(i) /\ incident[i].deadline > clock
                   \/ i \in touched
                   \/ clock > warner.now]_vars

=========================================================================
