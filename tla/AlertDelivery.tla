-------------------------- MODULE AlertDelivery --------------------------
(***************************************************************************)
(* What becomes of an alert that keeps firing: Prometheus, the groups of   *)
(* Alertmanager, the webhook, the Redis keys and the incidents of one      *)
(* service together.  Prometheus evaluates its rules, every group decides  *)
(* once a group_interval whether to notify, and each notification is one   *)
(* request to POST /webhooks/prometheus.  AlertIngestion looks into such a *)
(* request; here ingest_alert is one step, and time passes in units of     *)
(* group_interval, during which every request comes to its end.            *)
(***************************************************************************)
EXTENDS Naturals, FiniteSetsExt

CONSTANTS
  Alerts,         \* label sets, each with its own fingerprint
  Groups,
  Group,          \* Group[a]: the group of its alertname and service
  Ttl,            \* DEDUP_TTL_SECONDS
  RepeatInterval, \* repeat_interval
  MaxIncidents,   \* bound on the incidents
  MaxFailures,    \* bound on the requests that fail
  MaxReopens      \* bound on how often users re-open an incident

ASSUME GroupAssumption == Group \in [Alerts -> Groups]
ASSUME BoundsAssumption ==
  /\ Ttl \in Nat \ {0} /\ RepeatInterval \in Nat \ {0}
  /\ MaxIncidents \in Nat /\ MaxFailures \in Nat /\ MaxReopens \in Nat

VARIABLES
  firing,     \* alerts that fire
  due,        \* groups whose timer has gone off
  notified,   \* notification log: the alerts of a group's last notification
  age,        \* and how long ago it was
  request,    \* request[g]: the one a notification of g has sent
  key,        \* key[a]: 0 without a Redis key, or 1 plus the time it has left
  status,     \* committed incidents
  links,      \* committed alerts: <<a, i>>, stored under incident i
  window,     \* the service is under maintenance
  credential, \* the token of credentials_file has not expired
  failures,   \* how many requests have failed
  reopens,    \* how often an incident was re-opened
  missed      \* history: how long a has been firing without an open incident
              \* and free to get through, since it was last stored or failed

vars == <<firing, due, notified, age, request, key, status, links, window,
          credential, failures, reopens, missed>>

environment == <<firing, window, credential>>

-------------------------------------------------------------------------
Incidents == 1..MaxIncidents

\* todo: alerts still to ingest.  rows: what the session has added; new: the
\* incidents it has created.
NoRequest == [stage |-> "none", batch |-> {}, todo |-> {}, rows |-> {}, new |-> {}]

Open == {i \in Incidents : status[i] = "open"}

\* What the SELECT of _find_or_create_incident returns to the session of g.
Found(g) == Open \cup request[g].new

Unused == {i \in Incidents : /\ status[i] = "absent"
                             /\ \A g \in Groups : i \notin request[g].new}

Tracked(a) == \E i \in Open : <<a, i>> \in links

\* What keeps alerts out until people change it: a maintenance window, a
\* token of yesterday, which the webhook answers with 401, and two open
\* incidents, on which scalar_one_or_none raises.
UnderMaintenance == window
Unauthorized == ~credential
Ambiguous == Cardinality(Open) > 1

Blocked == UnderMaintenance \/ Unauthorized \/ Ambiguous

\* Counts of missed end above what MissedIsBounded allows.
MaxMissed == Ttl + RepeatInterval + 2

\* Mutant: SET without EX.
LastingKey(k) == k

\* What is left of a key one unit later.
RemainingKey(k) == IF k = 0 THEN 0 ELSE k - 1

\* The count starts again for the alerts of A and those tracked or blocked.
Recount(A) ==
  missed' = [a \in Alerts |-> IF a \in A \/ Tracked(a)' \/ Blocked' THEN 0 ELSE missed[a]]

-------------------------------------------------------------------------
Init ==
  /\ firing = {}
  /\ due = {}
  /\ notified = [g \in Groups |-> {}]
  /\ age = [g \in Groups |-> 0]
  /\ request = [g \in Groups |-> NoRequest]
  /\ key = [a \in Alerts |-> 0]
  /\ status = [i \in Incidents |-> "absent"]
  /\ links = {}
  /\ window = FALSE
  /\ credential = TRUE
  /\ failures = 0 /\ reopens = 0
  /\ missed = [a \in Alerts |-> 0]

\* One group_interval passes, the rules are evaluated, and every group's
\* timer goes off.  A new group waits for group_wait only, which is less.
Tick ==
  /\ due = {}
  /\ \A g \in Groups : request[g] = NoRequest
  /\ \A a \in Alerts : key[a] # 1
  /\ firing' \in SUBSET Alerts
  /\ due' = Groups
  /\ age' = [g \in Groups |-> Min({age[g] + 1, RepeatInterval + 1})]
  /\ key' = [a \in Alerts |-> RemainingKey(key[a])]
  /\ missed' = [a \in Alerts |-> IF a \in firing /\ ~Tracked(a) /\ ~Blocked
                                THEN Min({missed[a] + 1, MaxMissed}) ELSE 0]
  /\ UNCHANGED <<notified, request, status, links, window, credential, failures, reopens>>

\* The key reaches its TTL at some moment of this unit of time.
ExpireKey(a) ==
  /\ key[a] = 1
  /\ key' = [key EXCEPT ![a] = 0]
  /\ UNCHANGED <<environment, due, notified, age, request, status, links, failures, reopens, missed>>

\* The log entry of g is older than repeat_interval.  It was written after
\* the keys its notification set, so these have expired.
Repeats(g) ==
  \/ age[g] > RepeatInterval
  \/ age[g] = RepeatInterval /\ \A a \in Alerts : Group[a] = g => key[a] # 1

\* The timer of g: there is a firing alert that the last notification did not
\* have, or it is time to repeat it.  401 is logged and tried again later.
Flush(g) ==
  LET batch == {a \in firing : Group[a] = g} IN
  /\ g \in due
  /\ due' = due \ {g}
  /\ \/ /\ batch # {} /\ credential
        /\ ~(batch \subseteq notified[g]) \/ Repeats(g)
        /\ request' = [request EXCEPT ![g] =
             [stage |-> "working", batch |-> batch, todo |-> batch, rows |-> {}, new |-> {}]]
        /\ UNCHANGED <<notified, age>>
     \/ /\ batch # {}
        /\ ~credential \/ (batch \subseteq notified[g] /\ age[g] <= RepeatInterval)
        /\ UNCHANGED <<request, notified, age>>
     \/ /\ batch = {}
        /\ notified' = [notified EXCEPT ![g] = {}]
        /\ age' = [age EXCEPT ![g] = 0]
        /\ UNCHANGED request
  /\ UNCHANGED <<environment, key, status, links, failures, reopens, missed>>

\* The alert is handled: rows and new incidents join those of the session.
Add(g, a, rows, new) ==
  request' = [request EXCEPT ![g].todo = @ \ {a}, ![g].rows = @ \cup rows,
                             ![g].new = @ \cup new]

\* Mutant: EXPIRE on every sight of the fingerprint.
IngestAndRefresh(g, a) ==
  /\ a \in request[g].todo
  /\ \/ key[a] > 0 /\ Add(g, a, {}, {})
     \/ key[a] = 0 /\ window /\ Add(g, a, {}, {})
     \/ /\ key[a] = 0 /\ ~window /\ Found(g) = {} /\ Unused # {}
        /\ LET i == CHOOSE i \in Unused : TRUE IN Add(g, a, {<<a, i>>}, {i})
     \/ /\ key[a] = 0 /\ ~window /\ Cardinality(Found(g)) = 1
        /\ \E i \in Found(g) : Add(g, a, {<<a, i>>}, {})
  /\ key' = [key EXCEPT ![a] = Ttl + 1]
  /\ UNCHANGED <<environment, due, notified, age, status, links, failures, reopens, missed>>

\* ingest_alert: a duplicate, a suppressed alert, a new incident, or the one
\* that is open.
Ingest(g, a) ==
  /\ a \in request[g].todo
  /\ \/ /\ key[a] > 0
        /\ Add(g, a, {}, {})
        /\ UNCHANGED key
     \/ /\ key[a] = 0
        /\ key' = [key EXCEPT ![a] = Ttl + 1]
        /\ \/ window /\ Add(g, a, {}, {})
           \/ /\ ~window /\ Found(g) = {} /\ Unused # {}
              /\ LET i == CHOOSE i \in Unused : TRUE IN Add(g, a, {<<a, i>>}, {i})
           \/ /\ ~window /\ Cardinality(Found(g)) = 1
              /\ \E i \in Found(g) : Add(g, a, {<<a, i>>}, {})
  /\ UNCHANGED <<environment, due, notified, age, status, links, failures, reopens, missed>>

\* 200: Alertmanager writes its log.
Respond(g) ==
  /\ request[g].stage = "working" /\ request[g].todo = {}
  /\ request' = [request EXCEPT ![g].stage = "answered"]
  /\ notified' = [notified EXCEPT ![g] = request[g].batch]
  /\ age' = [age EXCEPT ![g] = 0]
  /\ UNCHANGED <<environment, due, key, status, links, failures, reopens, missed>>

\* get_db after the response.
Commit(g) ==
  /\ request[g].stage = "answered"
  /\ request' = [request EXCEPT ![g] = NoRequest]
  /\ status' = [i \in Incidents |-> IF i \in request[g].new THEN "open" ELSE status[i]]
  /\ links' = links \cup request[g].rows
  /\ UNCHANGED <<environment, due, notified, age, key, failures, reopens>>
  /\ Recount({row[1] : row \in request[g].rows})

\* Two open incidents: 500.  Alertmanager tries again, at once or at its next
\* timer.  The key of a is set.
Refuse(g, a) ==
  /\ a \in request[g].todo /\ key[a] = 0 /\ ~window
  /\ Cardinality(Found(g)) > 1
  /\ request' = [request EXCEPT ![g] = NoRequest]
  /\ key' = [key EXCEPT ![a] = Ttl + 1]
  /\ due' \in {due, due \cup {g}}
  /\ UNCHANGED <<environment, notified, age, status, links, failures, reopens>>
  /\ Recount(request[g].batch)

\* Any other error or a restart, before the answer (then Alertmanager tries
\* again) or after it.  The keys stay.
Fail(g) ==
  /\ request[g] # NoRequest
  /\ failures < MaxFailures
  /\ failures' = failures + 1
  /\ request' = [request EXCEPT ![g] = NoRequest]
  /\ due' \in IF request[g].stage = "working" THEN {due, due \cup {g}} ELSE {due}
  /\ UNCHANGED <<environment, notified, age, key, status, links, reopens>>
  /\ Recount(request[g].batch)

\* Users resolve and re-open incidents; they resolve one only while every
\* group can still open another (MaxIncidents).
Resolve(i) ==
  /\ status[i] = "open" /\ Cardinality(Unused) >= Cardinality(Groups)
  /\ status' = [status EXCEPT ![i] = "resolved"]
  /\ UNCHANGED <<environment, due, notified, age, request, key, links, failures, reopens, missed>>

Reopen(i) ==
  /\ status[i] = "resolved" /\ reopens < MaxReopens
  /\ reopens' = reopens + 1
  /\ status' = [status EXCEPT ![i] = "open"]
  /\ UNCHANGED <<environment, due, notified, age, request, key, links, failures>>
  /\ Recount({})

\* A window begins or ends; the token expires or is replaced.
ChangeEnvironment ==
  /\ \/ window' = ~window /\ UNCHANGED credential
     \/ credential' = ~credential /\ UNCHANGED window
  /\ UNCHANGED <<firing, due, notified, age, request, key, status, links, failures, reopens>>
  /\ Recount({})

Deliver(g) ==
  \/ Flush(g) \/ Respond(g) \/ Commit(g)
  \/ \E a \in Alerts : Ingest(g, a) \/ Refuse(g, a)

Next ==
  \/ Tick
  \/ \E a \in Alerts : ExpireKey(a)
  \/ \E g \in Groups : Deliver(g) \/ Fail(g)
  \/ \E i \in Incidents : Resolve(i) \/ Reopen(i)
  \/ ChangeEnvironment

\* Time passes, Redis expires its keys, and Alertmanager and the requests it
\* sends go on.
Fairness ==
  /\ WF_vars(Tick)
  /\ \A a \in Alerts : WF_vars(ExpireKey(a))
  /\ \A g \in Groups : WF_vars(Deliver(g))

Spec == Init /\ [][Next]_vars /\ Fairness

-------------------------------------------------------------------------
\* An alert that can get through and whose requests do not fail has an open
\* incident again at the latest when one TTL and one repeat_interval are over
\* after its first notification, although a notification that is taken for a
\* duplicate starts the repeat_interval anew (is_duplicate, alertmanager.yml).
MissedIsBounded ==
  \A a \in Alerts : missed[a] < MaxMissed

\* An alert that goes on firing ends up under an open incident, whatever keys
\* failed requests, windows and resolved incidents leave behind, unless it is
\* blocked (is_duplicate, ingest_alert, get_db).
FiringIsTracked ==
  \A a \in Alerts : a \in firing ~> (Tracked(a) \/ a \notin firing \/ Blocked)
=========================================================================
