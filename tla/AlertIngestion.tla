------------------------- MODULE AlertIngestion -------------------------
(***************************************************************************)
(* Alert ingestion: POST /alerts/ingest and the two webhooks.  A request   *)
(* runs ingest_alert for every alert of its batch inside one database      *)
(* transaction, each time after an atomic SET NX EX on Redis that no       *)
(* rollback undoes, and calls Slack before it commits.  The response       *)
(* leaves before get_db commits.  Beside the requests the module has the   *)
(* TTL of the Redis keys, users who resolve and re-open incidents, and     *)
(* maintenance windows and Slack webhooks that come and go.                *)
(*                                                                         *)
(* There is one team.  Rows are named by the alert that caused them:       *)
(* <<r, k>>, the k-th alert of request r, names its row in alerts and the  *)
(* incident it opened.                                                     *)
(***************************************************************************)
EXTENDS Naturals, Sequences, FiniteSets

CONSTANTS
  Requests,
  Services,
  Payloads,       \* records [identity, service_name] that senders send
  Batches,        \* the sequences of payloads a request may carry
  MaxBatch,       \* bound on their length
  LikeMatches,    \* LikeMatches[s]: services whose titles match LIKE 's:%'
  Windows,        \* maintenance windows that may be created
  WindowService,  \* WindowService[w]: service_name of window w
  Configs,        \* webhooks that may be created with notify_on_new_incident
  MaxExpiries     \* bound on how often the key of a fingerprint expires

ASSUME PayloadAssumption ==
  /\ \A p \in Payloads : p.service_name \in Services
  /\ MaxBatch \in Nat \ {0}
  /\ \A b \in Batches : b \in Seq(Payloads) /\ Len(b) \in 1..MaxBatch
ASSUME LikeAssumption ==
  /\ LikeMatches \in [Services -> SUBSET Services]
  /\ \A s \in Services : s \in LikeMatches[s]
ASSUME WindowAssumption == WindowService \in [Windows -> Services]

VARIABLES
  pc,        \* where a request is
  batch,     \* the alerts it carries
  pos,       \* the alert it is at
  mine,      \* its uncommitted rows
  alerts,    \* committed rows of alerts
  status,    \* committed rows of incidents
  audit,     \* committed rows of audit_logs
  dedup,     \* fingerprints whose Redis key is live
  config,    \* the team's notification configs
  announced, \* <<i, c>>: the webhook of config c was called for incident i
  window,    \* maintenance windows
  expiries,  \* history: how often the key of a fingerprint has expired
  keyedAt,   \* history: that number when an alert set the key, plus 1
  after,     \* history: the requests that had committed when r arrived
  known,     \* history: the configs there were when r arrived
  resolved   \* history: incidents that have been resolved at some time

vars == <<pc, batch, pos, mine, alerts, status, audit, dedup, config, announced,
          window, expiries, keyedAt, after, known, resolved>>

tables == <<alerts, status, audit, resolved>>
redis == <<dedup, expiries, keyedAt>>
slack == <<config, announced>>
arrival == <<after, known>>

-------------------------------------------------------------------------
Ids == Requests \X (1..MaxBatch)

Payload(id) == batch[id[1]][id[2]]

\* compute_fingerprint: source, name and labels decide, which the payload's
\* identity stands for; service_name takes no part.
Fingerprint(p) == p.identity

Fingerprints == {Fingerprint(p) : p \in Payloads}

NULL == <<>>

NoRows == [alerts |-> {}, incidents |-> {}, audit |-> {}]

Current(r) == <<r, pos[r]>>

Working == {"dedup", "maintenance", "incident", "notify", "respond"}

\* What a query of session r sees at READ COMMITTED: every committed row and
\* the session's own.
Committed == {i \in Ids : status[i] # "absent"}

Visible(r, i) == i \in Committed \/ i \in mine[r].incidents

\* Mutant: the title is matched with the alert's name in it.
OpenIncidentsOfAlert(r, s) ==
  {i \in Ids : /\ Visible(r, i)
               /\ status[i] # "resolved"
               /\ Payload(i) = Payload(Current(r))}

\* The rows the SELECT of _find_or_create_incident returns to session r.
OpenIncidents(r, s) ==
  {i \in Ids : /\ Visible(r, i)
               /\ status[i] # "resolved"
               /\ Payload(i).service_name \in LikeMatches[s]}

\* The rows _get_active_configs returns for a new incident: nothing ever
\* clears is_active, and configs without notify_on_new_incident are left out.
ActiveConfigs == {c \in Configs : config[c] = "live"}

\* The rows the SELECT of _is_under_maintenance returns.
ActiveWindows(s) == {w \in Windows : WindowService[w] = s /\ window[w] = "running"}

-------------------------------------------------------------------------
Init ==
  /\ pc = [r \in Requests |-> "idle"]
  /\ batch = [r \in Requests |-> <<>>]
  /\ pos = [r \in Requests |-> 1]
  /\ mine = [r \in Requests |-> NoRows]
  /\ alerts = {}
  /\ status = [i \in Ids |-> "absent"]
  /\ audit = {}
  /\ dedup = {}
  /\ config = [c \in Configs |-> "absent"]
  /\ announced = {}
  /\ window = [w \in Windows |-> "ahead"]
  /\ expiries = [f \in Fingerprints |-> 0]
  /\ keyedAt = [i \in Ids |-> 0]
  /\ after = [r \in Requests |-> {}]
  /\ known = [r \in Requests |-> {}]
  /\ resolved = {}

\* A request arrives; Alertmanager sends a batch again after an error.  The
\* incidents of the new try are other ones than those the failed one told of.
Receive(r, b) ==
  /\ \/ pc[r] = "idle"
     \/ pc[r] = "aborted" /\ b = batch[r]
  /\ pc' = [pc EXCEPT ![r] = "dedup"]
  /\ batch' = [batch EXCEPT ![r] = b]
  /\ pos' = [pos EXCEPT ![r] = 1]
  /\ after' = [after EXCEPT ![r] = {q \in Requests : pc[q] = "committed"}]
  /\ known' = [known EXCEPT ![r] = ActiveConfigs]
  /\ announced' = {a \in announced : a[1][1] # r}
  /\ UNCHANGED <<mine, tables, redis, config, window>>

\* Mutant: the loop runs once too often.
AdvanceTooFar(r) ==
  IF pos[r] <= Len(batch[r])
  THEN /\ pos' = [pos EXCEPT ![r] = @ + 1]
       /\ pc' = [pc EXCEPT ![r] = "dedup"]
  ELSE /\ pc' = [pc EXCEPT ![r] = "respond"]
       /\ UNCHANGED pos

\* The current alert is done: the webhook's loop takes the next one.
Advance(r) ==
  IF pos[r] < Len(batch[r])
  THEN /\ pos' = [pos EXCEPT ![r] = @ + 1]
       /\ pc' = [pc EXCEPT ![r] = "dedup"]
  ELSE /\ pc' = [pc EXCEPT ![r] = "respond"]
       /\ UNCHANGED pos

\* Mutant: the key is looked up but not set.
CheckDuplicateByGet(r) ==
  LET f == Fingerprint(Payload(Current(r))) IN
  /\ pc[r] = "dedup"
  /\ f \notin dedup
  /\ keyedAt' = [keyedAt EXCEPT ![Current(r)] = expiries[f] + 1]
  /\ pc' = [pc EXCEPT ![r] = "maintenance"]
  /\ UNCHANGED <<batch, pos, mine, tables, dedup, slack, window, expiries, arrival>>

\* is_duplicate: SET key NX EX, one atomic Redis command.
CheckDuplicate(r) ==
  LET f == Fingerprint(Payload(Current(r))) IN
  /\ pc[r] = "dedup"
  /\ \/ /\ f \in dedup
        /\ Advance(r)
        /\ UNCHANGED redis
     \/ /\ f \notin dedup
        /\ dedup' = dedup \cup {f}
        /\ keyedAt' = [keyedAt EXCEPT ![Current(r)] = expiries[f] + 1]
        /\ pc' = [pc EXCEPT ![r] = "maintenance"]
        /\ UNCHANGED <<pos, expiries>>
  /\ UNCHANGED <<batch, mine, tables, slack, window, arrival>>

\* _is_under_maintenance.  One active window suppresses the alert, none lets
\* it through; scalar_one_or_none raises on more, which leaves only Abort.
CheckMaintenance(r) ==
  LET active == ActiveWindows(Payload(Current(r)).service_name)
      row == [id |-> Current(r), incident_id |-> NULL] IN
  /\ pc[r] = "maintenance"
  /\ \/ /\ Cardinality(active) = 1
        /\ mine' = [mine EXCEPT ![r].alerts = @ \cup {row}]
        /\ Advance(r)
     \/ /\ active = {}
        /\ pc' = [pc EXCEPT ![r] = "incident"]
        /\ UNCHANGED <<mine, pos>>
  /\ UNCHANGED <<batch, tables, redis, slack, window, arrival>>

\* Mutant: a grouped alert is logged as a creation.
AuditActionCreated(created) == "incident.created"

AuditAction(created) ==
  IF created THEN "incident.created" ELSE "alert.added_to_incident"

\* Mutant: the alert is linked to an incident that was never added.
AddRowsWithoutIncident(r, i, created) ==
  mine' = [mine EXCEPT ![r] =
    [alerts |-> @.alerts \cup {[id |-> Current(r), incident_id |-> i]},
     incidents |-> @.incidents,
     audit |-> @.audit \cup {[alert_id |-> Current(r), incident_id |-> i,
                              action |-> AuditAction(created)]}]]

\* Steps 4 to 8 of ingest_alert: the rows session r adds for its current
\* alert when it goes to incident i.
AddRows(r, i, created) ==
  mine' = [mine EXCEPT ![r] =
    [alerts |-> @.alerts \cup {[id |-> Current(r), incident_id |-> i]},
     incidents |-> IF created THEN @.incidents \cup {i} ELSE @.incidents,
     audit |-> @.audit \cup {[alert_id |-> Current(r), incident_id |-> i,
                              action |-> AuditAction(created)]}]]

\* Two or more open incidents raise as well and leave only Abort.
FindOrCreateIncident(r) ==
  LET open == OpenIncidents(r, Payload(Current(r)).service_name) IN
  /\ pc[r] = "incident"
  /\ \/ /\ open = {}
        /\ AddRows(r, Current(r), TRUE)
        /\ pc' = [pc EXCEPT ![r] = "notify"]
        /\ UNCHANGED pos
     \/ /\ Cardinality(open) = 1
        /\ \E i \in open : AddRows(r, i, FALSE)
        /\ Advance(r)
  /\ UNCHANGED <<batch, tables, redis, slack, window, arrival>>

\* Mutant: only the first alert of a batch is announced.
NotifyFirstOfBatch(r) ==
  /\ pc[r] = "notify"
  /\ announced' = announced \cup
       IF pos[r] = 1 THEN {<<Current(r), c>> : c \in ActiveConfigs} ELSE {}
  /\ Advance(r)
  /\ UNCHANGED <<batch, mine, tables, redis, config, window, arrival>>

\* notify_new_incident: the configs are read once, and none may be left;
\* _send_slack swallows every failure.  A crash between two of its calls is
\* taken as one before them.
NotifyNewIncident(r) ==
  /\ pc[r] = "notify"
  /\ announced' = announced \cup {<<Current(r), c>> : c \in ActiveConfigs}
  /\ Advance(r)
  /\ UNCHANGED <<batch, mine, tables, redis, config, window, arrival>>

\* get_db after the response was sent.
Commit(r) ==
  /\ pc[r] = "respond"
  /\ pc' = [pc EXCEPT ![r] = "committed"]
  /\ alerts' = alerts \cup mine[r].alerts
  /\ status' = [i \in Ids |-> IF i \in mine[r].incidents THEN "open" ELSE status[i]]
  /\ audit' = audit \cup mine[r].audit
  /\ mine' = [mine EXCEPT ![r] = NoRows]
  /\ UNCHANGED <<batch, pos, redis, slack, window, arrival, resolved>>

\* An exception anywhere in the request (an ambiguous lookup, an invalid
\* priority, Redis or the database down) or a crash: the rows are rolled
\* back, the Redis keys and the Slack messages are not.
Abort(r) ==
  /\ pc[r] \in Working
  /\ pc' = [pc EXCEPT ![r] = "aborted"]
  /\ mine' = [mine EXCEPT ![r] = NoRows]
  /\ UNCHANGED <<batch, pos, tables, redis, slack, window, arrival>>

-------------------------------------------------------------------------
\* DEDUP_TTL_SECONDS have passed since the key was set.
ExpireKey(f) ==
  /\ f \in dedup
  /\ expiries[f] < MaxExpiries
  /\ dedup' = dedup \ {f}
  /\ expiries' = [expiries EXCEPT ![f] = @ + 1]
  /\ UNCHANGED <<pc, batch, pos, mine, tables, slack, window, keyedAt, arrival>>

\* A status request has committed: all this module keeps of it is whether
\* the incident is open (triggered or acknowledged) or resolved.
TransitionStatus(i, t) ==
  /\ i \in Committed
  /\ status[i] # t
  /\ status' = [status EXCEPT ![i] = t]
  /\ resolved' = resolved \cup {i}
  /\ UNCHANGED <<pc, batch, pos, mine, alerts, audit, redis, slack, window, arrival>>

\* Maintenance windows, as far as a query can tell them apart: one that has
\* not begun or was not created yet, one that suppresses alerts, and one that
\* has ended, was cancelled (is_active = FALSE) or deleted, begun or not.
WindowStates == {"ahead", "running", "over"}

WindowMoves == {<<"ahead", "running">>, <<"ahead", "over">>, <<"running", "over">>}

MoveWindow(w, t) ==
  /\ <<window[w], t>> \in WindowMoves
  /\ window' = [window EXCEPT ![w] = t]
  /\ UNCHANGED <<pc, batch, pos, mine, tables, redis, slack, arrival>>

\* create_config, as of its commit.
CreateConfig(c) ==
  /\ config[c] = "absent"
  /\ config' = [config EXCEPT ![c] = "live"]
  /\ UNCHANGED <<pc, batch, pos, mine, tables, redis, announced, window, arrival>>

\* delete_config, as of its commit.
DeleteConfig(c) ==
  /\ config[c] = "live"
  /\ config' = [config EXCEPT ![c] = "deleted"]
  /\ UNCHANGED <<pc, batch, pos, mine, tables, redis, announced, window, arrival>>

Next ==
  \/ \E r \in Requests, b \in Batches : Receive(r, b)
  \/ \E r \in Requests : CheckDuplicate(r)
  \/ \E r \in Requests : CheckMaintenance(r)
  \/ \E r \in Requests : FindOrCreateIncident(r)
  \/ \E r \in Requests : NotifyNewIncident(r)
  \/ \E r \in Requests : Commit(r)
  \/ \E r \in Requests : Abort(r)
  \/ \E f \in Fingerprints : ExpireKey(f)
  \/ \E i \in Ids, t \in {"open", "resolved"} : TransitionStatus(i, t)
  \/ \E w \in Windows, t \in WindowStates : MoveWindow(w, t)
  \/ \E c \in Configs : CreateConfig(c) \/ DeleteConfig(c)

Spec == Init /\ [][Next]_vars

-------------------------------------------------------------------------
Alert == [id : Ids, incident_id : Ids \cup {NULL}]
AuditLog == [alert_id : Ids, incident_id : Ids,
             action : {"incident.created", "alert.added_to_incident"}]
Rows == [alerts : SUBSET Alert, incidents : SUBSET Ids, audit : SUBSET AuditLog]

\* Type invariant.  A request that has arrived is at an alert of its batch,
\* and only a request at work has uncommitted rows.
TypeOK ==
  /\ pc \in [Requests -> Working \cup {"idle", "committed", "aborted"}]
  /\ batch \in [Requests -> Batches \cup {<<>>}]
  /\ pos \in [Requests -> 1..MaxBatch]
  /\ mine \in [Requests -> Rows]
  /\ alerts \subseteq Alert
  /\ status \in [Ids -> {"absent", "open", "resolved"}]
  /\ audit \subseteq AuditLog
  /\ dedup \subseteq Fingerprints
  /\ config \in [Configs -> {"absent", "live", "deleted"}]
  /\ announced \subseteq Ids \X Configs
  /\ window \in [Windows -> WindowStates]
  /\ expiries \in [Fingerprints -> Nat]
  /\ keyedAt \in [Ids -> Nat]
  /\ after \in [Requests -> SUBSET Requests]
  /\ known \in [Requests -> SUBSET Configs]
  /\ resolved \subseteq Committed
  /\ \A r \in Requests :
       /\ pc[r] # "idle" => batch[r] \in Batches /\ pos[r] <= Len(batch[r])
       /\ pc[r] \notin Working => mine[r] = NoRows

\* Within one life of a Redis key at most one alert of that fingerprint is
\* stored, whichever requests race for it, retry or abort (is_duplicate).
OneAlertPerWindow ==
  \A a, b \in alerts :
    (/\ a.id # b.id
     /\ Fingerprint(Payload(a.id)) = Fingerprint(Payload(b.id)))
      => keyedAt[a.id] # keyedAt[b.id]

\* A stored alert never points to an incident that was rolled back: what
\* _find_or_create_incident returned is committed no later than the alert.
NoDanglingLink ==
  \A a \in alerts : a.incident_id # NULL => a.incident_id \in Committed

\* The audit trail tells every incident's origin: each incident has exactly
\* one incident.created row, for an alert stored under it, and each alert
\* grouped into an incident has exactly one row of that incident.
AuditTrailComplete ==
  /\ \A i \in Committed :
       \E l \in audit :
         /\ l.incident_id = i /\ l.action = "incident.created"
         /\ [id |-> l.alert_id, incident_id |-> i] \in alerts
         /\ \A m \in audit :
              m.incident_id = i /\ m.action = "incident.created" => m = l
  /\ \A a \in alerts :
       a.incident_id # NULL =>
         Cardinality({l \in audit : l.alert_id = a.id /\ l.incident_id = a.incident_id}) = 1

\* Incident i was announced to every webhook that was there when its request
\* arrived and has not been deleted since.
Announced(i) == \A c \in known[i[1]] \cap ActiveConfigs : <<i, c>> \in announced

\* An incident a user can see has been announced to the team's webhooks,
\* except to those created too late or deleted: the call comes before the
\* commit, and whatever the rest of the batch, a retry or another request
\* does, no incident is committed without it (ingest_alert,
\* notify_new_incident).
AnnouncedBeforeVisible == \A i \in Committed : Announced(i)

\* Two open incidents of one service need either two requests that were at
\* work at the same time or an incident that was resolved and re-opened: one
\* that arrives after the other's commit always finds and joins its
\* incident (_find_or_create_incident).
DuplicatesNeedOverlap ==
  \A i, j \in Committed :
    (/\ i # j
     /\ status[i] = "open" /\ status[j] = "open"
     /\ Payload(i).service_name = Payload(j).service_name)
      => \/ i \in resolved \/ j \in resolved
         \/ i[1] # j[1] /\ i[1] \notin after[j[1]] /\ j[1] \notin after[i[1]]

\* There is one open incident per service.
OneOpenIncidentPerService ==
  \A i, j \in Committed :
    (/\ status[i] = "open" /\ status[j] = "open"
     /\ Payload(i).service_name = Payload(j).service_name) => i = j

\* When a request has been answered and committed, each of its alerts, or an
\* alert of the same fingerprint, is stored or still being ingested.
AnsweredAlertsAreStored ==
  \A r \in Requests : pc[r] = "committed" =>
    \A k \in 1..Len(batch[r]) :
      LET f == Fingerprint(Payload(<<r, k>>)) IN
      \/ \E a \in alerts : Fingerprint(Payload(a.id)) = f
      \/ \E q \in Requests : /\ pc[q] \in Working
                            /\ \E p \in DOMAIN batch[q] : Fingerprint(batch[q][p]) = f

=========================================================================
