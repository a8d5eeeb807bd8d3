# A TLA+ model of AlertFlow

AlertFlow takes alerts from monitoring systems, groups them into incidents, tracks
their SLA, escalates the ones nobody acknowledges, and keeps an audit trail. Its
backend is one FastAPI process over PostgreSQL and Redis, with three scheduled jobs
in the same process; a React application is its front end, and a chaos simulator,
watched by Prometheus and Alertmanager, produces the alerts of the demo. Paths below
are relative to `src/`; `app/` stands for `backend/app/`.

The modules here model the parts that keep state and that run concurrently. The
functions are short; what is hard about them is that each one loads rows, decides,
awaits something, and commits later, next to others that do the same.

## 1. Inventory

| Component | State | Operations | What makes it correct |
|---|---|---|---|
| Incident lifecycle (`services/incident_service.py`, `api/v1/incidents.py`) | `incidents`, `audit_logs` | status request, policy assignment, reads | status follows `VALID_TRANSITIONS`; timestamps agree with the status; the audit trail replays it |
| SLA checker (`workers/sla_worker.py`) | `sla_breached`, audit rows | `check_sla_breaches`, `check_sla_warnings` | an overdue incident is marked, once, and nobody unmarks it |
| Escalation runner (`workers/escalation_worker.py`) | `current_escalation_step`, audit rows | `run_escalations` | steps in the policy's order, announced before they are recorded; due steps are taken |
| Escalation policies (`services/escalation_service.py`) | policies and steps | create, update, add a step, delete | no incident refers to a policy that is gone |
| Alert ingestion (`services/alert_service.py`, `api/v1/webhooks.py`) | `alerts`, `incidents`, `audit_logs` | `ingest_alert`, single or in a batch | one alert per fingerprint and window; one open incident per service; no dangling links |
| Deduplication (`services/redis_service.py`) | one Redis key per team and fingerprint | `is_duplicate`, expiry | what is answered as a duplicate is stored |
| Maintenance windows (`services/maintenance_service.py`) | `maintenance_windows` | create, list, cancel, delete | alerts of the service are suppressed during a window |
| Slack notifications (`services/notification_service.py`) | webhook configurations | three kinds of message | the webhooks are called before an incident becomes visible |
| Database sessions (`core/database.py`) | transactions | commit after the response, rollback | all or nothing per request |
| SLA policies (`services/sla_service.py`) | `sla_policies` | create, update, delete | one policy per team and priority |
| Registration, login and tokens (`api/v1/auth.py`, `core/security.py`, `core/deps.py`) | `users`, `teams`; tokens keep no state | register, login, check of a token | e-mails and slugs are unique; no team without its user; conflicts are told as such |
| Chaos simulator (`chaos-simulator/app/main.py`) | `active_scenarios`, gauges | trigger, trigger-all, resolve, resolve-all, jitter task | a fault ends with its scenario; an active scenario shows |
| Front end (`frontend/src`) | React state, `localStorage` | load, login, sign out, fetch, status request | the user it shows is the one it acts as; a 401 is no loop; its buttons ask only for what is allowed |
| Monitoring configuration (`monitoring/*.yml`) | Alertmanager's timers and notification log | group, notify, repeat | an alert that goes on firing gets an open incident |
| AI summary, metrics, migrations | none | | |

**How they interact.** Requests and jobs share PostgreSQL only: each has its own
session, and `core/database.py` sets no isolation level, so PostgreSQL runs them at
READ COMMITTED. Ingestion also talks to Redis and to Slack, the runner to Slack;
neither takes part in the transaction. A request's commit comes after its response,
because `get_db` commits when the dependency exits. APScheduler starts each job every
60 s and never twice at once (its default, `max_instances=1`). The tabs of a browser
share the token in `localStorage` and nothing else; they learn of the backend's state by
fetching it, after the response of a request and possibly before its commit. Alertmanager
repeats what it has notified, at intervals that it and Redis count each for itself.

**What is hard.** Decisions on rows that have changed since they were read;
check-then-insert with no constraint behind it; a Redis key and a Slack message that
outlive a rollback; one commit for many incidents after many Slack calls; positions in
a list of steps that other requests edit; threads and an event loop on one dictionary
without a lock; unique columns that make an insert wait for another session; answers
that arrive when the token or the page they were for is gone; a deduplication key and a
repeat interval of the same length. `hazards` of `PROJECT.json` lists them at their lines.

## 2. Modules

| Module | Models | Role |
|---|---|---|
| `IncidentStateMachine` | what the API promises of a status | abstract specification |
| `IncidentLifecycle` | requests, SLA checker and escalation runner on incident rows | detailed |
| `EscalationContract` | at-least-once announcement of a policy's places, in order, and of the steps that stand there | abstract specification |
| `Escalation` | a run of the escalation runner, step by step | detailed |
| `AlertIngestion` | `ingest_alert`, batches, Redis, Slack, windows | detailed |
| `SlaPolicies` | policy requests, alerts that open incidents, both SLA jobs | detailed |
| `Registry` | what the API promises to those who register | abstract specification |
| `Accounts` | registrations on `teams` and `users` | detailed |
| `WebSession` | a browser tab, its token and its calls; EXTENDS `Accounts` | composition |
| `IncidentPage` | the incident page as a sender of status requests; EXTENDS `IncidentLifecycle` | composition |
| `AlertDelivery` | Prometheus, Alertmanager, webhook, Redis and the incidents of a service | composition |
| `ChaosSimulator` | request threads and the jitter task | detailed |
| `MC*` | constants of the instances | model checking |
| `*_proofs` | theorems | proof |

The same row is looked at with three magnifications. `IncidentLifecycle` has two steps
per session (load and decide; commit), which is what the columns of a row depend on.
`Escalation` opens up one of these sessions, the runner, and closes the others: a
request is one action, and since races between requests can produce any move between
statuses (`lifecycle_status_race`), `TransitionStatus` there allows any move.
`AlertIngestion` keeps of an incident's status only whether it is open.

### IncidentLifecycle

`row[i]` is the committed row; `loaded[s]` and `pending[s]` are the rows a session
loaded and the same rows with its assignments; `logged[s]` the audit action it will
insert; `events` counts the committed audit rows by action, and `trail[i]` is the sequence of
the status entries among them, each with the status it came from and the one it went to
(the payload that `transition_status` writes). Sessions are the requests and
the two jobs. An action named after a function performs it up to its `return` or
commit; `Commit` is the end of `get_db` or the worker's `db.commit()`.

`WrittenColumns` is the ORM's UPDATE: SQLAlchemy writes, by primary key, the columns
whose value differs from the loaded one, and PostgreSQL re-reads nothing. It is the
reason why sessions do not undo each other's columns (`WorkerColumnsSurvive`), and why
two status requests can both succeed (`lifecycle_status_race`).
`assign_escalation_policy` checks neither the policy nor the step reached; it writes
the audit trail nothing, hence `NoEvent`. A status request takes one tick of the
clock so that `acknowledged_at` and `resolved_at` of two requests are told apart.
`Steps[p]` and `Deadline[i]` are constants: the delays are `Escalation`'s subject.

### Escalation

`pc` is where the run is: `idle`, at the head of the loop, or inside `notify_escalation`.
`rows` is what its one SELECT returned; `cache` is the identity map's collection of steps,
filled once per run and policy; `fired` are the increments not yet committed; `locked` the
rows whose UPDATE a later query has flushed, on which a request waits. `told` is a history
of the calls of `notify_escalation` (`Announce`), which itself returns without a word to
Slack when the team has no webhook for escalations; `escalated` are the committed audit
rows, `left` the incidents that left *triggered* during the run, and `failures` counts
failed runs. `AtIndex(S, n)` is the set of steps that `sorted(...)[n]` may be when
`step_order` has ties. Time is counted from the incidents' creation, the same for all.

The `escalation_policy` relation is not a foreign key with a cascade: deleting an
assigned policy is refused by the database, so `DeleteEscalationPolicy` asks for one
that no incident has. The request is nevertheless answered 204, since the DELETE is
sent by the commit after the response.

### AlertIngestion

A request goes through `dedup`, `maintenance`, `incident` and `notify` for each alert of
its batch and then to `respond`; `Commit` comes after that, `Abort` at any point of it.
`mine[r]` are its uncommitted rows. `config[c]` is a Slack webhook for new incidents, which
the team creates and deletes while requests run (`CreateConfig`, `DeleteConfig`, at their
commits); `NotifyNewIncident` calls those its query returns, possibly none, and `announced`
holds the pairs of incident and webhook. A webhook without `notify_on_new_incident` is none
here, and nothing in the code ever clears `is_active`. `known[r]` (history) are the webhooks
that were there when `r` arrived. An alert and the incident it may create have the
same identifier `<<request, position>>`. `dedup` is the set of live keys. `expiries`
and `keyedAt` are history variables that number the lives of a key, `after[r]` the
requests committed before `r` arrived, `resolved` the incidents that were ever
resolved. `Receive` lets a request that aborted be sent again with the same batch.
`Abort` stands for every exception, and is the only way on where the code's
`scalar_one_or_none` finds two rows. `LikeMatches` is SQL's LIKE on the service's
name as far as the model can see it: which services' titles a name matches.

A window is `ahead`, `running` or `over`: that is all the query for running windows tells
apart, so one that is scheduled and one that is not created yet are the same state.

There is one team: team identifiers are part of every key and query, so teams do not
interact. The SLA lookup between steps 4 and 6 reads only (it may raise: `Abort`); it
is `SlaPolicies`' subject.

### SlaPolicies

A request runs one operation, in a SELECT (`CreatePolicy`, `UpdatePolicy`,
`DeletePolicy`, `LookUpPolicy`) and what its session writes at the commit
(`InsertPolicy`, `SavePolicy`, `RemovePolicy`); an alert flushes its incident, which
locks the policy through the foreign key, then calls Slack, then commits
(`FlushIncident`, `CommitIncident`). `job[r]` is where it is and what it read. The
policy or incident a request inserts has the request's identifier; an absent or
deleted row is `NULL`. `policy` keeps `minutes` for `resolution_minutes`;
`response_minutes` and the name are read by nothing. `asked` is the priority as the
client spelled it, which `uppercase_priority` converts in both schemas. `warner` is a
run of `check_sla_warnings`: the incidents its SELECT returned, one Slack call after
another. `after[r]` are the policies that were committed when `r` began, `touched` the
incidents resolved since the warner's SELECT (histories). Reopening an incident is left
to `IncidentLifecycle`.

### ChaosSimulator

`active` and `faulty` are `active_scenarios` and, per service, the gauges that hold a
value written by a scenario. `job[t]` is what a request thread still has to do: its
services, the gauges of the first one, the entry it stores. `at`, `now`, `todo`,
`writes`, `size`, `unseen` and `expired` are the jitter task's local state. Every
read or write of shared memory is one action, since the routes are plain functions
that FastAPI runs in a thread pool while the task runs on the event loop. Gauge values
are abstracted to healthy and faulty, which loses nothing for these properties: each
scenario writes values outside the bounds the drift clamps to, or is taken to
(`memory_leak`'s 60–80 % CPU may lie within them). `Collect` models the list
comprehension: CPython raises when the dictionary's size changed between two calls of
the iterator; a key removed and stored again during the iteration is looked at once.
`clashed` is a history variable: the services two actors worked on at once, until one
of them is restored with nobody else there.

### Accounts

`stage[r]` is the statement a registration executes next, or how it ended. The team and
the user it inserts have its name: `teams` and `users` are the requests whose rows are
committed, `TeamInserted` and `UserInserted` those with an uncommitted one. An INSERT
waits for an uncommitted row with the same value in a unique column, and ends in an
`IntegrityError` (`conflict`, a 500) on a committed one; `refused` is the 400 of the
two checks. `normal` is what `EmailStr` does to an address (it lowers the domain's
case), `slugify` what `slugify` does to a name: two spellings may collide. `after` is a
history. `Fail` covers bcrypt's refusal of long passwords. `Outcome` hides the
statements: towards `Registry` a registration is open from its first SELECT to its
answer, and the rows of uncommitted transactions are not seen.

### WebSession

Other tabs of the browser appear only in `OtherTab`, by what they do to the token. A call
keeps the token it was sent with and its answer until a handler runs (`ReceiveToken`,
`ReceiveUser`, `Receive401`); `Serve`, `ServeLogin` and `Break` are the server's side.
`page` says whether the application is about to be loaded, waits for `getMe`, or shows a
route. What a 401 does is not what the comment in `api/client.js:16` expects ("token
expired"): the interceptor runs for every call, removes whichever token is stored, and
between its redirect and the unloading of the page handlers of other answers still run. A
login is served for a committed user only; the address is compared as typed, since `login`
takes a form and not an `EmailStr`. `Break` is a call without an answer or with a 500:
`BreakStart`, `BreakLogin` and `BreakFetch` are what its three senders do about it.
`foreign` and `left` are histories that name the two ways in which the tab's user and
token come apart (below); `owner` and `expired` are what a token says.

### IncidentPage

`view` is the status the page shows, `phase` whether it fetches, waits or shows an
error. `Accept` is `TransitionStatus` of `IncidentLifecycle` with the page as sender,
after which the page fetches while the commit may still be ahead; `Refuse` is the 422.
`Elsewhere` is everything else `IncidentLifecycle` does. `Buttons` translates the JSX,
which does not share `VALID_TRANSITIONS` with the backend: `RefusalNeedsChange` says the
two agree.

### AlertDelivery

Time passes in units of `group_interval` (1 min), all requests of a unit end within it.
`Flush` is what Alertmanager decides when a group's timer goes off: notify what is new,
repeat what is older than `repeat_interval`, or forget a group without alerts. `Ingest` is
`ingest_alert` in one step; rows and new incidents wait in `request[g]` for `Commit`.
`key[a]` is one more than the time the Redis key has left: 1 means that it expires at some
moment of this unit (`ExpireKey`). A 401 for the webhook's token, which lasts one day
(`monitoring/alertmanager.yml:19`), is not tried again at once. `missed` is a history: the
time a firing alert has had no open incident while it could get through, that is, while
the service is not `Blocked` by a maintenance window (`UnderMaintenance`), a token that
the webhook refuses (`Unauthorized`) or two open incidents, on which the lookup raises
(`Ambiguous`). The rules' expressions are taken as alerts that fire or not (`Tick`).

## 3. Runs

| Run | Instance | Shows |
|---|---|---|
| `lifecycle_safety` | 2 requests and both jobs, 1 incident with a deadline, a policy of 2 steps, clock to 5 | `StampsMatchStatus`, `EventsMatchRow`, `WorkerColumnsSurvive` under every interleaving of loads and commits |
| `incident_page` | 1 request and both jobs, 1 page, 1 incident with a deadline, clock to 6, with fairness | `RefusalNeedsChange`, `ImplementsStateMachine`, `AuditReplaysStatus`, `OverdueIsMarked` |
| `lifecycle_status_race` | 2 requests | finding: a transition that is not allowed |
| `web_session` | 2 registrations that share an address, a slug or nothing, 1 tab, 2 tokens, 1 call of a page at a time, with fairness | `ImplementsRegistry`, `OneIsAccepted`, `ConflictNeedsOverlap`, `RegistrationEnds`, `ShownUserActs`, `TabSettles` |
| `ingestion_safety` | 2 requests of 1 or 2 alerts, 2 services of which one's name matches the other, 2 windows, 1 webhook, 1 expiry per key | `OneAlertPerWindow`, `NoDanglingLink`, `AuditTrailComplete`, `AnnouncedBeforeVisible`, `DuplicatesNeedOverlap` |
| `ingestion_concurrent_alerts` | 2 requests | finding: two open incidents of a service |
| `ingestion_retry_after_error` | 1 request, sent again | finding: an alert answered as a duplicate and stored nowhere |
| `escalation_safety` | 1 incident, 2 policies, steps with ties and late additions, 2 failed runs | `RecordedWasAnnounced`, `RepeatsNeedFailure`, `AuditFollowsPolicy` |
| `escalation_fair` | 2 incidents, 1 policy with 1 step to which one is added that sorts before it, 1 failed run, with fairness | `StaleNeedsChange`, `ImplementsContract`, `DueStepIsTaken` |
| `alert_delivery` | 1 group of 2 alerts, key and repetition of 2 units each, 2 incidents, 1 failed request, 1 reopening, with fairness | `MissedIsBounded`, `FiringIsTracked` |
| `sla_policies` | 4 requests of any kind, 2 priorities of which one is written in two ways, deadlines of 0 and 2 minutes, warnings 1 minute ahead, clock to 3 | `DuplicatesOverlapped`, `DeadlineByStandingPolicy`, `NoDanglingPolicy`, `StaleWarningNeedsChange` |
| `chaos_simulator` | 2 services, 2 threads, 1 gauge, durations of 1, clock to 1, with fairness | `FaultsHaveAnEnd`, `ActiveScenarioShows`, `NoEarlyEnd`, `EndedIsCleared` |

**Why the bounds are enough.** A race over a row needs two sessions that loaded it and a
third that changed it: two requests and two jobs. The clock only has to separate before,
at and after a deadline or a delay. In `ingestion_safety` two alerts in two batches give
duplicates within a batch, across batches and across a retry; one expiry gives a key two
lives, so that a request may set it again while the one that set it first is still at
work. In `escalation_safety` two failures are the least that lets repeats add up. In
`sla_policies` two creations, an update or deletion and an alert are the most that one
hazard takes, and the clock reaches before, at and after a deadline of 2 minutes set at
the start. In `escalation_fair` the added step pushes back the one that is taken already,
so that the run contains an escalation that is doubled and one that is never made, which
is where the contract has to say which of the two it promises. In `chaos_simulator` the
gauge (`error`) is one that scenarios disturb, drift restores and a resolution restores;
two services are needed for the loops of trigger-all and resolve-all, and two threads for
a clash that the jitter task has no part in. In `web_session` the second login is what
makes an answer late, and what another tab needs to replace the token; three spellings of
two addresses and two slugs give every way to collide. In `incident_page` one page and one
other client share one request session at a time, which is what `ImplementsStateMachine`
and `AuditReplaysStatus` need: with two, a page alone breaks them by a GET before its
commit and a second click, which is `lifecycle_status_race` with one user. In
`alert_delivery` two alerts of a group are the least that makes a notification carry an
alert that it was not sent for, and key and repetition are equal as in the configuration
(600 s and 10 min); lengths of 3, and two groups of one alert each, were tried as well and
gave the same. `MaxClock`, `MaxBatch`, `MaxExpiries`, `MaxFailures`, `MaxLogins`,
`MaxFetches`, `MaxIncidents`, `MaxReopens`, `MaxMissed` and `Watched` are the bounds.
`ingestion_safety`, `lifecycle_safety` and `sla_policies` use the symmetry of their
requests; no run with fairness uses any.

Deadlock is checked in all runs except the three of `AlertIngestion` and the one of
`SlaPolicies`, whose finite sets of requests leave nothing to do once all are answered.

**Fairness.** APScheduler starts a job again and again, and every await of a run ends: a
query does, and `_send_slack` gives up after 5 s. So the job's steps get weak fairness
(`Fairness` of `IncidentLifecycle` and `Escalation`). Requests, failures and edits get
none. In `IncidentLifecycle` failures are not bounded: there the commit of the SLA
checker has strong fairness, meaning that the database does not fail on every run.
In `Escalation` it is the bound on failures that says so, and
that a run holds no infinite set: weak fairness suffices. The jitter task of the
simulator is a loop on the event loop (`WF_vars(Jitter)`). In `web_session` the browser
loads what it is told to load and runs the handlers of what arrives, the server answers
or the connection breaks, and a registration's queries end. In `alert_delivery` time
passes, Redis expires its keys, and each group's timer and request go on; failures are
bounded, hence finitely many. Nothing is assumed of users, nor of the tabs' order.

**The findings.**
1. `lifecycle_status_race` – two racing requests; the second validates against a status
   that is gone (`app/services/incident_service.py:106`).
2. `ingestion_concurrent_alerts` – two open incidents of one service, after which every
   alert of it fails (`app/services/alert_service.py:90`).
3. `ingestion_retry_after_error` – the Redis key survives the rollback
   (`app/services/redis_service.py:39`).

The passing runs say how far the code is from the promise:
`ImplementsStateMachine` holds with one request at a time, `DuplicatesNeedOverlap`
allows two open incidents only to overlapping requests or a reopened incident, and
`MissedIsBounded` says for how long an alert may be without an open incident because of a
key: a failed request costs it one life of the key, and a repetition that falls into it
one repeat interval more, about 20 minutes with the configured lengths.

**Known deviations** that the properties leave room for, by the conditions they name:
- A step added with a `step_order` below or equal to one already taken shifts the positions:
  the step taken last is escalated to a second time, and the new one never
  (`app/workers/escalation_worker.py:58`). `EscalationContract` promises each place of the
  policy, not each step, and `AuditFollowsPolicy` speaks of policies whose steps were created in
  ascending order (`Ascending`).
- Two SLA policies of one priority: two creations that overlap both succeed, although
  `app/services/sla_service.py:16` says "Each team can only have one policy per priority
  level.", and every later alert of that priority fails until one is deleted.
  `DuplicatesOverlapped` allows it to such requests only.
- The simulator's jitter task dies of a `KeyError` or of a dictionary that changes size while
  it collects (`chaos-simulator/app/main.py:156`, `:159`), and no scenario is resolved by itself
  any more: `EndedIsCleared` exempts the dead task (`at = "dead"`).
- Two of the simulator's actors on one service at once wipe out each other's gauges, end a
  scenario that has just been stored, or leave faults without a scenario
  (`chaos-simulator/app/main.py:126`, `:156`, `:545`): `clashed` exempts such a service until it is
  restored by one actor alone.
- An answer goes out before its commit (`app/core/database.py:37`). A page that fetches in
  between shows the old status and may be refused for it, which `RefusalNeedsChange` counts as a
  change after the fetch; a registration told 201 whose commit fails is the state `lost`.
- An SLA warning goes out for an incident that was resolved, marked or became overdue after the
  job's SELECT (`app/workers/sla_worker.py:91`): `StaleWarningNeedsChange` asks for such a change.
- An incident resolved after its deadline and before the checker's next run is never
  marked breached, since `check_sla_breaches` looks at open incidents only
  (`app/workers/sla_worker.py:30`): `OverdueIsMarked` allows "or is resolved".
- An incident acknowledged while a run awaits Slack for another one is still escalated,
  the status being read once per run (`app/workers/escalation_worker.py:32`):
  `StaleNeedsChange` allows it if the incident changed during that run.
- Two tabs: when a second tab signs in as somebody else, the first goes on showing its
  user and acts as the other (`foreign` in `ShownUserActs`).
- A login form that is left and sent again before its answer came: the answers' order
  decides whose token is stored and, apart from it, which user is shown (`left`).
- A wrong password is answered 401 too, which the interceptor takes for an expired token:
  the page is loaded anew, and the error of `Login.jsx:32` is not seen. A late 401 for an old
  token removes a new one.
- A page that was refused (422) keeps what it shows: `handleTransition` fetches only
  after a success.
- Alerts that arrive while an incident is being resolved are linked to it, and their key
  keeps the next ones out for its life (`MissedIsBounded` counts this).
- The webhook's token expires after a day; until somebody replaces it, alerts are lost
  (`Blocked` in `AlertDelivery`).

Smaller differences met on the way, not modelled as findings: `README.md:188` announces
status 200 for a duplicate where `api/v1/alerts.py:10` sets 201; the README's diagram
looks up the SLA policy after the incident, the code before it; the audit timeline is
ordered by `created_at`, the start of the transaction, not its commit.

**Mutants.** Every property of a passing run has a mutated definition that breaks it: a
dropped guard, a column too many, a comparison the wrong way round. They stand before
the definitions they replace and are used nowhere in the models.

## 4. Proofs

`tlapm` proves these for every value of the constants that satisfies the modules'
assumptions: any number of incidents, requests, policies, batches and steps.

| Module | Theorem | States |
|---|---|---|
| `IncidentLifecycle_proofs` | `TypeCorrect`, `StampsAlwaysMatch`, `EventsAlwaysMatch`, `WorkerColumnsAlwaysSurvive` | the properties of `lifecycle_safety` |
| | `SerialImplements`, `AuditAlwaysReplays` | refinement of `IncidentStateMachine`, and `AuditReplaysStatus`, for at most one request |
| | `RefusalAlwaysNeedsChange` | for any number of pages and requests |
| | `PagesKeepLifecycle`, `AuditReplaysWithPages`, `PagesImplementStateMachine` | `PageSpec => Spec`, and what follows from it |
| `AlertIngestion_proofs` | `TypeCorrect`, `OneAlertPerWindowAlways` | |
| | `NoDanglingLinkAlways`, `AnnouncedBeforeVisibleAlways`, `DuplicatesNeedOverlapAlways`, `AuditTrailCompleteAlways` | |
| `Escalation_proofs` | `TypeCorrect`, `RecordedWasAnnouncedAlways`, `RepeatsNeedFailureAlways`, `StaleNeedsChangeAlways`, `AuditFollowsPolicyAlways` | |
| | `Implements` | refinement of `EscalationContract` |
| `Accounts_proofs` | `AccountsTypeCorrect`, `TeamsAlwaysHaveUsers`, `OneIsAlwaysAccepted`, `ConflictAlwaysNeedsOverlap` | the safety of registration |
| | `RegistrationImplements` | refinement of `Registry` |
| `WebSession_proofs` | `TypeCorrect`, `ShownUserAlwaysActs`, `RegistrationsKeep`, `SessionsImplementRegistry` | the safety of `web_session` |
| `SlaPolicies_proofs` | `TypeCorrect`, `DuplicatesOverlappedAlways`, `DeadlineByStandingPolicyAlways`, `NoDanglingPolicyAlways`, `StaleWarningNeedsChangeAlways` | the properties of `sla_policies` |
| `AlertDelivery_proofs` | `MissedAlwaysBounded` | the safety of `alert_delivery`, for any groups, alerts, lifetimes and intervals |
| `ChaosSimulator_proofs` | `TypeCorrect`, `FaultsAlwaysHaveAnEnd`, `ActiveScenarioAlwaysShows`, `NeverEarlyEnd` | the safety of `chaos_simulator`, for any threads, services and gauges |

**Lifecycle.** Neither `StampsMatchStatus` nor `EventsMatchRow` is inductive: a commit
merges a row loaded long ago into one that has changed since. `IInv` adds `SessionInv`,
about every row a session holds: the status and the timestamps differ from the loaded ones
only in a way that fits any row the change may be merged into (`StatusChange`), and what
the jobs alone write has not changed since they loaded it (`WorkerChange`).
`SerialImplements` adds that with one request nobody but that request writes the status,
so the loaded status is still the committed one at the commit; `AuditAlwaysReplays` adds
that the audit row to be inserted names the status the request loaded and the one it moves
to (`LogInv`), so that the row continues the trail.

**Incident page.** A fresh page shows the committed status (`FreshOK`) and has asked for
what it showed a button for (`ChoiceOK`); since every button is an allowed transition
(`ButtonsAllowed`), the refused page cannot be fresh. `ChoiceOK` also makes each accepted
request one of `IncidentLifecycle`'s (`PageStepIsStep`), so `PageSpec => Spec`.

**Ingestion.** `OneAlertPerWindow` says nothing of uncommitted rows, so it is not
inductive. `KeysOK` is: a key that was set in the present life of its fingerprint is
still live (`KeyInv`), no two alerts set a key in the same life (`KeyUnique`), and only
alerts that set a key have rows, committed or not (`RowsKeyed`). `IncidentsOK` is the
invariant behind the other three: an uncommitted alert points to a committed incident or
to one of its own request (`LinkInv`); an uncommitted incident is announced, or is the
one its request is about to announce (`AnnounceInv`), where announced means to every webhook
that was there when the request arrived and is not deleted; a request opens one incident per
service at most (`DistinctInv`); and one that opens an incident saw none open of those
that were committed when it arrived (`OverlapInv`). `AuditTrailComplete` needs a second
one, `TrailOK`: the same relation between alerts, incidents and audit rows holds in the
tables and in each session's rows (`TrailOf`), and a session has opened no incident yet
for the alert it is about to link (`SessionTrail`), so the two names in an audit row
determine its action.

**Escalation.** `IInv` adds to the checked invariants that a loaded row still has the
committed step, since only the runner writes it (`LoadedOK`), that an uncommitted
increment was announced with the next index (`FiredOK`), and that nothing beyond the next
index was announced (`ToldOK`). The refinement maps `recorded` to the audit rows, each
with its step, and `announced` to the places and steps of `told` (`Announcements`): a call
that is repeated for the same step is a stuttering step of the contract, one that is
repeated for another step, because a failed run was followed by an addition, is a further
announcement of the same place, and a failed run takes no announcement back. `Implements`
therefore says that the n-th recorded step was announced as the n-th and stood n-th in its
policy at some time, and does not say that no step is doubled or left out, which is false
(section 3, Known deviations). It and `AuditFollowsPolicy` need `PolicyInv`: what a run
has loaded of a policy's steps are the first of those it has now (`CacheOK`), and every
step that is called for, counted or recorded was chosen from such a beginning (`Chosen`);
`ChosenInOrder` counts the steps below it when all were created in ascending order. It
rests on the part of `StepAssumption` that a policy's steps are its own, the foreign key
of `escalation_steps`.

**SLA policies.** The properties speak of committed rows, and `IInv` adds what holds of
the requests about to write such rows: a request about to insert saw no policy of its
priority (`CheckedOK`), one about to commit an incident found the standing one
(`LookedUpOK`) and has it locked once flushed (`LockedOK`), and what was committed when a
request began was inserted by a request that is over (`AfterOK`). The warnings need
`WarningInv`, the property extended to the incidents still to be warned about; it is
inductive because the breach checker only marks incidents whose deadline is past.

**Registration and session.** The unique columns cover uncommitted rows (`UniqueOK`), and
a request past a check has no rival among the users that were committed when it began
(`CheckedOK`), which is all that `ConflictNeedsOverlap` needs. The refinement follows:
an INSERT into `users` that succeeds is the registry's `Accept`, because `UniqueOK` holds
after it; one that fails is `Conflict`, by `ConflictNeedsOverlap`; a check that finds
something is `Refuse`; the INSERT into `teams` stutters. In `WebSession_proofs` the
same invariant holds next to `SessionInv`: the tab waits for its `getMe` alone
(`WaitOK`), a form that is not left waits alone with nobody signed in (`FormOK`), and so
the calls that ask for the user carry the token of now (`TokenOK`), which makes
`ShownUserActs` inductive.

**Delivery.** Two clocks bound `missed`. The Redis key was set when the count was zero and
is not renewed by a duplicate, so both together stay within one TTL (`KeyOK`), and an
alert that a request took for a duplicate has been missed for a TTL at most (`HandledOK`).
From then on the count grows with the age of the group's last notification (`AgeOK`); a
group that has decided in this unit of time has either notified of its alerts or is not
to repeat them yet (`SettledOK`), which stops the age at the repeat interval. The rest is
about the moments between: a row that waits for its commit (`Pending`), a request that is
sent again, a service that is blocked (`BlockedOK`).

**Simulator.** The argument is that of a critical section. On a service where no two actors
have met there is at most one (`Alone`); so what an actor knows of it when it sets to work
stays true until it is done: that the entry is over (`JitterOK`), that it is stored
(`TriggerOK`) or gone (`ResolveOK`), that the faults are the gauges it has still to write
(`RestoringOK`). The properties are what remains when it leaves (`FaultsOK`, `ShownOK`).
The lemma `Untouched` says once that a step on one service changes nothing of this for
another. The proof also needed a type invariant finer than `TypeOK`: jobs and the task
hold a service in hand exactly where they are about to use one (`Steady`, `Typed`).

Every `IInv` was checked by TLC on the instances of section 3 before it was proved
(`AlertDelivery`'s also with two groups).

**Only model-checked.** The liveness properties (`OverdueIsMarked`, `DueStepIsTaken`,
`EndedIsCleared`, `RegistrationEnds`, `TabSettles`, `FiringIsTracked`): liveness under
fairness is beyond the prover. Every safety property of a passing run has a theorem.

## 5. Not modelled

- Passwords, JWT and the OpenAI client: libraries. No route calls the AI summary.
- Text of messages, JSON payloads of audit rows, pagination, filters, formatting.
- The front end's list, audit timeline and SLA policy page: they show what they fetch.
  The list keeps the answer that arrives last, not the one asked for last
  (`frontend/src/pages/Incidents.jsx:20`).
- The expressions of Prometheus' rules, scraping, and Alertmanager's own restarts.
- Migrations: run once. Start-up checks and the metrics endpoint: read only.
- PostgreSQL's deadlock detection: the victim's rollback is in the models (`Rollback`,
  `FailRun`), the order in which the workers lock rows is not.
- Creating and renaming escalation policies: policies exist from the start, and nothing
  reads their names.

## 6. Plan

Done, in this order: lifecycle with its state machine, ingestion, escalation with its
contract, simulator, SLA policies; then registration with its registry and the web
session over it, the incident page over the lifecycle, and the delivery of alerts that
go on firing.

Next:
1. `Workers`: lock order of the SLA checker and the runner over several incidents, with
   PostgreSQL's deadlock victim; shutdown in the middle of runs.
2. `Pipeline`: the simulator's scenarios as the source of `AlertDelivery`'s firing alerts.
3. A run for `app/services/sla_service.py:16` ("Each team can only have one policy per
   priority level."), which `DuplicatesOverlapped` already bounds.
4. Proofs of the safety of those modules, on the invariants of section 4.
