------------------------- MODULE ChaosSimulator -------------------------
(***************************************************************************)
(* The chaos simulator: simulated services whose Prometheus gauges HTTP    *)
(* requests disturb and restore, and the background task that lets the     *)
(* gauges of healthy services drift and ends the scenarios whose time is   *)
(* up.  The task runs on the event loop and the requests, being plain      *)
(* functions, run in threads of a pool: they share active_scenarios and    *)
(* the gauges with no lock, and may be interrupted between any two of the  *)
(* reads and writes that are actions here.                                 *)
(***************************************************************************)
EXTENDS Naturals, Sequences, FiniteSets

CONSTANTS
  SERVICES,    \* the simulated services, a sequence without repetitions
  Watched,     \* the gauges this instance keeps
  Threads,     \* the pool's threads, each with one request at a time
  Asked,       \* the scenario names that requests ask for
  Durations,   \* the durations they ask for
  Shortest,    \* the shortest duration /chaos/trigger accepts
  MaxClock     \* bound on the clock

ASSUME ServicesAssumption ==
  /\ SERVICES # <<>>
  /\ SERVICES \in Seq({SERVICES[k] : k \in DOMAIN SERVICES})
  /\ \A j, k \in DOMAIN SERVICES : SERVICES[j] = SERVICES[k] => j = k
ASSUME BoundAssumption ==
  /\ Durations \subseteq Nat
  /\ Shortest \in Nat \ {0}
  /\ MaxClock \in Nat

VARIABLES
  active,   \* active_scenarios: the services in it, each with its entry
  faulty,   \* faulty[s]: the gauges of s that hold a value of a scenario
  job,      \* job[t]: what the request in thread t still has to do
  at,       \* where the jitter task is
  now,      \* its now, taken once a sweep
  todo,     \* the services its loop has not finished, the current one first
  writes,   \* the gauges it will write next
  size,     \* the size of active_scenarios when it began to iterate
  unseen,   \* the keys the iteration has not come to
  expired,  \* the services whose scenario it will end
  clock,
  clashed   \* history: services that two actors worked on at once and that
            \* have not been restored since

jitter == <<at, now, todo, writes, size, unseen, expired>>
vars == <<active, faulty, job, jitter, clock, clashed>>

-------------------------------------------------------------------------
Services == {SERVICES[k] : k \in DOMAIN SERVICES}

Gauges == {"health", "error", "latency", "cpu", "memory", "rate"}

\* A gauge counts if this instance keeps it.
Only(g) == IF g \in Watched THEN <<g>> ELSE <<>>

\* The gauges each scenario sets, in the order of _apply_scenario.
Touches ==
  [service_down    |-> Only("health") \o Only("error") \o Only("latency") \o Only("rate"),
   high_error_rate |-> Only("error") \o Only("latency"),
   high_latency    |-> Only("latency") \o Only("error"),
   cpu_spike       |-> Only("cpu") \o Only("latency"),
   memory_leak     |-> Only("memory") \o Only("cpu"),
   traffic_spike   |-> Only("rate") \o Only("cpu") \o Only("latency"),
   degraded        |-> Only("error") \o Only("latency") \o Only("cpu")]

VALID_SCENARIOS == DOMAIN Touches

\* A name that is none of them sets nothing.
Applied(sc) == IF sc \in VALID_SCENARIOS THEN Touches[sc] ELSE <<>>

\* The gauges _resolve_service sets, all to healthy values.
Healthy == Only("health") \o Only("error") \o Only("latency")
             \o Only("cpu") \o Only("memory") \o Only("rate")

\* The gauges that drift; the clamps put them back into the healthy range.
Drifting == Only("error") \o Only("latency") \o Only("cpu") \o Only("memory")

Entry(sc, e) == [scenario |-> sc, ends_at |-> e]

Idle == [op |-> "none", scenario |-> "none", ends_at |-> 0, todo |-> <<>>,
         writes |-> <<>>]

WithEntry(s, e) ==
  [q \in DOMAIN active \cup {s} |-> IF q = s THEN e ELSE active[q]]

Without(S) == [q \in DOMAIN active \ S |-> active[q]]

\* The services thread t has begun to change and is not done with: of all
\* that trigger-all will come to only the present one, of those that
\* resolve-all emptied the entries of every one that is left.
WorkOf(t) ==
  LET q == job[t].todo IN
  IF job[t].op = "resolve" THEN {q[k] : k \in DOMAIN q}
                           ELSE {q[k] : k \in DOMAIN q \cap {1}}

\* Those the jitter task has decided about on what it read.
JitterWork ==
  CASE at = "drift" -> {todo[1]}
    [] OTHER        -> expired

Busy(s) == s \in JitterWork \/ \E t \in Threads : s \in WorkOf(t)

\* The services of S an actor starts to work on, while others may be there.
Clash(S) == clashed \cup {s \in S : Busy(s)}

\* The same when it is going to restore them.
ClashOrRestore(S) == (clashed \ S) \cup {s \in S : Busy(s)}

\* /services and the jitter loop: the entry counts until its time is up.
InForce(s, time) == s \in DOMAIN active /\ active[s].ends_at > time

-------------------------------------------------------------------------
Init ==
  /\ active = [s \in {} |-> Entry("none", 0)]
  /\ faulty = [s \in Services |-> {}]
  /\ job = [t \in Threads |-> Idle]
  /\ at = "asleep" /\ now = 0 /\ todo = <<>> /\ writes = <<>>
  /\ size = 0 /\ unseen = {} /\ expired = {}
  /\ clock = 0
  /\ clashed = {}

\* A thread stores the entry of the first service of q and sets out to
\* disturb its gauges.
StartService(t, q, sc, e) ==
  /\ active' = WithEntry(q[1], Entry(sc, e))
  /\ clashed' = Clash({q[1]})
  /\ job' = [job EXCEPT ![t] = [op |-> "trigger", scenario |-> sc, ends_at |-> e,
                                todo |-> q, writes |-> Applied(sc)]]

\* Mutant: the scenario's name is not validated.
TriggerUnvalidated(t, s, sc, d) ==
  /\ job[t] = Idle
  /\ d >= Shortest
  /\ StartService(t, <<s>>, sc, clock + d)
  /\ UNCHANGED <<faulty, jitter, clock>>

TriggerChaos(t, s, sc, d) ==
  /\ job[t] = Idle
  /\ sc \in VALID_SCENARIOS
  /\ d >= Shortest
  /\ StartService(t, <<s>>, sc, clock + d)
  /\ UNCHANGED <<faulty, jitter, clock>>

\* trigger_all_services does not look at the duration.
TriggerAllServices(t, sc, d) ==
  /\ job[t] = Idle
  /\ sc \in VALID_SCENARIOS
  /\ StartService(t, SERVICES, sc, clock + d)
  /\ UNCHANGED <<faulty, jitter, clock>>

\* The entries of S are removed, then the gauges restored one by one.
StartResolve(t, q, S) ==
  /\ job[t] = Idle
  /\ active' = Without(S)
  /\ clashed' = ClashOrRestore(S)
  /\ job' = [job EXCEPT ![t] = [Idle EXCEPT !.op = "resolve", !.todo = q,
                                            !.writes = Healthy]]
  /\ UNCHANGED <<faulty, jitter, clock>>

ResolveChaos(t, s) == StartResolve(t, <<s>>, {s})

ResolveAll(t) == StartResolve(t, SERVICES, Services)

\* One gauge of the thread's present service is set.
SetGauge(t) ==
  LET s == job[t].todo[1]
      g == job[t].writes[1] IN
  /\ job[t].writes # <<>>
  /\ faulty' = [faulty EXCEPT ![s] = IF job[t].op = "trigger" THEN @ \cup {g}
                                                              ELSE @ \ {g}]
  /\ job' = [job EXCEPT ![t].writes = Tail(@)]
  /\ UNCHANGED <<active, jitter, clock, clashed>>

\* Mutant: trigger-all stores an entry for the first service only.
NextServiceUnstored(t) ==
  LET rest == Tail(job[t].todo) IN
  /\ job[t] # Idle
  /\ job[t].writes = <<>>
  /\ IF rest = <<>>
     THEN job' = [job EXCEPT ![t] = Idle] /\ UNCHANGED clashed
     ELSE /\ job' = [job EXCEPT ![t].todo = rest, ![t].writes =
                       IF job[t].op = "trigger" THEN Applied(job[t].scenario) ELSE Healthy]
          /\ clashed' = Clash({rest[1]})
  /\ UNCHANGED <<active, faulty, jitter, clock>>

\* It is done with that service: the next one, or the response.
NextService(t) ==
  LET rest == Tail(job[t].todo) IN
  /\ job[t] # Idle
  /\ job[t].writes = <<>>
  /\ \/ /\ rest = <<>>
        /\ job' = [job EXCEPT ![t] = Idle]
        /\ UNCHANGED <<active, clashed>>
     \/ /\ rest # <<>>
        /\ job[t].op = "trigger"
        /\ StartService(t, rest, job[t].scenario, job[t].ends_at)
     \/ /\ rest # <<>>
        /\ job[t].op = "resolve"
        /\ job' = [job EXCEPT ![t].todo = rest, ![t].writes = Healthy]
        /\ UNCHANGED <<active, clashed>>
  /\ UNCHANGED <<faulty, jitter, clock>>

-------------------------------------------------------------------------
\* The jitter task wakes up.
Wake ==
  /\ at = "asleep"
  /\ at' = "check"
  /\ now' = clock
  /\ todo' = SERVICES
  /\ UNCHANGED <<active, faulty, job, writes, size, unseen, expired, clock, clashed>>

\* The loop over the services has ended, or goes on with the next one.
Advance ==
  /\ todo' = Tail(todo)
  /\ at' = IF Tail(todo) = <<>> THEN "begin" ELSE "check"

\* Mutant: services under a scenario drift as well.
CheckNothing ==
  /\ at = "check"
  /\ at' = "drift"
  /\ writes' = Drifting
  /\ clashed' = Clash({todo[1]})
  /\ UNCHANGED <<active, faulty, job, now, todo, size, unseen, expired, clock>>

\* A service under a scenario in force is passed over.
CheckScenario ==
  /\ at = "check"
  /\ \/ /\ InForce(todo[1], now)
        /\ Advance
        /\ UNCHANGED <<writes, clashed>>
     \/ /\ ~InForce(todo[1], now)
        /\ at' = "drift"
        /\ writes' = Drifting
        /\ clashed' = Clash({todo[1]})
        /\ UNCHANGED todo
  /\ UNCHANGED <<active, faulty, job, now, size, unseen, expired, clock>>

\* The next gauge of that service drifts within its bounds.
Drift ==
  /\ at = "drift"
  /\ \/ /\ writes # <<>>
        /\ faulty' = [faulty EXCEPT ![todo[1]] = @ \ {writes[1]}]
        /\ writes' = Tail(writes)
        /\ UNCHANGED <<at, todo>>
     \/ /\ writes = <<>>
        /\ Advance
        /\ UNCHANGED <<faulty, writes>>
  /\ UNCHANGED <<active, job, now, size, unseen, expired, clock, clashed>>

\* The comprehension over active_scenarios.items() begins.
BeginCollect ==
  /\ at = "begin"
  /\ at' = "collect"
  /\ size' = Cardinality(DOMAIN active)
  /\ unseen' = DOMAIN active
  /\ UNCHANGED <<active, faulty, job, now, todo, writes, expired, clock, clashed>>

\* Mutant: the scenarios that are over are the ones kept.
OverInverted(s) == active[s].ends_at >= now

Over(s) == active[s].ends_at <= now

\* One call of the iterator's next, which raises when the dictionary has
\* another size than at first; nothing catches that and the task is over.
Collect ==
  /\ at = "collect"
  /\ \/ /\ Cardinality(DOMAIN active) # size
        /\ at' = "dead"
        /\ expired' = {}
        /\ unseen' = {}
        /\ UNCHANGED clashed
     \/ /\ Cardinality(DOMAIN active) = size
        /\ \E s \in unseen \cap DOMAIN active :
             /\ unseen' = unseen \ {s}
             /\ IF Over(s)
                THEN expired' = expired \cup {s} /\ clashed' = ClashOrRestore({s})
                ELSE UNCHANGED <<expired, clashed>>
        /\ UNCHANGED at
     \/ /\ Cardinality(DOMAIN active) = size
        /\ unseen \cap DOMAIN active = {}
        /\ at' = "expire"
        /\ unseen' = {}
        /\ UNCHANGED <<expired, clashed>>
  /\ UNCHANGED <<active, faulty, job, now, todo, writes, size, clock>>

\* _resolve_service of an expired service begins, or the task goes to sleep.
Expire ==
  /\ at = "expire"
  /\ \/ /\ expired = {}
        /\ at' = "asleep"
        /\ UNCHANGED <<todo, writes>>
     \/ \E s \in expired :
          /\ at' = "restore"
          /\ todo' = <<s>>
          /\ writes' = Healthy
  /\ UNCHANGED <<active, faulty, job, now, size, unseen, expired, clock, clashed>>

Restore ==
  /\ at = "restore"
  /\ writes # <<>>
  /\ faulty' = [faulty EXCEPT ![todo[1]] = @ \ {writes[1]}]
  /\ writes' = Tail(writes)
  /\ UNCHANGED <<active, job, at, now, todo, size, unseen, expired, clock, clashed>>

\* Mutant: the entry is not deleted.
KeepEntry ==
  /\ at = "restore"
  /\ writes = <<>>
  /\ at' = "expire"
  /\ expired' = expired \ {todo[1]}
  /\ todo' = <<>>
  /\ UNCHANGED <<active, faulty, job, now, writes, size, unseen, clock, clashed>>

\* del active_scenarios[svc]: a KeyError ends the task.
DeleteEntry ==
  LET s == todo[1] IN
  /\ at = "restore"
  /\ writes = <<>>
  /\ \/ /\ s \in DOMAIN active
        /\ at' = "expire"
        /\ active' = Without({s})
        /\ expired' = expired \ {s}
     \/ /\ s \notin DOMAIN active
        /\ at' = "dead"
        /\ expired' = {}
        /\ UNCHANGED active
  /\ todo' = <<>>
  /\ UNCHANGED <<faulty, job, now, writes, size, unseen, clock, clashed>>

Tick ==
  /\ clock < MaxClock
  /\ clock' = clock + 1
  /\ UNCHANGED <<active, faulty, job, jitter, clashed>>

Jitter ==
  \/ Wake
  \/ CheckScenario
  \/ Drift
  \/ BeginCollect
  \/ Collect
  \/ Expire
  \/ Restore
  \/ DeleteEntry

Next ==
  \/ \E t \in Threads, s \in Services, sc \in Asked, d \in Durations :
       TriggerChaos(t, s, sc, d)
  \/ \E t \in Threads, sc \in Asked, d \in Durations : TriggerAllServices(t, sc, d)
  \/ \E t \in Threads, s \in Services : ResolveChaos(t, s)
  \/ \E t \in Threads : ResolveAll(t)
  \/ \E t \in Threads : SetGauge(t)
  \/ \E t \in Threads : NextService(t)
  \/ Jitter
  \/ Tick

Spec == Init /\ [][Next]_vars

\* The task sleeps 10 s and goes on, as long as it lives.
FairSpec == Spec /\ WF_vars(Jitter)

-------------------------------------------------------------------------
JobOK(j) ==
  \/ j = Idle
  \/ /\ j.op \in {"trigger", "resolve"}
     /\ j.op = "trigger" => j.scenario \in VALID_SCENARIOS
     /\ j.todo # <<>>
     /\ j.todo \in Seq(Services)
     /\ j.writes \in Seq(Watched)

\* Type invariant.  A request that is not idle has a service in hand, and
\* the jitter task holds expired services only while it collects and ends
\* their scenarios.
TypeOK ==
  /\ DOMAIN active \subseteq Services
  /\ \A s \in DOMAIN active : /\ active[s].scenario \in VALID_SCENARIOS
                              /\ active[s].ends_at \in Nat
  /\ faulty \in [Services -> SUBSET (Watched \cap Gauges)]
  /\ \A t \in Threads : JobOK(job[t])
  /\ at \in {"asleep", "check", "drift", "begin", "collect", "expire", "restore", "dead"}
  /\ now \in Nat /\ now <= clock
  /\ todo \in Seq(Services)
  /\ at \in {"check", "drift", "restore"} <=> todo # <<>>
  /\ writes \in Seq(Watched)
  /\ size \in Nat
  /\ unseen \subseteq Services
  /\ expired \subseteq Services
  /\ expired # {} => at \in {"collect", "expire", "restore"}
  /\ clock \in Nat
  /\ clashed \subseteq Services

\* A service never keeps faulty gauges when its scenario is gone from
\* active_scenarios and nobody works on it, so that nothing would ever
\* restore them, unless two actors worked on it at once (a trigger in the
\* time between the expiry of a scenario and its removal, two requests).
FaultsHaveAnEnd ==
  \A s \in Services :
    faulty[s] # {} => s \in DOMAIN active \/ Busy(s) \/ s \in clashed

\* While /services lists a scenario as active, and no request is at work on
\* the service, its gauges show the scenario: drift never wipes out a fault,
\* except where the jitter task and a request were on the service at once.
ActiveScenarioShows ==
  \A s \in Services :
    InForce(s, clock) /\ ~Busy(s) /\ s \notin clashed
      => \A k \in DOMAIN Touches[active[s].scenario] :
           Touches[active[s].scenario][k] \in faulty[s]

Resolving(s) == \E t \in Threads : job'[t].op = "resolve" /\ s \in {job'[t].todo[k] : k \in DOMAIN job'[t].todo}

\* A scenario whose time is not up is removed by a resolve request only, or
\* by a jitter task that took its predecessor's expiry for its own: then
\* the request that stored it met the task at that service.
NoEarlyEnd ==
  [][\A s \in Services :
       (InForce(s, clock) /\ s \notin DOMAIN active')
         => s \in clashed \/ Resolving(s)]_vars

Ended(s) == s \in DOMAIN active /\ active[s].ends_at <= clock

\* A scenario whose time is up does not stay, as long as the jitter task
\* lives.
EndedIsCleared == \A s \in Services : Ended(s) ~> (~Ended(s) \/ at = "dead")

=========================================================================
