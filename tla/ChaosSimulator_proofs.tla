---------------------- MODULE ChaosSimulator_proofs ----------------------
(***************************************************************************)
(* Proofs about the chaos simulator, for any number of services, threads   *)
(* and requests, any durations, and all gauges at once.                    *)
(*                                                                         *)
(* Each property excepts the services two actors worked on at once.  The   *)
(* argument is that of a critical section: on every other service there is *)
(* at most one actor (Alone), so that what an actor knows of a service     *)
(* when it sets to work, that its scenario is over, that its entry is      *)
(* gone, or which gauges it still has to write, is true until it is done.  *)
(***************************************************************************)
EXTENDS ChaosSimulator, TLAPS, SequenceTheorems, FiniteSetTheorems

KeptGauges == Watched \cap Gauges

Entries == [scenario : VALID_SCENARIOS, ends_at : Nat]

Jobs == [op : {"none", "trigger", "resolve"}, scenario : VALID_SCENARIOS \cup {"none"},
         ends_at : Nat, todo : Seq(Services), writes : Seq(KeptGauges)]

\* A job is idle, or has a service in hand and knows its scenario.
Steady(j) ==
  \/ j = Idle
  \/ j.op = "trigger" /\ j.scenario \in VALID_SCENARIOS /\ j.todo # <<>>
  \/ j.op = "resolve" /\ j.todo # <<>>

Typed ==
  /\ DOMAIN active \subseteq Services
  /\ \A s \in DOMAIN active : active[s] \in Entries
  /\ faulty \in [Services -> SUBSET KeptGauges]
  /\ job \in [Threads -> Jobs]
  /\ \A t \in Threads : Steady(job[t])
  /\ now \in Nat /\ clock \in Nat /\ now <= clock
  /\ todo \in Seq(Services)
  /\ writes \in Seq(KeptGauges)
  /\ at \in {"asleep", "check", "drift", "begin", "collect", "expire", "restore", "dead"}
  /\ at \in {"check", "drift", "restore"} <=> todo # <<>>
  /\ size \in Nat
  /\ unseen \subseteq Services
  /\ expired \subseteq Services
  /\ expired # {} => at \in {"collect", "expire", "restore"}
  /\ at = "restore" => todo[1] \in expired
  /\ clashed \subseteq Services

Triggers(t, s) == job[t].op = "trigger" /\ job[t].todo[1] = s

Resolves(t, s) == job[t].op = "resolve" /\ s \in Range(job[t].todo)

\* The service the thread restores now.
Restores(t, s) == job[t].op = "resolve" /\ job[t].todo[1] = s

Works(t, s) == Triggers(t, s) \/ Resolves(t, s)

\* The service that drifts, the one that is restored, and those decided about.
Drifts(s) == at = "drift" /\ todo[1] = s

RestoresExpired(s) == at = "restore" /\ todo[1] = s

JitterWorks(s) == s \in expired \/ Drifts(s)

\* At most one actor is at work on a service without a clash.
Alone(s) ==
  /\ \A t, u \in Threads : Works(t, s) /\ Works(u, s) => t = u
  /\ \A t \in Threads : Works(t, s) => ~JitterWorks(s)

\* Nothing but a running restoration keeps faults without an entry.
FaultsOK(s) ==
  faulty[s] # {} => s \in DOMAIN active \/ \E t \in Threads : Resolves(t, s)

\* An actor that restores a service has still to write the faulty gauges.
RestoringOK(s) ==
  /\ \A t \in Threads : Restores(t, s) => faulty[s] \subseteq Range(job[t].writes)
  /\ RestoresExpired(s) => faulty[s] \subseteq Range(writes)

\* What the jitter task has found out about a service stays true.
JitterOK(s) ==
  /\ s \in expired => s \in DOMAIN active /\ ~InForce(s, clock)
  /\ Drifts(s) => ~InForce(s, clock)

\* A trigger's entry stays while its thread writes the gauges.
TriggerOK(s) ==
  \A t \in Threads : Triggers(t, s) =>
    /\ s \in DOMAIN active
    /\ active[s].scenario = job[t].scenario
    /\ Range(Touches[job[t].scenario]) \subseteq faulty[s] \cup Range(job[t].writes)

\* No entry comes back while a request restores the service.
ResolveOK(s) ==
  \A t \in Threads : Resolves(t, s) => s \notin DOMAIN active

\* Afterwards the gauges show the scenario.
ShownOK(s) ==
  InForce(s, clock) => \/ \E t \in Threads : Triggers(t, s)
                       \/ Range(Touches[active[s].scenario]) \subseteq faulty[s]

Quiet(s) ==
  /\ Alone(s)
  /\ FaultsOK(s)
  /\ RestoringOK(s)
  /\ JitterOK(s)
  /\ TriggerOK(s)
  /\ ResolveOK(s)
  /\ ShownOK(s)

IInv == Typed /\ \A s \in Services \ clashed : Quiet(s)

-------------------------------------------------------------------------
\* Sequences of services and gauges.
LEMMA FirstAndRest ==
  ASSUME NEW S, NEW q \in Seq(S), q # <<>>
  PROVE  /\ q[1] \in S /\ q[1] \in Range(q)
         /\ Tail(q) \in Seq(S)
         /\ Range(q) = {q[1]} \cup Range(Tail(q))
<1>1. /\ Len(q) \in Nat /\ Len(q) >= 1 /\ DOMAIN q = 1..Len(q)
      /\ \A k \in 1..Len(q) : q[k] \in S
  BY EmptySeq, LenProperties, ElementOfSeq
<1>2. /\ Tail(q) \in Seq(S) /\ Len(Tail(q)) = Len(q) - 1
      /\ \A k \in 1..Len(Tail(q)) : Tail(q)[k] = q[k + 1]
  BY HeadTailProperties
<1>3. DOMAIN Tail(q) = 1..(Len(q) - 1)
  BY <1>2, LenProperties
<1>4. ASSUME NEW k \in 1..Len(q), k # 1
      PROVE  q[k] \in Range(Tail(q))
  <2> DEFINE m == k - 1
  <2>1. m \in 1..(Len(q) - 1) /\ m + 1 = k
    BY <1>1, <1>4
  <2> HIDE DEF m
  <2>2. m \in DOMAIN Tail(q) /\ Tail(q)[m] = q[k]
    BY <1>2, <1>3, <2>1
  <2> QED
    BY <2>2 DEF Range
<1>5. \A k \in DOMAIN Tail(q) : Tail(q)[k] \in Range(q)
  BY <1>1, <1>2, <1>3 DEF Range
<1> QED
  BY <1>1, <1>2, <1>4, <1>5 DEF Range

LEMMA NothingInRange == Range(<<>>) = {}
BY DEF Range

LEMMA RangeInSet ==
  ASSUME NEW S, NEW q \in Seq(S)
  PROVE  Range(q) \subseteq S
BY ElementOfSeq, LenProperties DEF Range

LEMMA OnlyKept ==
  ASSUME NEW g \in Gauges
  PROVE  Only(g) \in Seq(KeptGauges) /\ Range(Only(g)) = {g} \cap Watched
<1>1. CASE g \in Watched
  <2>1. <<g>> \in Seq(KeptGauges) /\ DOMAIN <<g>> = {1} /\ <<g>>[1] = g
    BY <1>1 DEF KeptGauges
  <2> QED
    BY <1>1, <2>1 DEF Only, Range
<1>2. CASE g \notin Watched
  BY <1>2, NothingInRange DEF Only
<1> QED
  BY <1>1, <1>2

\* Sequences of kept gauges put together.
LEMMA Together ==
  ASSUME NEW p \in Seq(KeptGauges), NEW q \in Seq(KeptGauges)
  PROVE  p \o q \in Seq(KeptGauges) /\ Range(p \o q) = Range(p) \cup Range(q)
BY ConcatProperties, RangeConcatenation

LEMMA HealthyIsAll ==
  /\ Healthy \in Seq(KeptGauges)
  /\ Range(Healthy) = KeptGauges
<1>1. \A g \in Gauges : Only(g) \in Seq(KeptGauges) /\ Range(Only(g)) = {g} \cap Watched
  BY OnlyKept
<1>2. {"health", "error", "latency", "cpu", "memory", "rate"} \subseteq Gauges
  BY DEF Gauges
<1> DEFINE a == Only("health") \o Only("error")
           b == a \o Only("latency")
           c == b \o Only("cpu")
           d == c \o Only("memory")
<1>3. a \in Seq(KeptGauges) /\ Range(a) = {"health", "error"} \cap Watched
  BY <1>1, <1>2, Together
<1> HIDE DEF a
<1>4. b \in Seq(KeptGauges) /\ Range(b) = {"health", "error", "latency"} \cap Watched
  BY <1>1, <1>2, <1>3, Together
<1> HIDE DEF b
<1>5. c \in Seq(KeptGauges) /\ Range(c) = {"health", "error", "latency", "cpu"} \cap Watched
  BY <1>1, <1>2, <1>4, Together
<1> HIDE DEF c
<1>6. d \in Seq(KeptGauges)
      /\ Range(d) = {"health", "error", "latency", "cpu", "memory"} \cap Watched
  BY <1>1, <1>2, <1>5, Together
<1> HIDE DEF d
<1>7. /\ d \o Only("rate") \in Seq(KeptGauges)
      /\ Range(d \o Only("rate")) = Range(d) \cup ({"rate"} \cap Watched)
  BY <1>1, <1>2, <1>6, Together
<1>8. Range(d) \cup ({"rate"} \cap Watched) = KeptGauges
  BY <1>6 DEF Gauges, KeptGauges
<1> QED
  BY <1>7, <1>8 DEF Healthy, a, b, c, d

LEMMA DriftingKept == Drifting \in Seq(KeptGauges)
<1> DEFINE e == Only("error")
           l == Only("latency")
           c == Only("cpu")
           m == Only("memory")
<1>1. {e, l, c, m} \subseteq Seq(KeptGauges)
  <2>1. \A g \in Gauges : Only(g) \in Seq(KeptGauges)
    BY OnlyKept
  <2>2. {"error", "latency", "cpu", "memory"} \subseteq Gauges
    BY DEF Gauges
  <2> QED
    BY <2>1, <2>2
<1>2. Drifting = ((e \o l) \o c) \o m
  BY DEF Drifting
<1> HIDE DEF e, l, c, m
<1>3. e \o l \in Seq(KeptGauges)
  BY <1>1, Together
<1>4. (e \o l) \o c \in Seq(KeptGauges)
  BY <1>1, <1>3, Together
<1> QED
  BY <1>1, <1>2, <1>4, Together

LEMMA TouchesKept ==
  ASSUME NEW sc \in VALID_SCENARIOS
  PROVE  Touches[sc] \in Seq(KeptGauges) /\ Applied(sc) = Touches[sc]
<1>1. \A g \in Gauges : Only(g) \in Seq(KeptGauges)
  BY OnlyKept
<1>2. {"health", "error", "latency", "cpu", "memory", "rate"} \subseteq Gauges
  BY DEF Gauges
<1> DEFINE h == Only("health")
           e == Only("error")
           l == Only("latency")
           c == Only("cpu")
           m == Only("memory")
           r == Only("rate")
<1>3. {h, e, l, c, m, r} \subseteq Seq(KeptGauges)
  BY <1>1, <1>2
<1>4. Touches = [service_down |-> h \o e \o l \o r, high_error_rate |-> e \o l,
                 high_latency |-> l \o e, cpu_spike |-> c \o l, memory_leak |-> m \o c,
                 traffic_spike |-> r \o c \o l, degraded |-> e \o l \o c]
  BY DEF Touches
<1> HIDE DEF h, e, l, c, m, r
<1>5. {h \o e, e \o l, l \o e, c \o l, m \o c, r \o c} \subseteq Seq(KeptGauges)
  BY <1>3, Together
<1>6. {(h \o e) \o l, (r \o c) \o l, (e \o l) \o c} \subseteq Seq(KeptGauges)
  BY <1>3, <1>5, Together
<1>7. ((h \o e) \o l) \o r \in Seq(KeptGauges)
  BY <1>3, <1>6, Together
<1>8. sc \in {"service_down", "high_error_rate", "high_latency", "cpu_spike",
              "memory_leak", "traffic_spike", "degraded"}
  BY <1>4 DEF VALID_SCENARIOS
<1>9. /\ Touches["service_down"] = ((h \o e) \o l) \o r
      /\ Touches["high_error_rate"] = e \o l
      /\ Touches["high_latency"] = l \o e
      /\ Touches["cpu_spike"] = c \o l
      /\ Touches["memory_leak"] = m \o c
      /\ Touches["traffic_spike"] = (r \o c) \o l
      /\ Touches["degraded"] = (e \o l) \o c
  BY <1>4
<1>10. Touches[sc] \in Seq(KeptGauges)
  BY <1>5, <1>6, <1>7, <1>8, <1>9
<1> QED
  BY <1>10 DEF Applied

LEMMA AllServices ==
  /\ SERVICES \in Seq(Services) /\ SERVICES # <<>>
  /\ Range(SERVICES) = Services
  /\ IsFiniteSet(Services)
<1>1. SERVICES \in Seq(Services) /\ SERVICES # <<>>
  BY ServicesAssumption DEF Services
<1>2. DOMAIN SERVICES = 1..Len(SERVICES) /\ Len(SERVICES) \in Nat
  BY <1>1, LenProperties
<1>3. IsFiniteSet(DOMAIN SERVICES)
  BY <1>2, FS_Interval
<1>4. IsFiniteSet({SERVICES[k] : k \in DOMAIN SERVICES})
  <2>1. SERVICES \in [DOMAIN SERVICES -> Services]
    BY <1>1, <1>2, LenProperties
  <2>2. \A s \in Services : \E k \in DOMAIN SERVICES : SERVICES[k] = s
    BY DEF Services
  <2>3. SERVICES \in Surjection(DOMAIN SERVICES, Services)
    BY <2>1, <2>2 DEF Surjection
  <2> QED
    BY <1>3, <2>3, FS_Surjection DEF Services
<1> QED
  BY <1>1, <1>4 DEF Range, Services

\* One service in hand.
LEMMA OneService ==
  ASSUME NEW s \in Services
  PROVE  /\ <<s>> \in Seq(Services) /\ <<s>> # <<>>
         /\ <<s>>[1] = s /\ Range(<<s>>) = {s}
BY DEF Range

-------------------------------------------------------------------------
\* Types.
LEMMA NothingIsASeq ==
  /\ <<>> \in Seq(Services) /\ <<>> \in Seq(KeptGauges)
BY EmptySeq

LEMMA IdleJob == Idle \in Jobs /\ Idle.op = "none" /\ Steady(Idle)
BY NothingIsASeq DEF Idle, Jobs, Steady

LEMMA InitTyped == Init => Typed
<1> SUFFICES ASSUME Init PROVE Typed
  OBVIOUS
<1>1. job \in [Threads -> Jobs] /\ \A t \in Threads : Steady(job[t])
  BY IdleJob DEF Init
<1>2. faulty \in [Services -> SUBSET KeptGauges]
  BY DEF Init
<1>3. DOMAIN active = {}
  BY DEF Init
<1> QED
  BY <1>1, <1>2, <1>3, NothingIsASeq DEF Init, Typed

\* What a thread's job is about.
LEMMA JobFacts ==
  ASSUME Typed, NEW t \in Threads
  PROVE  /\ job[t] \in Jobs
         /\ job[t].todo \in Seq(Services) /\ job[t].writes \in Seq(KeptGauges)
         /\ job[t] = Idle <=> job[t].op = "none"
         /\ job[t] # Idle => /\ job[t].op \in {"trigger", "resolve"}
                             /\ job[t].todo # <<>>
                             /\ job[t].todo[1] \in Services
                             /\ job[t].todo[1] \in Range(job[t].todo)
         /\ job[t].op = "trigger" => job[t].scenario \in VALID_SCENARIOS
<1>1. job[t] \in Jobs /\ Steady(job[t])
  BY DEF Typed
<1>2. job[t].todo \in Seq(Services) /\ job[t].writes \in Seq(KeptGauges)
  BY <1>1 DEF Jobs
<1>3. /\ job[t] = Idle <=> job[t].op = "none"
      /\ job[t] # Idle => job[t].op \in {"trigger", "resolve"} /\ job[t].todo # <<>>
      /\ job[t].op = "trigger" => job[t].scenario \in VALID_SCENARIOS
  BY <1>1, IdleJob DEF Steady
<1>4. job[t] # Idle => /\ job[t].todo[1] \in Services
                       /\ job[t].todo[1] \in Range(job[t].todo)
  BY <1>2, <1>3, FirstAndRest
<1> QED
  BY <1>1, <1>2, <1>3, <1>4

\* The jitter task's loop goes on.
LEMMA AdvanceTyped ==
  ASSUME Typed, todo # <<>>, Advance
  PROVE  /\ todo' \in Seq(Services)
         /\ at' \in {"begin", "check"}
         /\ at' = "check" <=> todo' # <<>>
BY FirstAndRest DEF Advance, Typed

LEMMA StartServiceTyped ==
  ASSUME Typed, NEW t \in Threads, NEW q \in Seq(Services), q # <<>>,
         NEW sc \in VALID_SCENARIOS, NEW e \in Nat,
         StartService(t, q, sc, e), UNCHANGED <<faulty, jitter, clock>>
  PROVE  Typed'
<1> DEFINE j == [op |-> "trigger", scenario |-> sc, ends_at |-> e, todo |-> q,
                 writes |-> Applied(sc)]
<1>1. q[1] \in Services
  BY FirstAndRest
<1>2. j \in Jobs /\ Steady(j)
  BY TouchesKept DEF Jobs, Steady
<1>3. job' = [job EXCEPT ![t] = j]
  BY DEF StartService
<1> HIDE DEF j
<1>4. job' \in [Threads -> Jobs] /\ \A u \in Threads : Steady(job'[u])
  BY <1>2, <1>3 DEF Typed
<1>5. /\ DOMAIN active' \subseteq Services
      /\ \A s \in DOMAIN active' : active'[s] \in Entries
  <2>1. Entry(sc, e) \in Entries
    BY DEF Entry, Entries
  <2>2. active' = [s \in DOMAIN active \cup {q[1]} |-> IF s = q[1] THEN Entry(sc, e) ELSE active[s]]
    BY DEF StartService, WithEntry
  <2> QED
    BY <1>1, <2>1, <2>2 DEF Typed
<1>6. clashed' \subseteq Services
  BY <1>1 DEF StartService, Clash, Typed
<1>7. UNCHANGED <<faulty, at, now, todo, writes, size, unseen, expired, clock>>
  BY DEF jitter
<1> QED
  BY <1>4, <1>5, <1>6, <1>7 DEF Typed

LEMMA StartResolveTyped ==
  ASSUME Typed, NEW t \in Threads, NEW q \in Seq(Services), q # <<>>,
         NEW S \in SUBSET Services, StartResolve(t, q, S)
  PROVE  Typed'
<1> DEFINE j == [Idle EXCEPT !.op = "resolve", !.todo = q, !.writes = Healthy]
<1>1. j \in Jobs /\ Steady(j)
  BY HealthyIsAll DEF Jobs, Steady, Idle
<1>2. job' = [job EXCEPT ![t] = j]
  BY DEF StartResolve
<1> HIDE DEF j
<1>3. job' \in [Threads -> Jobs] /\ \A u \in Threads : Steady(job'[u])
  BY <1>1, <1>2 DEF Typed
<1>4. /\ DOMAIN active' \subseteq Services
      /\ \A s \in DOMAIN active' : active'[s] \in Entries
  <2>1. active' = [s \in DOMAIN active \ S |-> active[s]]
    BY DEF StartResolve, Without
  <2> QED
    BY <2>1 DEF Typed
<1>5. clashed' \subseteq Services
  BY DEF StartResolve, ClashOrRestore, Typed
<1>6. UNCHANGED <<faulty, at, now, todo, writes, size, unseen, expired, clock>>
  BY DEF StartResolve, jitter
<1> QED
  BY <1>3, <1>4, <1>5, <1>6 DEF Typed

\* The thread's job after one gauge, and after one service.
LEMMA SetGaugeTyped ==
  ASSUME Typed, NEW t \in Threads, SetGauge(t)
  PROVE  /\ Typed'
         /\ job[t] # Idle
         /\ job'[t].op = job[t].op /\ job'[t].scenario = job[t].scenario
         /\ job'[t].todo = job[t].todo /\ job'[t].writes = Tail(job[t].writes)
         /\ \A u \in Threads \ {t} : job'[u] = job[u]
<1> DEFINE j == [job[t] EXCEPT !.writes = Tail(@)]
<1>1. /\ job[t].writes # <<>>
      /\ job' = [job EXCEPT ![t] = j]
      /\ job[t] \in Jobs /\ Steady(job[t])
      /\ UNCHANGED <<active, at, now, todo, writes, size, unseen, expired, clock, clashed>>
  BY DEF SetGauge, Typed, jitter
<1>2. job[t] # Idle
  BY <1>1 DEF Idle
<1>3. /\ Tail(job[t].writes) \in Seq(KeptGauges)
      /\ job[t].writes[1] \in KeptGauges
  BY <1>1, FirstAndRest DEF Jobs
<1>4. /\ j \in Jobs
      /\ j.op = job[t].op /\ j.scenario = job[t].scenario /\ j.todo = job[t].todo
      /\ j.writes = Tail(job[t].writes)
  BY <1>1, <1>3 DEF Jobs
<1>5. Steady(j)
  BY <1>1, <1>2, <1>4 DEF Steady
<1> HIDE DEF j
<1>6. job' \in [Threads -> Jobs] /\ \A u \in Threads : Steady(job'[u])
  BY <1>1, <1>4, <1>5 DEF Typed
<1>7. faulty' \in [Services -> SUBSET KeptGauges]
  BY <1>3 DEF SetGauge, Typed
<1> QED
  BY <1>1, <1>2, <1>4, <1>6, <1>7 DEF Typed

LEMMA NextServiceTyped ==
  ASSUME Typed, NEW t \in Threads, NextService(t)
  PROVE  Typed'
<1> DEFINE rest == Tail(job[t].todo)
<1>1. /\ job[t] # Idle /\ job[t] \in Jobs /\ Steady(job[t])
      /\ job[t].todo # <<>>
      /\ UNCHANGED <<faulty, at, now, todo, writes, size, unseen, expired, clock>>
  BY JobFacts DEF NextService, Typed, jitter
<1>2. rest \in Seq(Services)
  BY <1>1, FirstAndRest DEF Jobs
<1>3. CASE job' = [job EXCEPT ![t] = Idle] /\ UNCHANGED <<active, clashed>>
  BY <1>1, <1>3, IdleJob DEF Typed
<1>4. CASE /\ rest # <<>> /\ job[t].op = "trigger"
           /\ StartService(t, rest, job[t].scenario, job[t].ends_at)
  <2>1. job[t].scenario \in VALID_SCENARIOS /\ job[t].ends_at \in Nat
    BY <1>1, <1>4, JobFacts DEF Jobs
  <2>2. UNCHANGED <<faulty, jitter, clock>>
    BY <1>1 DEF jitter
  <2> HIDE DEF rest
  <2> QED
    BY <1>2, <1>4, <2>1, <2>2, StartServiceTyped
<1>5. CASE /\ rest # <<>> /\ job[t].op = "resolve"
           /\ job' = [job EXCEPT ![t].todo = rest, ![t].writes = Healthy]
           /\ UNCHANGED <<active, clashed>>
  <2> DEFINE j == [job[t] EXCEPT !.todo = rest, !.writes = Healthy]
  <2>1. j \in Jobs /\ Steady(j)
    BY <1>1, <1>2, <1>5, HealthyIsAll DEF Jobs, Steady
  <2>2. job' = [job EXCEPT ![t] = j]
    BY <1>1, <1>5 DEF Typed
  <2> HIDE DEF j
  <2>3. job' \in [Threads -> Jobs] /\ \A u \in Threads : Steady(job'[u])
    BY <2>1, <2>2 DEF Typed
  <2> QED
    BY <1>1, <1>5, <2>3 DEF Typed
<1> QED
  BY <1>3, <1>4, <1>5 DEF NextService

LEMMA JitterTyped ==
  ASSUME Typed, Jitter
  PROVE  Typed'
<1>1. CASE Wake
  BY <1>1, AllServices DEF Wake, Typed
<1>2. CASE CheckScenario
  <2>1. todo # <<>> /\ todo[1] \in Services
    BY <1>2, FirstAndRest DEF CheckScenario, Typed
  <2>2. UNCHANGED <<active, faulty, job, now, size, unseen, expired, clock>> /\ at = "check"
    BY <1>2 DEF CheckScenario
  <2>3. CASE Advance /\ UNCHANGED <<writes, clashed>>
    BY <2>1, <2>2, <2>3, AdvanceTyped DEF Typed
  <2>4. CASE at' = "drift" /\ writes' = Drifting /\ clashed' = Clash({todo[1]}) /\ UNCHANGED todo
    BY <2>1, <2>2, <2>4, DriftingKept DEF Typed, Clash
  <2> QED
    BY <1>2, <2>3, <2>4 DEF CheckScenario
<1>3. CASE Drift
  <2>1. todo # <<>> /\ todo[1] \in Services /\ at = "drift"
    BY <1>3, FirstAndRest DEF Drift, Typed
  <2>2. UNCHANGED <<active, job, now, size, unseen, expired, clock, clashed>>
    BY <1>3 DEF Drift
  <2>3. CASE /\ writes # <<>>
             /\ faulty' = [faulty EXCEPT ![todo[1]] = @ \ {writes[1]}]
             /\ writes' = Tail(writes)
             /\ UNCHANGED <<at, todo>>
    <3>1. writes' \in Seq(KeptGauges)
      BY <2>3, FirstAndRest DEF Typed
    <3>2. faulty' \in [Services -> SUBSET KeptGauges]
      BY <2>3 DEF Typed
    <3> QED
      BY <2>2, <2>3, <3>1, <3>2 DEF Typed
  <2>4. CASE Advance /\ UNCHANGED <<faulty, writes>>
    BY <2>1, <2>2, <2>4, AdvanceTyped DEF Typed
  <2> QED
    BY <1>3, <2>3, <2>4 DEF Drift
<1>4. CASE BeginCollect
  <2>1. Cardinality(DOMAIN active) \in Nat
    BY AllServices, FS_Subset, FS_CardinalityType DEF Typed
  <2> QED
    BY <1>4, <2>1 DEF BeginCollect, Typed
<1>5. CASE Collect
  <2>1. UNCHANGED <<active, faulty, job, now, todo, writes, size, clock>> /\ at = "collect"
    BY <1>5 DEF Collect
  <2>2. CASE at' = "dead" /\ expired' = {} /\ unseen' = {} /\ UNCHANGED clashed
    BY <2>1, <2>2 DEF Typed
  <2>3. ASSUME NEW s \in unseen \cap DOMAIN active, unseen' = unseen \ {s}, UNCHANGED at,
               \/ expired' = expired \cup {s} /\ clashed' = ClashOrRestore({s})
               \/ UNCHANGED <<expired, clashed>>
        PROVE  Typed'
    BY <2>1, <2>3 DEF Typed, ClashOrRestore
  <2>4. CASE at' = "expire" /\ unseen' = {} /\ UNCHANGED <<expired, clashed>>
    BY <2>1, <2>4 DEF Typed
  <2> QED
    BY <1>5, <2>2, <2>3, <2>4 DEF Collect
<1>6. CASE Expire
  <2>1. /\ UNCHANGED <<active, faulty, job, now, size, unseen, expired, clock, clashed>>
        /\ at = "expire"
    BY <1>6 DEF Expire
  <2>2. CASE expired = {} /\ at' = "asleep" /\ UNCHANGED <<todo, writes>>
    BY <2>1, <2>2 DEF Typed
  <2>3. ASSUME NEW s \in expired, at' = "restore", todo' = <<s>>, writes' = Healthy
        PROVE  Typed'
    <3>1. todo' \in Seq(Services) /\ todo' # <<>> /\ todo'[1] = s
      BY <2>3, OneService DEF Typed
    <3> QED
      BY <2>1, <2>3, <3>1, HealthyIsAll DEF Typed
  <2> QED
    BY <1>6, <2>2, <2>3 DEF Expire
<1>7. CASE Restore
  <2>1. writes' \in Seq(KeptGauges)
    BY <1>7, FirstAndRest DEF Typed, Restore
  <2>2. faulty' \in [Services -> SUBSET KeptGauges]
    BY <1>7 DEF Typed, Restore
  <2> QED
    BY <1>7, <2>1, <2>2 DEF Typed, Restore
<1>8. CASE DeleteEntry
  <2>1. /\ UNCHANGED <<faulty, job, now, writes, size, unseen, clock, clashed>>
        /\ todo' = <<>>
    BY <1>8 DEF DeleteEntry
  <2>2. CASE at' = "expire" /\ active' = Without({todo[1]}) /\ expired' = expired \ {todo[1]}
    BY <2>1, <2>2, NothingIsASeq DEF Typed, Without
  <2>3. CASE at' = "dead" /\ expired' = {} /\ UNCHANGED active
    BY <2>1, <2>3, NothingIsASeq DEF Typed
  <2> QED
    BY <1>8, <2>2, <2>3 DEF DeleteEntry
<1> QED
  BY <1>1, <1>2, <1>3, <1>4, <1>5, <1>6, <1>7, <1>8 DEF Jitter

-------------------------------------------------------------------------
\* Who is at work on a service.
LEMMA BusyMeans ==
  ASSUME Typed, NEW s \in Services
  PROVE  Busy(s) <=> JitterWorks(s) \/ \E t \in Threads : Works(t, s)
<1>1. s \in JitterWork <=> JitterWorks(s)
  BY DEF JitterWork, JitterWorks, Drifts, Typed
<1>2. ASSUME NEW t \in Threads
      PROVE  s \in WorkOf(t) <=> Works(t, s)
  <2> DEFINE q == job[t].todo
  <2>1. /\ q \in Seq(Services)
        /\ job[t] = Idle <=> job[t].op = "none"
        /\ job[t] # Idle => job[t].op \in {"trigger", "resolve"} /\ q # <<>>
    BY JobFacts
  <2>2. DOMAIN q = 1..Len(q) /\ Len(q) \in Nat /\ (q # <<>> => Len(q) # 0)
    BY <2>1, LenProperties, EmptySeq
  <2>3. CASE job[t].op = "resolve"
    BY <2>3 DEF WorkOf, Works, Triggers, Resolves, Range
  <2>4. CASE job[t].op = "trigger"
    <3>1. DOMAIN q \cap {1} = {1}
      BY <2>1, <2>2, <2>4, IdleJob
    <3>2. WorkOf(t) = {q[1]}
      BY <2>4, <3>1 DEF WorkOf
    <3> QED
      BY <2>4, <3>2 DEF Works, Triggers, Resolves
  <2>5. CASE job[t].op = "none"
    <3>1. q = <<>> /\ DOMAIN q = {}
      BY <2>1, <2>5 DEF Idle
    <3>2. WorkOf(t) = {}
      BY <2>5, <3>1 DEF WorkOf
    <3> QED
      BY <2>5, <3>2 DEF Works, Triggers, Resolves
  <2> QED
    BY <2>1, <2>3, <2>4, <2>5
<1> QED
  BY <1>1, <1>2 DEF Busy

\* The service a restoring thread has in hand is one of those it restores.
LEMMA FirstIsListed ==
  ASSUME NEW j \in Jobs, Steady(j), j.op = "resolve"
  PROVE  j.todo[1] \in Range(j.todo)
<1>1. j.todo \in Seq(Services) /\ j.todo # <<>>
  BY IdleJob DEF Steady, Jobs
<1> QED
  BY <1>1, FirstAndRest

LEMMA RestoresIsWork ==
  ASSUME Typed, NEW t \in Threads, NEW s, Restores(t, s)
  PROVE  Resolves(t, s)
BY FirstIsListed DEF Restores, Resolves, Typed

LEMMA NextRestoresIsWork ==
  ASSUME Typed', NEW t \in Threads, NEW s, Restores(t, s)'
  PROVE  Resolves(t, s)'
BY FirstIsListed DEF Restores, Resolves, Typed

LEMMA ExpiredIsWork ==
  ASSUME Typed, NEW s, RestoresExpired(s)
  PROVE  JitterWorks(s)
BY DEF Typed, RestoresExpired, JitterWorks

\* What a step leaves to a service: its entry and its gauges, ...
SameService(s) ==
  /\ s \in DOMAIN active' <=> s \in DOMAIN active
  /\ s \in DOMAIN active => active'[s] = active[s]
  /\ faulty'[s] = faulty[s]

\* ... a thread's work on it, ...
SameThread(t, s) ==
  /\ Triggers(t, s)' <=> Triggers(t, s)
  /\ Resolves(t, s)' <=> Resolves(t, s)
  /\ Restores(t, s)' <=> Restores(t, s)
  /\ Triggers(t, s) \/ Restores(t, s)
       => job'[t].scenario = job[t].scenario /\ job'[t].writes = job[t].writes

\* ... and the jitter task's, unless that is over.
SameJitter(s) ==
  /\ s \in expired' => s \in expired
  /\ Drifts(s)' => Drifts(s)
  /\ RestoresExpired(s)' => RestoresExpired(s) /\ writes' = writes

Later == clock' \in Nat /\ clock <= clock'

\* An entry that is over stays so.
LEMMA OverStays ==
  ASSUME Typed, Later, NEW s, SameService(s), InForce(s, clock)'
  PROVE  InForce(s, clock)
<1>1. s \in DOMAIN active /\ active[s].ends_at \in Nat /\ active'[s] = active[s]
  BY DEF Typed, Entries, InForce, SameService
<1>2. active'[s].ends_at > clock'
  BY DEF InForce
<1> QED
  BY <1>1, <1>2 DEF InForce, Later, Typed

LEMMA Untouched ==
  ASSUME Typed, NEW s \in Services, Quiet(s), Later, SameService(s), SameJitter(s),
         \A t \in Threads : SameThread(t, s)
  PROVE  Quiet(s)'
<1>1. InForce(s, clock)' => InForce(s, clock)
  BY OverStays
<1>2. \A t \in Threads : Works(t, s)' <=> Works(t, s)
  BY DEF Works, SameThread
<1>3. JitterWorks(s)' => JitterWorks(s)
  BY DEF JitterWorks, SameJitter
<1>4. Alone(s)'
  BY <1>2, <1>3 DEF Alone, Quiet
<1>5. FaultsOK(s)'
  BY DEF FaultsOK, Quiet, SameService, SameThread
<1>6. RestoringOK(s)'
  BY DEF RestoringOK, Quiet, SameService, SameThread, SameJitter
<1>7. JitterOK(s)'
  BY <1>1 DEF JitterOK, Quiet, SameService, SameJitter
<1>8. TriggerOK(s)'
  BY DEF TriggerOK, Quiet, SameService, SameThread
<1>9. ResolveOK(s)'
  BY DEF ResolveOK, Quiet, SameService, SameThread
<1>10. ShownOK(s)'
  <2>1. InForce(s, clock)' => s \in DOMAIN active
    BY <1>1 DEF InForce
  <2> QED
    BY <1>1, <2>1 DEF ShownOK, Quiet, SameService, SameThread
<1> QED
  BY <1>4, <1>5, <1>6, <1>7, <1>8, <1>9, <1>10 DEF Quiet

\* A thread begins to work on a service nobody works on.
LEMMA TriggerBegins ==
  ASSUME Typed', NEW s \in Services, NEW t \in Threads,
         ~JitterWorks(s)', \A u \in Threads \ {t} : ~Works(u, s)',
         Triggers(t, s)', s \in DOMAIN active',
         active'[s].scenario = job'[t].scenario,
         Range(Touches[job'[t].scenario]) \subseteq faulty'[s] \cup Range(job'[t].writes)
  PROVE  Quiet(s)'
<1>1. \A u \in Threads : ~Resolves(u, s)' /\ ~Restores(u, s)' /\ (Triggers(u, s)' => u = t)
  <2>1. ~Resolves(t, s)' /\ ~Restores(t, s)'
    BY DEF Triggers, Resolves, Restores
  <2>2. \A u \in Threads \ {t} : ~Triggers(u, s)' /\ ~Resolves(u, s)'
    BY DEF Works
  <2>3. \A u \in Threads : Restores(u, s)' => Resolves(u, s)'
    BY NextRestoresIsWork
  <2> QED
    BY <2>1, <2>2, <2>3
<1>2. ~RestoresExpired(s)'
  BY DEF Typed, RestoresExpired, JitterWorks
<1>3. Alone(s)' /\ FaultsOK(s)' /\ ResolveOK(s)' /\ ShownOK(s)'
  BY <1>1 DEF Alone, Works, FaultsOK, ResolveOK, ShownOK
<1>4. RestoringOK(s)' /\ JitterOK(s)'
  BY <1>1, <1>2 DEF RestoringOK, JitterOK, JitterWorks
<1>5. TriggerOK(s)'
  BY <1>1 DEF TriggerOK
<1> QED
  BY <1>3, <1>4, <1>5 DEF Quiet

\* A thread begins to restore a service nobody works on, or goes on with it.
LEMMA ResolveBegins ==
  ASSUME Typed', NEW s \in Services, NEW t \in Threads,
         ~JitterWorks(s)', \A u \in Threads \ {t} : ~Works(u, s)',
         Resolves(t, s)', s \notin DOMAIN active',
         Restores(t, s)' => faulty'[s] \subseteq Range(job'[t].writes)
  PROVE  Quiet(s)'
<1>1. \A u \in Threads : /\ ~Triggers(u, s)'
                         /\ Resolves(u, s)' \/ Restores(u, s)' => u = t
  <2>1. ~Triggers(t, s)'
    BY DEF Triggers, Resolves
  <2>2. \A u \in Threads \ {t} : ~Triggers(u, s)' /\ ~Resolves(u, s)'
    BY DEF Works
  <2>3. \A u \in Threads : Restores(u, s)' => Resolves(u, s)'
    BY NextRestoresIsWork
  <2> QED
    BY <2>1, <2>2, <2>3
<1>2. ~RestoresExpired(s)'
  BY DEF Typed, RestoresExpired, JitterWorks
<1>3. Alone(s)' /\ FaultsOK(s)' /\ ResolveOK(s)' /\ ShownOK(s)' /\ TriggerOK(s)'
  BY <1>1 DEF Alone, Works, FaultsOK, ResolveOK, ShownOK, TriggerOK, InForce
<1>4. RestoringOK(s)' /\ JitterOK(s)'
  BY <1>1, <1>2 DEF RestoringOK, JitterOK, JitterWorks
<1> QED
  BY <1>3, <1>4 DEF Quiet

\* Nobody works on the service, and its gauges fit its entry.
LEMMA Rests ==
  ASSUME Typed', NEW s \in Services, ~JitterWorks(s)', \A u \in Threads : ~Works(u, s)',
         faulty'[s] # {} => s \in DOMAIN active',
         InForce(s, clock)' => Range(Touches[active'[s].scenario]) \subseteq faulty'[s]
  PROVE  Quiet(s)'
<1>1. \A u \in Threads : ~Triggers(u, s)' /\ ~Resolves(u, s)' /\ ~Restores(u, s)'
  BY NextRestoresIsWork DEF Works
<1>2. ~RestoresExpired(s)'
  BY DEF Typed, RestoresExpired, JitterWorks
<1>3. Alone(s)' /\ FaultsOK(s)' /\ ResolveOK(s)' /\ ShownOK(s)' /\ TriggerOK(s)'
  BY <1>1 DEF Alone, Works, FaultsOK, ResolveOK, ShownOK, TriggerOK
<1>4. RestoringOK(s)' /\ JitterOK(s)'
  BY <1>1, <1>2 DEF RestoringOK, JitterOK, JitterWorks
<1> QED
  BY <1>3, <1>4 DEF Quiet

\* The jitter task works on a service no thread works on, whose scenario is
\* over or gone.
LEMMA JitterHolds ==
  ASSUME Typed', NEW s \in Services, \A u \in Threads : ~Works(u, s)',
         faulty'[s] # {} => s \in DOMAIN active',
         ~InForce(s, clock)',
         s \in expired' => s \in DOMAIN active',
         RestoresExpired(s)' => faulty'[s] \subseteq Range(writes')
  PROVE  Quiet(s)'
<1>1. \A u \in Threads : ~Triggers(u, s)' /\ ~Resolves(u, s)' /\ ~Restores(u, s)'
  BY NextRestoresIsWork DEF Works
<1>2. Alone(s)' /\ FaultsOK(s)' /\ ResolveOK(s)' /\ ShownOK(s)' /\ TriggerOK(s)'
  BY <1>1 DEF Alone, Works, FaultsOK, ResolveOK, ShownOK, TriggerOK
<1>3. RestoringOK(s)' /\ JitterOK(s)'
  BY <1>1 DEF RestoringOK, JitterOK
<1> QED
  BY <1>2, <1>3 DEF Quiet

\* What is known of a service one thread works on, or the jitter task.
LEMMA OneThread ==
  ASSUME Typed, NEW s, Quiet(s), NEW t \in Threads, Works(t, s)
  PROVE  /\ ~JitterWorks(s)
         /\ \A u \in Threads \ {t} : ~Works(u, s)
BY DEF Quiet, Alone

LEMMA OnlyJitter ==
  ASSUME Typed, NEW s, Quiet(s), JitterWorks(s)
  PROVE  /\ \A u \in Threads : ~Works(u, s)
         /\ ~InForce(s, clock)
         /\ s \in expired => s \in DOMAIN active
         /\ faulty[s] # {} => s \in DOMAIN active
BY DEF Quiet, Alone, JitterOK, JitterWorks, FaultsOK, Works

LEMMA ThreadKeeps ==
  ASSUME Typed, Typed', NEW t \in Threads, NEW s,
         job'[t] = job[t] \/ (~Works(t, s) /\ ~Works(t, s)')
  PROVE  SameThread(t, s)
<1>1. CASE job'[t] = job[t]
  BY <1>1 DEF SameThread, Triggers, Resolves, Restores
<1>2. CASE ~Works(t, s) /\ ~Works(t, s)'
  BY <1>2, RestoresIsWork, NextRestoresIsWork DEF SameThread, Works
<1> QED
  BY <1>1, <1>2

LEMMA JitterKeeps ==
  ASSUME NEW s, UNCHANGED jitter
  PROVE  SameJitter(s) /\ (JitterWorks(s)' <=> JitterWorks(s))
BY DEF jitter, SameJitter, JitterWorks, Drifts, RestoresExpired

\* A thread that has written all gauges of a trigger leaves the service.
LEMMA TriggerEnds ==
  ASSUME Typed, Typed', NEW s \in Services, Quiet(s), Later, SameService(s),
         NEW t \in Threads, Triggers(t, s), job[t].writes = <<>>,
         ~Works(t, s)', \A u \in Threads \ {t} : job'[u] = job[u],
         UNCHANGED jitter
  PROVE  Quiet(s)'
<1>1. ~JitterWorks(s) /\ \A u \in Threads \ {t} : ~Works(u, s)
  BY OneThread DEF Works
<1>2. ~JitterWorks(s)' /\ \A u \in Threads : ~Works(u, s)'
  BY <1>1, JitterKeeps DEF Works, Triggers, Resolves
<1>3. /\ s \in DOMAIN active /\ active[s].scenario = job[t].scenario
      /\ Range(Touches[job[t].scenario]) \subseteq faulty[s]
  BY NothingInRange DEF Quiet, TriggerOK
<1>4. /\ s \in DOMAIN active'
      /\ Range(Touches[active'[s].scenario]) \subseteq faulty'[s]
  BY <1>3 DEF SameService
<1> QED
  BY <1>2, <1>4, Rests

-------------------------------------------------------------------------
\* Requests.
LEMMA StartServiceQuiet ==
  ASSUME IInv, Typed', NEW t \in Threads, NEW q \in Seq(Services), q # <<>>,
         NEW sc \in VALID_SCENARIOS, NEW e \in Nat,
         StartService(t, q, sc, e), UNCHANGED <<faulty, jitter, clock>>,
         job[t] = Idle \/ (job[t].op = "trigger" /\ job[t].writes = <<>>),
         NEW s \in Services, s \notin clashed'
  PROVE  Quiet(s)'
<1> USE DEF IInv
<1>1. /\ q[1] \in Services
      /\ active' = WithEntry(q[1], Entry(sc, e))
      /\ clashed' = Clash({q[1]})
      /\ job'[t].op = "trigger" /\ job'[t].scenario = sc /\ job'[t].todo = q
      /\ job'[t].writes = Touches[sc]
      /\ \A u \in Threads \ {t} : job'[u] = job[u]
  BY FirstAndRest, TouchesKept DEF StartService, Typed
<1>2. s \notin clashed /\ Quiet(s)
  BY <1>1 DEF Clash
<1>3. Later
  BY DEF Later, Typed
<1>4. Works(t, s)' <=> s = q[1]
  BY <1>1 DEF Works, Triggers, Resolves
<1>5. CASE s = q[1]
  <2>1. ~Busy(s)
    BY <1>1, <1>5 DEF Clash
  <2>2. ~JitterWorks(s) /\ \A u \in Threads : ~Works(u, s)
    BY <2>1, BusyMeans
  <2>3. ~JitterWorks(s)' /\ \A u \in Threads \ {t} : ~Works(u, s)'
    BY <1>1, <2>2, JitterKeeps DEF Works, Triggers, Resolves
  <2>4. s \in DOMAIN active' /\ active'[s].scenario = sc
    BY <1>1, <1>5 DEF WithEntry, Entry
  <2>5. Triggers(t, s)'
    BY <1>1, <1>5 DEF Triggers
  <2> QED
    BY <1>1, <2>3, <2>4, <2>5, TriggerBegins
<1>6. CASE s # q[1]
  <2>1. SameService(s)
    BY <1>1, <1>6 DEF SameService, WithEntry
  <2>2. CASE Works(t, s)
    <3>1. Triggers(t, s) /\ job[t].writes = <<>>
      BY <2>2, IdleJob DEF Works, Triggers, Resolves
    <3> QED
      BY <1>1, <1>2, <1>3, <1>4, <1>6, <2>1, <3>1, TriggerEnds
  <2>3. CASE ~Works(t, s)
    <3>1. \A u \in Threads : SameThread(u, s)
      BY <1>1, <1>4, <1>6, <2>3, ThreadKeeps
    <3> QED
      BY <1>2, <1>3, <2>1, <3>1, JitterKeeps, Untouched
  <2> QED
    BY <2>2, <2>3
<1> QED
  BY <1>5, <1>6

LEMMA StartResolveQuiet ==
  ASSUME IInv, Typed', NEW t \in Threads, NEW q \in Seq(Services), q # <<>>,
         StartResolve(t, q, Range(q)),
         NEW s \in Services, s \notin clashed'
  PROVE  Quiet(s)'
<1> USE DEF IInv
<1>1. /\ job[t] = Idle
      /\ active' = Without(Range(q))
      /\ clashed' = ClashOrRestore(Range(q))
      /\ job'[t].op = "resolve" /\ job'[t].todo = q /\ job'[t].writes = Healthy
      /\ \A u \in Threads \ {t} : job'[u] = job[u]
      /\ UNCHANGED <<faulty, jitter, clock>>
  BY DEF StartResolve, Typed, Idle
<1>2. Later
  BY <1>1 DEF Later, Typed
<1>3. ~Works(t, s)
  BY <1>1, IdleJob DEF Works, Triggers, Resolves
<1>4. Works(t, s)' <=> s \in Range(q)
  BY <1>1 DEF Works, Triggers, Resolves
<1>5. CASE s \in Range(q)
  <2>1. ~Busy(s)
    BY <1>1, <1>5 DEF ClashOrRestore
  <2>2. ~JitterWorks(s) /\ \A u \in Threads : ~Works(u, s)
    BY <2>1, BusyMeans
  <2>3. ~JitterWorks(s)' /\ \A u \in Threads \ {t} : ~Works(u, s)'
    BY <1>1, <2>2, JitterKeeps DEF Works, Triggers, Resolves
  <2>4. s \notin DOMAIN active' /\ Resolves(t, s)'
    BY <1>1, <1>5 DEF Without, Resolves
  <2>5. faulty'[s] \subseteq Range(job'[t].writes)
    BY <1>1, HealthyIsAll DEF Typed
  <2> QED
    BY <2>3, <2>4, <2>5, ResolveBegins
<1>6. CASE s \notin Range(q)
  <2>1. Quiet(s)
    BY <1>1, <1>6 DEF ClashOrRestore
  <2>2. SameService(s)
    BY <1>1, <1>6 DEF SameService, Without
  <2>3. \A u \in Threads : SameThread(u, s)
    BY <1>1, <1>3, <1>4, <1>6, ThreadKeeps
  <2> QED
    BY <1>1, <1>2, <2>1, <2>2, <2>3, JitterKeeps, Untouched
<1> QED
  BY <1>5, <1>6

LEMMA SetGaugeQuiet ==
  ASSUME IInv, Typed', NEW t \in Threads, SetGauge(t),
         NEW s \in Services, s \notin clashed'
  PROVE  Quiet(s)'
<1> USE DEF IInv
<1> DEFINE g == job[t].writes[1]
           r == job[t].todo[1]
<1>1. /\ job[t] # Idle
      /\ job'[t].op = job[t].op /\ job'[t].scenario = job[t].scenario
      /\ job'[t].todo = job[t].todo /\ job'[t].writes = Tail(job[t].writes)
      /\ \A u \in Threads \ {t} : job'[u] = job[u]
  BY SetGaugeTyped
<1>2. /\ UNCHANGED <<active, jitter, clock, clashed>>
      /\ job[t].writes # <<>>
      /\ faulty' = [faulty EXCEPT ![r] = IF job[t].op = "trigger" THEN @ \cup {g} ELSE @ \ {g}]
  BY DEF SetGauge
<1>3. Range(job[t].writes) = {g} \cup Range(job'[t].writes)
  BY <1>1, <1>2, JobFacts, FirstAndRest
<1>4. Quiet(s) /\ Later
  BY <1>2 DEF Later, Typed
<1>5. /\ Triggers(t, s)' <=> Triggers(t, s)
      /\ Resolves(t, s)' <=> Resolves(t, s)
      /\ Restores(t, s)' <=> Restores(t, s)
  BY <1>1 DEF Triggers, Resolves, Restores
<1> HIDE DEF g
<1>6. CASE s # r
  <2>1. SameService(s)
    BY <1>2, <1>6 DEF SameService, Typed
  <2>2. SameThread(t, s)
    BY <1>1, <1>5, <1>6 DEF SameThread, Triggers, Restores
  <2>3. \A u \in Threads : SameThread(u, s)
    BY <1>1, <2>2, ThreadKeeps
  <2> QED
    BY <1>2, <1>4, <2>1, <2>3, JitterKeeps, Untouched
<1>7. CASE s = r /\ job[t].op = "trigger"
  <2>1. Triggers(t, s) /\ faulty'[s] = faulty[s] \cup {g}
    BY <1>2, <1>7 DEF Triggers, Typed
  <2>2. ~JitterWorks(s) /\ \A u \in Threads \ {t} : ~Works(u, s)
    BY <1>4, <2>1, OneThread DEF Works
  <2>3. ~JitterWorks(s)' /\ \A u \in Threads \ {t} : ~Works(u, s)'
    BY <1>1, <1>2, <2>2, JitterKeeps DEF Works, Triggers, Resolves
  <2>4. /\ s \in DOMAIN active' /\ active'[s].scenario = job'[t].scenario
        /\ Range(Touches[job'[t].scenario]) \subseteq faulty[s] \cup Range(job[t].writes)
    BY <1>1, <1>2, <1>4, <2>1 DEF Quiet, TriggerOK
  <2>5. Range(Touches[job'[t].scenario]) \subseteq faulty'[s] \cup Range(job'[t].writes)
    BY <1>3, <2>1, <2>4
  <2> QED
    BY <1>5, <2>1, <2>3, <2>4, <2>5, TriggerBegins
<1>8. CASE s = r /\ job[t].op = "resolve"
  <2>1. Restores(t, s) /\ faulty'[s] = faulty[s] \ {g}
    BY <1>2, <1>8 DEF Restores, Typed
  <2>2. Resolves(t, s)
    BY <2>1, RestoresIsWork
  <2>3. ~JitterWorks(s) /\ \A u \in Threads \ {t} : ~Works(u, s)
    BY <1>4, <2>2, OneThread DEF Works
  <2>4. ~JitterWorks(s)' /\ \A u \in Threads \ {t} : ~Works(u, s)'
    BY <1>1, <1>2, <2>3, JitterKeeps DEF Works, Triggers, Resolves
  <2>5. s \notin DOMAIN active' /\ faulty[s] \subseteq Range(job[t].writes)
    BY <1>2, <1>4, <2>1, <2>2 DEF Quiet, ResolveOK, RestoringOK
  <2>6. faulty'[s] \subseteq Range(job'[t].writes)
    BY <1>3, <2>1, <2>5
  <2> QED
    BY <1>5, <2>2, <2>4, <2>5, <2>6, ResolveBegins
<1> QED
  BY <1>1, <1>6, <1>7, <1>8, JobFacts

LEMMA NextServiceQuiet ==
  ASSUME IInv, Typed', NEW t \in Threads, NextService(t),
         NEW s \in Services, s \notin clashed'
  PROVE  Quiet(s)'
<1> USE DEF IInv
<1> DEFINE rest == Tail(job[t].todo)
<1>1. /\ job[t] # Idle /\ job[t].writes = <<>>
      /\ UNCHANGED <<faulty, jitter, clock>>
      /\ job[t].op \in {"trigger", "resolve"}
      /\ job[t].todo \in Seq(Services) /\ job[t].todo # <<>>
  BY JobFacts DEF NextService
<1>2. /\ rest \in Seq(Services)
      /\ Range(job[t].todo) = {job[t].todo[1]} \cup Range(rest)
  BY <1>1, FirstAndRest
<1>3. Later
  BY <1>1 DEF Later, Typed
<1> HIDE DEF rest
<1>4. CASE /\ rest # <<>> /\ job[t].op = "trigger"
           /\ StartService(t, rest, job[t].scenario, job[t].ends_at)
  <2>1. job[t].scenario \in VALID_SCENARIOS /\ job[t].ends_at \in Nat
    BY <1>4, JobFacts DEF Jobs
  <2> QED
    BY <1>1, <1>2, <1>4, <2>1, StartServiceQuiet
<1>5. ASSUME UNCHANGED <<active, clashed>>
      PROVE  Quiet(s) /\ SameService(s)
  BY <1>1, <1>5 DEF SameService
<1>6. CASE /\ job' = [job EXCEPT ![t] = Idle] /\ rest = <<>>
           /\ UNCHANGED <<active, clashed>>
  <2>1. job'[t] = Idle /\ \A u \in Threads \ {t} : job'[u] = job[u]
    BY <1>6 DEF Typed
  <2>2. ~Works(t, s)'
    BY <2>1, IdleJob DEF Works, Triggers, Resolves
  <2>3. CASE ~Works(t, s)
    <3>1. \A u \in Threads : SameThread(u, s)
      BY <2>1, <2>2, <2>3, ThreadKeeps
    <3> QED
      BY <1>1, <1>3, <1>5, <1>6, <3>1, JitterKeeps, Untouched
  <2>4. CASE Triggers(t, s)
    BY <1>1, <1>3, <1>5, <1>6, <2>1, <2>2, <2>4, TriggerEnds
  <2>5. CASE Resolves(t, s)
    <3>1. Restores(t, s)
      BY <1>2, <1>6, <2>5, NothingInRange DEF Resolves, Restores
    <3>2. faulty'[s] = {} /\ s \notin DOMAIN active'
      BY <1>1, <1>5, <1>6, <2>5, <3>1, NothingInRange DEF Quiet, RestoringOK, ResolveOK
    <3>3. ~JitterWorks(s) /\ \A u \in Threads \ {t} : ~Works(u, s)
      BY <1>5, <1>6, <2>5, OneThread DEF Works
    <3>4. ~JitterWorks(s)' /\ \A u \in Threads : ~Works(u, s)'
      BY <1>1, <2>1, <2>2, <3>3, JitterKeeps DEF Works, Triggers, Resolves
    <3> QED
      BY <3>2, <3>4, Rests DEF InForce
  <2> QED
    BY <2>3, <2>4, <2>5 DEF Works
<1>7. CASE /\ rest # <<>> /\ job[t].op = "resolve"
           /\ job' = [job EXCEPT ![t].todo = rest, ![t].writes = Healthy]
           /\ UNCHANGED <<active, clashed>>
  <2>1. /\ job'[t].op = "resolve" /\ job'[t].todo = rest /\ job'[t].writes = Healthy
        /\ \A u \in Threads \ {t} : job'[u] = job[u]
    BY <1>7 DEF Typed, Jobs
  <2>2. Works(t, s)' => Works(t, s)
    BY <1>2, <1>7, <2>1 DEF Works, Triggers, Resolves
  <2>3. CASE ~Works(t, s)
    <3>1. \A u \in Threads : SameThread(u, s)
      BY <2>1, <2>2, <2>3, ThreadKeeps
    <3> QED
      BY <1>1, <1>3, <1>5, <1>7, <3>1, JitterKeeps, Untouched
  <2>4. CASE Works(t, s)
    <3>1. Resolves(t, s) /\ s \notin DOMAIN active'
      BY <1>5, <1>7, <2>4 DEF Works, Triggers, Quiet, ResolveOK
    <3>2. ~JitterWorks(s) /\ \A u \in Threads \ {t} : ~Works(u, s)
      BY <1>5, <1>7, <2>4, OneThread
    <3>3. ~JitterWorks(s)' /\ \A u \in Threads \ {t} : ~Works(u, s)'
      BY <1>1, <2>1, <3>2, JitterKeeps DEF Works, Triggers, Resolves
    <3>4. CASE Resolves(t, s)'
      <4>1. faulty'[s] \subseteq Range(job'[t].writes)
        BY <1>1, <2>1, HealthyIsAll DEF Typed
      <4> QED
        BY <3>1, <3>3, <3>4, <4>1, ResolveBegins
    <3>5. CASE ~Resolves(t, s)'
      <4>1. Restores(t, s)
        BY <1>2, <2>1, <3>1, <3>5 DEF Resolves, Restores
      <4>2. faulty'[s] = {}
        BY <1>1, <1>5, <1>7, <4>1, NothingInRange DEF Quiet, RestoringOK
      <4>3. ~Works(t, s)'
        BY <2>1, <3>5 DEF Works, Triggers
      <4> QED
        BY <3>1, <3>3, <4>2, <4>3, Rests DEF InForce
    <3> QED
      BY <3>4, <3>5
  <2> QED
    BY <2>3, <2>4
<1> QED
  BY <1>4, <1>6, <1>7 DEF NextService, rest

-------------------------------------------------------------------------
\* The jitter task.  Threads do not change while it takes a step.
LEMMA ThreadsKeep ==
  ASSUME Typed, Typed', NEW s, UNCHANGED job
  PROVE  \A t \in Threads : SameThread(t, s) /\ (Works(t, s)' <=> Works(t, s))
<1>1. \A t \in Threads : Works(t, s)' <=> Works(t, s)
  BY DEF Works, Triggers, Resolves
<1> QED
  BY <1>1, ThreadKeeps

LEMMA WakeQuiet ==
  ASSUME IInv, Typed', Wake, NEW s \in Services, s \notin clashed'
  PROVE  Quiet(s)'
<1>1. SameService(s) /\ Later /\ Quiet(s)
  BY DEF Wake, SameService, Later, IInv, Typed
<1>2. SameJitter(s)
  BY DEF Wake, SameJitter, Drifts, RestoresExpired
<1> QED
  BY <1>1, <1>2, ThreadsKeep, Untouched DEF Wake, IInv

LEMMA CheckScenarioQuiet ==
  ASSUME IInv, Typed', CheckScenario, NEW s \in Services, s \notin clashed'
  PROVE  Quiet(s)'
<1> USE DEF IInv
<1>1. /\ at = "check" /\ UNCHANGED <<active, faulty, job, now, expired, clock>>
      /\ SameService(s) /\ Later
  BY DEF CheckScenario, SameService, Later, Typed
<1>2. /\ at' \in {"check", "begin"} /\ UNCHANGED clashed
      \/ /\ at' = "drift" /\ UNCHANGED todo
         /\ ~InForce(todo[1], now) /\ clashed' = Clash({todo[1]})
  BY DEF CheckScenario, Advance
<1>3. Quiet(s)
  BY <1>2 DEF Clash
<1>4. ~RestoresExpired(s)'
  BY <1>2 DEF RestoresExpired
<1>5. CASE ~Drifts(s)'
  <2>1. SameJitter(s)
    BY <1>1, <1>4, <1>5 DEF SameJitter
  <2> QED
    BY <1>1, <1>3, <2>1, ThreadsKeep, Untouched
<1>6. CASE Drifts(s)'
  <2>1. s = todo[1] /\ ~InForce(s, now) /\ clashed' = Clash({todo[1]})
    BY <1>2, <1>6 DEF Drifts
  <2>2. ~Busy(s)
    BY <2>1 DEF Clash
  <2>3. \A t \in Threads : ~Works(t, s)
    BY <2>2, BusyMeans
  <2>4. \A t \in Threads : ~Works(t, s)'
    BY <1>1, <2>3, ThreadsKeep
  <2>5. ~InForce(s, clock)
    BY <2>1 DEF InForce, Typed, Entries
  <2>6. ~InForce(s, clock)' /\ expired' = {}
    BY <1>1, <2>5 DEF InForce, Typed
  <2>7. faulty'[s] # {} => s \in DOMAIN active'
    BY <1>1, <1>3, <2>3 DEF Quiet, FaultsOK, Works
  <2> QED
    BY <1>4, <2>4, <2>6, <2>7, JitterHolds
<1> QED
  BY <1>5, <1>6

LEMMA DriftQuiet ==
  ASSUME IInv, Typed', Drift, NEW s \in Services, s \notin clashed'
  PROVE  Quiet(s)'
<1> USE DEF IInv
<1>1. /\ at = "drift" /\ expired = {}
      /\ UNCHANGED <<active, job, now, expired, clock, clashed>>
      /\ Quiet(s) /\ Later
  BY DEF Drift, Later, Typed
<1>2. \/ /\ at' \in {"check", "begin"} /\ UNCHANGED faulty
      \/ /\ UNCHANGED <<at, todo>>
         /\ faulty' = [faulty EXCEPT ![todo[1]] = @ \ {writes[1]}]
  BY DEF Drift, Advance
<1>3. Drifts(s)' => Drifts(s)
  BY <1>1, <1>2 DEF Drifts
<1>4. SameJitter(s)
  BY <1>1, <1>2, <1>3 DEF SameJitter, RestoresExpired
<1>5. CASE faulty'[s] = faulty[s]
  <2>1. SameService(s)
    BY <1>1, <1>5 DEF SameService
  <2> QED
    BY <1>1, <1>4, <2>1, ThreadsKeep, Untouched
<1>6. CASE faulty'[s] # faulty[s]
  <2>1. /\ todo[1] = s /\ UNCHANGED <<at, todo>>
        /\ faulty'[s] \subseteq faulty[s]
    BY <1>2, <1>6 DEF Typed
  <2>2. JitterWorks(s)
    BY <1>1, <2>1 DEF JitterWorks, Drifts
  <2>3. /\ \A t \in Threads : ~Works(t, s)
        /\ ~InForce(s, clock)
        /\ faulty[s] # {} => s \in DOMAIN active
    BY <1>1, <2>2, OnlyJitter
  <2>4. ~InForce(s, clock)' /\ ~RestoresExpired(s)'
    BY <1>1, <2>1, <2>3 DEF InForce, RestoresExpired
  <2>5. \A t \in Threads : ~Works(t, s)'
    BY <1>1, <2>3, ThreadsKeep
  <2> QED
    BY <1>1, <2>1, <2>3, <2>4, <2>5, JitterHolds
<1> QED
  BY <1>5, <1>6

LEMMA BeginCollectQuiet ==
  ASSUME IInv, Typed', BeginCollect, NEW s \in Services, s \notin clashed'
  PROVE  Quiet(s)'
<1>1. SameService(s) /\ Later /\ Quiet(s)
  BY DEF BeginCollect, SameService, Later, IInv, Typed
<1>2. SameJitter(s)
  BY DEF BeginCollect, SameJitter, Drifts, RestoresExpired
<1> QED
  BY <1>1, <1>2, ThreadsKeep, Untouched DEF BeginCollect, IInv

LEMMA CollectQuiet ==
  ASSUME IInv, Typed', Collect, NEW s \in Services, s \notin clashed'
  PROVE  Quiet(s)'
<1> USE DEF IInv
<1>1. /\ at = "collect"
      /\ UNCHANGED <<active, faulty, job, now, todo, writes, clock>>
      /\ at' \in {"dead", "expire", "collect"}
      /\ SameService(s) /\ Later
  BY DEF Collect, SameService, Later, Typed
<1>2. ~Drifts(s)' /\ ~RestoresExpired(s)'
  BY <1>1 DEF Drifts, RestoresExpired
<1>3. \/ expired' \subseteq expired /\ UNCHANGED clashed
      \/ \E q \in DOMAIN active : /\ Over(q) /\ expired' = expired \cup {q}
                                  /\ clashed' = ClashOrRestore({q})
  BY DEF Collect
<1>4. ASSUME Quiet(s), s \in expired' => s \in expired
      PROVE  Quiet(s)'
  <2>1. SameJitter(s)
    BY <1>2, <1>4 DEF SameJitter
  <2> QED
    BY <1>1, <1>4, <2>1, ThreadsKeep, Untouched
<1>5. CASE expired' \subseteq expired /\ UNCHANGED clashed
  BY <1>4, <1>5
<1>6. ASSUME NEW q \in DOMAIN active, Over(q), expired' = expired \cup {q},
             clashed' = ClashOrRestore({q})
      PROVE  Quiet(s)'
  <2>1. CASE s # q
    BY <1>4, <1>6, <2>1 DEF ClashOrRestore
  <2>2. CASE s = q
    <3>1. ~Busy(s)
      BY <1>6, <2>2 DEF ClashOrRestore
    <3>2. \A t \in Threads : ~Works(t, s)
      BY <3>1, BusyMeans
    <3>3. \A t \in Threads : ~Works(t, s)'
      BY <1>1, <3>2, ThreadsKeep
    <3>4. s \in DOMAIN active' /\ ~InForce(s, clock)'
      BY <1>1, <1>6, <2>2 DEF Over, InForce, Typed, Entries
    <3> QED
      BY <1>2, <3>3, <3>4, JitterHolds
  <2> QED
    BY <2>1, <2>2
<1> QED
  BY <1>3, <1>5, <1>6

LEMMA ExpireQuiet ==
  ASSUME IInv, Typed', Expire, NEW s \in Services, s \notin clashed'
  PROVE  Quiet(s)'
<1> USE DEF IInv
<1>1. /\ UNCHANGED <<active, faulty, job, expired, clock, clashed>>
      /\ at' \in {"asleep", "restore"}
      /\ at' = "restore" => todo'[1] \in expired /\ writes' = Healthy
      /\ SameService(s) /\ Later /\ Quiet(s)
  BY DEF Expire, SameService, Later, Typed
<1>2. ~Drifts(s)'
  BY <1>1 DEF Drifts
<1>3. CASE ~RestoresExpired(s)'
  <2>1. SameJitter(s)
    BY <1>1, <1>2, <1>3 DEF SameJitter
  <2> QED
    BY <1>1, <2>1, ThreadsKeep, Untouched
<1>4. CASE RestoresExpired(s)'
  <2>1. s \in expired /\ writes' = Healthy /\ JitterWorks(s)
    BY <1>1, <1>4 DEF RestoresExpired, JitterWorks
  <2>2. /\ \A t \in Threads : ~Works(t, s)
        /\ ~InForce(s, clock) /\ s \in DOMAIN active
    BY <1>1, <2>1, OnlyJitter
  <2>3. \A t \in Threads : ~Works(t, s)'
    BY <1>1, <2>2, ThreadsKeep
  <2>4. ~InForce(s, clock)' /\ s \in DOMAIN active'
    BY <1>1, <2>2 DEF InForce
  <2>5. faulty'[s] \subseteq Range(writes')
    BY <1>1, <2>1, HealthyIsAll DEF Typed
  <2> QED
    BY <2>3, <2>4, <2>5, JitterHolds
<1> QED
  BY <1>3, <1>4

LEMMA RestoreQuiet ==
  ASSUME IInv, Typed', Restore, NEW s \in Services, s \notin clashed'
  PROVE  Quiet(s)'
<1> USE DEF IInv
<1>1. /\ at = "restore" /\ writes # <<>>
      /\ UNCHANGED <<active, job, at, todo, expired, clock, clashed>>
      /\ faulty' = [faulty EXCEPT ![todo[1]] = @ \ {writes[1]}]
      /\ writes' = Tail(writes)
      /\ Quiet(s) /\ Later
  BY DEF Restore, Later, Typed
<1>2. CASE s # todo[1]
  <2>1. SameService(s)
    BY <1>1, <1>2 DEF SameService, Typed
  <2>2. SameJitter(s)
    BY <1>1, <1>2 DEF SameJitter, Drifts, RestoresExpired
  <2> QED
    BY <1>1, <2>1, <2>2, ThreadsKeep, Untouched
<1>3. CASE s = todo[1]
  <2>1. RestoresExpired(s) /\ JitterWorks(s) /\ s \in expired
    BY <1>1, <1>3 DEF RestoresExpired, JitterWorks, Typed
  <2>2. /\ \A t \in Threads : ~Works(t, s)
        /\ ~InForce(s, clock) /\ s \in DOMAIN active
    BY <1>1, <2>1, OnlyJitter
  <2>3. \A t \in Threads : ~Works(t, s)'
    BY <1>1, <2>2, ThreadsKeep
  <2>4. ~InForce(s, clock)' /\ s \in DOMAIN active'
    BY <1>1, <2>2 DEF InForce
  <2>5. faulty'[s] = faulty[s] \ {writes[1]}
    BY <1>1, <1>3 DEF Typed
  <2>6. faulty[s] \subseteq Range(writes) /\ Range(writes) = {writes[1]} \cup Range(writes')
    BY <1>1, <2>1, FirstAndRest DEF Quiet, RestoringOK, Typed
  <2> QED
    BY <2>3, <2>4, <2>5, <2>6, JitterHolds
<1> QED
  BY <1>2, <1>3

LEMMA DeleteEntryQuiet ==
  ASSUME IInv, Typed', DeleteEntry, NEW s \in Services, s \notin clashed'
  PROVE  Quiet(s)'
<1> USE DEF IInv
<1>1. /\ at = "restore" /\ writes = <<>> /\ at' \in {"expire", "dead"}
      /\ UNCHANGED <<faulty, job, clock, clashed>>
      /\ \/ /\ active' = Without({todo[1]}) /\ expired' = expired \ {todo[1]}
            /\ todo[1] \in DOMAIN active
         \/ /\ UNCHANGED active /\ expired' = {} /\ todo[1] \notin DOMAIN active
      /\ Quiet(s) /\ Later
  BY DEF DeleteEntry, Later, Typed
<1>2. ~Drifts(s)' /\ ~RestoresExpired(s)'
  BY <1>1 DEF Drifts, RestoresExpired
<1>3. SameJitter(s)
  BY <1>1, <1>2 DEF SameJitter
<1>4. CASE SameService(s)
  BY <1>1, <1>3, <1>4, ThreadsKeep, Untouched
<1>5. CASE ~SameService(s)
  <2>1. s = todo[1] /\ active' = Without({s}) /\ expired' = expired \ {s}
    BY <1>1, <1>5 DEF SameService, Without
  <2>2. RestoresExpired(s) /\ JitterWorks(s)
    BY <1>1, <2>1, ExpiredIsWork DEF RestoresExpired
  <2>3. \A t \in Threads : ~Works(t, s)
    BY <1>1, <2>2, OnlyJitter
  <2>4. \A t \in Threads : ~Works(t, s)'
    BY <1>1, <2>3, ThreadsKeep
  <2>5. faulty'[s] = {} /\ s \notin DOMAIN active'
    BY <1>1, <2>1, <2>2, NothingInRange DEF Quiet, RestoringOK, Without
  <2>6. ~JitterWorks(s)'
    BY <1>2, <2>1 DEF JitterWorks
  <2> QED
    BY <2>4, <2>5, <2>6, Rests DEF InForce
<1> QED
  BY <1>4, <1>5

LEMMA TickQuiet ==
  ASSUME IInv, Tick \/ UNCHANGED vars, Typed', NEW s \in Services, s \notin clashed'
  PROVE  Quiet(s)'
<1>1. SameService(s) /\ Later /\ UNCHANGED <<jitter, job, clashed>>
  BY DEF Tick, vars, SameService, Later, IInv, Typed
<1> QED
  BY <1>1, JitterKeeps, ThreadsKeep, Untouched DEF IInv

-------------------------------------------------------------------------
LEMMA InitIInv == Init => IInv
<1> SUFFICES ASSUME Init PROVE IInv
  OBVIOUS
<1>1. Typed
  BY InitTyped
<1>2. \A t \in Threads, s \in Services : ~Triggers(t, s) /\ ~Resolves(t, s) /\ ~Restores(t, s)
  BY IdleJob DEF Init, Triggers, Resolves, Restores
<1>3. \A s \in Services : ~JitterWorks(s) /\ ~RestoresExpired(s) /\ ~InForce(s, clock)
  BY DEF Init, JitterWorks, Drifts, RestoresExpired, InForce
<1>4. \A s \in Services : faulty[s] = {}
  BY DEF Init
<1>5. ASSUME NEW s \in Services
      PROVE  Quiet(s)
  <2>1. Alone(s) /\ FaultsOK(s) /\ ResolveOK(s) /\ ShownOK(s) /\ TriggerOK(s)
    BY <1>2, <1>3, <1>4 DEF Alone, Works, FaultsOK, ResolveOK, ShownOK, TriggerOK
  <2>2. RestoringOK(s) /\ JitterOK(s)
    BY <1>2, <1>3 DEF RestoringOK, JitterOK, JitterWorks
  <2> QED
    BY <2>1, <2>2 DEF Quiet
<1> QED
  BY <1>1, <1>5 DEF IInv

\* The two requests that end scenarios are StartResolve.
LEMMA ResolveRequests ==
  ASSUME NEW t \in Threads, NEW s \in Services, ResolveChaos(t, s) \/ ResolveAll(t)
  PROVE  \E q \in Seq(Services) : q # <<>> /\ StartResolve(t, q, Range(q))
BY OneService, AllServices DEF ResolveChaos, ResolveAll

\* And the two that begin them are StartService.
LEMMA TriggerRequests ==
  ASSUME NEW t \in Threads, NEW s \in Services, NEW sc \in Asked, NEW d \in Durations, Typed,
         TriggerChaos(t, s, sc, d) \/ TriggerAllServices(t, sc, d)
  PROVE  /\ job[t] = Idle /\ sc \in VALID_SCENARIOS /\ clock + d \in Nat
         /\ UNCHANGED <<faulty, jitter, clock>>
         /\ \E q \in Seq(Services) : q # <<>> /\ StartService(t, q, sc, clock + d)
<1>1. clock + d \in Nat
  BY BoundAssumption DEF Typed
<1> QED
  BY <1>1, OneService, AllServices DEF TriggerChaos, TriggerAllServices

LEMMA NextIInv ==
  ASSUME IInv, [Next]_vars
  PROVE  IInv'
<1> USE DEF IInv
<1>1. ASSUME NEW t \in Threads, NEW s \in Services, NEW sc \in Asked, NEW d \in Durations,
             TriggerChaos(t, s, sc, d) \/ TriggerAllServices(t, sc, d)
      PROVE  IInv'
  <2>1. /\ job[t] = Idle /\ sc \in VALID_SCENARIOS /\ clock + d \in Nat
        /\ UNCHANGED <<faulty, jitter, clock>>
    BY <1>1, TriggerRequests
  <2>2. PICK q \in Seq(Services) : q # <<>> /\ StartService(t, q, sc, clock + d)
    BY <1>1, TriggerRequests
  <2>3. Typed'
    BY <2>1, <2>2, StartServiceTyped
  <2> QED
    BY <2>1, <2>2, <2>3, StartServiceQuiet
<1>2. ASSUME NEW t \in Threads, NEW s \in Services, ResolveChaos(t, s) \/ ResolveAll(t)
      PROVE  IInv'
  <2>1. PICK q \in Seq(Services) : q # <<>> /\ StartResolve(t, q, Range(q))
    BY <1>2, ResolveRequests
  <2>2. Typed'
    BY <2>1, StartResolveTyped, RangeInSet
  <2> QED
    BY <2>1, <2>2, StartResolveQuiet
<1>3. ASSUME NEW t \in Threads, SetGauge(t)
      PROVE  IInv'
  BY <1>3, SetGaugeTyped, SetGaugeQuiet
<1>4. ASSUME NEW t \in Threads, NextService(t)
      PROVE  IInv'
  BY <1>4, NextServiceTyped, NextServiceQuiet
<1>5. CASE Jitter
  <2>1. Typed'
    BY <1>5, JitterTyped
  <2> QED
    BY <1>5, <2>1, WakeQuiet, CheckScenarioQuiet, DriftQuiet, BeginCollectQuiet, CollectQuiet,
       ExpireQuiet, RestoreQuiet, DeleteEntryQuiet DEF Jitter
<1>6. CASE Tick \/ UNCHANGED vars
  <2>1. Typed'
    BY <1>6 DEF Tick, vars, jitter, Typed
  <2> QED
    BY <1>6, <2>1, TickQuiet
<1>7. \E s : s \in Services
  BY AllServices, FirstAndRest
<1> QED
  BY <1>1, <1>2, <1>3, <1>4, <1>5, <1>6, <1>7 DEF Next

\* On a service that no two actors worked on at once there is at most one at
\* any time, and what it found when it came stays true until it leaves.
THEOREM SpecIInv == Spec => []IInv
BY InitIInv, NextIInv, PTL DEF Spec

\* The simulator's state stays well formed, and only a task that collects or
\* ends scenarios holds expired services, for any services and requests.
THEOREM TypeCorrect == Spec => []TypeOK
<1>1. ASSUME Typed PROVE TypeOK
  <2>1. \A t \in Threads : JobOK(job[t])
    <3> SUFFICES ASSUME NEW t \in Threads, job[t] # Idle
                 PROVE  JobOK(job[t])
      BY DEF JobOK
    <3>1. job[t].writes \in Seq(Watched)
      BY <1>1, JobFacts, SeqMonotonic DEF KeptGauges
    <3> QED
      BY <1>1, <3>1, JobFacts DEF JobOK
  <2>2. writes \in Seq(Watched)
    BY <1>1, SeqMonotonic DEF Typed, KeptGauges
  <2> QED
    BY <1>1, <2>1, <2>2 DEF Typed, TypeOK, Entries, KeptGauges
<1>2. IInv => TypeOK
  BY <1>1 DEF IInv
<1> QED
  BY <1>2, SpecIInv, PTL

\* No service keeps faulty gauges that nothing would ever restore, unless two
\* actors worked on it at once (_resolve_service, _jitter_loop).
THEOREM FaultsAlwaysHaveAnEnd == Spec => []FaultsHaveAnEnd
<1>1. IInv => FaultsHaveAnEnd
  BY BusyMeans DEF IInv, FaultsHaveAnEnd, Quiet, FaultsOK, Works
<1> QED
  BY <1>1, SpecIInv, PTL

\* The gauges of a service show the scenario that /services lists, and drift
\* never wipes out a fault, unless two actors worked on it at once.
THEOREM ActiveScenarioAlwaysShows == Spec => []ActiveScenarioShows
<1>1. ASSUME IInv PROVE ActiveScenarioShows
  <2> SUFFICES ASSUME NEW s \in Services, InForce(s, clock), ~Busy(s), s \notin clashed
               PROVE  \A k \in DOMAIN Touches[active[s].scenario] :
                        Touches[active[s].scenario][k] \in faulty[s]
    BY DEF ActiveScenarioShows
  <2>1. Range(Touches[active[s].scenario]) \subseteq faulty[s]
    BY <1>1, BusyMeans DEF IInv, Quiet, ShownOK, Works
  <2> QED
    BY <2>1 DEF Range
<1> QED
  BY <1>1, SpecIInv, PTL

\* A scenario whose time is not up is removed by a resolve request only, or
\* where two actors worked on the service at once (del active_scenarios[svc]).
THEOREM NeverEarlyEnd == Spec => NoEarlyEnd
<1> DEFINE Kept(s) == (InForce(s, clock) /\ s \notin DOMAIN active')
                        => s \in clashed \/ Resolving(s)
<1>1. ASSUME IInv, [Next]_vars, NEW s \in Services, InForce(s, clock), s \notin DOMAIN active'
      PROVE  s \in clashed \/ Resolving(s)
  <2>1. s \in DOMAIN active /\ Typed
    BY <1>1 DEF InForce, IInv
  <2>2. ASSUME NEW t \in Threads, NEW q, NEW S, StartResolve(t, q, S), S = Range(q)
        PROVE  Resolving(s)
    <3>1. s \in Range(q)
      BY <1>1, <2>1, <2>2 DEF StartResolve, Without
    <3>2. job'[t].op = "resolve" /\ job'[t].todo = q
      BY <2>1, <2>2 DEF StartResolve, Typed, Idle
    <3> QED
      BY <3>1, <3>2 DEF Resolving, Range
  <2>3. ASSUME NEW t \in Threads, NEW r \in Services, ResolveChaos(t, r) \/ ResolveAll(t)
        PROVE  Resolving(s)
    BY <2>2, <2>3, ResolveRequests
  <2>4. CASE DeleteEntry
    <3>1. s = todo[1] /\ at = "restore"
      BY <1>1, <2>1, <2>4 DEF DeleteEntry, Without
    <3>2. s \in expired
      BY <2>1, <3>1 DEF Typed
    <3> QED
      BY <1>1, <3>2 DEF IInv, Quiet, JitterOK
  <2>5. ASSUME NEW t \in Threads, NEW q, NEW sc, NEW e, StartService(t, q, sc, e)
        PROVE  FALSE
    BY <1>1, <2>1, <2>5 DEF StartService, WithEntry
  <2>6. ASSUME UNCHANGED active
        PROVE  FALSE
    BY <1>1, <2>1, <2>6
  <2>7. ASSUME NEW t \in Threads, NEW r \in Services, NEW sc, NEW d,
               TriggerChaos(t, r, sc, d) \/ TriggerAllServices(t, sc, d)
        PROVE  FALSE
    BY <2>5, <2>7 DEF TriggerChaos, TriggerAllServices
  <2>8. ASSUME NEW t \in Threads, SetGauge(t) \/ NextService(t)
        PROVE  FALSE
    BY <2>5, <2>6, <2>8 DEF SetGauge, NextService
  <2>9. ASSUME \/ Wake \/ CheckScenario \/ Drift \/ BeginCollect \/ Collect \/ Expire
               \/ Restore \/ Tick \/ UNCHANGED vars
        PROVE  FALSE
    BY <2>6, <2>9 DEF Wake, CheckScenario, Drift, BeginCollect, Collect, Expire, Restore,
                      Tick, vars
  <2> QED
    BY <1>1, <2>3, <2>4, <2>7, <2>8, <2>9 DEF Next, Jitter
<1>2. IInv /\ [Next]_vars => [\A s \in Services : Kept(s)]_vars
  BY <1>1
<1> QED
  BY <1>2, SpecIInv, PTL DEF Spec, NoEarlyEnd

=========================================================================
