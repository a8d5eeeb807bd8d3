---------------------- MODULE AlertDelivery_proofs ----------------------
(***************************************************************************)
(* The proof that an alert which can get through is not missed for longer  *)
(* than one TTL and one repeat_interval, for any alerts, groups, intervals *)
(* and failures.                                                           *)
(*                                                                         *)
(* Two clocks bound the count of missed: the Redis key, which is not       *)
(* renewed by a duplicate, and the age of the group's last notification.   *)
(* The key bounds it by the TTL whenever a request takes the alert for a   *)
(* duplicate; from then on it grows with the age, until the group repeats  *)
(* its notification.  The invariant says so for every moment in between.   *)
(***************************************************************************)
EXTENDS AlertDelivery, TLAPS, FiniteSetTheorems

\* The alerts of the rows a session has added.
Named(rows) == {row[1] : row \in rows}

\* The session of a's group has a row for a that is not committed.
Pending(a) == a \in Named(request[Group[a]].rows)

GroupBatch(g) == {a \in firing : Group[a] = g}

Stages == {"none", "working", "answered"}

Requests == [stage : Stages, batch : SUBSET Alerts, todo : SUBSET Alerts,
             rows : SUBSET (Alerts \X Incidents), new : SUBSET Incidents]

DeliveryTypeOK ==
  /\ firing \subseteq Alerts
  /\ due \subseteq Groups
  /\ notified \in [Groups -> SUBSET Alerts]
  /\ age \in [Groups -> 0..(RepeatInterval + 1)]
  /\ request \in [Groups -> Requests]
  /\ key \in [Alerts -> 0..(Ttl + 1)]
  /\ status \in [Incidents -> {"absent", "open", "resolved"}]
  /\ links \subseteq Alerts \X Incidents
  /\ window \in BOOLEAN /\ credential \in BOOLEAN
  /\ failures \in Nat /\ reopens \in Nat
  /\ missed \in [Alerts -> Nat]

\* A request carries what fires in its group, and its rows are of alerts it
\* has handled.  It is answered when all are, and its group's log is new then.
RequestOK ==
  \A g \in Groups :
    \/ request[g] = NoRequest
    \/ /\ request[g].stage \in {"working", "answered"}
       /\ g \notin due
       /\ request[g].batch = GroupBatch(g)
       /\ request[g].todo \subseteq request[g].batch
       /\ Named(request[g].rows) \subseteq request[g].batch \ request[g].todo
       /\ request[g].stage = "answered" => request[g].todo = {} /\ age[g] <= RepeatInterval

\* Nobody is missed while the service is blocked.
BlockedOK == Blocked => \A a \in Alerts : missed[a] = 0

\* A key was set when the count was zero, and both run at the same speed.
KeyOK == \A a \in Alerts :
  key[a] > 0 /\ ~Pending(a) => key[a] + missed[a] <= Ttl + 1

\* An alert that a request handled without storing it had a key.
HandledOK == \A g \in Groups : \A a \in request[g].batch \ request[g].todo :
  Pending(a) \/ missed[a] <= Ttl

\* Since the group's last notification the count has grown with its age.
AgeOK == \A a \in firing : ~Pending(a) => missed[a] <= Ttl + age[Group[a]]

\* A group that has decided what to do in this unit of time has notified
\* of its firing alerts or is not to repeat it yet.
SettledOK == \A a \in firing :
  Group[a] \notin due /\ request[Group[a]] = NoRequest
    => missed[a] = 0 \/ age[Group[a]] <= RepeatInterval

BoundOK == \A a \in Alerts : missed[a] <= Ttl + RepeatInterval + 1

IInv ==
  /\ DeliveryTypeOK
  /\ RequestOK
  /\ BlockedOK
  /\ KeyOK
  /\ HandledOK
  /\ AgeOK
  /\ SettledOK
  /\ BoundOK

-------------------------------------------------------------------------
\* The operators of the model.
LEMMA MinOfTwo ==
  ASSUME NEW m \in Nat, NEW n \in Nat
  PROVE  /\ Min({m, n}) \in Nat
         /\ Min({m, n}) <= m /\ Min({m, n}) <= n
         /\ Min({m, n}) = m \/ Min({m, n}) = n
<1>1. \E x \in {m, n} : \A y \in {m, n} : x <= y
  <2>1. CASE m <= n
    BY <2>1
  <2>2. CASE n <= m
    BY <2>2
  <2> QED
    BY <2>1, <2>2
<1>2. Min({m, n}) \in {m, n} /\ \A y \in {m, n} : Min({m, n}) <= y
  BY <1>1 DEF Min
<1> QED
  BY <1>2

LEMMA NamedOfRows ==
  /\ Named({}) = {}
  /\ \A R, S : Named(R \cup S) = Named(R) \cup Named(S)
  /\ \A a, i : Named({<<a, i>>}) = {a}
BY DEF Named

\* What Recount leaves of the counts.
LEMMA RecountKeeps ==
  ASSUME DeliveryTypeOK, NEW A, Recount(A)
  PROVE  /\ missed' \in [Alerts -> Nat]
         /\ \A a \in Alerts : missed'[a] = 0 \/ missed'[a] = missed[a]
         /\ \A a \in Alerts : missed'[a] <= missed[a]
         /\ \A a \in Alerts \cap A : missed'[a] = 0
         /\ Blocked' => \A a \in Alerts : missed'[a] = 0
<1> DEFINE Zero(a) == a \in A \/ Tracked(a)' \/ Blocked'
<1>1. missed' = [a \in Alerts |-> IF Zero(a) THEN 0 ELSE missed[a]]
  BY DEF Recount
<1>2. \A a \in Alerts : missed[a] \in Nat
  BY DEF DeliveryTypeOK
<1>3. \A a \in A : Zero(a)
  OBVIOUS
<1>4. Blocked' => \A a : Zero(a)
  OBVIOUS
<1> HIDE DEF Zero
<1> QED
  BY <1>1, <1>2, <1>3, <1>4

\* Only an incident that opens can block the service.
LEMMA FewerOpen ==
  ASSUME DeliveryTypeOK, UNCHANGED <<window, credential>>, Open' \subseteq Open, Blocked'
  PROVE  Blocked
<1>1. IsFiniteSet(Incidents)
  BY BoundsAssumption, FS_Interval DEF Incidents
<1>2. IsFiniteSet(Open)
  BY <1>1, FS_Subset DEF Open
<1>3. /\ IsFiniteSet(Open')
      /\ Cardinality(Open') <= Cardinality(Open)
      /\ Cardinality(Open) \in Nat /\ Cardinality(Open') \in Nat
  BY <1>2, FS_Subset, FS_CardinalityType
<1>4. window' = window /\ credential' = credential
  OBVIOUS
<1>5. window' \/ ~credential' \/ Cardinality(Open') > 1
  BY DEF Blocked, UnderMaintenance, Unauthorized, Ambiguous
<1>6. Cardinality(Open') > 1 => Cardinality(Open) > 1
  BY <1>3
<1> QED
  BY <1>4, <1>5, <1>6 DEF Blocked, UnderMaintenance, Unauthorized, Ambiguous

-------------------------------------------------------------------------
LEMMA InitIInv == Init => IInv
<1> SUFFICES ASSUME Init PROVE IInv
  OBVIOUS
<1> USE BoundsAssumption, GroupAssumption
<1>1. NoRequest \in Requests
  BY DEF NoRequest, Requests, Stages
<1>2. DeliveryTypeOK
  <2>1. 0 \in 0..(RepeatInterval + 1) /\ 0 \in 0..(Ttl + 1)
    OBVIOUS
  <2>2. window \in BOOLEAN /\ credential \in BOOLEAN
    BY DEF Init
  <2> QED
    BY <1>1, <2>1, <2>2 DEF Init, DeliveryTypeOK
<1>3. \A a \in Alerts : missed[a] = 0 /\ key[a] = 0
  BY DEF Init
<1>4. RequestOK
  BY DEF Init, RequestOK
<1>5. HandledOK
  BY DEF Init, HandledOK, NoRequest
<1> QED
  BY <1>2, <1>3, <1>4, <1>5
     DEF IInv, Init, BlockedOK, KeyOK, AgeOK, SettledOK, BoundOK

-------------------------------------------------------------------------
\* Steps that leave firing alerts, groups and requests as they are, and only
\* lower counts or let keys expire.
LEMMA CountsDrop ==
  ASSUME IInv, DeliveryTypeOK', BlockedOK', UNCHANGED <<firing, due, age, request>>,
         \A a \in Alerts : missed'[a] <= missed[a],
         \A a \in Alerts : key'[a] = key[a] \/ key'[a] = 0
  PROVE  IInv'
<1> USE BoundsAssumption, GroupAssumption
<1>1. /\ \A a \in Alerts : /\ missed[a] \in Nat /\ missed'[a] \in Nat
                           /\ key[a] \in Nat
      /\ \A g \in Groups : age[g] \in Nat
      /\ firing \subseteq Alerts
      /\ \A g \in Groups : request[g].batch \subseteq Alerts
  BY DEF IInv, DeliveryTypeOK, Requests
<1>2. \A a : Pending(a)' = Pending(a)
  BY DEF Pending
<1>3. RequestOK'
  BY DEF IInv, RequestOK, GroupBatch
<1>4. KeyOK'
  BY <1>1, <1>2 DEF IInv, KeyOK
<1>5. HandledOK'
  BY <1>1, <1>2 DEF IInv, HandledOK
<1>6. AgeOK'
  BY <1>1, <1>2 DEF IInv, AgeOK
<1>7. SettledOK'
  BY <1>1, <1>2 DEF IInv, SettledOK
<1>8. BoundOK'
  BY <1>1 DEF IInv, BoundOK
<1> QED
  BY <1>3, <1>4, <1>5, <1>6, <1>7, <1>8 DEF IInv

LEMMA ExpireKeyKeeps ==
  ASSUME IInv, NEW a \in Alerts, ExpireKey(a)
  PROVE  IInv'
<1>1. key' = [key EXCEPT ![a] = 0] /\ UNCHANGED <<firing, due, age, request, missed>>
  BY DEF ExpireKey, environment
<1>2. DeliveryTypeOK'
  <2>1. key' \in [Alerts -> 0..(Ttl + 1)]
    BY <1>1, BoundsAssumption DEF IInv, DeliveryTypeOK
  <2> QED
    BY <1>1, <2>1 DEF ExpireKey, environment, IInv, DeliveryTypeOK
<1>3. BlockedOK'
  BY DEF ExpireKey, environment, IInv, BlockedOK, Blocked, UnderMaintenance,
         Unauthorized, Ambiguous, Open
<1>4. \A b \in Alerts : /\ missed'[b] <= missed[b]
                        /\ key'[b] = key[b] \/ key'[b] = 0
  BY <1>1 DEF IInv, DeliveryTypeOK
<1> QED
  BY <1>1, <1>2, <1>3, <1>4, CountsDrop

LEMMA ResolveKeeps ==
  ASSUME IInv, NEW i \in Incidents, Resolve(i)
  PROVE  IInv'
<1>1. /\ status' = [status EXCEPT ![i] = "resolved"]
      /\ UNCHANGED <<firing, due, age, request, key, missed, window, credential>>
  BY DEF Resolve, environment
<1>2. DeliveryTypeOK'
  BY <1>1 DEF Resolve, environment, IInv, DeliveryTypeOK
<1>3. BlockedOK'
  <2>1. Open' \subseteq Open
    BY <1>1 DEF Open, IInv, DeliveryTypeOK
  <2>2. Blocked' => Blocked
    BY <1>1, <2>1, FewerOpen DEF IInv
  <2> QED
    BY <1>1, <2>2 DEF IInv, BlockedOK
<1>4. \A b \in Alerts : missed'[b] <= missed[b] /\ key'[b] = key[b]
  BY <1>1 DEF IInv, DeliveryTypeOK
<1> QED
  BY <1>1, <1>2, <1>3, <1>4, CountsDrop

LEMMA ReopenKeeps ==
  ASSUME IInv, NEW i \in Incidents, Reopen(i)
  PROVE  IInv'
<1>1. /\ status' = [status EXCEPT ![i] = "open"]
      /\ reopens' = reopens + 1
      /\ UNCHANGED <<environment, due, notified, age, request, key, links, failures>>
      /\ Recount({})
  BY DEF Reopen
<1>2. /\ missed' \in [Alerts -> Nat]
      /\ \A b \in Alerts : missed'[b] <= missed[b]
      /\ BlockedOK'
  BY <1>1, RecountKeeps DEF IInv, BlockedOK
<1>3. DeliveryTypeOK'
  BY <1>1, <1>2 DEF environment, IInv, DeliveryTypeOK
<1> QED
  BY <1>1, <1>2, <1>3, CountsDrop DEF environment

LEMMA ChangeEnvironmentKeeps ==
  ASSUME IInv, ChangeEnvironment
  PROVE  IInv'
<1>1. /\ UNCHANGED <<firing, due, notified, age, request, key, status, links, failures, reopens>>
      /\ Recount({})
      /\ window' = window \/ window' = ~window
      /\ credential' = credential \/ credential' = ~credential
  BY DEF ChangeEnvironment
<1>2. /\ missed' \in [Alerts -> Nat]
      /\ \A b \in Alerts : missed'[b] <= missed[b]
      /\ BlockedOK'
  BY <1>1, RecountKeeps DEF IInv, BlockedOK
<1>3. window' \in BOOLEAN /\ credential' \in BOOLEAN
  BY <1>1 DEF IInv, DeliveryTypeOK
<1>4. DeliveryTypeOK'
  BY <1>1, <1>2, <1>3 DEF IInv, DeliveryTypeOK
<1> QED
  BY <1>1, <1>2, <1>4, CountsDrop

LEMMA TickKeeps ==
  ASSUME IInv, Tick
  PROVE  IInv'
<1> USE BoundsAssumption, GroupAssumption
<1>1. /\ due = {} /\ due' = Groups
      /\ firing \subseteq Alerts /\ firing' \subseteq Alerts
      /\ UNCHANGED <<notified, request, status, links, window, credential, failures, reopens>>
      /\ \A g \in Groups : request'[g] = NoRequest /\ request[g] = NoRequest
  BY DEF Tick, IInv, DeliveryTypeOK
<1>2. \A a \in Alerts : Group[a] \in Groups /\ ~Pending(a)
  BY <1>1, NamedOfRows DEF Pending, NoRequest
<1>3. /\ age' \in [Groups -> 0..(RepeatInterval + 1)]
      /\ \A g \in Groups : /\ age[g] \in Nat /\ age'[g] \in Nat
                           /\ age[g] <= RepeatInterval => age'[g] = age[g] + 1
  <2>1. \A g \in Groups : age[g] \in 0..(RepeatInterval + 1)
    BY DEF IInv, DeliveryTypeOK
  <2>2. \A g \in Groups :
          /\ Min({age[g] + 1, RepeatInterval + 1}) \in 0..(RepeatInterval + 1)
          /\ age[g] <= RepeatInterval => Min({age[g] + 1, RepeatInterval + 1}) = age[g] + 1
    BY <2>1, MinOfTwo
  <2>3. age' = [g \in Groups |-> Min({age[g] + 1, RepeatInterval + 1})]
    BY DEF Tick
  <2> QED
    BY <2>1, <2>2, <2>3
<1>4. /\ key' \in [Alerts -> 0..(Ttl + 1)]
      /\ \A a \in Alerts : /\ key[a] \in Nat /\ key'[a] \in Nat
                           /\ key'[a] > 0 => key[a] = key'[a] + 1
  <2>1. \A a \in Alerts : key[a] \in 0..(Ttl + 1)
    BY DEF IInv, DeliveryTypeOK
  <2>2. key' = [a \in Alerts |-> IF key[a] = 0 THEN 0 ELSE key[a] - 1]
    BY DEF Tick, RemainingKey
  <2> QED
    BY <2>1, <2>2
<1>5. \A a \in Alerts : /\ missed'[a] \in Nat /\ missed[a] \in Nat
                        /\ missed'[a] <= missed[a] + 1
                        /\ a \notin firing \/ Blocked => missed'[a] = 0
  <2>1. \A a \in Alerts : missed[a] \in Nat
    BY DEF IInv, DeliveryTypeOK
  <2>2. \A a \in Alerts : /\ Min({missed[a] + 1, MaxMissed}) \in Nat
                          /\ Min({missed[a] + 1, MaxMissed}) <= missed[a] + 1
    BY <2>1, MinOfTwo DEF MaxMissed
  <2>3. missed' = [a \in Alerts |-> IF a \in firing /\ ~Tracked(a) /\ ~Blocked
                                    THEN Min({missed[a] + 1, MaxMissed}) ELSE 0]
    BY DEF Tick
  <2> QED
    BY <2>1, <2>2, <2>3
<1>6. missed' \in [Alerts -> Nat]
  <2>1. missed' = [a \in Alerts |-> missed'[a]]
    BY DEF Tick
  <2> QED
    BY <1>5, <2>1
<1>7. DeliveryTypeOK'
  BY <1>1, <1>3, <1>4, <1>6 DEF IInv, DeliveryTypeOK
<1>8. \A a : Pending(a)' = Pending(a)
  BY <1>1 DEF Pending
<1>9. RequestOK'
  BY <1>1 DEF RequestOK
<1>10. BlockedOK'
  <2>1. Blocked' = Blocked
    BY <1>1 DEF Blocked, UnderMaintenance,
         Unauthorized, Ambiguous, Open
  <2> QED
    BY <1>5, <2>1 DEF BlockedOK
<1>11. KeyOK'
  BY <1>2, <1>4, <1>5, <1>8 DEF IInv, KeyOK
<1>12. HandledOK'
  BY <1>1 DEF HandledOK, NoRequest
<1>13. \A a \in firing : /\ missed[a] <= Ttl + age[Group[a]]
                         /\ missed[a] = 0 \/ age[Group[a]] <= RepeatInterval
  BY <1>1, <1>2 DEF IInv, AgeOK, SettledOK
<1>14. AgeOK'
  <2> SUFFICES ASSUME NEW a \in firing', missed'[a] # 0
               PROVE  missed'[a] <= Ttl + age'[Group[a]]
    BY <1>1, <1>2, <1>3 DEF AgeOK
  <2>1. a \in firing /\ a \in Alerts
    BY <1>1, <1>5
  <2>2. CASE missed[a] = 0
    BY <1>2, <1>3, <1>5, <2>1, <2>2
  <2>3. CASE age[Group[a]] <= RepeatInterval
    BY <1>2, <1>3, <1>5, <1>13, <2>1, <2>3
  <2> QED
    BY <1>13, <2>1, <2>2, <2>3
<1>15. SettledOK'
  BY <1>1, <1>2 DEF SettledOK
<1>16. BoundOK'
  <2> SUFFICES ASSUME NEW a \in Alerts, missed'[a] # 0
               PROVE  missed'[a] <= Ttl + RepeatInterval + 1
    BY DEF BoundOK
  <2>1. a \in firing
    BY <1>5
  <2> QED
    BY <1>2, <1>3, <1>5, <1>13, <2>1
<1> QED
  BY <1>7, <1>9, <1>10, <1>11, <1>12, <1>14, <1>15, <1>16 DEF IInv

\* A timer goes off while no request of the group is out.
LEMMA FlushKeeps ==
  ASSUME IInv, NEW g \in Groups, Flush(g)
  PROVE  IInv'
<1> USE BoundsAssumption, GroupAssumption
<1>1. /\ g \in due /\ due' = due \ {g}
      /\ UNCHANGED <<firing, window, credential, key, status, links, failures, reopens, missed>>
      /\ request[g] = NoRequest
      /\ Blocked' = Blocked
  BY DEF Flush, environment, IInv, RequestOK, Blocked, UnderMaintenance,
         Unauthorized, Ambiguous, Open
<1>2. /\ \A a \in Alerts : Group[a] \in Groups
      /\ firing \subseteq Alerts
      /\ \A h \in Groups : age[h] \in Nat
      /\ \A a \in Alerts : missed[a] \in Nat
  BY DEF IInv, DeliveryTypeOK
<1>3. BlockedOK' /\ BoundOK'
  BY <1>1 DEF IInv, BlockedOK, BoundOK
<1>4. CASE /\ UNCHANGED <<notified, age>>
           /\ request' = [request EXCEPT ![g] =
                [stage |-> "working", batch |-> GroupBatch(g), todo |-> GroupBatch(g),
                 rows |-> {}, new |-> {}]]
  <2>1. GroupBatch(g) \subseteq Alerts
    BY <1>2 DEF GroupBatch
  <2>2. [stage |-> "working", batch |-> GroupBatch(g), todo |-> GroupBatch(g),
         rows |-> {}, new |-> {}] \in Requests
    BY <2>1 DEF Requests, Stages
  <2>3. DeliveryTypeOK'
    BY <1>1, <1>4, <2>2 DEF IInv, DeliveryTypeOK
  <2>4. /\ request'[g].stage = "working" /\ request'[g].rows = {}
        /\ request'[g].batch = GroupBatch(g) /\ request'[g].todo = GroupBatch(g)
        /\ \A h \in Groups \ {g} : request'[h] = request[h]
    BY <1>4 DEF IInv, DeliveryTypeOK
  <2>5. \A a \in Alerts : Pending(a)' = Pending(a)
    BY <1>1, <1>2, <2>4, NamedOfRows DEF Pending, NoRequest
  <2>6. RequestOK'
    <3> SUFFICES ASSUME NEW h \in Groups
                 PROVE  RequestOK!(h)'
      BY DEF RequestOK
    <3>1. CASE h = g
      BY <1>1, <2>4, <3>1, NamedOfRows DEF GroupBatch
    <3>2. CASE h # g
      BY <1>1, <1>4, <2>4, <3>2 DEF IInv, RequestOK, GroupBatch
    <3> QED
      BY <3>1, <3>2
  <2>7. KeyOK' /\ AgeOK'
    BY <1>1, <1>2, <1>4, <2>5 DEF IInv, KeyOK, AgeOK
  <2>8. HandledOK'
    BY <1>1, <1>2, <2>3, <2>4, <2>5 DEF IInv, HandledOK, DeliveryTypeOK, Requests
  <2>9. SettledOK'
    BY <1>1, <1>2, <1>4, <2>4 DEF IInv, SettledOK, NoRequest
  <2> QED
    BY <1>3, <2>3, <2>6, <2>7, <2>8, <2>9 DEF IInv
<1>5. CASE /\ UNCHANGED <<request, notified, age>>
           /\ ~credential \/ age[g] <= RepeatInterval
  <2>1. DeliveryTypeOK'
    BY <1>1, <1>5 DEF IInv, DeliveryTypeOK
  <2>2. \A a : Pending(a)' = Pending(a)
    BY <1>5 DEF Pending
  <2>3. RequestOK'
    BY <1>1, <1>5 DEF IInv, RequestOK, GroupBatch
  <2>4. KeyOK' /\ AgeOK' /\ HandledOK'
    BY <1>1, <1>5, <2>2 DEF IInv, KeyOK, AgeOK, HandledOK
  <2>5. ~credential => \A a \in Alerts : missed[a] = 0
    BY DEF IInv, BlockedOK, Blocked, UnderMaintenance, Unauthorized, Ambiguous
  <2>6. SettledOK'
    BY <1>1, <1>2, <1>5, <2>5 DEF IInv, SettledOK
  <2> QED
    BY <1>3, <2>1, <2>3, <2>4, <2>6 DEF IInv
<1>6. CASE /\ GroupBatch(g) = {}
           /\ notified' = [notified EXCEPT ![g] = {}]
           /\ age' = [age EXCEPT ![g] = 0]
           /\ UNCHANGED request
  <2>1. DeliveryTypeOK'
    BY <1>1, <1>6 DEF IInv, DeliveryTypeOK
  <2>2. \A a : Pending(a)' = Pending(a)
    BY <1>6 DEF Pending
  <2>3. /\ \A a \in firing : Group[a] # g
        /\ \A h \in Groups \ {g} : age'[h] = age[h]
    BY <1>6 DEF GroupBatch, IInv, DeliveryTypeOK
  <2>4. RequestOK'
    <3> SUFFICES ASSUME NEW h \in Groups
                 PROVE  RequestOK!(h)'
      BY DEF RequestOK
    <3>1. CASE h = g
      BY <1>1, <1>6, <3>1
    <3>2. CASE h # g
      BY <1>1, <1>6, <2>3, <3>2 DEF IInv, RequestOK, GroupBatch
    <3> QED
      BY <3>1, <3>2
  <2>5. KeyOK' /\ HandledOK'
    BY <1>1, <1>6, <2>2 DEF IInv, KeyOK, HandledOK
  <2>6. AgeOK' /\ SettledOK'
    BY <1>1, <1>2, <1>6, <2>2, <2>3 DEF IInv, AgeOK, SettledOK
  <2> QED
    BY <1>3, <2>1, <2>4, <2>5, <2>6 DEF IInv
<1> QED
  BY <1>4, <1>5, <1>6 DEF Flush, GroupBatch

\* A request handles a0: it had a key, or was suppressed, or got a row.
LEMMA AddKeeps ==
  ASSUME IInv, NEW g \in Groups, NEW a0 \in request[g].todo,
         NEW rows \in SUBSET ({a0} \X Incidents), NEW new \in SUBSET Incidents,
         Add(g, a0, rows, new),
         \/ key[a0] > 0 /\ rows = {} /\ UNCHANGED key
         \/ /\ key' = [key EXCEPT ![a0] = Ttl + 1]
            /\ window \/ a0 \in Named(rows),
         UNCHANGED <<environment, due, notified, age, status, links, failures, reopens, missed>>
  PROVE  IInv'
<1> USE BoundsAssumption, GroupAssumption
<1>1. /\ UNCHANGED <<firing, window, credential, due, notified, age, status, links, failures,
                     reopens, missed>>
      /\ Blocked' = Blocked
  BY DEF environment, Blocked, UnderMaintenance,
         Unauthorized, Ambiguous, Open
<1>2. /\ \A a \in Alerts : Group[a] \in Groups
      /\ firing \subseteq Alerts
      /\ \A h \in Groups : age[h] \in Nat
      /\ \A a \in Alerts : missed[a] \in Nat /\ key[a] \in Nat
      /\ request \in [Groups -> Requests]
  BY DEF IInv, DeliveryTypeOK
<1>3. /\ request[g] # NoRequest
      /\ request[g].stage = "working"
      /\ g \notin due
      /\ request[g].batch = GroupBatch(g)
      /\ request[g].todo \subseteq request[g].batch
      /\ Named(request[g].rows) \subseteq request[g].batch \ request[g].todo
      /\ a0 \in Alerts /\ Group[a0] = g
  <2>1. request[g] # NoRequest
    BY DEF NoRequest
  <2> QED
    BY <1>2, <2>1 DEF IInv, RequestOK, GroupBatch
<1>4. /\ request' \in [Groups -> Requests]
      /\ request'[g].stage = "working"
      /\ request'[g].batch = request[g].batch
      /\ request'[g].todo = request[g].todo \ {a0}
      /\ request'[g].rows = request[g].rows \cup rows
      /\ \A h \in Groups \ {g} : request'[h] = request[h]
  <2> DEFINE q == [request[g] EXCEPT !.todo = @ \ {a0}, !.rows = @ \cup rows,
                                     !.new = @ \cup new]
  <2>1. /\ q \in Requests
        /\ q.stage = request[g].stage /\ q.batch = request[g].batch
        /\ q.todo = request[g].todo \ {a0} /\ q.rows = request[g].rows \cup rows
    <3>1. request[g] \in Requests
      BY <1>2
    <3>2. rows \subseteq Alerts \X Incidents
      BY <1>3
    <3> QED
      BY <3>1, <3>2 DEF Requests
  <2>2. request' = [request EXCEPT ![g] = q]
    BY <1>2 DEF Add, Requests
  <2> HIDE DEF q
  <2> QED
    BY <1>2, <1>3, <2>1, <2>2
<1>5. Named(rows) \subseteq {a0}
  BY DEF Named
<1>6. Named(request'[g].rows) = Named(request[g].rows) \cup Named(rows)
  BY <1>4, NamedOfRows
<1>7. /\ \A a \in Alerts : a # a0 => (Pending(a)' <=> Pending(a))
      /\ ~Pending(a0)
      /\ Pending(a0)' <=> a0 \in Named(rows)
  <2>1. \A a \in Alerts : Group[a] # g => (Pending(a)' <=> Pending(a))
    BY <1>1, <1>2, <1>4 DEF Pending
  <2>2. \A a \in Alerts : Group[a] = g =>
          (Pending(a)' <=> a \in Named(request[g].rows) \/ a \in Named(rows))
    BY <1>6 DEF Pending
  <2>3. \A a \in Alerts : Group[a] = g => (Pending(a) <=> a \in Named(request[g].rows))
    BY DEF Pending
  <2>4. a0 \notin Named(request[g].rows)
    BY <1>3
  <2> QED
    BY <1>3, <1>5, <2>1, <2>2, <2>3, <2>4
<1>8. /\ key' \in [Alerts -> 0..(Ttl + 1)]
      /\ \A a \in Alerts : a # a0 => key'[a] = key[a]
      /\ key'[a0] <= Ttl + 1
  BY <1>3 DEF IInv, DeliveryTypeOK
<1>9. DeliveryTypeOK'
  BY <1>1, <1>4, <1>8 DEF IInv, DeliveryTypeOK
<1>10. Pending(a0)' \/ (missed[a0] <= Ttl /\ key'[a0] + missed[a0] <= Ttl + 1)
  <2>1. CASE key[a0] > 0 /\ key' = key
    BY <1>2, <1>3, <1>7, <2>1 DEF IInv, KeyOK
  <2>2. CASE window
    <3>1. missed[a0] = 0
      BY <1>3, <2>2 DEF IInv, BlockedOK, Blocked, UnderMaintenance, Unauthorized, Ambiguous
    <3> QED
      BY <1>8, <1>9, <3>1, <1>3 DEF DeliveryTypeOK
  <2>3. CASE a0 \in Named(rows)
    BY <1>7, <2>3
  <2> QED
    BY <2>1, <2>2, <2>3
<1>11. RequestOK'
  <2> SUFFICES ASSUME NEW h \in Groups
               PROVE  RequestOK!(h)'
    BY DEF RequestOK
  <2>1. CASE h = g
    <3>1. GroupBatch(g)' = GroupBatch(g)
      BY <1>1 DEF GroupBatch
    <3>2. Named(request'[g].rows) \subseteq request'[g].batch \ request'[g].todo
      BY <1>3, <1>4, <1>5, <1>6
    <3> QED
      BY <1>1, <1>3, <1>4, <2>1, <3>1, <3>2
  <2>2. CASE h # g
    BY <1>1, <1>4, <2>2 DEF IInv, RequestOK, GroupBatch
  <2> QED
    BY <2>1, <2>2
<1>12. BlockedOK' /\ BoundOK'
  BY <1>1 DEF IInv, BlockedOK, BoundOK
<1>13. KeyOK'
  BY <1>1, <1>2, <1>7, <1>8, <1>10 DEF IInv, KeyOK
<1>14. HandledOK'
  <2> SUFFICES ASSUME NEW h \in Groups, NEW a \in request'[h].batch \ request'[h].todo
               PROVE  Pending(a)' \/ missed[a] <= Ttl
    BY <1>1 DEF HandledOK
  <2>1. a \in Alerts
    BY <1>4 DEF Requests
  <2>2. CASE a = a0
    BY <1>10, <2>2
  <2>3. CASE a # a0
    BY <1>4, <1>7, <2>1, <2>3 DEF IInv, HandledOK
  <2> QED
    BY <2>2, <2>3
<1>15. AgeOK'
  BY <1>1, <1>2, <1>3, <1>7, <1>10 DEF IInv, AgeOK
<1>16. SettledOK'
  BY <1>1, <1>2, <1>4 DEF IInv, SettledOK, NoRequest
<1> QED
  BY <1>9, <1>11, <1>12, <1>13, <1>14, <1>15, <1>16 DEF IInv

LEMMA IngestKeeps ==
  ASSUME IInv, NEW g \in Groups, NEW a \in Alerts, Ingest(g, a)
  PROVE  IInv'
<1>1. /\ a \in request[g].todo
      /\ UNCHANGED <<environment, due, notified, age, status, links, failures, reopens, missed>>
  BY DEF Ingest
<1>2. CASE key[a] > 0 /\ Add(g, a, {}, {}) /\ UNCHANGED key
  BY <1>1, <1>2, AddKeeps
<1>3. ASSUME key' = [key EXCEPT ![a] = Ttl + 1], window, Add(g, a, {}, {})
      PROVE  IInv'
  <2>1. {} \in SUBSET ({a} \X Incidents) /\ {} \in SUBSET Incidents
    OBVIOUS
  <2> QED
    BY <1>1, <1>3, <2>1, AddKeeps
<1>4. ASSUME key' = [key EXCEPT ![a] = Ttl + 1], NEW i \in Incidents, NEW new \in SUBSET Incidents,
             Add(g, a, {<<a, i>>}, new)
      PROVE  IInv'
  <2> DEFINE rows == {<<a, i>>}
  <2>1. a \in Named(rows)
    <3>1. <<a, i>> \in rows /\ <<a, i>>[1] = a
      OBVIOUS
    <3> HIDE DEF rows
    <3> QED
      BY <3>1 DEF Named
  <2>2. rows \in SUBSET ({a} \X Incidents)
    BY <1>4
  <2>3. Add(g, a, rows, new) /\ new \in SUBSET Incidents
    BY <1>4
  <2> HIDE DEF rows
  <2> QED
    BY <1>1, <1>4, <2>1, <2>2, <2>3, AddKeeps
<1>5. \/ key[a] > 0 /\ Add(g, a, {}, {}) /\ UNCHANGED key
      \/ /\ key' = [key EXCEPT ![a] = Ttl + 1]
         /\ \/ window /\ Add(g, a, {}, {})
            \/ \E i \in Incidents, new \in SUBSET Incidents : Add(g, a, {<<a, i>>}, new)
  <2>1. Unused # {} => (CHOOSE i \in Unused : TRUE) \in Incidents
    BY DEF Unused
  <2>2. Found(g) \subseteq Incidents
    BY DEF Found, Open, IInv, DeliveryTypeOK, Requests
  <2> DEFINE j == CHOOSE i \in Unused : TRUE
  <2>3. Unused # {} => j \in Incidents /\ {j} \in SUBSET Incidents
    BY <2>1
  <2>4. {} \in SUBSET Incidents
    OBVIOUS
  <2>5. \/ key[a] > 0 /\ Add(g, a, {}, {}) /\ UNCHANGED key
        \/ /\ key' = [key EXCEPT ![a] = Ttl + 1]
           /\ \/ window /\ Add(g, a, {}, {})
              \/ Unused # {} /\ Add(g, a, {<<a, j>>}, {j})
              \/ \E i \in Found(g) : Add(g, a, {<<a, i>>}, {})
    BY DEF Ingest
  <2> HIDE DEF j
  <2> QED
    BY <2>2, <2>3, <2>4, <2>5
<1> QED
  BY <1>2, <1>3, <1>4, <1>5

LEMMA RespondKeeps ==
  ASSUME IInv, NEW g \in Groups, Respond(g)
  PROVE  IInv'
<1> USE BoundsAssumption, GroupAssumption
<1>1. /\ request[g].stage = "working" /\ request[g].todo = {}
      /\ request' = [request EXCEPT ![g].stage = "answered"]
      /\ notified' = [notified EXCEPT ![g] = request[g].batch]
      /\ age' = [age EXCEPT ![g] = 0]
      /\ UNCHANGED <<firing, window, credential, due, key, status, links, failures, reopens, missed>>
      /\ Blocked' = Blocked
  BY DEF Respond, environment, Blocked, UnderMaintenance,
         Unauthorized, Ambiguous, Open
<1>2. /\ \A a \in Alerts : Group[a] \in Groups
      /\ firing \subseteq Alerts
      /\ \A h \in Groups : age[h] \in Nat
      /\ \A a \in Alerts : missed[a] \in Nat
      /\ request \in [Groups -> Requests]
      /\ age \in [Groups -> 0..(RepeatInterval + 1)]
  BY DEF IInv, DeliveryTypeOK
<1>3. /\ request' \in [Groups -> Requests]
      /\ request'[g].stage = "answered"
      /\ request'[g].batch = request[g].batch
      /\ request'[g].todo = {}
      /\ request'[g].rows = request[g].rows
      /\ \A h \in Groups \ {g} : request'[h] = request[h]
  BY <1>1, <1>2 DEF Requests, Stages
<1>4. age'[g] = 0 /\ \A h \in Groups \ {g} : age'[h] = age[h]
  BY <1>1, <1>2
<1>5. DeliveryTypeOK'
  <2>1. request[g].batch \subseteq Alerts
    BY <1>2 DEF Requests
  <2>2. notified' \in [Groups -> SUBSET Alerts]
    BY <1>1, <2>1 DEF IInv, DeliveryTypeOK
  <2>3. age' \in [Groups -> 0..(RepeatInterval + 1)]
    BY <1>1, <1>2
  <2> QED
    BY <1>1, <1>3, <2>2, <2>3 DEF IInv, DeliveryTypeOK
<1>6. \A a \in Alerts : Pending(a)' = Pending(a)
  BY <1>2, <1>3 DEF Pending
<1>7. g \notin due /\ request[g].batch = GroupBatch(g)
  BY <1>1 DEF IInv, RequestOK, NoRequest
<1>8. RequestOK'
  <2> SUFFICES ASSUME NEW h \in Groups
               PROVE  RequestOK!(h)'
    BY DEF RequestOK
  <2>1. CASE h = g
    <3>1. Named(request[g].rows) \subseteq request[g].batch \ request[g].todo
      BY <1>1 DEF IInv, RequestOK, NoRequest
    <3> QED
      BY <1>1, <1>3, <1>4, <1>7, <2>1, <3>1 DEF GroupBatch
  <2>2. CASE h # g
    BY <1>1, <1>3, <1>4, <2>2 DEF IInv, RequestOK, GroupBatch
  <2> QED
    BY <2>1, <2>2
<1>9. BlockedOK' /\ BoundOK' /\ KeyOK'
  BY <1>1, <1>6 DEF IInv, BlockedOK, BoundOK, KeyOK
<1>10. HandledOK'
  BY <1>1, <1>3, <1>6 DEF IInv, HandledOK, DeliveryTypeOK, Requests
<1>11. \A a \in firing : Group[a] = g => Pending(a) \/ missed[a] <= Ttl
  BY <1>1, <1>7 DEF GroupBatch, IInv, HandledOK
<1>12. AgeOK'
  BY <1>1, <1>2, <1>4, <1>6, <1>11 DEF IInv, AgeOK
<1>13. SettledOK'
  BY <1>1, <1>2, <1>3, <1>4 DEF IInv, SettledOK, NoRequest
<1> QED
  BY <1>5, <1>8, <1>9, <1>10, <1>12, <1>13 DEF IInv

\* A request ends, by its commit, an error or a restart, and takes its rows
\* with it: the count of an alert that had one starts again.
LEMMA EndKeeps ==
  ASSUME IInv, NEW g \in Groups, NEW A, Recount(A),
         DeliveryTypeOK', UNCHANGED <<firing, age>>,
         request' = [request EXCEPT ![g] = NoRequest],
         due' = due \/ due' = due \cup {g},
         Named(request[g].rows) \subseteq A,
         \A a \in GroupBatch(g) : a \in A \/ age[g] <= RepeatInterval,
         \A a \in Alerts : key'[a] = key[a] \/ a \in A
  PROVE  IInv'
<1> USE BoundsAssumption, GroupAssumption
<1>1. /\ \A a \in Alerts : Group[a] \in Groups
      /\ firing \subseteq Alerts
      /\ \A h \in Groups : age[h] \in Nat
      /\ \A a \in Alerts : missed[a] \in Nat /\ key[a] \in Nat /\ key'[a] \in 0..(Ttl + 1)
      /\ request \in [Groups -> Requests] /\ request' \in [Groups -> Requests]
  BY DEF IInv, DeliveryTypeOK
<1>2. /\ \A a \in Alerts : missed'[a] \in Nat /\ missed'[a] <= missed[a]
      /\ \A a \in Alerts : a \in A => missed'[a] = 0
      /\ BlockedOK'
  <2>1. DeliveryTypeOK
    BY DEF IInv
  <2> QED
    BY <1>1, <2>1, RecountKeeps DEF BlockedOK, DeliveryTypeOK
<1>3. request'[g] = NoRequest /\ \A h \in Groups \ {g} : request'[h] = request[h]
  BY <1>1
<1>4. \A a \in Alerts : /\ Group[a] = g => ~Pending(a)'
                        /\ Group[a] # g => (Pending(a)' <=> Pending(a))
  BY <1>1, <1>3, NamedOfRows DEF Pending, NoRequest
<1>5. \A a \in Alerts : Pending(a) /\ ~Pending(a)' => missed'[a] = 0
  <2>1. \A a \in Alerts : Pending(a) /\ Group[a] = g => a \in A
    BY DEF Pending
  <2> QED
    BY <1>2, <1>4, <2>1
<1>6. RequestOK'
  <2> SUFFICES ASSUME NEW h \in Groups
               PROVE  RequestOK!(h)'
    BY DEF RequestOK
  <2>1. CASE h = g
    BY <1>3, <2>1
  <2>2. CASE h # g
    BY <1>3, <2>2 DEF IInv, RequestOK, GroupBatch
  <2> QED
    BY <2>1, <2>2
<1>7. KeyOK'
  BY <1>1, <1>2, <1>4, <1>5 DEF IInv, KeyOK
<1>8. HandledOK'
  <2> SUFFICES ASSUME NEW h \in Groups, NEW a \in request'[h].batch \ request'[h].todo
               PROVE  Pending(a)' \/ missed'[a] <= Ttl
    BY DEF HandledOK
  <2>1. h # g /\ request'[h] = request[h]
    BY <1>3 DEF NoRequest
  <2>2. a \in Alerts
    BY <1>1 DEF Requests
  <2>3. Pending(a) \/ missed[a] <= Ttl
    BY <2>1 DEF IInv, HandledOK
  <2> QED
    BY <1>1, <1>2, <1>5, <2>2, <2>3
<1>9. AgeOK'
  BY <1>1, <1>2, <1>5 DEF IInv, AgeOK
<1>10. SettledOK'
  <2> SUFFICES ASSUME NEW a \in firing, Group[a] \notin due', request'[Group[a]] = NoRequest
               PROVE  missed'[a] = 0 \/ age[Group[a]] <= RepeatInterval
    BY DEF SettledOK
  <2>1. CASE Group[a] = g
    BY <1>1, <1>2, <2>1 DEF GroupBatch
  <2>2. CASE Group[a] # g
    BY <1>1, <1>2, <1>3, <2>2 DEF IInv, SettledOK
  <2> QED
    BY <2>1, <2>2
<1>11. BoundOK'
  BY <1>1, <1>2 DEF IInv, BoundOK
<1> QED
  BY <1>2, <1>6, <1>7, <1>8, <1>9, <1>10, <1>11 DEF IInv

\* The rows of a request are of its batch, and the batch is what fires.
LEMMA RowsOfBatch ==
  ASSUME IInv, NEW g \in Groups, request[g] # NoRequest
  PROVE  /\ Named(request[g].rows) \subseteq request[g].batch
         /\ GroupBatch(g) = request[g].batch
BY DEF IInv, RequestOK

LEMMA CommitKeeps ==
  ASSUME IInv, NEW g \in Groups, Commit(g)
  PROVE  IInv'
<1>1. /\ request[g].stage = "answered" /\ request[g] # NoRequest
      /\ request' = [request EXCEPT ![g] = NoRequest]
      /\ status' = [i \in Incidents |-> IF i \in request[g].new THEN "open" ELSE status[i]]
      /\ links' = links \cup request[g].rows
      /\ UNCHANGED <<firing, window, credential, due, notified, age, key, failures, reopens>>
      /\ Recount(Named(request[g].rows))
  BY DEF Commit, environment, NoRequest, Named
<1>2. age[g] <= RepeatInterval
  BY <1>1 DEF IInv, RequestOK
<1>3. missed' \in [Alerts -> Nat]
  BY <1>1, RecountKeeps DEF IInv
<1>4. DeliveryTypeOK'
  <2>1. NoRequest \in Requests
    BY DEF NoRequest, Requests, Stages
  <2>2. request[g].rows \subseteq Alerts \X Incidents
    BY DEF IInv, DeliveryTypeOK, Requests
  <2> QED
    BY <1>1, <1>3, <2>1, <2>2 DEF IInv, DeliveryTypeOK
<1> QED
  BY <1>1, <1>2, <1>4, EndKeeps

LEMMA RefuseKeeps ==
  ASSUME IInv, NEW g \in Groups, NEW a \in Alerts, Refuse(g, a)
  PROVE  IInv'
<1>1. /\ a \in request[g].todo /\ request[g] # NoRequest
      /\ request' = [request EXCEPT ![g] = NoRequest]
      /\ key' = [key EXCEPT ![a] = Ttl + 1]
      /\ due' = due \/ due' = due \cup {g}
      /\ UNCHANGED <<firing, window, credential, notified, age, status, links, failures, reopens>>
      /\ Recount(request[g].batch)
  BY DEF Refuse, environment, NoRequest
<1>2. a \in request[g].batch
  BY <1>1 DEF IInv, RequestOK
<1>3. missed' \in [Alerts -> Nat]
  BY <1>1, RecountKeeps DEF IInv
<1>4. DeliveryTypeOK'
  <2>1. NoRequest \in Requests
    BY DEF NoRequest, Requests, Stages
  <2>2. key' \in [Alerts -> 0..(Ttl + 1)]
    BY <1>1, BoundsAssumption DEF IInv, DeliveryTypeOK
  <2> QED
    BY <1>1, <1>3, <2>1, <2>2 DEF IInv, DeliveryTypeOK
<1>5. \A b \in Alerts : key'[b] = key[b] \/ b \in request[g].batch
  BY <1>1, <1>2 DEF IInv, DeliveryTypeOK
<1>6. /\ Named(request[g].rows) \subseteq request[g].batch
      /\ GroupBatch(g) = request[g].batch
  BY <1>1, RowsOfBatch
<1> QED
  BY <1>1, <1>4, <1>5, <1>6, EndKeeps

LEMMA FailKeeps ==
  ASSUME IInv, NEW g \in Groups, Fail(g)
  PROVE  IInv'
<1>1. /\ request[g] # NoRequest
      /\ failures' = failures + 1
      /\ request' = [request EXCEPT ![g] = NoRequest]
      /\ due' = due \/ due' = due \cup {g}
      /\ UNCHANGED <<firing, window, credential, notified, age, key, status, links, reopens>>
      /\ Recount(request[g].batch)
  BY DEF Fail, environment
<1>2. missed' \in [Alerts -> Nat]
  BY <1>1, RecountKeeps DEF IInv
<1>3. DeliveryTypeOK'
  <2>1. NoRequest \in Requests
    BY DEF NoRequest, Requests, Stages
  <2> QED
    BY <1>1, <1>2, <2>1 DEF IInv, DeliveryTypeOK
<1>4. /\ Named(request[g].rows) \subseteq request[g].batch
      /\ GroupBatch(g) = request[g].batch
  BY <1>1, RowsOfBatch
<1> QED
  BY <1>1, <1>3, <1>4, EndKeeps

-------------------------------------------------------------------------
LEMMA NextKeeps ==
  ASSUME IInv, [Next]_vars
  PROVE  IInv'
<1>1. CASE Tick
  BY <1>1, TickKeeps
<1>2. CASE \E a \in Alerts : ExpireKey(a)
  BY <1>2, ExpireKeyKeeps
<1>3. ASSUME NEW g \in Groups, Deliver(g)
      PROVE  IInv'
  BY <1>3, FlushKeeps, RespondKeeps, CommitKeeps, IngestKeeps, RefuseKeeps DEF Deliver
<1>4. CASE \E g \in Groups : Fail(g)
  BY <1>4, FailKeeps
<1>5. CASE \E i \in Incidents : Resolve(i) \/ Reopen(i)
  BY <1>5, ResolveKeeps, ReopenKeeps
<1>6. CASE ChangeEnvironment
  BY <1>6, ChangeEnvironmentKeeps
<1>7. CASE UNCHANGED vars
  <2>1. UNCHANGED <<firing, due, age, request>>
    BY <1>7 DEF vars
  <2>2. DeliveryTypeOK'
    BY <1>7 DEF vars, IInv, DeliveryTypeOK
  <2>3. BlockedOK'
    BY <1>7 DEF vars, IInv, BlockedOK, Blocked, UnderMaintenance,
         Unauthorized, Ambiguous, Open
  <2>4. \A a \in Alerts : missed'[a] <= missed[a] /\ key'[a] = key[a]
    BY <1>7 DEF vars, IInv, DeliveryTypeOK
  <2> QED
    BY <2>1, <2>2, <2>3, <2>4, CountsDrop
<1> QED
  BY <1>1, <1>2, <1>3, <1>4, <1>5, <1>6, <1>7 DEF Next

\* The strengthening holds in every behaviour; its type part says that ages,
\* keys and counts stay within the intervals that were given.
THEOREM SpecIInv == Spec => []IInv
BY InitIInv, NextKeeps, PTL DEF Spec

\* An alert that can get through has an open incident again at the latest
\* when one TTL and one repeat_interval are over (is_duplicate, redis.py;
\* alertmanager.yml), for any alerts, groups, intervals and failures.
THEOREM MissedAlwaysBounded == Spec => []MissedIsBounded
<1>1. IInv => MissedIsBounded
  BY BoundsAssumption DEF IInv, DeliveryTypeOK, BoundOK, MissedIsBounded, MaxMissed
<1> QED
  BY <1>1, SpecIInv, PTL

=========================================================================
