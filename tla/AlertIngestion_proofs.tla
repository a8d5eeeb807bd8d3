--------------------- MODULE AlertIngestion_proofs ----------------------
(***************************************************************************)
(* Proofs about AlertIngestion, for any number of requests, batches,       *)
(* services, fingerprints and maintenance windows: first the keys and the  *)
(* alerts they let through, then the incidents (an alert's incident        *)
(* exists, a visible incident was announced, and two open incidents of one *)
(* service need concurrent requests or a re-opened incident).              *)
(***************************************************************************)
EXTENDS AlertIngestion, TLAPS, FiniteSetTheorems

PCs == Working \cup {"idle", "committed", "aborted"}

\* A key that was set in the current life of its fingerprint is still live.
KeyInv ==
  \A i \in Ids : keyedAt[i] # 0 =>
    /\ pc[i[1]] # "idle"
    /\ i[2] <= Len(batch[i[1]])
    /\ keyedAt[i] <= expiries[Fingerprint(Payload(i))] + 1
    /\ keyedAt[i] = expiries[Fingerprint(Payload(i))] + 1
         => Fingerprint(Payload(i)) \in dedup

\* No two alerts set the key of their fingerprint in the same life of it.
KeyUnique ==
  \A i, j \in Ids :
    (/\ i # j /\ keyedAt[i] # 0 /\ keyedAt[j] # 0
     /\ Fingerprint(Payload(i)) = Fingerprint(Payload(j)))
      => keyedAt[i] # keyedAt[j]

\* Only alerts that set their key are stored.
RowsKeyed ==
  /\ \A a \in alerts : keyedAt[a.id] # 0
  /\ \A r \in Requests :
       /\ pc[r] \in {"maintenance", "incident"} => keyedAt[Current(r)] # 0
       /\ \A a \in mine[r].alerts : keyedAt[a.id] # 0

KeysOK == KeyInv /\ KeyUnique /\ RowsKeyed

-------------------------------------------------------------------------
\* The alert a request is at belongs to its batch.
LEMMA CurrentOK ==
  ASSUME TypeOK, NEW r \in Requests, pc[r] # "idle"
  PROVE  /\ Current(r) \in Ids
         /\ Payload(Current(r)) \in Payloads
         /\ Payload(Current(r)).service_name \in Services
         /\ Fingerprint(Payload(Current(r))) \in Fingerprints
         /\ Len(batch[r]) \in 1..MaxBatch
<1>1. /\ batch[r] \in Batches /\ pos[r] \in 1..MaxBatch /\ pos[r] <= Len(batch[r])
  BY DEF TypeOK
<1>2. batch[r] \in Seq(Payloads) /\ Len(batch[r]) \in 1..MaxBatch /\ MaxBatch \in Nat
  BY <1>1, PayloadAssumption
<1>3. pos[r] \in 1..Len(batch[r])
  BY <1>1, <1>2
<1>4. batch[r][pos[r]] \in Payloads
  BY <1>2, <1>3
<1>5. Payload(Current(r)) = batch[r][pos[r]]
  BY DEF Payload, Current
<1>6. Current(r) \in Ids
  BY <1>1 DEF Current, Ids
<1> QED
  BY <1>2, <1>4, <1>5, <1>6, PayloadAssumption DEF Fingerprints

\* Advance stays within the batch.
LEMMA AdvanceOK ==
  ASSUME TypeOK, NEW r \in Requests, pc[r] # "idle", Advance(r)
  PROVE  /\ pc' \in [Requests -> PCs]
         /\ pos' \in [Requests -> 1..MaxBatch]
         /\ pc'[r] \in {"dedup", "respond"}
         /\ pos'[r] <= Len(batch[r])
         /\ \A q \in Requests \ {r} : pc'[q] = pc[q] /\ pos'[q] = pos[q]
<1>1. /\ pc \in [Requests -> PCs] /\ pos \in [Requests -> 1..MaxBatch]
      /\ pos[r] <= Len(batch[r])
  BY DEF TypeOK, PCs
<1>2. Len(batch[r]) \in 1..MaxBatch /\ MaxBatch \in Nat
  BY CurrentOK, PayloadAssumption
<1>3. CASE pos[r] < Len(batch[r])
  BY <1>1, <1>2, <1>3 DEF Advance, PCs, Working
<1>4. CASE ~(pos[r] < Len(batch[r]))
  BY <1>1, <1>2, <1>4 DEF Advance, PCs, Working
<1> QED
  BY <1>3, <1>4

-------------------------------------------------------------------------
\* The type invariant holds initially.
LEMMA InitTypeOK == Init => TypeOK
<1> SUFFICES ASSUME Init PROVE TypeOK
  OBVIOUS
<1>1. 1 \in 1..MaxBatch
  BY PayloadAssumption
<1>2. NoRows \in Rows
  BY DEF NoRows, Rows
<1>3. Committed = {}
  BY DEF Init, Committed
<1> QED
  BY <1>1, <1>2, <1>3 DEF Init, TypeOK, Working, WindowStates

\* Every step keeps the type invariant.
LEMMA NextTypeOK ==
  ASSUME TypeOK, [Next]_vars
  PROVE  TypeOK'
<1> USE DEF tables, redis, slack, arrival
<1>1. ASSUME NEW r \in Requests, NEW b \in Batches, Receive(r, b) PROVE TypeOK'
  <2>1. Len(b) \in 1..MaxBatch /\ MaxBatch \in Nat
    BY PayloadAssumption
  <2>2. 1 \in 1..MaxBatch /\ 1 <= Len(b)
    BY <2>1
  <2>3. mine[r] = NoRows
    BY <1>1 DEF Receive, TypeOK, Working
  <2>4. /\ pc' \in [Requests -> Working \cup {"idle", "committed", "aborted"}]
        /\ batch' \in [Requests -> Batches \cup {<<>>}]
        /\ pos' \in [Requests -> 1..MaxBatch]
        /\ after' \in [Requests -> SUBSET Requests]
        /\ known' \in [Requests -> SUBSET Configs]
        /\ announced' \subseteq Ids \X Configs
    BY <1>1, <2>2 DEF Receive, TypeOK, Working, ActiveConfigs
  <2>5. ASSUME NEW q \in Requests
        PROVE  /\ pc'[q] # "idle" => batch'[q] \in Batches /\ pos'[q] <= Len(batch'[q])
               /\ pc'[q] \notin Working => mine'[q] = NoRows
    BY <1>1, <2>2, <2>3 DEF Receive, TypeOK
  <2> QED
    BY <1>1, <2>4, <2>5 DEF Receive, TypeOK, Committed
<1>2. ASSUME NEW r \in Requests, CheckDuplicate(r) PROVE TypeOK'
  <2>1. pc[r] = "dedup" /\ pc[r] # "idle"
    BY <1>2 DEF CheckDuplicate
  <2>2. CASE Advance(r) /\ UNCHANGED redis
    <3>1. UNCHANGED <<batch, mine, tables, slack, window, arrival, redis>>
      BY <1>2, <2>2 DEF CheckDuplicate
    <3> QED
      BY <2>1, <2>2, <3>1, AdvanceOK DEF TypeOK, Committed, PCs, Working
  <2>3. CASE ~(Advance(r) /\ UNCHANGED redis)
    <3> DEFINE f == Fingerprint(Payload(Current(r)))
    <3>1. /\ dedup' = dedup \cup {f}
          /\ keyedAt' = [keyedAt EXCEPT ![Current(r)] = expiries[f] + 1]
          /\ pc' = [pc EXCEPT ![r] = "maintenance"]
          /\ UNCHANGED <<pos, expiries, batch, mine, tables, slack, window, arrival>>
      BY <1>2, <2>3 DEF CheckDuplicate
    <3>2. f \in Fingerprints
      BY <2>1, CurrentOK
    <3>3. expiries[f] + 1 \in Nat
      BY <3>2 DEF TypeOK
    <3> HIDE DEF f
    <3>4. /\ keyedAt' \in [Ids -> Nat] /\ dedup' \subseteq Fingerprints
          /\ pc' \in [Requests -> Working \cup {"idle", "committed", "aborted"}]
      BY <3>1, <3>2, <3>3 DEF TypeOK, Working
    <3>5. ASSUME NEW q \in Requests
          PROVE  /\ pc'[q] # "idle" => batch'[q] \in Batches /\ pos'[q] <= Len(batch'[q])
                 /\ pc'[q] \notin Working => mine'[q] = NoRows
      BY <2>1, <3>1 DEF TypeOK, Working
    <3> QED
      BY <3>1, <3>4, <3>5 DEF TypeOK, Committed
  <2> QED
    BY <2>2, <2>3
<1>3. ASSUME NEW r \in Requests, CheckMaintenance(r) PROVE TypeOK'
  <2> DEFINE x == [id |-> Current(r), incident_id |-> NULL]
  <2>1. pc[r] = "maintenance" /\ pc[r] # "idle"
    BY <1>3 DEF CheckMaintenance
  <2>2. /\ UNCHANGED <<batch, tables, redis, slack, window, arrival>>
        /\ \/ /\ mine' = [mine EXCEPT ![r].alerts = @ \cup {x}] /\ Advance(r)
           \/ /\ pc' = [pc EXCEPT ![r] = "incident"] /\ UNCHANGED <<mine, pos>>
    BY <1>3 DEF CheckMaintenance
  <2>3. CASE mine' = [mine EXCEPT ![r].alerts = @ \cup {x}] /\ Advance(r)
    <3>1. x \in Alert
      BY <2>1, CurrentOK DEF Alert
    <3> HIDE DEF x
    <3>2. mine[r] \in Rows
      BY DEF TypeOK
    <3>3. [mine[r] EXCEPT !.alerts = @ \cup {x}] \in Rows
      BY <3>1, <3>2 DEF Rows
    <3>4. mine' = [mine EXCEPT ![r] = [mine[r] EXCEPT !.alerts = @ \cup {x}]]
      BY <2>3, <3>2
    <3>5. mine' \in [Requests -> Rows]
      BY <3>3, <3>4 DEF TypeOK
    <3> QED
      BY <2>1, <2>2, <2>3, <3>4, <3>5, AdvanceOK DEF TypeOK, Committed, PCs, Working
  <2>4. CASE pc' = [pc EXCEPT ![r] = "incident"] /\ UNCHANGED <<mine, pos>>
    BY <2>1, <2>2, <2>4 DEF TypeOK, Committed, Working
  <2> QED
    BY <2>2, <2>3, <2>4
<1>4. ASSUME NEW r \in Requests, FindOrCreateIncident(r) PROVE TypeOK'
  <2>1. pc[r] = "incident" /\ pc[r] # "idle"
    BY <1>4 DEF FindOrCreateIncident
  <2>2. /\ UNCHANGED <<batch, tables, redis, slack, window, arrival>>
        /\ \/ /\ AddRows(r, Current(r), TRUE)
              /\ pc' = [pc EXCEPT ![r] = "notify"] /\ UNCHANGED pos
           \/ /\ \E i \in Ids : AddRows(r, i, FALSE)
              /\ Advance(r)
    BY <1>4 DEF FindOrCreateIncident, OpenIncidents
  <2>3. ASSUME NEW i \in Ids, NEW created \in BOOLEAN, AddRows(r, i, created)
        PROVE  /\ mine' \in [Requests -> Rows]
               /\ \A q \in Requests \ {r} : mine'[q] = mine[q]
    <3> DEFINE a == [id |-> Current(r), incident_id |-> i]
               l == [alert_id |-> Current(r), incident_id |-> i,
                     action |-> AuditAction(created)]
               m == [alerts |-> mine[r].alerts \cup {a},
                     incidents |-> IF created THEN mine[r].incidents \cup {i}
                                              ELSE mine[r].incidents,
                     audit |-> mine[r].audit \cup {l}]
    <3>1. a \in Alert /\ l \in AuditLog
      BY <2>1, CurrentOK DEF Alert, AuditLog, AuditAction
    <3>2. mine' = [mine EXCEPT ![r] = m]
      BY <2>3 DEF AddRows
    <3> HIDE DEF a, l
    <3>3. mine[r] \in Rows
      BY DEF TypeOK
    <3>4. m \in Rows
      BY <3>1, <3>3 DEF Rows
    <3> HIDE DEF m
    <3> QED
      BY <3>2, <3>4 DEF TypeOK
  <2>4. CASE AddRows(r, Current(r), TRUE) /\ pc' = [pc EXCEPT ![r] = "notify"]
             /\ UNCHANGED pos
    <3>1. Current(r) \in Ids
      BY <2>1, CurrentOK
    <3> QED
      BY <2>1, <2>2, <2>3, <2>4, <3>1 DEF TypeOK, Committed, Working
  <2>5. CASE (\E i \in Ids : AddRows(r, i, FALSE)) /\ Advance(r)
    BY <2>1, <2>2, <2>3, <2>5, AdvanceOK DEF TypeOK, Committed, PCs, Working
  <2> QED
    BY <2>2, <2>4, <2>5
<1>5. ASSUME NEW r \in Requests, NotifyNewIncident(r) PROVE TypeOK'
  <2>1. /\ pc[r] = "notify" /\ pc[r] # "idle" /\ Advance(r)
        /\ announced' = announced \cup {<<Current(r), c>> : c \in ActiveConfigs}
        /\ UNCHANGED <<batch, mine, tables, redis, config, window, arrival>>
    BY <1>5 DEF NotifyNewIncident
  <2>2. announced' \subseteq Ids \X Configs
    BY <2>1, CurrentOK DEF TypeOK, ActiveConfigs
  <2> QED
    BY <2>1, <2>2, AdvanceOK DEF TypeOK, Committed, PCs, Working
<1>6. ASSUME NEW r \in Requests, Commit(r) PROVE TypeOK'
  <2>1. mine[r] \in Rows /\ NoRows \in Rows
    BY DEF TypeOK, Rows, NoRows
  <2>2. /\ alerts' \subseteq Alert /\ audit' \subseteq AuditLog
        /\ mine' \in [Requests -> Rows]
        /\ status' \in [Ids -> {"absent", "open", "resolved"}]
        /\ pc' \in [Requests -> Working \cup {"idle", "committed", "aborted"}]
    BY <1>6, <2>1 DEF Commit, TypeOK, Rows, Working
  <2>3. resolved' \subseteq Committed'
    BY <1>6 DEF Commit, TypeOK, Committed
  <2> QED
    BY <1>6, <2>2, <2>3 DEF Commit, TypeOK, Working
<1>7. ASSUME NEW r \in Requests, Abort(r) PROVE TypeOK'
  <2>1. NoRows \in Rows
    BY DEF Rows, NoRows
  <2> QED
    BY <1>7, <2>1 DEF Abort, TypeOK, Committed, Working
<1>8. ASSUME NEW f \in Fingerprints, ExpireKey(f) PROVE TypeOK'
  BY <1>8 DEF ExpireKey, TypeOK, Committed, Working
<1>9. ASSUME NEW i \in Ids, NEW t \in {"open", "resolved"}, TransitionStatus(i, t)
      PROVE  TypeOK'
  BY <1>9 DEF TransitionStatus, TypeOK, Committed, Working
<1>10. ASSUME NEW w \in Windows, NEW t \in WindowStates, MoveWindow(w, t) PROVE TypeOK'
  BY <1>10 DEF MoveWindow, TypeOK, Committed, Working
<1>11. ASSUME NEW c \in Configs, CreateConfig(c) \/ DeleteConfig(c) PROVE TypeOK'
  BY <1>11 DEF CreateConfig, DeleteConfig, TypeOK, Committed, Working
<1>12. CASE UNCHANGED vars
  BY <1>12 DEF vars, TypeOK, Committed, Working
<1> QED
  BY <1>1, <1>2, <1>3, <1>4, <1>5, <1>6, <1>7, <1>8, <1>9, <1>10, <1>11, <1>12 DEF Next

\* Every variable has its type at all times.
THEOREM TypeCorrect == Spec => []TypeOK
BY InitTypeOK, NextTypeOK, PTL DEF Spec

-------------------------------------------------------------------------
(***************************************************************************)
(* One alert per life of a key.  The life a key was set in is one more     *)
(* than the number of lives that have ended; setting it again needs it to  *)
(* have expired, which moves that number (KeyInv), so no two alerts share  *)
(* a life (KeyUnique), and only alerts that set a key are stored.          *)
(***************************************************************************)
LEMMA InitKeysOK == Init => KeysOK
BY DEF Init, KeysOK, KeyInv, KeyUnique, RowsKeyed, NoRows

\* Steps that touch neither a key nor an alert row.
LEMMA KeysUntouched ==
  ASSUME TypeOK, KeysOK,
         UNCHANGED <<dedup, expiries, keyedAt, alerts, batch>>,
         \A r \in Requests :
           /\ pc'[r] = "idle" => pc[r] = "idle"
           /\ pc'[r] \in {"maintenance", "incident"} => keyedAt[<<r, pos'[r]>>] # 0
           /\ \A a \in mine'[r].alerts : keyedAt[a.id] # 0
  PROVE  KeysOK'
<1>1. \A i \in Ids : i[1] \in Requests /\ Payload(i)' = Payload(i)
  BY DEF Ids, Payload
<1>2. KeyInv'
  BY <1>1 DEF KeysOK, KeyInv
<1>3. KeyUnique'
  BY <1>1 DEF KeysOK, KeyUnique
<1>4. RowsKeyed'
  BY DEF KeysOK, RowsKeyed, Current
<1> QED
  BY <1>2, <1>3, <1>4 DEF KeysOK

\* Every step preserves what is known of the Redis keys.
LEMMA NextKeysOK ==
  ASSUME TypeOK, KeysOK, [Next]_vars
  PROVE  KeysOK'
<1> USE DEF tables, redis, slack, arrival
<1>0. /\ \A r \in Requests :
           /\ pc[r] \in {"maintenance", "incident"} => keyedAt[Current(r)] # 0
           /\ \A a \in mine[r].alerts : keyedAt[a.id] # 0
      /\ \A a \in alerts : keyedAt[a.id] # 0
  BY DEF KeysOK, RowsKeyed
<1>1. ASSUME NEW r \in Requests, NEW b \in Batches, Receive(r, b) PROVE KeysOK'
  <2>1. /\ pc' = [pc EXCEPT ![r] = "dedup"]
        /\ batch' = [batch EXCEPT ![r] = b]
        /\ pos' = [pos EXCEPT ![r] = 1]
        /\ pc[r] = "idle" \/ b = batch[r]
        /\ UNCHANGED <<mine, alerts, dedup, expiries, keyedAt>>
    BY <1>1 DEF Receive
  <2>2. ASSUME NEW i \in Ids, keyedAt[i] # 0
        PROVE  /\ i[1] \in Requests /\ pc'[i[1]] # "idle"
               /\ batch'[i[1]] = batch[i[1]] /\ Payload(i)' = Payload(i)
    BY <2>1, <2>2 DEF KeysOK, KeyInv, Ids, TypeOK, Payload
  <2>3. KeyInv'
    BY <2>1, <2>2 DEF KeysOK, KeyInv
  <2>4. KeyUnique'
    BY <2>1, <2>2 DEF KeysOK, KeyUnique
  <2>5. RowsKeyed'
    BY <1>0, <2>1 DEF RowsKeyed, TypeOK, Current
  <2> QED
    BY <2>3, <2>4, <2>5 DEF KeysOK
<1>2. ASSUME NEW r \in Requests, CheckDuplicate(r) PROVE KeysOK'
  <2>1. pc[r] = "dedup" /\ pc[r] # "idle"
    BY <1>2 DEF CheckDuplicate
  <2>2. CASE Advance(r) /\ UNCHANGED redis
    <3>1. UNCHANGED <<batch, mine, tables, redis>>
      BY <1>2, <2>2 DEF CheckDuplicate
    <3>2. \A q \in Requests :
            /\ pc'[q] = "idle" => pc[q] = "idle"
            /\ pc'[q] \in {"maintenance", "incident"} => keyedAt[<<q, pos'[q]>>] # 0
      BY <1>0, <2>1, <2>2, AdvanceOK DEF Current
    <3> QED
      BY <1>0, <3>1, <3>2, KeysUntouched
  <2>3. CASE ~(Advance(r) /\ UNCHANGED redis)
    <3> DEFINE f == Fingerprint(Payload(Current(r)))
               c == Current(r)
    <3>1. /\ f \notin dedup /\ dedup' = dedup \cup {f}
          /\ keyedAt' = [keyedAt EXCEPT ![c] = expiries[f] + 1]
          /\ pc' = [pc EXCEPT ![r] = "maintenance"]
          /\ UNCHANGED <<pos, expiries, batch, mine, alerts>>
      BY <1>2, <2>3 DEF CheckDuplicate
    <3>2. /\ f \in Fingerprints /\ c \in Ids /\ expiries[f] \in Nat
          /\ c[1] = r /\ c[2] = pos[r] /\ pos[r] <= Len(batch[r])
          /\ f = Fingerprint(Payload(c))
      BY <2>1, CurrentOK DEF TypeOK, Current
    <3>3. /\ \A i \in Ids : Payload(i)' = Payload(i) /\ i[1] \in Requests
          /\ \A i \in Ids \ {c} : keyedAt'[i] = keyedAt[i]
          /\ keyedAt'[c] = expiries[f] + 1
          /\ keyedAt \in [Ids -> Nat]
      BY <3>1, <3>2 DEF Payload, Ids, TypeOK
    <3>4. ASSUME NEW i \in Ids \ {c}, keyedAt[i] # 0, Fingerprint(Payload(i)) = f
          PROVE  keyedAt[i] < expiries[f] + 1
      BY <3>1, <3>2, <3>3, <3>4 DEF KeysOK, KeyInv
    <3>5. KeyInv'
      <4> SUFFICES ASSUME NEW i \in Ids, keyedAt'[i] # 0
                   PROVE  /\ pc'[i[1]] # "idle"
                          /\ i[2] <= Len(batch[i[1]])
                          /\ keyedAt'[i] <= expiries[Fingerprint(Payload(i))] + 1
                          /\ keyedAt'[i] = expiries[Fingerprint(Payload(i))] + 1
                               => Fingerprint(Payload(i)) \in dedup'
        BY <3>1, <3>3 DEF KeyInv
      <4>1. CASE i = c
        BY <3>1, <3>2, <3>3, <4>1 DEF TypeOK
      <4>2. CASE i # c
        BY <3>1, <3>3, <4>2 DEF KeysOK, KeyInv, TypeOK
      <4> QED
        BY <4>1, <4>2
    <3>6. KeyUnique'
      <4> SUFFICES ASSUME NEW i \in Ids, NEW j \in Ids, i # j,
                          keyedAt'[i] # 0, keyedAt'[j] # 0,
                          Fingerprint(Payload(i)) = Fingerprint(Payload(j))
                   PROVE  keyedAt'[i] # keyedAt'[j]
        BY <3>3 DEF KeyUnique
      <4>1. CASE i = c
        BY <3>2, <3>3, <3>4, <4>1
      <4>2. CASE j = c
        BY <3>2, <3>3, <3>4, <4>2
      <4>3. CASE i # c /\ j # c
        BY <3>3, <4>3 DEF KeysOK, KeyUnique
      <4> QED
        BY <4>1, <4>2, <4>3
    <3>7. \A i \in Ids : keyedAt[i] # 0 => keyedAt'[i] # 0
      BY <3>2, <3>3
    <3>8. RowsKeyed'
      <4>1. /\ alerts \subseteq Alert /\ \A q \in Requests : mine[q].alerts \subseteq Alert
        BY DEF TypeOK, Rows
      <4>2. \A a \in Alert : a.id \in Ids
        BY DEF Alert
      <4>3. ASSUME NEW q \in Requests, pc'[q] \in {"maintenance", "incident"}
            PROVE  keyedAt'[Current(q)'] # 0
        <5>1. Current(q)' = Current(q)
          BY <3>1 DEF Current
        <5>2. CASE q = r
          BY <3>2, <3>3, <5>1, <5>2
        <5>3. CASE q # r
          <6>1. pc[q] = pc'[q] /\ pc[q] # "idle"
            BY <3>1, <4>3, <5>3 DEF TypeOK
          <6>2. Current(q) \in Ids
            BY <6>1, CurrentOK
          <6> QED
            BY <1>0, <3>7, <4>3, <5>1, <6>1, <6>2
        <5> QED
          BY <5>2, <5>3
      <4> QED
        BY <1>0, <3>1, <3>7, <4>1, <4>2, <4>3 DEF RowsKeyed
    <3> QED
      BY <3>5, <3>6, <3>8 DEF KeysOK
  <2> QED
    BY <2>2, <2>3
<1>3. ASSUME NEW r \in Requests, CheckMaintenance(r) PROVE KeysOK'
  <2> DEFINE x == [id |-> Current(r), incident_id |-> NULL]
  <2>1. /\ pc[r] = "maintenance" /\ pc[r] # "idle"
        /\ UNCHANGED <<batch, tables, redis>>
    BY <1>3 DEF CheckMaintenance
  <2>2. CASE mine' = [mine EXCEPT ![r].alerts = @ \cup {x}] /\ Advance(r)
    <3>1. \A q \in Requests : \A a \in mine'[q].alerts : keyedAt[a.id] # 0
      <4>1. keyedAt[x.id] # 0
        BY <1>0, <2>1
      <4> HIDE DEF x
      <4>2. mine[r] \in Rows
        BY DEF TypeOK
      <4>3. mine'[r].alerts = mine[r].alerts \cup {x}
        BY <2>2, <4>2 DEF TypeOK, Rows
      <4>4. \A q \in Requests \ {r} : mine'[q] = mine[q]
        BY <2>2 DEF TypeOK
      <4> QED
        BY <1>0, <4>1, <4>3, <4>4
    <3>2. \A q \in Requests :
            /\ pc'[q] = "idle" => pc[q] = "idle"
            /\ pc'[q] \in {"maintenance", "incident"} => keyedAt[<<q, pos'[q]>>] # 0
      BY <1>0, <2>1, <2>2, AdvanceOK DEF Current
    <3> QED
      BY <2>1, <3>1, <3>2, KeysUntouched
  <2>3. CASE pc' = [pc EXCEPT ![r] = "incident"] /\ UNCHANGED <<mine, pos>>
    <3>1. \A q \in Requests :
            /\ pc'[q] = "idle" => pc[q] = "idle"
            /\ pc'[q] \in {"maintenance", "incident"} => keyedAt[<<q, pos'[q]>>] # 0
      BY <1>0, <2>1, <2>3 DEF Current, TypeOK
    <3> QED
      BY <1>0, <2>1, <2>3, <3>1, KeysUntouched
  <2> QED
    BY <1>3, <2>2, <2>3 DEF CheckMaintenance
<1>4. ASSUME NEW r \in Requests, FindOrCreateIncident(r) PROVE KeysOK'
  <2>1. /\ pc[r] = "incident" /\ pc[r] # "idle"
        /\ UNCHANGED <<batch, tables, redis>>
        /\ \E i \in Ids, created \in BOOLEAN : AddRows(r, i, created)
        /\ \/ pc' = [pc EXCEPT ![r] = "notify"] /\ UNCHANGED pos
           \/ Advance(r)
    <3>1. pc[r] = "incident" /\ pc[r] # "idle" /\ UNCHANGED <<batch, tables, redis>>
      BY <1>4 DEF FindOrCreateIncident
    <3>2. Current(r) \in Ids
      BY <3>1, CurrentOK
    <3> QED
      BY <1>4, <3>1, <3>2 DEF FindOrCreateIncident, OpenIncidents
  <2>2. PICK i \in Ids, created \in BOOLEAN : AddRows(r, i, created)
    BY <2>1
  <2>3. /\ mine'[r].alerts = mine[r].alerts \cup {[id |-> Current(r), incident_id |-> i]}
        /\ \A q \in Requests \ {r} : mine'[q] = mine[q]
    BY <2>2 DEF AddRows, TypeOK
  <2>4. \A q \in Requests : \A a \in mine'[q].alerts : keyedAt[a.id] # 0
    BY <1>0, <2>1, <2>3
  <2>5. \A q \in Requests :
          /\ pc'[q] = "idle" => pc[q] = "idle"
          /\ pc'[q] \in {"maintenance", "incident"} => keyedAt[<<q, pos'[q]>>] # 0
    <3>1. CASE pc' = [pc EXCEPT ![r] = "notify"] /\ UNCHANGED pos
      BY <1>0, <3>1 DEF Current, TypeOK
    <3>2. CASE Advance(r)
      BY <1>0, <2>1, <3>2, AdvanceOK DEF Current
    <3> QED
      BY <2>1, <3>1, <3>2
  <2> QED
    BY <2>1, <2>4, <2>5, KeysUntouched
<1>5. ASSUME NEW r \in Requests, NotifyNewIncident(r) PROVE KeysOK'
  <2>1. /\ pc[r] = "notify" /\ pc[r] # "idle" /\ Advance(r)
        /\ UNCHANGED <<batch, mine, tables, redis>>
    BY <1>5 DEF NotifyNewIncident
  <2>2. \A q \in Requests :
          /\ pc'[q] = "idle" => pc[q] = "idle"
          /\ pc'[q] \in {"maintenance", "incident"} => keyedAt[<<q, pos'[q]>>] # 0
    BY <1>0, <2>1, AdvanceOK DEF Current
  <2> QED
    BY <1>0, <2>1, <2>2, KeysUntouched
<1>6. ASSUME NEW r \in Requests, Commit(r) PROVE KeysOK'
  <2>1. /\ pc' = [pc EXCEPT ![r] = "committed"]
        /\ alerts' = alerts \cup mine[r].alerts
        /\ mine' = [mine EXCEPT ![r] = NoRows]
        /\ UNCHANGED <<batch, pos, dedup, expiries, keyedAt>>
    BY <1>6 DEF Commit
  <2>2. \A i \in Ids : Payload(i)' = Payload(i) /\ i[1] \in Requests
    BY <2>1 DEF Payload, Ids
  <2>3. KeyInv'
    BY <2>1, <2>2 DEF KeysOK, KeyInv, TypeOK
  <2>4. KeyUnique'
    BY <2>1, <2>2 DEF KeysOK, KeyUnique
  <2>5. RowsKeyed'
    BY <1>0, <2>1 DEF RowsKeyed, TypeOK, NoRows, Current
  <2> QED
    BY <2>3, <2>4, <2>5 DEF KeysOK
<1>7. ASSUME NEW r \in Requests, Abort(r) PROVE KeysOK'
  <2>1. /\ pc' = [pc EXCEPT ![r] = "aborted"]
        /\ mine' = [mine EXCEPT ![r] = NoRows]
        /\ UNCHANGED <<batch, pos, alerts, dedup, expiries, keyedAt>>
    BY <1>7 DEF Abort
  <2>2. \A q \in Requests :
          /\ pc'[q] = "idle" => pc[q] = "idle"
          /\ pc'[q] \in {"maintenance", "incident"} => keyedAt[<<q, pos'[q]>>] # 0
          /\ \A a \in mine'[q].alerts : keyedAt[a.id] # 0
    BY <1>0, <2>1 DEF TypeOK, NoRows, Current
  <2> QED
    BY <2>1, <2>2, KeysUntouched
<1>8. ASSUME NEW f \in Fingerprints, ExpireKey(f) PROVE KeysOK'
  <2>1. /\ dedup' = dedup \ {f} /\ expiries' = [expiries EXCEPT ![f] = @ + 1]
        /\ UNCHANGED <<pc, batch, pos, mine, alerts, keyedAt>>
    BY <1>8 DEF ExpireKey
  <2>2. \A i \in Ids : Payload(i)' = Payload(i) /\ i[1] \in Requests
    BY <2>1 DEF Payload, Ids
  <2>3. KeyInv'
    <3> SUFFICES ASSUME NEW i \in Ids, keyedAt[i] # 0
                 PROVE  /\ pc[i[1]] # "idle"
                        /\ i[2] <= Len(batch[i[1]])
                        /\ keyedAt[i] <= expiries'[Fingerprint(Payload(i))] + 1
                        /\ keyedAt[i] = expiries'[Fingerprint(Payload(i))] + 1
                             => Fingerprint(Payload(i)) \in dedup'
      BY <2>1, <2>2 DEF KeyInv
    <3> DEFINE g == Fingerprint(Payload(i))
    <3>1. /\ pc[i[1]] # "idle" /\ i[2] <= Len(batch[i[1]])
          /\ keyedAt[i] <= expiries[g] + 1
          /\ keyedAt[i] = expiries[g] + 1 => g \in dedup
      BY DEF KeysOK, KeyInv
    <3>2. g \in Fingerprints
      <4>1. /\ batch[i[1]] \in Batches /\ i[2] \in 1..Len(batch[i[1]])
        BY <3>1, PayloadAssumption DEF TypeOK, Ids
      <4>2. Payload(i) \in Payloads
        BY <4>1, PayloadAssumption DEF Payload
      <4> QED
        BY <4>2 DEF Fingerprints
    <3> HIDE DEF g
    <3>3. keyedAt[i] \in Nat /\ expiries[g] \in Nat
      BY <3>2 DEF TypeOK
    <3>4. /\ keyedAt[i] <= expiries'[g] + 1
          /\ keyedAt[i] = expiries'[g] + 1 => g \in dedup'
      <4>1. CASE g = f
        <5>1. expiries'[g] = expiries[g] + 1
          BY <2>1, <3>2, <4>1 DEF TypeOK
        <5> QED
          BY <3>1, <3>3, <5>1
      <4>2. CASE g # f
        <5>1. expiries'[g] = expiries[g] /\ (g \in dedup => g \in dedup')
          BY <2>1, <3>2, <4>2 DEF TypeOK
        <5> QED
          BY <3>1, <3>3, <5>1
      <4> QED
        BY <4>1, <4>2
    <3> QED
      BY <3>1, <3>4 DEF g
  <2>4. KeyUnique'
    BY <2>1, <2>2 DEF KeysOK, KeyUnique
  <2>5. RowsKeyed'
    BY <1>0, <2>1 DEF RowsKeyed, Current
  <2> QED
    BY <2>3, <2>4, <2>5 DEF KeysOK
<1>9. ASSUME NEW i \in Ids, NEW t \in {"open", "resolved"}, TransitionStatus(i, t)
      PROVE  KeysOK'
  <2>1. UNCHANGED <<pc, pos, mine, dedup, expiries, keyedAt, alerts, batch>>
    BY <1>9 DEF TransitionStatus
  <2> QED
    BY <1>0, <2>1, KeysUntouched DEF Current
<1>10. ASSUME NEW w \in Windows, NEW t \in WindowStates, MoveWindow(w, t) PROVE KeysOK'
  <2>1. UNCHANGED <<pc, pos, mine, dedup, expiries, keyedAt, alerts, batch>>
    BY <1>10 DEF MoveWindow
  <2> QED
    BY <1>0, <2>1, KeysUntouched DEF Current
<1>11. ASSUME NEW c \in Configs, CreateConfig(c) \/ DeleteConfig(c) PROVE KeysOK'
  <2>1. UNCHANGED <<pc, pos, mine, dedup, expiries, keyedAt, alerts, batch>>
    BY <1>11 DEF CreateConfig, DeleteConfig
  <2> QED
    BY <1>0, <2>1, KeysUntouched DEF Current
<1>12. CASE UNCHANGED vars
  <2>1. UNCHANGED <<pc, pos, mine, dedup, expiries, keyedAt, alerts, batch>>
    BY <1>12 DEF vars
  <2> QED
    BY <1>0, <2>1, KeysUntouched DEF Current
<1> QED
  BY <1>1, <1>2, <1>3, <1>4, <1>5, <1>6, <1>7, <1>8, <1>9, <1>10, <1>11, <1>12 DEF Next

\* Within one life of a Redis key at most one alert of its fingerprint is
\* stored: is_duplicate's SET NX decides every race.
THEOREM OneAlertPerWindowAlways == Spec => []OneAlertPerWindow
<1>1. KeysOK /\ TypeOK => OneAlertPerWindow
  <2> SUFFICES ASSUME KeysOK, TypeOK, NEW a \in alerts, NEW b \in alerts, a.id # b.id,
                      Fingerprint(Payload(a.id)) = Fingerprint(Payload(b.id))
               PROVE  keyedAt[a.id] # keyedAt[b.id]
    BY DEF OneAlertPerWindow
  <2>1. a.id \in Ids /\ b.id \in Ids
    BY DEF TypeOK, Alert
  <2>2. keyedAt[a.id] # 0 /\ keyedAt[b.id] # 0
    BY DEF KeysOK, RowsKeyed
  <2> QED
    BY <2>1, <2>2 DEF KeysOK, KeyUnique
<1> QED
  BY <1>1, InitTypeOK, NextTypeOK, InitKeysOK, NextKeysOK, PTL DEF Spec

-------------------------------------------------------------------------
\* The incidents.

\* Rows of incidents, committed or not.
Exists(i) == i \in Committed \/ i \in mine[i[1]].incidents

SameService(i, j) == Payload(i).service_name = Payload(j).service_name

\* Who may have created what, and which requests r came after.
OriginInv ==
  /\ \A r \in Requests : \A i \in mine[r].incidents : i[1] = r
  /\ \A i \in Committed : pc[i[1]] = "committed"
  /\ \A r \in Requests : \A p \in after[r] : pc[p] = "committed"
  /\ \A i \in Ids : status[i] = "resolved" => i \in resolved

\* An alert's incident is committed or will be with the alert.
LinkInv ==
  /\ \A a \in alerts : a.incident_id # NULL => a.incident_id \in Committed
  /\ \A r \in Requests : \A a \in mine[r].alerts :
       a.incident_id # NULL => a.incident_id \in Committed \cup mine[r].incidents

\* One request opens at most one incident per service.
DistinctInv ==
  \A i, j \in Ids :
    i # j /\ i[1] = j[1] /\ Exists(i) /\ Exists(j) => ~SameService(i, j)

\* A request that opens an incident saw none of those committed before it
\* arrived open: the ones of the same service had been resolved.
OverlapInv ==
  \A i \in Committed, j \in Ids :
    Exists(j) /\ i[1] \in after[j[1]] /\ SameService(i, j) => i \in resolved

IncidentsOK == OriginInv /\ LinkInv /\ DistinctInv /\ OverlapInv

-------------------------------------------------------------------------
\* No incident exists at first.
LEMMA InitIncidentsOK == Init => IncidentsOK
<1> SUFFICES ASSUME Init PROVE IncidentsOK
  OBVIOUS
<1>1. /\ Committed = {} /\ \A r \in Requests : mine[r] = NoRows
      /\ \A i \in Ids : i[1] \in Requests
  BY DEF Init, Committed, Ids
<1>2. \A i \in Ids : ~Exists(i)
  BY <1>1 DEF Exists, NoRows
<1> QED
  BY <1>1, <1>2 DEF Init, IncidentsOK, OriginInv, LinkInv, DistinctInv,
                    OverlapInv, NoRows

\* Steps that create, commit and resolve no incident.
LEMMA IncidentsUntouched ==
  ASSUME TypeOK, IncidentsOK,
         UNCHANGED <<status, resolved, batch, after, alerts>>,
         \A r \in Requests :
           /\ mine'[r].incidents = mine[r].incidents
           /\ pc[r] = "committed" => pc'[r] = "committed"
           /\ \A a \in mine'[r].alerts :
                a.incident_id # NULL => a.incident_id \in Committed \cup mine[r].incidents
  PROVE  IncidentsOK'
<1>1. /\ Committed' = Committed
      /\ \A i \in Ids : i[1] \in Requests /\ (Exists(i)' <=> Exists(i))
      /\ \A i, j \in Ids : SameService(i, j)' <=> SameService(i, j)
  BY DEF Committed, Ids, Exists, SameService, Payload
<1>2. OriginInv'
  <2>1. \A i \in Committed : i \in Ids
    BY DEF Committed
  <2>2. \A r \in Requests : \A p \in after[r] : p \in Requests
    BY DEF TypeOK
  <2> QED
    BY <1>1, <2>1, <2>2 DEF IncidentsOK, OriginInv
<1>4. LinkInv'
  BY <1>1 DEF IncidentsOK, LinkInv
<1>5. DistinctInv'
  BY <1>1 DEF IncidentsOK, DistinctInv
<1>6. OverlapInv'
  <2>1. Committed \subseteq Ids
    BY DEF Committed
  <2> QED
    BY <1>1, <2>1 DEF IncidentsOK, OverlapInv
<1> QED
  BY <1>2, <1>4, <1>5, <1>6 DEF IncidentsOK

\* The rows of a session after it added those of its current alert.
LEMMA AddRowsOK ==
  ASSUME TypeOK, NEW r \in Requests, NEW i, NEW created \in BOOLEAN, AddRows(r, i, created)
  PROVE  /\ mine'[r].alerts = mine[r].alerts \cup {[id |-> Current(r), incident_id |-> i]}
         /\ mine'[r].incidents = IF created THEN mine[r].incidents \cup {i}
                                            ELSE mine[r].incidents
         /\ \A q \in Requests \ {r} : mine'[q] = mine[q]
BY DEF AddRows, TypeOK

\* The step that opens an incident.
LEMMA CreatePreserves ==
  ASSUME TypeOK, IncidentsOK, NEW r \in Requests, pc[r] = "incident",
         OpenIncidents(r, Payload(Current(r)).service_name) = {},
         AddRows(r, Current(r), TRUE),
         pc' = [pc EXCEPT ![r] = "notify"],
         UNCHANGED <<pos, batch, tables, after>>
  PROVE  IncidentsOK'
<1> USE DEF tables
<1> DEFINE c == Current(r)
<1>1. /\ c \in Ids /\ c[1] = r /\ Payload(c).service_name \in Services
  BY CurrentOK DEF Current
<1>2. /\ mine'[r].alerts = mine[r].alerts \cup {[id |-> c, incident_id |-> c]}
      /\ mine'[r].incidents = mine[r].incidents \cup {c}
      /\ \A q \in Requests \ {r} : mine'[q] = mine[q]
  BY AddRowsOK
<1>3. /\ Committed' = Committed /\ Committed \subseteq Ids
      /\ \A i \in Ids : i[1] \in Requests
      /\ \A i \in Ids : Exists(i)' => Exists(i) \/ i = c
      /\ \A i, j \in Ids : SameService(i, j)' <=> SameService(i, j)
  BY <1>1, <1>2 DEF Committed, Ids, Exists, SameService, Payload
<1>4. ASSUME NEW i \in Ids, Visible(r, i), SameService(i, c)
      PROVE  status[i] = "resolved"
  BY <1>1, <1>4, LikeAssumption DEF OpenIncidents, SameService
<1>5. \A i \in Ids : i[1] = r => i \notin Committed /\ status[i] # "resolved"
  BY DEF IncidentsOK, OriginInv, Committed
<1>6. OriginInv'
  <2>1. \A i \in Committed : i \in Ids
    BY DEF Committed
  <2>2. \A q \in Requests : \A p \in after[q] : p \in Requests
    BY DEF TypeOK
  <2>3. \A q \in Requests : pc[q] = "committed" => pc'[q] = "committed"
    BY DEF TypeOK
  <2> QED
    BY <1>1, <1>2, <1>3, <2>1, <2>2, <2>3 DEF IncidentsOK, OriginInv
<1>8. LinkInv'
  BY <1>1, <1>2, <1>3 DEF IncidentsOK, LinkInv
<1>9. ASSUME NEW i \in Ids, i # c, i[1] = r, Exists(i) PROVE ~SameService(i, c)
  <2>1. Visible(r, i)
    BY <1>9 DEF Exists, Visible
  <2> QED
    BY <1>4, <1>5, <1>9, <2>1
<1>10. DistinctInv'
  <2> SUFFICES ASSUME NEW i \in Ids, NEW j \in Ids, i # j, i[1] = j[1],
                      Exists(i)', Exists(j)'
               PROVE  ~SameService(i, j)
    BY <1>3 DEF DistinctInv
  <2>1. CASE i = c
    BY <1>1, <1>3, <1>9, <2>1 DEF SameService
  <2>2. CASE j = c
    BY <1>1, <1>3, <1>9, <2>2 DEF SameService
  <2>3. CASE i # c /\ j # c
    BY <1>3, <2>3 DEF IncidentsOK, DistinctInv
  <2> QED
    BY <2>1, <2>2, <2>3
<1>11. OverlapInv'
  <2> SUFFICES ASSUME NEW i \in Committed, NEW j \in Ids, Exists(j)',
                      i[1] \in after[j[1]], SameService(i, j)
               PROVE  i \in resolved
    BY <1>3 DEF OverlapInv
  <2>1. CASE j = c
    BY <1>1, <1>3, <1>4, <2>1 DEF Visible, IncidentsOK, OriginInv
  <2>2. CASE j # c
    BY <1>3, <2>2 DEF IncidentsOK, OverlapInv
  <2> QED
    BY <2>1, <2>2
<1> QED
  BY <1>6, <1>8, <1>10, <1>11 DEF IncidentsOK

\* The commit moves a session's rows to the tables, incidents and alerts alike.
LEMMA CommitPreserves ==
  ASSUME TypeOK, IncidentsOK, NEW r \in Requests, Commit(r)
  PROVE  IncidentsOK'
<1>1. /\ pc[r] = "respond" /\ pc' = [pc EXCEPT ![r] = "committed"]
      /\ alerts' = alerts \cup mine[r].alerts
      /\ status' = [i \in Ids |-> IF i \in mine[r].incidents THEN "open" ELSE status[i]]
      /\ mine' = [mine EXCEPT ![r] = NoRows]
      /\ UNCHANGED <<batch, pos, after, resolved>>
  BY DEF Commit, arrival
<1>2. /\ Committed \subseteq Ids /\ mine[r].incidents \subseteq Ids
      /\ \A i \in Ids : i[1] \in Requests
  BY DEF Committed, TypeOK, Rows, Ids
<1>3. /\ mine'[r] = NoRows /\ \A q \in Requests \ {r} : mine'[q] = mine[q]
      /\ pc'[r] = "committed" /\ \A q \in Requests \ {r} : pc'[q] = pc[q]
      /\ NoRows.incidents = {} /\ NoRows.alerts = {}
  BY <1>1 DEF TypeOK, NoRows
<1>4. Committed' = Committed \cup mine[r].incidents
  BY <1>1, <1>2 DEF Committed
<1>5. \A i \in mine[r].incidents : i[1] = r
  BY DEF IncidentsOK, OriginInv
<1>6. /\ \A i \in Ids : Exists(i)' => Exists(i)
      /\ \A i, j \in Ids : SameService(i, j)' <=> SameService(i, j)
  BY <1>1, <1>2, <1>3, <1>4, <1>5 DEF Exists, SameService, Payload
<1>7. OriginInv'
  <2>1. \A q \in Requests : \A p \in after[q] : p \in Requests
    BY DEF TypeOK
  <2>2. \A i \in Ids : status'[i] = "resolved" => status[i] = "resolved"
    BY <1>1
  <2>3. \A q \in Requests : \A i \in mine'[q].incidents : i[1] = q
    BY <1>3 DEF IncidentsOK, OriginInv
  <2>4. \A i \in Committed' : pc'[i[1]] = "committed"
    BY <1>2, <1>3, <1>4, <1>5 DEF IncidentsOK, OriginInv
  <2>5. \A q \in Requests : \A p \in after'[q] : pc'[p] = "committed"
    BY <1>1, <1>3, <2>1 DEF IncidentsOK, OriginInv
  <2>6. \A i \in Ids : status'[i] = "resolved" => i \in resolved'
    BY <1>1, <2>2 DEF IncidentsOK, OriginInv
  <2> QED
    BY <2>3, <2>4, <2>5, <2>6 DEF OriginInv
<1>9. LinkInv'
  <2>1. \A a \in alerts' : a.incident_id # NULL => a.incident_id \in Committed'
    BY <1>1, <1>4 DEF IncidentsOK, LinkInv
  <2>2. \A q \in Requests : \A a \in mine'[q].alerts :
          a.incident_id # NULL => a.incident_id \in Committed' \cup mine'[q].incidents
    BY <1>3, <1>4 DEF IncidentsOK, LinkInv
  <2> QED
    BY <2>1, <2>2 DEF LinkInv
<1>10. DistinctInv'
  BY <1>6 DEF IncidentsOK, DistinctInv
<1>11. OverlapInv'
  <2> SUFFICES ASSUME NEW i \in Committed', NEW j \in Ids, Exists(j)',
                      i[1] \in after[j[1]], SameService(i, j)
               PROVE  i \in resolved
    BY <1>1, <1>2, <1>4, <1>6 DEF OverlapInv
  <2>1. i \in Committed
    <3>1. i[1] # r
      BY <1>1, <1>2 DEF IncidentsOK, OriginInv
    <3> QED
      BY <1>4, <1>5, <3>1
  <2> QED
    BY <1>6, <2>1 DEF IncidentsOK, OverlapInv
<1> QED
  BY <1>7, <1>9, <1>10, <1>11 DEF IncidentsOK

\* A rollback only takes uncommitted rows away, and a request that arrives
\* has none.
LEMMA RestartPreserves ==
  ASSUME TypeOK, IncidentsOK, NEW r \in Requests, pc[r] # "committed", pc'[r] # "committed",
         \A q \in Requests \ {r} :
           /\ pc'[q] = pc[q] /\ batch'[q] = batch[q] /\ after'[q] = after[q]
           /\ pos'[q] = pos[q] /\ mine'[q] = mine[q],
         mine'[r] = NoRows,
         \A p \in after'[r] : pc[p] = "committed" /\ p \in Requests,
         UNCHANGED <<status, resolved, alerts>>
  PROVE  IncidentsOK'
<1>1. /\ Committed' = Committed /\ Committed \subseteq Ids
      /\ \A i \in Ids : i[1] \in Requests
      /\ NoRows.incidents = {} /\ NoRows.alerts = {}
  BY DEF Committed, Ids, NoRows
<1>2. ASSUME NEW i \in Ids, Exists(i)'
      PROVE  i[1] # r /\ Exists(i) /\ Payload(i)' = Payload(i)
  <2>1. i[1] # r
    BY <1>1, <1>2 DEF Exists, IncidentsOK, OriginInv
  <2> QED
    BY <1>1, <1>2, <2>1 DEF Exists, Payload
<1>3. OriginInv'
  <2>1. \A q \in Requests : \A p \in after[q] : p \in Requests
    BY DEF TypeOK
  <2>2. \A q \in Requests : \A i \in mine'[q].incidents : i[1] = q
    BY <1>1 DEF IncidentsOK, OriginInv
  <2>3. \A p \in Requests : pc[p] = "committed" => pc'[p] = "committed"
    OBVIOUS
  <2>4. \A i \in Committed' : pc'[i[1]] = "committed"
    BY <1>1, <2>3 DEF IncidentsOK, OriginInv
  <2>5. \A q \in Requests : \A p \in after'[q] : pc'[p] = "committed"
    BY <2>1, <2>3 DEF IncidentsOK, OriginInv
  <2> QED
    BY <2>2, <2>4, <2>5 DEF IncidentsOK, OriginInv
<1>5. LinkInv'
  BY <1>1 DEF IncidentsOK, LinkInv
<1>6. DistinctInv'
  BY <1>2 DEF IncidentsOK, DistinctInv, SameService
<1>7. OverlapInv'
  <2> SUFFICES ASSUME NEW i \in Committed, NEW j \in Ids, Exists(j)',
                      i[1] \in after'[j[1]], SameService(i, j)'
               PROVE  i \in resolved
    BY <1>1 DEF OverlapInv
  <2>1. j[1] # r /\ Exists(j) /\ Payload(j)' = Payload(j) /\ j[1] \in Requests
    BY <1>1, <1>2
  <2>2. i \in Ids /\ Payload(i)' = Payload(i)
    BY <1>1, <1>2 DEF Exists
  <2>3. i[1] \in after[j[1]] /\ SameService(i, j)
    BY <2>1, <2>2 DEF SameService
  <2> QED
    BY <2>1, <2>3 DEF IncidentsOK, OverlapInv
<1> QED
  BY <1>3, <1>5, <1>6, <1>7 DEF IncidentsOK

\* A status request changes an incident's status and remembers that it did.
LEMMA ResolvePreserves ==
  ASSUME TypeOK, IncidentsOK, NEW i \in Ids, NEW t \in {"open", "resolved"},
         TransitionStatus(i, t)
  PROVE  IncidentsOK'
<1>1. /\ i \in Committed /\ status' = [status EXCEPT ![i] = t]
      /\ resolved' = resolved \cup {i}
      /\ UNCHANGED <<pc, batch, pos, mine, alerts, after>>
  BY DEF TransitionStatus, arrival
<1>2. /\ Committed' = Committed /\ Committed \subseteq Ids
      /\ \A j \in Ids : Exists(j)' <=> Exists(j)
      /\ \A j, k \in Ids : SameService(j, k)' <=> SameService(j, k)
  <2>1. Committed' = Committed
    BY <1>1 DEF Committed, TypeOK
  <2> QED
    BY <1>1, <2>1 DEF Committed, Exists, SameService, Payload
<1>3. \A j \in Ids : status'[j] = "resolved" => j \in resolved'
  BY <1>1 DEF IncidentsOK, OriginInv, TypeOK
<1>4. OriginInv' /\ LinkInv'
  BY <1>1, <1>2, <1>3 DEF IncidentsOK, OriginInv, LinkInv
<1>5. DistinctInv' /\ OverlapInv'
  BY <1>1, <1>2 DEF IncidentsOK, DistinctInv, OverlapInv
<1> QED
  BY <1>4, <1>5 DEF IncidentsOK

-------------------------------------------------------------------------
\* Every step preserves what is known of incidents.
LEMMA NextIncidentsOK ==
  ASSUME TypeOK, IncidentsOK, [Next]_vars
  PROVE  IncidentsOK'
<1> USE DEF tables, redis, slack, arrival
<1>0. \A r \in Requests : \A a \in mine[r].alerts :
        a.incident_id # NULL => a.incident_id \in Committed \cup mine[r].incidents
  BY DEF IncidentsOK, LinkInv
<1>1. ASSUME NEW r \in Requests, NEW b \in Batches, Receive(r, b) PROVE IncidentsOK'
  <2>1. /\ pc[r] # "committed" /\ pc'[r] # "committed" /\ mine[r] = NoRows
        /\ mine' = mine
        /\ \A p \in after'[r] : pc[p] = "committed" /\ p \in Requests
    BY <1>1 DEF Receive, TypeOK, Working
  <2>2. \A q \in Requests \ {r} :
          /\ pc'[q] = pc[q] /\ batch'[q] = batch[q] /\ after'[q] = after[q]
          /\ pos'[q] = pos[q]
    BY <1>1 DEF Receive, TypeOK
  <2>3. UNCHANGED <<status, resolved, alerts>>
    BY <1>1 DEF Receive
  <2> QED
    BY <2>1, <2>2, <2>3, RestartPreserves
<1>2. ASSUME NEW r \in Requests, CheckDuplicate(r) PROVE IncidentsOK'
  <2>1. /\ pc[r] = "dedup" /\ pc[r] # "idle"
        /\ UNCHANGED <<batch, mine, tables, after>>
        /\ \/ Advance(r)
           \/ pc' = [pc EXCEPT ![r] = "maintenance"] /\ UNCHANGED pos
    BY <1>2 DEF CheckDuplicate
  <2>2. \A q \in Requests :
          pc[q] = "committed" => pc'[q] = "committed"
    <3>1. CASE Advance(r)
      BY <2>1, <3>1, AdvanceOK DEF Current
    <3>2. CASE pc' = [pc EXCEPT ![r] = "maintenance"] /\ UNCHANGED pos
      BY <2>1, <3>2 DEF Current, TypeOK
    <3> QED
      BY <2>1, <3>1, <3>2
  <2> QED
    BY <1>0, <2>1, <2>2, IncidentsUntouched
<1>3. ASSUME NEW r \in Requests, CheckMaintenance(r) PROVE IncidentsOK'
  <2> DEFINE x == [id |-> Current(r), incident_id |-> NULL]
  <2>1. /\ pc[r] = "maintenance" /\ pc[r] # "idle"
        /\ UNCHANGED <<batch, tables, after>>
    BY <1>3 DEF CheckMaintenance
  <2>2. CASE mine' = [mine EXCEPT ![r].alerts = @ \cup {x}] /\ Advance(r)
    <3>1. /\ mine'[r].alerts = mine[r].alerts \cup {x}
          /\ mine'[r].incidents = mine[r].incidents
          /\ \A q \in Requests \ {r} : mine'[q] = mine[q]
      <4>1. mine[r] \in Rows
        BY DEF TypeOK
      <4> HIDE DEF x
      <4> QED
        BY <2>2, <4>1 DEF TypeOK, Rows
    <3>2. x.incident_id = NULL
      OBVIOUS
    <3> HIDE DEF x
    <3>3. \A q \in Requests :
            /\ mine'[q].incidents = mine[q].incidents
            /\ \A a \in mine'[q].alerts :
                 a.incident_id # NULL => a.incident_id \in Committed \cup mine[q].incidents
      BY <1>0, <3>1, <3>2
    <3>4. \A q \in Requests :
            pc[q] = "committed" => pc'[q] = "committed"
      BY <2>1, <2>2, AdvanceOK DEF Current
    <3> QED
      BY <2>1, <3>3, <3>4, IncidentsUntouched
  <2>3. CASE pc' = [pc EXCEPT ![r] = "incident"] /\ UNCHANGED <<mine, pos>>
    <3>1. \A q \in Requests :
            pc[q] = "committed" => pc'[q] = "committed"
      BY <2>1, <2>3 DEF Current, TypeOK
    <3> QED
      BY <1>0, <2>1, <2>3, <3>1, IncidentsUntouched
  <2> QED
    BY <1>3, <2>2, <2>3 DEF CheckMaintenance
<1>4. ASSUME NEW r \in Requests, FindOrCreateIncident(r) PROVE IncidentsOK'
  <2> DEFINE open == OpenIncidents(r, Payload(Current(r)).service_name)
  <2>1. /\ pc[r] = "incident" /\ pc[r] # "idle"
        /\ UNCHANGED <<batch, tables, after>>
        /\ \/ /\ open = {} /\ AddRows(r, Current(r), TRUE)
              /\ pc' = [pc EXCEPT ![r] = "notify"] /\ UNCHANGED pos
           \/ (\E i \in open : AddRows(r, i, FALSE)) /\ Advance(r)
    BY <1>4 DEF FindOrCreateIncident
  <2>2. CASE /\ open = {} /\ AddRows(r, Current(r), TRUE)
             /\ pc' = [pc EXCEPT ![r] = "notify"] /\ UNCHANGED pos
    BY <2>1, <2>2, CreatePreserves
  <2>3. CASE (\E i \in open : AddRows(r, i, FALSE)) /\ Advance(r)
    <3>1. PICK i \in open : AddRows(r, i, FALSE)
      BY <2>3
    <3>2. i \in Committed \cup mine[r].incidents
      BY DEF OpenIncidents, Visible
    <3> HIDE DEF open
    <3>3. /\ mine'[r].alerts = mine[r].alerts \cup {[id |-> Current(r), incident_id |-> i]}
          /\ mine'[r].incidents = mine[r].incidents
          /\ \A q \in Requests \ {r} : mine'[q] = mine[q]
      BY <3>1, AddRowsOK
    <3>4. \A q \in Requests :
            /\ mine'[q].incidents = mine[q].incidents
            /\ \A a \in mine'[q].alerts :
                 a.incident_id # NULL => a.incident_id \in Committed \cup mine[q].incidents
      BY <1>0, <3>2, <3>3
    <3>5. \A q \in Requests :
            pc[q] = "committed" => pc'[q] = "committed"
      BY <2>1, <2>3, AdvanceOK DEF Current
    <3> QED
      BY <2>1, <3>4, <3>5, IncidentsUntouched
  <2> QED
    BY <2>1, <2>2, <2>3
<1>5. ASSUME NEW r \in Requests, NotifyNewIncident(r) PROVE IncidentsOK'
  <2>1. /\ pc[r] = "notify" /\ pc[r] # "idle" /\ Advance(r)
        /\ UNCHANGED <<batch, mine, tables, after>>
    BY <1>5 DEF NotifyNewIncident
  <2>2. \A q \in Requests : pc[q] = "committed" => pc'[q] = "committed"
    BY <2>1, AdvanceOK
  <2> QED
    BY <1>0, <2>1, <2>2, IncidentsUntouched
<1>6. ASSUME NEW r \in Requests, Commit(r) PROVE IncidentsOK'
  BY <1>6, CommitPreserves
<1>7. ASSUME NEW r \in Requests, Abort(r) PROVE IncidentsOK'
  <2>1. /\ pc[r] # "committed" /\ pc'[r] # "committed"
        /\ mine'[r] = NoRows
        /\ \A q \in Requests \ {r} : pc'[q] = pc[q] /\ mine'[q] = mine[q]
        /\ UNCHANGED <<batch, pos, after, status, resolved, alerts>>
    BY <1>7 DEF Abort, TypeOK, Working
  <2>2. \A p \in after'[r] : pc[p] = "committed" /\ p \in Requests
    BY <2>1 DEF IncidentsOK, OriginInv, TypeOK
  <2> QED
    BY <2>1, <2>2, RestartPreserves
<1>8. ASSUME NEW f \in Fingerprints, ExpireKey(f) PROVE IncidentsOK'
  <2>1. UNCHANGED <<pc, batch, pos, mine, tables, after>>
    BY <1>8 DEF ExpireKey
  <2> QED
    BY <1>0, <2>1, IncidentsUntouched DEF Current
<1>9. ASSUME NEW i \in Ids, NEW t \in {"open", "resolved"}, TransitionStatus(i, t)
      PROVE  IncidentsOK'
  BY <1>9, ResolvePreserves
<1>10. ASSUME NEW w \in Windows, NEW t \in WindowStates, MoveWindow(w, t)
       PROVE  IncidentsOK'
  <2>1. UNCHANGED <<pc, batch, pos, mine, tables, after>>
    BY <1>10 DEF MoveWindow
  <2> QED
    BY <1>0, <2>1, IncidentsUntouched DEF Current
<1>11. ASSUME NEW c \in Configs, CreateConfig(c) \/ DeleteConfig(c) PROVE IncidentsOK'
  <2>1. UNCHANGED <<pc, batch, pos, mine, tables, after>>
    BY <1>11 DEF CreateConfig, DeleteConfig
  <2> QED
    BY <1>0, <2>1, IncidentsUntouched
<1>12. CASE UNCHANGED vars
  <2>1. UNCHANGED <<pc, batch, pos, mine, tables, after>>
    BY <1>12 DEF vars
  <2> QED
    BY <1>0, <2>1, IncidentsUntouched
<1> QED
  BY <1>1, <1>2, <1>3, <1>4, <1>5, <1>6, <1>7, <1>8, <1>9, <1>10, <1>11, <1>12 DEF Next

\* The incident invariant holds in every reachable state.
LEMMA SpecIncidentsOK == Spec => [](TypeOK /\ IncidentsOK)
BY InitTypeOK, NextTypeOK, InitIncidentsOK, NextIncidentsOK, PTL DEF Spec

\* A stored alert's incident is in the database.
THEOREM NoDanglingLinkAlways == Spec => []NoDanglingLink
<1>1. IncidentsOK => NoDanglingLink
  BY DEF IncidentsOK, LinkInv, NoDanglingLink
<1> QED
  BY <1>1, SpecIncidentsOK, PTL

-------------------------------------------------------------------------
(***************************************************************************)
(* What the webhooks were told.  A webhook that was there when a request   *)
(* arrived and has not been deleted is there at every notify_new_incident  *)
(* of it, and an incident waits for its call only while the request is     *)
(* about to make it: never while it commits.                               *)
(***************************************************************************)
AnnounceInv ==
  /\ \A r \in Requests : \A c \in known[r] : config[c] # "absent"
  /\ \A i \in Committed : Announced(i)
  /\ \A r \in Requests : \A i \in mine[r].incidents :
       Announced(i) \/ (pc[r] = "notify" /\ i = Current(r))

LEMMA InitAnnounceInv == Init => AnnounceInv
<1> SUFFICES ASSUME Init PROVE AnnounceInv
  OBVIOUS
<1>1. Committed = {}
  BY DEF Init, Committed
<1> QED
  BY <1>1 DEF Init, AnnounceInv, NoRows

\* Steps that leave the webhooks alone and open no incident but the one the
\* request is about to announce.
LEMMA AnnounceQuiet ==
  ASSUME TypeOK, AnnounceInv, UNCHANGED <<config, announced, known>>,
         \A i \in Committed' : i \in Committed,
         \A r \in Requests : \A i \in mine'[r].incidents :
           \/ i \in mine[r].incidents /\ (pc[r] = "notify" => pc'[r] = "notify" /\ pos'[r] = pos[r])
           \/ pc'[r] = "notify" /\ i = <<r, pos'[r]>>
  PROVE  AnnounceInv'
<1>1. \A i : Announced(i)' <=> Announced(i)
  BY DEF Announced, ActiveConfigs
<1>2. (\A r \in Requests : \A c \in known[r] : config[c] # "absent")'
  BY DEF AnnounceInv
<1>3. (\A i \in Committed : Announced(i))'
  BY <1>1 DEF AnnounceInv
<1>4. ASSUME NEW r \in Requests, NEW i \in mine'[r].incidents
      PROVE  Announced(i)' \/ (pc'[r] = "notify" /\ i = <<r, pos'[r]>>)
  <2>1. CASE i \in mine[r].incidents /\ Announced(i)
    BY <1>1, <2>1
  <2>2. CASE /\ i \in mine[r].incidents /\ pc[r] = "notify" /\ i = Current(r)
             /\ pc'[r] = "notify" /\ pos'[r] = pos[r]
    BY <2>2 DEF Current
  <2>3. CASE pc'[r] = "notify" /\ i = <<r, pos'[r]>>
    BY <2>3
  <2> QED
    BY <2>1, <2>2, <2>3 DEF AnnounceInv
<1> QED
  BY <1>2, <1>3, <1>4 DEF AnnounceInv, Current

\* Every step preserves it.
LEMMA NextAnnounceInv ==
  ASSUME TypeOK, IncidentsOK, AnnounceInv, [Next]_vars
  PROVE  AnnounceInv'
<1> USE DEF tables, redis, slack, arrival
<1>0. /\ \A r \in Requests : \A i \in mine[r].incidents : i \in Ids /\ i[1] = r
      /\ \A i \in Committed : i \in Ids /\ i[1] \in Requests /\ pc[i[1]] = "committed"
      /\ \A r \in Requests : pc[r] \notin Working => mine[r].incidents = {}
  BY DEF IncidentsOK, OriginInv, TypeOK, Rows, Committed, NoRows, Ids
<1>1. ASSUME NEW r \in Requests, NEW b \in Batches, Receive(r, b) PROVE AnnounceInv'
  <2>1. /\ pc[r] \in {"idle", "aborted"} /\ UNCHANGED <<mine, status, config>>
        /\ known' = [known EXCEPT ![r] = ActiveConfigs]
        /\ announced' = {a \in announced : a[1][1] # r}
        /\ mine[r].incidents = {}
        /\ \A q \in Requests \ {r} : pc'[q] = pc[q] /\ pos'[q] = pos[q]
    BY <1>0, <1>1 DEF Receive, TypeOK, Working
  <2>2. ASSUME NEW i \in Ids, i[1] \in Requests, i[1] # r, Announced(i) PROVE Announced(i)'
    BY <2>1, <2>2 DEF Announced, ActiveConfigs, TypeOK
  <2>3. (\A q \in Requests : \A c \in known[q] : config[c] # "absent")'
    BY <2>1 DEF AnnounceInv, TypeOK, ActiveConfigs
  <2>4. (\A i \in Committed : Announced(i))'
    BY <1>0, <2>1, <2>2 DEF AnnounceInv, Committed
  <2>5. (\A q \in Requests : \A i \in mine[q].incidents :
           Announced(i) \/ (pc[q] = "notify" /\ i = Current(q)))'
    BY <1>0, <2>1, <2>2 DEF AnnounceInv, Current
  <2> QED
    BY <2>3, <2>4, <2>5 DEF AnnounceInv
<1>2. ASSUME NEW r \in Requests, CheckDuplicate(r) PROVE AnnounceInv'
  <2>1. /\ pc[r] = "dedup" /\ UNCHANGED <<mine, status, config, announced, known>>
        /\ \A q \in Requests \ {r} : pc'[q] = pc[q] /\ pos'[q] = pos[q]
    BY <1>2, AdvanceOK DEF CheckDuplicate, TypeOK
  <2>2. Committed' = Committed
    BY <2>1 DEF Committed
  <2> QED
    BY <2>1, <2>2, AnnounceQuiet
<1>3. ASSUME NEW r \in Requests, CheckMaintenance(r) PROVE AnnounceInv'
  <2>1. /\ pc[r] = "maintenance" /\ UNCHANGED <<status, config, announced, known>>
        /\ \A q \in Requests \ {r} : pc'[q] = pc[q] /\ pos'[q] = pos[q]
    BY <1>3, AdvanceOK DEF CheckMaintenance, TypeOK
  <2>2. \A q \in Requests : mine'[q].incidents = mine[q].incidents
    <3> DEFINE x == [id |-> Current(r), incident_id |-> NULL]
    <3>1. mine' = [mine EXCEPT ![r].alerts = @ \cup {x}] \/ mine' = mine
      BY <1>3 DEF CheckMaintenance
    <3> HIDE DEF x
    <3>2. mine[r] \in Rows /\ mine \in [Requests -> Rows]
      BY DEF TypeOK
    <3>3. mine'[r].incidents = mine[r].incidents
      BY <3>1, <3>2 DEF Rows
    <3>4. \A q \in Requests \ {r} : mine'[q] = mine[q]
      BY <3>1, <3>2
    <3> QED
      BY <3>3, <3>4
  <2>3. Committed' = Committed
    BY <2>1 DEF Committed
  <2> QED
    BY <2>1, <2>2, <2>3, AnnounceQuiet
<1>4. ASSUME NEW r \in Requests, FindOrCreateIncident(r) PROVE AnnounceInv'
  <2>1. pc[r] = "incident" /\ UNCHANGED <<status, config, announced, known>>
    BY <1>4 DEF FindOrCreateIncident
  <2>2. \A q \in Requests \ {r} : pc'[q] = pc[q] /\ pos'[q] = pos[q]
    BY <1>4, AdvanceOK DEF FindOrCreateIncident, TypeOK
  <2>3. Committed' = Committed
    BY <2>1 DEF Committed
  <2>4. CASE AddRows(r, Current(r), TRUE) /\ pc' = [pc EXCEPT ![r] = "notify"] /\ pos' = pos
    <3>1. /\ mine'[r].incidents = mine[r].incidents \cup {Current(r)}
          /\ \A q \in Requests \ {r} : mine'[q] = mine[q]
          /\ pc'[r] = "notify" /\ Current(r) = <<r, pos'[r]>>
      BY <2>4, AddRowsOK DEF TypeOK, Current
    <3> QED
      BY <2>1, <2>2, <2>3, <3>1, AnnounceQuiet
  <2>5. CASE \E i \in Ids : AddRows(r, i, FALSE)
    <3>1. \A q \in Requests : mine'[q].incidents = mine[q].incidents
      BY <2>5, AddRowsOK
    <3> QED
      BY <2>1, <2>2, <2>3, <3>1, AnnounceQuiet
  <2> QED
    BY <1>4, <2>4, <2>5 DEF FindOrCreateIncident, OpenIncidents
<1>5. ASSUME NEW r \in Requests, NotifyNewIncident(r) PROVE AnnounceInv'
  <2>1. /\ pc[r] = "notify" /\ UNCHANGED <<mine, status, config, known>>
        /\ announced' = announced \cup {<<Current(r), c>> : c \in ActiveConfigs}
        /\ \A q \in Requests \ {r} : pc'[q] = pc[q] /\ pos'[q] = pos[q]
    BY <1>5, AdvanceOK DEF NotifyNewIncident
  <2>2. \A i : Announced(i) => Announced(i)'
    BY <2>1 DEF Announced, ActiveConfigs
  <2>3. ASSUME NEW i, i = Current(r) PROVE Announced(i)'
    BY <2>1, <2>3 DEF Announced, ActiveConfigs
  <2>4. (\A q \in Requests : \A c \in known[q] : config[c] # "absent")'
    BY <2>1 DEF AnnounceInv
  <2>5. (\A i \in Committed : Announced(i))'
    BY <2>1, <2>2 DEF AnnounceInv, Committed
  <2>6. ASSUME NEW q \in Requests, NEW i \in mine[q].incidents
        PROVE  Announced(i)' \/ (pc'[q] = "notify" /\ i = <<q, pos'[q]>>)
    <3>1. CASE Announced(i)
      BY <2>2, <3>1
    <3>2. CASE i = Current(q) /\ q = r
      BY <2>3, <3>2
    <3>3. CASE pc[q] = "notify" /\ i = Current(q) /\ q # r
      BY <2>1, <3>3 DEF Current
    <3> QED
      BY <3>1, <3>2, <3>3 DEF AnnounceInv
  <2> QED
    BY <2>1, <2>4, <2>5, <2>6 DEF AnnounceInv, Current
<1>6. ASSUME NEW r \in Requests, Commit(r) PROVE AnnounceInv'
  <2>1. /\ pc[r] = "respond" /\ UNCHANGED <<pos, config, announced, known>>
        /\ status' = [i \in Ids |-> IF i \in mine[r].incidents THEN "open" ELSE status[i]]
        /\ mine'[r].incidents = {}
        /\ \A q \in Requests \ {r} : mine'[q] = mine[q] /\ pc'[q] = pc[q]
    BY <1>6 DEF Commit, TypeOK, NoRows
  <2>2. \A i : Announced(i)' <=> Announced(i)
    BY <2>1 DEF Announced, ActiveConfigs
  <2>3. \A i \in mine[r].incidents : Announced(i)
    BY <2>1 DEF AnnounceInv
  <2>4. \A i \in Committed' : i \in Committed \/ i \in mine[r].incidents
    BY <2>1 DEF Committed
  <2>5. (\A q \in Requests : \A c \in known[q] : config[c] # "absent")'
    BY <2>1 DEF AnnounceInv
  <2>6. (\A i \in Committed : Announced(i))'
    BY <2>2, <2>3, <2>4 DEF AnnounceInv
  <2>7. (\A q \in Requests : \A i \in mine[q].incidents :
           Announced(i) \/ (pc[q] = "notify" /\ i = Current(q)))'
    BY <2>1, <2>2 DEF AnnounceInv, Current
  <2> QED
    BY <2>5, <2>6, <2>7 DEF AnnounceInv
<1>7. ASSUME NEW r \in Requests, Abort(r) PROVE AnnounceInv'
  <2>1. /\ UNCHANGED <<pos, status, config, announced, known>>
        /\ mine'[r].incidents = {}
        /\ \A q \in Requests \ {r} : mine'[q] = mine[q] /\ pc'[q] = pc[q]
    BY <1>7 DEF Abort, TypeOK, NoRows
  <2>2. Committed' = Committed
    BY <2>1 DEF Committed
  <2> QED
    BY <2>1, <2>2, AnnounceQuiet
<1>8. ASSUME UNCHANGED <<pc, pos, mine, config, announced, known>>, Committed' = Committed
      PROVE  AnnounceInv'
  BY <1>8, AnnounceQuiet
<1>9. ASSUME NEW i \in Ids, NEW t \in {"open", "resolved"}, TransitionStatus(i, t)
      PROVE  AnnounceInv'
  BY <1>8, <1>9 DEF TransitionStatus, Committed, TypeOK
<1>10. ASSUME \/ \E f \in Fingerprints : ExpireKey(f)
              \/ \E w \in Windows, t \in WindowStates : MoveWindow(w, t)
              \/ UNCHANGED vars
       PROVE  AnnounceInv'
  BY <1>8, <1>10 DEF ExpireKey, MoveWindow, vars, Committed
<1>11. ASSUME NEW d \in Configs, CreateConfig(d) \/ DeleteConfig(d) PROVE AnnounceInv'
  <2>1. UNCHANGED <<pc, pos, mine, status, announced, known>>
    BY <1>11 DEF CreateConfig, DeleteConfig
  <2>2. \A c \in Configs : config[c] # "absent" =>
          config'[c] # "absent" /\ (config'[c] = "live" => config[c] = "live")
    BY <1>11 DEF CreateConfig, DeleteConfig, TypeOK
  <2>3. \A q \in Requests : \A c \in known[q] : c \in Configs /\ config[c] # "absent"
    BY DEF AnnounceInv, TypeOK
  <2>4. \A i : i[1] \in Requests /\ Announced(i) => Announced(i)'
    BY <2>1, <2>2, <2>3 DEF Announced, ActiveConfigs
  <2>5. (\A q \in Requests : \A c \in known[q] : config[c] # "absent")'
    BY <2>1, <2>2, <2>3
  <2>6. (\A i \in Committed : Announced(i))'
    BY <1>0, <2>1, <2>4 DEF AnnounceInv, Committed
  <2>7. (\A q \in Requests : \A i \in mine[q].incidents :
           Announced(i) \/ (pc[q] = "notify" /\ i = Current(q)))'
    BY <1>0, <2>1, <2>4 DEF AnnounceInv, Current
  <2> QED
    BY <2>5, <2>6, <2>7 DEF AnnounceInv
<1> QED
  BY <1>1, <1>2, <1>3, <1>4, <1>5, <1>6, <1>7, <1>9, <1>10, <1>11 DEF Next

\* A visible incident was announced to every webhook that was there from its
\* request's arrival on: the calls of ingest_alert come before the commit.
THEOREM AnnouncedBeforeVisibleAlways == Spec => []AnnouncedBeforeVisible
<1>1. AnnounceInv => AnnouncedBeforeVisible
  BY DEF AnnounceInv, AnnouncedBeforeVisible
<1>2. Spec => []AnnounceInv
  BY InitTypeOK, NextTypeOK, InitIncidentsOK, NextIncidentsOK,
     InitAnnounceInv, NextAnnounceInv, PTL DEF Spec
<1> QED
  BY <1>1, <1>2, PTL

-------------------------------------------------------------------------
\* A service has a second open incident only if the requests that opened the
\* two overlapped or one of the two was resolved and re-opened.
THEOREM DuplicatesNeedOverlapAlways == Spec => []DuplicatesNeedOverlap
<1>1. TypeOK /\ IncidentsOK => DuplicatesNeedOverlap
  <2> SUFFICES ASSUME TypeOK, IncidentsOK, NEW i \in Committed, NEW j \in Committed,
                      i # j, SameService(i, j), i \notin resolved, j \notin resolved
               PROVE  i[1] # j[1] /\ i[1] \notin after[j[1]] /\ j[1] \notin after[i[1]]
    BY DEF DuplicatesNeedOverlap, SameService
  <2>1. i \in Ids /\ j \in Ids /\ Exists(i) /\ Exists(j) /\ SameService(j, i)
    BY DEF Committed, Exists, SameService
  <2>2. i[1] # j[1]
    BY <2>1 DEF IncidentsOK, DistinctInv
  <2>3. i[1] \notin after[j[1]] /\ j[1] \notin after[i[1]]
    BY <2>1 DEF IncidentsOK, OverlapInv
  <2> QED
    BY <2>2, <2>3
<1> QED
  BY <1>1, SpecIncidentsOK, PTL

-------------------------------------------------------------------------
(***************************************************************************)
(* The audit trail.  The row of an alert that was linked to an incident is *)
(* determined by the two: an incident bears the name of the alert it was   *)
(* opened for, and no later alert of that name can be grouped into it.     *)
(***************************************************************************)
TrailRow(a, i) == [alert_id |-> a, incident_id |-> i, action |-> AuditAction(a = i)]

\* Alerts A and incidents I, and the audit rows L, tell of each other.
TrailOf(A, I, L) ==
  /\ \A a \in A : a.incident_id # NULL => TrailRow(a.id, a.incident_id) \in L
  /\ \A i \in I : [id |-> i, incident_id |-> i] \in A
  /\ \A l \in L : l = TrailRow(l.alert_id, l.incident_id)

\* A session has opened no incident for the alert it is about to link.
SessionTrail(r) ==
  /\ TrailOf(mine[r].alerts, mine[r].incidents, mine[r].audit)
  /\ \A i \in mine[r].incidents :
       i[2] <= pos[r] /\ (i[2] = pos[r] => pc[r] \in {"notify", "respond"})

TrailOK ==
  /\ TrailOf(alerts, Committed, audit)
  /\ \A r \in Requests : SessionTrail(r)

LEMMA InitTrailOK == Init => TrailOK
<1> SUFFICES ASSUME Init PROVE TrailOK
  OBVIOUS
<1>1. Committed = {}
  BY DEF Init, Committed
<1> QED
  BY <1>1 DEF Init, TrailOK, TrailOf, SessionTrail, NoRows

\* After Advance the request is at a later alert, or done with all of them.
LEMMA AdvanceMoves ==
  ASSUME TypeOK, NEW r \in Requests, Advance(r), NEW i \in Ids, i[2] <= pos[r]
  PROVE  i[2] <= pos'[r] /\ (i[2] = pos'[r] => pc'[r] \in {"notify", "respond"})
<1>1. pos[r] \in Nat /\ i[2] \in Nat /\ pos \in [Requests -> 1..MaxBatch] /\ r \in DOMAIN pc
  BY PayloadAssumption DEF TypeOK, Ids
<1>2. CASE pos[r] < Len(batch[r])
  BY <1>1, <1>2 DEF Advance
<1>3. CASE ~(pos[r] < Len(batch[r]))
  BY <1>1, <1>3 DEF Advance
<1> QED
  BY <1>2, <1>3

\* The rows AddRows adds tell of each other.
LEMMA AddRowsTrail ==
  ASSUME TypeOK, NEW r \in Requests, pc[r] # "idle", SessionTrail(r),
         NEW i \in Ids, AddRows(r, i, i = Current(r))
  PROVE  TrailOf(mine'[r].alerts, mine'[r].incidents, mine'[r].audit)
<1> DEFINE c == Current(r)
           a == [id |-> c, incident_id |-> i]
<1>1. c \in Ids
  BY CurrentOK
<1>2. /\ mine'[r].alerts = mine[r].alerts \cup {a}
      /\ mine'[r].incidents = IF i = c THEN mine[r].incidents \cup {i} ELSE mine[r].incidents
      /\ mine'[r].audit = mine[r].audit \cup {[alert_id |-> c, incident_id |-> i,
                                               action |-> AuditAction(i = c)]}
  BY DEF AddRows, TypeOK
<1>3. TrailRow(c, i) = [alert_id |-> c, incident_id |-> i, action |-> AuditAction(i = c)]
  BY DEF TrailRow, AuditAction
<1>4. TrailOf(mine[r].alerts, mine[r].incidents, mine[r].audit)
  BY DEF SessionTrail
<1>5. a.id = c /\ a.incident_id = i
  OBVIOUS
<1>6. TrailRow(c, i).alert_id = c /\ TrailRow(c, i).incident_id = i
  BY DEF TrailRow
<1> HIDE DEF c
<1>7. mine'[r].audit = mine[r].audit \cup {TrailRow(c, i)}
  BY <1>2, <1>3
<1>8. \A x \in mine'[r].alerts :
        x.incident_id # NULL => TrailRow(x.id, x.incident_id) \in mine'[r].audit
  BY <1>2, <1>4, <1>5, <1>7 DEF TrailOf
<1>9. \A j \in mine'[r].incidents : [id |-> j, incident_id |-> j] \in mine'[r].alerts
  BY <1>2, <1>4 DEF TrailOf
<1>10. \A l \in mine'[r].audit : l = TrailRow(l.alert_id, l.incident_id)
  BY <1>4, <1>6, <1>7 DEF TrailOf
<1> QED
  BY <1>8, <1>9, <1>10 DEF TrailOf

\* Every step keeps the sessions' rows in order.
LEMMA NextSessionTrail ==
  ASSUME TypeOK, IncidentsOK, TrailOK, [Next]_vars, NEW q \in Requests
  PROVE  SessionTrail(q)'
<1> USE DEF tables
<1>0. /\ SessionTrail(q)
      /\ \A i \in mine[q].incidents : i \in Ids /\ i[2] <= pos[q]
      /\ pc[q] \notin Working => mine[q] = NoRows
  BY DEF TrailOK, SessionTrail, TypeOK, Rows
<1>1. ASSUME mine'[q] = NoRows PROVE SessionTrail(q)'
  BY <1>1 DEF SessionTrail, TrailOf, NoRows
<1>2. ASSUME UNCHANGED <<mine[q], pc[q], pos[q]>> PROVE SessionTrail(q)'
  BY <1>0, <1>2 DEF SessionTrail
<1>3. ASSUME Advance(q), mine'[q].incidents = mine[q].incidents,
             TrailOf(mine'[q].alerts, mine'[q].incidents, mine'[q].audit)
      PROVE  SessionTrail(q)'
  BY <1>0, <1>3, AdvanceMoves DEF SessionTrail
<1>4. ASSUME mine'[q] = mine[q], pos'[q] = pos[q], pc[q] \notin {"notify", "respond"}
      PROVE  SessionTrail(q)'
  BY <1>0, <1>4 DEF SessionTrail
<1>5. TrailOf(mine[q].alerts, mine[q].incidents, mine[q].audit)
  BY <1>0 DEF SessionTrail
<1>6. ASSUME NEW r \in Requests, NEW b \in Batches, Receive(r, b) PROVE SessionTrail(q)'
  <2>1. CASE q = r
    BY <1>0, <1>1, <1>6, <2>1 DEF Receive, Working
  <2>2. CASE q # r
    BY <1>2, <1>6, <2>2 DEF Receive, TypeOK
  <2> QED
    BY <2>1, <2>2
<1>7. ASSUME NEW r \in Requests, CheckDuplicate(r) PROVE SessionTrail(q)'
  <2>1. pc[r] = "dedup" /\ mine' = mine
        /\ (Advance(r) \/ (pc' = [pc EXCEPT ![r] = "maintenance"] /\ pos' = pos))
    BY <1>7 DEF CheckDuplicate
  <2>2. CASE q = r
    BY <1>3, <1>4, <1>5, <2>1, <2>2
  <2>3. CASE q # r
    BY <1>2, <2>1, <2>3, AdvanceOK DEF TypeOK
  <2> QED
    BY <2>2, <2>3
<1>8. ASSUME NEW r \in Requests, CheckMaintenance(r) PROVE SessionTrail(q)'
  <2> DEFINE x == [id |-> Current(r), incident_id |-> NULL]
  <2>1. pc[r] = "maintenance"
        /\ \/ mine' = [mine EXCEPT ![r].alerts = @ \cup {x}] /\ Advance(r)
           \/ UNCHANGED <<mine, pos>> /\ pc' = [pc EXCEPT ![r] = "incident"]
    BY <1>8 DEF CheckMaintenance
  <2>2. x.incident_id = NULL
    OBVIOUS
  <2> HIDE DEF x
  <2>3. CASE q # r
    BY <1>2, <2>1, <2>3, AdvanceOK DEF TypeOK
  <2>4. CASE q = r /\ mine' = [mine EXCEPT ![r].alerts = @ \cup {x}] /\ Advance(r)
    <3>1. /\ mine'[q].alerts = mine[q].alerts \cup {x}
          /\ mine'[q].incidents = mine[q].incidents
          /\ mine'[q].audit = mine[q].audit
      BY <2>4 DEF TypeOK, Rows
    <3>2. TrailOf(mine'[q].alerts, mine'[q].incidents, mine'[q].audit)
      BY <1>5, <2>2, <3>1 DEF TrailOf
    <3> QED
      BY <1>3, <2>4, <3>1, <3>2
  <2>5. CASE q = r /\ UNCHANGED <<mine, pos>>
    BY <1>4, <2>1, <2>5
  <2> QED
    BY <2>1, <2>3, <2>4, <2>5
<1>9. ASSUME NEW r \in Requests, FindOrCreateIncident(r) PROVE SessionTrail(q)'
  <2> DEFINE open == OpenIncidents(r, Payload(Current(r)).service_name)
  <2>1. /\ pc[r] = "incident"
        /\ \/ AddRows(r, Current(r), TRUE) /\ pc' = [pc EXCEPT ![r] = "notify"] /\ pos' = pos
           \/ (\E i \in open : AddRows(r, i, FALSE)) /\ Advance(r)
    BY <1>9 DEF FindOrCreateIncident
  <2>2. CASE q # r
    BY <1>2, <2>1, <2>2, AdvanceOK DEF TypeOK, AddRows
  <2>3. CASE /\ q = r /\ AddRows(r, Current(r), TRUE)
             /\ pc' = [pc EXCEPT ![r] = "notify"] /\ pos' = pos
    <3>1. Current(r) \in Ids /\ Current(r)[2] = pos[r]
      BY <2>1, CurrentOK DEF Current
    <3>2. TrailOf(mine'[q].alerts, mine'[q].incidents, mine'[q].audit)
      BY <1>0, <2>1, <2>3, <3>1, AddRowsTrail
    <3>3. mine'[q].incidents = mine[q].incidents \cup {Current(r)}
      BY <2>3, AddRowsOK
    <3>4. pc'[q] = "notify" /\ pos'[q] = pos[q] /\ pos[q] <= pos[q]
      BY <2>3, PayloadAssumption DEF TypeOK
    <3> QED
      BY <1>0, <2>3, <3>1, <3>2, <3>3, <3>4 DEF SessionTrail
  <2>4. CASE q = r /\ (\E i \in open : AddRows(r, i, FALSE)) /\ Advance(r)
    <3>1. PICK i \in open : AddRows(r, i, FALSE)
      BY <2>4
    <3>2. i \in Ids /\ Visible(r, i)
      BY DEF OpenIncidents
    <3> HIDE DEF open
    \* The alert's own incident is neither committed nor in the session yet.
    <3>3. i # Current(r)
      <4>1. Current(r)[1] = r /\ Current(r)[2] = pos[r]
        BY DEF Current
      <4>2. Current(r) \notin Committed
        BY <2>1, <4>1 DEF IncidentsOK, OriginInv
      <4>3. Current(r) \notin mine[r].incidents
        BY <1>0, <2>1, <2>4, <4>1 DEF SessionTrail
      <4> QED
        BY <3>2, <4>2, <4>3 DEF Visible
    <3>4. AddRows(r, i, i = Current(r))
      BY <3>1, <3>3
    <3>5. TrailOf(mine'[q].alerts, mine'[q].incidents, mine'[q].audit)
      BY <1>0, <2>1, <2>4, <3>2, <3>4, AddRowsTrail
    <3>6. mine'[q].incidents = mine[q].incidents
      BY <2>4, <3>1, AddRowsOK
    <3> QED
      BY <1>3, <2>4, <3>5, <3>6
  <2> QED
    BY <2>1, <2>2, <2>3, <2>4
<1>10. ASSUME NEW r \in Requests, NotifyNewIncident(r) PROVE SessionTrail(q)'
  <2>1. pc[r] = "notify" /\ mine' = mine /\ Advance(r)
    BY <1>10 DEF NotifyNewIncident
  <2>2. CASE q = r
    BY <1>3, <1>5, <2>1, <2>2
  <2>3. CASE q # r
    BY <1>2, <2>1, <2>3, AdvanceOK
  <2> QED
    BY <2>2, <2>3
<1>11. ASSUME NEW r \in Requests, Commit(r) \/ Abort(r) PROVE SessionTrail(q)'
  <2>1. mine' = [mine EXCEPT ![r] = NoRows] /\ pos' = pos
        /\ \A p \in Requests \ {r} : pc'[p] = pc[p]
    BY <1>11 DEF Commit, Abort, TypeOK
  <2>2. CASE q = r
    BY <1>1, <2>1, <2>2 DEF TypeOK
  <2>3. CASE q # r
    BY <1>2, <2>1, <2>3 DEF TypeOK
  <2> QED
    BY <2>2, <2>3
<1>12. ASSUME UNCHANGED <<pc, pos, mine>> PROVE SessionTrail(q)'
  BY <1>2, <1>12
<1>13. ASSUME NEW f \in Fingerprints, ExpireKey(f) PROVE SessionTrail(q)'
  BY <1>12, <1>13 DEF ExpireKey
<1>14. ASSUME NEW i \in Ids, NEW t \in {"open", "resolved"}, TransitionStatus(i, t)
       PROVE  SessionTrail(q)'
  BY <1>12, <1>14 DEF TransitionStatus
<1>15. ASSUME NEW w \in Windows, NEW t \in WindowStates, MoveWindow(w, t)
       PROVE  SessionTrail(q)'
  BY <1>12, <1>15 DEF MoveWindow
<1>16. ASSUME NEW c \in Configs, CreateConfig(c) \/ DeleteConfig(c) PROVE SessionTrail(q)'
  BY <1>12, <1>16 DEF CreateConfig, DeleteConfig
<1>17. CASE UNCHANGED vars
  BY <1>12, <1>17 DEF vars
<1> QED
  BY <1>6, <1>7, <1>8, <1>9, <1>10, <1>11, <1>13, <1>14, <1>15, <1>16, <1>17 DEF Next

\* Only a commit touches the tables, and it adds what belongs together.
LEMMA NextTrailOK ==
  ASSUME TypeOK, IncidentsOK, TrailOK, [Next]_vars
  PROVE  TrailOK'
<1> USE DEF tables
<1>1. ASSUME UNCHANGED <<alerts, audit>>, Committed' = Committed
      PROVE  TrailOf(alerts, Committed, audit)'
  BY <1>1 DEF TrailOK
<1>2. ASSUME NEW r \in Requests, Commit(r) PROVE TrailOf(alerts, Committed, audit)'
  <2>1. /\ alerts' = alerts \cup mine[r].alerts
        /\ audit' = audit \cup mine[r].audit
        /\ Committed' = Committed \cup mine[r].incidents
    BY <1>2 DEF Commit, Committed, TypeOK, Rows
  <2> QED
    BY <2>1 DEF TrailOK, SessionTrail, TrailOf
<1>3. ASSUME NEW i \in Ids, NEW t \in {"open", "resolved"}, TransitionStatus(i, t)
      PROVE  TrailOf(alerts, Committed, audit)'
  BY <1>1, <1>3 DEF TransitionStatus, Committed, TypeOK
<1>4. ASSUME UNCHANGED <<alerts, status, audit>>
      PROVE  TrailOf(alerts, Committed, audit)'
  BY <1>1, <1>4 DEF Committed
<1>5. UNCHANGED <<alerts, status, audit>>
        \/ (\E r \in Requests : Commit(r))
        \/ (\E i \in Ids, t \in {"open", "resolved"} : TransitionStatus(i, t))
  BY DEF Next, vars, Receive, CheckDuplicate, CheckMaintenance, FindOrCreateIncident,
         NotifyNewIncident, Abort, ExpireKey, MoveWindow, CreateConfig, DeleteConfig
<1> QED
  BY <1>2, <1>3, <1>4, <1>5, NextSessionTrail DEF TrailOK

\* Each incident has exactly one incident.created row and each grouped alert
\* exactly one row, whichever requests race, retry or abort (ingest_alert).
THEOREM AuditTrailCompleteAlways == Spec => []AuditTrailComplete
<1>1. TypeOK /\ TrailOK => AuditTrailComplete
  <2> SUFFICES ASSUME TypeOK, TrailOf(alerts, Committed, audit) PROVE AuditTrailComplete
    BY DEF TrailOK
  <2>1. \A i \in Ids : i # NULL
    BY DEF Ids, NULL
  <2>2. \A l \in audit : l.action = "incident.created" => l.alert_id = l.incident_id
    BY DEF TrailOf, TrailRow, AuditAction
  <2>3. ASSUME NEW i \in Committed
        PROVE  \E l \in audit :
                 /\ l.incident_id = i /\ l.action = "incident.created"
                 /\ [id |-> l.alert_id, incident_id |-> i] \in alerts
                 /\ \A m \in audit :
                      m.incident_id = i /\ m.action = "incident.created" => m = l
    <3>1. [id |-> i, incident_id |-> i] \in alerts /\ i # NULL
      BY <2>1 DEF TrailOf, Committed
    <3>2. TrailRow(i, i) \in audit
      BY <3>1 DEF TrailOf
    <3>3. /\ TrailRow(i, i).incident_id = i /\ TrailRow(i, i).alert_id = i
          /\ TrailRow(i, i).action = "incident.created"
      BY DEF TrailRow, AuditAction
    <3>4. ASSUME NEW m \in audit, m.incident_id = i, m.action = "incident.created"
          PROVE  m = TrailRow(i, i)
      BY <2>2, <3>4 DEF TrailOf
    <3> QED
      BY <3>1, <3>2, <3>3, <3>4
  <2>4. ASSUME NEW a \in alerts, a.incident_id # NULL
        PROVE  Cardinality({l \in audit : l.alert_id = a.id /\ l.incident_id = a.incident_id}) = 1
    <3>1. TrailRow(a.id, a.incident_id) \in audit
      BY <2>4 DEF TrailOf
    <3>2. /\ TrailRow(a.id, a.incident_id).alert_id = a.id
          /\ TrailRow(a.id, a.incident_id).incident_id = a.incident_id
      BY DEF TrailRow
    <3>3. {l \in audit : l.alert_id = a.id /\ l.incident_id = a.incident_id}
            = {TrailRow(a.id, a.incident_id)}
      BY <3>1, <3>2 DEF TrailOf
    <3> QED
      BY <3>3, FS_Singleton
  <2> QED
    BY <2>3, <2>4 DEF AuditTrailComplete
<1>2. Spec => []TrailOK
  BY InitTrailOK, NextTrailOK, InitTypeOK, NextTypeOK, InitIncidentsOK, NextIncidentsOK, PTL DEF Spec
<1> QED
  BY <1>1, <1>2, SpecIncidentsOK, PTL

=========================================================================
