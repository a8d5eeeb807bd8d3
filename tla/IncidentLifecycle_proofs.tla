-------------------- MODULE IncidentLifecycle_proofs --------------------
(***************************************************************************)
(* Proofs about IncidentLifecycle, for any number of incidents, concurrent *)
(* requests and policies.                                                  *)
(*                                                                         *)
(* What a row looks like after a commit depends on three rows: the current *)
(* one, the one the session loaded, perhaps long ago, and the one it wants *)
(* to store.  The inductive invariant therefore describes, for every row a *)
(* session holds, the difference between what it loaded and what it will   *)
(* store (SessionInv); only the two jobs need a relation to the current    *)
(* row as well, and they have it because each job has one instance.        *)
(***************************************************************************)
EXTENDS IncidentPage, SequenceTheorems, TLAPS

\* How a session may change the status and the timestamps of a row.
StatusChange(old, new) ==
  \/ /\ new.status = old.status
     /\ new.acknowledged_at = old.acknowledged_at
     /\ new.resolved_at = old.resolved_at
  \/ /\ new.status # old.status
     /\ \/ /\ new.status = "acknowledged"
           /\ new.acknowledged_at # 0
           /\ new.acknowledged_at # old.acknowledged_at
        \/ /\ new.status = "resolved"
           /\ new.resolved_at # 0
           /\ new.resolved_at # old.resolved_at
        \/ /\ new.status = "triggered"
           /\ new.resolved_at = 0
           /\ old.resolved_at # 0

SameWorkerColumns(old, new) ==
  /\ new.sla_breached = old.sla_breached
  /\ new.current_escalation_step = old.current_escalation_step

\* The columns only the jobs write, in the rows session s holds.
WorkerChange(s, i) ==
  /\ s \in Requests =>
       SameWorkerColumns(loaded[s][i], pending[s][i]) /\ logged[s] \notin WorkerEvents
  /\ s = "sla_checker" =>
       /\ logged[s] = "sla.breached"
       /\ row[i].sla_breached = FALSE
       /\ loaded[s][i].sla_breached = FALSE
       /\ pending[s][i].sla_breached = TRUE
       /\ pending[s][i].current_escalation_step = loaded[s][i].current_escalation_step
  /\ s = "escalation_runner" =>
       /\ logged[s] = "incident.escalated"
       /\ loaded[s][i].current_escalation_step = row[i].current_escalation_step
       /\ pending[s][i].current_escalation_step = row[i].current_escalation_step + 1
       /\ pending[s][i].sla_breached = loaded[s][i].sla_breached

SessionInv ==
  \A s \in Sessions : \A i \in Held(s) :
    /\ StatusChange(loaded[s][i], pending[s][i])
    /\ pending[s][i].acknowledged_at <= clock
    /\ pending[s][i].resolved_at <= clock
    /\ WorkerChange(s, i)

\* The inductive invariant.
IInv == TypeOK /\ StampsMatchStatus /\ EventsMatchRow /\ SessionInv

-------------------------------------------------------------------------
\* An UPDATE yields a row, whichever columns it writes.
LEMMA WrittenColumnsType ==
  ASSUME NEW cur \in Row, NEW old \in Row, NEW new \in Row
  PROVE  WrittenColumns(cur, old, new) \in Row
BY DEF WrittenColumns, Column, Row

\* A status change decided on a stale row leaves status and timestamps in
\* agreement on whatever row it is applied to.
LEMMA WrittenColumnsAgree ==
  ASSUME NEW cur \in Row, NEW old \in Row, NEW new \in Row,
         StampsAgree(cur), StatusChange(old, new)
  PROVE  StampsAgree(WrittenColumns(cur, old, new))
BY DEF WrittenColumns, Column, Row, StampsAgree, StatusChange, Statuses

\* transition_status keeps the row well typed and the workers' columns.
LEMMA TransitionedType ==
  ASSUME NEW r \in Row, NEW t \in Statuses, NEW now \in Nat
  PROVE  /\ Transitioned(r, t, now) \in Row
         /\ SameWorkerColumns(r, Transitioned(r, t, now))
BY DEF Transitioned, Row, Statuses, SameWorkerColumns

\* The change of transition_status, given a clock that has advanced since
\* every timestamp of the row.
LEMMA TransitionedChange ==
  ASSUME NEW r \in Row, NEW now \in Nat, NEW t \in VALID_TRANSITIONS[r.status],
         StampsAgree(r), r.acknowledged_at < now, r.resolved_at < now
  PROVE  /\ t \in Statuses
         /\ StatusChange(r, Transitioned(r, t, now))
         /\ Transitioned(r, t, now).acknowledged_at <= now
         /\ Transitioned(r, t, now).resolved_at <= now
<1> DEFINE new == Transitioned(r, t, now)
<1>1. r.status \in Statuses /\ r.acknowledged_at \in Nat /\ r.resolved_at \in Nat
  BY DEF Row
<1>2. CASE t = "acknowledged" /\ r.status = "triggered"
  <2>1. new = [r EXCEPT !.status = t, !.acknowledged_at = now]
    BY <1>2 DEF Transitioned
  <2>2. /\ new.status = "acknowledged"
        /\ new.acknowledged_at = now /\ new.resolved_at = r.resolved_at
    BY <1>2, <2>1 DEF Row
  <2> QED
    BY <1>1, <1>2, <2>2 DEF StatusChange, Statuses
<1>3. CASE t = "resolved" /\ r.status \in {"triggered", "acknowledged"}
  <2>1. new = [r EXCEPT !.status = t, !.resolved_at = now]
    BY <1>3 DEF Transitioned
  <2>2. /\ new.status = "resolved"
        /\ new.acknowledged_at = r.acknowledged_at /\ new.resolved_at = now
    BY <1>3, <2>1 DEF Row
  <2> QED
    BY <1>1, <1>3, <2>2 DEF StatusChange, Statuses
<1>4. CASE t = "triggered" /\ r.status = "resolved"
  <2>1. new = [r EXCEPT !.status = t, !.resolved_at = 0]
    BY <1>4 DEF Transitioned
  <2>2. /\ new.status = "triggered"
        /\ new.acknowledged_at = r.acknowledged_at /\ new.resolved_at = 0
    BY <1>4, <2>1 DEF Row
  <2> QED
    BY <1>1, <1>4, <2>2 DEF StatusChange, StampsAgree, Statuses
<1> QED
  BY <1>1, <1>2, <1>3, <1>4 DEF VALID_TRANSITIONS, Statuses

-------------------------------------------------------------------------
\* Initially no session holds a row and every incident is new.
THEOREM InitIInv == Init => IInv
<1> SUFFICES ASSUME Init PROVE IInv
  OBVIOUS
<1> USE DEF Init
<1>1. TypeOK
  BY DEF TypeOK, Row, NewRow, Statuses, WorkerEvents, NoEvent, Held, Sessions
<1>2. StampsMatchStatus
  BY DEF StampsMatchStatus, StampsAgree, NewRow
<1>3. EventsMatchRow
  BY DEF EventsMatchRow, NewRow, WorkerEvents
<1>4. SessionInv
  BY DEF SessionInv, Held
<1> QED
  BY <1>1, <1>2, <1>3, <1>4 DEF IInv

\* What a session may do when it loads rows, wherever it does it.
LoadOK(s, f, e, i) ==
  /\ f[i] \in Row
  /\ StatusChange(row[i], f[i])
  /\ f[i].acknowledged_at <= clock' /\ f[i].resolved_at <= clock'
  /\ s \in Requests => SameWorkerColumns(row[i], f[i]) /\ e \notin WorkerEvents
  /\ s = "sla_checker" =>
       /\ e = "sla.breached"
       /\ row[i].sla_breached = FALSE /\ f[i].sla_breached = TRUE
       /\ f[i].current_escalation_step = row[i].current_escalation_step
  /\ s = "escalation_runner" =>
       /\ e = "incident.escalated"
       /\ f[i].current_escalation_step = row[i].current_escalation_step + 1
       /\ f[i].sla_breached = row[i].sla_breached

\* A load of rows with admissible changes keeps the invariant.
LEMMA LoadPreserves ==
  ASSUME IInv,
         NEW s \in Sessions, NEW S \in SUBSET Incidents, NEW f,
         NEW e \in Events \cup {NoEvent}, Load(s, S, f, e),
         clock' \in Nat, clock <= clock',
         \A i \in S : LoadOK(s, f, e, i)
  PROVE  IInv'
<1> USE DEF IInv, Load
<1>1. TypeOK'
  <2>1. /\ row' \in [Incidents -> Row]
        /\ trail' \in [Incidents -> Seq([from : Statuses, to : Statuses])]
        /\ events' \in [Incidents -> [WorkerEvents -> Nat]]
        /\ logged' \in [Sessions -> Events \cup {NoEvent}]
        /\ DOMAIN loaded' = Sessions /\ DOMAIN pending' = Sessions
    BY DEF TypeOK
  <2>2. clock' \in Nat \ {0}
    BY DEF TypeOK
  <2>3. ASSUME NEW i \in Incidents
        PROVE  row'[i].acknowledged_at <= clock' /\ row'[i].resolved_at <= clock'
    BY DEF TypeOK, Row
  <2>4. ASSUME NEW q \in Sessions
        PROVE  /\ Held(q)' \subseteq Incidents
               /\ DOMAIN pending'[q] = Held(q)'
               /\ \A i \in Held(q)' : loaded'[q][i] \in Row /\ pending'[q][i] \in Row
    <3>1. CASE q = s
      BY <3>1 DEF TypeOK, Held, LoadOK
    <3>2. CASE q # s
      BY <3>2 DEF TypeOK, Held
    <3> QED
      BY <3>1, <3>2
  <2> QED
    BY <2>1, <2>2, <2>3, <2>4 DEF TypeOK
<1>2. StampsMatchStatus' /\ EventsMatchRow'
  BY DEF StampsMatchStatus, EventsMatchRow
<1>3. SessionInv'
  <2> SUFFICES ASSUME NEW q \in Sessions, NEW i \in Held(q)'
               PROVE  /\ StatusChange(loaded[q][i], pending[q][i])'
                      /\ pending'[q][i].acknowledged_at <= clock'
                      /\ pending'[q][i].resolved_at <= clock'
                      /\ WorkerChange(q, i)'
    BY DEF SessionInv
  <2>1. CASE q = s
    <3>1. i \in S /\ loaded'[q][i] = row[i] /\ pending'[q][i] = f[i] /\ logged'[q] = e
      BY <2>1 DEF TypeOK, Held
    <3>2. LoadOK(s, f, e, i)
      BY <3>1
    <3>3. WorkerChange(q, i)'
      BY <2>1, <3>1, <3>2 DEF LoadOK, WorkerChange, SameWorkerColumns
    <3> QED
      BY <2>1, <3>1, <3>2, <3>3 DEF LoadOK, StatusChange
  <2>2. CASE q # s
    <3>1. /\ loaded'[q] = loaded[q] /\ pending'[q] = pending[q] /\ logged'[q] = logged[q]
          /\ i \in Held(q)
      BY <2>2 DEF TypeOK, Held
    <3>2. /\ StatusChange(loaded[q][i], pending[q][i])
          /\ pending[q][i].acknowledged_at <= clock
          /\ pending[q][i].resolved_at <= clock
          /\ WorkerChange(q, i)
      BY <3>1 DEF SessionInv
    <3>3. pending[q][i].acknowledged_at \in Nat /\ pending[q][i].resolved_at \in Nat
      BY <3>1 DEF TypeOK, Row
    <3>4. WorkerChange(q, i)'
      BY <3>1, <3>2 DEF WorkerChange, SameWorkerColumns
    <3> QED
      BY <3>1, <3>2, <3>3, <3>4 DEF StatusChange, TypeOK
  <2> QED
    BY <2>1, <2>2
<1> QED
  BY <1>1, <1>2, <1>3

\* What a commit does to the columns the jobs write and to their events.
LEMMA CommitColumns ==
  ASSUME IInv, NEW s \in Sessions, Commit(s), NEW i \in Incidents
  PROVE  /\ i \in Held(s) /\ s = "sla_checker" =>
              /\ row[i].sla_breached = FALSE /\ row'[i].sla_breached = TRUE
              /\ logged[s] = "sla.breached"
         /\ ~(i \in Held(s) /\ s = "sla_checker") =>
              row'[i].sla_breached = row[i].sla_breached
         /\ i \in Held(s) /\ s = "escalation_runner" =>
              /\ row'[i].current_escalation_step = row[i].current_escalation_step + 1
              /\ logged[s] = "incident.escalated"
         /\ ~(i \in Held(s) /\ s = "escalation_runner") =>
              row'[i].current_escalation_step = row[i].current_escalation_step
         /\ i \in Held(s) /\ s \in Requests => logged[s] \notin WorkerEvents
<1>1. CASE i \notin Held(s)
  BY <1>1 DEF Commit
<1>2. CASE i \in Held(s)
  <2>1. row'[i] = WrittenColumns(row[i], loaded[s][i], pending[s][i])
    BY <1>2 DEF Commit
  <2>2. WorkerChange(s, i)
    BY <1>2 DEF IInv, SessionInv
  <2>3. row[i] \in Row /\ loaded[s][i] \in Row /\ pending[s][i] \in Row
    BY <1>2 DEF IInv, TypeOK
  <2>4. /\ row'[i].sla_breached = Column(row[i].sla_breached,
                        loaded[s][i].sla_breached, pending[s][i].sla_breached)
        /\ row'[i].current_escalation_step = Column(row[i].current_escalation_step,
             loaded[s][i].current_escalation_step, pending[s][i].current_escalation_step)
    BY <2>1 DEF WrittenColumns
  <2>5. CASE s \in Requests
    <3>1. s # "sla_checker" /\ s # "escalation_runner"
      BY <2>5, SessionAssumption
    <3> QED
      BY <1>2, <2>2, <2>4, <2>5, <3>1 DEF WorkerChange, SameWorkerColumns, Column
  <2>6. CASE s = "sla_checker"
    <3>1. s \notin Requests
      BY <2>6, SessionAssumption
    <3> QED
      BY <1>2, <2>2, <2>4, <2>6, <3>1 DEF WorkerChange, Column
  <2>7. CASE s = "escalation_runner"
    <3>1. s \notin Requests
      BY <2>7, SessionAssumption
    <3> QED
      BY <1>2, <2>2, <2>3, <2>4, <2>7, <3>1 DEF WorkerChange, Column, Row
  <2> QED
    BY <2>5, <2>6, <2>7 DEF Sessions
<1> QED
  BY <1>1, <1>2

\* A commit of any session preserves the invariant, stale copy or not.
LEMMA CommitPreserves ==
  ASSUME IInv, NEW s \in Sessions, Commit(s)
  PROVE  IInv'
<1>1. ASSUME NEW i \in Incidents
      PROVE  /\ row'[i] \in Row /\ StampsAgree(row'[i])
             /\ row'[i].acknowledged_at <= clock /\ row'[i].resolved_at <= clock
  <2>1. CASE i \notin Held(s)
    BY <2>1 DEF Commit, IInv, TypeOK, StampsMatchStatus
  <2>2. CASE i \in Held(s)
    <3>1. row'[i] = WrittenColumns(row[i], loaded[s][i], pending[s][i])
      BY <2>2 DEF Commit
    <3>2. row[i] \in Row /\ loaded[s][i] \in Row /\ pending[s][i] \in Row
      BY <2>2 DEF IInv, TypeOK
    <3>3. StatusChange(loaded[s][i], pending[s][i]) /\ StampsAgree(row[i])
      BY <2>2 DEF IInv, SessionInv, StampsMatchStatus
    <3>4. /\ row[i].acknowledged_at <= clock /\ row[i].resolved_at <= clock
          /\ pending[s][i].acknowledged_at <= clock /\ pending[s][i].resolved_at <= clock
      BY <2>2 DEF IInv, SessionInv, TypeOK
    <3>5. row'[i].acknowledged_at <= clock /\ row'[i].resolved_at <= clock
      BY <3>1, <3>4 DEF WrittenColumns, Column
    <3> QED
      BY <3>1, <3>2, <3>3, <3>5, WrittenColumnsType, WrittenColumnsAgree
  <2> QED
    BY <2>1, <2>2
<1>2. ASSUME NEW i \in Incidents
      PROVE  /\ events'[i] \in [WorkerEvents -> Nat]
             /\ events'[i]["sla.breached"] = IF row'[i].sla_breached = TRUE THEN 1 ELSE 0
             /\ events'[i]["incident.escalated"] = row'[i].current_escalation_step
  <2>1. /\ events[i] \in [WorkerEvents -> Nat]
        /\ row[i] \in Row
        /\ events[i]["sla.breached"] = IF row[i].sla_breached = TRUE THEN 1 ELSE 0
        /\ events[i]["incident.escalated"] = row[i].current_escalation_step
    BY DEF IInv, TypeOK, EventsMatchRow
  <2>2. /\ "sla.breached" \in WorkerEvents /\ "incident.escalated" \in WorkerEvents
    BY DEF WorkerEvents
  <2>3. CASE i \notin Held(s)
    <3>1. events'[i] = events[i] /\ row'[i] = row[i]
      BY <2>3 DEF Commit
    <3> QED
      BY <2>1, <3>1
  <2>4. CASE i \in Held(s)
    <3>1. events'[i] = [e \in WorkerEvents |-> IF e = logged[s] THEN events[i][e] + 1
                                                               ELSE events[i][e]]
      BY <2>4 DEF Commit
    <3>2. events'[i] \in [WorkerEvents -> Nat]
      BY <2>1, <3>1
    <3>3. /\ events'[i]["sla.breached"] =
               IF "sla.breached" = logged[s] THEN events[i]["sla.breached"] + 1
                                             ELSE events[i]["sla.breached"]
          /\ events'[i]["incident.escalated"] =
               IF "incident.escalated" = logged[s] THEN events[i]["incident.escalated"] + 1
                                                   ELSE events[i]["incident.escalated"]
      BY <2>2, <3>1
    <3>4. CASE s \in Requests
      <4>1. /\ s # "sla_checker" /\ s # "escalation_runner"
        BY <3>4, SessionAssumption
      <4>2. /\ row'[i].sla_breached = row[i].sla_breached
            /\ row'[i].current_escalation_step = row[i].current_escalation_step
            /\ logged[s] \notin WorkerEvents
        BY <2>4, <3>4, <4>1, CommitColumns
      <4> QED
        BY <2>1, <3>2, <3>3, <4>2 DEF WorkerEvents
    <3>5. CASE s = "sla_checker"
      <4>1. /\ row[i].sla_breached = FALSE /\ row'[i].sla_breached = TRUE
            /\ row'[i].current_escalation_step = row[i].current_escalation_step
            /\ logged[s] = "sla.breached"
        BY <2>4, <3>5, CommitColumns
      <4> QED
        BY <2>1, <3>2, <3>3, <4>1
    <3>6. CASE s = "escalation_runner"
      <4>1. /\ row'[i].sla_breached = row[i].sla_breached
            /\ row'[i].current_escalation_step = row[i].current_escalation_step + 1
            /\ logged[s] = "incident.escalated"
        BY <2>4, <3>6, CommitColumns
      <4> QED
        BY <2>1, <3>2, <3>3, <4>1
    <3> QED
      BY <3>4, <3>5, <3>6 DEF Sessions
  <2> QED
    BY <2>3, <2>4
<1>3. ASSUME NEW q \in Sessions, NEW i \in Held(q)'
      PROVE  /\ q # s /\ i \in Held(q) /\ i \in Incidents
             /\ loaded'[q] = loaded[q] /\ pending'[q] = pending[q]
             /\ logged'[q] = logged[q]
  <2>1. q # s
    BY DEF Commit, EndSession, Held, IInv, TypeOK
  <2> QED
    BY <2>1 DEF Commit, EndSession, Held, IInv, TypeOK
<1>4. TypeOK'
  <2>1. row' \in [Incidents -> Row] /\ events' \in [Incidents -> [WorkerEvents -> Nat]]
    BY <1>1, <1>2 DEF Commit
  <2>4. trail' \in [Incidents -> Seq([from : Statuses, to : Statuses])]
    <3>1. ASSUME NEW i \in Incidents
          PROVE  (IF i \in Held(s) /\ logged[s] \in Statuses
                  THEN Append(trail[i], StatusEntry(s, i)) ELSE trail[i])
                   \in Seq([from : Statuses, to : Statuses])
      <4>1. trail[i] \in Seq([from : Statuses, to : Statuses])
        BY DEF IInv, TypeOK
      <4>2. CASE i \in Held(s) /\ logged[s] \in Statuses
        <5>1. loaded[s][i].status \in Statuses
          BY <4>2 DEF IInv, TypeOK, Row
        <5>2. StatusEntry(s, i) \in [from : Statuses, to : Statuses]
          BY <4>2, <5>1 DEF StatusEntry
        <5> QED
          BY <4>1, <4>2, <5>2, AppendProperties
      <4> QED
        BY <4>1, <4>2
    <3> QED
      BY <3>1 DEF Commit
  <2>2. /\ clock' = clock /\ clock \in Nat \ {0}
        /\ logged' \in [Sessions -> Events \cup {NoEvent}]
        /\ DOMAIN loaded' = Sessions /\ DOMAIN pending' = Sessions
    BY DEF Commit, EndSession, IInv, TypeOK
  <2>3. ASSUME NEW q \in Sessions
        PROVE  /\ Held(q)' \subseteq Incidents
               /\ DOMAIN pending'[q] = Held(q)'
               /\ \A i \in Held(q)' : loaded'[q][i] \in Row /\ pending'[q][i] \in Row
    <3>1. CASE q = s
      BY <3>1 DEF Commit, EndSession, Held, IInv, TypeOK
    <3>2. CASE q # s
      BY <3>2 DEF Commit, EndSession, Held, IInv, TypeOK
    <3> QED
      BY <3>1, <3>2
  <2> QED
    BY <1>1, <2>1, <2>2, <2>3, <2>4 DEF TypeOK
<1>5. StampsMatchStatus' /\ EventsMatchRow'
  BY <1>1, <1>2 DEF StampsMatchStatus, EventsMatchRow
<1>6. SessionInv'
  <2> SUFFICES ASSUME NEW q \in Sessions, NEW i \in Held(q)'
               PROVE  /\ StatusChange(loaded[q][i], pending[q][i])'
                      /\ pending'[q][i].acknowledged_at <= clock'
                      /\ pending'[q][i].resolved_at <= clock'
                      /\ WorkerChange(q, i)'
    BY DEF SessionInv
  <2>1. /\ q # s /\ i \in Held(q) /\ i \in Incidents
        /\ loaded'[q] = loaded[q] /\ pending'[q] = pending[q] /\ logged'[q] = logged[q]
    BY <1>3
  <2>2. /\ StatusChange(loaded[q][i], pending[q][i])
        /\ pending[q][i].acknowledged_at <= clock
        /\ pending[q][i].resolved_at <= clock
        /\ WorkerChange(q, i)
    BY <2>1 DEF IInv, SessionInv
  <2>3. /\ q = "sla_checker" => row'[i].sla_breached = row[i].sla_breached
        /\ q = "escalation_runner" =>
             row'[i].current_escalation_step = row[i].current_escalation_step
    BY <2>1, CommitColumns
  <2>4. WorkerChange(q, i)'
    BY <2>1, <2>2, <2>3 DEF WorkerChange, SameWorkerColumns
  <2>5. clock' = clock
    BY DEF Commit
  <2> QED
    BY <2>1, <2>2, <2>4, <2>5 DEF StatusChange
<1> QED
  BY <1>4, <1>5, <1>6 DEF IInv

-------------------------------------------------------------------------
\* Every step of the specification keeps the invariant.
THEOREM NextIInv == IInv /\ [Next]_vars => IInv'
<1> SUFFICES ASSUME IInv, [Next]_vars PROVE IInv'
  OBVIOUS
<1>0. /\ clock \in Nat /\ NoEvent \in Events \cup {NoEvent}
      /\ \A i \in Incidents :
           /\ row[i] \in Row /\ StampsAgree(row[i])
           /\ row[i].acknowledged_at <= clock /\ row[i].resolved_at <= clock
  BY DEF IInv, TypeOK, StampsMatchStatus
<1>1. ASSUME NEW s \in Requests, NEW i \in Incidents, NEW t \in Statuses,
             TransitionStatus(s, i, t)
      PROVE  IInv'
  <2> DEFINE f == [j \in {i} |-> Transitioned(row[j], t, clock')]
  <2>1. /\ Load(s, {i}, f, t) /\ clock' = clock + 1
        /\ t \in VALID_TRANSITIONS[row[i].status]
    BY <1>1 DEF TransitionStatus
  <2>2. f[i] = Transitioned(row[i], t, clock')
    OBVIOUS
  <2>3. /\ row[i].acknowledged_at < clock' /\ row[i].resolved_at < clock'
        /\ clock' \in Nat /\ clock <= clock'
    BY <1>0, <2>1 DEF Row
  <2>4. /\ StatusChange(row[i], f[i])
        /\ f[i].acknowledged_at <= clock' /\ f[i].resolved_at <= clock'
    BY <1>0, <2>1, <2>2, <2>3, TransitionedChange
  <2>5. f[i] \in Row /\ SameWorkerColumns(row[i], f[i])
    BY <1>0, <2>2, <2>3, TransitionedType
  <2>6. s # "sla_checker" /\ s # "escalation_runner" /\ s \in Sessions
    BY SessionAssumption DEF Sessions
  <2>7. t \in Events \cup {NoEvent} /\ t \notin WorkerEvents
    BY DEF Statuses, Events, WorkerEvents
  <2>8. LoadOK(s, f, t, i)
    BY <2>4, <2>5, <2>6, <2>7 DEF LoadOK
  <2>9. \A j \in {i} : LoadOK(s, f, t, j)
    BY <2>8
  <2> HIDE DEF f
  <2> QED
    BY <2>1, <2>3, <2>6, <2>7, <2>9, LoadPreserves
<1>2. ASSUME NEW s \in Requests, NEW i \in Incidents, NEW p \in Policies,
             AssignEscalationPolicy(s, i, p)
      PROVE  IInv'
  <2> DEFINE f == [j \in {i} |-> [row[j] EXCEPT !.escalation_policy_id = p]]
  <2>1. Load(s, {i}, f, NoEvent) /\ clock' = clock
    BY <1>2 DEF AssignEscalationPolicy
  <2>2. /\ f[i] \in Row /\ SameWorkerColumns(row[i], f[i])
        /\ StatusChange(row[i], f[i])
        /\ f[i].acknowledged_at <= clock' /\ f[i].resolved_at <= clock'
    BY <1>0, <2>1 DEF Row, SameWorkerColumns, StatusChange
  <2>3. s # "sla_checker" /\ s # "escalation_runner" /\ s \in Sessions
    BY SessionAssumption DEF Sessions
  <2>4. NoEvent \notin WorkerEvents
    BY DEF NoEvent, WorkerEvents
  <2>5. \A j \in {i} : LoadOK(s, f, NoEvent, j)
    BY <2>2, <2>3, <2>4 DEF LoadOK
  <2> HIDE DEF f
  <2> QED
    BY <1>0, <2>1, <2>3, <2>5, LoadPreserves
<1>3. CASE CheckSlaBreaches
  <2> DEFINE S == OverdueIncidents
             f == [i \in S |-> [row[i] EXCEPT !.sla_breached = TRUE]]
  <2>1. Load("sla_checker", S, f, "sla.breached") /\ clock' = clock
    BY <1>3 DEF CheckSlaBreaches
  <2>2. ASSUME NEW i \in S PROVE LoadOK("sla_checker", f, "sla.breached", i)
    <3>1. i \in Incidents /\ row[i].sla_breached = FALSE
      BY DEF OverdueIncidents, Overdue
    <3>2. f[i] = [row[i] EXCEPT !.sla_breached = TRUE]
      OBVIOUS
    <3>3. /\ f[i] \in Row /\ StatusChange(row[i], f[i])
          /\ f[i].acknowledged_at <= clock' /\ f[i].resolved_at <= clock'
          /\ f[i].sla_breached = TRUE
          /\ f[i].current_escalation_step = row[i].current_escalation_step
      BY <1>0, <2>1, <3>1, <3>2 DEF Row, StatusChange
    <3>4. "sla_checker" \notin Requests
      BY SessionAssumption
    <3> HIDE DEF f
    <3> QED
      BY <3>1, <3>3, <3>4 DEF LoadOK
  <2>3. "sla_checker" \in Sessions /\ "sla.breached" \in Events \cup {NoEvent}
    BY DEF Sessions, Events, WorkerEvents
  <2>4. S \in SUBSET Incidents
    BY DEF OverdueIncidents
  <2> HIDE DEF S, f
  <2> QED
    BY <1>0, <2>1, <2>2, <2>3, <2>4, LoadPreserves
<1>4. ASSUME NEW S \in SUBSET Escalatable, RunEscalations(S) PROVE IInv'
  <2> DEFINE f == [i \in S |-> [row[i] EXCEPT !.current_escalation_step = @ + 1]]
  <2>1. Load("escalation_runner", S, f, "incident.escalated") /\ clock' = clock
    BY <1>4 DEF RunEscalations
  <2>2. S \in SUBSET Incidents
    BY DEF Escalatable
  <2>3. ASSUME NEW i \in S
        PROVE  LoadOK("escalation_runner", f, "incident.escalated", i)
    <3>1. f[i] = [row[i] EXCEPT !.current_escalation_step = @ + 1] /\ i \in Incidents
      BY <2>2
    <3>2. /\ f[i] \in Row /\ StatusChange(row[i], f[i])
          /\ f[i].acknowledged_at <= clock' /\ f[i].resolved_at <= clock'
          /\ f[i].sla_breached = row[i].sla_breached
          /\ f[i].current_escalation_step = row[i].current_escalation_step + 1
      BY <1>0, <2>1, <3>1 DEF Row, StatusChange
    <3>3. "escalation_runner" \notin Requests
      BY SessionAssumption
    <3> HIDE DEF f
    <3> QED
      BY <3>2, <3>3 DEF LoadOK
  <2>4. /\ "escalation_runner" \in Sessions
        /\ "incident.escalated" \in Events \cup {NoEvent}
    BY DEF Sessions, Events, WorkerEvents
  <2> HIDE DEF f
  <2> QED
    BY <1>0, <2>1, <2>2, <2>3, <2>4, LoadPreserves
<1>5. ASSUME NEW s \in Sessions, Commit(s) PROVE IInv'
  BY <1>5, CommitPreserves
<1>6. ASSUME NEW s \in Sessions, Rollback(s) PROVE IInv'
  <2> USE DEF Rollback, EndSession, IInv
  <2>1. ASSUME NEW q \in Sessions, NEW i \in Held(q)'
        PROVE  /\ q # s /\ i \in Held(q) /\ loaded'[q] = loaded[q]
               /\ pending'[q] = pending[q] /\ logged'[q] = logged[q]
    BY <1>6 DEF Held, TypeOK
  <2>2. /\ row' = row /\ trail' = trail /\ events' = events /\ clock' = clock
        /\ logged' \in [Sessions -> Events \cup {NoEvent}]
        /\ DOMAIN loaded' = Sessions /\ DOMAIN pending' = Sessions
    BY <1>6 DEF TypeOK
  <2>3. ASSUME NEW q \in Sessions
        PROVE  /\ Held(q)' \subseteq Incidents
               /\ DOMAIN pending'[q] = Held(q)'
               /\ \A i \in Held(q)' : loaded'[q][i] \in Row /\ pending'[q][i] \in Row
    <3>1. CASE q = s
      BY <1>6, <3>1 DEF Held, TypeOK
    <3>2. CASE q # s
      BY <1>6, <3>2 DEF Held, TypeOK
    <3> QED
      BY <3>1, <3>2
  <2>4. TypeOK'
    BY <2>2, <2>3 DEF TypeOK
  <2>5. StampsMatchStatus' /\ EventsMatchRow'
    BY <2>2 DEF StampsMatchStatus, EventsMatchRow
  <2>6. SessionInv'
    BY <2>1, <2>2 DEF SessionInv, WorkerChange, SameWorkerColumns, StatusChange
  <2> QED
    BY <2>4, <2>5, <2>6
<1>7. CASE Tick
  <2>1. /\ UNCHANGED <<row, trail, events, loaded, pending, logged>> /\ clock' = clock + 1
    BY <1>7 DEF Tick
  <2>2. TypeOK'
    <3>1. TypeOK /\ clock' \in Nat \ {0}
      BY <1>0, <2>1 DEF IInv
    <3>2. \A i \in Incidents : row[i].acknowledged_at <= clock' /\ row[i].resolved_at <= clock'
      BY <1>0, <2>1 DEF Row
    <3> QED
      BY <2>1, <3>1, <3>2 DEF TypeOK, Held
  <2>3. StampsMatchStatus' /\ EventsMatchRow'
    BY <2>1 DEF IInv, StampsMatchStatus, EventsMatchRow
  <2>4. SessionInv'
    <3> SUFFICES ASSUME NEW q \in Sessions, NEW i \in Held(q)
                 PROVE  /\ StatusChange(loaded[q][i], pending[q][i])'
                        /\ pending'[q][i].acknowledged_at <= clock'
                        /\ pending'[q][i].resolved_at <= clock'
                        /\ WorkerChange(q, i)'
      BY <2>1 DEF SessionInv, Held
    <3>1. /\ pending[q][i].acknowledged_at \in Nat /\ pending[q][i].resolved_at \in Nat
          /\ pending[q][i].acknowledged_at <= clock /\ pending[q][i].resolved_at <= clock
      BY DEF IInv, TypeOK, SessionInv, Row
    <3>2. StatusChange(loaded[q][i], pending[q][i]) /\ WorkerChange(q, i)
      BY DEF IInv, SessionInv
    <3> QED
      BY <1>0, <2>1, <3>1, <3>2 DEF StatusChange, WorkerChange, SameWorkerColumns
  <2> QED
    BY <2>2, <2>3, <2>4 DEF IInv
<1>8. CASE UNCHANGED vars
  <2>1. TypeOK'
    BY <1>8 DEF vars, IInv, TypeOK, Held
  <2>2. (StampsMatchStatus /\ EventsMatchRow /\ SessionInv)'
    BY <1>8 DEF vars, IInv, StampsMatchStatus, EventsMatchRow, SessionInv,
                Held, WorkerChange, SameWorkerColumns, StatusChange
  <2> QED
    BY <2>1, <2>2 DEF IInv
<1> QED
  BY <1>1, <1>2, <1>3, <1>4, <1>5, <1>6, <1>7, <1>8 DEF Next

\* The inductive invariant holds for every number of incidents, requests and
\* policies.
THEOREM SpecIInv == Spec => []IInv
BY InitIInv, NextIInv, PTL DEF Spec

\* Every row, session and timestamp has its type at all times.
THEOREM TypeCorrect == Spec => []TypeOK
<1>1. IInv => TypeOK
  BY DEF IInv
<1> QED
  BY <1>1, SpecIInv, PTL

\* Timestamps and status agree, however many requests commit decisions they
\* took on stale copies of the row.
THEOREM StampsAlwaysMatch == Spec => []StampsMatchStatus
<1>1. IInv => StampsMatchStatus
  BY DEF IInv
<1> QED
  BY <1>1, SpecIInv, PTL

\* The audit trail accounts for every breach mark and escalation step.
THEOREM EventsAlwaysMatch == Spec => []EventsMatchRow
<1>1. IInv => EventsMatchRow
  BY DEF IInv
<1> QED
  BY <1>1, SpecIInv, PTL

\* No commit takes back what a worker wrote.
THEOREM WorkerColumnsAlwaysSurvive == Spec => WorkerColumnsSurvive
<1> DEFINE Survive ==
      \A i \in Incidents :
        /\ row[i].sla_breached = TRUE => row'[i].sla_breached = TRUE
        /\ row[i].current_escalation_step <= row'[i].current_escalation_step
<1>1. IInv /\ [Next]_vars => [Survive]_vars
  <2> SUFFICES ASSUME IInv, Next PROVE Survive
    OBVIOUS
  <2>0. \A i \in Incidents : row[i].current_escalation_step \in Nat
    BY DEF IInv, TypeOK, Row
  <2>1. CASE row' = row
    BY <2>0, <2>1
  <2>2. ASSUME NEW s \in Sessions, Commit(s) PROVE Survive
    <3> SUFFICES ASSUME NEW i \in Incidents
                 PROVE  /\ row[i].sla_breached = TRUE => row'[i].sla_breached = TRUE
                        /\ row[i].current_escalation_step
                             <= row'[i].current_escalation_step
      OBVIOUS
    <3>1. row[i].sla_breached = TRUE => row'[i].sla_breached = TRUE
      BY <2>2, CommitColumns
    <3>2. \/ row'[i].current_escalation_step = row[i].current_escalation_step
          \/ row'[i].current_escalation_step = row[i].current_escalation_step + 1
      BY <2>2, CommitColumns
    <3> QED
      BY <2>0, <3>1, <3>2
  <2>3. row' = row \/ \E s \in Sessions : Commit(s)
    BY DEF Next, TransitionStatus, AssignEscalationPolicy, CheckSlaBreaches,
           RunEscalations, Rollback, Tick, Load
  <2> QED
    BY <2>1, <2>2, <2>3
<1> QED
  BY <1>1, SpecIInv, PTL DEF Spec, WorkerColumnsSurvive

-------------------------------------------------------------------------
(***************************************************************************)
(* With one status request at a time the statuses follow the abstract      *)
(* state machine: then a request's loaded status is still the current one  *)
(* when it commits, since no job writes the column.                        *)
(***************************************************************************)
SerialRow(s, i) ==
  /\ s \notin Requests => pending[s][i].status = loaded[s][i].status
  /\ s \in Requests =>
       /\ Held(s) = {i}
       /\ loaded[s][i].status = row[i].status
       /\ \/ pending[s][i].status = loaded[s][i].status
          \/ <<loaded[s][i].status, pending[s][i].status>> \in SM!Moves

SerialInv == \A s \in Sessions : \A i \in Held(s) : SerialRow(s, i)

\* Only the commit of a request changes a status, and it changes one.
LEMMA StatusWrites ==
  ASSUME IInv, SerialInv, Next
  PROVE  \/ \A i \in Incidents : row'[i].status = row[i].status
         \/ \E s \in Requests : \E i \in Held(s) :
              /\ Commit(s)
              /\ <<row[i].status, row'[i].status>> \in SM!Moves
              /\ \A j \in Incidents \ {i} : row'[j] = row[j]
<1>1. CASE row' = row
  BY <1>1
<1>2. ASSUME NEW s \in Sessions, Commit(s)
      PROVE  \/ \A i \in Incidents : row'[i].status = row[i].status
             \/ /\ s \in Requests
                /\ \E i \in Held(s) :
                     /\ <<row[i].status, row'[i].status>> \in SM!Moves
                     /\ \A j \in Incidents \ {i} : row'[j] = row[j]
  <2>1. ASSUME NEW i \in Incidents, i \notin Held(s) PROVE row'[i] = row[i]
    BY <1>2, <2>1 DEF Commit
  <2>2. ASSUME NEW i \in Held(s)
        PROVE  /\ i \in Incidents
               /\ row'[i].status = Column(row[i].status, loaded[s][i].status,
                                          pending[s][i].status)
    <3>1. i \in Incidents
      BY DEF IInv, TypeOK
    <3>2. row'[i] = WrittenColumns(row[i], loaded[s][i], pending[s][i])
      BY <1>2, <3>1 DEF Commit
    <3> QED
      BY <3>1, <3>2 DEF WrittenColumns
  <2>3. CASE s \notin Requests
    <3>1. ASSUME NEW i \in Held(s) PROVE row'[i].status = row[i].status
      BY <2>2, <2>3 DEF SerialInv, SerialRow, Column
    <3> QED
      BY <2>1, <3>1
  <2>4. CASE s \in Requests
    <3>1. PICK i \in Held(s) : TRUE
      BY <1>2 DEF Commit, Idle
    <3>2. /\ Held(s) = {i} /\ loaded[s][i].status = row[i].status
          /\ \/ pending[s][i].status = loaded[s][i].status
             \/ <<loaded[s][i].status, pending[s][i].status>> \in SM!Moves
      BY <2>4, <3>1 DEF SerialInv, SerialRow
    <3>3. \A j \in Incidents \ {i} : row'[j] = row[j]
      BY <2>1, <3>2
    <3>4. CASE pending[s][i].status = loaded[s][i].status
      BY <2>2, <3>1, <3>3, <3>4 DEF Column
    <3>5. CASE pending[s][i].status # loaded[s][i].status
      <4>1. row'[i].status = pending[s][i].status
        BY <2>2, <3>1, <3>5 DEF Column
      <4>2. <<row[i].status, row'[i].status>> \in SM!Moves
        BY <3>2, <3>5, <4>1
      <4> QED
        BY <2>4, <3>1, <3>3, <4>2
    <3> QED
      BY <3>4, <3>5
  <2> QED
    BY <2>3, <2>4
<1>3. row' = row \/ \E s \in Sessions : Commit(s)
  BY DEF Next, TransitionStatus, AssignEscalationPolicy, CheckSlaBreaches,
         RunEscalations, Rollback, Tick, Load
<1> QED
  BY <1>1, <1>2, <1>3

\* With one request at a time, a held status is never stale.
LEMMA NextSerialInv ==
  ASSUME \A q, s \in Requests : q = s,
         IInv, SerialInv, [Next]_vars
  PROVE  SerialInv'
<1> SUFFICES ASSUME NEW q \in Sessions, NEW j \in Held(q)'
             PROVE  SerialRow(q, j)'
  BY DEF SerialInv, SerialRow
<1> DEFINE Goal == SerialRow(q, j)'
<1> USE DEF SerialRow
<1>0. ASSUME j \in Held(q), loaded'[q] = loaded[q], pending'[q] = pending[q],
             q \in Requests => row'[j].status = row[j].status
      PROVE  Goal
  BY <1>0 DEF SerialInv, Held
<1>1. ASSUME NEW s \in Requests, NEW i \in Incidents, NEW t \in Statuses,
             TransitionStatus(s, i, t)
      PROVE  Goal
  <2> DEFINE f == [k \in {i} |-> Transitioned(row[k], t, clock')]
  <2>1. Load(s, {i}, f, t) /\ t \in VALID_TRANSITIONS[row[i].status]
    BY <1>1 DEF TransitionStatus
  <2>2. row[i] \in Row /\ row[i].status \in Statuses
    BY DEF IInv, TypeOK, Row
  <2>3. CASE q = s
    <3>1. /\ j = i /\ Held(q)' = {j} /\ row' = row
          /\ loaded'[q][j] = row[i] /\ pending'[q][j] = Transitioned(row[i], t, clock')
      BY <2>1, <2>3 DEF Load, Held, IInv, TypeOK
    <3>2. Transitioned(row[i], t, clock').status = t
      BY <2>2 DEF Transitioned, Row, Statuses
    <3>3. <<row[i].status, t>> \in SM!Moves
      BY <2>1, <2>2 DEF VALID_TRANSITIONS, Statuses, SM!Moves
    <3> QED
      BY <2>3, <3>1, <3>2, <3>3
  <2>4. CASE q # s
    BY <1>0, <2>1, <2>4 DEF Load, Held, IInv, TypeOK
  <2> QED
    BY <2>3, <2>4
<1>2. ASSUME NEW s \in Requests, NEW i \in Incidents, NEW p \in Policies,
             AssignEscalationPolicy(s, i, p)
      PROVE  Goal
  <2> DEFINE f == [k \in {i} |-> [row[k] EXCEPT !.escalation_policy_id = p]]
  <2>1. Load(s, {i}, f, NoEvent)
    BY <1>2 DEF AssignEscalationPolicy
  <2>2. CASE q = s
    <3>1. /\ j = i /\ Held(q)' = {j} /\ row' = row /\ loaded'[q][j] = row[i]
          /\ pending'[q][j] = [row[i] EXCEPT !.escalation_policy_id = p]
      BY <2>1, <2>2 DEF Load, Held, IInv, TypeOK
    <3>2. row[i] \in Row
      BY DEF IInv, TypeOK
    <3> QED
      BY <2>2, <3>1, <3>2 DEF Row
  <2>3. CASE q # s
    BY <1>0, <2>1, <2>3 DEF Load, Held, IInv, TypeOK
  <2> QED
    BY <2>2, <2>3
<1>3. CASE CheckSlaBreaches
  <2>1. CASE q = "sla_checker"
    <3>1. /\ j \in OverdueIncidents /\ loaded'[q][j] = row[j]
          /\ pending'[q][j] = [row[j] EXCEPT !.sla_breached = TRUE]
      BY <1>3, <2>1 DEF CheckSlaBreaches, Load, Held, IInv, TypeOK
    <3>2. row[j] \in Row
      BY <3>1 DEF OverdueIncidents, IInv, TypeOK
    <3>3. q \notin Requests
      BY <2>1, SessionAssumption
    <3> QED
      BY <3>1, <3>2, <3>3 DEF Row
  <2>2. CASE q # "sla_checker"
    BY <1>0, <1>3, <2>2 DEF CheckSlaBreaches, Load, Held, IInv, TypeOK
  <2> QED
    BY <2>1, <2>2
<1>4. ASSUME NEW S \in SUBSET Escalatable, RunEscalations(S) PROVE Goal
  <2>1. CASE q = "escalation_runner"
    <3>1. /\ j \in S /\ loaded'[q][j] = row[j]
          /\ pending'[q][j] = [row[j] EXCEPT !.current_escalation_step = @ + 1]
      BY <1>4, <2>1 DEF RunEscalations, Load, Held, IInv, TypeOK
    <3>2. row[j] \in Row
      BY <3>1 DEF Escalatable, IInv, TypeOK
    <3>3. q \notin Requests
      BY <2>1, SessionAssumption
    <3> QED
      BY <3>1, <3>2, <3>3 DEF Row
  <2>2. CASE q # "escalation_runner"
    BY <1>0, <1>4, <2>2 DEF RunEscalations, Load, Held, IInv, TypeOK
  <2> QED
    BY <2>1, <2>2
<1>5. ASSUME NEW s \in Sessions, Commit(s) PROVE Goal
  <2>1. /\ q # s /\ j \in Held(q) /\ j \in Incidents
        /\ loaded'[q] = loaded[q] /\ pending'[q] = pending[q]
    BY <1>5 DEF Commit, EndSession, Held, IInv, TypeOK
  <2>2. q \in Requests => row'[j].status = row[j].status
    <3> SUFFICES ASSUME q \in Requests PROVE row'[j].status = row[j].status
      OBVIOUS
    <3>1. s \notin Requests
      BY <2>1
    <3>2. CASE j \notin Held(s)
      BY <1>5, <2>1, <3>2 DEF Commit
    <3>3. CASE j \in Held(s)
      <4>1. row'[j] = WrittenColumns(row[j], loaded[s][j], pending[s][j])
        BY <1>5, <2>1, <3>3 DEF Commit
      <4>2. pending[s][j].status = loaded[s][j].status
        BY <3>1, <3>3 DEF SerialInv
      <4> QED
        BY <4>1, <4>2 DEF WrittenColumns, Column
    <3> QED
      BY <3>2, <3>3
  <2> QED
    BY <1>0, <2>1, <2>2
<1>6. ASSUME NEW s \in Sessions, Rollback(s) PROVE Goal
  <2>1. /\ q # s /\ j \in Held(q) /\ row' = row
        /\ loaded'[q] = loaded[q] /\ pending'[q] = pending[q]
    BY <1>6 DEF Rollback, EndSession, Held, IInv, TypeOK
  <2> QED
    BY <1>0, <2>1
<1>7. CASE Tick \/ UNCHANGED vars
  BY <1>0, <1>7 DEF Tick, vars, Held
<1> QED
  BY <1>1, <1>2, <1>3, <1>4, <1>5, <1>6, <1>7 DEF Next

\* With at most one status request the lifecycle implements the abstract
\* state machine, whatever the workers do meanwhile.
THEOREM SerialImplements ==
  ASSUME \A q, s \in Requests : q = s
  PROVE  Spec => ImplementsStateMachine
<1> DEFINE st == [i \in Incidents |-> row[i].status]
<1>1. Init => SM!Init
  BY DEF Init, SM!Init, NewRow
<1>2. Init => SerialInv
  BY DEF Init, SerialInv, Held
<1>3. IInv /\ SerialInv /\ [Next]_vars => SerialInv'
  BY NextSerialInv
<1>4. IInv /\ IInv' /\ SerialInv /\ [Next]_vars => [SM!Next]_st
  <2> SUFFICES ASSUME IInv, IInv', SerialInv, Next PROVE SM!Next \/ st' = st
    BY DEF vars
  <2>1. CASE \A i \in Incidents : row'[i].status = row[i].status
    BY <2>1
  <2>2. ASSUME NEW s \in Requests, NEW i \in Held(s),
               <<row[i].status, row'[i].status>> \in SM!Moves,
               \A j \in Incidents \ {i} : row'[j] = row[j]
        PROVE  SM!Next
    <3>1. i \in Incidents /\ row'[i].status \in SM!Statuses
      BY <2>2 DEF IInv, TypeOK, Row, Statuses, SM!Statuses, Sessions
    <3>2. st' = [st EXCEPT ![i] = row'[i].status]
      BY <2>2, <3>1
    <3>3. <<st[i], row'[i].status>> \in SM!Moves
      BY <2>2, <3>1
    <3>4. \E j \in Incidents, t \in SM!Statuses :
            <<st[j], t>> \in SM!Moves /\ st' = [st EXCEPT ![j] = t]
      <4> HIDE DEF st
      <4> QED
        BY <3>1, <3>2, <3>3
    <3> QED
      BY <3>4 DEF SM!Next, SM!Transition
  <2> QED
    BY <2>1, <2>2, StatusWrites
<1>5. Spec => SM!Init /\ [][SM!Next]_st
  BY <1>1, <1>2, <1>3, <1>4, SpecIInv, PTL DEF Spec
<1> QED
  BY <1>5, PTL DEF ImplementsStateMachine, SM!Spec

-------------------------------------------------------------------------
(***************************************************************************)
(* The audit row a request will insert names the status it moves to, and   *)
(* a request that keeps the status inserts none.                           *)
(***************************************************************************)
LogRow(s, i) ==
  s \in Requests =>
    \/ pending[s][i].status = loaded[s][i].status /\ logged[s] \notin Statuses
    \/ pending[s][i].status # loaded[s][i].status /\ logged[s] = pending[s][i].status

LogInv == \A s \in Sessions : \A i \in Held(s) : LogRow(s, i)

LEMMA NextLogInv ==
  ASSUME IInv, LogInv, [Next]_vars
  PROVE  LogInv'
<1> SUFFICES ASSUME NEW q \in Requests, NEW j \in Held(q)'
             PROVE  LogRow(q, j)'
  BY DEF LogInv, LogRow
<1> USE DEF LogRow
<1>0. ASSUME j \in Held(q), loaded'[q] = loaded[q], pending'[q] = pending[q],
             logged'[q] = logged[q]
      PROVE  LogRow(q, j)'
  BY <1>0 DEF LogInv, Sessions
<1>1. ASSUME NEW s \in Requests, NEW i \in Incidents, NEW t \in Statuses,
             TransitionStatus(s, i, t)
      PROVE  LogRow(q, j)'
  <2> DEFINE f == [k \in {i} |-> Transitioned(row[k], t, clock')]
  <2>1. Load(s, {i}, f, t) /\ t \in VALID_TRANSITIONS[row[i].status]
    BY <1>1 DEF TransitionStatus
  <2>2. row[i] \in Row /\ row[i].status \in Statuses
    BY DEF IInv, TypeOK, Row
  <2>3. CASE q = s
    <3>1. /\ j = i /\ loaded'[q][j] = row[i] /\ logged'[q] = t
          /\ pending'[q][j] = Transitioned(row[i], t, clock')
      BY <2>1, <2>3 DEF Load, Held, IInv, TypeOK, Sessions
    <3>2. Transitioned(row[i], t, clock').status = t
      BY <2>2 DEF Transitioned, Row, Statuses
    <3>3. row[i].status # t
      BY <2>1, <2>2 DEF VALID_TRANSITIONS, Statuses
    <3> QED
      BY <3>1, <3>2, <3>3
  <2>4. CASE q # s
    BY <1>0, <2>1, <2>4 DEF Load, Held, IInv, TypeOK, Sessions
  <2> QED
    BY <2>3, <2>4
<1>2. ASSUME NEW s \in Requests, NEW i \in Incidents, NEW p \in Policies,
             AssignEscalationPolicy(s, i, p)
      PROVE  LogRow(q, j)'
  <2> DEFINE f == [k \in {i} |-> [row[k] EXCEPT !.escalation_policy_id = p]]
  <2>1. Load(s, {i}, f, NoEvent)
    BY <1>2 DEF AssignEscalationPolicy
  <2>2. CASE q = s
    <3>1. /\ j = i /\ loaded'[q][j] = row[i] /\ logged'[q] = NoEvent
          /\ pending'[q][j] = [row[i] EXCEPT !.escalation_policy_id = p]
      BY <2>1, <2>2 DEF Load, Held, IInv, TypeOK, Sessions
    <3>2. row[i] \in Row
      BY DEF IInv, TypeOK
    <3> QED
      BY <3>1, <3>2 DEF Row, NoEvent, Statuses
  <2>3. CASE q # s
    BY <1>0, <2>1, <2>3 DEF Load, Held, IInv, TypeOK, Sessions
  <2> QED
    BY <2>2, <2>3
<1>3. CASE CheckSlaBreaches
  <2>1. q # "sla_checker"
    BY SessionAssumption
  <2> QED
    BY <1>0, <1>3, <2>1 DEF CheckSlaBreaches, Load, Held, IInv, TypeOK, Sessions
<1>4. ASSUME NEW S \in SUBSET Escalatable, RunEscalations(S) PROVE LogRow(q, j)'
  <2>1. q # "escalation_runner"
    BY SessionAssumption
  <2> QED
    BY <1>0, <1>4, <2>1 DEF RunEscalations, Load, Held, IInv, TypeOK, Sessions
<1>5. ASSUME NEW s \in Sessions, Commit(s) \/ Rollback(s) PROVE LogRow(q, j)'
  <2>1. q # s
    BY <1>5 DEF Commit, Rollback, EndSession, Held, IInv, TypeOK, Sessions
  <2> QED
    BY <1>0, <1>5, <2>1 DEF Commit, Rollback, EndSession, Held, IInv, TypeOK, Sessions
<1>6. CASE Tick \/ UNCHANGED vars
  BY <1>0, <1>6 DEF Tick, vars, Held
<1> QED
  BY <1>1, <1>2, <1>3, <1>4, <1>5, <1>6 DEF Next

\* What a commit does to the trail of a row and to its status.
LEMMA CommitTrail ==
  ASSUME IInv, SerialInv, LogInv, NEW s \in Sessions, Commit(s), NEW i \in Incidents
  PROVE  \/ row'[i].status = row[i].status /\ trail'[i] = trail[i]
         \/ trail'[i] = Append(trail[i], [from |-> row[i].status,
                                          to |-> row'[i].status])
<1>1. CASE i \notin Held(s)
  BY <1>1 DEF Commit
<1>2. CASE i \in Held(s)
  <2>1. /\ row'[i].status = Column(row[i].status, loaded[s][i].status, pending[s][i].status)
        /\ trail'[i] = IF logged[s] \in Statuses
                       THEN Append(trail[i], [from |-> loaded[s][i].status,
                                              to |-> logged[s]])
                       ELSE trail[i]
    BY <1>2 DEF Commit, WrittenColumns, StatusEntry
  <2>2. CASE s \notin Requests
    <3>1. pending[s][i].status = loaded[s][i].status
      BY <1>2, <2>2 DEF SerialInv, SerialRow
    <3>2. logged[s] \notin Statuses
      BY <1>2, <2>2 DEF IInv, SessionInv, WorkerChange, Sessions, Statuses
    <3> QED
      BY <2>1, <3>1, <3>2 DEF Column
  <2>3. CASE s \in Requests
    <3>1. loaded[s][i].status = row[i].status
      BY <1>2, <2>3 DEF SerialInv, SerialRow
    <3>2. LogRow(s, i)
      BY <1>2 DEF LogInv
    <3>3. pending[s][i].status \in Statuses
      BY <1>2 DEF IInv, TypeOK, Row
    <3> QED
      BY <2>1, <2>3, <3>1, <3>2, <3>3 DEF Column, LogRow
  <2> QED
    BY <2>2, <2>3
<1> QED
  BY <1>1, <1>2

\* An entry that takes up the status a trail has reached may follow it.
LEMMA EntryFollows ==
  ASSUME NEW tr \in Seq([from : Statuses, to : Statuses]), NEW t \in Statuses,
         NEW n \in 1..Len(tr) + 1,
         \A k \in DOMAIN tr : tr[k].from = IF k = 1 THEN NewRow.status ELSE tr[k - 1].to
  PROVE  LET new == Append(tr, [from |-> Reached(tr), to |-> t])
         IN  /\ DOMAIN new = 1..Len(tr) + 1
             /\ new[n].from = IF n = 1 THEN NewRow.status ELSE new[n - 1].to
             /\ Reached(new) = t
<1> DEFINE E == [from : Statuses, to : Statuses]
           e == [from |-> Reached(tr), to |-> t]
           new == Append(tr, e)
<1>1. Len(tr) \in Nat /\ DOMAIN tr = 1..Len(tr) /\ (tr = <<>> <=> Len(tr) = 0)
  BY LenProperties, EmptySeq
<1>2. e \in E
  <2>1. CASE tr = <<>>
    BY <2>1 DEF Reached, NewRow, Statuses
  <2>2. CASE tr # <<>>
    <3>1. Len(tr) \in 1..Len(tr)
      BY <1>1, <2>2
    <3>2. tr[Len(tr)] \in E
      BY <1>1, <3>1, ElementOfSeq
    <3> QED
      BY <2>2, <3>2 DEF Reached
  <2> QED
    BY <2>1, <2>2
<1>3. /\ new \in Seq(E) /\ new # <<>> /\ Len(new) = Len(tr) + 1
      /\ \A k \in 1..Len(tr) : new[k] = tr[k]
      /\ new[Len(tr) + 1] = e
  <2> HIDE DEF e, E
  <2>1. tr \in Seq(E)
    BY DEF E
  <2> QED
    BY <1>2, <2>1, AppendProperties
<1>4. DOMAIN new = 1..Len(tr) + 1
  BY <1>3, LenProperties
<1>5. e.from = Reached(tr) /\ e.to = t
  OBVIOUS
<1> HIDE DEF new, e
<1>6. Reached(new) = t
  BY <1>1, <1>3, <1>5 DEF Reached
<1>7. new[n].from = IF n = 1 THEN NewRow.status ELSE new[n - 1].to
  <2>1. CASE n = Len(tr) + 1
    <3>1. new[n].from = Reached(tr)
      BY <1>3, <1>5, <2>1
    <3>2. CASE n = 1
      BY <1>1, <2>1, <3>1, <3>2 DEF Reached
    <3>3. CASE n # 1
      <4>1. n - 1 = Len(tr) /\ Len(tr) \in 1..Len(tr) /\ tr # <<>>
        BY <1>1, <2>1, <3>3
      <4> QED
        BY <1>3, <3>1, <3>3, <4>1 DEF Reached
    <3> QED
      BY <3>2, <3>3
  <2>2. CASE n # Len(tr) + 1
    <3>1. n \in 1..Len(tr) /\ (n # 1 => n - 1 \in 1..Len(tr))
      BY <1>1, <2>2
    <3>2. tr[n].from = IF n = 1 THEN NewRow.status ELSE tr[n - 1].to
      BY <1>1, <3>1
    <3> QED
      BY <1>3, <3>1, <3>2
  <2> QED
    BY <2>1, <2>2
<1> QED
  BY <1>4, <1>6, <1>7 DEF new, e

LEMMA NextAudit ==
  ASSUME IInv, IInv', SerialInv, LogInv, AuditReplaysStatus, [Next]_vars
  PROVE  AuditReplaysStatus'
<1> DEFINE Chained(tr) ==
      \A n \in DOMAIN tr : tr[n].from = IF n = 1 THEN NewRow.status ELSE tr[n - 1].to
<1> SUFFICES ASSUME NEW i \in Incidents
             PROVE  Chained(trail'[i]) /\ row'[i].status = Reached(trail'[i])
  BY DEF AuditReplaysStatus, Reached
<1>0. Chained(trail[i]) /\ row[i].status = Reached(trail[i])
  BY DEF AuditReplaysStatus
<1>1. CASE row'[i].status = row[i].status /\ trail'[i] = trail[i]
  BY <1>0, <1>1
<1>2. CASE trail'[i] = Append(trail[i], [from |-> row[i].status, to |-> row'[i].status])
  <2>1. trail[i] \in Seq([from : Statuses, to : Statuses]) /\ row'[i].status \in Statuses
    BY DEF IInv, TypeOK, Row
  <2>2. ASSUME NEW n \in 1..Len(trail[i]) + 1
        PROVE  /\ DOMAIN trail'[i] = 1..Len(trail[i]) + 1
               /\ trail'[i][n].from = IF n = 1 THEN NewRow.status ELSE trail'[i][n - 1].to
               /\ Reached(trail'[i]) = row'[i].status
    <3> DEFINE tr == trail[i]
               t == row'[i].status
               new == Append(tr, [from |-> Reached(tr), to |-> t])
    <3>1. trail'[i] = new
      BY <1>0, <1>2
    <3>2. /\ tr \in Seq([from : Statuses, to : Statuses]) /\ t \in Statuses
          /\ \A k \in DOMAIN tr : tr[k].from = IF k = 1 THEN NewRow.status ELSE tr[k - 1].to
          /\ n \in 1..Len(tr) + 1
      BY <1>0, <2>1
    <3> HIDE DEF tr, t
    <3>3. /\ DOMAIN new = 1..Len(tr) + 1
          /\ new[n].from = IF n = 1 THEN NewRow.status ELSE new[n - 1].to
          /\ Reached(new) = t
      BY <3>2, EntryFollows
    <3> HIDE DEF new
    <3> QED
      BY <3>1, <3>3 DEF tr, t
  <2>3. 1 \in 1..Len(trail[i]) + 1
    BY <2>1, LenProperties
  <2>4. DOMAIN trail'[i] = 1..Len(trail[i]) + 1 /\ row'[i].status = Reached(trail'[i])
    BY <2>2, <2>3
  <2>5. ASSUME NEW n \in DOMAIN trail'[i]
        PROVE  trail'[i][n].from = IF n = 1 THEN NewRow.status ELSE trail'[i][n - 1].to
    BY <2>2, <2>4
  <2> QED
    BY <2>4, <2>5
<1>3. ASSUME NEW s \in Sessions, Commit(s)
      PROVE  \/ row'[i].status = row[i].status /\ trail'[i] = trail[i]
             \/ trail'[i] = Append(trail[i], [from |-> row[i].status,
                                              to |-> row'[i].status])
  BY <1>3, CommitTrail
<1>4. (row' = row /\ trail' = trail) \/ \E s \in Sessions : Commit(s)
  BY DEF Next, vars, TransitionStatus, AssignEscalationPolicy, CheckSlaBreaches,
         RunEscalations, Rollback, Tick, Load
<1> QED
  BY <1>1, <1>2, <1>3, <1>4

\* With at most one status request at a time the audit trail replays to the
\* status of every row, entry by entry, whatever the jobs commit in between
\* (transition_status).
THEOREM AuditAlwaysReplays ==
  ASSUME \A q, s \in Requests : q = s
  PROVE  Spec => []AuditReplaysStatus
<1>1. Init => SerialInv /\ LogInv /\ AuditReplaysStatus
  BY DEF Init, SerialInv, LogInv, Held, AuditReplaysStatus, Reached, NewRow
<1>2. IInv /\ IInv' /\ SerialInv /\ LogInv /\ AuditReplaysStatus /\ [Next]_vars
        => SerialInv' /\ LogInv' /\ AuditReplaysStatus'
  BY NextSerialInv, NextLogInv, NextAudit
<1> QED
  BY <1>1, <1>2, SpecIInv, PTL DEF Spec

-------------------------------------------------------------------------
(***************************************************************************)
(* The page around the lifecycle takes nothing from it: every behaviour of *)
(* PageSpec is one of Spec, so what is proved above holds beside any       *)
(* number of pages.  The property of the page itself needs what a page     *)
(* shows, and what it has asked for.                                       *)
(***************************************************************************)
PageTypeOK ==
  /\ phase \in [Pages -> {"fetching", "ready", "sent", "refused"}]
  /\ view \in [Pages -> Statuses \union {NoIncident}]
  /\ choice \in [Pages -> Statuses \union {NoIncident}]
  /\ fresh \in [Pages -> BOOLEAN]

\* What a fresh page shows is committed.
FreshOK == \A p \in Pages : fresh[p] => view[p] = row[Shows[p]].status

\* What a page asks for was on a button of the status it shows.
ChoiceOK == \A p \in Pages : phase[p] = "sent" => choice[p] \in Buttons(view[p])

PageInv == PageTypeOK /\ FreshOK /\ ChoiceOK /\ RefusalNeedsChange

\* Every button is a transition that VALID_TRANSITIONS allows.
LEMMA ButtonsAllowed ==
  ASSUME NEW s \in Statuses
  PROVE  Buttons(s) \subseteq VALID_TRANSITIONS[s]
<1>1. CASE s = "triggered"
  BY <1>1 DEF Buttons, VALID_TRANSITIONS, Statuses
<1>2. CASE s = "acknowledged"
  BY <1>2 DEF Buttons, VALID_TRANSITIONS, Statuses
<1>3. CASE s = "resolved"
  BY <1>3 DEF Buttons, VALID_TRANSITIONS, Statuses
<1> QED
  BY <1>1, <1>2, <1>3 DEF Statuses

\* A page adds a request of its own to the lifecycle, or no step at all.
LEMMA PageStepIsStep ==
  ASSUME IInv, PageInv, [PageNext]_allVars
  PROVE  [Next]_vars
<1>1. ASSUME NEW p \in Pages, Open(p) \/ FetchIncident(p) \/ Refuse(p) \/ Lose(p)
      PROVE  UNCHANGED vars
  BY <1>1 DEF Open, FetchIncident, Refuse, Lose
<1>2. ASSUME NEW p \in Pages, NEW t \in Statuses, Click(p, t)
      PROVE  UNCHANGED vars
  BY <1>2 DEF Click
<1>3. ASSUME NEW p \in Pages, NEW s \in Requests, Accept(p, s)
      PROVE  Next
  <2>1. Shows[p] \in Incidents
    BY PageAssumption
  <2>2. choice[p] \in Statuses
    <3>1. choice[p] \in Buttons(view[p])
      BY <1>3 DEF Accept, PageInv, ChoiceOK
    <3> QED
      BY <3>1 DEF Buttons, Statuses
  <2>3. TransitionStatus(s, Shows[p], choice[p])
    BY <1>3 DEF Accept
  <2> QED
    BY <2>1, <2>2, <2>3 DEF Next
<1>4. Elsewhere => Next
  BY DEF Elsewhere, Next
<1>5. UNCHANGED allVars => UNCHANGED vars
  BY DEF allVars
<1> QED
  BY <1>1, <1>2, <1>3, <1>4, <1>5 DEF PageNext

LEMMA InitPageInv == PageInit => IInv /\ PageInv
<1> SUFFICES ASSUME PageInit PROVE PageInv
  BY InitIInv DEF PageInit
<1> QED
  BY DEF PageInit, PageInv, PageTypeOK, FreshOK, ChoiceOK, RefusalNeedsChange

LEMMA NextPageInv ==
  ASSUME IInv, PageInv, [PageNext]_allVars
  PROVE  PageInv'
<1> USE DEF PageInv
<1>0. \A p \in Pages : Shows[p] \in Incidents /\ row[Shows[p]].status \in Statuses
  BY PageAssumption DEF IInv, TypeOK, Row
<1>1. ASSUME NEW p \in Pages, Open(p) PROVE PageInv'
  BY <1>1 DEF Open, Turn, vars, PageTypeOK, FreshOK, ChoiceOK, RefusalNeedsChange
<1>2. ASSUME NEW p \in Pages, FetchIncident(p) PROVE PageInv'
  <2>1. PageTypeOK' /\ ChoiceOK' /\ RefusalNeedsChange'
    BY <1>0, <1>2 DEF FetchIncident, Turn, PageTypeOK, ChoiceOK, RefusalNeedsChange
  <2>2. FreshOK'
    BY <1>2 DEF FetchIncident, Turn, vars, PageTypeOK, FreshOK
  <2> QED
    BY <2>1, <2>2
<1>3. ASSUME NEW p \in Pages, NEW t \in Statuses, Click(p, t) PROVE PageInv'
  BY <1>3 DEF Click, Turn, vars, PageTypeOK, FreshOK, ChoiceOK, RefusalNeedsChange
<1>4. ASSUME NEW p \in Pages, NEW s \in Requests, Accept(p, s) PROVE PageInv'
  <2>1. row' = row
    BY <1>4 DEF Accept, TransitionStatus, Load
  <2> QED
    BY <1>4, <2>1 DEF Accept, Turn, PageTypeOK, FreshOK, ChoiceOK, RefusalNeedsChange
<1>5. ASSUME NEW p \in Pages, Refuse(p) PROVE PageInv'
  <2>1. ~fresh[p]
    \* A fresh page shows the committed status, whose buttons are allowed.
    <3>1. choice[p] \in Buttons(view[p]) /\ choice[p] \notin VALID_TRANSITIONS[row[Shows[p]].status]
      BY <1>5 DEF Refuse, ChoiceOK
    <3> QED
      BY <1>0, <3>1, ButtonsAllowed DEF FreshOK
  <2> QED
    BY <1>5, <2>1 DEF Refuse, Turn, vars, PageTypeOK, FreshOK, ChoiceOK, RefusalNeedsChange
<1>6. ASSUME NEW p \in Pages, Lose(p) PROVE PageInv'
  BY <1>6 DEF Lose, Turn, vars, PageTypeOK, FreshOK, ChoiceOK, RefusalNeedsChange
<1>7. CASE Elsewhere
  <2>1. \A p \in Pages : fresh'[p] = (fresh[p] /\ row'[Shows[p]].status = row[Shows[p]].status)
    BY <1>7 DEF Elsewhere
  <2>2. PageTypeOK'
    BY <1>7 DEF Elsewhere, PageTypeOK
  <2>3. FreshOK' /\ ChoiceOK' /\ RefusalNeedsChange'
    BY <1>7, <2>1 DEF Elsewhere, FreshOK, ChoiceOK, RefusalNeedsChange
  <2> QED
    BY <2>2, <2>3
<1>8. CASE UNCHANGED allVars
  BY <1>8 DEF allVars, vars, pageVars, PageTypeOK, FreshOK, ChoiceOK, RefusalNeedsChange
<1> QED
  BY <1>1, <1>2, <1>3, <1>4, <1>5, <1>6, <1>7, <1>8 DEF PageNext

LEMMA SpecPageInv == PageSpec => [](IInv /\ PageInv)
<1>1. IInv /\ PageInv /\ [PageNext]_allVars => (IInv /\ PageInv)'
  BY PageStepIsStep, NextIInv, NextPageInv
<1> QED
  BY <1>1, InitPageInv, PTL DEF PageSpec

\* What a page asks for is allowed from the status it shows, so a refusal
\* means that the status was changed since it was fetched, for any number of
\* pages and requests (IncidentDetail.jsx, transition_status).
THEOREM RefusalAlwaysNeedsChange == PageSpec => []RefusalNeedsChange
<1>1. PageInv => RefusalNeedsChange
  BY DEF PageInv
<1> QED
  BY <1>1, SpecPageInv, PTL

\* The lifecycle with pages among its clients is the lifecycle.
THEOREM PagesKeepLifecycle == PageSpec => Spec
<1>1. PageInit => Init
  BY DEF PageInit
<1>2. IInv /\ PageInv /\ [PageNext]_allVars => [Next]_vars
  BY PageStepIsStep
<1> QED
  BY <1>1, <1>2, SpecPageInv, PTL DEF PageSpec, Spec

\* With one status request at a time, of a page or of another client, the
\* audit trail replays to the status of the row (transition_status).
THEOREM AuditReplaysWithPages ==
  ASSUME \A q, s \in Requests : q = s
  PROVE  PageSpec => []AuditReplaysStatus
BY PagesKeepLifecycle, AuditAlwaysReplays, PTL

\* Then pages, other clients and both jobs together implement the documented
\* state machine.
THEOREM PagesImplementStateMachine ==
  ASSUME \A q, s \in Requests : q = s
  PROVE  PageSpec => ImplementsStateMachine
BY PagesKeepLifecycle, SerialImplements, PTL

=========================================================================
