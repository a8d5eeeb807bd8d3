----------------------- MODULE Escalation_proofs ------------------------
(***************************************************************************)
(* Proofs about Escalation, for any incidents, policies and steps, any     *)
(* ordering of the steps and any number of failed runs.                    *)
(***************************************************************************)
EXTENDS Escalation, TLAPS, FiniteSetTheorems

\* The run's copy of an incident: only the run itself changes the step
\* reached, and whoever changes the status is remembered.
LoadedOK ==
  \A i \in DOMAIN rows :
    /\ rows[i].step = row[i].step
    /\ row[i].status = "triggered" \/ i \in left

\* A counted step has been announced, as the one after the committed step.
FiredOK == \A i \in DOMAIN fired : Announced(i, row[i].step + 1, fired[i])

\* Nothing beyond the step after the committed one has been announced.
ToldOK ==
  \A i \in Incidents : \A k \in DOMAIN told[i] : told[i][k].index <= row[i].step + 1

IInv ==
  /\ TypeOK
  /\ RecordedWasAnnounced
  /\ RepeatsNeedFailure
  /\ LoadedOK
  /\ FiredOK
  /\ ToldOK

-------------------------------------------------------------------------
\* Init establishes the invariant: nothing has been announced or recorded.
LEMMA InitIInv == Init => IInv
<1> SUFFICES ASSUME Init PROVE IInv
  OBVIOUS
<1>1. TypeOK
  BY StepAssumption DEF Init, TypeOK, TablesOK, RunOK, Row, Statuses, Empty
<1>2. /\ \A i \in Incidents : row[i].step = 0 /\ told[i] = <<>> /\ escalated[i] = <<>>
      /\ DOMAIN rows = {} /\ DOMAIN fired = {} /\ failures = 0
  BY DEF Init, Empty
<1> QED
  BY <1>1, <1>2 DEF IInv, RecordedWasAnnounced, RepeatsNeedFailure, LoadedOK,
                    FiredOK, ToldOK

\* Appending to the announcements of i keeps the old ones and adds the new.
LEMMA AppendAnnounced ==
  ASSUME NEW S, NEW q \in Seq(S), NEW e \in S
  PROVE  /\ Append(q, e) \in Seq(S)
         /\ Len(Append(q, e)) = Len(q) + 1
         /\ DOMAIN Append(q, e) = DOMAIN q \cup {Len(q) + 1}
         /\ \A k \in DOMAIN q : Append(q, e)[k] = q[k]
         /\ Append(q, e)[Len(q) + 1] = e
  OBVIOUS

\* The elements of a sequence over S are in S.
LEMMA ElementType ==
  ASSUME NEW S, NEW q \in Seq(S), NEW k \in DOMAIN q
  PROVE  q[k] \in S
  OBVIOUS

\* Steps that leave the announcements, the audit trail and the step reached
\* alone, and of the run keep or shrink what it counted, preserve the
\* invariant when they preserve the types and the loaded copies.
LEMMA HistoryUntouched ==
  ASSUME IInv, TypeOK', LoadedOK',
         UNCHANGED <<told, escalated>>,
         \A i \in Incidents : row'[i].step = row[i].step,
         \/ fired' = fired /\ failures' = failures
         \/ fired' = Empty /\ failures' = failures + 1
         \/ fired' = Empty /\ fired = Empty /\ failures' = failures
  PROVE  IInv'
<1>1. /\ TypeOK /\ RecordedWasAnnounced /\ RepeatsNeedFailure /\ FiredOK /\ ToldOK
  BY DEF IInv
<1>2. RecordedWasAnnounced'
  BY <1>1 DEF RecordedWasAnnounced, Announced
<1>3. /\ failures \in Nat /\ DOMAIN fired \subseteq Incidents
      /\ \A i \in Incidents : row[i].step \in Nat /\ Len(told[i]) \in Nat
  BY <1>1 DEF TypeOK, TablesOK, RunOK, Row
<1>4. RepeatsNeedFailure'
  BY <1>1, <1>3 DEF RepeatsNeedFailure, Empty
<1>5. FiredOK'
  BY <1>1, <1>3 DEF FiredOK, Announced, Empty
<1>6. ToldOK'
  BY <1>1 DEF ToldOK
<1> QED
  BY <1>2, <1>4, <1>5, <1>6 DEF IInv

-------------------------------------------------------------------------
\* Closing the session leaves well-typed run variables.
LEMMA EndRunType ==
  ASSUME RunOK, clock \in Nat, EndRun, UNCHANGED clock
  PROVE  RunOK'
<1>1. DOMAIN Empty = {}
  BY DEF Empty
<1> QED
  BY <1>1 DEF RunOK, EndRun

\* Users and the clock leave the run alone.
LEMMA SessionType ==
  ASSUME RunOK, clock \in Nat, UNCHANGED session, clock' = clock \/ clock' = clock + 1
  PROVE  RunOK'
<1>1. now <= clock'
  BY DEF RunOK
<1> QED
  BY <1>1 DEF RunOK, session

\* Handling an incident keeps the run's variables well typed.
LEMMA TakeIncidentType ==
  ASSUME TypeOK, NEW i \in Incidents, TakeIncident(i)
  PROVE  RunOK'
<1> USE DEF TypeOK
<1>1. /\ pc = "loop" /\ i \in todo /\ i \in DOMAIN rows
      /\ locked' = DOMAIN fired
      /\ UNCHANGED <<now, rows, fired, clock>>
  BY DEF TakeIncident, RunOK
<1>2. ASSUME NEW p \in policies
      PROVE  /\ LoadedSteps(p) \subseteq Steps
             /\ DOMAIN Cached(p) \subseteq Policies
             /\ \A q \in DOMAIN Cached(p) : Cached(p)[q] \subseteq Steps
  <2>1. StepSet(p) \subseteq Steps
    BY <1>2 DEF TablesOK, StepSet
  <2> QED
    BY <1>2, <2>1 DEF TablesOK, RunOK, LoadedSteps, Cached
<1>3. /\ DOMAIN cache' \subseteq Policies
      /\ \A q \in DOMAIN cache' : cache'[q] \subseteq Steps
  BY <1>2 DEF TakeIncident, RunOK
<1>4. \/ todo' = todo \ {i} /\ pc' = pc /\ target' = target
      \/ todo' = todo /\ pc' = "notify" /\ \E s \in Steps : target' = <<i, s>>
  <2>1. CASE rows[i].policy \notin policies
    BY <2>1 DEF TakeIncident, Skip
  <2>2. CASE rows[i].policy \in policies
    BY <2>2, <1>2 DEF TakeIncident, Skip, AtIndex
  <2> QED
    BY <2>1, <2>2
<1>5. /\ pc' \in {"idle", "loop", "notify"} /\ todo' \subseteq DOMAIN rows
      /\ IF pc' = "notify" THEN target' \in todo' \X Steps ELSE target' = <<>>
      /\ DOMAIN fired \subseteq DOMAIN rows \ todo'
      /\ pc' # "idle"
  BY <1>1, <1>4 DEF RunOK
<1> QED
  BY <1>1, <1>3, <1>5 DEF RunOK

\* A Slack call returns: its incident is counted.
LEMMA NotifyType ==
  ASSUME TypeOK, NotifyEscalation
  PROVE  TypeOK'
<1>1. PICK i \in todo, s \in Steps : target = <<i, s>>
  BY DEF NotifyEscalation, Announce, TypeOK, RunOK
<1>2. /\ i \in DOMAIN rows /\ i \in Incidents /\ rows[i].step \in Nat
  BY <1>1 DEF TypeOK, RunOK, Row
<1>3. [index |-> rows[i].step + 1, step |-> s] \in [index : Nat, step : Steps]
  BY <1>2
<1>4. told' \in [Incidents -> Seq([index : Nat, step : Steps])]
  <2>1. told' = [told EXCEPT ![i] = Append(@, [index |-> rows[i].step + 1, step |-> s])]
    BY <1>1 DEF NotifyEscalation, Announce
  <2>2. Append(told[i], [index |-> rows[i].step + 1, step |-> s])
          \in Seq([index : Nat, step : Steps])
    BY <1>2, <1>3, AppendAnnounced DEF TypeOK, TablesOK
  <2> QED
    BY <2>1, <2>2, <1>2 DEF TypeOK, TablesOK
<1>5. /\ DOMAIN fired' = DOMAIN fired \cup {i} /\ todo' = todo \ {i}
      /\ \A j \in DOMAIN fired' : fired'[j] \in Steps
  BY <1>1 DEF NotifyEscalation, Announce, TypeOK, RunOK
<1>6. TablesOK'
  BY <1>4 DEF TypeOK, TablesOK, NotifyEscalation, Announce
<1>7. RunOK'
  BY <1>1, <1>2, <1>5 DEF TypeOK, RunOK, NotifyEscalation, Announce
<1> QED
  BY <1>6, <1>7 DEF TypeOK

\* Type correctness is inductive.
LEMMA NextTypeOK ==
  ASSUME TypeOK, [Next]_vars
  PROVE  TypeOK'
<1> USE DEF TypeOK
<1>0. clock \in Nat
  BY DEF TablesOK
<1>1. ASSUME StartRun PROVE TypeOK'
  <2>1. rows' = [i \in Escalatable |-> row[i]] /\ Escalatable \subseteq Incidents
    BY <1>1 DEF StartRun, Escalatable
  <2>2. DOMAIN fired = {} /\ locked = {} /\ target = <<>>
    BY <1>1 DEF StartRun, RunOK, Empty
  <2>3. TablesOK'
    BY <1>1 DEF StartRun, TablesOK
  <2>4. /\ DOMAIN rows' = Escalatable /\ todo' = Escalatable
        /\ \A i \in Escalatable : rows'[i] \in Row
        /\ DOMAIN fired' = {} /\ locked' = {} /\ target' = <<>>
        /\ pc' = "loop" /\ now' = clock /\ clock' = clock
    BY <1>1, <2>1, <2>2 DEF StartRun, TablesOK
  <2>5. RunOK'
    BY <1>0, <1>1, <2>1, <2>4 DEF StartRun, RunOK
  <2> QED
    BY <2>3, <2>5
<1>2. ASSUME NEW i \in Incidents, TakeIncident(i) PROVE TypeOK'
  <2>1. TablesOK'
    BY <1>2 DEF TakeIncident, TablesOK
  <2> QED
    BY <1>2, <2>1, TakeIncidentType
<1>3. ASSUME NotifyEscalation PROVE TypeOK'
  BY <1>3, NotifyType
<1>4. ASSUME CommitRun PROVE TypeOK'
  <2>1. row' \in [Incidents -> Row]
    <3>1. ASSUME NEW i \in Incidents, i \in DOMAIN fired
          PROVE  [row[i] EXCEPT !.step = rows[i].step + 1] \in Row
      <4>1. row[i] \in Row /\ rows[i] \in Row
        BY <3>1 DEF TablesOK, RunOK
      <4>2. rows[i].step + 1 \in Nat
        BY <4>1 DEF Row
      <4> QED
        BY <4>1, <4>2 DEF Row
    <3> QED
      BY <1>4, <3>1 DEF CommitRun, TablesOK
  <2>2. escalated' \in [Incidents -> Seq(Steps)]
    <3>1. ASSUME NEW i \in Incidents, i \in DOMAIN fired
          PROVE  Append(escalated[i], fired[i]) \in Seq(Steps)
      BY <3>1, AppendAnnounced DEF TablesOK, RunOK
    <3> QED
      BY <1>4, <3>1 DEF CommitRun, TablesOK
  <2>3. TablesOK'
    BY <1>4, <2>1, <2>2 DEF CommitRun, TablesOK
  <2>4. EndRun /\ UNCHANGED clock
    BY <1>4 DEF CommitRun
  <2> QED
    BY <1>0, <2>3, <2>4, EndRunType
<1>5. ASSUME FailRun PROVE TypeOK'
  <2>0. /\ failures' \in Nat
        /\ UNCHANGED <<row, policies, steps, clock, told, escalated, left>>
    <3>1. failures \in Nat /\ failures' = failures + 1
      BY <1>5 DEF FailRun, TablesOK
    <3> HIDE DEF TypeOK
    <3> QED
      BY <1>5, <3>1 DEF FailRun
  <2>1. TablesOK'
    BY <2>0 DEF TablesOK
  <2>2. EndRun /\ UNCHANGED clock
    BY <1>5 DEF FailRun
  <2> QED
    BY <1>0, <2>1, <2>2, EndRunType
<1>6. ASSUME NEW i \in Incidents, NEW t \in Statuses, TransitionStatus(i, t)
      PROVE  TypeOK'
  <2>1. row' \in [Incidents -> Row]
    BY <1>6 DEF TransitionStatus, TablesOK, Row
  <2>2. TablesOK'
    BY <1>6, <2>1 DEF TransitionStatus, TablesOK
  <2> QED
    BY <1>0, <1>6, <2>2, SessionType DEF TransitionStatus
<1>7. ASSUME NEW i \in Incidents, NEW p \in Policies, AssignEscalationPolicy(i, p)
      PROVE  TypeOK'
  <2>1. row' \in [Incidents -> Row]
    BY <1>7 DEF AssignEscalationPolicy, TablesOK, Row
  <2>2. TablesOK'
    BY <1>7, <2>1 DEF AssignEscalationPolicy, TablesOK
  <2> QED
    BY <1>0, <1>7, <2>2, SessionType DEF AssignEscalationPolicy
<1>8. ASSUME NEW s \in Steps, AddEscalationStep(s) PROVE TypeOK'
  <2>1. steps' \in [Policies -> Seq(Steps)]
    BY <1>8 DEF AddEscalationStep, TablesOK
  <2>2. TablesOK'
    BY <1>8, <2>1 DEF AddEscalationStep, TablesOK
  <2> QED
    BY <1>0, <1>8, <2>2, SessionType DEF AddEscalationStep
<1>9. ASSUME NEW p \in Policies, DeleteEscalationPolicy(p) PROVE TypeOK'
  <2>1. TablesOK'
    BY <1>9 DEF DeleteEscalationPolicy, TablesOK
  <2> QED
    BY <1>0, <1>9, <2>1, SessionType DEF DeleteEscalationPolicy
<1>10. ASSUME Tick PROVE TypeOK'
  <2>0. /\ clock' \in Nat
        /\ UNCHANGED <<row, policies, steps, told, escalated, left, failures>>
    BY <1>0, <1>10 DEF Tick
  <2>1. TablesOK'
    BY <2>0 DEF TablesOK
  <2>2. UNCHANGED session /\ clock' = clock + 1
    BY <1>10 DEF Tick
  <2>3. RunOK /\ clock \in Nat /\ (clock' = clock \/ clock' = clock + 1)
    BY <1>0, <2>2
  <2>4. RunOK'
    BY <2>2, <2>3, SessionType
  <2> QED
    BY <2>1, <2>4
<1>11. ASSUME UNCHANGED vars PROVE TypeOK'
  <2>1. TablesOK'
    BY <1>11 DEF vars, TablesOK
  <2> QED
    BY <1>0, <1>11, <2>1, SessionType DEF vars
<1> QED
  BY <1>1, <1>2, <1>3, <1>4, <1>5, <1>6, <1>7, <1>8, <1>9, <1>10, <1>11 DEF Next

-------------------------------------------------------------------------
\* A Slack call returns: one announcement more, and the incident is counted.
LEMMA NotifyPreserves ==
  ASSUME IInv, NotifyEscalation, TypeOK'
  PROVE  IInv'
<1>1. PICK i \in todo, s \in Steps : target = <<i, s>>
  BY DEF NotifyEscalation, Announce, IInv, TypeOK, RunOK
<1>2. /\ i \in DOMAIN rows /\ i \in Incidents /\ i \notin DOMAIN fired
      /\ rows[i].step = row[i].step /\ row[i].step \in Nat
      /\ told[i] \in Seq([index : Nat, step : Steps])
      /\ failures \in Nat /\ DOMAIN told = Incidents /\ s \in Steps
      /\ DOMAIN fired \subseteq Incidents
  BY <1>1 DEF IInv, TypeOK, RunOK, TablesOK, LoadedOK, Row
<1> DEFINE e == [index |-> row[i].step + 1, step |-> s]
<1>3. /\ UNCHANGED <<row, rows, escalated, left, failures>>
      /\ told' = [told EXCEPT ![i] = Append(told[i], e)]
      /\ fired' = [j \in DOMAIN fired \cup {i} |-> IF j = i THEN s ELSE fired[j]]
  BY <1>1, <1>2 DEF NotifyEscalation, Announce
<1>4. e \in [index : Nat, step : Steps]
  BY <1>2
<1> HIDE DEF e
<1>5. /\ Len(Append(told[i], e)) = Len(told[i]) + 1
      /\ DOMAIN Append(told[i], e) = DOMAIN told[i] \cup {Len(told[i]) + 1}
      /\ \A k \in DOMAIN told[i] : Append(told[i], e)[k] = told[i][k]
      /\ Append(told[i], e)[Len(told[i]) + 1] = e
  BY <1>2, <1>4, AppendAnnounced
<1>6. /\ told'[i] = Append(told[i], e)
      /\ \A j \in Incidents \ {i} : told'[j] = told[j]
  BY <1>2, <1>3
<1>7. \A j \in Incidents : \A n, t : Announced(j, n, t) => Announced(j, n, t)'
  BY <1>5, <1>6 DEF Announced
<1>8. RecordedWasAnnounced'
  BY <1>3, <1>7 DEF IInv, RecordedWasAnnounced
<1>9. RepeatsNeedFailure'
  <2>1. ASSUME NEW j \in Incidents
        PROVE  Len(told'[j]) <= row[j].step + failures + IF j \in DOMAIN fired' THEN 1 ELSE 0
    <3>1. Len(told[j]) <= row[j].step + failures + IF j \in DOMAIN fired THEN 1 ELSE 0
      BY DEF IInv, RepeatsNeedFailure
    <3>2. Len(told[j]) \in Nat /\ row[j].step \in Nat
      BY DEF IInv, TypeOK, TablesOK, Row
    <3>3. CASE j = i
      <4>1. i \in DOMAIN fired'
        BY <1>3
      <4> QED
        BY <1>2, <1>5, <1>6, <3>1, <3>2, <3>3, <4>1
    <3>4. CASE j # i
      <4>1. j \in DOMAIN fired' <=> j \in DOMAIN fired
        BY <1>3, <3>4
      <4> QED
        BY <1>6, <3>1, <3>4, <4>1
    <3> QED
      BY <3>3, <3>4
  <2> QED
    BY <1>3, <2>1 DEF RepeatsNeedFailure
<1>10. LoadedOK'
  BY <1>3 DEF IInv, LoadedOK
<1>11. FiredOK'
  <2>1. Announced(i, row[i].step + 1, s)'
    BY <1>3, <1>5, <1>6 DEF Announced, e
  <2>2. ASSUME NEW j \in DOMAIN fired, j # i
        PROVE  Announced(j, row[j].step + 1, fired[j])'
    BY <1>2, <1>3, <1>7, <2>2 DEF IInv, FiredOK
  <2> QED
    BY <1>2, <1>3, <2>1, <2>2 DEF FiredOK
<1>12. ToldOK'
  <2>1. ASSUME NEW k \in DOMAIN told'[i] PROVE told'[i][k].index <= row[i].step + 1
    <3>1. e.index = row[i].step + 1
      BY DEF e
    <3> QED
      BY <1>2, <1>5, <1>6, <3>1 DEF IInv, ToldOK
  <2> QED
    BY <1>3, <1>6, <2>1 DEF IInv, ToldOK
<1> QED
  BY <1>8, <1>9, <1>10, <1>11, <1>12 DEF IInv

\* The commit: what was counted becomes the step reached.
LEMMA CommitPreserves ==
  ASSUME IInv, CommitRun, TypeOK'
  PROVE  IInv'
<1>1. /\ rows' = Empty /\ fired' = Empty /\ UNCHANGED <<told, failures>>
      /\ DOMAIN fired \subseteq DOMAIN rows /\ DOMAIN fired \subseteq Incidents
      /\ failures \in Nat
  BY DEF CommitRun, EndRun, IInv, TypeOK, RunOK, TablesOK
<1>2. ASSUME NEW i \in Incidents, i \in DOMAIN fired
      PROVE  /\ row'[i].step = row[i].step + 1 /\ row[i].step \in Nat
             /\ escalated'[i] = Append(escalated[i], fired[i])
             /\ escalated[i] \in Seq(Steps) /\ fired[i] \in Steps
  <2>1. rows[i].step = row[i].step
    BY <1>1, <1>2 DEF IInv, LoadedOK
  <2>2. row[i] \in Row
    BY DEF IInv, TypeOK, TablesOK
  <2>3. row'[i] = [row[i] EXCEPT !.step = rows[i].step + 1]
    BY <1>2 DEF CommitRun
  <2>4. /\ escalated'[i] = Append(escalated[i], fired[i])
        /\ escalated[i] \in Seq(Steps) /\ fired[i] \in Steps
    BY <1>2 DEF CommitRun, IInv, TypeOK, TablesOK, RunOK
  <2> QED
    BY <2>1, <2>2, <2>3, <2>4 DEF Row
<1>3. ASSUME NEW i \in Incidents, i \notin DOMAIN fired
      PROVE  row'[i] = row[i] /\ escalated'[i] = escalated[i] /\ row[i].step \in Nat
  BY <1>3 DEF CommitRun, IInv, TypeOK, TablesOK, Row
<1>4. RecordedWasAnnounced'
  <2>1. ASSUME NEW i \in Incidents
        PROVE  /\ row'[i].step = Len(escalated'[i])
               /\ \A n \in DOMAIN escalated'[i] : Announced(i, n, escalated'[i][n])
    <3>1. /\ row[i].step = Len(escalated[i])
          /\ \A n \in DOMAIN escalated[i] : Announced(i, n, escalated[i][n])
      BY DEF IInv, RecordedWasAnnounced
    <3>2. CASE i \in DOMAIN fired
      <4>1. /\ Len(escalated'[i]) = Len(escalated[i]) + 1
            /\ DOMAIN escalated'[i] = DOMAIN escalated[i] \cup {Len(escalated[i]) + 1}
            /\ \A k \in DOMAIN escalated[i] : escalated'[i][k] = escalated[i][k]
            /\ escalated'[i][Len(escalated[i]) + 1] = fired[i]
        BY <1>2, <3>2, AppendAnnounced
      <4>2. Announced(i, row[i].step + 1, fired[i])
        BY <3>2 DEF IInv, FiredOK
      <4> QED
        BY <1>2, <3>1, <3>2, <4>1, <4>2
    <3>3. CASE i \notin DOMAIN fired
      BY <1>3, <3>1, <3>3
    <3> QED
      BY <3>2, <3>3
  <2> QED
    BY <1>1, <2>1 DEF RecordedWasAnnounced, Announced
<1>5. DOMAIN Empty = {}
  BY DEF Empty
<1>6. RepeatsNeedFailure'
  <2>1. ASSUME NEW i \in Incidents
        PROVE  Len(told[i]) <= row'[i].step + failures
    <3>1. Len(told[i]) <= row[i].step + failures + IF i \in DOMAIN fired THEN 1 ELSE 0
      BY DEF IInv, RepeatsNeedFailure
    <3>2. Len(told[i]) \in Nat
      BY DEF IInv, TypeOK, TablesOK
    <3> QED
      BY <1>1, <1>2, <1>3, <3>1, <3>2
  <2>2. \A i \in Incidents : row'[i].step \in Nat
    BY <1>2, <1>3
  <2> QED
    BY <1>1, <1>5, <2>1, <2>2 DEF RepeatsNeedFailure
<1>7. LoadedOK' /\ FiredOK'
  BY <1>1, <1>5 DEF LoadedOK, FiredOK
<1>8. ToldOK'
  <2>1. ASSUME NEW i \in Incidents, NEW k \in DOMAIN told[i]
        PROVE  told[i][k].index <= row'[i].step + 1
    <3>1. told[i][k].index <= row[i].step + 1
      BY DEF IInv, ToldOK
    <3>2. told[i] \in Seq([index : Nat, step : Steps])
      BY DEF IInv, TypeOK, TablesOK
    <3>3. told[i][k] \in [index : Nat, step : Steps]
      BY <3>2, ElementType
    <3>4. told[i][k].index \in Nat
      BY <3>3
    <3> QED
      BY <1>2, <1>3, <3>1, <3>4
  <2> QED
    BY <1>1, <2>1 DEF ToldOK
<1> QED
  BY <1>4, <1>6, <1>7, <1>8 DEF IInv

-------------------------------------------------------------------------
\* Every step preserves the invariant.
LEMMA NextIInv ==
  ASSUME IInv, [Next]_vars
  PROVE  IInv'
<1>0. TypeOK'
  BY NextTypeOK DEF IInv
<1>1. /\ \A i \in Incidents : row[i] \in Row
      /\ DOMAIN row = Incidents /\ DOMAIN rows \subseteq Incidents /\ LoadedOK
  BY DEF IInv, TypeOK, TablesOK, RunOK
<1>2. ASSUME StartRun PROVE IInv'
  <2>1. LoadedOK'
    BY <1>2 DEF StartRun, LoadedOK, Escalatable
  <2>2. UNCHANGED <<told, escalated, row, fired, failures>>
    BY <1>2 DEF StartRun
  <2> QED
    BY <1>0, <2>1, <2>2, HistoryUntouched
<1>3. ASSUME NEW i \in Incidents, TakeIncident(i) PROVE IInv'
  <2>1. UNCHANGED <<told, escalated, row, rows, left, fired, failures>>
    BY <1>3 DEF TakeIncident
  <2>2. LoadedOK'
    BY <1>1, <2>1 DEF LoadedOK
  <2> QED
    BY <1>0, <2>1, <2>2, HistoryUntouched
<1>4. ASSUME NotifyEscalation PROVE IInv'
  BY <1>0, <1>4, NotifyPreserves
<1>5. ASSUME CommitRun PROVE IInv'
  BY <1>0, <1>5, CommitPreserves
<1>6. ASSUME FailRun PROVE IInv'
  <2>1. /\ UNCHANGED <<told, escalated, row>> /\ fired' = Empty /\ rows' = Empty
        /\ failures' = failures + 1
    BY <1>6 DEF FailRun, EndRun
  <2>2. LoadedOK'
    BY <2>1 DEF LoadedOK, Empty
  <2> QED
    BY <1>0, <2>1, <2>2, HistoryUntouched
<1>7. ASSUME NEW i \in Incidents, NEW t \in Statuses, TransitionStatus(i, t)
      PROVE  IInv'
  <2>1. /\ UNCHANGED <<told, escalated, rows, fired, failures>>
        /\ row' = [row EXCEPT ![i].status = t]
        /\ left' = IF t = "triggered" THEN left ELSE left \cup {i}
    BY <1>7 DEF TransitionStatus, session
  <2>2. \A j \in Incidents : /\ row'[j].step = row[j].step
                             /\ j # i => row'[j].status = row[j].status
                             /\ j = i => row'[j].status = t
    BY <1>1, <2>1 DEF Row
  <2>3. LoadedOK'
    BY <1>1, <2>1, <2>2 DEF LoadedOK
  <2> QED
    BY <1>0, <2>1, <2>2, <2>3, HistoryUntouched
<1>8. ASSUME NEW i \in Incidents, NEW p \in Policies, AssignEscalationPolicy(i, p)
      PROVE  IInv'
  <2>1. /\ UNCHANGED <<told, escalated, rows, left, fired, failures>>
        /\ row' = [row EXCEPT ![i].policy = p]
    BY <1>8 DEF AssignEscalationPolicy, session
  <2>2. \A j \in Incidents : row'[j].step = row[j].step /\ row'[j].status = row[j].status
    BY <1>1, <2>1 DEF Row
  <2>3. LoadedOK'
    BY <1>1, <2>1, <2>2 DEF LoadedOK
  <2> QED
    BY <1>0, <2>1, <2>2, <2>3, HistoryUntouched
<1>9. ASSUME UNCHANGED <<told, escalated, row, rows, left, fired, failures>> PROVE IInv'
  <2>1. LoadedOK'
    BY <1>1, <1>9 DEF LoadedOK
  <2> QED
    BY <1>0, <1>9, <2>1, HistoryUntouched
<1>10. ASSUME NEW s \in Steps, AddEscalationStep(s) PROVE IInv'
  BY <1>9, <1>10 DEF AddEscalationStep, session
<1>11. ASSUME NEW p \in Policies, DeleteEscalationPolicy(p) PROVE IInv'
  BY <1>9, <1>11 DEF DeleteEscalationPolicy, session
<1>12. ASSUME Tick PROVE IInv'
  BY <1>9, <1>12 DEF Tick, session
<1>13. ASSUME UNCHANGED vars PROVE IInv'
  BY <1>9, <1>13 DEF vars, session
<1> QED
  BY <1>2, <1>3, <1>4, <1>5, <1>6, <1>7, <1>8, <1>10, <1>11, <1>12, <1>13 DEF Next

\* The invariant holds in every reachable state.
THEOREM SpecIInv == Spec => []IInv
BY InitIInv, NextIInv, PTL DEF Spec

\* Type correctness of the escalation runner.
THEOREM TypeCorrect == Spec => []TypeOK
<1>1. IInv => TypeOK
  BY DEF IInv
<1> QED
  BY <1>1, SpecIInv, PTL

\* What the audit trail records as escalated was announced before, and
\* current_escalation_step counts it.
THEOREM RecordedWasAnnouncedAlways == Spec => []RecordedWasAnnounced
<1>1. IInv => RecordedWasAnnounced
  BY DEF IInv
<1> QED
  BY <1>1, SpecIInv, PTL

\* A step is announced again only after a run that failed.
THEOREM RepeatsNeedFailureAlways == Spec => []RepeatsNeedFailure
<1>1. IInv => RepeatsNeedFailure
  BY DEF IInv
<1> QED
  BY <1>1, SpecIInv, PTL

\* Only an incident whose status changed during the run is announced while it
\* is not triggered.
THEOREM StaleNeedsChangeAlways == Spec => StaleNeedsChange
<1>1. ASSUME IInv, [Next]_vars
      PROVE  [\A i \in Incidents :
                told'[i] # told[i] => row[i].status = "triggered" \/ i \in left]_vars
  <2>1. CASE NotifyEscalation
    <3>1. PICK i \in todo, s \in Steps : target = <<i, s>>
      BY <1>1, <2>1 DEF NotifyEscalation, Announce, IInv, TypeOK, RunOK
    <3>2. \A j \in Incidents : told'[j] # told[j] => j = i
      BY <1>1, <2>1, <3>1 DEF NotifyEscalation, Announce, IInv, TypeOK, TablesOK
    <3>3. i \in DOMAIN rows
      BY <1>1, <3>1 DEF IInv, TypeOK, RunOK
    <3> QED
      BY <1>1, <3>2, <3>3 DEF IInv, LoadedOK
  <2>2. CASE UNCHANGED told
    BY <2>2
  <2>3. NotifyEscalation \/ UNCHANGED told
    BY <1>1 DEF Next, StartRun, TakeIncident, CommitRun, FailRun, TransitionStatus,
                AssignEscalationPolicy, AddEscalationStep, DeleteEscalationPolicy,
                Tick, vars
  <2> QED
    BY <2>1, <2>2, <2>3
<1> QED
  BY <1>1, SpecIInv, PTL DEF Spec, StaleNeedsChange

-------------------------------------------------------------------------
(***************************************************************************)
(* The audit trail follows the policy.  The run chooses from the steps a   *)
(* policy had when it first loaded them, which are the first of those it   *)
(* has now; if all of them were created in ascending order, the choice     *)
(* among the first m is the choice among all.                              *)
(***************************************************************************)
FirstSteps(p, m) == {steps[p][k] : k \in 1..m}

\* s stood at index n among the first steps of its policy.
Chosen(s, n) ==
  \E m \in 0..Len(steps[PolicyOf[s]]) : s \in AtIndex(FirstSteps(PolicyOf[s], m), n)

OwnSteps == \A p \in Policies : \A k \in DOMAIN steps[p] : PolicyOf[steps[p][k]] = p

CacheOK ==
  \A p \in DOMAIN cache : \E m \in 0..Len(steps[p]) : cache[p] = FirstSteps(p, m)

ChoiceOK ==
  /\ pc = "notify" => Chosen(target[2], rows[target[1]].step)
  /\ \A i \in DOMAIN fired : Chosen(fired[i], rows[i].step)
  /\ \A i \in Incidents : \A n \in DOMAIN escalated[i] : Chosen(escalated[i][n], n - 1)

PolicyInv == OwnSteps /\ CacheOK /\ ChoiceOK

\* The first k steps of an ascending sequence are k steps.
LEMMA AscendingCount ==
  ASSUME NEW q \in Seq(Steps), Ascending(q), NEW k \in 0..Len(q)
  PROVE  Cardinality({q[j] : j \in 1..k}) = k
<1> DEFINE f == [j \in 1..k |-> q[j]]
           S == {q[j] : j \in 1..k}
<1>1. 1..k \subseteq DOMAIN q /\ k \in Nat
  OBVIOUS
<1>2. \A j \in DOMAIN q : Order[q[j]] \in Nat
  BY ElementType, StepAssumption
<1>3. ASSUME NEW a \in 1..k, NEW b \in 1..k, q[a] = q[b] PROVE a = b
  <2>1. a \in DOMAIN q /\ b \in DOMAIN q
    BY <1>1
  <2>2. ~(a < b) /\ ~(b < a)
    BY <1>2, <1>3, <2>1 DEF Ascending
  <2> QED
    BY <2>2
<1>4. f \in Injection(1..k, S)
  BY <1>3 DEF Injection, IsInjective
<1>5. f \in Surjection(1..k, S)
  BY DEF Surjection
<1>6. ExistsBijection(1..k, S)
  BY <1>4, <1>5 DEF ExistsBijection, Bijection
<1> QED
  BY <1>1, <1>6, FS_CountingElements

\* In an ascending policy the step at index n is the n-th that was created.
LEMMA ChosenInOrder ==
  ASSUME TypeOK, NEW s \in Steps, NEW n \in Nat, Chosen(s, n), Ascending(steps[PolicyOf[s]])
  PROVE  n + 1 \in DOMAIN steps[PolicyOf[s]] /\ s = steps[PolicyOf[s]][n + 1]
<1> DEFINE q == steps[PolicyOf[s]]
<1>1. q \in Seq(Steps) /\ PolicyOf[s] \in Policies
  BY StepAssumption DEF TypeOK, TablesOK
<1>2. PICK m \in 0..Len(q) : s \in AtIndex(FirstSteps(PolicyOf[s], m), n)
  BY DEF Chosen
<1> DEFINE S == FirstSteps(PolicyOf[s], m)
<1>3. /\ s \in S /\ Cardinality(Below(S, s)) <= n /\ n < Cardinality(AtMost(S, s))
  BY <1>2 DEF AtIndex
<1>4. S = {q[j] : j \in 1..m}
  BY DEF FirstSteps
<1> HIDE DEF S
<1>5. PICK k \in 1..m : s = q[k]
  BY <1>3, <1>4
<1> HIDE DEF q
<1>6. 1..m \subseteq DOMAIN q /\ k \in DOMAIN q
  BY <1>1
<1>7. \A j \in DOMAIN q : Order[q[j]] \in Nat
  BY <1>1, ElementType, StepAssumption
<1>8. \A j \in DOMAIN q : /\ j < k => Order[q[j]] < Order[s]
                          /\ k < j => Order[s] < Order[q[j]]
  BY <1>5, <1>6 DEF Ascending, q
<1>9. AtMost(S, s) = {q[j] : j \in 1..k}
  <2>1. ASSUME NEW j \in 1..m PROVE Order[q[j]] <= Order[s] <=> j <= k
    <3>1. j \in DOMAIN q /\ Order[q[j]] \in Nat /\ Order[s] \in Nat
      BY <1>5, <1>6, <1>7
    <3> QED
      BY <1>5, <1>8, <3>1
  <2> QED
    BY <1>4, <2>1 DEF AtMost
<1>10. Below(S, s) = {q[j] : j \in 1..(k - 1)}
  <2>1. ASSUME NEW j \in 1..m PROVE Order[q[j]] < Order[s] <=> j <= k - 1
    <3>1. j \in DOMAIN q /\ Order[q[j]] \in Nat /\ Order[s] \in Nat
      BY <1>5, <1>6, <1>7
    <3> QED
      BY <1>5, <1>8, <3>1
  <2> QED
    BY <1>4, <2>1 DEF Below
<1>11. k \in 0..Len(q) /\ k - 1 \in 0..Len(q)
  BY <1>1, <1>2 DEF q
<1>12. Cardinality(AtMost(S, s)) = k /\ Cardinality(Below(S, s)) = k - 1
  BY <1>1, <1>9, <1>10, <1>11, AscendingCount DEF q
<1>13. k = n + 1
  BY <1>3, <1>12
<1> QED
  BY <1>5, <1>6, <1>13 DEF q

\* What was chosen stays so when steps are appended.
LEMMA ChosenStays ==
  ASSUME TypeOK, TypeOK',
         \A p \in Policies : /\ Len(steps[p]) <= Len(steps'[p])
                             /\ \A k \in 1..Len(steps[p]) : steps'[p][k] = steps[p][k]
  PROVE  /\ \A s \in Steps, n \in Nat : Chosen(s, n) => Chosen(s, n)'
         /\ \A p \in Policies : \A m \in 0..Len(steps[p]) :
              m \in 0..Len(steps'[p]) /\ FirstSteps(p, m)' = FirstSteps(p, m)
<1>1. ASSUME NEW p \in Policies, NEW m \in 0..Len(steps[p])
      PROVE  m \in 0..Len(steps'[p]) /\ FirstSteps(p, m)' = FirstSteps(p, m)
  <2>1. steps[p] \in Seq(Steps) /\ steps'[p] \in Seq(Steps)
    BY DEF TypeOK, TablesOK
  <2>2. Len(steps[p]) \in Nat /\ Len(steps'[p]) \in Nat /\ 1..m \subseteq 1..Len(steps[p])
    BY <2>1
  <2> QED
    BY <2>2 DEF FirstSteps
<1>2. ASSUME NEW s \in Steps, NEW n \in Nat, Chosen(s, n) PROVE Chosen(s, n)'
  <2>1. PICK m \in 0..Len(steps[PolicyOf[s]]) : s \in AtIndex(FirstSteps(PolicyOf[s], m), n)
    BY <1>2 DEF Chosen
  <2>2. PolicyOf[s] \in Policies
    BY StepAssumption
  <2>3. /\ m \in 0..Len(steps'[PolicyOf[s]])
        /\ FirstSteps(PolicyOf[s], m)' = FirstSteps(PolicyOf[s], m)
    BY <1>1, <2>2
  <2>4. AtIndex(FirstSteps(PolicyOf[s], m), n)' = AtIndex(FirstSteps(PolicyOf[s], m), n)
    BY <2>3 DEF AtIndex, Below, AtMost
  <2> QED
    BY <2>1, <2>3, <2>4 DEF Chosen
<1> QED
  BY <1>1, <1>2

LEMMA InitPolicyInv == Init => PolicyInv
BY StepAssumption DEF Init, PolicyInv, OwnSteps, CacheOK, ChoiceOK, Empty

\* The run chooses among the first steps of the policy it loaded.
LEMMA TakeChoice ==
  ASSUME IInv, PolicyInv, NEW i \in Incidents, TakeIncident(i)
  PROVE  CacheOK' /\ (pc' = "notify" => Chosen(target'[2], rows[target'[1]].step))
<1> DEFINE p == rows[i].policy
<1>1. /\ pc = "loop" /\ steps' = steps /\ TypeOK /\ i \in DOMAIN rows
      /\ \A x \in policies : x \in Policies
  BY DEF TakeIncident, IInv, TypeOK, RunOK, TablesOK
<1>2. CASE p \notin policies
  BY <1>1, <1>2 DEF TakeIncident, Skip, PolicyInv, CacheOK, FirstSteps
<1>3. CASE p \in policies
  <2>1. PICK m \in 0..Len(steps[p]) : LoadedSteps(p) = FirstSteps(p, m)
    <3>1. CASE p \in DOMAIN cache
      BY <3>1 DEF LoadedSteps, PolicyInv, CacheOK
    <3>2. CASE p \notin DOMAIN cache
      <4>1. steps[p] \in Seq(Steps)
        BY <1>1, <1>3 DEF TypeOK, TablesOK
      <4>2. Len(steps[p]) \in 0..Len(steps[p]) /\ DOMAIN steps[p] = 1..Len(steps[p])
        BY <4>1
      <4>3. LoadedSteps(p) = FirstSteps(p, Len(steps[p]))
        BY <3>2, <4>2 DEF LoadedSteps, StepSet, FirstSteps
      <4> QED
        BY <4>2, <4>3
    <3> QED
      BY <3>1, <3>2
  <2>2. /\ cache' = Cached(p)
        /\ pc' = "notify" =>
             \E s \in AtIndex(LoadedSteps(p), rows[i].step) : target' = <<i, s>>
    BY <1>1, <1>3 DEF TakeIncident, Skip
  <2>3. CacheOK'
    <3>1. ASSUME NEW q \in DOMAIN cache'
          PROVE  \E k \in 0..Len(steps'[q]) : cache'[q] = FirstSteps(q, k)'
      <4>1. CASE q = p
        BY <1>1, <2>1, <2>2, <4>1 DEF Cached, FirstSteps
      <4>2. CASE q # p
        <5>1. q \in DOMAIN cache /\ cache'[q] = cache[q]
          BY <2>2, <3>1, <4>2 DEF Cached
        <5> QED
          BY <1>1, <5>1 DEF PolicyInv, CacheOK, FirstSteps
      <4> QED
        BY <4>1, <4>2
    <3> QED
      BY <3>1 DEF CacheOK
  <2>4. ASSUME NEW s \in AtIndex(LoadedSteps(p), rows[i].step), target' = <<i, s>>
        PROVE  Chosen(target'[2], rows[target'[1]].step)
    <3>1. s \in FirstSteps(p, m)
      BY <2>1 DEF AtIndex
    <3>2. PICK k \in 1..m : s = steps[p][k]
      BY <3>1 DEF FirstSteps
    <3>3. steps[p] \in Seq(Steps) /\ p \in Policies
      BY <1>1, <1>3 DEF TypeOK, TablesOK
    <3>4. k \in DOMAIN steps[p]
      BY <2>1, <3>2, <3>3
    <3>5. PolicyOf[s] = p
      BY <3>2, <3>3, <3>4 DEF PolicyInv, OwnSteps
    <3>6. Chosen(s, rows[i].step)
      BY <2>1, <2>4, <3>5 DEF Chosen
    <3> QED
      BY <2>4, <3>6
  <2> QED
    BY <2>2, <2>3, <2>4
<1> QED
  BY <1>2, <1>3

LEMMA NextPolicyInv ==
  ASSUME IInv, IInv', PolicyInv, [Next]_vars
  PROVE  PolicyInv'
<1> USE DEF PolicyInv
<1>0. /\ TypeOK /\ TypeOK'
      /\ \A p \in Policies : steps[p] \in Seq(Steps) /\ Len(steps[p]) \in Nat
      /\ \A i \in DOMAIN rows : rows[i].step \in Nat /\ i \in Incidents
      /\ \A i \in Incidents : row[i].step = Len(escalated[i]) /\ escalated[i] \in Seq(Steps)
      /\ DOMAIN cache \subseteq Policies
  <2>1. TypeOK /\ TypeOK' /\ RecordedWasAnnounced
    BY DEF IInv
  <2>2. \A p \in Policies : steps[p] \in Seq(Steps) /\ Len(steps[p]) \in Nat
    BY <2>1 DEF TypeOK, TablesOK
  <2>3. \A i \in DOMAIN rows : rows[i].step \in Nat /\ i \in Incidents
    BY <2>1 DEF TypeOK, RunOK, Row
  <2>4. \A i \in Incidents : row[i].step = Len(escalated[i]) /\ escalated[i] \in Seq(Steps)
    BY <2>1 DEF TypeOK, TablesOK, RecordedWasAnnounced
  <2> QED
    BY <2>1, <2>2, <2>3, <2>4 DEF TypeOK, RunOK
\* Steps of the run and of users that leave the policies' steps alone.
<1>1. ASSUME steps' = steps PROVE OwnSteps' /\ \A s, n : Chosen(s, n)' <=> Chosen(s, n)
  BY <1>1 DEF OwnSteps, Chosen, FirstSteps, AtIndex, Below, AtMost
<1>2. ASSUME UNCHANGED <<steps, pc, rows, cache, target, fired, escalated>> PROVE PolicyInv'
  <2>1. CacheOK'
    BY <1>2 DEF CacheOK, FirstSteps
  <2>2. ChoiceOK'
    BY <1>1, <1>2 DEF ChoiceOK
  <2> QED
    BY <1>1, <1>2, <2>1, <2>2
<1>3. CASE StartRun
  <2>1. /\ UNCHANGED <<steps, cache, fired, escalated>> /\ pc' = "loop" /\ rows = Empty
    BY <1>0, <1>3 DEF StartRun, TypeOK, RunOK
  <2>2. DOMAIN fired = {}
    BY <1>0, <2>1 DEF TypeOK, RunOK, Empty
  <2>3. CacheOK' /\ ChoiceOK'
    BY <1>1, <2>1, <2>2 DEF CacheOK, FirstSteps, ChoiceOK
  <2> QED
    BY <1>1, <2>1, <2>3
<1>4. ASSUME NEW i \in Incidents, TakeIncident(i) PROVE PolicyInv'
  <2>1. UNCHANGED <<steps, rows, fired, escalated>>
    BY <1>4 DEF TakeIncident
  <2>2. ChoiceOK'
    BY <1>1, <1>4, <2>1, TakeChoice DEF ChoiceOK
  <2> QED
    BY <1>1, <1>4, <2>1, <2>2, TakeChoice
<1>5. CASE NotifyEscalation
  <2>1. PICK i \in todo, s \in Steps : target = <<i, s>>
    BY <1>0, <1>5 DEF NotifyEscalation, Announce, TypeOK, RunOK
  <2>2. /\ UNCHANGED <<steps, rows, cache, escalated>> /\ pc' = "loop" /\ pc = "notify"
        /\ fired' = [j \in DOMAIN fired \cup {i} |-> IF j = i THEN s ELSE fired[j]]
    BY <1>5, <2>1 DEF NotifyEscalation
  <2>3. Chosen(s, rows[i].step)
    BY <2>1, <2>2 DEF ChoiceOK
  <2>4. \A j \in DOMAIN fired' : Chosen(fired'[j], rows'[j].step)
    BY <2>2, <2>3 DEF ChoiceOK
  <2>5. CacheOK' /\ ChoiceOK'
    <3>1. CacheOK'
      BY <2>2 DEF CacheOK, FirstSteps
    <3>2. ChoiceOK'
      BY <1>1, <2>2, <2>4 DEF ChoiceOK
    <3> QED
      BY <3>1, <3>2
  <2> QED
    BY <1>1, <2>2, <2>5
<1>6. ASSUME EndRun, steps' = steps,
             \A i \in Incidents : \A n \in DOMAIN escalated'[i] :
               Chosen(escalated'[i][n], n - 1)
      PROVE  PolicyInv'
  <2>1. DOMAIN cache' = {} /\ DOMAIN fired' = {} /\ pc' = "idle"
    BY <1>6 DEF EndRun, Empty
  <2> QED
    BY <1>1, <1>6, <2>1 DEF CacheOK, ChoiceOK
<1>7. CASE CommitRun
  <2>1. /\ EndRun /\ steps' = steps
        /\ escalated' = [i \in Incidents |->
                           IF i \in DOMAIN fired THEN Append(escalated[i], fired[i])
                                                 ELSE escalated[i]]
    BY <1>7 DEF CommitRun
  <2>2. ASSUME NEW i \in Incidents, NEW n \in DOMAIN escalated'[i]
        PROVE  Chosen(escalated'[i][n], n - 1)
    <3>1. CASE i \in DOMAIN fired
      <4>1. /\ fired[i] \in Steps /\ i \in DOMAIN rows
            /\ rows[i].step = Len(escalated[i]) /\ escalated[i] \in Seq(Steps)
        BY <1>0, <3>1 DEF TypeOK, RunOK, IInv, LoadedOK
      <4>2. /\ escalated'[i] = Append(escalated[i], fired[i])
        BY <2>1, <3>1
      <4>3. CASE n = Len(escalated[i]) + 1
        <5>1. escalated'[i][n] = fired[i] /\ n - 1 = rows[i].step
          BY <4>1, <4>2, <4>3, AppendAnnounced
        <5> QED
          BY <3>1, <5>1 DEF ChoiceOK
      <4>4. CASE n # Len(escalated[i]) + 1
        <5>1. n \in DOMAIN escalated[i] /\ escalated'[i][n] = escalated[i][n]
          BY <4>1, <4>2, <4>4, AppendAnnounced
        <5> QED
          BY <5>1 DEF ChoiceOK
      <4> QED
        BY <4>3, <4>4
    <3>2. CASE i \notin DOMAIN fired
      BY <2>1, <3>2 DEF ChoiceOK
    <3> QED
      BY <3>1, <3>2
  <2> QED
    BY <1>6, <2>1, <2>2
<1>8. CASE FailRun
  BY <1>6, <1>8 DEF FailRun, ChoiceOK
<1>9. ASSUME NEW s \in Steps, AddEscalationStep(s) PROVE PolicyInv'
  <2> DEFINE p == PolicyOf[s]
  <2>1. /\ steps' = [steps EXCEPT ![p] = Append(@, s)] /\ p \in Policies
        /\ UNCHANGED <<pc, rows, cache, target, fired, escalated>>
    BY <1>9, StepAssumption DEF AddEscalationStep, session
  <2>2. steps'[p] = Append(steps[p], s) /\ \A q \in Policies \ {p} : steps'[q] = steps[q]
    BY <1>0, <2>1 DEF TypeOK, TablesOK
  <2>3. /\ Len(steps'[p]) = Len(steps[p]) + 1
        /\ DOMAIN steps'[p] = DOMAIN steps[p] \cup {Len(steps[p]) + 1}
        /\ \A k \in DOMAIN steps[p] : steps'[p][k] = steps[p][k]
        /\ steps'[p][Len(steps[p]) + 1] = s
    BY <1>0, <2>1, <2>2, AppendAnnounced
  <2>4. \A q \in Policies : /\ Len(steps[q]) <= Len(steps'[q])
                            /\ \A k \in 1..Len(steps[q]) : steps'[q][k] = steps[q][k]
    <3>1. DOMAIN steps[p] = 1..Len(steps[p])
      BY <1>0, <2>1
    <3> QED
      BY <1>0, <2>1, <2>2, <2>3, <3>1
  <2>5. OwnSteps'
    BY <2>1, <2>2, <2>3 DEF OwnSteps
  <2>6. /\ \A t \in Steps, n \in Nat : Chosen(t, n) => Chosen(t, n)'
        /\ \A q \in Policies : \A m \in 0..Len(steps[q]) :
             m \in 0..Len(steps'[q]) /\ FirstSteps(q, m)' = FirstSteps(q, m)
    BY <1>0, <2>4, ChosenStays
  <2>7. CacheOK'
    BY <1>0, <2>1, <2>6 DEF CacheOK
  <2>8. ChoiceOK'
    <3>1. pc = "notify" =>
            target[2] \in Steps /\ rows[target[1]].step \in Nat
      BY <1>0 DEF TypeOK, RunOK
    <3>2. \A i \in DOMAIN fired : fired[i] \in Steps /\ rows[i].step \in Nat
      BY <1>0 DEF TypeOK, RunOK
    <3>3. \A i \in Incidents : \A n \in DOMAIN escalated[i] :
            escalated[i][n] \in Steps /\ n - 1 \in Nat
      BY <1>0, ElementType
    <3> QED
      BY <2>1, <2>6, <3>1, <3>2, <3>3 DEF ChoiceOK
  <2> QED
    BY <2>5, <2>7, <2>8
<1>10. ASSUME NEW i \in Incidents, NEW t \in Statuses, TransitionStatus(i, t) PROVE PolicyInv'
  BY <1>2, <1>10 DEF TransitionStatus, session
<1>11. ASSUME NEW i \in Incidents, NEW p \in Policies, AssignEscalationPolicy(i, p)
       PROVE  PolicyInv'
  BY <1>2, <1>11 DEF AssignEscalationPolicy, session
<1>12. ASSUME NEW p \in Policies, DeleteEscalationPolicy(p) PROVE PolicyInv'
  BY <1>2, <1>12 DEF DeleteEscalationPolicy, session
<1>13. CASE Tick
  BY <1>2, <1>13 DEF Tick, session
<1>14. CASE UNCHANGED vars
  BY <1>2, <1>14 DEF vars, session
<1> QED
  BY <1>3, <1>4, <1>5, <1>7, <1>8, <1>9, <1>10, <1>11, <1>12, <1>13, <1>14 DEF Next

LEMMA SpecPolicyInv == Spec => [](IInv /\ PolicyInv)
BY InitIInv, NextIInv, InitPolicyInv, NextPolicyInv, PTL DEF Spec

\* In a policy whose steps were created in ascending order the n-th
\* escalation goes to the n-th step, also when steps are added during the
\* runs (run_escalations).
THEOREM AuditFollowsPolicyAlways == Spec => []AuditFollowsPolicy
<1>1. IInv /\ PolicyInv => AuditFollowsPolicy
  <2> SUFFICES ASSUME IInv, PolicyInv, NEW i \in Incidents, Ascending(steps[row[i].policy]),
                      \A n \in DOMAIN escalated[i] : PolicyOf[escalated[i][n]] = row[i].policy,
                      NEW n \in DOMAIN escalated[i]
               PROVE  /\ n \in DOMAIN steps[row[i].policy]
                      /\ escalated[i][n] = steps[row[i].policy][n]
    BY DEF AuditFollowsPolicy
  <2>1. escalated[i] \in Seq(Steps) /\ TypeOK
    BY DEF IInv, TypeOK, TablesOK
  <2>2. escalated[i][n] \in Steps /\ n - 1 \in Nat /\ (n - 1) + 1 = n
    BY <2>1, ElementType
  <2>3. Chosen(escalated[i][n], n - 1)
    BY DEF PolicyInv, ChoiceOK
  <2> QED
    BY <2>1, <2>2, <2>3, ChosenInOrder
<1> QED
  BY <1>1, SpecPolicyInv, PTL

-------------------------------------------------------------------------
(***************************************************************************)
(* The runner implements the contract.  What is announced is the choice    *)
(* the run made (ChoiceOK) for the place after those recorded (LoadedOK),  *)
(* and what the commit records has been announced (FiredOK).               *)
(***************************************************************************)

\* The contract and the runner mean the same by the step of a place.
LEMMA ChosenWasNth ==
  ASSUME TypeOK, NEW s \in Steps, NEW n \in Nat, Chosen(s, n)
  PROVE  EC!WasNth(s, n + 1)
<1>1. PICK m \in 0..Len(steps[PolicyOf[s]]) : s \in AtIndex(FirstSteps(PolicyOf[s], m), n)
  BY DEF Chosen
<1> DEFINE S == FirstSteps(PolicyOf[s], m)
<1>2. steps[PolicyOf[s]] \in Seq(Steps)
  BY StepAssumption DEF TypeOK, TablesOK
<1>3. IsFiniteSet(S)
  <2>1. S = {steps[PolicyOf[s]][k] : k \in 1..m}
    BY DEF FirstSteps
  <2>2. IsFiniteSet(1..m)
    BY <1>2, FS_Interval
  <2>3. [k \in 1..m |-> steps[PolicyOf[s]][k]] \in Surjection(1..m, S)
    BY <2>1 DEF Surjection
  <2> QED
    BY <2>2, <2>3, FS_Surjection
<1> HIDE DEF S
<1>4. Cardinality(Below(S, s)) \in Nat /\ Cardinality(AtMost(S, s)) \in Nat
  BY <1>3, FS_Subset, FS_CardinalityType DEF Below, AtMost
<1>5. /\ s \in S /\ Cardinality(Below(S, s)) <= n /\ n < Cardinality(AtMost(S, s))
  BY <1>1 DEF AtIndex, S
<1>6. Cardinality(Below(S, s)) < n + 1 /\ n + 1 <= Cardinality(AtMost(S, s))
  BY <1>4, <1>5
<1>7. EC!IsNth(s, S, n + 1)
  <2> DEFINE below == {t \in S : Order[t] < Order[s]}
             atMost == {t \in S : Order[t] <= Order[s]}
  <2>1. Cardinality(below) < n + 1 /\ n + 1 <= Cardinality(atMost)
    BY <1>6, Zenon DEF Below, AtMost
  \* The instance has a Cardinality of its own, with the same definition.
  <2>2. \A T : EC!Cardinality(T) = Cardinality(T)
    BY DEF EC!Cardinality, Cardinality
  <2>3. EC!IsNth(s, S, n + 1) <=>
          s \in S /\ Cardinality(below) < n + 1 /\ n + 1 <= Cardinality(atMost)
    BY <2>2, Zenon DEF EC!IsNth
  <2> QED
    BY <1>5, <2>1, <2>3
<1>8. EC!IsNth(s, FirstSteps(PolicyOf[s], m), n + 1)
  BY <1>7 DEF S
<1>9. EC!IsNth(s, {steps[PolicyOf[s]][k] : k \in 1..m}, n + 1)
  BY <1>8 DEF FirstSteps
<1> QED
  BY <1>1, <1>9 DEF EC!WasNth

\* A call of notify_escalation announces the chosen step.
LEMMA NotifyRefines ==
  ASSUME IInv, PolicyInv, NotifyEscalation
  PROVE  EC!Next
<1>1. PICK i \in todo, s \in Steps : target = <<i, s>>
  BY DEF NotifyEscalation, Announce, IInv, TypeOK, RunOK
<1>2. /\ i \in Incidents /\ rows[i].step = row[i].step /\ row[i].step \in Nat
      /\ row[i].step = Len(escalated[i])
      /\ told[i] \in Seq([index : Nat, step : Steps]) /\ DOMAIN told = Incidents
  BY <1>1 DEF IInv, TypeOK, RunOK, TablesOK, LoadedOK, Row, RecordedWasAnnounced
<1> DEFINE e == [index |-> row[i].step + 1, step |-> s]
<1>3. /\ UNCHANGED <<steps, escalated>>
      /\ told'[i] = Append(told[i], e)
      /\ \A j \in Incidents \ {i} : told'[j] = told[j]
  BY <1>1, <1>2 DEF NotifyEscalation, Announce
<1>4. e \in [index : Nat, step : Steps] /\ e.index = EC!Coming(i) /\ e.step = s
  BY <1>2 DEF EC!Coming
<1> HIDE DEF e
<1>5. /\ DOMAIN told'[i] = DOMAIN told[i] \cup {Len(told[i]) + 1}
      /\ \A k \in DOMAIN told[i] : told'[i][k] = told[i][k]
      /\ told'[i][Len(told[i]) + 1] = e
  BY <1>2, <1>3, <1>4, AppendAnnounced
<1>6. Announcements'[i] = Announcements[i] \cup {<<EC!Coming(i), s>>}
  <2>1. Announcements[i] = {<<told[i][k].index, told[i][k].step>> : k \in DOMAIN told[i]}
    BY <1>2 DEF Announcements
  <2>2. Announcements'[i] = {<<told'[i][k].index, told'[i][k].step>> : k \in DOMAIN told'[i]}
    BY <1>2 DEF Announcements
  <2> QED
    BY <1>4, <1>5, <2>1, <2>2
<1>7. Announcements' = [Announcements EXCEPT ![i] = Announcements[i] \cup {<<EC!Coming(i), s>>}]
  <2>1. \A j \in Incidents \ {i} : Announcements'[j] = Announcements[j]
    BY <1>3 DEF Announcements
  <2>2. DOMAIN Announcements = Incidents /\ DOMAIN Announcements' = Incidents
    BY DEF Announcements
  <2>3. Announcements' = [j \in Incidents |-> Announcements'[j]]
    BY DEF Announcements
  <2>4. Announcements = [j \in Incidents |-> Announcements[j]]
    BY DEF Announcements
  <2> HIDE DEF Announcements
  <2> QED
    BY <1>6, <2>1, <2>2, <2>3, <2>4
<1>8. EC!WasNth(s, EC!Coming(i))
  <2>1. Chosen(s, row[i].step)
    BY <1>1, <1>2 DEF PolicyInv, ChoiceOK, NotifyEscalation
  <2>2. EC!WasNth(s, row[i].step + 1)
    BY <1>2, <2>1, ChosenWasNth DEF IInv
  <2> QED
    BY <1>2, <2>2 DEF EC!Coming
<1>9. EC!Announce(i, s)
  BY <1>3, <1>7, <1>8 DEF EC!Announce
<1> QED
  BY <1>2, <1>9 DEF EC!Next

\* The commit records the announced step of the incidents it counted.
LEMMA CommitRefines ==
  ASSUME IInv, CommitRun
  PROVE  EC!Next
<1>1. /\ DOMAIN fired \subseteq Incidents /\ UNCHANGED <<told, steps>>
      /\ \A i \in DOMAIN fired : fired[i] \in Steps
  BY DEF CommitRun, IInv, TypeOK, RunOK
<1> DEFINE to == [i \in DOMAIN fired |-> fired[i]]
<1>2. DOMAIN to = DOMAIN fired /\ \A i \in DOMAIN fired : to[i] = fired[i]
  OBVIOUS
<1>3. to \in [DOMAIN fired -> Steps] /\ DOMAIN fired \in SUBSET Incidents
  BY <1>1
<1> HIDE DEF to
<1>4. ASSUME NEW i \in DOMAIN fired PROVE <<EC!Coming(i), to[i]>> \in Announcements[i]
  <2>1. PICK k \in DOMAIN told[i] : told[i][k] = [index |-> row[i].step + 1, step |-> fired[i]]
    BY DEF IInv, FiredOK, Announced
  <2>2. row[i].step = Len(escalated[i]) /\ i \in Incidents
    BY <1>1 DEF IInv, RecordedWasAnnounced
  <2>3. told[i][k].index = EC!Coming(i) /\ told[i][k].step = to[i]
    BY <1>2, <2>1, <2>2 DEF EC!Coming
  <2> QED
    BY <2>2, <2>3 DEF Announcements
<1>5. escalated' = [i \in Incidents |-> IF i \in DOMAIN to THEN Append(escalated[i], to[i])
                                                         ELSE escalated[i]]
  BY <1>2 DEF CommitRun
<1>6. EC!Record(to)
  BY <1>1, <1>2, <1>4, <1>5 DEF EC!Record, Announcements
<1> QED
  BY <1>3, <1>6 DEF EC!Next

\* The escalation runner implements the contract, for any steps, added in any
\* order: the step that is recorded n-th was announced before, as the n-th,
\* and stood n-th in its policy when the run read it.
THEOREM Implements == Spec => ImplementsContract
<1>1. Init => EC!Init
  <2> SUFFICES ASSUME Init PROVE EC!Init
    OBVIOUS
  <2>1. \A i \in Incidents : DOMAIN told[i] = {}
    BY DEF Init
  <2>2. Announcements = [i \in Incidents |-> {}]
    BY <2>1 DEF Announcements
  <2> QED
    BY <2>2 DEF Init, EC!Init
<1>2. ASSUME IInv, PolicyInv, [Next]_vars
      PROVE  [EC!Next]_EC!vars
  <2>1. CASE NotifyEscalation
    BY <1>2, <2>1, NotifyRefines
  <2>2. CASE CommitRun
    BY <1>2, <2>2, CommitRefines
  <2>3. ASSUME NEW s \in Steps, AddEscalationStep(s) PROVE EC!Next
    <3>1. EC!AddStep(s)
      BY <2>3 DEF AddEscalationStep, EC!AddStep, Announcements
    <3> QED
      BY <3>1 DEF EC!Next
  <2>4. ASSUME UNCHANGED <<steps, told, escalated>> PROVE UNCHANGED EC!vars
    BY <2>4 DEF EC!vars, Announcements
  <2>5. \/ NotifyEscalation \/ CommitRun \/ \E s \in Steps : AddEscalationStep(s)
        \/ UNCHANGED <<steps, told, escalated>>
    BY <1>2 DEF Next, StartRun, TakeIncident, FailRun, TransitionStatus,
                AssignEscalationPolicy, DeleteEscalationPolicy, Tick, vars
  <2> QED
    BY <2>1, <2>2, <2>3, <2>4, <2>5
<1> QED
  BY <1>1, <1>2, SpecPolicyInv, PTL DEF Spec, ImplementsContract, EC!Spec

=========================================================================
