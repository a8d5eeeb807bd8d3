----------------------- MODULE SlaPolicies_proofs -----------------------
(***************************************************************************)
(* Proofs about SlaPolicies, for any number of requests, priorities and    *)
(* policies.  The properties speak of rows; that they survive needs        *)
(* facts about the requests that are about to write such rows.             *)
(***************************************************************************)
EXTENDS SlaPolicies, TLAPS

\* Rows are written once, by a request that then is over, and hold their
\* priority in upper case.
RowsOK ==
  /\ \A p \in Policies : /\ job[p] = Over
                         /\ policy[p].priority = Upper[policy[p].asked]
  /\ \A i \in Incidents : job[i] = Over

\* Only requests that were over can have been committed before r began.
AfterOK == \A r \in Requests : after[r] \subseteq {q \in Requests : job[q] = Over}

\* A request about to insert a policy has seen none of its priority.
CheckedOK ==
  \A r \in Requests : job[r].at = "insert" =>
    \A p \in after[r] \cap Policies : ~SamePriority(policy[p].asked, job[r].asked)

\* What DeadlineByStandingPolicy says of an incident not yet committed.
LookedUpOK ==
  \A r \in Requests : job[r].at \in {"flush", "commit"} =>
    {p \in after[r] \cap Policies : SamePriority(policy[p].asked, job[r].asked)}
      \subseteq {job[r].policy}

\* The lock of a flushed incident keeps its policy.
LockedOK ==
  \A r \in Requests :
    job[r].at = "commit" /\ job[r].policy # NULL => job[r].policy \in Policies

-------------------------------------------------------------------------
LEMMA IdleOver ==
  /\ Idle \in Job /\ Over \in Job /\ Idle.at = "idle" /\ Over.at = "over"
  /\ Idle # Over
BY DEF Idle, Over, Job, Stages, Id

LEMMA InitTypeOK == Init => TypeOK
<1> SUFFICES ASSUME Init PROVE TypeOK
  OBVIOUS
<1>1. Policies = {} /\ Incidents = {}
  BY DEF Init, Policies, Incidents
<1>2. clock \in 0..MaxClock
  BY TimeAssumption DEF Init
<1>3. warner \in [at : {"idle", "loop"}, now : 0..MaxClock, todo : SUBSET Incidents]
  BY TimeAssumption DEF Init, NoWarnings
<1> QED
  BY <1>1, <1>2, <1>3, IdleOver DEF Init, TypeOK

\* The conjuncts of TypeOK about requests, jobs and clock.
JobOK ==
  /\ job \in [Requests -> Job]
  /\ \A r \in Requests :
       /\ job[r].at \in {"update", "delete"} => job[r].policy # NULL
       /\ job[r].at \in {"insert", "update"} => job[r].minutes # NULL
       /\ job[r].at \in {"insert", "flush", "commit"} => job[r].asked # NULL
       /\ job[r].at \in {"flush", "commit"} => (job[r].policy = NULL <=> job[r].deadline = NULL)

RowTypes ==
  /\ policy \in [Requests -> Policy \cup {NULL}]
  /\ incident \in [Requests -> Incident \cup {NULL}]
  /\ \A i \in Incidents : incident[i].policy = NULL <=> incident[i].deadline = NULL

WarnerOK ==
  /\ warner \in [at : {"idle", "loop"}, now : 0..MaxClock, todo : SUBSET Incidents]
  /\ touched \subseteq Incidents

LEMMA TypeParts ==
  ASSUME JobOK', RowTypes', WarnerOK', clock' \in 0..MaxClock,
         after' \in [Requests -> SUBSET Requests]
  PROVE  TypeOK'
BY DEF TypeOK, JobOK, RowTypes, WarnerOK

\* What Start makes of a request.
LEMMA StartType ==
  ASSUME TypeOK, NEW r \in Requests, NEW j \in Job, Start(r, j),
         j.at \in {"update", "delete"} => j.policy # NULL,
         j.at \in {"insert", "update"} => j.minutes # NULL,
         j.at \in {"insert", "flush", "commit"} => j.asked # NULL,
         j.at \in {"flush", "commit"} => (j.policy = NULL <=> j.deadline = NULL)
  PROVE  JobOK' /\ after' \in [Requests -> SUBSET Requests]
<1>1. job \in [Requests -> Job] /\ job' = [job EXCEPT ![r] = j]
  BY DEF TypeOK, Start
<1>2. Policies \subseteq Requests
  BY DEF Policies
<1>3. after' \in [Requests -> SUBSET Requests]
  BY <1>2 DEF TypeOK, Start
<1>4. \A q \in Requests : job'[q] = IF q = r THEN j ELSE job[q]
  BY <1>1
<1>5. job' \in [Requests -> Job]
  BY <1>1
<1> QED
  BY <1>3, <1>4, <1>5 DEF JobOK, TypeOK

\* A request that is over needs nothing.
LEMMA OverType ==
  ASSUME TypeOK, NEW r \in Requests, job' = [job EXCEPT ![r] = Over]
  PROVE  JobOK'
<1>1. \A q \in Requests : job'[q] = IF q = r THEN Over ELSE job[q]
  BY DEF TypeOK
<1>2. job' \in [Requests -> Job]
  BY IdleOver DEF TypeOK
<1> QED
  BY <1>1, <1>2, IdleOver DEF JobOK, TypeOK

LEMMA StartOverType ==
  ASSUME TypeOK, NEW r \in Requests, Start(r, Over)
  PROVE  JobOK' /\ after' \in [Requests -> SUBSET Requests]
BY IdleOver, StartType

LEMMA UnchangedRows ==
  ASSUME TypeOK, UNCHANGED <<policy, incident, warner, clock, touched>>
  PROVE  RowTypes' /\ WarnerOK' /\ clock' \in 0..MaxClock
BY DEF TypeOK, RowTypes, WarnerOK, Incidents

LEMMA StepTypeOK == TypeOK /\ [Next]_vars => TypeOK'
<1> SUFFICES ASSUME TypeOK, [Next]_vars PROVE TypeOK'
  OBVIOUS
<1> USE TimeAssumption, SpellingAssumption, NullAssumption
<1>1. ASSUME NEW r \in Requests, NEW v \in Spellings, NEW m \in Minutes,
             CreatePolicy(r, v, m)
      PROVE  TypeOK'
  <2> DEFINE j == [Idle EXCEPT !.at = "insert", !.asked = v, !.minutes = m]
  <2>1. j \in Job /\ j.at = "insert" /\ j.asked # NULL /\ j.minutes # NULL
    BY DEF Idle, Job, Stages, Id
  <2>2. JobOK' /\ after' \in [Requests -> SUBSET Requests]
    <3>1. CASE Start(r, j)
      BY <2>1, <3>1, StartType
    <3>2. CASE Start(r, Over)
      BY <3>2, StartOverType
    <3> QED
      BY <1>1, <3>1, <3>2 DEF CreatePolicy
  <2> QED
    BY <1>1, <2>2, UnchangedRows, TypeParts DEF CreatePolicy
<1>2. ASSUME NEW r \in Requests, InsertPolicy(r)
      PROVE  TypeOK'
  <2> DEFINE row == [priority |-> uppercase_priority(job[r].asked),
                     asked    |-> job[r].asked,
                     minutes  |-> job[r].minutes]
  <2>1. row \in Policy
    BY <1>2 DEF InsertPolicy, TypeOK, Job, Policy, uppercase_priority
  <2>2. policy' \in [Requests -> Policy \cup {NULL}]
    BY <1>2, <2>1 DEF InsertPolicy, TypeOK
  <2>3. JobOK'
    BY <1>2, OverType DEF InsertPolicy
  <2> QED
    BY <1>2, <2>2, <2>3, TypeParts DEF InsertPolicy, TypeOK, RowTypes, WarnerOK, Incidents
<1>3. ASSUME NEW r \in Requests, NEW p \in Requests, NEW m \in Minutes,
             UpdatePolicy(r, p, m)
      PROVE  TypeOK'
  <2> DEFINE j == [Idle EXCEPT !.at = "update", !.policy = p, !.minutes = m]
  <2>1. j \in Job /\ j.at = "update" /\ j.policy # NULL /\ j.minutes # NULL
    BY DEF Idle, Job, Stages, Id
  <2>2. JobOK' /\ after' \in [Requests -> SUBSET Requests]
    <3>1. CASE Start(r, j)
      BY <2>1, <3>1, StartType
    <3>2. CASE Start(r, Over)
      BY <3>2, StartOverType
    <3> QED
      BY <1>3, <3>1, <3>2 DEF UpdatePolicy
  <2> QED
    BY <1>3, <2>2, UnchangedRows, TypeParts DEF UpdatePolicy
<1>4. ASSUME NEW r \in Requests, SavePolicy(r)
      PROVE  TypeOK'
  <2>1. JobOK'
    BY <1>4, OverType DEF SavePolicy, Fail
  <2>2. policy' \in [Requests -> Policy \cup {NULL}]
    <3>1. CASE /\ job[r].policy \in Policies
               /\ policy' = [policy EXCEPT ![job[r].policy].minutes = job[r].minutes]
      <4>1. job[r].minutes \in Minutes
        BY <1>4 DEF SavePolicy, TypeOK, Job
      <4>2. policy[job[r].policy] \in Policy
        BY <3>1 DEF Policies, TypeOK
      <4>3. [policy[job[r].policy] EXCEPT !.minutes = job[r].minutes] \in Policy
        BY <4>1, <4>2 DEF Policy
      <4> QED
        BY <3>1, <4>3 DEF TypeOK
    <3>2. CASE policy' = policy
      BY <3>2 DEF TypeOK
    <3> QED
      BY <1>4, <3>1, <3>2 DEF SavePolicy, Fail
  <2>3. UNCHANGED <<incident, warner, clock, after, touched>>
    BY <1>4 DEF SavePolicy, Fail
  <2> QED
    BY <2>1, <2>2, <2>3, TypeParts DEF TypeOK, RowTypes, WarnerOK, Incidents
<1>5. ASSUME NEW r \in Requests, NEW p \in Requests, DeletePolicy(r, p)
      PROVE  TypeOK'
  <2> DEFINE j == [Idle EXCEPT !.at = "delete", !.policy = p]
  <2>1. j \in Job /\ j.at = "delete" /\ j.policy # NULL
    BY DEF Idle, Job, Stages, Id
  <2>2. JobOK' /\ after' \in [Requests -> SUBSET Requests]
    <3>1. CASE Start(r, j)
      BY <2>1, <3>1, StartType
    <3>2. CASE Start(r, Over)
      BY <3>2, StartOverType
    <3> QED
      BY <1>5, <3>1, <3>2 DEF DeletePolicy
  <2> QED
    BY <1>5, <2>2, UnchangedRows, TypeParts DEF DeletePolicy
<1>6. ASSUME NEW r \in Requests, RemovePolicy(r)
      PROVE  TypeOK'
  <2>1. JobOK'
    BY <1>6, OverType DEF RemovePolicy, Fail
  <2>2. policy' \in [Requests -> Policy \cup {NULL}]
    BY <1>6 DEF RemovePolicy, Fail, TypeOK
  <2>3. UNCHANGED <<incident, warner, clock, after, touched>>
    BY <1>6 DEF RemovePolicy, Fail
  <2> QED
    BY <2>1, <2>2, <2>3, TypeParts DEF TypeOK, RowTypes, WarnerOK, Incidents
<1>7. ASSUME NEW r \in Requests, NEW v \in Spellings, LookUpPolicy(r, v)
      PROVE  TypeOK'
  <2> DEFINE none == [Idle EXCEPT !.at = "flush", !.asked = v]
             under(p) == [Idle EXCEPT !.at = "flush", !.asked = v, !.policy = p,
                                      !.deadline = clock + policy[p].minutes]
  <2>1. JobOK' /\ after' \in [Requests -> SUBSET Requests]
    <3>1. CASE Start(r, none)
      <4>1. none \in Job /\ none.at = "flush" /\ none.asked # NULL
            /\ none.policy = NULL /\ none.deadline = NULL
        BY DEF Idle, Job, Stages, Id
      <4> QED
        BY <3>1, <4>1, StartType
    <3>2. ASSUME NEW p \in Requests, PoliciesFor(v) = {p}, Start(r, under(p))
          PROVE  JobOK' /\ after' \in [Requests -> SUBSET Requests]
      <4>1. policy[p] \in Policy
        BY <3>2 DEF PoliciesFor, Policies, TypeOK
      <4>2. clock + policy[p].minutes \in Int
        <5>1. clock \in Int
          BY DEF TypeOK
        <5>2. policy[p].minutes \in Int
          BY <4>1 DEF Policy
        <5> QED
          BY <5>1, <5>2
      <4>3. under(p) \in Job /\ under(p).at = "flush" /\ under(p).asked # NULL
            /\ under(p).policy # NULL /\ under(p).deadline # NULL
        BY <4>2 DEF Idle, Job, Stages, Id
      <4> HIDE DEF under
      <4> QED
        BY <3>2, <4>3, StartType
    <3>3. CASE Start(r, Over)
      BY <3>3, StartOverType
    <3> QED
      BY <1>7, <3>1, <3>2, <3>3 DEF LookUpPolicy
  <2> QED
    BY <1>7, <2>1, UnchangedRows, TypeParts DEF LookUpPolicy
<1>8. ASSUME NEW r \in Requests, FlushIncident(r)
      PROVE  TypeOK'
  <2>1. JobOK'
    <3>1. CASE job' = [job EXCEPT ![r].at = "commit"]
      <4>1. [job[r] EXCEPT !.at = "commit"] \in Job
        BY DEF TypeOK, Job, Stages
      <4>2. \A q \in Requests : job'[q] = IF q = r THEN [job[r] EXCEPT !.at = "commit"] ELSE job[q]
        BY <3>1 DEF TypeOK
      <4>3. job' \in [Requests -> Job]
        BY <3>1, <4>1 DEF TypeOK
      <4>4. job[r] \in Job /\ job[r].at = "flush"
        BY <1>8 DEF FlushIncident, TypeOK
      <4> QED
        BY <4>2, <4>3, <4>4 DEF JobOK, TypeOK, Job
    <3>2. CASE Fail(r)
      BY <3>2, OverType DEF Fail
    <3> QED
      BY <1>8, <3>1, <3>2 DEF FlushIncident
  <2>2. UNCHANGED <<policy, incident, warner, clock, after, touched>>
    BY <1>8 DEF FlushIncident, Fail
  <2> QED
    BY <2>1, <2>2, TypeParts DEF TypeOK, RowTypes, WarnerOK, Incidents
<1>9. ASSUME NEW r \in Requests, CommitIncident(r)
      PROVE  TypeOK'
  <2> DEFINE row == [asked |-> job[r].asked, policy |-> job[r].policy,
                     deadline |-> job[r].deadline, breached |-> FALSE, resolved |-> FALSE]
  <2>1. row \in Incident /\ (row.policy = NULL <=> row.deadline = NULL)
    BY <1>9 DEF CommitIncident, TypeOK, Job, Incident
  <2> HIDE DEF row
  <2>2. incident' = [incident EXCEPT ![r] = row]
    BY <1>9 DEF CommitIncident, row
  <2>3. incident' \in [Requests -> Incident \cup {NULL}]
    BY <2>1, <2>2 DEF TypeOK
  <2>4. \A i \in Requests : incident'[i] = IF i = r THEN row ELSE incident[i]
    BY <2>2 DEF TypeOK
  <2>5. Incidents \subseteq Incidents'
    BY <2>1, <2>4 DEF Incidents
  <2>6. RowTypes'
    BY <1>9, <2>1, <2>3, <2>4 DEF CommitIncident, RowTypes, TypeOK, Incidents
  <2>7. WarnerOK'
    BY <1>9, <2>5 DEF CommitIncident, WarnerOK, TypeOK
  <2>8. JobOK'
    BY <1>9, OverType DEF CommitIncident
  <2> QED
    BY <1>9, <2>6, <2>7, <2>8, TypeParts DEF CommitIncident, TypeOK
<1>10. ASSUME NEW r \in Requests, Abort(r)
       PROVE  TypeOK'
  <2>1. JobOK'
    BY <1>10, OverType DEF Abort, Fail
  <2> QED
    BY <1>10, <2>1, TypeParts DEF Abort, Fail, TypeOK, RowTypes, WarnerOK, Incidents
<1>11. ASSUME NEW i \in Requests, Resolve(i)
       PROVE  TypeOK'
  <2>1. incident[i] \in Incident /\ incident' = [incident EXCEPT ![i] = [incident[i] EXCEPT !.resolved = TRUE]]
    BY <1>11 DEF Resolve, TypeOK, Incidents
  <2>2. [incident[i] EXCEPT !.resolved = TRUE] \in Incident
    BY <2>1 DEF Incident
  <2>3. \A k \in Requests : incident'[k] = IF k = i THEN [incident[i] EXCEPT !.resolved = TRUE] ELSE incident[k]
    BY <2>1 DEF TypeOK
  <2>4. incident' \in [Requests -> Incident \cup {NULL}]
    BY <2>1, <2>2 DEF TypeOK
  <2>5. Incidents' = Incidents
    BY <2>1, <2>2, <2>3 DEF Incidents
  <2>6. RowTypes'
    BY <1>11, <2>1, <2>3, <2>4, <2>5 DEF Resolve, RowTypes, TypeOK, Incident
  <2>7. WarnerOK'
    BY <1>11, <2>5 DEF Resolve, WarnerOK, TypeOK
  <2>8. JobOK'
    BY <1>11 DEF Resolve, JobOK, TypeOK
  <2> QED
    BY <1>11, <2>6, <2>7, <2>8, TypeParts DEF Resolve, TypeOK
<1>12. ASSUME CheckSlaBreaches
       PROVE  TypeOK'
  <2>1. PICK overdue \in SUBSET Requests :
          /\ \A i \in overdue : Watched(i)
          /\ incident' = [i \in Requests |->
               IF i \in overdue THEN [incident[i] EXCEPT !.breached = TRUE] ELSE incident[i]]
    BY <1>12 DEF CheckSlaBreaches
  <2>2. \A i \in overdue : incident[i] \in Incident
    BY <2>1 DEF Watched, Incidents, TypeOK
  <2>3. \A i \in overdue : [incident[i] EXCEPT !.breached = TRUE] \in Incident
    BY <2>2 DEF Incident
  <2>4. incident' \in [Requests -> Incident \cup {NULL}]
    BY <2>1, <2>3 DEF TypeOK
  <2>5. Incidents' = Incidents
    BY <2>1, <2>2, <2>3 DEF Incidents
  <2>6. RowTypes'
    BY <1>12, <2>1, <2>2, <2>4, <2>5 DEF CheckSlaBreaches, RowTypes, TypeOK, Incident, Incidents
  <2>7. WarnerOK' /\ JobOK'
    BY <1>12, <2>5 DEF CheckSlaBreaches, WarnerOK, JobOK, TypeOK
  <2> QED
    BY <1>12, <2>6, <2>7, TypeParts DEF CheckSlaBreaches, TypeOK
<1>13. ASSUME CheckSlaWarnings
       PROVE  TypeOK'
  BY <1>13 DEF CheckSlaWarnings, TypeOK, Due, Watched, Policies, Incidents
<1>14. ASSUME NEW i \in Requests, NotifySlaWarning(i)
       PROVE  TypeOK'
  BY <1>14 DEF NotifySlaWarning, TypeOK, Policies, Incidents
<1>15. ASSUME EndWarnings
       PROVE  TypeOK'
  BY <1>15 DEF EndWarnings, NoWarnings, TypeOK, Policies, Incidents
<1>16. ASSUME Tick
       PROVE  TypeOK'
  BY <1>16 DEF Tick, TypeOK, Policies, Incidents
<1>17. CASE UNCHANGED vars
  BY <1>17 DEF vars, TypeOK, Policies, Incidents
<1> QED
  BY <1>1, <1>2, <1>3, <1>4, <1>5, <1>6, <1>7, <1>8, <1>9, <1>10, <1>11, <1>12, <1>13,
     <1>14, <1>15, <1>16, <1>17 DEF Next, PolicyRequest, AlertRequest

\* The state stays well formed, for any number of requests and any policies.
THEOREM TypeCorrect == Spec => []TypeOK
BY InitTypeOK, StepTypeOK, PTL DEF Spec

-------------------------------------------------------------------------
IInv ==
  /\ RowsOK
  /\ AfterOK
  /\ CheckedOK
  /\ LookedUpOK
  /\ LockedOK
  /\ DuplicatesOverlapped
  /\ DeadlineByStandingPolicy
  /\ NoDanglingPolicy

LEMMA InitInv == Init => IInv
BY IdleOver DEF Init, IInv, RowsOK, AfterOK, CheckedOK, LookedUpOK, LockedOK,
   DuplicatesOverlapped, DeadlineByStandingPolicy, NoDanglingPolicy, Policies, Incidents

\* A step that writes no new row: requests may end, columns that nobody
\* compares may change, and policies that nobody needs may go.
LEMMA QuietStep ==
  ASSUME TypeOK, IInv, after' = after,
         \A q \in Requests : job'[q] = job[q] \/ job'[q] = Over,
         Policies' \subseteq Policies,
         \A p \in Policies \ Policies' : ~Locked(p) /\ ~Referenced(p),
         \A p \in Policies' : /\ policy'[p].asked = policy[p].asked
                             /\ policy'[p].priority = policy[p].priority,
         Incidents' = Incidents,
         \A i \in Incidents : /\ incident'[i].asked = incident[i].asked
                             /\ incident'[i].policy = incident[i].policy
  PROVE  IInv'
<1> USE IdleOver
<1>1. Policies \subseteq Requests /\ Incidents \subseteq Requests
  BY DEF Policies, Incidents
<1>2. RowsOK' /\ AfterOK'
  BY <1>1 DEF IInv, RowsOK, AfterOK
<1>3. CheckedOK'
  BY <1>1 DEF IInv, CheckedOK, SamePriority
<1>4. LookedUpOK'
  <2> SUFFICES ASSUME NEW r \in Requests, job'[r].at \in {"flush", "commit"},
                      NEW p \in after[r] \cap Policies',
                      SamePriority(policy'[p].asked, job'[r].asked)
               PROVE  p = job'[r].policy
    BY DEF LookedUpOK, SamePriority
  <2>1. job'[r] = job[r]
    OBVIOUS
  <2>2. p \in Policies /\ SamePriority(policy[p].asked, job[r].asked)
    BY <2>1
  <2> QED
    BY <2>1, <2>2 DEF IInv, LookedUpOK
<1>5. LockedOK'
  <2> SUFFICES ASSUME NEW r \in Requests, job'[r].at = "commit", job'[r].policy # NULL
               PROVE  job'[r].policy \in Policies'
    BY DEF LockedOK
  <2>1. job'[r] = job[r]
    OBVIOUS
  <2>2. job[r].policy \in Policies /\ Locked(job[r].policy)
    BY <2>1 DEF IInv, LockedOK, Locked
  <2> QED
    BY <2>1, <2>2
<1>6. DuplicatesOverlapped'
  BY <1>1 DEF IInv, DuplicatesOverlapped, SamePriority
<1>7. DeadlineByStandingPolicy'
  BY <1>1 DEF IInv, DeadlineByStandingPolicy, SamePriority
<1>8. NoDanglingPolicy'
  BY <1>1 DEF IInv, NoDanglingPolicy, Referenced
<1> QED
  BY <1>2, <1>3, <1>4, <1>5, <1>6, <1>7, <1>8 DEF IInv

\* A request begins, having looked at the policies that are committed.
LEMMA StartStep ==
  ASSUME TypeOK, IInv, NEW r \in Requests, NEW j \in Job, job[r] = Idle, Start(r, j),
         UNCHANGED <<policy, incident>>,
         j.at # "commit",
         j.at = "insert" => PoliciesFor(j.asked) = {},
         j.at = "flush" => PoliciesFor(j.asked) \subseteq {j.policy}
  PROVE  IInv'
<1> USE IdleOver
<1>1. Policies \subseteq Requests /\ Incidents \subseteq Requests
  BY DEF Policies, Incidents
<1>2. Policies' = Policies /\ Incidents' = Incidents
  BY DEF Policies, Incidents
<1>3. \A q \in Requests : job'[q] = IF q = r THEN j ELSE job[q]
  BY DEF Start, TypeOK
<1>4. \A q \in Requests : after'[q] = IF q = r THEN Policies ELSE after[q]
  BY DEF Start, TypeOK
<1>5. r \notin Policies /\ r \notin Incidents
  BY DEF IInv, RowsOK
<1>6. \A p \in Policies : policy[p].priority = Upper[policy[p].asked]
  BY DEF IInv, RowsOK
<1>7. RowsOK'
  BY <1>1, <1>2, <1>3, <1>5 DEF IInv, RowsOK
<1>8. AfterOK'
  <2> SUFFICES ASSUME NEW q \in Requests, NEW p \in after'[q]
               PROVE  p \in Requests /\ job'[p] = Over
    BY DEF AfterOK
  <2>1. p \in Requests /\ job[p] = Over
    BY <1>1, <1>4 DEF IInv, AfterOK, RowsOK
  <2> QED
    BY <1>3, <2>1
<1>9. CheckedOK'
  BY <1>1, <1>2, <1>3, <1>4, <1>6 DEF IInv, CheckedOK, PoliciesFor, uppercase_priority, SamePriority
<1>10. LookedUpOK'
  BY <1>1, <1>2, <1>3, <1>4, <1>6 DEF IInv, LookedUpOK, PoliciesFor, uppercase_priority, SamePriority
<1>11. LockedOK'
  BY <1>2, <1>3 DEF IInv, LockedOK
<1>12. DuplicatesOverlapped'
  BY <1>1, <1>2, <1>4, <1>5 DEF IInv, DuplicatesOverlapped, SamePriority
<1>13. DeadlineByStandingPolicy'
  BY <1>1, <1>2, <1>4, <1>5 DEF IInv, DeadlineByStandingPolicy, SamePriority
<1>14. NoDanglingPolicy'
  BY <1>2 DEF IInv, NoDanglingPolicy
<1> QED
  BY <1>7, <1>8, <1>9, <1>10, <1>11, <1>12, <1>13, <1>14 DEF IInv

LEMMA InsertStep ==
  ASSUME TypeOK, IInv, NEW r \in Requests, InsertPolicy(r)
  PROVE  IInv'
<1> USE IdleOver, NullAssumption
<1> DEFINE row == [priority |-> uppercase_priority(job[r].asked),
                   asked    |-> job[r].asked,
                   minutes  |-> job[r].minutes]
<1>1. Policies \subseteq Requests /\ Incidents \subseteq Requests
  BY DEF Policies, Incidents
<1>2. job[r].at = "insert" /\ job[r] # Over
  BY DEF InsertPolicy
<1>3. row \in Policy /\ row.asked = job[r].asked /\ row.priority = Upper[row.asked]
  BY <1>2, SpellingAssumption DEF TypeOK, Job, Policy, uppercase_priority
<1>4. policy' = [policy EXCEPT ![r] = row]
  BY DEF InsertPolicy
<1> HIDE DEF row
<1>5. \A p \in Requests : policy'[p] = IF p = r THEN row ELSE policy[p]
  BY <1>4 DEF TypeOK
<1>6. Policies' = Policies \cup {r} /\ Incidents' = Incidents
  BY <1>3, <1>5 DEF Policies, Incidents, InsertPolicy
<1>7. \A q \in Requests : job'[q] = IF q = r THEN Over ELSE job[q]
  BY DEF InsertPolicy, TypeOK
<1>8. incident' = incident /\ after' = after
  BY DEF InsertPolicy
<1>9. r \notin Policies /\ r \notin Incidents /\ \A q \in Requests : r \notin after[q]
  BY <1>2 DEF IInv, RowsOK, AfterOK
<1>10. RowsOK'
  BY <1>1, <1>3, <1>5, <1>6, <1>7, <1>8 DEF IInv, RowsOK
<1>11. AfterOK'
  BY <1>7, <1>8 DEF IInv, AfterOK
<1>12. CheckedOK'
  BY <1>1, <1>5, <1>6, <1>7, <1>8, <1>9 DEF IInv, CheckedOK, SamePriority
<1>13. LookedUpOK'
  BY <1>1, <1>5, <1>6, <1>7, <1>8, <1>9 DEF IInv, LookedUpOK, SamePriority
<1>14. LockedOK'
  BY <1>6, <1>7 DEF IInv, LockedOK
<1>15. DuplicatesOverlapped'
  <2> SUFFICES ASSUME NEW p \in Policies', NEW q \in Policies', p # q,
                      SamePriority(policy'[p].asked, policy'[q].asked)
               PROVE  q \notin after[p]
    BY <1>8 DEF DuplicatesOverlapped, SamePriority
  <2>1. CASE q = r
    BY <1>1, <1>6, <1>9, <2>1
  <2>2. CASE p = r /\ q \in Policies
    BY <1>1, <1>2, <1>3, <1>5, <2>2 DEF IInv, CheckedOK, SamePriority
  <2>3. CASE p \in Policies /\ q \in Policies
    BY <1>1, <1>5, <1>9, <2>3 DEF IInv, DuplicatesOverlapped, SamePriority
  <2> QED
    BY <1>6, <2>1, <2>2, <2>3
<1>16. DeadlineByStandingPolicy'
  BY <1>1, <1>5, <1>6, <1>8, <1>9 DEF IInv, DeadlineByStandingPolicy, SamePriority
<1>17. NoDanglingPolicy'
  BY <1>6, <1>8 DEF IInv, NoDanglingPolicy
<1> QED
  BY <1>10, <1>11, <1>12, <1>13, <1>14, <1>15, <1>16, <1>17 DEF IInv

LEMMA FlushStep ==
  ASSUME TypeOK, IInv, NEW r \in Requests, FlushIncident(r),
         job' = [job EXCEPT ![r].at = "commit"]
  PROVE  IInv'
<1> USE IdleOver
<1>1. /\ job[r] \in Job /\ job[r].at = "flush" /\ job[r] # Over
      /\ job[r].policy \in Policies \cup {NULL}
  <2>1. job[r] \in Job /\ job[r].at = "flush"
    BY DEF FlushIncident, TypeOK
  <2>2. job'[r] # Over
    BY <2>1 DEF TypeOK, Job, Over
  <2>3. job[r].policy \in Policies \cup {NULL}
    BY <2>2 DEF FlushIncident, Fail, TypeOK
  <2> QED
    BY <2>1, <2>3
<1>2. \A q \in Requests : q # r => job'[q] = job[q]
  BY DEF TypeOK
<1>3. /\ job'[r].at = "commit" /\ job'[r].asked = job[r].asked
      /\ job'[r].policy = job[r].policy
  BY <1>1 DEF TypeOK, Job
<1>4. UNCHANGED <<policy, incident, after, Policies, Incidents>>
  BY DEF FlushIncident, Fail, Policies, Incidents
<1>5. Policies \subseteq Requests /\ Incidents \subseteq Requests
  BY DEF Policies, Incidents
<1>6. RowsOK' /\ AfterOK'
  BY <1>1, <1>2, <1>4, <1>5 DEF IInv, RowsOK, AfterOK
<1>7. CheckedOK'
  BY <1>2, <1>3, <1>4 DEF IInv, CheckedOK, SamePriority
<1>8. LookedUpOK'
  BY <1>1, <1>2, <1>3, <1>4 DEF IInv, LookedUpOK, SamePriority
<1>9. LockedOK'
  BY <1>1, <1>2, <1>3, <1>4 DEF IInv, LockedOK
<1>10. (DuplicatesOverlapped /\ DeadlineByStandingPolicy /\ NoDanglingPolicy)'
  BY <1>4 DEF IInv, DuplicatesOverlapped, DeadlineByStandingPolicy, NoDanglingPolicy, SamePriority
<1> QED
  BY <1>6, <1>7, <1>8, <1>9, <1>10 DEF IInv

LEMMA CommitStep ==
  ASSUME TypeOK, IInv, NEW r \in Requests, CommitIncident(r)
  PROVE  IInv'
<1> USE IdleOver, NullAssumption
<1> DEFINE row == [asked |-> job[r].asked, policy |-> job[r].policy,
                   deadline |-> job[r].deadline, breached |-> FALSE, resolved |-> FALSE]
<1>1. job[r].at = "commit" /\ job[r] # Over
  BY DEF CommitIncident
<1>2. row \in Incident /\ row.asked = job[r].asked /\ row.policy = job[r].policy
  BY <1>1 DEF TypeOK, Job, Incident
<1>3. incident' = [incident EXCEPT ![r] = row]
  BY DEF CommitIncident
<1> HIDE DEF row
<1>4. \A i \in Requests : incident'[i] = IF i = r THEN row ELSE incident[i]
  BY <1>3 DEF TypeOK
<1>5. Incidents' = Incidents \cup {r} /\ UNCHANGED <<policy, after, Policies>>
  BY <1>2, <1>4 DEF Incidents, Policies, CommitIncident
<1>6. \A q \in Requests : job'[q] = IF q = r THEN Over ELSE job[q]
  BY DEF CommitIncident, TypeOK
<1>7. Policies \subseteq Requests /\ Incidents \subseteq Requests
  BY DEF Policies, Incidents
<1>8. RowsOK' /\ AfterOK'
  BY <1>5, <1>6, <1>7 DEF IInv, RowsOK, AfterOK
<1>9. CheckedOK' /\ LookedUpOK' /\ LockedOK'
  BY <1>5, <1>6 DEF IInv, CheckedOK, LookedUpOK, LockedOK, SamePriority
<1>10. DuplicatesOverlapped'
  BY <1>5 DEF IInv, DuplicatesOverlapped, SamePriority
<1>11. DeadlineByStandingPolicy'
  BY <1>1, <1>2, <1>4, <1>5, <1>7 DEF IInv, DeadlineByStandingPolicy, LookedUpOK, SamePriority
<1>12. NoDanglingPolicy'
  BY <1>1, <1>2, <1>4, <1>5, <1>7 DEF IInv, NoDanglingPolicy, LockedOK
<1> QED
  BY <1>8, <1>9, <1>10, <1>11, <1>12 DEF IInv

LEMMA StepInv == TypeOK /\ TypeOK' /\ IInv /\ [Next]_vars => IInv'
<1> SUFFICES ASSUME TypeOK, TypeOK', IInv, [Next]_vars PROVE IInv'
  OBVIOUS
<1> USE NullAssumption, IdleOver
<1>1. ASSUME NEW r \in Requests, job[r] = Idle, Start(r, Over), UNCHANGED <<policy, incident>>
      PROVE  IInv'
  BY <1>1, StartStep
<1>2. ASSUME NEW r \in Requests, Fail(r), after' = after
      PROVE  IInv'
  <2>1. \A q \in Requests : job'[q] = job[q] \/ job'[q] = Over
    BY <1>2 DEF Fail, TypeOK
  <2> QED
    BY <1>2, <2>1, QuietStep DEF Fail, Policies, Incidents
<1>3. ASSUME NEW r \in Requests, NEW v \in Spellings, NEW m \in Minutes,
             CreatePolicy(r, v, m)
      PROVE  IInv'
  <2> DEFINE j == [Idle EXCEPT !.at = "insert", !.asked = v, !.minutes = m]
  <2>1. j \in Job /\ j.at = "insert" /\ j.asked = v
    BY DEF Idle, Job, Stages, Id
  <2> HIDE DEF j
  <2>2. CASE Start(r, j) /\ PoliciesFor(v) = {}
    BY <1>3, <2>1, <2>2, StartStep DEF CreatePolicy
  <2> QED
    BY <1>1, <1>3, <2>2 DEF CreatePolicy, j
<1>4. ASSUME NEW r \in Requests, NEW p \in Requests, NEW m \in Minutes,
             UpdatePolicy(r, p, m)
      PROVE  IInv'
  <2> DEFINE j == [Idle EXCEPT !.at = "update", !.policy = p, !.minutes = m]
  <2>1. j \in Job /\ j.at = "update"
    BY DEF Idle, Job, Stages, Id
  <2> HIDE DEF j
  <2>2. CASE Start(r, j)
    BY <1>4, <2>1, <2>2, StartStep DEF UpdatePolicy
  <2> QED
    BY <1>1, <1>4, <2>2 DEF UpdatePolicy, j
<1>5. ASSUME NEW r \in Requests, SavePolicy(r)
      PROVE  IInv'
  <2>1. CASE Fail(r)
    BY <1>2, <1>5, <2>1 DEF SavePolicy
  <2>2. CASE /\ job[r].policy \in Policies
             /\ policy' = [policy EXCEPT ![job[r].policy].minutes = job[r].minutes]
             /\ job' = [job EXCEPT ![r] = Over]
             /\ UNCHANGED incident
    <3>1. \A q \in Requests : job'[q] = job[q] \/ job'[q] = Over
      BY <2>2 DEF TypeOK
    <3>2. Incidents' = Incidents /\ incident' = incident /\ after' = after
      BY <1>5, <2>2 DEF Incidents, SavePolicy
    <3>3. policy[job[r].policy] \in Policy
      BY <2>2 DEF Policies, TypeOK
    <3>4. \A p \in Requests : p # job[r].policy => policy'[p] = policy[p]
      BY <2>2 DEF TypeOK
    <3>5. /\ policy'[job[r].policy].asked = policy[job[r].policy].asked
          /\ policy'[job[r].policy].priority = policy[job[r].policy].priority
      BY <2>2, <3>3 DEF TypeOK, Policies, Policy
    <3>6. Policies' = Policies
      <4>1. [policy[job[r].policy] EXCEPT !.minutes = job[r].minutes] \in Policy
        BY <1>5, <3>3 DEF SavePolicy, TypeOK, Job, Policy
      <4> QED
        BY <2>2, <3>3, <3>4, <4>1 DEF Policies, TypeOK
    <3>7. Policies \subseteq Requests
      BY DEF Policies
    <3> QED
      BY <3>1, <3>2, <3>4, <3>5, <3>6, <3>7, QuietStep
  <2> QED
    BY <1>5, <2>1, <2>2 DEF SavePolicy
<1>6. ASSUME NEW r \in Requests, NEW p \in Requests, DeletePolicy(r, p)
      PROVE  IInv'
  <2> DEFINE j == [Idle EXCEPT !.at = "delete", !.policy = p]
  <2>1. j \in Job /\ j.at = "delete"
    BY DEF Idle, Job, Stages, Id
  <2> HIDE DEF j
  <2>2. CASE Start(r, j)
    BY <1>6, <2>1, <2>2, StartStep DEF DeletePolicy
  <2> QED
    BY <1>1, <1>6, <2>2 DEF DeletePolicy, j
<1>7. ASSUME NEW r \in Requests, RemovePolicy(r)
      PROVE  IInv'
  <2>1. CASE Fail(r)
    BY <1>2, <1>7, <2>1 DEF RemovePolicy
  <2>2. CASE /\ ~Referenced(job[r].policy)
             /\ policy' = [policy EXCEPT ![job[r].policy] = NULL]
             /\ job' = [job EXCEPT ![r] = Over]
             /\ UNCHANGED incident
    <3>1. \A q \in Requests : job'[q] = job[q] \/ job'[q] = Over
      BY <2>2 DEF TypeOK
    <3>2. Incidents' = Incidents /\ incident' = incident /\ after' = after
      BY <1>7, <2>2 DEF Incidents, RemovePolicy
    <3>3. \A p \in Requests : p # job[r].policy => policy'[p] = policy[p]
      BY <2>2 DEF TypeOK
    <3>4. Policies' = Policies \ {job[r].policy}
      BY <2>2, <3>3 DEF Policies, TypeOK
    <3>5. Policies \subseteq Requests /\ ~Locked(job[r].policy)
      BY <1>7 DEF Policies, RemovePolicy
    <3> QED
      BY <2>2, <3>1, <3>2, <3>3, <3>4, <3>5, QuietStep
  <2> QED
    BY <1>7, <2>1, <2>2 DEF RemovePolicy
<1>8. ASSUME NEW r \in Requests, NEW v \in Spellings, LookUpPolicy(r, v)
      PROVE  IInv'
  <2> DEFINE none == [Idle EXCEPT !.at = "flush", !.asked = v]
             under(p) == [Idle EXCEPT !.at = "flush", !.asked = v, !.policy = p,
                                      !.deadline = clock + policy[p].minutes]
  <2>1. none.at = "flush" /\ none.asked = v
    BY DEF Idle
  <2>2. \A p \in Requests : under(p).at = "flush" /\ under(p).asked = v /\ under(p).policy = p
    BY DEF Idle
  <2>3. \A j : Start(r, j) => j \in Job
    BY DEF Start, TypeOK
  <2> HIDE DEF none, under
  <2>4. CASE PoliciesFor(v) = {} /\ Start(r, none)
    BY <1>8, <2>1, <2>3, <2>4, StartStep DEF LookUpPolicy
  <2>5. ASSUME NEW p \in Requests, PoliciesFor(v) = {p}, Start(r, under(p))
        PROVE  IInv'
    BY <1>8, <2>2, <2>3, <2>5, StartStep DEF LookUpPolicy
  <2> QED
    BY <1>1, <1>8, <2>4, <2>5 DEF LookUpPolicy, none, under
<1>9. ASSUME NEW r \in Requests, FlushIncident(r)
      PROVE  IInv'
  BY <1>2, <1>9, FlushStep DEF FlushIncident
<1>10. ASSUME NEW r \in Requests, Abort(r)
       PROVE  IInv'
  BY <1>2, <1>10 DEF Abort
<1>11. ASSUME NEW i \in Requests, Resolve(i)
       PROVE  IInv'
  <2>1. incident[i] \in Incident
    BY <1>11 DEF Resolve, Incidents, TypeOK
  <2>2. \A k \in Requests : incident'[k] = IF k = i THEN [incident[i] EXCEPT !.resolved = TRUE] ELSE incident[k]
    BY <1>11 DEF Resolve, TypeOK
  <2>3. [incident[i] EXCEPT !.resolved = TRUE] \in Incident
    BY <2>1 DEF Incident
  <2>4. Incidents' = Incidents
    BY <2>1, <2>2, <2>3 DEF Incidents
  <2>5. \A k \in Incidents : /\ incident'[k].asked = incident[k].asked
                            /\ incident'[k].policy = incident[k].policy
    BY <2>1, <2>2 DEF Incidents, Incident
  <2> QED
    BY <1>11, <2>4, <2>5, QuietStep DEF Resolve, Policies
<1>12. ASSUME CheckSlaBreaches
       PROVE  IInv'
  <2>1. PICK overdue \in SUBSET Requests :
          /\ \A i \in overdue : Watched(i)
          /\ incident' = [i \in Requests |->
               IF i \in overdue THEN [incident[i] EXCEPT !.breached = TRUE] ELSE incident[i]]
    BY <1>12 DEF CheckSlaBreaches
  <2>2. \A i \in overdue : incident[i] \in Incident
    BY <2>1 DEF Watched, Incidents, TypeOK
  <2>3. \A i \in overdue : [incident[i] EXCEPT !.breached = TRUE] \in Incident
    BY <2>2 DEF Incident
  <2>4. Incidents' = Incidents
    BY <2>1, <2>2, <2>3 DEF Incidents
  <2>5. \A k \in Incidents : /\ incident'[k].asked = incident[k].asked
                            /\ incident'[k].policy = incident[k].policy
    BY <2>1, <2>2 DEF Incidents, Incident
  <2> QED
    BY <1>12, <2>4, <2>5, QuietStep DEF CheckSlaBreaches, Policies
<1>13. ASSUME UNCHANGED <<job, policy, incident, after>>
       PROVE  IInv'
  BY <1>13, QuietStep DEF Policies, Incidents
<1> QED
  BY <1>3, <1>4, <1>5, <1>6, <1>7, <1>8, <1>9, <1>10, <1>11, <1>12, <1>13, InsertStep, CommitStep
  DEF Next, PolicyRequest, AlertRequest, CheckSlaWarnings, NotifySlaWarning, EndWarnings, Tick, vars

THEOREM Invariance == Spec => [](TypeOK /\ IInv)
BY InitTypeOK, InitInv, StepTypeOK, StepInv, PTL DEF Spec

\* Two policies of a priority are made only by requests that overlap, for any
\* number of requests (create_sla_policy).
THEOREM DuplicatesOverlappedAlways == Spec => []DuplicatesOverlapped
BY Invariance, PTL DEF IInv

\* Ingestion neither misses the policy that stands for its priority nor
\* chooses between two (_get_sla_deadline).
THEOREM DeadlineByStandingPolicyAlways == Spec => []DeadlineByStandingPolicy
BY Invariance, PTL DEF IInv

\* The policy of an incident is never deleted, whoever deletes while alerts
\* are ingested.
THEOREM NoDanglingPolicyAlways == Spec => []NoDanglingPolicy
BY Invariance, PTL DEF IInv

-------------------------------------------------------------------------
\* What StaleWarningNeedsChange says of the incidents still to be warned
\* about.
WarningInv ==
  /\ warner.now <= clock
  /\ warner.todo # {} => warner.at = "loop"
  /\ \A i \in warner.todo : \/ Watched(i) /\ incident[i].deadline > clock
                           \/ i \in touched
                           \/ clock > warner.now

LEMMA InitWarningInv == Init => WarningInv
BY TimeAssumption DEF Init, WarningInv, NoWarnings

\* A step that leaves the incidents of the loop alone.
LEMMA AsideStep ==
  ASSUME TypeOK, WarningInv, UNCHANGED <<warner, clock, touched>>,
         \A i \in Incidents : incident'[i] = incident[i],
         Incidents \subseteq Incidents'
  PROVE  WarningInv'
BY DEF TypeOK, WarningInv, Watched

LEMMA StepWarningInv ==
  TypeOK /\ TypeOK' /\ IInv /\ WarningInv /\ [Next]_vars => WarningInv'
<1> SUFFICES ASSUME TypeOK, TypeOK', IInv, WarningInv, [Next]_vars PROVE WarningInv'
  OBVIOUS
<1> USE TimeAssumption, NullAssumption
<1>1. ASSUME UNCHANGED <<incident, warner, clock, touched>>
      PROVE  WarningInv'
  BY <1>1, AsideStep DEF Incidents
<1>2. ASSUME NEW r \in Requests, PolicyRequest(r) \/ Abort(r)
      PROVE  WarningInv'
  BY <1>1, <1>2 DEF PolicyRequest, CreatePolicy, InsertPolicy, UpdatePolicy, SavePolicy,
     DeletePolicy, RemovePolicy, Abort, Fail
<1>3. ASSUME NEW r \in Requests, AlertRequest(r)
      PROVE  WarningInv'
  <2>1. CASE CommitIncident(r)
    <3>1. r \notin Incidents
      BY <2>1, IdleOver DEF CommitIncident, IInv, RowsOK
    <3>2. \A i \in Incidents : incident'[i] = incident[i]
      BY <2>1, <3>1 DEF CommitIncident, TypeOK, Incidents
    <3> QED
      BY <2>1, <3>2, AsideStep DEF CommitIncident, Incidents
  <2>2. CASE UNCHANGED incident
    BY <1>1, <1>3, <2>2 DEF AlertRequest, LookUpPolicy, FlushIncident, CommitIncident
  <2> QED
    BY <1>3, <2>1, <2>2 DEF AlertRequest, LookUpPolicy, FlushIncident, Fail
<1>4. ASSUME NEW k \in Requests, Resolve(k)
      PROVE  WarningInv'
  <2> SUFFICES ASSUME NEW i \in warner.todo
               PROVE  \/ Watched(i)' /\ incident'[i].deadline > clock
                      \/ i \in touched'
                      \/ clock > warner.now
    BY <1>4 DEF Resolve, WarningInv, Watched, Incidents
  <2>1. touched' = touched \cup {k} /\ i \in Requests
    BY <1>4 DEF Resolve, WarningInv, TypeOK, Incidents
  <2>2. i # k => incident'[i] = incident[i]
    BY <1>4, <2>1 DEF Resolve, TypeOK
  <2> QED
    BY <2>1, <2>2 DEF WarningInv, Watched, Incidents
<1>5. ASSUME CheckSlaBreaches
      PROVE  WarningInv'
  <2> SUFFICES ASSUME NEW i \in warner.todo, Watched(i), incident[i].deadline > clock
               PROVE  incident'[i] = incident[i]
    BY <1>5 DEF CheckSlaBreaches, WarningInv, Watched, Incidents
  <2>1. incident[i].deadline \in Int /\ clock \in Int /\ i \in Requests
    BY DEF Watched, Incidents, TypeOK, Incident
  <2>2. ~(incident[i].deadline < clock)
    BY <2>1
  <2> QED
    BY <1>5, <2>1, <2>2 DEF CheckSlaBreaches
<1>6. ASSUME CheckSlaWarnings
      PROVE  WarningInv'
  <2>1. clock \in Nat
    BY DEF TypeOK
  <2> QED
    BY <1>6, <2>1 DEF CheckSlaWarnings, WarningInv, Due, Watched, Incidents
<1>7. ASSUME NEW i \in Requests, NotifySlaWarning(i)
      PROVE  WarningInv'
  BY <1>7 DEF NotifySlaWarning, WarningInv, Watched, Incidents, TypeOK
<1>8. ASSUME EndWarnings
      PROVE  WarningInv'
  BY <1>8 DEF EndWarnings, NoWarnings, WarningInv, TypeOK
<1>9. ASSUME Tick
      PROVE  WarningInv'
  BY <1>9 DEF Tick, WarningInv, TypeOK
<1>10. CASE UNCHANGED vars
  BY <1>1, <1>10 DEF vars
<1> QED
  BY <1>2, <1>3, <1>4, <1>5, <1>6, <1>7, <1>8, <1>9, <1>10 DEF Next

\* The warning job's messages are stale only by what happened since its
\* SELECT (check_sla_warnings).
THEOREM StaleWarningNeedsChangeAlways == Spec => StaleWarningNeedsChange
<1>1. WarningInv => \A i \in Requests :
        Warns(i) => \/ Watched(i) /\ incident[i].deadline > clock
                    \/ i \in touched
                    \/ clock > warner.now
  BY DEF WarningInv, Warns
<1>2. Spec => []WarningInv
  BY Invariance, InitTypeOK, InitInv, InitWarningInv, StepTypeOK, StepInv, StepWarningInv, PTL DEF Spec
<1> QED
  BY <1>1, <1>2, PTL DEF StaleWarningNeedsChange
=========================================================================
