-------------------------- MODULE IncidentPage --------------------------
(***************************************************************************)
(* The incident page of the web front end, as the sender of the status     *)
(* requests of IncidentLifecycle.  A page shows what its last GET brought, *)
(* offers buttons for that status, sends one PATCH at a time, and fetches  *)
(* the incident again after the answer 200.  The answer leaves before the  *)
(* request's session commits, so the GET may read the row of before.       *)
(***************************************************************************)
EXTENDS IncidentLifecycle

CONSTANTS
  Pages,
  Shows     \* Shows[p]: the incident of page p

ASSUME PageAssumption == Shows \in [Pages -> Incidents]

VARIABLES
  phase,   \* fetching, ready, sent, refused (ready, with an error shown)
  view,    \* status of the incident as the page shows it
  choice,  \* the status the page has asked for
  fresh    \* history: no status of the incident was committed since the GET

pageVars == <<phase, view, choice, fresh>>

allVars == <<vars, pageVars>>

-------------------------------------------------------------------------
\* The page before its first GET, and after one that failed.
NoIncident == "none"

\* Mutant: "Acknowledge" is offered for whatever is not acknowledged.
EagerButtons(status) ==
  CASE status = "resolved" -> {"triggered", "acknowledged"}
    [] status \in {"triggered", "acknowledged"} -> {"acknowledged", "resolved"} \ {status}
    [] OTHER -> {}

\* The buttons below the title.
Buttons(status) ==
  CASE status = "resolved" -> {"triggered"}
    [] status \in {"triggered", "acknowledged"} -> {"acknowledged", "resolved"} \ {status}
    [] OTHER -> {}

Turn(p, ph) == phase' = [phase EXCEPT ![p] = ph]

-------------------------------------------------------------------------
PageInit ==
  /\ Init
  /\ phase = [p \in Pages |-> "fetching"]
  /\ view = [p \in Pages |-> NoIncident]
  /\ choice = [p \in Pages |-> NoIncident]
  /\ fresh = [p \in Pages |-> FALSE]

\* The page is opened anew, or reloaded.
Open(p) ==
  /\ phase[p] \in {"ready", "refused"}
  /\ Turn(p, "fetching")
  /\ view' = [view EXCEPT ![p] = NoIncident]
  /\ fresh' = [fresh EXCEPT ![p] = FALSE]
  /\ UNCHANGED <<vars, choice>>

\* getIncident: what is committed.  An error leaves what the page showed.
FetchIncident(p) ==
  /\ phase[p] = "fetching"
  /\ Turn(p, "ready")
  /\ \/ /\ view' = [view EXCEPT ![p] = row[Shows[p]].status]
        /\ fresh' = [fresh EXCEPT ![p] = TRUE]
     \/ UNCHANGED <<view, fresh>>
  /\ UNCHANGED <<vars, choice>>

\* handleTransition: the buttons are disabled until it is over.
Click(p, t) ==
  /\ phase[p] \in {"ready", "refused"}
  /\ t \in Buttons(view[p])
  /\ Turn(p, "sent")
  /\ choice' = [choice EXCEPT ![p] = t]
  /\ UNCHANGED <<vars, view, fresh>>

\* transition_status lets the request through: 200.
Accept(p, s) ==
  /\ phase[p] = "sent"
  /\ TransitionStatus(s, Shows[p], choice[p])
  /\ Turn(p, "fetching")
  /\ UNCHANGED <<view, choice, fresh>>

\* 422: the page shows the error, and does not fetch.
Refuse(p) ==
  /\ phase[p] = "sent"
  /\ choice[p] \notin VALID_TRANSITIONS[row[Shows[p]].status]
  /\ Turn(p, "refused")
  /\ UNCHANGED <<vars, view, choice, fresh>>

\* No answer, or another error.
Lose(p) ==
  /\ phase[p] = "sent"
  /\ Turn(p, "ready")
  /\ UNCHANGED <<vars, view, choice, fresh>>

\* The other clients of the API, both jobs, and the end of every session.
Elsewhere ==
  /\ \/ \E s \in Requests, i \in Incidents, t \in Statuses : TransitionStatus(s, i, t)
     \/ \E s \in Requests, i \in Incidents, p \in Policies : AssignEscalationPolicy(s, i, p)
     \/ CheckSlaBreaches
     \/ \E S \in SUBSET Escalatable : RunEscalations(S)
     \/ \E s \in Sessions : Commit(s)
     \/ \E s \in Sessions : Rollback(s)
     \/ Tick
  /\ fresh' = [p \in Pages |->
                 fresh[p] /\ row'[Shows[p]].status = row[Shows[p]].status]
  /\ UNCHANGED <<phase, view, choice>>

PageNext ==
  \/ \E p \in Pages : Open(p) \/ FetchIncident(p) \/ Refuse(p) \/ Lose(p)
  \/ \E p \in Pages, t \in Statuses : Click(p, t)
  \/ \E p \in Pages, s \in Requests : Accept(p, s)
  \/ Elsewhere

PageSpec == PageInit /\ [][PageNext]_allVars

\* The jobs are as fair as in IncidentLifecycle; users need do nothing.
FairPageSpec == PageSpec /\ Fairness

-------------------------------------------------------------------------
\* A page that is refused shows a status that has been changed since it was
\* fetched, by somebody else or by a late commit of its own: the buttons
\* offer nothing that VALID_TRANSITIONS does not allow (IncidentDetail.jsx,
\* incident_service.py).
RefusalNeedsChange == \A p \in Pages : phase[p] = "refused" => ~fresh[p]
=========================================================================
