---------------------- MODULE IncidentStateMachine ----------------------
(***************************************************************************)
(* What the incident API promises its users: every incident starts         *)
(* triggered, and its status, as the database shows it, only ever moves    *)
(* along the transitions of VALID_TRANSITIONS.                             *)
(***************************************************************************)
CONSTANT Incidents

VARIABLE status

Statuses == {"triggered", "acknowledged", "resolved"}

Moves == { <<"triggered", "acknowledged">>, <<"triggered", "resolved">>,
           <<"acknowledged", "resolved">>, <<"resolved", "triggered">> }

Init == status = [i \in Incidents |-> "triggered"]

Transition(i, t) ==
  /\ <<status[i], t>> \in Moves
  /\ status' = [status EXCEPT ![i] = t]

Next == \E i \in Incidents, t \in Statuses : Transition(i, t)

Spec == Init /\ [][Next]_status
=========================================================================
