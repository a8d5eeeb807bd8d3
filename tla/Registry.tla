---------------------------- MODULE Registry ----------------------------
(***************************************************************************)
(* What registration promises, as if the SELECTs and the INSERTs of a      *)
(* request were one step and its commit another: a team and its user       *)
(* appear together; nobody is told 201 while a rival, a request for the    *)
(* same address or the same slug, has been told so or is registered; a     *)
(* refusal means a rival that is registered, and a conflict a rival that   *)
(* was registered while the request was being served.                      *)
(***************************************************************************)
CONSTANTS
  Requests,
  Clashes  \* pairs of forms with the same address or the same slug

VARIABLES
  form,    \* what the sender of each request filled in
  status,  \* idle, open, answered, done, refused, conflict, failed, lost
  teams,
  users,
  known    \* known[r]: the users when r began

vars == <<form, status, teams, users, known>>

\* Another request of S asks for something that r asks for.
Taken(r, S) == \E q \in S \ {r} : <<form[r], form[q]>> \in Clashes

Goto(r, s) == status' = [status EXCEPT ![r] = s]

-------------------------------------------------------------------------
Init ==
  /\ status = [r \in Requests |-> "idle"]
  /\ teams = {} /\ users = {}
  /\ known = [r \in Requests |-> {}]

Begin(r) ==
  /\ status[r] = "idle"
  /\ \/ Goto(r, "open")
     \/ Taken(r, users) /\ Goto(r, "refused")
  /\ known' = [known EXCEPT ![r] = users]
  /\ UNCHANGED <<form, teams, users>>

Refuse(r) ==
  /\ status[r] = "open"
  /\ Taken(r, users)
  /\ Goto(r, "refused")
  /\ UNCHANGED <<form, teams, users, known>>

Accept(r) ==
  /\ status[r] = "open"
  /\ ~ Taken(r, {q \in Requests : status[q] \in {"answered", "done"}})
  /\ Goto(r, "answered")
  /\ UNCHANGED <<form, teams, users, known>>

Register(r) ==
  /\ status[r] = "answered"
  /\ Goto(r, "done")
  /\ teams' = teams \cup {r}
  /\ users' = users \cup {r}
  /\ UNCHANGED <<form, known>>

Conflict(r) ==
  /\ status[r] = "open"
  /\ Taken(r, users \ known[r])
  /\ Goto(r, "conflict")
  /\ UNCHANGED <<form, teams, users, known>>

Fail(r) ==
  /\ \/ status[r] = "open" /\ Goto(r, "failed")
     \/ status[r] = "answered" /\ Goto(r, "lost")
  /\ UNCHANGED <<form, teams, users, known>>

Next ==
  \E r \in Requests :
    Begin(r) \/ Refuse(r) \/ Accept(r) \/ Register(r) \/ Conflict(r) \/ Fail(r)

Spec == Init /\ [][Next]_vars
=========================================================================
