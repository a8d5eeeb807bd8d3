----------------------- MODULE EscalationContract -----------------------
(***************************************************************************)
(* What the escalation engine promises, while steps are added to policies: *)
(*   - the n-th escalation of an incident goes to a step that stood n-th   *)
(*     in its policy, by step_order, at some time;                         *)
(*   - it is announced before it is recorded, and once it is recorded only *)
(*     the next one is announced.  Until then it may be announced again,   *)
(*     and to another step, when a run failed and the policy has grown.    *)
(*                                                                         *)
(* No place is passed over, but a step may be: one that is added before    *)
(* those already taken pushes them back, so that the last of them is taken *)
(* a second time and the new one never.  The contract allows that.         *)
(***************************************************************************)
EXTENDS Naturals, Sequences, FiniteSets

CONSTANTS Incidents, Policies, Steps, PolicyOf, Order, InitialSteps

VARIABLES
  steps,      \* steps[p]: the steps of policy p, in the order of their creation
  announced,  \* announced[i]: <<n, s>>, the n-th escalation of i announced to s
  recorded    \* recorded[i]: the steps i was escalated to, in order

vars == <<steps, announced, recorded>>

Init ==
  /\ steps = InitialSteps
  /\ announced = [i \in Incidents |-> {}]
  /\ recorded = [i \in Incidents |-> <<>>]

AddStep(s) ==
  /\ steps' = [steps EXCEPT ![PolicyOf[s]] = Append(@, s)]
  /\ UNCHANGED <<announced, recorded>>

\* s is the n-th of S by step_order, some way of breaking ties.
IsNth(s, S, n) ==
  /\ s \in S
  /\ Cardinality({t \in S : Order[t] < Order[s]}) < n
  /\ n <= Cardinality({t \in S : Order[t] <= Order[s]})

\* s was the n-th step of its policy when that had its first m steps.
WasNth(s, n) ==
  \E m \in 0..Len(steps[PolicyOf[s]]) :
    IsNth(s, {steps[PolicyOf[s]][k] : k \in 1..m}, n)

Coming(i) == Len(recorded[i]) + 1

Announce(i, s) ==
  /\ WasNth(s, Coming(i))
  /\ announced' = [announced EXCEPT ![i] = @ \cup {<<Coming(i), s>>}]
  /\ UNCHANGED <<steps, recorded>>

\* One commit records a step of each incident that to is defined for.
Record(to) ==
  /\ \A i \in DOMAIN to : <<Coming(i), to[i]>> \in announced[i]
  /\ recorded' = [i \in Incidents |->
                    IF i \in DOMAIN to THEN Append(recorded[i], to[i]) ELSE recorded[i]]
  /\ UNCHANGED <<steps, announced>>

Next ==
  \/ \E s \in Steps : AddStep(s)
  \/ \E i \in Incidents, s \in Steps : Announce(i, s)
  \/ \E S \in SUBSET Incidents : \E to \in [S -> Steps] : Record(to)

Spec == Init /\ [][Next]_vars
=========================================================================
