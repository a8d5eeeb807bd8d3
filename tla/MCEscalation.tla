-------------------------- MODULE MCEscalation --------------------------
(* Small instances of Escalation. *)
EXTENDS Escalation, TLC

CONSTANTS i1, i2, p1, p2, s1, s2, t1, u1

TwoIncidents == {i1, i2}
OneIncident == {i1}
TwoPolicies == {p1, p2}
OnePolicy == {p1}

\* p1 is created with s1; s2 may be added behind it, and u1, whose
\* step_order ties with that of s1.  p2 is created with t1.
AllSteps == {s1, s2, t1, u1}
MCPolicyOf == [s \in Steps |-> IF s = t1 THEN p2 ELSE p1]
MCOrder == [s \in Steps |-> IF s = s2 THEN 2 ELSE 1]
MCDelay == [s \in Steps |-> IF s = s2 THEN 1 ELSE 0]
MCInitialSteps == [p \in Policies |-> IF p = p1 THEN <<s1>> ELSE <<t1>>]

\* p1 is created with s2, and s1 may be added, which sorts before it: before
\* an escalation or after s2 was taken, which is then taken again.
StepsBackwards == {s1, s2}
BackwardsInitialSteps == [p \in Policies |-> <<s2>>]

=========================================================================
