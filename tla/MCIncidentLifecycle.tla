---------------------- MODULE MCIncidentLifecycle -----------------------
(* Small instances of IncidentLifecycle. *)
EXTENDS IncidentLifecycle, TLC

CONSTANTS i1, r1, r2, p1

MCSteps == [p \in Policies |-> 2]

MCDeadline == [i \in Incidents |-> 2]

RequestSymmetry == Permutations(Requests)
=========================================================================
