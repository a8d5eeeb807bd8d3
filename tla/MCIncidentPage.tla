------------------------- MODULE MCIncidentPage -------------------------
(* Small instance of IncidentPage. *)
EXTENDS IncidentPage, TLC

CONSTANTS i1, r1, p1, w1

MCDeadline == [i \in Incidents |-> 2]

MCSteps == [p \in Policies |-> 2]

MCShows == [p \in Pages |-> i1]
=========================================================================
