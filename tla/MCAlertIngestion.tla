------------------------ MODULE MCAlertIngestion ------------------------
(* Small instances of AlertIngestion. *)
EXTENDS AlertIngestion, TLC

CONSTANTS r1, r2, w1, w2, c1, svc, other

OneRequest == {r1}
TwoRequests == {r1, r2}
TwoWindows == {w1, w2}

\* Two alerts of svc, and one of other with the identity of the first: the
\* same source, name and labels reported for another service.
a1 == [identity |-> "cpu", service_name |-> svc]
a2 == [identity |-> "errors", service_name |-> svc]
b1 == [identity |-> "cpu", service_name |-> other]

MCPayloads == {a1, a2, b1}
SingleAlerts == {<<a1>>, <<a2>>}
MixedBatches == {<<a1>>, <<a2, b1>>}

\* The name of svc is a LIKE pattern that matches the titles of other too.
WildcardLike == [s \in Services |-> IF s = svc THEN {svc, other} ELSE {s}]
ExactLike == [s \in Services |-> {s}]

\* Both windows cover svc.
MCWindowService == [w \in Windows |-> svc]

RequestSymmetry == Permutations(Requests)
WindowSymmetry == Permutations(Windows)
MCSymmetry == RequestSymmetry \cup WindowSymmetry
=========================================================================
