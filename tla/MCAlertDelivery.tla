------------------------- MODULE MCAlertDelivery -------------------------
(* Small instance of AlertDelivery: the two alerts are in one group. *)
EXTENDS AlertDelivery, TLC

CONSTANTS a1, a2, g1

MCGroup == [a \in Alerts |-> g1]
=========================================================================
