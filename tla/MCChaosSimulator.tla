------------------------ MODULE MCChaosSimulator ------------------------
(***************************************************************************)
(* An instance of ChaosSimulator: two services, two threads of the pool,   *)
(* and the error rate as the gauge that scenarios disturb.                 *)
(***************************************************************************)
EXTENDS ChaosSimulator

CONSTANTS payment, auth

TwoServices == <<payment, auth>>
=========================================================================
