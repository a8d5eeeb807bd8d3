------------------------- MODULE MCSlaPolicies -------------------------
(***************************************************************************)
(* An instance of SlaPolicies: a few requests about two priorities, one of *)
(* them written in two ways.                                               *)
(***************************************************************************)
EXTENDS SlaPolicies, TLC

MCUpper == [v \in Spellings |-> IF v = "p1" THEN "P1" ELSE v]
Symmetry == Permutations(Requests)
=========================================================================
