---------------------------- MODULE MCSettlement ----------------------------
(* Model-checked instances of Settlement.                                  *)
EXTENDS Settlement
=============================================================================
