----------------------------- MODULE MCJobWire ------------------------------
(* Model-checked instances of JobWire.                                     *)
EXTENDS JobWire
=============================================================================
