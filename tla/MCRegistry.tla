----------------------------- MODULE MCRegistry -----------------------------
(* Constants of the model-checked instances of Registry.                   *)
EXTENDS Registry

Small == [model |-> "t4", healthy |-> TRUE]
Large == [model |-> "h100", healthy |-> FALSE]

MCLists == {<<Small>>, <<Large, Small>>}

MCMetrics == {<<FALSE>>, <<TRUE, FALSE>>}
=============================================================================
