----------------------------- MODULE MCExecutor -----------------------------
(* Constants of the model-checked instances of Executor.                   *)
EXTENDS Executor

OneJob == [r \in Runs |-> "j"]

MCTasks ==
  {[kind |-> "script", image |-> FALSE, script |-> TRUE, limit |-> TRUE],
   [kind |-> "docker", image |-> TRUE, script |-> TRUE, limit |-> TRUE],
   [kind |-> "other", image |-> FALSE, script |-> FALSE, limit |-> FALSE]}
=============================================================================
