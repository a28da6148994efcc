------------------------------ MODULE MCAgent ------------------------------
(***************************************************************************)
(* The agent with one worker per pool, which is two workers in all, and    *)
(* two tasks of the same job, one for each executor.                       *)
(***************************************************************************)
EXTENDS Agent

MCTasks == {"t1", "t2"}
MCExecutionType == [t \in MCTasks |-> IF t = "t1" THEN "docker" ELSE "script"]
MCJobID == [t \in MCTasks |-> "j1"]
=============================================================================
