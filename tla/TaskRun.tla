------------------------------ MODULE TaskRun ------------------------------
(* What the scheduler and billing may rely on of a provider daemon that    *)
(* was handed a task: the life of each delivery, the list of active jobs   *)
(* and the end of the session.  Dispatch models the daemon at this level;  *)
(* Executor is shown to implement it.                                      *)
CONSTANTS Runs, Jobs, JobOf

VARIABLES run,       \* phase of a delivery
          active,    \* Handler.activeJobs
          session    \* the job's rental session in billing

vars == <<run, active, session>>

Init ==
  /\ run = [r \in Runs |-> "none"]
  /\ active = {}
  /\ session = [j \in Jobs |-> "open"]

Move(r, from, to) == run[r] = from /\ run' = [run EXCEPT ![r] = to]

HandleTask(r) ==
  /\ Move(r, "none", "prepare")
  /\ active' = active \cup {JobOf[r]}
  /\ UNCHANGED session

PrepareWorkspace(r) ==
  \/ Move(r, "prepare", "execute") /\ UNCHANGED <<active, session>>
  \/ /\ Move(r, "prepare", "done")
     /\ active' = active \ {JobOf[r]}
     /\ UNCHANGED session

(* The executor has returned and the final status is reported.             *)
Execute(r) ==
  /\ Move(r, "execute", "stop")
  /\ active' = active \ {JobOf[r]}
  /\ UNCHANGED session

(* One attempt to end the session.                                         *)
EndBillingSession(r) ==
  /\ Move(r, "stop", "done")
  /\ session' = session \/ session' = [session EXCEPT ![JobOf[r]] = "ended"]
  /\ UNCHANGED active

(* The process dies and takes every delivery under way with it.            *)
Crash ==
  /\ run' = [r \in Runs |-> IF run[r] \in {"none", "done"} THEN run[r] ELSE "dead"]
  /\ active' = {}
  /\ UNCHANGED session

Next ==
  \/ \E r \in Runs : \/ HandleTask(r) \/ PrepareWorkspace(r) \/ Execute(r)
                     \/ EndBillingSession(r)
  \/ Crash

Spec == Init /\ [][Next]_vars
=============================================================================
