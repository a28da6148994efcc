------------------------------ MODULE Executor ------------------------------
(***************************************************************************)
(* The provider daemon from the acceptance of a task to its last clean-up: *)
(* runTask of tasks/handler.go, the script and the Docker executor, and    *)
(* the monitor that meters a container.  A run is one delivery of a task,  *)
(* that is, one goroutine of runTask; two runs of one job are a task that  *)
(* was delivered twice.  Every call of the file system, of Docker and of   *)
(* billing is a step of its own.                                           *)
(*                                                                         *)
(* Three clocks end a run: RequestTimeout (ctx), the task's own            *)
(* timeout_seconds (overdue), and the process itself.                      *)
(***************************************************************************)
EXTENDS Integers, FiniteSets

CONSTANTS Runs,          \* deliveries
          Jobs,
          JobOf,         \* the job of a delivery
          Tasks,         \* tasks jobs may carry
          DockerStates,  \* whether NewDockerExecutor succeeded
          ConfigTypes,   \* ExecutorConfig.Type
          Faults         \* kinds of fault that happen

(* workspace: a file operation fails; docker: a call of Docker fails;      *)
(* lost: it takes effect and fails all the same; start: the interpreter    *)
(* cannot be started; billing: the session is not ended; crash: the daemon *)
(* dies.                                                                   *)
AllFaults == {"workspace", "docker", "lost", "start", "billing", "crash"}

Kinds == {"script", "docker", "other"}

(* A task's execution type, and which of its parameters are there.         *)
Task == [kind : Kinds, image : BOOLEAN, script : BOOLEAN, limit : BOOLEAN]

ASSUME ExecutorAssumption ==
  /\ JobOf \in [Runs -> Jobs]
  /\ Tasks \subseteq Task /\ Tasks # {}
  /\ DockerStates \subseteq BOOLEAN /\ ConfigTypes \subseteq {"docker", "script"}
  /\ Faults \subseteq AllFaults

VARIABLES
  task,       \* the task of a job
  docker,     \* the Docker client was made
  type,       \* ExecutorConfig.Type
  alive,      \* the daemon runs
  active,     \* Handler.activeJobs
  ws,         \* the job's workspace directory: none, empty or with the script
  session,    \* the job's rental session in billing
  pc,         \* what a run does next
  ctx,        \* the context of runTask
  overdue,    \* timeout_seconds has passed
  proc,       \* the container, or the process of a script
  exit,       \* its own exit code, up to the report; -1 when it was killed
  monitor,    \* the metering goroutine: off, on, or with a request under way
  result,     \* ExecutionResult
  kept,       \* runs whose ContainerRemove failed (history)
  straggler   \* usage updates of the monitor that arrived after ctx (history)

config == <<task, docker, type>>
job    == <<active, ws, session>>
meter  == <<monitor, straggler>>
vars   == <<config, alive, job, pc, ctx, overdue, proc, exit, meter, result, kept>>

Codes  == {-2, -1, 0, 1, 137}
Result == [err : BOOLEAN, code : Codes]

Ok     == [err |-> FALSE, code |-> 0]
Error  == [err |-> TRUE, code |-> -1]

Calls == {"prepare", "write", "launch", "pull", "create", "start",
          "wait", "remove", "report", "end", "cleanup"}

(* Steps, files, processes and reports are the ones the code knows.        *)
TypeOK ==
  /\ task \in [Jobs -> Tasks] /\ docker \in BOOLEAN /\ type \in {"docker", "script"}
  /\ alive \in BOOLEAN /\ active \subseteq Jobs
  /\ ws \in [Jobs -> {"none", "empty", "script"}]
  /\ session \in [Jobs -> {"open", "ended"}]
  /\ pc \in [Runs -> Calls \cup {"idle", "done", "dead"}]
  /\ ctx \in [Runs -> {"none", "live", "expired", "cancelled"}]
  /\ overdue \in [Runs -> BOOLEAN]
  /\ proc \in [Runs -> {"none", "created", "running", "exited", "removed"}]
  /\ exit \in [Runs -> {-1, 0, 1}]
  /\ monitor \in [Runs -> {"off", "on", "send"}]
  /\ result \in [Runs -> Result]
  /\ kept \subseteq Runs /\ straggler \in [Runs -> 0 .. 2]

Init ==
  /\ task \in [Jobs -> Tasks] /\ docker \in DockerStates /\ type \in ConfigTypes
  /\ alive = TRUE /\ active = {}
  /\ ws = [j \in Jobs |-> "none"] /\ session = [j \in Jobs |-> "open"]
  /\ pc = [r \in Runs |-> "idle"] /\ ctx = [r \in Runs |-> "none"]
  /\ overdue = [r \in Runs |-> FALSE]
  /\ proc = [r \in Runs |-> "none"] /\ exit = [r \in Runs |-> -1]
  /\ monitor = [r \in Runs |-> "off"] /\ result = [r \in Runs |-> Ok]
  /\ kept = {} /\ straggler = [r \in Runs |-> 0]
-----------------------------------------------------------------------------
TaskOf(r) == task[JobOf[r]]

At(r, call) == alive /\ pc[r] = call

Goto(r, call) == pc' = [pc EXCEPT ![r] = call]

(* An executor returns, or goes on to what it has deferred.                *)
Return(r, res, call) == result' = [result EXCEPT ![r] = res] /\ Goto(r, call)

Proc(r, state) == proc' = [proc EXCEPT ![r] = state]

Inactive(r) == active' = active \ {JobOf[r]}

Live(r) == ctx[r] = "live"

(* The context of cmd.Run or ContainerWait is over.                        *)
TimedOut(r) == ~Live(r) \/ overdue[r]

(* HandleTask while the GPUs are healthy.  Nothing asks whether the job    *)
(* runs already.                                                           *)
HandleTask(r) ==
  /\ At(r, "idle")
  /\ Goto(r, "prepare")
  /\ active' = active \cup {JobOf[r]}
  /\ UNCHANGED <<config, alive, ws, session, ctx, overdue, proc, exit, meter,
                 result, kept>>

(* Mutant of Abandon: the job stays in activeJobs.                         *)
AbandonSilently(r) ==
  /\ Goto(r, "done")
  /\ UNCHANGED <<active, ws, ctx, result>>

(* Without a workspace runTask reports the failure and returns.            *)
Abandon(r) ==
  /\ Goto(r, "done")
  /\ Inactive(r)
  /\ UNCHANGED <<ws, ctx, result>>

(* The switch of runTask, and the parameters an executor insists on.       *)
Entry(t) ==
  CASE t.kind = "script" /\ t.script              -> "write"
    [] t.kind = "docker" /\ t.image /\ t.script   -> "write"
    [] t.kind = "docker" /\ t.image /\ ~t.script  -> "pull"
    [] OTHER                                      -> "report"

(* prepareWorkspace is MkdirAll: a directory that is there is kept.  Then  *)
(* the context starts and the executor is chosen.                          *)
PrepareWorkspace(r) ==
  LET call == Entry(TaskOf(r))
  IN /\ At(r, "prepare")
     /\ \/ /\ ws' = [ws EXCEPT ![JobOf[r]] = IF @ = "none" THEN "empty" ELSE @]
           /\ ctx' = [ctx EXCEPT ![r] = "live"]
           /\ Return(r, IF call = "report" THEN Error ELSE Ok, call)
           /\ UNCHANGED active
        \/ "workspace" \in Faults /\ Abandon(r)
     /\ UNCHANGED <<config, alive, session, overdue, proc, exit, meter, kept>>

(* The script is written into the workspace, if that is still there.       *)
WriteScript(r) ==
  /\ At(r, "write")
  /\ \/ /\ ws[JobOf[r]] # "none"
        /\ ws' = [ws EXCEPT ![JobOf[r]] = "script"]
        /\ Goto(r, IF TaskOf(r).kind = "script" THEN "launch" ELSE "pull")
        /\ UNCHANGED result
     \/ /\ ws[JobOf[r]] = "none" \/ "workspace" \in Faults
        /\ Return(r, Error, "report")
        /\ UNCHANGED ws
  /\ UNCHANGED <<config, alive, active, session, ctx, overdue, proc, exit, meter,
                 kept>>

(* cmd.Run of the script executor, up to the start of the process.         *)
Launch(r) ==
  /\ At(r, "launch")
  /\ \/ /\ Live(r) /\ ws[JobOf[r]] # "none"
        /\ Proc(r, "running") /\ Goto(r, "wait")
        /\ UNCHANGED result
     \/ /\ Live(r) /\ (ws[JobOf[r]] = "none" \/ "start" \in Faults)
        /\ Return(r, Error, "report")
        /\ UNCHANGED proc
     \/ /\ ~Live(r)
        /\ Return(r, [err |-> TRUE, code |-> -2], "report")
        /\ UNCHANGED proc
  /\ UNCHANGED <<config, alive, job, ctx, overdue, exit, meter, kept>>

-----------------------------------------------------------------------------
(* DockerExecutor.Execute.                                                 *)

(* The process dies, and with it every goroutine.  A container is Docker's *)
(* and goes on.  Runs that have ended their session have only clean-up     *)
(* left, which nobody does for them.                                       *)
Die ==
  /\ alive' = FALSE
  /\ active' = {}
  /\ pc' = [r \in Runs |-> CASE pc[r] \in {"idle", "done"}        -> pc[r]
                             [] pc[r] = "cleanup"                  -> "done"
                             [] OTHER                             -> "dead"]
  /\ monitor' = [r \in Runs |-> "off"]
  /\ ctx' = [r \in Runs |-> IF pc[r] = "idle" THEN "none" ELSE "cancelled"]
  /\ overdue' = [r \in Runs |-> FALSE]
  /\ result' = [r \in Runs |-> Ok]
  /\ exit' = [r \in Runs |-> -1]
  /\ straggler' = [r \in Runs |-> 0]
  /\ UNCHANGED <<config, ws, session, proc, kept>>

(* main passes a nil *DockerExecutor as an Executor when Docker could not  *)
(* be reached.  That interface value is not nil, so runTask calls Execute, *)
(* which dereferences the client and panics.                               *)
NilExecutor(r) ==
  /\ At(r, "pull")
  /\ ~docker
  /\ Die

(* ImagePull, with a deadline of its own that derives from ctx.            *)
PullImage(r) ==
  /\ At(r, "pull")
  /\ docker
  /\ \/ Live(r) /\ Goto(r, "create") /\ UNCHANGED result
     \/ (~Live(r) \/ "docker" \in Faults) /\ Return(r, Error, "report")
  /\ UNCHANGED <<config, alive, job, ctx, overdue, proc, exit, meter, kept>>

(* ContainerCreate.  From here on the removal of the container is          *)
(* deferred, but not for a container whose creation was not answered.      *)
CreateContainer(r) ==
  /\ At(r, "create")
  /\ \/ Live(r) /\ Proc(r, "created") /\ Goto(r, "start") /\ UNCHANGED result
     \/ /\ ~Live(r) \/ "docker" \in Faults
        /\ Return(r, Error, "report")
        /\ UNCHANGED proc
     \/ "lost" \in Faults /\ Proc(r, "created") /\ Return(r, Error, "report")
  /\ UNCHANGED <<config, alive, job, ctx, overdue, exit, meter, kept>>

(* Mutant of StartFailed: the removal is not deferred.                     *)
StartFailedLeaks(r) == Return(r, Error, "report")

StartFailed(r) == Return(r, Error, "remove")

(* ContainerStart, and the monitor of a container that was started.        *)
StartContainer(r) ==
  /\ At(r, "start")
  /\ \/ /\ Live(r)
        /\ Proc(r, "running") /\ Goto(r, "wait")
        /\ monitor' = [monitor EXCEPT ![r] = "on"]
        /\ UNCHANGED result
     \/ /\ StartFailed(r)
        /\ \/ (~Live(r) \/ "docker" \in Faults) /\ UNCHANGED proc
           \/ "lost" \in Faults /\ Proc(r, "running")
        /\ UNCHANGED monitor
  /\ UNCHANGED <<config, alive, job, ctx, overdue, exit, straggler, kept>>

(* The container or the script ends by itself.                             *)
Exit(r) ==
  /\ proc[r] = "running"
  /\ Proc(r, "exited")
  /\ IF pc[r] \in {"wait", "remove", "report"}
     THEN \E code \in {0, 1} : exit' = [exit EXCEPT ![r] = code]
     ELSE UNCHANGED exit
  /\ UNCHANGED <<config, alive, job, pc, ctx, overdue, meter, result, kept>>

(* Mutant of Kill: exec.Command, which no context ends.                    *)
KillNever(r) == FALSE /\ UNCHANGED vars

(* CommandContext kills the process of a script.                           *)
Kill(r) ==
  /\ At(r, "wait") /\ TaskOf(r).kind = "script"
  /\ TimedOut(r) /\ proc[r] = "running"
  /\ Proc(r, "exited")
  /\ UNCHANGED <<config, alive, job, pc, ctx, overdue, exit, meter, result, kept>>

(* The end of cmd.Run: the exit code of a process that failed comes before *)
(* the timeout; one that succeeded may be overtaken by it.                 *)
WaitScript(r) ==
  /\ At(r, "wait") /\ TaskOf(r).kind = "script"
  /\ proc[r] = "exited"
  /\ \/ Return(r, [err |-> exit[r] # 0, code |-> exit[r]], "report")
     \/ /\ TimedOut(r) /\ exit[r] = 0
        /\ Return(r, [err |-> TRUE, code |-> -2], "report")
  /\ overdue' = [overdue EXCEPT ![r] = FALSE]
  /\ UNCHANGED <<config, alive, job, ctx, proc, exit, meter, kept>>

(* Mutant of WaitContainer: after a timeout the status stays zero and no   *)
(* error is set.                                                           *)
WaitContainerTimeoutOk(r) ==
  /\ At(r, "wait") /\ TaskOf(r).kind = "docker"
  /\ TimedOut(r)
  /\ Return(r, Ok, "remove")
  /\ UNCHANGED <<config, alive, job, ctx, overdue, proc, exit, meter, kept>>

(* The select over the channels of ContainerWait: the exit status, a       *)
(* timeout, after which the container is stopped, or another error.  When  *)
(* two are ready, either is taken.                                         *)
WaitContainer(r) ==
  /\ At(r, "wait") /\ TaskOf(r).kind = "docker"
  /\ \/ /\ proc[r] = "exited"
        /\ Return(r, [err |-> exit[r] # 0, code |-> exit[r]], "remove")
        /\ UNCHANGED proc
     \/ /\ TimedOut(r)
        /\ Return(r, [err |-> TRUE, code |-> 137], "remove")
        /\ \/ /\ proc[r] = "running"
              /\ Proc(r, "exited")
           \/ /\ proc[r] # "running" \/ "docker" \in Faults
              /\ UNCHANGED proc
     \/ /\ "docker" \in Faults
        /\ Return(r, Error, "remove")
        /\ UNCHANGED proc
  /\ overdue' = [overdue EXCEPT ![r] = FALSE]
  /\ UNCHANGED <<config, alive, job, ctx, exit, meter, kept>>

(* The deferred ContainerRemove, by force; an error is logged.             *)
RemoveContainer(r) ==
  /\ At(r, "remove")
  /\ Goto(r, "report")
  /\ \/ Proc(r, "removed") /\ UNCHANGED kept
     \/ "docker" \in Faults /\ kept' = kept \cup {r} /\ UNCHANGED proc
  /\ UNCHANGED <<config, alive, job, ctx, overdue, exit, meter, result>>
-----------------------------------------------------------------------------
(* The rest of runTask.                                                    *)

FinalStatus(res) == IF res.err \/ res.code # 0 THEN "failed" ELSE "completed"

(* Mutant of Report: the session is ended together with the report.        *)
ReportAndEnd(r) ==
  /\ At(r, "report")
  /\ Inactive(r)
  /\ session' = [session EXCEPT ![JobOf[r]] = "ended"]
  /\ Return(r, Ok, "end")
  /\ exit' = [exit EXCEPT ![r] = -1]
  /\ UNCHANGED <<config, alive, ws, ctx, overdue, proc, meter, kept>>

(* reportTaskStatus with FinalStatus(result[r]), which is terminal.  After *)
(* that nobody reads the result.                                           *)
Report(r) ==
  /\ At(r, "report")
  /\ Inactive(r)
  /\ Return(r, Ok, "end")
  /\ exit' = [exit EXCEPT ![r] = -1]
  /\ UNCHANGED <<config, alive, ws, session, ctx, overdue, proc, meter, kept>>

(* endBillingSession: one attempt; an error is logged.                     *)
EndBillingSession(r) ==
  /\ At(r, "end")
  /\ \/ session' = [session EXCEPT ![JobOf[r]] = "ended"]
     \/ "billing" \in Faults /\ UNCHANGED session
  /\ Goto(r, "cleanup")
  /\ UNCHANGED <<config, alive, active, ws, ctx, overdue, proc, exit, meter, result,
                 kept>>

Cancel(r) == ctx' = [ctx EXCEPT ![r] = "cancelled"]

(* Mutant of Removes: the directory is removed whatever the configuration. *)
RemovesAlways == TRUE

Removes == type # "docker"

(* The deferred calls: the context is cancelled, and cleanupWorkspace.     *)
CleanupWorkspace(r) ==
  /\ At(r, "cleanup")
  /\ Goto(r, "done")
  /\ Cancel(r)
  /\ \/ Removes /\ ws' = [ws EXCEPT ![JobOf[r]] = "none"]
     \/ (~Removes \/ "workspace" \in Faults) /\ UNCHANGED ws
  /\ UNCHANGED <<config, alive, active, session, overdue, proc, exit, meter,
                 result, kept>>
-----------------------------------------------------------------------------
(* RequestTimeout passes.                                                  *)
Expire(r) ==
  /\ alive /\ Live(r)
  /\ ctx' = [ctx EXCEPT ![r] = "expired"]
  /\ UNCHANGED <<config, alive, job, pc, overdue, proc, exit, meter, result, kept>>

(* timeout_seconds passes.                                                 *)
Overdue(r) ==
  /\ At(r, "wait") /\ TaskOf(r).limit /\ ~overdue[r]
  /\ overdue' = [overdue EXCEPT ![r] = TRUE]
  /\ UNCHANGED <<config, alive, job, pc, ctx, proc, exit, meter, result, kept>>

Monitor(r, from, to) ==
  /\ alive /\ monitor[r] = from
  /\ monitor' = [monitor EXCEPT ![r] = to]
  /\ UNCHANGED <<config, alive, job, pc, ctx, overdue, proc, exit, result, kept>>

(* Mutant of Tick: the update is sent with a context of its own.           *)
TickDetached(r) ==
  /\ Monitor(r, "on", "send")
  /\ UNCHANGED straggler

(* Client.Monitor: a tick, for which a request is made.  With a context    *)
(* that is over the request fails at once.                                 *)
Tick(r) ==
  /\ Live(r)
  /\ Monitor(r, "on", "send")
  /\ UNCHANGED straggler

(* SendUsageUpdate: the request arrives or is lost.                        *)
SendUsageUpdate(r) ==
  /\ Monitor(r, "send", "on")
  /\ \/ /\ straggler[r] < 2
        /\ straggler' = [straggler EXCEPT ![r] = IF Live(r) THEN @ ELSE @ + 1]
     \/ UNCHANGED straggler

StopMonitor(r) ==
  /\ ~Live(r)
  /\ Monitor(r, "on", "off")
  /\ straggler' = [straggler EXCEPT ![r] = 0]

Crash ==
  /\ "crash" \in Faults
  /\ alive
  /\ \E r \in Runs : pc[r] \in Calls
  /\ Die

(* The daemon is started again and resumes nothing.                        *)
Restart ==
  /\ ~alive
  /\ alive' = TRUE
  /\ UNCHANGED <<config, job, pc, ctx, overdue, proc, exit, meter, result, kept>>

RunTask(r) ==
  \/ PrepareWorkspace(r) \/ WriteScript(r) \/ Launch(r)
  \/ NilExecutor(r) \/ PullImage(r) \/ CreateContainer(r) \/ StartContainer(r)
  \/ WaitScript(r) \/ WaitContainer(r) \/ RemoveContainer(r)
  \/ Report(r) \/ EndBillingSession(r) \/ CleanupWorkspace(r)

Meter(r) == SendUsageUpdate(r) \/ StopMonitor(r)

(* All deliveries are over.                                                *)
Quiet ==
  /\ \A r \in Runs : pc[r] \in {"done", "dead"} /\ monitor[r] = "off"
  /\ UNCHANGED vars

Next ==
  \/ \E r \in Runs : \/ HandleTask(r) \/ RunTask(r) \/ Exit(r) \/ Kill(r)
                     \/ Expire(r) \/ Overdue(r) \/ Tick(r) \/ Meter(r)
  \/ Crash \/ Restart
  \/ Quiet

Spec == Init /\ [][Next]_vars

(* The daemon's goroutines run, calls return, and RequestTimeout passes.   *)
(* Nothing makes a container or a script end by itself.                    *)
Fairness ==
  \A r \in Runs : /\ WF_vars(RunTask(r) \/ Kill(r))
                  /\ WF_vars(Expire(r))
                  /\ WF_vars(Meter(r))

FairSpec == Spec /\ Fairness
-----------------------------------------------------------------------------
(* The task was delivered once so far.                                     *)
Alone(r) == \A q \in Runs \ {r} : JobOf[q] = JobOf[r] => pc[q] = "idle"

(* A container or script that uses the GPU is paid for: its session is     *)
(* ended only after it is gone, on every path out of the executor, with    *)
(* every timeout and failing call, unless Docker refuses to remove it.     *)
(* (Of a task that was delivered twice, the first run ends the session.)   *)
UsedIsBilled ==
  \A r \in Runs :
    proc[r] = "running" /\ r \notin kept /\ Alone(r) => session[JobOf[r]] = "open"

(* A task is reported as completed only if its container or script ended   *)
(* by itself with exit code zero, however that races with the timeouts and *)
(* whatever calls failed meanwhile.                                        *)
CompletedSucceeded ==
  \A r \in Runs :
    pc[r] = "report" /\ FinalStatus(result[r]) = "completed" => exit[r] = 0

(* A job is listed as active only while a delivery of it has its final     *)
(* report still ahead: every way out of runTask takes it off the list,     *)
(* also when deliveries of one task overlap.                               *)
NoGhostJobs ==
  \A j \in active : \E r \in Runs :
    JobOf[r] = j /\ pc[r] \in Calls \ {"end", "cleanup"}

(* A running script or container has its workspace: no clean-up of another *)
(* run takes it away, unless the task was delivered twice to a daemon that *)
(* removes workspaces.                                                     *)
WorkspaceKept ==
  \A r \in Runs :
    pc[r] = "wait" /\ (Alone(r) \/ type = "docker") => ws[JobOf[r]] # "none"

(* Metering ends with the run: at most one usage update, the one that was  *)
(* under way, arrives after the context of the run is over.                *)
OneStraggler == \A r \in Runs : straggler[r] <= 1

(* What a daemon holds for its runs is right at every step, whichever      *)
(* timeouts, failing calls and second deliveries race.                     *)
RunsSound == CompletedSucceeded /\ NoGhostJobs /\ WorkspaceKept /\ OneStraggler

(* Every delivery that was accepted is finished, or dies with the daemon,  *)
(* and its metering stops, though a container may never end by itself.     *)
EveryRunSettles ==
  \A r \in Runs :
    pc[r] = "prepare" ~> pc[r] \in {"done", "dead"} /\ monitor[r] = "off"

(* The daemon in detail does what Dispatch assumes of it.                  *)
Phase(call) ==
  CASE call = "idle"                  -> "none"
    [] call = "prepare"               -> "prepare"
    [] call = "end"                   -> "stop"
    [] call \in {"cleanup", "done"}   -> "done"
    [] call = "dead"                  -> "dead"
    [] OTHER                          -> "execute"

Abstract == INSTANCE TaskRun WITH run <- [r \in Runs |-> Phase(pc[r])]

(* Seen from outside, a run goes from its acceptance through one terminal  *)
(* report to one attempt to end the session, and leaves the list of active *)
(* jobs at the report.                                                     *)
ImplementsTaskRun == Abstract!Spec
=============================================================================
