------------------------------- MODULE Agent -------------------------------
(***************************************************************************)
(* The provider agent (cmd/provider): a GPUProvider with a job queue, a    *)
(* pool of TaskWorkers, one metrics goroutine per running task and         *)
(* background goroutines, and the steps of executeTask: workspace, billing *)
(* session, input files, Docker or script execution, settlement.           *)
(*                                                                         *)
(* NewGPUProvider starts one pool of workers and Initialize, after         *)
(* replacing the queue, a second one.  A worker of the first pool that     *)
(* evaluates its select before Initialize waits on the queue that nobody   *)
(* fills or closes; one that is scheduled later shares the second pool's   *)
(* work.                                                                   *)
(*                                                                         *)
(* Nothing in the agent fills the queue or sets natsConn: the producer of  *)
(* tasks is external, and publishTaskStatus returns at once.  The billing  *)
(* service and the Docker daemon are external too, and every call to them  *)
(* may fail.                                                               *)
(***************************************************************************)
EXTENDS Naturals, Sequences, FiniteSets

CONSTANTS
  Tasks,              \* messages on the job queue
  ExecutionType,      \* execution type of each task
  JobID,              \* job identifier of each task: two may share one
  MaxConcurrentJobs,  \* size of one worker pool
  Helpers,            \* background goroutines: heartbeat, metrics, health
  QueueCap            \* capacity of the queue (100 in the code)

ASSUME AgentAssumption ==
  /\ MaxConcurrentJobs \in Nat \ {0}
  /\ QueueCap \in Nat \ {0}
  /\ ExecutionType \in [Tasks -> {"docker", "script", "python"}]
  /\ DOMAIN JobID = Tasks

Workers == {1, 2} \X (1..MaxConcurrentJobs)  \* <<pool, index>>
Jobs == {JobID[t] : t \in Tasks}

None == "none"

VARIABLES
  stage,       \* main: "created", "running", "cancelled", "closed", "stopped"
  jobQueue,    \* the queue Initialize made
  offered,     \* tasks the producer has put on it
  workers,     \* the worker goroutines
  helpers,     \* the background goroutines
  status,      \* ActiveJob.Status of each task
  activeJobs,  \* the agent's map: job identifier -> task
  expired,     \* tasks whose context has run into its deadline
  metrics,     \* the collectMetrics goroutine of each task
  session,     \* billing service: the session of each task
  container,   \* Docker daemon: tasks that have a container
  faults       \* service and task of each call that failed or lost its
               \* answer, so that what it was about is still there

agentVars == <<stage, jobQueue, offered, workers, helpers, status,
          activeJobs, expired, metrics, session, container, faults>>

remoteVars == <<session, container, faults>>

Phases == {"boot", "wait", "track", "bill", "fetch", "exec", "script",
           "create", "start", "watch", "reap", "finish", "error", "settle",
           "leave", "gone"}

Idle == [pc |-> "boot", chan |-> None, task |-> None, held |-> FALSE,
         ok |-> FALSE]

AgentTypeOK ==
  /\ stage \in {"created", "running", "cancelled", "closed", "stopped"}
  /\ jobQueue \in Seq(Tasks) /\ Len(jobQueue) <= QueueCap
  /\ offered \subseteq Tasks
  /\ workers \in [Workers -> [pc : Phases, chan : {None, "old", "new"},
                              task : Tasks \cup {None}, held : BOOLEAN,
                              ok : BOOLEAN]]
  /\ helpers \in [Helpers -> {"unborn", "running", "gone"}]
  /\ status \in [Tasks -> {None, "starting", "running", "completed", "failed"}]
  /\ activeJobs \in [Jobs -> Tasks \cup {None}]
  /\ expired \subseteq Tasks
  /\ metrics \in [Tasks -> {"off", "on"}]
  /\ session \in [Tasks -> {None, "open", "ended"}]
  /\ container \subseteq Tasks
  /\ faults \subseteq {"billing", "docker"} \X Tasks

\* NewGPUProvider: the first pool is started; the second, and the background
\* goroutines, only exist once Initialize has run.
AgentInit ==
  /\ stage = "created"
  /\ jobQueue = << >>
  /\ offered = {}
  /\ workers = [w \in Workers |-> Idle]
  /\ helpers = [h \in Helpers |-> "unborn"]
  /\ status = [t \in Tasks |-> None]
  /\ activeJobs = [j \in Jobs |-> None]
  /\ expired = {}
  /\ metrics = [t \in Tasks |-> "off"]
  /\ session = [t \in Tasks |-> None]
  /\ container = {}
  /\ faults = {}

Cancelled == stage \in {"cancelled", "closed", "stopped"}
Closed == stage \in {"closed", "stopped"}
Started(w) == w[1] = 1 \/ stage # "created"
Executing(t) == \E w \in Workers : workers[w].task = t
CtxDone(t) == Cancelled \/ t \in expired

\* Worker w moves to a phase.
MoveTo(w, phase) == workers' = [workers EXCEPT ![w].pc = phase]
\* ... returning from execution with an error (ok = FALSE) or without.
EndExecution(w, phase, ok) ==
  workers' = [workers EXCEPT ![w].pc = phase, ![w].ok = ok]

----------------------------------------------------------------------------
(* Main and the background goroutines.                                     *)

Initialize ==
  /\ stage = "created"
  /\ stage' = "running"
  /\ UNCHANGED <<jobQueue, offered, workers, helpers, status,
                 activeJobs, expired, metrics, remoteVars>>

\* A task arrives (external producer).
Offer(t) ==
  /\ stage = "running"
  /\ t \notin offered
  /\ Len(jobQueue) < QueueCap
  /\ jobQueue' = Append(jobQueue, t)
  /\ offered' = offered \cup {t}
  /\ UNCHANGED <<stage, workers, helpers, status, activeJobs,
                 expired, metrics, remoteVars>>

\* Shutdown cancels the context, ...
ShutdownCancel ==
  /\ stage = "running"
  /\ stage' = "cancelled"
  /\ UNCHANGED <<jobQueue, offered, workers, helpers, status,
                 activeJobs, expired, metrics, remoteVars>>

\* ... closes the queue, which keeps what it holds, ...
ShutdownClose ==
  /\ stage = "cancelled"
  /\ stage' = "closed"
  /\ UNCHANGED <<jobQueue, offered, workers, helpers, status,
                 activeJobs, expired, metrics, remoteVars>>

\* A Shutdown that forgets to wait.
AllDoneNoWait == TRUE

\* ... and waits for the goroutines counted by then: the workers were
\* counted before they were started, a helper counts itself.
AllDone ==
  /\ \A w \in Workers : workers[w].pc = "gone"
  /\ \A h \in Helpers : helpers[h] # "running"

ShutdownDone ==
  /\ stage = "closed"
  /\ AllDone
  /\ stage' = "stopped"
  /\ UNCHANGED <<jobQueue, offered, workers, helpers, status,
                 activeJobs, expired, metrics, remoteVars>>

\* startHeartbeat, startMetricsCollection and startHealthChecks: the loop
\* ends when the context does.  What a tick does (post a heartbeat, sample
\* the host, ping Docker) changes nothing the agent reads: sendHeartbeat and
\* performHealthChecks set every GPU available and healthy, as detectGPUs did.
HelperStart(h) ==
  /\ stage # "created" /\ helpers[h] = "unborn"
  /\ helpers' = [helpers EXCEPT ![h] = "running"]
  /\ UNCHANGED <<stage, jobQueue, offered, workers, status,
                 activeJobs, expired, metrics, remoteVars>>

HelperStop(h) ==
  /\ Cancelled /\ helpers[h] = "running"
  /\ helpers' = [helpers EXCEPT ![h] = "gone"]
  /\ UNCHANGED <<stage, jobQueue, offered, workers, status,
                 activeJobs, expired, metrics, remoteVars>>

\* The deadline of a task's context (MaxDurationMinutes, zero included).
Expire(t) ==
  /\ Executing(t) /\ ~CtxDone(t)
  /\ expired' = expired \cup {t}
  /\ UNCHANGED <<stage, jobQueue, offered, workers, helpers, status,
                 activeJobs, metrics, remoteVars>>

----------------------------------------------------------------------------
(* The worker loop.                                                        *)

\* run enters its select: the queue is whichever p.jobQueue is now.
Boot(w) ==
  /\ Started(w) /\ workers[w].pc = "boot"
  /\ workers' = [workers EXCEPT ![w].pc = "wait",
                   ![w].chan = IF stage = "created" THEN "old" ELSE "new"]
  /\ UNCHANGED <<stage, jobQueue, offered, helpers, status,
                 activeJobs, expired, metrics, remoteVars>>

\* A worker that only stops when its queue is closed.
QuitOnClose(w) ==
  /\ workers[w].pc = "wait"
  /\ workers[w].chan = "new" /\ Closed /\ jobQueue = << >>
  /\ workers' = [workers EXCEPT ![w] = [Idle EXCEPT !.pc = "gone"]]
  /\ UNCHANGED <<stage, jobQueue, offered, helpers, status, activeJobs,
                 expired, metrics, remoteVars>>

\* The worker returns: its context is done, or its queue is closed and empty.
Quit(w) ==
  /\ workers[w].pc = "wait"
  /\ \/ Cancelled
     \/ workers[w].chan = "new" /\ Closed /\ jobQueue = << >>
  /\ workers' = [workers EXCEPT ![w] = [Idle EXCEPT !.pc = "gone"]]
  /\ UNCHANGED <<stage, jobQueue, offered, helpers, status,
                 activeJobs, expired, metrics, remoteVars>>

\* A worker waiting on the queue takes the next task, cancelled or not: when
\* both cases of the select are ready, Go picks either.
Take(w) ==
  /\ workers[w].pc = "wait" /\ workers[w].chan = "new"
  /\ jobQueue # << >>
  /\ workers' = [workers EXCEPT ![w].pc = "track", ![w].task = Head(jobQueue)]
  /\ jobQueue' = Tail(jobQueue)
  /\ status' = [status EXCEPT ![Head(jobQueue)] = "starting"]
  /\ UNCHANGED <<stage, offered, helpers, activeJobs, expired,
                 metrics, remoteVars>>

----------------------------------------------------------------------------
(* executeTask.                                                            *)

\* The task is entered in activeJobs, over a task of the same job, and its
\* workspace is made.
Track(w) ==
  LET t == workers[w].task IN
  /\ workers[w].pc = "track"
  /\ activeJobs' = [activeJobs EXCEPT ![JobID[t]] = t]
  /\ \E phase \in {"bill", "error"} : MoveTo(w, phase)
  /\ UNCHANGED <<stage, jobQueue, offered, helpers, status, expired,
                 metrics, remoteVars>>

\* startBillingSession: billing is not configured, or no GPU fits the task or
\* the service refuses, or a session is opened, and its answer may be lost.
StartBillingSession(w) ==
  LET t == workers[w].task IN
  /\ workers[w].pc = "bill"
  /\ \/ \E phase \in {"fetch", "error"} : MoveTo(w, phase) /\ UNCHANGED remoteVars
     \/ /\ session' = [session EXCEPT ![t] = "open"]
        /\ \/ /\ workers' = [workers EXCEPT ![w].pc = "fetch", ![w].held = TRUE]
              /\ UNCHANGED faults
           \/ /\ MoveTo(w, "error")
              /\ faults' = faults \cup {<<"billing", t>>}
        /\ UNCHANGED container
  /\ UNCHANGED <<stage, jobQueue, offered, helpers, status,
                 activeJobs, expired, metrics>>

\* downloadInputFiles; then the task is running and its metrics are collected.
DownloadInputFiles(w) ==
  LET t == workers[w].task IN
  /\ workers[w].pc = "fetch"
  /\ \/ MoveTo(w, "error") /\ UNCHANGED <<status, metrics>>
     \/ /\ MoveTo(w, "exec")
        /\ status' = [status EXCEPT ![t] = "running"]
        /\ metrics' = [metrics EXCEPT ![t] = "on"]
  /\ UNCHANGED <<stage, jobQueue, offered, helpers, activeJobs,
                 expired, remoteVars>>

\* executeScriptTask: no script or no interpreter is an error.  Types other
\* than docker and script are unsupported.
ExecuteScript(w) ==
  /\ workers[w].pc = "exec" /\ ExecutionType[workers[w].task] # "docker"
  /\ \/ EndExecution(w, "error", FALSE)
     \/ ExecutionType[workers[w].task] = "script" /\ MoveTo(w, "script")
  /\ UNCHANGED <<stage, jobQueue, offered, helpers, status,
                 activeJobs, expired, metrics, remoteVars>>

\* cmd.Run returns: the script is over, by itself or killed when its context
\* was done, and every process that holds its output pipes has closed them.
\* That is no error, whether the script exited with zero, failed or was killed.
ScriptEnds(w) ==
  /\ workers[w].pc = "script"
  /\ EndExecution(w, "finish", TRUE)
  /\ UNCHANGED <<stage, jobQueue, offered, helpers, status,
                 activeJobs, expired, metrics, remoteVars>>

\* executeDockerTask: the client and the image, whose pull ignores the task's
\* context.
PullImage(w) ==
  /\ workers[w].pc = "exec" /\ ExecutionType[workers[w].task] = "docker"
  /\ \/ EndExecution(w, "error", FALSE)
     \/ MoveTo(w, "create")
  /\ UNCHANGED <<stage, jobQueue, offered, helpers, status,
                 activeJobs, expired, metrics, remoteVars>>

\* ContainerCreate fails without effect; succeeds; or is cut off by the
\* context, or loses its answer, when Docker has made the container, whose
\* cleanup has not been deferred yet.
CreateContainer(w) ==
  LET t == workers[w].task IN
  /\ workers[w].pc = "create"
  /\ \/ EndExecution(w, "error", FALSE) /\ UNCHANGED <<container, faults>>
     \/ /\ ~CtxDone(t) /\ MoveTo(w, "start")
        /\ container' = container \cup {t}
        /\ UNCHANGED faults
     \/ /\ EndExecution(w, "error", FALSE)
        /\ container' = container \cup {t}
        /\ faults' = faults \cup {<<"docker", t>>}
  /\ UNCHANGED <<stage, jobQueue, offered, helpers, status,
                 activeJobs, expired, metrics, session>>

StartContainer(w) ==
  /\ workers[w].pc = "start"
  /\ \/ EndExecution(w, "reap", FALSE)
     \/ ~CtxDone(workers[w].task) /\ MoveTo(w, "watch")
  /\ UNCHANGED <<stage, jobQueue, offered, helpers, status,
                 activeJobs, expired, metrics, remoteVars>>

\* The container ends by itself, whatever its exit code; the daemon reports an
\* error; or the context is done.
ContainerEnds(w) ==
  /\ workers[w].pc = "watch"
  /\ \E ok \in BOOLEAN : EndExecution(w, "reap", ok)
  /\ UNCHANGED <<stage, jobQueue, offered, helpers, status,
                 activeJobs, expired, metrics, remoteVars>>

ContextEnds(w) ==
  /\ workers[w].pc = "watch" /\ CtxDone(workers[w].task)
  /\ EndExecution(w, "reap", FALSE)
  /\ UNCHANGED <<stage, jobQueue, offered, helpers, status,
                 activeJobs, expired, metrics, remoteVars>>

\* A cleanup that is only deferred once the container has been started.
CleanupContainerLate(w) ==
  LET t == workers[w].task IN
  /\ workers[w].pc = "reap"
  /\ MoveTo(w, IF workers[w].ok THEN "finish" ELSE "error")
  /\ container' = IF workers[w].ok THEN container \ {t} ELSE container
  /\ UNCHANGED <<stage, jobQueue, offered, helpers, status,
                 activeJobs, expired, metrics, session, faults>>

\* The deferred cleanupContainer: stop and remove, errors ignored.
CleanupContainer(w) ==
  LET t == workers[w].task IN
  /\ workers[w].pc = "reap"
  /\ MoveTo(w, IF workers[w].ok THEN "finish" ELSE "error")
  /\ \/ container' = container \ {t} /\ UNCHANGED faults
     \/ faults' = faults \cup {<<"docker", t>>} /\ UNCHANGED container
  /\ UNCHANGED <<stage, jobQueue, offered, helpers, status,
                 activeJobs, expired, metrics, session>>

\* Output files are uploaded, errors ignored, and the task is completed.
Finish(w) ==
  /\ workers[w].pc = "finish"
  /\ status' = [status EXCEPT ![workers[w].task] = "completed"]
  /\ MoveTo(w, "settle")
  /\ UNCHANGED <<stage, jobQueue, offered, helpers, activeJobs,
                 expired, metrics, remoteVars>>

\* A handleTaskError that returns without ending the session.
HandleTaskErrorOnly(w) ==
  /\ workers[w].pc = "error"
  /\ status' = [status EXCEPT ![workers[w].task] = "failed"]
  /\ MoveTo(w, "leave")
  /\ UNCHANGED <<stage, jobQueue, offered, helpers, activeJobs,
                 expired, metrics, remoteVars>>

\* handleTaskError: the task failed.
HandleTaskError(w) ==
  /\ workers[w].pc = "error"
  /\ status' = [status EXCEPT ![workers[w].task] = "failed"]
  /\ MoveTo(w, "settle")
  /\ UNCHANGED <<stage, jobQueue, offered, helpers, activeJobs,
                 expired, metrics, remoteVars>>

\* endBillingSession, for a session the agent holds: the call may fail, before
\* or after the service has ended the session, and is not repeated.
EndBillingSession(w) ==
  LET t == workers[w].task IN
  /\ workers[w].pc = "settle"
  /\ MoveTo(w, "leave")
  /\ IF workers[w].held
       THEN \/ session' = [session EXCEPT ![t] = "ended"] /\ UNCHANGED faults
            \/ faults' = faults \cup {<<"billing", t>>} /\ UNCHANGED session
       ELSE UNCHANGED <<session, faults>>
  /\ UNCHANGED <<stage, jobQueue, offered, helpers, status,
                 activeJobs, expired, metrics, container>>

\* The deferred calls: the job leaves activeJobs, whichever task the entry is
\* for, and the context is cancelled.
Leave(w) ==
  LET t == workers[w].task IN
  /\ workers[w].pc = "leave"
  /\ activeJobs' = [activeJobs EXCEPT ![JobID[t]] = None]
  /\ expired' = expired \cup {t}
  /\ workers' = [workers EXCEPT ![w] = Idle]
  /\ UNCHANGED <<stage, jobQueue, offered, helpers, status, metrics,
                 remoteVars>>

----------------------------------------------------------------------------
(* collectMetrics: the goroutine is not waited for.                        *)

\* A tick samples the host and posts usage (sendUsageUpdate), errors logged
\* only; the loop ends when it finds the task's context done.
MetricsStop(t) ==
  /\ metrics[t] = "on" /\ CtxDone(t)
  /\ metrics' = [metrics EXCEPT ![t] = "off"]
  /\ UNCHANGED <<stage, jobQueue, offered, workers, helpers, status,
                 activeJobs, expired, remoteVars>>

----------------------------------------------------------------------------
\* A step of a worker that waits for nobody: every call in it has a timeout
\* (30 s for HTTP, 10 min for a pull, 30 s for the cleanup).  The end of a
\* script or of a container is not among them.
WorkerStep(w) ==
  \/ Boot(w) \/ Quit(w)
  \/ Track(w) \/ StartBillingSession(w) \/ DownloadInputFiles(w)
  \/ ExecuteScript(w) \/ PullImage(w) \/ CreateContainer(w)
  \/ StartContainer(w) \/ ContextEnds(w) \/ CleanupContainer(w)
  \/ Finish(w) \/ HandleTaskError(w) \/ EndBillingSession(w) \/ Leave(w)

ShutdownStep == ShutdownClose \/ ShutdownDone

AgentNext ==
  \/ Initialize \/ ShutdownCancel \/ ShutdownStep
  \/ \E t \in Tasks : Offer(t) \/ Expire(t) \/ MetricsStop(t)
  \/ \E h \in Helpers : HelperStart(h) \/ HelperStop(h)
  \/ \E w \in Workers : WorkerStep(w) \/ Take(w) \/ ScriptEnds(w) \/ ContainerEnds(w)

\* Goroutines that can run do, and deadlines come.  Nobody need offer a task
\* or stop the agent, a container or a script need not end.
AgentFairness ==
  /\ WF_agentVars(ShutdownStep)
  /\ \A w \in Workers : WF_agentVars(WorkerStep(w))
  /\ \A t \in Tasks : WF_agentVars(Expire(t)) /\ WF_agentVars(MetricsStop(t))
  /\ \A h \in Helpers : WF_agentVars(HelperStop(h))

AgentSpec == AgentInit /\ [][AgentNext]_agentVars /\ AgentFairness

----------------------------------------------------------------------------
(* Properties.                                                             *)

\* A billing session outlives its task only when a call about it failed (the
\* answer that opened it, or the request to end it): every way out of
\* executeTask, errors at any stage included, settles the session it holds.
SessionsSettled ==
  \A t \in Tasks : session[t] = "open" => Executing(t) \/ <<"billing", t>> \in faults

\* A container outlives the execution of its task only when its removal
\* failed, or when it was made by a call that reported an error: start
\* errors, daemon errors and deadlines all pass the cleanup.
ContainersReaped ==
  \A t \in container :
    \/ <<"docker", t>> \in faults
    \/ \E w \in Workers : /\ workers[w].task = t
                          /\ workers[w].pc \in {"start", "watch", "reap"}

\* Once Shutdown has returned no task is under way: each one that left the
\* queue is completed or failed, and none is in activeJobs.
Drained ==
  stage = "stopped" =>
    /\ \A t \in Tasks : status[t] \notin {"starting", "running"}
    /\ \A j \in Jobs : activeJobs[j] = None

\* A worker is inside cmd.Run, which returns only when the script is gone and
\* no child of it holds its output pipes: cmd.WaitDelay, which would bound the
\* wait, is not set.
InScript == \E w \in Workers : workers[w].pc = "script"

\* Shutdown returns, unless a script keeps a worker for ever, although workers
\* may wait on two queues, one of them never closed, hold tasks, or be inside a
\* container that would run on.
ShutdownReturns ==
  ((stage = "cancelled") ~> (stage = "stopped")) \/ <>[]InScript
=============================================================================
