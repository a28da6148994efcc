------------------------------ MODULE Dispatch ------------------------------
(***************************************************************************)
(* How a job reaches a GPU: scheduler-orchestrator-service takes the job   *)
(* from a JetStream queue, opens a rental session for it in the billing    *)
(* service and publishes a task; the provider daemon takes the task from   *)
(* its own queue, runs it and ends the session.                            *)
(*                                                                         *)
(* Both queues deliver at least once.  A worker is the fetch loop of one   *)
(* scheduler process; it handles one message at a time, one call to the    *)
(* outside per step.  A task is named by the session opened for it, so     *)
(* task[s] is the message that carries session_id s.                       *)
(***************************************************************************)
EXTENDS Integers, FiniteSets

CONSTANTS Jobs,          \* jobs renters submit
          Providers,     \* provider daemons
          Suits,         \* Suits[j]: providers that match the job
          Workers,       \* scheduler processes of the queue group
          MaxSessions,   \* bound: sessions the renters can pay for
          MaxRuns,       \* bound: deliveries of one task that are run
          Faults         \* kinds of fault that happen

(* store: a call of the job store fails; registry: listing the providers   *)
(* fails; billing: the billing service refuses; answer: it acts but its    *)
(* answer is lost; publish: a task is not sent, or is lost; nak: a NAK     *)
(* fails and the fallback ACK does not; ack: an acknowledgement is late or *)
(* lost; taskack: the same for a task; expire: the stream discards a job's *)
(* message; crash: a scheduler dies; workspace: a workspace cannot be      *)
(* made; daemon: a provider daemon dies.                                   *)
AllFaults == {"store", "registry", "billing", "answer", "publish", "nak",
              "ack", "taskack", "expire", "crash", "workspace", "daemon"}

ASSUME DispatchAssumption ==
  /\ IsFiniteSet(Jobs) /\ IsFiniteSet(Providers) /\ IsFiniteSet(Workers)
  /\ Jobs # {} /\ Providers # {}
  /\ Suits \in [Jobs -> SUBSET Providers]
  /\ MaxSessions \in Nat \ {0} /\ MaxRuns \in Nat
  /\ Faults \subseteq AllFaults

Sessions == 1 .. MaxSessions

Runs == Sessions \X (1 .. MaxRuns)

VARIABLES
  msg,       \* the job's message in the queue of submitted jobs
  rec,       \* state of the job's row in table jobs
  pc,        \* the call a worker makes next
  cur,       \* what the worker works on: job, its state, provider, session,
             \* outcome of scheduleJob
  idle,      \* providers the registry lists with status idle
  session,   \* rental sessions of the billing service
  task,      \* the task message that carries a session
  healthy,   \* HealthMonitor.healthy of a daemon
  active,    \* Handler.activeJobs of a daemon
  run,       \* runTask goroutines: one per delivery of a task
  late,      \* history: an acknowledgement was late or lost, or a worker died
  dropped    \* history: jobs that left the queue because a NAK failed or
             \* their message expired

sched  == <<pc, cur>>
daemon == <<healthy, active, run>>
hist   == <<late, dropped>>
vars   == <<msg, rec, sched, idle, session, task, daemon, hist>>

Terminal  == {"completed", "cancelled"}
JobStates == {"none", "pending", "dispatched", "failed"} \cup Terminal

Work == [job : Jobs, state : JobStates, provider : Providers,
         session : Sessions, outcome : {"ok", "none", "error"}]

Calls == {"GetJob", "SaveJob", "ListProviders", "StartSession", "Publish",
          "UpdateJobState", "Settle"}

RunStates == {"none", "prepare", "execute", "stop", "done", "failed", "refused",
              "dead"}

SessionRow == [status : {"none", "open", "ended"}, job : Jobs,
               provider : Providers]

(* Every message, row, session and goroutine is in a state the code names. *)
TypeOK ==
  /\ msg \in [Jobs -> {"unsent", "ready", "out", "acked"}]
  /\ rec \in [Jobs -> JobStates]
  /\ pc \in [Workers -> Calls \cup {"idle"}]
  /\ cur \in [Workers -> Work]
  /\ idle \subseteq Providers
  /\ session \in [Sessions -> SessionRow]
  /\ task \in [Sessions -> {"none", "ready", "acked", "lost"}]
  /\ healthy \in [Providers -> BOOLEAN]
  /\ active \in [Providers -> SUBSET Jobs]
  /\ run \in [Runs -> RunStates]
  /\ late \in BOOLEAN
  /\ dropped \subseteq Jobs

AnyJob      == CHOOSE j \in Jobs : TRUE
AnyProvider == CHOOSE p \in Providers : TRUE

NoWork == [job |-> AnyJob, state |-> "none", provider |-> AnyProvider,
           session |-> 1, outcome |-> "none"]

Init ==
  /\ msg = [j \in Jobs |-> "unsent"]
  /\ rec = [j \in Jobs |-> "none"]
  /\ pc = [w \in Workers |-> "idle"]
  /\ cur = [w \in Workers |-> NoWork]
  /\ idle \in SUBSET Providers
  /\ session = [s \in Sessions |-> [status |-> "none", job |-> AnyJob,
                                    provider |-> AnyProvider]]
  /\ task = [s \in Sessions |-> "none"]
  /\ healthy = [p \in Providers |-> TRUE]
  /\ active = [p \in Providers |-> {}]
  /\ run = [i \in Runs |-> "none"]
  /\ late = FALSE
  /\ dropped = {}
-----------------------------------------------------------------------------
(* JobHandler.SubmitJob of the gateway: a fresh job id, one publication.   *)
SubmitJob(j) ==
  /\ msg[j] = "unsent"
  /\ msg' = [msg EXCEPT ![j] = "ready"]
  /\ UNCHANGED <<rec, sched, idle, session, task, daemon, hist>>

(* Providers come and go in the registry.                                  *)
ProviderStatus(p) ==
  /\ idle' = IF p \in idle THEN idle \ {p} ELSE idle \cup {p}
  /\ UNCHANGED <<msg, rec, sched, session, task, daemon, hist>>

(* AckWait passes.  Without late acknowledgements that happens only to a   *)
(* message that no worker holds any more.                                  *)
Redeliver(j) ==
  /\ msg[j] = "out"
  /\ LET held == \E w \in Workers : pc[w] # "idle" /\ cur[w].job = j
     IN (held => "ack" \in Faults) /\ late' = (late \/ held)
  /\ msg' = [msg EXCEPT ![j] = "ready"]
  /\ UNCHANGED <<rec, sched, idle, session, task, daemon, dropped>>

(* The stream keeps a message for MaxAge, delivered or not, and discards   *)
(* the oldest one when it is full.                                         *)
Expire(j) ==
  /\ "expire" \in Faults
  /\ msg[j] \in {"ready", "out"}
  /\ msg' = [msg EXCEPT ![j] = "acked"]
  /\ dropped' = dropped \cup {j}
  /\ UNCHANGED <<rec, sched, idle, session, task, daemon, late>>
-----------------------------------------------------------------------------
(* JobConsumer.handleMessage and scheduleJob.                              *)

Goto(w, call, work) ==
  /\ pc' = [pc EXCEPT ![w] = call]
  /\ cur' = [cur EXCEPT ![w] = work]

Finish(w) == Goto(w, "idle", NoWork)

Ack(j) == msg' = [msg EXCEPT ![j] = "acked"]

(* A NAK asks for redelivery unless the message was acknowledged meanwhile *)
(* through another delivery; when it fails the message is acknowledged.    *)
Nak(j) ==
  \/ /\ msg' = [msg EXCEPT ![j] = IF @ = "acked" THEN @ ELSE "ready"]
     /\ UNCHANGED dropped
  \/ /\ "nak" \in Faults
     /\ Ack(j)
     /\ dropped' = dropped \cup {j}

FetchJob(w) ==
  /\ pc[w] = "idle"
  /\ \E j \in Jobs :
        /\ msg[j] = "ready"
        /\ msg' = [msg EXCEPT ![j] = "out"]
        /\ Goto(w, "GetJob", [NoWork EXCEPT !.job = j])
  /\ UNCHANGED <<rec, idle, session, task, daemon, hist>>

(* A failing read is logged and the job is taken for a new one.  Nothing   *)
(* in the repository writes a terminal state.                              *)
GetJob(w) ==
  LET j == cur[w].job
  IN /\ pc[w] = "GetJob"
     /\ \/ /\ rec[j] # "none"
           /\ IF rec[j] \in Terminal
              THEN Ack(j) /\ Finish(w)
              ELSE /\ Goto(w, "ListProviders", [cur[w] EXCEPT !.state = rec[j]])
                   /\ UNCHANGED msg
        \/ /\ rec[j] = "none" \/ "store" \in Faults
           /\ Goto(w, "SaveJob", cur[w])
           /\ UNCHANGED msg
     /\ UNCHANGED <<rec, idle, session, task, daemon, hist>>

(* An upsert: the row of a job that was dispatched becomes pending again.  *)
SaveJob(w) ==
  LET j == cur[w].job
  IN /\ pc[w] = "SaveJob"
     /\ \/ /\ rec' = [rec EXCEPT ![j] = "pending"]
           /\ Goto(w, "ListProviders", [cur[w] EXCEPT !.state = "pending"])
           /\ UNCHANGED <<msg, dropped>>
        \/ /\ "store" \in Faults
           /\ Nak(j)
           /\ Finish(w)
           /\ UNCHANGED rec
     /\ UNCHANGED <<idle, session, task, daemon, late>>

(* The outcome of scheduleJob; the state is written by handleMessage.      *)
Scheduled(w, state, outcome) ==
  Goto(w, "UpdateJobState", [cur[w] EXCEPT !.state = state,
                                           !.outcome = outcome])

Matches(j) == Suits[j] \cap idle

ListProviders(w) ==
  LET j == cur[w].job
  IN /\ pc[w] = "ListProviders"
     /\ \/ "registry" \in Faults /\ Scheduled(w, cur[w].state, "error")
        \/ Matches(j) = {} /\ Scheduled(w, "pending", "none")
        \/ \E p \in Matches(j) :
              Goto(w, "StartSession", [cur[w] EXCEPT !.provider = p])
     /\ UNCHANGED <<msg, rec, idle, session, task, daemon, hist>>

(* billing.Client.StartSession.  The renter's funds are the sessions left. *)
OpenSession(w, s) ==
  /\ session[s].status = "none"
  /\ \A q \in Sessions : q < s => session[q].status # "none"
  /\ session' = [session EXCEPT ![s] =
                   [status |-> "open", job |-> cur[w].job,
                    provider |-> cur[w].provider]]

CanPay == \E s \in Sessions : session[s].status = "none"

StartSession(w) ==
  /\ pc[w] = "StartSession"
  /\ \/ \E s \in Sessions :
           /\ OpenSession(w, s)
           /\ Goto(w, "Publish", [cur[w] EXCEPT !.session = s])
     \/ /\ ~CanPay \/ "billing" \in Faults
        /\ Scheduled(w, "failed", "error")
        /\ UNCHANGED session
     \/ /\ "answer" \in Faults
        /\ \E s \in Sessions : OpenSession(w, s)
        /\ Scheduled(w, "failed", "error")
  /\ UNCHANGED <<msg, rec, idle, task, daemon, hist>>

(* A plain publication: success says only that the client buffered it.     *)
Publish(w) ==
  LET s == cur[w].session
  IN /\ pc[w] = "Publish"
     /\ \/ /\ \/ task' = [task EXCEPT ![s] = "ready"]
              \/ "publish" \in Faults /\ task' = [task EXCEPT ![s] = "lost"]
           /\ Scheduled(w, "dispatched", "ok")
        \/ /\ "publish" \in Faults
           /\ Scheduled(w, "pending", "error")
           /\ UNCHANGED task
     /\ UNCHANGED <<msg, rec, idle, session, daemon, hist>>

(* A failing update is logged and the message is settled all the same.     *)
UpdateJobState(w) ==
  /\ pc[w] = "UpdateJobState"
  /\ \/ rec' = [rec EXCEPT ![cur[w].job] = cur[w].state]
     \/ "store" \in Faults /\ UNCHANGED rec
  /\ Goto(w, "Settle", cur[w])
  /\ UNCHANGED <<msg, idle, session, task, daemon, hist>>

(* Mutants of Settle: a job without a provider is acknowledged; nothing is *)
(* acknowledged.                                                           *)
SettleAcked(w) ==
  /\ pc[w] = "Settle"
  /\ IF cur[w].outcome = "error" THEN Nak(cur[w].job)
     ELSE Ack(cur[w].job) /\ UNCHANGED dropped
  /\ Finish(w)
  /\ UNCHANGED <<rec, idle, session, task, daemon, late>>

SettleNaked(w) ==
  /\ pc[w] = "Settle"
  /\ Nak(cur[w].job)
  /\ Finish(w)
  /\ UNCHANGED <<rec, idle, session, task, daemon, late>>

Settle(w) ==
  LET j == cur[w].job
  IN /\ pc[w] = "Settle"
     /\ \/ cur[w].outcome # "ok" /\ Nak(j) /\ UNCHANGED late
        \/ cur[w].outcome = "ok" /\ Ack(j) /\ UNCHANGED hist
        \/ /\ cur[w].outcome = "ok" /\ "ack" \in Faults
           /\ late' = TRUE
           /\ UNCHANGED <<msg, dropped>>
     /\ Finish(w)
     /\ UNCHANGED <<rec, idle, session, task, daemon>>

(* A scheduler process dies and is restarted.                              *)
Crash(w) ==
  /\ "crash" \in Faults
  /\ pc[w] # "idle"
  /\ late' = TRUE
  /\ Finish(w)
  /\ UNCHANGED <<msg, rec, idle, session, task, daemon, dropped>>
-----------------------------------------------------------------------------
(* Handler of the provider daemon.  A terminal report removes the job from *)
(* activeJobs, whichever delivery of the task it is about.                 *)

Inactive(p, j) == active' = [active EXCEPT ![p] = @ \ {j}]

(* Client.handleMessage and HandleTask while the GPUs are offline: a       *)
(* report, then a NAK (or, when that fails, an ACK).                       *)
RejectTask(s) ==
  LET p == session[s].provider
  IN /\ task[s] = "ready"
     /\ ~healthy[p]
     /\ Inactive(p, session[s].job)
     /\ \/ UNCHANGED task
        \/ "nak" \in Faults /\ task' = [task EXCEPT ![s] = "acked"]
     /\ UNCHANGED <<msg, rec, sched, idle, session, healthy, run, hist>>

(* HandleTask accepts: the goroutine is started before the message is      *)
(* acknowledged, and nothing asks whether the job runs already.            *)
AcceptTask(s) ==
  LET p == session[s].provider
  IN /\ task[s] = "ready"
     /\ healthy[p]
     /\ \E n \in 1 .. MaxRuns :
           /\ run[<<s, n>>] = "none"
           /\ \A m \in 1 .. n - 1 : run[<<s, m>>] # "none"
           /\ run' = [run EXCEPT ![<<s, n>>] = "prepare"]
     /\ active' = [active EXCEPT ![p] = @ \cup {session[s].job}]
     /\ \/ task' = [task EXCEPT ![s] = "acked"] /\ UNCHANGED late
        \/ "taskack" \in Faults /\ late' = TRUE /\ UNCHANGED task
     /\ UNCHANGED <<msg, rec, sched, idle, session, healthy, dropped>>

(* runTask.  Without a workspace it reports the failure and returns.       *)
PrepareWorkspace(i) ==
  LET s == i[1]
  IN /\ run[i] = "prepare"
     /\ \/ run' = [run EXCEPT ![i] = "execute"] /\ UNCHANGED active
        \/ /\ "workspace" \in Faults
           /\ run' = [run EXCEPT ![i] = "failed"]
           /\ Inactive(session[s].provider, session[s].job)
     /\ UNCHANGED <<msg, rec, sched, idle, session, task, healthy, hist>>

(* Mutant of Execute: the goroutine returns without ending the session.    *)
ExecuteUnbilled(i) ==
  /\ run[i] = "execute"
  /\ run' = [run EXCEPT ![i] = "done"]
  /\ Inactive(session[i[1]].provider, session[i[1]].job)
  /\ UNCHANGED <<msg, rec, sched, idle, session, task, healthy, hist>>

(* The executor returns and the final status is reported.                  *)
Execute(i) ==
  LET s == i[1]
  IN /\ run[i] = "execute"
     /\ run' = [run EXCEPT ![i] = "stop"]
     /\ Inactive(session[s].provider, session[s].job)
     /\ UNCHANGED <<msg, rec, sched, idle, session, task, healthy, hist>>

(* Mutant of EndBillingSession: it does not wait for the executor.         *)
EndBillingEarly(i) ==
  /\ run[i] = "execute"
  /\ session' = [session EXCEPT ![i[1]].status = "ended"]
  /\ UNCHANGED <<msg, rec, sched, idle, task, daemon, hist>>

(* endBillingSession: one attempt; an error is logged.                     *)
EndBillingSession(i) ==
  LET s == i[1]
  IN /\ run[i] = "stop"
     /\ \/ /\ session' = [session EXCEPT ![s].status = "ended"]
           /\ run' = [run EXCEPT ![i] = "done"]
        \/ /\ "billing" \in Faults
           /\ run' = [run EXCEPT ![i] = "refused"]
           /\ UNCHANGED session
     /\ UNCHANGED <<msg, rec, sched, idle, task, healthy, active, hist>>

(* HealthMonitor.check: the verdict after a row of failed or good checks.  *)
HealthCheck(p) ==
  /\ healthy' = [healthy EXCEPT ![p] = ~@]
  /\ UNCHANGED <<msg, rec, sched, idle, session, task, active, run, hist>>

(* A daemon dies; it does not resume what it was running.                  *)
DaemonCrash(p) ==
  LET mine == {i \in Runs : /\ session[i[1]].provider = p
                            /\ run[i] \in {"prepare", "execute", "stop"}}
  IN /\ "daemon" \in Faults
     /\ mine # {}
     /\ run' = [i \in Runs |-> IF i \in mine THEN "dead" ELSE run[i]]
     /\ active' = [active EXCEPT ![p] = {}]
     /\ UNCHANGED <<msg, rec, sched, idle, session, task, healthy, hist>>

Scheduler(w) ==
  \/ FetchJob(w) \/ GetJob(w) \/ SaveJob(w) \/ ListProviders(w)
  \/ StartSession(w) \/ Publish(w) \/ UpdateJobState(w) \/ Settle(w)

Goroutine(i) == PrepareWorkspace(i) \/ Execute(i) \/ EndBillingSession(i)

Next ==
  \/ \E j \in Jobs : SubmitJob(j) \/ Redeliver(j) \/ Expire(j)
  \/ \E w \in Workers : Scheduler(w) \/ Crash(w)
  \/ \E p \in Providers : ProviderStatus(p) \/ HealthCheck(p) \/ DaemonCrash(p)
  \/ \E s \in Sessions : RejectTask(s) \/ AcceptTask(s)
  \/ \E i \in Runs : Goroutine(i)

Spec == Init /\ [][Next]_vars

(* Processes keep running and the queue delivers: a message that no worker *)
(* acknowledges is sent again, and none is passed over for ever.  Nothing  *)
(* is assumed of the answers of store, registry and billing, of            *)
(* publications, or of an executor.                                        *)
Fetches(j) == \E w \in Workers : FetchJob(w) /\ cur'[w].job = j

Fairness ==
  /\ \A j \in Jobs : WF_vars(Redeliver(j)) /\ SF_vars(Fetches(j))
  /\ \A w \in Workers : WF_vars(Scheduler(w))
  /\ \A i \in Runs : WF_vars(PrepareWorkspace(i) \/ EndBillingSession(i))

FairSpec == Spec /\ Fairness
-----------------------------------------------------------------------------
Published(j) ==
  \E s \in Sessions : session[s].job = j /\ task[s] # "none"

Executing(i) == run[i] \in {"prepare", "execute"}

(* A submitted job leaves the queue only once a task was published for it, *)
(* whatever fails, dies or is delivered twice on the way; or it is dropped *)
(* on purpose, when a NAK fails and is answered with an ACK, or expires.   *)
NoJobLost ==
  \A j \in Jobs : msg[j] = "acked" => Published(j) \/ j \in dropped

(* While a task runs, the session it is metered against is open: each      *)
(* dispatch of a job has a session of its own, so ending one dispatch's    *)
(* session does not cut off another one's.  (A task that is delivered      *)
(* twice has two runs under one session, and the first to end closes it.)  *)
BilledWhileRunning ==
  \A i \in Runs :
    Executing(i) /\ (\A n \in 1 .. MaxRuns : n # i[2] => run[<<i[1], n>>] = "none")
      => session[i[1]].status = "open"

(* A job runs once as long as acknowledgements arrive in time and no       *)
(* scheduler dies: an error of the store, the registry, billing, the       *)
(* publication or a NAK, and a daemon that dies, never lead to a second    *)
(* run of a job that already had one.                                      *)
RunsOnce ==
  ~late => \A i, k \in Runs :
             /\ run[i] # "none" /\ run[k] # "none"
             /\ session[i[1]].job = session[k[1]].job
             => i = k

(* An attempt to dispatch a job fails: the row is not saved, the providers *)
(* are not listed, no session is opened, or the task is not published.     *)
Fails(w) ==
  \/ SaveJob(w) /\ pc'[w] = "idle"
  \/ /\ ListProviders(w) \/ StartSession(w) \/ Publish(w)
     /\ cur'[w].outcome = "error"

(* Only faults that never stop keep a job from its provider: either its    *)
(* attempts fail or kill the scheduler again and again, or, once a         *)
(* provider that matches stays idle, a submitted job is published unless   *)
(* it was dropped.  No single error, crash, NAK or late acknowledgement,   *)
(* and no trouble with another job, leaves it stranded.                    *)
EveryJobDispatched ==
  \A j \in Jobs :
    \/ []<><<\E w \in Workers : cur[w].job = j /\ (Fails(w) \/ Crash(w))>>_vars
    \/ <>[](Matches(j) # {}) =>
         (msg[j] # "unsent" ~> Published(j) \/ j \in dropped)

(* runTask "End the billing session for any terminal outcome": when the    *)
(* executor returns, the session of every run that was started is ended,   *)
(* with exactly these exceptions: it got no workspace (runTask returns     *)
(* before the call), billing refused the one attempt, or the daemon died.  *)
EverySessionClosed ==
  \A i \in Runs :
    (run[i] = "execute" ~> run[i] # "execute")
      => (run[i] = "prepare" ~> \/ session[i[1]].status = "ended"
                               \/ run[i] \in {"failed", "refused", "dead"})
=============================================================================
