---------------------------- MODULE RentalProofs ----------------------------
(* Proofs about Agent, for any tasks, job identifiers, pool size and queue  *)
(* capacity, and whatever calls fail, and about Rental, for any users,      *)
(* GPUs, prices and number of requests, and that it implements Reservation. *)
EXTENDS Agent, Rental, TLAPS

(***************************************************************************)
(* The provider agent.                                                      *)
(***************************************************************************)

Worker == [pc : Phases, chan : {None, "old", "new"}, task : Tasks \cup {None},
           held : BOOLEAN, ok : BOOLEAN]

Handling == Phases \ {"boot", "wait", "gone"}

(* Worker x answers for the session of task t, for its container, for its   *)
(* status and for the entry of job j.                                       *)
Pays(x, t)  == x.task = t /\ x.held /\ x.pc \in Handling \ {"track", "bill", "leave"}
Reaps(x, t) == x.task = t /\ x.pc \in {"start", "watch", "reap"}
Ends(x, t)  == x.task = t /\ x.pc \in Handling \ {"settle", "leave"}
Lists(x, j) == x.pc \in Handling \ {"track"} /\ JobID[x.task] = j

HasTask  == \A w \in Workers : workers[w].pc \in Handling => workers[w].task \in Tasks

Paid ==
  \A t \in Tasks : session[t] = "open" =>
    <<"billing", t>> \in faults \/ \E w \in Workers : Pays(workers[w], t)

Reaped ==
  \A t \in container :
    <<"docker", t>> \in faults \/ \E w \in Workers : Reaps(workers[w], t)

Ended ==
  \A t \in Tasks :
    status[t] \in {"starting", "running"} => \E w \in Workers : Ends(workers[w], t)

Listed ==
  \A j \in Jobs : activeJobs[j] # None => \E w \in Workers : Lists(workers[w], j)

Stopped == stage = "stopped" => \A w \in Workers : workers[w].pc = "gone"

(* Each obligation that a task leaves behind has a worker that is still to  *)
(* meet it.  Nothing is said about who took which task: the invariant does  *)
(* not need that a task is executed by one worker only.                     *)
AgentInv == AgentTypeOK /\ HasTask /\ Paid /\ Reaped /\ Ended /\ Listed /\ Stopped

LEMMA WorkersType == AgentTypeOK => workers \in [Workers -> Worker]
BY DEF AgentTypeOK, Worker

LEMMA GotoFacts ==
  ASSUME AgentTypeOK, NEW w \in Workers, NEW phase \in Phases, MoveTo(w, phase)
  PROVE  /\ workers' \in [Workers -> Worker]
         /\ workers'[w].pc = phase /\ workers'[w].task = workers[w].task
         /\ workers'[w].held = workers[w].held
         /\ \A v \in Workers \ {w} : workers'[v] = workers[v]
<1>1. workers \in [Workers -> Worker] /\ workers[w] \in Worker
  BY WorkersType
<1> QED
  BY <1>1 DEF MoveTo, Worker

LEMMA ReturnFacts ==
  ASSUME AgentTypeOK, NEW w \in Workers, NEW phase \in Phases, NEW ok \in BOOLEAN,
         EndExecution(w, phase, ok)
  PROVE  /\ workers' \in [Workers -> Worker]
         /\ workers'[w].pc = phase /\ workers'[w].task = workers[w].task
         /\ workers'[w].held = workers[w].held
         /\ \A v \in Workers \ {w} : workers'[v] = workers[v]
<1>1. workers \in [Workers -> Worker] /\ workers[w] \in Worker
  BY WorkersType
<1> QED
  BY <1>1 DEF EndExecution, Worker

LEMMA IdleType == Idle \in Worker
BY DEF Idle, Worker, Phases, None

LEMMA AgentInitInv == AgentInit => AgentInv
<1> SUFFICES ASSUME AgentInit PROVE AgentInv
  OBVIOUS
<1> USE AgentAssumption DEF AgentInit
<1>1. AgentTypeOK
  BY IdleType DEF AgentTypeOK, Worker, None
<1>2. HasTask
  BY DEF HasTask, Handling, Idle
<1>3. Paid /\ Reaped /\ Ended /\ Listed /\ Stopped
  BY DEF Paid, Reaped, Ended, Listed, Stopped, None
<1> QED
  BY <1>1, <1>2, <1>3 DEF AgentInv
-----------------------------------------------------------------------------
(* A step of one worker.  What it answered for it settles, records as a     *)
(* fault, or still answers for.                                             *)
Answers(w) ==
  /\ \A v \in Workers \ {w} : workers'[v] = workers[v]
  /\ workers'[w].pc \in Handling => workers'[w].task \in Tasks
  /\ workers[w].pc # "gone" /\ UNCHANGED stage
  /\ faults \subseteq faults'
  /\ \A t \in Tasks : session'[t] = "open" =>
       \/ <<"billing", t>> \in faults' \/ Pays(workers'[w], t)
       \/ session[t] = "open" /\ ~Pays(workers[w], t)
  /\ \A t \in container' :
       \/ <<"docker", t>> \in faults' \/ Reaps(workers'[w], t)
       \/ t \in container /\ ~Reaps(workers[w], t)
  /\ \A t \in Tasks : status'[t] \in {"starting", "running"} =>
       \/ Ends(workers'[w], t)
       \/ status[t] \in {"starting", "running"} /\ ~Ends(workers[w], t)
  /\ \A j \in Jobs : activeJobs'[j] # None =>
       \/ Lists(workers'[w], j)
       \/ activeJobs[j] # None /\ ~Lists(workers[w], j)

LEMMA AnswersInv ==
  ASSUME AgentInv, AgentTypeOK', NEW w \in Workers, Answers(w)
  PROVE  AgentInv'
<1> USE DEF AgentInv, Answers
<1>1. HasTask'
  BY DEF HasTask
<1>2. Paid'
  BY DEF Paid
<1>3. Reaped'
  BY DEF Reaped
<1>4. Ended'
  BY DEF Ended
<1>5. Listed'
  BY DEF Listed
<1>6. Stopped'
  BY DEF Stopped
<1> QED
  BY <1>1, <1>2, <1>3, <1>4, <1>5, <1>6

(* The worker only moves on, between phases with the same duties.           *)
LEMMA MoveAnswers ==
  ASSUME AgentInv, NEW w \in Workers, NEW to \in Phases,
         workers'[w].pc = to /\ workers'[w].task = workers[w].task,
         workers'[w].held = workers[w].held,
         \A v \in Workers \ {w} : workers'[v] = workers[v],
         UNCHANGED <<stage, status, activeJobs, session, container>>,
         faults \subseteq faults',
         workers[w].pc \in Handling, to \in Handling \ {"settle", "leave"},
         workers[w].pc \in {"start", "watch", "reap"} => to \in {"start", "watch", "reap"},
         to # "track", to # "bill"
  PROVE  Answers(w)
<1> USE DEF AgentInv
<1>1. workers[w].task \in Tasks
  BY DEF HasTask
<1>2. \A t \in Tasks : Pays(workers[w], t) => Pays(workers'[w], t)
  BY DEF Pays
<1>3. \A t \in Tasks : Reaps(workers[w], t) => Reaps(workers'[w], t)
  BY DEF Reaps
<1>4. \A t \in Tasks : Ends(workers[w], t) => Ends(workers'[w], t)
  BY DEF Ends
<1>5. \A j \in Jobs : Lists(workers[w], j) => Lists(workers'[w], j)
  BY DEF Lists
<1>6. container' \subseteq Tasks
  BY DEF AgentTypeOK
<1> QED
  BY <1>1, <1>2, <1>3, <1>4, <1>5, <1>6 DEF Answers, Handling

LEMMA BootInv ==
  ASSUME AgentInv, NEW w \in Workers, Boot(w)
  PROVE  AgentInv'
<1> USE DEF AgentInv, remoteVars
<1>0. /\ workers' \in [Workers -> Worker] /\ workers'[w].pc = "wait"
      /\ \A v \in Workers \ {w} : workers'[v] = workers[v]
  <2>1. workers \in [Workers -> Worker] /\ workers[w] \in Worker
    BY WorkersType
  <2> QED
    BY <2>1 DEF Boot, Worker, Phases
<1>1. AgentTypeOK'
  BY <1>0 DEF AgentTypeOK, Boot, Worker
<1>2. Answers(w)
  BY <1>0 DEF Answers, Boot, Pays, Reaps, Ends, Lists, Handling
<1> QED
  BY <1>1, <1>2, AnswersInv

LEMMA QuitInv ==
  ASSUME AgentInv, NEW w \in Workers, Quit(w)
  PROVE  AgentInv'
<1> USE DEF AgentInv, remoteVars
<1>0. /\ workers' \in [Workers -> Worker] /\ workers'[w].pc = "gone"
      /\ \A v \in Workers \ {w} : workers'[v] = workers[v]
  <2>1. [Idle EXCEPT !.pc = "gone"] \in Worker
    BY IdleType DEF Worker, Phases
  <2> QED
    BY <2>1, IdleType, WorkersType DEF Quit, Worker
<1>1. AgentTypeOK'
  BY <1>0 DEF AgentTypeOK, Quit, Worker
<1>2. Answers(w)
  BY <1>0 DEF Answers, Quit, Pays, Reaps, Ends, Lists, Handling
<1> QED
  BY <1>1, <1>2, AnswersInv

LEMMA TakeInv ==
  ASSUME AgentInv, NEW w \in Workers, Take(w)
  PROVE  AgentInv'
<1> USE DEF AgentInv, remoteVars
<1> DEFINE t == Head(jobQueue)
<1>t. /\ t \in Tasks /\ Tail(jobQueue) \in Seq(Tasks)
      /\ Len(Tail(jobQueue)) <= QueueCap
  BY AgentAssumption DEF AgentTypeOK, Take
<1> HIDE DEF t
<1>0. /\ workers' \in [Workers -> Worker]
      /\ workers'[w].pc = "track" /\ workers'[w].task = t
      /\ \A v \in Workers \ {w} : workers'[v] = workers[v]
  <2>1. workers \in [Workers -> Worker] /\ workers[w] \in Worker
    BY WorkersType
  <2>2. workers' = [workers EXCEPT ![w].pc = "track", ![w].task = t]
    BY DEF Take, t
  <2> QED
    BY <2>1, <2>2, <1>t DEF Worker, Phases
<1>s. /\ status' = [status EXCEPT ![t] = "starting"] /\ jobQueue' = Tail(jobQueue)
      /\ UNCHANGED <<stage, offered, helpers, activeJobs, expired, metrics, remoteVars>>
      /\ workers[w].pc = "wait"
  BY DEF Take, t
<1>1. AgentTypeOK'
  BY <1>0, <1>t, <1>s DEF AgentTypeOK, Worker
<1>2. Answers(w)
  BY <1>0, <1>t, <1>s DEF AgentTypeOK, Answers, Pays, Reaps, Ends, Lists, Handling, Phases
<1> QED
  BY <1>1, <1>2, AnswersInv

LEMMA ExecuteScriptInv ==
  ASSUME AgentInv, NEW w \in Workers, ExecuteScript(w)
  PROVE  AgentInv'
<1> USE DEF AgentInv, remoteVars
<1>0. /\ workers' \in [Workers -> Worker]
      /\ workers'[w].pc \in {"error", "script"} /\ workers'[w].task = workers[w].task
      /\ workers'[w].held = workers[w].held
      /\ \A v \in Workers \ {w} : workers'[v] = workers[v]
  BY GotoFacts, ReturnFacts, WorkersType DEF ExecuteScript, Phases
<1>1. AgentTypeOK'
  BY <1>0 DEF AgentTypeOK, ExecuteScript, Worker
<1>2. Answers(w)
  BY <1>0, MoveAnswers DEF ExecuteScript, Handling, Phases
<1> QED
  BY <1>1, <1>2, AnswersInv

LEMMA PullImageInv ==
  ASSUME AgentInv, NEW w \in Workers, PullImage(w)
  PROVE  AgentInv'
<1> USE DEF AgentInv, remoteVars
<1>0. /\ workers' \in [Workers -> Worker]
      /\ workers'[w].pc \in {"error", "create"} /\ workers'[w].task = workers[w].task
      /\ workers'[w].held = workers[w].held
      /\ \A v \in Workers \ {w} : workers'[v] = workers[v]
  BY GotoFacts, ReturnFacts, WorkersType DEF PullImage, Phases
<1>1. AgentTypeOK'
  BY <1>0 DEF AgentTypeOK, PullImage, Worker
<1>2. Answers(w)
  BY <1>0, MoveAnswers DEF PullImage, Handling, Phases
<1> QED
  BY <1>1, <1>2, AnswersInv

LEMMA StartContainerInv ==
  ASSUME AgentInv, NEW w \in Workers, StartContainer(w)
  PROVE  AgentInv'
<1> USE DEF AgentInv, remoteVars
<1>0. /\ workers' \in [Workers -> Worker]
      /\ workers'[w].pc \in {"reap", "watch"} /\ workers'[w].task = workers[w].task
      /\ workers'[w].held = workers[w].held
      /\ \A v \in Workers \ {w} : workers'[v] = workers[v]
  BY GotoFacts, ReturnFacts, WorkersType DEF StartContainer, Phases
<1>1. AgentTypeOK'
  BY <1>0 DEF AgentTypeOK, StartContainer, Worker
<1>2. Answers(w)
  BY <1>0, MoveAnswers DEF StartContainer, Handling, Phases
<1> QED
  BY <1>1, <1>2, AnswersInv

LEMMA ContainerEndsInv ==
  ASSUME AgentInv, NEW w \in Workers, ContainerEnds(w)
  PROVE  AgentInv'
<1> USE DEF AgentInv, remoteVars
<1>0. /\ workers' \in [Workers -> Worker]
      /\ workers'[w].pc = "reap" /\ workers'[w].task = workers[w].task
      /\ workers'[w].held = workers[w].held
      /\ \A v \in Workers \ {w} : workers'[v] = workers[v]
  BY GotoFacts, ReturnFacts, WorkersType DEF ContainerEnds, Phases
<1>1. AgentTypeOK'
  BY <1>0 DEF AgentTypeOK, ContainerEnds, Worker
<1>2. Answers(w)
  BY <1>0, MoveAnswers DEF ContainerEnds, Handling, Phases
<1> QED
  BY <1>1, <1>2, AnswersInv

LEMMA ScriptEndsInv ==
  ASSUME AgentInv, NEW w \in Workers, ScriptEnds(w)
  PROVE  AgentInv'
<1> USE DEF AgentInv, remoteVars
<1>0. /\ workers' \in [Workers -> Worker]
      /\ workers'[w].pc = "finish" /\ workers'[w].task = workers[w].task
      /\ workers'[w].held = workers[w].held
      /\ \A v \in Workers \ {w} : workers'[v] = workers[v]
  BY GotoFacts, ReturnFacts, WorkersType DEF ScriptEnds, Phases
<1>1. AgentTypeOK'
  BY <1>0 DEF AgentTypeOK, ScriptEnds, Worker
<1>2. Answers(w)
  BY <1>0, MoveAnswers DEF ScriptEnds, Handling, Phases
<1> QED
  BY <1>1, <1>2, AnswersInv

LEMMA ContextEndsInv ==
  ASSUME AgentInv, NEW w \in Workers, ContextEnds(w)
  PROVE  AgentInv'
<1> USE DEF AgentInv, remoteVars
<1>0. /\ workers' \in [Workers -> Worker]
      /\ workers'[w].pc = "reap" /\ workers'[w].task = workers[w].task
      /\ workers'[w].held = workers[w].held
      /\ \A v \in Workers \ {w} : workers'[v] = workers[v]
  BY GotoFacts, ReturnFacts, WorkersType DEF ContextEnds, Phases
<1>1. AgentTypeOK'
  BY <1>0 DEF AgentTypeOK, ContextEnds, Worker
<1>2. Answers(w)
  BY <1>0, MoveAnswers DEF ContextEnds, Handling, Phases
<1> QED
  BY <1>1, <1>2, AnswersInv

LEMMA TrackInv ==
  ASSUME AgentInv, NEW w \in Workers, Track(w)
  PROVE  AgentInv'
<1> USE DEF AgentInv, remoteVars
<1>0. /\ workers' \in [Workers -> Worker]
      /\ workers'[w].pc \in {"bill", "error"} /\ workers'[w].task = workers[w].task
      /\ workers'[w].held = workers[w].held
      /\ \A v \in Workers \ {w} : workers'[v] = workers[v]
  BY GotoFacts, ReturnFacts, WorkersType DEF Track, Phases
<1>a. workers[w].task \in Tasks
  BY DEF HasTask, Handling, Phases, Track
<1>1. AgentTypeOK'
  BY <1>0, <1>a, AgentAssumption DEF AgentTypeOK, Track, Worker, Jobs
<1>2. Answers(w)
  BY <1>0, <1>a, AgentAssumption DEF AgentTypeOK, Answers, Track, Pays, Reaps, Ends,
      Lists, Handling, Phases, Jobs
<1> QED
  BY <1>1, <1>2, AnswersInv

LEMMA DownloadInputFilesInv ==
  ASSUME AgentInv, NEW w \in Workers, DownloadInputFiles(w)
  PROVE  AgentInv'
<1> USE DEF AgentInv, remoteVars
<1>0. /\ workers' \in [Workers -> Worker]
      /\ workers'[w].pc \in {"error", "exec"} /\ workers'[w].task = workers[w].task
      /\ workers'[w].held = workers[w].held
      /\ \A v \in Workers \ {w} : workers'[v] = workers[v]
  BY GotoFacts, ReturnFacts, WorkersType DEF DownloadInputFiles, Phases
<1>a. workers[w].task \in Tasks
  BY DEF HasTask, Handling, Phases, DownloadInputFiles
<1>1. AgentTypeOK'
  <2>1. /\ status' \in {status, [status EXCEPT ![workers[w].task] = "running"]}
        /\ metrics' \in {metrics, [metrics EXCEPT ![workers[w].task] = "on"]}
        /\ UNCHANGED <<stage, jobQueue, offered, helpers, activeJobs, expired, remoteVars>>
    BY DEF DownloadInputFiles
  <2> QED
    BY <1>0, <1>a, <2>1 DEF AgentTypeOK, Worker
<1>2. Answers(w)
  BY <1>0, <1>a, AgentAssumption DEF AgentTypeOK, Answers, DownloadInputFiles, Pays,
      Reaps, Ends, Lists, Handling, Phases, Jobs
<1> QED
  BY <1>1, <1>2, AnswersInv

LEMMA CreateContainerInv ==
  ASSUME AgentInv, NEW w \in Workers, CreateContainer(w)
  PROVE  AgentInv'
<1> USE DEF AgentInv, remoteVars
<1>0. /\ workers' \in [Workers -> Worker]
      /\ workers'[w].pc \in {"error", "start"} /\ workers'[w].task = workers[w].task
      /\ workers'[w].held = workers[w].held
      /\ \A v \in Workers \ {w} : workers'[v] = workers[v]
  BY GotoFacts, ReturnFacts, WorkersType DEF CreateContainer, Phases
<1>a. workers[w].task \in Tasks
  BY DEF HasTask, Handling, Phases, CreateContainer
<1>1. AgentTypeOK'
  <2>1. /\ container' \in {container, container \cup {workers[w].task}}
        /\ faults' \in {faults, faults \cup {<<"docker", workers[w].task>>}}
        /\ UNCHANGED <<stage, jobQueue, offered, helpers, status, activeJobs, expired,
                       metrics, session>>
    BY DEF CreateContainer
  <2> QED
    BY <1>0, <1>a, <2>1 DEF AgentTypeOK, Worker
<1>2. Answers(w)
  <2>1. CASE EndExecution(w, "error", FALSE) /\ UNCHANGED <<container, faults>>
    BY <1>0, <2>1, MoveAnswers DEF CreateContainer, Handling, Phases
  <2>2. CASE MoveTo(w, "start") /\ container' = container \cup {workers[w].task}
    <3>1. workers'[w].pc = "start"
      BY <2>2, GotoFacts DEF Phases
    <3> QED
      BY <1>0, <1>a, <2>2, <3>1 DEF Answers, CreateContainer, Pays, Reaps, Ends, Lists,
         Handling, Phases
  <2>3. CASE /\ EndExecution(w, "error", FALSE)
             /\ container' = container \cup {workers[w].task}
             /\ faults' = faults \cup {<<"docker", workers[w].task>>}
    <3>1. workers'[w].pc = "error"
      BY <2>3, ReturnFacts DEF Phases
    <3> QED
      BY <1>0, <1>a, <2>3, <3>1 DEF Answers, CreateContainer, Pays, Reaps, Ends, Lists,
         Handling, Phases
  <2> QED
    BY <2>1, <2>2, <2>3 DEF CreateContainer
<1> QED
  BY <1>1, <1>2, AnswersInv

LEMMA CleanupContainerInv ==
  ASSUME AgentInv, NEW w \in Workers, CleanupContainer(w)
  PROVE  AgentInv'
<1> USE DEF AgentInv, remoteVars
<1>0. /\ workers' \in [Workers -> Worker]
      /\ workers'[w].pc \in {"finish", "error"} /\ workers'[w].task = workers[w].task
      /\ workers'[w].held = workers[w].held
      /\ \A v \in Workers \ {w} : workers'[v] = workers[v]
  BY GotoFacts, ReturnFacts, WorkersType DEF CleanupContainer, Phases
<1>a. workers[w].task \in Tasks
  BY DEF HasTask, Handling, Phases, CleanupContainer
<1>1. AgentTypeOK'
  <2>1. /\ container' \subseteq container
        /\ faults' \in {faults, faults \cup {<<"docker", workers[w].task>>}}
        /\ UNCHANGED <<stage, jobQueue, offered, helpers, status, activeJobs, expired,
                       metrics, session>>
    BY DEF CleanupContainer
  <2> QED
    BY <1>0, <1>a, <2>1 DEF AgentTypeOK, Worker
<1>2. Answers(w)
  BY <1>0, <1>a, AgentAssumption DEF AgentTypeOK, Answers, CleanupContainer, Pays,
      Reaps, Ends, Lists, Handling, Phases, Jobs
<1> QED
  BY <1>1, <1>2, AnswersInv

LEMMA FinishInv ==
  ASSUME AgentInv, NEW w \in Workers, Finish(w)
  PROVE  AgentInv'
<1> USE DEF AgentInv, remoteVars
<1>0. /\ workers' \in [Workers -> Worker]
      /\ workers'[w].pc = "settle" /\ workers'[w].task = workers[w].task
      /\ workers'[w].held = workers[w].held
      /\ \A v \in Workers \ {w} : workers'[v] = workers[v]
  BY GotoFacts, ReturnFacts, WorkersType DEF Finish, Phases
<1>a. workers[w].task \in Tasks
  BY DEF HasTask, Handling, Phases, Finish
<1>1. AgentTypeOK'
  BY <1>0, <1>a, AgentAssumption DEF AgentTypeOK, Finish, Worker, Jobs
<1>2. Answers(w)
  BY <1>0, <1>a, AgentAssumption DEF AgentTypeOK, Answers, Finish, Pays, Reaps, Ends,
      Lists, Handling, Phases, Jobs
<1> QED
  BY <1>1, <1>2, AnswersInv

LEMMA HandleTaskErrorInv ==
  ASSUME AgentInv, NEW w \in Workers, HandleTaskError(w)
  PROVE  AgentInv'
<1> USE DEF AgentInv, remoteVars
<1>0. /\ workers' \in [Workers -> Worker]
      /\ workers'[w].pc = "settle" /\ workers'[w].task = workers[w].task
      /\ workers'[w].held = workers[w].held
      /\ \A v \in Workers \ {w} : workers'[v] = workers[v]
  BY GotoFacts, ReturnFacts, WorkersType DEF HandleTaskError, Phases
<1>a. workers[w].task \in Tasks
  BY DEF HasTask, Handling, Phases, HandleTaskError
<1>1. AgentTypeOK'
  BY <1>0, <1>a, AgentAssumption DEF AgentTypeOK, HandleTaskError, Worker, Jobs
<1>2. Answers(w)
  BY <1>0, <1>a, AgentAssumption DEF AgentTypeOK, Answers, HandleTaskError, Pays,
      Reaps, Ends, Lists, Handling, Phases, Jobs
<1> QED
  BY <1>1, <1>2, AnswersInv

LEMMA EndBillingSessionInv ==
  ASSUME AgentInv, NEW w \in Workers, EndBillingSession(w)
  PROVE  AgentInv'
<1> USE DEF AgentInv, remoteVars
<1>0. /\ workers' \in [Workers -> Worker]
      /\ workers'[w].pc = "leave" /\ workers'[w].task = workers[w].task
      /\ workers'[w].held = workers[w].held
      /\ \A v \in Workers \ {w} : workers'[v] = workers[v]
  BY GotoFacts, ReturnFacts, WorkersType DEF EndBillingSession, Phases
<1>a. workers[w].task \in Tasks
  BY DEF HasTask, Handling, Phases, EndBillingSession
<1>1. AgentTypeOK'
  BY <1>0, <1>a, AgentAssumption DEF AgentTypeOK, EndBillingSession, Worker, Jobs
<1>2. Answers(w)
  BY <1>0, <1>a, AgentAssumption DEF AgentTypeOK, Answers, EndBillingSession, Pays,
      Reaps, Ends, Lists, Handling, Phases, Jobs
<1> QED
  BY <1>1, <1>2, AnswersInv

LEMMA StartBillingSessionInv ==
  ASSUME AgentInv, NEW w \in Workers, StartBillingSession(w)
  PROVE  AgentInv'
<1> USE DEF AgentInv, remoteVars
<1> DEFINE t == workers[w].task
<1>u. /\ workers[w].pc = "bill"
      /\ UNCHANGED <<stage, jobQueue, offered, helpers, status, activeJobs, expired, metrics>>
  BY DEF StartBillingSession
<1>a. t \in Tasks
  BY <1>u DEF HasTask, Handling, Phases
<1>1. CASE \E phase \in {"fetch", "error"} : MoveTo(w, phase) /\ UNCHANGED remoteVars
  <2>1. PICK phase \in {"fetch", "error"} : MoveTo(w, phase) /\ UNCHANGED remoteVars
    BY <1>1
  <2>2. /\ workers' \in [Workers -> Worker]
        /\ workers'[w].pc = phase /\ workers'[w].task = t
        /\ workers'[w].held = workers[w].held
        /\ \A v \in Workers \ {w} : workers'[v] = workers[v]
    BY <2>1, GotoFacts DEF Phases
  <2>3. AgentTypeOK'
    BY <1>u, <2>1, <2>2 DEF AgentTypeOK, Worker
  <2>4. Answers(w)
    BY <1>u, <2>1, <2>2, MoveAnswers DEF Handling, Phases
  <2> QED
    BY <2>3, <2>4, AnswersInv
<1>2. CASE /\ session' = [session EXCEPT ![t] = "open"]
           /\ workers' = [workers EXCEPT ![w].pc = "fetch", ![w].held = TRUE]
           /\ UNCHANGED <<faults, container>>
  <2>1. workers \in [Workers -> Worker] /\ workers[w] \in Worker
    BY WorkersType
  <2>2. /\ workers' \in [Workers -> Worker]
        /\ workers'[w].pc = "fetch" /\ workers'[w].task = t /\ workers'[w].held
        /\ \A v \in Workers \ {w} : workers'[v] = workers[v]
    BY <1>2, <2>1 DEF Worker, Phases
  <2>3. AgentTypeOK'
    BY <1>a, <1>u, <1>2, <2>2 DEF AgentTypeOK, Worker
  <2>4. Answers(w)
    BY <1>a, <1>u, <1>2, <2>2 DEF AgentTypeOK, Answers, Pays, Reaps, Ends, Lists,
        Handling, Phases
  <2> QED
    BY <2>3, <2>4, AnswersInv
<1>3. CASE /\ session' = [session EXCEPT ![t] = "open"]
           /\ MoveTo(w, "error") /\ faults' = faults \cup {<<"billing", t>>}
           /\ UNCHANGED container
  <2>2. /\ workers' \in [Workers -> Worker]
        /\ workers'[w].pc = "error" /\ workers'[w].task = t
        /\ workers'[w].held = workers[w].held
        /\ \A v \in Workers \ {w} : workers'[v] = workers[v]
    BY <1>3, GotoFacts DEF Phases
  <2>3. AgentTypeOK'
    BY <1>a, <1>u, <1>3, <2>2 DEF AgentTypeOK, Worker
  <2>4. Answers(w)
    BY <1>a, <1>u, <1>3, <2>2 DEF AgentTypeOK, Answers, Pays, Reaps, Ends, Lists,
        Handling, Phases
  <2> QED
    BY <2>3, <2>4, AnswersInv
<1> QED
  BY <1>1, <1>2, <1>3 DEF StartBillingSession

LEMMA LeaveInv ==
  ASSUME AgentInv, NEW w \in Workers, Leave(w)
  PROVE  AgentInv'
<1> USE DEF AgentInv, remoteVars
<1>0. /\ workers' \in [Workers -> Worker] /\ workers'[w].pc = "boot"
      /\ \A v \in Workers \ {w} : workers'[v] = workers[v]
  BY IdleType, WorkersType DEF Leave, Idle
<1>a. workers[w].task \in Tasks /\ JobID[workers[w].task] \in Jobs
  BY AgentAssumption DEF Leave, HasTask, Handling, Phases, Jobs
<1>1. AgentTypeOK'
  BY <1>0, <1>a DEF AgentTypeOK, Leave, Worker
<1>2. Answers(w)
  BY <1>0, <1>a DEF AgentTypeOK, Answers, Leave, Pays, Reaps, Ends, Lists, Handling
<1> QED
  BY <1>1, <1>2, AnswersInv
-----------------------------------------------------------------------------
(* Steps of main, of the background goroutines and of the outside.          *)
LEMMA OtherInv ==
  ASSUME AgentInv, AgentTypeOK', UNCHANGED <<workers, status, activeJobs, remoteVars>>,
         stage' = "stopped" => stage = "stopped" \/ AllDone
  PROVE  AgentInv'
<1> USE DEF AgentInv, remoteVars
<1>1. HasTask' /\ Paid' /\ Reaped' /\ Ended' /\ Listed'
  BY DEF HasTask, Paid, Reaped, Ended, Listed
<1>2. Stopped'
  BY DEF Stopped, AllDone
<1> QED
  BY <1>1, <1>2

LEMMA MainInv ==
  ASSUME AgentInv, Initialize \/ ShutdownCancel \/ ShutdownStep
  PROVE  AgentInv'
<1> USE DEF AgentInv, Initialize, ShutdownCancel, ShutdownStep, ShutdownClose, ShutdownDone
<1>1. AgentTypeOK'
  BY DEF AgentTypeOK, remoteVars
<1> QED
  BY <1>1, OtherInv

LEMMA TaskInv ==
  ASSUME AgentInv, NEW t \in Tasks, Offer(t) \/ Expire(t) \/ MetricsStop(t)
  PROVE  AgentInv'
<1>1. CASE Offer(t)
  <2>1. jobQueue' \in Seq(Tasks) /\ Len(jobQueue') <= QueueCap
    BY <1>1, AgentAssumption DEF AgentInv, AgentTypeOK, Offer
  <2>2. AgentTypeOK'
    BY <1>1, <2>1 DEF AgentInv, AgentTypeOK, Offer, remoteVars
  <2> QED
    BY <1>1, <2>2, OtherInv DEF Offer
<1>2. CASE Expire(t) \/ MetricsStop(t)
  <2>1. AgentTypeOK'
    BY <1>2 DEF AgentInv, AgentTypeOK, Expire, MetricsStop, remoteVars
  <2> QED
    BY <1>2, <2>1, OtherInv DEF Expire, MetricsStop
<1> QED
  BY <1>1, <1>2

LEMMA HelperInv ==
  ASSUME AgentInv, NEW h \in Helpers, HelperStart(h) \/ HelperStop(h)
  PROVE  AgentInv'
<1>1. AgentTypeOK'
  BY DEF AgentInv, AgentTypeOK, HelperStart, HelperStop, remoteVars
<1> QED
  BY <1>1, OtherInv DEF HelperStart, HelperStop

LEMMA StepInv == AgentInv /\ [AgentNext]_agentVars => AgentInv'
<1> SUFFICES ASSUME AgentInv, [AgentNext]_agentVars PROVE AgentInv'
  OBVIOUS
<1>1. ASSUME NEW w \in Workers, WorkerStep(w) \/ Take(w) \/ ScriptEnds(w) \/ ContainerEnds(w)
      PROVE  AgentInv'
  BY <1>1, BootInv, QuitInv, TakeInv, TrackInv, StartBillingSessionInv,
     DownloadInputFilesInv, ExecuteScriptInv, PullImageInv, CreateContainerInv,
     StartContainerInv, ScriptEndsInv, ContainerEndsInv, ContextEndsInv, CleanupContainerInv,
     FinishInv, HandleTaskErrorInv, EndBillingSessionInv, LeaveInv DEF WorkerStep
<1>2. CASE UNCHANGED agentVars
  <2>1. AgentTypeOK'
    BY <1>2 DEF AgentInv, AgentTypeOK, agentVars
  <2> QED
    BY <1>2, <2>1, OtherInv DEF agentVars, remoteVars
<1> QED
  BY <1>1, <1>2, MainInv, TaskInv, HelperInv DEF AgentNext

LEMMA Invariant == AgentSpec => []AgentInv
BY AgentInitInv, StepInv, PTL DEF AgentSpec

(* The agent's maps, queue and goroutines stay in states the code names;    *)
(* the queue never exceeds its capacity.                                    *)
THEOREM AgentTypeCorrect == AgentSpec => []AgentTypeOK
<1>1. AgentInv => AgentTypeOK
  BY DEF AgentInv
<1> QED
  BY <1>1, Invariant, PTL

(* Every way out of executeTask settles the billing session it holds, with  *)
(* any number of workers and tasks, unless a call about the session failed. *)
THEOREM SessionsSettledCorrect == AgentSpec => []SessionsSettled
<1>1. AgentInv => SessionsSettled
  BY DEF AgentInv, Paid, Pays, SessionsSettled, Executing
<1> QED
  BY <1>1, Invariant, PTL

(* Every container is removed by the worker that made it, unless its        *)
(* removal failed, or ContainerCreate made it and reported an error, when   *)
(* executeDockerTask has not deferred the cleanup yet.                      *)
THEOREM ContainersReapedCorrect == AgentSpec => []ContainersReaped
<1>1. AgentInv => ContainersReaped
  BY DEF AgentInv, Reaped, Reaps, ContainersReaped
<1> QED
  BY <1>1, Invariant, PTL

(* When Shutdown returns, nothing is under way (GPUProvider.Shutdown).      *)
THEOREM DrainedCorrect == AgentSpec => []Drained
<1>1. AgentInv => Drained
  BY DEF AgentInv, Stopped, Ended, Ends, Listed, Lists, Handling, Drained
<1> QED
  BY <1>1, Invariant, PTL

(***************************************************************************)
(* The rental service.                                                      *)
(***************************************************************************)
USE DEF Requests, Rentals

(* The two CHOOSE values are a user and a GPU.                              *)
LEMMA Defaults == AnyUser \in Users /\ AnyGPU \in GPUs /\ NoRental \in RentalRow
BY RentalAssumption DEF AnyUser, AnyGPU, NoRental, RentalRow

(* Time that has passed is never charged with a negative amount.            *)
LEMMA CostNat ==
  ASSUME NEW h \in Nat, NEW g \in GPUs
  PROVE  EstimatedCost(h, g) \in Nat
<1>1. Price[g] \in Nat
  BY RentalAssumption
<1>2. \A a, b \in Nat : a * b \in Nat
  OBVIOUS
<1> QED
  BY <1>1, <1>2 DEF EstimatedCost

(* A renter may ask for fewer hours than none.                              *)
LEMMA CostInt ==
  ASSUME NEW h \in Int, NEW g \in GPUs
  PROVE  EstimatedCost(h, g) \in Int
<1>1. Price[g] \in Int
  BY RentalAssumption
<1>2. \A a, b \in Int : a * b \in Int
  OBVIOUS
<1> QED
  BY <1>1, <1>2 DEF EstimatedCost

(* What makes TypeOK and NoGPUStranded inductive: start times are past, so  *)
(* that a stop charges no negative amount; a rental that exists was created *)
(* by a request that has returned, so that no reservation overwrites one;   *)
(* and a stop that is under way names a rental that exists.                 *)
Past ==
  /\ \A i \in Rentals : rental[i].start <= now
  /\ \A r \in Requests : since[r] <= now

Created ==
  /\ \A i \in Rentals : rental[i].status # "none" => pc[i] = "done"
  /\ \A r \in Requests : pc[r] = "StopRental" =>
        rental[arg[r].rental].status # "none"

IInv == TypeOK /\ Past /\ Created /\ NoGPUStranded

LEMMA InitInv == Init => IInv
BY Defaults, RentalAssumption
DEF Init, IInv, TypeOK, Past, Created, NoGPUStranded, Open, NoRental, Args, Calls

(* A request arrives.                                                       *)
LEMMA Received ==
  ASSUME NEW r \in Requests, Arrive(r)
  PROVE  \E o \in {"create", "start", "stop"}, u \in Users, g \in GPUs, h \in Int,
            i \in Rentals : Receive(r, o, u, g, h, i)
BY RentalAssumption, Defaults DEF Arrive

LEMMA ArriveInv ==
  ASSUME IInv, NEW r \in Requests, Arrive(r)
  PROVE  IInv'
<1>1. PICK o \in {"create", "start", "stop"}, u \in Users, g \in GPUs, h \in Int,
           i \in Rentals : Receive(r, o, u, g, h, i)
  BY Received
<1>2. Entry[o] \in {"CheckGPU", "StartRental", "GetRental"}
  BY DEF Entry
<1>3. TypeOK'
  BY <1>1, <1>2 DEF IInv, TypeOK, Receive, Args, Calls
<1>4. Past' /\ NoGPUStranded'
  BY <1>1 DEF IInv, Past, NoGPUStranded, Open, Receive
<1>5. Created'
  BY <1>1, <1>2 DEF IInv, TypeOK, Created, Receive
<1> QED
  BY <1>3, <1>4, <1>5 DEF IInv

(* A handler goes on to another call, or returns, and writes no table.      *)
LEMMA GotoInv ==
  ASSUME IInv, NEW r \in Requests, Running(r),
         NEW c \in {"CheckBalance", "Reserve", "done"}, Goto(r, c),
         UNCHANGED <<gpu, balance, rental, now, since, stops, serial>>
  PROVE  IInv'
<1>1. TypeOK'
  BY DEF IInv, TypeOK, Goto, Calls
<1>2. Past' /\ NoGPUStranded'
  BY DEF IInv, Past, NoGPUStranded, Open
<1>3. Created'
  BY DEF IInv, TypeOK, Created, Goto, Running, Calls
<1> QED
  BY <1>1, <1>2, <1>3 DEF IInv

LEMMA ReserveInv ==
  ASSUME IInv, NEW r \in Requests, Reserve(r)
  PROVE  IInv'
<1> DEFINE row == [NoRental EXCEPT !.status = "pending", !.user = arg[r].user,
                                   !.gpu = arg[r].gpu]
<1>1. /\ arg[r].user \in Users /\ arg[r].gpu \in GPUs
      /\ rental[r].status = "none"
  BY DEF IInv, TypeOK, Args, Created, Reserve
<1>2. /\ row \in RentalRow
      /\ row.status = "pending" /\ row.gpu = arg[r].gpu /\ row.start = 0
  BY <1>1, Defaults DEF RentalRow, NoRental
<1>3. /\ rental' = [rental EXCEPT ![r] = row]
      /\ gpu' = [gpu EXCEPT ![arg[r].gpu] = "busy"]
      /\ pc' = [pc EXCEPT ![r] = "done"]
      /\ UNCHANGED <<arg, balance, now, since, stops, serial>>
  BY DEF Reserve, Return, Goto
<1> HIDE DEF row
<1>4. TypeOK'
  BY <1>1, <1>2, <1>3 DEF IInv, TypeOK
<1>5. Past'
  BY <1>2, <1>3 DEF IInv, TypeOK, Past
<1>6. Created'
  BY <1>2, <1>3 DEF IInv, TypeOK, Created, Args
<1>7. NoGPUStranded'
  <2> SUFFICES ASSUME NEW g \in GPUs, gpu'[g] = "busy"
               PROVE  \E i \in Rentals : Open(i)' /\ rental'[i].gpu = g
    BY DEF NoGPUStranded
  <2>1. CASE g = arg[r].gpu
    BY <1>2, <1>3, <2>1 DEF IInv, TypeOK, Open
  <2>2. CASE g # arg[r].gpu
    <3>1. gpu[g] = "busy"
      BY <1>3, <2>2 DEF IInv, TypeOK
    <3>2. PICK i \in Rentals : Open(i) /\ rental[i].gpu = g
      BY <3>1 DEF IInv, NoGPUStranded
    <3>3. i # r
      BY <1>1, <3>2 DEF Open
    <3> QED
      BY <1>3, <3>2, <3>3 DEF IInv, TypeOK, Open
  <2> QED
    BY <2>1, <2>2
<1> QED
  BY <1>4, <1>5, <1>6, <1>7 DEF IInv

LEMMA StartRentalInv ==
  ASSUME IInv, NEW r \in Requests, StartRental(r)
  PROVE  IInv'
<1> DEFINE i == arg[r].rental
           matches == rental[i].user = arg[r].user /\ rental[i].status = "pending"
           row == [rental[i] EXCEPT
                     !.status = IF matches THEN "running" ELSE @,
                     !.start = IF matches THEN now ELSE @,
                     !.connected = TRUE]
<1>1. i \in Rentals /\ rental[i] \in RentalRow /\ now \in Nat
  BY DEF IInv, TypeOK, Args
<1>2. /\ row \in RentalRow
      /\ row.gpu = rental[i].gpu /\ row.start \in {now, rental[i].start}
      /\ row.status = "none" <=> rental[i].status = "none"
      /\ row.status \in {"pending", "running"}
           <=> rental[i].status \in {"pending", "running"}
  BY <1>1 DEF RentalRow
<1>3. /\ rental' = [rental EXCEPT ![i] = row]
      /\ pc[r] = "StartRental" /\ pc' = [pc EXCEPT ![r] = "done"]
      /\ UNCHANGED <<arg, gpu, balance, now, since, stops, serial>>
  BY <1>1 DEF StartRental, Return, Goto, IInv, TypeOK, RentalRow
<1> HIDE DEF row, i
<1>4. TypeOK'
  BY <1>1, <1>2, <1>3 DEF IInv, TypeOK
<1>5. Past'
  BY <1>1, <1>2, <1>3 DEF IInv, TypeOK, Past, RentalRow
<1>6. Created'
  BY <1>1, <1>2, <1>3 DEF IInv, TypeOK, Created, Args
<1>7. NoGPUStranded'
  <2>1. \A k \in Rentals : /\ Open(k)' <=> Open(k)
                           /\ rental'[k].gpu = rental[k].gpu
    BY <1>1, <1>2, <1>3 DEF IInv, TypeOK, Open
  <2> QED
    BY <1>3, <2>1 DEF IInv, NoGPUStranded
<1> QED
  BY <1>4, <1>5, <1>6, <1>7 DEF IInv

LEMMA GetRentalInv ==
  ASSUME IInv, NEW r \in Requests, GetRental(r)
  PROVE  IInv'
<1>1. arg[r].rental \in Rentals /\ rental[arg[r].rental] \in RentalRow
  BY DEF IInv, TypeOK, Args
<1>2. PICK c \in {"StopRental", "done"}, t \in Nat :
        /\ pc[r] = "GetRental" /\ pc' = [pc EXCEPT ![r] = c]
        /\ since' = [since EXCEPT ![r] = t]
        /\ t \in {since[r], rental[arg[r].rental].start}
        /\ c = "StopRental" => rental[arg[r].rental].status = "running"
        /\ UNCHANGED <<arg, gpu, balance, rental, now, stops, serial>>
  <2>1. CASE /\ rental[arg[r].rental].user = arg[r].user
             /\ rental[arg[r].rental].status = "running"
    BY <1>1, <2>1 DEF GetRental, Goto, RentalRow
  <2>2. CASE ~ (/\ rental[arg[r].rental].user = arg[r].user
                /\ rental[arg[r].rental].status = "running")
    <3>1. since' = [since EXCEPT ![r] = since[r]] /\ since[r] \in Nat
      BY <2>2 DEF GetRental, IInv, TypeOK
    <3> QED
      BY <2>2, <3>1 DEF GetRental, Return, Goto
  <2> QED
    BY <2>1, <2>2
<1>3. TypeOK'
  BY <1>2 DEF IInv, TypeOK, Calls
<1>4. Past'
  BY <1>1, <1>2 DEF IInv, TypeOK, Past
<1>5. Created'
  BY <1>2 DEF IInv, TypeOK, Created
<1>6. NoGPUStranded'
  BY <1>2 DEF IInv, NoGPUStranded, Open
<1> QED
  BY <1>3, <1>4, <1>5, <1>6 DEF IInv

LEMMA StopRentalInv ==
  ASSUME IInv, NEW r \in Requests, StopRental(r)
  PROVE  IInv'
<1> DEFINE i == arg[r].rental
           g == rental[i].gpu
           u == arg[r].user
           cost == EstimatedCost(now - since[r], g)
           row == [rental[i] EXCEPT !.status = "completed"]
<1>1. i \in Rentals /\ rental[i] \in RentalRow /\ g \in GPUs /\ u \in Users
  BY DEF IInv, TypeOK, Args, RentalRow
<1>2. cost \in Nat
  <2>1. now - since[r] \in Nat
    BY DEF IInv, TypeOK, Past
  <2> QED
    BY <1>1, <2>1, CostNat
<1>3. /\ row \in RentalRow /\ row.status = "completed"
      /\ row.gpu = rental[i].gpu /\ row.start = rental[i].start
  BY <1>1 DEF RentalRow
<1>4. /\ rental' = [rental EXCEPT ![i] = row]
      /\ gpu' = [gpu EXCEPT ![g] = "available"]
      /\ balance' = [balance EXCEPT ![u] = @ - cost]
      /\ stops' = [stops EXCEPT ![i] = @ + 1]
      /\ pc[r] = "StopRental" /\ pc' = [pc EXCEPT ![r] = "done"]
      /\ UNCHANGED <<arg, now, since, serial>>
  BY <1>1 DEF StopRental, Return, Goto, IInv, TypeOK, RentalRow
<1> HIDE DEF row, cost, i, u
<1>5. TypeOK'
  <2>1. balance' \in [Users -> {b \in Int : b <= InitialBalance}]
    <3>1. InitialBalance \in Int /\ cost \in Int /\ cost >= 0
      BY <1>2, RentalAssumption
    <3>2. balance[u] \in Int /\ balance[u] <= InitialBalance
      BY <1>1 DEF IInv, TypeOK
    <3>3. balance[u] - cost \in {b \in Int : b <= InitialBalance}
      BY <3>1, <3>2
    <3> QED
      BY <1>1, <1>4, <3>3 DEF IInv, TypeOK
  <2>2. stops' \in [Rentals -> Nat]
    <3>1. stops \in [Rentals -> Nat] /\ stops[i] + 1 \in Nat
      BY <1>1 DEF IInv, TypeOK
    <3> QED
      BY <1>1, <1>4, <3>1
  <2> QED
    BY <1>1, <1>3, <1>4, <2>1, <2>2 DEF IInv, TypeOK
<1>6. Past'
  BY <1>1, <1>3, <1>4 DEF IInv, TypeOK, Past
<1>7. Created'
  <2>1. pc[i] = "done"
    BY <1>1, <1>4 DEF IInv, Created, i
  <2> QED
    BY <1>1, <1>3, <1>4, <2>1 DEF IInv, TypeOK, Created, Args
<1>8. NoGPUStranded'
  <2> SUFFICES ASSUME NEW h \in GPUs, gpu'[h] = "busy"
               PROVE  \E k \in Rentals : Open(k)' /\ rental'[k].gpu = h
    BY DEF NoGPUStranded
  <2>1. h # g /\ gpu[h] = "busy"
    BY <1>1, <1>4 DEF IInv, TypeOK
  <2>2. PICK k \in Rentals : Open(k) /\ rental[k].gpu = h
    BY <2>1 DEF IInv, NoGPUStranded
  <2>3. k # i
    BY <2>1, <2>2
  <2> QED
    BY <1>4, <2>2, <2>3 DEF IInv, TypeOK, Open
<1> QED
  BY <1>5, <1>6, <1>7, <1>8 DEF IInv

LEMMA TickInv ==
  ASSUME IInv, Tick
  PROVE  IInv'
<1>1. TypeOK'
  BY DEF IInv, TypeOK, Tick
<1>2. Past'
  BY DEF IInv, TypeOK, Past, Tick, RentalRow
<1>3. Created' /\ NoGPUStranded'
  BY DEF IInv, Created, NoGPUStranded, Open, Tick
<1> QED
  BY <1>1, <1>2, <1>3 DEF IInv

LEMMA NextInv == IInv /\ [Next]_vars => IInv'
<1> SUFFICES ASSUME IInv, [Next]_vars
             PROVE  IInv'
  OBVIOUS
<1>1. ASSUME NEW r \in Requests, Arrive(r) PROVE IInv'
  BY <1>1, ArriveInv
<1>2. ASSUME NEW r \in Requests, CheckGPU(r) PROVE IInv'
  BY <1>2, GotoInv DEF CheckGPU, Return, Running, Calls
<1>3. ASSUME NEW r \in Requests, CheckBalance(r) PROVE IInv'
  BY <1>3, GotoInv DEF CheckBalance, Return, Running, Calls
<1>4. ASSUME NEW r \in Requests, Reserve(r) PROVE IInv'
  BY <1>4, ReserveInv
<1>5. ASSUME NEW r \in Requests, StartRental(r) PROVE IInv'
  BY <1>5, StartRentalInv
<1>6. ASSUME NEW r \in Requests, GetRental(r) PROVE IInv'
  BY <1>6, GetRentalInv
<1>7. ASSUME NEW r \in Requests, StopRental(r) PROVE IInv'
  BY <1>7, StopRentalInv
<1>8. ASSUME NEW r \in Requests, Fail(r) PROVE IInv'
  BY <1>8, GotoInv DEF Fail, Return
<1>9. CASE Tick
  BY <1>9, TickInv
<1>10. CASE Quiet \/ UNCHANGED vars
  <2>1. UNCHANGED vars
    BY <1>10 DEF Quiet
  <2>2. TypeOK' /\ Past'
    BY <2>1 DEF vars, IInv, TypeOK, Past
  <2>3. Created' /\ NoGPUStranded'
    BY <2>1 DEF vars, IInv, Created, NoGPUStranded, Open
  <2> QED
    BY <2>2, <2>3 DEF IInv
<1> QED
  BY <1>1, <1>2, <1>3, <1>4, <1>5, <1>6, <1>7, <1>8, <1>9, <1>10
  DEF Next, Handler

(* The tables keep their types and no stop credits a renter, whatever the   *)
(* handlers of createRental, startRental and stopRental interleave.         *)
THEOREM TypeCorrect == Spec => []TypeOK
<1>1. IInv => TypeOK
  BY DEF IInv
<1> QED
  BY InitInv, NextInv, <1>1, PTL DEF Spec

(* A GPU that createRental marked busy always has an open rental: the       *)
(* transactions of rental-service strand no GPU, although two of them may   *)
(* rent out the same one.                                                   *)
THEOREM NoGPUStrandedCorrect == Spec => []NoGPUStranded
<1>1. IInv => NoGPUStranded
  BY DEF IInv
<1> QED
  BY InitInv, NextInv, <1>1, PTL DEF Spec

LEMMA ForwardStep == IInv /\ [Next]_vars => [\A i \in Rentals : Forward(i)]_rental
<1> SUFFICES ASSUME IInv, [Next]_vars, NEW i \in Rentals, rental' # rental
             PROVE  Forward(i)
  OBVIOUS
<1>1. PICK r \in Requests : Reserve(r) \/ StartRental(r) \/ StopRental(r)
  BY DEF Next, Handler, vars, Arrive, Receive, CheckGPU, CheckBalance,
         GetRental, Fail, Tick, Quiet
<1>2. rental[i] \in RentalRow /\ arg[r].rental \in Rentals
  BY DEF IInv, TypeOK, Args
<1>3. CASE Reserve(r)
  <2>1. rental[r].status = "none"
    BY <1>3 DEF Reserve, IInv, Created
  <2> QED
    BY <1>3, <2>1 DEF Reserve, Forward, IInv, TypeOK
<1>4. CASE StartRental(r)
  BY <1>2, <1>4 DEF StartRental, Forward, IInv, TypeOK, RentalRow
<1>5. CASE StopRental(r)
  BY <1>2, <1>5 DEF StopRental, Forward, IInv, TypeOK, RentalRow
<1> QED
  BY <1>1, <1>3, <1>4, <1>5

(* No overlap of startRental and stopRental takes a rental back, and none   *)
(* moves the start of one that runs.                                        *)
THEOREM StatusForwardCorrect == Spec => StatusForward
BY InitInv, NextInv, ForwardStep, PTL DEF Spec, StatusForward

(* What makes SerialRentals inductive: as long as no request arrived while  *)
(* another one ran, at most one runs, what it has read still holds, a GPU   *)
(* with an open rental is busy and has no other, and only a rental that is  *)
(* completed has been stopped, once.                                        *)
Single == \A q, r \in Requests : Running(q) /\ Running(r) => q = r

Checked ==
  \A r \in Requests :
    /\ pc[r] \in {"CheckBalance", "Reserve"} => gpu[arg[r].gpu] = "available"
    /\ pc[r] = "StopRental" => rental[arg[r].rental].status = "running"

Charged ==
  \A i \in Rentals : stops[i] <= 1 /\ (stops[i] # 0 => rental[i].status = "completed")

SerialInv == serial => Single /\ Checked /\ OneRentalPerGPU /\ Charged

LEMMA SerialInit == Init => SerialInv
BY Defaults, RentalAssumption
DEF Init, SerialInv, Single, Checked, Charged, OneRentalPerGPU, Running, Calls, Open, NoRental

LEMMA SerialArrive ==
  ASSUME IInv, SerialInv, NEW r \in Requests, Arrive(r)
  PROVE  SerialInv'
<1>1. PICK o \in {"create", "start", "stop"}, u \in Users, g \in GPUs, h \in Int,
           i \in Rentals : Receive(r, o, u, g, h, i)
  BY Received
<1>2. Entry[o] \in {"CheckGPU", "StartRental", "GetRental"}
  BY DEF Entry
<1> SUFFICES ASSUME serial' PROVE Single' /\ Checked' /\ OneRentalPerGPU' /\ Charged'
  BY DEF SerialInv
<1>3. serial /\ \A q \in Requests : ~Running(q)
  BY <1>1, Zenon DEF Receive
<1>4. Single' /\ Checked'
  BY <1>1, <1>2, <1>3 DEF IInv, TypeOK, Receive, Single, Checked, Running, Calls
<1>5. OneRentalPerGPU' /\ Charged'
  BY <1>1, <1>3 DEF SerialInv, Receive, OneRentalPerGPU, Charged, Open
<1> QED
  BY <1>4, <1>5

(* A running request goes on, or returns, and writes no table.              *)
LEMMA SerialGoto ==
  ASSUME IInv, SerialInv, NEW r \in Requests, Running(r),
         NEW c \in {"CheckBalance", "Reserve", "done"}, Goto(r, c),
         c = "CheckBalance" => gpu[arg[r].gpu] = "available",
         c = "Reserve" => pc[r] = "CheckBalance",
         UNCHANGED <<gpu, balance, rental, now, stops, serial>>
  PROVE  SerialInv'
<1> SUFFICES ASSUME serial' PROVE Single' /\ Checked' /\ OneRentalPerGPU' /\ Charged'
  BY DEF SerialInv
<1>1. Single /\ Checked /\ OneRentalPerGPU /\ Charged
  BY DEF SerialInv
<1>2. pc' = [pc EXCEPT ![r] = c] /\ arg' = arg /\ pc \in [Requests -> Calls \cup {"idle", "done"}]
  BY DEF Goto, IInv, TypeOK
<1>3. Single'
  BY <1>1, <1>2 DEF Single, Running
<1>4. Checked'
  BY <1>1, <1>2 DEF Checked
<1>5. OneRentalPerGPU' /\ Charged'
  BY <1>1 DEF OneRentalPerGPU, Charged, Open
<1> QED
  BY <1>3, <1>4, <1>5

LEMMA SerialGetRental ==
  ASSUME IInv, SerialInv, NEW r \in Requests, GetRental(r)
  PROVE  SerialInv'
<1> SUFFICES ASSUME serial' PROVE Single' /\ Checked' /\ OneRentalPerGPU' /\ Charged'
  BY DEF SerialInv
<1>1. /\ Single /\ Checked /\ OneRentalPerGPU /\ Charged
      /\ UNCHANGED <<gpu, rental, stops, arg>>
  BY DEF SerialInv, GetRental, Goto, Return
<1>2. /\ pc \in [Requests -> Calls \cup {"idle", "done"}] /\ Running(r)
      /\ \/ pc' = [pc EXCEPT ![r] = "done"]
         \/ /\ pc' = [pc EXCEPT ![r] = "StopRental"]
            /\ rental[arg[r].rental].status = "running"
  BY DEF IInv, TypeOK, GetRental, Goto, Return, Running, Calls
<1>3. Single'
  BY <1>1, <1>2 DEF Single, Running, Calls
<1>4. Checked'
  BY <1>1, <1>2 DEF Checked
<1>5. OneRentalPerGPU' /\ Charged'
  BY <1>1 DEF OneRentalPerGPU, Charged, Open
<1> QED
  BY <1>3, <1>4, <1>5

(* The transactions return their request, and nobody else runs: whoever     *)
(* writes relies on what it has read alone.                                 *)
LEMMA NobodyRuns ==
  ASSUME IInv, SerialInv, serial, NEW r \in Requests, Running(r), Return(r)
  PROVE  Single' /\ Checked' /\ \A q \in Requests : ~Running(q)'
<1>1. /\ pc' = [pc EXCEPT ![r] = "done"] /\ pc \in [Requests -> Calls \cup {"idle", "done"}]
      /\ Single
  BY DEF Return, Goto, IInv, TypeOK, SerialInv
<1>2. \A q \in Requests : pc'[q] \notin Calls
  BY <1>1 DEF Single, Running, Calls
<1> QED
  BY <1>2 DEF Single, Checked, Running, Calls

LEMMA SerialReserve ==
  ASSUME IInv, SerialInv, NEW r \in Requests, Reserve(r)
  PROVE  SerialInv'
<1> SUFFICES ASSUME serial' PROVE Single' /\ Checked' /\ OneRentalPerGPU' /\ Charged'
  BY DEF SerialInv
<1> DEFINE g == arg[r].gpu
<1>1. serial /\ Running(r) /\ Return(r) /\ pc[r] = "Reserve" /\ stops' = stops
  BY DEF Reserve, Running, Calls
<1>2. OneRentalPerGPU /\ Charged /\ g \in GPUs /\ gpu[g] = "available"
  BY <1>1 DEF SerialInv, Checked, IInv, TypeOK, Args
<1>3. rental[r].status = "none"
  BY <1>1 DEF IInv, Created
<1>4. /\ rental'[r].status = "pending" /\ rental'[r].gpu = g
      /\ \A i \in Rentals : i # r => rental'[i] = rental[i]
      /\ gpu' = [gpu EXCEPT ![g] = "busy"]
  BY Defaults DEF Reserve, IInv, TypeOK, NoRental
<1> HIDE DEF g
<1>5. \A i \in Rentals : Open(i)' => i = r \/ (Open(i) /\ rental[i].gpu # g)
  BY <1>2, <1>4 DEF OneRentalPerGPU, Open
<1>6. OneRentalPerGPU'
  <2>1. \A i \in Rentals : Open(i)' => gpu'[rental'[i].gpu] = "busy"
    BY <1>2, <1>4, <1>5 DEF OneRentalPerGPU, IInv, TypeOK, RentalRow
  <2>2. \A i, k \in Rentals : Open(i)' /\ Open(k)' /\ rental'[k].gpu = rental'[i].gpu => k = i
    BY <1>2, <1>4, <1>5 DEF OneRentalPerGPU
  <2> QED
    BY <2>1, <2>2 DEF OneRentalPerGPU
<1>7. Charged'
  BY <1>1, <1>2, <1>3, <1>4 DEF Charged
<1> QED
  BY <1>1, <1>6, <1>7, NobodyRuns

LEMMA SerialStartRental ==
  ASSUME IInv, SerialInv, NEW r \in Requests, StartRental(r)
  PROVE  SerialInv'
<1> SUFFICES ASSUME serial' PROVE Single' /\ Checked' /\ OneRentalPerGPU' /\ Charged'
  BY DEF SerialInv
<1>1. serial /\ Running(r) /\ Return(r) /\ UNCHANGED <<gpu, stops>>
  BY DEF StartRental, Running, Calls
<1>2. OneRentalPerGPU /\ Charged
  BY <1>1 DEF SerialInv
<1>3. \A i \in Rentals :
        /\ rental'[i].gpu = rental[i].gpu
        /\ \/ rental'[i].status = rental[i].status
           \/ rental[i].status = "pending" /\ rental'[i].status = "running"
  <2> DEFINE i == arg[r].rental
             matches == rental[i].user = arg[r].user /\ rental[i].status = "pending"
             row == [rental[i] EXCEPT
                       !.status = IF matches THEN "running" ELSE @,
                       !.start = IF matches THEN now ELSE @,
                       !.connected = TRUE]
  <2>1. i \in Rentals /\ rental[i] \in RentalRow
    BY DEF IInv, TypeOK, Args
  <2>2. /\ row.gpu = rental[i].gpu
        /\ \/ row.status = rental[i].status
           \/ rental[i].status = "pending" /\ row.status = "running"
    BY <2>1 DEF RentalRow
  <2>3. rental' = [rental EXCEPT ![i] = row]
    BY <2>1 DEF StartRental, IInv, TypeOK, RentalRow
  <2>4. rental \in [Rentals -> RentalRow]
    BY DEF IInv, TypeOK
  <2> HIDE DEF row, i
  <2> QED
    BY <2>1, <2>2, <2>3, <2>4
<1>4. OneRentalPerGPU'
  BY <1>1, <1>2, <1>3 DEF OneRentalPerGPU, Open
<1>5. Charged'
  BY <1>1, <1>2, <1>3 DEF Charged
<1> QED
  BY <1>1, <1>4, <1>5, NobodyRuns

LEMMA SerialStopRental ==
  ASSUME IInv, SerialInv, NEW r \in Requests, StopRental(r)
  PROVE  SerialInv'
<1> SUFFICES ASSUME serial' PROVE Single' /\ Checked' /\ OneRentalPerGPU' /\ Charged'
  BY DEF SerialInv
<1> DEFINE i == arg[r].rental
           g == rental[i].gpu
<1>1. serial /\ Running(r) /\ Return(r) /\ pc[r] = "StopRental"
  BY DEF StopRental, Running, Calls
<1>2. /\ OneRentalPerGPU /\ Charged /\ i \in Rentals /\ g \in GPUs
      /\ rental[i].status = "running"
  BY <1>1 DEF SerialInv, Checked, IInv, TypeOK, Args, RentalRow
<1>3. /\ \A k \in Rentals : rental'[k].gpu = rental[k].gpu
      /\ \A k \in Rentals : k # i => rental'[k].status = rental[k].status
      /\ rental'[i].status = "completed"
      /\ gpu' = [gpu EXCEPT ![g] = "available"]
      /\ stops' = [stops EXCEPT ![i] = @ + 1]
  BY <1>2 DEF StopRental, IInv, TypeOK, RentalRow
<1>4. gpu \in [GPUs -> {"available", "busy"}] /\ stops \in [Rentals -> Nat]
      /\ \A k \in Rentals : rental[k].gpu \in GPUs
  BY DEF IInv, TypeOK, RentalRow
<1>5. \A k \in Rentals : Open(k)' => Open(k) /\ rental[k].gpu # g
  BY <1>2, <1>3 DEF OneRentalPerGPU, Open
<1> HIDE DEF i, g
<1>6. OneRentalPerGPU'
  BY <1>2, <1>3, <1>4, <1>5 DEF OneRentalPerGPU
<1>7. Charged'
  <2>1. stops[i] = 0
    BY <1>2, <1>4 DEF Charged
  <2> QED
    BY <1>2, <1>3, <1>4, <2>1 DEF Charged
<1> QED
  BY <1>1, <1>6, <1>7, NobodyRuns

LEMMA SerialNext == IInv /\ SerialInv /\ [Next]_vars => SerialInv'
<1> SUFFICES ASSUME IInv, SerialInv, [Next]_vars
             PROVE  SerialInv'
  OBVIOUS
<1>1. ASSUME NEW r \in Requests, Arrive(r) PROVE SerialInv'
  BY <1>1, SerialArrive
<1>2. ASSUME NEW r \in Requests, CheckGPU(r) PROVE SerialInv'
  BY <1>2, SerialGoto DEF CheckGPU, Return, Running, Calls
<1>3. ASSUME NEW r \in Requests, CheckBalance(r) PROVE SerialInv'
  BY <1>3, SerialGoto DEF CheckBalance, Return, Running, Calls
<1>4. ASSUME NEW r \in Requests, Fail(r) PROVE SerialInv'
  BY <1>4, SerialGoto DEF Fail, Return
<1>5. CASE Tick \/ Quiet \/ UNCHANGED vars
  <2>1. UNCHANGED <<gpu, rental, pc, arg, stops, serial>>
    BY <1>5 DEF Tick, Quiet, vars
  <2> QED
    BY <2>1 DEF SerialInv, Single, Checked, Charged, OneRentalPerGPU, Running, Open
<1> QED
  BY <1>1, <1>2, <1>3, <1>4, <1>5, SerialGetRental, SerialReserve, SerialStartRental,
     SerialStopRental DEF Next, Handler

(* Without overlap createRental, startRental and stopRental give a GPU to   *)
(* one renter at a time and charge each rental once, for any number of      *)
(* GPUs and requests, wherever statements and commits fail.                 *)
THEOREM SerialRentalsCorrect == Spec => []SerialRentals
<1>1. SerialInv => SerialRentals
  BY DEF SerialInv, SerialRentals, ExclusiveGPU, StoppedOnce, Charged
<1> QED
  BY InitInv, NextInv, SerialInit, SerialNext, <1>1, PTL DEF Spec
-----------------------------------------------------------------------------
(* What the reads of a request are still good for when its transaction      *)
(* runs: a stop has read the start of a rental of its own user, which is    *)
(* running or was stopped by an overlapping stop; and as long as nothing    *)
(* overlaps, the user of a reservation can still pay.                       *)
ReadsHold ==
  /\ \A r \in Requests : pc[r] = "StopRental" =>
       /\ rental[arg[r].rental].status \in {"running", "completed"}
       /\ rental[arg[r].rental].user = arg[r].user
       /\ rental[arg[r].rental].start = since[r]
  /\ \A r \in Requests :
       pc[r] \in {"CheckGPU", "CheckBalance", "Reserve"} => arg[r].hours \in Hours
  /\ serial => \A r \in Requests : pc[r] = "Reserve" =>
       balance[arg[r].user] >= EstimatedCost(arg[r].hours, arg[r].gpu)

LEMMA ReadsInit == Init => ReadsHold
BY DEF Init, ReadsHold

(* A request that arrives has read nothing yet.                             *)
LEMMA ReadsArrive ==
  ASSUME IInv, ReadsHold, NEW r \in Requests, Arrive(r)
  PROVE  ReadsHold'
<1>1. PICK o \in {"create", "start", "stop"}, u \in Users, g \in GPUs, h \in Int,
           i \in Rentals : Receive(r, o, u, g, h, i) /\ (o = "create" => h \in Hours)
  BY RentalAssumption, Defaults DEF Arrive
<1>2. /\ Entry[o] \in {"CheckGPU", "StartRental", "GetRental"}
      /\ Entry[o] = "CheckGPU" => h \in Hours
  BY <1>1 DEF Entry
<1>3. /\ pc' = [pc EXCEPT ![r] = Entry[o]] /\ arg'[r].hours = h
      /\ \A q \in Requests : q # r => arg'[q] = arg[q]
      /\ serial' => serial
      /\ UNCHANGED <<balance, rental, since>>
  BY <1>1 DEF Receive, IInv, TypeOK
<1>4. \A q \in Requests : q # r => pc'[q] = pc[q]
  BY <1>3 DEF IInv, TypeOK
<1>5. pc'[r] = Entry[o]
  BY <1>3 DEF IInv, TypeOK
<1> QED
  BY <1>2, <1>3, <1>4, <1>5 DEF ReadsHold

(* A handler that goes on or returns and writes no table.                   *)
LEMMA ReadsGoto ==
  ASSUME IInv, ReadsHold, NEW r \in Requests, Running(r),
         NEW c \in {"CheckBalance", "Reserve", "done"}, Goto(r, c),
         c \in {"CheckBalance", "Reserve"} => pc[r] \in {"CheckGPU", "CheckBalance"},
         c = "Reserve" => balance[arg[r].user] >= EstimatedCost(arg[r].hours, arg[r].gpu),
         UNCHANGED <<gpu, balance, rental, now, since, serial>>
  PROVE  ReadsHold'
<1>1. /\ pc'[r] = c /\ \A q \in Requests : q # r => pc'[q] = pc[q]
      /\ arg' = arg
  BY DEF Goto, IInv, TypeOK
<1>2. /\ balance' = balance /\ rental' = rental /\ since' = since /\ serial' = serial
  OBVIOUS
<1>3. \A q \in Requests : EstimatedCost(arg'[q].hours, arg'[q].gpu) =
                          EstimatedCost(arg[q].hours, arg[q].gpu)
  BY <1>1
<1> QED
  BY <1>1, <1>2, <1>3 DEF ReadsHold

LEMMA ReadsGetRental ==
  ASSUME IInv, ReadsHold, NEW r \in Requests, GetRental(r)
  PROVE  ReadsHold'
<1>1. \A q \in Requests : q # r => pc'[q] = pc[q] /\ since'[q] = since[q]
  BY DEF GetRental, Goto, Return, IInv, TypeOK
<1>2. /\ pc'[r] \in {"StopRental", "done"}
      /\ pc'[r] = "StopRental" =>
           /\ rental[arg[r].rental].status = "running"
           /\ rental[arg[r].rental].user = arg[r].user
           /\ rental[arg[r].rental].start = since'[r]
  BY DEF GetRental, Goto, Return, IInv, TypeOK
<1>3. UNCHANGED <<arg, balance, rental, serial>>
  BY DEF GetRental, Goto, Return
<1> QED
  BY <1>1, <1>2, <1>3 DEF ReadsHold

(* A transaction returns its request, and changes no row that a stop under  *)
(* way has read but for completing it; as long as nothing overlaps, nobody  *)
(* else runs.                                                               *)
LEMMA ReadsWrite ==
  ASSUME IInv, SerialInv, ReadsHold, NEW r \in Requests, Running(r), Return(r),
         UNCHANGED <<since, serial>>,
         \A i \in Rentals :
           rental[i].status \in {"running", "completed"} =>
             /\ rental'[i].status \in {"running", "completed"}
             /\ rental'[i].user = rental[i].user
             /\ rental'[i].start = rental[i].start
  PROVE  ReadsHold'
<1>1. /\ pc'[r] = "done" /\ \A q \in Requests : q # r => pc'[q] = pc[q]
      /\ arg' = arg /\ \A q \in Requests : arg[q].rental \in Rentals
  BY DEF Return, Goto, IInv, TypeOK, Args
<1>2. serial' => \A q \in Requests : pc'[q] # "Reserve"
  BY NobodyRuns DEF Running, Calls
<1> QED
  BY <1>1, <1>2 DEF ReadsHold

LEMMA ReadsNext == IInv /\ SerialInv /\ ReadsHold /\ [Next]_vars => ReadsHold'
<1> SUFFICES ASSUME IInv, SerialInv, ReadsHold, [Next]_vars
             PROVE  ReadsHold'
  OBVIOUS
<1>1. ASSUME NEW r \in Requests, Arrive(r) PROVE ReadsHold'
  BY <1>1, ReadsArrive
<1>2. ASSUME NEW r \in Requests, CheckGPU(r) PROVE ReadsHold'
  BY <1>2, ReadsGoto DEF CheckGPU, Return, Running, Calls
<1>3. ASSUME NEW r \in Requests, CheckBalance(r) PROVE ReadsHold'
  <2>1. CASE balance[arg[r].user] < EstimatedCost(arg[r].hours, arg[r].gpu)
    BY <1>3, <2>1, ReadsGoto DEF CheckBalance, Return, Running, Calls
  <2>2. CASE ~(balance[arg[r].user] < EstimatedCost(arg[r].hours, arg[r].gpu))
    <3>1. arg[r].user \in Users /\ arg[r].gpu \in GPUs /\ arg[r].hours \in Int
      BY DEF IInv, TypeOK, Args
    <3>2. balance[arg[r].user] \in Int /\ EstimatedCost(arg[r].hours, arg[r].gpu) \in Int
      BY <3>1, CostInt DEF IInv, TypeOK
    <3>3. balance[arg[r].user] >= EstimatedCost(arg[r].hours, arg[r].gpu)
      BY <2>2, <3>2
    <3> QED
      BY <1>3, <2>2, <3>3, ReadsGoto DEF CheckBalance, Running, Calls
  <2> QED
    BY <2>1, <2>2
<1>4. ASSUME NEW r \in Requests, Reserve(r) PROVE ReadsHold'
  <2>1. \A i \in Rentals : rental[i].status # "none" => rental'[i] = rental[i]
    BY <1>4 DEF Reserve, IInv, TypeOK, Created
  <2> QED
    BY <1>4, <2>1, ReadsWrite DEF Reserve, Running, Calls
<1>5. ASSUME NEW r \in Requests, StartRental(r) PROVE ReadsHold'
  <2>1. \A i \in Rentals :
          rental[i].status \in {"running", "completed"} =>
            /\ rental'[i].status = rental[i].status
            /\ rental'[i].user = rental[i].user
            /\ rental'[i].start = rental[i].start
    <3> DEFINE i == arg[r].rental
    <3>1. i \in Rentals /\ rental[i] \in RentalRow
      BY DEF IInv, TypeOK, Args
    <3>2. /\ \A k \in Rentals : k # i => rental'[k] = rental[k]
          /\ rental[i].status # "pending" =>
               /\ rental'[i].status = rental[i].status
               /\ rental'[i].user = rental[i].user
               /\ rental'[i].start = rental[i].start
      BY <1>5, <3>1 DEF StartRental, IInv, TypeOK, RentalRow
    <3> HIDE DEF i
    <3> QED
      BY <3>2
  <2> QED
    BY <1>5, <2>1, ReadsWrite DEF StartRental, Running, Calls
<1>6. ASSUME NEW r \in Requests, StopRental(r) PROVE ReadsHold'
  <2>1. \A i \in Rentals :
          /\ rental'[i].status \in {rental[i].status, "completed"}
          /\ rental'[i].user = rental[i].user
          /\ rental'[i].start = rental[i].start
    <3> DEFINE i == arg[r].rental
               row == [rental[i] EXCEPT !.status = "completed"]
    <3>1. i \in Rentals /\ rental[i] \in RentalRow
      BY DEF IInv, TypeOK, Args
    <3>2. row.status = "completed" /\ row.user = rental[i].user /\ row.start = rental[i].start
      BY <3>1 DEF RentalRow
    <3>3. rental' = [rental EXCEPT ![i] = row]
      BY <1>6, <3>1 DEF StopRental
    <3> HIDE DEF row, i
    <3>4. rental'[i] = row /\ \A k \in Rentals : k # i => rental'[k] = rental[k]
      BY <3>1, <3>3 DEF IInv, TypeOK
    <3> QED
      BY <3>2, <3>4
  <2> QED
    BY <1>6, <2>1, ReadsWrite DEF StopRental, Running, Calls
<1>7. ASSUME NEW r \in Requests, Fail(r) PROVE ReadsHold'
  BY <1>7, ReadsGoto DEF Fail, Return
<1>8. CASE Tick \/ Quiet \/ UNCHANGED vars
  <2>1. UNCHANGED <<balance, rental, pc, arg, since, serial>>
    BY <1>8 DEF Tick, Quiet, vars
  <2> QED
    BY <2>1 DEF ReadsHold
<1> QED
  BY <1>1, <1>2, <1>3, <1>4, <1>5, <1>6, <1>7, <1>8, ReadsGetRental DEF Next, Handler

(* The book follows the table row by row.                                   *)
LEMMA BookWrite ==
  ASSUME IInv, NEW i \in Rentals, NEW row, rental' = [rental EXCEPT ![i] = row],
         row.status # "none", arg' = arg
  PROVE  Book' = [k \in DOMAIN Book \cup {i} |->
                    IF k # i THEN Book[k] ELSE AsLease(row, arg[i].hours)]
<1>1. rental'[i] = row /\ \A k \in Rentals : k # i => rental'[k] = rental[k]
  BY DEF IInv, TypeOK
<1> DEFINE D == {k \in Rentals : rental[k].status # "none"}
           E == {k \in Rentals : rental'[k].status # "none"}
<1>2. E = D \cup {i}
  BY <1>1
<1>3. /\ Book' = [k \in E |-> AsLease(rental'[k], arg[k].hours)]
      /\ Book = [k \in D |-> AsLease(rental[k], arg[k].hours)]
  BY DEF Book, AsLease
<1>4. \A k \in E : k # i => k \in D /\ AsLease(rental'[k], arg[k].hours) = Book[k]
  BY <1>1, <1>2, <1>3
<1>5. AsLease(rental'[i], arg[i].hours) = AsLease(row, arg[i].hours)
  BY <1>1
<1> HIDE DEF D, E
<1> QED
  BY <1>2, <1>3, <1>4, <1>5

(* A lease that is there is changed in place.                               *)
LEMMA BookChange ==
  ASSUME IInv, NEW i \in Rentals, NEW row, rental' = [rental EXCEPT ![i] = row],
         row.status # "none", rental[i].status # "none", arg' = arg
  PROVE  i \in DOMAIN Book /\ Book[i] = AsLease(rental[i], arg[i].hours)
         /\ Book' = [Book EXCEPT ![i] = AsLease(row, arg[i].hours)]
<1>1. i \in DOMAIN Book /\ Book[i] = AsLease(rental[i], arg[i].hours)
  BY DEF Book
<1>2. Book = [k \in DOMAIN Book |-> Book[k]]
  BY DEF Book
<1>3. Book' = [k \in DOMAIN Book \cup {i} |-> IF k # i THEN Book[k] ELSE AsLease(row, arg[i].hours)]
  BY BookWrite
<1> QED
  BY <1>1, <1>2, <1>3

LEMMA MakeStep ==
  ASSUME IInv, SerialInv, ReadsHold, NEW r \in Requests, Reserve(r)
  PROVE  Agreed!Next
<1> DEFINE u == arg[r].user
           g == arg[r].gpu
           h == arg[r].hours
           row == [NoRental EXCEPT !.status = "pending", !.user = u, !.gpu = g]
<1>1. u \in Users /\ g \in GPUs /\ h \in Hours /\ rental[r].status = "none"
  BY DEF IInv, TypeOK, Args, Created, Reserve, ReadsHold
<1>2. /\ AsLease(row, h) = [status |-> "pending", user |-> u, gpu |-> g, start |-> 0,
                            hours |-> h]
      /\ AsLease(row, h) = AsLease(row, arg[r].hours)
      /\ row.status # "none"
  BY DEF AsLease, NoRental
<1>3. /\ rental' = [rental EXCEPT ![r] = row] /\ gpu' = [gpu EXCEPT ![g] = "busy"]
      /\ pc[r] = "Reserve"
      /\ UNCHANGED <<balance, now, serial, arg>>
  BY DEF Reserve, Return, Goto
<1>4. serial => gpu[g] = "available" /\ balance[u] >= h * Price[g]
  BY <1>3 DEF SerialInv, Checked, ReadsHold, EstimatedCost
<1> HIDE DEF row, u, g, h
<1>5. Book' = [k \in DOMAIN Book \cup {r} |-> IF k # r THEN Book[k] ELSE
                 [status |-> "pending", user |-> u, gpu |-> g, start |-> 0, hours |-> h]]
  <2>1. Book' = [k \in DOMAIN Book \cup {r} |->
                   IF k # r THEN Book[k] ELSE AsLease(row, arg[r].hours)]
    BY <1>2, <1>3, BookWrite
  <2> QED
    BY <1>2, <2>1
<1>6. r \notin DOMAIN Book
  BY <1>1 DEF Book
<1>7. OnOffer' = OnOffer \ {g}
  BY <1>1, <1>3 DEF OnOffer, IInv, TypeOK
<1>8. serial => g \in OnOffer
  BY <1>1, <1>4 DEF OnOffer
<1>9. Agreed!Make(r, u, g, h)
  BY <1>1, <1>3, <1>4, <1>5, <1>6, <1>7, <1>8 DEF Agreed!Make, Agreed!Made
<1> QED
  BY <1>1, <1>9 DEF Agreed!Next

LEMMA BeginStep ==
  ASSUME IInv, NEW r \in Requests, StartRental(r)
  PROVE  Agreed!Next \/ UNCHANGED Agreed!vars
<1> DEFINE i == arg[r].rental
           h == arg[i].hours
           row == [rental[i] EXCEPT !.status = "running", !.start = now, !.connected = TRUE]
           same == [rental[i] EXCEPT !.connected = TRUE]
<1>1. i \in Rentals /\ rental[i] \in RentalRow
  BY DEF IInv, TypeOK, Args
<1>2. UNCHANGED <<gpu, balance, now, serial, arg>>
  BY DEF StartRental, Return, Goto
<1>3. UNCHANGED OnOffer
  BY <1>2 DEF OnOffer
<1>4. CASE rental[i].user = arg[r].user /\ rental[i].status = "pending"
  <2>1. rental' = [rental EXCEPT ![i] = row]
    BY <1>1, <1>4 DEF StartRental, IInv, TypeOK, RentalRow
  <2>2. row.status # "none" /\ rental[i].status # "none"
    BY <1>1, <1>4 DEF RentalRow
  <2>a. /\ row.status = "running" /\ row.start = now
        /\ row.user = rental[i].user /\ row.gpu = rental[i].gpu
    BY <1>1 DEF RentalRow
  <2> HIDE DEF row
  <2>3. /\ AsLease(rental[i], h).status = "pending"
        /\ AsLease(row, h) = [AsLease(rental[i], h) EXCEPT !.status = "running", !.start = now]
    <3> DEFINE x == rental[i]
    <3>1. x.status = "pending"
      BY <1>4
    <3> HIDE DEF x
    <3>2. AsLease(row, h) = [status |-> "running", user |-> x.user, gpu |-> x.gpu, start |-> now,
                       hours |-> h]
      BY <2>a DEF AsLease, x
    <3>3. [AsLease(x, h) EXCEPT !.status = "running", !.start = now]
            = [status |-> "running", user |-> x.user, gpu |-> x.gpu, start |-> now,
                       hours |-> h]
      <4>1. [AsLease(x, h) EXCEPT !.status = "running"]
              = [status |-> "running", user |-> x.user, gpu |-> x.gpu, start |-> x.start,
                       hours |-> h]
        BY DEF AsLease
      <4> DEFINE y == [AsLease(x, h) EXCEPT !.status = "running"]
      <4>2. [y EXCEPT !.start = now]
              = [status |-> "running", user |-> x.user, gpu |-> x.gpu, start |-> now,
                       hours |-> h]
        <5> HIDE DEF y
        <5>1. y = [status |-> "running", user |-> x.user, gpu |-> x.gpu, start |-> x.start,
                       hours |-> h]
          BY <4>1 DEF y
        <5> QED
          BY <5>1
      <4> QED
        BY <4>2
    <3> QED
      BY <3>1, <3>2, <3>3 DEF AsLease, x
  <2> HIDE DEF i
  <2>4. /\ i \in DOMAIN Book /\ Book[i] = AsLease(rental[i], h)
        /\ Book' = [Book EXCEPT ![i] = AsLease(row, h)]
    BY <1>1, <1>2, <2>1, <2>2, BookChange
  <2>5. Book' = [Book EXCEPT ![i].status = "running", ![i].start = now]
    BY <2>3, <2>4
  <2>6. Agreed!Begin(i)
    BY <1>2, <1>3, <2>3, <2>4, <2>5 DEF Agreed!Begin, Agreed!Made
  <2> QED
    BY <1>1, <2>6 DEF Agreed!Next
<1>5. CASE ~(rental[i].user = arg[r].user /\ rental[i].status = "pending")
  <2>1. \A k \in Rentals :
          /\ rental'[k].status = rental[k].status
          /\ AsLease(rental'[k], arg'[k].hours) = AsLease(rental[k], arg[k].hours)
    <3>1. \A k \in Rentals :
            /\ rental'[k].status = rental[k].status /\ rental'[k].user = rental[k].user
            /\ rental'[k].gpu = rental[k].gpu /\ rental'[k].start = rental[k].start
      BY <1>1, <1>5 DEF StartRental, IInv, TypeOK, RentalRow
    <3> QED
      BY <1>2, <3>1 DEF AsLease
  <2>2. UNCHANGED Book
    <3> DEFINE D == {k \in Rentals : rental[k].status # "none"}
    <3>1. /\ Book = [k \in D |-> AsLease(rental[k], arg[k].hours)]
          /\ Book' = [k \in D |-> AsLease(rental'[k], arg'[k].hours)]
      BY <2>1 DEF Book
    <3> QED
      BY <2>1, <3>1
  <2> QED
    BY <1>2, <1>3, <2>2 DEF Agreed!vars
<1> QED
  BY <1>4, <1>5

LEMMA EndStep ==
  ASSUME IInv, SerialInv, ReadsHold, NEW r \in Requests, StopRental(r)
  PROVE  Agreed!Next
<1> DEFINE i == arg[r].rental
           h == arg[i].hours
           x == rental[i]
           row == [x EXCEPT !.status = "completed"]
<1>1. i \in Rentals /\ x \in RentalRow /\ pc[r] = "StopRental"
  BY DEF IInv, TypeOK, Args, StopRental
<1>2. /\ x.status \in {"running", "completed"} /\ (serial => x.status = "running")
      /\ x.user = arg[r].user /\ x.start = since[r]
  BY <1>1 DEF ReadsHold, SerialInv, Checked
<1>3. /\ rental' = [rental EXCEPT ![i] = row]
      /\ gpu' = [gpu EXCEPT ![x.gpu] = "available"]
      /\ balance' = [balance EXCEPT ![x.user] = @ - (now - x.start) * Price[x.gpu]]
      /\ UNCHANGED <<now, serial, arg>>
  BY <1>1, <1>2 DEF StopRental, Return, Goto, EstimatedCost, IInv, TypeOK
<1>4. /\ row.status = "completed"
      /\ AsLease(row, h) = [AsLease(x, h) EXCEPT !.status = "completed"]
      /\ AsLease(x, h).status = x.status /\ AsLease(x, h).user = x.user
      /\ AsLease(x, h).gpu = x.gpu /\ AsLease(x, h).start = x.start
      /\ x.gpu \in GPUs
  BY <1>1 DEF AsLease, RentalRow
<1>5. OnOffer' = OnOffer \cup {x.gpu}
  BY <1>3, <1>4 DEF OnOffer, IInv, TypeOK
<1> HIDE DEF row, i
<1>6. /\ i \in DOMAIN Book /\ Book[i] = AsLease(x, h)
      /\ Book' = [Book EXCEPT ![i] = AsLease(row, h)]
  BY <1>1, <1>2, <1>3, <1>4, BookChange
<1> HIDE DEF x
<1>7. Book' = [Book EXCEPT ![i].status = "completed"]
  BY <1>4, <1>6
<1>8. Agreed!End(i)
  BY <1>2, <1>3, <1>4, <1>5, <1>6, <1>7 DEF Agreed!End, Agreed!Made
<1> QED
  BY <1>1, <1>8 DEF Agreed!Next

LEMMA ReservationStep ==
  IInv /\ SerialInv /\ ReadsHold /\ [Next]_vars => [Agreed!Next]_(Agreed!vars)
<1> SUFFICES ASSUME IInv, SerialInv, ReadsHold, [Next]_vars
             PROVE  Agreed!Next \/ UNCHANGED Agreed!vars
  BY Zenon
<1>1. ASSUME UNCHANGED <<gpu, balance, rental, now>>, serial' => serial,
             \A i \in Rentals : rental[i].status # "none" => arg'[i] = arg[i]
      PROVE  Agreed!Next \/ UNCHANGED Agreed!vars
  <2>1. UNCHANGED <<OnOffer, Book>>
    BY <1>1 DEF OnOffer, Book
  <2>2. serial \in BOOLEAN /\ serial' \in BOOLEAN
    BY NextInv DEF IInv, TypeOK
  <2>3. CASE serial' = serial
    BY <1>1, <2>1, <2>3 DEF Agreed!vars
  <2>4. CASE serial' # serial
    <3>1. serial' = FALSE
      BY <1>1, <2>2, <2>4
    <3> QED
      BY <1>1, <2>1, <3>1 DEF Agreed!Next, Agreed!Overlap
  <2> QED
    BY <2>3, <2>4
<1>2. ASSUME NEW r \in Requests, Arrive(r) PROVE Agreed!Next \/ UNCHANGED Agreed!vars
  <2>1. \A i \in Rentals : rental[i].status # "none" => arg'[i] = arg[i]
    BY <1>2 DEF Arrive, Receive, IInv, TypeOK, Created
  <2> QED
    BY <1>1, <1>2, <2>1 DEF Arrive, Receive
<1>3. ASSUME NEW r \in Requests, CheckGPU(r) \/ CheckBalance(r) \/ GetRental(r) \/ Fail(r)
      PROVE  Agreed!Next \/ UNCHANGED Agreed!vars
  BY <1>1, <1>3 DEF CheckGPU, CheckBalance, GetRental, Fail, Return, Goto
<1>4. CASE Tick
  <2>1. UNCHANGED <<OnOffer, Book>>
    BY <1>4 DEF Tick, OnOffer, Book
  <2> QED
    BY <1>4, <2>1 DEF Tick, Agreed!Next, Agreed!Tick
<1>5. CASE Quiet \/ UNCHANGED vars
  BY <1>1, <1>5 DEF Quiet, vars
<1> QED
  BY <1>2, <1>3, <1>4, <1>5, MakeStep, BeginStep, EndStep DEF Next, Handler

(* The statements and transactions of createRental, startRental and         *)
(* stopRental, interleaved and failing in any way, make up a behaviour of   *)
(* Reservation: leases made, begun and ended in one step each.              *)
THEOREM ImplementsReservationCorrect == Spec => ImplementsReservation
<1>1. Init => Agreed!Init
  <2> SUFFICES ASSUME Init PROVE Agreed!Init
    OBVIOUS
  <2>1. OnOffer = GPUs
    BY DEF Init, OnOffer
  <2>2. Book = [i \in {} |-> 0]
    BY Defaults DEF Init, Book, NoRental
  <2> QED
    BY <2>1, <2>2 DEF Init, Agreed!Init
<1>2. Spec => [][Next]_vars /\ []IInv /\ []SerialInv /\ []ReadsHold /\ Init
  BY InitInv, NextInv, SerialInit, SerialNext, ReadsInit, ReadsNext, PTL DEF Spec
<1>3. Spec => Agreed!Init /\ [][Agreed!Next]_(Agreed!vars)
  BY <1>1, <1>2, ReservationStep, PTL
<1> QED
  BY <1>3 DEF ImplementsReservation, Agreed!Spec
=============================================================================
