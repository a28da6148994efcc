--------------------------- MODULE DispatchProofs ---------------------------
(* Proofs about Dispatch, for any jobs, providers, schedulers, number of    *)
(* sessions and runs, and any faults.                                       *)
EXTENDS Dispatch, TLAPS

Holds(w, j) == pc[w] # "idle" /\ cur[w].job = j

(* A worker is between a publication that succeeded and the ACK.            *)
Dispatched(w) == pc[w] \in {"UpdateJobState", "Settle"} /\ cur[w].outcome = "ok"

(* A session comes before its task, the task before its runs, and the end   *)
(* of a run before the end of the session.                                  *)
SessionsInv ==
  /\ \A s \in Sessions : session[s].status = "none" => task[s] = "none"
  /\ \A i \in Runs : run[i] # "none" => task[i[1]] # "none"
  /\ \A s \in Sessions :
       session[s].status = "ended" => \E i \in Runs : i[1] = s /\ run[i] = "done"

(* A worker about to publish has a session of its own, opened for the job   *)
(* it works on; one that has published has left the task behind.  No worker *)
(* reads or writes a terminal state.                                        *)
WorkersInv ==
  /\ \A w \in Workers : pc[w] = "Publish" =>
       LET s == cur[w].session
       IN session[s].status # "none" /\ session[s].job = cur[w].job /\ task[s] = "none"
  /\ \A v, w \in Workers :
       pc[v] = "Publish" /\ pc[w] = "Publish" /\ cur[v].session = cur[w].session => v = w
  /\ \A w \in Workers : Dispatched(w) => Published(cur[w].job)
  /\ \A j \in Jobs : rec[j] \notin Terminal
  /\ \A w \in Workers : cur[w].state \notin Terminal

(* As long as no acknowledgement is late and no worker died: a job is held  *)
(* by one worker, and not offered to another; a worker that has not         *)
(* published it works on a job without a task; the one task is covered by   *)
(* the ACK or by a worker on its way to it; and a task that was run was     *)
(* acknowledged.                                                            *)
OnceInv ==
  ~late =>
    /\ \A v, w \in Workers : pc[v] # "idle" /\ Holds(w, cur[v].job) => v = w
    /\ \A w \in Workers : pc[w] # "idle" => msg[cur[w].job] \in {"out", "acked"}
    /\ \A w \in Workers : pc[w] # "idle" /\ ~Dispatched(w) =>
         \A s \in Sessions : task[s] # "none" => session[s].job # cur[w].job
    /\ \A s \in Sessions : task[s] # "none" =>
         \/ msg[session[s].job] = "acked"
         \/ \E w \in Workers : Dispatched(w) /\ cur[w].job = session[s].job
    /\ \A s, q \in Sessions :
         task[s] # "none" /\ task[q] # "none" /\ session[s].job = session[q].job => s = q
    /\ \A i \in Runs : run[i] # "none" => task[i[1]] = "acked"
    /\ \A i, k \in Runs : run[i] # "none" /\ run[k] # "none" /\ i[1] = k[1] => i = k

IInv == TypeOK /\ SessionsInv /\ WorkersInv /\ NoJobLost /\ OnceInv

LEMMA NoWorkType == NoWork \in Work /\ NoWork.state \notin Terminal
BY DispatchAssumption DEF NoWork, Work, AnyJob, AnyProvider, JobStates, Sessions, Terminal

LEMMA RunIndex ==
  ASSUME NEW i \in Runs
  PROVE  i[1] \in Sessions /\ i[2] \in 1 .. MaxRuns /\ i = <<i[1], i[2]>>
BY DEF Runs

LEMMA Fields ==
  ASSUME TypeOK
  PROVE  /\ \A w \in Workers : /\ cur[w].job \in Jobs /\ cur[w].session \in Sessions
                               /\ cur[w].provider \in Providers
                               /\ cur[w].state \in JobStates
         /\ \A s \in Sessions : session[s].job \in Jobs /\ session[s].provider \in Providers
         /\ \A i \in Runs : i[1] \in Sessions
BY RunIndex DEF TypeOK, Work, SessionRow

LEMMA InitInv == Init => IInv
<1> SUFFICES ASSUME Init PROVE IInv
  OBVIOUS
<1> USE DispatchAssumption DEF Init
<1>1. TypeOK
  BY NoWorkType DEF TypeOK, AnyJob, AnyProvider, SessionRow, JobStates, RunStates
<1>2. SessionsInv
  BY RunIndex DEF SessionsInv
<1>3. WorkersInv
  BY NoWorkType DEF WorkersInv, Dispatched, Terminal
<1>4. NoJobLost
  BY DEF NoJobLost
<1>5. OnceInv
  BY DEF OnceInv
<1> QED
  BY <1>1, <1>2, <1>3, <1>4, <1>5 DEF IInv

(* A step of one worker leaves the others where they are.                   *)
Alone(w) == \A v \in Workers \ {w} : pc'[v] = pc[v] /\ cur'[v] = cur[v]

LEMMA GotoFacts ==
  ASSUME TypeOK, NEW w \in Workers, NEW call \in Calls \cup {"idle"}, NEW work \in Work,
         Goto(w, call, work)
  PROVE  /\ pc' \in [Workers -> Calls \cup {"idle"}]
         /\ cur' \in [Workers -> Work]
         /\ pc'[w] = call /\ cur'[w] = work
         /\ Alone(w)
BY DEF TypeOK, Goto, Alone

(* A worker goes on with its job, to a call other than the publication, and *)
(* nothing else changes.                                                    *)
LEMMA MoveInv ==
  ASSUME IInv, NEW w \in Workers, NEW call \in Calls \ {"Publish"}, NEW work \in Work,
         pc[w] # "idle", Goto(w, call, work), work.job = cur[w].job,
         work.state \notin Terminal, Dispatched(w)' = Dispatched(w),
         rec' \in [Jobs -> JobStates], \A j \in Jobs : rec'[j] \notin Terminal,
         UNCHANGED <<msg, idle, session, task, daemon, hist>>
  PROVE  IInv'
<1> USE DEF IInv, daemon, hist
<1>0. /\ pc' \in [Workers -> Calls \cup {"idle"}]
      /\ cur' \in [Workers -> Work]
      /\ pc'[w] = call /\ cur'[w] = work
      /\ Alone(w)
  BY GotoFacts
<1>a. call # "idle"
  BY DEF Calls
<1>d. \A v \in Workers : Dispatched(v)' = Dispatched(v) /\ cur'[v].job = cur[v].job
  BY <1>0 DEF Dispatched, Alone
<1>1. TypeOK'
  BY <1>0 DEF TypeOK
<1>2. SessionsInv'
  BY DEF SessionsInv
<1>3. WorkersInv'
  <2>1. \A v \in Workers : pc'[v] = "Publish" => pc[v] = "Publish" /\ cur'[v] = cur[v]
    BY <1>0 DEF Alone
  <2>2. \A v \in Workers : cur'[v].state \notin Terminal
    BY <1>0 DEF Alone, WorkersInv
  <2> QED
    BY <1>d, <2>1, <2>2 DEF WorkersInv, Published
<1>4. NoJobLost'
  BY DEF NoJobLost, Published
<1>5. OnceInv'
  <2>1. \A v \in Workers : pc'[v] = "idle" <=> pc[v] = "idle"
    BY <1>0, <1>a DEF Alone
  <2> QED
    BY <1>d, <2>1 DEF OnceInv, Holds
<1> QED
  BY <1>1, <1>2, <1>3, <1>4, <1>5

(* A worker is done with its delivery: the message is acknowledged if the   *)
(* job was dispatched or is dropped, and is otherwise asked for again; or   *)
(* its worker dies, or the ACK is lost, and the message stays out.          *)
LEMMA LeaveInv ==
  ASSUME IInv, NEW w \in Workers, pc[w] # "idle", Finish(w),
         \/ Ack(cur[w].job) /\ Dispatched(w) /\ UNCHANGED hist
         \/ Nak(cur[w].job) /\ ~Dispatched(w) /\ UNCHANGED late
         \/ UNCHANGED <<msg, dropped>> /\ late' = TRUE,
         UNCHANGED <<rec, idle, session, task, daemon>>
  PROVE  IInv'
<1> USE DEF IInv, daemon, hist
<1> DEFINE j == cur[w].job
<1>0. /\ pc' \in [Workers -> Calls \cup {"idle"}]
      /\ cur' \in [Workers -> Work]
      /\ pc'[w] = "idle" /\ cur'[w] = NoWork
      /\ Alone(w)
  BY GotoFacts, NoWorkType DEF Finish
<1>f. j \in Jobs
  BY Fields
<1>d. \A v \in Workers : v # w => Dispatched(v)' = Dispatched(v) /\ cur'[v] = cur[v] /\ pc'[v] = pc[v]
  BY <1>0 DEF Dispatched, Alone
<1>e. Dispatched(w)' = FALSE
  BY <1>0 DEF Dispatched
<1>m. /\ msg' \in [Jobs -> {"unsent", "ready", "out", "acked"}]
      /\ dropped' \subseteq Jobs /\ dropped \subseteq dropped'
      /\ late' \in BOOLEAN /\ (late => late')
      /\ \A k \in Jobs : k # j => msg'[k] = msg[k]
      /\ msg'[j] = "acked" => msg[j] = "acked" \/ Dispatched(w) \/ j \in dropped'
  <2>1. CASE Ack(j) /\ Dispatched(w) /\ UNCHANGED hist
    BY <2>1, <1>f DEF TypeOK, Ack
  <2>2. CASE Nak(j) /\ ~Dispatched(w) /\ UNCHANGED late
    BY <2>2, <1>f DEF TypeOK, Ack, Nak
  <2>3. CASE UNCHANGED <<msg, dropped>> /\ late' = TRUE
    BY <2>3 DEF TypeOK
  <2> QED
    BY <2>1, <2>2, <2>3
<1>1. TypeOK'
  BY <1>0, <1>m DEF TypeOK
<1>2. SessionsInv'
  BY DEF SessionsInv
<1>3. WorkersInv'
  BY <1>0, <1>d, <1>e, NoWorkType DEF WorkersInv, Published
<1>4. NoJobLost'
  BY <1>f, <1>m DEF NoJobLost, Published, WorkersInv
<1>5. OnceInv'
  <2> SUFFICES ASSUME ~late' PROVE OnceInv'
    BY DEF OnceInv
  <2>1. ~late
    BY <1>m
  <2>2. \A v \in Workers : v # w /\ pc[v] # "idle" => cur[v].job # j
    BY <2>1 DEF OnceInv, Holds
  <2>3. \A v \in Workers : pc'[v] # "idle" => msg'[cur'[v].job] \in {"out", "acked"}
    BY <1>0, <1>d, <1>m, <2>1, <2>2, Fields DEF OnceInv
  <2>4. ASSUME NEW s \in Sessions, task'[s] # "none"
        PROVE  \/ msg'[session'[s].job] = "acked"
               \/ \E v \in Workers : Dispatched(v)' /\ cur'[v].job = session'[s].job
    <3>1. CASE session[s].job = j
      <4>1. CASE msg[j] = "acked"
        <5>1. msg'[j] = "acked"
          BY <4>1, <1>f DEF Ack, Nak, TypeOK
        <5> QED
          BY <5>1, <3>1
      <4>2. CASE \E v \in Workers : Dispatched(v) /\ cur[v].job = j
        <5>1. Dispatched(w)
          BY <4>2, <2>2 DEF Dispatched
        <5> QED
          BY <5>1, <3>1, <1>f, <2>1 DEF Ack, TypeOK
      <4> QED
        BY <4>1, <4>2, <3>1, <2>1, <2>4 DEF OnceInv
    <3>2. CASE session[s].job # j
      BY <3>2, <1>d, <1>m, <2>1, <2>4, Fields DEF OnceInv
    <3> QED
      BY <3>1, <3>2
  <2> QED
    BY <1>0, <1>d, <2>1, <2>3, <2>4 DEF OnceInv, Holds
<1> QED
  BY <1>1, <1>2, <1>3, <1>4, <1>5

LEMMA SubmitJobInv ==
  ASSUME IInv, NEW j \in Jobs, SubmitJob(j)
  PROVE  IInv'
<1> USE DEF IInv, SubmitJob, sched, daemon, hist
<1>1. TypeOK' /\ SessionsInv' /\ WorkersInv'
  BY DEF TypeOK, SessionsInv, WorkersInv, Dispatched, Published
<1>2. NoJobLost'
  BY DEF TypeOK, NoJobLost, Published
<1>3. OnceInv'
  BY Fields DEF TypeOK, OnceInv, Holds, Dispatched
<1> QED
  BY <1>1, <1>2, <1>3

LEMMA RedeliverInv ==
  ASSUME IInv, NEW j \in Jobs, Redeliver(j)
  PROVE  IInv'
<1> USE DEF IInv, Redeliver, sched, daemon, hist
<1> DEFINE held == \E w \in Workers : pc[w] # "idle" /\ cur[w].job = j
<1>1. TypeOK' /\ SessionsInv' /\ WorkersInv'
  BY DEF TypeOK, SessionsInv, WorkersInv, Dispatched, Published
<1>2. NoJobLost'
  BY DEF TypeOK, NoJobLost, Published
<1>3. OnceInv'
  <2> SUFFICES ASSUME ~late' PROVE OnceInv'
    BY DEF OnceInv
  <2>1. ~late /\ ~held
    OBVIOUS
  <2>2. \A w \in Workers : pc'[w] # "idle" => msg'[cur'[w].job] \in {"out", "acked"}
    BY <2>1, Fields DEF TypeOK, OnceInv
  <2>3. \A s \in Sessions : msg[session[s].job] = "acked" => msg'[session[s].job] = "acked"
    BY Fields DEF TypeOK
  <2> QED
    BY <2>1, <2>2, <2>3 DEF OnceInv, Holds, Dispatched
<1> QED
  BY <1>1, <1>2, <1>3

LEMMA ExpireInv ==
  ASSUME IInv, NEW j \in Jobs, Expire(j)
  PROVE  IInv'
<1> USE DEF IInv, Expire, sched, daemon
<1>m. msg'[j] = "acked" /\ \A k \in Jobs : k # j => msg'[k] = msg[k]
  BY DEF TypeOK
<1>1. TypeOK' /\ SessionsInv' /\ WorkersInv'
  BY DEF TypeOK, SessionsInv, WorkersInv, Dispatched, Published
<1>2. NoJobLost'
  BY <1>m DEF NoJobLost, Published
<1>3. OnceInv'
  BY <1>m, Fields DEF OnceInv, Holds, Dispatched
<1> QED
  BY <1>1, <1>2, <1>3

LEMMA FetchJobInv ==
  ASSUME IInv, NEW w \in Workers, FetchJob(w)
  PROVE  IInv'
<1> USE DEF IInv, daemon, hist
<1>0. PICK j \in Jobs : /\ msg[j] = "ready"
                        /\ msg' = [msg EXCEPT ![j] = "out"]
                        /\ Goto(w, "GetJob", [NoWork EXCEPT !.job = j])
  BY DEF FetchJob
<1> DEFINE work == [NoWork EXCEPT !.job = j]
<1>u. UNCHANGED <<rec, idle, session, task, daemon, hist>> /\ pc[w] = "idle"
  BY DEF FetchJob
<1>a. work \in Work /\ work.job = j /\ work.state \notin Terminal
  BY NoWorkType DEF Work
<1>b. /\ pc' \in [Workers -> Calls \cup {"idle"}]
      /\ cur' \in [Workers -> Work]
      /\ pc'[w] = "GetJob" /\ cur'[w] = work
      /\ Alone(w)
  BY <1>0, <1>a, GotoFacts DEF Calls
<1>d. \A v \in Workers : Dispatched(v)' = Dispatched(v)
  BY <1>b, <1>u DEF Dispatched, Alone
<1>m. msg'[j] = "out" /\ \A k \in Jobs : k # j => msg'[k] = msg[k]
  BY <1>0 DEF TypeOK
<1>1. TypeOK'
  BY <1>0, <1>b, <1>u DEF TypeOK
<1>2. SessionsInv'
  BY <1>u DEF SessionsInv
<1>3. WorkersInv'
  <2>1. \A v \in Workers : pc'[v] = "Publish" => pc[v] = "Publish" /\ cur'[v] = cur[v]
    BY <1>b DEF Alone
  <2>2. \A v \in Workers : Dispatched(v)' => Dispatched(v) /\ cur'[v] = cur[v]
    BY <1>b DEF Alone, Dispatched
  <2>3. \A v \in Workers : cur'[v].state \notin Terminal
    BY <1>a, <1>b DEF Alone, WorkersInv
  <2> QED
    BY <1>u, <2>1, <2>2, <2>3 DEF WorkersInv, Published
<1>4. NoJobLost'
  BY <1>m, <1>u DEF NoJobLost, Published
<1>5. OnceInv'
  <2> SUFFICES ASSUME ~late PROVE OnceInv'
    BY <1>u DEF OnceInv
  <2>1. \A v \in Workers : pc[v] # "idle" => cur[v].job # j
    BY <1>0 DEF OnceInv
  <2>2. \A v \in Workers : v # w => pc'[v] = pc[v] /\ cur'[v] = cur[v]
    BY <1>b DEF Alone
  <2>w. cur'[w].job = j
    BY <1>a, <1>b
  <2> HIDE DEF work
  <2>3. \A v, x \in Workers : pc'[v] # "idle" /\ Holds(x, cur[v].job)' => v = x
    BY <2>w, <2>1, <2>2 DEF OnceInv, Holds
  <2>4. \A v \in Workers : pc'[v] # "idle" => msg'[cur'[v].job] \in {"out", "acked"}
    BY <2>w, <1>m, <2>1, <2>2, Fields DEF OnceInv
  <2>5. ASSUME NEW s \in Sessions, task'[s] # "none"
        PROVE  \/ msg'[session'[s].job] = "acked"
               \/ \E v \in Workers : Dispatched(v)' /\ cur'[v].job = session'[s].job
    <3>1. CASE \E v \in Workers : Dispatched(v) /\ cur[v].job = session[s].job
      BY <3>1, <1>d, <1>u, <2>2 DEF Dispatched
    <3>2. CASE msg[session[s].job] = "acked"
      BY <3>2, <1>0, <1>m, <1>u, Fields
    <3> QED
      BY <3>1, <3>2, <2>5, <1>u DEF OnceInv
  <2>6. \A s \in Sessions : task[s] # "none" => session[s].job # j
    BY <1>0, <2>1 DEF OnceInv, Dispatched
  <2>7. \A v \in Workers : pc'[v] # "idle" /\ ~Dispatched(v)' =>
          \A s \in Sessions : task[s] # "none" => session[s].job # cur'[v].job
    BY <2>w, <2>2, <2>6, <1>d DEF OnceInv
  <2> QED
    BY <2>3, <2>4, <2>5, <2>7, <1>u DEF OnceInv
<1> QED
  BY <1>1, <1>2, <1>3, <1>4, <1>5

LEMMA GetJobInv ==
  ASSUME IInv, NEW w \in Workers, GetJob(w)
  PROVE  IInv'
<1> USE DEF IInv
<1> DEFINE j == cur[w].job
<1>0. j \in Jobs /\ cur[w] \in Work /\ rec[j] \in JobStates /\ rec[j] \notin Terminal
  BY Fields DEF TypeOK, WorkersInv
<1>u. UNCHANGED <<rec, idle, session, task, daemon, hist>> /\ pc[w] = "GetJob"
  BY DEF GetJob
<1>r. rec' \in [Jobs -> JobStates] /\ \A k \in Jobs : rec'[k] \notin Terminal
  BY <1>u DEF TypeOK, WorkersInv
<1>1. CASE Goto(w, "ListProviders", [cur[w] EXCEPT !.state = rec[j]]) /\ UNCHANGED msg
  <2> DEFINE work == [cur[w] EXCEPT !.state = rec[j]]
  <2>1. work \in Work /\ work.job = j /\ work.state \notin Terminal
    BY <1>0 DEF Work
  <2>2. Dispatched(w)' = Dispatched(w)
    BY <1>1, <1>u, <2>1, GotoFacts DEF Dispatched, Calls
  <2> QED
    BY <1>1, <1>u, <1>r, <2>1, <2>2, MoveInv DEF Calls
<1>2. CASE Goto(w, "SaveJob", cur[w]) /\ UNCHANGED msg
  <2>2. Dispatched(w)' = Dispatched(w)
    BY <1>2, <1>0, <1>u, GotoFacts DEF Dispatched, Calls
  <2> QED
    BY <1>0, <1>2, <1>u, <1>r, <2>2, MoveInv DEF Calls, WorkersInv
<1> QED
  BY <1>0, <1>1, <1>2 DEF GetJob

LEMMA SaveJobInv ==
  ASSUME IInv, NEW w \in Workers, SaveJob(w)
  PROVE  IInv'
<1> USE DEF IInv
<1> DEFINE j == cur[w].job
<1>0. j \in Jobs /\ cur[w] \in Work
  BY Fields DEF TypeOK
<1>u. UNCHANGED <<idle, session, task, daemon, late>> /\ pc[w] = "SaveJob"
  BY DEF SaveJob
<1>1. CASE /\ rec' = [rec EXCEPT ![j] = "pending"]
           /\ Goto(w, "ListProviders", [cur[w] EXCEPT !.state = "pending"])
           /\ UNCHANGED <<msg, dropped>>
  <2> DEFINE work == [cur[w] EXCEPT !.state = "pending"]
  <2>1. work \in Work /\ work.job = j /\ work.state \notin Terminal
    BY <1>0 DEF Work, JobStates, Terminal
  <2>2. Dispatched(w)' = Dispatched(w)
    BY <1>1, <1>u, <2>1, GotoFacts DEF Dispatched, Calls
  <2>3. rec' \in [Jobs -> JobStates] /\ \A k \in Jobs : rec'[k] \notin Terminal
    BY <1>0, <1>1 DEF TypeOK, WorkersInv, JobStates, Terminal
  <2> QED
    BY <1>1, <1>u, <2>1, <2>2, <2>3, MoveInv DEF Calls, hist
<1>2. CASE Nak(j) /\ Finish(w) /\ UNCHANGED rec
  <2>1. ~Dispatched(w)
    BY <1>u DEF Dispatched
  <2> QED
    BY <1>2, <1>u, <2>1, LeaveInv
<1> QED
  BY <1>1, <1>2 DEF SaveJob

(* scheduleJob returns without a dispatch.                                  *)
LEMMA ScheduledInv ==
  ASSUME IInv, NEW w \in Workers, NEW state \in JobStates \ Terminal,
         NEW outcome \in {"none", "error"},
         pc[w] \in {"ListProviders", "StartSession", "Publish"},
         Scheduled(w, state, outcome),
         UNCHANGED <<msg, rec, idle, session, task, daemon, hist>>
  PROVE  IInv'
<1> USE DEF IInv
<1> DEFINE work == [cur[w] EXCEPT !.state = state, !.outcome = outcome]
<1>0. cur[w] \in Work
  BY DEF TypeOK
<1>1. work \in Work /\ work.job = cur[w].job /\ work.state = state /\ work.outcome = outcome
  BY <1>0 DEF Work
<1>2. Goto(w, "UpdateJobState", work)
  BY DEF Scheduled
<1>3. pc'[w] = "UpdateJobState" /\ cur'[w] = work
  BY <1>1, <1>2, GotoFacts DEF Calls
<1>5. Dispatched(w)' = FALSE
  BY <1>1, <1>3 DEF Dispatched
<1>6. Dispatched(w) = FALSE
  BY DEF Dispatched
<1>4. rec' \in [Jobs -> JobStates] /\ \A k \in Jobs : rec'[k] \notin Terminal
  BY DEF TypeOK, WorkersInv
<1> QED
  BY <1>1, <1>2, <1>4, <1>5, <1>6, MoveInv DEF Calls

LEMMA ListProvidersInv ==
  ASSUME IInv, NEW w \in Workers, ListProviders(w)
  PROVE  IInv'
<1> USE DEF IInv
<1>0. cur[w] \in Work /\ cur[w].state \in JobStates \ Terminal /\ cur[w].job \in Jobs
  BY Fields DEF TypeOK, WorkersInv
<1>u. /\ UNCHANGED <<msg, rec, idle, session, task, daemon, hist>>
      /\ pc[w] = "ListProviders"
  BY DEF ListProviders
<1>1. CASE Scheduled(w, cur[w].state, "error")
  BY <1>0, <1>1, <1>u, ScheduledInv
<1>2. CASE Scheduled(w, "pending", "none")
  BY <1>2, <1>u, ScheduledInv DEF JobStates, Terminal
<1>3. CASE \E p \in Matches(cur[w].job) :
              Goto(w, "StartSession", [cur[w] EXCEPT !.provider = p])
  <2>1. PICK p \in Matches(cur[w].job) :
              Goto(w, "StartSession", [cur[w] EXCEPT !.provider = p])
    BY <1>3
  <2> DEFINE work == [cur[w] EXCEPT !.provider = p]
  <2>2. p \in Providers
    BY <1>0, DispatchAssumption DEF Matches
  <2>3. work \in Work /\ work.job = cur[w].job /\ work.state \notin Terminal
    BY <1>0, <2>2 DEF Work
  <2>4. Dispatched(w)' = Dispatched(w)
    BY <1>u, <2>1, <2>3, GotoFacts DEF Dispatched, Calls
  <2>5. rec' \in [Jobs -> JobStates] /\ \A k \in Jobs : rec'[k] \notin Terminal
    BY <1>u DEF TypeOK, WorkersInv
  <2> QED
    BY <1>u, <2>1, <2>3, <2>4, <2>5, MoveInv DEF Calls
<1> QED
  BY <1>1, <1>2, <1>3 DEF ListProviders

(* A session is opened: the tasks that were published keep their rows.      *)
LEMMA OpenFacts ==
  ASSUME IInv, NEW w \in Workers, NEW s \in Sessions, OpenSession(w, s)
  PROVE  /\ session' \in [Sessions -> SessionRow]
         /\ session[s].status = "none" /\ task[s] = "none"
         /\ session'[s].status = "open" /\ session'[s].job = cur[w].job
         /\ \A q \in Sessions : q # s => session'[q] = session[q]
<1> DEFINE row == [status |-> "open", job |-> cur[w].job, provider |-> cur[w].provider]
<1>1. row \in SessionRow
  BY Fields DEF IInv, SessionRow
<1>2. session' = [session EXCEPT ![s] = row] /\ session[s].status = "none"
  BY DEF OpenSession
<1> HIDE DEF row
<1>3. session' \in [Sessions -> SessionRow] /\ session'[s] = row
  BY <1>1, <1>2 DEF IInv, TypeOK
<1> QED
  BY <1>2, <1>3 DEF IInv, TypeOK, SessionsInv, row

LEMMA OpenedInv ==
  ASSUME IInv, NEW w \in Workers, NEW s \in Sessions, OpenSession(w, s),
         NEW call \in {"Publish", "UpdateJobState"}, NEW work \in Work,
         Goto(w, call, work), work.job = cur[w].job, work.state \notin Terminal,
         call = "Publish" => work.session = s,
         call = "UpdateJobState" => work.outcome # "ok",
         pc[w] = "StartSession", UNCHANGED <<msg, rec, idle, task, daemon, hist>>
  PROVE  IInv'
<1> USE DEF IInv, daemon, hist
<1>0. /\ pc' \in [Workers -> Calls \cup {"idle"}]
      /\ cur' \in [Workers -> Work]
      /\ pc'[w] = call /\ cur'[w] = work
      /\ Alone(w)
  BY GotoFacts DEF Calls
<1>o. /\ session' \in [Sessions -> SessionRow]
      /\ session[s].status = "none" /\ task[s] = "none"
      /\ session'[s].status = "open" /\ session'[s].job = cur[w].job
      /\ \A q \in Sessions : q # s => session'[q] = session[q]
  BY OpenFacts
<1>d. \A v \in Workers : Dispatched(v)' = Dispatched(v) /\ cur'[v].job = cur[v].job
  <2>1. Dispatched(w)' = FALSE /\ Dispatched(w) = FALSE
    BY <1>0 DEF Dispatched
  <2> QED
    BY <1>0, <2>1 DEF Dispatched, Alone
<1>p. \A j \in Jobs : Published(j) => Published(j)'
  BY <1>o DEF Published
<1>1. TypeOK'
  BY <1>0, <1>o DEF TypeOK
<1>2. SessionsInv'
  BY <1>o DEF SessionsInv
<1>3. WorkersInv'
  <2>1. ASSUME NEW v \in Workers, v # w, pc'[v] = "Publish"
        PROVE  /\ pc[v] = "Publish" /\ cur'[v] = cur[v]
               /\ session'[cur[v].session] = session[cur[v].session]
               /\ cur[v].session # s
    BY <1>0, <1>o, <2>1, Fields DEF Alone, WorkersInv
  <2>2. \A v \in Workers : pc'[v] = "Publish" =>
          /\ session'[cur'[v].session].status # "none"
          /\ session'[cur'[v].session].job = cur'[v].job
          /\ task'[cur'[v].session] = "none"
    BY <1>0, <1>o, <2>1, Fields DEF WorkersInv
  <2>3. \A v, x \in Workers :
          pc'[v] = "Publish" /\ pc'[x] = "Publish" /\ cur'[v].session = cur'[x].session => v = x
    BY <1>0, <2>1 DEF WorkersInv
  <2>4. \A v \in Workers : Dispatched(v)' => Published(cur[v].job)'
    BY <1>d, <1>p, Fields DEF WorkersInv
  <2>5. \A v \in Workers : cur'[v].state \notin Terminal
    BY <1>0 DEF Alone, WorkersInv
  <2> QED
    BY <2>2, <2>3, <2>4, <2>5 DEF WorkersInv
<1>4. NoJobLost'
  BY <1>p DEF NoJobLost
<1>5. OnceInv'
  <2>1. \A v \in Workers : pc'[v] = "idle" <=> pc[v] = "idle"
    BY <1>0 DEF Alone
  <2>2. \A q \in Sessions : task'[q] # "none" => session'[q] = session[q]
    BY <1>o
  <2> QED
    BY <1>d, <2>1, <2>2, <1>1 DEF OnceInv, Holds
<1> QED
  BY <1>1, <1>2, <1>3, <1>4, <1>5

LEMMA StartSessionInv ==
  ASSUME IInv, NEW w \in Workers, StartSession(w)
  PROVE  IInv'
<1> USE DEF IInv
<1>0. cur[w] \in Work /\ cur[w].state \notin Terminal
  BY DEF TypeOK, WorkersInv
<1>u. UNCHANGED <<msg, rec, idle, task, daemon, hist>> /\ pc[w] = "StartSession"
  BY DEF StartSession
<1>1. CASE \E s \in Sessions :
             /\ OpenSession(w, s)
             /\ Goto(w, "Publish", [cur[w] EXCEPT !.session = s])
  <2>1. PICK s \in Sessions :
             /\ OpenSession(w, s)
             /\ Goto(w, "Publish", [cur[w] EXCEPT !.session = s])
    BY <1>1
  <2> DEFINE work == [cur[w] EXCEPT !.session = s]
  <2>2. /\ work \in Work /\ work.job = cur[w].job /\ work.state \notin Terminal
        /\ work.session = s
    BY <1>0 DEF Work
  <2> QED
    BY <1>u, <2>1, <2>2, OpenedInv
<1>2. CASE Scheduled(w, "failed", "error") /\ UNCHANGED session
  BY <1>2, <1>u, ScheduledInv DEF JobStates, Terminal
<1>3. CASE (\E s \in Sessions : OpenSession(w, s)) /\ Scheduled(w, "failed", "error")
  <2>1. PICK s \in Sessions : OpenSession(w, s)
    BY <1>3
  <2> DEFINE work == [cur[w] EXCEPT !.state = "failed", !.outcome = "error"]
  <2>2. /\ work \in Work /\ work.job = cur[w].job /\ work.state \notin Terminal
        /\ work.outcome # "ok"
    BY <1>0 DEF Work, JobStates, Terminal
  <2> QED
    BY <1>3, <1>u, <2>1, <2>2, OpenedInv DEF Scheduled
<1> QED
  BY <1>1, <1>2, <1>3 DEF StartSession

LEMMA PublishInv ==
  ASSUME IInv, NEW w \in Workers, Publish(w)
  PROVE  IInv'
<1> USE DEF IInv, daemon, hist
<1> DEFINE s == cur[w].session
<1>u. UNCHANGED <<msg, rec, idle, session, daemon, hist>> /\ pc[w] = "Publish"
  BY DEF Publish
<1>f. /\ s \in Sessions /\ session[s].status # "none" /\ session[s].job = cur[w].job
      /\ task[s] = "none" /\ cur[w].job \in Jobs
  BY <1>u, Fields DEF WorkersInv
<1>1. CASE Scheduled(w, "pending", "error") /\ UNCHANGED task
  BY <1>1, <1>u, ScheduledInv DEF JobStates, Terminal
<1>2. ASSUME NEW t \in {"ready", "lost"}, task' = [task EXCEPT ![s] = t],
             Scheduled(w, "dispatched", "ok")
      PROVE  IInv'
  <2> DEFINE work == [cur[w] EXCEPT !.state = "dispatched", !.outcome = "ok"]
  <2>0. cur[w] \in Work
    BY DEF TypeOK
  <2>1. /\ work \in Work /\ work.job = cur[w].job /\ work.state \notin Terminal
        /\ work.outcome = "ok"
    BY <2>0 DEF Work, JobStates, Terminal
  <2>2. /\ pc' \in [Workers -> Calls \cup {"idle"}]
        /\ cur' \in [Workers -> Work]
        /\ pc'[w] = "UpdateJobState" /\ cur'[w] = work
        /\ Alone(w)
    BY <1>2, <2>1, GotoFacts DEF Calls, Scheduled
  <2> HIDE DEF work
  <2>3. /\ task' \in [Sessions -> {"none", "ready", "acked", "lost"}]
        /\ task'[s] \in {"ready", "lost"}
        /\ \A q \in Sessions : q # s => task'[q] = task[q]
    BY <1>2, <1>f DEF TypeOK
  <2>4. /\ Dispatched(w)' /\ ~Dispatched(w)
        /\ \A v \in Workers : v # w => Dispatched(v)' = Dispatched(v) /\ cur'[v] = cur[v]
        /\ \A v \in Workers : cur'[v].job = cur[v].job
    BY <1>u, <2>1, <2>2 DEF Dispatched, Alone
  <2>5. /\ \A j \in Jobs : Published(j) => Published(j)'
        /\ Published(cur[w].job)'
    <3>1. /\ \A q \in Sessions : task[q] # "none" => task'[q] # "none"
          /\ task'[s] # "none" /\ s \in Sessions
      BY <1>f, <2>3
    <3>2. \A j \in Jobs : Published(j) => Published(j)'
      BY <1>u, <3>1 DEF Published
    <3>3. session'[s].job = cur'[w].job
      BY <1>u, <1>f, <2>4
    <3>4. Published(cur[w].job)'
      BY <3>1, <3>3 DEF Published
    <3> QED
      BY <3>2, <3>4
  <2>6. TypeOK'
    BY <1>u, <2>2, <2>3 DEF TypeOK
  <2>7. SessionsInv'
    BY <1>u, <1>f, <2>3, Fields DEF SessionsInv
  <2>8. WorkersInv'
    <3>1. ASSUME NEW v \in Workers, pc'[v] = "Publish"
          PROVE  /\ v # w /\ pc[v] = "Publish" /\ cur'[v] = cur[v]
                 /\ task'[cur[v].session] = task[cur[v].session]
      BY <1>u, <2>2, <2>3, <3>1, Fields DEF Alone, WorkersInv
    <3>2. \A v \in Workers : Dispatched(v)' => Published(cur[v].job)'
      BY <2>4, <2>5, Fields DEF WorkersInv
    <3>3. \A v \in Workers : cur'[v].state \notin Terminal
      BY <2>1, <2>2 DEF Alone, WorkersInv
    <3>4. \A v \in Workers : pc'[v] = "Publish" =>
          /\ session'[cur'[v].session].status # "none"
          /\ session'[cur'[v].session].job = cur'[v].job
          /\ task'[cur'[v].session] = "none"
      BY <1>u, <3>1 DEF WorkersInv
    <3>5. \A v, x \in Workers :
          pc'[v] = "Publish" /\ pc'[x] = "Publish" /\ cur'[v].session = cur'[x].session => v = x
      BY <3>1 DEF WorkersInv
    <3> QED
      BY <1>u, <3>2, <3>3, <3>4, <3>5 DEF WorkersInv
  <2>9. NoJobLost'
    BY <1>u, <2>5 DEF NoJobLost
  <2>10. OnceInv'
    <3> SUFFICES ASSUME ~late PROVE OnceInv'
      BY <1>u DEF OnceInv
    <3>1. \A v \in Workers : pc'[v] = "idle" <=> pc[v] = "idle"
      BY <1>u, <2>2 DEF Alone
    <3>2. \A q \in Sessions : task[q] # "none" => session[q].job # cur[w].job
      BY <1>u, <2>4 DEF OnceInv
    <3>3. \A q, r \in Sessions :
            task'[q] # "none" /\ task'[r] # "none" /\ session[q].job = session[r].job => q = r
      BY <1>f, <2>3, <3>2 DEF OnceInv
    <3>4. \A q \in Sessions : task'[q] # "none" =>
            \/ msg[session[q].job] = "acked"
            \/ \E v \in Workers : Dispatched(v)' /\ cur'[v].job = session[q].job
      BY <1>f, <2>3, <2>4 DEF OnceInv
    <3>5. \A i \in Runs : run[i] # "none" => task'[i[1]] = "acked"
      BY <1>f, <2>3, Fields DEF OnceInv
    <3>6. \A v \in Workers : pc'[v] # "idle" /\ ~Dispatched(v)' =>
            \A q \in Sessions : task'[q] # "none" => session[q].job # cur'[v].job
      <4> SUFFICES ASSUME NEW v \in Workers, pc'[v] # "idle", ~Dispatched(v)',
                          NEW q \in Sessions, task'[q] # "none"
                   PROVE  session[q].job # cur'[v].job
        OBVIOUS
      <4>1. v # w /\ pc[v] # "idle" /\ ~Dispatched(v) /\ cur'[v].job = cur[v].job
        BY <2>4, <3>1
      <4>2. CASE q = s
        BY <4>1, <4>2, <1>u, <1>f DEF OnceInv, Holds
      <4>3. CASE q # s
        BY <4>1, <4>3, <2>3 DEF OnceInv
      <4> QED
        BY <4>2, <4>3
    <3> QED
      BY <1>u, <2>4, <3>1, <3>3, <3>4, <3>5, <3>6 DEF OnceInv, Holds
  <2> QED
    BY <2>6, <2>7, <2>8, <2>9, <2>10
<1> QED
  BY <1>1, <1>2 DEF Publish

LEMMA UpdateJobStateInv ==
  ASSUME IInv, NEW w \in Workers, UpdateJobState(w)
  PROVE  IInv'
<1> USE DEF IInv
<1>0. cur[w] \in Work /\ cur[w].job \in Jobs /\ cur[w].state \in JobStates \ Terminal
  BY Fields DEF TypeOK, WorkersInv
<1>u. /\ UNCHANGED <<msg, idle, session, task, daemon, hist>>
      /\ pc[w] = "UpdateJobState" /\ Goto(w, "Settle", cur[w])
  BY DEF UpdateJobState
<1>1. rec' \in [Jobs -> JobStates] /\ \A k \in Jobs : rec'[k] \notin Terminal
  BY <1>0 DEF UpdateJobState, TypeOK, WorkersInv
<1>2. Dispatched(w)' = Dispatched(w)
  BY <1>0, <1>u, GotoFacts DEF Dispatched, Calls
<1> QED
  BY <1>0, <1>u, <1>1, <1>2, MoveInv DEF Calls

LEMMA SettleInv ==
  ASSUME IInv, NEW w \in Workers, Settle(w)
  PROVE  IInv'
<1>1. /\ UNCHANGED <<rec, idle, session, task, daemon>>
      /\ pc[w] = "Settle" /\ Finish(w)
  BY DEF Settle
<1>2. Dispatched(w) <=> cur[w].outcome = "ok"
  BY <1>1 DEF Dispatched
<1>3. \/ Ack(cur[w].job) /\ Dispatched(w) /\ UNCHANGED hist
      \/ Nak(cur[w].job) /\ ~Dispatched(w) /\ UNCHANGED late
      \/ UNCHANGED <<msg, dropped>> /\ late' = TRUE
  BY <1>2 DEF Settle
<1> QED
  BY <1>1, <1>3, LeaveInv

LEMMA CrashInv ==
  ASSUME IInv, NEW w \in Workers, Crash(w)
  PROVE  IInv'
BY LeaveInv DEF Crash

(* Steps of a daemon.  They concern the daemon's own state, the phase of    *)
(* runs that are under way, and the end of sessions.                        *)
LEMMA DaemonStepInv ==
  ASSUME IInv, UNCHANGED <<msg, rec, sched, session, task, late, dropped>>,
         idle' \subseteq Providers, healthy' \in [Providers -> BOOLEAN],
         active' \in [Providers -> SUBSET Jobs],
         run' \in [Runs -> RunStates],
         \A i \in Runs : run[i] = "none" <=> run'[i] = "none",
         \A i \in Runs : run[i] = "done" => run'[i] = "done"
  PROVE  IInv'
<1> USE DEF IInv, sched
<1>1. TypeOK'
  BY DEF TypeOK
<1>2. SessionsInv'
  BY DEF SessionsInv
<1>3. WorkersInv'
  BY DEF WorkersInv, Dispatched, Published
<1>4. NoJobLost'
  BY DEF NoJobLost, Published
<1>5. OnceInv'
  BY DEF OnceInv, Holds, Dispatched
<1> QED
  BY <1>1, <1>2, <1>3, <1>4, <1>5

LEMMA InactiveType ==
  ASSUME TypeOK, NEW p \in Providers, NEW j \in Jobs, Inactive(p, j)
  PROVE  active' \in [Providers -> SUBSET Jobs]
BY DEF TypeOK, Inactive

LEMMA ProviderStatusInv ==
  ASSUME IInv, NEW p \in Providers, ProviderStatus(p)
  PROVE  IInv'
BY DaemonStepInv DEF IInv, TypeOK, ProviderStatus, daemon, hist

LEMMA HealthCheckInv ==
  ASSUME IInv, NEW p \in Providers, HealthCheck(p)
  PROVE  IInv'
<1>1. healthy' \in [Providers -> BOOLEAN]
  BY DEF IInv, TypeOK, HealthCheck
<1> QED
  BY <1>1, DaemonStepInv DEF IInv, TypeOK, HealthCheck, hist

LEMMA DaemonCrashInv ==
  ASSUME IInv, NEW p \in Providers, DaemonCrash(p)
  PROVE  IInv'
<1>1. active' \in [Providers -> SUBSET Jobs]
  BY DEF IInv, TypeOK, DaemonCrash
<1>2. run' \in [Runs -> RunStates]
  BY DEF IInv, TypeOK, DaemonCrash, RunStates
<1>3. \A i \in Runs : /\ run[i] = "none" <=> run'[i] = "none"
                      /\ run[i] = "done" => run'[i] = "done"
  BY DEF DaemonCrash
<1> QED
  BY <1>1, <1>2, <1>3, DaemonStepInv DEF IInv, TypeOK, DaemonCrash, hist

LEMMA PrepareWorkspaceInv ==
  ASSUME IInv, NEW i \in Runs, PrepareWorkspace(i)
  PROVE  IInv'
<1> USE DEF IInv
<1>1. active' \in [Providers -> SUBSET Jobs]
  BY Fields, InactiveType DEF PrepareWorkspace, TypeOK
<1>2. /\ run' \in [Runs -> RunStates]
      /\ \A k \in Runs : /\ run[k] = "none" <=> run'[k] = "none"
                         /\ run[k] = "done" => run'[k] = "done"
  BY DEF TypeOK, PrepareWorkspace, RunStates
<1> QED
  BY <1>1, <1>2, DaemonStepInv DEF TypeOK, PrepareWorkspace, hist

LEMMA ExecuteInv ==
  ASSUME IInv, NEW i \in Runs, Execute(i)
  PROVE  IInv'
<1> USE DEF IInv
<1>1. active' \in [Providers -> SUBSET Jobs]
  BY Fields, InactiveType DEF Execute
<1>2. /\ run' \in [Runs -> RunStates]
      /\ \A k \in Runs : /\ run[k] = "none" <=> run'[k] = "none"
                         /\ run[k] = "done" => run'[k] = "done"
  BY DEF TypeOK, Execute, RunStates
<1> QED
  BY <1>1, <1>2, DaemonStepInv DEF TypeOK, Execute, hist

LEMMA EndBillingSessionInv ==
  ASSUME IInv, NEW i \in Runs, EndBillingSession(i)
  PROVE  IInv'
<1> USE DEF IInv, daemon, hist
<1> DEFINE s == i[1]
<1>u. /\ UNCHANGED <<msg, rec, sched, idle, task, healthy, active, hist>>
      /\ run[i] = "stop" /\ s \in Sessions
  BY Fields DEF EndBillingSession
<1>0. \/ session' = [session EXCEPT ![s].status = "ended"] /\ run' = [run EXCEPT ![i] = "done"]
      \/ UNCHANGED session /\ run' = [run EXCEPT ![i] = "refused"]
  BY DEF EndBillingSession
<1>r. /\ run' \in [Runs -> RunStates]
      /\ \A k \in Runs : /\ run[k] = "none" <=> run'[k] = "none"
                         /\ run[k] = "done" => run'[k] = "done"
      /\ session' # session => run'[i] = "done"
  BY <1>0, <1>u DEF TypeOK, RunStates
<1>s. /\ session' \in [Sessions -> SessionRow]
      /\ \A q \in Sessions : /\ session'[q].job = session[q].job
                             /\ session'[q].status # session[q].status
                                  => q = s /\ session'[q].status = "ended"
  <2>1. CASE session' = [session EXCEPT ![s].status = "ended"]
    <3> DEFINE row == [session[s] EXCEPT !.status = "ended"]
    <3>1. session[s] \in SessionRow
      BY <1>u DEF TypeOK
    <3>2. row \in SessionRow /\ row.job = session[s].job /\ row.status = "ended"
      BY <3>1 DEF SessionRow
    <3>3. session' = [session EXCEPT ![s] = row]
      BY <2>1
    <3> HIDE DEF row
    <3> QED
      BY <1>u, <3>2, <3>3 DEF TypeOK
  <2>2. CASE UNCHANGED session
    BY <2>2 DEF TypeOK
  <2> QED
    BY <2>1, <2>2 DEF EndBillingSession
<1>t. task[s] # "none" /\ session[s].status # "none"
  BY <1>u DEF SessionsInv
<1>1. TypeOK'
  BY <1>u, <1>r, <1>s DEF TypeOK, sched
<1>2. SessionsInv'
  <2>1. \A q \in Sessions : session'[q].status = "none" => session[q].status = "none"
    BY <1>s
  <2>2. ASSUME NEW q \in Sessions, session'[q].status = "ended"
        PROVE  \E k \in Runs : k[1] = q /\ run'[k] = "done"
    BY <1>r, <1>s, <2>2 DEF SessionsInv
  <2> QED
    BY <1>u, <1>r, <2>1, <2>2 DEF SessionsInv
<1>3. WorkersInv'
  <2>1. \A j \in Jobs : Published(j)' = Published(j)
    BY <1>u, <1>s DEF Published
  <2>2. \A w \in Workers : Dispatched(w)' = Dispatched(w) /\ pc'[w] = pc[w] /\ cur'[w] = cur[w]
    BY <1>u DEF Dispatched, sched
  <2>3. \A w \in Workers : Dispatched(w)' => Published(cur[w].job)'
    <3> SUFFICES ASSUME NEW w \in Workers, Dispatched(w)'
                 PROVE  Published(cur[w].job)'
      OBVIOUS
    <3>1. Published(cur[w].job)
      BY <2>2 DEF WorkersInv
    <3> QED
      BY <1>u, <1>s, <3>1, <2>2 DEF Published
  <2>4. \A w \in Workers : pc'[w] = "Publish" =>
          LET q == cur'[w].session
          IN session'[q].status # "none" /\ session'[q].job = cur'[w].job /\ task'[q] = "none"
    BY <1>u, <1>s, <2>2, Fields DEF WorkersInv
  <2> QED
    BY <1>u, <2>2, <2>3, <2>4 DEF WorkersInv, sched
<1>4. NoJobLost'
  BY <1>u, <1>s DEF NoJobLost, Published
<1>5. OnceInv'
  <2> SUFFICES ASSUME ~late PROVE OnceInv'
    BY <1>u DEF OnceInv
  <2>1. \A k \in Runs : run'[k] # "none" <=> run[k] # "none"
    BY <1>r
  <2>2. \A q \in Sessions : session'[q].job = session[q].job
    BY <1>s
  <2> QED
    BY <1>u, <2>1, <2>2 DEF OnceInv, Holds, Dispatched, sched
<1> QED
  BY <1>1, <1>2, <1>3, <1>4, <1>5

(* A daemon settles a task message, and starts a run of it unless its GPUs  *)
(* are offline.                                                             *)
LEMMA TaskStepInv ==
  ASSUME IInv, NEW s \in Sessions, task[s] = "ready",
         UNCHANGED <<msg, rec, sched, idle, session, healthy, dropped>>,
         active' \in [Providers -> SUBSET Jobs], late' \in BOOLEAN, late => late',
         \/ task' = task
         \/ task' = [task EXCEPT ![s] = "acked"],
         \/ run' = run
         \/ \E i \in Runs : /\ i[1] = s /\ run[i] = "none"
                            /\ run' = [run EXCEPT ![i] = "prepare"]
                            /\ late' \/ task' = [task EXCEPT ![s] = "acked"]
  PROVE  IInv'
<1> USE DEF IInv, sched
<1>t. /\ task' \in [Sessions -> {"none", "ready", "acked", "lost"}]
      /\ \A q \in Sessions : task'[q] = "none" <=> task[q] = "none"
      /\ \A q \in Sessions : task[q] = "acked" => task'[q] = "acked"
  BY DEF TypeOK
<1>r. /\ run' \in [Runs -> RunStates]
      /\ \A i \in Runs : /\ run[i] = "done" => run'[i] = "done"
                         /\ run'[i] # run[i] => i[1] = s
  BY DEF TypeOK, RunStates
<1>1. TypeOK'
  BY <1>t, <1>r DEF TypeOK
<1>2. SessionsInv'
  <2>1. \A i \in Runs : run'[i] # "none" => task'[i[1]] # "none"
    BY <1>t, <1>r, Fields DEF SessionsInv
  <2> QED
    BY <1>t, <1>r, <2>1 DEF SessionsInv
<1>3. WorkersInv'
  BY <1>t, Fields DEF WorkersInv, Dispatched, Published
<1>4. NoJobLost'
  BY <1>t DEF NoJobLost, Published
<1>5. OnceInv'
  <2> SUFFICES ASSUME ~late' PROVE OnceInv'
    BY DEF OnceInv
  <2>1. ~late
    OBVIOUS
  <2>2. \A i \in Runs : i[1] = s => run[i] = "none"
    BY <2>1 DEF OnceInv
  <2>3. \A i \in Runs : run'[i] # "none" => task'[i[1]] = "acked"
    <3>1. CASE run' = run
      BY <3>1, <1>t, <2>1, Fields DEF OnceInv
    <3>2. CASE run' # run
      <4>1. task' = [task EXCEPT ![s] = "acked"]
        BY <3>2
      <4>2. task'[s] = "acked"
        BY <4>1 DEF TypeOK
      <4> QED
        BY <4>2, <1>r, <1>t, <2>1, Fields DEF OnceInv
    <3> QED
      BY <3>1, <3>2
  <2>4. \A i, k \in Runs : run'[i] # "none" /\ run'[k] # "none" /\ i[1] = k[1] => i = k
    <3>1. CASE run' = run
      BY <3>1, <2>1 DEF OnceInv
    <3>2. CASE run' # run
      <4>1. PICK e \in Runs : /\ e[1] = s /\ run[e] = "none"
                              /\ run' = [run EXCEPT ![e] = "prepare"]
        BY <3>2
      <4>2. \A i \in Runs : i # e => run'[i] = run[i]
        BY <4>1 DEF TypeOK
      <4> QED
        BY <4>1, <4>2, <2>1, <2>2 DEF OnceInv
    <3> QED
      BY <3>1, <3>2
  <2> QED
    BY <1>t, <2>1, <2>3, <2>4 DEF OnceInv, Holds, Dispatched
<1> QED
  BY <1>1, <1>2, <1>3, <1>4, <1>5

LEMMA RejectTaskInv ==
  ASSUME IInv, NEW s \in Sessions, RejectTask(s)
  PROVE  IInv'
<1>1. active' \in [Providers -> SUBSET Jobs]
  BY Fields, InactiveType DEF IInv, RejectTask
<1> QED
  BY <1>1, TaskStepInv DEF IInv, TypeOK, RejectTask, hist

LEMMA AcceptTaskInv ==
  ASSUME IInv, NEW s \in Sessions, AcceptTask(s)
  PROVE  IInv'
<1> USE DEF IInv
<1> DEFINE p == session[s].provider
<1>1. active' \in [Providers -> SUBSET Jobs]
  <2>1. p \in Providers /\ session[s].job \in Jobs
    BY Fields
  <2>2. active' = [active EXCEPT ![p] = @ \cup {session[s].job}]
    BY DEF AcceptTask
  <2> QED
    BY <2>1, <2>2 DEF TypeOK
<1>2. /\ late' \in BOOLEAN /\ (late => late')
      /\ task' = task \/ task' = [task EXCEPT ![s] = "acked"]
      /\ late' \/ task' = [task EXCEPT ![s] = "acked"]
  <2>1. CASE task' = [task EXCEPT ![s] = "acked"] /\ UNCHANGED late
    BY <2>1 DEF TypeOK
  <2>2. CASE late' = TRUE /\ UNCHANGED task
    BY <2>2
  <2> QED
    BY <2>1, <2>2 DEF AcceptTask
<1>3. PICK n \in 1 .. MaxRuns : /\ run[<<s, n>>] = "none"
                                /\ run' = [run EXCEPT ![<<s, n>>] = "prepare"]
  BY DEF AcceptTask
<1>4. <<s, n>> \in Runs /\ <<s, n>>[1] = s
  BY DEF Runs
<1>5. \E i \in Runs : /\ i[1] = s /\ run[i] = "none"
                      /\ run' = [run EXCEPT ![i] = "prepare"]
                      /\ late' \/ task' = [task EXCEPT ![s] = "acked"]
  BY <1>2, <1>3, <1>4
<1> QED
  BY <1>1, <1>2, <1>5, TaskStepInv DEF AcceptTask

LEMMA StepInv == IInv /\ [Next]_vars => IInv'
<1> SUFFICES ASSUME IInv, [Next]_vars PROVE IInv'
  OBVIOUS
<1>1. CASE \E j \in Jobs : SubmitJob(j) \/ Redeliver(j) \/ Expire(j)
  BY <1>1, SubmitJobInv, RedeliverInv, ExpireInv
<1>2. CASE \E w \in Workers : Scheduler(w) \/ Crash(w)
  BY <1>2, FetchJobInv, GetJobInv, SaveJobInv, ListProvidersInv, StartSessionInv,
     PublishInv, UpdateJobStateInv, SettleInv, CrashInv DEF Scheduler
<1>3. CASE \E p \in Providers : ProviderStatus(p) \/ HealthCheck(p) \/ DaemonCrash(p)
  BY <1>3, ProviderStatusInv, HealthCheckInv, DaemonCrashInv
<1>4. CASE \E s \in Sessions : RejectTask(s) \/ AcceptTask(s)
  BY <1>4, RejectTaskInv, AcceptTaskInv
<1>5. CASE \E i \in Runs : Goroutine(i)
  BY <1>5, PrepareWorkspaceInv, ExecuteInv, EndBillingSessionInv DEF Goroutine
<1>6. CASE UNCHANGED vars
  <2>1. /\ UNCHANGED <<msg, rec, sched, session, task, late, dropped>>
        /\ UNCHANGED <<idle, healthy, active, run>>
    BY <1>6 DEF vars, sched, daemon, hist
  <2> QED
    BY <2>1, DaemonStepInv DEF IInv, TypeOK
<1> QED
  BY <1>1, <1>2, <1>3, <1>4, <1>5, <1>6 DEF Next

LEMMA Invariant == Spec => []IInv
BY InitInv, StepInv, PTL DEF Spec

(* Messages, rows, sessions and goroutines stay in states the code names.   *)
THEOREM TypeCorrect == Spec => []TypeOK
<1>1. IInv => TypeOK
  BY DEF IInv
<1> QED
  BY <1>1, Invariant, PTL

(* A job leaves the queue only once a task was published for it, or dropped *)
(* when its NAK failed or its message expired, for any number of jobs and   *)
(* schedulers and whatever fails (JobConsumer.handleMessage).                          *)
THEOREM NoJobLostCorrect == Spec => []NoJobLost
<1>1. IInv => NoJobLost
  BY DEF IInv
<1> QED
  BY <1>1, Invariant, PTL

(* While the only delivery of a task runs, its session is open              *)
(* (Handler.runTask, endBillingSession).                                    *)
THEOREM BilledWhileRunningCorrect == Spec => []BilledWhileRunning
<1>1. IInv => BilledWhileRunning
  <2> SUFFICES ASSUME IInv, NEW i \in Runs, Executing(i),
                      \A n \in 1 .. MaxRuns : n # i[2] => run[<<i[1], n>>] = "none"
               PROVE  session[i[1]].status = "open"
    BY DEF BilledWhileRunning
  <2>1. i[1] \in Sessions /\ session[i[1]].status \in {"none", "open", "ended"}
    BY RunIndex DEF IInv, TypeOK, SessionRow
  <2>2. session[i[1]].status # "none"
    BY <2>1 DEF IInv, SessionsInv, Executing
  <2>3. \A k \in Runs : k[1] = i[1] => run[k] # "done"
    <3> SUFFICES ASSUME NEW k \in Runs, k[1] = i[1], run[k] = "done"
                 PROVE  FALSE
      OBVIOUS
    <3>1. k[2] \in 1 .. MaxRuns /\ k = <<i[1], k[2]>> /\ i = <<i[1], i[2]>>
      BY RunIndex
    <3>2. k[2] = i[2]
      BY <3>1
    <3>3. k = i
      BY <3>1, <3>2
    <3> QED
      BY <3>3 DEF Executing
  <2>4. session[i[1]].status # "ended"
    BY <2>1, <2>3 DEF IInv, SessionsInv
  <2> QED
    BY <2>1, <2>2, <2>4
<1> QED
  BY <1>1, Invariant, PTL

(* As long as acknowledgements arrive in time and no scheduler dies, a job  *)
(* is run at most once, whatever other calls fail.                          *)
THEOREM RunsOnceCorrect == Spec => []RunsOnce
<1>1. IInv => RunsOnce
  <2> SUFFICES ASSUME IInv, ~late, NEW i \in Runs, NEW k \in Runs,
                      run[i] # "none", run[k] # "none",
                      session[i[1]].job = session[k[1]].job
               PROVE  i = k
    BY DEF RunsOnce
  <2>1. /\ i[1] \in Sessions /\ k[1] \in Sessions
        /\ task[i[1]] # "none" /\ task[k[1]] # "none"
    BY Fields DEF IInv, SessionsInv
  <2>2. i[1] = k[1]
    BY <2>1 DEF IInv, OnceInv
  <2> QED
    BY <2>2 DEF IInv, OnceInv
<1> QED
  BY <1>1, Invariant, PTL
=============================================================================
