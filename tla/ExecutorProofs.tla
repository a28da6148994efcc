--------------------------- MODULE ExecutorProofs ---------------------------
(* Proofs about Executor, for any jobs, deliveries, tasks and faults, and   *)
(* about the tasks that JobWire brings to it.                               *)
EXTENDS Executor, JobWire, FoldLemmas, SequenceTheorems, TLAPS

(* A container or script runs only while its run waits for it or is about   *)
(* to remove it, unless the removal failed or the daemon died; a session    *)
(* was ended by a run of the job that is past its end.                      *)
BilledInv ==
  /\ \A r \in Runs :
       proc[r] = "running" => pc[r] \in {"wait", "remove", "dead"} \/ r \in kept
  /\ \A j \in Jobs :
       session[j] = "ended" => \E r \in Runs : JobOf[r] = j /\ pc[r] \in {"cleanup", "done"}

(* A result without an error is the exit code of what ended by itself; its  *)
(* exit code will not change any more.                                      *)
ResultInv ==
  \A r \in Runs :
    pc[r] \in {"remove", "report"} /\ ~result[r].err /\ result[r].code = 0
      => exit[r] = 0 /\ proc[r] # "running"

(* The workspace is there from its preparation to the end of the execution. *)
WorkspaceInv ==
  \A r \in Runs :
    /\ pc[r] \in {"write", "launch", "pull", "create", "start", "wait"}
    /\ Alone(r) \/ type = "docker"
    => ws[JobOf[r]] # "none"

(* A run is metered only once its context exists, and an update that came   *)
(* after the end of the context is the last one.                            *)
MeterInv ==
  \A r \in Runs :
    /\ pc[r] \in {"idle", "prepare"} => monitor[r] = "off" /\ straggler[r] = 0
    /\ straggler[r] # 0 => straggler[r] = 1 /\ ~Live(r) /\ monitor[r] = "on"

IInv ==
  TypeOK /\ BilledInv /\ ResultInv /\ NoGhostJobs /\ WorkspaceInv /\ MeterInv

-----------------------------------------------------------------------------
(* A step of one run.                                                       *)

Busy    == Calls \ {"end", "cleanup"}
Working == {"write", "launch", "pull", "create", "start", "wait"}
Past    == {"cleanup", "done"}

(* It leaves the other runs alone,                                          *)
Frame(r) ==
  /\ UNCHANGED config
  /\ \A q \in Runs \ {r} :
       /\ pc'[q] = pc[q] /\ ctx'[q] = ctx[q] /\ proc'[q] = proc[q]
       /\ exit'[q] = exit[q] /\ monitor'[q] = monitor[q] /\ result'[q] = result[q]
       /\ straggler'[q] = straggler[q]
  /\ kept \subseteq kept'
  /\ pc'[r] = "idle" => pc[r] = "idle"

(* leaves nothing running once it goes past the removal, and ends at most   *)
(* its own session, and only then;                                          *)
KeepsBilled(r) ==
  /\ proc'[r] = "running" => pc'[r] \in {"wait", "remove", "dead"} \/ r \in kept'
  /\ \A j \in Jobs : session'[j] # session[j] => j = JobOf[r] /\ pc'[r] \in Past
  /\ pc[r] \in Past => pc'[r] \in Past

(* brings no success that was not one;                                      *)
KeepsResult(r) ==
  pc'[r] \in {"remove", "report"} /\ ~result'[r].err /\ result'[r].code = 0
    => exit'[r] = 0 /\ proc'[r] # "running"

(* takes its job off the list before it stops being busy;                   *)
KeepsActive(r) ==
  /\ active' \subseteq active \cup {JobOf[r]}
  /\ \/ pc'[r] \in Busy
     \/ JobOf[r] \notin active'
     \/ pc[r] \notin Busy /\ active' \subseteq active

(* removes its workspace only at the very end;                              *)
KeepsWorkspace(r) ==
  /\ \A j \in Jobs :
       ws[j] # "none" /\ ws'[j] = "none"
         => j = JobOf[r] /\ pc'[r] = "done" /\ type # "docker"
  /\ pc'[r] \in Working => pc[r] \in Working \/ ws'[JobOf[r]] # "none"

(* and keeps to the rules of metering.                                      *)
KeepsMeter(r) ==
  /\ pc'[r] \in {"idle", "prepare"} => monitor'[r] = "off" /\ straggler'[r] = 0
  /\ straggler'[r] # 0 => straggler'[r] = 1 /\ ~Live(r)' /\ monitor'[r] = "on"

LEMMA AloneStays ==
  ASSUME TypeOK, NEW r \in Runs, Frame(r), NEW q \in Runs, Alone(q)'
  PROVE  Alone(q)
BY DEF Alone, Frame

LEMMA LocalInv ==
  ASSUME IInv, TypeOK', NEW r \in Runs, Frame(r), KeepsBilled(r), KeepsResult(r),
         KeepsActive(r), KeepsWorkspace(r), KeepsMeter(r)
  PROVE  IInv'
<1> USE DEF IInv
<1>0. JobOf \in [Runs -> Jobs]
  BY ExecutorAssumption
<1>1. BilledInv'
  <2>1. \A q \in Runs :
          proc'[q] = "running" => pc'[q] \in {"wait", "remove", "dead"} \/ q \in kept'
    BY DEF Frame, KeepsBilled, BilledInv
  <2>2. ASSUME NEW j \in Jobs, session'[j] = "ended"
        PROVE  \E q \in Runs : JobOf[q] = j /\ pc'[q] \in {"cleanup", "done"}
    <3>1. CASE session[j] = "ended"
      BY <3>1 DEF Frame, KeepsBilled, BilledInv, Past
    <3>2. CASE session[j] # "ended"
      BY <2>2, <3>2 DEF KeepsBilled, Past
    <3> QED
      BY <3>1, <3>2
  <2> QED
    BY <2>1, <2>2 DEF BilledInv
<1>2. ResultInv'
  BY DEF Frame, KeepsResult, ResultInv
<1>3. NoGhostJobs'
  <2> SUFFICES ASSUME NEW j \in active'
               PROVE  \E q \in Runs : JobOf[q] = j /\ pc'[q] \in Busy
    BY DEF NoGhostJobs, Busy
  <2>1. CASE j = JobOf[r] /\ pc'[r] \in Busy
    BY <2>1
  <2>2. CASE j \in active /\ (j # JobOf[r] \/ pc[r] \notin Busy)
    <3>1. PICK q \in Runs : JobOf[q] = j /\ pc[q] \in Busy
      BY <2>2 DEF NoGhostJobs, Busy
    <3> QED
      BY <2>2, <3>1 DEF Frame
  <2> QED
    BY <2>1, <2>2 DEF KeepsActive
<1>4. WorkspaceInv'
  <2> SUFFICES ASSUME NEW q \in Runs, pc'[q] \in Working, Alone(q)' \/ type' = "docker"
               PROVE  ws'[JobOf[q]] # "none"
    BY DEF WorkspaceInv, Working
  <2>1. Alone(q) \/ type = "docker"
    BY AloneStays DEF Frame, config
  <2>2. CASE pc[q] \in Working
    <3>1. ws[JobOf[q]] # "none"
      BY <2>1, <2>2 DEF WorkspaceInv, Working
    <3>2. CASE q = r
      BY <1>0, <3>1, <3>2 DEF KeepsWorkspace, Working
    <3>3. CASE q # r
      <4> SUFFICES ASSUME ws'[JobOf[q]] = "none" PROVE FALSE
        OBVIOUS
      <4>1. JobOf[q] = JobOf[r] /\ pc'[r] = "done" /\ type # "docker"
        BY <1>0, <3>1 DEF KeepsWorkspace
      <4>2. Alone(q)'
        BY <4>1 DEF Frame, config
      <4> QED
        BY <3>3, <4>1, <4>2 DEF Alone
    <3> QED
      BY <3>2, <3>3
  <2>3. CASE pc[q] \notin Working
    BY <2>3 DEF Frame, KeepsWorkspace
  <2> QED
    BY <2>2, <2>3
<1>5. MeterInv'
  BY DEF Frame, KeepsMeter, MeterInv, Live
<1> QED
  BY <1>1, <1>2, <1>3, <1>4, <1>5

LEMMA GotoType ==
  ASSUME TypeOK, NEW r \in Runs, NEW call \in Calls \cup {"done"}, Goto(r, call)
  PROVE  pc' \in [Runs -> Calls \cup {"idle", "done", "dead"}]
BY DEF TypeOK, Goto

LEMMA ReturnType ==
  ASSUME TypeOK, NEW r \in Runs, NEW res \in Result, NEW call \in Calls, Return(r, res, call)
  PROVE  /\ pc' \in [Runs -> Calls \cup {"idle", "done", "dead"}]
         /\ result' \in [Runs -> Result]
BY GotoType DEF TypeOK, Return

LEMMA Results ==
  /\ Ok \in Result /\ Error \in Result
  /\ [err |-> TRUE, code |-> -2] \in Result /\ [err |-> TRUE, code |-> 137] \in Result
  /\ \A e \in {-1, 0, 1} : [err |-> e # 0, code |-> e] \in Result
BY DEF Ok, Error, Result, Codes

LEMMA EntryCall ==
  ASSUME NEW t
  PROVE  Entry(t) \in {"write", "pull", "report"}
BY DEF Entry

LEMMA InitInv == Init => IInv
<1> SUFFICES ASSUME Init PROVE IInv
  OBVIOUS
<1> USE ExecutorAssumption DEF Init
<1>1. TypeOK
  BY DEF TypeOK, Result, Codes, Ok
<1>2. BilledInv /\ NoGhostJobs /\ WorkspaceInv /\ MeterInv
  BY DEF BilledInv, NoGhostJobs, WorkspaceInv, MeterInv
<1>3. ResultInv
  BY DEF ResultInv
<1> QED
  BY <1>1, <1>2, <1>3 DEF IInv

LEMMA HandleTaskInv ==
  ASSUME IInv, NEW r \in Runs, HandleTask(r)
  PROVE  IInv'
<1>0. JobOf[r] \in Jobs
  BY ExecutorAssumption
<1>1. TypeOK'
  <2>1. /\ pc' \in [Runs -> Calls \cup {"idle", "done", "dead"}]
        /\ result' \in [Runs -> Result]
    BY GotoType DEF IInv, TypeOK, Calls, HandleTask, At
  <2> QED
    BY <1>0, <2>1 DEF IInv, TypeOK, HandleTask, At, config, job, meter
<1> USE ExecutorAssumption DEF IInv, HandleTask, At, Goto, config, job, meter
<1>2. Frame(r)
  BY DEF TypeOK, Frame
<1>3. KeepsBilled(r)
  BY DEF TypeOK, KeepsBilled, Past, BilledInv
<1>4. KeepsResult(r)
  BY DEF TypeOK, KeepsResult, ResultInv
<1>5. KeepsActive(r)
  BY DEF TypeOK, KeepsActive, Busy, Calls
<1>6. KeepsWorkspace(r)
  BY DEF TypeOK, KeepsWorkspace, Working
<1>7. KeepsMeter(r)
  BY DEF TypeOK, KeepsMeter, MeterInv, Live
<1> QED
  BY <1>1, <1>2, <1>3, <1>4, <1>5, <1>6, <1>7, LocalInv

LEMMA PrepareWorkspaceInv ==
  ASSUME IInv, NEW r \in Runs, PrepareWorkspace(r)
  PROVE  IInv'
<1>0. JobOf[r] \in Jobs
  BY ExecutorAssumption
<1>1. TypeOK'
  <2>1. /\ pc' \in [Runs -> Calls \cup {"idle", "done", "dead"}]
        /\ result' \in [Runs -> Result]
    BY EntryCall, GotoType, ReturnType, Results, SMTT(30) DEF IInv, TypeOK, Calls, PrepareWorkspace, At, Abandon, Inactive
  <2> QED
    BY <1>0, <2>1 DEF IInv, TypeOK, PrepareWorkspace, At, Abandon, Inactive, config, job, meter
<1> USE EntryCall, ExecutorAssumption DEF IInv, PrepareWorkspace, At, Goto, Return, Abandon, Inactive, Ok, Error, Result, Codes, config, job, meter
<1>2. Frame(r)
  BY SMTT(30) DEF TypeOK, Frame
<1>3. KeepsBilled(r)
  BY DEF TypeOK, KeepsBilled, Past, BilledInv
<1>4. KeepsResult(r)
  BY SMTT(30) DEF TypeOK, KeepsResult, ResultInv
<1>5. KeepsActive(r)
  BY DEF TypeOK, KeepsActive, Busy, Calls
<1>6. KeepsWorkspace(r)
  BY DEF TypeOK, KeepsWorkspace, Working
<1>7. KeepsMeter(r)
  BY DEF TypeOK, KeepsMeter, MeterInv, Live
<1> QED
  BY <1>1, <1>2, <1>3, <1>4, <1>5, <1>6, <1>7, LocalInv

LEMMA WriteScriptInv ==
  ASSUME IInv, NEW r \in Runs, WriteScript(r)
  PROVE  IInv'
<1>0. JobOf[r] \in Jobs
  BY ExecutorAssumption
<1>1. TypeOK'
  <2>1. /\ pc' \in [Runs -> Calls \cup {"idle", "done", "dead"}]
        /\ result' \in [Runs -> Result]
    BY GotoType, ReturnType, Results DEF IInv, TypeOK, Calls, WriteScript, At
  <2> QED
    BY <1>0, <2>1 DEF IInv, TypeOK, WriteScript, At, config, job, meter
<1> USE ExecutorAssumption DEF IInv, WriteScript, At, Goto, Return, Error, Result, Codes, config, job, meter
<1>2. Frame(r)
  BY DEF TypeOK, Frame
<1>3. KeepsBilled(r)
  BY DEF TypeOK, KeepsBilled, Past, BilledInv
<1>4. KeepsResult(r)
  BY DEF TypeOK, KeepsResult, ResultInv
<1>5. KeepsActive(r)
  BY DEF TypeOK, KeepsActive, Busy, Calls
<1>6. KeepsWorkspace(r)
  BY DEF TypeOK, KeepsWorkspace, Working
<1>7. KeepsMeter(r)
  BY DEF TypeOK, KeepsMeter, MeterInv, Live
<1> QED
  BY <1>1, <1>2, <1>3, <1>4, <1>5, <1>6, <1>7, LocalInv

LEMMA LaunchInv ==
  ASSUME IInv, NEW r \in Runs, Launch(r)
  PROVE  IInv'
<1>0. JobOf[r] \in Jobs
  BY ExecutorAssumption
<1>1. TypeOK'
  <2>1. /\ pc' \in [Runs -> Calls \cup {"idle", "done", "dead"}]
        /\ result' \in [Runs -> Result]
    BY GotoType, ReturnType, Results DEF IInv, TypeOK, Calls, Launch, At, Proc
  <2> QED
    BY <1>0, <2>1 DEF IInv, TypeOK, Launch, At, Proc, config, job, meter
<1> USE ExecutorAssumption DEF IInv, Launch, At, Goto, Return, Proc, Live, Error, Result, Codes, config, job, meter
<1>2. Frame(r)
  BY DEF TypeOK, Frame
<1>3. KeepsBilled(r)
  BY DEF TypeOK, KeepsBilled, Past, BilledInv
<1>4. KeepsResult(r)
  BY DEF TypeOK, KeepsResult, ResultInv
<1>5. KeepsActive(r)
  BY DEF TypeOK, KeepsActive, Busy, Calls
<1>6. KeepsWorkspace(r)
  BY DEF TypeOK, KeepsWorkspace, Working
<1>7. KeepsMeter(r)
  BY DEF TypeOK, KeepsMeter, MeterInv, Live
<1> QED
  BY <1>1, <1>2, <1>3, <1>4, <1>5, <1>6, <1>7, LocalInv

LEMMA PullImageInv ==
  ASSUME IInv, NEW r \in Runs, PullImage(r)
  PROVE  IInv'
<1>0. JobOf[r] \in Jobs
  BY ExecutorAssumption
<1>1. TypeOK'
  <2>1. /\ pc' \in [Runs -> Calls \cup {"idle", "done", "dead"}]
        /\ result' \in [Runs -> Result]
    BY GotoType, ReturnType, Results DEF IInv, TypeOK, Calls, PullImage, At
  <2> QED
    BY <1>0, <2>1 DEF IInv, TypeOK, PullImage, At, config, job, meter
<1> USE ExecutorAssumption DEF IInv, PullImage, At, Goto, Return, Live, Error, Result, Codes, config, job, meter
<1>2. Frame(r)
  BY DEF TypeOK, Frame
<1>3. KeepsBilled(r)
  BY DEF TypeOK, KeepsBilled, Past, BilledInv
<1>4. KeepsResult(r)
  BY DEF TypeOK, KeepsResult, ResultInv
<1>5. KeepsActive(r)
  BY DEF TypeOK, KeepsActive, Busy, Calls
<1>6. KeepsWorkspace(r)
  BY DEF TypeOK, KeepsWorkspace, Working
<1>7. KeepsMeter(r)
  BY DEF TypeOK, KeepsMeter, MeterInv, Live
<1> QED
  BY <1>1, <1>2, <1>3, <1>4, <1>5, <1>6, <1>7, LocalInv

LEMMA CreateContainerInv ==
  ASSUME IInv, NEW r \in Runs, CreateContainer(r)
  PROVE  IInv'
<1>0. JobOf[r] \in Jobs
  BY ExecutorAssumption
<1>1. TypeOK'
  <2>1. /\ pc' \in [Runs -> Calls \cup {"idle", "done", "dead"}]
        /\ result' \in [Runs -> Result]
    BY GotoType, ReturnType, Results DEF IInv, TypeOK, Calls, CreateContainer, At, Proc
  <2> QED
    BY <1>0, <2>1 DEF IInv, TypeOK, CreateContainer, At, Proc, config, job, meter
<1> USE ExecutorAssumption DEF IInv, CreateContainer, At, Goto, Return, Proc, Live, Error, Result, Codes, config, job, meter
<1>2. Frame(r)
  BY DEF TypeOK, Frame
<1>3. KeepsBilled(r)
  BY SMTT(30) DEF TypeOK, KeepsBilled, Past, BilledInv
<1>4. KeepsResult(r)
  BY DEF TypeOK, KeepsResult, ResultInv
<1>5. KeepsActive(r)
  BY DEF TypeOK, KeepsActive, Busy, Calls
<1>6. KeepsWorkspace(r)
  BY DEF TypeOK, KeepsWorkspace, Working
<1>7. KeepsMeter(r)
  BY DEF TypeOK, KeepsMeter, MeterInv, Live
<1> QED
  BY <1>1, <1>2, <1>3, <1>4, <1>5, <1>6, <1>7, LocalInv

LEMMA StartContainerInv ==
  ASSUME IInv, NEW r \in Runs, StartContainer(r)
  PROVE  IInv'
<1>0. JobOf[r] \in Jobs
  BY ExecutorAssumption
<1>1. TypeOK'
  <2>1. /\ pc' \in [Runs -> Calls \cup {"idle", "done", "dead"}]
        /\ result' \in [Runs -> Result]
    BY GotoType, ReturnType, Results DEF IInv, TypeOK, Calls, StartContainer, StartFailed, At, Proc
  <2> QED
    BY <1>0, <2>1 DEF IInv, TypeOK, StartContainer, StartFailed, At, Proc, config, job, meter
<1> USE ExecutorAssumption DEF IInv, StartContainer, At, Goto, Return, Proc, StartFailed, Live, Error, Result, Codes, config, job, meter
<1>2. Frame(r)
  BY DEF TypeOK, Frame
<1>3. KeepsBilled(r)
  BY DEF TypeOK, KeepsBilled, Past, BilledInv
<1>4. KeepsResult(r)
  BY DEF TypeOK, KeepsResult, ResultInv
<1>5. KeepsActive(r)
  BY DEF TypeOK, KeepsActive, Busy, Calls
<1>6. KeepsWorkspace(r)
  BY DEF TypeOK, KeepsWorkspace, Working
<1>7. KeepsMeter(r)
  BY DEF TypeOK, KeepsMeter, MeterInv, Live
<1> QED
  BY <1>1, <1>2, <1>3, <1>4, <1>5, <1>6, <1>7, LocalInv

LEMMA ExitInv ==
  ASSUME IInv, NEW r \in Runs, Exit(r)
  PROVE  IInv'
<1> USE ExecutorAssumption DEF IInv, Exit, Proc, config, job, meter
<1>1. TypeOK'
  BY DEF TypeOK, Calls
<1>2. Frame(r)
  BY DEF TypeOK, Frame
<1>3. KeepsBilled(r)
  BY DEF TypeOK, KeepsBilled, Past, BilledInv
<1>4. KeepsResult(r)
  BY DEF TypeOK, KeepsResult, ResultInv
<1>5. KeepsActive(r)
  BY DEF TypeOK, KeepsActive, Busy, Calls
<1>6. KeepsWorkspace(r)
  BY DEF TypeOK, KeepsWorkspace, Working
<1>7. KeepsMeter(r)
  BY DEF TypeOK, KeepsMeter, MeterInv, Live
<1> QED
  BY <1>1, <1>2, <1>3, <1>4, <1>5, <1>6, <1>7, LocalInv

LEMMA KillInv ==
  ASSUME IInv, NEW r \in Runs, Kill(r)
  PROVE  IInv'
<1> USE ExecutorAssumption DEF IInv, Kill, At, Proc, config, job, meter
<1>1. TypeOK'
  BY DEF TypeOK, Calls
<1>2. Frame(r)
  BY DEF TypeOK, Frame
<1>3. KeepsBilled(r)
  BY DEF TypeOK, KeepsBilled, Past, BilledInv
<1>4. KeepsResult(r)
  BY DEF TypeOK, KeepsResult, ResultInv
<1>5. KeepsActive(r)
  BY DEF TypeOK, KeepsActive, Busy, Calls
<1>6. KeepsWorkspace(r)
  BY DEF TypeOK, KeepsWorkspace, Working
<1>7. KeepsMeter(r)
  BY DEF TypeOK, KeepsMeter, MeterInv, Live
<1> QED
  BY <1>1, <1>2, <1>3, <1>4, <1>5, <1>6, <1>7, LocalInv

LEMMA WaitScriptInv ==
  ASSUME IInv, NEW r \in Runs, WaitScript(r)
  PROVE  IInv'
<1>0. JobOf[r] \in Jobs
  BY ExecutorAssumption
<1>1. TypeOK'
  <2>1. /\ pc' \in [Runs -> Calls \cup {"idle", "done", "dead"}]
        /\ result' \in [Runs -> Result]
    BY ReturnType, Results DEF IInv, TypeOK, Calls, WaitScript, At
  <2> QED
    BY <1>0, <2>1 DEF IInv, TypeOK, WaitScript, At, config, job, meter
<1> USE ExecutorAssumption DEF IInv, WaitScript, At, Goto, Return, Result, Codes, config, job, meter
<1>2. Frame(r)
  BY DEF TypeOK, Frame
<1>3. KeepsBilled(r)
  BY DEF TypeOK, KeepsBilled, Past, BilledInv
<1>4. KeepsResult(r)
  BY DEF TypeOK, KeepsResult, ResultInv
<1>5. KeepsActive(r)
  BY DEF TypeOK, KeepsActive, Busy, Calls
<1>6. KeepsWorkspace(r)
  BY DEF TypeOK, KeepsWorkspace, Working
<1>7. KeepsMeter(r)
  BY DEF TypeOK, KeepsMeter, MeterInv, Live
<1> QED
  BY <1>1, <1>2, <1>3, <1>4, <1>5, <1>6, <1>7, LocalInv

LEMMA WaitContainerInv ==
  ASSUME IInv, NEW r \in Runs, WaitContainer(r)
  PROVE  IInv'
<1>0. JobOf[r] \in Jobs
  BY ExecutorAssumption
<1>1. TypeOK'
  <2>1. /\ pc' \in [Runs -> Calls \cup {"idle", "done", "dead"}]
        /\ result' \in [Runs -> Result]
    BY ReturnType, Results DEF IInv, TypeOK, Calls, WaitContainer, At, Proc
  <2> QED
    BY <1>0, <2>1 DEF IInv, TypeOK, WaitContainer, At, Proc, config, job, meter
<1> USE ExecutorAssumption DEF IInv, WaitContainer, At, Goto, Return, Proc, Error, Result, Codes, config, job, meter
<1>2. Frame(r)
  BY DEF TypeOK, Frame
<1>3. KeepsBilled(r)
  BY DEF TypeOK, KeepsBilled, Past, BilledInv
<1>4. KeepsResult(r)
  BY DEF TypeOK, KeepsResult, ResultInv
<1>5. KeepsActive(r)
  BY DEF TypeOK, KeepsActive, Busy, Calls
<1>6. KeepsWorkspace(r)
  BY DEF TypeOK, KeepsWorkspace, Working
<1>7. KeepsMeter(r)
  BY DEF TypeOK, KeepsMeter, MeterInv, Live
<1> QED
  BY <1>1, <1>2, <1>3, <1>4, <1>5, <1>6, <1>7, LocalInv

LEMMA RemoveContainerInv ==
  ASSUME IInv, NEW r \in Runs, RemoveContainer(r)
  PROVE  IInv'
<1> USE ExecutorAssumption DEF IInv, RemoveContainer, At, Goto, Proc, config, job, meter
<1>1. TypeOK'
  BY DEF TypeOK, Calls
<1>2. Frame(r)
  BY DEF TypeOK, Frame
<1>3. KeepsBilled(r)
  BY DEF TypeOK, KeepsBilled, Past, BilledInv
<1>4. KeepsResult(r)
  BY DEF TypeOK, KeepsResult, ResultInv
<1>5. KeepsActive(r)
  BY DEF TypeOK, KeepsActive, Busy, Calls
<1>6. KeepsWorkspace(r)
  BY DEF TypeOK, KeepsWorkspace, Working
<1>7. KeepsMeter(r)
  BY DEF TypeOK, KeepsMeter, MeterInv, Live
<1> QED
  BY <1>1, <1>2, <1>3, <1>4, <1>5, <1>6, <1>7, LocalInv

LEMMA ReportInv ==
  ASSUME IInv, NEW r \in Runs, Report(r)
  PROVE  IInv'
<1> USE ExecutorAssumption DEF IInv, Report, At, Goto, Return, Inactive, Ok, Result, Codes, config, job, meter
<1>1. TypeOK'
  BY DEF TypeOK, Calls
<1>2. Frame(r)
  BY DEF TypeOK, Frame
<1>3. KeepsBilled(r)
  BY DEF TypeOK, KeepsBilled, Past, BilledInv
<1>4. KeepsResult(r)
  BY DEF TypeOK, KeepsResult, ResultInv
<1>5. KeepsActive(r)
  BY DEF TypeOK, KeepsActive, Busy, Calls
<1>6. KeepsWorkspace(r)
  BY DEF TypeOK, KeepsWorkspace, Working
<1>7. KeepsMeter(r)
  BY DEF TypeOK, KeepsMeter, MeterInv, Live
<1> QED
  BY <1>1, <1>2, <1>3, <1>4, <1>5, <1>6, <1>7, LocalInv

LEMMA EndBillingSessionInv ==
  ASSUME IInv, NEW r \in Runs, EndBillingSession(r)
  PROVE  IInv'
<1> USE ExecutorAssumption DEF IInv, EndBillingSession, At, Goto, config, job, meter
<1>1. TypeOK'
  BY DEF TypeOK, Calls
<1>2. Frame(r)
  BY DEF TypeOK, Frame
<1>3. KeepsBilled(r)
  BY DEF TypeOK, KeepsBilled, Past, BilledInv
<1>4. KeepsResult(r)
  BY DEF TypeOK, KeepsResult, ResultInv
<1>5. KeepsActive(r)
  BY DEF TypeOK, KeepsActive, Busy, Calls
<1>6. KeepsWorkspace(r)
  BY DEF TypeOK, KeepsWorkspace, Working
<1>7. KeepsMeter(r)
  BY DEF TypeOK, KeepsMeter, MeterInv, Live
<1> QED
  BY <1>1, <1>2, <1>3, <1>4, <1>5, <1>6, <1>7, LocalInv

LEMMA CleanupWorkspaceInv ==
  ASSUME IInv, NEW r \in Runs, CleanupWorkspace(r)
  PROVE  IInv'
<1> USE ExecutorAssumption DEF IInv, CleanupWorkspace, At, Goto, Cancel, Removes, config, job, meter
<1>1. TypeOK'
  BY DEF TypeOK, Calls
<1>2. Frame(r)
  BY DEF TypeOK, Frame
<1>3. KeepsBilled(r)
  BY DEF TypeOK, KeepsBilled, Past, BilledInv
<1>4. KeepsResult(r)
  BY DEF TypeOK, KeepsResult, ResultInv
<1>5. KeepsActive(r)
  BY DEF TypeOK, KeepsActive, Busy, Calls
<1>6. KeepsWorkspace(r)
  BY DEF TypeOK, KeepsWorkspace, Working
<1>7. KeepsMeter(r)
  BY DEF TypeOK, KeepsMeter, MeterInv, Live
<1> QED
  BY <1>1, <1>2, <1>3, <1>4, <1>5, <1>6, <1>7, LocalInv

LEMMA ExpireInv ==
  ASSUME IInv, NEW r \in Runs, Expire(r)
  PROVE  IInv'
<1> USE ExecutorAssumption DEF IInv, Expire, Live, config, job, meter
<1>1. TypeOK'
  BY DEF TypeOK, Calls
<1>2. Frame(r)
  BY DEF TypeOK, Frame
<1>3. KeepsBilled(r)
  BY DEF TypeOK, KeepsBilled, Past, BilledInv
<1>4. KeepsResult(r)
  BY DEF TypeOK, KeepsResult, ResultInv
<1>5. KeepsActive(r)
  BY DEF TypeOK, KeepsActive, Busy, Calls
<1>6. KeepsWorkspace(r)
  BY DEF TypeOK, KeepsWorkspace, Working
<1>7. KeepsMeter(r)
  BY DEF TypeOK, KeepsMeter, MeterInv, Live
<1> QED
  BY <1>1, <1>2, <1>3, <1>4, <1>5, <1>6, <1>7, LocalInv

LEMMA OverdueInv ==
  ASSUME IInv, NEW r \in Runs, Overdue(r)
  PROVE  IInv'
<1> USE ExecutorAssumption DEF IInv, Overdue, At, config, job, meter
<1>1. TypeOK'
  BY DEF TypeOK, Calls
<1>2. Frame(r)
  BY DEF TypeOK, Frame
<1>3. KeepsBilled(r)
  BY DEF TypeOK, KeepsBilled, Past, BilledInv
<1>4. KeepsResult(r)
  BY DEF TypeOK, KeepsResult, ResultInv
<1>5. KeepsActive(r)
  BY DEF TypeOK, KeepsActive, Busy, Calls
<1>6. KeepsWorkspace(r)
  BY DEF TypeOK, KeepsWorkspace, Working
<1>7. KeepsMeter(r)
  BY DEF TypeOK, KeepsMeter, MeterInv, Live
<1> QED
  BY <1>1, <1>2, <1>3, <1>4, <1>5, <1>6, <1>7, LocalInv

LEMMA TickInv ==
  ASSUME IInv, NEW r \in Runs, Tick(r)
  PROVE  IInv'
<1> USE ExecutorAssumption DEF IInv, Tick, Monitor, Live, config, job, meter
<1>1. TypeOK'
  BY DEF TypeOK, Calls
<1>2. Frame(r)
  BY DEF TypeOK, Frame
<1>3. KeepsBilled(r)
  BY DEF TypeOK, KeepsBilled, Past, BilledInv
<1>4. KeepsResult(r)
  BY DEF TypeOK, KeepsResult, ResultInv
<1>5. KeepsActive(r)
  BY DEF TypeOK, KeepsActive, Busy, Calls
<1>6. KeepsWorkspace(r)
  BY DEF TypeOK, KeepsWorkspace, Working
<1>7. KeepsMeter(r)
  BY DEF TypeOK, KeepsMeter, MeterInv, Live
<1> QED
  BY <1>1, <1>2, <1>3, <1>4, <1>5, <1>6, <1>7, LocalInv

LEMMA SendUsageUpdateInv ==
  ASSUME IInv, NEW r \in Runs, SendUsageUpdate(r)
  PROVE  IInv'
<1> USE ExecutorAssumption DEF IInv, SendUsageUpdate, Monitor, Live, config, job, meter
<1>1. TypeOK'
  BY DEF TypeOK, Calls
<1>2. Frame(r)
  BY DEF TypeOK, Frame
<1>3. KeepsBilled(r)
  BY DEF TypeOK, KeepsBilled, Past, BilledInv
<1>4. KeepsResult(r)
  BY DEF TypeOK, KeepsResult, ResultInv
<1>5. KeepsActive(r)
  BY DEF TypeOK, KeepsActive, Busy, Calls
<1>6. KeepsWorkspace(r)
  BY DEF TypeOK, KeepsWorkspace, Working
<1>7. KeepsMeter(r)
  BY DEF TypeOK, KeepsMeter, MeterInv, Live
<1> QED
  BY <1>1, <1>2, <1>3, <1>4, <1>5, <1>6, <1>7, LocalInv

LEMMA StopMonitorInv ==
  ASSUME IInv, NEW r \in Runs, StopMonitor(r)
  PROVE  IInv'
<1> USE ExecutorAssumption DEF IInv, StopMonitor, Monitor, Live, config, job, meter
<1>1. TypeOK'
  BY DEF TypeOK, Calls
<1>2. Frame(r)
  BY DEF TypeOK, Frame
<1>3. KeepsBilled(r)
  BY DEF TypeOK, KeepsBilled, Past, BilledInv
<1>4. KeepsResult(r)
  BY DEF TypeOK, KeepsResult, ResultInv
<1>5. KeepsActive(r)
  BY DEF TypeOK, KeepsActive, Busy, Calls
<1>6. KeepsWorkspace(r)
  BY DEF TypeOK, KeepsWorkspace, Working
<1>7. KeepsMeter(r)
  BY DEF TypeOK, KeepsMeter, MeterInv, Live
<1> QED
  BY <1>1, <1>2, <1>3, <1>4, <1>5, <1>6, <1>7, LocalInv
-----------------------------------------------------------------------------
(* Steps of the daemon as a whole.                                          *)

LEMMA DieCalls ==
  ASSUME TypeOK, Die
  PROVE  \A r \in Runs :
           /\ pc'[r] \in {"idle", "done", "dead"}
           /\ pc'[r] = "idle" => pc[r] = "idle"
           /\ pc[r] \in {"idle", "done"} => pc'[r] = pc[r]
           /\ pc[r] = "cleanup" => pc'[r] = "done"
           /\ pc[r] \notin {"idle", "done", "cleanup"} => pc'[r] = "dead"
<1> SUFFICES ASSUME NEW r \in Runs
             PROVE  /\ pc'[r] \in {"idle", "done", "dead"}
                    /\ pc'[r] = "idle" => pc[r] = "idle"
                    /\ pc[r] \in {"idle", "done"} => pc'[r] = pc[r]
                    /\ pc[r] = "cleanup" => pc'[r] = "done"
                    /\ pc[r] \notin {"idle", "done", "cleanup"} => pc'[r] = "dead"
  OBVIOUS
<1>1. pc'[r] = CASE pc[r] \in {"idle", "done"}        -> pc[r]
                 [] pc[r] = "cleanup"                  -> "done"
                 [] OTHER                             -> "dead"
  BY DEF Die
<1>2. CASE pc[r] \in {"idle", "done"}
  BY <1>1, <1>2
<1>3. CASE pc[r] = "cleanup"
  BY <1>1, <1>3
<1>4. CASE pc[r] \notin {"idle", "done", "cleanup"}
  BY <1>1, <1>4
<1> QED
  BY <1>2, <1>3, <1>4

LEMMA DieInv ==
  ASSUME IInv, Die
  PROVE  IInv'
<1> USE DEF IInv
<1>0. \A r \in Runs :
        /\ pc'[r] \in {"idle", "done", "dead"}
        /\ pc'[r] = "idle" => pc[r] = "idle"
        /\ pc[r] \in {"idle", "done"} => pc'[r] = pc[r]
        /\ pc[r] = "cleanup" => pc'[r] = "done"
        /\ pc[r] \notin {"idle", "done", "cleanup"} => pc'[r] = "dead"
  BY DieCalls
<1>1. TypeOK'
  <2>1. pc' \in [Runs -> Calls \cup {"idle", "done", "dead"}]
    <3>1. pc' = [r \in Runs |-> pc'[r]]
      BY DEF Die
    <3> QED
      BY <1>0, <3>1
  <2>2. Ok \in Result
    BY Results
  <2>3. result' \in [Runs -> Result]
    BY <2>2 DEF Die
  <2>4. ctx' \in [Runs -> {"none", "live", "expired", "cancelled"}]
    BY DEF Die
  <2>5. /\ overdue' \in [Runs -> BOOLEAN] /\ exit' \in [Runs -> {-1, 0, 1}]
        /\ monitor' \in [Runs -> {"off", "on", "send"}] /\ straggler' \in [Runs -> 0 .. 2]
        /\ alive' \in BOOLEAN /\ active' \subseteq Jobs
    <3>1. /\ alive' = FALSE /\ active' = {}
          /\ monitor' = [r \in Runs |-> "off"] /\ overdue' = [r \in Runs |-> FALSE]
          /\ exit' = [r \in Runs |-> -1] /\ straggler' = [r \in Runs |-> 0]
      BY DEF Die
    <3>2. exit' \in [Runs -> {-1, 0, 1}]
      BY <3>1
    <3>3. straggler' \in [Runs -> 0 .. 2]
      BY <3>1
    <3>4. overdue' \in [Runs -> BOOLEAN] /\ alive' \in BOOLEAN
      BY <3>1
    <3>5. monitor' \in [Runs -> {"off", "on", "send"}] /\ active' \subseteq Jobs
      BY <3>1
    <3> QED
      BY <3>2, <3>3, <3>4, <3>5
  <2>6. UNCHANGED <<config, ws, session, proc, kept>>
    BY DEF Die
  <2> QED
    BY <2>1, <2>3, <2>4, <2>5, <2>6 DEF TypeOK, config
<1>2. BilledInv'
  BY <1>0 DEF BilledInv, Die
<1>3. ResultInv'
  BY <1>0 DEF ResultInv
<1>4. NoGhostJobs'
  BY DEF NoGhostJobs, Die
<1>5. WorkspaceInv'
  BY <1>0 DEF WorkspaceInv
<1>6. MeterInv'
  BY DEF MeterInv, Die
<1> QED
  BY <1>1, <1>2, <1>3, <1>4, <1>5, <1>6

LEMMA IdleInv ==
  ASSUME IInv, alive' \in BOOLEAN,
         UNCHANGED <<config, job, pc, ctx, overdue, proc, exit, meter, result, kept>>
  PROVE  IInv'
<1> USE DEF IInv, config, job, meter
<1>1. TypeOK'
  BY DEF TypeOK
<1>2. BilledInv' /\ ResultInv' /\ NoGhostJobs'
  BY DEF BilledInv, ResultInv, NoGhostJobs
<1>3. WorkspaceInv'
  BY DEF WorkspaceInv, Alone
<1>4. MeterInv'
  BY DEF MeterInv, Live
<1> QED
  BY <1>1, <1>2, <1>3, <1>4

LEMMA StepInv == IInv /\ [Next]_vars => IInv'
<1> SUFFICES ASSUME IInv, [Next]_vars PROVE IInv'
  OBVIOUS
<1>1. ASSUME NEW r \in Runs, HandleTask(r) PROVE IInv'
  BY <1>1, HandleTaskInv
<1>2. ASSUME NEW r \in Runs, RunTask(r) PROVE IInv'
  BY <1>2, PrepareWorkspaceInv, WriteScriptInv, LaunchInv, DieInv, PullImageInv,
     CreateContainerInv, StartContainerInv, WaitScriptInv, WaitContainerInv,
     RemoveContainerInv, ReportInv, EndBillingSessionInv, CleanupWorkspaceInv
     DEF RunTask, NilExecutor
<1>3. ASSUME NEW r \in Runs,
             \/ Exit(r) \/ Kill(r) \/ Expire(r) \/ Overdue(r) \/ Tick(r) \/ Meter(r)
      PROVE  IInv'
  BY <1>3, ExitInv, KillInv, ExpireInv, OverdueInv, TickInv, SendUsageUpdateInv,
     StopMonitorInv DEF Meter
<1>4. CASE Crash
  BY <1>4, DieInv DEF Crash
<1>5. CASE Restart
  BY <1>5, IdleInv DEF Restart
<1>6. CASE UNCHANGED vars
  BY <1>6, IdleInv DEF vars, IInv, TypeOK
<1> QED
  BY <1>1, <1>2, <1>3, <1>4, <1>5, <1>6 DEF Next, Quiet

LEMMA Invariant == Spec => []IInv
BY InitInv, StepInv, PTL DEF Spec

(* Steps, files, processes and reports stay the ones the code knows.        *)
THEOREM TypeCorrect == Spec => []TypeOK
<1>1. IInv => TypeOK
  BY DEF IInv
<1> QED
  BY <1>1, Invariant, PTL

(* The session of a task that was delivered once is open as long as its     *)
(* container or script uses the GPU, on every path out of the executors     *)
(* (DockerExecutor.Execute, ScriptExecutor.Execute, runTask).               *)
THEOREM UsedIsBilledCorrect == Spec => []UsedIsBilled
<1>1. IInv => UsedIsBilled
  <2> SUFFICES ASSUME IInv, NEW r \in Runs, proc[r] = "running", r \notin kept, Alone(r)
               PROVE  session[JobOf[r]] = "open"
    BY DEF UsedIsBilled
  <2>1. JobOf[r] \in Jobs
    BY ExecutorAssumption
  <2>2. pc[r] \in {"wait", "remove", "dead"}
    BY DEF IInv, BilledInv
  <2>3. session[JobOf[r]] # "ended"
    <3> SUFFICES ASSUME session[JobOf[r]] = "ended" PROVE FALSE
      OBVIOUS
    <3>1. PICK q \in Runs : JobOf[q] = JobOf[r] /\ pc[q] \in {"cleanup", "done"}
      BY <2>1 DEF IInv, BilledInv
    <3> QED
      BY <2>2, <3>1 DEF Alone
  <2> QED
    BY <2>1, <2>3 DEF IInv, TypeOK
<1> QED
  BY <1>1, Invariant, PTL

(* No race of timeouts, failing calls and second deliveries reports a       *)
(* failure as a success, leaves a ghost in activeJobs, takes the workspace  *)
(* from a running task or lets a second update follow the end of a run.     *)
THEOREM RunsSoundCorrect == Spec => []RunsSound
<1>1. IInv => RunsSound
  <2> SUFFICES ASSUME IInv PROVE RunsSound
    OBVIOUS
  <2>1. CompletedSucceeded
    <3> SUFFICES ASSUME NEW r \in Runs, pc[r] = "report", FinalStatus(result[r]) = "completed"
                 PROVE  exit[r] = 0
      BY DEF CompletedSucceeded
    <3>1. ~result[r].err /\ result[r].code = 0
      BY DEF FinalStatus
    <3> QED
      BY <3>1 DEF IInv, ResultInv
  <2>2. WorkspaceKept
    BY DEF WorkspaceKept, IInv, WorkspaceInv
  <2>3. OneStraggler
    BY DEF OneStraggler, IInv, MeterInv, TypeOK
  <2> QED
    BY <2>1, <2>2, <2>3 DEF RunsSound, IInv
<1> QED
  BY <1>1, Invariant, PTL
-----------------------------------------------------------------------------
(* The refinement.                                                          *)

Phases == [r \in Runs |-> Phase(pc[r])]

LEMMA PhaseOfCall ==
  /\ Phase("idle") = "none" /\ Phase("prepare") = "prepare" /\ Phase("end") = "stop"
  /\ Phase("cleanup") = "done" /\ Phase("done") = "done" /\ Phase("dead") = "dead"
  /\ \A c \in Calls \ {"prepare", "end", "cleanup"} : Phase(c) = "execute"
<1>1. /\ Phase("idle") = "none" /\ Phase("prepare") = "prepare" /\ Phase("end") = "stop"
      /\ Phase("cleanup") = "done" /\ Phase("done") = "done" /\ Phase("dead") = "dead"
  BY DEF Phase
<1>2. ASSUME NEW c \in Calls \ {"prepare", "end", "cleanup"} PROVE Phase(c) = "execute"
  <2>1. c \notin {"idle", "prepare", "end", "cleanup", "done", "dead"}
    BY DEF Calls
  <2> QED
    BY <2>1 DEF Phase
<1> QED
  BY <1>1, <1>2

LEMMA PhaseMoves ==
  ASSUME TypeOK, NEW r \in Runs, NEW call, Goto(r, call)
  PROVE  Phases' = [Phases EXCEPT ![r] = Phase(call)]
<1>1. \A q \in Runs : pc'[q] = IF q = r THEN call ELSE pc[q]
  BY DEF TypeOK, Goto
<1> QED
  BY <1>1 DEF Phases

(* Within one phase nothing of the abstract state changes.                  *)
LEMMA PhaseStays ==
  ASSUME TypeOK, NEW r \in Runs, NEW call, Goto(r, call), Phase(call) = Phase(pc[r]),
         UNCHANGED <<active, session>>
  PROVE  UNCHANGED Abstract!vars
<1>1. Phases' = [Phases EXCEPT ![r] = Phase(call)]
  BY PhaseMoves
<1>2. Phases' = Phases
  BY <1>1 DEF Phases
<1> QED
  BY <1>2 DEF Abstract!vars, Phases

LEMMA PcStays ==
  ASSUME UNCHANGED <<pc, active, session>>
  PROVE  UNCHANGED Abstract!vars
BY DEF Abstract!vars

LEMMA AbstractHandleTask ==
  ASSUME IInv, NEW r \in Runs, HandleTask(r)
  PROVE  Abstract!HandleTask(r)
<1>1. Phases' = [Phases EXCEPT ![r] = "prepare"] /\ Phases[r] = "none"
  BY PhaseMoves, PhaseOfCall DEF IInv, HandleTask, At, Phases
<1> QED
  BY <1>1 DEF Abstract!HandleTask, Abstract!Move, Phases, HandleTask

LEMMA AbstractPrepareWorkspace ==
  ASSUME IInv, NEW r \in Runs, PrepareWorkspace(r)
  PROVE  Abstract!PrepareWorkspace(r)
<1> DEFINE call == Entry(TaskOf(r))
<1>0. Phases[r] = "prepare"
  BY PhaseOfCall DEF PrepareWorkspace, At, Phases
<1>1. CASE Goto(r, call) /\ UNCHANGED <<active, session>>
  <2>1. Phase(call) = "execute"
    BY EntryCall, PhaseOfCall DEF Calls
  <2>2. Phases' = [Phases EXCEPT ![r] = "execute"]
    BY <1>1, <2>1, PhaseMoves DEF IInv
  <2> QED
    BY <1>0, <1>1, <2>2 DEF Abstract!PrepareWorkspace, Abstract!Move, Phases
<1>2. CASE Abandon(r) /\ UNCHANGED session
  <2>1. Phases' = [Phases EXCEPT ![r] = "done"]
    BY <1>2, PhaseMoves, PhaseOfCall DEF IInv, Abandon
  <2> QED
    BY <1>0, <1>2, <2>1 DEF Abstract!PrepareWorkspace, Abstract!Move, Phases, Abandon, Inactive
<1> QED
  BY <1>1, <1>2 DEF PrepareWorkspace, Return

LEMMA AbstractReport ==
  ASSUME IInv, NEW r \in Runs, Report(r)
  PROVE  Abstract!Execute(r)
<1>1. Phases[r] = "execute"
  BY PhaseOfCall DEF Report, At, Phases, Calls
<1>2. Phases' = [Phases EXCEPT ![r] = "stop"]
  BY PhaseMoves, PhaseOfCall DEF IInv, Report, Return
<1> QED
  BY <1>1, <1>2 DEF Abstract!Execute, Abstract!Move, Phases, Report, Inactive

LEMMA AbstractEndBillingSession ==
  ASSUME IInv, NEW r \in Runs, EndBillingSession(r)
  PROVE  Abstract!EndBillingSession(r)
<1>1. Phases[r] = "stop"
  BY PhaseOfCall DEF EndBillingSession, At, Phases
<1>2. Phases' = [Phases EXCEPT ![r] = "done"]
  BY PhaseMoves, PhaseOfCall DEF IInv, EndBillingSession
<1> QED
  BY <1>1, <1>2 DEF Abstract!EndBillingSession, Abstract!Move, Phases, EndBillingSession

LEMMA AbstractDie ==
  ASSUME IInv, Die
  PROVE  Abstract!Crash
<1>1. \A r \in Runs : pc[r] \in Calls \cup {"idle", "done", "dead"}
  BY DEF IInv, TypeOK
<1>2. ASSUME NEW r \in Runs
      PROVE  Phase(pc'[r]) = IF Phase(pc[r]) \in {"none", "done"} THEN Phase(pc[r]) ELSE "dead"
  <2>1. CASE pc[r] \in {"idle", "done"}
    BY <2>1, DieCalls, PhaseOfCall DEF IInv
  <2>2. CASE pc[r] = "cleanup"
    BY <2>2, DieCalls, PhaseOfCall DEF IInv
  <2>3. CASE pc[r] \notin {"idle", "done", "cleanup"}
    <3>1. Phase(pc[r]) \in {"prepare", "execute", "stop", "dead"}
      BY <1>1, <2>3, PhaseOfCall
    <3>2. Phase(pc'[r]) = "dead"
      BY <2>3, DieCalls, PhaseOfCall DEF IInv
    <3> QED
      BY <3>1, <3>2
  <2> QED
    BY <2>1, <2>2, <2>3
<1>3. Phases' = [r \in Runs |-> IF Phases[r] \in {"none", "done"} THEN Phases[r] ELSE "dead"]
  BY <1>2 DEF Phases
<1> QED
  BY <1>3 DEF Abstract!Crash, Phases, Die

(* The calls of the executors are one phase, and so are the end of the      *)
(* session and the clean-up.                                                *)
LEMMA AbstractExecutor ==
  ASSUME IInv, NEW r \in Runs,
         \/ WriteScript(r) \/ Launch(r) \/ PullImage(r) \/ CreateContainer(r)
         \/ StartContainer(r) \/ WaitScript(r) \/ WaitContainer(r) \/ RemoveContainer(r)
         \/ CleanupWorkspace(r)
  PROVE  UNCHANGED Abstract!vars
<1> DEFINE E == Calls \ {"prepare", "end", "cleanup"}
<1>0. UNCHANGED <<active, session>>
  BY DEF WriteScript, Launch, PullImage, CreateContainer, StartContainer, WaitScript,
         WaitContainer, RemoveContainer, CleanupWorkspace, job
<1>1. CASE CleanupWorkspace(r)
  BY <1>0, <1>1, PhaseStays, PhaseOfCall DEF IInv, CleanupWorkspace, At
<1>2. CASE pc[r] \in E /\ \E call \in E : Goto(r, call)
  BY <1>0, <1>2, PhaseStays, PhaseOfCall DEF IInv
<1>3. CASE WriteScript(r)
  BY <1>2, <1>3 DEF WriteScript, At, Return, Calls
<1>4. CASE Launch(r) \/ PullImage(r)
  BY <1>2, <1>4 DEF Launch, PullImage, At, Return, Calls
<1>5. CASE CreateContainer(r) \/ StartContainer(r)
  BY <1>2, <1>5 DEF CreateContainer, StartContainer, StartFailed, At, Return, Calls
<1>6. CASE WaitScript(r) \/ WaitContainer(r) \/ RemoveContainer(r)
  BY <1>2, <1>6 DEF WaitScript, WaitContainer, RemoveContainer, At, Return, Calls
<1> QED
  BY <1>1, <1>3, <1>4, <1>5, <1>6

LEMMA AbstractStep == IInv /\ [Next]_vars => [Abstract!Next]_(Abstract!vars)
<1> SUFFICES ASSUME IInv, [Next]_vars PROVE [Abstract!Next]_(Abstract!vars)
  OBVIOUS
<1>1. ASSUME NEW r \in Runs, HandleTask(r) PROVE Abstract!Next
  BY <1>1, AbstractHandleTask DEF Abstract!Next
<1>2. ASSUME NEW r \in Runs, PrepareWorkspace(r) \/ Report(r) \/ EndBillingSession(r)
      PROVE  Abstract!Next
  BY <1>2, AbstractPrepareWorkspace, AbstractReport, AbstractEndBillingSession
     DEF Abstract!Next
<1>3. ASSUME Die PROVE Abstract!Next
  BY <1>3, AbstractDie DEF Abstract!Next
<1>4. ASSUME NEW r \in Runs, RunTask(r) PROVE [Abstract!Next]_(Abstract!vars)
  BY <1>2, <1>3, <1>4, AbstractExecutor DEF RunTask, NilExecutor
<1>5. ASSUME NEW r \in Runs,
             \/ Exit(r) \/ Kill(r) \/ Expire(r) \/ Overdue(r) \/ Tick(r) \/ Meter(r)
      PROVE  UNCHANGED Abstract!vars
  <2>1. UNCHANGED <<pc, active, session>>
    BY <1>5 DEF Exit, Kill, Expire, Overdue, Tick, Meter, SendUsageUpdate, StopMonitor,
                Monitor, job
  <2> QED
    BY <2>1, PcStays
<1>6. CASE Restart \/ UNCHANGED vars
  <2>1. UNCHANGED <<pc, active, session>>
    BY <1>6 DEF Restart, vars, job
  <2> QED
    BY <2>1, PcStays
<1> QED
  BY <1>1, <1>3, <1>4, <1>5, <1>6 DEF Next, Quiet, Crash

(* The daemon in detail implements what the scheduler and billing rely on:  *)
(* each delivery goes from its acceptance through one terminal report to    *)
(* one attempt to end the session, and leaves the list of active jobs at    *)
(* the report (HandleTask, runTask, endBillingSession).                     *)
THEOREM ImplementsTaskRunCorrect == Spec => ImplementsTaskRun
<1>1. Init => Abstract!Init
  BY PhaseOfCall DEF Init, Abstract!Init
<1>2. Spec => [][Next]_vars /\ []IInv /\ Init
  BY Invariant, PTL DEF Spec
<1>3. Spec => Abstract!Init /\ [][Abstract!Next]_(Abstract!vars)
  BY <1>1, <1>2, AbstractStep, PTL
<1> QED
  BY <1>3 DEF ImplementsTaskRun, Abstract!Spec
-----------------------------------------------------------------------------
(* A pass over a sequence that keeps the larger of what it has and what the *)
(* next element offers ends with the largest offer, or with 0.              *)
KeepsLarger(f, n, offer) ==
  f = [s \in SUBSET (1 .. n) |->
         IF s = {} THEN 0 ELSE Larger(offer[Max(s)], f[s \ {Max(s)}])]

LEMMA LargestExists ==
  ASSUME NEW n \in Nat, NEW offer \in [1 .. n -> Nat]
  PROVE  \E g : KeepsLarger(g, n, offer)
<1> DEFINE D == 1 .. n
           pick == [s \in SUBSET D |-> Max(s)]
           step == [k \in D |-> [v \in Nat |-> Larger(offer[k], v)]]
<1>1. IsFiniteSet(D)
  BY FS_Interval
<1>2. \A s \in SUBSET D : s # {} => Max(s) \in s
  BY MaxIn
<1>3. \A k \in D, v \in Nat : Larger(offer[k], v) \in Nat
  BY DEF Larger
<1>4. \E g \in [SUBSET D -> Nat] : IsFold(g, D, 0, pick, step)
  <2> DEFINE V == Nat
             base == 0
  <2>1. Picks(D, pick)
    BY <1>2 DEF Picks
  <2>2. Steps(D, V, step)
    BY <1>3 DEF Steps
  <2>3. base \in V
    OBVIOUS
  <2> HIDE DEF D, V, base, pick, step
  <2>4. \E g \in [SUBSET D -> V] : IsFold(g, D, base, pick, step)
    BY <1>1, <2>1, <2>2, <2>3, FoldExists
  <2> QED
    BY <2>4 DEF V, base
<1>5. PICK g \in [SUBSET D -> Nat] : \A s \in SUBSET D :
        g[s] = IF s = {} THEN 0 ELSE step[pick[s]][g[s \ {pick[s]}]]
  BY <1>4 DEF IsFold
<1>6. g = [s \in SUBSET D |->
             IF s = {} THEN 0 ELSE Larger(offer[Max(s)], g[s \ {Max(s)}])]
  <2>1. ASSUME NEW s \in SUBSET D
        PROVE  g[s] = IF s = {} THEN 0 ELSE Larger(offer[Max(s)], g[s \ {Max(s)}])
    <3> HIDE DEF D
    <3>1. CASE s = {}
      BY <1>5, <3>1
    <3>2. CASE s # {}
      <4>1. Max(s) \in D /\ s \ {Max(s)} \in SUBSET D /\ g[s \ {Max(s)}] \in Nat
        BY <1>2, <1>5, <3>2
      <4>2. pick[s] = Max(s)
        OBVIOUS
      <4>3. step[Max(s)][g[s \ {Max(s)}]] = Larger(offer[Max(s)], g[s \ {Max(s)}])
        BY <4>1
      <4>4. g[s] = step[pick[s]][g[s \ {pick[s]}]]
        BY <1>5, <3>2
      <4> HIDE DEF step, pick
      <4> QED
        BY <3>2, <4>2, <4>3, <4>4
    <3> QED
      BY <3>1, <3>2
  <2> HIDE DEF D
  <2> QED
    BY <1>5, <2>1
<1> QED
  BY <1>6 DEF KeepsLarger

LEMMA LargestKept ==
  ASSUME NEW n \in Nat, NEW offer \in [1 .. n -> Nat], NEW f, KeepsLarger(f, n, offer)
  PROVE  /\ f[1 .. n] \in Nat
         /\ \A k \in 1 .. n : f[1 .. n] >= offer[k]
         /\ f[1 .. n] = 0 \/ \E k \in 1 .. n : f[1 .. n] = offer[k]
<1> DEFINE D == 1 .. n
<1>1. IsFiniteSet(D)
  BY FS_Interval
<1>2. \A s \in SUBSET D : s # {} => Max(s) \in s
  BY MaxIn
<1>7. f = [s \in SUBSET D |->
             IF s = {} THEN 0 ELSE Larger(offer[Max(s)], f[s \ {Max(s)}])]
  BY DEF KeepsLarger
<1> DEFINE Good == {s \in SUBSET D : /\ f[s] \in Nat
                                     /\ \A k \in s : f[s] >= offer[k]
                                     /\ f[s] = 0 \/ \E k \in s : f[s] = offer[k]}
<1> HIDE DEF D
<1>8. {} \in Good
  <2>1. f[{}] = 0
    BY <1>7
  <2> QED
    BY <2>1
<1>9. ASSUME NEW s \in SUBSET D, s # {}
      PROVE  \E x \in s : s \ {x} \in Good => s \in Good
  <2> DEFINE x == Max(s)
  <2>1. x \in s /\ s \ {x} \in SUBSET D /\ offer[x] \in Nat
    BY <1>2, <1>9 DEF D
  <2>2. f[s] = Larger(offer[x], f[s \ {x}])
    BY <1>7, <1>9
  <2> HIDE DEF x
  <2> SUFFICES ASSUME s \ {x} \in Good PROVE s \in Good
    BY <2>1
  <2>3. /\ f[s \ {x}] \in Nat
        /\ \A k \in s \ {x} : f[s \ {x}] >= offer[k]
        /\ f[s \ {x}] = 0 \/ \E k \in s \ {x} : f[s \ {x}] = offer[k]
    OBVIOUS
  <2>4. \A k \in s : offer[k] \in Nat
    BY DEF D
  <2>5. f[s] \in Nat /\ f[s] >= offer[x] /\ f[s] >= f[s \ {x}]
        /\ (f[s] = offer[x] \/ f[s] = f[s \ {x}])
    BY <2>1, <2>2, <2>3 DEF Larger
  <2>6. ASSUME NEW k \in s PROVE f[s] >= offer[k]
    <3>1. CASE k = x
      BY <2>5, <3>1
    <3>2. CASE k # x
      <4>1. f[s \ {x}] >= offer[k] /\ offer[k] \in Nat
        BY <2>3, <2>4, <3>2
      <4> QED
        BY <2>3, <2>5, <4>1
    <3> QED
      BY <3>1, <3>2
  <2>7. f[s] = 0 \/ \E k \in s : f[s] = offer[k]
    <3>1. CASE f[s] = offer[x]
      BY <2>1, <3>1
    <3>2. CASE f[s] = f[s \ {x}] /\ f[s \ {x}] # 0
      BY <2>3, <3>2
    <3> QED
      BY <2>5, <3>1, <3>2
  <2> QED
    <3>1. s \in SUBSET D /\ f[s] \in Nat
      BY <2>5
    <3> QED
      BY <2>6, <2>7, <3>1
<1>10. D \in Good
  <2> HIDE DEF Good
  <2> QED
    BY <1>1, <1>8, <1>9, SubsetInduction
<1> QED
  BY <1>10 DEF D

LEMMA PowerNat == \A g \in GPU : g.vram \in Nat /\ PowerOf(g) \in Nat
<1>1. \A m : EstimatePowerFromModel(m) \in Nat
  BY DEF EstimatePowerFromModel, Rated
<1> QED
  BY <1>1, WireAssumption DEF GPU, PowerOf

(* bestProviderVRAM is the VRAM of the largest GPU.                         *)
LEMMA BestVRAM ==
  ASSUME NEW n \in Nat, NEW p, p.gpus \in [1 .. n -> GPU]
  PROVE  /\ BestProviderVRAM(p) \in Nat
         /\ \A k \in 1 .. n : BestProviderVRAM(p) >= p.gpus[k].vram
         /\ BestProviderVRAM(p) = 0 \/ \E k \in 1 .. n : BestProviderVRAM(p) = p.gpus[k].vram
<1> DEFINE offer == [k \in 1 .. n |-> p.gpus[k].vram]
           Rec(g) == g = [s \in SUBSET DOMAIN p.gpus |-> IF s = {} THEN 0
                            ELSE Larger(p.gpus[Max(s)].vram, g[s \ {Max(s)}])]
           f == CHOOSE g : Rec(g)
<1>1. offer \in [1 .. n -> Nat]
  BY PowerNat
<1>2. \A s \in SUBSET (1 .. n) : s # {} => offer[Max(s)] = p.gpus[Max(s)].vram
  BY MaxIn
<1>3. \A g : KeepsLarger(g, n, offer) <=> Rec(g)
  <2> SUFFICES ASSUME NEW g
               PROVE  KeepsLarger(g, n, offer) <=> Rec(g)
    OBVIOUS
  <2>1. DOMAIN p.gpus = 1 .. n
    OBVIOUS
  <2> HIDE DEF offer
  <2>2. \A s \in SUBSET (1 .. n) :
          (IF s = {} THEN 0 ELSE Larger(offer[Max(s)], g[s \ {Max(s)}]))
          = (IF s = {} THEN 0 ELSE Larger(p.gpus[Max(s)].vram, g[s \ {Max(s)}]))
    BY <1>2
  <2> QED
    BY <2>1, <2>2 DEF KeepsLarger
<1>4. BestProviderVRAM(p) = f[1 .. n]
  BY DEF BestProviderVRAM, FoldLeft, MapThenFoldSet
<1> HIDE DEF offer, Rec
<1>5. KeepsLarger(f, n, offer)
  BY <1>1, <1>3, LargestExists
<1> HIDE DEF f
<1>6. /\ f[1 .. n] \in Nat
      /\ \A k \in 1 .. n : f[1 .. n] >= offer[k]
      /\ f[1 .. n] = 0 \/ \E k \in 1 .. n : f[1 .. n] = offer[k]
  BY <1>1, <1>5, LargestKept
<1> QED
  BY <1>4, <1>6 DEF offer

(* bestProviderPowerW is the power of the strongest GPU.                    *)
LEMMA BestPower ==
  ASSUME NEW n \in Nat, NEW p, p.gpus \in [1 .. n -> GPU]
  PROVE  /\ BestProviderPowerW(p) \in Nat
         /\ \A k \in 1 .. n : BestProviderPowerW(p) >= PowerOf(p.gpus[k])
         /\ \/ BestProviderPowerW(p) = 0
            \/ \E k \in 1 .. n : BestProviderPowerW(p) = PowerOf(p.gpus[k])
<1> DEFINE offer == [k \in 1 .. n |-> PowerOf(p.gpus[k])]
           Rec(g) == g = [s \in SUBSET DOMAIN p.gpus |-> IF s = {} THEN 0
                            ELSE Larger(PowerOf(p.gpus[Max(s)]), g[s \ {Max(s)}])]
           f == CHOOSE g : Rec(g)
<1>1. offer \in [1 .. n -> Nat]
  BY PowerNat
<1>2. \A s \in SUBSET (1 .. n) : s # {} => offer[Max(s)] = PowerOf(p.gpus[Max(s)])
  BY MaxIn
<1>3. \A g : KeepsLarger(g, n, offer) <=> Rec(g)
  <2> SUFFICES ASSUME NEW g
               PROVE  KeepsLarger(g, n, offer) <=> Rec(g)
    OBVIOUS
  <2>1. DOMAIN p.gpus = 1 .. n
    OBVIOUS
  <2> HIDE DEF offer
  <2>2. \A s \in SUBSET (1 .. n) :
          (IF s = {} THEN 0 ELSE Larger(offer[Max(s)], g[s \ {Max(s)}]))
          = (IF s = {} THEN 0 ELSE Larger(PowerOf(p.gpus[Max(s)]), g[s \ {Max(s)}]))
    BY <1>2
  <2> QED
    BY <2>1, <2>2 DEF KeepsLarger
<1>4. BestProviderPowerW(p) = f[1 .. n]
  BY DEF BestProviderPowerW, FoldLeft, MapThenFoldSet
<1> HIDE DEF offer, Rec
<1>5. KeepsLarger(f, n, offer)
  BY <1>1, <1>3, LargestExists
<1> HIDE DEF f
<1>6. /\ f[1 .. n] \in Nat
      /\ \A k \in 1 .. n : f[1 .. n] >= offer[k]
      /\ f[1 .. n] = 0 \/ \E k \in 1 .. n : f[1 .. n] = offer[k]
  BY <1>1, <1>5, LargestKept
<1> QED
  BY <1>4, <1>6 DEF offer

(* A provider passes the gates exactly when it fits what the job asks for.  *)
LEMMA PassesFits ==
  ASSUME NEW n \in Nat, NEW p, p.gpus \in [1 .. n -> GPU], NEW j,
         j.min_vram_mb \in Nat, j.min_power_w \in Nat
  PROVE  Passes(j, p) <=> Fits(j, p)
<1>1. Len(p.gpus) = n /\ (p.gpus = <<>> <=> n = 0)
  OBVIOUS
<1>2. CASE n = 0
  BY <1>1, <1>2 DEF Passes, Fits
<1>3. CASE n # 0
  <2>1. 1 \in 1 .. n
    BY <1>3
  <2>2. \A k \in 1 .. n : p.gpus[k].vram \in Nat /\ PowerOf(p.gpus[k]) \in Nat
    BY PowerNat
  <2>3. BestProviderVRAM(p) >= j.min_vram_mb
        <=> \E k \in 1 .. n : p.gpus[k].vram >= j.min_vram_mb
    <3>1. ASSUME NEW k \in 1 .. n, p.gpus[k].vram >= j.min_vram_mb
          PROVE  BestProviderVRAM(p) >= j.min_vram_mb
      <4>1. BestProviderVRAM(p) \in Nat /\ BestProviderVRAM(p) >= p.gpus[k].vram
        BY BestVRAM
      <4> QED
        BY <2>2, <3>1, <4>1
    <3>2. ASSUME BestProviderVRAM(p) >= j.min_vram_mb
          PROVE  \E k \in 1 .. n : p.gpus[k].vram >= j.min_vram_mb
      <4>1. CASE BestProviderVRAM(p) = 0
        BY <2>1, <2>2, <3>2, <4>1
      <4>2. CASE \E k \in 1 .. n : BestProviderVRAM(p) = p.gpus[k].vram
        BY <3>2, <4>2
      <4> QED
        BY <4>1, <4>2, BestVRAM
    <3> QED
      BY <3>1, <3>2
  <2>4. BestProviderPowerW(p) >= j.min_power_w
        <=> \E k \in 1 .. n : PowerOf(p.gpus[k]) >= j.min_power_w
    <3>1. ASSUME NEW k \in 1 .. n, PowerOf(p.gpus[k]) >= j.min_power_w
          PROVE  BestProviderPowerW(p) >= j.min_power_w
      <4>1. BestProviderPowerW(p) \in Nat /\ BestProviderPowerW(p) >= PowerOf(p.gpus[k])
        BY BestPower
      <4> QED
        BY <2>2, <3>1, <4>1
    <3>2. ASSUME BestProviderPowerW(p) >= j.min_power_w
          PROVE  \E k \in 1 .. n : PowerOf(p.gpus[k]) >= j.min_power_w
      <4>1. CASE BestProviderPowerW(p) = 0
        BY <2>1, <2>2, <3>2, <4>1
      <4>2. CASE \E k \in 1 .. n : BestProviderPowerW(p) = PowerOf(p.gpus[k])
        BY <3>2, <4>2
      <4> QED
        BY <4>1, <4>2, BestPower
    <3> QED
      BY <3>1, <3>2
  <2>5. j.gpu_type = "" \/ FindProviderGPUType(p) = j.gpu_type
        <=> j.gpu_type \in {"", p.gpus[1].model}
    BY <1>1, <1>3 DEF FindProviderGPUType
  <2>6. /\ (\E g \in GPUsOf(p) : g.vram >= j.min_vram_mb)
           <=> \E k \in 1 .. n : p.gpus[k].vram >= j.min_vram_mb
        /\ (\E g \in GPUsOf(p) : PowerOf(g) >= j.min_power_w)
           <=> \E k \in 1 .. n : PowerOf(p.gpus[k]) >= j.min_power_w
    BY <1>1 DEF GPUsOf
  <2> QED
    BY <2>3, <2>4, <2>5, <2>6 DEF Passes, Fits
<1> QED
  BY <1>2, <1>3

(* The pass of selectBillingGPU, with the position kept so far in best.     *)
Keep(j, gpus, best, k) ==
  IF Qualifies(j, gpus[k]) /\ (best = 0 \/ gpus[k].vram > gpus[best].vram)
  THEN k ELSE best

KeepsBest(f, n, j, gpus) ==
  f = [s \in SUBSET (1 .. n) |->
         IF s = {} THEN 0 ELSE Keep(j, gpus, f[s \ {Max(s)}], Max(s))]

LEMMA BestExists ==
  ASSUME NEW n \in Nat, NEW gpus, NEW j
  PROVE  \E g : KeepsBest(g, n, j, gpus)
<1> DEFINE D == 1 .. n
           V == 0 .. n
           base == 0
           pick == [s \in SUBSET D |-> Max(s)]
           step == [k \in D |-> [v \in V |-> Keep(j, gpus, v, k)]]
<1>1. IsFiniteSet(D)
  BY FS_Interval
<1>2. \A s \in SUBSET D : s # {} => Max(s) \in s
  BY MaxIn
<1>3. Picks(D, pick) /\ Steps(D, V, step) /\ base \in V
  BY <1>2 DEF Picks, Steps, Keep
<1>4. \A k \in D, v \in V : step[k][v] = Keep(j, gpus, v, k)
  OBVIOUS
<1>5. \A s \in SUBSET D : pick[s] = Max(s)
  OBVIOUS
<1> HIDE DEF D, V, base, pick, step
<1>6. PICK g \in [SUBSET D -> V] : IsFold(g, D, base, pick, step)
  BY <1>1, <1>3, FoldExists
<1>7. ASSUME NEW s \in SUBSET D
      PROVE  g[s] = IF s = {} THEN base ELSE Keep(j, gpus, g[s \ {Max(s)}], Max(s))
  <2>1. CASE s = {}
    BY <1>6, <2>1 DEF IsFold
  <2>2. CASE s # {}
    <3>1. Max(s) \in D /\ s \ {Max(s)} \in SUBSET D /\ g[s \ {Max(s)}] \in V
      BY <1>2, <1>6, <2>2
    <3>2. g[s] = step[pick[s]][g[s \ {pick[s]}]]
      BY <1>6, <2>2 DEF IsFold
    <3> QED
      BY <1>4, <1>5, <2>2, <3>1, <3>2
  <2> QED
    BY <2>1, <2>2
<1>8. g = [s \in SUBSET D |->
             IF s = {} THEN base ELSE Keep(j, gpus, g[s \ {Max(s)}], Max(s))]
  BY <1>6, <1>7
<1> QED
  BY <1>8 DEF KeepsBest, D, base

(* What it has seen and kept: nothing only if nothing qualifies, otherwise  *)
(* the largest of what does.                                                *)
Best(j, gpus, s, best) ==
  /\ best \in s \cup {0}
  /\ best = 0 => \A k \in s : ~Qualifies(j, gpus[k])
  /\ best # 0 => /\ Qualifies(j, gpus[best])
                 /\ \A k \in s : Qualifies(j, gpus[k]) => gpus[k].vram <= gpus[best].vram

LEMMA BestKept ==
  ASSUME NEW n \in Nat, NEW gpus, \A k \in 1 .. n : gpus[k].vram \in Nat, NEW j,
         NEW f, KeepsBest(f, n, j, gpus)
  PROVE  Best(j, gpus, 1 .. n, f[1 .. n])
<1> DEFINE D == 1 .. n
           Good == {s \in SUBSET D : Best(j, gpus, s, f[s])}
<1>1. IsFiniteSet(D)
  BY FS_Interval
<1>2. \A s \in SUBSET D : s # {} => Max(s) \in s
  BY MaxIn
<1>3. {} \in Good
  <2>1. f[{}] = 0
    BY DEF KeepsBest
  <2> QED
    BY <2>1 DEF Best
<1>4. ASSUME NEW s \in SUBSET D, s # {}
      PROVE  \E x \in s : s \ {x} \in Good => s \in Good
  <2> DEFINE x == Max(s)
             a == f[s \ {x}]
             b == f[s]
  <2>1. x \in s /\ s \ {x} \in SUBSET D /\ x # 0 /\ 0 \notin s
    <3>1. x \in s
      BY <1>2, <1>4
    <3>2. 0 \notin s
      OBVIOUS
    <3> HIDE DEF x
    <3> QED
      BY <3>1, <3>2
  <2>2. b = Keep(j, gpus, a, x)
    BY <1>4 DEF KeepsBest
  <2>3. \A k \in s : gpus[k].vram \in Nat
    OBVIOUS
  <2> SUFFICES ASSUME Best(j, gpus, s \ {x}, a) PROVE Best(j, gpus, s, b)
    BY <2>1
  <2> HIDE DEF x, a, b, D, Good
  <2>4. CASE b = x /\ Qualifies(j, gpus[x]) /\ (a = 0 \/ gpus[x].vram > gpus[a].vram)
    <3>1. ASSUME NEW k \in s, Qualifies(j, gpus[k])
          PROVE  gpus[k].vram <= gpus[x].vram
      <4>1. CASE k = x
        BY <2>1, <2>3, <4>1
      <4>2. CASE k # x /\ a # 0
        <5>1. gpus[k].vram <= gpus[a].vram /\ gpus[x].vram > gpus[a].vram /\ a \in s
          BY <2>1, <2>4, <3>1, <4>2 DEF Best
        <5> QED
          BY <2>1, <2>3, <5>1
      <4>3. CASE k # x /\ a = 0
        BY <2>1, <3>1, <4>3 DEF Best
      <4> QED
        BY <4>1, <4>2, <4>3
    <3> QED
      BY <2>1, <2>4, <3>1 DEF Best
  <2>5. CASE b = a /\ ~(Qualifies(j, gpus[x]) /\ (a = 0 \/ gpus[x].vram > gpus[a].vram))
    <3>1. CASE a = 0
      BY <2>1, <2>5, <3>1 DEF Best
    <3>2. CASE a # 0
      <4>1. a \in s /\ gpus[a].vram \in Nat /\ gpus[x].vram \in Nat
        BY <2>1, <2>3, <3>2 DEF Best
      <4>2. Qualifies(j, gpus[x]) => gpus[x].vram <= gpus[a].vram
        BY <2>5, <3>2, <4>1
      <4> QED
        BY <2>5, <3>2, <4>1, <4>2 DEF Best
    <3> QED
      BY <3>1, <3>2
  <2> QED
    BY <2>2, <2>4, <2>5 DEF Keep
<1>5. D \in Good
  <2>1. \A s \in SUBSET D : s # {} => \E x \in s : s \ {x} \in Good => s \in Good
    BY <1>4
  <2> HIDE DEF Good, D
  <2>2. \A s \in SUBSET D : s \in Good
    BY <1>1, <1>3, <2>1, SubsetInduction
  <2> QED
    BY <2>2
<1> QED
  BY <1>5

(* The session is billed against a GPU that qualifies and has the most VRAM *)
(* of those, when there is one.                                             *)
LEMMA SelectedIsBest ==
  ASSUME NEW n \in Nat, NEW p, p.gpus \in [1 .. n -> GPU], NEW j,
         NEW q \in 1 .. n, Qualifies(j, p.gpus[q])
  PROVE  \E b \in 1 .. n :
           /\ SelectBillingGPU(j, p) = p.gpus[b] /\ Qualifies(j, p.gpus[b])
           /\ \A k \in 1 .. n : Qualifies(j, p.gpus[k]) => p.gpus[k].vram <= p.gpus[b].vram
<1> DEFINE gpus == p.gpus
           seq == [k \in 1 .. n |-> k]
           Rec(g) == g = [s \in SUBSET DOMAIN seq |-> IF s = {} THEN 0
                            ELSE IF Qualifies(j, gpus[seq[Max(s)]])
                                    /\ (g[s \ {Max(s)}] = 0
                                        \/ gpus[seq[Max(s)]].vram > gpus[g[s \ {Max(s)}]].vram)
                                 THEN seq[Max(s)] ELSE g[s \ {Max(s)}]]
           f == CHOOSE g : Rec(g)
<1>1. Len(p.gpus) = n
  OBVIOUS
<1>2. SelectBillingGPU(j, p) = gpus[IF f[DOMAIN seq] = 0 THEN 1 ELSE f[DOMAIN seq]]
  BY <1>1 DEF SelectBillingGPU, FoldLeft, MapThenFoldSet
<1>3. DOMAIN seq = 1 .. n /\ \A s \in SUBSET (1 .. n) : s # {} => seq[Max(s)] = Max(s)
  BY MaxIn
<1>4. \A g : KeepsBest(g, n, j, gpus) <=> Rec(g)
  <2> HIDE DEF seq
  <2> SUFFICES ASSUME NEW g
               PROVE  KeepsBest(g, n, j, gpus) <=> Rec(g)
    OBVIOUS
  <2>1. \A s \in SUBSET (1 .. n) :
          (IF s = {} THEN 0 ELSE Keep(j, gpus, g[s \ {Max(s)}], Max(s)))
          = (IF s = {} THEN 0
             ELSE IF Qualifies(j, gpus[seq[Max(s)]])
                     /\ (g[s \ {Max(s)}] = 0
                         \/ gpus[seq[Max(s)]].vram > gpus[g[s \ {Max(s)}]].vram)
                  THEN seq[Max(s)] ELSE g[s \ {Max(s)}])
    BY <1>3 DEF Keep
  <2> QED
    BY <1>3, <2>1 DEF KeepsBest
<1>5. \A k \in 1 .. n : gpus[k].vram \in Nat
  BY PowerNat
<1> HIDE DEF Rec, seq, gpus
<1>6. KeepsBest(f, n, j, gpus)
  BY <1>4, BestExists
<1> HIDE DEF f
<1>7. Best(j, gpus, 1 .. n, f[1 .. n])
  BY <1>5, <1>6, BestKept
<1>8. f[1 .. n] # 0
  BY <1>7 DEF Best, gpus
<1>9. SelectBillingGPU(j, p) = gpus[f[1 .. n]] /\ f[1 .. n] \in 1 .. n
  BY <1>2, <1>3, <1>7, <1>8 DEF Best
<1> QED
  BY <1>7, <1>8, <1>9 DEF Best, gpus

(* What the task says, on its way to the daemon: module JobWire, for any    *)
(* requirements, parameters and lists of providers.                         *)

(* A key that is written and read keeps its value, also where omitempty     *)
(* leaves it out (encoding/json).                                           *)
LEMMA RoundTrip ==
  ASSUME NEW v, NEW keys, NEW omitempty, NEW read, NEW k \in keys \cap read
  PROVE  Unmarshal(Marshal(v, keys, omitempty), read)[k] = v[k]
<1> DEFINE obj == Marshal(v, keys, omitempty)
<1>1. Unmarshal(obj, read)[k] =
        IF k \in DOMAIN obj THEN obj[k] ELSE Zero[k]
  BY DEF Unmarshal
<1>2. DOMAIN obj = {q \in keys : q \in omitempty => v[q] # Zero[q]}
      /\ \A q \in DOMAIN obj : obj[q] = v[q]
  BY DEF Marshal
<1> QED
  BY <1>1, <1>2

(* The scheduler's job says what was asked for, whoever it says asked.      *)
Kept(v) == \A k \in JobKeys \ {"user_id"} : v[k] = asked[k]

(* What the daemon is to be told.                                           *)
Told(t) ==
  /\ t.job_id = asked.job_id
  /\ t.job_params = [asked.params EXCEPT !.session_id = jobSession]
  /\ t.gpu_type_needed = asked.gpu_type
  /\ t.gpu_count_needed = asked.gpu_count
  /\ t.assigned_provider_id = found

(* Each stage of the way holds all that the next one needs: the message,    *)
(* the struct and the row in the database say the same.                     *)
WireInv ==
  /\ at = "submitted" =>
       wire = Marshal(asked, SubmitKeys, Requirements)
  /\ at \notin {"renter", "submitted"} =>
       /\ Kept(theJob)
       /\ \E v : /\ Kept(v)
                 /\ row.details = Marshal(v, JobKeys, Requirements)
  /\ at = "dispatched" => Told(Unmarshal(wire, DaemonTaskKeys))
  /\ at = "daemon" => Told(jobTask)

(* The scheduler's stages leave the job and the row alone.                  *)
LEMMA WireKept ==
  ASSUME WireInv, at \notin {"renter", "submitted"},
         at' \notin {"renter", "submitted"},
         UNCHANGED <<asked, theJob, row>>,
         at' = "dispatched" => Told(Unmarshal(wire, DaemonTaskKeys))',
         at' = "daemon" => Told(jobTask)'
  PROVE  WireInv'
<1>1. Kept(theJob)' /\ \E v : /\ Kept(v)'
                           /\ row'.details = Marshal(v, JobKeys,
                                                          Requirements)
  <2>1. Kept(theJob)
    BY DEF WireInv
  <2>2. PICK v : /\ Kept(v)
                 /\ row.details = Marshal(v, JobKeys, Requirements)
    BY DEF WireInv
  <2> QED
    BY <2>1, <2>2 DEF Kept
<1> QED
  BY <1>1 DEF WireInv

LEMMA WireStep == WireInv /\ [WireNext]_wireVars => WireInv'
<1> SUFFICES ASSUME WireInv, [WireNext]_wireVars PROVE WireInv'
  OBVIOUS
<1>1. CASE SubmitJob
  BY <1>1 DEF SubmitJob, WireInv
<1>2. CASE ReceiveJob
  <2> DEFINE new == Unmarshal(wire, JobKeys)
  <2>1. /\ at = "submitted" /\ theJob' = new /\ at' = "scheduled" /\ asked' = asked
        /\ row'.details = Marshal(new, JobKeys, Requirements)
    BY <1>2 DEF ReceiveJob
  <2>2. \A k \in JobKeys \ {"user_id"} : new[k] = asked[k]
    <3>1. wire = Marshal(asked, SubmitKeys, Requirements)
      BY <2>1 DEF WireInv
    <3>2. JobKeys \ {"user_id"} \subseteq SubmitKeys \cap JobKeys
      BY DEF JobKeys, SubmitKeys
    <3> QED
      BY <3>1, <3>2, RoundTrip
  <2> HIDE DEF new
  <2>3. PICK v : v = new
    OBVIOUS
  <2>4. Kept(v)' /\ Kept(theJob)'
    BY <2>1, <2>2, <2>3 DEF Kept
  <2> QED
    BY <2>1, <2>3, <2>4 DEF WireInv
<1>3. CASE ReloadJob
  <2> DEFINE old == Unmarshal(row.details, JobKeys)
  <2>1. /\ at \in {"scheduled", "returned"} /\ at' = "reloaded"
        /\ theJob' = [old EXCEPT !.job_id = theJob.job_id, !.user_id = row.user_id]
        /\ asked' = asked /\ row' = row
    BY <1>3 DEF ReloadJob
  <2>2. PICK v : /\ Kept(v)
                 /\ row.details = Marshal(v, JobKeys, Requirements)
    BY <2>1 DEF WireInv
  <2>3. DOMAIN old = JobKeys
    BY DEF Unmarshal
  <2>4. \A k \in JobKeys : old[k] = v[k]
    BY <2>2, RoundTrip
  <2> HIDE DEF old
  <2>5. theJob.job_id = asked.job_id
    BY <2>1 DEF WireInv, Kept, JobKeys
  <2>6. \A k \in JobKeys \ {"user_id"} : theJob'[k] = asked[k]
    BY <2>1, <2>2, <2>3, <2>4, <2>5 DEF Kept
  <2>7. Kept(theJob)' /\ Kept(v)'
    BY <2>1, <2>2, <2>6 DEF Kept
  <2> QED
    BY <2>1, <2>2, <2>7 DEF WireInv
<1>4. CASE \/ ListProviders \/ Skip \/ Select \/ NoProvider
           \/ Bill
  <2>1. /\ at \notin {"renter", "submitted"}
        /\ at' \in {"matching", "returned", "billed"}
        /\ UNCHANGED <<asked, theJob, row>>
    BY <1>4 DEF ListProviders, Skip, Select, NoProvider,
                Bill, Searching
  <2> QED
    BY <2>1, WireKept
<1>5. CASE DispatchTask
  <2> DEFINE new == [NewTask(found) EXCEPT !.job_params.session_id = jobSession]
             omitempty == {"gpu_type_needed", "gpu_count_needed",
                           "assigned_provider_id"}
             told == Unmarshal(wire', DaemonTaskKeys)
  <2>1. /\ at = "billed" /\ at' = "dispatched"
        /\ wire' = Marshal(new, SchedulerTaskKeys, omitempty)
        /\ UNCHANGED <<asked, theJob, row, found, jobSession>>
    BY <1>5 DEF DispatchTask, search
  <2>2. \A k \in SchedulerTaskKeys : told[k] = new[k]
    <3>1. SchedulerTaskKeys = SchedulerTaskKeys \cap DaemonTaskKeys
      BY DEF DaemonTaskKeys
    <3> HIDE DEF new, omitempty
    <3> QED
      BY <2>1, <3>1, RoundTrip
  <2>3. /\ new.job_id = theJob.job_id /\ new.gpu_type_needed = theJob.gpu_type
        /\ new.job_params = [theJob.params EXCEPT !.session_id = jobSession]
        /\ new.gpu_count_needed = theJob.gpu_count /\ new.assigned_provider_id = found
    BY DEF NewTask
  <2>4. /\ theJob.job_id = asked.job_id /\ theJob.gpu_type = asked.gpu_type
        /\ theJob.params = asked.params /\ theJob.gpu_count = asked.gpu_count
    BY <2>1 DEF WireInv, Kept, JobKeys, Requirements
  <2> HIDE DEF new, told
  <2>5. /\ told.job_id = asked.job_id /\ told.gpu_type_needed = asked.gpu_type
        /\ told.job_params = [asked.params EXCEPT !.session_id = jobSession]
        /\ told.gpu_count_needed = asked.gpu_count
        /\ told.assigned_provider_id = found
    BY <2>2, <2>3, <2>4 DEF SchedulerTaskKeys
  <2>6. Told(Unmarshal(wire, DaemonTaskKeys))'
    BY <2>1, <2>5 DEF Told, told
  <2> QED
    BY <2>1, <2>6, WireKept
<1>6. CASE ReceiveTask
  <2>1. /\ at = "dispatched" /\ at' = "daemon"
        /\ jobTask' = Unmarshal(wire, DaemonTaskKeys)
        /\ UNCHANGED <<asked, theJob, row, found, jobSession>>
    BY <1>6 DEF ReceiveTask, search
  <2>2. Told(jobTask)'
    BY <2>1 DEF WireInv, Told
  <2> QED
    BY <2>1, <2>2, WireKept
<1>7. CASE UNCHANGED wireVars
  BY <1>7 DEF wireVars, search, WireInv, Kept, Told
<1> QED
  BY <1>1, <1>2, <1>3, <1>4, <1>5, <1>6, <1>7 DEF WireNext

(* Through four structs, two queues and the database nothing of what the    *)
(* renter asked for is lost, and the daemon is told the provider that was   *)
(* found and the session that was opened, for any requirements, zero values *)
(* that omitempty leaves out included (SubmitJob, handleMessage,            *)
(* ToInternalJobRepresentation, NewTask).                                   *)
THEOREM RequirementsKeptCorrect == WireSpec => []RequirementsKept
<1>1. WireInit => WireInv
  BY DEF WireInit, WireInv
<1>2. WireInv => RequirementsKept
  BY DEF WireInv, Kept, Told, RequirementsKept
<1> QED
  BY <1>1, <1>2, WireStep, PTL DEF WireSpec

LEMMA NoProviders == <<>> \in ProviderLists
<1>1. <<>> \in [1 .. 0 -> Provider]
  OBVIOUS
<1>2. 0 \in 0 .. MaxProviders
  BY WireAssumption
<1> QED
  BY <1>1, <1>2 DEF ProviderLists, BoundedSeq, SeqOf

LEMMA ProviderShape ==
  ASSUME NEW list \in ProviderLists
  PROVE  /\ Len(list) \in Nat
         /\ \A k \in 1 .. Len(list) : \E n \in Nat : list[k].gpus \in [1 .. n -> GPU]
<1>1. PICK m \in Nat : list \in [1 .. m -> Provider]
  BY DEF ProviderLists, BoundedSeq, SeqOf
<1>2. Len(list) = m
  BY <1>1
<1>3. \A k \in 1 .. m : list[k].gpus \in BoundedSeq(GPU, MaxGPUs)
  BY <1>1 DEF Provider
<1>4. \A s \in BoundedSeq(GPU, MaxGPUs) : \E n \in Nat : s \in [1 .. n -> GPU]
  BY DEF BoundedSeq, SeqOf
<1> QED
  BY <1>2, <1>3, <1>4

(* Where the search stands: the providers it has passed do not fit, the one *)
(* it has found does, and nothing is found or billed before it begins.      *)
PlaceInv ==
  /\ asked.min_vram_mb \in Nat /\ asked.min_power_w \in Nat
  /\ providers \in ProviderLists /\ i \in Nat \ {0}
  /\ at \in {"renter", "submitted", "scheduled", "reloaded", "returned"} =>
       i = 1 /\ found = 0 /\ bill = NoBill
  /\ at = "matching" => bill = NoBill
  /\ found # 0 => found \in 1 .. Len(providers)
  /\ FirstFit /\ BilledIsBest

(* The gates tell the renter's job from the scheduler's by nothing.         *)
LEMMA SameGates ==
  ASSUME Kept(theJob)
  PROVE  /\ \A p : Fits(theJob, p) <=> Fits(asked, p)
         /\ \A g : Qualifies(theJob, g) <=> Qualifies(asked, g)
         /\ theJob.min_vram_mb = asked.min_vram_mb /\ theJob.min_power_w = asked.min_power_w
<1>1. /\ theJob.min_vram_mb = asked.min_vram_mb /\ theJob.min_power_w = asked.min_power_w
      /\ theJob.gpu_type = asked.gpu_type /\ theJob.gpu_count = asked.gpu_count
  BY DEF Kept, JobKeys, Requirements
<1> QED
  BY <1>1 DEF Fits, Qualifies

LEMMA PlaceStep == WireInv /\ PlaceInv /\ [WireNext]_wireVars => PlaceInv'
<1> SUFFICES ASSUME WireInv, PlaceInv, [WireNext]_wireVars PROVE PlaceInv'
  OBVIOUS
<1>1. CASE SubmitJob \/ ReceiveJob \/ ReloadJob \/ DispatchTask \/ ReceiveTask
  <2>1. /\ UNCHANGED <<asked, providers, i, found, bill>>
        /\ at' # "matching"
        /\ \/ at \in {"renter", "submitted", "scheduled", "reloaded", "returned"}
           \/ at' \in {"dispatched", "daemon"}
    BY <1>1 DEF SubmitJob, ReceiveJob, ReloadJob, DispatchTask, ReceiveTask, search
  <2> QED
    BY <2>1 DEF PlaceInv, FirstFit, BilledIsBest
<1>2. CASE ListProviders
  BY <1>2 DEF ListProviders, PlaceInv, FirstFit, BilledIsBest
<1>3. CASE Skip
  <2>1. ~Fits(asked, providers[i])
    <3>1. Kept(theJob)
      BY <1>3 DEF Skip, Searching, WireInv
    <3>2. PICK n \in Nat : providers[i].gpus \in [1 .. n -> GPU]
      BY <1>3, ProviderShape DEF Skip, Searching, PlaceInv
    <3>3. ~Passes(theJob, providers[i])
      BY <1>3 DEF Skip
    <3> QED
      BY <3>1, <3>2, <3>3, SameGates, PassesFits DEF PlaceInv
  <2>2. i \in Nat /\ i' = i + 1 /\ found = 0 /\ bill = NoBill /\ at = "matching"
        /\ UNCHANGED <<asked, providers, found, bill, at>>
    BY <1>3 DEF Skip, Searching, PlaceInv
  <2>3. \A k \in 1 .. i' - 1 : ~Fits(asked, providers[k])
    BY <2>1, <2>2 DEF PlaceInv, FirstFit
  <2> QED
    BY <2>2, <2>3 DEF PlaceInv, FirstFit, BilledIsBest
<1>4. CASE Select
  <2>1. Fits(asked, providers[i])
    <3>1. Kept(theJob)
      BY <1>4 DEF Select, Searching, WireInv
    <3>2. PICK n \in Nat : providers[i].gpus \in [1 .. n -> GPU]
      BY <1>4, ProviderShape DEF Select, Searching, PlaceInv
    <3>3. Passes(theJob, providers[i])
      BY <1>4 DEF Select
    <3> QED
      BY <3>1, <3>2, <3>3, SameGates, PassesFits DEF PlaceInv
  <2>2. i \in 1 .. Len(providers) /\ found' = i /\ bill = NoBill /\ at = "matching"
        /\ UNCHANGED <<asked, providers, i, bill, at>>
    BY <1>4, ProviderShape DEF Select, Searching, PlaceInv
  <2> QED
    BY <2>1, <2>2 DEF PlaceInv, FirstFit, BilledIsBest
<1>5. CASE NoProvider
  BY <1>5, NoProviders DEF NoProvider, PlaceInv, FirstFit, BilledIsBest
<1>6. CASE Bill
  <2> DEFINE p == providers[found]
  <2>1. /\ UNCHANGED <<asked, providers, i, found>> /\ at' = "billed"
        /\ bill' = BillFor(theJob, p) /\ found \in 1 .. Len(providers)
    BY <1>6 DEF Bill, PlaceInv
  <2>2. Kept(theJob)
    BY <1>6 DEF Bill, WireInv
  <2>3. PICK n \in Nat : p.gpus \in [1 .. n -> GPU]
    BY <2>1, ProviderShape DEF PlaceInv
  <2>4. GPUsOf(p) = {p.gpus[k] : k \in 1 .. n}
    BY <2>3 DEF GPUsOf
  <2> HIDE DEF p
  <2>5. ASSUME NEW q \in 1 .. n, Qualifies(theJob, p.gpus[q])
        PROVE  \E b \in 1 .. n :
                 /\ Qualifies(theJob, p.gpus[b])
                 /\ p.gpus[b].vram > 0 => bill'.vram = p.gpus[b].vram
                 /\ bill'.power = PowerOf(p.gpus[b])
                 /\ \A k \in 1 .. n : Qualifies(theJob, p.gpus[k]) => p.gpus[k].vram <= p.gpus[b].vram
    <3>1. PICK b \in 1 .. n :
            /\ SelectBillingGPU(theJob, p) = p.gpus[b] /\ Qualifies(theJob, p.gpus[b])
            /\ \A k \in 1 .. n :
                 Qualifies(theJob, p.gpus[k]) => p.gpus[k].vram <= p.gpus[b].vram
      BY <2>3, <2>5, SelectedIsBest
    <3>2. /\ p.gpus[b].vram > 0 => bill'.vram = p.gpus[b].vram
          /\ bill'.power = PowerOf(p.gpus[b])
      <4>1. /\ bill'.vram = IF p.gpus[b].vram > 0 THEN p.gpus[b].vram ELSE 8192
            /\ bill'.power = PowerOf(p.gpus[b])
        <5> DEFINE g == SelectBillingGPU(theJob, p)
        <5>1. /\ BillFor(theJob, p).vram = IF g.vram > 0 THEN g.vram ELSE 8192
              /\ BillFor(theJob, p).power = PowerOf(g)
          BY DEF BillFor
        <5>2. g = p.gpus[b]
          BY <3>1
        <5> HIDE DEF g
        <5> QED
          BY <2>1, <5>1, <5>2
      <4> QED
        BY <4>1
    <3> QED
      BY <3>1, <3>2
  <2>6. LET good == {g \in GPUsOf(p) : Qualifies(asked, g)}
        IN good # {} =>
             \E g \in good : /\ g.vram > 0 => bill'.vram = g.vram
                             /\ bill'.power = PowerOf(g)
                             /\ \A h \in good : h.vram <= g.vram
    <3>1. \A g : Qualifies(theJob, g) <=> Qualifies(asked, g)
      BY <2>2, SameGates
    <3> QED
      BY <2>4, <2>5, <3>1
  <2>7. BilledIsBest'
    BY <2>1, <2>6 DEF BilledIsBest, p
  <2> QED
    BY <2>1, <2>7 DEF PlaceInv, FirstFit
<1>7. CASE UNCHANGED wireVars
  BY <1>7 DEF wireVars, search, PlaceInv, FirstFit, BilledIsBest
<1> QED
  BY <1>1, <1>2, <1>3, <1>4, <1>5, <1>6, <1>7 DEF WireNext

(* The first provider of the registry's list that meets what the renter     *)
(* asked for is taken, and the session is billed against its largest GPU    *)
(* that does, for any lists, floors and reported power, zeros included, and *)
(* also for a job that has been through the database (scheduleJob,          *)
(* selectBillingGPU).                                                       *)
THEOREM PlacedRightCorrect == WireSpec => []PlacedRight
<1>1. WireInit => WireInv
  BY DEF WireInit, WireInv
<1>2. WireInit => PlaceInv
  <2> SUFFICES ASSUME WireInit PROVE PlaceInv
    OBVIOUS
  <2>1. /\ asked \in [job_id : JobIds, user_id : Users, gpu_type : Types,
                      gpu_count : Counts, min_vram_mb : MinVRAMs,
                      min_power_w : MinPowers, priority : Priorities,
                      params : [body : Params, session_id : {"", "renter"}]]
        /\ providers = <<>> /\ i = 1 /\ found = 0 /\ bill = NoBill
    BY DEF WireInit
  <2>2. asked.min_vram_mb \in MinVRAMs /\ asked.min_power_w \in MinPowers
    BY <2>1
  <2>3. FirstFit
    <3>1. i = 1 /\ found = 0
      BY <2>1
    <3>2. \A k \in 1 .. i - 1 : FALSE
      BY <3>1
    <3> QED
      BY <3>1, <3>2 DEF FirstFit
  <2>4. BilledIsBest
    BY <2>1 DEF BilledIsBest
  <2> QED
    <3>1. asked.min_vram_mb \in Nat /\ asked.min_power_w \in Nat
      BY <2>2, WireAssumption
    <3>2. providers \in ProviderLists
      BY <2>1, NoProviders
    <3>3. i = 1 /\ found = 0 /\ bill = NoBill
      BY <2>1
    <3> QED
      BY <2>3, <2>4, <3>1, <3>2, <3>3 DEF PlaceInv
<1>3. PlaceInv => PlacedRight
  BY DEF PlaceInv, PlacedRight
<1> QED
  BY <1>1, <1>2, <1>3, WireStep, PlaceStep, PTL DEF WireSpec
=============================================================================
