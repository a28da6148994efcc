------------------------------- MODULE JobWire ------------------------------
(***************************************************************************)
(* A job from the renter to the provider: what becomes of its fields on    *)
(* the way, and where it is sent.  Four Go structs are written by one      *)
(* program and read by another as JSON:                                    *)
(*                                                                         *)
(*   gateway  SubmitJobRequest + job id  --NATS-->  scheduler  Job         *)
(*   scheduler  Job  --table jobs-->  scheduler  Job     (on redelivery)   *)
(*   scheduler  Task  --NATS-->  daemon  Task                              *)
(*                                                                         *)
(* In between, scheduleJob walks the registry's list of providers.  A      *)
(* struct is a function from its JSON keys to values, an object on the     *)
(* wire a function from the keys that were written.                        *)
(***************************************************************************)
EXTENDS Matching

CONSTANTS GPUModels,      \* model names, "" where a daemon reported none
          VRAMs,          \* sizes in MB
          PowersW,        \* reported power, 0 where a daemon reported none
          MaxGPUs,        \* bound: GPUs of a provider
          MaxProviders,   \* bound: providers in the list
          JobIds, Users, Types, Counts, MinVRAMs, MinPowers, Priorities,
          Params,         \* what the renter's parameters say
          SessionIds      \* ids of rental sessions

(* Sizes and powers are unsigned in the code.                              *)
ASSUME WireAssumption ==
  /\ VRAMs \subseteq Nat /\ PowersW \subseteq Nat
  /\ MinVRAMs \subseteq Nat /\ MinPowers \subseteq Nat
  /\ MaxGPUs \in Nat /\ MaxProviders \in Nat

GPU      == [model : GPUModels, vram : VRAMs, power : PowersW]
Provider == [idle : BOOLEAN, gpus : BoundedSeq(GPU, MaxGPUs)]

(* The registry's answers.                                                 *)
ProviderLists == BoundedSeq(Provider, MaxProviders)

VARIABLES asked,          \* what the renter asked for, and who that is
          wire,           \* the message under way
          theJob,         \* the scheduler's struct Job
          row,            \* the job's row in table jobs
          providers,      \* the registry's list
          i,              \* position of the provider the loop looks at
          found,          \* position of suitableProvider, 0 for nil
          bill,           \* model, VRAM and power of the session request
          jobSession,     \* id of the rental session opened for the job
          jobTask,        \* the daemon's struct Task
          at              \* where the job is

search   == <<providers, i, found, bill>>
wireVars == <<asked, wire, theJob, row, search, jobSession, jobTask, at>>

NoBill == [model |-> "unbilled", vram |-> 0, power |-> 0]

(* The values a Go struct starts with.  Parameters are a map; the key      *)
(* session_id is told apart from the rest of it.  A provider's position in *)
(* the list stands for its id.                                             *)
NoParams == [body |-> "", session_id |-> ""]

Zero == [job_id |-> "", user_id |-> "", gpu_type |-> "", gpu_count |-> 0,
         min_vram_mb |-> 0, min_power_w |-> 0, priority |-> 0, params |-> NoParams,
         job_params |-> NoParams, gpu_type_needed |-> "", gpu_count_needed |-> 0,
         assigned_provider_id |-> 0, execution_type |-> ""]

(* encoding/json: keys tagged omitempty are left out when zero, fields     *)
(* tagged "-" are no keys; keys that are missing keep the zero value.      *)
Marshal(v, keys, omitempty) ==
  [k \in {k \in keys : k \in omitempty => v[k] # Zero[k]} |-> v[k]]

Unmarshal(obj, keys) ==
  [k \in keys |-> IF k \in DOMAIN obj THEN obj[k] ELSE Zero[k]]

(* The JSON keys of the structs: SubmitJobRequest (whose UserID is tagged  *)
(* "-") with the job id, Job, the scheduler's Task and the daemon's Task.  *)
Requirements == {"gpu_type", "gpu_count", "min_vram_mb", "min_power_w",
                 "priority"}

(* Mutant of SubmitKeys: the gateway does not pass the power floor on.     *)
SubmitKeysNoPower == (Requirements \ {"min_power_w"}) \cup {"job_id", "params"}

SubmitKeys == Requirements \cup {"job_id", "params"}

JobKeys == Requirements \cup {"job_id", "user_id", "params"}

SchedulerTaskKeys == {"job_id", "user_id", "job_params", "gpu_type_needed",
                      "gpu_count_needed", "assigned_provider_id"}

DaemonTaskKeys == SchedulerTaskKeys \cup {"execution_type"}

NoJob  == Unmarshal(<<>>, JobKeys)
NoTask == Unmarshal(<<>>, DaemonTaskKeys)

WireInit ==
  /\ asked \in [job_id : JobIds, user_id : Users, gpu_type : Types,
                gpu_count : Counts, min_vram_mb : MinVRAMs,
                min_power_w : MinPowers, priority : Priorities,
                params : [body : Params, session_id : {"", "renter"}]]
  /\ wire = <<>>
  /\ theJob = NoJob
  /\ row = [user_id |-> "", details |-> <<>>]
  /\ providers = <<>> /\ i = 1 /\ found = 0 /\ bill = NoBill
  /\ jobSession = ""
  /\ jobTask = NoTask
  /\ at = "renter"
-----------------------------------------------------------------------------
(* JobHandler.SubmitJob *)
SubmitJob ==
  /\ at = "renter"
  /\ wire' = Marshal(asked, SubmitKeys, Requirements)
  /\ at' = "submitted"
  /\ UNCHANGED <<asked, theJob, row, search, jobSession, jobTask>>

(* handleMessage for a new job: SaveJob stores the details as JSON.        *)
ReceiveJob ==
  LET new == Unmarshal(wire, JobKeys)
  IN /\ at = "submitted"
     /\ theJob' = new
     /\ row' = [user_id |-> new.user_id,
                details |-> Marshal(new, JobKeys, Requirements)]
     /\ at' = "scheduled"
     /\ UNCHANGED <<asked, wire, search, jobSession, jobTask>>

(* handleMessage for a redelivered job: GetJob and                         *)
(* ToInternalJobRepresentation, which takes ids from the row's columns.    *)
ReloadJob ==
  /\ at \in {"scheduled", "returned"}
  /\ theJob' = [Unmarshal(row.details, JobKeys) EXCEPT
               !.job_id = theJob.job_id, !.user_id = row.user_id]
  /\ at' = "reloaded"
  /\ UNCHANGED <<asked, wire, row, search, jobSession, jobTask>>

(* scheduleJob: the registry answers with some list, in some order.        *)
ListProviders ==
  /\ at \in {"scheduled", "reloaded"}
  /\ providers' \in ProviderLists
  /\ at' = "matching"
  /\ UNCHANGED <<asked, wire, theJob, row, i, found, bill, jobSession, jobTask>>

Searching == at = "matching" /\ found = 0 /\ i <= Len(providers)

Skip ==
  /\ Searching
  /\ ~Passes(theJob, providers[i])
  /\ i' = i + 1
  /\ UNCHANGED <<asked, wire, theJob, row, providers, found, bill, jobSession, jobTask, at>>

Select ==
  /\ Searching
  /\ Passes(theJob, providers[i])
  /\ found' = i
  /\ UNCHANGED <<asked, wire, theJob, row, providers, i, bill, jobSession, jobTask, at>>

(* suitableProvider is nil: the message is returned to the queue.          *)
NoProvider ==
  /\ at = "matching" /\ found = 0 /\ i > Len(providers)
  /\ at' = "returned"
  /\ providers' = <<>> /\ i' = 1
  /\ UNCHANGED <<asked, wire, theJob, row, found, bill, jobSession, jobTask>>

Bill ==
  /\ at = "matching" /\ found # 0
  /\ bill' = BillFor(theJob, providers[found])
  /\ jobSession' \in SessionIds
  /\ at' = "billed"
  /\ UNCHANGED <<asked, wire, theJob, row, providers, i, found, jobTask>>

(* NewTask, and the session id that scheduleJob puts into the parameters.  *)
NewTask(p) ==
  [job_id |-> theJob.job_id, user_id |-> theJob.user_id, job_params |-> theJob.params,
   gpu_type_needed |-> theJob.gpu_type, gpu_count_needed |-> theJob.gpu_count,
   assigned_provider_id |-> p]

DispatchTask ==
  /\ at = "billed"
  /\ wire' = Marshal([NewTask(found) EXCEPT !.job_params.session_id = jobSession],
                     SchedulerTaskKeys,
                     {"gpu_type_needed", "gpu_count_needed",
                      "assigned_provider_id"})
  /\ at' = "dispatched"
  /\ UNCHANGED <<asked, theJob, row, search, jobSession, jobTask>>

(* Client.handleMessage of the daemon, up to the choice of the executor.   *)
(* It reads the subject of its own id, which is the provider of the task.  *)
ReceiveTask ==
  /\ at = "dispatched"
  /\ jobTask' = Unmarshal(wire, DaemonTaskKeys)
  /\ at' = "daemon"
  /\ UNCHANGED <<asked, wire, theJob, row, search, jobSession>>

WireNext ==
  \/ SubmitJob \/ ReceiveJob \/ ReloadJob
  \/ ListProviders \/ Skip \/ Select \/ NoProvider \/ Bill
  \/ DispatchTask \/ ReceiveTask

WireSpec == WireInit /\ [][WireNext]_wireVars
-----------------------------------------------------------------------------
(* The first provider of the list that meets what the renter asked for is  *)
(* taken, and none is taken only when none does, also after the job has    *)
(* been through the database.                                              *)
FirstFit ==
  /\ found # 0 => Fits(asked, providers[found])
  /\ \A k \in 1 .. i - 1 : ~Fits(asked, providers[k])

(* Where one GPU of the provider clears both floors the renter asked for,  *)
(* the session is billed against such a GPU, and against the one with the  *)
(* most VRAM.                                                              *)
BilledIsBest ==
  bill # NoBill =>
    LET good == {g \in GPUsOf(providers[found]) : Qualifies(asked, g)}
    IN good # {} =>
         \E g \in good : /\ g.vram > 0 => bill.vram = g.vram
                         /\ bill.power = PowerOf(g)
                         /\ \A h \in good : h.vram <= g.vram

(* Whatever zero floors, empty rigs and unreported power the registry      *)
(* lists, the renter gets the right provider and pays for the right GPU.   *)
PlacedRight == FirstFit /\ BilledIsBest

(* Through four structs and the database the daemon is told the job, the   *)
(* type, the count and the parameters that were asked for, the provider    *)
(* that was found for them, and the session the scheduler opened, whatever *)
(* the renter wrote in its place; the row keeps every requirement.         *)
RequirementsKept ==
  /\ at = "reloaded" => \A k \in JobKeys \ {"user_id"} : theJob[k] = asked[k]
  /\ at = "daemon" =>
       /\ jobTask.job_id = asked.job_id
       /\ jobTask.job_params = [asked.params EXCEPT !.session_id = jobSession]
       /\ jobTask.gpu_type_needed = asked.gpu_type
       /\ jobTask.gpu_count_needed = asked.gpu_count
       /\ jobTask.assigned_provider_id = found
=============================================================================
