------------------------------ MODULE Registry ------------------------------
(***************************************************************************)
(* provider-registry-service: the tables providers and gpu_details, and    *)
(* the requests that change them.  A registration, an update and a         *)
(* heartbeat are transactions of several statements; a status change and a *)
(* deletion are single statements.  PostgreSQL runs them at READ           *)
(* COMMITTED: an UPDATE or DELETE of a provider's row waits for the        *)
(* transaction that changed it last and then works on the committed row,   *)
(* and the row stays locked until that transaction ends.  What a           *)
(* transaction writes is kept in tx[r] and reaches the tables at COMMIT.   *)
(*                                                                         *)
(* The statements of a loop over GPUs are one step: nobody else sees them  *)
(* before COMMIT.                                                          *)
(***************************************************************************)
EXTENDS Integers, FiniteSets, SequencesExt

CONSTANTS Ops,            \* operations clients ask for
          Lists,          \* lists of GPUs clients send: model and is_healthy
          Metrics,        \* lists of is_healthy that heartbeats send
          Statuses,       \* statuses clients send; no handler validates them
          Faults,         \* kinds of fault that happen
          MaxRequests,    \* bound: requests
          MaxIds,         \* bound: provider ids
          MaxAttempts     \* retryConfig.MaxAttempts

AllOps == {"register", "update", "status", "heartbeat", "delete"}

(* error: a statement fails; transient: it fails with an error that        *)
(* IsTransientError recognises; lost: a COMMIT takes effect and its answer *)
(* is lost; crash: the service dies.                                       *)
AllFaults == {"error", "transient", "lost", "crash"}

ProviderStatus == {"idle", "busy", "offline", "maintenance", "error"}

(* What the model keeps of models.GPUDetail.                               *)
GPUDetail == [model : STRING, healthy : BOOLEAN]

ASSUME RegistryAssumption ==
  /\ Ops \subseteq AllOps /\ Faults \subseteq AllFaults
  /\ "none" \notin Statuses
  /\ \A list \in Lists : list \in Seq(GPUDetail)
  /\ \A m \in Metrics : m \in Seq(BOOLEAN)
  /\ MaxRequests \in Nat /\ MaxAttempts \in Nat \ {0} /\ MaxIds \in Nat

Requests == 1 .. MaxRequests
Ids      == 0 .. MaxIds

VARIABLES
  providers,     \* table providers: status, the request that wrote the row
                 \* and the list of GPUs it sent
  gpu_details,   \* table gpu_details
  nextGPU,       \* sequence of gpu_details.id
  nextId,        \* the next uuid
  pc,            \* the statement a request runs next
  arg,           \* what the client sent; for a registration, the new id
  tx,            \* what the request's transaction has written
  lock,          \* the request that holds the lock of a provider's row, or 0
  attempt        \* WithRetry: number of the attempt

tables == <<providers, gpu_details>>
vars   == <<tables, nextGPU, nextId, pc, arg, tx, lock, attempt>>

None    == [status |-> "none", by |-> 0, sent |-> <<>>]
NoTx    == [row |-> None, deleted |-> {}, inserted |-> {}]
NoArg   == [op |-> "none", id |-> 0, gpus |-> <<>>, metrics |-> <<>>,
            status |-> "idle"]

(* The rows of one list of GPUs, inserted in order.                        *)
GPURows(r, p, list, first) ==
  {[id |-> first + k - 1, provider |-> p, by |-> r, pos |-> k,
    gpu |-> list[k].model, healthy |-> list[k].healthy, report |-> <<>>] :
     k \in 1 .. Len(list)}

(* One provider is registered, with any list and any status, and has not   *)
(* sent metrics yet.                                                       *)
Init ==
  /\ \E list \in Lists \ {<<>>}, st \in Statuses :
        /\ providers = [p \in Ids |->
             IF p = 0 THEN [status |-> st, by |-> 0, sent |-> list] ELSE None]
        /\ gpu_details = GPURows(0, 0, list, 1)
        /\ nextGPU = Len(list) + 1
  /\ nextId = 1
  /\ pc = [r \in Requests |-> "idle"]
  /\ arg = [r \in Requests |-> NoArg]
  /\ tx = [r \in Requests |-> NoTx]
  /\ lock = [p \in Ids |-> 0]
  /\ attempt = [r \in Requests |-> 1]

Waiting == {"row", "gpus", "commit"}

(* Every row, request and lock is in a state the code names.               *)
TypeOK ==
  /\ providers \in [Ids -> [status : ProviderStatus \cup Statuses \cup {"none"},
                            by : 0 .. MaxRequests, sent : Lists \cup {<<>>}]]
  /\ \A g \in gpu_details : g.id < nextGPU /\ g.provider \in Ids
  /\ pc \in [Requests -> {"idle", "done"} \cup Waiting]
  /\ lock \in [Ids -> 0 .. MaxRequests]
  /\ attempt \in [Requests -> 1 .. MaxAttempts]
-----------------------------------------------------------------------------
Exists(p) == providers[p].status # "none"

GPUsOf(p) == {g \in gpu_details : g.provider = p}

(* A request arrives.  A registration gets its id before the store is      *)
(* called (NewProvider) and names at least one GPU.                        *)
Receive(r, a) ==
  /\ pc[r] = "idle"
  /\ \A q \in 1 .. r - 1 : pc[q] # "idle"
  /\ pc' = [pc EXCEPT ![r] = "row"]
  /\ arg' = [arg EXCEPT ![r] = a]
  /\ UNCHANGED <<tables, nextGPU, tx, lock, attempt>>

Arrive(r) ==
  \/ /\ "register" \in Ops /\ nextId \in Ids
     /\ \E list \in Lists \ {<<>>} :
           Receive(r, [NoArg EXCEPT !.op = "register", !.id = nextId,
                                    !.gpus = list])
     /\ nextId' = nextId + 1
  \/ /\ \E p \in 0 .. nextId - 1 :
           \/ /\ "update" \in Ops
              /\ \E list \in Lists, st \in Statuses :
                   Receive(r, [NoArg EXCEPT !.op = "update", !.id = p,
                                            !.gpus = list, !.status = st])
           \/ /\ "status" \in Ops
              /\ \E st \in Statuses :
                   Receive(r, [NoArg EXCEPT !.op = "status", !.id = p,
                                            !.status = st])
           \/ /\ "heartbeat" \in Ops
              /\ \E m \in Metrics :
                   Receive(r, [NoArg EXCEPT !.op = "heartbeat", !.id = p,
                                            !.metrics = m])
           \/ /\ "delete" \in Ops
              /\ Receive(r, [NoArg EXCEPT !.op = "delete", !.id = p])
     /\ UNCHANGED nextId

At(r, op, statement) == pc[r] = statement /\ arg[r].op = op

Goto(r, statement) == pc' = [pc EXCEPT ![r] = statement]

Unlocked(r) == [p \in Ids |-> IF lock[p] = r THEN 0 ELSE lock[p]]

(* The end of a transaction.                                               *)
Close(r, next) ==
  /\ Goto(r, next)
  /\ tx' = [tx EXCEPT ![r] = NoTx]
  /\ lock' = Unlocked(r)

(* The handler answers; what it says is left out.                          *)
Answer(r) ==
  /\ Close(r, "done")
  /\ arg' = [arg EXCEPT ![r] = NoArg]
  /\ attempt' = [attempt EXCEPT ![r] = 1]
  /\ UNCHANGED nextId

Rollback(r) == Answer(r) /\ UNCHANGED <<tables, nextGPU>>

(* An UPDATE or DELETE that finds no committed row waits for nobody:       *)
(* ErrProviderNotFound.                                                    *)
RowGone(r) == Rollback(r)

(* Mutant of LockRow: the row is read without a lock.                      *)
ReadRow(r, p, row) ==
  /\ tx' = [tx EXCEPT ![r].row = row]
  /\ UNCHANGED lock

(* The row is locked and its new version written.                          *)
LockRow(r, p, row) ==
  /\ lock[p] = 0
  /\ lock' = [lock EXCEPT ![p] = r]
  /\ tx' = [tx EXCEPT ![r].row = row]
-----------------------------------------------------------------------------
(* AddProvider.  The id is new, but a COMMIT whose answer was lost is      *)
(* repeated with the same id, which then is a unique violation.            *)
InsertProvider(r) ==
  LET p == arg[r].id
  IN /\ At(r, "register", "row")
     /\ IF Exists(p) THEN Rollback(r)
        ELSE /\ LockRow(r, p, [status |-> "idle", by |-> r,
                              sent |-> arg[r].gpus])
             /\ Goto(r, "gpus")
             /\ UNCHANGED <<tables, nextGPU, nextId, arg, attempt>>

(* UpdateProvider: UPDATE providers, with the status the client sent.      *)
UpdateRow(r) ==
  LET p == arg[r].id
  IN /\ At(r, "update", "row")
     /\ \/ ~Exists(p) /\ RowGone(r)
        \/ /\ Exists(p)
           /\ LockRow(r, p, [status |-> arg[r].status, by |-> r,
                            sent |-> arg[r].gpus])
           /\ Goto(r, "gpus")
           /\ UNCHANGED <<tables, nextGPU, nextId, arg, attempt>>

(* Mutant of DeleteGPUs: the rows of the old list stay.                    *)
KeepGPUs(r) == {}

(* UpdateProvider: DELETE FROM gpu_details.                                *)
DeleteGPUs(r) == IF arg[r].op = "update" THEN GPUsOf(arg[r].id) ELSE {}

(* AddProvider and UpdateProvider: the loop over the GPUs.                 *)
InsertGPUs(r) ==
  LET list == arg[r].gpus
  IN /\ pc[r] = "gpus" /\ arg[r].op \in {"register", "update"}
     /\ tx' = [tx EXCEPT ![r].deleted = DeleteGPUs(r),
                         ![r].inserted = GPURows(r, arg[r].id, list, nextGPU)]
     /\ nextGPU' = nextGPU + Len(list)
     /\ Goto(r, "commit")
     /\ UNCHANGED <<tables, nextId, arg, lock, attempt>>

(* The CASE expression of the heartbeat.                                   *)
Beat(row) ==
  IF row.status \in {"offline", "error"} THEN [row EXCEPT !.status = "idle"]
  ELSE row

(* UpdateProviderHeartbeat: UPDATE providers.                              *)
HeartbeatRow(r) ==
  LET p == arg[r].id
  IN /\ At(r, "heartbeat", "row")
     /\ \/ ~Exists(p) /\ RowGone(r)
        \/ /\ Exists(p)
           /\ LockRow(r, p, Beat(providers[p]))
           /\ Goto(r, "gpus")
           /\ UNCHANGED <<tables, nextGPU, nextId, arg, attempt>>

(* Mutant of Offset: rows are counted from one.                            *)
OffsetFromOne(gpus, k) ==
  {g \in gpus : Cardinality({h \in gpus : h.id < g.id}) = k}

(* ORDER BY id LIMIT 1 OFFSET k - 1.                                       *)
Offset(gpus, k) ==
  {g \in gpus : Cardinality({h \in gpus : h.id < g.id}) = k - 1}

(* Mutant of HeartbeatGPUs: the transaction is left open on an error.      *)
HeartbeatGPUsOpen(r) ==
  /\ At(r, "heartbeat", "gpus")
  /\ Cardinality(GPUsOf(arg[r].id)) < Len(arg[r].metrics)
  /\ Goto(r, "done")
  /\ UNCHANGED <<tables, nextGPU, nextId, arg, tx, lock, attempt>>

(* The loop over the metrics; a GPU that is not there rolls back all.      *)
HeartbeatGPUs(r) ==
  LET m    == arg[r].metrics
      gpus == GPUsOf(arg[r].id)
      kth  == [k \in 1 .. Len(m) |-> Offset(gpus, k)]
  IN /\ At(r, "heartbeat", "gpus")
     /\ IF \E k \in 1 .. Len(m) : kth[k] = {} THEN Rollback(r)
        ELSE /\ tx' = [tx EXCEPT
                  ![r].deleted = UNION {kth[k] : k \in 1 .. Len(m)},
                  ![r].inserted = UNION {{[g EXCEPT !.healthy = m[k],
                                                    !.report = m] :
                                          g \in kth[k]} : k \in 1 .. Len(m)}]
             /\ Goto(r, "commit")
             /\ UNCHANGED <<tables, nextGPU, nextId, arg, lock, attempt>>

Install(r) ==
  /\ providers' = [providers EXCEPT ![arg[r].id] = tx[r].row]
  /\ gpu_details' = (gpu_details \ tx[r].deleted) \cup tx[r].inserted

Commit(r) ==
  /\ pc[r] = "commit"
  /\ Install(r)
  /\ Answer(r)
  /\ UNCHANGED nextGPU

(* UpdateProviderStatus and DeleteProvider, whose deletion cascades.       *)
SetStatus(r) ==
  LET p == arg[r].id
  IN /\ At(r, "status", "row")
     /\ \/ ~Exists(p) /\ RowGone(r)
        \/ /\ Exists(p) /\ lock[p] = 0
           /\ providers' = [providers EXCEPT ![p].status = arg[r].status]
           /\ Answer(r)
           /\ UNCHANGED <<gpu_details, nextGPU>>

DeleteProvider(r) ==
  LET p == arg[r].id
  IN /\ At(r, "delete", "row")
     /\ \/ ~Exists(p) /\ RowGone(r)
        \/ /\ Exists(p) /\ lock[p] = 0
           /\ providers' = [providers EXCEPT ![p] = None]
           /\ gpu_details' = gpu_details \ GPUsOf(p)
           /\ Answer(r)
           /\ UNCHANGED nextGPU
-----------------------------------------------------------------------------
(* Mutant of Again: every attempt registers under a new id.                *)
AgainFresh(r) ==
  /\ nextId \in Ids
  /\ Close(r, "row")
  /\ attempt' = [attempt EXCEPT ![r] = @ + 1]
  /\ arg' = [arg EXCEPT ![r].id = nextId]
  /\ nextId' = nextId + 1

(* WithRetry: the same function, with the same provider, once more.        *)
Again(r) ==
  /\ Close(r, "row")
  /\ attempt' = [attempt EXCEPT ![r] = @ + 1]
  /\ UNCHANGED <<arg, nextId>>

Retried(r) == arg[r].op = "register" /\ attempt[r] < MaxAttempts

(* A statement fails, and the transaction is rolled back.                  *)
Fail(r) ==
  /\ pc[r] \in Waiting
  /\ UNCHANGED <<tables, nextGPU>>
  /\ \/ "error" \in Faults /\ Answer(r)
     \/ /\ "transient" \in Faults
        /\ IF Retried(r) THEN Again(r) ELSE Answer(r)

(* COMMIT takes effect, but the connection breaks before the answer.       *)
LostCommit(r) ==
  /\ "lost" \in Faults
  /\ pc[r] = "commit"
  /\ Install(r)
  /\ UNCHANGED nextGPU
  /\ IF Retried(r) THEN Again(r) ELSE Answer(r)

(* The service dies; the database rolls its transactions back.             *)
Crash ==
  /\ "crash" \in Faults
  /\ \E r \in Requests : pc[r] \in Waiting
  /\ pc' = [r \in Requests |-> IF pc[r] \in Waiting THEN "done" ELSE pc[r]]
  /\ tx' = [r \in Requests |-> NoTx]
  /\ lock' = [p \in Ids |-> 0]
  /\ arg' = [r \in Requests |-> NoArg]
  /\ attempt' = [r \in Requests |-> 1]
  /\ UNCHANGED <<tables, nextGPU, nextId>>

Statement(r) ==
  \/ InsertProvider(r) \/ UpdateRow(r) \/ InsertGPUs(r)
  \/ HeartbeatRow(r) \/ HeartbeatGPUs(r) \/ Commit(r)
  \/ SetStatus(r) \/ DeleteProvider(r)

(* All requests have been answered.                                        *)
Quiet ==
  /\ \A r \in Requests : pc[r] = "done"
  /\ UNCHANGED vars

Next ==
  \/ \E r \in Requests : Arrive(r) \/ Statement(r) \/ Fail(r) \/ LostCommit(r)
  \/ Crash
  \/ Quiet

Spec == Init /\ [][Next]_vars
-----------------------------------------------------------------------------
(* A provider's row and its rows of gpu_details always come from one and   *)
(* the same request, complete and in the order the client sent, and there  *)
(* are no GPUs without a provider: updates, heartbeats and deletions that  *)
(* overlap, fail or are cut off never mix or double two lists.             *)
ListsWhole ==
  \A p \in Ids :
    LET row  == providers[p]
        gpus == GPUsOf(p)
    IN /\ {<<g.by, g.pos, g.gpu>> : g \in gpus} =
            {<<row.by, k, row.sent[k].model>> : k \in 1 .. Len(row.sent)}
       /\ \A g, h \in gpus : g.id < h.id <=> g.pos < h.pos

(* The health a heartbeat reports for the k-th GPU is stored at the k-th   *)
(* GPU of the list, also when the list is replaced at the same time; and a *)
(* heartbeat leaves its mark on all the GPUs it reports or on none.        *)
MetricsByPosition ==
  \A g \in gpu_details : g.report # <<>> =>
    /\ g.pos \in 1 .. Len(g.report)
    /\ g.healthy = g.report[g.pos]
    /\ \A k \in 1 .. Len(g.report) :
         \E h \in GPUsOf(g.provider) : h.pos = k /\ h.report # <<>>

(* A registration creates one provider, also when the answer of its COMMIT *)
(* is lost and AddProvider tries again.                                    *)
RegisteredOnce ==
  \A p, q \in Ids : /\ Exists(p) /\ Exists(q)
                    /\ providers[p].by = providers[q].by
                    => p = q

(* However requests overlap, fail and are tried again, the two tables show *)
(* what one client sent at one time, and each client once.                 *)
RowsSound == ListsWhole /\ MetricsByPosition /\ RegisteredOnce

(* A heartbeat brings a provider back from offline or error and never ends *)
(* a maintenance or a rental: only an update, a status change or a         *)
(* deletion that a client asked for takes a provider out of those.         *)
MaintenanceHolds ==
  [][\A p \in Ids :
       /\ providers[p].status \in {"busy", "maintenance"}
       /\ providers'[p].status # providers[p].status
       => \E r \in Requests : /\ pc'[r] # pc[r] /\ arg[r].id = p
                              /\ arg[r].op \in {"update", "status", "delete"}
    ]_vars

(* A row stays locked only while the request that locked it is inside its  *)
(* transaction, where it waits for no other lock: no error path, retry or  *)
(* crash leaves a provider locked for the requests that come later, and no *)
(* two requests wait for each other.                                       *)
LocksReleased ==
  \A p \in Ids : lock[p] # 0 =>
    pc[lock[p]] \in {"gpus", "commit"} /\ arg[lock[p]].id = p
=============================================================================
