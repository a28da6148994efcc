--------------------------- MODULE RegistryProofs ---------------------------
(* Proofs about Registry, for any lists, metrics and statuses, any number  *)
(* of requests, provider ids and attempts, and any faults.                 *)
EXTENDS Registry, FiniteSetTheorems, FunctionTheorems, TLAPS

Row == [status : ProviderStatus \cup Statuses \cup {"none"},
        by : 0 .. MaxRequests, sent : Lists \cup {<<>>}]

GPU == [id : Int, provider : Ids, by : 0 .. MaxRequests, pos : Nat,
        gpu : STRING, healthy : BOOLEAN, report : Seq(BOOLEAN)]

Args == [op : AllOps \cup {"none"}, id : Ids, gpus : Lists \cup {<<>>},
         metrics : Seq(BOOLEAN), status : Statuses \cup {"idle"}]

Older(gpus, n) == gpus \subseteq GPU /\ \A g \in gpus : g.id < n

(* The types TypeOK leaves out: what a transaction will install is made of *)
(* rows that fit the tables.                                               *)
Shape ==
  /\ nextGPU \in Int /\ nextId \in 0 .. MaxIds + 1
  /\ Older(gpu_details, nextGPU)
  /\ arg \in [Requests -> Args]
  /\ tx \in [Requests -> [row : Row, deleted : SUBSET GPU,
                          inserted : SUBSET GPU]]
  /\ \A r \in Requests : Older(tx[r].inserted, nextGPU)

InTx(r) == pc[r] \in {"gpus", "commit"}

(* A request inside its transaction has locked the row it writes.          *)
Held ==
  \A r \in Requests : InTx(r) =>
    /\ lock[arg[r].id] = r
    /\ arg[r].op \in {"register", "update", "heartbeat"}

(* The version of a row that a heartbeat installs is still the committed   *)
(* row with the new status; a registration still finds its id unused.      *)
Pending ==
  \A r \in Requests : InTx(r) =>
    /\ arg[r].op = "heartbeat" => tx[r].row = Beat(providers[arg[r].id])
    /\ arg[r].op = "register" => ~Exists(arg[r].id)

IInv == TypeOK /\ Shape /\ LocksReleased /\ Held /\ Pending

USE DEF Requests

LEMMA Constants ==
  /\ MaxRequests \in Nat /\ MaxIds \in Nat /\ MaxAttempts \in Nat \ {0}
  /\ 0 \in Ids /\ Ids \subseteq Nat /\ 0 \in 0 .. MaxRequests
  /\ Requests \subseteq 0 .. MaxRequests
  /\ None \in Row /\ NoArg \in Args
  /\ NoTx \in [row : Row, deleted : SUBSET GPU, inserted : SUBSET GPU]
  /\ NoTx.inserted = {}
BY RegistryAssumption DEF Ids, None, Row, NoArg, Args, NoTx

(* Rows that are inserted fit the table and are older than the next one.   *)
LEMMA RowsFit ==
  ASSUME NEW r \in 0 .. MaxRequests, NEW p \in Ids, NEW list \in Lists \cup {<<>>},
         NEW first \in Int
  PROVE  /\ Len(list) \in Nat
         /\ Older(GPURows(r, p, list, first), first + Len(list))
<1>1. list \in Seq(GPUDetail) /\ Len(list) \in Nat
  <2>1. <<>> \in Seq(GPUDetail)
    OBVIOUS
  <2>2. list \in Seq(GPUDetail)
    BY <2>1, RegistryAssumption
  <2> QED
    BY <2>2
<1>2. ASSUME NEW k \in 1 .. Len(list)
      PROVE  LET g == [id |-> first + k - 1, provider |-> p, by |-> r, pos |-> k,
                       gpu |-> list[k].model, healthy |-> list[k].healthy,
                       report |-> <<>>]
             IN g \in GPU /\ g.id < first + Len(list)
  <2>1. list[k] \in GPUDetail
    BY <1>1
  <2>2. <<>> \in Seq(BOOLEAN)
    OBVIOUS
  <2>3. list[k].model \in STRING /\ list[k].healthy \in BOOLEAN
    BY <2>1 DEF GPUDetail
  <2>4. first + k - 1 \in Int /\ k \in Nat /\ first + k - 1 < first + Len(list)
    BY <1>1
  <2> QED
    BY <2>2, <2>3, <2>4 DEF GPU
<1> QED
  BY <1>1, <1>2 DEF Older, GPURows

LEMMA InitInv == Init => IInv
<1> SUFFICES ASSUME Init PROVE IInv
  OBVIOUS
<1>1. PICK list \in Lists \ {<<>>}, st \in Statuses :
        /\ providers = [p \in Ids |->
             IF p = 0 THEN [status |-> st, by |-> 0, sent |-> list] ELSE None]
        /\ gpu_details = GPURows(0, 0, list, 1)
        /\ nextGPU = Len(list) + 1
  BY DEF Init
<1>2. Len(list) \in Nat /\ Older(gpu_details, nextGPU)
  BY <1>1, Constants, RowsFit
<1>3. providers \in [Ids -> Row]
  BY <1>1, Constants DEF Row
<1>4. TypeOK
  BY <1>2, <1>3, Constants DEF Init, TypeOK, Row, Older, GPU
<1>5. Shape
  BY <1>2, Constants DEF Init, Shape, Older
<1>6. LocksReleased /\ Held /\ Pending
  BY DEF Init, LocksReleased, Held, Pending, InTx
<1> QED
  BY <1>4, <1>5, <1>6 DEF IInv

(* The end of an attempt: the handler answers, or WithRetry starts again.  *)
Ends(r) == Answer(r) \/ (Retried(r) /\ Again(r))

(* An attempt that ends frees its lock; what it changes of providers is a  *)
(* row that nobody else has locked.                                        *)
LEMMA EndInv ==
  ASSUME IInv, NEW r \in Requests, Ends(r),
         providers' \in [Ids -> Row], Older(gpu_details', nextGPU),
         UNCHANGED nextGPU,
         \A p \in Ids : providers'[p] # providers[p] => lock[p] \in {0, r}
  PROVE  IInv'
<1>1. PICK next \in {"done", "row"} : Close(r, next)
  BY DEF Ends, Answer, Again
<1>2. /\ pc' = [pc EXCEPT ![r] = next] /\ tx' = [tx EXCEPT ![r] = NoTx]
      /\ lock' = [p \in Ids |-> IF lock[p] = r THEN 0 ELSE lock[p]]
  BY <1>1 DEF Close, Goto, Unlocked
<1>3. /\ arg' = arg \/ arg' = [arg EXCEPT ![r] = NoArg]
      /\ nextId' = nextId
      /\ attempt' \in [Requests -> 1 .. MaxAttempts]
  <2>1. attempt \in [Requests -> 1 .. MaxAttempts]
    BY DEF IInv, TypeOK
  <2>2. attempt[r] < MaxAttempts => attempt[r] + 1 \in 1 .. MaxAttempts
    BY <2>1, Constants
  <2>3. CASE Answer(r)
    BY <2>1, <2>3, Constants DEF Answer
  <2>4. CASE Retried(r) /\ Again(r)
    <3>1. attempt[r] + 1 \in 1 .. MaxAttempts
      BY <2>2, <2>4 DEF Retried
    <3>2. attempt' = [attempt EXCEPT ![r] = attempt[r] + 1]
          /\ arg' = arg /\ nextId' = nextId
      BY <2>4 DEF Again
    <3> QED
      BY <2>1, <3>1, <3>2
  <2> QED
    BY <2>3, <2>4 DEF Ends
<1>4. arg' \in [Requests -> Args] /\ \A q \in Requests : q # r => arg'[q] = arg[q]
  BY <1>3, Constants DEF IInv, Shape
<1>5. TypeOK'
  <2>1. /\ pc' \in [Requests -> {"idle", "done"} \cup Waiting]
        /\ lock' \in [Ids -> 0 .. MaxRequests]
    BY <1>2, Constants DEF IInv, TypeOK, Waiting
  <2>2. \A g \in gpu_details' : g.id < nextGPU' /\ g.provider \in Ids
    BY DEF Older, GPU
  <2> QED
    BY <1>3, <2>1, <2>2 DEF TypeOK, Row
<1>6. Shape'
  <2>1. tx' \in [Requests -> [row : Row, deleted : SUBSET GPU,
                              inserted : SUBSET GPU]]
    BY <1>2, Constants DEF IInv, Shape
  <2>2. ASSUME NEW q \in Requests
        PROVE  Older(tx'[q].inserted, nextGPU)
    <3>1. tx'[q].inserted = {} \/ tx'[q] = tx[q]
      BY <1>2, Constants DEF IInv, Shape
    <3> QED
      BY <3>1 DEF IInv, Shape, Older
  <2> QED
    BY <1>3, <1>4, <2>1, <2>2 DEF IInv, Shape
<1>7. LocksReleased'
  <2> SUFFICES ASSUME NEW p \in Ids, lock'[p] # 0
               PROVE  /\ pc'[lock'[p]] \in {"gpus", "commit"}
                      /\ arg'[lock'[p]].id = p
    BY DEF LocksReleased
  <2>1. lock'[p] = lock[p] /\ lock[p] # r /\ lock[p] # 0
    BY <1>2
  <2>2. lock[p] \in Requests
    BY <2>1, Constants DEF IInv, TypeOK
  <2>3. pc'[lock[p]] = pc[lock[p]] /\ arg'[lock[p]] = arg[lock[p]]
    BY <1>2, <1>4, <2>1, <2>2 DEF IInv, TypeOK
  <2> QED
    BY <2>1, <2>3 DEF IInv, LocksReleased
<1>8. ASSUME NEW q \in Requests, InTx(q)'
      PROVE  /\ q # r /\ InTx(q) /\ arg'[q] = arg[q] /\ tx'[q] = tx[q]
             /\ arg[q].id \in Ids
             /\ lock[arg[q].id] = q /\ lock'[arg[q].id] = q
             /\ providers'[arg[q].id] = providers[arg[q].id]
  <2>1. q # r /\ InTx(q)
    BY <1>2, <1>8 DEF IInv, TypeOK, InTx
  <2>2. arg'[q] = arg[q] /\ tx'[q] = tx[q] /\ arg[q].id \in Ids
    BY <1>2, <1>4, <2>1 DEF IInv, Shape, Args
  <2>3. lock[arg[q].id] = q /\ q # 0
    BY <2>1 DEF IInv, Held
  <2> QED
    BY <1>2, <2>1, <2>2, <2>3
<1>9. Held'
  BY <1>8 DEF IInv, Held
<1>10. Pending'
  BY <1>8 DEF IInv, Pending, Beat, Exists
<1> QED
  BY <1>5, <1>6, <1>7, <1>9, <1>10 DEF IInv

(* The first statement of a transaction locks a row that was free.         *)
LEMMA LockInv ==
  ASSUME IInv, NEW r \in Requests, pc[r] = "row",
         NEW row \in Row, LockRow(r, arg[r].id, row), Goto(r, "gpus"),
         arg[r].op \in {"register", "update", "heartbeat"},
         arg[r].op = "heartbeat" => row = Beat(providers[arg[r].id]),
         arg[r].op = "register" => ~Exists(arg[r].id),
         UNCHANGED <<tables, nextGPU, nextId, arg, attempt>>
  PROVE  IInv'
<1> DEFINE p == arg[r].id
<1>1. /\ p \in Ids /\ lock[p] = 0 /\ r # 0
      /\ lock' = [lock EXCEPT ![p] = r]
      /\ pc' = [pc EXCEPT ![r] = "gpus"]
      /\ tx' = [tx EXCEPT ![r] = [tx[r] EXCEPT !.row = row]]
      /\ providers' = providers /\ gpu_details' = gpu_details
  BY DEF IInv, Shape, Args, LockRow, Goto, tables
<1>2. /\ lock \in [Ids -> 0 .. MaxRequests]
      /\ pc \in [Requests -> {"idle", "done"} \cup Waiting]
      /\ tx \in [Requests -> [row : Row, deleted : SUBSET GPU,
                              inserted : SUBSET GPU]]
  BY DEF IInv, TypeOK, Shape
<1>3. /\ tx'[r].row = row /\ tx'[r].inserted = tx[r].inserted
      /\ tx' \in [Requests -> [row : Row, deleted : SUBSET GPU,
                               inserted : SUBSET GPU]]
      /\ \A q \in Requests : q # r => tx'[q] = tx[q]
  BY <1>1, <1>2
<1>4. TypeOK'
  <2>1. /\ pc' \in [Requests -> {"idle", "done"} \cup Waiting]
        /\ lock' \in [Ids -> 0 .. MaxRequests]
    BY <1>1, <1>2, Constants DEF Waiting
  <2> QED
    BY <1>1, <2>1 DEF IInv, TypeOK
<1>5. Shape'
  <2>1. ASSUME NEW q \in Requests
        PROVE  tx'[q].inserted = tx[q].inserted
    BY <1>3
  <2> QED
    BY <1>1, <1>3, <2>1 DEF IInv, Shape, Older
<1>6. LocksReleased'
  <2> SUFFICES ASSUME NEW q \in Ids, lock'[q] # 0
               PROVE  pc'[lock'[q]] \in {"gpus", "commit"} /\ arg[lock'[q]].id = q
    BY DEF LocksReleased
  <2>1. CASE q = p
    BY <1>1, <1>2, <2>1
  <2>2. CASE q # p
    <3>1. lock'[q] = lock[q] /\ lock[q] \in Requests
      BY <1>1, <1>2, <2>2, Constants
    <3>2. pc[lock[q]] \in {"gpus", "commit"} /\ arg[lock[q]].id = q
      BY <3>1 DEF IInv, LocksReleased
    <3> QED
      BY <1>1, <1>2, <3>1, <3>2
  <2> QED
    BY <2>1, <2>2
<1>7. ASSUME NEW q \in Requests, InTx(q)', q # r
      PROVE  /\ InTx(q) /\ tx'[q] = tx[q] /\ lock'[arg[q].id] = q
  <2>1. InTx(q) /\ tx'[q] = tx[q]
    BY <1>1, <1>2, <1>3, <1>7 DEF InTx
  <2>2. lock[arg[q].id] = q /\ q # 0
    BY <2>1 DEF IInv, Held
  <2> QED
    BY <1>1, <1>2, <2>1, <2>2
<1>8. Held'
  BY <1>1, <1>2, <1>7 DEF IInv, Held
<1>9. Pending'
  BY <1>1, <1>3, <1>7 DEF IInv, Pending, Beat, Exists
<1> QED
  BY <1>4, <1>5, <1>6, <1>8, <1>9 DEF IInv

(* The loops over GPUs write into the transaction only.                    *)
LEMMA WriteInv ==
  ASSUME IInv, NEW r \in Requests, pc[r] = "gpus", Goto(r, "commit"),
         NEW del \in SUBSET GPU, NEW ins \in SUBSET GPU,
         tx' = [tx EXCEPT ![r].deleted = del, ![r].inserted = ins],
         nextGPU' \in Int, nextGPU' >= nextGPU, Older(ins, nextGPU'),
         UNCHANGED <<tables, nextId, arg, lock, attempt>>
  PROVE  IInv'
<1>1. /\ pc' = [pc EXCEPT ![r] = "commit"]
      /\ providers' = providers /\ gpu_details' = gpu_details
      /\ lock' = lock /\ arg' = arg
  BY DEF Goto, tables
<1>2. /\ pc \in [Requests -> {"idle", "done"} \cup Waiting]
      /\ tx \in [Requests -> [row : Row, deleted : SUBSET GPU,
                              inserted : SUBSET GPU]]
      /\ nextGPU \in Int
  BY DEF IInv, TypeOK, Shape
<1>3. /\ tx'[r].row = tx[r].row /\ tx'[r].inserted = ins
      /\ tx' \in [Requests -> [row : Row, deleted : SUBSET GPU,
                               inserted : SUBSET GPU]]
      /\ \A q \in Requests : q # r => tx'[q] = tx[q]
  BY <1>2
<1>4. ASSUME NEW S, Older(S, nextGPU)
      PROVE  Older(S, nextGPU')
  BY <1>2, <1>4 DEF Older, GPU
<1>5. Shape'
  <2>1. \A q \in Requests : Older(tx'[q].inserted, nextGPU')
    BY <1>3, <1>4 DEF IInv, Shape
  <2> QED
    BY <1>1, <1>3, <1>4, <2>1 DEF IInv, Shape
<1>6. TypeOK'
  <2>1. pc' \in [Requests -> {"idle", "done"} \cup Waiting]
    BY <1>1, <1>2 DEF Waiting
  <2>2. \A g \in gpu_details' : g.id < nextGPU' /\ g.provider \in Ids
    BY <1>5 DEF Shape, Older, GPU
  <2> QED
    BY <1>1, <2>1, <2>2 DEF IInv, TypeOK
<1>7. \A q \in Requests : InTx(q)' <=> InTx(q)
  BY <1>1, <1>2 DEF InTx
<1>8. Held'
  BY <1>1, <1>7 DEF IInv, Held
<1>9. Pending'
  BY <1>1, <1>3, <1>7 DEF IInv, Pending, Beat, Exists
<1>10. LocksReleased'
  BY <1>1, <1>2 DEF IInv, LocksReleased
<1> QED
  BY <1>5, <1>6, <1>8, <1>9, <1>10 DEF IInv

LEMMA ReceiveInv ==
  ASSUME IInv, NEW r \in Requests, NEW a \in Args, Receive(r, a),
         nextId' \in 0 .. MaxIds + 1
  PROVE  IInv'
<1>1. /\ pc[r] = "idle" /\ pc' = [pc EXCEPT ![r] = "row"]
      /\ arg' = [arg EXCEPT ![r] = a]
      /\ providers' = providers /\ gpu_details' = gpu_details
      /\ UNCHANGED <<nextGPU, tx, lock, attempt>>
  BY DEF Receive, tables
<1>2. /\ pc \in [Requests -> {"idle", "done"} \cup Waiting]
      /\ arg \in [Requests -> Args]
  BY DEF IInv, TypeOK, Shape
<1>3. TypeOK'
  <2>1. pc' \in [Requests -> {"idle", "done"} \cup Waiting]
    BY <1>1, <1>2 DEF Waiting
  <2> QED
    BY <1>1, <2>1 DEF IInv, TypeOK
<1>4. Shape'
  BY <1>1, <1>2 DEF IInv, Shape, Older
<1>5. \A q \in Requests : InTx(q)' => q # r /\ InTx(q) /\ arg'[q] = arg[q]
  BY <1>1, <1>2 DEF InTx
<1>6. Held' /\ Pending'
  BY <1>1, <1>5 DEF IInv, Held, Pending, Beat, Exists
<1>7. LocksReleased'
  <2> SUFFICES ASSUME NEW p \in Ids, lock[p] # 0
               PROVE  /\ pc'[lock[p]] \in {"gpus", "commit"}
                      /\ arg'[lock[p]].id = p
    BY <1>1 DEF LocksReleased
  <2>1. lock[p] \in Requests
    BY Constants DEF IInv, TypeOK
  <2>2. pc[lock[p]] \in {"gpus", "commit"} /\ arg[lock[p]].id = p
    BY DEF IInv, LocksReleased
  <2> QED
    BY <1>1, <1>2, <2>1, <2>2
<1> QED
  BY <1>3, <1>4, <1>6, <1>7 DEF IInv

(* What clients can ask for.                                               *)
LEMMA ArriveInv ==
  ASSUME IInv, NEW r \in Requests, Arrive(r)
  PROVE  IInv'
<1>1. nextId \in 0 .. MaxIds + 1 /\ 0 .. nextId - 1 \subseteq Ids
  BY Constants DEF IInv, Shape, Ids
<1>2. \A p \in Ids, list \in Lists :
        [NoArg EXCEPT !.op = "register", !.id = p, !.gpus = list] \in Args
  BY Constants DEF Args, AllOps
<1>3. \A p \in Ids, list \in Lists, st \in Statuses :
        [NoArg EXCEPT !.op = "update", !.id = p, !.gpus = list, !.status = st]
          \in Args
  BY Constants DEF Args, AllOps
<1>4. \A p \in Ids, st \in Statuses :
        [NoArg EXCEPT !.op = "status", !.id = p, !.status = st] \in Args
  BY Constants DEF Args, AllOps
<1>5. \A p \in Ids, m \in Metrics :
        [NoArg EXCEPT !.op = "heartbeat", !.id = p, !.metrics = m] \in Args
  BY Constants, RegistryAssumption DEF Args, AllOps
<1>6. \A p \in Ids : [NoArg EXCEPT !.op = "delete", !.id = p] \in Args
  BY Constants DEF Args, AllOps
<1>7. \E a \in Args : Receive(r, a)
  BY <1>1, <1>2, <1>3, <1>4, <1>5, <1>6, Zenon DEF Arrive
<1>8. nextId' \in 0 .. MaxIds + 1
  <2>1. nextId' = nextId \/ (nextId \in Ids /\ nextId' = nextId + 1)
    BY Zenon DEF Arrive
  <2> QED
    BY <1>1, <2>1, Constants DEF Ids
<1> QED
  BY <1>7, <1>8, ReceiveInv

LEMMA RollbackInv ==
  ASSUME IInv, NEW r \in Requests, Ends(r), UNCHANGED <<tables, nextGPU>>
  PROVE  IInv'
<1>1. providers' = providers /\ gpu_details' = gpu_details /\ nextGPU' = nextGPU
  BY DEF tables
<1>2. providers' \in [Ids -> Row] /\ Older(gpu_details', nextGPU)
  BY <1>1 DEF IInv, TypeOK, Shape, Row
<1> QED
  BY <1>1, <1>2, EndInv

(* A transaction is installed under the lock of the row it writes.         *)
LEMMA CommitInv ==
  ASSUME IInv, NEW r \in Requests, pc[r] = "commit", Install(r), Ends(r),
         UNCHANGED nextGPU
  PROVE  IInv'
<1>1. arg[r].id \in Ids /\ lock[arg[r].id] = r /\ tx[r].row \in Row
  BY DEF IInv, Shape, Args, Held, InTx
<1>2. providers \in [Ids -> Row]
  BY DEF IInv, TypeOK, Row
<1>3. /\ providers' \in [Ids -> Row]
      /\ \A p \in Ids : providers'[p] # providers[p] => lock[p] \in {0, r}
  BY <1>1, <1>2 DEF Install
<1>4. Older(gpu_details', nextGPU)
  BY DEF IInv, Shape, Install, Older
<1> QED
  BY <1>3, <1>4, EndInv

LEMMA StatementInv ==
  ASSUME IInv, NEW r \in Requests, Statement(r)
  PROVE  IInv'
<1> DEFINE p == arg[r].id
<1>1. /\ p \in Ids /\ arg[r] \in Args /\ r \in 0 .. MaxRequests
      /\ providers \in [Ids -> Row]
  BY Constants DEF IInv, Shape, Args, TypeOK, Row
<1>2. /\ arg[r].gpus \in Lists \cup {<<>>} /\ arg[r].metrics \in Seq(BOOLEAN)
      /\ arg[r].status \in Statuses \cup ProviderStatus
  BY <1>1 DEF Args, ProviderStatus
<1>3. Rollback(r) => IInv'
  BY RollbackInv DEF Rollback, Ends
<1>4. CASE InsertProvider(r)
  <2>1. [status |-> "idle", by |-> r, sent |-> arg[r].gpus] \in Row
    BY <1>1, <1>2 DEF Row, ProviderStatus
  <2> QED
    BY <1>3, <1>4, <2>1, LockInv DEF InsertProvider, At
<1>5. CASE UpdateRow(r)
  <2>1. [status |-> arg[r].status, by |-> r, sent |-> arg[r].gpus] \in Row
    BY <1>1, <1>2 DEF Row
  <2> QED
    BY <1>3, <1>5, <2>1, LockInv DEF UpdateRow, At, RowGone
<1>6. CASE HeartbeatRow(r)
  <2>1. Beat(providers[p]) \in Row
    BY <1>1 DEF Row, Beat, ProviderStatus
  <2> QED
    BY <1>3, <1>6, <2>1, LockInv DEF HeartbeatRow, At, RowGone
<1>7. CASE InsertGPUs(r)
  <2> DEFINE ins == GPURows(r, p, arg[r].gpus, nextGPU)
  <2>1. nextGPU \in Int /\ gpu_details \subseteq GPU
    BY DEF IInv, Shape, Older
  <2>2. Len(arg[r].gpus) \in Nat /\ Older(ins, nextGPU + Len(arg[r].gpus))
    BY <1>1, <1>2, <2>1, RowsFit
  <2>3. DeleteGPUs(r) \in SUBSET GPU /\ ins \in SUBSET GPU
    BY <2>1, <2>2 DEF DeleteGPUs, GPUsOf, Older
  <2>4. nextGPU' = nextGPU + Len(arg[r].gpus)
    BY <1>7 DEF InsertGPUs
  <2>5. nextGPU' \in Int /\ nextGPU' >= nextGPU /\ Older(ins, nextGPU')
    BY <2>1, <2>2, <2>4
  <2> HIDE DEF ins
  <2>6. /\ pc[r] = "gpus" /\ Goto(r, "commit")
        /\ tx' = [tx EXCEPT ![r].deleted = DeleteGPUs(r), ![r].inserted = ins]
        /\ UNCHANGED <<tables, nextId, arg, lock, attempt>>
    BY <1>7 DEF InsertGPUs, ins
  <2> QED
    BY <2>3, <2>5, <2>6, WriteInv
<1>8. CASE HeartbeatGPUs(r)
  <2> DEFINE m    == arg[r].metrics
             kth  == [k \in 1 .. Len(m) |-> Offset(GPUsOf(p), k)]
             del  == UNION {kth[k] : k \in 1 .. Len(m)}
             new(g, k) == [g EXCEPT !.healthy = m[k], !.report = m]
             ins  == UNION {{[g EXCEPT !.healthy = m[k], !.report = m] :
                               g \in kth[k]} : k \in 1 .. Len(m)}
  <2>1. nextGPU \in Int /\ Older(gpu_details, nextGPU)
    BY DEF IInv, Shape
  <2>2. \A k \in 1 .. Len(m) : kth[k] \subseteq gpu_details
    BY DEF Offset, GPUsOf
  <2>3. del \in SUBSET GPU
    BY <2>1, <2>2 DEF Older
  <2>4. ASSUME NEW k \in 1 .. Len(m), NEW g \in kth[k]
        PROVE  new(g, k) \in GPU /\ new(g, k).id < nextGPU
    <3>1. m[k] \in BOOLEAN
      BY <1>2
    <3>2. g \in gpu_details
      BY <2>2
    <3>3. g \in GPU /\ g.id < nextGPU
      BY <2>1, <3>2 DEF Older
    <3> QED
      BY <1>2, <3>1, <3>3 DEF GPU
  <2>5. ins \in SUBSET GPU /\ Older(ins, nextGPU)
    <3>1. ASSUME NEW g \in ins
          PROVE  g \in GPU /\ g.id < nextGPU
      <4>1. PICK k \in 1 .. Len(m) : \E h \in kth[k] : g = new(h, k)
        OBVIOUS
      <4>2. PICK h \in kth[k] : g = new(h, k)
        BY <4>1
      <4> HIDE DEF m, kth, new
      <4> QED
        BY <2>4, <4>2, Zenon
    <3> QED
      BY <3>1 DEF Older
  <2> HIDE DEF del, ins, kth
  <2>6. CASE Rollback(r)
    BY <1>3, <2>6
  <2>7. CASE /\ pc[r] = "gpus" /\ Goto(r, "commit")
             /\ tx' = [tx EXCEPT ![r].deleted = del, ![r].inserted = ins]
             /\ UNCHANGED <<tables, nextGPU, nextId, arg, lock, attempt>>
    <3>1. nextGPU' \in Int /\ nextGPU' >= nextGPU /\ Older(ins, nextGPU')
      BY <2>1, <2>5, <2>7
    <3>2. UNCHANGED <<tables, nextId, arg, lock, attempt>>
      BY <2>7
    <3> QED
      BY <2>3, <2>5, <2>7, <3>1, <3>2, WriteInv
  <2> QED
    BY <1>8, <2>6, <2>7 DEF HeartbeatGPUs, At, del, ins, kth
<1>9. CASE Commit(r)
  BY <1>9, CommitInv DEF Commit, Ends
<1>10. CASE SetStatus(r)
  <2>1. CASE Rollback(r)
    BY <1>3, <2>1
  <2>2. CASE /\ lock[p] = 0 /\ Answer(r)
             /\ providers' = [providers EXCEPT ![p].status = arg[r].status]
             /\ UNCHANGED <<gpu_details, nextGPU>>
    <3>1. /\ providers' \in [Ids -> Row]
          /\ \A q \in Ids : providers'[q] # providers[q] => lock[q] \in {0, r}
      BY <1>1, <1>2, <2>2 DEF Row
    <3>2. Older(gpu_details', nextGPU)
      BY <2>2 DEF IInv, Shape
    <3> QED
      BY <2>2, <3>1, <3>2, EndInv DEF Ends
  <2> QED
    BY <1>10, <2>1, <2>2 DEF SetStatus, RowGone
<1>11. CASE DeleteProvider(r)
  <2>1. CASE Rollback(r)
    BY <1>3, <2>1
  <2>2. CASE /\ lock[p] = 0 /\ Answer(r)
             /\ providers' = [providers EXCEPT ![p] = None]
             /\ gpu_details' = gpu_details \ GPUsOf(p)
             /\ UNCHANGED nextGPU
    <3>1. /\ providers' \in [Ids -> Row]
          /\ \A q \in Ids : providers'[q] # providers[q] => lock[q] \in {0, r}
      BY <1>1, <2>2, Constants
    <3>2. Older(gpu_details', nextGPU)
      BY <2>2 DEF IInv, Shape, Older
    <3> QED
      BY <2>2, <3>1, <3>2, EndInv DEF Ends
  <2> QED
    BY <1>11, <2>1, <2>2 DEF DeleteProvider, RowGone
<1> QED
  BY <1>4, <1>5, <1>6, <1>7, <1>8, <1>9, <1>10, <1>11 DEF Statement

LEMMA FaultInv ==
  ASSUME IInv, NEW r \in Requests, Fail(r) \/ LostCommit(r)
  PROVE  IInv'
<1>1. Ends(r)
  BY DEF Fail, LostCommit, Ends
<1>2. CASE Fail(r)
  BY <1>1, <1>2, RollbackInv DEF Fail
<1>3. CASE LostCommit(r)
  BY <1>1, <1>3, CommitInv DEF LostCommit
<1> QED
  BY <1>2, <1>3

LEMMA CrashInv ==
  ASSUME IInv, Crash
  PROVE  IInv'
<1>1. /\ pc' = [r \in Requests |-> IF pc[r] \in Waiting THEN "done" ELSE pc[r]]
      /\ tx' = [r \in Requests |-> NoTx] /\ lock' = [p \in Ids |-> 0]
      /\ arg' = [r \in Requests |-> NoArg] /\ attempt' = [r \in Requests |-> 1]
      /\ providers' = providers /\ gpu_details' = gpu_details
      /\ nextGPU' = nextGPU /\ nextId' = nextId
  BY DEF Crash, tables
<1>2. pc' \in [Requests -> {"idle", "done"}]
  BY <1>1 DEF IInv, TypeOK, Waiting
<1>3. TypeOK'
  BY <1>1, <1>2, Constants DEF IInv, TypeOK
<1>4. Shape'
  BY <1>1, Constants DEF IInv, Shape, Older
<1>5. LocksReleased' /\ Held' /\ Pending'
  BY <1>1, <1>2 DEF LocksReleased, Held, Pending, InTx
<1> QED
  BY <1>3, <1>4, <1>5 DEF IInv

LEMMA NextInv == IInv /\ [Next]_vars => IInv'
<1> SUFFICES ASSUME IInv, [Next]_vars PROVE IInv'
  OBVIOUS
<1>1. ASSUME NEW r \in Requests,
             Arrive(r) \/ Statement(r) \/ Fail(r) \/ LostCommit(r)
      PROVE  IInv'
  BY <1>1, ArriveInv, StatementInv, FaultInv
<1>2. CASE Crash
  BY <1>2, CrashInv
<1>3. CASE UNCHANGED vars
  BY <1>3 DEF vars, tables, IInv, TypeOK, Shape, LocksReleased, Held, Pending,
              InTx, Beat, Exists, Older
<1> QED
  BY <1>1, <1>2, <1>3 DEF Next, Quiet

LEMMA Invariant == Spec => []IInv
BY InitInv, NextInv, PTL DEF Spec

(* Whatever fails, is retried or crashes, the registry leaves no provider  *)
(* row locked by a request that is not inside its transaction, and no two  *)
(* requests wait for each other's rows.                                    *)
THEOREM LocksReleasedCorrect == Spec => []LocksReleased
<1>1. IInv => LocksReleased
  BY DEF IInv
<1> QED
  BY <1>1, Invariant, PTL

(* The rows of providers a step may change, and on whose behalf: a status  *)
(* change, a deletion or the COMMIT of a transaction of that provider.     *)
LEMMA Writers ==
  ASSUME IInv, [Next]_vars, NEW p \in Ids, providers'[p] # providers[p]
  PROVE  \E r \in Requests :
           /\ pc'[r] # pc[r] /\ arg[r].id = p
           /\ \/ arg[r].op \in {"status", "delete"}
              \/ InTx(r) /\ providers'[p] = tx[r].row
<1>1. providers \in [Ids -> Row] /\ pc \in [Requests -> {"idle", "done"} \cup Waiting]
  BY DEF IInv, TypeOK, Row
<1>2. providers' # providers /\ ~UNCHANGED vars /\ ~Crash
  BY DEF vars, tables, Crash
<1>3. PICK r \in Requests : Arrive(r) \/ Statement(r) \/ Fail(r) \/ LostCommit(r)
  BY <1>2 DEF Next, Quiet
<1>4. /\ ~Arrive(r) /\ ~Fail(r) /\ ~Rollback(r) /\ ~InsertProvider(r)
      /\ ~UpdateRow(r) /\ ~HeartbeatRow(r) /\ ~InsertGPUs(r) /\ ~HeartbeatGPUs(r)
  BY <1>2 DEF Arrive, Receive, Fail, Rollback, RowGone, InsertProvider, UpdateRow,
              HeartbeatRow, InsertGPUs, HeartbeatGPUs, tables
<1>5. Answer(r) \/ Again(r) => pc' = [pc EXCEPT ![r] = "done"]
                              \/ pc' = [pc EXCEPT ![r] = "row"]
  BY DEF Answer, Again, Close, Goto
<1>6. CASE Commit(r) \/ LostCommit(r)
  <2>1. pc[r] = "commit" /\ Install(r) /\ (Answer(r) \/ Again(r))
    BY <1>6 DEF Commit, LostCommit
  <2>2. pc'[r] # pc[r] /\ InTx(r)
    BY <1>1, <1>5, <2>1 DEF InTx
  <2>3. providers' = [providers EXCEPT ![arg[r].id] = tx[r].row]
    BY <2>1 DEF Install
  <2>4. arg[r].id = p /\ providers'[p] = tx[r].row
    BY <1>1, <2>3
  <2> QED
    BY <2>2, <2>4
<1>7. CASE SetStatus(r)
  <2>1. /\ pc[r] = "row" /\ arg[r].op = "status" /\ Answer(r)
        /\ providers' = [providers EXCEPT ![arg[r].id].status = arg[r].status]
    BY <1>4, <1>7 DEF SetStatus, At, RowGone
  <2>2. pc'[r] # pc[r]
    BY <1>1, <2>1 DEF Answer, Close, Goto
  <2>3. arg[r].id = p
    BY <1>1, <2>1
  <2> QED
    BY <2>1, <2>2, <2>3
<1>8. CASE DeleteProvider(r)
  <2>1. /\ pc[r] = "row" /\ arg[r].op = "delete" /\ Answer(r)
        /\ providers' = [providers EXCEPT ![arg[r].id] = None]
    BY <1>4, <1>8 DEF DeleteProvider, At, RowGone
  <2>2. pc'[r] # pc[r]
    BY <1>1, <2>1 DEF Answer, Close, Goto
  <2>3. arg[r].id = p
    BY <1>1, <2>1
  <2> QED
    BY <2>1, <2>2, <2>3
<1> QED
  BY <1>3, <1>4, <1>6, <1>7, <1>8 DEF Statement

(* Ids of providers are given out one after the other.                     *)
Given ==
  /\ \A p \in Ids : Exists(p) => p < nextId
  /\ \A r \in Requests : arg[r].id < nextId

LEMMA GivenKept == Spec => []Given
<1>1. Init => Given
  BY DEF Init, Given, Exists, None, NoArg
<1>2. IInv /\ Given /\ [Next]_vars => Given'
  <2> SUFFICES ASSUME IInv, Given, [Next]_vars PROVE Given'
    OBVIOUS
  <2>1. /\ nextId \in Nat /\ Ids \subseteq Nat
        /\ arg \in [Requests -> Args]
        /\ \A r \in Requests : arg[r].id \in Ids
    BY Constants DEF IInv, Shape, Args
  <2>5. \A r \in Requests : arg[r].id \in Nat /\ arg[r].id < nextId
    <3>1. \A r \in Requests : arg[r].id \in Nat
      BY <2>1
    <3> QED
      BY <3>1 DEF Given
  <2>2. /\ nextId' \in Nat /\ nextId <= nextId'
        /\ \A r \in Requests : \/ arg'[r] \in {arg[r], NoArg}
                               \/ arg'[r].id < nextId'
    <3>1. ASSUME NEW q \in Requests, Arrive(q)
          PROVE  /\ nextId' \in {nextId, nextId + 1} /\ arg'[q].id < nextId'
                 /\ \A r \in Requests \ {q} : arg'[r] = arg[r]
      <4>1. \A a, p : a.id = p /\ Receive(q, a) /\ p < nextId' =>
              arg'[q].id < nextId' /\ \A r \in Requests \ {q} : arg'[r] = arg[r]
        BY <2>1 DEF Receive
      <4>2. \A p : /\ \A list : [NoArg EXCEPT !.op = "register", !.id = p,
                                              !.gpus = list].id = p
                   /\ \A list, st : [NoArg EXCEPT !.op = "update", !.id = p,
                                          !.gpus = list, !.status = st].id = p
                   /\ \A st : [NoArg EXCEPT !.op = "status", !.id = p,
                                            !.status = st].id = p
                   /\ \A m : [NoArg EXCEPT !.op = "heartbeat", !.id = p,
                                           !.metrics = m].id = p
                   /\ [NoArg EXCEPT !.op = "delete", !.id = p].id = p
        BY DEF NoArg
      <4>3. nextId' \in {nextId, nextId + 1}
        BY <3>1, Zenon DEF Arrive
      <4>4. PICK p : /\ p < nextId'
                     /\ \/ \E list : Receive(q, [NoArg EXCEPT !.op = "register", !.id = p,
                                                              !.gpus = list])
                        \/ \E list, st : Receive(q, [NoArg EXCEPT !.op = "update",
                                            !.id = p, !.gpus = list, !.status = st])
                        \/ \E st : Receive(q, [NoArg EXCEPT !.op = "status", !.id = p,
                                                            !.status = st])
                        \/ \E m : Receive(q, [NoArg EXCEPT !.op = "heartbeat", !.id = p,
                                                           !.metrics = m])
                        \/ Receive(q, [NoArg EXCEPT !.op = "delete", !.id = p])
        <5>1. nextId < nextId + 1 /\ \A p \in 0 .. nextId - 1 : p < nextId
          BY <2>1
        <5> QED
          BY <3>1, <5>1, Zenon DEF Arrive
      <4>5. PICK a : a.id = p /\ Receive(q, a)
        <5>1. CASE \E list : Receive(q, [NoArg EXCEPT !.op = "register", !.id = p,
                                                      !.gpus = list])
          BY <4>2, <5>1, Zenon
        <5>2. CASE \E list, st : Receive(q, [NoArg EXCEPT !.op = "update", !.id = p,
                                              !.gpus = list, !.status = st])
          <6>1. PICK list, st : Receive(q, [NoArg EXCEPT !.op = "update", !.id = p,
                                                         !.gpus = list, !.status = st])
            BY <5>2, Zenon
          <6> DEFINE b == [NoArg EXCEPT !.op = "update", !.id = p, !.gpus = list,
                                        !.status = st]
          <6>2. b.id = p /\ Receive(q, b)
            BY <4>2, <6>1, ZenonT(40)
          <6> QED
            BY <6>2, Zenon
        <5>3. CASE \E st : Receive(q, [NoArg EXCEPT !.op = "status", !.id = p,
                                                    !.status = st])
          BY <4>2, <5>3, Zenon
        <5>4. CASE \E m : Receive(q, [NoArg EXCEPT !.op = "heartbeat", !.id = p,
                                                   !.metrics = m])
          BY <4>2, <5>4, Zenon
        <5>5. CASE Receive(q, [NoArg EXCEPT !.op = "delete", !.id = p])
          BY <4>2, <5>5, Zenon
        <5> QED
          BY <4>4, <5>1, <5>2, <5>3, <5>4, <5>5, Zenon
      <4>6. p < nextId'
        BY <4>4, Zenon
      <4>7. arg'[q].id < nextId' /\ \A r \in Requests \ {q} : arg'[r] = arg[r]
        BY <4>1, <4>5, <4>6, Zenon
      <4> QED
        BY <4>3, <4>7
    <3>2. ASSUME NEW q \in Requests, Statement(q) \/ Fail(q) \/ LostCommit(q)
          PROVE  nextId' = nextId /\ arg' \in {arg, [arg EXCEPT ![q] = NoArg]}
      <4>1. Answer(q) \/ Again(q) \/ UNCHANGED <<arg, nextId>>
        BY <3>2 DEF Statement, Fail, LostCommit, InsertProvider, UpdateRow,
                    InsertGPUs, HeartbeatRow, HeartbeatGPUs, Commit, SetStatus,
                    DeleteProvider, Rollback, RowGone
      <4> QED
        BY <4>1 DEF Answer, Again
    <3>3. CASE Crash \/ UNCHANGED vars
      <4>1. nextId' = nextId
        BY <3>3 DEF Crash, vars
      <4>2. arg' = arg \/ arg' = [r \in Requests |-> NoArg]
        BY <3>3 DEF Crash, vars
      <4>3. \A r \in Requests : arg'[r] \in {arg[r], NoArg}
        BY <4>2
      <4> QED
        BY <2>1, <4>1, <4>3
    <3>4. CASE \E q \in Requests : Arrive(q)
      <4>1. PICK q \in Requests : Arrive(q)
        BY <3>4
      <4>2. /\ nextId' \in {nextId, nextId + 1} /\ arg'[q].id < nextId'
            /\ \A r \in Requests \ {q} : arg'[r] = arg[r]
        BY <3>1, <4>1
      <4>3. nextId' \in Nat /\ nextId <= nextId'
        BY <2>1, <4>2
      <4> QED
        BY <4>2, <4>3
    <3>5. CASE \E q \in Requests : Statement(q) \/ Fail(q) \/ LostCommit(q)
      <4>1. PICK q \in Requests : Statement(q) \/ Fail(q) \/ LostCommit(q)
        BY <3>5
      <4>2. nextId' = nextId /\ arg' \in {arg, [arg EXCEPT ![q] = NoArg]}
        BY <3>2, <4>1
      <4>3. \A r \in Requests : arg'[r] \in {arg[r], NoArg}
        BY <2>1, <4>2
      <4> QED
        BY <2>1, <4>2, <4>3
    <3> QED
      BY <3>3, <3>4, <3>5 DEF Next, Quiet
  <2>3. ASSUME NEW p \in Ids, Exists(p)'
        PROVE  p < nextId'
    <3>1. CASE providers'[p] = providers[p]
      BY <2>1, <2>2, <2>3, <3>1 DEF Given, Exists
    <3>2. CASE providers'[p] # providers[p]
      <4>1. PICK r \in Requests : arg[r].id = p
        BY <3>2, Writers
      <4> QED
        BY <2>1, <2>2, <4>1 DEF Given
    <3> QED
      BY <3>1, <3>2
  <2>4. ASSUME NEW r \in Requests
        PROVE  arg'[r].id < nextId'
    <3>1. CASE arg'[r] = arg[r]
      BY <2>1, <2>2, <3>1 DEF Given
    <3>2. CASE arg'[r] = NoArg
      <4>1. arg'[r].id = 0
        BY <3>2 DEF NoArg
      <4>2. 0 < nextId
        BY <2>1, <2>5
      <4> QED
        BY <2>1, <2>2, <4>1, <4>2
    <3>3. CASE arg'[r].id < nextId'
      BY <3>3
    <3> QED
      BY <2>2, <3>1, <3>2, <3>3
  <2> QED
    BY <2>3, <2>4 DEF Given
<1> QED
  BY <1>1, <1>2, Invariant, PTL DEF Spec

(* Every row of the tables, every request and every lock of the registry   *)
(* is in a state the code names, what a transaction has still to write fits *)
(* the tables and takes its row ids from the sequence, and no row and no   *)
(* request names a provider id that was not given out.                     *)
THEOREM TypeCorrect == Spec => [](TypeOK /\ Shape /\ Given)
<1>1. IInv => TypeOK /\ Shape
  BY DEF IInv
<1> QED
  BY <1>1, Invariant, GivenKept, PTL

(* No heartbeat, registration or retry, however it overlaps with other     *)
(* requests, takes a provider out of maintenance or out of a rental.       *)
THEOREM MaintenanceHoldsCorrect == Spec => MaintenanceHolds
<1> DEFINE A == \A p \in Ids :
       /\ providers[p].status \in {"busy", "maintenance"}
       /\ providers'[p].status # providers[p].status
       => \E r \in Requests : /\ pc'[r] # pc[r] /\ arg[r].id = p
                              /\ arg[r].op \in {"update", "status", "delete"}
<1>1. ASSUME IInv, [Next]_vars
      PROVE  A
  <2> SUFFICES ASSUME NEW p \in Ids,
                      providers[p].status \in {"busy", "maintenance"},
                      providers'[p].status # providers[p].status
               PROVE  \E r \in Requests :
                        /\ pc'[r] # pc[r] /\ arg[r].id = p
                        /\ arg[r].op \in {"update", "status", "delete"}
    OBVIOUS
  <2>1. PICK r \in Requests :
          /\ pc'[r] # pc[r] /\ arg[r].id = p
          /\ \/ arg[r].op \in {"status", "delete"}
             \/ InTx(r) /\ providers'[p] = tx[r].row
    BY <1>1, Writers
  <2>2. CASE InTx(r) /\ providers'[p] = tx[r].row
    <3>1. arg[r].op \in {"register", "update", "heartbeat"}
      BY <1>1, <2>2 DEF IInv, Held
    <3>2. arg[r].op # "register"
      BY <1>1, <2>1, <2>2 DEF IInv, Pending, Exists
    <3>3. arg[r].op # "heartbeat"
      <4>1. Beat(providers[p]) = providers[p]
        BY DEF Beat
      <4> QED
        BY <1>1, <2>1, <2>2, <4>1 DEF IInv, Pending
    <3> QED
      BY <2>1, <3>1, <3>2, <3>3
  <2> QED
    BY <2>1, <2>2
<1>2. IInv /\ [Next]_vars => [A]_vars
  BY <1>1
<1> QED
  BY <1>2, Invariant, PTL DEF Spec, MaintenanceHolds

-----------------------------------------------------------------------------
(* A provider's row and its rows of gpu_details fit together: they come    *)
(* from one list in its order, one row for a position, and a heartbeat has *)
(* marked all it reports or none.                                          *)
Listed(row, gpus) ==
  {<<g.by, g.pos, g.gpu>> : g \in gpus} =
    {<<row.by, k, row.sent[k].model>> : k \in 1 .. Len(row.sent)}

Ordered(gpus) ==
  /\ \A g, h \in gpus : g.id < h.id <=> g.pos < h.pos
  /\ \A g, h \in gpus : g.pos = h.pos => g = h

Marked(g, gpus) ==
  /\ g.pos \in 1 .. Len(g.report)
  /\ g.healthy = g.report[g.pos]
  /\ \A k \in 1 .. Len(g.report) : \E h \in gpus : h.pos = k /\ h.report # <<>>

Whole(row, gpus) ==
  /\ Listed(row, gpus) /\ Ordered(gpus)
  /\ \A g \in gpus : g.report # <<>> => Marked(g, gpus)

(* The lists clients send are sequences, and so is the list of no provider. *)
LEMMA SentList ==
  ASSUME NEW list \in Lists \cup {<<>>}
  PROVE  list \in Seq(GPUDetail) /\ Len(list) \in Nat
<1>1. <<>> \in Seq(GPUDetail)
  OBVIOUS
<1>2. list \in Seq(GPUDetail)
  BY <1>1, RegistryAssumption
<1> QED
  BY <1>2

LEMMA NothingWhole == Whole(None, {}) /\ \A gpus : Whole(None, gpus) => gpus = {}
<1>1. Len(None.sent) = 0
  BY DEF None
<1>2. {<<None.by, k, None.sent[k].model>> : k \in 1 .. Len(None.sent)} = {}
  BY <1>1
<1> QED
  BY <1>2 DEF Whole, Listed, Ordered

(* What AddProvider and UpdateProvider insert fits the row they write.     *)
LEMMA InsertedWhole ==
  ASSUME NEW r, NEW p, NEW st, NEW list \in Lists \cup {<<>>}, NEW first \in Int
  PROVE  Whole([status |-> st, by |-> r, sent |-> list], GPURows(r, p, list, first))
<1> DEFINE row == [status |-> st, by |-> r, sent |-> list]
           gpus == GPURows(r, p, list, first)
           new(k) == [id |-> first + k - 1, provider |-> p, by |-> r, pos |-> k,
                      gpu |-> list[k].model, healthy |-> list[k].healthy,
                      report |-> <<>>]
<1>1. Len(list) \in Nat
  BY SentList
<1>2. gpus = {new(k) : k \in 1 .. Len(list)}
  BY DEF GPURows
<1>3. \A k : /\ new(k).id = first + k - 1 /\ new(k).pos = k /\ new(k).by = r
             /\ new(k).gpu = list[k].model /\ new(k).report = <<>>
  OBVIOUS
<1> HIDE DEF new, gpus
<1>4. Listed(row, gpus)
  <2>1. row.by = r /\ row.sent = list
    OBVIOUS
  <2> HIDE DEF row
  <2> QED
    BY SMTT(30), <1>2, <1>3, <2>1 DEF Listed
<1>5. Ordered(gpus)
  BY <1>1, <1>2, <1>3 DEF Ordered
<1>6. \A g \in gpus : g.report = <<>>
  BY <1>2, <1>3
<1> QED
  BY <1>4, <1>5, <1>6 DEF Whole, gpus

(* ORDER BY id LIMIT 1 OFFSET k - 1 finds the GPU at position k.           *)
LEMMA OffsetIsPosition ==
  ASSUME NEW row \in Row, NEW gpus \in SUBSET GPU, Whole(row, gpus), NEW k \in Nat
  PROVE  Offset(gpus, k) = {g \in gpus : g.pos = k}
<1>1. /\ row.sent \in Lists \cup {<<>>}
      /\ \A g \in gpus : g.pos \in Nat /\ g.id \in Int
  BY DEF Row, GPU
<1>2. Len(row.sent) \in Nat
  BY <1>1, SentList
<1>3. \A g \in gpus : g.pos \in 1 .. Len(row.sent)
  <2> SUFFICES ASSUME NEW g \in gpus PROVE g.pos \in 1 .. Len(row.sent)
    OBVIOUS
  <2>1. <<g.by, g.pos, g.gpu>> \in
          {<<row.by, j, row.sent[j].model>> : j \in 1 .. Len(row.sent)}
    BY DEF Whole, Listed
  <2> QED
    BY <2>1
<1>4. \A i \in 1 .. Len(row.sent) : \E h \in gpus : h.pos = i
  <2> SUFFICES ASSUME NEW i \in 1 .. Len(row.sent)
               PROVE  \E h \in gpus : h.pos = i
    OBVIOUS
  <2>1. <<row.by, i, row.sent[i].model>> \in {<<g.by, g.pos, g.gpu>> : g \in gpus}
    BY DEF Whole, Listed
  <2> QED
    BY <2>1
<1>5. ASSUME NEW g \in gpus
      PROVE  Cardinality({h \in gpus : h.id < g.id}) = g.pos - 1
  <2> DEFINE n == g.pos - 1
             S == {h \in gpus : h.id < g.id}
             f == [i \in 1 .. n |-> CHOOSE h \in gpus : h.pos = i]
  <2>1. n \in Nat /\ 1 .. n \subseteq 1 .. Len(row.sent)
    BY <1>1, <1>2, <1>3
  <2>2. \A i \in 1 .. n : f[i] \in gpus /\ f[i].pos = i
    BY <1>4, <2>1
  <2>3. S = {h \in gpus : h.pos < g.pos}
    BY DEF Whole, Ordered
  <2>4. \A h \in S : h.pos \in 1 .. n
    BY <1>1, <1>3, <2>3
  <2>5. \A i \in 1 .. n : f[i] \in S
    <3>1. \A i \in 1 .. n : i < g.pos
      BY <1>1
    <3> QED
      BY <2>2, <2>3, <3>1
  <2>6. f \in [1 .. n -> S] /\ \A i, j \in 1 .. n : f[i] = f[j] => i = j
    BY <2>2, <2>5
  <2>7. \A h \in S : f[h.pos] = h
    BY <2>2, <2>4 DEF Whole, Ordered
  <2>8. f \in Bijection(1 .. n, S)
    <3> HIDE DEF f, S, n
    <3> QED
      BY <2>4, <2>6, <2>7, Fun_IsBij
  <2>9. ExistsBijection(1 .. n, S)
    BY <2>8 DEF ExistsBijection
  <2> HIDE DEF n, S, f
  <2>10. Cardinality(S) = n
    BY <2>1, <2>9, FS_CountingElements
  <2> QED
    BY <2>10 DEF n, S
<1> QED
  BY <1>1, <1>5 DEF Offset

(* The GPUs a heartbeat reports, and what it makes of one.                 *)
Beaten(gpus, m) == {g \in gpus : g.pos \in 1 .. Len(m)}

Reported(g, m) == [g EXCEPT !.healthy = m[g.pos], !.report = m]

(* A heartbeat that finds all GPUs it reports leaves the list whole.       *)
LEMMA ReportedWhole ==
  ASSUME NEW row \in Row, NEW gpus \in SUBSET GPU, Whole(row, gpus),
         NEW m \in Seq(BOOLEAN), \A k \in 1 .. Len(m) : \E g \in gpus : g.pos = k
  PROVE  Whole(row, (gpus \ Beaten(gpus, m)) \cup {Reported(g, m) : g \in Beaten(gpus, m)})
<1> DEFINE new(g) == IF g \in Beaten(gpus, m) THEN Reported(g, m) ELSE g
           after == {new(g) : g \in gpus}
<1>1. (gpus \ Beaten(gpus, m)) \cup {Reported(g, m) : g \in Beaten(gpus, m)} = after
  BY DEF Beaten
<1>2. ASSUME NEW g \in gpus
      PROVE  /\ new(g).id = g.id /\ new(g).by = g.by /\ new(g).pos = g.pos
             /\ new(g).gpu = g.gpu
  BY <1>2 DEF Reported, GPU
<1>3. ASSUME NEW g \in gpus
      PROVE  IF g.pos \in 1 .. Len(m)
             THEN new(g).report = m /\ new(g).healthy = m[g.pos]
             ELSE new(g) = g
  BY <1>3 DEF Reported, Beaten, GPU
<1>4. m # <<>> <=> 1 \in 1 .. Len(m)
  OBVIOUS
<1> HIDE DEF new
<1>5. Listed(row, after)
  <2>1. {<<g.by, g.pos, g.gpu>> : g \in after} = {<<g.by, g.pos, g.gpu>> : g \in gpus}
    BY <1>2
  <2> HIDE DEF after
  <2> QED
    BY <2>1 DEF Whole, Listed
<1>6. Ordered(after)
  BY <1>2 DEF Whole, Ordered
<1>7. ASSUME NEW h \in after, h.report # <<>>
      PROVE  Marked(h, after)
  <2>1. PICK g \in gpus : h = new(g)
    OBVIOUS
  <2>2. \A k \in 1 .. Len(m) : \E f \in after : f.pos = k /\ f.report # <<>>
    <3> SUFFICES ASSUME NEW k \in 1 .. Len(m)
                 PROVE  \E f \in after : f.pos = k /\ f.report # <<>>
      OBVIOUS
    <3>1. PICK f \in gpus : f.pos = k
      OBVIOUS
    <3>2. new(f).pos = k /\ new(f).report = m /\ m # <<>>
      BY <1>2, <1>3, <3>1
    <3> QED
      BY <3>2
  <2>3. CASE g.pos \in 1 .. Len(m)
    <3>1. h.pos = g.pos /\ h.report = m /\ h.healthy = m[g.pos]
      BY <1>2, <1>3, <2>1, <2>3
    <3> QED
      BY <2>2, <2>3, <3>1 DEF Marked
  <2>4. CASE g.pos \notin 1 .. Len(m)
    <3>1. h = g /\ Marked(g, gpus)
      BY <1>3, <1>7, <2>1, <2>4 DEF Whole
    <3>2. ASSUME NEW k \in 1 .. Len(h.report)
          PROVE  \E f \in after : f.pos = k /\ f.report # <<>>
      <4>1. PICK f \in gpus : f.pos = k /\ f.report # <<>>
        BY <3>1, <3>2 DEF Marked
      <4>2. CASE f.pos \in 1 .. Len(m)
        BY <2>2, <4>1, <4>2
      <4>3. CASE f.pos \notin 1 .. Len(m)
        BY <1>3, <4>1, <4>3
      <4> QED
        BY <4>2, <4>3
    <3> QED
      BY <3>1, <3>2 DEF Marked
  <2> QED
    BY <2>3, <2>4
<1> QED
  BY <1>1, <1>5, <1>6, <1>7 DEF Whole

(* The parts of a row that say which GPUs belong to it.                    *)
LEMMA SameList ==
  ASSUME NEW old, NEW new, new.by = old.by, new.sent = old.sent, NEW gpus,
         Whole(old, gpus)
  PROVE  Whole(new, gpus)
BY DEF Whole, Listed

(* A provider's rows fit together, and an id without a provider has none.  *)
Fit(p) ==
  /\ Whole(providers[p], GPUsOf(p))
  /\ ~Exists(p) => providers[p] = None

(* What a request will install fits together.  Nobody changes the GPUs of  *)
(* the provider in between, because the request holds the lock of its row. *)
Written(r) ==
  /\ InTx(r) =>
       /\ tx[r].row.status # "none"
       /\ arg[r].op \in {"register", "update"} =>
            tx[r].row.by = r /\ tx[r].row.sent = arg[r].gpus
  /\ pc[r] = "commit" =>
       /\ tx[r].deleted \subseteq GPUsOf(arg[r].id)
       /\ \A g \in tx[r].inserted : g.provider = arg[r].id
       /\ Whole(tx[r].row,
                (GPUsOf(arg[r].id) \ tx[r].deleted) \cup tx[r].inserted)

(* A provider's row was written by a request that is over or still works   *)
(* on this provider.                                                       *)
ByWhom ==
  \A p \in Ids : Exists(p) =>
    \/ providers[p].by = 0 /\ p = 0
    \/ /\ providers[p].by \in Requests
       /\ \/ pc[providers[p].by] = "done"
          \/ pc[providers[p].by] \in Waiting /\ arg[providers[p].by].id = p

RowsInv ==
  /\ \A p \in Ids : Fit(p)
  /\ \A r \in Requests : Written(r)
  /\ ByWhom /\ RegisteredOnce

LEMMA InitRows == Init => RowsInv
<1> SUFFICES ASSUME Init PROVE RowsInv
  OBVIOUS
<1>1. PICK list \in Lists \ {<<>>}, st \in Statuses :
        /\ providers = [p \in Ids |->
             IF p = 0 THEN [status |-> st, by |-> 0, sent |-> list] ELSE None]
        /\ gpu_details = GPURows(0, 0, list, 1)
  BY DEF Init
<1>2. st # "none" /\ None.status = "none"
  BY RegistryAssumption DEF None
<1>3. \A g \in gpu_details : g.provider = 0
  BY <1>1 DEF GPURows
<1>4. ASSUME NEW p \in Ids
      PROVE  Fit(p)
  <2>1. CASE p = 0
    <3>1. GPUsOf(p) = gpu_details
      BY <1>3, <2>1 DEF GPUsOf
    <3> QED
      BY <1>1, <1>2, <2>1, <3>1, InsertedWhole DEF Fit, Exists
  <2>2. CASE p # 0
    <3>1. GPUsOf(p) = {} /\ providers[p] = None
      BY <1>1, <1>3, <2>2 DEF GPUsOf
    <3> QED
      BY <3>1, NothingWhole DEF Fit
  <2> QED
    BY <2>1, <2>2
<1>5. \A r \in Requests : Written(r)
  BY DEF Init, Written, InTx
<1>6. \A p \in Ids : Exists(p) => p = 0 /\ providers[p].by = 0
  BY <1>1, <1>2 DEF Exists
<1> QED
  BY <1>4, <1>5, <1>6 DEF RowsInv, ByWhom, RegisteredOnce

(* What another request has written still fits when this one has changed   *)
(* no GPUs of a provider somebody else has locked.                         *)
LEMMA OthersKept ==
  ASSUME IInv, RowsInv, NEW r \in Requests, NEW q \in Requests, q # r,
         pc'[q] = pc[q], arg'[q] = arg[q], tx'[q] = tx[q],
         \A p \in Ids : lock[p] \notin {0, r} => GPUsOf(p)' = GPUsOf(p)
  PROVE  Written(q)'
<1>1. Written(q) /\ (InTx(q)' <=> InTx(q))
  BY DEF RowsInv, InTx
<1>2. InTx(q) => GPUsOf(arg[q].id)' = GPUsOf(arg[q].id)
  <2>1. InTx(q) => lock[arg[q].id] = q /\ arg[q].id \in Ids /\ q # 0
    BY DEF IInv, Held, Shape, Args
  <2> QED
    BY <2>1
<1>3. pc[q] = "commit" => InTx(q)
  BY DEF InTx
<1> QED
  BY <1>1, <1>2, <1>3 DEF Written

(* An attempt ends, with or without a change of the tables.                *)
LEMMA EndRows ==
  ASSUME IInv, RowsInv, NEW r \in Requests, pc[r] \in Waiting, Ends(r),
         \A p \in Ids : Fit(p)',
         \A p \in Ids : lock[p] \notin {0, r} => GPUsOf(p)' = GPUsOf(p),
         \A p \in Ids : Exists(p)' =>
           \/ Exists(p) /\ providers'[p].by = providers[p].by
           \/ p = arg[r].id /\ providers'[p].by = r
  PROVE  RowsInv'
<1>1. PICK next \in {"done", "row"} : Close(r, next)
  BY DEF Ends, Answer, Again
<1>2. /\ pc' = [pc EXCEPT ![r] = next] /\ tx' = [tx EXCEPT ![r] = NoTx]
      /\ pc \in [Requests -> {"idle", "done"} \cup Waiting]
      /\ arg \in [Requests -> Args]
      /\ tx \in [Requests -> [row : Row, deleted : SUBSET GPU,
                              inserted : SUBSET GPU]]
  BY <1>1 DEF Close, Goto, IInv, TypeOK, Shape
<1>3. /\ arg' = arg \/ arg' = [arg EXCEPT ![r] = NoArg]
      /\ pc'[r] = "done" \/ (pc'[r] = "row" /\ arg' = arg)
  BY <1>1, <1>2 DEF Ends, Answer, Again, Close, Goto
<1>4. \A q \in Requests : q # r => /\ pc'[q] = pc[q] /\ arg'[q] = arg[q]
                                   /\ tx'[q] = tx[q]
  BY <1>2, <1>3
<1>5. ASSUME NEW q \in Requests
      PROVE  Written(q)'
  <2>1. CASE q = r
    BY <1>3, <2>1 DEF Written, InTx
  <2>2. CASE q # r
    BY <1>4, <2>2, OthersKept
  <2> QED
    BY <2>1, <2>2
<1>6. "row" \in Waiting /\ r # 0 /\ "done" \notin Waiting
  BY DEF Waiting
<1>7. ByWhom'
  <2> SUFFICES ASSUME NEW p \in Ids, Exists(p)'
               PROVE  \/ providers'[p].by = 0 /\ p = 0
                      \/ /\ providers'[p].by \in Requests
                         /\ \/ pc'[providers'[p].by] = "done"
                            \/ /\ pc'[providers'[p].by] \in Waiting
                               /\ arg'[providers'[p].by].id = p
    BY DEF ByWhom
  <2>1. \/ providers'[p].by = 0 /\ p = 0
        \/ /\ providers'[p].by \in Requests
           /\ \/ pc[providers'[p].by] = "done"
              \/ /\ pc[providers'[p].by] \in Waiting
                 /\ arg[providers'[p].by].id = p
    BY DEF RowsInv, ByWhom
  <2>2. CASE providers'[p].by = r
    BY <1>3, <1>6, <2>1, <2>2
  <2>3. CASE providers'[p].by # r
    BY <1>4, <2>1, <2>3
  <2> QED
    BY <2>2, <2>3
<1>8. RegisteredOnce'
  <2>1. ASSUME NEW p \in Ids, Exists(p), providers[p].by = r
        PROVE  arg[r].id = p
    BY <1>6, <2>1 DEF RowsInv, ByWhom
  <2>2. \A p, q \in Ids :
          Exists(p) /\ Exists(q) /\ providers[p].by = providers[q].by => p = q
    BY DEF RowsInv, RegisteredOnce
  <2>3. ASSUME NEW p \in Ids, NEW q \in Ids, Exists(p)', Exists(q)',
               providers'[p].by = providers'[q].by
        PROVE  p = q
    <3>1. CASE p = arg[r].id /\ providers'[p].by = r
      BY <2>1, <2>3, <3>1
    <3>2. CASE q = arg[r].id /\ providers'[q].by = r
      BY <2>1, <2>3, <3>2
    <3>3. CASE /\ Exists(p) /\ providers'[p].by = providers[p].by
               /\ Exists(q) /\ providers'[q].by = providers[q].by
      BY <2>2, <2>3, <3>3
    <3> QED
      BY <2>3, <3>1, <3>2, <3>3
  <2> QED
    BY <2>3 DEF RegisteredOnce
<1> QED
  BY <1>5, <1>7, <1>8 DEF RowsInv

LEMMA RollbackRows ==
  ASSUME IInv, RowsInv, NEW r \in Requests, pc[r] \in Waiting, Ends(r),
         UNCHANGED tables
  PROVE  RowsInv'
<1>1. providers' = providers /\ gpu_details' = gpu_details
  BY DEF tables
<1>2. ASSUME NEW p \in Ids
      PROVE  GPUsOf(p)' = GPUsOf(p) /\ (Exists(p)' <=> Exists(p)) /\ Fit(p)'
  BY <1>1 DEF GPUsOf, Exists, Fit, RowsInv
<1> QED
  BY <1>1, <1>2, EndRows

(* COMMIT: the provider's row and its GPUs become what was written.        *)
LEMMA CommitRows ==
  ASSUME IInv, RowsInv, NEW r \in Requests, pc[r] = "commit", Install(r), Ends(r)
  PROVE  RowsInv'
<1>1. PICK p \in Ids : p = arg[r].id
  BY DEF IInv, Shape, Args
<1>2. /\ lock[p] = r /\ InTx(r) /\ tx[r].row \in Row
      /\ providers \in [Ids -> Row] /\ gpu_details \subseteq GPU
      /\ arg[r].op \in {"register", "update", "heartbeat"}
  BY <1>1 DEF IInv, Shape, Held, InTx, TypeOK, Row, Older
<1>3. /\ tx[r].row.status # "none"
      /\ arg[r].op \in {"register", "update"} => tx[r].row.by = r
      /\ tx[r].deleted \subseteq GPUsOf(p)
      /\ \A g \in tx[r].inserted : g.provider = p
      /\ Whole(tx[r].row, (GPUsOf(p) \ tx[r].deleted) \cup tx[r].inserted)
  BY <1>1, <1>2 DEF RowsInv, Written
<1>4. /\ providers' = [providers EXCEPT ![p] = tx[r].row]
      /\ gpu_details' = (gpu_details \ tx[r].deleted) \cup tx[r].inserted
  BY <1>1 DEF Install
<1>5. GPUsOf(p)' = (GPUsOf(p) \ tx[r].deleted) \cup tx[r].inserted
  BY <1>3, <1>4 DEF GPUsOf
<1>6. \A s \in Ids : s # p => GPUsOf(s)' = GPUsOf(s) /\ providers'[s] = providers[s]
  BY <1>2, <1>3, <1>4 DEF GPUsOf
<1>7. providers'[p] = tx[r].row
  BY <1>2, <1>4
<1>8. ASSUME NEW s \in Ids
      PROVE  Fit(s)'
  BY <1>3, <1>5, <1>6, <1>7 DEF RowsInv, Fit, Exists
<1>9. arg[r].op = "heartbeat" =>
        Exists(p) /\ providers'[p].by = providers[p].by
  <2> SUFFICES ASSUME arg[r].op = "heartbeat"
               PROVE  Exists(p) /\ providers'[p].by = providers[p].by
    OBVIOUS
  <2>1. tx[r].row = Beat(providers[p])
    BY <1>1, <1>2 DEF IInv, Pending
  <2>2. providers[p] \in Row
    BY <1>2
  <2>3. Beat(providers[p]).by = providers[p].by
    BY <2>2 DEF Beat, Row
  <2>4. Beat(providers[p]).status # "none" => providers[p].status # "none"
    BY <2>2 DEF Beat, Row
  <2> QED
    BY <1>3, <1>7, <2>1, <2>3, <2>4 DEF Exists
<1>10. \A s \in Ids : Exists(s)' =>
         \/ Exists(s) /\ providers'[s].by = providers[s].by
         \/ s = arg[r].id /\ providers'[s].by = r
  <2> SUFFICES ASSUME NEW s \in Ids, Exists(s)'
               PROVE  \/ Exists(s) /\ providers'[s].by = providers[s].by
                      \/ s = arg[r].id /\ providers'[s].by = r
    OBVIOUS
  <2>1. CASE s # p
    BY <1>6, <2>1 DEF Exists
  <2>2. CASE s = p
    BY <1>1, <1>2, <1>3, <1>7, <1>9, <2>2
  <2> QED
    BY <2>1, <2>2
<1>11. \A s \in Ids : lock[s] \notin {0, r} => GPUsOf(s)' = GPUsOf(s)
  BY <1>2, <1>6
<1>12. pc[r] \in Waiting
  BY DEF Waiting
<1> QED
  BY <1>8, <1>10, <1>11, <1>12, EndRows

(* The first statement of a transaction.                                   *)
LEMMA LockRows ==
  ASSUME IInv, RowsInv, NEW r \in Requests, pc[r] = "row",
         NEW row \in Row, LockRow(r, arg[r].id, row), Goto(r, "gpus"),
         row.status # "none",
         arg[r].op \in {"register", "update"} =>
           row.by = r /\ row.sent = arg[r].gpus,
         UNCHANGED <<tables, nextGPU, nextId, arg, attempt>>
  PROVE  RowsInv'
<1>1. /\ pc \in [Requests -> {"idle", "done"} \cup Waiting]
      /\ tx \in [Requests -> [row : Row, deleted : SUBSET GPU,
                              inserted : SUBSET GPU]]
  BY DEF IInv, TypeOK, Shape
<1>2. /\ providers' = providers /\ gpu_details' = gpu_details /\ arg' = arg
      /\ pc' = [pc EXCEPT ![r] = "gpus"]
      /\ tx' = [tx EXCEPT ![r] = [tx[r] EXCEPT !.row = row]]
  BY DEF LockRow, Goto, tables
<1>3. \A p \in Ids : /\ GPUsOf(p)' = GPUsOf(p) /\ (Exists(p)' <=> Exists(p))
                     /\ Fit(p)'
  BY <1>2 DEF GPUsOf, Exists, Fit, RowsInv
<1>4. ASSUME NEW q \in Requests
      PROVE  Written(q)'
  <2>1. CASE q = r
    BY <1>1, <1>2, <2>1 DEF Written
  <2>2. CASE q # r
    BY <1>1, <1>2, <1>3, <2>2, OthersKept
  <2> QED
    BY <2>1, <2>2
<1>5. ByWhom'
  BY <1>1, <1>2 DEF RowsInv, ByWhom, Exists, Waiting
<1>6. RegisteredOnce'
  BY <1>2, <1>3 DEF RowsInv, RegisteredOnce
<1> QED
  BY <1>3, <1>4, <1>5, <1>6 DEF RowsInv

(* The loops over GPUs write what COMMIT will install.                     *)
LEMMA WriteRows ==
  ASSUME IInv, RowsInv, NEW r \in Requests, pc[r] = "gpus", Goto(r, "commit"),
         NEW p \in Ids, p = arg[r].id, NEW del, NEW ins,
         tx' = [tx EXCEPT ![r].deleted = del, ![r].inserted = ins],
         del \subseteq GPUsOf(p), \A g \in ins : g.provider = p,
         Whole(tx[r].row, (GPUsOf(p) \ del) \cup ins),
         UNCHANGED <<tables, nextId, arg, lock, attempt>>
  PROVE  RowsInv'
<1>1. /\ pc \in [Requests -> {"idle", "done"} \cup Waiting]
      /\ tx \in [Requests -> [row : Row, deleted : SUBSET GPU,
                              inserted : SUBSET GPU]]
  BY DEF IInv, TypeOK, Shape
<1>2. /\ providers' = providers /\ gpu_details' = gpu_details /\ arg' = arg
      /\ pc' = [pc EXCEPT ![r] = "commit"]
  BY DEF Goto, tables
<1>3. \A s \in Ids : /\ GPUsOf(s)' = GPUsOf(s) /\ (Exists(s)' <=> Exists(s))
                     /\ Fit(s)'
  BY <1>2 DEF GPUsOf, Exists, Fit, RowsInv
<1>4. /\ tx'[r].row = tx[r].row /\ tx'[r].deleted = del /\ tx'[r].inserted = ins
      /\ \A q \in Requests : q # r => tx'[q] = tx[q]
  BY <1>1
<1>5. ASSUME NEW q \in Requests
      PROVE  Written(q)'
  <2>1. CASE q = r
    <3>1. Written(r) /\ InTx(r)
      BY DEF RowsInv, InTx
    <3>2. GPUsOf(arg[r].id)' = GPUsOf(p)
      BY <1>2 DEF GPUsOf
    <3> QED
      BY <1>2, <1>4, <2>1, <3>1, <3>2 DEF Written
  <2>2. CASE q # r
    BY <1>1, <1>2, <1>3, <1>4, <2>2, OthersKept
  <2> QED
    BY <2>1, <2>2
<1>6. ByWhom'
  BY <1>1, <1>2 DEF RowsInv, ByWhom, Exists, Waiting
<1>7. RegisteredOnce'
  BY <1>2, <1>3 DEF RowsInv, RegisteredOnce
<1> QED
  BY <1>3, <1>5, <1>6, <1>7 DEF RowsInv

LEMMA ArriveRows ==
  ASSUME IInv, RowsInv, NEW r \in Requests, Arrive(r)
  PROVE  RowsInv'
<1>1. \E a : Receive(r, a)
  BY Zenon DEF Arrive
<1>2. /\ pc \in [Requests -> {"idle", "done"} \cup Waiting]
      /\ arg \in [Requests -> Args]
  BY DEF IInv, TypeOK, Shape
<1>3. /\ providers' = providers /\ gpu_details' = gpu_details /\ tx' = tx
      /\ pc[r] = "idle" /\ pc' = [pc EXCEPT ![r] = "row"]
      /\ \A q \in Requests : q # r => arg'[q] = arg[q]
  BY <1>1, <1>2 DEF Receive, tables
<1>4. \A p \in Ids : /\ GPUsOf(p)' = GPUsOf(p) /\ (Exists(p)' <=> Exists(p))
                     /\ Fit(p)'
  BY <1>3 DEF GPUsOf, Exists, Fit, RowsInv
<1>5. ASSUME NEW q \in Requests
      PROVE  Written(q)'
  <2>1. CASE q = r
    BY <1>2, <1>3, <2>1 DEF Written, InTx
  <2>2. CASE q # r
    BY <1>2, <1>3, <1>4, <2>2, OthersKept
  <2> QED
    BY <2>1, <2>2
<1>6. ByWhom'
  BY <1>2, <1>3 DEF RowsInv, ByWhom, Exists, Waiting
<1>7. RegisteredOnce'
  BY <1>3, <1>4 DEF RowsInv, RegisteredOnce
<1> QED
  BY <1>4, <1>5, <1>6, <1>7 DEF RowsInv

LEMMA CrashRows ==
  ASSUME IInv, RowsInv, Crash
  PROVE  RowsInv'
<1>1. /\ pc' = [r \in Requests |-> IF pc[r] \in Waiting THEN "done" ELSE pc[r]]
      /\ providers' = providers /\ gpu_details' = gpu_details
      /\ pc \in [Requests -> {"idle", "done"} \cup Waiting]
  BY DEF Crash, tables, IInv, TypeOK
<1>2. \A p \in Ids : (Exists(p)' <=> Exists(p)) /\ Fit(p)'
  BY <1>1 DEF GPUsOf, Exists, Fit, RowsInv
<1>3. \A q \in Requests : Written(q)'
  BY <1>1 DEF Written, InTx, Waiting
<1>4. ByWhom'
  BY <1>1 DEF RowsInv, ByWhom, Exists, Waiting
<1>5. RegisteredOnce'
  BY <1>1, <1>2 DEF RowsInv, RegisteredOnce
<1> QED
  BY <1>2, <1>3, <1>4, <1>5 DEF RowsInv

(* What the loop over the GPUs of a heartbeat writes.                      *)
Reports(gpus, m, del, ins) ==
  /\ \A k \in 1 .. Len(m) : Offset(gpus, k) # {}
  /\ \A g : g \in del <=> \E k \in 1 .. Len(m) : g \in Offset(gpus, k)
  /\ \A h : h \in ins <=>
              \E k \in 1 .. Len(m) : \E g \in Offset(gpus, k) :
                h = [g EXCEPT !.healthy = m[k], !.report = m]

LEMMA HeartbeatWrites ==
  ASSUME NEW row \in Row, NEW gpus \in SUBSET GPU, Whole(row, gpus),
         NEW m \in Seq(BOOLEAN), NEW del, NEW ins, Reports(gpus, m, del, ins)
  PROVE  /\ del \subseteq gpus
         /\ Whole(row, (gpus \ del) \cup ins)
         /\ \A p : (\A g \in gpus : g.provider = p) => \A h \in ins : h.provider = p
<1>1. \A k \in 1 .. Len(m) : k \in Nat
  OBVIOUS
<1>2. \A k \in 1 .. Len(m) : Offset(gpus, k) = {g \in gpus : g.pos = k}
  BY <1>1, OffsetIsPosition
<1>3. \A k \in 1 .. Len(m) : \E g \in gpus : g.pos = k
  BY <1>2 DEF Reports
<1>4. del = Beaten(gpus, m)
  <2>1. \A g : g \in del <=> \E k \in 1 .. Len(m) : g \in Offset(gpus, k)
    BY DEF Reports
  <2>2. \A g : g \in Beaten(gpus, m) <=> \E k \in 1 .. Len(m) : g \in Offset(gpus, k)
    BY <1>2 DEF Beaten
  <2> QED
    BY <2>1, <2>2
<1>5. ins = {Reported(g, m) : g \in Beaten(gpus, m)}
  <2>1. ASSUME NEW h \in ins
        PROVE  h \in {Reported(g, m) : g \in Beaten(gpus, m)}
    <3>0. PICK k \in 1 .. Len(m) : \E g \in Offset(gpus, k) :
            h = [g EXCEPT !.healthy = m[k], !.report = m]
      BY <2>1 DEF Reports
    <3>1. PICK g \in Offset(gpus, k) : h = [g EXCEPT !.healthy = m[k], !.report = m]
      BY <3>0
    <3>2. g \in Beaten(gpus, m) /\ g.pos = k
      BY <1>2 DEF Beaten
    <3>3. h = Reported(g, m)
      BY <3>1, <3>2 DEF Reported
    <3> QED
      BY <3>2, <3>3
  <2>2. ASSUME NEW g \in Beaten(gpus, m)
        PROVE  Reported(g, m) \in ins
    <3>1. g.pos \in 1 .. Len(m) /\ g \in Offset(gpus, g.pos)
      BY <1>2 DEF Beaten
    <3>2. Reported(g, m) = [g EXCEPT !.healthy = m[g.pos], !.report = m]
      BY DEF Reported
    <3> QED
      BY <3>1, <3>2 DEF Reports
  <2>3. ASSUME NEW h \in {Reported(g, m) : g \in Beaten(gpus, m)}
        PROVE  h \in ins
    <3>1. PICK g \in Beaten(gpus, m) : h = Reported(g, m)
      BY <2>3
    <3> QED
      BY <2>2, <3>1
  <2> QED
    BY <2>1, <2>3
<1>6. \A g \in Beaten(gpus, m) : g \in gpus /\ Reported(g, m).provider = g.provider
  BY DEF Beaten, Reported, GPU
<1>7. Whole(row, (gpus \ del) \cup ins)
  BY <1>3, <1>4, <1>5, ReportedWhole
<1> QED
  BY <1>4, <1>5, <1>6, <1>7 DEF Beaten

LEMMA HeartbeatRows ==
  ASSUME IInv, RowsInv, NEW r \in Requests, HeartbeatGPUs(r)
  PROVE  RowsInv'
<1> DEFINE m    == arg[r].metrics
           gpus == GPUsOf(arg[r].id)
           kth  == [k \in 1 .. Len(m) |-> Offset(gpus, k)]
           del  == UNION {kth[k] : k \in 1 .. Len(m)}
           new(k, g) == [g EXCEPT !.healthy = m[k], !.report = m]
           part(k) == {new(k, g) : g \in kth[k]}
           ins  == UNION {part(k) : k \in 1 .. Len(m)}
           writes == /\ ~\E k \in 1 .. Len(m) : kth[k] = {}
                     /\ tx' = [tx EXCEPT ![r].deleted = del, ![r].inserted = ins]
                     /\ Goto(r, "commit")
                     /\ UNCHANGED <<tables, nextGPU, nextId, arg, lock, attempt>>
<1>1. PICK p \in Ids : p = arg[r].id
  BY DEF IInv, Shape, Args
<1>2. pc[r] = "gpus" /\ arg[r].op = "heartbeat"
  BY DEF HeartbeatGPUs, At
<1>3. CASE Rollback(r)
  BY <1>2, <1>3, RollbackRows DEF Rollback, Ends, Waiting
<1>4. CASE writes
  <2>1. \A k \in 1 .. Len(m) : kth[k] = Offset(gpus, k) /\ kth[k] # {}
    BY <1>4
  <2>2. Reports(gpus, m, del, ins)
    <3>1. \A g : g \in del <=> \E k \in 1 .. Len(m) : g \in kth[k]
      <4> HIDE DEF kth, m
      <4> QED
        BY Zenon
    <3>2. \A h : h \in ins <=> \E k \in 1 .. Len(m) : h \in part(k)
      <4> HIDE DEF part, m
      <4> QED
        BY Zenon
    <3>3. \A k, h : h \in part(k) <=> \E g \in kth[k] : h = new(k, g)
      <4> HIDE DEF new, kth
      <4> QED
        BY Zenon
    <3> HIDE DEF new, part, del, ins, kth, gpus
    <3>4. \A h : h \in ins <=>
            \E k \in 1 .. Len(m) : \E g \in Offset(gpus, k) : h = new(k, g)
      BY <2>1, <3>2, <3>3
    <3>5. \A g : g \in del <=> \E k \in 1 .. Len(m) : g \in Offset(gpus, k)
      BY <2>1, <3>1
    <3>6. \A k \in 1 .. Len(m) : Offset(gpus, k) # {}
      BY <2>1
    <3> QED
      BY <3>4, <3>5, <3>6, Zenon DEF Reports, new
  <2>3. /\ tx' = [tx EXCEPT ![r].deleted = del, ![r].inserted = ins]
        /\ Goto(r, "commit")
        /\ UNCHANGED <<tables, nextId, arg, lock, attempt>>
    BY <1>4
  <2>4. /\ providers[p] \in Row /\ gpus \in SUBSET GPU /\ gpus = GPUsOf(p)
        /\ Whole(providers[p], gpus) /\ m \in Seq(BOOLEAN)
    BY <1>1 DEF GPUsOf, RowsInv, Fit, IInv, Shape, TypeOK, Row, Older, Args
  <2> HIDE DEF del, ins, kth, gpus, m, writes
  <2>5. /\ del \subseteq gpus
        /\ Whole(providers[p], (gpus \ del) \cup ins)
        /\ \A h \in ins : h.provider = p
    <3>1. \A g \in gpus : g.provider = p
      BY <2>4 DEF GPUsOf
    <3>2. /\ del \subseteq gpus
          /\ Whole(providers[p], (gpus \ del) \cup ins)
          /\ \A q : (\A g \in gpus : g.provider = q) => \A h \in ins : h.provider = q
      BY <2>2, <2>4, HeartbeatWrites, ZenonT(30)
    <3> QED
      BY <3>1, <3>2, Zenon
  <2>6. tx[r].row.by = providers[p].by /\ tx[r].row.sent = providers[p].sent
    <3>1. tx[r].row = Beat(providers[p])
      BY <1>1, <1>2 DEF IInv, Pending, InTx
    <3> QED
      BY <2>4, <3>1 DEF Beat, Row
  <2>7. Whole(tx[r].row, (gpus \ del) \cup ins)
    BY <2>5, <2>6, SameList
  <2> QED
    BY <1>1, <1>2, <2>3, <2>4, <2>5, <2>7, WriteRows
<1> QED
  BY <1>3, <1>4 DEF HeartbeatGPUs

LEMMA StatementRows ==
  ASSUME IInv, RowsInv, NEW r \in Requests, Statement(r)
  PROVE  RowsInv'
<1>1. PICK p \in Ids : p = arg[r].id
  BY DEF IInv, Shape, Args
<1>2. /\ providers \in [Ids -> Row] /\ arg[r] \in Args
      /\ gpu_details \subseteq GPU /\ nextGPU \in Int
  BY DEF IInv, Shape, TypeOK, Row, Older
<1>3. /\ arg[r].gpus \in Lists \cup {<<>>} /\ arg[r].metrics \in Seq(BOOLEAN)
      /\ arg[r].status \in Statuses \cup ProviderStatus /\ arg[r].status # "none"
  BY <1>2, RegistryAssumption DEF Args, ProviderStatus
<1>4. Fit(p) /\ Written(r)
  BY DEF RowsInv
<1>5. ASSUME Rollback(r), pc[r] \in Waiting
      PROVE  RowsInv'
  BY <1>5, RollbackRows DEF Rollback, Ends
<1>6. "row" \in Waiting /\ "gpus" \in Waiting
  BY DEF Waiting
<1>7. CASE InsertProvider(r)
  <2>1. [status |-> "idle", by |-> r, sent |-> arg[r].gpus] \in Row
    BY <1>3, Constants DEF Row, ProviderStatus
  <2> QED
    BY <1>5, <1>6, <1>7, <2>1, LockRows DEF InsertProvider, At
<1>8. CASE UpdateRow(r)
  <2>1. [status |-> arg[r].status, by |-> r, sent |-> arg[r].gpus] \in Row
    BY <1>3, Constants DEF Row
  <2> QED
    BY <1>3, <1>5, <1>6, <1>8, <2>1, LockRows DEF UpdateRow, At, RowGone
<1>9. CASE HeartbeatRow(r)
  <2>1. Beat(providers[p]) \in Row
    BY <1>2 DEF Row, Beat, ProviderStatus
  <2>2. Exists(p) => Beat(providers[p]).status # "none"
    BY <1>2 DEF Row, Beat, Exists
  <2> QED
    BY <1>1, <1>5, <1>6, <1>9, <2>1, <2>2, LockRows
       DEF HeartbeatRow, At, RowGone
<1>10. CASE InsertGPUs(r)
  <2> DEFINE ins == GPURows(r, p, arg[r].gpus, nextGPU)
             row == tx[r].row
  <2>1. /\ pc[r] = "gpus" /\ arg[r].op \in {"register", "update"}
        /\ Goto(r, "commit")
        /\ tx' = [tx EXCEPT ![r].deleted = DeleteGPUs(r), ![r].inserted = ins]
        /\ UNCHANGED <<tables, nextId, arg, lock, attempt>>
    BY <1>1, <1>10 DEF InsertGPUs
  <2>2. GPUsOf(p) \ DeleteGPUs(r) = {}
    <3>1. CASE arg[r].op = "update"
      BY <1>1, <3>1 DEF DeleteGPUs
    <3>2. CASE arg[r].op = "register"
      <4>1. ~Exists(p)
        BY <1>1, <2>1, <3>2 DEF IInv, Pending, InTx
      <4> QED
        BY <1>4, <4>1, NothingWhole DEF Fit
    <3> QED
      BY <2>1, <3>1, <3>2
  <2>3. /\ row.by = r /\ row.sent = arg[r].gpus
    BY <1>4, <2>1 DEF Written, InTx
  <2>4. Whole(row, ins)
    <3>1. Whole([status |-> "idle", by |-> r, sent |-> arg[r].gpus], ins)
      BY <1>2, <1>3, InsertedWhole
    <3> HIDE DEF row, ins
    <3> QED
      BY <2>3, <3>1, SameList
  <2>5. \A g \in ins : g.provider = p
    BY DEF GPURows
  <2>6. DeleteGPUs(r) \subseteq GPUsOf(p)
    BY <1>1 DEF DeleteGPUs
  <2>7. (GPUsOf(p) \ DeleteGPUs(r)) \cup ins = ins
    BY <2>2
  <2> HIDE DEF ins
  <2> QED
    BY <1>1, <2>1, <2>4, <2>5, <2>6, <2>7, WriteRows
<1>11. CASE HeartbeatGPUs(r)
  BY <1>11, HeartbeatRows
<1>12. CASE Commit(r)
  BY <1>12, CommitRows DEF Commit, Ends
<1>13. CASE SetStatus(r)
  <2>1. pc[r] \in Waiting
    BY <1>6, <1>13 DEF SetStatus, At
  <2>2. CASE Rollback(r)
    BY <1>5, <2>1, <2>2
  <2>3. CASE /\ Exists(p) /\ lock[p] = 0 /\ Answer(r)
             /\ providers' = [providers EXCEPT ![p].status = arg[r].status]
             /\ UNCHANGED <<gpu_details, nextGPU>>
    <3>1. \A s \in Ids : GPUsOf(s)' = GPUsOf(s)
      BY <2>3 DEF GPUsOf
    <3>2. \A s \in Ids : /\ Exists(s)' => Exists(s)
                         /\ providers'[s].by = providers[s].by
                         /\ providers'[s].sent = providers[s].sent
      BY <1>2, <2>3 DEF Exists, Row
    <3>3. ASSUME NEW s \in Ids
          PROVE  Fit(s)'
      <4>1. Fit(s)
        BY DEF RowsInv
      <4>2. Whole(providers'[s], GPUsOf(s))
        BY <3>2, <4>1, SameList DEF Fit
      <4>3. ~Exists(s)' => providers'[s] = None
        <5>1. CASE s = p
          <6>1. providers'[s].status = arg[r].status
            BY <1>2, <2>3, <5>1 DEF Row
          <6> QED
            BY <1>3, <6>1 DEF Exists
        <5>2. CASE s # p
          BY <1>2, <2>3, <4>1, <5>2 DEF Fit, Exists
        <5> QED
          BY <5>1, <5>2
      <4> QED
        BY <3>1, <4>2, <4>3 DEF Fit
    <3> QED
      BY <2>1, <2>3, <3>1, <3>2, <3>3, EndRows DEF Ends
  <2> QED
    BY <1>1, <1>13, <2>2, <2>3 DEF SetStatus, RowGone
<1>14. CASE DeleteProvider(r)
  <2>1. pc[r] \in Waiting
    BY <1>6, <1>14 DEF DeleteProvider, At
  <2>2. CASE Rollback(r)
    BY <1>5, <2>1, <2>2
  <2>3. CASE /\ lock[p] = 0 /\ Answer(r)
             /\ providers' = [providers EXCEPT ![p] = None]
             /\ gpu_details' = gpu_details \ GPUsOf(p)
    <3>1. GPUsOf(p)' = {} /\ providers'[p] = None
      BY <1>2, <2>3 DEF GPUsOf
    <3>2. \A s \in Ids : s # p => /\ GPUsOf(s)' = GPUsOf(s)
                                  /\ providers'[s] = providers[s]
      BY <1>2, <2>3 DEF GPUsOf
    <3>3. \A s \in Ids : Fit(s)'
      BY <3>1, <3>2, NothingWhole DEF RowsInv, Fit, Exists
    <3>4. \A s \in Ids : lock[s] \notin {0, r} => GPUsOf(s)' = GPUsOf(s)
      BY <2>3, <3>2
    <3>5. \A s \in Ids : Exists(s)' =>
            Exists(s) /\ providers'[s].by = providers[s].by
      BY <3>1, <3>2 DEF Exists, None
    <3> QED
      BY <2>1, <2>3, <3>3, <3>4, <3>5, EndRows DEF Ends
  <2> QED
    BY <1>1, <1>14, <2>2, <2>3 DEF DeleteProvider, RowGone
<1> QED
  BY <1>7, <1>8, <1>9, <1>10, <1>11, <1>12, <1>13, <1>14 DEF Statement

LEMMA FaultRows ==
  ASSUME IInv, RowsInv, NEW r \in Requests, Fail(r) \/ LostCommit(r)
  PROVE  RowsInv'
<1>1. Ends(r)
  BY DEF Fail, LostCommit, Ends
<1>2. CASE Fail(r)
  BY <1>1, <1>2, RollbackRows DEF Fail
<1>3. CASE LostCommit(r)
  BY <1>1, <1>3, CommitRows DEF LostCommit
<1> QED
  BY <1>2, <1>3

LEMMA NextRows == IInv /\ RowsInv /\ [Next]_vars => RowsInv'
<1> SUFFICES ASSUME IInv, RowsInv, [Next]_vars PROVE RowsInv'
  OBVIOUS
<1>1. ASSUME NEW r \in Requests,
             Arrive(r) \/ Statement(r) \/ Fail(r) \/ LostCommit(r)
      PROVE  RowsInv'
  BY <1>1, ArriveRows, StatementRows, FaultRows
<1>2. CASE Crash
  BY <1>2, CrashRows
<1>3. CASE UNCHANGED vars
  BY <1>3 DEF vars, tables, RowsInv, Fit, Written, ByWhom, RegisteredOnce, InTx,
              Exists, GPUsOf
<1> QED
  BY <1>1, <1>2, <1>3 DEF Next, Quiet

(* Whatever registrations, updates, heartbeats and deletions overlap, fail *)
(* in the middle, are tried again or are cut off by a crash, a provider's  *)
(* GPUs are one client's list, whole and in its order; a heartbeat's       *)
(* report is stored at the GPUs it speaks of, at all of them or at none;   *)
(* and a registration creates one provider.                                *)
THEOREM RowsSoundCorrect == Spec => []RowsSound
<1>1. ASSUME IInv, RowsInv
      PROVE  RowsSound
  <2>1. ListsWhole
    BY <1>1 DEF RowsInv, Fit, Whole, Listed, Ordered, ListsWhole
  <2>2. MetricsByPosition
    <3> SUFFICES ASSUME NEW g \in gpu_details, g.report # <<>>
                 PROVE  Marked(g, GPUsOf(g.provider))
      BY DEF MetricsByPosition, Marked
    <3>1. g.provider \in Ids /\ g \in GPUsOf(g.provider)
      BY <1>1 DEF IInv, Shape, Older, GPU, GPUsOf
    <3> QED
      BY <1>1, <3>1 DEF RowsInv, Fit, Whole
  <2> QED
    BY <1>1, <2>1, <2>2 DEF RowsInv, RowsSound
<1> QED
  BY <1>1, InitRows, NextRows, Invariant, PTL DEF Spec
=============================================================================
